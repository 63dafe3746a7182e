--------------------------- MODULE SequenceWriter ---------------------------
(***************************************************************************)
(* The keyframe-delta encoder (write_sequence of keyframe_delta_file.rs    *)
(* behind the fourdgs_kd_writer handle of capi.rs), the transport of the   *)
(* bytes it returns, and the two readers of KeyframeDeltaFile on them.     *)
(*                                                                         *)
(* The handle collects samples; encode() checks and quantizes all of them, *)
(* writes one state record per sample, then the index.  It either returns  *)
(* the whole file or an error that leaves the handle as it was.            *)
(*                                                                         *)
(* A sample is modelled at the bins quantize_sample gives it.  Sample i of *)
(* the code is sample i + 1 here, and is written as record i + 1: the      *)
(* vector "offsets" of the code is the identity in this model.             *)
(***************************************************************************)
EXTENDS KeyframeDeltaFile

CONSTANTS
    Offered(_),     \* what the caller may append as sample i: [t0, state]
    OPTIONS,        \* cadence, mode, forced keyframes and duration the caller may set
    MAX_SAMPLES,    \* bound: samples one handle collects
    WINDOWS,        \* windows the samples declare between them
    DEPTH_MOD,      \* 2^16 in the code: depth is a u16
    CUTS            \* bound: how many records may survive a cut of the bytes

VARIABLES
    status,             \* "collecting", "encoding", "refused", "delivered" or "stored"
    options,            \* [every, mode, at, duration_sec]
    samples,            \* what the handle holds: [t0, state]
    quantized,          \* the populations encode() works on
    depths,             \* per record written, the depth it declares
    keyframe_offset,    \* the keyframe of the group being written
    summary             \* the index entries encode() has accumulated

handleVars == <<options, samples>>
encodeVars == <<quantized, depths, keyframe_offset, summary>>
readerVars == <<streamedVars, indexedVars>>
vars       == <<status, handleVars, encodeVars, fileVars, readerVars>>

\* quantize_sample emits every required attribute and no optional one; a
\* rotation index is one of four and a window index is in the table it is
\* looked up in.  Bins are 64-bit here: encode_stream is what narrows them.
IsQuantized(s) ==
    /\ s = [ids |-> s.ids, bins |-> s.bins]
    /\ s.ids \subseteq Id
    /\ s.bins \in [REQUIRED -> [s.ids -> Int]]
    /\ \A g \in s.ids : /\ s.bins["rotation_index"][g] \in 0 .. 3
                        /\ s.bins["window_index"][g] \in 0 .. WINDOWS - 1

Option == [every : Nat, mode : {DELTA_MODE_KEYFRAME, DELTA_MODE_CHAINED},
           at : SUBSET Nat, duration_sec : Int]

IsSample(x) == x = [t0 |-> x.t0, state |-> x.state] /\ x.t0 \in Int /\ IsQuantized(x.state)

ASSUME SampleAssumption == \A i \in 1 .. MAX_SAMPLES : \A x \in Offered(i) : IsSample(x)
ASSUME OptionAssumption == OPTIONS \subseteq Option
ASSUME BoundAssumption  == /\ MAX_SAMPLES \in Nat
                           /\ WINDOWS \in Nat \ {0}
                           /\ DEPTH_MOD \in Nat \ {0, 1}
                           /\ CUTS \subseteq Nat

----------------------------------------------------------------------------
(* The handle                                                              *)

Collecting == status \in {"collecting", "refused"}

SetOptions ==
    /\ Collecting
    /\ options' \in OPTIONS
    /\ UNCHANGED <<status, samples, encodeVars, fileVars, readerVars>>

\* A wrong AddSample: the new sample is numbered like the one before it.
AddSampleAgain ==
    /\ Collecting
    /\ Len(samples) < MAX_SAMPLES
    /\ \E x \in Offered(Len(samples)) : samples' = Append(samples, x)
    /\ status' = "collecting"
    /\ UNCHANGED <<options, encodeVars, fileVars, readerVars>>

AddSample ==
    /\ Collecting
    /\ Len(samples) < MAX_SAMPLES
    /\ \E x \in Offered(Len(samples) + 1) : samples' = Append(samples, x)
    /\ status' = "collecting"
    /\ UNCHANGED <<options, encodeVars, fileVars, readerVars>>

----------------------------------------------------------------------------
(* encode(): checks, then one record per sample                            *)

\* The end of sample i: the next one's start, or the duration.
T1(i) == IF i < Len(samples) THEN samples[i + 1].t0 ELSE options.duration_sec

\* At least one sample, and check_sample_tiling.
Tiling ==
    /\ samples # <<>>
    /\ samples[1].t0 = 0
    /\ \A i \in DOMAIN samples : /\ samples[i].t0 <= T1(i)
                                 /\ Selectable(samples[i].t0, T1(i), samples[i].state)

Refused ==
    /\ status' = "refused"
    /\ file' = <<>>
    /\ quantized' = <<>> /\ depths' = <<>> /\ keyframe_offset' = 0 /\ summary' = <<>>
    /\ UNCHANGED <<handleVars, header, summary_start, ending, readerVars>>

Encode ==
    /\ Collecting
    /\ \/ /\ Tiling
          /\ status' = "encoding"
          /\ quantized' = [i \in DOMAIN samples |-> samples[i].state]
          /\ header' = [duration_sec   |-> options.duration_sec,
                        gaussian_count |-> Cardinality(UNION {samples[i].state.ids : i \in DOMAIN samples}),
                        windows        |-> WINDOWS]
          /\ UNCHANGED <<handleVars, depths, keyframe_offset, summary,
                         file, summary_start, ending, readerVars>>
       \/ ~Tiling /\ Refused

\* is_keyframe, of the code's sample i - 1.
IsKeyframe(i) ==
    \/ i = 1
    \/ i - 1 \in options.at
    \/ options.every > 0 /\ (i - 1) % options.every = 0

\* keyframe_index: the nearest keyframe at or before sample i.
KeyframeIndex(i) == CHOOSE k \in 1 .. i : IsKeyframe(k) /\ \A j \in k + 1 .. i : ~IsKeyframe(j)

\* A keyframe restates every gaussian as born at its own t0.
Restated(s, t0) ==
    [s EXCEPT !.bins["mu_t"] =
        [g \in s.ids |-> MuBin(t0, s.bins["sigma_t"][g], s.bins["flags"][g])]]

\* A wrong Reference: always the sample before.
ReferenceBefore(i) == i - 1

Reference(i) == IF options.mode = DELTA_MODE_KEYFRAME THEN KeyframeIndex(i) ELSE i - 1

Depth(i) == IF options.mode = DELTA_MODE_KEYFRAME THEN 1 ELSE (depths[i - 1] + 1) % DEPTH_MOD

\* encode_stream refuses a symbol that does not fit, ...
Encodable(bins) == ~OutOfRange(bins)

\* ... and a difference of two neighbouring rows that does not, although it
\* would only be one of two candidate codings.  Row order is not kept, so any
\* two rows may be the neighbours.
MayRefuse(bins) ==
    \E a \in DOMAIN bins : \E g, h \in DOMAIN bins[a] : bins[a][g] - bins[a][h] \notin Bin

EncodableGroups(d) == Encodable(d.update.bins) /\ Encodable(d.birth.bins)
MayRefuseGroups(d) == MayRefuse(d.update.bins) \/ MayRefuse(d.birth.bins)

\* A wrong Entry: live_count counts the record's operations.
EntryOfOperations(i, kind, mode, reference, keyframe, depth, count) ==
    [op |-> "CHUNK_INDEX", t0 |-> samples[i].t0, t1 |-> T1(i), offset |-> i,
     count |-> count, extended |-> TRUE, kind |-> kind, mode |-> mode,
     reference |-> reference, keyframe |-> keyframe, depth |-> depth, live |-> count]

Entry(i, kind, mode, reference, keyframe, depth, count) ==
    [op |-> "CHUNK_INDEX", t0 |-> samples[i].t0, t1 |-> T1(i), offset |-> i,
     count |-> count, extended |-> TRUE, kind |-> kind, mode |-> mode,
     reference |-> reference, keyframe |-> keyframe, depth |-> depth,
     live |-> Cardinality(samples[i].state.ids)]

\* The sample encode() is at.
Next1 == Len(file) + 1

Encoding == status = "encoding" /\ Next1 <= Len(samples)

KeyframeAt(i) == Restated(quantized[i], samples[i].t0)

\* A wrong DeltaAt: the reference is the sample as given, not as written.
DeltaAgainstSample(i) == DeltaGroups(samples[Reference(i)].state, quantized[i])

DeltaAt(i) == DeltaGroups(quantized[Reference(i)], quantized[i])

EmitKeyframe ==
    /\ Encoding
    /\ IsKeyframe(Next1)
    /\ LET i == Next1
           s == KeyframeAt(i)
       IN  /\ Encodable(s.bins)
           /\ file' = Append(file, ChunkRecord(samples[i].t0, T1(i), Group(s.ids, s.bins)))
           /\ quantized' = [quantized EXCEPT ![i] = s]
           /\ depths' = Append(depths, 0)
           /\ keyframe_offset' = i
           /\ summary' = Append(summary,
                  Entry(i, KEYFRAME_KIND, DELTA_MODE_KEYFRAME, 0, i, 0, Cardinality(s.ids)))
    /\ UNCHANGED <<status, handleVars, header, summary_start, ending, readerVars>>

EmitDelta ==
    /\ Encoding
    /\ ~IsKeyframe(Next1)
    /\ LET i == Next1
           d == DeltaAt(i)
       IN  /\ ~ChangesInvariant(quantized[Reference(i)], quantized[i])
           /\ EncodableGroups(d)
           /\ file' = Append(file, DeltaRecord(samples[i].t0, T1(i), options.mode,
                                               Reference(i), keyframe_offset, Depth(i), d))
           /\ depths' = Append(depths, Depth(i))
           /\ summary' = Append(summary,
                  Entry(i, DELTA_KIND, options.mode, Reference(i), keyframe_offset, Depth(i),
                        Operations(d)))
    /\ UNCHANGED <<status, handleVars, quantized, keyframe_offset,
                   header, summary_start, ending, readerVars>>

\* A wrong EmitRefused: the error is swallowed and the sample tried again.
EmitRetried ==
    /\ Encoding
    /\ LET i == Next1
       IN  IF IsKeyframe(i)
           THEN ~Encodable(KeyframeAt(i).bins)
           ELSE ChangesInvariant(quantized[Reference(i)], quantized[i]) \/ ~EncodableGroups(DeltaAt(i))
    /\ UNCHANGED vars

\* A sample that cannot be written ends encode() with an error and no bytes.
EmitRefused ==
    /\ Encoding
    /\ LET i == Next1
       IN  IF IsKeyframe(i)
           THEN ~Encodable(KeyframeAt(i).bins) \/ MayRefuse(KeyframeAt(i).bins)
           ELSE \/ ChangesInvariant(quantized[Reference(i)], quantized[i])
                \/ ~EncodableGroups(DeltaAt(i))
                \/ MayRefuseGroups(DeltaAt(i))
    /\ Refused

\* The index, the Statistics record, the Footer and the closing magic.
WriteSummary ==
    /\ status = "encoding"
    /\ Len(file) = Len(samples)
    /\ file' = file \o summary \o <<[op |-> "STATISTICS"]>>
    /\ summary_start' = Len(file) + 1
    /\ ending' = "complete"
    /\ status' = "delivered"
    /\ UNCHANGED <<handleVars, encodeVars, header, readerVars>>

----------------------------------------------------------------------------
(* What happens to the bytes before they are read (external): they arrive  *)
(* whole, or cut anywhere after the front matter.                          *)

Store ==
    /\ status = "delivered"
    /\ status' = "stored"
    /\ \/ UNCHANGED <<file, ending>>
       \/ \E n \in CUTS, how \in {"boundary", "partial"} :
              n <= Len(file) /\ file' = SubSeq(file, 1, n) /\ ending' = how
    /\ UNCHANGED <<handleVars, encodeVars, header, summary_start, readerVars>>

Read == /\ status = "stored"
        /\ DecodeStreamed \/ DecodeIndexed
        /\ UNCHANGED <<status, handleVars, encodeVars>>

Done == IndexedDone /\ UNCHANGED vars

----------------------------------------------------------------------------
Init ==
    /\ status = "collecting"
    /\ options \in OPTIONS
    /\ samples = <<>>
    /\ quantized = <<>> /\ depths = <<>> /\ keyframe_offset = 0 /\ summary = <<>>
    /\ header = [duration_sec |-> 0, gaussian_count |-> 0, windows |-> 0]
    /\ file = <<>> /\ summary_start = 0 /\ ending = "boundary"
    /\ ReadersWaiting

EncodeStep == EmitKeyframe \/ EmitDelta \/ EmitRefused \/ WriteSummary

Next == \/ SetOptions \/ AddSample \/ Encode
        \/ EncodeStep
        \/ Store
        \/ Read
        \/ Done

\* encode() and the readers are loops of one thread: once entered they run on.
Fairness == WF_vars(EncodeStep) /\ WF_vars(Read)

Spec     == Init /\ [][Next]_vars
FairSpec == Spec /\ Fairness

----------------------------------------------------------------------------
(* Properties                                                              *)

\* Every variable has the type its comment gives it.
TypeOK ==
    /\ status \in {"collecting", "encoding", "refused", "delivered", "stored"}
    /\ options \in OPTIONS
    /\ Len(samples) \in 0 .. MAX_SAMPLES
    /\ \A i \in DOMAIN samples : samples[i] \in Offered(i)
    /\ keyframe_offset \in Nat /\ summary_start \in Nat
    /\ depths \in Seq(0 .. DEPTH_MOD - 1)
    /\ ending \in Ending
    /\ streamed \in {"waiting", "reading", "ok", "refused"}
    /\ at \in Nat \ {0}
    /\ indexed \in {"waiting", "walking", "reading", "ok", "refused"}
    /\ entry \in Nat \ {0} /\ link \in Nat

\* The population the caller's sample i stands for in the file: its own bins,
\* with the birth times a keyframe restates.
Source(i) == IF IsKeyframe(i) THEN Restated(samples[i].state, samples[i].t0) ELSE samples[i].state

Delivers(o, info) == info.state = Source(o) /\ info.t0 = samples[o].t0 /\ info.t1 = T1(o)

\* The telescoping claim of keyframe_delta.rs ("the composed bin is q(x_d)"):
\* whatever mix of keyframes and deltas wrote a sample, the population the
\* streamed reader composes for it is that sample's, bin for bin.
StreamedIsSource == \A o \in DOMAIN decoded : o \in DOMAIN samples /\ Delivers(o, decoded[o])

\* The same of the indexed reader, which composes each state from its keyframe
\* through the chain the index names, without the states before it.
IndexedIsSource ==
    \A k \in DOMAIN answers : /\ k \in DOMAIN samples
                              /\ answers[k] = Source(k)
                              /\ index[k].t0 = samples[k].t0 /\ index[k].t1 = T1(k)

\* Every sample whose record is there is one a reader can hold.
Representable == \A i \in DOMAIN samples : i \in DOMAIN file => ~OutOfRange(Source(i).bins)

\* No chain is longer than the depth can count.
DepthsFit ==
    options.mode = DELTA_MODE_CHAINED =>
        \A i \in DOMAIN samples : i - KeyframeIndex(i) < DEPTH_MOD

\* A file of representable samples that arrives whole is refused by neither
\* reader, and each delivers every sample of it.  Only the indexed reader looks
\* at depths.
WholeFilesDecode ==
    status = "stored" /\ ending = "complete" /\ Representable =>
        /\ streamed # "refused"
        /\ DepthsFit => indexed # "refused"
        /\ streamed = "ok" => DOMAIN decoded = DOMAIN samples
        /\ indexed = "ok" => DOMAIN answers = DOMAIN samples

\* Section 11.10: references point backwards, so the records before a cut at
\* a record boundary are a file in themselves; all their states are delivered.
BoundaryCutsDecode ==
    status = "stored" /\ ending = "boundary" /\ Representable =>
        /\ streamed # "refused"
        /\ streamed = "ok" => DOMAIN decoded = {o \in DOMAIN file : file[o].op \in StateRecord}

\* Section 11.8: a seek costs at most one group of pictures.  Every chain the
\* indexed reader walks stays behind one keyframe, and in keyframe mode it is
\* that keyframe and one delta.
SeeksWithinGroup ==
    indexed \in {"walking", "reading"} /\ chain # <<>> =>
        /\ \A k \in DOMAIN chain : chain[k].offset \in KeyframeIndex(entry) .. entry
        /\ options.mode = DELTA_MODE_KEYFRAME => Len(chain) <= 2
        /\ options.every > 0 => Len(chain) <= options.every

\* Record i of the file states sample i: a keyframe outright, a delta against
\* the population the record it references states.
RecordHolds(i) ==
    IF IsKeyframe(i)
    THEN /\ file[i].op = "CHUNK"
         /\ file[i].group = Group(Source(i).ids, Source(i).bins)
         /\ Encodable(Source(i).bins)
    ELSE /\ file[i].op = "DELTA_CHUNK"
         /\ file[i].reference = Reference(i)
         /\ file[i].groups = DeltaGroups(Source(Reference(i)), Source(i))
         /\ ~ChangesInvariant(Source(Reference(i)), Source(i))

Writing == status \in {"encoding", "delivered", "stored"}

\* While encode() runs, and of the bytes it returned, whatever is left of them:
\* the state records are those of the samples, in order, and nothing after them
\* is a state record; encode() works on the populations it has written so far,
\* and on the samples for the rest.
FileHolds ==
    Writing => \A i \in DOMAIN file :
        IF i <= Len(samples)
        THEN /\ RecordHolds(i)
             /\ file[i].t0 = samples[i].t0 /\ file[i].t1 = T1(i)
        ELSE file[i].op \notin StateRecord

WorkHolds ==
    status = "encoding" =>
        /\ Len(file) <= Len(samples)
        /\ Len(depths) = Len(file) /\ Len(summary) = Len(file)
        /\ \A k \in DOMAIN summary : summary[k].op = "CHUNK_INDEX"
        /\ quantized = [i \in DOMAIN samples |->
                            IF i <= Len(file) THEN Source(i) ELSE samples[i].state]

\* The writer, the transport and both readers implement StateTimeline: the
\* bytes returned by encode() publish the timeline, and the populations a
\* reader has composed so far are what it knows.
Published   == status \in {"delivered", "stored"}
Known       == [streamed |-> [o \in DOMAIN decoded |-> decoded[o].state],
                indexed  |-> answers]
Outcome     == [streamed |-> IF streamed = "ok" THEN "delivered"
                             ELSE IF streamed = "refused" THEN "failed" ELSE "open",
                indexed  |-> IF indexed = "ok" THEN "delivered"
                             ELSE IF indexed = "refused" THEN "failed" ELSE "open"]

Timeline == INSTANCE StateTimeline WITH
                Reader       <- {"streamed", "indexed"},
                IsPopulation <- IsQuantized,
                timeline     <- IF Published THEN [i \in DOMAIN samples |-> Source(i)] ELSE <<>>,
                known        <- Known,
                outcome      <- Outcome

ImplementsTimeline == Timeline!Spec

\* Once encode() is entered it ends: with an error, or with bytes that both
\* readers come to a verdict on.
LoopsEnd ==
    /\ status = "encoding" ~> status \in {"refused", "delivered"}
    /\ status = "stored" ~> IndexedDone

----------------------------------------------------------------------------
(* What the repository says and this code does not do                      *)

\* Where the trajectory of gaussian g is at the instant t: its position, moved
\* by its motion since its birth time (MEASURED names both).
Centre(s, g, t) ==
    s.bins["position"][g] + s.bins["motion"][g] *
        (t - s.bins["mu_t"][g] * MuStep(s.bins["sigma_t"][g], s.bins["flags"][g]))

\* "Position and mu_t are one coupled trajectory anchor": a gaussian is decoded
\* where its sample has it, at every instant of the sample's interval.
CentresSurvive ==
    \A o \in DOMAIN decoded : \A g \in decoded[o].state.ids, t \in samples[o].t0 .. T1(o) :
        Centre(decoded[o].state, g, t) = Centre(samples[o].state, g, t)
=============================================================================
