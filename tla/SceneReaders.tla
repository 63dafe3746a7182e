---------------------------- MODULE SceneReaders ----------------------------
(***************************************************************************)
(* One gaussian-birth file and both of its readers.  The streamed reader   *)
(* takes the records one at a time until they end, are cut between two     *)
(* records or are cut inside one; the indexed reader is then asked for the *)
(* same bytes, and for everything of theirs it can fetch.                  *)
(***************************************************************************)
EXTENDS StreamedScene

CONSTANTS
    FILES,    \* the files, sequences of records
    OPTIONS,  \* the options of a read
    TIMES     \* instants asked for

\* A file is a sequence of records, the rows of a Chunk and the bands of an index
\* entry are sequences, and an audio id is a number.
ASSUME FileAssumption ==
    \A f \in FILES :
        /\ f \in Seq(Range(f))
        /\ \A i \in DOMAIN f :
            /\ f[i].op = "CHUNK" => f[i].rows \in Seq(Range(f[i].rows))
            /\ f[i].op = "CHUNK_INDEX" => f[i].bands \in Seq(Range(f[i].bands))
            /\ f[i].op \in {"AUDIO_SOURCE", "AUDIO_DATA"} => f[i].id \in Nat

\* An Object Track has integer times, and is not sound against its checks.
ASSUME TrackAssumption ==
    /\ TIMES \subseteq Int
    /\ \A f \in FILES : \A i \in DOMAIN f : f[i].op = "OBJECT_TRACK" =>
          f[i].times \in Seq(Int) /\ (f[i].sound => ObjectTrackChecks(f[i].object, f[i].times))

ASSUME WeightAssumption ==
    /\ SLOT \in Nat /\ NODE \in Nat /\ ROW \in Nat
    /\ \A op \in FrontMatter \cup SummaryRecords : Weight[op] \in Nat

\* The bounds are numbers of bytes, and a band is a number.
ASSUME OptionAssumption == \A o \in OPTIONS : o.limit \in Nat /\ o.ceiling \in Nat /\ o.band \in Nat

VARIABLES
    file,     \* the bytes that were written
    options,
    s,        \* the streamed reader
    ending,   \* how the bytes ended: not yet, with the magic or in a cut
    streamed, \* what the streamed reader delivered, once asked: None is an error
    indexed   \* the scene the indexed reader opened
vars == <<file, options, s, ending, streamed, indexed>>

I == INSTANCE IndexedScene

Reads == ending = "none"
clean == ending = "whole"
cut == ending = "cut"

Init ==
    /\ file \in FILES
    /\ options \in OPTIONS
    /\ s = Opened(options)
    /\ ending = "none"
    /\ streamed = None
    /\ indexed = None

\* One turn of the streamed reader's loop.
ReadRecord ==
    /\ Reads /\ Reading(s) /\ s.at < Len(file)
    /\ s' = OnRecord(s, file[s.at + 1])
    /\ UNCHANGED <<file, options, ending, streamed, indexed>>

\* The reader's answer, and the other reader's, of the bytes `arrived`.
Deliver(arrived, end) ==
    /\ ending' = end
    /\ streamed' = Finish(s', end = "whole")
    /\ indexed' = I!OpenIndexed(arrived, end = "whole", options)
    /\ UNCHANGED <<file, options>>

\* The whole file, its magic included.
EndOfFile ==
    /\ Reads /\ Reading(s) /\ s.at = Len(file)
    /\ s' = s
    /\ Deliver(file, "whole")

\* The bytes end after a record, before the magic.
CutBetween ==
    /\ Reads /\ Reading(s)
    /\ s' = s
    /\ Deliver(SubSeq(file, 1, s.at), "cut")

\* The bytes end inside a record, before its body or within it.
CutInside ==
    /\ Reads /\ Reading(s) /\ s.at < Len(file)
    /\ \E body \in BOOLEAN : s' = OnPartial(s, file[s.at + 1], body)
    /\ Deliver(SubSeq(file, 1, s.at), "cut")

\* The reader gave up on a record.
Abandon ==
    /\ Reads /\ ~Reading(s)
    /\ s' = s
    /\ Deliver(file, "whole")

Next == ReadRecord \/ EndOfFile \/ CutBetween \/ CutInside \/ Abandon

Spec == Init /\ [][Next]_vars

----------------------------------------------------------------------------
(* The file as its records tell it                                         *)

ChunkOffsets == Ranked({i \in DOMAIN file : file[i].op = "CHUNK"})

NextChunk(i) == LET later == {j \in DOMAIN file : j > i /\ file[j].op = "CHUNK"}
                IN  IF later = {} THEN Len(file) + 1 ELSE Min(later)

BandOffsets(i) == {j \in DOMAIN file : i < j /\ j < NextChunk(i) /\ file[j].op = "SH_BAND_STREAM"}

FooterOf == Last(file)

\* The index names every chunk in file order, with all of its bands and nothing
\* else, and all the records of the summary are in it.
Indexed ==
    LET entries == I!Ops(I!SummaryOf(file), "CHUNK_INDEX")
    IN  /\ file # <<>> /\ FooterOf.op = "FOOTER" /\ FooterOf.summary_start \in 1 .. Len(file)
        /\ \A i \in 1 .. FooterOf.summary_start - 1 : file[i].op \notin SummaryRecords \cup {"FOOTER"}
        /\ [i \in DOMAIN entries |-> entries[i].chunk] = ChunkOffsets
        /\ \A i \in DOMAIN entries :
            /\ Range(entries[i].bands) = {<<file[j].band, j>> : j \in BandOffsets(entries[i].chunk)}
            /\ entries[i].t0 = file[entries[i].chunk].t0 /\ entries[i].t1 = file[entries[i].chunk].t1

\* No front matter after the first Chunk, where the indexed reader never looks.
InOrder == \A i \in DOMAIN file : file[i].op \in FrontMatter => \A j \in Range(ChunkOffsets) : i < j

\* An object's tracks without samples are the ones the readers disagree about.
NoEmptyTwin ==
    \A i, j \in DOMAIN file :
        i # j /\ file[i].op = "OBJECT_TRACK" /\ file[j].op = "OBJECT_TRACK" /\ file[i].times = <<>>
            => file[i].object # file[j].object

Comparable == Indexed /\ InOrder /\ NoEmptyTwin

\* No bound of this read is near.
Generous == options.ceiling >= 1000 /\ options.limit >= 1000 
            /\ options.records >= Len(file) /\ options.summary >= Len(file)

----------------------------------------------------------------------------
(* Everything the indexed reader can fetch of a scene it opened            *)

FetchedChunks(scene) ==
    [i \in DOMAIN scene.index |-> I!ReadChunk(file, scene, scene.index[i], options.band, options.limit)]

ChunksOf(fetched) == [i \in DOMAIN fetched |-> fetched[i][1]]

Fetches(scene) ==
    /\ \A i \in DOMAIN scene.index : IsSome(FetchedChunks(scene)[i])
    /\ Assembles(ChunksOf(FetchedChunks(scene)), scene.front.header[1])
    /\ IsSome(I!ReadCamera(file, scene)) /\ IsSome(I!ReadMetadata(file, scene))
    /\ IsSome(I!ReadAttachments(file, scene)) /\ IsSome(I!ReadProvenance(file, scene))
    /\ IsSome(I!ReadObjects(file, scene))

\* Every fetch in one record, as a streamed read of the file would hold it.
FetchedScene(scene) ==
    LET chunks == ChunksOf(FetchedChunks(scene))
        objects == I!ReadObjects(file, scene)[1]
    IN  [header |-> scene.front.header[1], chunks |-> chunks,
         gaussians |-> AssembleRows(chunks, I!WindowsOf(scene), scene.front.header[1]),
         audio |-> scene.audio, camera |-> I!ReadCamera(file, scene)[1],
         metadata |-> I!ReadMetadata(file, scene)[1], attachments |-> I!ReadAttachments(file, scene)[1],
         provenance |-> I!ReadProvenance(file, scene)[1], table |-> objects.table, tracks |-> objects.tracks,
         statistics |-> scene.statistics, index |-> scene.index, offsets |-> scene.offsets]

----------------------------------------------------------------------------
(* Properties                                                              *)

\* A file both readers take whole is the same scene to both: what is fetched
\* range by range through the index is what a front-to-back read holds.
ReadersAgree ==
    clean /\ Comparable /\ IsSome(streamed) /\ IsSome(indexed) =>
        LET scene == indexed[1] IN
            Fetches(scene) =>
                \A field \in DOMAIN FetchedScene(scene) : streamed[1][field] = FetchedScene(scene)[field]

\* The Footer ends the file: of two, the streamed reader keeps the verdict of the
\* first that the run it has read agrees with, and the indexed reader has the last.
FooterLast == \A i \in DOMAIN file : file[i].op = "FOOTER" => i = Len(file)

\* What the indexed reader passes over and the other looks at: a Camera that a later
\* one replaces, and the number of a band before the first Chunk.
Replaced(i) == file[i].op = "CAMERA" /\ \E j \in DOMAIN file : i < j /\ file[j].op = "CAMERA"
Orphan(i) == file[i].op = "SH_BAND_STREAM" /\ \A j \in Range(ChunkOffsets) : i < j

PassedOverSound == \A i \in DOMAIN file :
    /\ Replaced(i) => file[i].sound
    /\ Orphan(i) => file[i].band \in Bands

\* A Delta Chunk ends the front matter for the streamed reader alone.
NothingAfterDelta == \A i, j \in DOMAIN file :
    file[i].op = "DELTA_CHUNK" /\ i < j => file[j].op \notin FrontMatter

\* An entry that names one band twice is a fault to the indexed reader alone.
NamedOnce == \A i \in DOMAIN file : file[i].op = "CHUNK_INDEX" => IsInjective(file[i].bands)

OneRule == FooterLast /\ PassedOverSound /\ NothingAfterDelta /\ NamedOnce

\* What either reader refuses of a whole file, the other refuses too, at open or at
\* the fetch of the thing that is wrong: each of their rules has a counterpart, but
\* for those that OneRule and Comparable name.
ReadersRefuseTogether ==
    clean /\ Comparable /\ OneRule /\ Generous =>
        (IsSome(streamed) <=> (IsSome(indexed) /\ Fetches(indexed[1])))

\* The summary digest the streamed reader accumulates as records go by is the
\* one the indexed reader takes of the range the Footer names, whenever the
\* streamed reader commits itself and the Footer is the last record.
VerdictsAgree ==
    clean /\ FooterLast /\ IsSome(streamed) /\ IsSome(indexed) /\ IsSome(streamed[1].crc_ok) =>
        streamed[1].crc_ok = indexed[1].crc_ok

\* The scene the whole file would be, were it read with these options.
WholeScene == ReadStreamed(file, TRUE, options)

Ascending == \A i, j \in DOMAIN file :
    file[i].op = "SH_BAND_STREAM" /\ file[j].op = "SH_BAND_STREAM" /\ i < j /\ NextChunk(i) = NextChunk(j)
        => file[i].band < file[j].band

\* Recovery keeps what precedes the cut and nothing else: complete chunks of the
\* file in order, with the file's own bands once a second chunk has begun (and the
\* Header gives bands a meaning); and never more gaussians than a whole read would give.
RecoveredIsPrefix ==
    cut /\ IsSome(streamed) /\ IsSome(WholeScene) =>
        LET kept == streamed[1].chunks
            whole == WholeScene[1].chunks
        IN  /\ Len(kept) <= Len(whole)
            /\ \A i \in DOMAIN kept : [kept[i] EXCEPT !.bands = {}] = [whole[i] EXCEPT !.bands = {}]
            /\ \A i \in DOMAIN kept : kept[i].bands \subseteq whole[i].bands
            /\ (Len(kept) > 1 /\ s.header[1].sh_degree > 0) => \A i \in DOMAIN kept : kept[i].bands = whole[i].bands
            /\ [i \in DOMAIN streamed[1].gaussians |-> streamed[1].gaussians[i].id]
                  = SubSeq([i \in DOMAIN WholeScene[1].gaussians |-> WholeScene[1].gaussians[i].id],
                           1, Len(streamed[1].gaussians))

\* Every cut of a file that reads whole recovers, within the bounds that let the
\* whole be read and once its Header and its Quantization have arrived, if its
\* chunks carry their bands in order and its Footer ends it: no rule asks of a cut
\* file what the lost part would have supplied, and no bound is met sooner.
AnyCutRecovers ==
    /\ cut /\ options.recover /\ Ascending /\ FooterLast
    /\ IsSome(s.header) /\ IsSome(s.quantization)
    /\ IsSome(WholeScene)
    => IsSome(streamed)

\* The bytes charged to the records are the weight of the records held, at every
\* step: nothing is charged twice, and nothing replaced stays charged.
HeldOne(x, field) == IF IsSome(x[field]) THEN Weight[x[field][1].op] ELSE 0
HeldMany(x, field) == Slots(Len(x[field])) + Total([i \in DOMAIN x[field] |-> Weight[x[field][i].op]])
HeldOnes(x) ==
    HeldOne(x, "header") + HeldOne(x, "quantization") + HeldOne(x, "windows") + HeldOne(x, "legacy")
    + HeldOne(x, "camera") + HeldOne(x, "table") + HeldOne(x, "statistics")
HeldLists(x) ==
    HeldMany(x, "metadata") + HeldMany(x, "attachments") + HeldMany(x, "frames") + HeldMany(x, "sensors")
    + HeldMany(x, "rigs") + HeldMany(x, "anchors") + HeldMany(x, "tracks") + HeldMany(x, "index")
    + HeldMany(x, "offsets") + Slots(Len(x.intervals)) + Slots(Len(x.skipped))
HeldAudio(x) ==
    (Weight["AUDIO_SOURCE"] + NODE) * Cardinality(DOMAIN x.sources)
    + (Weight["AUDIO_DATA"] + NODE) * Cardinality(DOMAIN x.payloads)
Held(x) == HeldOnes(x) + HeldLists(x) + HeldAudio(x)

\* The same of the scene delivered, but for descriptors a cut left without a
\* payload: the reader drops them and never releases their bytes.
Delivered(x) ==
    Held(x) + Slots(Len(Sources(x)))
    - Weight["AUDIO_DATA"] * Cardinality(DOMAIN x.payloads \ MatchedIds(x))
    - NODE * (Cardinality(DOMAIN x.sources) + Cardinality(DOMAIN x.payloads))

ChargedExactly ==
    /\ Reading(s) => /\ s.retained = Held(s)
                     /\ s.decoded = DecodedBytes(s.chunks) + 4 * Slots(Len(s.chunks))
    /\ IsSome(streamed) => streamed[1].retained = Delivered(s)

\* Poses sampled from an unread track by halving are the poses of the whole
\* object layer, for any objects at any instant.
SampledPosesMatch ==
    clean /\ IsSome(indexed) =>
        LET scene == indexed[1]
            objects == I!ReadObjects(file, scene)
        IN  IsSome(objects) =>
            \A ids \in SUBSET DOMAIN scene.front.tracks, t \in TIMES :
                I!ReadPoses(file, scene, ids, t, {}) = Some(PosesAt(objects[1].tracks, ids, t))

\* specification index.md, section 3: a gaussian exists within its window and
\* within the interval of the Chunk that stores it.  What a read of the whole file
\* gives for an instant is what the chunks that contain the instant hold for it.
ChunkBoundsItsRows ==
    clean /\ IsSome(streamed) =>
        \A t \in TIMES :
            VisibleAt(streamed[1].gaussians, t) =
                VisibleAt(AssembleRows(SelectSeq(streamed[1].chunks, LAMBDA c : c.t0 <= t /\ t < c.t1),
                                       IF IsSome(s.windows) THEN s.windows[1].windows ELSE <<>>, streamed[1].header), t)
=============================================================================
