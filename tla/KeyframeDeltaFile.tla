------------------------- MODULE KeyframeDeltaFile -------------------------
(***************************************************************************)
(* A keyframe-delta file and its two readers, from                         *)
(* rust/fourdgs/src/keyframe_delta_file.rs:                                *)
(*                                                                         *)
(*   decode_streamed   walks the records front to back, composing each     *)
(*                     state chunk onto the one its record references;     *)
(*   decode_indexed    reads the summary from the Footer, then for every   *)
(*                     index entry walks the chain the index names and     *)
(*                     composes it link by link.                           *)
(*                                                                         *)
(* A file is the sequence of its physical records that follow the front    *)
(* matter, and a record's offset is its position in that sequence: 0 is no *)
(* record.  Each reader is a single-threaded function over immutable       *)
(* bytes, one step per record (streamed) or per range read (indexed); the  *)
(* indexed reader is run after the streamed one because they share nothing *)
(* but the bytes.  A reader that fails returns an error and no sequence.   *)
(***************************************************************************)
EXTENDS KeyframeDelta, Sequences, SequencesExt

VARIABLES
    header,         \* the front matter: [duration_sec, gaussian_count, windows]
    file,           \* the physical records
    summary_start,  \* what the Footer says; 0 when there is no summary
    ending          \* how the bytes end: see Ending

VARIABLES
    streamed,       \* decode_streamed: "waiting", "reading", "ok" or "refused"
    at,             \* the record decode_streamed reads next
    decoded         \* offset -> ChunkInfo, for the state chunks decoded so far

VARIABLES
    indexed,        \* decode_indexed: "waiting", "walking", "reading", "ok" or "refused"
    index,          \* the Chunk Index entries read by open_indexed
    entry,          \* the entry whose chain is being composed
    chain,          \* its chain so far, oldest link first
    link,           \* how many links have been read and composed
    composed,       \* the population those links compose to
    answers         \* entry number -> the population delivered for it

fileVars     == <<header, file, summary_start, ending>>
streamedVars == <<streamed, at, decoded>>
indexedVars  == <<indexed, index, entry, chain, link, composed, answers>>

\* "complete": Footer and closing magic are there.  "boundary": the bytes stop
\* where fewer than a record's framing is left.  "partial": they stop inside a
\* record that follows the ones in file.
Ending == {"complete", "boundary", "partial"}

KEYFRAME_KIND == 0
DELTA_KIND    == 1

\* delta_mode
DELTA_MODE_KEYFRAME == 0
DELTA_MODE_CHAINED  == 1

----------------------------------------------------------------------------
(* Records                                                                 *)

ChunkRecord(t0, t1, group) ==
    [op |-> "CHUNK", t0 |-> t0, t1 |-> t1, level |-> 0, readable |-> TRUE, group |-> group]

DeltaRecord(t0, t1, mode, reference, keyframe, depth, groups) ==
    [op |-> "DELTA_CHUNK", t0 |-> t0, t1 |-> t1, level |-> 0, readable |-> TRUE,
     mode |-> mode, reference |-> reference, keyframe |-> keyframe, depth |-> depth,
     groups |-> groups]

StateRecord == {"CHUNK", "DELTA_CHUNK"}

\* Rows a delta record's three groups declare together.
Operations(groups) ==
    Cardinality(groups.update.ids) + Cardinality(groups.birth.ids) + Cardinality(groups.death.ids)

----------------------------------------------------------------------------
(* Checks both readers make on what one record decodes to                  *)

MissingRequired(group) == group.ids # {} /\ ~(REQUIRED \subseteq DOMAIN group.bins)

\* check_window_indices: an absent table is one (0, 0) window.
WindowsInTable(s) ==
    LET table_len == IF header.windows = 0 THEN 1 ELSE header.windows
    IN  IF "window_index" \in DOMAIN s.bins
        THEN \A g \in DOMAIN s.bins["window_index"] :
                 s.bins["window_index"][g] \in 0 .. table_len - 1
        ELSE s.ids = {}

\* check_keyframe_mu_t: every gaussian a keyframe states is born at its t0.
BornAtStart(s, t0) ==
    \A g \in s.ids :
        s.bins["mu_t"][g] = MuBin(t0, s.bins["sigma_t"][g], s.bins["flags"][g])

\* check_streamed_population: no instant selects a half-open interval of no width.
Selectable(t0, t1, s) == t0 = t1 => s.ids = {}

KeyframeAccepted(r) ==
    LET read == KeyframeState(r.group)
    IN  /\ r.readable
        /\ ~MissingRequired(r.group)
        /\ read.code = "ok"
        /\ BornAtStart(read.state, r.t0)
        /\ WindowsInTable(read.state)

\* A wrong DeltaAccepted: a birth need not carry the required attributes.
DeltaAcceptedWithPartialBirth(reference, r) ==
    LET read == ApplyDelta(reference, r.groups)
    IN  r.readable /\ read.code = "ok" /\ WindowsInTable(read.state)

\* decode_delta's own checks, then apply_delta, then the window check.
DeltaAccepted(reference, r) ==
    LET read == ApplyDelta(reference, r.groups)
    IN  /\ r.readable
        /\ ~MissingRequired(r.groups.birth)
        /\ DOMAIN r.groups.death.bins = {}
        /\ read.code = "ok"
        /\ WindowsInTable(read.state)

----------------------------------------------------------------------------
(* decode_streamed                                                         *)

\* f with one more entry.
Extended(f, x, y) == [z \in DOMAIN f \cup {x} |-> IF z = x THEN y ELSE f[z]]

NoChunks == [o \in {} |-> EmptyPopulation]

ChunkInfo(r, ops, state) ==
    [t0 |-> r.t0, t1 |-> r.t1, ops |-> ops, state |-> state,
     reference |-> IF r.op = "CHUNK" THEN 0 ELSE r.reference,
     depth     |-> IF r.op = "CHUNK" THEN 0 ELSE r.depth]

\* check_streamed_front_matter_placement: a Header, Quantization or Window
\* Table after the first state record outranks every other diagnosis.
LateFrontMatter ==
    \E i, j \in DOMAIN file :
        i < j /\ file[i].op \in StateRecord /\ file[j].op = "FRONT_MATTER"

OpenStreamed ==
    /\ streamed = "waiting"
    /\ streamed' = IF LateFrontMatter THEN "refused" ELSE "reading"
    /\ at' = 1
    /\ decoded' = NoChunks
    /\ UNCHANGED <<fileVars, indexedVars>>

\* A reference that points backwards, at a state that has been decoded.
ReferenceDecoded(r) == r.reference < at /\ r.reference \in DOMAIN decoded

\* check_decoded_index_counts, against the chunk the entry names if there is one.
CountsAgree(e) ==
    e.offset \in DOMAIN decoded =>
        /\ e.count = decoded[e.offset].ops
        /\ e.extended => e.live = Cardinality(decoded[e.offset].state.ids)

StreamedAccepts(r) ==
    CASE r.op = "CHUNK"       -> /\ KeyframeAccepted(r)
                                 /\ Selectable(r.t0, r.t1, KeyframeState(r.group).state)
      [] r.op = "DELTA_CHUNK" -> /\ ReferenceDecoded(r)
                                 /\ DeltaAccepted(decoded[r.reference].state, r)
                                 /\ Selectable(r.t0, r.t1,
                                        ApplyDelta(decoded[r.reference].state, r.groups).state)
      [] r.op = "CHUNK_INDEX" -> CountsAgree(r)
      [] OTHER                -> TRUE

ReadingRecord(op) ==
    /\ streamed = "reading"
    /\ at <= Len(file)
    /\ file[at].op = op
    /\ StreamedAccepts(file[at])
    /\ at' = at + 1
    /\ UNCHANGED <<streamed, fileVars, indexedVars>>

ReadChunk ==
    /\ ReadingRecord("CHUNK")
    /\ LET state == KeyframeState(file[at].group).state
       IN  decoded' = Extended(decoded, at, ChunkInfo(file[at], Cardinality(state.ids), state))

ReadDeltaChunk ==
    /\ ReadingRecord("DELTA_CHUNK")
    /\ LET r     == file[at]
           state == ApplyDelta(decoded[r.reference].state, r.groups).state
       IN  decoded' = Extended(decoded, at, ChunkInfo(r, Operations(r.groups), state))

ReadChunkIndex ==
    /\ ReadingRecord("CHUNK_INDEX")
    /\ UNCHANGED decoded

\* Statistics, and any record this reader does not know.
ReadOther ==
    /\ streamed = "reading"
    /\ at <= Len(file)
    /\ file[at].op \notin StateRecord \cup {"CHUNK_INDEX"}
    /\ at' = at + 1
    /\ UNCHANGED <<streamed, decoded, fileVars, indexedVars>>

\* The first record that fails ends the decode with nothing delivered.
RefuseRecord ==
    /\ streamed = "reading"
    /\ at <= Len(file)
    /\ ~StreamedAccepts(file[at])
    /\ streamed' = "refused"
    /\ decoded' = NoChunks
    /\ UNCHANGED <<at, fileVars, indexedVars>>

\* Two wrong forms of EndOfRecords: any cut is an error, ...
EndOfWholeRecords ==
    /\ streamed = "reading"
    /\ at > Len(file)
    /\ streamed' = IF ending # "complete" THEN "refused" ELSE "ok"
    /\ decoded'  = IF ending # "complete" THEN NoChunks ELSE decoded
    /\ UNCHANGED <<at, fileVars, indexedVars>>

\* ... and a cut record leaves the states before it with the error.
EndOfRecordsKept ==
    /\ streamed = "reading"
    /\ at > Len(file)
    /\ streamed' = IF ending = "partial" THEN "refused" ELSE "ok"
    /\ UNCHANGED <<at, decoded, fileVars, indexedVars>>

\* Records::next: fewer bytes than a framing are the end of the file, a record
\* whose body is cut is an error.
EndOfRecords ==
    /\ streamed = "reading"
    /\ at > Len(file)
    /\ streamed' = IF ending = "partial" THEN "refused" ELSE "ok"
    /\ decoded'  = IF ending = "partial" THEN NoChunks ELSE decoded
    /\ UNCHANGED <<at, fileVars, indexedVars>>

DecodeStreamed == \/ OpenStreamed
                  \/ ReadChunk \/ ReadDeltaChunk \/ ReadChunkIndex \/ ReadOther
                  \/ RefuseRecord
                  \/ EndOfRecords

StreamedDone == streamed \in {"ok", "refused"}

----------------------------------------------------------------------------
(* open_indexed                                                            *)

\* The run of Chunk Index records that starts where the Footer points.
SummaryEntries ==
    LET tail == SubSeq(file, summary_start, Len(file))
        stop == SelectInSeq(tail, LAMBDA r : r.op # "CHUNK_INDEX")
    IN  IF summary_start = 0 THEN <<>>
        ELSE IF stop = 0 THEN tail
        ELSE SubSeq(tail, 1, stop - 1)

\* The entries by t0, entries of one t0 in index order: the one at place k has
\* k - 1 before it.
InTimeOrder(entries) ==
    LET earlier(i, j) == \/ entries[i].t0 < entries[j].t0
                         \/ entries[i].t0 = entries[j].t0 /\ i < j
        nth(k) == CHOOSE i \in DOMAIN entries :
                      Cardinality({j \in DOMAIN entries : earlier(j, i)}) = k - 1
    IN  [k \in DOMAIN entries |-> entries[nth(k)]]

\* check_tiling and check_timeline_endpoints.
TilesTimeline(entries) ==
    LET ordered == InTimeOrder(entries)
        last    == Len(ordered)
    IN  /\ \A k \in 1 .. last - 1 : ordered[k].t1 = ordered[k + 1].t0
        /\ entries # <<>> => /\ ordered[1].t0 = 0
                             /\ ordered[last].t1 = header.duration_sec

NoAnswers == [k \in {} |-> EmptyPopulation]

OpenIndexed ==
    /\ indexed = "waiting"
    /\ StreamedDone
    /\ index'   = IF ending = "complete" THEN SummaryEntries ELSE <<>>
    /\ indexed' = IF ending = "complete" /\ TilesTimeline(SummaryEntries)
                  THEN "walking" ELSE "refused"
    /\ entry' = 1
    /\ chain' = <<>>
    /\ link' = 0
    /\ composed' = EmptyPopulation
    /\ answers' = NoAnswers
    /\ UNCHANGED <<fileVars, streamedVars>>

----------------------------------------------------------------------------
(* decode_indexed: for each entry, chain_ending_at and then compose_chain  *)

RefuseIndexed ==
    /\ indexed' = "refused"
    /\ answers' = NoAnswers
    /\ UNCHANGED <<index, entry, chain, link, composed, fileVars, streamedVars>>

\* Names the last entry for an offset, as the by_offset map does; 0 for none.
EntryAt(offset) == SelectLastInSeq(index, LAMBDA e : e.offset = offset)

StartChain ==
    /\ indexed = "walking"
    /\ entry <= Len(index)
    /\ chain = <<>>
    /\ chain' = <<index[entry]>>
    /\ UNCHANGED <<indexed, index, entry, link, composed, answers, fileVars, streamedVars>>

Walking == indexed = "walking" /\ chain # <<>>

\* The link before the head exists, lies behind it, and keeps the chain within the index.
CanWalkBack ==
    /\ Head(chain).reference < Head(chain).offset
    /\ EntryAt(Head(chain).reference) # 0
    /\ Len(chain) + 1 <= Len(index)

WalkBack ==
    /\ Walking
    /\ Head(chain).kind # KEYFRAME_KIND
    /\ \/ /\ CanWalkBack
          /\ chain' = <<index[EntryAt(Head(chain).reference)]>> \o chain
          /\ UNCHANGED <<indexed, index, entry, link, composed, answers, fileVars, streamedVars>>
       \/ ~CanWalkBack /\ RefuseIndexed

\* The walk reached a keyframe: its length must be what the entry declares.
CheckDepth ==
    /\ Walking
    /\ Head(chain).kind = KEYFRAME_KIND
    /\ \/ /\ Len(chain) - 1 = index[entry].depth
          /\ indexed' = "reading"
          /\ link' = 0
          /\ UNCHANGED <<index, entry, chain, composed, answers, fileVars, streamedVars>>
       \/ Len(chain) - 1 # index[entry].depth /\ RefuseIndexed

\* The record a link names, of the kind it names.
LinkRecord(e) ==
    /\ e.offset \in DOMAIN file
    /\ file[e.offset].op = (IF e.kind = KEYFRAME_KIND THEN "CHUNK" ELSE "DELTA_CHUNK")

\* What read_keyframe_entry or read_delta_entry composes for a link.
LinkState(e) ==
    IF e.kind = KEYFRAME_KIND THEN KeyframeState(file[e.offset].group).state
                              ELSE ApplyDelta(composed, file[e.offset].groups).state

LinkOperations(e) ==
    IF e.kind = KEYFRAME_KIND THEN Cardinality(file[e.offset].group.ids)
                              ELSE Operations(file[e.offset].groups)

\* The link decodes, and the entry's counts and interval are the record's.
LinkAccepted(e) ==
    /\ LinkRecord(e)
    /\ IF e.kind = KEYFRAME_KIND THEN KeyframeAccepted(file[e.offset])
                                 ELSE DeltaAccepted(composed, file[e.offset])
    /\ e.count = LinkOperations(e)
    /\ e.t0 = file[e.offset].t0 /\ e.t1 = file[e.offset].t1
    /\ e.live = Cardinality(LinkState(e).ids)
    /\ Selectable(e.t0, e.t1, LinkState(e))

ReadLink ==
    /\ indexed = "reading"
    /\ link < Len(chain)
    /\ LET e == chain[link + 1]
       IN  \/ /\ LinkAccepted(e)
              /\ composed' = LinkState(e)
              /\ link' = link + 1
              /\ UNCHANGED <<indexed, index, entry, chain, answers, fileVars, streamedVars>>
           \/ ~LinkAccepted(e) /\ RefuseIndexed

\* A wrong AnswerEntry: the loop stays at the entry.
AnswerSameEntry ==
    /\ indexed = "reading"
    /\ link = Len(chain)
    /\ indexed' = "walking"
    /\ chain' = <<>>
    /\ UNCHANGED <<index, entry, link, composed, answers, fileVars, streamedVars>>

\* The whole chain is composed: deliver the entry's state, go to the next entry.
AnswerEntry ==
    /\ indexed = "reading"
    /\ link = Len(chain)
    /\ answers' = Extended(answers, entry, composed)
    /\ entry' = entry + 1
    /\ chain' = <<>>
    /\ link' = 0
    /\ composed' = EmptyPopulation
    /\ indexed' = "walking"
    /\ UNCHANGED <<index, fileVars, streamedVars>>

FinishIndexed ==
    /\ indexed = "walking"
    /\ entry > Len(index)
    /\ indexed' = "ok"
    /\ UNCHANGED <<index, entry, chain, link, composed, answers, fileVars, streamedVars>>

DecodeIndexed == \/ OpenIndexed
                 \/ StartChain \/ WalkBack \/ CheckDepth
                 \/ ReadLink
                 \/ AnswerEntry
                 \/ FinishIndexed

IndexedDone == indexed \in {"ok", "refused"}

\* Readers that have been given no bytes yet.
ReadersWaiting ==
    /\ streamed = "waiting" /\ at = 1 /\ decoded = NoChunks
    /\ indexed = "waiting" /\ index = <<>> /\ entry = 1 /\ chain = <<>> /\ link = 0
    /\ composed = EmptyPopulation /\ answers = NoAnswers
=============================================================================
