------------------------- MODULE SequenceValidator -------------------------
(***************************************************************************)
(* The full-file validator of rust/fourdgs/src/keyframe_delta_validate.rs  *)
(* and the identity counter `4dgs validate` keeps beside it                *)
(* (rust/cli/src/validate.rs).  It walks the state records once, in file   *)
(* order, and holds two populations: the state before the record and the   *)
(* keyframe of its group.  In indexed mode the walk is over the summary's  *)
(* entries, which must name exactly the physical state records; in         *)
(* streamed mode it is over the records, and an entry met later is         *)
(* compared with the counts remembered for its record.                     *)
(*                                                                         *)
(* Spherical-harmonic bands are not modelled (sh_degree is 0).             *)
(***************************************************************************)
EXTENDS KeyframeDeltaFile

CONSTANT MAX_DEPTH  \* 2^16 - 1: a chain one deeper has no depth to declare

VARIABLES
    mode,           \* ValidationMode: "indexed" or "streamed"; "none" before it is chosen
    validated,      \* "waiting", "walking", "counting", "valid" or "invalid"
    visit,          \* the next record (streamed) or entry in file order (indexed)
    current,        \* the state before it: [offset, depth, level, state]
    keyframe,       \* the keyframe of its group, likewise
    previous_t1,    \* where that state ends
    remembered,     \* offset -> [count, live] of the records decoded
    introduced      \* id -> how many times it joined the timeline

walkVars      == <<visit, current, keyframe, previous_t1, remembered, introduced>>
validatorVars == <<mode, validated, walkVars>>

NoState == [offset |-> 0, depth |-> 0, level |-> 0, state |-> EmptyPopulation]

ValidatorWaiting ==
    /\ mode = "none" /\ validated = "waiting" /\ visit = 1
    /\ current = NoState /\ keyframe = NoState /\ previous_t1 = 0
    /\ remembered = [o \in {} |-> 0]
    /\ introduced = [g \in Id |-> 0]

Others == <<fileVars, streamedVars, indexedVars>>

StateOffsets == {o \in DOMAIN file : file[o].op \in StateRecord}

\* validate_index_band_ownership: the entries and the state records are one to one.
OwnsEveryState(entries) ==
    /\ {entries[k].offset : k \in DOMAIN entries} = StateOffsets
    /\ \A j, k \in DOMAIN entries : entries[j].offset = entries[k].offset => j = k

\* The entries sorted by chunk_offset: the one at place k has k - 1 before it.
InFileOrder(entries) ==
    LET nth(k) == CHOOSE i \in DOMAIN entries :
                      Cardinality({j \in DOMAIN entries : entries[j].offset < entries[i].offset}) = k - 1
    IN  [k \in DOMAIN entries |-> entries[nth(k)]]

StartIndexed ==
    /\ validated = "waiting"
    /\ IndexedDone
    /\ validated' = IF /\ ending = "complete"
                       /\ SummaryEntries # <<>>
                       /\ TilesTimeline(SummaryEntries)
                       /\ ~LateFrontMatter
                       /\ OwnsEveryState(SummaryEntries)
                    THEN "walking" ELSE "invalid"
    /\ mode' = "indexed"
    /\ UNCHANGED <<walkVars, Others>>

StartStreamed ==
    /\ validated = "waiting"
    /\ IndexedDone
    /\ validated' = IF LateFrontMatter THEN "invalid" ELSE "walking"
    /\ mode' = "streamed"
    /\ UNCHANGED <<walkVars, Others>>

----------------------------------------------------------------------------
(* One state record.  x is what declares it: the entry in indexed mode, the *)
(* record itself in streamed mode; o is its offset and r the record.        *)

\* check_interval, the tiling of physically consecutive states, and its start.
Continues(x) == x.t0 <= x.t1 /\ x.t0 = previous_t1

\* The state the declared mode selects, a keyframe being at depth 0.
ReferenceFor(delta_mode) ==
    IF delta_mode = DELTA_MODE_KEYFRAME THEN [keyframe EXCEPT !.depth = 0] ELSE current

\* validate_delta, and the DELTA_CHUNK arm of validate_streamed.
DeltaInOrder(o, x) ==
    /\ x.mode \in {DELTA_MODE_KEYFRAME, DELTA_MODE_CHAINED}
    /\ current.offset # 0
    /\ x.reference < o
    /\ x.reference = ReferenceFor(x.mode).offset
    /\ ReferenceFor(x.mode).depth < MAX_DEPTH
    /\ x.depth = ReferenceFor(x.mode).depth + 1

Reborn(state, births) == births \cap state.ids \cap current.state.ids

\* check_repeated_birth_invariants, against the state just before.
KeepsInvariants(state, births) ==
    \A g \in Reborn(state, births), a \in GOP_INVARIANT :
        /\ a \in DOMAIN state.bins <=> a \in DOMAIN current.state.bins
        /\ a \in DOMAIN state.bins => state.bins[a][g] = current.state.bins[a][g]

DeltaResult(x, r) == ApplyDelta(ReferenceFor(x.mode).state, r.groups).state

DeltaValid(o, x, r) ==
    /\ DeltaInOrder(o, x)
    /\ DeltaAccepted(ReferenceFor(x.mode).state, r)
    /\ r.level = ReferenceFor(x.mode).level
    /\ r.keyframe = keyframe.offset
    /\ Selectable(r.t0, r.t1, DeltaResult(x, r))
    /\ KeepsInvariants(DeltaResult(x, r), r.groups.birth.ids)

KeyframeResult(r) == KeyframeState(r.group).state

\* A wrong KeyframeValid: composition without the checks the readers make on it.
KeyframeComposes(r) == r.readable /\ KeyframeState(r.group).code = "ok"

KeyframeValid(r) == KeyframeAccepted(r) /\ Selectable(r.t0, r.t1, KeyframeResult(r))

\* A wrong Introduce: an id is new when the group's keyframe does not have it.
IntroduceSinceKeyframe(state) ==
    introduced' = [g \in Id |-> introduced[g] + IF g \in state.ids \ keyframe.state.ids THEN 1 ELSE 0]

\* introductions: the ids that were not live in the state before.
Introduce(state) ==
    introduced' = [g \in Id |-> introduced[g] + IF g \in state.ids \ current.state.ids THEN 1 ELSE 0]

StepKeyframe(o, r) ==
    LET here == [offset |-> o, depth |-> 0, level |-> r.level, state |-> KeyframeResult(r)]
    IN  /\ current' = here
        /\ keyframe' = here
        /\ Introduce(KeyframeResult(r))
        /\ previous_t1' = r.t1

StepDelta(o, x, r) ==
    /\ current' = [offset |-> o, depth |-> x.depth, level |-> r.level, state |-> DeltaResult(x, r)]
    /\ Introduce(DeltaResult(x, r))
    /\ previous_t1' = r.t1
    /\ UNCHANGED keyframe

Invalid ==
    /\ validated' = "invalid"
    /\ UNCHANGED <<mode, walkVars, Others>>

----------------------------------------------------------------------------
(* validate_indexed                                                        *)

\* Every field the entry duplicates is the record's.
EntryIsKeyframe(e, r) ==
    /\ e.extended
    /\ e.t0 = r.t0 /\ e.t1 = r.t1
    /\ e.count = Cardinality(r.group.ids)
    /\ e.live = Cardinality(KeyframeResult(r).ids)
    /\ e.keyframe = e.offset /\ e.depth = 0 /\ e.mode = 0 /\ e.reference = 0

\* A wrong EntryIsDelta: the interval and the counts agree, as the reader asks.
EntryCountsDelta(e, r) ==
    /\ e.t0 = r.t0 /\ e.t1 = r.t1
    /\ e.count = Operations(r.groups)
    /\ e.live = Cardinality(DeltaResult(e, r).ids)

EntryIsDelta(e, r) ==
    /\ e.extended
    /\ e.t0 = r.t0 /\ e.t1 = r.t1
    /\ e.count = Operations(r.groups)
    /\ e.live = Cardinality(DeltaResult(e, r).ids)
    /\ e.mode = r.mode /\ e.reference = r.reference
    /\ e.keyframe = r.keyframe /\ e.depth = r.depth

EntryValid(e) ==
    /\ Continues(e)
    /\ e.kind \in {KEYFRAME_KIND, DELTA_KIND}
    /\ LinkRecord(e)
    /\ IF e.kind = KEYFRAME_KIND
       THEN KeyframeValid(file[e.offset]) /\ EntryIsKeyframe(e, file[e.offset])
       ELSE DeltaValid(e.offset, e, file[e.offset]) /\ EntryIsDelta(e, file[e.offset])

VisitEntry ==
    /\ validated = "walking" /\ mode = "indexed"
    /\ visit <= Len(SummaryEntries)
    /\ LET e == InFileOrder(SummaryEntries)[visit]
       IN  \/ /\ EntryValid(e)
              /\ \/ e.kind = KEYFRAME_KIND /\ StepKeyframe(e.offset, file[e.offset])
                 \/ e.kind = DELTA_KIND /\ StepDelta(e.offset, e, file[e.offset])
              /\ visit' = visit + 1
              /\ UNCHANGED <<mode, validated, remembered, Others>>
           \/ ~EntryValid(e) /\ Invalid

----------------------------------------------------------------------------
(* validate_streamed                                                       *)

RecordValid(o, r) ==
    CASE r.op = "CHUNK"       -> Continues(r) /\ KeyframeValid(r)
      [] r.op = "DELTA_CHUNK" -> /\ Continues(r)
                                 /\ DeltaValid(o, r, r)
      [] r.op = "CHUNK_INDEX" -> r.offset \in DOMAIN remembered =>
                                     /\ r.count = remembered[r.offset].count
                                     /\ r.extended => r.live = remembered[r.offset].live
      [] OTHER                -> TRUE

VisitRecord ==
    /\ validated = "walking" /\ mode = "streamed"
    /\ visit <= Len(file)
    /\ LET r == file[visit]
       IN  \/ /\ RecordValid(visit, r)
              /\ \/ /\ r.op = "CHUNK"
                    /\ StepKeyframe(visit, r)
                    /\ remembered' = Extended(remembered, visit,
                           [count |-> Cardinality(r.group.ids),
                            live  |-> Cardinality(KeyframeResult(r).ids)])
                 \/ /\ r.op = "DELTA_CHUNK"
                    /\ StepDelta(visit, r, r)
                    /\ remembered' = Extended(remembered, visit,
                           [count |-> Operations(r.groups),
                            live  |-> Cardinality(DeltaResult(r, r).ids)])
                 \/ /\ r.op \notin StateRecord
                    /\ UNCHANGED <<current, keyframe, introduced, previous_t1, remembered>>
              /\ visit' = visit + 1
              /\ UNCHANGED <<mode, validated, Others>>
           \/ ~RecordValid(visit, r) /\ Invalid

----------------------------------------------------------------------------
(* The end of the walk, and the identity counter                           *)

\* A cut leaves bytes that are no record, or a timeline that ends early.
WalkedToEnd ==
    IF mode = "indexed" THEN visit > Len(SummaryEntries) ELSE visit > Len(file)

Complete == mode = "streamed" => ending # "partial" /\ previous_t1 = header.duration_sec

FinishWalk ==
    /\ validated = "walking"
    /\ WalkedToEnd
    /\ \/ /\ Complete
          /\ validated' = "counting"
          /\ UNCHANGED <<mode, walkVars, Others>>
       \/ (~Complete \/ ending = "boundary") /\ Invalid

\* finish(): no id twice, and as many as the Header declares.
CountIdentities ==
    /\ validated = "counting"
    /\ validated' = IF /\ \A g \in Id : introduced[g] <= 1
                       /\ Cardinality({g \in Id : introduced[g] > 0}) = header.gaussian_count
                    THEN "valid" ELSE "invalid"
    /\ UNCHANGED <<mode, walkVars, Others>>

Validate == StartIndexed \/ StartStreamed \/ VisitEntry \/ VisitRecord
            \/ FinishWalk \/ CountIdentities

ValidatorDone == validated \in {"valid", "invalid"}
=============================================================================
