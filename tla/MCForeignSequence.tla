------------------------- MODULE MCForeignSequence -------------------------
(***************************************************************************)
(* Small sets of files for ForeignSequence: state records with one thing   *)
(* wrong at a time, linked well or badly, under an index that repeats them *)
(* faithfully or misstates one field.                                      *)
(***************************************************************************)
EXTENDS ForeignSequence

CONSTANTS g1, g2

ThreeBitMin == -4
MCMuStep(sigma, flags) == IF sigma = 0 THEN 2 ELSE 1

\* A complete row of bins, the same for every gaussian of a group but for what
\* overrides says.
Columns(ids, attributes, overrides) ==
    [a \in attributes |-> [g \in ids |-> IF a \in DOMAIN overrides THEN overrides[a] ELSE 0]]

Full(ids, overrides) == Group(ids, Columns(ids, REQUIRED \cup DOMAIN overrides, overrides))

None == [a \in {} |-> 0]

----------------------------------------------------------------------------
(* Keyframe groups of a chunk that starts at t0                            *)

MuAt(t0) == "mu_t" :> MuBin(t0, 0, 0)

GoodKeyframes(t0) == {EmptyGroup, Full({g1}, MuAt(t0)), Full({g1, g2}, MuAt(t0)),
                      Full({g1}, MuAt(t0) @@ ("object_id" :> 3))}

BadKeyframes(t0) ==
    {[Full({g1}, MuAt(t0)) EXCEPT !.repeated = TRUE],
     Full({g1}, "mu_t" :> 3),
     Full({g1}, MuAt(t0) @@ ("position" :> 4)),
     Full({g1}, MuAt(t0) @@ ("rotation_index" :> 4 - 8)),
     Full({g1}, MuAt(t0) @@ ("window_index" :> 1)),
     Group({g1}, Columns({g1}, REQUIRED \ {"sigma_t"}, MuAt(t0)))}

----------------------------------------------------------------------------
(* Delta groups                                                            *)

Change(overrides) == Group({g1}, Columns({g1}, DOMAIN overrides, overrides))

Delta(update, birth, dead) == [update |-> update, birth |-> birth, death |-> Group(dead, NoColumns)]

Nudge == Change("position" :> 2)

GoodDeltas ==
    {Delta(Nudge, EmptyGroup, {}),
     Delta(Change("object_id" :> 2), EmptyGroup, {}),
     Delta(EmptyGroup, Full({g2}, "sigma_t" :> 1), {}),
     Delta(Nudge, EmptyGroup, {g2}),
     Delta(EmptyGroup, EmptyGroup, {g1}),
     Delta(EmptyGroup, Full({g1}, None), {g2})}

BadDeltas ==
    {Delta(Change("position" :> 5), EmptyGroup, {}),
     Delta(Change("sigma_t" :> 1), EmptyGroup, {}),
     Delta(Change("rotation_index" :> 1), EmptyGroup, {}),
     Delta(Change("rotation" :> 1 @@ "rotation_index" :> -1), EmptyGroup, {}),
     Delta([Nudge EXCEPT !.repeated = TRUE], EmptyGroup, {}),
     Delta(Nudge, EmptyGroup, {g1}),
     Delta(EmptyGroup, Full({g1}, None), {g1}),
     Delta(EmptyGroup, Full({g2}, "window_index" :> 1), {}),
     Delta(EmptyGroup, Full({g2}, "flags" :> 9), {}),
     Delta(EmptyGroup, Group({g2}, Columns({g2}, {"position", "window_index"}, None)), {})}

----------------------------------------------------------------------------
(* Records and files                                                       *)

\* How delta number i of a file may be linked: well, then with one field wrong.
GoodLinks(i) == {[mode |-> DELTA_MODE_CHAINED, reference |-> i - 1, keyframe |-> 1, depth |-> i - 1],
                 [mode |-> DELTA_MODE_KEYFRAME, reference |-> 1, keyframe |-> 1, depth |-> 1]}

BadLinks(i) ==
    LET good == [mode |-> DELTA_MODE_CHAINED, reference |-> i - 1, keyframe |-> 1, depth |-> i - 1]
    IN  {[good EXCEPT !.reference = r] : r \in {0, i, i + 1}}
        \cup {[good EXCEPT !.keyframe = 2], [good EXCEPT !.depth = 0], [good EXCEPT !.depth = i],
              [good EXCEPT !.mode = 2], [good EXCEPT !.mode = DELTA_MODE_KEYFRAME]}

DeltaOf(i, l, d) == DeltaRecord(i - 1, i, l.mode, l.reference, l.keyframe, l.depth, d)

Deltas(i) == {DeltaOf(i, l, d) : l \in GoodLinks(i), d \in GoodDeltas}

OddDeltas(i) == {DeltaOf(i, l, Delta(Nudge, EmptyGroup, {})) : l \in BadLinks(i)}
                \cup {DeltaOf(i, l, d) : l \in GoodLinks(i), d \in BadDeltas}
                \cup {[DeltaOf(i, l, Delta(Nudge, EmptyGroup, {})) EXCEPT !.level = 1] : l \in GoodLinks(i)}
                \cup {[DeltaOf(i, l, Delta(Nudge, EmptyGroup, {})) EXCEPT !.t1 = i - 1] : l \in GoodLinks(i)}

Chunks(i) == {ChunkRecord(i - 1, i, k) : k \in GoodKeyframes(i - 1)}

OddChunks(i) == {ChunkRecord(i - 1, i, k) : k \in BadKeyframes(i - 1)}
                \cup {[ChunkRecord(i - 1, i, EmptyGroup) EXCEPT !.t1 = i - 1]}
                \cup {[ChunkRecord(i - 1, i, Full({g1}, MuAt(i - 1))) EXCEPT !.readable = FALSE]}

\* The population record i composes to, following references, when it has one.
LiveAt(records, i) ==
    LET f[j \in 1 .. i] ==
            IF records[j].op = "CHUNK" THEN records[j].group.ids
            ELSE LET d == records[j].groups
                     before == IF records[j].reference \in 1 .. j - 1 THEN f[records[j].reference] ELSE {}
                 IN  (before \ d.death.ids) \cup d.birth.ids
    IN  f[i]

\* The entry a faithful producer writes for record i.
EntryFor(records, i) ==
    LET r == records[i]
        state == [op |-> "CHUNK_INDEX", t0 |-> r.t0, t1 |-> r.t1, offset |-> i, extended |-> TRUE,
                  live |-> Cardinality(LiveAt(records, i))]
    IN  IF r.op = "CHUNK"
        THEN state @@ [count |-> Cardinality(r.group.ids), kind |-> 0, mode |-> 0,
                       reference |-> 0, keyframe |-> i, depth |-> 0]
        ELSE state @@ [count |-> Operations(r.groups), kind |-> 1, mode |-> r.mode,
                       reference |-> r.reference, keyframe |-> r.keyframe, depth |-> r.depth]

Faithful(records) == [i \in DOMAIN records |-> EntryFor(records, i)]

\* One field of one entry misstated.
Misstated(records) ==
    LET good == Faithful(records)
        wrong(i) ==
            LET e == good[i]
            IN  {[e EXCEPT !.count = @ + 1], [e EXCEPT !.live = @ + 1], [e EXCEPT !.t1 = @ + 1],
                 [e EXCEPT !.kind = 1 - @], [e EXCEPT !.kind = 2], [e EXCEPT !.mode = 1 - @],
                 [e EXCEPT !.keyframe = @ + 1], [e EXCEPT !.depth = @ + 1], [e EXCEPT !.depth = 1],
                 [e EXCEPT !.reference = 1, !.depth = 1],
                 [e EXCEPT !.extended = FALSE, !.kind = 0, !.mode = 0, !.reference = 0,
                           !.keyframe = 0, !.depth = 0, !.live = 0],
                 [e EXCEPT !.offset = @ - 1], [e EXCEPT !.offset = @ + 1]}
                \cup {[e EXCEPT !.reference = r] : r \in 0 .. i}
    IN  {[good EXCEPT ![i] = w] : i \in DOMAIN good, w \in UNION {wrong(j) : j \in DOMAIN good}}

HeaderOf(count, duration) == [duration_sec |-> duration, gaussian_count |-> count, windows |-> 1]

FileOf(count, records, entries) ==
    [header |-> HeaderOf(count, Len(records)), file |-> records \o entries \o <<[op |-> "STATISTICS"]>>,
     summary_start |-> IF entries = <<>> THEN 0 ELSE Len(records) + 1, ending |-> "complete"]

Distinct(records) == Cardinality(UNION {LiveAt(records, i) : i \in DOMAIN records})

\* Three well-formed records, indexed or not, with the right identity count or not.
GoodThrees == {<<k, d, r>> : k \in Chunks(1), d \in Deltas(2), r \in Deltas(3) \cup Chunks(3)}

WellFormedFiles == {FileOf(Distinct(r), r, Faithful(r)) : r \in GoodThrees}
                   \cup {FileOf(n, r, <<>>) : n \in {1, 2}, r \in GoodThrees}

\* One record that is not, in the first, second or third place.
OddThrees == {<<k, d, r>> : k \in OddChunks(1), d \in Deltas(2), r \in Chunks(3)}
             \cup {<<k, d, r>> : k \in Chunks(1), d \in OddDeltas(2), r \in {ChunkRecord(2, 3, EmptyGroup)}}
             \cup {<<k, d, r>> : k \in Chunks(1), d \in Deltas(2), r \in OddDeltas(3) \cup OddChunks(3)}

OddFiles == {FileOf(Distinct(r), r, Faithful(r)) : r \in OddThrees}

\* An index that misstates its records, or leaves one out, or is followed by
\* front matter.
SomeThrees == {<<ChunkRecord(0, 1, Full({g1, g2}, MuAt(0))),
                 DeltaOf(2, l, Delta(Nudge, EmptyGroup, {})), r>> :
                    l \in GoodLinks(2),
                    r \in {DeltaOf(3, m, Delta(Change("position" :> 1), EmptyGroup, {g2})) : m \in GoodLinks(3)}
                          \cup {ChunkRecord(2, 3, Full({g1}, MuAt(2)))}}

MisindexedFiles ==
    {FileOf(2, r, e) : r \in SomeThrees, e \in UNION {Misstated(s) : s \in SomeThrees}}
    \cup {FileOf(2, r, SubSeq(Faithful(r), 1, 2)) : r \in SomeThrees}
    \cup {[FileOf(2, r, Faithful(r)) EXCEPT !.file = @ \o <<[op |-> "FRONT_MATTER"]>>] : r \in SomeThrees}
    \cup {[FileOf(2, r, Faithful(r)) EXCEPT !.ending = how] : r \in SomeThrees, how \in Ending}

AnyFiles == WellFormedFiles \cup OddFiles \cup MisindexedFiles
=============================================================================
