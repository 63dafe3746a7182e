----------------------------- MODULE SceneReader -----------------------------
(***************************************************************************)
(* SceneReader (rust/fourdgs/src/reader.rs): one file opened on one of two *)
(* paths, the gaussians resident, and the caches of what it has fetched.   *)
(* A range read may fail at any time (`fails`); nothing else is concurrent.*)
(*                                                                         *)
(* The streamed path keeps the whole scene; the indexed path fetches.      *)
(***************************************************************************)
EXTENDS StreamedScene

CONSTANTS
    CASES,     \* [file, options], options: [mode, recover, band, limit, ceiling, records, summary]
    INSTANTS,  \* instants asked for
    CAPS       \* SH bands asked for

VARIABLES
    file,      \* what is opened
    options,
    reader,    \* the reader, once open
    answer     \* the last answer the caller got: [request, value]
vars == <<file, options, reader, answer>>

I == INSTANCE IndexedScene

P == INSTANCE ScenePromise WITH FILES <- {c.file : c \in CASES}

NoAnswer == [request |-> [op |-> "none"], value |-> None]

Answer(request, value) == [request |-> request, value |-> value]

All == [kind |-> "All", value |-> 0]
At(t) == [kind |-> "At", value |-> t]
ChunkAt(i) == [kind |-> "Chunk", value |-> i]

----------------------------------------------------------------------------
(* Opening                                                                 *)

\* indexed_limit_allows_sequential_fallback: of the refusals for size, only a
\* summary too long to fetch at once.
FallsBack(refusal) == refusal \in {"malformed", "transfer"}

\* The path open_with_mode_and_options takes, or "refused".
PathFor(f, mode, o) ==
    LET refusal == I!OpenRefusal(f, TRUE, o)
    IN  CASE mode = "Sequential" -> "streamed"
          [] mode = "Indexed" -> IF refusal = "none" THEN "indexed" ELSE "refused"
          [] mode = "Auto" ->
                IF refusal = "none"
                THEN IF I!OpenIndexed(f, TRUE, o)[1].index # <<>> THEN "indexed" ELSE "streamed"
                ELSE IF FallsBack(refusal) THEN "streamed" ELSE "refused"

\* A reader with no cache filled.
Fresh(mode, scene, loaded, band, key) ==
    [mode |-> mode, scene |-> scene, loaded |-> loaded, loaded_band |-> band, loaded_key |-> key,
     records |-> None, provenance_only |-> None, objects |-> None, poses |-> None, validated |-> {}]

Streamed(f, o) == LET scene == ReadStreamed(f, TRUE, o)[1] IN Fresh("streamed", scene, scene.gaussians, o.band, Some(All))

Indexed(f, o) == Fresh("indexed", I!OpenIndexed(f, TRUE, o)[1], <<>>, 0, None)

\* Some reader, or None.
OpenReader(f, mode, o) ==
    CASE PathFor(f, mode, o) = "indexed" -> Some(Indexed(f, o))
      [] PathFor(f, mode, o) = "streamed" /\ IsSome(ReadStreamed(f, TRUE, o)) -> Some(Streamed(f, o))
      [] OTHER -> None

----------------------------------------------------------------------------
(* What is resident                                                        *)

Held(records) == Total([i \in DOMAIN records |-> Weight[records[i].op]])

ListBytes(records) == SLOT * Exact(Len(records)) + Held(records)

ProvenanceBytes(p) == ListBytes(p.frames) + ListBytes(p.sensors) + ListBytes(p.rigs) + ListBytes(p.anchors)

CameraBytes(x) == Held(x)
MetadataBytes(x) == ListBytes(x)
AttachmentsBytes(x) == ListBytes(x)

\* records_resident_bytes.
RecordsBytes(x) ==
    CameraBytes(x.camera) + MetadataBytes(x.metadata) + AttachmentsBytes(x.attachments) + ProvenanceBytes(x.provenance)

ObjectsBytes(x) == Held(x.table) + ListBytes(x.tracks)

OrNothing(option, Bytes(_)) == IF IsSome(option) THEN Bytes(option[1]) ELSE 0

PoseBytes(poses) == NODE * Cardinality(DOMAIN poses.poses)

\* indexed_cache_resident_bytes.
CacheBytes(r) ==
    OrNothing(r.records, RecordsBytes) + OrNothing(r.provenance_only, ProvenanceBytes)
    + OrNothing(r.objects, ObjectsBytes) + OrNothing(r.poses, PoseBytes) + NODE * Cardinality(r.validated)

\* indexed_load_base_bytes: live before anything more is fetched.
BaseBytes(r) == LoadedBytes(r.loaded) + I!SceneBytes(r.scene) + CacheBytes(r)

----------------------------------------------------------------------------
(* Loads                                                                   *)

InIndex(r, key) == key.kind = "Chunk" => key.value \in DOMAIN r.scene.index

Wanted(r, key) ==
    CASE key.kind = "All" -> r.scene.index
      [] key.kind = "At" -> I!ChunksForTime(r.scene, key.value)
      [] key.kind = "Chunk" -> <<r.scene.index[key.value]>>

\* The chunks of a load, each an Option.
Fetched(f, r, key, cap, budget) ==
    LET wanted == Wanted(r, key) IN [i \in DOMAIN wanted |-> I!ReadChunk(f, r.scene, wanted[i], cap, budget)]

Arrived(fetched) == \A i \in DOMAIN fetched : IsSome(fetched[i])

ChunksOf(fetched) == [i \in DOMAIN fetched |-> fetched[i][1]]

\* The old set, the caches, three collections, the chunks and the new set are
\* live together, against the library's bound and (the caches apart) the caller's.
LoadFits(r, chunks, o, limit) ==
    LET peak == 3 * SLOT * Len(chunks) + AssemblyBytes(chunks, r.scene.front.header[1])
    IN  /\ BaseBytes(r) + peak <= o.ceiling
        /\ LoadedBytes(r.loaded) + peak <= limit

Assembly(r, chunks) == AssembleRows(chunks, I!WindowsOf(r.scene), r.scene.front.header[1])

\* A result: the reader afterwards, and the value or None.
Done(r, value) == [reader |-> r, value |-> Some(value)]
Failed(r) == [reader |-> r, value |-> None]

\* A wrong Replaced: the key is taken before the ranges are read.
ReplacedEarly(f, r, key, cap, o, limit, fails) ==
    LET fetched == Fetched(f, r, key, cap, limit)
        chunks == ChunksOf(fetched)
        holds == ~fails /\ Arrived(fetched) /\ Assembles(chunks, r.scene.front.header[1]) /\ LoadFits(r, chunks, o, limit)
        keyed == [r EXCEPT !.loaded_band = cap, !.loaded_key = Some(key)]
    IN  IF holds THEN Done([keyed EXCEPT !.loaded = Assembly(r, chunks)], Len(chunks)) ELSE Failed(keyed)

\* A wrong Replaced: the old set is dropped to make room for the new one.
ReplacedInPlace(f, r, key, cap, o, limit, fails) ==
    LET fetched == Fetched(f, r, key, cap, limit)
        chunks == ChunksOf(fetched)
        emptied == [r EXCEPT !.loaded = <<>>]
        holds == ~fails /\ Arrived(fetched) /\ Assembles(chunks, r.scene.front.header[1]) /\ LoadFits(emptied, chunks, o, limit)
    IN  IF holds
        THEN Done([r EXCEPT !.loaded = Assembly(r, chunks), !.loaded_band = cap, !.loaded_key = Some(key)], Len(chunks))
        ELSE Failed(emptied)

\* A replacement is transactional: set, band and key change together, after
\* every fallible step.
Replaced(f, r, key, cap, o, limit, fails) ==
    LET fetched == Fetched(f, r, key, cap, limit)
        chunks == ChunksOf(fetched)
        holds == ~fails /\ Arrived(fetched) /\ Assembles(chunks, r.scene.front.header[1]) /\ LoadFits(r, chunks, o, limit)
    IN  IF holds
        THEN Done([r EXCEPT !.loaded = Assembly(r, chunks), !.loaded_band = cap, !.loaded_key = Some(key)], Len(chunks))
        ELSE Failed(r)

\* The cap has to match, not merely be covered.
Cached(r, key, cap) == r.loaded_key = Some(key) /\ r.loaded_band = cap

\* load_with_decoded_state_limit.  The streamed path has everything already; it
\* takes the key and keeps the band it was opened with.
LoadWithin(f, r, key, cap, o, limit, fails) ==
    IF Cached(r, key, cap)
    THEN IF LoadedBytes(r.loaded) <= limit THEN Done(r, 0) ELSE Failed(r)
    ELSE IF r.mode = "streamed"
    THEN IF LoadedBytes(r.loaded) <= limit THEN Done([r EXCEPT !.loaded_key = Some(key)], 0) ELSE Failed(r)
    ELSE IF ~InIndex(r, key) THEN Failed(r)
    ELSE Replaced(f, r, key, cap, o, limit, fails)

----------------------------------------------------------------------------
(* State at an instant                                                     *)

Visible(r, t) == VisibleAt(r.loaded, t)

Referenced(r, t) == P!ObjectsOf(Visible(r, t)) \ {BACKGROUND}

\* A wrong PoseHit: the poses of another instant will do.
PoseHitAnyTime(r, t, cap) == IsSome(r.poses) /\ r.poses[1].band = cap

\* The poses sampled last are the ones wanted.
PoseHit(r, t, cap) == IsSome(r.poses) /\ r.poses[1].t = t /\ r.poses[1].band = cap

\* Tracks sampled before a failing one stay validated; `some` is which.
Validated(r, tracks) == [r EXCEPT !.validated = @ \cup tracks]

TracksOf(r, ids) == {r.scene.front.tracks[o] : o \in DOMAIN r.scene.front.tracks \cap ids}

\* A track whose times are out of order is never taken for validated.
InOrder(f, tracks) == {at \in tracks : I!TimesHold(f[at].times)}

\* read_object_poses_cached, and the one-instant cache.
Sampled(f, r, t, cap, fails, some) ==
    LET poses == I!ReadPoses(f, r.scene, Referenced(r, t), t, r.validated)
    IN  IF PoseHit(r, t, cap) THEN Done(r, r.poses[1].poses)
        ELSE IF fails \/ poses = None THEN Failed(Validated(r, some))
        ELSE Done([Validated(r, TracksOf(r, Referenced(r, t))) EXCEPT !.poses =
                        Some([t |-> t, band |-> cap, poses |-> poses[1]])], poses[1])

\* Where the layer's poses come from: the streamed scene, the layer fetched
\* whole, or samples.  Nothing is fetched for a state that moves no object.
Posed(f, r, t, cap, fails, some) ==
    IF Referenced(r, t) = {} THEN Done(r, PosesAt(<<>>, {}, t))
    ELSE IF r.mode = "streamed" THEN Done(r, PosesAt(r.scene.tracks, Referenced(r, t), t))
    ELSE IF IsSome(r.objects) THEN Done(r, PosesAt(r.objects[1].tracks, Referenced(r, t), t))
    ELSE Sampled(f, r, t, cap, fails, some)

\* The objects in the answer are the ones visible gaussians belong to.
Moved(poses, ids) == [o \in DOMAIN poses \cap ids |-> poses[o]]

----------------------------------------------------------------------------
(* Records fetched on first use                                            *)

\* A wrong TakesProvenance: the copy is moved out before the other reads.
TakesProvenanceFirst(r) == [r EXCEPT !.provenance_only = None]

\* What a failed ensure_records leaves: the provenance cached alone is only
\* moved into the records once nothing can fail any more.
TakesProvenance(r) == r

\* A wrong KeepRecords: the provenance fetched alone is cloned and stays.
KeepRecordsBeside(r, records) == [r EXCEPT !.records = Some(records)]

KeepRecords(r, records) == [r EXCEPT !.records = Some(records), !.provenance_only = None]

\* ensure_records: the camera, the metadata, the attachments and the provenance.
RecordsOf(f, r) ==
    IF r.mode = "streamed"
    THEN Some([camera |-> r.scene.camera, metadata |-> r.scene.metadata, attachments |-> r.scene.attachments,
               provenance |-> r.scene.provenance])
    ELSE LET camera == I!ReadCamera(f, r.scene)
             metadata == I!ReadMetadata(f, r.scene)
             attachments == I!ReadAttachments(f, r.scene)
             provenance == IF IsSome(r.provenance_only) THEN r.provenance_only ELSE I!ReadProvenance(f, r.scene)
         IN  IF IsSome(camera) /\ IsSome(metadata) /\ IsSome(attachments) /\ IsSome(provenance)
             THEN Some([camera |-> camera[1], metadata |-> metadata[1], attachments |-> attachments[1],
                        provenance |-> provenance[1]])
             ELSE None

EnsureRecords(f, r, o, fails) ==
    LET records == RecordsOf(f, r)
        fits == BaseBytes([r EXCEPT !.provenance_only = None]) + RecordsBytes(records[1]) <= o.ceiling
    IN  IF IsSome(r.records) THEN Done(r, r.records[1])
        ELSE IF r.mode = "streamed" THEN Done(KeepRecords(r, records[1]), records[1])
        ELSE IF ~fails /\ IsSome(records) /\ fits THEN Done(KeepRecords(r, records[1]), records[1])
        ELSE Failed(TakesProvenance(r))

\* provenance(): its own ranges only, kept beside the other caches.  The bound
\* is what the opened scene leaves, whatever else is resident.
EnsureProvenance(f, r, o, fails) ==
    LET provenance == I!ReadProvenance(f, r.scene)
    IN  IF IsSome(r.records) THEN Done(r, r.records[1].provenance)
        ELSE IF IsSome(r.provenance_only) THEN Done(r, r.provenance_only[1])
        ELSE IF r.mode = "streamed"
        THEN LET x == EnsureRecords(f, r, o, fails) IN Done(x.reader, x.value[1].provenance)
        ELSE IF ~fails /\ IsSome(provenance) /\ I!SceneBytes(r.scene) + ProvenanceBytes(provenance[1]) <= o.ceiling
        THEN Done([r EXCEPT !.provenance_only = provenance], provenance[1])
        ELSE Failed(r)

\* ensure_objects: the whole layer, after which samples are not wanted.
EnsureObjects(f, r, o, fails) ==
    LET layer == IF r.mode = "streamed" THEN Some([table |-> r.scene.table, tracks |-> r.scene.tracks])
                 ELSE I!ReadObjects(f, r.scene)
        fits == r.mode = "indexed" => BaseBytes(r) + ObjectsBytes(layer[1]) <= o.ceiling
    IN  IF IsSome(r.objects) THEN Done(r, r.objects[1])
        ELSE IF (r.mode = "streamed" \/ ~fails) /\ IsSome(layer) /\ fits
        THEN Done([r EXCEPT !.objects = layer, !.poses = None], layer[1])
        ELSE Failed(r)

\* audio_source(i): the descriptor, kept nowhere.
AudioSourceAt(r, i, o, fails) ==
    IF r.mode = "streamed" THEN Done(r, r.scene.audio[i].id)
    ELSE IF ~fails /\ BaseBytes(r) + Weight["AUDIO_SOURCE"] <= o.ceiling THEN Done(r, r.scene.audio[i].id)
    ELSE Failed(r)

\* read_audio_source_range: a range of the payload, after its descriptor.  The
\* bound counts the opened scene and nothing else that is resident.
AudioRangeOf(r, i, from, n, o, fails) ==
    LET inside == from + n <= r.scene.audio[i].length
        fetched == ~fails /\ I!SceneBytes(r.scene) + Weight["AUDIO_SOURCE"] <= o.ceiling
    IN  IF inside /\ (r.mode = "indexed" => fetched) THEN Done(r, <<r.scene.audio[i].id, from, n>>) ELSE Failed(r)

----------------------------------------------------------------------------
(* The calls                                                               *)

\* Only a call that fetches can fail for the transport.
Faults(answered) == IF answered \/ reader.mode = "streamed" THEN {FALSE} ELSE BOOLEAN

\* The caller sees x.value, or Shown of it.
Returns(request, x, shown) ==
    /\ reader' = x.reader
    /\ answer' = Answer(request, IF IsSome(x.value) THEN Some(shown) ELSE None)
    /\ UNCHANGED <<file, options>>

LoadFor(key, cap, fails) ==
    LET x == LoadWithin(file, reader, key, cap, options, options.limit, fails)
    IN  Returns([op |-> "load", key |-> key], x, P!Ids(x.reader.loaded))

LoadAll == \E cap \in CAPS : \E fails \in Faults(Cached(reader, All, cap)) : LoadFor(All, cap, fails)

LoadAt == \E t \in INSTANTS, cap \in CAPS : \E fails \in Faults(Cached(reader, At(t), cap)) : LoadFor(At(t), cap, fails)

\* One chunk of the index, or one past its end; a streamed reader has none.
LoadChunk ==
    /\ reader.mode = "indexed"
    /\ \E i \in 1 .. Len(reader.scene.index) + 1, cap \in CAPS :
        \E fails \in Faults(Cached(reader, ChunkAt(i), cap)) : LoadFor(ChunkAt(i), cap, fails)

\* load_all_with_decoded_state_limit: a bound for this call alone.
LoadAllWithin ==
    \E cap \in CAPS : \E fails \in Faults(Cached(reader, All, cap)) :
        LET x == LoadWithin(file, reader, All, cap, options, options.limit \div 2, fails)
        IN  Returns([op |-> "load", key |-> All], x, P!Ids(x.reader.loaded))

\* state_at: a load for the instant, then the poses; what the load did stays
\* when the poses fail.
StateAt ==
    \E t \in INSTANTS, cap \in CAPS : \E fails \in Faults(Cached(reader, At(t), cap)) :
        LET load == LoadWithin(file, reader, At(t), cap, options, options.limit, fails)
            request == [op |-> "state", t |-> t]
        IN  IF load.value = None THEN Returns(request, load, <<>>)
            ELSE \E poseFails \in Faults(PoseHit(reader, t, cap)) :
                 \E some \in SUBSET (IF poseFails /\ load.reader.mode = "indexed"
                                     THEN InOrder(file, TracksOf(load.reader, Referenced(load.reader, t))) ELSE {}) :
                    LET x == Posed(file, load.reader, t, cap, poseFails, some)
                    IN  Returns(request, x,
                                [ids |-> P!Ids(Visible(load.reader, t)),
                                 poses |-> Moved(x.value[1], Referenced(load.reader, t))])

Records ==
    \E fails \in Faults(IsSome(reader.records)) :
        LET x == EnsureRecords(file, reader, options, fails)
        IN  Returns([op |-> "records"], x,
                    [camera |-> x.value[1].camera, metadata |-> x.value[1].metadata,
                     attachments |-> x.value[1].attachments])

Provenance ==
    \E fails \in Faults(IsSome(reader.records) \/ IsSome(reader.provenance_only)) :
        LET x == EnsureProvenance(file, reader, options, fails) IN Returns([op |-> "provenance"], x, x.value[1])

Objects ==
    \E fails \in Faults(IsSome(reader.objects)) :
        LET x == EnsureObjects(file, reader, options, fails) IN Returns([op |-> "objects"], x, x.value[1])

AudioDescriptor ==
    \E i \in DOMAIN reader.scene.audio : \E fails \in Faults(FALSE) :
        LET x == AudioSourceAt(reader, i, options, fails)
        IN  Returns([op |-> "audio", index |-> i], x, x.value[1])

AudioRange ==
    \E i \in DOMAIN reader.scene.audio, n \in 0 .. 3 : \E fails \in Faults(FALSE) :
        LET x == AudioRangeOf(reader, i, 1, n, options, fails)
        IN  Returns([op |-> "range", index |-> i, end |-> 1 + n], x, x.value[1])

Init ==
    /\ \E c \in CASES : file = c.file /\ options = c.options
    /\ \E opened \in {OpenReader(file, options.mode, options)} : IsSome(opened) /\ reader = opened[1]
    /\ answer = NoAnswer

Next == LoadAll \/ LoadAt \/ LoadChunk \/ LoadAllWithin \/ StateAt \/ Records \/ Provenance \/ Objects
        \/ AudioDescriptor \/ AudioRange

Spec == Init /\ [][Next]_vars

----------------------------------------------------------------------------
(* Properties                                                              *)

\* The set a key and a cap name, whatever is resident.
SetOf(f, r, key, cap) ==
    LET wanted == Wanted(r, key) IN Assembly(r, [i \in DOMAIN wanted |-> I!Decoded(f, wanted[i], cap)])

\* The resident gaussians are the ones the key and the band name, whatever
\* loads failed in between; a streamed reader holds all of them.
ResidentIsKeyed ==
    IF reader.mode = "streamed" THEN reader.loaded = reader.scene.gaussians
    ELSE reader.loaded = IF reader.loaded_key = None THEN <<>>
                         ELSE SetOf(file, reader, reader.loaded_key[1], reader.loaded_band)

\* Everything cached is what a reader that never asked before would fetch now,
\* the poses included, and provenance is never held twice.
CachesAreFresh ==
    /\ IsSome(reader.records) => reader.records = RecordsOf(file, [reader EXCEPT !.provenance_only = None])
    /\ IsSome(reader.provenance_only) => reader.provenance_only = I!ReadProvenance(file, reader.scene)
    /\ ~(IsSome(reader.records) /\ IsSome(reader.provenance_only))
    /\ IsSome(reader.poses) =>
        LET cached == reader.poses[1]
            then == [reader EXCEPT !.loaded = SetOf(file, reader, At(cached.t), cached.band)]
        IN  /\ reader.objects = None
            /\ Some(cached.poses) = I!ReadPoses(file, reader.scene, Referenced(then, cached.t), cached.t, {})

\* A failed call changes nothing a caller can see: the resident set, its key and
\* every cache but what a load inside state_at replaced and which tracks were
\* found in order.
FailuresKeepCaches ==
    [][answer'.value = None =>
        /\ reader'.records = reader.records /\ reader'.provenance_only = reader.provenance_only
        /\ reader'.objects = reader.objects /\ reader'.poses = reader.poses
        /\ answer'.request.op = "load" =>
              reader'.loaded = reader.loaded /\ reader'.loaded_key = reader.loaded_key
              /\ reader'.loaded_band = reader.loaded_band]_vars

\* Whatever was asked before, every answer is the one a front-to-back read of the
\* file gives: the state at an instant does not depend on the path or the caches.
AnswersLikeAFreshRead == P!Spec
=============================================================================
