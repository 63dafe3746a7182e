---------------------------- MODULE IndexedScene ----------------------------
(***************************************************************************)
(* The reader of a gaussian-birth file by ranges                           *)
(* (rust/fourdgs/src/indexed_reader.rs).  OpenIndexed walks the records    *)
(* before the first Chunk, keeping where the optional ones are and not     *)
(* what they say, then reads the Footer and the summary it names.  The     *)
(* operators after it fetch one thing each, of a scene that opened.        *)
(*                                                                         *)
(* A fetch is an Option: None is the error the caller gets.                *)
(***************************************************************************)
EXTENDS SceneFile

RangeMap == [i \in {} |-> 0]

NothingFound ==
    [refusal |-> "none", header |-> None, quantization |-> None, windows |-> None, legacy |-> None,
     sources |-> RangeMap, payloads |-> RangeMap, tracks |-> RangeMap, camera |-> None,
     metadata |-> <<>>, attachments |-> <<>>, tables |-> <<>>, provenance |-> <<>>]

----------------------------------------------------------------------------
(* What is resident                                                        *)

Kept(option) == IF IsSome(option) THEN Weight[option[1].op] ELSE 0

\* The parsed tables, the ranges in growing collections, the tracks in a map.
OpenBytes(f) ==
    Kept(f.header) + Kept(f.quantization) + Kept(f.windows)
    + SLOT * (Capacity(Len(f.metadata)) + Capacity(Len(f.attachments))
              + Capacity(Len(f.tables)) + Capacity(Len(f.provenance)))
    + NODE * Cardinality(DOMAIN f.tracks)

\* indexed_front_live_bytes: and the two maps of audio facts, until they are matched.
FrontBytes(f) ==
    OpenBytes(f) + NODE * (Cardinality(DOMAIN f.sources) + Cardinality(DOMAIN f.payloads)) + Kept(f.legacy)

\* indexed_summary_collection_bytes; Statistics is one allocation.
SummaryBytes(index, offsets, statistics) ==
    SLOT * (Exact(Len(index)) + Exact(Len(offsets)))
    + SLOT * Total([i \in DOMAIN index |-> Exact(Len(index[i].bands))])
    + Kept(statistics)

\* indexed_scene_resident_bytes.
SceneBytes(scene) ==
    OpenBytes(scene.front) + SLOT * Exact(Len(scene.audio))
    + SummaryBytes(scene.index, scene.offsets, scene.statistics)
    + (IF IsSome(scene.front.legacy) THEN Kept(scene.front.legacy) ELSE 0)

----------------------------------------------------------------------------
(* The front-matter walk                                                   *)

\* A parsed value is live beside the prefix it came from.
ParsedFits(f, r, ceiling) == FrontBytes(f) + 2 * Weight[r.op] <= ceiling

Malformed(f) == [f EXCEPT !.refusal = "malformed"]
TooLarge(f) == [f EXCEPT !.refusal = "resource"]

Latest(f, field, r, ceiling) ==
    IF ~ParsedFits(f, r, ceiling) THEN TooLarge(f)
    ELSE IF ~r.sound THEN Malformed(f)
    ELSE [f EXCEPT ![field] = Some(r)]

OnlyOnce(f, field, r, ceiling) == IF IsSome(f[field]) THEN Malformed(f) ELSE Latest(f, field, r, ceiling)

\* Where a record is, for a later fetch: its body is not read.
PushRange(f, field, at, ceiling) ==
    LET pushed == [f EXCEPT ![field] = Append(@, at)]
    IN  IF FrontBytes(pushed) > ceiling THEN TooLarge(f) ELSE pushed

\* A wrong MapRange: the later of two records with one key wins.
MapLatest(f, field, key, value, parsed, ceiling) ==
    IF FrontBytes(f) + NODE + parsed > ceiling THEN TooLarge(f) ELSE [f EXCEPT ![field] = Filed(@, key, value)]

\* A fact filed under its source or object, which no two records may share.
MapRange(f, field, key, value, parsed, ceiling) ==
    IF FrontBytes(f) + NODE + parsed > ceiling THEN TooLarge(f)
    ELSE IF key \in DOMAIN f[field] THEN Malformed(f)
    ELSE [f EXCEPT ![field] = Filed(@, key, value)]

\* The facts open needs: the length, and the first and last keyframe.
SourceFacts(r, at) ==
    [at |-> at, length |-> r.length, span |-> IF r.times = <<>> THEN None ELSE Some(<<r.times[1], Last(r.times)>>)]

OnHeader(f, r, ceiling) == OnlyOnce(f, "header", r, ceiling)
OnQuantization(f, r, ceiling) == OnlyOnce(f, "quantization", r, ceiling)
OnWindowTable(f, r, ceiling) == OnlyOnce(f, "windows", r, ceiling)

\* Its payload is only located; a later one replaces it.
OnAudio(f, r, ceiling) == Latest(f, "legacy", r, ceiling)

\* The descriptor is parsed for its facts and dropped.
OnAudioSource(f, r, at, ceiling) ==
    IF ~r.sound THEN Malformed(f)
    ELSE MapRange(f, "sources", r.id, SourceFacts(r, at), 2 * Weight[r.op], ceiling)

\* The length it declares is held against that of its record.
OnAudioData(f, r, at, ceiling) ==
    IF ~r.sound THEN Malformed(f)
    ELSE MapRange(f, "payloads", r.id, [at |-> at, length |-> r.length], 0, ceiling)

\* Only a track's head is read: the object it moves.
OnObjectTrack(f, r, at, ceiling) ==
    IF r.object = BACKGROUND \/ r.object \in DOMAIN f.tracks THEN Malformed(f)
    ELSE MapRange(f, "tracks", r.object, at, 0, ceiling)

OnFront(f, r, at, ceiling) ==
    IF f.refusal # "none" THEN f ELSE
    CASE r.op = "HEADER" -> OnHeader(f, r, ceiling)
      [] r.op = "QUANTIZATION" -> OnQuantization(f, r, ceiling)
      [] r.op = "WINDOW_TABLE" -> OnWindowTable(f, r, ceiling)
      [] r.op = "AUDIO" -> OnAudio(f, r, ceiling)
      [] r.op = "AUDIO_SOURCE" -> OnAudioSource(f, r, at, ceiling)
      [] r.op = "AUDIO_DATA" -> OnAudioData(f, r, at, ceiling)
      [] r.op = "CAMERA" -> [f EXCEPT !.camera = Some(at)]
      [] r.op = "METADATA" -> PushRange(f, "metadata", at, ceiling)
      [] r.op = "ATTACHMENT" -> PushRange(f, "attachments", at, ceiling)
      [] r.op = "OBJECT_TABLE" -> PushRange(f, "tables", at, ceiling)
      [] r.op = "OBJECT_TRACK" -> OnObjectTrack(f, r, at, ceiling)
      [] r.op \in ProvenanceRecords -> PushRange(f, "provenance", at, ceiling)
      [] OTHER -> f

\* The walk stops at the first Chunk, wherever the index says chunks are.
FrontLength(file) ==
    LET chunks == {i \in DOMAIN file : file[i].op = "CHUNK"}
    IN  IF chunks = {} THEN Len(file) ELSE Min(chunks) - 1

WalkFront(file, options) ==
    LET walk[i \in 0 .. FrontLength(file)] ==
            IF i = 0 THEN NothingFound
            ELSE IF i > options.records /\ walk[i - 1].refusal = "none" THEN TooLarge(walk[i - 1])
            ELSE OnFront(walk[i - 1], file[i], i, options.ceiling)
    IN  walk[FrontLength(file)]

----------------------------------------------------------------------------
(* Open                                                                    *)

FrontRequired(f) == IsSome(f.header) /\ IsSome(f.quantization)

LegacyAlone(f) == IsSome(f.legacy) => DOMAIN f.sources = {} /\ DOMAIN f.payloads = {}

\* The audio cross-checks, from the facts the walk kept: a keyframe before 0 or
\* after the scene is one the first or the last is.
SourcesMatch(f) ==
    LET InScene(s) == IsSome(s.span) => s.span[1][1] >= 0 /\ s.span[1][2] <= f.header[1].duration
    IN  /\ DOMAIN f.sources = DOMAIN f.payloads
        /\ \A i \in DOMAIN f.sources :
            f.sources[i].length = f.payloads[i].length /\ InScene(f.sources[i])
        /\ f.header[1].has_audio <=> (DOMAIN f.sources # {} \/ IsSome(f.legacy))

AudioCount(f) == IF IsSome(f.legacy) THEN 1 ELSE Cardinality(DOMAIN f.sources)

\* The sources, once each has its payload, in id order.
AudioOf(f) ==
    IF IsSome(f.legacy) THEN <<[id |-> 0, legacy |-> TRUE, length |-> f.legacy[1].payload]>>
    ELSE LET ids == Ranked(DOMAIN f.sources)
         IN  [i \in DOMAIN ids |-> [id |-> ids[i], legacy |-> FALSE, length |-> f.payloads[ids[i]].length]]

Ops(summary, op) == Taken(summary, {i \in DOMAIN summary : summary[i].op = op})

\* What the whole tail says, of a file that ends with a Footer and the magic.
SummaryOf(file) ==
    LET footer == Last(file)
    IN  IF footer.summary_start = 0 THEN <<>> ELSE SubSeq(file, footer.summary_start, Len(file) - 1)

\* The verdict is recorded and refuses nothing.
Verdict(file) ==
    LET footer == Last(file)
    IN  IF footer.summary_start # 0 /\ footer.crc # Digest(<<>>)
        THEN Some(Digest(SummaryOf(file)) = footer.crc) ELSE None

LastOf(records) == IF records = <<>> THEN None ELSE Some(Last(records))

SceneFrom(f, file) ==
    LET summary == SummaryOf(file)
    IN  [front |-> f, audio |-> AudioOf(f), index |-> Ops(summary, "CHUNK_INDEX"),
         offsets |-> Ops(summary, "SUMMARY_OFFSET"), statistics |-> LastOf(Ops(summary, "STATISTICS")),
         crc_ok |-> Verdict(file)]

\* The summary's bytes are live beside what is made of them, and Statistics met
\* twice are for a moment both live.
SummaryFits(f, file, ceiling) ==
    LET summary == SummaryOf(file)
        scene == SceneFrom(f, file)
        held == Total([i \in DOMAIN summary |-> Weight[summary[i].op]])
        statistics == Weight["STATISTICS"] * Min({2, Len(Ops(summary, "STATISTICS"))})
    IN  OpenBytes(f) + held + SummaryBytes(scene.index, scene.offsets, None) + statistics <= ceiling

Refusal(checks) ==
    LET failed == {i \in DOMAIN checks : ~checks[i][1]} IN IF failed = {} THEN "none" ELSE checks[Min(failed)][2]

SummarySound(file) == \A r \in Range(SummaryOf(file)) : r.op \in SummaryRecords => r.sound

\* open_indexed, of a file in memory; clean is whether it ends with the magic.
\* The first check that fails says what kind of error the caller gets.
OpenRefusal(file, clean, options) ==
    LET f == WalkFront(file, options)
        whole == clean /\ Last(file).op = "FOOTER" /\ Last(file).sound /\ Last(file).summary_start <= Len(file)
    IN  IF f.refusal # "none" THEN f.refusal
        ELSE IF ~(FrontRequired(f) /\ LegacyAlone(f)) THEN "malformed"
        ELSE IF FrontBytes(f) + SLOT * Exact(AudioCount(f)) > options.ceiling THEN "resource"
        ELSE IF ~(SourcesMatch(f) /\ whole) THEN "malformed"
        ELSE Refusal(<<<<Len(SummaryOf(file)) <= options.summary, "transfer">>,
                       <<Len(SummaryOf(file)) <= options.records, "resource">>,
                       <<SummaryFits(f, file, options.ceiling), "resource">>,
                       <<SummarySound(file), "malformed">>,
                       <<SceneBytes(SceneFrom(f, file)) <= options.ceiling, "resource">>>>)

OpenIndexed(file, clean, options) ==
    IF OpenRefusal(file, clean, options) = "none" THEN Some(SceneFrom(WalkFront(file, options), file)) ELSE None

----------------------------------------------------------------------------
(* One chunk                                                               *)

WindowsOf(scene) == IF IsSome(scene.front.windows) THEN scene.front.windows[1].windows ELSE <<>>

At(file, offset, op) == offset \in DOMAIN file /\ file[offset].op = op

\* The index's labels are checked whether or not the cap asks for the band.
LabelsHold(entry) ==
    /\ \A i \in DOMAIN entry.bands : entry.bands[i][1] \in Bands
    /\ \A i, j \in DOMAIN entry.bands : entry.bands[i][1] = entry.bands[j][1] => i = j

\* A range that names the record its label says.
BandHolds(file, label, rows) ==
    /\ At(file, label[2], "SH_BAND_STREAM")
    /\ file[label[2]].band = label[1]
    /\ file[label[2]].sound
    /\ file[label[2]].count = Len(rows)

Wanted(entry, cap) == Taken(entry.bands, {i \in DOMAIN entry.bands : entry.bands[i][1] <= cap})

\* What an entry names, with the bands under the cap.
Decoded(file, entry, cap) ==
    [offset |-> entry.chunk, t0 |-> entry.t0, t1 |-> entry.t1, rows |-> file[entry.chunk].rows,
     bands |-> {Wanted(entry, cap)[i][1] : i \in DOMAIN Wanted(entry, cap)}]

\* read_chunk_with_limit, within `budget` bytes.
ReadChunk(file, scene, entry, cap, budget) ==
    LET decoded == Decoded(file, entry, cap)
        holds == /\ LabelsHold(entry)
                 /\ At(file, entry.chunk, "CHUNK") /\ file[entry.chunk].sound
                 /\ WindowsExist(decoded.rows, WindowsOf(scene))
                 /\ Len(decoded.rows) = entry.count
                 /\ \A i \in DOMAIN Wanted(entry, cap) : BandHolds(file, Wanted(entry, cap)[i], decoded.rows)
                 /\ ChunkBytes(decoded) <= budget
    IN  IF holds THEN Some(decoded) ELSE None

\* chunks_for_time, in index order.
ChunksForTime(scene, t) == SelectSeq(scene.index, LAMBDA e : Covers(e, t))

----------------------------------------------------------------------------
(* The optional records                                                    *)

\* Records at positions `at`, every one of them parsed.
Fetch(file, at) ==
    IF \A i \in DOMAIN at : file[at[i]].sound THEN Some([i \in DOMAIN at |-> file[at[i]]]) ELSE None

ReadCamera(file, scene) ==
    IF scene.front.camera = None THEN Some(None)
    ELSE IF file[scene.front.camera[1]].sound THEN Some(Some(file[scene.front.camera[1]])) ELSE None

ReadMetadata(file, scene) == Fetch(file, scene.front.metadata)
ReadAttachments(file, scene) == Fetch(file, scene.front.attachments)

\* A wrong Sampled: tracks without samples are kept.
AsWritten(tracks) == tracks

\* A trajectory or a track without samples is read as absent.
Sampled(tracks) == Taken(tracks, {i \in DOMAIN tracks : tracks[i].times # <<>>})

\* read_provenance: the file being whole, its references are asked to resolve.
ReadProvenance(file, scene) ==
    LET records == Fetch(file, scene.front.provenance)
        Of(op) == Ops(records[1], op)
        p == [frames |-> Of("COORDINATE_FRAME"), sensors |-> Of("SENSOR_CALIBRATION"),
              rigs |-> Sampled(Of("RIG_TRAJECTORY")), anchors |-> Of("GEODETIC_ANCHOR")]
    IN  IF IsSome(records) /\ ProvenanceHolds(p, FALSE) THEN Some(p) ELSE None

TrackRanges(scene) == Ranked(Range(scene.front.tracks))

\* read_objects: the tables only now turn out to be two.
ReadObjects(file, scene) ==
    LET tables == Fetch(file, scene.front.tables)
        tracks == Fetch(file, TrackRanges(scene))
    IN  IF IsSome(tables) /\ IsSome(tracks) /\ Len(scene.front.tables) <= 1
        THEN Some([table |-> LastOf(tables[1]), tracks |-> Sampled(tracks[1])])
        ELSE None

\* A wrong Bracket: a sample at the instant itself counts as a later one, so a
\* step track answers with the sample before.
BracketBefore(times, t) ==
    LET halve[w \in {p \in (DOMAIN times) \X (DOMAIN times) : p[1] < p[2]}] ==
            LET mid == w[1] + ((w[2] - w[1]) \div 2)
            IN  IF w[2] - w[1] <= 1 THEN w
                ELSE IF times[mid] < t THEN halve[<<mid, w[2]>>] ELSE halve[<<w[1], mid>>]
    IN  halve[<<1, Len(times)>>]

\* sample_object_track: the bracketing pair found by halving, from two reads of
\* the ends; a wrong half would answer with a neighbour's pose.
Bracket(times, t) ==
    LET halve[w \in {p \in (DOMAIN times) \X (DOMAIN times) : p[1] < p[2]}] ==
            LET mid == w[1] + ((w[2] - w[1]) \div 2)
            IN  IF w[2] - w[1] <= 1 THEN w
                ELSE IF times[mid] <= t THEN halve[<<mid, w[2]>>] ELSE halve[<<w[1], mid>>]
    IN  halve[<<1, Len(times)>>]

SampleTrack(times, t) ==
    IF Len(times) = 1 \/ t <= times[1] THEN <<times[1], times[1]>>
    ELSE IF t >= Last(times) THEN <<Last(times), Last(times)>>
    ELSE Between(times, Bracket(times, t)[1], t)

\* validate_object_track_times: read in blocks, before the first sample of a track.
TimesHold(times) == Increasing(times)

\* read_object_poses_cached: the poses of the tracks of `ids`, times validated
\* only of tracks not yet in `validated`.  None, or the poses.
ReadPoses(file, scene, ids, t, validated) ==
    LET tracks == scene.front.tracks
        sought == DOMAIN tracks \cap ids
        Samples(o) == file[tracks[o]].times
        moved == {o \in sought : Samples(o) # <<>>}
    IN  IF \A o \in moved : tracks[o] \in validated \/ TimesHold(Samples(o))
        THEN Some([o \in moved |-> SampleTrack(Samples(o), t)]) ELSE None
=============================================================================
