------------------------------ MODULE SceneFile ------------------------------
(***************************************************************************)
(* A gaussian-birth file as both of its readers see it: a sequence of      *)
(* records between two magics (rust/fourdgs/src/records.rs, opcode.rs).    *)
(* A record's offset is its position in the sequence and 0 is no offset.   *)
(* A record carries the fields some rule reads, and `sound`, whether its   *)
(* body passes the checks no other record takes part in.                   *)
(*                                                                         *)
(* Attribute values are not modelled: a gaussian is a row                  *)
(* [id, window, object], object 0 being the background.  Time and byte     *)
(* weights are small integers.                                             *)
(***************************************************************************)
EXTENDS Integers, Sequences, FiniteSets, SequencesExt, FiniteSetsExt, Functions

CONSTANTS
    Weight,  \* kind of record -> bytes its parsed value keeps
    SLOT,    \* bytes of one slot of a growing collection
    NODE,    \* bytes of one node of an ordered map
    ROW      \* bytes of one decoded gaussian, or of one of its SH bands

FrontMatter == {"HEADER", "QUANTIZATION", "WINDOW_TABLE", "AUDIO", "CAMERA", "METADATA", "ATTACHMENT",
                "AUDIO_SOURCE", "AUDIO_DATA", "COORDINATE_FRAME", "SENSOR_CALIBRATION",
                "RIG_TRAJECTORY", "GEODETIC_ANCHOR", "OBJECT_TABLE", "OBJECT_TRACK"}

ProvenanceRecords == {"COORDINATE_FRAME", "SENSOR_CALIBRATION", "RIG_TRAJECTORY", "GEODETIC_ANCHOR"}

SummaryRecords == {"CHUNK_INDEX", "STATISTICS", "SUMMARY_OFFSET"}

Bands == 1 .. 3

BACKGROUND == 0

\* Option<T> is a sequence of at most one.
None == <<>>
Some(x) == <<x>>
IsSome(option) == option # None

\* Numbers in ascending order: the i-th has i - 1 below it.
Ranked(S) == [i \in 1 .. Cardinality(S) |-> CHOOSE x \in S : Cardinality({y \in S : y < x}) = i - 1]

\* The elements of a list at the positions in S, in order.
Taken(list, S) == LET at == Ranked(S) IN [k \in DOMAIN at |-> list[at[k]]]

\* A map with one key more.
Filed(map, key, value) == [k \in DOMAIN map \cup {key} |-> IF k = key THEN value ELSE map[k]]

----------------------------------------------------------------------------
(* The records                                                             *)

Header(duration, degree, audio) ==
    [op |-> "HEADER", sound |-> TRUE, duration |-> duration, sh_degree |-> degree, has_audio |-> audio]

Quantization == [op |-> "QUANTIZATION", sound |-> TRUE]

WindowTable(windows) == [op |-> "WINDOW_TABLE", sound |-> TRUE, windows |-> windows]

\* A Chunk's rows, before its optional SH bands.
Chunk(t0, t1, rows) == [op |-> "CHUNK", sound |-> TRUE, t0 |-> t0, t1 |-> t1, rows |-> rows]

\* The coefficients per colour component of a band.
BandWidth(band) == 2 * band + 1

\* Its stream declares `count` elements of three times `width` channels.
ShBandStream(band, width, count) ==
    [op |-> "SH_BAND_STREAM", sound |-> width = BandWidth(band), band |-> band, count |-> count]

\* bands is a sequence of <<band, offset>>.
ChunkIndexEntry(t0, t1, offset, count, bands) ==
    [op |-> "CHUNK_INDEX", sound |-> Len(bands) <= 3, t0 |-> t0, t1 |-> t1, chunk |-> offset,
     count |-> count, bands |-> bands]

Covers(entry, t) == entry.t0 <= t /\ t < entry.t1

Increasing(times) == \A i \in 2 .. Len(times) : times[i - 1] < times[i]

\* validate_audio_source: keyframe times increase.
AudioSourceChecks(times) == Increasing(times)

\* The descriptor; its payload is another record.
AudioSource(id, length, times) ==
    [op |-> "AUDIO_SOURCE", sound |-> AudioSourceChecks(times), id |-> id, length |-> length, times |-> times]

AudioData(id, length) == [op |-> "AUDIO_DATA", sound |-> TRUE, id |-> id, length |-> length]

\* The record that stood for the one source before Audio Source existed.
Audio(payload) == [op |-> "AUDIO", sound |-> TRUE, payload |-> payload]

Plain(op, value) == [op |-> op, sound |-> TRUE, value |-> value]

CoordinateFrame(name) == [op |-> "COORDINATE_FRAME", sound |-> TRUE, name |-> name]

\* rig is None for a sensor posed against the scene.
SensorCalibration(name, rig) == [op |-> "SENSOR_CALIBRATION", sound |-> TRUE, name |-> name, rig |-> rig]

\* A trajectory is checked whatever its length.
RigTrajectoryChecks(times) == Increasing(times)

RigTrajectory(name, times) ==
    [op |-> "RIG_TRAJECTORY", sound |-> RigTrajectoryChecks(times), name |-> name, times |-> times]

GeodeticAnchor(frame) == [op |-> "GEODETIC_ANCHOR", sound |-> TRUE, name |-> frame]

\* No two entries describe one object.
ObjectTableChecks(objects) == \A i, j \in DOMAIN objects : objects[i] = objects[j] => i = j

ObjectTable(objects) ==
    [op |-> "OBJECT_TABLE", sound |-> ObjectTableChecks(objects), objects |-> objects]

\* A track without samples is checked for its object alone.
ObjectTrackChecks(object, times) == object # BACKGROUND /\ (times # <<>> => Increasing(times))

ObjectTrack(object, times) ==
    [op |-> "OBJECT_TRACK", sound |-> ObjectTrackChecks(object, times), object |-> object, times |-> times]

Footer(summary_start, crc) == [op |-> "FOOTER", sound |-> TRUE, summary_start |-> summary_start, crc |-> crc]

----------------------------------------------------------------------------
(* What both readers compute from decoded records                          *)

\* The digest of a run of records is the run itself; no CRC is the empty run.
Digest(run) == run

\* A growing collection doubles, from four slots, when a value finds it full;
\* one reserved exactly still gets four.
Capacity(n) ==
    LET after[k \in 0 .. n] ==
            IF k = 0 THEN 0
            ELSE LET held == after[k - 1]
                 IN  IF k <= held THEN held ELSE IF held = 0 THEN 4 ELSE 2 * held
    IN  after[n]
Exact(n) == IF n = 0 THEN 0 ELSE Max({4, n})

Total(s) == FoldLeft(LAMBDA sum, x : sum + x, 0, s)

\* The window table, or the one window in which nothing is visible.
WindowTableOrDefault(windows) == IF windows = <<>> THEN <<[lo |-> 0, hi |-> 0]>> ELSE windows

\* decode_streams: the windows a chunk's rows name are in the table.
WindowsExist(rows, windows) ==
    \A i \in DOMAIN rows : rows[i].window \in DOMAIN WindowTableOrDefault(windows)

\* A decoded chunk: [offset, t0, t1, rows, bands], bands the set of those decoded.
Present(chunks) == UNION {chunks[i].bands : i \in DOMAIN chunks}

\* validate_chunk_bands: whole degrees from band 1, and the same in every chunk.
BandsWhole(chunks) ==
    /\ Present(chunks) = 1 .. Cardinality(Present(chunks))
    /\ \A i \in DOMAIN chunks : chunks[i].bands = Present(chunks)

\* One gaussian of the assembled set, with the degree its coefficients reach.
Assembled(row, windows, degree) ==
    [id |-> row.id, object |-> row.object, degree |-> degree,
     lo |-> WindowTableOrDefault(windows)[row.window].lo,
     hi |-> WindowTableOrDefault(windows)[row.window].hi]

DegreeOf(chunks) == Cardinality(Present(chunks))

\* assemble: the chunks' rows in order; the bands are only looked at when the
\* Header declares a degree.
AssembleRows(chunks, windows, header) ==
    LET degree == IF header.sh_degree > 0 THEN DegreeOf(chunks) ELSE 0
    IN  FlattenSeq([i \in DOMAIN chunks |->
            [j \in DOMAIN chunks[i].rows |-> Assembled(chunks[i].rows[j], windows, degree)]])

Assembles(chunks, header) == header.sh_degree > 0 => BandsWhole(chunks)

RowsOf(chunks) == Total([i \in DOMAIN chunks |-> Len(chunks[i].rows)])

\* decoded_chunk_resident_bytes: the columns, the bands and the band map.
ChunkBytes(chunk) == ROW * Len(chunk.rows) * (1 + Cardinality(chunk.bands)) + NODE * Cardinality(chunk.bands)

DecodedBytes(chunks) == Total([i \in DOMAIN chunks |-> ChunkBytes(chunks[i])])

\* gaussian_set_resident_bytes, of what chunks assemble to.
SetBytes(chunks, header) ==
    ROW * RowsOf(chunks) * (1 + IF header.sh_degree > 0 THEN DegreeOf(chunks) ELSE 0)

\* assemble_with_budgets: the chunks stay live beside the set made of them.
AssemblyBytes(chunks, header) == DecodedBytes(chunks) + SetBytes(chunks, header) + SLOT * Exact(Len(chunks))

\* gaussian_set_resident_bytes, of a set already assembled.
LoadedBytes(rows) == Total([i \in DOMAIN rows |-> ROW * (1 + rows[i].degree)])

\* GaussianSet::state_at: the gaussians whose window holds t.
VisibleAt(rows, t) == SelectSeq(rows, LAMBDA g : g.lo <= t /\ t < g.hi)

----------------------------------------------------------------------------
(* Cross-record rules of the provenance and object layers                  *)

Unique(records) == \A i, j \in DOMAIN records : records[i].name = records[j].name => i = j

Named(records) == {records[i].name : i \in DOMAIN records}

\* Provenance::check_with: a cut file is not asked to resolve its references.
ProvenanceHolds(p, truncated) ==
    /\ Unique(p.frames) /\ Unique(p.sensors) /\ Unique(p.rigs) /\ Unique(p.anchors)
    /\ ~truncated =>
        /\ \A i \in DOMAIN p.sensors : IsSome(p.sensors[i].rig) => p.sensors[i].rig[1] \in Named(p.rigs)
        /\ Named(p.anchors) \subseteq Named(p.frames)

\* ObjectLayer::check: at most one track moves an object.
TracksHold(tracks) == \A i, j \in DOMAIN tracks : tracks[i].object = tracks[j].object => i = j

\* The pose between samples i and i + 1, which at sample i is that sample's.
Between(times, i, t) == IF t <= times[i] THEN <<times[i], times[i]>> ELSE <<times[i], times[i + 1]>>

\* pose_at: clamped to the samples, else the bracketing pair.
PoseAt(times, t) ==
    LET before == {i \in DOMAIN times : times[i] <= t}
        last == Len(times)
    IN  IF before = {} THEN <<times[1], times[1]>>
        ELSE IF Max(before) = last THEN <<times[last], times[last]>>
        ELSE Between(times, Max(before), t)

\* ObjectLayer::apply and apply_poses: what the layer moves the objects in `ids`
\* by at t; an object without a track stays.
PosesAt(tracks, ids, t) ==
    LET moved == {i \in DOMAIN tracks : tracks[i].object \in ids \ {BACKGROUND} /\ tracks[i].times # <<>>}
    IN  [o \in {tracks[i].object : i \in moved} |->
            PoseAt(tracks[CHOOSE i \in moved : tracks[i].object = o].times, t)]
=============================================================================
