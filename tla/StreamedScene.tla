---------------------------- MODULE StreamedScene ----------------------------
(***************************************************************************)
(* The front-to-back reader of a gaussian-birth file                       *)
(* (rust/fourdgs/src/stream_reader.rs).  Its state is the record s: what   *)
(* it holds of the file so far and the bytes it has charged for it, in two *)
(* accounts, `retained` for records and `decoded` for gaussians.  OnRecord *)
(* is one turn of its loop and Finish what it does when the bytes end.     *)
(*                                                                         *)
(* options: recover (keep what precedes a cut), band (the highest SH band  *)
(* decoded), limit (the caller's bound on decoded state), ceiling (the     *)
(* library's bound on everything), records (the bound on records) and      *)
(* summary (the bound on a summary fetched in one range).                  *)
(***************************************************************************)
EXTENDS SceneFile

Opened(options) ==
    [outcome |-> "reading", options |-> options, at |-> 0, state_seen |-> FALSE,
     header |-> None, quantization |-> None, windows |-> None,
     sources |-> [i \in {} |-> 0], payloads |-> [i \in {} |-> 0], legacy |-> None,
     camera |-> None, metadata |-> <<>>, attachments |-> <<>>,
     frames |-> <<>>, sensors |-> <<>>, rigs |-> <<>>, anchors |-> <<>>,
     table |-> None, tracks |-> <<>>, statistics |-> None, saw_footer |-> FALSE,
     chunks |-> <<>>, masks |-> <<>>, index |-> <<>>, offsets |-> <<>>, intervals |-> <<>>,
     skipped |-> <<>>, tail |-> <<>>, tail_start |-> 0, crc_ok |-> None,
     retained |-> 0, decoded |-> 0]

Refused(s) == [s EXCEPT !.outcome = "refused"]
Stopped(s) == [s EXCEPT !.outcome = "cut"]
Reading(s) == s.outcome = "reading"

----------------------------------------------------------------------------
(* The two accounts                                                        *)

Slots(n) == SLOT * Capacity(n)

\* What the records may retain beside the decoded state.
RetainedCeiling(s) == s.options.ceiling - s.decoded

Retain(s, bytes) ==
    IF s.retained + bytes > RetainedCeiling(s) THEN Refused(s) ELSE [s EXCEPT !.retained = @ + bytes]

Release(s, bytes) == [s EXCEPT !.retained = @ - bytes]

\* A parsed prefix and the value made of it are live together for a moment.
PeakFits(s, r) == s.retained + 2 * Weight[r.op] <= RetainedCeiling(s)

\* push_streamed_retained_value, of a value that keeps `bytes` besides its slot.
Push(s, field, value, bytes) ==
    LET charged == Retain(s, bytes + Slots(Len(s[field]) + 1) - Slots(Len(s[field])))
    IN  IF Reading(charged) THEN [charged EXCEPT ![field] = Append(@, value)] ELSE charged

\* A wrong Replace: the bytes of the value replaced stay charged.
ReplaceAndKeep(s, field, r) ==
    LET charged == Retain(s, Weight[r.op])
    IN  IF Reading(charged) THEN [charged EXCEPT ![field] = Some(r)] ELSE charged

\* The value replaces the one of its kind, whose bytes are released first.
Replace(s, field, r) ==
    LET held == IF IsSome(s[field]) THEN Weight[r.op] ELSE 0
        charged == Retain(Release(s, held), Weight[r.op])
    IN  IF Reading(charged) THEN [charged EXCEPT ![field] = Some(r)] ELSE charged

\* checked_decoded_state_add and ensure_streamed_scene_bytes.
DecodedFits(s, bytes) ==
    /\ s.decoded + bytes <= s.options.limit
    /\ s.retained + s.decoded + bytes <= s.options.ceiling

Decode(s, bytes) == IF DecodedFits(s, bytes) THEN [s EXCEPT !.decoded = @ + bytes] ELSE Refused(s)

\* push_streamed_decoded_value: a growing collection is live beside its copy.
PushDecoded(s, length) ==
    LET grown == Slots(length + 1) - Slots(length)
    IN  IF ~Reading(s) THEN s
        ELSE IF grown > 0 /\ ~DecodedFits(s, Slots(length + 1)) THEN Refused(s)
        ELSE Decode(s, grown)

----------------------------------------------------------------------------
(* One handler per kind of record                                          *)

OnHeader(s, r) == IF IsSome(s.header) THEN Refused(s) ELSE Replace(s, "header", r)

OnQuantization(s, r) == IF IsSome(s.quantization) THEN Refused(s) ELSE Replace(s, "quantization", r)

\* A table met twice, or after a chunk has used one, would reinterpret indexes.
OnWindowTable(s, r) ==
    IF IsSome(s.windows) \/ s.chunks # <<>> THEN Refused(s) ELSE Replace(s, "windows", r)

OnAudioSource(s, r) ==
    IF s.chunks # <<>> \/ r.id \in DOMAIN s.sources THEN Refused(s)
    ELSE LET charged == Retain(s, Weight[r.op] + NODE)
         IN  IF Reading(charged) THEN [charged EXCEPT !.sources = Filed(@, r.id, r)] ELSE charged

OnAudioData(s, r) ==
    IF s.chunks # <<>> \/ r.id \in DOMAIN s.payloads THEN Refused(s)
    ELSE LET charged == Retain(s, Weight[r.op] + NODE)
         IN  IF Reading(charged) THEN [charged EXCEPT !.payloads = Filed(@, r.id, r)] ELSE charged

\* The content is charged before the record it replaces is released.
OnAudio(s, r) ==
    LET content == Retain(s, Weight[r.op])
    IN  IF Reading(content)
        THEN [Release(content, IF IsSome(s.legacy) THEN Weight[r.op] ELSE 0) EXCEPT !.legacy = Some(r)]
        ELSE content

\* The latest camera and the latest statistics; the others in order of arrival.
OnCamera(s, r) == Replace(s, "camera", r)
OnMetadata(s, r) == Push(s, "metadata", r, Weight[r.op])
OnAttachment(s, r) == Push(s, "attachments", r, Weight[r.op])
OnCoordinateFrame(s, r) == Push(s, "frames", r, Weight[r.op])
OnSensorCalibration(s, r) == Push(s, "sensors", r, Weight[r.op])
OnGeodeticAnchor(s, r) == Push(s, "anchors", r, Weight[r.op])
OnStatistics(s, r) == Replace(s, "statistics", r)
OnSummaryOffset(s, r) == Push(s, "offsets", r, Weight[r.op])

OnRigTrajectory(s, r) == IF r.times = <<>> THEN s ELSE Push(s, "rigs", r, Weight[r.op])

OnObjectTable(s, r) ==
    IF IsSome(s.table) THEN Refused(s)
    ELSE LET charged == Retain(s, Weight[r.op])
         IN  IF Reading(charged) THEN [charged EXCEPT !.table = Some(r)] ELSE charged

\* A track without samples is read as absent.
OnObjectTrack(s, r) == IF r.times = <<>> THEN s ELSE Push(s, "tracks", r, Weight[r.op])

\* A wrong OnFooter: whatever run is just past is taken for the one declared.
OnFooterUncovered(s, r) ==
    [s EXCEPT !.saw_footer = TRUE,
              !.crc_ok = IF r.summary_start # 0 /\ r.crc # Digest(<<>>) THEN Some(Digest(s.tail) = r.crc) ELSE @]

\* The digest is only compared when the run just past is the one declared.
OnFooter(s, r) ==
    LET covered == s.tail_start = r.summary_start /\ s.tail_start + Len(s.tail) = s.at
    IN  [s EXCEPT !.saw_footer = TRUE,
                  !.crc_ok = IF r.summary_start # 0 /\ r.crc # Digest(<<>>) /\ covered
                             THEN Some(Digest(s.tail) = r.crc) ELSE @]

\* A chunk is decoded against the tables before it, and opens a row in each of
\* the four collections kept in step.
OnChunk(s, r) ==
    LET here == [offset |-> s.at, t0 |-> r.t0, t1 |-> r.t1, rows |-> r.rows, bands |-> {}]
        windows == IF IsSome(s.windows) THEN s.windows[1].windows ELSE <<>>
        n == Len(s.chunks)
        charged == PushDecoded(PushDecoded(PushDecoded(PushDecoded(Decode(s, ChunkBytes(here)), n), n), n), n)
    IN  IF s.quantization = None \/ ~WindowsExist(r.rows, windows) THEN Refused(s)
        ELSE IF ~Reading(charged) THEN charged
        ELSE LET kept == Push(charged, "intervals", <<r.t0, r.t1>>, 0)
             IN  IF Reading(kept)
                 THEN [kept EXCEPT !.chunks = Append(@, here), !.masks = Append(@, {})]
                 ELSE kept

\* A band belongs to the chunk before it; without one, or past the cap, it is
\* stepped over unread, but one seen twice is refused even then.
OnShBandStream(s, r) ==
    LET n == Len(s.chunks)
        bytes == ROW * Len(s.chunks[n].rows) + NODE
        masked == [s EXCEPT !.masks[n] = @ \cup {r.band}]
        charged == Decode(masked, bytes)
    IN  IF r.band \notin Bands THEN Refused(s)
        ELSE IF n = 0 THEN s
        ELSE IF r.band \in s.masks[n] THEN Refused(s)
        ELSE IF r.band > s.options.band THEN masked
        ELSE IF ~r.sound \/ r.count # Len(s.chunks[n].rows) THEN Refused(s)
        ELSE IF Reading(charged) THEN [charged EXCEPT !.chunks[n].bands = @ \cup {r.band}] ELSE charged

\* An entry that names a chunk already decoded must count its rows.
OnChunkIndex(s, r) ==
    IF \E i \in DOMAIN s.chunks : s.chunks[i].offset = r.chunk /\ Len(s.chunks[i].rows) # r.count
    THEN Refused(s) ELSE Push(s, "index", r, Weight[r.op])

Handled(s, r) ==
    CASE r.op = "HEADER" -> OnHeader(s, r)
      [] r.op = "QUANTIZATION" -> OnQuantization(s, r)
      [] r.op = "WINDOW_TABLE" -> OnWindowTable(s, r)
      [] r.op = "AUDIO_SOURCE" -> OnAudioSource(s, r)
      [] r.op = "AUDIO_DATA" -> OnAudioData(s, r)
      [] r.op = "AUDIO" -> OnAudio(s, r)
      [] r.op = "CAMERA" -> OnCamera(s, r)
      [] r.op = "METADATA" -> OnMetadata(s, r)
      [] r.op = "ATTACHMENT" -> OnAttachment(s, r)
      [] r.op = "COORDINATE_FRAME" -> OnCoordinateFrame(s, r)
      [] r.op = "SENSOR_CALIBRATION" -> OnSensorCalibration(s, r)
      [] r.op = "RIG_TRAJECTORY" -> OnRigTrajectory(s, r)
      [] r.op = "GEODETIC_ANCHOR" -> OnGeodeticAnchor(s, r)
      [] r.op = "OBJECT_TABLE" -> OnObjectTable(s, r)
      [] r.op = "OBJECT_TRACK" -> OnObjectTrack(s, r)
      [] r.op = "STATISTICS" -> OnStatistics(s, r)
      [] r.op = "FOOTER" -> OnFooter(s, r)
      [] r.op = "CHUNK" -> OnChunk(s, r)
      [] r.op = "SH_BAND_STREAM" -> OnShBandStream(s, r)
      [] r.op = "CHUNK_INDEX" -> OnChunkIndex(s, r)
      [] r.op = "SUMMARY_OFFSET" -> OnSummaryOffset(s, r)
      [] OTHER -> Push(s, "skipped", r.op, 0)

\* The kinds parsed from a growing prefix, the prefix being live beside the value.
Prefixed == {"HEADER", "QUANTIZATION", "WINDOW_TABLE", "AUDIO_SOURCE", "CAMERA", "METADATA",
             "OBJECT_TABLE", "OBJECT_TRACK", "STATISTICS", "FOOTER"} \cup ProvenanceRecords

\* The run of summary records a Footer would cover.
SummaryRun(s, r) ==
    IF r.op \in SummaryRecords
    THEN [s EXCEPT !.tail = Append(@, r), !.tail_start = IF s.tail = <<>> THEN s.at ELSE @]
    ELSE IF r.op = "FOOTER" THEN s
    ELSE [s EXCEPT !.tail = <<>>, !.tail_start = 0]

\* A record header has arrived: front matter after the first state record is
\* refused whether or not its body follows.
Late(s, r) == s.state_seen /\ r.op \in FrontMatter

\* A body is parsed as it arrives, but for a band's: that may be stepped over.
Broken(r) == ~r.sound /\ r.op # "SH_BAND_STREAM"

OnRecord(s, r) ==
    LET here == SummaryRun([s EXCEPT !.at = @ + 1, !.state_seen = @ \/ r.op \in {"CHUNK", "DELTA_CHUNK"}], r)
    IN  IF ~Reading(s) THEN s
        ELSE IF Late(s, r) \/ s.at + 1 > s.options.records \/ Broken(r) THEN Refused(s)
        ELSE IF r.op \in Prefixed /\ ~PeakFits(s, r) THEN Refused(s)
        ELSE Handled(here, r)

\* A band seen in the first byte of a body is refused before the rest arrives.
BandRefused(s, r) ==
    /\ r.op = "SH_BAND_STREAM"
    /\ r.band \notin Bands \/ (s.chunks # <<>> /\ r.band \in s.masks[Len(s.masks)])

\* The header of r has arrived and not all of its body; `body` is whether any
\* of it has, which is what makes one record too many exist.
OnPartial(s, r, body) ==
    IF ~Reading(s) THEN s
    ELSE IF Late(s, r) \/ (body /\ (s.at + 1 > s.options.records \/ BandRefused(s, r))) THEN Refused(s)
    ELSE Stopped(s)

----------------------------------------------------------------------------
(* The end of the bytes                                                    *)

\* A wrong WholeChunks: everything that arrived is kept.
EveryChunk(chunks) == chunks

\* A wrong WholeChunks: the last chunk says what the others must carry.
LikeTheLast(chunks) == SelectSeq(chunks, LAMBDA c : c.bands = Last(chunks).bands)

\* drop_incomplete_trailing_bands: the longest prefix of chunks that carry the
\* first chunk's bands.
WholeChunks(chunks) ==
    LET short == {i \in DOMAIN chunks : chunks[i].bands # chunks[1].bands}
    IN  IF short = {} THEN chunks ELSE SubSeq(chunks, 1, Min(short) - 1)

\* The sources whose payload arrived, in id order, or the legacy one.
MatchedIds(s) == DOMAIN s.sources \cap DOMAIN s.payloads

Sources(s) ==
    IF IsSome(s.legacy) THEN <<[id |-> 0, legacy |-> TRUE, length |-> s.legacy[1].payload]>>
    ELSE LET ids == Ranked(MatchedIds(s))
         IN  [i \in DOMAIN ids |-> [id |-> ids[i], legacy |-> FALSE, length |-> s.payloads[ids[i]].length]]

\* The audio rules; a cut excuses only what a lost record could have supplied.
AudioHolds(s, truncated) ==
    LET header == s.header[1]
        some == DOMAIN s.sources # {} \/ DOMAIN s.payloads # {} \/ IsSome(s.legacy)
    IN  /\ some => header.has_audio
        /\ ~(IsSome(s.legacy) /\ DOMAIN s.sources \cup DOMAIN s.payloads # {})
        /\ ~truncated => DOMAIN s.sources = DOMAIN s.payloads
        /\ \A i \in MatchedIds(s) :
            /\ s.payloads[i].length = s.sources[i].length
            /\ \A k \in DOMAIN s.sources[i].times : s.sources[i].times[k] \in 0 .. header.duration
        /\ (header.has_audio /\ ~truncated) => Sources(s) # <<>>

\* The records that outlive the read, once both scratch maps and the payloads
\* nothing matched have been released.
Settled(s) ==
    LET orphans == DOMAIN s.payloads \ MatchedIds(s)
        slots == Slots(Len(Sources(s)))
    IN  s.retained + slots - Weight["AUDIO_DATA"] * Cardinality(orphans)
        - NODE * (Cardinality(DOMAIN s.sources) + Cardinality(DOMAIN s.payloads))

\* The sources are collected beside everything else.
SourcesFit(s) == s.retained + Slots(Len(Sources(s))) <= RetainedCeiling(s)

\* The two collections of chunks and of their bands are live as well.
AssemblyFits(s, chunks) ==
    LET peak == AssemblyBytes(chunks, s.header[1]) + 2 * Slots(Len(s.chunks))
    IN  peak <= s.options.limit /\ peak + Settled(s) <= s.options.ceiling

\* What every reader of the file would have to agree on.
SceneOf(s, chunks, truncated) ==
    [header |-> s.header[1], chunks |-> chunks, truncated |-> truncated,
     gaussians |-> AssembleRows(chunks, IF IsSome(s.windows) THEN s.windows[1].windows ELSE <<>>, s.header[1]),
     audio |-> Sources(s), camera |-> s.camera, metadata |-> s.metadata, attachments |-> s.attachments,
     provenance |-> [frames |-> s.frames, sensors |-> s.sensors, rigs |-> s.rigs, anchors |-> s.anchors],
     table |-> s.table, tracks |-> s.tracks, statistics |-> s.statistics, index |-> s.index,
     offsets |-> s.offsets, crc_ok |-> s.crc_ok, retained |-> Settled(s)]

\* clean is whether the trailing magic ended the bytes.  The scene, or None.
Finish(s, clean) ==
    LET truncated == s.outcome = "cut" \/ ~clean
        chunks == IF truncated THEN WholeChunks(s.chunks) ELSE s.chunks
        provenance == [frames |-> s.frames, sensors |-> s.sensors, rigs |-> s.rigs, anchors |-> s.anchors]
        holds == /\ s.outcome # "refused"
                 /\ truncated => s.options.recover
                 /\ IsSome(s.header) /\ IsSome(s.quantization)
                 /\ ProvenanceHolds(provenance, truncated /\ ~s.saw_footer)
                 /\ TracksHold(s.tracks)
                 /\ AudioHolds(s, truncated)
                 /\ SourcesFit(s)
                 /\ Assembles(chunks, s.header[1])
                 /\ AssemblyFits(s, chunks)
    IN  IF holds THEN Some(SceneOf(s, chunks, truncated)) ELSE None

\* read_from, of a file in memory.
ReadStreamed(file, clean, options) ==
    Finish(FoldLeft(OnRecord, Opened(options), file), clean)
=============================================================================
