---------------------------- MODULE SceneLayout ----------------------------
(***************************************************************************)
(* Laying out small gaussian-birth files: a body, the index that describes *)
(* it, a Footer that covers the index.                                     *)
(***************************************************************************)
EXTENDS SceneFile

Windows == WindowTable(<<[lo |-> 0, hi |-> 2], [lo |-> 1, hi |-> 4]>>)

Row(id, window, object) == [id |-> id, window |-> window, object |-> object]

\* The entry that describes the chunk at i.
EntryOf(records, i) ==
    LET later == {j \in DOMAIN records : j > i /\ records[j].op = "CHUNK"}
        end == IF later = {} THEN Len(records) ELSE Min(later) - 1
        bands == SelectSeq([j \in DOMAIN records |-> j], LAMBDA j : i < j /\ j <= end /\ records[j].op = "SH_BAND_STREAM")
    IN  ChunkIndexEntry(records[i].t0, records[i].t1, i, Len(records[i].rows),
                        [k \in DOMAIN bands |-> <<records[bands[k]].band, bands[k]>>])

Index(records) ==
    LET chunks == SelectSeq([i \in DOMAIN records |-> i], LAMBDA i : records[i].op = "CHUNK")
    IN  [k \in DOMAIN chunks |-> EntryOf(records, chunks[k])]

\* The body, a summary, and the Footer that covers it.
Sealed(body, summary) ==
    body \o summary \o <<Footer(Len(body) + 1, Digest(summary))>>

\* With the index and the statistics a writer would put there.
Complete(body) == Sealed(body, Index(body) \o <<Plain("STATISTICS", 1)>>)

Leading(degree, audio) == <<Header(4, degree, audio), Quantization, Windows>>

\* A chunk and the bands that follow it.
Banded(t0, t1, rows, bands) ==
    <<Chunk(t0, t1, rows)>> \o [i \in DOMAIN bands |-> ShBandStream(bands[i], BandWidth(bands[i]), Len(rows))]

Src(id, times) == AudioSource(id, 2, times)

\* Every kind of record weighs something, and no two summands hide each other.
MCWeight == [op \in FrontMatter \cup SummaryRecords \cup {"FOOTER", "CHUNK", "SH_BAND_STREAM", "PRIVATE", "DELTA_CHUNK"} |->
                CASE op \in {"HEADER", "CAMERA"} -> 5 [] op \in {"AUDIO_SOURCE", "STATISTICS"} -> 3 [] OTHER -> 2]
=============================================================================
