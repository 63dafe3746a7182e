--------------------------- MODULE MCSceneReaders ---------------------------
(***************************************************************************)
(* Small gaussian-birth files, good and bad, for SceneReaders: each family *)
(* varies the records of one concern and keeps the others plain.           *)
(***************************************************************************)
EXTENDS SceneReaders, SceneLayout

ReadWith(recover, band, limit, ceiling, records) ==
    [recover |-> recover, band |-> band, limit |-> limit, ceiling |-> ceiling, records |-> records,
     summary |-> IF records = 6 THEN 3 ELSE 40]

Roomy == {ReadWith(recover, band, 10000, 10000, 40) : recover \in BOOLEAN, band \in {0, 1, 3}}

\* Bounds that refuse some of the files at every stage of the read.
Tight == {ReadWith(TRUE, 3, 10000, ceiling, 40) : ceiling \in {24, 40, 56, 72, 88, 104}}
         \cup {ReadWith(TRUE, 3, limit, 10000, 40) : limit \in {10, 20, 36, 60}}
         \cup {ReadWith(TRUE, 3, 10000, 10000, 6)}

MCOptions == Roomy \cup Tight

OneChunk == <<Chunk(0, 4, <<Row(1, 1, 1), Row(2, 2, 0)>>)>>

----------------------------------------------------------------------------
(* Chunks and bands                                                        *)

A == <<Row(1, 1, 0), Row(2, 2, 1)>>
B == <<Row(3, 2, 2)>>

BandLists == {<<>>, <<1>>, <<1, 2>>, <<2, 1>>, <<2>>, <<1, 1>>, <<1, 2, 3>>, <<1, 4>>}

ChunkFiles ==
    {Complete(Leading(degree, FALSE) \o Banded(0, 4, A, first) \o Banded(0, 4, B, second)) :
        degree \in {0, 2}, first \in BandLists, second \in BandLists}

OddChunks ==
    {Banded(0, 4, A, <<1, 2>>) \o Banded(0, 4, A, <<1, 2>>) \o Banded(0, 4, B, <<1, 2>>),
     <<ShBandStream(1, 3, 2)>> \o Banded(0, 4, A, <<>>), <<ShBandStream(4, 9, 2)>> \o Banded(0, 4, A, <<>>),
     Banded(0, 4, A, <<>>) \o <<ShBandStream(1, 3, 1)>>, Banded(0, 4, A, <<1>>) \o <<ShBandStream(2, 2, 2)>>,
     <<[OneChunk[1] EXCEPT !.sound = FALSE]>>,
     <<Chunk(0, 2, <<Row(1, 3, 0)>>)>>,
     Banded(0, 2, <<Row(1, 2, 0)>>, <<1, 2>>) \o Banded(2, 4, B, <<1, 2>>),
     <<Chunk(0, 2, <<>>)>>, <<>>}

----------------------------------------------------------------------------
(* Front matter                                                            *)

AudioRuns ==
    {<<>>, <<Audio(1)>>, <<Audio(1), Audio(2)>>, <<Src(1, <<>>), AudioData(1, 2)>>,
     <<AudioData(2, 2), AudioData(1, 2), Src(1, <<0, 4>>), Src(2, <<>>)>>,
     <<Src(1, <<>>), AudioData(1, 2), Src(1, <<>>)>>, <<Src(1, <<>>), AudioData(1, 2), AudioData(1, 2)>>,
     <<Src(1, <<>>)>>, <<AudioData(1, 2)>>, <<Src(1, <<>>), AudioData(1, 3)>>,
     <<Src(1, <<0, 5>>), AudioData(1, 2)>>, <<Src(1, <<2, 1>>), AudioData(1, 2)>>,
     <<Audio(1), Src(1, <<>>), AudioData(1, 2)>>, <<Audio(1), AudioData(1, 2)>>}

AudioFiles == {Complete(Leading(0, flag) \o run \o OneChunk) : flag \in BOOLEAN, run \in AudioRuns}

ProvenanceRuns ==
    {<<CoordinateFrame("f"), GeodeticAnchor("f"), SensorCalibration("s", Some("r")), RigTrajectory("r", <<1, 2>>)>>,
     <<SensorCalibration("s", Some("r")), RigTrajectory("r", <<>>)>>,
     <<GeodeticAnchor("f")>>,
     <<CoordinateFrame("f"), CoordinateFrame("f")>>,
     <<SensorCalibration("s", None), RigTrajectory("r", <<2, 2>>)>>,
     <<RigTrajectory("r", <<1>>), RigTrajectory("r", <<>>), CoordinateFrame("r")>>}

ObjectRuns ==
    {<<ObjectTable(<<1, 2>>), ObjectTrack(1, <<0, 1, 2, 4>>), ObjectTrack(2, <<3>>)>>,
     <<ObjectTrack(1, <<1, 2, 3>>), ObjectTrack(2, <<>>)>>,
     <<ObjectTrack(1, <<1>>), ObjectTrack(1, <<2>>)>>,
     <<ObjectTrack(1, <<2, 2>>)>>, <<ObjectTrack(0, <<1>>)>>, <<ObjectTrack(1, <<>>)>>,
     <<ObjectTable(<<1>>), ObjectTable(<<2>>)>>, <<ObjectTable(<<1, 1>>)>>}

OtherRuns ==
    {<<Plain("CAMERA", 1), Plain("CAMERA", 2), Plain("METADATA", 1), Plain("METADATA", 2), Plain("ATTACHMENT", 1)>>,
     <<[Plain("METADATA", 1) EXCEPT !.sound = FALSE]>>, <<[Plain("CAMERA", 1) EXCEPT !.sound = FALSE]>>,
     <<[Plain("CAMERA", 1) EXCEPT !.sound = FALSE], Plain("CAMERA", 2)>>,
     <<Plain("CAMERA", 1), [Plain("CAMERA", 2) EXCEPT !.sound = FALSE]>>,
     <<Plain("PRIVATE", 1), Plain("ATTACHMENT", 1)>>, <<Plain("DELTA_CHUNK", 1), Plain("CAMERA", 1)>>,
     <<Header(4, 0, FALSE)>>, <<Quantization>>, <<Windows>>}

FrontFiles ==
    {Complete(Leading(0, FALSE) \o run \o OneChunk) : run \in ProvenanceRuns \cup ObjectRuns \cup OtherRuns}
    \cup {Complete(<<Header(4, 0, FALSE), Windows>> \o OneChunk), Complete(<<Quantization>> \o OneChunk),
          Complete(<<Header(4, 0, FALSE), Quantization>> \o OneChunk),
          Complete(<<Header(4, 0, FALSE), Quantization>> \o <<Chunk(0, 1, <<>>)>> \o <<Windows>>),
          Complete(Leading(0, FALSE) \o OneChunk \o <<Plain("CAMERA", 1)>>)}
    \cup {Complete(Leading(2, FALSE) \o chunks) : chunks \in OddChunks}

----------------------------------------------------------------------------
(* Summaries                                                               *)

Body == Leading(1, FALSE) \o Banded(0, 4, A, <<1>>) \o Banded(0, 4, B, <<1>>)

Offset == Plain("SUMMARY_OFFSET", 1)

Summaries == {Index(Body), <<>>, Index(Body) \o <<Plain("STATISTICS", 1), Offset, Plain("STATISTICS", 2)>>,
              <<Offset, Plain("PRIVATE", 1)>> \o Index(Body), Tail(Index(Body)),
              [Index(Body) EXCEPT ![1].count = 1], [Index(Body) EXCEPT ![1].bands = <<<<2, 5>>>>],
              [Index(Body) EXCEPT ![1].bands = <<<<1, 5>>, <<1, 5>>>>],
              Index(Body) \o <<[Footer(1, <<>>) EXCEPT !.sound = FALSE]>>,
              [Index(Body) EXCEPT ![1].chunk = 5], [Index(Body) EXCEPT ![2].t1 = 3]}

SummaryFiles ==
    UNION {{Sealed(Body, summary),
            Body \o summary \o <<Footer(Len(Body) + 1, <<Offset>>)>>,
            Body \o summary \o <<Footer(Len(Body) + 1, Digest(<<>>))>>,
            Body \o summary \o <<Footer(Len(Body) + 2, Digest(Tail(summary \o <<Offset>>)))>>,
            Body \o summary \o <<Footer(0, Digest(summary))>>,
            Sealed(Body, summary) \o <<Footer(Len(Body) + 1, Digest(summary))>>,
            Body \o summary} : summary \in Summaries}

AllFiles == ChunkFiles \cup AudioFiles \cup FrontFiles \cup SummaryFiles
=============================================================================
