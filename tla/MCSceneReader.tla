--------------------------- MODULE MCSceneReader ---------------------------
(***************************************************************************)
(* Well-formed files for SceneReader, opened on either path and under      *)
(* bounds that refuse some loads.                                          *)
(***************************************************************************)
EXTENDS SceneReader, SceneLayout

Extras == <<Plain("CAMERA", 1), Plain("METADATA", 1), Plain("METADATA", 2), Plain("ATTACHMENT", 1),
            SensorCalibration("s", Some("r")), RigTrajectory("r", <<1, 2>>), RigTrajectory("r", <<>>),
            Src(1, <<0, 4>>), AudioData(1, 2)>>

Moves == <<ObjectTable(<<1, 2>>), ObjectTrack(1, <<0, 1, 3, 4>>), ObjectTrack(2, <<2>>)>>

\* Two chunks with bands, one of them live for half of the scene.
Moving == Complete(Leading(1, TRUE) \o Extras \o Moves
                   \o Banded(0, 2, <<Row(1, 1, 1)>>, <<1>>) \o Banded(0, 4, <<Row(2, 2, 2), Row(3, 1, 0)>>, <<1>>))

\* The same without an index, which only a front-to-back read can take.
Unindexed == SelectSeq(SubSeq(Moving, 1, Len(Moving) - 1), LAMBDA r : r.op \notin SummaryRecords) \o <<Footer(0, <<>>)>>

Still == Complete(Leading(0, FALSE) \o Banded(0, 4, <<Row(1, 1, 0)>>, <<>>))

Open(mode, limit, ceiling, summary) ==
    [mode |-> mode, recover |-> FALSE, band |-> 1, limit |-> limit, ceiling |-> ceiling, records |-> 40,
     summary |-> summary]

Case(records, opened) == [file |-> records, options |-> opened]

\* Bounds under which some of the loads are refused.
SmallCases == {Case(Moving, Open("Auto", 40, 130, 40))}

MCCases ==
    SmallCases
    \cup {Case(Moving, Open("Auto", 1000, 1000, 40)), Case(Moving, Open("Auto", 1000, 1000, 2)), Case(Moving, Open("Sequential", 1000, 1000, 40)),
          Case(Unindexed, Open("Auto", 1000, 1000, 40)), Case(Still, Open("Indexed", 1000, 1000, 40))}

\* No step depends on the last answer, so one state per reader is expanded; the
\* action properties are evaluated on every step out of it all the same.
ReaderView == <<file, options, reader>>

ASSUME FilesAreWellFormed == \A c \in MCCases : P!WellFormed(c.file)
=============================================================================
