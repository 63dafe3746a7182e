-------------------------- MODULE MCDeferredRecords --------------------------
(***************************************************************************)
(* Small files for DeferredRecords and two callers that ask for anything.  *)
(***************************************************************************)
EXTENDS DeferredRecords

CONSTANTS c1, c2

Rec(op, id, size) == [op |-> op, id |-> id, size |-> size, sound |-> TRUE]
Bad(record) == [record EXCEPT !.sound = FALSE]

Lead == <<Rec("HEADER", 0, 0), Rec("QUANTIZATION", 0, 0)>>
Chunk == Rec("CHUNK", 0, 0)
Camera(n) == Rec("CAMERA", n, 0)
Metadata == Rec("METADATA", 0, 0)
Source(id, size) == Rec("AUDIO_SOURCE", id, size)
Data(id, size) == Rec("AUDIO_DATA", id, size)
Legacy == Rec("AUDIO", 0, 1)

Holding(has_audio, ahead, after) == [has_audio |-> has_audio, records |-> Lead \o ahead \o after]

Quiet(ahead, after) == Holding(FALSE, ahead, after)
Sounding(ahead, after) == Holding(TRUE, ahead, after)

Frame == Rec("COORDINATE_FRAME", 1, 0)
Layer == <<Frame, Rec("SENSOR_CALIBRATION", 1, 2), Rec("RIG_TRAJECTORY", 2, 1), Rec("RESERVED", 0, 0)>>
Moves == <<Rec("OBJECT_TABLE", 0, 0), Rec("OBJECT_TRACK", 1, 2), Rec("OBJECT_TRACK", 1, 0)>>

Plain == {"provenance", "objects", "camera", "metadata", "attachments", "sources", "descriptors"}
PlainAsks == {Ask(op, 0) : op \in Plain}
AudioAsks == {Ask("sources", 0), Ask("descriptors", 0)}
             \cup UNION {{Ask("state", id), AudioRange(id), Beyond(id)} : id \in {1, 3}}
LayerAsks == {Ask("provenance", 0), Ask("objects", 0), Ask("metadata", 0)}

Asking(files, limits, asks) ==
    {[file |-> f, limit |-> l, asks |-> [c \in CALLERS |-> IF c = c1 THEN a ELSE b]] :
        f \in files, l \in limits, a \in asks, b \in asks}

\* Everything an accessor may ask for, with and without a chunk, and once past
\* the ceiling.
Everything == <<Camera(1), Metadata, Rec("ATTACHMENT", 0, 0), Camera(2)>>
PlainFiles == {Quiet(Everything, <<Chunk, Rec("RESERVED", 0, 0)>>), Quiet(Everything, <<>>)}

\* Records that come late, twice, or with a chunk that does not fit.
LateFiles == {Quiet(<<Camera(1)>>, <<Chunk, Metadata>>), Quiet(<<Metadata>>, <<Chunk, Bad(Chunk)>>),
              Quiet(<<Metadata>>, <<Bad(Chunk)>>)}

LayerFiles == {Quiet(Layer, <<Chunk>>), Quiet(Moves, <<Chunk>>), Quiet(<<Frame, Frame>>, <<Chunk>>),
               Quiet(<<Rec("GEODETIC_ANCHOR", 1, 0), Bad(Metadata)>>, <<Chunk>>),
               Quiet(<<Rec("SENSOR_CALIBRATION", 1, 2), Rec("RIG_TRAJECTORY", 2, 0)>>, <<Chunk>>),
               Quiet(<<Rec("OBJECT_TABLE", 0, 0), Rec("OBJECT_TABLE", 0, 0), Rec("OBJECT_TRACK", 1, 1)>>, <<Chunk>>),
               Quiet(<<Rec("OBJECT_TRACK", 1, 1), Rec("OBJECT_TRACK", 1, 2)>>, <<Chunk>>)}

\* Sources in and out of order, unpaired, repeated, disagreeing and mixed.
AudioFiles == {Sounding(<<Source(3, 2), Data(1, 2), Source(1, 2), Data(3, 2)>>, <<Chunk>>),
               Sounding(<<Source(1, 2), Data(1, 3)>>, <<Chunk>>),
               Sounding(<<Source(1, 2), Data(1, 3)>>, <<>>),
               Sounding(<<Bad(Source(1, 2)), Data(1, 2)>>, <<Chunk>>),
               Sounding(<<Source(1, 2)>>, <<Chunk>>),
               Sounding(<<Data(3, 2)>>, <<Chunk>>),
               Sounding(<<>>, <<Chunk>>),
               Sounding(<<Source(1, 2)>>, <<Chunk, Data(1, 2)>>),
               Sounding(<<Legacy>>, <<Chunk>>),
               Sounding(<<Legacy, Legacy>>, <<Chunk>>),
               Sounding(<<Legacy, Legacy>>, <<>>)}

MCCases == Asking(PlainFiles, {3, 4, 9}, PlainAsks)
           \cup Asking(LateFiles, {9}, {Ask("camera", 0), Ask("metadata", 0)})
           \cup Asking(LayerFiles, {9}, LayerAsks)
           \cup Asking(AudioFiles, {3, 9}, AudioAsks)
=============================================================================
