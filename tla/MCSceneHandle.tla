---------------------------- MODULE MCSceneHandle ----------------------------
(***************************************************************************)
(* A well-formed file behind a handle, opened on either path; the bound of *)
(* fourdgs_scene_load_all_with_options refuses its whole scene.            *)
(***************************************************************************)
EXTENDS SceneHandle, SceneLayout

Sounding == Complete(Leading(1, TRUE) \o <<Src(1, <<0, 4>>), AudioData(1, 2), ObjectTrack(1, <<0, 4>>)>>
                     \o Banded(0, 2, <<Row(1, 1, 1)>>, <<1>>) \o Banded(0, 4, <<Row(2, 2, 0)>>, <<1>>))

OptionsFor(mode) ==
    [mode |-> mode, recover |-> FALSE, band |-> 3, limit |-> 30, ceiling |-> 1000, records |-> 40, summary |-> 40]

MCHandleCases ==
    {[file |-> Sounding, options |-> OptionsFor(mode)] : mode \in {"Auto", "Sequential"}}

\* No step depends on the last answer; its properties are evaluated on every step.
HandleView == <<file, options, reader, handle, released, given, last, descriptors, state>>

ASSUME FilesAreWellFormed == \A c \in MCHandleCases : P!WellFormed(c.file)
=============================================================================
