---------------------------- MODULE MCSceneWriter ----------------------------
(***************************************************************************)
(* Every pair of a few gaussians whose supports touch, straddle, overhang  *)
(* or miss the boundaries of a partition of 0 .. 16, and one input for     *)
(* each thing encode refuses or writes.                                    *)
(***************************************************************************)
EXTENDS SceneWriter, SceneLayout

\* The end of a window that never closes.
EVER == 100

Gaussian(at, lo, hi, mu, half, object) ==
    [at |-> at, lo |-> lo, hi |-> hi, mu |-> mu, half |-> half, object |-> object, sound |-> TRUE]

Kinds == {
    Gaussian(3, 0, 8, 2, Some(2), 0),      \* last visible at the middle of its window
    Gaussian(2, 0, 8, 2, Some(1), 1),      \* fits a quarter exactly
    Gaussian(1, 0, 8, 7, Some(3), 0),      \* clipped by its window
    Gaussian(0, 0, EVER, 0, None, 1),      \* always visible
    Gaussian(2, 8, EVER, 14, Some(1), 0),  \* within the last quarter, in a window that overhangs
    Gaussian(1, 8, 16, 2, Some(1), 0)}     \* never visible

NoExtras ==
    [legacy |-> None, sources |-> <<>>, camera |-> None, metadata |-> <<>>, attachments |-> <<>>,
     provenance |-> [frames |-> <<>>, sensors |-> <<>>, rigs |-> <<>>, anchors |-> <<>>]]

Usual ==
    [profile |-> "none", memberships |-> TRUE, extra_records |-> <<>>, cutoff |-> TRUE, max_depth |-> 2,
     min_gaussians |-> 1, write_index |-> TRUE, write_statistics |-> TRUE, write_offsets |-> TRUE,
     write_crc |-> TRUE, sh_bands |-> 3, ladder |-> None]

Input(gaussians, options, extras) ==
    [gaussians |-> gaussians, degree |-> 2, coefficients |-> 8, rows |-> Len(gaussians), duration |-> 16,
     options |-> options, extras |-> extras, handle |-> FALSE]

\* Partitions: two gaussians, any depth, chunks worth one gaussian or two.
Partitions ==
    {Input(g, [Usual EXCEPT !.max_depth = d, !.min_gaussians = m], NoExtras) :
        g \in UNION {[1 .. n -> Kinds] : n \in 0 .. 2}, d \in {0, 1, 2}, m \in {1, 2}}

Three == <<Gaussian(3, 0, 8, 2, Some(2), 0), Gaussian(2, 0, 8, 2, Some(1), 2), Gaussian(0, 0, EVER, 0, None, 1)>>

With(options) == Input(Three, options, NoExtras)

Table == ObjectTable(<<1>>)

Options ==
    {With([Usual EXCEPT !.profile = "objects", !.extra_records = r, !.memberships = m]) :
        r \in {<<>>, <<Table>>, <<Table, ObjectTrack(1, <<0, 3>>)>>, <<Table, Table>>, <<ObjectTable(<<1, 1>>)>>}, m \in BOOLEAN}
    \cup {With([Usual EXCEPT !.write_index = i, !.write_statistics = s, !.write_offsets = s, !.write_crc = c]) :
            i \in BOOLEAN, s \in BOOLEAN, c \in BOOLEAN}
    \cup {With([Usual EXCEPT !.sh_bands = b, !.ladder = l]) : b \in 0 .. 3, l \in {None, Some(<<5>>), Some(<<5, 4>>)}}
    \cup {[With(Usual) EXCEPT !.degree = d, !.coefficients = c] : d \in 0 .. 4, c \in {0, 1, 3, 5, 8, 10, 15}}
    \cup {[With([Usual EXCEPT !.sh_bands = b]) EXCEPT !.coefficients = 5, !.gaussians = g] : b \in {1, 2}, g \in {<<>>, Three}}
    \cup {With([Usual EXCEPT !.cutoff = FALSE]), [With(Usual) EXCEPT !.gaussians[1].sound = FALSE],
          [With(Usual) EXCEPT !.duration = 0], [With(Usual) EXCEPT !.gaussians = <<>>, !.options.profile = "objects",
                                                    !.options.memberships = FALSE, !.options.extra_records = <<Table>>]}

Source(id, length, times, lasts) == [id |-> id, length |-> length, times |-> times, lasts |-> lasts]

Travelling(extras) == Input(Three, Usual, extras)

Provenances ==
    {[frames |-> f, sensors |-> s, rigs |-> r, anchors |-> a] :
        f \in {<<>>, <<CoordinateFrame("f")>>}, s \in {<<>>, <<SensorCalibration("s", Some("r"))>>},
        r \in {<<RigTrajectory("r", <<>>)>>, <<RigTrajectory("r", <<1, 2>>)>>,
               <<RigTrajectory("r", <<1, 2>>), RigTrajectory("r", <<>>)>>, <<RigTrajectory("r", <<2, 1>>)>>},
        a \in {<<>>, <<GeodeticAnchor("f")>>}}

Extras ==
    {Travelling([NoExtras EXCEPT !.sources = s]) :
        s \in {<<Source(2, 3, <<0, 16>>, 9), Source(1, 2, <<>>, 9)>>, <<Source(1, 1, <<>>, 9), Source(1, 1, <<>>, 9)>>,
               <<Source(1, 0, <<>>, 9)>>, <<Source(1, 1, <<3, 3>>, 9)>>, <<Source(1, 1, <<3, 17>>, 9)>>, <<Source(1, 1, <<>>, 0)>>}}
    \cup {Travelling([NoExtras EXCEPT !.legacy = Some([length |-> 2, start |-> t]), !.sources = s]) :
            t \in {0, 16}, s \in {<<>>, <<Source(1, 1, <<>>, 9)>>}}
    \cup {Travelling([NoExtras EXCEPT !.provenance = p]) : p \in Provenances}
    \cup {Travelling([NoExtras EXCEPT !.camera = <<Plain("CAMERA", 1)>>, !.metadata = <<Plain("METADATA", 1), Plain("METADATA", 2)>>,
                                      !.attachments = <<Plain("ATTACHMENT", 1)>>])}

----------------------------------------------------------------------------
(* Handles: the C ABI carries no memberships and no extras.                *)

HandleOptions == [Usual EXCEPT !.memberships = FALSE]

MCFresh == [Input(<<>>, HandleOptions, NoExtras) EXCEPT !.degree = 0, !.coefficients = 0, !.duration = 0, !.handle = TRUE]

MCColumns == {<<>>, SubSeq(Three, 1, 1), SubSeq(Three, 1, 2), [SubSeq(Three, 2, 3) EXCEPT ![1].sound = FALSE]}

MCSettings ==
    {HandleOptions, [HandleOptions EXCEPT !.profile = "objects"], [HandleOptions EXCEPT !.cutoff = FALSE],
     [HandleOptions EXCEPT !.sh_bands = 1, !.max_depth = 0], [HandleOptions EXCEPT !.ladder = Some(<<5>>), !.write_crc = FALSE]}

----------------------------------------------------------------------------
MCInputs == Partitions \cup Options \cup Extras
=============================================================================
