-------------------------- MODULE ForeignSequence --------------------------
(***************************************************************************)
(* Files this repository's writer did not produce: the two readers and the *)
(* validator on any of a set of files, well formed or not.  The readers    *)
(* run first and the validator after them, in either of its modes; none of *)
(* the three sees the others' state.                                       *)
(***************************************************************************)
EXTENDS SequenceValidator

CONSTANT FILES  \* [header, file, summary_start, ending]

\* A group that parses has one element per id in each of its streams, and no
\* stream of an attribute the reader does not know: those are skipped.
Parsed(group) ==
    /\ group.ids \subseteq Id
    /\ DOMAIN group.bins \subseteq Attribute
    /\ \A a \in DOMAIN group.bins : group.bins[a] \in [group.ids -> Int]

ASSUME FileAssumption ==
    \A f \in FILES :
        /\ f.file \in Seq(Range(f.file)) /\ f.summary_start \in Nat /\ f.ending \in Ending
        /\ \A i \in DOMAIN f.file :
            /\ f.file[i].op = "CHUNK" => Parsed(f.file[i].group)
            /\ f.file[i].op = "DELTA_CHUNK" =>
                  /\ Parsed(f.file[i].groups.update)
                  /\ Parsed(f.file[i].groups.birth)
                  /\ Parsed(f.file[i].groups.death)

vars == <<fileVars, streamedVars, indexedVars, validatorVars>>

Init ==
    /\ \E f \in FILES : /\ header = f.header
                        /\ file = f.file
                        /\ summary_start = f.summary_start
                        /\ ending = f.ending
    /\ ReadersWaiting
    /\ ValidatorWaiting

Next == \/ (DecodeStreamed \/ DecodeIndexed) /\ UNCHANGED validatorVars
        \/ Validate
        \/ ValidatorDone /\ UNCHANGED vars

Spec == Init /\ [][Next]_vars

----------------------------------------------------------------------------
(* Properties                                                              *)

\* Every column of a population a reader delivers has exactly one row per live
\* gaussian, in the composed range, whatever the file says: what
\* reconstruct_at indexes without looking.
Reconstructible(s) ==
    /\ s.ids \subseteq Id
    /\ \A a \in DOMAIN s.bins : s.bins[a] \in [s.ids -> Bin]
    /\ s.ids # {} => REQUIRED \subseteq DOMAIN s.bins
    /\ s.ids # {} => \A g \in s.ids : s.bins["rotation_index"][g] \in 0 .. 3

StatesReconstructible ==
    /\ \A o \in DOMAIN decoded : Reconstructible(decoded[o].state)
    /\ \A k \in DOMAIN answers : Reconstructible(answers[k])

\* Section 11.5: a gaussian that a delta keeps is on the grids it was on in the
\* state the delta references, whatever groups the delta carries.
GridsFixedByDeltas ==
    \A o \in DOMAIN decoded : file[o].op = "DELTA_CHUNK" =>
        LET before == decoded[decoded[o].reference].state
            after  == decoded[o].state
        IN  \A g \in before.ids \cap after.ids, a \in GOP_INVARIANT :
                after.bins[a][g] = before.bins[a][g]

\* What the validator passes, the reader of that path decodes.
ValidFilesDecode ==
    validated \in {"counting", "valid"} =>
        /\ mode = "streamed" => streamed = "ok"
        /\ mode = "indexed"  => indexed = "ok"

\* ... and the two paths deliver the same populations of a file that is valid
\* indexed: the state at an instant does not depend on whether it was streamed
\* to or sought.  (In streamed mode the validator does not look at what an entry
\* says of references and depths: it certifies the streamed path alone.)
ValidFilesAgree ==
    validated = "valid" /\ mode = "indexed" /\ streamed = "ok" /\ indexed = "ok" =>
        \A k \in DOMAIN answers :
            index[k].offset \in DOMAIN decoded /\ answers[k] = decoded[index[k].offset].state

\* The spec's statement of the same, for every file both readers accept
\* (section 11.9: "index and Delta Chunk disagree on any duplicated field").
PathsAgree ==
    streamed = "ok" /\ indexed = "ok" =>
        \A k \in DOMAIN answers :
            index[k].offset \in DOMAIN decoded /\ answers[k] = decoded[index[k].offset].state

\* The lives of gaussian g in the states the streamed reader composed: how many
\* times it is live in a state and not in the one before.
LivesOf(g) ==
    Cardinality({o \in DOMAIN decoded :
        /\ g \in decoded[o].state.ids
        /\ \A p \in DOMAIN decoded :
               p < o /\ (\A q \in DOMAIN decoded : q <= p \/ q >= o) =>
                   g \notin decoded[p].state.ids})

\* The identity counter counts lives: a valid file gives each gaussian one, and
\* the Header's gaussian_count is how many there are.
CountedIdsAreLives ==
    validated = "valid" /\ streamed = "ok" =>
        /\ \A g \in Id : LivesOf(g) = introduced[g] /\ LivesOf(g) <= 1
        /\ header.gaussian_count = Cardinality({g \in Id : LivesOf(g) = 1})

\* The indexed reader follows offsets it takes from the file: what is left of its
\* walk, the entries it has not answered before the links of the current chain.
WalkLeft ==
    LET n == Len(index)
    IN  CASE indexed = "walking" -> (n + 1 - entry) * (2 * n + 5) + 2 * n + 3 - Len(chain)
          [] indexed = "reading" -> (n + 1 - entry) * (2 * n + 5) + n + 1 - link
          [] OTHER -> 0

\* However an index misstates offsets, references and depths, every step of the
\* indexed reader brings its end nearer: no file keeps it walking.
WalkEnds ==
    [][WalkLeft > 0 => (WalkLeft' < WalkLeft /\ WalkLeft' >= 0)]_vars
=============================================================================
