--------------------------- MODULE StateTimeline ---------------------------
(***************************************************************************)
(* What a keyframe-delta file promises, without chunks, deltas or chains   *)
(* (keyframe_delta_file.rs, write_sequence / DecodedSequence): a producer  *)
(* publishes one timeline of populations, once; every reader comes to know *)
(* some of its populations, one at a time and in time order, each exactly  *)
(* as published; and a reader either keeps what it knows or gives all of   *)
(* it up with an error.  The readers share nothing.                        *)
(***************************************************************************)
EXTENDS Naturals, Sequences

CONSTANTS Reader, IsPopulation(_)

VARIABLES
    timeline,   \* the populations published; <<>> before
    known,      \* per reader, the beginning of the timeline it has composed
    outcome     \* per reader: "open", "delivered" or "failed"

vars == <<timeline, known, outcome>>

Init == /\ timeline = <<>>
        /\ known = [r \in Reader |-> <<>>]
        /\ outcome = [r \in Reader |-> "open"]

Publish == /\ timeline = <<>>
           /\ timeline' # <<>>
           /\ \A i \in DOMAIN timeline' : IsPopulation(timeline'[i])
           /\ UNCHANGED <<known, outcome>>

\* A reader composes the next population.
Learn(r) == /\ outcome[r] = "open"
            /\ Len(known[r]) < Len(timeline)
            /\ known' = [known EXCEPT ![r] = Append(@, timeline[Len(@) + 1])]
            /\ UNCHANGED <<timeline, outcome>>

\* A reader reaches the end of what survived of the file.
Deliver(r) == /\ outcome[r] = "open"
              /\ outcome' = [outcome EXCEPT ![r] = "delivered"]
              /\ UNCHANGED <<timeline, known>>

Fail(r) == /\ outcome[r] = "open"
           /\ outcome' = [outcome EXCEPT ![r] = "failed"]
           /\ known' = [known EXCEPT ![r] = <<>>]
           /\ UNCHANGED timeline

Next == Publish \/ \E r \in Reader : Learn(r) \/ Deliver(r) \/ Fail(r)

Spec == Init /\ [][Next]_vars
=============================================================================
