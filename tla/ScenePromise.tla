---------------------------- MODULE ScenePromise ----------------------------
(***************************************************************************)
(* What an open scene promises, however it is read and whatever was asked  *)
(* of it before: a question is answered as one front-to-back read of the   *)
(* whole file would answer it, or not at all.  It keeps nothing but its    *)
(* last answer.                                                            *)
(***************************************************************************)
EXTENDS StreamedScene

CONSTANT FILES  \* the files there are, each of which reads whole

VARIABLES
    file,    \* the file's records
    answer   \* the last question and what came back: [request, value], value None for an error

Unbounded == [recover |-> FALSE, band |-> 3, limit |-> 100000, ceiling |-> 100000, records |-> 1000, summary |-> 1000]

WholeOf(f) == ReadStreamed(f, TRUE, Unbounded)

\* What a front-to-back read of each file gives.
Wholes == [f \in FILES |-> WholeOf(f)[1]]

\* A file that reads whole, every chunk of which covers its gaussians' windows.
WellFormed(f) ==
    /\ IsSome(WholeOf(f))
    /\ LET whole == WholeOf(f)[1]
           windows == WindowTableOrDefault(LET w == SelectSeq(f, LAMBDA r : r.op = "WINDOW_TABLE")
                                           IN IF w = <<>> THEN <<>> ELSE w[1].windows)
       IN  \A i \in DOMAIN whole.chunks : \A row \in Range(whole.chunks[i].rows) :
                whole.chunks[i].t0 <= windows[row.window].lo /\ windows[row.window].hi <= whole.chunks[i].t1

Ids(rows) == [i \in DOMAIN rows |-> rows[i].id]

ObjectsOf(rows) == {rows[i].object : i \in DOMAIN rows}

\* The gaussians visible at t and where their objects are.
StateOf(whole, t) ==
    LET visible == VisibleAt(whole.gaussians, t)
    IN  [ids |-> Ids(visible), poses |-> PosesAt(whole.tracks, ObjectsOf(visible), t)]

\* A load for an instant delivers at least what is visible then; a load of
\* anything delivers gaussians of the file, each once.
Delivers(whole, key, ids) ==
    /\ Cardinality(Range(ids)) = Len(ids)
    /\ Range(ids) \subseteq Range(Ids(whole.gaussians))
    /\ key.kind = "All" => Range(ids) = Range(Ids(whole.gaussians))
    /\ key.kind = "At" => Range(StateOf(whole, key.value).ids) \subseteq Range(ids)

Promised(whole, request, value) ==
    CASE request.op = "load" -> Delivers(whole, request.key, value)
      [] request.op = "state" -> value = StateOf(whole, request.t)
      [] request.op = "records" ->
            value = [camera |-> whole.camera, metadata |-> whole.metadata, attachments |-> whole.attachments]
      [] request.op = "provenance" -> value = whole.provenance
      [] request.op = "objects" -> value = [table |-> whole.table, tracks |-> whole.tracks]
      [] request.op = "audio" -> value = whole.audio[request.index].id
      [] request.op = "range" ->
            /\ value[1] = whole.audio[request.index].id
            /\ value[2] + value[3] = request.end /\ request.end <= whole.audio[request.index].length

NoAnswer == [request |-> [op |-> "none"], value |-> None]

Init == answer = NoAnswer

Next ==
    /\ UNCHANGED file
    /\ IsSome(answer'.value) => Promised(Wholes[file], answer'.request, answer'.value[1])

Spec == Init /\ [][Next]_<<file, answer>>
=============================================================================
