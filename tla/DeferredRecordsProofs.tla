----------------------- MODULE DeferredRecordsProofs -----------------------
(***************************************************************************)
(* However many callers an IndexedDecoder has, whatever its file holds and *)
(* whichever range reads fail: its optional records are discovered by one  *)
(* walk, published together, and read by nobody before; an answer is       *)
(* everything its kind holds in a file lawful to its end; and a rejection  *)
(* has a cause of the caller's own.                                        *)
(***************************************************************************)
EXTENDS DeferredRecords, ListLemmas, FiniteSetTheorems

Stage == {"idle", "waiting", "reading", "answered", "rejected"}

Shaped(call) ==
    call = [ask |-> call.ask, stage |-> call.stage, walk |-> call.walk,
            todo |-> call.todo, asked |-> call.asked, got |-> call.got]

CallsShaped ==
    /\ calls = [c \in CALLERS |-> calls[c]]
    /\ \A c \in CALLERS : Shaped(calls[c]) /\ calls[c].stage \in Stage

\* The walk that was begun, if one was, has kept the optional records it passed.
PassedBy(at) == {i \in 1 .. at - 1 : i \in DOMAIN file.records /\ file.records[i].op \in Optional}

FileListed == file.records \in Seq(Range(file.records))

WalkShaped(w) == w = [at |-> w.at, kept |-> w.kept, state |-> w.state]

WalkHolds(w) ==
    /\ WalkShaped(w)
    /\ w.at \in Nat \ {0}
    /\ w.kept = PassedBy(w.at)
    /\ w.state \in {"walking", "done", "rejected"}
    /\ w.state = "done" => complete

\* deferredDiscovery holds nothing, or the promise of the only walk.
SingleWalk ==
    \/ discovery = 0 /\ walks = <<>>
    \/ discovery = 1 /\ walks = <<walks[1]>> /\ WalkHolds(walks[1])

\* A call waits for the walk it joined, or found discovery complete.
CallHolds(call) ==
    /\ call.walk \in {0, discovery}
    /\ call.stage = "waiting" /\ call.walk = 0 => complete
    /\ call.stage \in {"reading", "answered"} => complete

IInv ==
    /\ FileListed /\ complete \in BOOLEAN
    /\ CallsShaped /\ SingleWalk /\ FieldsTogether
    /\ \A c \in CALLERS : CallHolds(calls[c])

----------------------------------------------------------------------------
(* The walk                                                                *)

\* A walk that has come to the end has kept every optional record.
LEMMA PassedAll ==
    ASSUME FileListed, NEW at \in Nat \ {0}, at \notin DOMAIN file.records
    PROVE  PassedBy(at) = Places(file)
<1>1. DOMAIN file.records = 1 .. Len(file.records) /\ Len(file.records) \in Nat
    BY DEF FileListed
<1>2. 1 .. Len(file.records) \subseteq 1 .. at - 1
    BY <1>1
<1> QED BY <1>1, <1>2 DEF PassedBy, Places, Having

\* Passing one more record keeps it when it is optional, and nothing else.
LEMMA PassedOne ==
    ASSUME NEW at \in Nat \ {0}, at \in DOMAIN file.records
    PROVE  PassedBy(at + 1) = PassedBy(at) \cup {i \in {at} : file.records[at].op \in Optional}
<1>1. 1 .. (at + 1) - 1 = (1 .. at - 1) \cup {at}
    OBVIOUS
<1> QED BY <1>1 DEF PassedBy

LEMMA RejectedHolds ==
    ASSUME NEW w, WalkHolds(w)
    PROVE  WalkHolds(Rejected(w))
BY DEF WalkHolds, WalkShaped, Rejected

LEMMA KeptHolds ==
    ASSUME NEW w, WalkHolds(w), w.state = "walking", w.at \in DOMAIN file.records
    PROVE  WalkHolds(Kept(w))
<1>1. w.kept \cup Having(file, {w.at}, Optional) = PassedBy(w.at + 1)
    BY PassedOne DEF WalkHolds, Having
<1> QED BY <1>1 DEF WalkHolds, WalkShaped, Kept

\* Only the walk that was begun can take a step.
LEMMA TheWalk ==
    ASSUME SingleWalk, NEW n \in DOMAIN walks
    PROVE  n = 1 /\ discovery = 1 /\ walks = <<walks[1]>> /\ WalkHolds(walks[1])
<1>1. walks # <<>>
    OBVIOUS
<1>2. discovery = 1 /\ walks = <<walks[1]>> /\ WalkHolds(walks[1])
    BY <1>1 DEF SingleWalk
<1>3. DOMAIN walks = {1}
    BY <1>2
<1> QED BY <1>2, <1>3

----------------------------------------------------------------------------
(* Each step keeps the invariant                                           *)

LEMMA FiniteAhead == ASSUME FileListed PROVE IsFiniteSet(OptionalAhead(file))
<1>1. DOMAIN file.records = 1 .. Len(file.records) /\ Len(file.records) \in Nat
    BY DEF FileListed
<1>2. IsFiniteSet(1 .. Len(file.records))
    BY <1>1, FS_Interval
<1>3. OptionalAhead(file) \subseteq 1 .. Len(file.records)
    BY <1>1 DEF OptionalAhead, Having, Ahead
<1> QED BY <1>2, <1>3, FS_Subset

\* An open() that saw the whole file and stayed below its ceiling kept everything.
LEMMA CompleteKeepsAll ==
    ASSUME FileListed, limit \in Nat, CompleteAtOpen(file, limit)
    PROVE  KeptByOpen(file, limit) = Places(file)
<1>1. OptionalAhead(file) = Places(file)
    BY DEF CompleteAtOpen, OptionalAhead, Places
<1>2. ASSUME NEW i \in OptionalAhead(file)
      PROVE  Cardinality({j \in OptionalAhead(file) : j <= i}) <= limit
    <2> DEFINE upto == {j \in OptionalAhead(file) : j <= i}
    <2>1. IsFiniteSet(OptionalAhead(file)) /\ upto \in SUBSET OptionalAhead(file)
        BY FiniteAhead
    <2> HIDE DEF upto
    <2>2. /\ Cardinality(OptionalAhead(file)) \in Nat /\ Cardinality(upto) \in Nat
          /\ Cardinality(upto) <= Cardinality(OptionalAhead(file))
        BY <2>1, FS_Subset, FS_CardinalityType
    <2>3. Cardinality(upto) <= limit
        BY <2>2 DEF CompleteAtOpen
    <2> QED BY <2>3 DEF upto
<1> QED BY <1>1, <1>2 DEF KeptByOpen

LEMMA InitIInv == Init => IInv
<1> SUFFICES ASSUME Init PROVE IInv
    OBVIOUS
<1> PICK case \in CASES :
        /\ file = case.file /\ limit = case.limit
        /\ fields = FieldsOf(file, KeptByOpen(file, limit))
        /\ complete = CompleteAtOpen(file, limit)
        /\ discovery = 0 /\ walks = <<>>
        /\ calls = [c \in CALLERS |-> Idle(case.asks[c])]
    BY DEF Init
<1>1. FileListed /\ complete \in BOOLEAN
    BY CaseAssumption DEF FileListed, CompleteAtOpen
<1>2. CallsShaped /\ \A c \in CALLERS : CallHolds(calls[c])
    BY DEF CallsShaped, Shaped, Stage, Idle, CallHolds
<1>3. SingleWalk
    BY DEF SingleWalk
<1>4. ASSUME complete PROVE KeptByOpen(file, limit) = Places(file)
    BY <1>1, <1>4, CaseAssumption, CompleteKeepsAll
<1>5. FieldsTogether
    BY <1>1, <1>4 DEF FieldsTogether
<1> QED BY <1>1, <1>2, <1>3, <1>5 DEF IInv

\* A walk that holds of a state holds of the next when complete is not reset.
LEMMA WalkHoldsNext ==
    ASSUME NEW w, WalkHolds(w), UNCHANGED file, complete => complete'
    PROVE  WalkHolds(w)'
BY DEF WalkHolds, WalkShaped, PassedBy

LEMMA WalkReplaced ==
    ASSUME SingleWalk, NEW n \in DOMAIN walks, NEW w, WalkHolds(w)', UNCHANGED discovery,
           walks' = [walks EXCEPT ![n] = w]
    PROVE  SingleWalk'
<1>1. n = 1 /\ discovery = 1 /\ walks = <<walks[1]>>
    BY TheWalk
<1>2. walks' = <<w>>
    BY <1>1
<1>3. walks'[1] = w /\ walks' = <<walks'[1]>>
    BY <1>2
<1> QED BY <1>1, <1>3 DEF SingleWalk

LEMMA WalkRecordIInv ==
    ASSUME IInv, NEW n \in DOMAIN walks, WalkRecord(n)
    PROVE  IInv'
<1> PICK w : w = walks[n]
    OBVIOUS
<1> PICK next : next = IF WalkRefuses(w) THEN Rejected(w) ELSE Kept(w)
    OBVIOUS
<1>1. /\ w.state = "walking" /\ w.at \in DOMAIN file.records
      /\ walks' = [walks EXCEPT ![n] = next]
      /\ UNCHANGED <<file, limit, fields, complete, discovery, cache, calls, failed>>
    BY DEF WalkRecord, Walking, caseVars
<1>2. WalkHolds(w)
    BY TheWalk DEF IInv
<1>3. WalkHolds(next)
    BY <1>1, <1>2, RejectedHolds, KeptHolds
<1>4. WalkHolds(next)'
    BY <1>1, <1>3, WalkHoldsNext
<1>5. SingleWalk'
    BY <1>1, <1>4, WalkReplaced DEF IInv
<1> QED BY <1>1, <1>5 DEF IInv, FileListed, CallsShaped, Shaped, FieldsTogether, CallHolds

LEMMA WalkFailsIInv ==
    ASSUME IInv, NEW n \in DOMAIN walks, WalkFails(n)
    PROVE  IInv'
<1> PICK next : next = Rejected(walks[n])
    OBVIOUS
<1>1. /\ walks' = [walks EXCEPT ![n] = next]
      /\ UNCHANGED <<file, limit, fields, complete, discovery, cache, calls>>
    BY DEF WalkFails, caseVars
<1>2. WalkHolds(next)
    BY TheWalk, RejectedHolds DEF IInv
<1>3. WalkHolds(next)'
    BY <1>1, <1>2, WalkHoldsNext
<1>4. SingleWalk'
    BY <1>1, <1>3, WalkReplaced DEF IInv
<1> QED BY <1>1, <1>4 DEF IInv, FileListed, CallsShaped, Shaped, FieldsTogether, CallHolds

LEMMA WalkEndsIInv ==
    ASSUME IInv, NEW n \in DOMAIN walks, WalkEnds(n)
    PROVE  IInv'
<1> PICK w : w = walks[n]
    OBVIOUS
<1>0. /\ w.at \notin DOMAIN file.records
      /\ UNCHANGED <<file, limit, discovery, cache, calls, failed>>
    BY DEF WalkEnds, caseVars
<1>1. n = 1 /\ walks = <<walks[1]>> /\ WalkHolds(w)
    BY TheWalk DEF IInv
<1>2. CASE EndRefuses(w)
    <2> PICK next : next = Rejected(w)
        OBVIOUS
    <2>1. walks' = [walks EXCEPT ![n] = next] /\ UNCHANGED <<fields, complete>>
        BY <1>2 DEF WalkEnds
    <2>2. WalkHolds(next)
        BY <1>1, RejectedHolds
    <2>3. WalkHolds(next)'
        BY <1>0, <2>1, <2>2, WalkHoldsNext
    <2>4. SingleWalk'
        BY <1>0, <2>1, <2>3, WalkReplaced DEF IInv
    <2> QED BY <1>0, <2>1, <2>4 DEF IInv, FileListed, CallsShaped, Shaped, FieldsTogether, CallHolds
<1>3. CASE ~EndRefuses(w)
    <2> PICK done : done = [at |-> w.at, kept |-> w.kept, state |-> "done"]
        OBVIOUS
    <2>1. fields' = FieldsOf(file, w.kept) /\ complete' = TRUE /\ walks' = [walks EXCEPT ![n].state = "done"]
        BY <1>3 DEF WalkEnds
    <2>2. w = [at |-> w.at, kept |-> w.kept, state |-> w.state]
        BY <1>1 DEF WalkHolds, WalkShaped
    <2>3. [w EXCEPT !.state = "done"] = done
        BY <2>2
    <2>4. walks' = [walks EXCEPT ![n] = done]
        BY <2>1, <2>3
    <2>5. WalkHolds(done)'
        BY <1>0, <1>1, <2>1 DEF WalkHolds, WalkShaped, PassedBy
    <2>6. SingleWalk'
        BY <1>0, <2>4, <2>5, WalkReplaced DEF IInv
    <2>7. w.kept = Places(file)
        BY <1>0, <1>1, PassedAll DEF IInv, WalkHolds
    <2>8. FieldsTogether'
        BY <1>0, <2>1, <2>7 DEF FieldsTogether
    <2> QED BY <1>0, <2>1, <2>6, <2>8 DEF IInv, FileListed, CallsShaped, Shaped, CallHolds
<1> QED BY <1>2, <1>3

----------------------------------------------------------------------------
(* The calls                                                               *)

\* One call changes, in fields other than the shape of a call.
LEMMA CallReplaced ==
    ASSUME CallsShaped, NEW c \in CALLERS, NEW call, Shaped(call), call.stage \in Stage,
           calls' = [calls EXCEPT ![c] = call]
    PROVE  CallsShaped' /\ calls'[c] = call /\ \A d \in CALLERS \ {c} : calls'[d] = calls[d]
<1>1. DOMAIN calls = CALLERS
    BY DEF CallsShaped
<1>2. calls'[c] = call /\ \A d \in CALLERS \ {c} : calls'[d] = calls[d]
    BY <1>1
<1> QED BY <1>1, <1>2 DEF CallsShaped, Shaped

\* A step of a call that leaves discovery alone.
LEMMA CallAlone ==
    ASSUME IInv, NEW c \in CALLERS, NEW call, Shaped(call), call.stage \in Stage,
           calls' = [calls EXCEPT ![c] = call], UNCHANGED <<file, limit, walkVars>>,
           CallHolds(call)
    PROVE  IInv'
<1>1. UNCHANGED <<file, limit, fields, complete, discovery, walks>>
    BY DEF walkVars
<1>2. CallsShaped' /\ calls'[c] = call /\ \A d \in CALLERS \ {c} : calls'[d] = calls[d]
    BY CallReplaced DEF IInv
<1>3. \A d \in CALLERS : CallHolds(calls[d])'
    BY <1>1, <1>2 DEF IInv, CallHolds
<1>4. SingleWalk'
    BY <1>1, WalkHoldsNext DEF IInv, SingleWalk
<1> QED BY <1>1, <1>2, <1>3, <1>4 DEF IInv, FileListed, FieldsTogether

\* The first call begins the walk, a later one joins it or needs none.
LEMMA CallIInv ==
    ASSUME IInv, NEW c \in CALLERS, Call(c)
    PROVE  IInv'
<1> PICK old : old = calls[c]
    OBVIOUS
<1>1. /\ Shaped(old) /\ old.stage = "idle"
      /\ UNCHANGED <<file, limit, fields, complete, cache, failed>>
    BY DEF IInv, CallsShaped, Call, caseVars
<1> USE <1>1
<1>2. CASE complete
    <2> PICK call : call = [old EXCEPT !.stage = "waiting"]
        OBVIOUS
    <2>1. /\ call = [ask |-> old.ask, stage |-> "waiting", walk |-> old.walk,
                     todo |-> old.todo, asked |-> old.asked, got |-> old.got]
        BY DEF Shaped
    <2>2. calls' = [calls EXCEPT ![c] = call] /\ UNCHANGED walkVars
        BY <1>2 DEF Call, walkVars
    <2>3. Shaped(call) /\ call.stage \in Stage /\ CallHolds(call)
        BY <1>2, <2>1 DEF Shaped, Stage, CallHolds, IInv
    <2> QED BY <2>2, <2>3, CallAlone
<1>3. CASE ~complete
    <2> PICK call : call = [old EXCEPT !.stage = "waiting", !.walk = Joined.walk]
        OBVIOUS
    <2>1. call = [ask |-> old.ask, stage |-> "waiting", walk |-> Joined.walk,
                  todo |-> old.todo, asked |-> old.asked, got |-> old.got]
        BY DEF Shaped
    <2>2. /\ calls' = [calls EXCEPT ![c] = call]
          /\ discovery' = Joined.walk /\ walks' = Joined.walks
        BY <1>3 DEF Call
    <2>3. SingleWalk' /\ Joined.walk = 1 /\ discovery \in {0, 1}
        <3>1. CASE discovery = 0
            <4> PICK first : first = [at |-> 1, kept |-> {}, state |-> "walking"]
                OBVIOUS
            <4>0. walks = <<>> /\ NewWalk = first
                BY <3>1 DEF NewWalk, IInv, SingleWalk
            <4>1. Joined.walk = 1 /\ Joined.walks = <<first>>
                <5>1. Len(walks) = 0 /\ Append(walks, NewWalk) = <<first>>
                    BY <4>0
                <5>2. Joined = [walk |-> 1, walks |-> <<first>>]
                    BY <3>1, <5>1 DEF Joined
                <5> QED BY <5>2
            <4>2. WalkHolds(first)'
                BY DEF WalkHolds, WalkShaped, PassedBy
            <4> QED BY <2>2, <3>1, <4>1, <4>2 DEF SingleWalk
        <3>2. CASE discovery # 0
            <4>1. Joined.walk = 1 /\ Joined.walks = walks /\ walks = <<walks[1]>> /\ WalkHolds(walks[1])
                BY <3>2 DEF Joined, IInv, SingleWalk
            <4> PICK first : first = walks[1]
                OBVIOUS
            <4>2. WalkHolds(first)'
                BY <4>1, WalkHoldsNext
            <4> QED BY <2>2, <3>2, <4>1, <4>2 DEF SingleWalk, IInv
        <3> QED BY <3>1, <3>2
    <2>4. Shaped(call) /\ call.stage \in Stage
        BY <2>1 DEF Shaped, Stage
    <2>5. CallsShaped' /\ calls'[c] = call /\ \A d \in CALLERS \ {c} : calls'[d] = calls[d]
        BY <2>2, <2>4, CallReplaced DEF IInv
    <2>6. \A d \in CALLERS : CallHolds(calls[d])'
        BY <2>1, <2>2, <2>3, <2>5 DEF IInv, CallHolds
    <2> QED BY <2>3, <2>5, <2>6 DEF IInv, FileListed, FieldsTogether
<1> QED BY <1>2, <1>3

\* A call goes on only when its walk is done, and then discovery is complete.
LEMMA ResumeIInv ==
    ASSUME IInv, NEW c \in CALLERS, Resume(c)
    PROVE  IInv'
<1> PICK old : old = calls[c]
    OBVIOUS
<1>1. /\ Shaped(old) /\ CallHolds(old) /\ old.stage = "waiting" /\ Settled(c)
      /\ UNCHANGED <<file, limit, walkVars>>
    BY DEF IInv, CallsShaped, Resume, caseVars
<1>2. CASE PromiseOf(c) = "rejected" \/ Unknown(fields, old.ask)
    <2> PICK call : call = [old EXCEPT !.stage = "rejected"]
        OBVIOUS
    <2>1. call = [ask |-> old.ask, stage |-> "rejected", walk |-> old.walk,
                  todo |-> old.todo, asked |-> old.asked, got |-> old.got]
        BY <1>1 DEF Shaped
    <2>2. calls' = [calls EXCEPT ![c] = call]
        BY <1>2 DEF Resume
    <2> QED BY <1>1, <2>1, <2>2, CallAlone DEF Shaped, Stage, CallHolds
<1>3. CASE ~(PromiseOf(c) = "rejected" \/ Unknown(fields, old.ask))
    <2> PICK call : call = [old EXCEPT !.stage = "reading", !.todo = Wanted(file, fields, old.ask)]
        OBVIOUS
    <2>1. call = [ask |-> old.ask, stage |-> "reading", walk |-> old.walk,
                  todo |-> Wanted(file, fields, old.ask), asked |-> old.asked, got |-> old.got]
        BY <1>1 DEF Shaped
    <2>2. calls' = [calls EXCEPT ![c] = call]
        BY <1>3 DEF Resume
    <2>3. complete
        <3>1. CASE old.walk = 0
            BY <1>1, <3>1 DEF CallHolds
        <3>2. CASE old.walk # 0
            <4>1. old.walk = 1 /\ WalkHolds(walks[1])
                BY <1>1, <3>2 DEF CallHolds, IInv, SingleWalk
            <4>2. walks[1].state = "done"
                BY <1>1, <1>3, <4>1 DEF Settled, PromiseOf, WalkHolds
            <4> QED BY <4>1, <4>2 DEF WalkHolds
        <3> QED BY <3>1, <3>2
    <2> QED BY <1>1, <2>1, <2>2, <2>3, CallAlone DEF Shaped, Stage, CallHolds
<1> QED BY <1>2, <1>3

\* What the accessors change in a call leaves its shape and its walk alone.
LEMMA MovedShaped ==
    ASSUME NEW old, Shaped(old), NEW stage, NEW call, call = [old EXCEPT !.stage = stage]
    PROVE  Shaped(call) /\ call.walk = old.walk /\ call.stage = stage
<1>1. call = [ask |-> old.ask, stage |-> stage, walk |-> old.walk,
              todo |-> old.todo, asked |-> old.asked, got |-> old.got]
    BY DEF Shaped
<1> QED BY <1>1 DEF Shaped

LEMMA AskedShaped ==
    ASSUME NEW old, Shaped(old), NEW call, call = [old EXCEPT !.asked = TRUE]
    PROVE  Shaped(call) /\ call.walk = old.walk /\ call.stage = old.stage
<1>1. call = [ask |-> old.ask, stage |-> old.stage, walk |-> old.walk,
              todo |-> old.todo, asked |-> TRUE, got |-> old.got]
    BY DEF Shaped
<1> QED BY <1>1 DEF Shaped

LEMMA TakenShaped ==
    ASSUME NEW old, Shaped(old), NEW f, NEW call, call = Taken(old, f)
    PROVE  Shaped(call) /\ call.walk = old.walk /\ call.stage = old.stage
<1> PICK got : got = IF Absent(f, Head(old.todo)) THEN old.got ELSE Append(old.got, Head(old.todo))
    OBVIOUS
<1>1. call = [ask |-> old.ask, stage |-> old.stage, walk |-> old.walk,
              todo |-> Tail(old.todo), asked |-> FALSE, got |-> got]
    BY DEF Shaped, Taken
<1> QED BY <1>1 DEF Shaped

\* A step of a call that is reading, which stays with what it saw.
LEMMA ReadingAlone ==
    ASSUME IInv, NEW c \in CALLERS, calls[c].stage = "reading",
           NEW call, Shaped(call), call.walk = calls[c].walk,
           call.stage \in {"reading", "answered", "rejected"},
           calls' = [calls EXCEPT ![c] = call], UNCHANGED <<file, limit, walkVars>>
    PROVE  IInv'
<1>1. CallHolds(call) /\ call.stage \in Stage
    BY DEF CallHolds, Stage, IInv
<1> QED BY <1>1, CallAlone

LEMMA ReadingIInv ==
    ASSUME IInv, NEW c \in CALLERS, Take(c) \/ Request(c) \/ Arrive(c) \/ Fail(c) \/ Return(c)
    PROVE  IInv'
<1> PICK old : old = calls[c]
    OBVIOUS
<1>1. /\ Shaped(old) /\ old.stage = "reading"
      /\ UNCHANGED <<file, limit, walkVars>>
    BY DEF IInv, CallsShaped, Take, Request, Arrive, Fail, Return, Reading, caseVars
<1>2. CASE calls' = [calls EXCEPT ![c] = Taken(old, file)]
    <2> PICK call : call = Taken(old, file)
        OBVIOUS
    <2>1. Shaped(call) /\ call.walk = old.walk /\ call.stage = "reading"
        BY <1>1, TakenShaped
    <2> QED BY <1>1, <1>2, <2>1, ReadingAlone
<1>3. CASE calls' = [calls EXCEPT ![c] = [old EXCEPT !.asked = TRUE]]
    <2> PICK call : call = [old EXCEPT !.asked = TRUE]
        OBVIOUS
    <2>1. Shaped(call) /\ call.walk = old.walk /\ call.stage = "reading"
        BY <1>1, AskedShaped
    <2> QED BY <1>1, <1>3, <2>1, ReadingAlone
<1>4. CASE \E stage \in {"answered", "rejected"} : calls' = [calls EXCEPT ![c] = [old EXCEPT !.stage = stage]]
    <2> PICK stage \in {"answered", "rejected"} : calls' = [calls EXCEPT ![c] = [old EXCEPT !.stage = stage]]
        BY <1>4
    <2> PICK call : call = [old EXCEPT !.stage = stage]
        OBVIOUS
    <2>1. Shaped(call) /\ call.walk = old.walk /\ call.stage = stage
        BY <1>1, MovedShaped
    <2> QED BY <1>1, <2>1, ReadingAlone
<1>5. CASE Take(c)
    BY <1>2, <1>5 DEF Take
<1>6. CASE Request(c)
    BY <1>3, <1>6 DEF Request
<1>7. CASE Arrive(c)
    BY <1>2, <1>4, <1>7 DEF Arrive
<1>8. CASE Fail(c)
    BY <1>4, <1>8 DEF Fail
<1>9. CASE Return(c)
    BY <1>4, <1>9 DEF Return
<1> QED BY <1>5, <1>6, <1>7, <1>8, <1>9

----------------------------------------------------------------------------
(* The theorems                                                            *)

LEMMA StutterIInv == IInv /\ UNCHANGED vars => IInv'
<1> SUFFICES ASSUME IInv, UNCHANGED vars PROVE IInv'
    OBVIOUS
<1>1. UNCHANGED <<file, limit, fields, complete, discovery, walks, cache, calls, failed>>
    BY DEF vars, caseVars, walkVars
<1>2. SingleWalk'
    BY <1>1, WalkHoldsNext DEF IInv, SingleWalk
<1> QED BY <1>1, <1>2 DEF IInv, FileListed, CallsShaped, Shaped, FieldsTogether, CallHolds

LEMMA NextIInv == IInv /\ [Next]_vars => IInv'
<1> SUFFICES ASSUME IInv, [Next]_vars PROVE IInv'
    OBVIOUS
<1>1. ASSUME NEW n \in DOMAIN walks, WalkStep(n) PROVE IInv'
    BY <1>1, WalkRecordIInv, WalkEndsIInv, WalkFailsIInv DEF WalkStep
<1>2. ASSUME NEW c \in CALLERS, Call(c) \/ CallStep(c) PROVE IInv'
    BY <1>2, CallIInv, ResumeIInv, ReadingIInv DEF CallStep
<1>3. CASE Done \/ UNCHANGED vars
    BY <1>3, StutterIInv DEF Done
<1> QED BY <1>1, <1>2, <1>3 DEF Next

\* However many accessors are called, and whichever of them meet, the headers of
\* the file are walked at most once (deferredDiscovery, indexedDecoder.ts).
THEOREM WalkedOnce == Spec => []OneWalk
<1>1. IInv => OneWalk
    <2>1. walks = <<>> => Len(walks) <= 1
        OBVIOUS
    <2>2. ASSUME NEW w, walks = <<w>> PROVE Len(walks) <= 1
        BY <2>2
    <2>3. IInv => walks = <<>> \/ \E w : walks = <<w>>
        BY DEF IInv, SingleWalk
    <2> QED BY <2>1, <2>2, <2>3 DEF OneWalk
<1> QED BY InitIInv, NextIInv, <1>1, PTL DEF Spec

\* The fields are those of open() or those of the whole file, and no accessor
\* begins to read before they are the whole file's (ensureDeferredRecords,
\* indexedDecoder.ts).
THEOREM SharedDiscovery == Spec => [](FieldsTogether /\ ReadsSeeWhole)
<1>1. IInv => FieldsTogether
    BY DEF IInv
<1>2. IInv => ReadsSeeWhole
    BY DEF IInv, FieldsTogether, CallHolds, ReadsSeeWhole
<1> QED BY InitIInv, NextIInv, <1>1, <1>2, PTL DEF Spec

----------------------------------------------------------------------------
(* What the records passed say of the file                                 *)

With(op) == {i \in DOMAIN file.records : file.records[i].op = op}

Ids(op) == {file.records[i].id : i \in With(op)}

Ordered(places) ==
    \A i, j \in places : i < j /\ file.records[i].op \in State => file.records[j].op \notin FrontMatter

AllSound(places) == \A i \in places : file.records[i].op \in Framed => file.records[i].sound

Single(places, op) == \A i, j \in places \cap With(op) : i = j

Distinct(places, op) ==
    \A i, j \in places \cap With(op) : file.records[i].id = file.records[j].id => i = j

Before(at) == {i \in DOMAIN file.records : i < at}

\* What the walk has found of the records it has passed.
Unbroken(at) ==
    /\ Ordered(Before(at)) /\ AllSound(Before(at)) /\ Single(Before(at), "AUDIO")
    /\ Distinct(Before(at), "AUDIO_SOURCE") /\ Distinct(Before(at), "AUDIO_DATA")
    /\ Cardinality(PassedBy(at)) <= limit

LEMMA LawfulParts ==
    Lawful(file, limit) <=>
        /\ Ordered(DOMAIN file.records) /\ AllSound(DOMAIN file.records)
        /\ Ahead(file) = DOMAIN file.records \/ Single(DOMAIN file.records, "AUDIO")
        /\ Distinct(DOMAIN file.records, "AUDIO_SOURCE") /\ Distinct(DOMAIN file.records, "AUDIO_DATA")
        /\ Ids("AUDIO_SOURCE") = Ids("AUDIO_DATA")
        /\ With("AUDIO") = {} \/ With("AUDIO_SOURCE") = {}
        /\ file.has_audio = (With("AUDIO") # {} \/ With("AUDIO_SOURCE") # {})
        /\ Cardinality(Places(file)) <= limit
<1> DEFINE W(op) == {i \in DOMAIN file.records : file.records[i].op = op}
           I(op) == {file.records[i].id : i \in W(op)}
<1>1. /\ With("AUDIO") = W("AUDIO") /\ With("AUDIO_SOURCE") = W("AUDIO_SOURCE") /\ With("AUDIO_DATA") = W("AUDIO_DATA")
      /\ Ids("AUDIO_SOURCE") = I("AUDIO_SOURCE") /\ Ids("AUDIO_DATA") = I("AUDIO_DATA")
    BY DEF With, Ids
<1>2. /\ DOMAIN file.records \cap W("AUDIO") = W("AUDIO")
      /\ DOMAIN file.records \cap W("AUDIO_SOURCE") = W("AUDIO_SOURCE")
      /\ DOMAIN file.records \cap W("AUDIO_DATA") = W("AUDIO_DATA")
    OBVIOUS
<1> HIDE DEF W, I
<1>3. Lawful(file, limit) <=>
        /\ \A i, j \in DOMAIN file.records : i < j /\ file.records[i].op \in State => file.records[j].op \notin FrontMatter
        /\ \A i \in DOMAIN file.records : file.records[i].op \in Framed => file.records[i].sound
        /\ Ahead(file) = DOMAIN file.records \/ \A i, j \in W("AUDIO") : i = j
        /\ \A op \in {"AUDIO_SOURCE", "AUDIO_DATA"} : \A i, j \in W(op) :
                file.records[i].id = file.records[j].id => i = j
        /\ I("AUDIO_SOURCE") = I("AUDIO_DATA")
        /\ W("AUDIO") = {} \/ W("AUDIO_SOURCE") = {}
        /\ file.has_audio = (W("AUDIO") # {} \/ W("AUDIO_SOURCE") # {})
        /\ Cardinality(Places(file)) <= limit
    BY Zenon DEF Lawful, W, I
<1> QED BY <1>1, <1>2, <1>3 DEF Ordered, AllSound, Single, Distinct

LEMMA KindsAreOptional ==
    /\ AudioRecords \subseteq Optional /\ AudioRecords = {"AUDIO", "AUDIO_SOURCE", "AUDIO_DATA"}
    /\ Optional \cap State = {} /\ Framed = State \cup {"AUDIO", "AUDIO_DATA"}
BY DEF Optional, AudioRecords, ProvenanceFamily, Provenance, Objects, State, Framed

LEMMA FilePlaces ==
    ASSUME FileListed
    PROVE  /\ DOMAIN file.records = 1 .. Len(file.records) /\ Len(file.records) \in Nat
           /\ IsFiniteSet(DOMAIN file.records)
           /\ \A s \in SUBSET DOMAIN file.records : IsFiniteSet(s) /\ Cardinality(s) \in Nat
<1>1. DOMAIN file.records = 1 .. Len(file.records) /\ Len(file.records) \in Nat
    BY DEF FileListed
<1>2. IsFiniteSet(DOMAIN file.records)
    BY <1>1, FS_Interval
<1> QED BY <1>1, <1>2, FS_Subset, FS_CardinalityType

LEMMA HavingAll ==
    ASSUME NEW op \in Optional
    PROVE  Having(file, Places(file), {op}) = With(op) /\ IdsOf(file, Places(file), op) = Ids(op)
<1>1. Having(file, Places(file), {op}) = With(op)
    BY DEF Having, Places, With
<1> QED BY <1>1 DEF IdsOf, Ids

\* Whether the fields hold a source is whether the file holds audio.
LEMMA AudioPresent ==
    ASSUME FileListed, Ids("AUDIO_SOURCE") = Ids("AUDIO_DATA")
    PROVE  AudioSourcesOf(file, Places(file)) # {} <=> With("AUDIO") # {} \/ With("AUDIO_SOURCE") # {}
<1> DEFINE legacy == Latest(With("AUDIO"))
<1>0. "AUDIO" \in Optional /\ "AUDIO_SOURCE" \in Optional /\ "AUDIO_DATA" \in Optional
    BY KindsAreOptional
<1>1. legacy # {} <=> With("AUDIO") # {}
    <2>1. legacy \subseteq With("AUDIO")
        BY DEF Latest
    <2>2. ASSUME With("AUDIO") # {} PROVE legacy # {}
        <3>1. With("AUDIO") \subseteq 1 .. Len(file.records) /\ Len(file.records) \in Nat
            BY FilePlaces DEF With
        <3>2. PICK k \in With("AUDIO") : \A j \in k + 1 .. Len(file.records) : j \notin With("AUDIO")
            BY <2>2, <3>1, LastPosition
        <3>3. \A j \in With("AUDIO") : j <= k
            BY <3>1, <3>2
        <3> QED BY <3>3 DEF Latest
    <2> QED BY <2>1, <2>2
<1>2. Ids("AUDIO_SOURCE") # {} <=> With("AUDIO_SOURCE") # {}
    BY DEF Ids
<1>3. CASE legacy # {}
    <2>1. AudioSourcesOf(file, Places(file)) = {[id |-> 0, descriptor |-> 0, data |-> i] : i \in legacy}
        BY <1>0, <1>3, HavingAll DEF AudioSourcesOf
    <2> QED BY <1>1, <1>3, <2>1
<1>4. CASE legacy = {}
    <2>1. IdsOf(file, Places(file), "AUDIO_SOURCE") \cap IdsOf(file, Places(file), "AUDIO_DATA") = Ids("AUDIO_SOURCE")
        BY <1>0, HavingAll
    <2>2. AudioSourcesOf(file, Places(file)) =
            {[id |-> id, descriptor |-> Place(file, Places(file), "AUDIO_SOURCE", id),
              data |-> Place(file, Places(file), "AUDIO_DATA", id)] : id \in Ids("AUDIO_SOURCE")}
        BY <1>0, <1>4, <2>1, HavingAll DEF AudioSourcesOf
    <2> QED BY <1>1, <1>2, <1>4, <2>2
<1> QED BY <1>3, <1>4

----------------------------------------------------------------------------
(* What the walk refuses, and what it lets through                         *)

LEMMA PassedIsBefore ==
    ASSUME FileListed, NEW at \in Nat \ {0}
    PROVE  /\ PassedBy(at) = {i \in Before(at) : file.records[i].op \in Optional}
           /\ Before(at) \subseteq DOMAIN file.records /\ at \notin Before(at)
           /\ at \in DOMAIN file.records => Before(at + 1) = Before(at) \cup {at}
           /\ at \notin DOMAIN file.records => Before(at) = DOMAIN file.records
<1>1. DOMAIN file.records = 1 .. Len(file.records) /\ Len(file.records) \in Nat
    BY FilePlaces
<1> QED BY <1>1 DEF PassedBy, Before

LEMMA LateIsBefore ==
    ASSUME FileListed, NEW w, w.at \in Nat \ {0}, w.at \in DOMAIN file.records
    PROVE  Late(w) <=> \E j \in Before(w.at) : file.records[j].op \in State
<1>1. Before(w.at) = 1 .. w.at - 1
    BY FilePlaces DEF Before
<1> QED BY <1>1 DEF Late

LEMMA KeptHaving ==
    ASSUME FileListed, NEW w, WalkHolds(w)
    PROVE  /\ Having(file, w.kept, {"AUDIO"}) = Before(w.at) \cap With("AUDIO")
           /\ \A op \in {"AUDIO_SOURCE", "AUDIO_DATA"} :
                IdsOf(file, w.kept, op) = {file.records[i].id : i \in Before(w.at) \cap With(op)}
<1>1. ASSUME NEW op \in AudioRecords PROVE Having(file, w.kept, {op}) = Before(w.at) \cap With(op)
    BY PassedIsBefore, KindsAreOptional DEF WalkHolds, Having, With
<1> QED BY <1>1, KindsAreOptional DEF IdsOf

\* A walk is begun only for a file that open() has not seen to its end.
LEMMA RefusedIsUnlawful ==
    ASSUME FileListed, limit \in Nat, ~CompleteAtOpen(file, limit), NEW w, WalkHolds(w),
           w.at \in DOMAIN file.records, WalkRefuses(w)
    PROVE  ~Lawful(file, limit)
<1> PICK at \in Nat \ {0} : at = w.at
    BY DEF WalkHolds
<1> PICK r : r = file.records[at]
    OBVIOUS
<1>0. /\ at \in DOMAIN file.records /\ Before(at) \subseteq DOMAIN file.records
      /\ \A i \in Before(at) : i < at /\ i \in Nat
    BY PassedIsBefore, FilePlaces DEF Before
<1>1. CASE r.op \in Framed /\ ~r.sound
    BY <1>0, <1>1, LawfulParts DEF AllSound
<1>2. CASE r.op \in FrontMatter /\ Late(w)
    BY <1>0, <1>2, LawfulParts, LateIsBefore DEF Ordered
<1>3. CASE r.op = "AUDIO" /\ Having(file, w.kept, {"AUDIO"}) # {}
    <2>1. PICK i \in Before(at) : i \in With("AUDIO")
        BY <1>3, KeptHaving
    <2>2. ~Single(DOMAIN file.records, "AUDIO")
        BY <1>0, <1>3, <2>1 DEF Single, With
    <2>3. ASSUME Ahead(file) = DOMAIN file.records, Cardinality(Places(file)) <= limit PROVE FALSE
        BY <2>3 DEF CompleteAtOpen, OptionalAhead, Places
    <2> QED BY <2>2, <2>3, LawfulParts
<1>4. CASE Repeats(file, w.kept, at)
    <2>0. r.op \in {"AUDIO_SOURCE", "AUDIO_DATA"} /\ r.id \in IdsOf(file, w.kept, r.op)
        BY <1>4 DEF Repeats
    <2>1. PICK i \in Before(at) : i \in With(r.op) /\ file.records[i].id = r.id
        <3>1. r.id \in {file.records[i].id : i \in Before(at) \cap With(r.op)}
            BY <2>0, KeptHaving
        <3> QED BY <3>1
    <2>2. ~Distinct(DOMAIN file.records, r.op)
        BY <1>0, <2>1 DEF Distinct, With
    <2> QED BY <1>4, <2>2, LawfulParts DEF Repeats
<1>5. CASE r.op \in Optional /\ Cardinality(w.kept) = limit
    <2>1. at \in Places(file) /\ w.kept \subseteq Places(file) /\ at \notin w.kept
        BY <1>0, <1>5, PassedIsBefore DEF WalkHolds, Places, Having
    <2>2. Places(file) \in SUBSET DOMAIN file.records
        BY DEF Places, Having
    <2>3. IsFiniteSet(Places(file)) /\ IsFiniteSet(w.kept) /\ Cardinality(Places(file)) \in Nat
        BY <2>1, <2>2, FilePlaces
    <2>4. Cardinality(w.kept \cup {at}) = limit + 1
        BY <1>5, <2>1, <2>3, FS_AddElement
    <2>5. w.kept \cup {at} \in SUBSET Places(file)
        BY <2>1
    <2>6. Cardinality(w.kept \cup {at}) <= Cardinality(Places(file))
        BY <2>3, <2>5, FS_Subset
    <2> QED BY <2>3, <2>4, <2>6, LawfulParts
<1> QED BY <1>1, <1>2, <1>3, <1>4, <1>5 DEF WalkRefuses

LEMMA KeptUnbroken ==
    ASSUME FileListed, limit \in Nat, NEW w, WalkHolds(w), Unbroken(w.at),
           w.at \in DOMAIN file.records, ~WalkRefuses(w)
    PROVE  Unbroken(w.at + 1)
<1> PICK at \in Nat \ {0} : at = w.at
    BY DEF WalkHolds
<1> PICK r : r = file.records[at]
    OBVIOUS
<1>0. /\ Before(at + 1) = Before(at) \cup {at} /\ \A i \in Before(at) : i < at /\ i \in Nat
      /\ w.kept = PassedBy(at)
    BY PassedIsBefore, FilePlaces DEF Before, WalkHolds
<1>1. Ordered(Before(at + 1))
    BY <1>0, LateIsBefore DEF Unbroken, Ordered, WalkRefuses
<1>2. AllSound(Before(at + 1))
    BY <1>0 DEF Unbroken, AllSound, WalkRefuses
<1>3. Single(Before(at + 1), "AUDIO")
    <2>1. r.op = "AUDIO" => Before(at) \cap With("AUDIO") = {}
        BY KeptHaving DEF WalkRefuses
    <2>2. Single(Before(at), "AUDIO")
        BY DEF Unbroken
    <2> QED BY <1>0, <2>1, <2>2 DEF Single, With
<1>4. ASSUME NEW op \in {"AUDIO_SOURCE", "AUDIO_DATA"} PROVE Distinct(Before(at + 1), op)
    <2>1. Distinct(Before(at), op)
        BY DEF Unbroken
    <2>2. r.op = op => \A i \in Before(at) \cap With(op) : file.records[i].id # r.id
        <3>1. r.op = op => r.id \notin IdsOf(file, w.kept, op)
            BY DEF WalkRefuses, Repeats
        <3>2. IdsOf(file, w.kept, op) = {file.records[i].id : i \in Before(at) \cap With(op)}
            BY KeptHaving
        <3> QED BY ONLY <3>1, <3>2
    <2> QED BY <1>0, <2>1, <2>2 DEF Distinct, With
<1>5. Cardinality(PassedBy(at + 1)) <= limit
    <2>1. PassedBy(at + 1) = PassedBy(at) \cup {i \in {at} : r.op \in Optional}
        BY PassedOne
    <2>2. PassedBy(at) \in SUBSET DOMAIN file.records
        BY DEF PassedBy
    <2>3. IsFiniteSet(PassedBy(at)) /\ Cardinality(PassedBy(at)) \in Nat
        BY <2>2, FilePlaces
    <2>4. CASE r.op \in Optional
        <3>1. Cardinality(PassedBy(at)) < limit
            BY <1>0, <2>3, <2>4 DEF Unbroken, WalkRefuses
        <3>2. PassedBy(at + 1) = PassedBy(at) \cup {at}
            BY <2>1, <2>4
        <3>3. at \notin PassedBy(at)
            BY DEF PassedBy
        <3>4. Cardinality(PassedBy(at) \cup {at}) = Cardinality(PassedBy(at)) + 1
            BY <2>3, <3>3, FS_AddElement
        <3>5. Cardinality(PassedBy(at) \cup {at}) <= limit
            BY <2>3, <3>1, <3>4
        <3> QED BY <3>2, <3>5
    <2>5. CASE r.op \notin Optional
        <3>1. PassedBy(at + 1) = PassedBy(at)
            BY <2>1, <2>5
        <3> QED BY <3>1 DEF Unbroken
    <2> QED BY <2>4, <2>5
<1> QED BY <1>1, <1>2, <1>3, <1>4, <1>5 DEF Unbroken

LEMMA EndIsVerdict ==
    ASSUME FileListed, NEW w, WalkHolds(w), w.at \notin DOMAIN file.records
    PROVE  /\ Unbroken(w.at) /\ ~EndRefuses(w) => Lawful(file, limit)
           /\ EndRefuses(w) => ~Lawful(file, limit)
<1>1. w.kept = Places(file) /\ Before(w.at) = DOMAIN file.records /\ PassedBy(w.at) = Places(file)
    BY PassedAll, PassedIsBefore DEF WalkHolds
<1>2. /\ Having(file, w.kept, {"AUDIO"}) = With("AUDIO")
      /\ IdsOf(file, w.kept, "AUDIO_SOURCE") = Ids("AUDIO_SOURCE")
      /\ IdsOf(file, w.kept, "AUDIO_DATA") = Ids("AUDIO_DATA")
    BY <1>1, HavingAll, KindsAreOptional
<1>3. Having(file, w.kept, {"AUDIO_SOURCE", "AUDIO_DATA"}) = With("AUDIO_SOURCE") \cup With("AUDIO_DATA")
    BY <1>1, KindsAreOptional DEF Having, Places, With
<1>4. \A op : Ids(op) = {} <=> With(op) = {}
    BY DEF Ids
<1>5. ASSUME Unbroken(w.at), ~EndRefuses(w) PROVE Lawful(file, limit)
    <2>1. With("AUDIO") = {} \/ (With("AUDIO_SOURCE") = {} /\ With("AUDIO_DATA") = {})
        BY <1>2, <1>3, <1>5 DEF EndRefuses, Mixed
    <2>2. Ids("AUDIO_SOURCE") = Ids("AUDIO_DATA")
        BY <1>2, <1>4, <1>5, <2>1 DEF EndRefuses, Unpaired
    <2>3. file.has_audio = (With("AUDIO") # {} \/ With("AUDIO_SOURCE") # {})
        BY <1>1, <1>5, <2>2, AudioPresent DEF EndRefuses, FlagDiffers
    <2> QED BY <1>1, <1>5, <2>1, <2>2, <2>3, LawfulParts DEF Unbroken
<1>6. ASSUME EndRefuses(w), Lawful(file, limit) PROVE FALSE
    <2>1. ~Mixed(file, w.kept)
        BY <1>2, <1>3, <1>4, <1>6, LawfulParts DEF Mixed
    <2>2. ~Unpaired(file, w.kept)
        BY <1>2, <1>6, LawfulParts DEF Unpaired
    <2>3. ~FlagDiffers(file, w.kept)
        BY <1>1, <1>6, LawfulParts, AudioPresent DEF FlagDiffers
    <2> QED BY <1>6, <2>1, <2>2, <2>3 DEF EndRefuses
<1> QED BY <1>5, <1>6

\* A file open() has seen to its end, and let through, is lawful.
LEMMA OpenedIsLawful ==
    ASSUME FileListed, limit \in Nat, CompleteAtOpen(file, limit), ~OpenRefuses(file, limit)
    PROVE  Lawful(file, limit)
<1>1. Ahead(file) = DOMAIN file.records /\ OptionalAhead(file) = Places(file) /\ Cardinality(Places(file)) <= limit
    BY DEF CompleteAtOpen, OptionalAhead, Places
<1>2. KeptByOpen(file, limit) = Places(file)
    BY CompleteKeepsAll
<1>3. \A i \in DOMAIN file.records : file.records[i].op \notin State
    <2>1. \A i \in DOMAIN file.records : i \in 1 .. i
        BY FilePlaces
    <2> QED BY <1>1, <2>1 DEF Ahead
<1>4. /\ \A i \in Having(file, DOMAIN file.records, {"AUDIO_DATA"}) \cup Having(file, Places(file), {"AUDIO"}) :
            file.records[i].sound
      /\ \A i \in DOMAIN file.records : ~Repeats(file, {j \in Places(file) : j < i}, i)
      /\ ~Mixed(file, Places(file)) /\ ~Unpaired(file, Places(file)) /\ ~FlagDiffers(file, Places(file))
    BY <1>1, <1>2 DEF OpenRefuses
<1>5. /\ Having(file, Places(file), {"AUDIO"}) = With("AUDIO")
      /\ IdsOf(file, Places(file), "AUDIO_SOURCE") = Ids("AUDIO_SOURCE")
      /\ IdsOf(file, Places(file), "AUDIO_DATA") = Ids("AUDIO_DATA")
      /\ Having(file, Places(file), {"AUDIO_SOURCE", "AUDIO_DATA"}) = With("AUDIO_SOURCE") \cup With("AUDIO_DATA")
      /\ Having(file, DOMAIN file.records, {"AUDIO_DATA"}) = With("AUDIO_DATA")
    BY HavingAll, KindsAreOptional DEF Having, Places, With
<1>6. Ordered(DOMAIN file.records) /\ AllSound(DOMAIN file.records)
    BY <1>3, <1>4, <1>5, KindsAreOptional DEF Ordered, AllSound, With
<1>7. ASSUME NEW op \in {"AUDIO_SOURCE", "AUDIO_DATA"} PROVE Distinct(DOMAIN file.records, op)
    <2>1. ASSUME NEW i \in With(op), NEW j \in With(op), j < i, file.records[i].id = file.records[j].id PROVE FALSE
        <3>1. i \in DOMAIN file.records /\ file.records[i].op = op /\ j \in DOMAIN file.records /\ file.records[j].op = op
            BY DEF With
        <3>2. j \in Having(file, {k \in Places(file) : k < i}, {op})
            BY <2>1, <3>1, KindsAreOptional DEF Having, Places
        <3>3. Repeats(file, {k \in Places(file) : k < i}, i)
            BY <2>1, <3>1, <3>2 DEF Repeats, IdsOf
        <3> QED BY <1>4, <3>1, <3>3
    <2>2. \A i, j \in With(op) : i = j \/ i < j \/ j < i
        BY FilePlaces DEF With
    <2> QED BY <2>1, <2>2 DEF Distinct
<1>8. With("AUDIO") = {} \/ With("AUDIO_SOURCE") = {}
    BY <1>4, <1>5 DEF Mixed
<1>9. Ids("AUDIO_SOURCE") = Ids("AUDIO_DATA")
    BY <1>4, <1>5 DEF Unpaired
<1>10. file.has_audio = (With("AUDIO") # {} \/ With("AUDIO_SOURCE") # {})
    BY <1>4, <1>9, AudioPresent DEF FlagDiffers
<1> QED BY <1>1, <1>6, <1>7, <1>8, <1>9, <1>10, LawfulParts

----------------------------------------------------------------------------
(* Numbers in order                                                        *)

LEMMA UpToFinite ==
    ASSUME NEW P \in SUBSET Nat, NEW n \in Nat
    PROVE  IsFiniteSet(UpTo(P, n)) /\ Cardinality(UpTo(P, n)) \in Nat
<1>1. UpTo(P, n) \in SUBSET Nat /\ \A m \in UpTo(P, n) : m <= n
    BY DEF UpTo
<1>2. IsFiniteSet(UpTo(P, n))
    BY <1>1, FS_BoundedSetOfNaturals
<1> QED BY <1>2, FS_CardinalityType

\* How many there are up to a member says which it is.
LEMMA RankOfMember ==
    ASSUME NEW P \in SUBSET Nat, NEW n \in P, NEW k \in Nat, n <= k
    PROVE  Cardinality(UpTo(P, n)) \in 1 .. Cardinality(UpTo(P, k))
<1>0. n \in Nat /\ n <= n /\ \A m \in P : m \in Nat /\ (m <= n => m <= k)
    OBVIOUS
<1>1. n \in UpTo(P, n) /\ UpTo(P, n) \subseteq UpTo(P, k)
    BY <1>0 DEF UpTo
<1>2. /\ IsFiniteSet(UpTo(P, n)) /\ Cardinality(UpTo(P, n)) \in Nat
      /\ IsFiniteSet(UpTo(P, k)) /\ Cardinality(UpTo(P, k)) \in Nat
    BY UpToFinite
<1>3. Cardinality(UpTo(P, n)) <= Cardinality(UpTo(P, k))
    BY <1>1, <1>2, FS_Subset
<1>4. Cardinality(UpTo(P, n)) # 0
    BY <1>1, <1>2, FS_EmptySet
<1> QED BY <1>2, <1>3, <1>4

\* Each rank from 1 to the size of a finite set of numbers is some member's.
LEMMA NthIn ==
    ASSUME NEW P \in SUBSET Nat, IsFiniteSet(P), NEW i \in 1 .. Cardinality(P)
    PROVE  Nth(P, i) \in P /\ Cardinality(UpTo(P, Nth(P, i))) = i
<1> DEFINE rank == [n \in P |-> Cardinality(UpTo(P, n))]
           T == 1 .. Cardinality(P)
<1>0. Cardinality(P) \in Nat
    BY FS_CardinalityType
<1>1. rank \in [P -> T]
    <2> SUFFICES ASSUME NEW n \in P PROVE Cardinality(UpTo(P, n)) \in T
        OBVIOUS
    <2>1. UpTo(P, n) \in SUBSET P /\ n \in UpTo(P, n)
        BY DEF UpTo
    <2>2. IsFiniteSet(UpTo(P, n)) /\ Cardinality(UpTo(P, n)) \in Nat
        BY UpToFinite
    <2>3. Cardinality(UpTo(P, n)) <= Cardinality(P)
        BY <2>1, FS_Subset
    <2>4. Cardinality(UpTo(P, n)) # 0
        BY <2>1, <2>2, FS_EmptySet
    <2> QED BY <1>0, <2>2, <2>3, <2>4
<1>2. ASSUME NEW m \in P, NEW n \in P, m < n PROVE Cardinality(UpTo(P, m)) # Cardinality(UpTo(P, n))
    <2>0. n <= n /\ ~(n <= m) /\ \A l \in P : l <= m => l <= n
        BY <1>2
    <2>1. UpTo(P, m) \subseteq UpTo(P, n) /\ n \in UpTo(P, n) /\ n \notin UpTo(P, m)
        BY <1>2, <2>0 DEF UpTo
    <2>2. IsFiniteSet(UpTo(P, n))
        BY UpToFinite
    <2> QED BY <2>1, <2>2, FS_Subset
<1>3. rank \in Injection(P, T)
    <2>1. \A m, n \in P : rank[m] = rank[n] => m = n
        <3> SUFFICES ASSUME NEW m \in P, NEW n \in P, rank[m] = rank[n], m # n PROVE FALSE
            OBVIOUS
        <3>1. m < n \/ n < m
            OBVIOUS
        <3> QED BY <1>2, <3>1
    <2> HIDE DEF rank
    <2> QED BY <1>1, <2>1 DEF Injection, IsInjective
<1>4. IsFiniteSet(T) /\ Cardinality(T) = Cardinality(P)
    BY <1>0, FS_Interval
<1>5. rank \in Surjection(P, T)
    <2> HIDE DEF rank
    <2> QED BY <1>3, <1>4, FS_Injection
<1>6. \E n \in P : Cardinality(UpTo(P, n)) = i
    BY <1>5 DEF Surjection
<1> QED BY <1>6 DEF Nth

----------------------------------------------------------------------------
(* Reading one item after the other                                        *)

\* got is what is present of the first k of a list's items, in order.
Read(items, P, k, got) ==
    /\ IsSeq(got) /\ Len(got) = Cardinality(UpTo(P, k))
    /\ \A n \in UpTo(P, k) : got[Cardinality(UpTo(P, n))] = items[n]
    /\ \A i \in 1 .. Len(got) : \E n \in UpTo(P, k) : i = Cardinality(UpTo(P, n))

LEMMA ReadNone ==
    ASSUME NEW items, NEW P \in SUBSET (Nat \ {0})
    PROVE  Read(items, P, 0, <<>>)
<1>0. \A m \in P : ~(m <= 0)
    OBVIOUS
<1>1. UpTo(P, 0) = {}
    BY <1>0 DEF UpTo
<1> QED BY <1>1, FS_EmptySet, EmptyIsSeq DEF Read

LEMMA ReadAbsent ==
    ASSUME NEW items, NEW P \in SUBSET Nat, NEW k \in Nat, NEW got, Read(items, P, k, got), k + 1 \notin P
    PROVE  Read(items, P, k + 1, got)
<1>0. \A m \in P : m <= k + 1 <=> m <= k
    OBVIOUS
<1>1. UpTo(P, k + 1) = UpTo(P, k)
    BY <1>0 DEF UpTo
<1> QED BY <1>1 DEF Read

LEMMA ReadPresent ==
    ASSUME NEW items, NEW P \in SUBSET Nat, NEW k \in Nat, NEW got, Read(items, P, k, got), k + 1 \in P
    PROVE  Read(items, P, k + 1, Append(got, items[k + 1]))
<1> PICK longer : longer = Append(got, items[k + 1])
    OBVIOUS
<1>0. ~(k + 1 <= k) /\ \A m \in P : m <= k + 1 <=> m <= k \/ m = k + 1
    OBVIOUS
<1>1. UpTo(P, k + 1) = UpTo(P, k) \cup {k + 1} /\ k + 1 \notin UpTo(P, k)
    BY <1>0 DEF UpTo
<1>2. IsFiniteSet(UpTo(P, k)) /\ Cardinality(UpTo(P, k)) \in Nat
    BY UpToFinite
<1>3. Cardinality(UpTo(P, k + 1)) = Len(got) + 1 /\ Len(got) \in Nat
    <2>1. Cardinality(UpTo(P, k) \cup {k + 1}) = Cardinality(UpTo(P, k)) + 1
        BY <1>1, <1>2, FS_AddElement
    <2> QED BY <1>1, <1>2, <2>1 DEF Read
<1>4. /\ IsSeq(longer) /\ Len(longer) = Len(got) + 1
      /\ \A i \in 1 .. Len(got) : longer[i] = got[i]
      /\ longer[Len(got) + 1] = items[k + 1]
    BY AppendIsSeq DEF Read
<1>5. \A n \in UpTo(P, k) : n \in P /\ n <= k /\ Cardinality(UpTo(P, n)) \in 1 .. Len(got)
    BY RankOfMember DEF Read, UpTo
<1>6. \A n \in UpTo(P, k + 1) : longer[Cardinality(UpTo(P, n))] = items[n]
    BY <1>1, <1>3, <1>4, <1>5 DEF Read
<1>7. \A i \in 1 .. Len(longer) : \E n \in UpTo(P, k + 1) : i = Cardinality(UpTo(P, n))
    <2> SUFFICES ASSUME NEW i \in 1 .. Len(longer) PROVE \E n \in UpTo(P, k + 1) : i = Cardinality(UpTo(P, n))
        OBVIOUS
    <2>1. CASE i = Len(got) + 1
        BY <1>1, <1>3, <2>1
    <2>2. CASE i # Len(got) + 1
        <3>1. i \in 1 .. Len(got)
            BY <1>3, <1>4, <2>2
        <3> QED BY <1>1, <3>1 DEF Read
    <2> QED BY <2>1, <2>2
<1> QED BY <1>3, <1>4, <1>6, <1>7 DEF Read

LEMMA ReadAll ==
    ASSUME NEW items, IsSeq(items), NEW P, P \subseteq 1 .. Len(items), NEW got, Read(items, P, Len(items), got)
    PROVE  got = Only(items, P)
<1>1. UpTo(P, Len(items)) = P /\ P \in SUBSET Nat /\ Len(items) \in Nat
    BY DEF UpTo, IsSeq
<1>2. IsFiniteSet(P)
    BY <1>1, UpToFinite
<1>3. /\ got = [i \in 1 .. Cardinality(P) |-> got[i]]
      /\ \A n \in P : got[Cardinality(UpTo(P, n))] = items[n]
    BY <1>1 DEF Read, IsSeq
<1>4. \A i \in 1 .. Cardinality(P) : got[i] = items[Nth(P, i)]
    BY <1>1, <1>2, <1>3, NthIn
<1> QED BY <1>3, <1>4 DEF Only

\* What has been read is what is present of the items passed.
LEMMA ReadHas ==
    ASSUME NEW items, NEW P \in SUBSET Nat, NEW k \in Nat, NEW got, Read(items, P, k, got)
    PROVE  Range(got) = {items[n] : n \in UpTo(P, k)}
<1>1. \A n \in UpTo(P, k) : n \in P /\ n <= k /\ Cardinality(UpTo(P, n)) \in 1 .. Len(got)
    BY RankOfMember DEF Read, UpTo
<1>2. DOMAIN got = 1 .. Len(got)
    BY DEF Read, IsSeq
<1> QED BY <1>1, <1>2 DEF Read, Range

----------------------------------------------------------------------------
(* The lists the accessors read                                            *)

FileNumbered == \A i \in DOMAIN file.records : file.records[i].id \in Nat

Sources == AudioSourcesOf(file, Places(file))

KnownIds == {file.records[i].id : i \in DOMAIN file.records} \cup {0}

LEMMA SourcesKnown ==
    ASSUME FileNumbered
    PROVE  /\ \A e \in Sources :
                /\ e.id \in KnownIds /\ e.data \in DOMAIN file.records
                /\ e.descriptor = 0 \/ e.descriptor \in DOMAIN file.records
           /\ \A d, e \in Sources : d.descriptor = e.descriptor /\ d.descriptor # 0 => d = e
<1> DEFINE legacy == Latest(Having(file, Places(file), {"AUDIO"}))
           paired == IdsOf(file, Places(file), "AUDIO_SOURCE") \cap IdsOf(file, Places(file), "AUDIO_DATA")
           D(id) == Place(file, Places(file), "AUDIO_SOURCE", id)
           A(id) == Place(file, Places(file), "AUDIO_DATA", id)
<1>1. CASE legacy # {}
    <2>1. Sources = {[id |-> 0, descriptor |-> 0, data |-> i] : i \in legacy}
        BY <1>1 DEF Sources, AudioSourcesOf
    <2>2. legacy \subseteq DOMAIN file.records
        BY DEF Latest, Having, Places
    <2> QED BY <2>1, <2>2 DEF KnownIds
<1>2. CASE legacy = {}
    <2>1. Sources = {[id |-> id, descriptor |-> D(id), data |-> A(id)] : id \in paired}
        BY <1>2 DEF Sources, AudioSourcesOf
    <2>2. ASSUME NEW id \in paired
          PROVE  /\ D(id) \in DOMAIN file.records /\ file.records[D(id)].id = id
                 /\ A(id) \in DOMAIN file.records
        <3>1. \E i \in Having(file, Places(file), {"AUDIO_SOURCE"}) : file.records[i].id = id
            BY DEF IdsOf
        <3>2. \E i \in Having(file, Places(file), {"AUDIO_DATA"}) : file.records[i].id = id
            BY DEF IdsOf
        <3>3. D(id) \in Having(file, Places(file), {"AUDIO_SOURCE"}) /\ file.records[D(id)].id = id
            BY <3>1 DEF Place
        <3>4. A(id) \in Having(file, Places(file), {"AUDIO_DATA"})
            BY <3>2 DEF Place
        <3> QED BY <3>3, <3>4 DEF Having, Places
    <2> HIDE DEF D, A, paired
    <2>3. \A e \in Sources : \E id \in paired : e = [id |-> id, descriptor |-> D(id), data |-> A(id)]
        BY <2>1
    <2>4. \A id \in paired : id \in KnownIds
        BY <2>2 DEF KnownIds
    <2>5. \A e \in Sources : e.id \in paired /\ e = [id |-> e.id, descriptor |-> D(e.id), data |-> A(e.id)]
        BY <2>3
    <2>6. \A e \in Sources : e.id \in KnownIds /\ e.data \in DOMAIN file.records /\ e.descriptor \in DOMAIN file.records
        BY <2>2, <2>4, <2>5
    <2>7. ASSUME NEW d \in Sources, NEW e \in Sources, d.descriptor = e.descriptor PROVE d = e
        <3>1. d.id = file.records[d.descriptor].id /\ e.id = file.records[e.descriptor].id
            BY <2>2, <2>5
        <3> QED BY <2>5, <2>7, <3>1
    <2> QED BY <2>6, <2>7
<1> QED BY <1>1, <1>2

LEMMA KnownIdsFinite ==
    ASSUME FileListed, FileNumbered
    PROVE  IsFiniteSet(KnownIds) /\ KnownIds \subseteq Nat
<1> DEFINE S == {file.records[i].id : i \in DOMAIN file.records}
           F == [i \in DOMAIN file.records |-> file.records[i].id]
<1>1. F \in [DOMAIN file.records -> S]
    OBVIOUS
<1>2. \A x \in S : \E i \in DOMAIN file.records : F[i] = x
    OBVIOUS
<1> HIDE DEF S, F
<1>3. F \in Surjection(DOMAIN file.records, S)
    BY <1>1, <1>2 DEF Surjection
<1>4. IsFiniteSet(S)
    BY <1>3, FilePlaces, FS_Surjection
<1>5. IsFiniteSet(S \cup {0})
    BY <1>4, FS_AddElement
<1> QED BY <1>5 DEF S, KnownIds, FileNumbered

\* An item is a record of the file, or the descriptor or payload of a source.
Known(item) ==
    \/ \E i \in DOMAIN file.records : item = RecordItem(i)
    \/ \E e \in Sources : item = Descriptor(e) \/ item = Payload(e)

Listed(s) == IsSeq(s) /\ \A n \in 1 .. Len(s) : Known(s[n])

LEMMA FunctionIsSeq ==
    ASSUME NEW n \in Nat, NEW s, s = [i \in 1 .. n |-> s[i]]
    PROVE  IsSeq(s) /\ Len(s) = n
<1> DEFINE S == {s[i] : i \in 1 .. n}
<1>1. s \in [1 .. n -> S]
    OBVIOUS
<1> HIDE DEF S
<1>2. s \in Seq(S) /\ Len(s) = n
    BY <1>1
<1> QED BY <1>2, SeqIsSeq

LEMMA RecordsListed ==
    ASSUME FileListed, NEW P, P \subseteq DOMAIN file.records,
           NEW s, s = [n \in 1 .. Cardinality(P) |-> RecordItem(Nth(P, n))]
    PROVE  Listed(s)
<1>1. IsFiniteSet(P) /\ Cardinality(P) \in Nat /\ P \in SUBSET Nat
    BY FilePlaces
<1>2. IsSeq(s) /\ Len(s) = Cardinality(P)
    BY <1>1, FunctionIsSeq
<1>3. \A n \in 1 .. Cardinality(P) : Nth(P, n) \in P
    BY <1>1, NthIn
<1> QED BY <1>2, <1>3 DEF Listed, Known

\* The entries of a set of sources, in the order of their ids.
EntryAt(S, ids, n) == CHOOSE e \in S : e.id = Nth(ids, n)

LEMMA EntriesInOrder ==
    ASSUME FileListed, FileNumbered, NEW S, S \subseteq Sources, NEW ids, ids = {e.id : e \in S}
    PROVE  /\ Cardinality(ids) \in Nat
           /\ \A n \in 1 .. Cardinality(ids) : EntryAt(S, ids, n) \in S
<1>1. ids \in SUBSET KnownIds
    BY SourcesKnown
<1>2. IsFiniteSet(ids) /\ Cardinality(ids) \in Nat /\ ids \in SUBSET Nat
    BY <1>1, KnownIdsFinite, FS_Subset, FS_CardinalityType
<1>3. ASSUME NEW n \in 1 .. Cardinality(ids) PROVE \E e \in S : e.id = Nth(ids, n)
    <2>1. Nth(ids, n) \in ids
        BY <1>2, NthIn
    <2> QED BY <2>1
<1> QED BY <1>2, <1>3 DEF EntryAt

LEMMA WholeListed ==
    ASSUME FileListed, FileNumbered, NEW ask, ask.op \in Accessors
    PROVE  Listed(Whole(file, ask))
<1> PICK fs : fs = FieldsOf(file, Places(file))
    OBVIOUS
<1>0. /\ fs.audioSources = Sources
      /\ fs.camera = Latest(Having(file, Places(file), {"CAMERA"}))
      /\ fs.metadata = Having(file, Places(file), {"METADATA"})
      /\ fs.attachments = Having(file, Places(file), {"ATTACHMENT"})
      /\ fs.provenanceRanges = Having(file, Places(file), ProvenanceFamily)
    BY DEF FieldsOf, Sources
<1> PICK P : P = CASE ask.op = "provenance" -> Having(file, fs.provenanceRanges, Provenance)
                   [] ask.op = "objects" -> Having(file, fs.provenanceRanges, Objects)
                   [] ask.op = "camera" -> fs.camera
                   [] ask.op = "metadata" -> fs.metadata
                   [] OTHER -> fs.attachments
    OBVIOUS
<1> PICK S : S = IF ask.op \in {"sources", "descriptors"} THEN fs.audioSources ELSE EntriesFor(fs, ask.id)
    OBVIOUS
<1> PICK ids : ids = {e.id : e \in S}
    OBVIOUS
<1> DEFINE Entry(n) == EntryAt(S, ids, n)
<1>1. CASE ask.op \in {"provenance", "objects", "camera", "metadata", "attachments"}
    <2>1. P \subseteq DOMAIN file.records
        <3>1. /\ fs.camera \subseteq DOMAIN file.records /\ fs.metadata \subseteq DOMAIN file.records
              /\ fs.attachments \subseteq DOMAIN file.records /\ fs.provenanceRanges \subseteq DOMAIN file.records
            BY <1>0 DEF Having, Places, Latest
        <3> QED BY <3>1 DEF Having
    <2>2. Whole(file, ask) = [n \in 1 .. Cardinality(P) |-> RecordItem(Nth(P, n))]
        BY <1>1 DEF Whole, Wanted
    <2> QED BY <2>1, <2>2, RecordsListed
<1>2. ASSUME ask.op \notin {"provenance", "objects", "camera", "metadata", "attachments"}
      PROVE  Listed(Whole(file, ask))
    <2>1. S \subseteq Sources
        BY <1>0 DEF EntriesFor
    <2>2. Cardinality(ids) \in Nat /\ \A n \in 1 .. Cardinality(ids) : Entry(n) \in S
        BY <2>1, EntriesInOrder
    <2> PICK count : count = Cardinality(ids)
        OBVIOUS
    <2>3. CASE ask.op \in {"descriptors", "state", "range_beyond"}
        <3> PICK s : s = [n \in 1 .. count |-> Descriptor(Entry(n))]
            OBVIOUS
        <3>1. Whole(file, ask) = s
            BY <2>3 DEF Whole, Wanted, EntryAt
        <3>2. IsSeq(s) /\ Len(s) = count
            BY <2>2, FunctionIsSeq
        <3>3. \A n \in 1 .. count : s[n] = Descriptor(Entry(n)) /\ Entry(n) \in Sources
            BY <2>1, <2>2
        <3> HIDE DEF Entry
        <3> QED BY <3>1, <3>2, <3>3 DEF Listed, Known
    <2>4. CASE ask.op \in {"sources", "range"}
        <3> PICK s : s = [n \in 1 .. 2 * count |-> IF n % 2 = 1 THEN Descriptor(Entry((n + 1) \div 2))
                                                                ELSE Payload(Entry(n \div 2))]
            OBVIOUS
        <3>1. Whole(file, ask) = s
            BY <2>4 DEF Whole, Wanted, EntryAt
        <3>2. IsSeq(s) /\ Len(s) = 2 * count
            BY <2>2, FunctionIsSeq
        <3>3. ASSUME NEW n \in 1 .. 2 * count PROVE Known(s[n])
            <4>1. CASE n % 2 = 1
                <5>1. (n + 1) \div 2 \in 1 .. count
                    BY <2>2, <4>1
                <5>2. s[n] = Descriptor(Entry((n + 1) \div 2)) /\ Entry((n + 1) \div 2) \in Sources
                    BY <2>1, <2>2, <4>1, <5>1
                <5> HIDE DEF Entry
                <5> QED BY <5>2 DEF Known
            <4>2. CASE n % 2 # 1
                <5>1. n \div 2 \in 1 .. count
                    BY <2>2, <4>2
                <5>2. s[n] = Payload(Entry(n \div 2)) /\ Entry(n \div 2) \in Sources
                    BY <2>1, <2>2, <4>2, <5>1
                <5> HIDE DEF Entry
                <5> QED BY <5>2 DEF Known
            <4> QED BY <4>1, <4>2
        <3> QED BY <3>1, <3>2, <3>3 DEF Listed
    <2> QED BY <1>2, <2>3, <2>4 DEF Accessors
<1> QED BY <1>1, <1>2

----------------------------------------------------------------------------
(* The inductive invariant                                                 *)

\* A walk that goes on has found nothing wrong; one that rejected had a cause.
WalkSays(w) ==
    /\ w.state = "walking" => Unbroken(w.at)
    /\ w.state = "rejected" => "walk" \in failed \/ ~Lawful(file, limit)

\* A call has read the first k items of its list, and taken what is present.
SoFar(call, k) ==
    /\ IsSeq(call.todo) /\ Len(call.todo) = Len(Whole(file, call.ask)) - k
    /\ \A i \in 1 .. Len(call.todo) : call.todo[i] = Whole(file, call.ask)[k + i]
    /\ Read(Whole(file, call.ask), Present(file, Whole(file, call.ask)), k, call.got)
    /\ \A n \in 1 .. k :
          \/ Whole(file, call.ask)[n].at = 0
          \/ Holds(file, SubSeq(Whole(file, call.ask), 1, n - 1), Whole(file, call.ask)[n])

CallReads(call) ==
    /\ ~Unknown(FieldsOf(file, Places(file)), call.ask)
    /\ \E k \in 0 .. Len(Whole(file, call.ask)) : SoFar(call, k)
    /\ call.asked => call.todo # <<>> /\ Head(call.todo).at # 0

CallSays(call, c) ==
    /\ call.ask.op \in Accessors
    /\ call.stage \in {"idle", "waiting"} => call.asked = FALSE /\ call.got = <<>>
    /\ call.stage = "reading" => CallReads(call)
    /\ call.stage = "answered" => Deliverable(file, limit, call.ask) /\ call.got = Delivered(file, call.ask)
    /\ call.stage = "rejected" => c \in failed \/ "walk" \in failed \/ ~Deliverable(file, limit, call.ask)

\* Only descriptors that agree with their payloads are cached.
CacheSays == \A at \in cache : at # 0 /\ \E e \in Sources : e.descriptor = at /\ DescriptorHolds(file, Descriptor(e))

AInv ==
    /\ IInv /\ FileNumbered /\ limit \in Nat
    /\ CompleteAtOpen(file, limit) => complete
    /\ walks # <<>> => ~CompleteAtOpen(file, limit) /\ WalkSays(walks[1])
    /\ complete => Lawful(file, limit)
    /\ CacheSays
    /\ \A c \in CALLERS : CallSays(calls[c], c)

LEMMA InitAInv == Init => AInv
<1> SUFFICES ASSUME Init PROVE AInv
    OBVIOUS
<1>0. IInv
    BY InitIInv
<1> PICK case \in CASES :
        /\ ~OpenRefuses(case.file, case.limit)
        /\ file = case.file /\ limit = case.limit
        /\ complete = CompleteAtOpen(file, limit)
        /\ walks = <<>> /\ cache = {}
        /\ calls = [c \in CALLERS |-> Idle(case.asks[c])]
    BY DEF Init
<1>1. FileNumbered /\ limit \in Nat /\ \A c \in CALLERS : case.asks[c].op \in Accessors
    BY CaseAssumption DEF FileNumbered
<1>2. complete => Lawful(file, limit)
    BY <1>0, <1>1, OpenedIsLawful DEF IInv
<1>3. \A c \in CALLERS : CallSays(calls[c], c)
    BY <1>1 DEF CallSays, Idle
<1> QED BY <1>0, <1>1, <1>2, <1>3 DEF AInv, CacheSays

----------------------------------------------------------------------------
(* Each step keeps it                                                      *)

\* What a call says stays true while the file stays and failures only add up.
LEMMA CallSaysNext ==
    ASSUME NEW call, NEW c, CallSays(call, c), UNCHANGED <<file, limit>>, failed \subseteq failed'
    PROVE  CallSays(call, c)'
BY DEF CallSays, CallReads, SoFar

LEMMA UnbrokenNext ==
    ASSUME NEW at, Unbroken(at), UNCHANGED <<file, limit>>
    PROVE  Unbroken(at)'
<1>1. \A op : With(op)' = With(op)
    BY DEF With
<1>2. Before(at)' = Before(at) /\ PassedBy(at)' = PassedBy(at)
    BY DEF Before, PassedBy
<1> QED BY <1>1, <1>2 DEF Unbroken, Ordered, AllSound, Single, Distinct

LEMMA WalkSaysNext ==
    ASSUME NEW w, WalkSays(w), UNCHANGED <<file, limit>>, failed \subseteq failed'
    PROVE  WalkSays(w)'
BY UnbrokenNext DEF WalkSays

LEMMA CacheSaysNext ==
    ASSUME CacheSays, UNCHANGED <<file, cache>>
    PROVE  CacheSays'
BY DEF CacheSays, Sources

\* A step of the walk: the calls and what they cached stay as they are.
LEMMA WalkMoves ==
    ASSUME AInv, IInv', NEW n \in DOMAIN walks, NEW w, walks' = [walks EXCEPT ![n] = w], WalkSays(w)',
           UNCHANGED <<file, limit, cache, calls>>, failed \subseteq failed',
           complete => complete', complete' => Lawful(file, limit)
    PROVE  AInv'
<1>1. n = 1 /\ walks = <<walks[1]>> /\ walks # <<>>
    BY TheWalk DEF AInv, IInv
<1>2. walks' = <<w>> /\ walks' # <<>> /\ walks'[1] = w
    BY <1>1
<1>3. \A c \in CALLERS : CallSays(calls[c], c)'
    BY CallSaysNext DEF AInv
<1>4. CacheSays'
    BY CacheSaysNext DEF AInv
<1>5. ~CompleteAtOpen(file, limit)
    BY <1>1 DEF AInv
<1> QED BY <1>2, <1>3, <1>4, <1>5 DEF AInv, FileNumbered

LEMMA WalkRecordAInv ==
    ASSUME AInv, NEW n \in DOMAIN walks, WalkRecord(n)
    PROVE  AInv'
<1> PICK w : w = walks[n]
    OBVIOUS
<1> PICK next : next = IF WalkRefuses(w) THEN Rejected(w) ELSE Kept(w)
    OBVIOUS
<1>1. /\ w.state = "walking" /\ w.at \in DOMAIN file.records
      /\ walks' = [walks EXCEPT ![n] = next]
      /\ UNCHANGED <<file, limit, fields, complete, discovery, cache, calls, failed>>
    BY DEF WalkRecord, Walking, caseVars
<1>2. WalkHolds(w) /\ WalkSays(w) /\ ~CompleteAtOpen(file, limit) /\ FileListed /\ limit \in Nat
    <2>1. n = 1 /\ walks = <<walks[1]>> /\ WalkHolds(walks[1])
        BY TheWalk DEF AInv, IInv
    <2> QED BY <2>1 DEF AInv, IInv
<1>3. IInv'
    BY WalkRecordIInv DEF AInv
<1>4. WalkSays(next)
    <2>1. CASE WalkRefuses(w)
        <3>1. ~Lawful(file, limit)
            BY <1>1, <1>2, <2>1, RefusedIsUnlawful
        <3>2. next.state = "rejected"
            BY <1>2, <2>1 DEF Rejected, WalkHolds, WalkShaped
        <3> QED BY <3>1, <3>2 DEF WalkSays
    <2>2. CASE ~WalkRefuses(w)
        <3>1. Unbroken(w.at + 1)
            BY <1>1, <1>2, <2>2, KeptUnbroken DEF WalkSays
        <3>2. next.state = "walking" /\ next.at = w.at + 1
            BY <1>1, <2>2 DEF Kept
        <3> QED BY <3>1, <3>2 DEF WalkSays
    <2> QED BY <2>1, <2>2
<1>5. WalkSays(next)'
    BY <1>1, <1>4, WalkSaysNext
<1> QED BY <1>1, <1>3, <1>5, WalkMoves DEF AInv

LEMMA WalkFailsAInv ==
    ASSUME AInv, NEW n \in DOMAIN walks, WalkFails(n)
    PROVE  AInv'
<1> PICK next : next = Rejected(walks[n])
    OBVIOUS
<1>1. /\ walks' = [walks EXCEPT ![n] = next] /\ failed' = failed \cup {"walk"}
      /\ UNCHANGED <<file, limit, fields, complete, discovery, cache, calls>>
    BY DEF WalkFails, caseVars
<1>2. WalkHolds(walks[n])
    BY TheWalk DEF AInv, IInv
<1>3. next.state = "rejected"
    BY <1>2 DEF Rejected, WalkHolds, WalkShaped
<1>4. WalkSays(next)'
    BY <1>1, <1>3 DEF WalkSays
<1>5. IInv'
    BY WalkFailsIInv DEF AInv
<1> QED BY <1>1, <1>4, <1>5, WalkMoves DEF AInv

LEMMA WalkEndsAInv ==
    ASSUME AInv, NEW n \in DOMAIN walks, WalkEnds(n)
    PROVE  AInv'
<1> PICK w : w = walks[n]
    OBVIOUS
<1>0. /\ w.at \notin DOMAIN file.records /\ w.state = "walking"
      /\ UNCHANGED <<file, limit, discovery, cache, calls, failed>>
    BY DEF WalkEnds, Walking, caseVars
<1>1. WalkHolds(w) /\ WalkSays(w) /\ FileListed
    <2>1. n = 1 /\ walks = <<walks[1]>> /\ WalkHolds(walks[1])
        BY TheWalk DEF AInv, IInv
    <2> QED BY <2>1 DEF AInv, IInv
<1>2. IInv'
    BY WalkEndsIInv DEF AInv
<1>3. CASE EndRefuses(w)
    <2> PICK next : next = Rejected(w)
        OBVIOUS
    <2>1. walks' = [walks EXCEPT ![n] = next] /\ UNCHANGED <<fields, complete>>
        BY <1>3 DEF WalkEnds
    <2>2. next.state = "rejected"
        BY <1>1 DEF Rejected, WalkHolds, WalkShaped
    <2>3. ~Lawful(file, limit)
        BY <1>0, <1>1, <1>3, EndIsVerdict
    <2>4. WalkSays(next)'
        BY <1>0, <2>2, <2>3 DEF WalkSays
    <2> QED BY <1>0, <1>2, <2>1, <2>4, WalkMoves DEF AInv
<1>4. CASE ~EndRefuses(w)
    <2> PICK done : done = [at |-> w.at, kept |-> w.kept, state |-> "done"]
        OBVIOUS
    <2>1. complete' = TRUE /\ walks' = [walks EXCEPT ![n].state = "done"]
        BY <1>4 DEF WalkEnds
    <2>2. w = [at |-> w.at, kept |-> w.kept, state |-> w.state]
        BY <1>1 DEF WalkHolds, WalkShaped
    <2>3. [w EXCEPT !.state = "done"] = done
        BY <2>2
    <2>4. walks' = [walks EXCEPT ![n] = done]
        BY <2>1, <2>3
    <2>5. Lawful(file, limit)
        BY <1>0, <1>1, <1>4, EndIsVerdict DEF WalkSays
    <2>6. WalkSays(done)'
        BY DEF WalkSays
    <2> QED BY <1>0, <1>2, <2>1, <2>4, <2>5, <2>6, WalkMoves
<1> QED BY <1>3, <1>4

\* A step of a call: the walk stays as it is.
LEMMA CallMoves ==
    ASSUME AInv, IInv', NEW c \in CALLERS, NEW call, calls' = [calls EXCEPT ![c] = call], CallSays(call, c)',
           UNCHANGED <<file, limit, walkVars>>, failed \subseteq failed', CacheSays'
    PROVE  AInv'
<1>1. UNCHANGED <<file, limit, complete, walks>>
    BY DEF walkVars
<1>2. calls'[c] = call /\ \A d \in CALLERS \ {c} : calls'[d] = calls[d]
    BY DEF AInv, IInv, CallsShaped
<1>3. \A d \in CALLERS \ {c} : CallSays(calls[d], d)'
    BY <1>1, <1>2, CallSaysNext DEF AInv
<1>4. \A d \in CALLERS : CallSays(calls[d], d)'
    BY <1>2, <1>3
<1>5. walks # <<>> => WalkSays(walks[1])'
    BY <1>1, WalkSaysNext DEF AInv
<1>6. Lawful(file, limit)' <=> Lawful(file, limit)
    BY <1>1
<1> QED BY <1>1, <1>4, <1>5, <1>6 DEF AInv, FileNumbered

LEMMA TailIsSeq ==
    ASSUME NEW s, IsSeq(s), s # <<>>
    PROVE  /\ Len(s) \in Nat \ {0} /\ Head(s) = s[1]
           /\ IsSeq(Tail(s)) /\ Len(Tail(s)) = Len(s) - 1
           /\ \A i \in 1 .. Len(Tail(s)) : Tail(s)[i] = s[i + 1]
<1> DEFINE S == {s[i] : i \in 1 .. Len(s)}
<1>1. \A i \in 1 .. Len(s) : s[i] \in S
    OBVIOUS
<1>2. s \in Seq(S)
    BY <1>1, InSeq
<1> HIDE DEF S
<1>3. Tail(s) \in Seq(S) /\ Len(s) \in Nat \ {0} /\ Len(Tail(s)) = Len(s) - 1
    BY <1>2
<1>4. IsSeq(Tail(s))
    BY <1>3, SeqIsSeq
<1>5. \A i \in 1 .. Len(Tail(s)) : Tail(s)[i] = s[i + 1]
    BY <1>2
<1>6. Head(s) = s[1]
    BY <1>2
<1> QED BY <1>3, <1>4, <1>5, <1>6

\* A table is never absent: whether one was read before an item is the same
\* asked of what was taken and of all the items passed.
LEMMA HoldsSame ==
    ASSUME NEW items, IsSeq(items), NEW k \in 0 .. Len(items), NEW got,
           Read(items, Present(file, items), k, got), NEW item
    PROVE  Holds(file, got, item) <=> Holds(file, SubSeq(items, 1, k), item)
<1> PICK P : P = Present(file, items)
    OBVIOUS
<1> PICK passed : passed = SubSeq(items, 1, k)
    OBVIOUS
<1>1. /\ P \in SUBSET Nat /\ P = {n \in 1 .. Len(items) : ~Absent(file, items[n])}
      /\ Len(items) \in Nat /\ k \in Nat
    BY DEF Present, IsSeq
<1>2. Range(got) = {items[n] : n \in UpTo(P, k)}
    <2>1. Read(items, P, k, got) /\ P \in SUBSET Nat /\ k \in Nat
        BY <1>1
    <2> QED BY ONLY <2>1, ReadHas, Zenon
<1>3. IsSeq(passed) /\ Len(passed) = k /\ \A n \in 1 .. k : passed[n] = items[n]
    BY PrefixIsSeq
<1>4. Range(passed) = {items[n] : n \in 1 .. k}
    <2>1. DOMAIN passed = 1 .. k /\ \A n \in 1 .. k : passed[n] = items[n]
        BY <1>3 DEF IsSeq
    <2> QED BY ONLY <2>1 DEF Range
<1>5. UpTo(P, k) \subseteq 1 .. k /\ \A n \in 1 .. k : n \in UpTo(P, k) \/ Absent(file, items[n])
    BY <1>1 DEF UpTo
<1>6. \A g : Absent(file, g) => file.records[g.at].op # "OBJECT_TABLE"
    BY DEF Absent
<1>7. (\E g \in Range(got) : file.records[g.at].op = "OBJECT_TABLE")
         <=> (\E g \in Range(passed) : file.records[g.at].op = "OBJECT_TABLE")
    BY <1>2, <1>4, <1>5, <1>6
<1> QED BY <1>7 DEF Holds

\* Taking the next item goes one further in the list.
LEMMA TakenSoFar ==
    ASSUME NEW call, NEW items, items = Whole(file, call.ask), IsSeq(items),
           NEW k \in 0 .. Len(items), SoFar(call, k), call.todo # <<>>,
           Head(call.todo).at = 0 \/ Holds(file, call.got, Head(call.todo)),
           NEW next, next.ask = call.ask, next.todo = Tail(call.todo),
           next.got = IF Absent(file, Head(call.todo)) THEN call.got ELSE Append(call.got, Head(call.todo))
    PROVE  k + 1 \in 0 .. Len(items) /\ SoFar(next, k + 1)
<1> PICK P : P = Present(file, items)
    OBVIOUS
<1>1. /\ Len(call.todo) \in Nat \ {0} /\ Head(call.todo) = call.todo[1]
      /\ IsSeq(next.todo) /\ Len(next.todo) = Len(call.todo) - 1
      /\ \A i \in 1 .. Len(next.todo) : next.todo[i] = call.todo[i + 1]
    BY TailIsSeq DEF SoFar
<1>2. /\ Len(items) \in Nat /\ k \in Nat /\ Len(call.todo) = Len(items) - k
      /\ \A i \in 1 .. Len(call.todo) : call.todo[i] = items[k + i]
      /\ Read(items, P, k, call.got)
      /\ \A n \in 1 .. k : items[n].at = 0 \/ Holds(file, SubSeq(items, 1, n - 1), items[n])
    BY DEF SoFar, IsSeq
<1>3. k + 1 \in 1 .. Len(items) /\ Head(call.todo) = items[k + 1]
    <2>1. 1 \in 1 .. Len(call.todo)
        BY <1>1
    <2>2. call.todo[1] = items[k + 1]
        BY ONLY <1>2, <2>1
    <2>3. k + 1 \in 1 .. Len(items)
        BY ONLY <1>1, <1>2
    <2> QED BY ONLY <1>1, <2>2, <2>3
<1>4. P \in SUBSET Nat /\ (k + 1 \in P <=> ~Absent(file, items[k + 1]))
    BY <1>3 DEF Present, IsSeq
<1>5. Read(items, P, k + 1, next.got)
    BY <1>2, <1>3, <1>4, ReadAbsent, ReadPresent
<1>6. items[k + 1].at = 0 \/ Holds(file, SubSeq(items, 1, k), items[k + 1])
    BY <1>2, <1>3, HoldsSame
<1>7. \A n \in 1 .. k + 1 : items[n].at = 0 \/ Holds(file, SubSeq(items, 1, n - 1), items[n])
    <2> SUFFICES ASSUME NEW n \in 1 .. k + 1
                 PROVE  items[n].at = 0 \/ Holds(file, SubSeq(items, 1, n - 1), items[n])
        OBVIOUS
    <2>1. CASE n = k + 1
        <3>1. n - 1 = k
            BY <1>2, <2>1
        <3> QED BY <1>6, <2>1, <3>1
    <2>2. CASE n # k + 1
        <3>1. n \in 1 .. k
            BY <1>2, <2>2
        <3> QED BY <1>2, <3>1
    <2> QED BY <2>1, <2>2
<1>8. Len(next.todo) = Len(items) - (k + 1) /\ \A i \in 1 .. Len(next.todo) : next.todo[i] = items[(k + 1) + i]
    <2>1. ASSUME NEW i \in 1 .. Len(next.todo) PROVE next.todo[i] = items[(k + 1) + i]
        <3>1. i + 1 \in 1 .. Len(call.todo) /\ k + (i + 1) = (k + 1) + i
            BY <1>1, <1>2
        <3>2. call.todo[i + 1] = items[k + (i + 1)]
            BY <1>2, <3>1
        <3> QED BY <1>1, <3>1, <3>2
    <2> QED BY <1>1, <1>2, <2>1
<1> QED BY <1>1, <1>3, <1>5, <1>7, <1>8 DEF SoFar

LEMMA NothingPassed ==
    ASSUME FileListed, limit \in Nat
    PROVE  Unbroken(1)
<1>1. Before(1) = {}
    BY FilePlaces DEF Before
<1>2. PassedBy(1) = {}
    BY DEF PassedBy
<1>3. Cardinality(PassedBy(1)) = 0
    BY <1>2, FS_EmptySet
<1> QED BY <1>1, <1>3 DEF Unbroken, Ordered, AllSound, Single, Distinct

\* A call that begins the walk does so because open() could not tell.
LEMMA CallAInv ==
    ASSUME AInv, NEW c \in CALLERS, Call(c)
    PROVE  AInv'
<1> PICK old : old = calls[c]
    OBVIOUS
<1>1. /\ Shaped(old) /\ old.stage = "idle" /\ CallSays(old, c)
      /\ UNCHANGED <<file, limit, fields, complete, cache, failed>>
    BY DEF AInv, IInv, CallsShaped, Call, caseVars
<1>2. IInv'
    BY CallIInv DEF AInv
<1>3. CacheSays'
    BY <1>1, CacheSaysNext DEF AInv
<1>4. CASE complete
    <2> PICK call : call = [old EXCEPT !.stage = "waiting"]
        OBVIOUS
    <2>1. call = [ask |-> old.ask, stage |-> "waiting", walk |-> old.walk,
                  todo |-> old.todo, asked |-> old.asked, got |-> old.got]
        BY <1>1 DEF Shaped
    <2>2. calls' = [calls EXCEPT ![c] = call] /\ UNCHANGED walkVars
        BY <1>1, <1>4 DEF Call, walkVars
    <2>3. CallSays(call, c)'
        BY <1>1, <2>1 DEF CallSays
    <2> QED BY <1>1, <1>2, <1>3, <2>2, <2>3, CallMoves
<1>5. CASE ~complete
    <2> PICK call : call = [old EXCEPT !.stage = "waiting", !.walk = Joined.walk]
        OBVIOUS
    <2>1. call = [ask |-> old.ask, stage |-> "waiting", walk |-> Joined.walk,
                  todo |-> old.todo, asked |-> old.asked, got |-> old.got]
        BY <1>1 DEF Shaped
    <2>2. calls' = [calls EXCEPT ![c] = call] /\ walks' = Joined.walks
        BY <1>5 DEF Call
    <2>3. CallSays(call, c)'
        BY <1>1, <2>1 DEF CallSays
    <2>4. \A d \in CALLERS : CallSays(calls[d], d)'
        <3>1. calls'[c] = call /\ \A d \in CALLERS \ {c} : calls'[d] = calls[d]
            BY <2>2 DEF AInv, IInv, CallsShaped
        <3>2. \A d \in CALLERS \ {c} : CallSays(calls[d], d)'
            BY <1>1, <3>1, CallSaysNext DEF AInv
        <3> QED BY <2>3, <3>1, <3>2
    <2>5. ~CompleteAtOpen(file, limit)
        BY <1>5 DEF AInv
    <2>6. WalkSays(walks[1])'
        <3>1. CASE discovery = 0
            <4>1. walks = <<>>
                BY <3>1 DEF AInv, IInv, SingleWalk
            <4>2. Len(walks) = 0 /\ Append(walks, NewWalk) = <<NewWalk>>
                BY <4>1
            <4>3. walks'[1] = NewWalk
                BY <2>2, <3>1, <4>2 DEF Joined
            <4>4. NewWalk.state = "walking" /\ NewWalk.at = 1
                BY DEF NewWalk
            <4>5. WalkSays(NewWalk)
                BY <4>4, NothingPassed DEF WalkSays, AInv, IInv
            <4> PICK first : first = NewWalk
                OBVIOUS
            <4>6. WalkSays(first)'
                BY <1>1, <4>5, WalkSaysNext
            <4> QED BY <4>3, <4>6
        <3>2. CASE discovery # 0
            <4>1. walks # <<>> /\ walks' = walks
                <5>1. discovery = 1 /\ walks = <<walks[1]>>
                    BY <3>2 DEF AInv, IInv, SingleWalk
                <5>2. walks # <<>>
                    BY <5>1
                <5> QED BY <2>2, <3>2, <5>2 DEF Joined
            <4> QED BY <1>1, <4>1, WalkSaysNext DEF AInv
        <3> QED BY <3>1, <3>2
    <2> QED BY <1>1, <1>2, <1>3, <1>5, <2>4, <2>5, <2>6 DEF AInv, FileNumbered
<1> QED BY <1>4, <1>5

\* A call goes on with what the whole file holds, or has a reason not to.
LEMMA ResumeSees ==
    ASSUME AInv, NEW c \in CALLERS, calls[c].stage = "waiting", Settled(c)
    PROVE  /\ PromiseOf(c) = "rejected" => "walk" \in failed \/ ~Lawful(file, limit)
           /\ PromiseOf(c) # "rejected" => complete /\ fields = FieldsOf(file, Places(file))
<1>1. CallHolds(calls[c])
    BY DEF AInv, IInv
<1>2. CASE calls[c].walk = 0
    BY <1>1, <1>2 DEF CallHolds, PromiseOf, AInv, IInv, FieldsTogether
<1>3. CASE calls[c].walk # 0
    <2>1. calls[c].walk = 1 /\ walks = <<walks[1]>> /\ WalkHolds(walks[1])
        BY <1>1, <1>3 DEF CallHolds, AInv, IInv, SingleWalk
    <2>2. PromiseOf(c) = walks[1].state
        BY <2>1 DEF PromiseOf
    <2> PICK walk : walks = <<walk>>
        BY <2>1
    <2>4. walks # <<>>
        OBVIOUS
    <2>3. WalkSays(walks[1]) /\ FieldsTogether
        BY <2>4 DEF AInv, IInv
    <2> QED BY <2>1, <2>2, <2>3 DEF Settled, WalkHolds, WalkSays, FieldsTogether
<1> QED BY <1>2, <1>3

LEMMA ResumeAInv ==
    ASSUME AInv, NEW c \in CALLERS, Resume(c)
    PROVE  AInv'
<1> PICK old : old = calls[c]
    OBVIOUS
<1>1. /\ Shaped(old) /\ old.stage = "waiting" /\ CallSays(old, c) /\ Settled(c)
      /\ UNCHANGED <<file, limit, walkVars, cache, failed>>
    BY DEF AInv, IInv, CallsShaped, Resume, caseVars
<1>2. IInv'
    BY ResumeIInv DEF AInv
<1>3. CacheSays'
    BY <1>1, CacheSaysNext DEF AInv
<1>4. CASE PromiseOf(c) = "rejected" \/ Unknown(fields, old.ask)
    <2> PICK call : call = [old EXCEPT !.stage = "rejected"]
        OBVIOUS
    <2>1. call = [ask |-> old.ask, stage |-> "rejected", walk |-> old.walk,
                  todo |-> old.todo, asked |-> old.asked, got |-> old.got]
        BY <1>1 DEF Shaped
    <2>2. calls' = [calls EXCEPT ![c] = call]
        BY <1>4 DEF Resume
    <2>3. "walk" \in failed \/ ~Deliverable(file, limit, old.ask)
        BY <1>1, <1>4, ResumeSees DEF Deliverable
    <2>4. CallSays(call, c)
        BY <1>1, <2>1, <2>3 DEF CallSays
    <2>5. CallSays(call, c)'
        BY <1>1, <2>4, CallSaysNext
    <2> QED BY <1>1, <1>2, <1>3, <2>2, <2>5, CallMoves
<1>5. CASE ~(PromiseOf(c) = "rejected" \/ Unknown(fields, old.ask))
    <2> PICK items : items = Whole(file, old.ask)
        OBVIOUS
    <2> PICK call : call = [ask |-> old.ask, stage |-> "reading", walk |-> old.walk,
                            todo |-> items, asked |-> FALSE, got |-> <<>>]
        OBVIOUS
    <2>0. fields = FieldsOf(file, Places(file))
        BY <1>1, <1>5, ResumeSees
    <2>1. call.ask = old.ask /\ call.stage = "reading" /\ call.todo = items /\ call.got = <<>> /\ call.asked = FALSE
        OBVIOUS
    <2>2. calls' = [calls EXCEPT ![c] = call]
        <3> PICK next : next = [old EXCEPT !.stage = "reading", !.todo = Wanted(file, fields, old.ask)]
            OBVIOUS
        <3>1. next = [ask |-> old.ask, stage |-> "reading", walk |-> old.walk,
                      todo |-> Wanted(file, fields, old.ask), asked |-> old.asked, got |-> old.got]
            BY <1>1 DEF Shaped
        <3>2. calls' = [calls EXCEPT ![c] = next]
            BY <1>5 DEF Resume
        <3>3. old.asked = FALSE /\ old.got = <<>> /\ Wanted(file, fields, old.ask) = items
            BY <1>1, <2>0 DEF CallSays, Whole
        <3>4. next = call
            BY <3>1, <3>3
        <3> QED BY <3>2, <3>4
    <2>3. IsSeq(items)
        BY <1>1, WholeListed DEF AInv, IInv, Listed, CallSays
    <2>4. Read(items, Present(file, items), 0, <<>>)
        <3>1. Present(file, items) \in SUBSET (Nat \ {0})
            BY <2>3 DEF Present, IsSeq
        <3> QED BY <3>1, ReadNone
    <2>5. SoFar(call, 0)
        <3>1. Len(items) = Len(items) - 0 /\ \A i \in 1 .. Len(items) : i = 0 + i
            BY <2>3 DEF IsSeq
        <3>2. Whole(file, call.ask) = items
            BY <2>1
        <3>3. \A i \in 1 .. Len(items) : items[i] = items[0 + i]
            BY <3>1
        <3>4. \A n \in 1 .. 0 : FALSE
            OBVIOUS
        <3> QED BY <2>3, <2>4, <2>1, <3>1, <3>2, <3>3, <3>4 DEF SoFar
    <2>6. CallReads(call)
        <3>1. 0 \in 0 .. Len(items)
            BY <2>3 DEF IsSeq
        <3>2. \E k \in 0 .. Len(Whole(file, call.ask)) : SoFar(call, k)
            BY <2>5, <2>1, <3>1
        <3> QED BY <1>5, <2>0, <2>1, <3>2 DEF CallReads
    <2>7. CallSays(call, c)
        BY <1>1, <2>1, <2>6 DEF CallSays
    <2>8. CallSays(call, c)'
        BY <1>1, <2>7, CallSaysNext
    <2> QED BY <1>1, <1>2, <1>3, <2>2, <2>8, CallMoves
<1> QED BY <1>4, <1>5

\* What a call that has items left reads next.
LEMMA NextItem ==
    ASSUME AInv, NEW c \in CALLERS, NEW call, call = calls[c], call.stage = "reading", call.todo # <<>>,
           NEW items, items = Whole(file, call.ask)
    PROVE  /\ IsSeq(items) /\ Known(Head(call.todo))
           /\ \E k \in 0 .. Len(items) : SoFar(call, k) /\ k + 1 \in 1 .. Len(items) /\ Head(call.todo) = items[k + 1]
<1>1. CallSays(call, c) /\ CallReads(call)
    BY DEF AInv, CallSays
<1>2. Listed(items)
    BY <1>1, WholeListed DEF AInv, IInv, CallSays
<1>3. PICK k \in 0 .. Len(items) : SoFar(call, k)
    BY <1>1 DEF CallReads
<1>4. IsSeq(items) /\ Len(items) \in Nat /\ k \in Nat
    BY <1>2 DEF Listed, IsSeq
<1>5. /\ Len(call.todo) \in Nat \ {0} /\ Head(call.todo) = call.todo[1]
      /\ Len(call.todo) = Len(items) - k /\ \A i \in 1 .. Len(call.todo) : call.todo[i] = items[k + i]
    BY <1>3, TailIsSeq DEF SoFar
<1>6. 1 \in 1 .. Len(call.todo) /\ k + 1 \in 1 .. Len(items)
    BY <1>4, <1>5
<1>7. Head(call.todo) = items[k + 1]
    BY <1>5, <1>6
<1> QED BY <1>2, <1>3, <1>4, <1>6, <1>7 DEF Listed

LEMMA TakenSays ==
    ASSUME AInv, NEW c \in CALLERS, NEW old, old = calls[c], old.stage = "reading", old.todo # <<>>,
           Head(old.todo).at = 0 \/ Holds(file, old.got, Head(old.todo)),
           NEW call, call = Taken(old, file)
    PROVE  CallSays(call, c)
<1> PICK got : got = IF Absent(file, Head(old.todo)) THEN old.got ELSE Append(old.got, Head(old.todo))
    OBVIOUS
<1> PICK items : items = Whole(file, old.ask)
    OBVIOUS
<1>1. Shaped(old) /\ CallSays(old, c) /\ CallReads(old)
    BY DEF AInv, IInv, CallsShaped, CallSays
<1>2. call = [ask |-> old.ask, stage |-> "reading", walk |-> old.walk,
              todo |-> Tail(old.todo), asked |-> FALSE, got |-> got]
    BY <1>1 DEF Shaped, Taken
<1>3. call.ask = old.ask /\ call.stage = "reading" /\ call.todo = Tail(old.todo) /\ call.got = got /\ call.asked = FALSE
    BY <1>2
<1>4. PICK k \in 0 .. Len(items) : SoFar(old, k)
    BY NextItem
<1>5. IsSeq(items)
    BY NextItem
<1>6. k + 1 \in 0 .. Len(items) /\ SoFar(call, k + 1)
    BY <1>3, <1>4, <1>5, TakenSoFar
<1>7. CallReads(call)
    BY <1>1, <1>3, <1>6 DEF CallReads
<1> QED BY <1>1, <1>3, <1>7 DEF CallSays

\* A cached descriptor agrees with the payload it is delivered with.
LEMMA CachedHolds ==
    ASSUME AInv, NEW item, Known(item), item.what = "descriptor", item.at \in cache, NEW got
    PROVE  Holds(file, got, item)
<1>1. PICK d \in Sources : item = Descriptor(d)
    BY DEF Known, RecordItem, Payload
<1>2. PICK e \in Sources : e.descriptor = item.at /\ item.at # 0 /\ DescriptorHolds(file, Descriptor(e))
    BY DEF AInv, CacheSays
<1>3. d.descriptor = item.at
    BY <1>1 DEF Descriptor
<1>4. d = e
    BY <1>2, <1>3, SourcesKnown DEF AInv
<1> QED BY <1>1, <1>2, <1>4 DEF Holds

LEMMA TakeAInv ==
    ASSUME AInv, NEW c \in CALLERS, Take(c)
    PROVE  AInv'
<1> PICK old : old = calls[c]
    OBVIOUS
<1> PICK call : call = Taken(old, file)
    OBVIOUS
<1>1. /\ old.stage = "reading" /\ old.todo # <<>> /\ Cached(c) /\ calls' = [calls EXCEPT ![c] = call]
      /\ UNCHANGED <<file, limit, walkVars, cache, failed>>
    BY DEF Take, Reading, caseVars
<1>2. Known(Head(old.todo))
    BY <1>1, NextItem
<1>3. Head(old.todo).at = 0 \/ Holds(file, old.got, Head(old.todo))
    BY <1>1, <1>2, CachedHolds DEF Cached, Item
<1>4. CallSays(call, c)
    BY <1>1, <1>3, TakenSays
<1>5. CallSays(call, c)'
    BY <1>1, <1>4, CallSaysNext
<1>6. IInv' /\ CacheSays'
    BY <1>1, ReadingIInv, CacheSaysNext DEF AInv
<1> QED BY <1>1, <1>5, <1>6, CallMoves

\* Only what is in the file is asked of it.
LEMMA RequestAInv ==
    ASSUME AInv, NEW c \in CALLERS, Request(c)
    PROVE  AInv'
<1> PICK old : old = calls[c]
    OBVIOUS
<1> PICK call : call = [old EXCEPT !.asked = TRUE]
    OBVIOUS
<1>1. /\ Shaped(old) /\ CallSays(old, c) /\ old.stage = "reading" /\ old.todo # <<>> /\ ~Cached(c)
      /\ calls' = [calls EXCEPT ![c] = call]
      /\ UNCHANGED <<file, limit, walkVars, cache, failed>>
    BY DEF Request, Reading, caseVars, AInv, IInv, CallsShaped
<1>2. Head(old.todo).at # 0
    <2>1. Known(Head(old.todo))
        BY <1>1, NextItem
    <2>2. 0 \notin DOMAIN file.records
        BY FilePlaces DEF AInv, IInv
    <2>3. Head(old.todo).what # "descriptor" \/ Head(old.todo).at # 0
        BY <1>1 DEF Cached, Item
    <2>4. \A e \in Sources : e.data \in DOMAIN file.records
        BY SourcesKnown DEF AInv
    <2>5. \A e \in Sources : Payload(e).at = e.data /\ Descriptor(e).what = "descriptor"
        BY DEF Payload, Descriptor
    <2>6. \A i \in DOMAIN file.records : RecordItem(i).at = i
        BY DEF RecordItem
    <2> QED BY <2>1, <2>2, <2>3, <2>4, <2>5, <2>6 DEF Known
<1>3. call = [ask |-> old.ask, stage |-> "reading", walk |-> old.walk,
              todo |-> old.todo, asked |-> TRUE, got |-> old.got]
    BY <1>1 DEF Shaped
<1>4. call.ask = old.ask /\ call.stage = "reading" /\ call.todo = old.todo /\ call.got = old.got
    BY <1>3
<1>5. CallReads(old)
    BY <1>1 DEF CallSays
<1>6. CallReads(call)
    BY <1>1, <1>2, <1>4, <1>5 DEF CallReads, SoFar
<1>7. CallSays(call, c)
    BY <1>1, <1>4, <1>6 DEF CallSays
<1>8. CallSays(call, c)'
    BY <1>1, <1>7, CallSaysNext
<1>9. IInv' /\ CacheSays'
    BY <1>1, ReadingIInv, CacheSaysNext DEF AInv
<1> QED BY <1>1, <1>8, <1>9, CallMoves

\* What is cached next to what was: the descriptor of a source it agrees with.
LEMMA CacheAfterSays ==
    ASSUME AInv, NEW item, Known(item), item.at # 0, cache' = CacheAfter(item), UNCHANGED file
    PROVE  CacheSays'
<1>1. CASE item.what = "descriptor" /\ DescriptorHolds(file, item)
    <2>1. PICK d \in Sources : item = Descriptor(d)
        BY <1>1 DEF Known, RecordItem, Payload
    <2>2. d.descriptor = item.at /\ DescriptorHolds(file, Descriptor(d))
        BY <1>1, <2>1 DEF Descriptor
    <2>3. cache' = cache \cup {item.at}
        BY <1>1 DEF CacheAfter
    <2>4. \A at \in cache' : at # 0 /\ \E e \in Sources : e.descriptor = at /\ DescriptorHolds(file, Descriptor(e))
        BY <2>2, <2>3 DEF AInv, CacheSays
    <2> QED BY <2>4 DEF CacheSays, Sources
<1>2. CASE ~(item.what = "descriptor" /\ DescriptorHolds(file, item))
    BY <1>2, CacheSaysNext DEF CacheAfter, AInv
<1> QED BY <1>1, <1>2

LEMMA StoppedSays ==
    ASSUME AInv, NEW c \in CALLERS, NEW old, old = calls[c],
           NEW call, call = [old EXCEPT !.stage = "rejected"],
           c \in failed' \/ ~Deliverable(file, limit, old.ask), UNCHANGED <<file, limit>>
    PROVE  CallSays(call, c)'
<1>1. Shaped(old) /\ CallSays(old, c)
    BY DEF AInv, IInv, CallsShaped
<1>2. call = [ask |-> old.ask, stage |-> "rejected", walk |-> old.walk,
              todo |-> old.todo, asked |-> old.asked, got |-> old.got]
    BY <1>1 DEF Shaped
<1>3. call.ask = old.ask /\ call.stage = "rejected"
    BY <1>2
<1> QED BY <1>1, <1>3 DEF CallSays

LEMMA ArriveAInv ==
    ASSUME AInv, NEW c \in CALLERS, Arrive(c)
    PROVE  AInv'
<1> PICK old : old = calls[c]
    OBVIOUS
<1> PICK items : items = Whole(file, old.ask)
    OBVIOUS
<1>1. /\ old.stage = "reading" /\ old.todo # <<>> /\ old.asked /\ cache' = CacheAfter(Head(old.todo))
      /\ UNCHANGED <<file, limit, walkVars, failed>>
    BY DEF Arrive, Reading, Item, caseVars
<1>2. Known(Head(old.todo)) /\ IsSeq(items)
    BY <1>1, NextItem
<1>3. CallReads(old) /\ Head(old.todo).at # 0
    BY <1>1 DEF AInv, CallSays, CallReads
<1>4. IInv' /\ CacheSays'
    BY <1>1, <1>2, <1>3, ReadingIInv, CacheAfterSays DEF AInv
<1>5. CASE Holds(file, old.got, Head(old.todo))
    <2> PICK call : call = Taken(old, file)
        OBVIOUS
    <2>1. calls' = [calls EXCEPT ![c] = call]
        BY <1>5 DEF Arrive, Item
    <2>2. CallSays(call, c)
        BY <1>1, <1>5, TakenSays
    <2>3. CallSays(call, c)'
        BY <1>1, <2>2, CallSaysNext
    <2> QED BY <1>1, <1>4, <2>1, <2>3, CallMoves
<1>6. CASE ~Holds(file, old.got, Head(old.todo))
    <2> PICK call : call = [old EXCEPT !.stage = "rejected"]
        OBVIOUS
    <2>1. calls' = [calls EXCEPT ![c] = call]
        BY <1>6 DEF Arrive, Item
    <2>2. PICK k \in 0 .. Len(items) : SoFar(old, k) /\ k + 1 \in 1 .. Len(items) /\ Head(old.todo) = items[k + 1]
        BY <1>1, NextItem
    <2>3. Read(items, Present(file, items), k, old.got)
        BY <2>2 DEF SoFar
    <2>4. ~Holds(file, SubSeq(items, 1, k), items[k + 1])
        BY <1>2, <1>6, <2>2, <2>3, HoldsSame
    <2>5. k + 1 \in DOMAIN items /\ (k + 1) - 1 = k /\ items[k + 1].at # 0
        BY <1>2, <1>3, <2>2 DEF IsSeq
    <2>6. ~(items[k + 1].at = 0 \/ Holds(file, SubSeq(items, 1, (k + 1) - 1), items[k + 1]))
        BY <2>4, <2>5
    <2>7. ~Deliverable(file, limit, old.ask)
        BY <2>5, <2>6 DEF Deliverable
    <2>8. CallSays(call, c)'
        BY <1>1, <2>7, StoppedSays
    <2> QED BY <1>1, <1>4, <2>1, <2>8, CallMoves
<1> QED BY <1>5, <1>6

LEMMA FailAInv ==
    ASSUME AInv, NEW c \in CALLERS, Fail(c)
    PROVE  AInv'
<1> PICK old : old = calls[c]
    OBVIOUS
<1> PICK call : call = [old EXCEPT !.stage = "rejected"]
    OBVIOUS
<1>1. /\ calls' = [calls EXCEPT ![c] = call] /\ failed' = failed \cup {c}
      /\ UNCHANGED <<file, limit, walkVars, cache>>
    BY DEF Fail, caseVars
<1>2. CallSays(call, c)'
    BY <1>1, StoppedSays
<1>3. IInv' /\ CacheSays'
    BY <1>1, ReadingIInv, CacheSaysNext DEF AInv
<1> QED BY <1>1, <1>2, <1>3, CallMoves

\* A call with nothing left to read has what is present of its whole list.
LEMMA ReturnAInv ==
    ASSUME AInv, NEW c \in CALLERS, Return(c)
    PROVE  AInv'
<1> PICK old : old = calls[c]
    OBVIOUS
<1> PICK items : items = Whole(file, old.ask)
    OBVIOUS
<1>1. /\ old.stage = "reading" /\ old.todo = <<>> /\ CallSays(old, c) /\ CallReads(old) /\ Shaped(old)
      /\ UNCHANGED <<file, limit, walkVars, cache, failed>>
    BY DEF Return, caseVars, AInv, CallSays, IInv, CallsShaped
<1>2. IInv' /\ CacheSays'
    BY <1>1, ReadingIInv, CacheSaysNext DEF AInv
<1>3. Lawful(file, limit)
    BY <1>1 DEF AInv, IInv, CallHolds
<1>4. IsSeq(items) /\ Len(items) \in Nat
    BY <1>1, WholeListed DEF AInv, IInv, Listed, CallSays, IsSeq
<1>5. SoFar(old, Len(items))
    <2>1. PICK k \in 0 .. Len(items) : SoFar(old, k)
        BY <1>1 DEF CallReads
    <2>2. Len(old.todo) = 0 /\ Len(old.todo) = Len(items) - k
        BY <1>1, <2>1, EmptyIsSeq DEF SoFar
    <2>3. k = Len(items)
        BY <1>4, <2>2
    <2> QED BY <2>1, <2>3
<1>6. old.got = Delivered(file, old.ask)
    <2>1. Read(items, Present(file, items), Len(items), old.got)
        BY <1>5 DEF SoFar
    <2>2. Present(file, items) \subseteq 1 .. Len(items)
        BY <1>4 DEF Present, IsSeq
    <2>3. old.got = Only(items, Present(file, items))
        BY <1>4, <2>1, <2>2, ReadAll
    <2> QED BY <2>3 DEF Delivered
<1>7. Deliverable(file, limit, old.ask) <=> Checked(file, old.ask, old.got) /\ old.ask.op # "range_beyond"
    <2>1. \A n \in DOMAIN items : items[n].at = 0 \/ Holds(file, SubSeq(items, 1, n - 1), items[n])
        BY <1>4, <1>5 DEF SoFar, IsSeq
    <2>2. ~Unknown(FieldsOf(file, Places(file)), old.ask)
        BY <1>1 DEF CallReads
    <2> QED BY <1>3, <1>6, <2>1, <2>2 DEF Deliverable
<1>8. CASE Checked(file, old.ask, old.got) /\ old.ask.op # "range_beyond"
    <2> PICK call : call = [old EXCEPT !.stage = "answered"]
        OBVIOUS
    <2>1. calls' = [calls EXCEPT ![c] = call]
        BY <1>8 DEF Return
    <2>2. call = [ask |-> old.ask, stage |-> "answered", walk |-> old.walk,
                  todo |-> old.todo, asked |-> old.asked, got |-> old.got]
        BY <1>1 DEF Shaped
    <2>3. call.ask = old.ask /\ call.stage = "answered" /\ call.got = old.got
        BY <2>2
    <2>4. CallSays(call, c)
        BY <1>1, <1>6, <1>7, <1>8, <2>3 DEF CallSays
    <2>5. CallSays(call, c)'
        BY <1>1, <2>4, CallSaysNext
    <2> QED BY <1>1, <1>2, <2>1, <2>5, CallMoves
<1>9. CASE ~(Checked(file, old.ask, old.got) /\ old.ask.op # "range_beyond")
    <2> PICK call : call = [old EXCEPT !.stage = "rejected"]
        OBVIOUS
    <2>1. calls' = [calls EXCEPT ![c] = call]
        BY <1>9 DEF Return
    <2>2. CallSays(call, c)'
        BY <1>1, <1>7, <1>9, StoppedSays
    <2> QED BY <1>1, <1>2, <2>1, <2>2, CallMoves
<1> QED BY <1>8, <1>9

LEMMA StutterAInv == AInv /\ UNCHANGED vars => AInv'
<1> SUFFICES ASSUME AInv, UNCHANGED vars PROVE AInv'
    OBVIOUS
<1>1. UNCHANGED <<file, limit, fields, complete, discovery, walks, cache, calls, failed>>
    BY DEF vars, caseVars, walkVars
<1>2. IInv' /\ CacheSays'
    BY <1>1, StutterIInv, CacheSaysNext DEF AInv
<1>3. \A c \in CALLERS : CallSays(calls[c], c)'
    BY <1>1, CallSaysNext DEF AInv
<1>4. walks # <<>> => WalkSays(walks[1])'
    BY <1>1, WalkSaysNext DEF AInv
<1> QED BY <1>1, <1>2, <1>3, <1>4 DEF AInv, FileNumbered

LEMMA NextAInv == AInv /\ [Next]_vars => AInv'
<1> SUFFICES ASSUME AInv, [Next]_vars PROVE AInv'
    OBVIOUS
<1>1. ASSUME NEW n \in DOMAIN walks, WalkStep(n) PROVE AInv'
    BY <1>1, WalkRecordAInv, WalkEndsAInv, WalkFailsAInv DEF WalkStep
<1>2. ASSUME NEW c \in CALLERS, Call(c) \/ CallStep(c) PROVE AInv'
    BY <1>2, CallAInv, ResumeAInv, TakeAInv, RequestAInv, ArriveAInv, FailAInv, ReturnAInv DEF CallStep
<1>3. CASE Done \/ UNCHANGED vars
    BY <1>3, StutterAInv DEF Done
<1> QED BY <1>1, <1>2, <1>3 DEF Next

\* Whatever else is called meanwhile and whichever range reads fail, an accessor
\* that answers delivers everything of its kind, out of a file that is lawful to
\* its end: no half-walked fields, and no descriptor another call has refused
\* (ensureDeferredRecords and the accessors, indexedDecoder.ts).
THEOREM AnswersWhole == Spec => []AnswersAreWhole
<1>1. AInv => AnswersAreWhole
    BY DEF AInv, CallSays, AnswersAreWhole
<1> QED BY InitAInv, NextAInv, <1>1, PTL DEF Spec

\* An accessor rejects for one of its own range reads, for one of the walk, or
\* because the file does not hold what was asked: never for what another
\* accessor met (the same code).
THEOREM RejectionsEarned == Spec => []RejectionsAreEarned
<1>1. AInv => RejectionsAreEarned
    BY DEF AInv, CallSays, RejectionsAreEarned
<1> QED BY InitAInv, NextAInv, <1>1, PTL DEF Spec
=============================================================================
