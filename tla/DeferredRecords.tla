--------------------------- MODULE DeferredRecords ---------------------------
(***************************************************************************)
(* IndexedDecoder of the TypeScript SDK                                    *)
(* (typescript/core/src/indexedDecoder.ts): open() frames the records      *)
(* ahead of the first state record and stops, and the accessors for        *)
(* everything optional share one walk over the whole file.  JavaScript     *)
(* runs one thing at a time, but calls interleave wherever one awaits a    *)
(* range read, and any range read may be rejected.                         *)
(*                                                                         *)
(* A record is [op, id, size, sound]: id is what others refer to it by,    *)
(* size the bytes, samples or reference it declares, and sound whether it  *)
(* parses and fits its frame.                                              *)
(***************************************************************************)
EXTENDS Naturals, Sequences, FiniteSets, Functions

CONSTANTS
    CASES,     \* [file, limit, asks]: limit is maxDeferredRecords, asks what each caller asks
    CALLERS

\* The asynchronous accessors; range_beyond asks for bytes outside the payload.
Accessors == {"provenance", "objects", "camera", "metadata", "attachments",
              "sources", "descriptors", "state", "range", "range_beyond"}

\* A file's records are a list, their ids numbers, and open() takes positive
\* ceilings only.
ASSUME CaseAssumption ==
    \A case \in CASES :
        /\ case.file.records \in Seq(Range(case.file.records)) /\ case.limit \in Nat \ {0}
        /\ \A i \in DOMAIN case.file.records : case.file.records[i].id \in Nat
        /\ \A c \in CALLERS : case.asks[c].op \in Accessors

VARIABLES
    file,      \* [has_audio, records]
    limit,
    fields,    \* audioSources, deferred and provenanceRanges
    complete,  \* deferredDiscoveryComplete
    discovery, \* deferredDiscovery: the walk whose promise it holds, or 0
    walks,     \* the walks begun: [at, kept, state]
    cache,     \* audioDescriptorCache: the descriptor of each source read
    calls,     \* per caller: [ask, stage, walk, todo, asked, got]
    failed     \* the callers and walks a range read was rejected for
caseVars == <<file, limit>>
walkVars == <<fields, complete, discovery, walks>>
vars == <<caseVars, walkVars, cache, calls, failed>>

State        == {"CHUNK", "DELTA_CHUNK"}
Structural   == {"HEADER", "QUANTIZATION", "WINDOW_TABLE"}
AudioRecords == {"AUDIO", "AUDIO_SOURCE", "AUDIO_DATA"}
Provenance   == {"COORDINATE_FRAME", "SENSOR_CALIBRATION", "RIG_TRAJECTORY", "GEODETIC_ANCHOR"}
Objects      == {"OBJECT_TABLE", "OBJECT_TRACK"}
FrontMatter  == Structural \cup AudioRecords \cup {"CAMERA", "METADATA", "ATTACHMENT"} \cup Provenance \cup Objects

\* The provenance range also holds opcodes nobody has defined yet.
ProvenanceFamily == Provenance \cup Objects \cup {"RESERVED"}
Optional == AudioRecords \cup {"CAMERA", "METADATA", "ATTACHMENT"} \cup ProvenanceFamily

\* Records whose length is checked where they are framed, not where they are read.
Framed == State \cup {"AUDIO", "AUDIO_DATA"}

----------------------------------------------------------------------------
(* What a walk makes of the records it kept; kept is the set of their      *)
(* places, in whose order everything is listed.                            *)

Having(f, kept, ops) == {i \in kept : f.records[i].op \in ops}

\* Of a set of numbers, those up to n and the i-th.
UpTo(places, n) == {m \in places : m <= n}
Nth(places, i) == CHOOSE n \in places : Cardinality(UpTo(places, n)) = i

Latest(places) == {i \in places : \A j \in places : j <= i}

IdsOf(f, kept, op) == {f.records[i].id : i \in Having(f, kept, {op})}

Place(f, kept, op, id) == CHOOSE i \in Having(f, kept, {op}) : f.records[i].id = id

\* A legacy track has no descriptor record and the id 0.
AudioSourcesOf(f, kept) ==
    LET legacy == Latest(Having(f, kept, {"AUDIO"}))
        paired == IdsOf(f, kept, "AUDIO_SOURCE") \cap IdsOf(f, kept, "AUDIO_DATA")
    IN  IF legacy # {}
        THEN {[id |-> 0, descriptor |-> 0, data |-> i] : i \in legacy}
        ELSE {[id |-> id, descriptor |-> Place(f, kept, "AUDIO_SOURCE", id),
               data |-> Place(f, kept, "AUDIO_DATA", id)] : id \in paired}

FieldsOf(f, kept) ==
    [audioSources |-> AudioSourcesOf(f, kept),
     camera |-> Latest(Having(f, kept, {"CAMERA"})),
     metadata |-> Having(f, kept, {"METADATA"}),
     attachments |-> Having(f, kept, {"ATTACHMENT"}),
     provenanceRanges |-> Having(f, kept, ProvenanceFamily)]

Mixed(f, kept) == Having(f, kept, {"AUDIO"}) # {} /\ Having(f, kept, {"AUDIO_SOURCE", "AUDIO_DATA"}) # {}

Unpaired(f, kept) == IdsOf(f, kept, "AUDIO_SOURCE") # IdsOf(f, kept, "AUDIO_DATA")

FlagDiffers(f, kept) == f.has_audio # (AudioSourcesOf(f, kept) # {})

\* Record i repeats the id of a source or payload already kept.
Repeats(f, kept, i) ==
    /\ f.records[i].op \in {"AUDIO_SOURCE", "AUDIO_DATA"}
    /\ f.records[i].id \in IdsOf(f, kept, f.records[i].op)

Places(f) == Having(f, DOMAIN f.records, Optional)

----------------------------------------------------------------------------
(* open().  Nothing can observe it before it ends, so it is one step.      *)

\* The places ahead of the first state record.
Ahead(f) == {i \in DOMAIN f.records : \A j \in 1 .. i : f.records[j].op \notin State}

OptionalAhead(f) == Having(f, Ahead(f), Optional)

\* Past its ceiling open() stops keeping, and leaves the verdict to the walk.
KeptByOpen(f, ceiling) == {i \in OptionalAhead(f) : Cardinality({j \in OptionalAhead(f) : j <= i}) <= ceiling}

CompleteAtOpen(f, ceiling) == Ahead(f) = DOMAIN f.records /\ Cardinality(OptionalAhead(f)) <= ceiling

OpenRefuses(f, ceiling) ==
    LET ahead == Ahead(f)
        kept == KeptByOpen(f, ceiling)
        Count(op) == Cardinality(Having(f, ahead, {op}))
    IN  \/ \E i \in DOMAIN f.records \ ahead : i - 1 \in ahead /\ ~f.records[i].sound
        \/ Count("HEADER") # 1 \/ Count("QUANTIZATION") # 1 \/ Count("WINDOW_TABLE") > 1
        \/ \E i \in ahead : Repeats(f, {j \in kept : j < i}, i)
        \/ \E i \in Having(f, ahead, {"AUDIO_DATA"}) \cup Having(f, kept, {"AUDIO"}) : ~f.records[i].sound
        \/ Mixed(f, kept)
        \/ ~f.has_audio /\ Having(f, kept, AudioRecords) # {}
        \/ CompleteAtOpen(f, ceiling) /\ (Unpaired(f, kept) \/ FlagDiffers(f, kept))

----------------------------------------------------------------------------
(* The walk                                                                *)

NewWalk == [at |-> 1, kept |-> {}, state |-> "walking"]

Late(w) == \E j \in 1 .. w.at - 1 : file.records[j].op \in State

\* A wrong WalkRefuses: an opcode nobody has defined is front matter too.
WalkRefusesReserved(w) ==
    LET r == file.records[w.at]
    IN  \/ r.op \in Framed /\ ~r.sound
        \/ r.op \in Structural \cup Optional /\ Late(w)
        \/ r.op = "AUDIO" /\ Having(file, w.kept, {"AUDIO"}) # {}
        \/ Repeats(file, w.kept, w.at)
        \/ r.op \in Optional /\ Cardinality(w.kept) = limit

\* What discoverDeferredRecords refuses at the record it has come to.
WalkRefuses(w) ==
    LET r == file.records[w.at]
    IN  \/ r.op \in Framed /\ ~r.sound
        \/ r.op \in FrontMatter /\ Late(w)
        \/ r.op = "AUDIO" /\ Having(file, w.kept, {"AUDIO"}) # {}
        \/ Repeats(file, w.kept, w.at)
        \/ r.op \in Optional /\ Cardinality(w.kept) = limit

\* And at the end of the file.
EndRefuses(w) ==
    \/ Mixed(file, w.kept)
    \/ Having(file, w.kept, {"AUDIO"}) = {} /\ Unpaired(file, w.kept)
    \/ FlagDiffers(file, w.kept)

\* A wrong Rejected: what went wrong may have been the transport, so begin again.
Restarted(w) == NewWalk

Rejected(w) == [w EXCEPT !.state = "rejected"]

Kept(w) == [at |-> w.at + 1, kept |-> w.kept \cup Having(file, {w.at}, Optional), state |-> w.state]

Walking(n) == walks[n].state = "walking"

\* A wrong WalkRecord: the fields fill up as the walk goes.
WalkRecordInPlace(n) ==
    LET w == walks[n]
    IN  /\ Walking(n) /\ w.at \in DOMAIN file.records
        /\ walks' = [walks EXCEPT ![n] = IF WalkRefuses(w) THEN Rejected(w) ELSE Kept(w)]
        /\ fields' = FieldsOf(file, walks'[n].kept)
        /\ UNCHANGED <<caseVars, complete, discovery, cache, calls, failed>>

WalkRecord(n) ==
    LET w == walks[n]
    IN  /\ Walking(n) /\ w.at \in DOMAIN file.records
        /\ walks' = [walks EXCEPT ![n] = IF WalkRefuses(w) THEN Rejected(w) ELSE Kept(w)]
        /\ UNCHANGED <<caseVars, fields, complete, discovery, cache, calls, failed>>

\* The three fields and the flag change together, once nothing can fail.
WalkEnds(n) ==
    LET w == walks[n]
    IN  /\ Walking(n) /\ w.at \notin DOMAIN file.records
        /\ IF EndRefuses(w)
           THEN walks' = [walks EXCEPT ![n] = Rejected(w)] /\ UNCHANGED <<fields, complete>>
           ELSE /\ fields' = FieldsOf(file, w.kept)
                /\ complete' = TRUE
                /\ walks' = [walks EXCEPT ![n].state = "done"]
        /\ UNCHANGED <<caseVars, discovery, cache, calls, failed>>

\* A range read of the walk is rejected: the promise stays in the field.
WalkFails(n) ==
    /\ Walking(n) /\ walks[n].at \in DOMAIN file.records
    /\ walks' = [walks EXCEPT ![n] = Rejected(@)]
    /\ failed' = failed \cup {"walk"}
    /\ UNCHANGED <<caseVars, fields, complete, discovery, cache, calls>>

----------------------------------------------------------------------------
(* The accessors                                                           *)

Ask(op, id) == [op |-> op, id |-> id]

\* A call of readAudioRange for bytes outside the payload.
Beyond(id) == Ask("range_beyond", id)
AudioRange(id) == Ask("range", id)

\* One range read: what for, which record, and with which payload it must agree.
RecordItem(i) == [what |-> "record", at |-> i, payload |-> 0]
Descriptor(entry) == [what |-> "descriptor", at |-> entry.descriptor, payload |-> entry.data]
Payload(entry) == [what |-> "payload", at |-> entry.data, payload |-> entry.data]

EntriesFor(fs, id) == {e \in fs.audioSources : e.id = id}

\* What an accessor reads one after the other, by the fields as they are when
\* its await of the walk returns.
Wanted(f, fs, ask) ==
    LET Records(places) == [n \in 1 .. Cardinality(places) |-> RecordItem(Nth(places, n))]
        entries == IF ask.op \in {"sources", "descriptors"} THEN fs.audioSources ELSE EntriesFor(fs, ask.id)
        ids == {e.id : e \in entries}
        count == Cardinality(ids)
        Entry(n) == CHOOSE e \in entries : e.id = Nth(ids, n)
    IN  CASE ask.op = "provenance" -> Records(Having(f, fs.provenanceRanges, Provenance))
          [] ask.op = "objects" -> Records(Having(f, fs.provenanceRanges, Objects))
          [] ask.op = "camera" -> Records(fs.camera)
          [] ask.op = "metadata" -> Records(fs.metadata)
          [] ask.op = "attachments" -> Records(fs.attachments)
          [] ask.op \in {"descriptors", "state", "range_beyond"} -> [n \in 1 .. count |-> Descriptor(Entry(n))]
          [] ask.op \in {"sources", "range"} ->
                [n \in 1 .. 2 * count |-> IF n % 2 = 1 THEN Descriptor(Entry((n + 1) \div 2)) ELSE Payload(Entry(n \div 2))]

Unknown(fs, ask) == ask.op \in {"state", "range", "range_beyond"} /\ EntriesFor(fs, ask.id) = {}

\* readAudioSourceDescriptor: the two records of a source state one length.
DescriptorHolds(f, item) == f.records[item.at].sound /\ f.records[item.at].size = f.records[item.payload].size

\* Whether what one range read returned is taken.
Holds(f, got, item) ==
    LET r == f.records[item.at]
    IN  CASE item.what = "payload" -> TRUE
          [] item.what = "descriptor" -> DescriptorHolds(f, item)
          [] item.what = "record" ->
                r.sound /\ ~(r.op = "OBJECT_TABLE" /\ \E g \in Range(got) : f.records[g.at].op = "OBJECT_TABLE")

\* A trajectory or track without samples is read as absent.
Absent(f, item) ==
    item.what = "record" /\ f.records[item.at].op \in {"RIG_TRAJECTORY", "OBJECT_TRACK"} /\ f.records[item.at].size = 0

\* Provenance.check and ObjectLayer.check, over what was collected.
Checked(f, ask, got) ==
    LET r(n) == f.records[got[n].at]
        Named(op) == {r(n).id : n \in {m \in DOMAIN got : r(m).op = op}}
    IN  ask.op \in {"provenance", "objects"} =>
            \A n \in DOMAIN got :
                /\ \A m \in DOMAIN got : r(n).op = r(m).op /\ r(n).id = r(m).id /\ r(n).op # "OBJECT_TABLE" => n = m
                /\ r(n).op = "SENSOR_CALIBRATION" /\ r(n).size # 0 => r(n).size \in Named("RIG_TRAJECTORY")
                /\ r(n).op = "GEODETIC_ANCHOR" => r(n).id \in Named("COORDINATE_FRAME")

Idle(ask) == [ask |-> ask, stage |-> "idle", walk |-> 0, todo |-> <<>>, asked |-> FALSE, got |-> <<>>]

\* A wrong Joined: every accessor walks for itself.
WalkedAnew == [walk |-> Len(walks) + 1, walks |-> Append(walks, NewWalk)]

\* ensureDeferredRecords: the first caller begins the walk, the others join it.
Joined == IF discovery = 0 THEN [walk |-> Len(walks) + 1, walks |-> Append(walks, NewWalk)]
                           ELSE [walk |-> discovery, walks |-> walks]

Call(c) ==
    /\ calls[c].stage = "idle"
    /\ IF complete
       THEN calls' = [calls EXCEPT ![c].stage = "waiting"] /\ UNCHANGED <<discovery, walks>>
       ELSE /\ calls' = [calls EXCEPT ![c].stage = "waiting", ![c].walk = Joined.walk]
            /\ discovery' = Joined.walk
            /\ walks' = Joined.walks
    /\ UNCHANGED <<caseVars, fields, complete, cache, failed>>

\* The promise a call awaits; one that needs no walk awaits nothing.
PromiseOf(c) == IF calls[c].walk = 0 THEN "done" ELSE walks[calls[c].walk].state

Settled(c) == PromiseOf(c) # "walking"

Resume(c) ==
    /\ calls[c].stage = "waiting" /\ Settled(c)
    /\ LET ask == calls[c].ask
       IN  calls' = [calls EXCEPT ![c] =
               IF PromiseOf(c) = "rejected" \/ Unknown(fields, ask) THEN [@ EXCEPT !.stage = "rejected"]
               ELSE [@ EXCEPT !.stage = "reading", !.todo = Wanted(file, fields, ask)]]
    /\ UNCHANGED <<caseVars, walkVars, cache, failed>>

Reading(c) == calls[c].stage = "reading" /\ calls[c].todo # <<>>

Item(c) == Head(calls[c].todo)

\* The descriptor needs no read: it is cached, or made for a legacy track.
Cached(c) == Item(c).what = "descriptor" /\ (Item(c).at = 0 \/ Item(c).at \in cache)

Taken(call, f) ==
    [call EXCEPT !.todo = Tail(@), !.asked = FALSE,
                 !.got = IF Absent(f, Head(call.todo)) THEN @ ELSE Append(@, Head(call.todo))]

Take(c) ==
    /\ Reading(c) /\ ~calls[c].asked /\ Cached(c)
    /\ calls' = [calls EXCEPT ![c] = Taken(@, file)]
    /\ UNCHANGED <<caseVars, walkVars, cache, failed>>

Request(c) ==
    /\ Reading(c) /\ ~calls[c].asked /\ ~Cached(c)
    /\ calls' = [calls EXCEPT ![c].asked = TRUE]
    /\ UNCHANGED <<caseVars, walkVars, cache, failed>>

\* A wrong CacheAfter: the descriptor is kept as soon as it is parsed.
CacheParsed(item) == IF item.what = "descriptor" /\ file.records[item.at].sound THEN cache \cup {item.at} ELSE cache

\* Only a descriptor that agrees with its payload is kept.
CacheAfter(item) == IF item.what = "descriptor" /\ DescriptorHolds(file, item) THEN cache \cup {item.at} ELSE cache

Arrive(c) ==
    /\ Reading(c) /\ calls[c].asked
    /\ cache' = CacheAfter(Item(c))
    /\ calls' = [calls EXCEPT ![c] = IF Holds(file, @.got, Item(c)) THEN Taken(@, file)
                                     ELSE [@ EXCEPT !.stage = "rejected"]]
    /\ UNCHANGED <<caseVars, walkVars, failed>>

Fail(c) ==
    /\ Reading(c) /\ calls[c].asked
    /\ calls' = [calls EXCEPT ![c].stage = "rejected"]
    /\ failed' = failed \cup {c}
    /\ UNCHANGED <<caseVars, walkVars, cache>>

Return(c) ==
    /\ calls[c].stage = "reading" /\ calls[c].todo = <<>>
    /\ LET holds == Checked(file, calls[c].ask, calls[c].got) /\ calls[c].ask.op # "range_beyond"
       IN  calls' = [calls EXCEPT ![c].stage = IF holds THEN "answered" ELSE "rejected"]
    /\ UNCHANGED <<caseVars, walkVars, cache, failed>>

----------------------------------------------------------------------------
Init ==
    \E case \in CASES :
        /\ ~OpenRefuses(case.file, case.limit)
        /\ file = case.file /\ limit = case.limit
        /\ fields = FieldsOf(file, KeptByOpen(file, limit))
        /\ complete = CompleteAtOpen(file, limit)
        /\ discovery = 0 /\ walks = <<>> /\ cache = {} /\ failed = {}
        /\ calls = [c \in CALLERS |-> Idle(case.asks[c])]

WalkStep(n) == WalkRecord(n) \/ WalkEnds(n) \/ WalkFails(n)

CallStep(c) == Resume(c) \/ Take(c) \/ Request(c) \/ Arrive(c) \/ Fail(c) \/ Return(c)

Over(c) == calls[c].stage \in {"answered", "rejected"}

Done == (\A c \in CALLERS : Over(c)) /\ UNCHANGED vars

Next == \/ \E n \in DOMAIN walks : WalkStep(n)
        \/ \E c \in CALLERS : Call(c) \/ CallStep(c)
        \/ Done

Spec == Init /\ [][Next]_vars

\* Every range read is answered one way or the other (IReadable), and the event
\* loop runs every continuation whose promise has settled.
FairSpec == /\ Spec
            /\ \A n \in 1 .. Cardinality(CALLERS) : WF_vars(n \in DOMAIN walks /\ WalkStep(n))
            /\ \A c \in CALLERS : WF_vars(CallStep(c))

----------------------------------------------------------------------------
(* What the file holds, whoever reads it                                   *)

\* A file whose optional records a reader with this ceiling may deliver.  A
\* second legacy track is refused by the walk only: open() keeps the last.
Lawful(f, ceiling) ==
    LET With(op) == {i \in DOMAIN f.records : f.records[i].op = op}
        Ids(op) == {f.records[i].id : i \in With(op)}
        has == With("AUDIO") # {} \/ With("AUDIO_SOURCE") # {}
    IN  /\ \A i, j \in DOMAIN f.records : i < j /\ f.records[i].op \in State => f.records[j].op \notin FrontMatter
        /\ \A i \in DOMAIN f.records : f.records[i].op \in Framed => f.records[i].sound
        /\ Ahead(f) = DOMAIN f.records \/ \A i, j \in With("AUDIO") : i = j
        /\ \A op \in {"AUDIO_SOURCE", "AUDIO_DATA"} : \A i, j \in With(op) :
                f.records[i].id = f.records[j].id => i = j
        /\ Ids("AUDIO_SOURCE") = Ids("AUDIO_DATA")
        /\ With("AUDIO") = {} \/ With("AUDIO_SOURCE") = {}
        /\ f.has_audio = has
        /\ Cardinality(Places(f)) <= ceiling

\* The items an accessor delivers of a lawful file.
Whole(f, ask) == Wanted(f, FieldsOf(f, Places(f)), ask)

\* Of a list, the elements at these places, in order.
Only(s, places) == [i \in 1 .. Cardinality(places) |-> s[Nth(places, i)]]

\* What is present of a list of items.
Present(f, items) == {n \in DOMAIN items : ~Absent(f, items[n])}

Delivered(f, ask) == Only(Whole(f, ask), Present(f, Whole(f, ask)))

Deliverable(f, ceiling, ask) ==
    LET whole == Whole(f, ask)
        fs == FieldsOf(f, Places(f))
    IN  /\ Lawful(f, ceiling)
        /\ ~Unknown(fs, ask) /\ ask.op # "range_beyond"
        /\ \A n \in DOMAIN whole : whole[n].at = 0 \/ Holds(f, SubSeq(whole, 1, n - 1), whole[n])
        /\ Checked(f, ask, Delivered(f, ask))

\* Whatever the callers do at the same time, an accessor that answers has read
\* every record of its kind, of a file that is lawful to its end, and a
\* descriptor another call refused is not delivered out of the cache.
AnswersAreWhole ==
    \A c \in CALLERS : calls[c].stage = "answered" =>
        Deliverable(file, limit, calls[c].ask) /\ calls[c].got = Delivered(file, calls[c].ask)

\* An accessor rejects for its own range reads, for those of the walk, or for
\* what the file holds; another accessor's failure is not its own.
RejectionsAreEarned ==
    \A c \in CALLERS : calls[c].stage = "rejected" =>
        c \in failed \/ "walk" \in failed \/ ~Deliverable(file, limit, calls[c].ask)

\* "Complete the optional-record walk only for an accessor that needs it": the
\* fields are those of open() or those of the whole file, never of half a walk.
FieldsTogether ==
    fields = FieldsOf(file, IF complete THEN Places(file) ELSE KeptByOpen(file, limit))

\* Accessors that meet share a walk, and a finished one is not repeated: the
\* headers of the file are crossed once however many calls are made.
OneWalk == Len(walks) <= 1

\* An accessor that has begun to read sees what the whole file holds, and what
\* it sees does not change under it: discovery never runs again.
ReadsSeeWhole ==
    \A c \in CALLERS : calls[c].stage \in {"reading", "answered"} => fields = FieldsOf(file, Places(file))

\* Every call settles, though calls wait for one another's walk.
CallsSettle == \A c \in CALLERS : (calls[c].stage # "idle") ~> Over(c)
=============================================================================
