----------------------- MODULE ForeignSequenceProofs -----------------------
(***************************************************************************)
(* The readers and the validator of keyframe-delta files on any file at    *)
(* all, whoever wrote it.                                                  *)
(***************************************************************************)
EXTENDS ForeignSequence, ListLemmas

----------------------------------------------------------------------------
(* What composition keeps of a population, whatever the delta              *)

\* A population whose columns are known attributes, each complete and in range,
\* none of the required ones missing.
Whole(s) == Reconstructible(s) /\ DOMAIN s.bins \subseteq Attribute

LEMMA EmptyIsWhole == Whole(EmptyPopulation)
BY DEF Whole, Reconstructible, EmptyPopulation, NoColumns

\* A keyframe that is accepted states a whole population.
LEMMA KeyframeIsWhole ==
    ASSUME NEW r, Parsed(r.group), KeyframeAccepted(r)
    PROVE  Whole(KeyframeState(r.group).state)
<1>1. PICK s : s = [ids |-> r.group.ids, bins |-> r.group.bins]
    OBVIOUS
<1>2. KeyframeState(r.group) = Ok(s) /\ ~OutOfRange(s.bins) /\ ~BadRotation(s)
    BY <1>1 DEF KeyframeAccepted, KeyframeState, Refuse, Ok
<1>3. KeyframeState(r.group).state = s
    BY <1>2 DEF Ok
<1>4. /\ s.ids \subseteq Id /\ DOMAIN s.bins \subseteq Attribute
      /\ \A a \in DOMAIN s.bins : s.bins[a] \in [s.ids -> Int]
      /\ s.ids # {} => REQUIRED \subseteq DOMAIN s.bins
    BY <1>1 DEF Parsed, KeyframeAccepted, MissingRequired
<1>5. ASSUME NEW a \in DOMAIN s.bins PROVE s.bins[a] \in [s.ids -> Bin]
    <2>1. \A g \in s.ids : s.bins[a][g] \in Bin
        BY <1>2, <1>4 DEF OutOfRange
    <2> QED BY <1>4, <2>1
<1>6. "rotation_index" \in REQUIRED
    BY DEF REQUIRED, Rotation
<1>7. s.ids # {} => \A g \in s.ids : s.bins["rotation_index"][g] \in 0 .. 3
    BY <1>2, <1>4, <1>5, <1>6 DEF BadRotation
<1> QED BY <1>3, <1>4, <1>5, <1>7 DEF Whole, Reconstructible

\* The columns of s, complete for its ids.
Columned(s) == \A a \in DOMAIN s.bins : s.bins[a] \in [s.ids -> Bin]

LEMMA SurvivorsColumned ==
    ASSUME NEW s, Columned(s), NEW dead
    PROVE  /\ Columned(Survivors(s, dead))
           /\ Survivors(s, dead).ids = s.ids \ dead
           /\ DOMAIN Survivors(s, dead).bins = DOMAIN s.bins
           /\ \A a \in DOMAIN s.bins : \A g \in s.ids \ dead : Survivors(s, dead).bins[a][g] = s.bins[a][g]
<1>1. \A a \in DOMAIN s.bins : DOMAIN s.bins[a] = s.ids /\ \A g \in s.ids : s.bins[a][g] \in Bin
    BY DEF Columned
<1> QED BY <1>1 DEF Columned, Survivors

\* An update within range completes every column it touches.
LEMMA UpdatedColumned ==
    ASSUME NEW s, Columned(s), NEW u,
           u.ids # {} => UnknownInUpdate(s, u) = {} /\ ~OutOfRange(Updated(s, u).bins)
    PROVE  /\ Columned(Updated(s, u)) /\ Updated(s, u).ids = s.ids
           /\ u.ids = {} => Updated(s, u) = s
           /\ u.ids # {} => DOMAIN Updated(s, u).bins = DOMAIN s.bins \cup DOMAIN u.bins
<1>1. CASE u.ids = {}
    BY <1>1 DEF Updated
<1>2. CASE u.ids # {}
    <2>1. PICK x : x = Updated(s, u)
        OBVIOUS
    <2>2. x = [ids |-> s.ids,
               bins |-> [a \in DOMAIN s.bins \cup DOMAIN u.bins |->
                            IF a \in DOMAIN u.bins THEN UpdatedColumn(s, u, a) ELSE s.bins[a]]]
        BY <1>2, <2>1 DEF Updated
    <2>3. x.ids = s.ids /\ DOMAIN x.bins = DOMAIN s.bins \cup DOMAIN u.bins
        BY <2>2
    <2>4. ASSUME NEW a \in DOMAIN x.bins PROVE x.bins[a] \in [x.ids -> Bin]
        <3>1. CASE a \notin DOMAIN u.bins
            <4>1. x.bins[a] = s.bins[a] /\ a \in DOMAIN s.bins
                BY <2>2, <2>3, <3>1
            <4> QED BY <2>3, <4>1 DEF Columned
        <3>2. CASE a \in DOMAIN u.bins
            <4>1. a \in DOMAIN s.bins \/ a \in OPTIONAL_IDENTITY
                BY <1>2, <3>2 DEF UnknownInUpdate
            <4>2. DOMAIN BaseColumn(s, a) = s.ids
                BY <4>1 DEF BaseColumn, Columned
            <4>3. x.bins[a] = UpdatedColumn(s, u, a)
                BY <2>2, <2>3, <3>2
            <4>4. x.bins[a] = [g \in s.ids |-> x.bins[a][g]]
                BY <4>2, <4>3 DEF UpdatedColumn
            <4>5. \A g \in DOMAIN x.bins[a] : x.bins[a][g] \in Bin
                BY <1>2, <2>1 DEF OutOfRange
            <4>6. DOMAIN x.bins[a] = s.ids
                BY <4>4
            <4> QED BY <2>3, <4>4, <4>5, <4>6
        <3> QED BY <3>1, <3>2
    <2> QED BY <1>2, <2>1, <2>3, <2>4 DEF Columned
<1> QED BY <1>1, <1>2

\* Births complete every column, when no required one is missing on either side.
LEMMA BornColumned ==
    ASSUME NEW s, Columned(s), NEW b,
           \A a \in DOMAIN b.bins : b.bins[a] \in [b.ids -> Bin],
           DOMAIN b.bins \subseteq Attribute, s.ids # {} => REQUIRED \subseteq DOMAIN s.bins
    PROVE  /\ Columned(Born(s, b)) /\ Born(s, b).ids = s.ids \cup b.ids
           /\ b.ids = {} => Born(s, b) = s
           /\ b.ids # {} => DOMAIN Born(s, b).bins = DOMAIN s.bins \cup DOMAIN b.bins
<1>1. CASE b.ids = {}
    BY <1>1 DEF Born
<1>2. CASE b.ids # {}
    <2>1. PICK x : x = [ids |-> s.ids \cup b.ids,
                        bins |-> [a \in DOMAIN s.bins \cup DOMAIN b.bins |-> BornColumn(s, b, a)]]
        OBVIOUS
    <2>2. Born(s, b) = x
        BY <1>2, <2>1 DEF Born
    <2>3. ASSUME NEW a \in DOMAIN x.bins PROVE x.bins[a] \in [x.ids -> Bin]
        <3>1. PICK base : base = BaseColumn(s, a)
            OBVIOUS
        <3>2. PICK new : new = IF a \in DOMAIN b.bins THEN b.bins[a] ELSE [g \in b.ids |-> 0]
            OBVIOUS
        <3>3. 0 \in Bin
            BY BinAssumption DEF Bin
        <3>4. DOMAIN new = b.ids /\ \A g \in b.ids : new[g] \in Bin
            BY <3>2, <3>3
        <3>5. DOMAIN base = s.ids /\ \A g \in s.ids : base[g] \in Bin
            <4>1. CASE a \in DOMAIN s.bins
                BY <3>1, <4>1 DEF BaseColumn, Columned
            <4>2. CASE a \notin DOMAIN s.bins
                <5>1. s.ids = {} \/ a \in OPTIONAL_IDENTITY
                    BY <2>1, <4>2 DEF Attribute
                <5> QED BY <3>1, <3>3, <4>2, <5>1 DEF BaseColumn
            <4> QED BY <4>1, <4>2
        <3>6. x.bins[a] = [g \in DOMAIN base \cup DOMAIN new |-> IF g \in DOMAIN new THEN new[g] ELSE base[g]]
            BY <2>1, <3>1, <3>2 DEF BornColumn
        <3>7. x.ids = s.ids \cup b.ids
            BY <2>1
        <3> QED BY ONLY <3>4, <3>5, <3>6, <3>7
    <2>4. x.ids = s.ids \cup b.ids /\ DOMAIN x.bins = DOMAIN s.bins \cup DOMAIN b.bins
        BY <2>1
    <2>5. Columned(x)
        BY <2>3 DEF Columned
    <2> QED BY <1>2, <2>2, <2>4, <2>5
<1> QED BY <1>1, <1>2

\* What apply_delta checked of a delta it composed.
LEMMA DeltaChecks ==
    ASSUME NEW s, NEW d, ApplyDelta(s, d).code = "ok"
    PROVE  /\ ApplyDelta(s, d).state = Composed(s, d)
           /\ ~IdInTwoGroups(d) /\ ~AbsoluteOutOfRange(d) /\ ~TouchesGrid(d.update)
           /\ d.death.ids \subseteq s.ids
           /\ d.update.ids \subseteq s.ids \ d.death.ids
           /\ d.update.ids # {} =>
                /\ UnknownInUpdate(Survivors(s, d.death.ids), d.update) = {}
                /\ ~OutOfRange(Updated(Survivors(s, d.death.ids), d.update).bins)
           /\ d.birth.ids \cap Updated(Survivors(s, d.death.ids), d.update).ids = {}
           /\ ~BadRotation(Composed(s, d))
BY DEF ApplyDelta, Refuse, Ok, Survivors

\* A delta that is accepted composes a whole population to a whole population.
LEMMA DeltaIsWhole ==
    ASSUME NEW s, Whole(s), NEW r, DeltaAccepted(s, r),
           Parsed(r.groups.update), Parsed(r.groups.birth)
    PROVE  Whole(ApplyDelta(s, r.groups).state)
<1> PICK d : d = r.groups
    OBVIOUS
<1>1. ApplyDelta(s, d).code = "ok" /\ ~MissingRequired(d.birth)
    BY DEF DeltaAccepted
<1>2. PICK kept : kept = Survivors(s, d.death.ids)
    OBVIOUS
<1>3. PICK changed : changed = Updated(kept, d.update)
    OBVIOUS
<1>4. PICK result : result = Born(changed, d.birth)
    OBVIOUS
<1>5. ApplyDelta(s, d).state = result /\ result = Composed(s, d)
    BY <1>1, <1>2, <1>3, <1>4, DeltaChecks DEF Composed
<1>6. /\ Columned(s) /\ s.ids \subseteq Id /\ DOMAIN s.bins \subseteq Attribute
      /\ s.ids # {} => REQUIRED \subseteq DOMAIN s.bins
    BY DEF Whole, Reconstructible, Columned
<1>7. /\ Columned(kept) /\ kept.ids \subseteq s.ids /\ DOMAIN kept.bins = DOMAIN s.bins
    BY <1>2, <1>6, SurvivorsColumned
<1>8. d.update.ids # {} => UnknownInUpdate(kept, d.update) = {} /\ ~OutOfRange(Updated(kept, d.update).bins)
    BY <1>1, <1>2, DeltaChecks
<1>9. /\ Columned(changed) /\ changed.ids = kept.ids
      /\ DOMAIN s.bins \subseteq DOMAIN changed.bins /\ DOMAIN changed.bins \subseteq Attribute
    <2>1. /\ Columned(changed) /\ changed.ids = kept.ids
          /\ d.update.ids = {} => changed = kept
          /\ d.update.ids # {} => DOMAIN changed.bins = DOMAIN kept.bins \cup DOMAIN d.update.bins
        BY <1>3, <1>7, <1>8, UpdatedColumned
    <2>2. DOMAIN d.update.bins \subseteq Attribute
        BY DEF Parsed
    <2> QED BY <1>6, <1>7, <2>1, <2>2
<1>10. /\ d.birth.ids \subseteq Id /\ DOMAIN d.birth.bins \subseteq Attribute
       /\ \A a \in DOMAIN d.birth.bins : d.birth.bins[a] \in [d.birth.ids -> Bin]
    <2>1. ASSUME NEW a \in DOMAIN d.birth.bins PROVE d.birth.bins[a] \in [d.birth.ids -> Bin]
        <3>1. d.birth.bins[a] \in [d.birth.ids -> Int]
            BY DEF Parsed
        <3>2. ~OutOfRange(d.birth.bins)
            BY <1>1, DeltaChecks DEF AbsoluteOutOfRange
        <3>3. \A g \in d.birth.ids : d.birth.bins[a][g] \in Bin
            BY <3>1, <3>2 DEF OutOfRange
        <3> QED BY <3>1, <3>3
    <2> QED BY <2>1 DEF Parsed
<1>11. /\ Columned(result) /\ result.ids = changed.ids \cup d.birth.ids
       /\ DOMAIN changed.bins \subseteq DOMAIN result.bins
       /\ DOMAIN result.bins \subseteq Attribute
       /\ d.birth.ids # {} => DOMAIN d.birth.bins \subseteq DOMAIN result.bins
    <2>1. changed.ids # {} => REQUIRED \subseteq DOMAIN changed.bins
        BY <1>6, <1>7, <1>9
    <2>2. /\ Columned(result) /\ result.ids = changed.ids \cup d.birth.ids
          /\ d.birth.ids = {} => result = changed
          /\ d.birth.ids # {} => DOMAIN result.bins = DOMAIN changed.bins \cup DOMAIN d.birth.bins
        BY <1>4, <1>9, <1>10, <2>1, BornColumned
    <2> QED BY <1>9, <1>10, <2>2
<1>12. result.ids # {} => REQUIRED \subseteq DOMAIN result.bins
    <2>1. d.birth.ids # {} => REQUIRED \subseteq DOMAIN d.birth.bins
        BY <1>1 DEF MissingRequired
    <2> QED BY <1>6, <1>7, <1>9, <1>11, <2>1
<1>13. result.ids # {} => \A g \in result.ids : result.bins["rotation_index"][g] \in 0 .. 3
    <2>1. "rotation_index" \in REQUIRED
        BY DEF REQUIRED, Rotation
    <2>2. ~BadRotation(result)
        BY <1>1, <1>5, DeltaChecks
    <2> QED BY <1>11, <1>12, <2>1, <2>2 DEF BadRotation, Columned
<1>14. result.ids \subseteq Id
    BY <1>6, <1>7, <1>9, <1>10, <1>11
<1> QED BY <1>5, <1>11, <1>12, <1>13, <1>14 DEF Whole, Reconstructible, Columned

\* ... and leaves what it keeps on its grids: an update may not touch them, and
\* none of the ids it kills can be born again by the same delta.
LEMMA DeltaKeepsGrids ==
    ASSUME NEW s, Whole(s), NEW r, DeltaAccepted(s, r), Parsed(r.groups.update), Parsed(r.groups.birth),
           NEW g \in s.ids \cap ApplyDelta(s, r.groups).state.ids, NEW a \in GOP_INVARIANT
    PROVE  ApplyDelta(s, r.groups).state.bins[a][g] = s.bins[a][g]
<1> PICK d : d = r.groups
    OBVIOUS
<1>1. ApplyDelta(s, d).code = "ok"
    BY DEF DeltaAccepted
<1>2. PICK kept : kept = Survivors(s, d.death.ids)
    OBVIOUS
<1>3. PICK changed : changed = Updated(kept, d.update)
    OBVIOUS
<1>4. PICK result : result = Born(changed, d.birth)
    OBVIOUS
<1>5. ApplyDelta(s, d).state = result
    BY <1>1, <1>2, <1>3, <1>4, DeltaChecks DEF Composed
<1>6. a \in REQUIRED /\ a \in DOMAIN s.bins /\ Columned(s) /\ g \in s.ids
    BY DEF REQUIRED, Whole, Reconstructible, Columned
<1>7. /\ Columned(kept) /\ kept.ids = s.ids \ d.death.ids /\ DOMAIN kept.bins = DOMAIN s.bins
      /\ \A x \in s.ids \ d.death.ids : kept.bins[a][x] = s.bins[a][x]
    BY <1>2, <1>6, SurvivorsColumned
<1>8. /\ Columned(changed) /\ changed.ids = kept.ids /\ a \in DOMAIN changed.bins
      /\ changed.bins[a] = kept.bins[a]
    <2>1. d.update.ids # {} => UnknownInUpdate(kept, d.update) = {} /\ ~OutOfRange(Updated(kept, d.update).bins)
        BY <1>1, <1>2, DeltaChecks
    <2>2. /\ Columned(changed) /\ changed.ids = kept.ids
          /\ d.update.ids = {} => changed = kept
          /\ d.update.ids # {} => DOMAIN changed.bins = DOMAIN kept.bins \cup DOMAIN d.update.bins
        BY <1>3, <1>7, <2>1, UpdatedColumned
    <2>3. a \notin DOMAIN d.update.bins
        BY <1>1, DeltaChecks DEF TouchesGrid
    <2>4. changed.bins[a] = kept.bins[a]
        BY <1>3, <1>6, <1>7, <2>3 DEF Updated
    <2> QED BY <1>6, <1>7, <2>2, <2>4
<1>9. g \in changed.ids /\ g \notin d.birth.ids
    <2>1. d.birth.ids \cap changed.ids = {} /\ d.birth.ids \cap d.death.ids = {}
        BY <1>1, <1>2, <1>3, DeltaChecks DEF IdInTwoGroups
    <2>2. result.ids = changed.ids \cup d.birth.ids
        BY <1>4 DEF Born
    <2> QED BY <1>5, <1>7, <1>8, <2>1, <2>2
<1>10. result.bins[a][g] = changed.bins[a][g]
    <2>1. CASE d.birth.ids = {}
        BY <1>4, <2>1 DEF Born
    <2>2. CASE d.birth.ids # {}
        <3>1. result.bins[a] = BornColumn(changed, d.birth, a)
            BY <1>4, <1>8, <2>2 DEF Born
        <3>2. BaseColumn(changed, a) = changed.bins[a]
            BY <1>8 DEF BaseColumn
        <3>3. DOMAIN changed.bins[a] = changed.ids
            BY <1>8 DEF Columned
        <3>4. PICK new : new = IF a \in DOMAIN d.birth.bins THEN d.birth.bins[a] ELSE [x \in d.birth.ids |-> 0]
            OBVIOUS
        <3>5. DOMAIN new = d.birth.ids
            BY <3>4 DEF Parsed
        <3>6. BornColumn(changed, d.birth, a) =
                [x \in DOMAIN changed.bins[a] \cup DOMAIN new |-> IF x \in DOMAIN new THEN new[x] ELSE changed.bins[a][x]]
            BY <3>2, <3>4 DEF BornColumn
        <3> QED BY <1>9, <3>1, <3>3, <3>5, <3>6
    <2> QED BY <2>1, <2>2
<1> QED BY <1>5, <1>7, <1>8, <1>9, <1>10

----------------------------------------------------------------------------
(* The streamed reader                                                     *)

FileShaped ==
    /\ IsSeq(file) /\ summary_start \in Nat /\ ending \in Ending
    /\ \A i \in DOMAIN file :
        /\ file[i].op = "CHUNK" => Parsed(file[i].group)
        /\ file[i].op = "DELTA_CHUNK" =>
              Parsed(file[i].groups.update) /\ Parsed(file[i].groups.birth) /\ Parsed(file[i].groups.death)

StatesBefore(n) == {o \in DOMAIN file : o < n /\ file[o].op \in StateRecord}

\* Record i is one the streamed reader takes, when what precedes it decoded to d.
Accepts(d, i) ==
    LET r == file[i]
    IN  CASE r.op = "CHUNK" -> KeyframeAccepted(r) /\ Selectable(r.t0, r.t1, KeyframeState(r.group).state)
          [] r.op = "DELTA_CHUNK" ->
                /\ r.reference < i /\ r.reference \in DOMAIN d
                /\ DeltaAccepted(d[r.reference].state, r)
                /\ Selectable(r.t0, r.t1, ApplyDelta(d[r.reference].state, r.groups).state)
          [] r.op = "CHUNK_INDEX" ->
                r.offset < i /\ r.offset \in DOMAIN d =>
                    /\ r.count = d[r.offset].ops
                    /\ r.extended => r.live = Cardinality(d[r.offset].state.ids)
          [] OTHER -> TRUE

\* What state record i decodes to then.
Info(d, i) ==
    LET r == file[i]
        key == KeyframeState(r.group).state
    IN  IF r.op = "CHUNK" THEN ChunkInfo(r, Cardinality(key.ids), key)
        ELSE ChunkInfo(r, Operations(r.groups), ApplyDelta(d[r.reference].state, r.groups).state)

\* d is what the state records before n compose to, all of which are taken.
Composing(d, n) ==
    /\ d = [o \in StatesBefore(n) |-> d[o]]
    /\ \A o \in StatesBefore(n) : Accepts(d, o) /\ d[o] = Info(d, o) /\ Whole(d[o].state)

\* ... and the records between are taken too.
Decoding(d, n) == Composing(d, n) /\ \A i \in DOMAIN file : i < n => Accepts(d, i)

\* What makes the streamed reader read to the end.
Decodable == ~LateFrontMatter /\ ending # "partial" /\ \E d : Decoding(d, Len(file) + 1)

\* What was decoded is what anyone else would make of those records, and a file
\* is refused only for what it is.
StreamedHolds ==
    /\ streamed \in {"waiting", "reading", "ok", "refused"}
    /\ streamed \in {"waiting", "refused"} => decoded = NoChunks
    /\ streamed = "reading" => at \in 1 .. Len(file) + 1 /\ Decoding(decoded, at) /\ ~LateFrontMatter
    /\ streamed = "ok" => Decoding(decoded, Len(file) + 1) /\ ending # "partial" /\ ~LateFrontMatter
    /\ streamed = "refused" => ~Decodable
    /\ \A d : Composing(d, Len(file) + 1) => \A o \in DOMAIN decoded : decoded[o] = d[o]

\* Entries at i and later do not matter to record i.
LEMMA AcceptsEarlier ==
    ASSUME NEW d, NEW e, NEW i \in DOMAIN file, i \in Int, DOMAIN d \subseteq Int,
           \A o \in DOMAIN d : o < i => o \in DOMAIN e /\ e[o] = d[o],
           \A o \in DOMAIN e : o < i => o \in DOMAIN d
    PROVE  /\ Accepts(e, i) <=> Accepts(d, i)
           /\ file[i].op \in StateRecord /\ Accepts(d, i) => Info(e, i) = Info(d, i)
<1>1. CASE file[i].op = "CHUNK"
    BY <1>1 DEF Accepts, Info
<1>2. CASE file[i].op = "DELTA_CHUNK"
    BY <1>2 DEF Accepts, Info
<1>3. CASE file[i].op = "CHUNK_INDEX"
    BY <1>3 DEF Accepts, StateRecord
<1>4. CASE file[i].op \notin {"CHUNK", "DELTA_CHUNK", "CHUNK_INDEX"}
    BY <1>4 DEF Accepts, StateRecord
<1> QED BY <1>1, <1>2, <1>3, <1>4

\* Two decodings of the records before n that agree so far take the same record n.
LEMMA SameBefore ==
    ASSUME FileShaped, NEW n \in DOMAIN file, NEW m \in Nat, n < m, NEW d, NEW e,
           Composing(d, n), Composing(e, m), \A o \in DOMAIN d : d[o] = e[o]
    PROVE  /\ Accepts(e, n) <=> Accepts(d, n)
           /\ file[n].op \in StateRecord /\ Accepts(d, n) => Info(e, n) = Info(d, n)
<1>1. n \in Int /\ DOMAIN file \subseteq Int
    BY DEF FileShaped, IsSeq
<1>2. DOMAIN d = StatesBefore(n) /\ DOMAIN e = StatesBefore(m)
    BY DEF Composing
<1>3. /\ DOMAIN d \subseteq Int
      /\ \A o \in DOMAIN d : o < n => o \in DOMAIN e /\ e[o] = d[o]
      /\ \A o \in DOMAIN e : o < n => o \in DOMAIN d
    BY <1>1, <1>2 DEF StatesBefore
<1> QED BY <1>1, <1>3, AcceptsEarlier

LEMMA InfoIsWhole ==
    ASSUME FileShaped, NEW d, NEW i \in DOMAIN file, file[i].op \in StateRecord, Accepts(d, i),
           \A o \in DOMAIN d : Whole(d[o].state)
    PROVE  Whole(Info(d, i).state)
<1>1. CASE file[i].op = "CHUNK"
    <2>1. Parsed(file[i].group) /\ KeyframeAccepted(file[i])
        BY <1>1 DEF FileShaped, Accepts
    <2>2. Info(d, i).state = KeyframeState(file[i].group).state
        BY <1>1 DEF Info, ChunkInfo
    <2> QED BY <2>1, <2>2, KeyframeIsWhole
<1>2. CASE file[i].op = "DELTA_CHUNK"
    <2>1. /\ Parsed(file[i].groups.update) /\ Parsed(file[i].groups.birth)
          /\ Whole(d[file[i].reference].state) /\ DeltaAccepted(d[file[i].reference].state, file[i])
        BY <1>2 DEF FileShaped, Accepts
    <2>2. Info(d, i).state = ApplyDelta(d[file[i].reference].state, file[i].groups).state
        BY <1>2 DEF Info, ChunkInfo
    <2> QED BY <2>1, <2>2, DeltaIsWhole
<1> QED BY <1>1, <1>2 DEF StateRecord

\* One record more.
LEMMA ComposingGrows ==
    ASSUME FileShaped, NEW n \in DOMAIN file, NEW d, Composing(d, n),
           file[n].op \in StateRecord => Accepts(d, n), NEW e,
           e = IF file[n].op \in StateRecord THEN Extended(d, n, Info(d, n)) ELSE d
    PROVE  /\ Composing(e, n + 1)
           /\ \A i \in DOMAIN file : i < n + 1 => (Accepts(e, i) <=> Accepts(d, i))
<1>1. n \in Int /\ DOMAIN file \subseteq Int /\ DOMAIN d = StatesBefore(n) /\ n \notin StatesBefore(n)
    BY DEF FileShaped, IsSeq, Composing, StatesBefore
<1>2. StatesBefore(n + 1) = StatesBefore(n) \cup (IF file[n].op \in StateRecord THEN {n} ELSE {})
    BY <1>1 DEF StatesBefore
<1>3. /\ e = [o \in StatesBefore(n + 1) |-> e[o]]
      /\ \A o \in StatesBefore(n) : e[o] = d[o]
      /\ file[n].op \in StateRecord => e[n] = Info(d, n)
    BY <1>1, <1>2 DEF Extended, Composing
<1>4. DOMAIN e = StatesBefore(n + 1)
    BY <1>3
<1>5. ASSUME NEW i \in DOMAIN file, i < n + 1
      PROVE  /\ Accepts(e, i) <=> Accepts(d, i)
             /\ file[i].op \in StateRecord =>
                    Accepts(e, i) /\ e[i] = Info(e, i) /\ Whole(e[i].state)
    <2>1. i <= n /\ i \in Int /\ StatesBefore(n) \subseteq Int
        BY <1>1, <1>5 DEF StatesBefore
    <2>2. /\ \A o \in DOMAIN d : o < i => o \in DOMAIN e /\ e[o] = d[o]
          /\ \A o \in DOMAIN e : o < i => o \in DOMAIN d
        BY <1>1, <1>2, <1>3, <1>4, <2>1 DEF StatesBefore
    <2>3. /\ Accepts(e, i) <=> Accepts(d, i)
          /\ file[i].op \in StateRecord /\ Accepts(d, i) => Info(e, i) = Info(d, i)
        BY <1>1, <2>1, <2>2, AcceptsEarlier
    <2>4. ASSUME file[i].op \in StateRecord PROVE Accepts(d, i) /\ e[i] = Info(d, i) /\ Whole(e[i].state)
        <3>1. CASE i = n
            <4>1. \A o \in DOMAIN d : Whole(d[o].state)
                BY <1>1 DEF Composing
            <4>2. Accepts(d, n)
                BY <2>4, <3>1
            <4> QED BY <1>3, <2>4, <3>1, <4>1, <4>2, InfoIsWhole
        <3>2. CASE i # n
            <4>1. i \in StatesBefore(n)
                BY <1>1, <2>1, <2>4, <3>2 DEF StatesBefore
            <4> QED BY <1>3, <4>1 DEF Composing
        <3> QED BY <3>1, <3>2
    <2> QED BY <2>3, <2>4
<1> QED BY <1>3, <1>5 DEF Composing, StatesBefore

LEMMA DecodingGrows ==
    ASSUME FileShaped, NEW n \in DOMAIN file, NEW d, Decoding(d, n), Accepts(d, n), NEW e,
           e = IF file[n].op \in StateRecord THEN Extended(d, n, Info(d, n)) ELSE d
    PROVE  Decoding(e, n + 1)
<1>1. /\ Composing(e, n + 1)
      /\ \A i \in DOMAIN file : i < n + 1 => (Accepts(e, i) <=> Accepts(d, i))
    BY ComposingGrows DEF Decoding
<1>2. ASSUME NEW i \in DOMAIN file, i < n + 1 PROVE Accepts(d, i)
    <2>1. i \in Int /\ n \in Int
        BY DEF FileShaped, IsSeq
    <2>2. i < n \/ i = n
        BY <1>2, <2>1
    <2> QED BY <2>2 DEF Decoding
<1> QED BY <1>1, <1>2 DEF Decoding

LEMMA StreamedAcceptsAt ==
    ASSUME FileShaped, at \in DOMAIN file, Decoding(decoded, at)
    PROVE  StreamedAccepts(file[at]) <=> Accepts(decoded, at)
<1>1. \A o \in DOMAIN decoded : o < at
    BY DEF Decoding, Composing, StatesBefore
<1>2. CASE file[at].op = "CHUNK"
    BY <1>2 DEF Accepts, StreamedAccepts
<1>3. CASE file[at].op = "DELTA_CHUNK"
    BY <1>3 DEF Accepts, StreamedAccepts, ReferenceDecoded
<1>4. CASE file[at].op = "CHUNK_INDEX"
    BY <1>1, <1>4 DEF Accepts, StreamedAccepts, CountsAgree
<1>5. CASE file[at].op \notin {"CHUNK", "DELTA_CHUNK", "CHUNK_INDEX"}
    BY <1>5 DEF Accepts, StreamedAccepts
<1> QED BY <1>2, <1>3, <1>4, <1>5

\* What the invariant of the streamed reader depends on.
LEMMA FileFrame ==
    ASSUME UNCHANGED fileVars
    PROVE  /\ FileShaped => FileShaped'
           /\ LateFrontMatter' = LateFrontMatter
           /\ \A d, i : Accepts(d, i)' = Accepts(d, i) /\ Info(d, i)' = Info(d, i)
           /\ \A n : StatesBefore(n)' = StatesBefore(n)
           /\ \A d, n : Composing(d, n)' = Composing(d, n) /\ Decoding(d, n)' = Decoding(d, n)
           /\ Decodable' = Decodable
<1>1. file' = file /\ header' = header /\ summary_start' = summary_start /\ ending' = ending
    BY DEF fileVars
<1>2. FileShaped => FileShaped'
    BY <1>1 DEF FileShaped
<1>3. LateFrontMatter' = LateFrontMatter
    BY <1>1 DEF LateFrontMatter
<1>4. \A n : StatesBefore(n)' = StatesBefore(n)
    BY <1>1 DEF StatesBefore
<1>7. ASSUME NEW d, NEW i PROVE Accepts(d, i)' = Accepts(d, i) /\ Info(d, i)' = Info(d, i)
    <2>1. file'[i] = file[i]
        BY <1>1
    <2>2. /\ KeyframeAccepted(file[i])' = KeyframeAccepted(file[i])
          /\ DeltaAccepted(d[file[i].reference].state, file[i])' = DeltaAccepted(d[file[i].reference].state, file[i])
        BY <1>1 DEF KeyframeAccepted, DeltaAccepted, WindowsInTable
    <2>3. Accepts(d, i)' = Accepts(d, i)
        BY <2>1, <2>2 DEF Accepts
    <2>4. Info(d, i)' = Info(d, i)
        BY <2>1 DEF Info
    <2> QED BY <2>3, <2>4
<1>8. \A d, n : Composing(d, n)' = Composing(d, n) /\ Decoding(d, n)' = Decoding(d, n)
    BY <1>1, <1>4, <1>7 DEF Decoding, Composing
<1>9. Decodable' = Decodable
    BY <1>1, <1>3, <1>8 DEF Decodable
<1> QED BY <1>2, <1>3, <1>4, <1>7, <1>8, <1>9

LEMMA StreamedFrame ==
    ASSUME StreamedHolds, UNCHANGED <<fileVars, streamedVars>>
    PROVE  StreamedHolds'
<1>1. streamed' = streamed /\ at' = at /\ decoded' = decoded /\ file' = file /\ ending' = ending
    BY DEF streamedVars, fileVars
<1> QED BY <1>1, FileFrame DEF StreamedHolds

LEMMA DecodeStreamedHolds ==
    ASSUME FileShaped, StreamedHolds, DecodeStreamed
    PROVE  StreamedHolds'
<1>1. /\ UNCHANGED fileVars /\ file' = file /\ ending' = ending
      /\ Len(file) \in Nat /\ DOMAIN file = 1 .. Len(file)
    BY DEF DecodeStreamed, OpenStreamed, ReadChunk, ReadDeltaChunk, ReadChunkIndex, ReadOther,
           ReadingRecord, RefuseRecord, EndOfRecords, fileVars, FileShaped, IsSeq
<1>2. /\ \A d, n : Composing(d, n)' = Composing(d, n) /\ Decoding(d, n)' = Decoding(d, n)
      /\ Decodable' = Decodable /\ LateFrontMatter' = LateFrontMatter
    BY <1>1, FileFrame
<1>3. CASE OpenStreamed
    <2>1. Decoding(NoChunks, 1)
        <3>1. StatesBefore(1) = {}
            BY <1>1 DEF StatesBefore
        <3>2. NoChunks = [o \in {} |-> NoChunks[o]]
            BY DEF NoChunks
        <3> QED BY <1>1, <3>1, <3>2 DEF Decoding, Composing
    <2>2. /\ streamed' = IF LateFrontMatter THEN "refused" ELSE "reading"
          /\ at' = 1 /\ decoded' = NoChunks
        BY <1>3 DEF OpenStreamed
    <2>3. LateFrontMatter => ~Decodable
        BY DEF Decodable
    <2> QED BY <1>1, <1>2, <2>1, <2>2, <2>3 DEF StreamedHolds, NoChunks
<1>4. ASSUME streamed = "reading", at \in DOMAIN file, StreamedAccepts(file[at]), streamed' = "reading",
             at' = at + 1,
             decoded' = IF file[at].op \in StateRecord THEN Extended(decoded, at, Info(decoded, at)) ELSE decoded
      PROVE  StreamedHolds'
    <2>1. Decoding(decoded, at) /\ ~LateFrontMatter
        BY <1>4 DEF StreamedHolds
    <2>2. Accepts(decoded, at)
        BY <1>4, <2>1, StreamedAcceptsAt
    <2>3. Decoding(decoded', at + 1)
        BY <1>4, <2>1, <2>2, DecodingGrows
    <2>4. at + 1 \in 1 .. Len(file) + 1
        BY <1>1, <1>4
    <2>5. ASSUME NEW d, Composing(d, Len(file) + 1), NEW o \in DOMAIN decoded'
          PROVE  decoded'[o] = d[o]
        <3>1. \A p \in DOMAIN decoded : decoded[p] = d[p]
            BY <2>5 DEF StreamedHolds
        <3>2. CASE o \in DOMAIN decoded /\ o # at
            BY <1>4, <3>1, <3>2 DEF Extended
        <3>3. CASE o = at /\ file[at].op \in StateRecord
            <4>1. decoded'[o] = Info(decoded, at)
                BY <1>4, <3>3 DEF Extended
            <4>2. at \in StatesBefore(Len(file) + 1)
                BY <1>1, <1>4, <3>3 DEF StatesBefore
            <4>3. d[at] = Info(d, at)
                BY <2>5, <4>2 DEF Composing
            <4>4. Len(file) + 1 \in Nat /\ at < Len(file) + 1
                BY <1>1, <1>4
            <4>5. Info(d, at) = Info(decoded, at)
                BY <1>4, <2>1, <2>2, <2>5, <3>1, <3>3, <4>4, SameBefore DEF Decoding
            <4> QED BY <3>3, <4>1, <4>3, <4>5
        <3>4. at \notin DOMAIN decoded
            BY <1>1, <1>4, <2>1 DEF Decoding, Composing, StatesBefore
        <3>5. DOMAIN decoded' = IF file[at].op \in StateRecord THEN DOMAIN decoded \cup {at} ELSE DOMAIN decoded
            BY <1>4 DEF Extended
        <3> QED BY <3>2, <3>3, <3>4, <3>5
    <2> QED BY <1>1, <1>2, <1>4, <2>1, <2>3, <2>4, <2>5 DEF StreamedHolds
<1>5. CASE ReadChunk \/ ReadDeltaChunk \/ ReadChunkIndex \/ ReadOther
    <2>1. streamed = "reading" /\ at <= Len(file) /\ streamed' = streamed /\ at' = at + 1
        BY <1>5 DEF ReadChunk, ReadDeltaChunk, ReadChunkIndex, ReadOther, ReadingRecord
    <2>2. at \in DOMAIN file
        BY <1>1, <2>1 DEF StreamedHolds
    <2>3. StreamedAccepts(file[at])
        BY <1>5 DEF ReadChunk, ReadDeltaChunk, ReadChunkIndex, ReadOther, ReadingRecord, StreamedAccepts, StateRecord
    <2>4. decoded' = IF file[at].op \in StateRecord THEN Extended(decoded, at, Info(decoded, at)) ELSE decoded
        <3>1. CASE ReadChunk
            <4>1. file[at].op = "CHUNK" /\ "CHUNK" \in StateRecord
                BY <3>1 DEF ReadChunk, ReadingRecord, StateRecord
            <4> QED BY <3>1, <4>1 DEF ReadChunk, Info
        <3>2. CASE ReadDeltaChunk
            <4>1. file[at].op = "DELTA_CHUNK" /\ "DELTA_CHUNK" \in StateRecord
                BY <3>2 DEF ReadDeltaChunk, ReadingRecord, StateRecord
            <4> QED BY <3>2, <4>1 DEF ReadDeltaChunk, Info
        <3>3. CASE ReadChunkIndex
            BY <3>3 DEF ReadChunkIndex, ReadingRecord, StateRecord
        <3>4. CASE ReadOther
            BY <3>4 DEF ReadOther
        <3> QED BY <1>5, <3>1, <3>2, <3>3, <3>4
    <2> QED BY <1>4, <2>1, <2>2, <2>3, <2>4
<1>6. CASE RefuseRecord
    <2>1. /\ streamed = "reading" /\ at <= Len(file) /\ ~StreamedAccepts(file[at])
          /\ streamed' = "refused" /\ decoded' = NoChunks
        BY <1>6 DEF RefuseRecord
    <2>2. at \in DOMAIN file /\ Decoding(decoded, at)
        BY <1>1, <2>1 DEF StreamedHolds
    <2>3. ~Accepts(decoded, at)
        BY <2>1, <2>2, StreamedAcceptsAt
    <2>4. ASSUME NEW d, Decoding(d, Len(file) + 1) PROVE FALSE
        <3>1. Composing(d, Len(file) + 1) /\ Accepts(d, at)
            BY <1>1, <2>2, <2>4 DEF Decoding
        <3>2. \A o \in DOMAIN decoded : decoded[o] = d[o]
            BY <3>1 DEF StreamedHolds
        <3>3. Len(file) + 1 \in Nat /\ at < Len(file) + 1
            BY <1>1, <2>2
        <3> QED BY <2>2, <2>3, <3>1, <3>2, <3>3, SameBefore DEF Decoding
    <2>5. ~Decodable
        BY <2>4 DEF Decodable
    <2> QED BY <1>1, <1>2, <2>1, <2>5 DEF StreamedHolds, NoChunks
<1>7. CASE EndOfRecords
    <2>1. /\ streamed = "reading" /\ at > Len(file)
          /\ streamed' = IF ending = "partial" THEN "refused" ELSE "ok"
          /\ decoded' = IF ending = "partial" THEN NoChunks ELSE decoded
        BY <1>7 DEF EndOfRecords
    <2>2. Decoding(decoded, at) /\ at = Len(file) + 1 /\ ~LateFrontMatter
        BY <1>1, <2>1 DEF StreamedHolds
    <2>3. ending = "partial" => ~Decodable
        BY DEF Decodable
    <2> QED BY <1>1, <1>2, <2>1, <2>2, <2>3 DEF StreamedHolds, NoChunks
<1> QED BY <1>3, <1>5, <1>6, <1>7 DEF DecodeStreamed

----------------------------------------------------------------------------
(* The indexed reader                                                      *)

\* Whatever the chain, what its links compose to is whole.
AnswersWhole ==
    /\ indexed \in {"waiting", "walking", "reading", "ok", "refused"}
    /\ Whole(composed)
    /\ \A k \in DOMAIN answers : Whole(answers[k])

LEMMA LinkIsWhole ==
    ASSUME FileShaped, Whole(composed), NEW e, LinkAccepted(e)
    PROVE  Whole(LinkState(e))
<1>1. CASE e.kind = KEYFRAME_KIND
    <2>1. Parsed(file[e.offset].group) /\ KeyframeAccepted(file[e.offset])
        BY <1>1 DEF LinkAccepted, LinkRecord, FileShaped
    <2> QED BY <1>1, <2>1, KeyframeIsWhole DEF LinkState
<1>2. CASE e.kind # KEYFRAME_KIND
    <2>1. /\ Parsed(file[e.offset].groups.update) /\ Parsed(file[e.offset].groups.birth)
          /\ DeltaAccepted(composed, file[e.offset])
        BY <1>2 DEF LinkAccepted, LinkRecord, FileShaped
    <2> QED BY <1>2, <2>1, DeltaIsWhole DEF LinkState
<1> QED BY <1>1, <1>2

LEMMA RefuseAnswersWhole ==
    ASSUME AnswersWhole, RefuseIndexed
    PROVE  AnswersWhole'
<1>1. indexed' = "refused" /\ answers' = NoAnswers /\ composed' = composed
    BY DEF RefuseIndexed
<1> QED BY <1>1 DEF AnswersWhole, NoAnswers

LEMMA DecodeIndexedWhole ==
    ASSUME FileShaped, AnswersWhole, DecodeIndexed
    PROVE  AnswersWhole'
<1>1. CASE OpenIndexed
    <2>1. indexed' \in {"walking", "refused"} /\ composed' = EmptyPopulation /\ answers' = NoAnswers
        BY <1>1 DEF OpenIndexed
    <2> QED BY <2>1, EmptyIsWhole DEF AnswersWhole, NoAnswers
<1>2. CASE RefuseIndexed
    BY <1>2, RefuseAnswersWhole
<1>3. ASSUME composed' = composed, answers' = answers, indexed' \in {"walking", "reading", "ok"}
      PROVE  AnswersWhole'
    BY <1>3 DEF AnswersWhole
<1>4. CASE StartChain \/ WalkBack
    <2>1. RefuseIndexed \/ (composed' = composed /\ answers' = answers /\ indexed' = indexed /\ indexed = "walking")
        BY <1>4 DEF StartChain, WalkBack, Walking
    <2> QED BY <1>2, <1>3, <2>1
<1>5. CASE CheckDepth \/ FinishIndexed
    <2>1. RefuseIndexed \/ (composed' = composed /\ answers' = answers /\ indexed' \in {"reading", "ok"})
        BY <1>5 DEF CheckDepth, FinishIndexed
    <2> QED BY <1>2, <1>3, <2>1
<1>6. CASE ReadLink
    <2>1. CASE RefuseIndexed
        BY <1>2, <2>1
    <2>2. CASE ~RefuseIndexed
        <3>1. PICK e : e = chain[link + 1]
            OBVIOUS
        <3>2. LinkAccepted(e) /\ composed' = LinkState(e) /\ answers' = answers /\ indexed' = indexed
            BY <1>6, <2>2, <3>1 DEF ReadLink
        <3>3. Whole(LinkState(e))
            BY <3>2, LinkIsWhole DEF AnswersWhole
        <3> QED BY <3>2, <3>3 DEF AnswersWhole
    <2> QED BY <2>1, <2>2
<1>7. CASE AnswerEntry
    <2>1. answers' = Extended(answers, entry, composed) /\ composed' = EmptyPopulation /\ indexed' = "walking"
        BY <1>7 DEF AnswerEntry
    <2>2. DOMAIN answers' = DOMAIN answers \cup {entry}
        BY <2>1 DEF Extended
    <2>3. \A k \in DOMAIN answers' : answers'[k] = IF k = entry THEN composed ELSE answers[k]
        BY <2>1, <2>2 DEF Extended
    <2>4. \A k \in DOMAIN answers' : Whole(answers'[k])
        BY <2>2, <2>3 DEF AnswersWhole
    <2> QED BY <2>1, <2>4, EmptyIsWhole DEF AnswersWhole
<1> QED BY <1>1, <1>4, <1>5, <1>6, <1>7 DEF DecodeIndexed

----------------------------------------------------------------------------
(* The invariant of the readers                                            *)

RInv == FileShaped /\ StreamedHolds /\ AnswersWhole

LEMMA InitRInv == Init => RInv
<1> SUFFICES ASSUME Init PROVE RInv
    OBVIOUS
<1>1. PICK f \in FILES : header = f.header /\ file = f.file /\ summary_start = f.summary_start /\ ending = f.ending
    BY DEF Init
<1>2. FileShaped
    BY <1>1, FileAssumption, SeqIsSeq DEF FileShaped
<1>3. StreamedHolds
    BY DEF Init, ReadersWaiting, StreamedHolds, NoChunks
<1>4. AnswersWhole
    BY EmptyIsWhole DEF Init, ReadersWaiting, AnswersWhole, NoAnswers
<1> QED BY <1>2, <1>3, <1>4 DEF RInv

LEMMA AnswersFrame ==
    ASSUME AnswersWhole, UNCHANGED indexedVars
    PROVE  AnswersWhole'
BY DEF AnswersWhole, indexedVars

\* Every step is a step of one of the three, and reads the bytes only.
LEMMA StepOfOne ==
    ASSUME [Next]_vars
    PROVE  /\ UNCHANGED fileVars
           /\ \/ DecodeStreamed /\ UNCHANGED <<indexedVars, validatorVars>>
              \/ DecodeIndexed /\ UNCHANGED <<streamedVars, validatorVars>>
              \/ Validate /\ UNCHANGED <<streamedVars, indexedVars>>
              \/ UNCHANGED vars
<1>1. CASE DecodeStreamed /\ UNCHANGED validatorVars
    BY <1>1 DEF DecodeStreamed, OpenStreamed, ReadChunk, ReadDeltaChunk, ReadChunkIndex, ReadOther,
                ReadingRecord, RefuseRecord, EndOfRecords
<1>2. CASE DecodeIndexed /\ UNCHANGED validatorVars
    BY <1>2 DEF DecodeIndexed, OpenIndexed, StartChain, WalkBack, CheckDepth, ReadLink, AnswerEntry,
                FinishIndexed, RefuseIndexed
<1>3. CASE Validate
    BY <1>3 DEF Validate, StartIndexed, StartStreamed, VisitEntry, VisitRecord, FinishWalk,
                CountIdentities, Invalid, Others
<1>4. CASE UNCHANGED vars
    BY <1>4 DEF vars
<1> QED BY <1>1, <1>2, <1>3, <1>4 DEF Next

LEMMA NextRInv == RInv /\ [Next]_vars => RInv'
<1> SUFFICES ASSUME RInv, [Next]_vars PROVE RInv'
    OBVIOUS
<1>1. FileShaped'
    BY StepOfOne, FileFrame DEF RInv
<1>2. StreamedHolds'
    BY StepOfOne, DecodeStreamedHolds, StreamedFrame DEF RInv, vars
<1>3. AnswersWhole'
    BY StepOfOne, DecodeIndexedWhole, AnswersFrame DEF RInv, vars
<1> QED BY <1>1, <1>2, <1>3 DEF RInv

\* Whatever a file says, a population a reader delivers is complete: every live
\* gaussian has a bin in range in every column, so reconstruct_at may index
\* without looking.
THEOREM DeliveredStatesWhole == Spec => []StatesReconstructible
<1>1. RInv => StatesReconstructible
    <2> SUFFICES ASSUME RInv PROVE StatesReconstructible
        OBVIOUS
    <2>1. \A o \in DOMAIN decoded : Whole(decoded[o].state)
        BY DEF RInv, StreamedHolds, Decoding, Composing, NoChunks
    <2> QED BY <2>1 DEF RInv, AnswersWhole, StatesReconstructible, Whole
<1> QED BY InitRInv, NextRInv, <1>1, PTL DEF Spec

\* Whatever a file says, a gaussian that a delta keeps stays on its grids: the
\* three grids of a gaussian are fixed by what a delta's record references.
THEOREM DeltasFixGrids == Spec => []GridsFixedByDeltas
<1>1. RInv => GridsFixedByDeltas
    <2> SUFFICES ASSUME RInv, NEW o \in DOMAIN decoded, file[o].op = "DELTA_CHUNK",
                        NEW g \in decoded[decoded[o].reference].state.ids \cap decoded[o].state.ids,
                        NEW a \in GOP_INVARIANT
                 PROVE  decoded[o].state.bins[a][g] = decoded[decoded[o].reference].state.bins[a][g]
        BY DEF GridsFixedByDeltas
    <2>1. PICK n : Decoding(decoded, n)
        BY DEF RInv, StreamedHolds, NoChunks
    <2>2. PICK r : r = file[o]
        OBVIOUS
    <2>3. /\ o \in StatesBefore(n) /\ decoded[o] = Info(decoded, o)
          /\ \A p \in DOMAIN decoded : Whole(decoded[p].state)
        BY <2>1 DEF Decoding, Composing
    <2>4. /\ r.reference \in DOMAIN decoded /\ DeltaAccepted(decoded[r.reference].state, r)
          /\ Parsed(r.groups.update) /\ Parsed(r.groups.birth)
        BY <2>1, <2>2, <2>3 DEF Decoding, StatesBefore, Accepts, RInv, FileShaped
    <2>5. decoded[o].reference = r.reference /\ decoded[o].state = ApplyDelta(decoded[r.reference].state, r.groups).state
        BY <2>2, <2>3 DEF Info, ChunkInfo
    <2> QED BY <2>3, <2>4, <2>5, DeltaKeepsGrids
<1> QED BY InitRInv, NextRInv, <1>1, PTL DEF Spec

----------------------------------------------------------------------------
(* The indexed reader's walk ends                                          *)

LEMMA EntriesAreList == ASSUME FileShaped PROVE IsSeq(SummaryEntries)
<1>1. IsSeq(file) /\ Len(file) \in Nat /\ summary_start \in Nat
    BY DEF FileShaped, IsSeq
<1>2. CASE summary_start = 0
    BY <1>2, EmptyIsSeq DEF SummaryEntries
<1>3. CASE summary_start # 0
    <2>1. PICK tail : tail = SubSeq(file, summary_start, Len(file))
        OBVIOUS
    <2>2. IsSeq(tail)
        <3>1. CASE summary_start <= Len(file) + 1
            <4>1. summary_start \in 1 .. Len(file) + 1 /\ Len(file) \in summary_start - 1 .. Len(file)
                BY <1>1, <1>3, <3>1
            <4> QED BY <1>1, <2>1, <4>1, SliceIsSeq
        <3>2. CASE ~(summary_start <= Len(file) + 1)
            <4>1. tail = <<>>
                <5>1. PICK S : \A i \in 1 .. Len(file) : file[i] \in S
                    <6>1. \A i \in 1 .. Len(file) : file[i] \in {file[j] : j \in 1 .. Len(file)}
                        OBVIOUS
                    <6> QED BY <6>1
                <5>3. file \in Seq(S)
                    BY <1>1, <5>1, InSeq
                <5>2. summary_start > Len(file)
                    BY <1>1, <3>2
                <5> QED BY <1>1, <2>1, <5>2, <5>3
            <4> QED BY <4>1, EmptyIsSeq
        <3> QED BY <3>1, <3>2
    <2>3. PICK stop : stop = SelectInSeq(tail, LAMBDA r : r.op # "CHUNK_INDEX")
        OBVIOUS
    <2>4. SummaryEntries = IF stop = 0 THEN tail ELSE SubSeq(tail, 1, stop - 1)
        BY <1>3, <2>1, <2>3 DEF SummaryEntries
    <2>5. CASE stop = 0
        BY <2>2, <2>4, <2>5
    <2>6. CASE stop # 0
        <3>1. PICK I : I = {i \in 1 .. Len(tail) : tail[i].op # "CHUNK_INDEX"}
            OBVIOUS
        <3>2. I # {} /\ stop = Min(I)
            BY <2>3, <2>6, <3>1 DEF SelectInSeq
        <3>3. stop \in I
            <4>1. \E m \in I : \A k \in I : m <= k
                BY <2>2, <3>1, <3>2, FirstPosition DEF IsSeq
            <4> QED BY <3>2, <4>1 DEF Min
        <3>4. stop - 1 \in 0 .. Len(tail)
            BY <2>2, <3>1, <3>3 DEF IsSeq
        <3> QED BY <2>2, <2>4, <2>6, <3>4, PrefixIsSeq
    <2> QED BY <2>5, <2>6
<1> QED BY <1>2, <1>3

\* One reader after the other, the validator last.
InTurn ==
    /\ indexed # "waiting" => StreamedDone
    /\ validated # "waiting" => IndexedDone

\* Where the walk stands.
WalkStands ==
    /\ IsSeq(index)
    /\ indexed \in {"walking", "reading"} => entry \in 1 .. Len(index) + 1
    /\ (indexed = "walking" /\ chain # <<>>) \/ indexed = "reading" =>
          entry <= Len(index) /\ IsSeq(chain) /\ Len(chain) \in 1 .. Len(index)
    /\ indexed = "reading" => link \in 0 .. Len(chain)

\* What the steps of the walk do to where it stands.
Opens(n) == indexed' \in {"walking", "refused"} /\ index' = n /\ entry' = 1 /\ chain' = <<>> /\ link' = 0

LEMMA IndexedSteps ==
    ASSUME AnswersWhole, WalkStands, DecodeIndexed
    PROVE  \/ OpenIndexed
           \/ RefuseIndexed /\ indexed \in {"walking", "reading"}
           \/ /\ indexed = "walking" /\ indexed' = "walking" /\ index' = index /\ entry' = entry /\ link' = link
              /\ entry <= Len(index) /\ IsSeq(chain') /\ Len(chain') = Len(chain) + 1 /\ Len(chain) + 1 <= Len(index)
           \/ /\ indexed = "walking" /\ chain # <<>> /\ indexed' = "reading" /\ link' = 0
              /\ index' = index /\ entry' = entry /\ chain' = chain
           \/ /\ indexed = "reading" /\ indexed' = "reading" /\ link < Len(chain) /\ link' = link + 1
              /\ index' = index /\ entry' = entry /\ chain' = chain
           \/ /\ indexed = "reading" /\ link = Len(chain) /\ indexed' = "walking" /\ entry' = entry + 1
              /\ index' = index /\ chain' = <<>> /\ link' = 0
           \/ /\ indexed = "walking" /\ entry > Len(index) /\ indexed' = "ok"
              /\ index' = index /\ entry' = entry /\ chain' = chain /\ link' = link
<1>1. CASE StartChain
    <2>1. /\ indexed = "walking" /\ indexed' = indexed /\ entry <= Len(index) /\ chain = <<>> /\ chain' = <<index[entry]>>
          /\ index' = index /\ entry' = entry /\ link' = link
        BY <1>1 DEF StartChain
    <2>2. IsSeq(chain') /\ Len(chain') = 1 /\ Len(chain) = 0
        BY <2>1 DEF IsSeq
    <2>3. Len(index) \in Nat /\ entry \in 1 .. Len(index) + 1
        BY <2>1 DEF WalkStands, IsSeq
    <2> QED BY <2>1, <2>2, <2>3
<1>2. CASE WalkBack /\ ~RefuseIndexed
    <2>1. /\ indexed = "walking" /\ indexed' = indexed /\ chain # <<>> /\ CanWalkBack
          /\ chain' = <<index[EntryAt(Head(chain).reference)]>> \o chain
          /\ index' = index /\ entry' = entry /\ link' = link
        BY <1>2 DEF WalkBack, Walking
    <2>2. IsSeq(chain) /\ Len(chain) \in Nat /\ entry <= Len(index)
        BY <2>1 DEF WalkStands, IsSeq
    <2>3. PICK e : e = index[EntryAt(Head(chain).reference)]
        OBVIOUS
    <2>4. IsSeq(<<e>>) /\ Len(<<e>>) = 1
        BY DEF IsSeq
    <2>5. IsSeq(<<e>> \o chain) /\ Len(<<e>> \o chain) = 1 + Len(chain)
        BY ONLY <2>2, <2>4, ConcatIsSeq
    <2>6. Len(chain) + 1 <= Len(index)
        BY <2>1 DEF CanWalkBack
    <2> QED BY <2>1, <2>2, <2>3, <2>5, <2>6
<1>3. CASE CheckDepth /\ ~RefuseIndexed
    BY <1>3 DEF CheckDepth, Walking
<1>4. CASE ReadLink /\ ~RefuseIndexed
    BY <1>4 DEF ReadLink
<1>5. CASE AnswerEntry
    BY <1>5 DEF AnswerEntry
<1>6. CASE FinishIndexed
    BY <1>6 DEF FinishIndexed
<1>7. CASE RefuseIndexed /\ ~OpenIndexed
    <2>1. indexed \in {"walking", "reading"}
        BY <1>7 DEF DecodeIndexed, StartChain, WalkBack, CheckDepth, ReadLink, AnswerEntry, FinishIndexed, Walking
    <2> QED BY <1>7, <2>1
<1> QED BY <1>1, <1>2, <1>3, <1>4, <1>5, <1>6, <1>7 DEF DecodeIndexed

LEMMA OpenStands ==
    ASSUME FileShaped, OpenIndexed
    PROVE  WalkStands' /\ WalkLeft = 0
<1>1. /\ indexed = "waiting" /\ indexed' \in {"walking", "refused"}
      /\ index' = (IF ending = "complete" THEN SummaryEntries ELSE <<>>) /\ entry' = 1 /\ chain' = <<>>
    BY DEF OpenIndexed
<1>2. IsSeq(index')
    BY <1>1, EntriesAreList, EmptyIsSeq
<1>3. Len(index') \in Nat
    BY <1>2 DEF IsSeq
<1>4. 1 \in 1 .. Len(index') + 1
    BY <1>3
<1>5. WalkStands'
    BY <1>1, <1>2, <1>4 DEF WalkStands
<1> QED BY <1>1, <1>5 DEF WalkLeft

\* What is left, where the walk stands.
LEMMA LeftIs ==
    \A n \in Nat : n = Len(index) =>
        /\ indexed = "walking" => WalkLeft = (n + 1 - entry) * (2 * n + 5) + 2 * n + 3 - Len(chain)
        /\ indexed = "reading" => WalkLeft = (n + 1 - entry) * (2 * n + 5) + n + 1 - link
        /\ indexed \notin {"walking", "reading"} => WalkLeft = 0
BY DEF WalkLeft

LEMMA OneEntryLess ==
    ASSUME NEW n \in Nat, NEW e \in 1 .. n + 1
    PROVE  /\ (n + 1 - e) * (2 * n + 5) \in Nat
           /\ e <= n => (n + 1 - e) * (2 * n + 5) = (n + 1 - (e + 1)) * (2 * n + 5) + 2 * n + 5
<1>1. PICK k \in Int : k = 2 * n + 5 /\ k >= 0
    OBVIOUS
<1>2. PICK m \in Nat : m = n + 1 - e
    OBVIOUS
<1>3. m * k \in Nat /\ m * k = (m - 1) * k + k
    BY <1>1
<1>4. n + 1 - (e + 1) = m - 1
    BY <1>2
<1> QED BY <1>1, <1>2, <1>3, <1>4

\* A step of the walk leaves less of it, and not less than nothing.
LEMMA IndexedProgress ==
    ASSUME FileShaped, AnswersWhole, WalkStands, DecodeIndexed
    PROVE  WalkStands' /\ (WalkLeft > 0 => WalkLeft' < WalkLeft /\ WalkLeft' >= 0)
<1>1. CASE OpenIndexed
    BY <1>1, OpenStands
<1>2. CASE RefuseIndexed /\ indexed \in {"walking", "reading"}
    <2>1. indexed' = "refused" /\ index' = index
        BY <1>2 DEF RefuseIndexed
    <2>2. WalkStands' /\ WalkLeft' = 0
        BY <2>1 DEF WalkStands, WalkLeft
    <2>3. ASSUME WalkLeft > 0 PROVE WalkLeft' < WalkLeft
        BY <2>2, <2>3
    <2> QED BY <2>2, <2>3
<1> SUFFICES ASSUME ~OpenIndexed, ~(RefuseIndexed /\ indexed \in {"walking", "reading"})
             PROVE  WalkStands' /\ WalkLeft' < WalkLeft /\ WalkLeft' >= 0
    BY <1>1, <1>2
<1>3. PICK n \in Nat : n = Len(index)
    BY DEF WalkStands, IsSeq
<1>4. PICK c : c = Len(chain)
    OBVIOUS
<1>5. PICK K : K = 2 * n + 5
    OBVIOUS
<1>6. /\ indexed \in {"walking", "reading"} => entry \in 1 .. n + 1
      /\ (indexed = "walking" /\ chain # <<>>) \/ indexed = "reading" => entry <= n /\ IsSeq(chain) /\ c \in 1 .. n
      /\ indexed = "reading" => link \in 0 .. c
      /\ chain = <<>> => c = 0
    BY <1>3, <1>4 DEF WalkStands
<1>7. /\ indexed = "walking" => WalkLeft = (n + 1 - entry) * K + 2 * n + 3 - c
      /\ indexed = "reading" => WalkLeft = (n + 1 - entry) * K + n + 1 - link
    BY <1>3, <1>4, <1>5, LeftIs
<1>8. index' = index =>
        /\ indexed' = "walking" => WalkLeft' = (n + 1 - entry') * K + 2 * n + 3 - Len(chain')
        /\ indexed' = "reading" => WalkLeft' = (n + 1 - entry') * K + n + 1 - link'
        /\ indexed' \notin {"walking", "reading"} => WalkLeft' = 0
    BY <1>3, <1>5 DEF WalkLeft
<1>9. /\ IsSeq(index) /\ (index' = index => Len(index') = n)
    BY <1>3 DEF WalkStands
<1>10. indexed \in {"walking", "reading"} => (n + 1 - entry) * K \in Nat
    BY <1>5, <1>6, OneEntryLess
<1>11. CASE /\ indexed = "walking" /\ indexed' = "walking" /\ index' = index /\ entry' = entry /\ link' = link
            /\ entry <= Len(index) /\ IsSeq(chain') /\ Len(chain') = c + 1 /\ c + 1 <= Len(index)
    <2>1. c \in 0 .. n
        BY <1>6, <1>11
    <2>2. PICK m \in Nat : m = (n + 1 - entry) * K
        BY <1>10, <1>11
    <2>3. WalkLeft = m + 2 * n + 3 - c /\ WalkLeft' = m + 2 * n + 3 - (c + 1)
        BY <1>7, <1>8, <1>11, <2>2
    <2>4. WalkLeft' < WalkLeft /\ WalkLeft' >= 0
        BY ONLY <2>1, <2>2, <2>3, n \in Nat
    <2>5. WalkStands'
        BY <1>3, <1>6, <1>9, <1>11, <2>1 DEF WalkStands
    <2> QED BY <2>4, <2>5
<1>12. CASE /\ indexed = "walking" /\ chain # <<>> /\ indexed' = "reading" /\ link' = 0
            /\ index' = index /\ entry' = entry /\ chain' = chain
    <2>1. c \in 1 .. n
        BY <1>6, <1>12
    <2>2. PICK m \in Nat : m = (n + 1 - entry) * K
        BY <1>10, <1>12
    <2>3. WalkLeft = m + 2 * n + 3 - c /\ WalkLeft' = m + n + 1 - 0
        BY <1>7, <1>8, <1>12, <2>2
    <2>4. WalkLeft' < WalkLeft /\ WalkLeft' >= 0
        BY ONLY <2>1, <2>2, <2>3, n \in Nat
    <2>5. WalkStands'
        BY <1>3, <1>4, <1>6, <1>9, <1>12, <2>1 DEF WalkStands
    <2> QED BY <2>4, <2>5
<1>13. CASE /\ indexed = "reading" /\ indexed' = "reading" /\ link < Len(chain) /\ link' = link + 1
            /\ index' = index /\ entry' = entry /\ chain' = chain
    <2>1. c \in 1 .. n /\ link \in 0 .. c /\ link < c
        BY <1>4, <1>6, <1>13
    <2>2. PICK m \in Nat : m = (n + 1 - entry) * K
        BY <1>10, <1>13
    <2>3. WalkLeft = m + n + 1 - link /\ WalkLeft' = m + n + 1 - (link + 1)
        BY <1>7, <1>8, <1>13, <2>2
    <2>4. WalkLeft' < WalkLeft /\ WalkLeft' >= 0
        BY ONLY <2>1, <2>2, <2>3, n \in Nat
    <2>5. link + 1 \in 0 .. c
        BY <2>1
    <2>6. WalkStands'
        BY <1>3, <1>4, <1>6, <1>9, <1>13, <2>5 DEF WalkStands
    <2> QED BY <2>4, <2>6
<1>14. CASE /\ indexed = "reading" /\ link = Len(chain) /\ indexed' = "walking" /\ entry' = entry + 1
            /\ index' = index /\ chain' = <<>> /\ link' = 0
    <2>1. c \in 1 .. n /\ link = c /\ entry \in 1 .. n /\ Len(chain') = 0
        BY <1>4, <1>6, <1>14
    <2>2. PICK m \in Nat : m = (n + 1 - (entry + 1)) * K
        <3>1. entry + 1 \in 1 .. n + 1
            BY <2>1
        <3> QED BY <1>5, <3>1, OneEntryLess
    <2>3. (n + 1 - entry) * K = m + 2 * n + 5
        BY <1>5, <2>1, <2>2, OneEntryLess
    <2>4. WalkLeft = m + 2 * n + 5 + n + 1 - c /\ WalkLeft' = m + 2 * n + 3 - 0
        BY <1>7, <1>8, <1>14, <2>1, <2>2, <2>3
    <2>5. WalkLeft' < WalkLeft /\ WalkLeft' >= 0
        BY ONLY <2>1, <2>2, <2>4, n \in Nat
    <2>6. entry + 1 \in 1 .. n + 1
        BY <2>1
    <2>7. WalkStands'
        BY <1>3, <1>9, <1>14, <2>6 DEF WalkStands
    <2> QED BY <2>5, <2>7
<1>15. CASE /\ indexed = "walking" /\ entry > Len(index) /\ indexed' = "ok"
            /\ index' = index /\ entry' = entry /\ chain' = chain /\ link' = link
    <2>1. chain = <<>> /\ c = 0
        BY <1>3, <1>6, <1>15
    <2>2. PICK m \in Nat : m = (n + 1 - entry) * K
        BY <1>10, <1>15
    <2>3. WalkLeft = m + 2 * n + 3 - 0 /\ WalkLeft' = 0
        BY <1>7, <1>8, <1>15, <2>1, <2>2
    <2>4. WalkLeft' < WalkLeft /\ WalkLeft' >= 0
        BY ONLY <2>2, <2>3, n \in Nat
    <2>5. WalkStands'
        BY <1>9, <1>15 DEF WalkStands
    <2> QED BY <2>4, <2>5
<1> QED BY <1>4, <1>11, <1>12, <1>13, <1>14, <1>15, IndexedSteps

EInv == RInv /\ InTurn /\ WalkStands

LEMMA InitEInv == Init => EInv
<1> SUFFICES ASSUME Init PROVE EInv
    OBVIOUS
<1>1. RInv
    BY InitRInv
<1>2. indexed = "waiting" /\ validated = "waiting" /\ index = <<>>
    BY DEF Init, ReadersWaiting, ValidatorWaiting
<1> QED BY <1>1, <1>2, EmptyIsSeq DEF EInv, InTurn, WalkStands

LEMMA TurnsKept ==
    ASSUME RInv, InTurn, [Next]_vars
    PROVE  InTurn'
<1>1. CASE DecodeStreamed /\ UNCHANGED <<indexedVars, validatorVars>>
    <2>1. streamed \in {"waiting", "reading"}
        BY <1>1 DEF DecodeStreamed, OpenStreamed, ReadChunk, ReadDeltaChunk, ReadChunkIndex, ReadOther,
                    ReadingRecord, RefuseRecord, EndOfRecords
    <2>2. indexed' = indexed /\ validated' = validated
        BY <1>1 DEF indexedVars, validatorVars
    <2> QED BY <2>1, <2>2 DEF InTurn, StreamedDone, IndexedDone
<1>2. CASE DecodeIndexed /\ UNCHANGED <<streamedVars, validatorVars>>
    <2>1. indexed \in {"waiting", "walking", "reading"} /\ (indexed = "waiting" => StreamedDone)
        BY <1>2 DEF DecodeIndexed, OpenIndexed, StartChain, WalkBack, Walking, CheckDepth, ReadLink,
                    AnswerEntry, FinishIndexed
    <2>2. streamed' = streamed /\ validated' = validated
        BY <1>2 DEF streamedVars, validatorVars
    <2> QED BY <2>1, <2>2 DEF InTurn, StreamedDone, IndexedDone
<1>3. CASE Validate /\ UNCHANGED <<streamedVars, indexedVars>>
    <2>1. validated = "waiting" => IndexedDone
        BY <1>3 DEF Validate, StartIndexed, StartStreamed, VisitEntry, VisitRecord, FinishWalk, CountIdentities
    <2>2. streamed' = streamed /\ indexed' = indexed
        BY <1>3 DEF streamedVars, indexedVars
    <2> QED BY <2>1, <2>2 DEF InTurn, StreamedDone, IndexedDone
<1>4. CASE UNCHANGED vars
    BY <1>4 DEF vars, streamedVars, indexedVars, validatorVars, InTurn, StreamedDone, IndexedDone
<1> QED BY <1>1, <1>2, <1>3, <1>4, StepOfOne

\* Only the indexed reader moves while it walks.
LEMMA WalkProgress ==
    ASSUME EInv, [Next]_vars
    PROVE  /\ WalkStands'
           /\ ~UNCHANGED vars /\ WalkLeft > 0 => WalkLeft' < WalkLeft /\ WalkLeft' >= 0
<1>1. CASE DecodeIndexed
    BY <1>1, IndexedProgress DEF EInv, RInv
<1>2. CASE ~DecodeIndexed /\ UNCHANGED indexedVars
    <2>1. /\ indexed' = indexed /\ index' = index /\ entry' = entry /\ chain' = chain /\ link' = link
        BY <1>2 DEF indexedVars
    <2>2. WalkStands'
        BY <2>1 DEF EInv, WalkStands
    <2>3. ASSUME ~UNCHANGED vars, WalkLeft > 0 PROVE FALSE
        <3>1. indexed \in {"walking", "reading"}
            BY <2>3 DEF WalkLeft
        <3>2. ~DecodeStreamed
            <4>1. StreamedDone
                BY <3>1 DEF EInv, InTurn
            <4> QED BY <4>1 DEF StreamedDone, DecodeStreamed, OpenStreamed, ReadChunk, ReadDeltaChunk,
                            ReadChunkIndex, ReadOther, ReadingRecord, RefuseRecord, EndOfRecords
        <3>3. ~Validate
            <4>1. validated = "waiting" /\ ~IndexedDone
                BY <3>1 DEF EInv, InTurn, IndexedDone
            <4> QED BY <4>1 DEF Validate, StartIndexed, StartStreamed, VisitEntry, VisitRecord, FinishWalk,
                            CountIdentities
        <3> QED BY <1>2, <2>3, <3>2, <3>3, StepOfOne
    <2> QED BY <2>2, <2>3
<1> QED BY <1>1, <1>2, StepOfOne DEF vars

LEMMA NextEInv == EInv /\ [Next]_vars => EInv'
BY NextRInv, TurnsKept, WalkProgress DEF EInv

\* However an index misstates offsets, references and depths: every step of
\* decode_indexed brings its end nearer, so no file keeps it walking.
THEOREM NoFileKeepsWalking == Spec => WalkEnds
<1>1. EInv /\ [Next]_vars => [WalkLeft > 0 => (WalkLeft' < WalkLeft /\ WalkLeft' >= 0)]_vars
    BY WalkProgress
<1> QED BY InitEInv, NextEInv, <1>1, PTL DEF Spec, WalkEnds
----------------------------------------------------------------------------
(* The entries in file order                                               *)

\* Entries of different offsets, sorted: each of them once, by offset.
LEMMA FileOrdered ==
    ASSUME NEW s, IsSeq(s), \A i \in DOMAIN s : s[i].offset \in Int,
           \A i, j \in DOMAIN s : s[i].offset = s[j].offset => i = j
    PROVE  /\ DOMAIN InFileOrder(s) = 1 .. Len(s)
           /\ \A k \in 1 .. Len(s) : \E i \in DOMAIN s : InFileOrder(s)[k] = s[i]
           /\ \A i \in DOMAIN s : \E k \in 1 .. Len(s) : InFileOrder(s)[k] = s[i]
           /\ \A j, k \in 1 .. Len(s) : j < k => InFileOrder(s)[j].offset < InFileOrder(s)[k].offset
<1> PICK n \in Nat : n = Len(s)
    BY DEF IsSeq
<1>1. DOMAIN s = 1 .. n
    BY DEF IsSeq
<1> DEFINE Before(i) == {j \in DOMAIN s : s[j].offset < s[i].offset}
           Rank(i)   == Cardinality(Before(i)) + 1
<1>2. IsFiniteSet(1 .. n) /\ Cardinality(1 .. n) = n
    <2>1. IsFiniteSet(1 .. n) /\ Cardinality(1 .. n) = IF 1 > n THEN 0 ELSE n - 1 + 1
        <3>1. 1 \in Int /\ n \in Int
            OBVIOUS
        <3> QED BY ONLY <3>1, FS_Interval
    <2> QED BY <2>1
<1>3. ASSUME NEW i \in 1 .. n
      PROVE  IsFiniteSet(Before(i)) /\ Cardinality(Before(i)) \in 0 .. n - 1
    <2>1. IsFiniteSet((1 .. n) \ {i}) /\ Cardinality((1 .. n) \ {i}) = n - 1
        BY <1>2, FS_RemoveElement
    <2>2. Before(i) \subseteq (1 .. n) \ {i}
        BY <1>1
    <2>3. /\ IsFiniteSet(Before(i)) /\ Cardinality(Before(i)) <= n - 1
        BY <2>1, <2>2, FS_Subset
    <2> QED BY <2>3, FS_CardinalityType
<1>4. ASSUME NEW i \in 1 .. n, NEW j \in 1 .. n, s[i].offset < s[j].offset
      PROVE  Rank(i) < Rank(j)
    <2>1. Before(i) \subseteq Before(j) /\ i \in Before(j) /\ i \notin Before(i)
        BY <1>1, <1>4
    <2>2. Cardinality(Before(i)) <= Cardinality(Before(j)) /\ Cardinality(Before(i)) # Cardinality(Before(j))
        BY <1>3, <2>1, FS_Subset
    <2>3. Cardinality(Before(i)) \in 0 .. n - 1 /\ Cardinality(Before(j)) \in 0 .. n - 1
        BY <1>3
    <2> HIDE DEF Before
    <2> QED BY <2>2, <2>3
<1>5. PICK r : r = [i \in 1 .. n |-> Rank(i)]
    OBVIOUS
<1>6. r \in [1 .. n -> 1 .. n] /\ \A i \in 1 .. n : r[i] = Cardinality(Before(i)) + 1
    <2>1. \A i \in 1 .. n : r[i] = Cardinality(Before(i)) + 1
        BY <1>5
    <2>3. \A i \in 1 .. n : Cardinality(Before(i)) \in 0 .. n - 1
        BY <1>3
    <2> HIDE DEF Before
    <2>2. \A i \in 1 .. n : r[i] \in 1 .. n
        BY <2>1, <2>3
    <2> HIDE DEF Rank
    <2> QED BY <1>5, <2>1, <2>2
<1>7. \A i, j \in 1 .. n : s[i].offset < s[j].offset => r[i] < r[j]
    BY <1>4, <1>6
<1>8. \A i, j \in 1 .. n : r[i] = r[j] => i = j
    <2> SUFFICES ASSUME NEW i \in 1 .. n, NEW j \in 1 .. n, r[i] = r[j], i # j PROVE FALSE
        OBVIOUS
    <2>1. s[i].offset < s[j].offset \/ s[j].offset < s[i].offset
        BY <1>1
    <2>2. r[i] \in Int /\ r[j] \in Int
        BY <1>6
    <2> QED BY <1>7, <2>1, <2>2
<1>9. \A k \in 1 .. n : \E i \in 1 .. n : r[i] = k
    <2>1. r \in Injection(1 .. n, 1 .. n)
        BY <1>6, <1>8 DEF Injection, IsInjective
    <2>2. r \in Surjection(1 .. n, 1 .. n)
        BY <1>2, <2>1, FS_Injection
    <2> QED BY <2>2 DEF Surjection
<1>10. PICK p : p = [k \in 1 .. n |-> CHOOSE i \in DOMAIN s : Cardinality(Before(i)) = k - 1]
    OBVIOUS
<1>11. \A k \in 1 .. n : p[k] \in 1 .. n /\ r[p[k]] = k
    <2> SUFFICES ASSUME NEW k \in 1 .. n PROVE p[k] \in 1 .. n /\ r[p[k]] = k
        OBVIOUS
    <2>1. PICK i \in 1 .. n : r[i] = k
        BY <1>9
    <2>6. Cardinality(Before(i)) \in 0 .. n - 1
        BY <1>3
    <2>7. r[i] = Cardinality(Before(i)) + 1
        BY <1>6
    <2>5. Cardinality(Before(i)) \in Int /\ k = Cardinality(Before(i)) + 1
        BY <2>1, <2>6, <2>7
    <2>2. Cardinality(Before(i)) = k - 1
        BY <2>5
    <2>3. p[k] \in DOMAIN s /\ Cardinality(Before(p[k])) = k - 1
        BY <1>1, <1>10, <2>2
    <2>4. r[p[k]] = Cardinality(Before(p[k])) + 1
        BY <1>1, <1>6, <2>3
    <2> HIDE DEF Before, Rank
    <2> QED BY <1>1, <2>3, <2>4
<1>12. InFileOrder(s) = [k \in 1 .. n |-> s[p[k]]]
    BY <1>1, <1>10 DEF InFileOrder
<1> HIDE DEF Before, Rank
<1>13. \A i \in 1 .. n : \E k \in 1 .. n : p[k] = i
    <2> SUFFICES ASSUME NEW i \in 1 .. n PROVE p[r[i]] = i /\ r[i] \in 1 .. n
        OBVIOUS
    <2>1. r[i] \in 1 .. n
        BY <1>6
    <2> QED BY <1>8, <1>11, <2>1
<1>14. ASSUME NEW j \in 1 .. n, NEW k \in 1 .. n, j < k
       PROVE  s[p[j]].offset < s[p[k]].offset
    <2>1. p[j] \in 1 .. n /\ p[k] \in 1 .. n /\ r[p[j]] = j /\ r[p[k]] = k
        BY <1>11
    <2>2. p[j] # p[k] /\ ~(s[p[k]].offset < s[p[j]].offset)
        <3>1. j # k /\ ~(k < j)
            BY <1>14
        <3> QED BY <1>7, <2>1, <3>1
    <2>3. s[p[j]].offset \in Int /\ s[p[k]].offset \in Int /\ s[p[j]].offset # s[p[k]].offset
        BY <1>1, <2>1, <2>2
    <2> QED BY <2>2, <2>3
<1>15. PICK t : t = InFileOrder(s)
    OBVIOUS
<1>16. DOMAIN t = 1 .. n /\ \A k \in 1 .. n : t[k] = s[p[k]]
    BY <1>12, <1>15
<1>17. /\ \A k \in 1 .. n : \E i \in 1 .. n : t[k] = s[i]
       /\ \A i \in 1 .. n : \E k \in 1 .. n : t[k] = s[i]
       /\ \A j, k \in 1 .. n : j < k => t[j].offset < t[k].offset
    <2>1. \A k \in 1 .. n : p[k] \in 1 .. n
        BY <1>11
    <2>2. \A k \in 1 .. n : \E i \in 1 .. n : t[k] = s[i]
        BY ONLY <1>16, <2>1
    <2>3. \A i \in 1 .. n : \E k \in 1 .. n : t[k] = s[i]
        <3> SUFFICES ASSUME NEW i \in 1 .. n PROVE \E k \in 1 .. n : t[k] = s[i]
            OBVIOUS
        <3>1. PICK k \in 1 .. n : p[k] = i
            BY <1>13
        <3>2. t[k] = s[i]
            BY <1>16, <3>1
        <3> QED BY <3>2
    <2>4. \A j, k \in 1 .. n : j < k => t[j].offset < t[k].offset
        BY <1>14, <1>16
    <2> QED BY <2>2, <2>3, <2>4
<1>18. DOMAIN s = 1 .. Len(s) /\ n = Len(s)
    BY DEF IsSeq
<1>19. /\ DOMAIN t = 1 .. Len(s)
       /\ \A k \in 1 .. Len(s) : \E i \in DOMAIN s : t[k] = s[i]
       /\ \A i \in DOMAIN s : \E k \in 1 .. Len(s) : t[k] = s[i]
       /\ \A j, k \in 1 .. Len(s) : j < k => t[j].offset < t[k].offset
    <2>1. PICK R : R = 1 .. n
        OBVIOUS
    <2>2. 1 .. Len(s) = R /\ DOMAIN s = R /\ DOMAIN t = R
        BY <1>16, <1>18, <2>1
    <2>3. \A k \in R : \E i \in R : t[k] = s[i]
        BY <1>17, <2>1
    <2>4. \A i \in R : \E k \in R : t[k] = s[i]
        BY <1>17, <2>1
    <2>5. \A j, k \in R : j < k => t[j].offset < t[k].offset
        BY <1>17, <2>1
    <2> QED BY ONLY <2>2, <2>3, <2>4, <2>5
<1> QED BY <1>15, <1>19

----------------------------------------------------------------------------
(* The states the validator holds                                          *)

\* The states of d in which g is live and was not in the one before.
Births(d, g) ==
    {o \in DOMAIN d :
        /\ g \in d[o].state.ids
        /\ \A p \in DOMAIN d :
               p < o /\ (\A q \in DOMAIN d : q <= p \/ q >= o) => g \notin d[p].state.ids}

Place(x) == x = [offset |-> x.offset, depth |-> x.depth, level |-> x.level, state |-> x.state]

\* Where the validator stands among the states it has accepted, d: at the last
\* one, with the keyframe of its group, having counted every birth.
Held(d) ==
    /\ DOMAIN d \subseteq Nat \ {0} /\ current.offset \in Nat
    /\ \A o \in DOMAIN d : o <= current.offset
    /\ Place(current) /\ Place(keyframe)
    /\ current.offset = 0 <=> keyframe.offset = 0
    /\ current.offset = 0 => current.state = EmptyPopulation
    /\ current.offset # 0 =>
          /\ current.offset \in DOMAIN d /\ current.state = d[current.offset].state
          /\ current.depth = d[current.offset].depth
          /\ keyframe.offset \in DOMAIN d /\ keyframe.state = d[keyframe.offset].state
          /\ d[keyframe.offset].depth = 0
    /\ introduced = [g \in Id |-> Cardinality(Births(d, g))]

ComesAfter(d, n) == DOMAIN d \subseteq Int /\ n \in Int /\ \A p \in DOMAIN d : p < n

\* The ids of the last state of d.
LiveAtEnd(d, live) ==
    \/ DOMAIN d = {} /\ live = {}
    \/ \E last \in DOMAIN d : (\A p \in DOMAIN d : p <= last) /\ live = d[last].state.ids

\* One state more: the births in it are those the validator counts.
LEMMA BirthsGrow ==
    ASSUME NEW d, NEW n, ComesAfter(d, n), NEW info, NEW e, e = Extended(d, n, info), NEW live, LiveAtEnd(d, live), NEW g
    PROVE  Births(e, g) = Births(d, g) \cup (IF g \in info.state.ids \ live THEN {n} ELSE {})
<1>1. /\ DOMAIN e = DOMAIN d \cup {n} /\ n \notin DOMAIN d
      /\ e[n] = info /\ \A p \in DOMAIN d : e[p] = d[p]
    BY DEF Extended, ComesAfter
<1>0. DOMAIN d \subseteq Int /\ n \in Int /\ \A p \in DOMAIN d : p < n
    BY DEF ComesAfter
<1>2. ASSUME NEW o \in DOMAIN d
      PROVE  o \in Births(e, g) <=> o \in Births(d, g)
    <2>1. \A p \in DOMAIN d : p < o => ((\A q \in DOMAIN e : q <= p \/ q >= o) <=> (\A q \in DOMAIN d : q <= p \/ q >= o))
        BY <1>0, <1>1
    <2>2. ~(n < o) /\ o \in DOMAIN e
        BY <1>0, <1>1
    <2>3. (\A p \in DOMAIN e : p < o /\ (\A q \in DOMAIN e : q <= p \/ q >= o) => g \notin e[p].state.ids)
            <=> (\A p \in DOMAIN d : p < o /\ (\A q \in DOMAIN d : q <= p \/ q >= o) => g \notin d[p].state.ids)
        BY <1>1, <2>1, <2>2
    <2> QED BY <1>1, <2>2, <2>3 DEF Births
<1>3. n \in Births(e, g) <=> g \in info.state.ids \ live
    <2>1. n \in Births(e, g) <=>
            /\ g \in info.state.ids
            /\ \A p \in DOMAIN d : (\A q \in DOMAIN d : q <= p) => g \notin d[p].state.ids
        <3>1. n \in DOMAIN e /\ ~(n < n)
            BY <1>0, <1>1
        <3>2. \A p \in DOMAIN d : (\A q \in DOMAIN e : q <= p \/ q >= n) <=> (\A q \in DOMAIN d : q <= p)
            BY <1>0, <1>1
        <3>3. (\A p \in DOMAIN e : p < n /\ (\A q \in DOMAIN e : q <= p \/ q >= n) => g \notin e[p].state.ids)
                <=> (\A p \in DOMAIN d : (\A q \in DOMAIN d : q <= p) => g \notin d[p].state.ids)
            BY <1>0, <1>1, <3>1, <3>2
        <3> QED BY <1>1, <3>1, <3>3 DEF Births
    <2>2. CASE DOMAIN d = {} /\ live = {}
        BY <2>1, <2>2
    <2>3. CASE \E last \in DOMAIN d : (\A p \in DOMAIN d : p <= last) /\ live = d[last].state.ids
        <3>1. PICK last \in DOMAIN d : (\A p \in DOMAIN d : p <= last) /\ live = d[last].state.ids
            BY <2>3
        <3>2. \A p \in DOMAIN d : (\A q \in DOMAIN d : q <= p) <=> p = last
            BY <1>0, <3>1
        <3> QED BY <2>1, <3>1, <3>2
    <2> QED BY <2>2, <2>3 DEF LiveAtEnd
<1>4. Births(e, g) \subseteq DOMAIN d \cup {n} /\ Births(d, g) \subseteq DOMAIN d
    BY <1>1 DEF Births
<1> QED BY <1>1, <1>2, <1>3, <1>4

\* What happens to Held when state record o is accepted and becomes the last.
Moves(o, info) ==
    /\ Place(current') /\ current'.offset = o /\ current'.depth = info.depth /\ current'.state = info.state
    /\ \/ keyframe' = current' /\ info.depth = 0
       \/ keyframe' = keyframe /\ current.offset # 0
    /\ introduced' = [g \in Id |-> introduced[g] + IF g \in info.state.ids \ current.state.ids THEN 1 ELSE 0]

LEMMA HeldMoves ==
    ASSUME NEW d, Held(d), NEW o \in Nat, current.offset < o, NEW info, Moves(o, info),
           NEW e, e = Extended(d, o, info), IsFiniteSet(DOMAIN d)
    PROVE  Held(e)'
<1>1. /\ DOMAIN d \subseteq Nat \ {0} /\ current.offset \in Nat /\ o # 0
      /\ \A p \in DOMAIN d : p <= current.offset
    BY DEF Held
<1>2. /\ DOMAIN e = DOMAIN d \cup {o} /\ o \notin DOMAIN d
      /\ e[o] = info /\ \A p \in DOMAIN d : e[p] = d[p]
    BY <1>1 DEF Extended
<1>3. DOMAIN e \subseteq Nat \ {0} /\ current'.offset = o /\ \A p \in DOMAIN e : p <= o
    BY <1>1, <1>2 DEF Moves
<1>4. current'.state = e[o].state /\ current'.depth = e[o].depth /\ o \in DOMAIN e
    BY <1>2 DEF Moves
<1>5. keyframe'.offset \in DOMAIN e /\ keyframe'.state = e[keyframe'.offset].state /\ e[keyframe'.offset].depth = 0
    <2>1. CASE keyframe' = current' /\ info.depth = 0
        BY <1>2, <1>3, <1>4, <2>1
    <2>2. CASE keyframe' = keyframe /\ current.offset # 0
        <3>1. keyframe.offset \in DOMAIN d /\ keyframe.state = d[keyframe.offset].state /\ d[keyframe.offset].depth = 0
            BY <2>2 DEF Held
        <3> QED BY <1>2, <2>2, <3>1
    <2> QED BY <2>1, <2>2 DEF Moves
<1>6. keyframe'.offset # 0
    BY <1>3, <1>5
<1>7. introduced' = [g \in Id |-> Cardinality(Births(e, g))]
    <2>1. ASSUME NEW g \in Id PROVE introduced'[g] = Cardinality(Births(e, g))
        <3>1. \/ DOMAIN d = {} /\ current.state.ids = {}
              \/ \E last \in DOMAIN d : (\A p \in DOMAIN d : p <= last) /\ current.state.ids = d[last].state.ids
            <4>1. CASE current.offset = 0
                <5>1. current.state.ids = {}
                    BY <4>1 DEF Held, EmptyPopulation
                <5>2. DOMAIN d = {}
                    <6>1. \A p \in DOMAIN d : p \in Nat /\ p # 0 /\ p <= 0
                        BY <1>1, <4>1
                    <6>2. \A p \in Nat : p <= 0 => p = 0
                        OBVIOUS
                    <6> QED BY <6>1, <6>2
                <5> QED BY <5>1, <5>2
            <4>2. CASE current.offset # 0
                <5>1. current.offset \in DOMAIN d /\ current.state = d[current.offset].state
                    BY <4>2 DEF Held
                <5> QED BY <1>1, <5>1
            <4> QED BY <4>1, <4>2
        <3>2. DOMAIN d \subseteq Int /\ \A p \in DOMAIN d : p < o
            BY <1>1
        <3>3. Births(e, g) = Births(d, g) \cup (IF g \in info.state.ids \ current.state.ids THEN {o} ELSE {})
            <4>1. PICK live : live = current.state.ids
                OBVIOUS
            <4>2. LiveAtEnd(d, live)
                BY <3>1, <4>1 DEF LiveAtEnd
            <4>3. ComesAfter(d, o) /\ e = Extended(d, o, info)
                BY <3>2 DEF ComesAfter
            <4>4. Births(e, g) = Births(d, g) \cup (IF g \in info.state.ids \ live THEN {o} ELSE {})
                BY ONLY <4>2, <4>3, BirthsGrow
            <4> QED BY <4>1, <4>4
        <3>4. IsFiniteSet(Births(d, g)) /\ o \notin Births(d, g)
            <4>1. Births(d, g) \subseteq DOMAIN d
                BY DEF Births
            <4> QED BY <1>2, <4>1, FS_Subset
        <3>5. Cardinality(Births(d, g)) \in Nat /\ Cardinality(Births(d, g) \cup {o}) = Cardinality(Births(d, g)) + 1
            BY <3>4, FS_AddElement, FS_CardinalityType
        <3>6. introduced[g] = Cardinality(Births(d, g))
            BY DEF Held
        <3>7. introduced'[g] = introduced[g] + IF g \in info.state.ids \ current.state.ids THEN 1 ELSE 0
            BY DEF Moves
        <3>8. CASE g \in info.state.ids \ current.state.ids
            BY <3>3, <3>5, <3>6, <3>7, <3>8
        <3>9. CASE g \notin info.state.ids \ current.state.ids
            <4>1. Births(e, g) = Births(d, g)
                BY <3>3, <3>9
            <4> QED BY <3>5, <3>6, <3>7, <3>9, <4>1
        <3> QED BY <3>8, <3>9
    <2>2. introduced' = [g \in Id |-> introduced'[g]]
        BY DEF Moves
    <2> QED BY <2>1, <2>2
<1>8. Place(current') /\ Place(keyframe')
    BY DEF Moves, Held
<1> QED BY <1>1, <1>3, <1>4, <1>5, <1>6, <1>7, <1>8 DEF Held, Place

\* A keyframe the validator takes is one the readers take, and it counts as they do.
LEMMA KeyframeTaken ==
    ASSUME FileShaped, NEW d, NEW o \in DOMAIN file, file[o].op = "CHUNK", KeyframeValid(file[o])
    PROVE  /\ Accepts(d, o)
           /\ Info(d, o).state = KeyframeResult(file[o]) /\ Info(d, o).depth = 0
           /\ Info(d, o).reference = 0
           /\ Info(d, o).ops = Cardinality(file[o].group.ids)
           /\ Info(d, o).t0 = file[o].t0 /\ Info(d, o).t1 = file[o].t1
           /\ StepKeyframe(o, file[o]) => Moves(o, Info(d, o))
<1> PICK r : r = file[o]
    OBVIOUS
<1> PICK info : info = Info(d, o)
    OBVIOUS
<1>1. KeyframeAccepted(r) /\ Selectable(r.t0, r.t1, KeyframeResult(r))
    BY DEF KeyframeValid
<1>2. Accepts(d, o)
    BY <1>1 DEF Accepts, KeyframeResult
<1>3. KeyframeResult(r).ids = r.group.ids
    <2>1. KeyframeState(r.group).code = "ok"
        BY <1>1 DEF KeyframeAccepted
    <2> QED BY <2>1 DEF KeyframeState, KeyframeResult, Refuse, Ok
<1>4. /\ info.state = KeyframeResult(r) /\ info.depth = 0 /\ info.reference = 0
      /\ info.ops = Cardinality(r.group.ids) /\ info.t0 = r.t0 /\ info.t1 = r.t1
    BY <1>3 DEF Info, ChunkInfo, KeyframeResult
<1>5. ASSUME StepKeyframe(o, r) PROVE Moves(o, info)
    <2>1. PICK here : here = [offset |-> o, depth |-> 0, level |-> r.level, state |-> KeyframeResult(r)]
        OBVIOUS
    <2>2. current' = here /\ keyframe' = here /\ Introduce(KeyframeResult(r))
        BY <1>5, <2>1 DEF StepKeyframe
    <2>3. Place(here) /\ here.offset = o /\ here.depth = 0 /\ here.state = KeyframeResult(r)
        BY <2>1 DEF Place
    <2> QED BY <1>4, <2>2, <2>3 DEF Moves, Introduce
<1> QED BY <1>2, <1>4, <1>5

\* So is a delta, when what declares it, x, names the reference and depth its record does.
LEMMA DeltaTaken ==
    ASSUME FileShaped, NEW d, Held(d), NEW o \in DOMAIN file, file[o].op = "DELTA_CHUNK",
           NEW x, DeltaValid(o, x, file[o]), x.reference = file[o].reference, x.depth = file[o].depth
    PROVE  /\ Accepts(d, o)
           /\ Info(d, o).state = DeltaResult(x, file[o]) /\ Info(d, o).depth = x.depth
           /\ Info(d, o).reference = x.reference
           /\ Info(d, o).ops = Operations(file[o].groups)
           /\ Info(d, o).t0 = file[o].t0 /\ Info(d, o).t1 = file[o].t1
           /\ StepDelta(o, x, file[o]) => Moves(o, Info(d, o))
           /\ current.offset # 0 /\ x.reference \in {current.offset, keyframe.offset}
           /\ x.reference < o /\ x.depth = d[x.reference].depth + 1
<1> PICK r : r = file[o]
    OBVIOUS
<1> PICK info : info = Info(d, o)
    OBVIOUS
<1> PICK ref : ref = ReferenceFor(x.mode)
    OBVIOUS
<1>1. /\ DeltaInOrder(o, x) /\ DeltaAccepted(ref.state, r)
      /\ Selectable(r.t0, r.t1, DeltaResult(x, r))
    BY DEF DeltaValid
<1>2. /\ current.offset # 0 /\ x.reference < o /\ x.reference = ref.offset /\ x.depth = ref.depth + 1
    BY <1>1 DEF DeltaInOrder
<1>3. /\ current.offset \in DOMAIN d /\ current.state = d[current.offset].state
      /\ current.depth = d[current.offset].depth
      /\ keyframe.offset \in DOMAIN d /\ keyframe.state = d[keyframe.offset].state
      /\ d[keyframe.offset].depth = 0 /\ Place(keyframe)
    BY <1>2 DEF Held
<1>4. /\ ref.offset \in {current.offset, keyframe.offset} /\ ref.offset \in DOMAIN d
      /\ ref.state = d[ref.offset].state /\ ref.depth = d[ref.offset].depth
    <2>1. CASE x.mode = DELTA_MODE_KEYFRAME
        <3>1. ref = [keyframe EXCEPT !.depth = 0]
            BY <2>1 DEF ReferenceFor
        <3>2. ref.offset = keyframe.offset /\ ref.depth = 0 /\ ref.state = keyframe.state
            BY <1>3, <3>1 DEF Place
        <3> QED BY <1>3, <3>2
    <2>2. CASE x.mode # DELTA_MODE_KEYFRAME
        <3>1. ref = current
            BY <2>2 DEF ReferenceFor
        <3> QED BY <1>3, <3>1
    <2> QED BY <2>1, <2>2
<1>5. DeltaResult(x, r) = ApplyDelta(d[r.reference].state, r.groups).state
    BY <1>2, <1>4 DEF DeltaResult
<1>6. Accepts(d, o)
    BY <1>1, <1>2, <1>4, <1>5 DEF Accepts
<1>7. /\ info.state = DeltaResult(x, r) /\ info.depth = x.depth /\ info.reference = x.reference
      /\ info.ops = Operations(r.groups) /\ info.t0 = r.t0 /\ info.t1 = r.t1
    BY <1>5 DEF Info, ChunkInfo
<1>8. ASSUME StepDelta(o, x, r) PROVE Moves(o, info)
    <2>1. PICK here : here = [offset |-> o, depth |-> x.depth, level |-> r.level, state |-> DeltaResult(x, r)]
        OBVIOUS
    <2>2. current' = here /\ keyframe' = keyframe /\ Introduce(DeltaResult(x, r))
        BY <1>8, <2>1 DEF StepDelta
    <2>3. Place(here) /\ here.offset = o /\ here.depth = x.depth /\ here.state = DeltaResult(x, r)
        BY <2>1 DEF Place
    <2> QED BY <1>2, <1>7, <2>2, <2>3 DEF Moves, Introduce
<1> QED BY <1>2, <1>4, <1>6, <1>7, <1>8

----------------------------------------------------------------------------
(* The invariant of the validator                                          *)

Remembers(d) ==
    /\ DOMAIN remembered = DOMAIN d
    /\ \A o \in DOMAIN d : /\ remembered[o].count = d[o].ops
                           /\ remembered[o].live = Cardinality(d[o].state.ids)

StreamedWalk(d) == visit \in 1 .. Len(file) + 1 /\ Decoding(d, visit) /\ Remembers(d)

\* Entry e says of its record what d, which the record composed to, says.
Faithful(d, e) ==
    /\ e.offset \in DOMAIN d
    /\ file[e.offset].op = IF e.kind = KEYFRAME_KIND THEN "CHUNK" ELSE "DELTA_CHUNK"
    /\ e.t0 = d[e.offset].t0 /\ e.t1 = d[e.offset].t1
    /\ e.count = d[e.offset].ops /\ e.live = Cardinality(d[e.offset].state.ids)
    /\ e.reference = d[e.offset].reference /\ e.depth = d[e.offset].depth
    /\ e.kind = KEYFRAME_KIND => e.depth = 0
    /\ e.kind # KEYFRAME_KIND =>
          e.reference < e.offset /\ e.reference \in DOMAIN d /\ e.depth = d[e.reference].depth + 1

\* The entries before visit, in file order, are faithful; none declares a chain
\* longer than what is before it.
IndexedWalk(d) ==
    LET order == InFileOrder(SummaryEntries)
    IN  /\ ending = "complete" /\ TilesTimeline(SummaryEntries) /\ OwnsEveryState(SummaryEntries)
        /\ visit \in 1 .. Len(SummaryEntries) + 1
        /\ current.offset = IF visit = 1 THEN 0 ELSE order[visit - 1].offset
        /\ Composing(d, current.offset + 1)
        /\ \A k \in 1 .. visit - 1 : Faithful(d, order[k]) /\ order[k].depth \in 0 .. k - 1

Walked(d) ==
    /\ Held(d)
    /\ mode = "streamed" => StreamedWalk(d)
    /\ mode = "indexed"  => IndexedWalk(d)

IdentitiesCount ==
    /\ \A g \in Id : introduced[g] <= 1
    /\ Cardinality({g \in Id : introduced[g] > 0}) = header.gaussian_count

VInv ==
    /\ validated \in {"waiting", "walking", "counting", "valid", "invalid"}
    /\ validated = "waiting" => ValidatorWaiting
    /\ validated \in {"walking", "counting", "valid"} =>
          mode \in {"streamed", "indexed"} /\ ~LateFrontMatter /\ \E d : Walked(d)
    /\ validated \in {"counting", "valid"} => WalkedToEnd /\ Complete
    /\ validated = "valid" => IdentitiesCount

LEMMA EntriesFrame ==
    ASSUME UNCHANGED fileVars
    PROVE  /\ SummaryEntries' = SummaryEntries
           /\ TilesTimeline(SummaryEntries)' = TilesTimeline(SummaryEntries)
           /\ OwnsEveryState(SummaryEntries)' = OwnsEveryState(SummaryEntries)
           /\ \A d, e : Faithful(d, e)' = Faithful(d, e)
<1>1. /\ file' = file /\ header' = header /\ summary_start' = summary_start
    BY DEF fileVars
<1>2. SummaryEntries' = SummaryEntries
    BY <1>1 DEF SummaryEntries, SelectInSeq
<1>3. TilesTimeline(SummaryEntries)' = TilesTimeline(SummaryEntries)
    BY <1>1, <1>2 DEF TilesTimeline
<1>4. OwnsEveryState(SummaryEntries)' = OwnsEveryState(SummaryEntries)
    BY <1>1, <1>2 DEF OwnsEveryState, StateOffsets
<1>5. \A d, e : Faithful(d, e)' = Faithful(d, e)
    BY <1>1 DEF Faithful
<1> QED BY <1>2, <1>3, <1>4, <1>5

LEMMA WalkFrame ==
    ASSUME UNCHANGED <<fileVars, mode, walkVars>>
    PROVE  /\ \A d : Walked(d) => Walked(d)'
           /\ LateFrontMatter' = LateFrontMatter
           /\ WalkedToEnd => WalkedToEnd'
           /\ Complete => Complete'
           /\ IdentitiesCount => IdentitiesCount'
<1>1. /\ UNCHANGED fileVars /\ file' = file /\ header' = header /\ ending' = ending
      /\ mode' = mode /\ visit' = visit /\ current' = current /\ keyframe' = keyframe
      /\ previous_t1' = previous_t1 /\ remembered' = remembered /\ introduced' = introduced
    BY DEF fileVars, walkVars
<1>2. SummaryEntries' = SummaryEntries
    BY <1>1, EntriesFrame
<1>3. ASSUME NEW d, Walked(d) PROVE Walked(d)'
    <2>1. Held(d)'
        BY <1>1, <1>3 DEF Walked, Held
    <2>2. StreamedWalk(d) => StreamedWalk(d)'
        BY <1>1, FileFrame DEF StreamedWalk, Remembers
    <2>3. IndexedWalk(d) => IndexedWalk(d)'
        BY <1>1, FileFrame, EntriesFrame DEF IndexedWalk
    <2> QED BY <1>1, <1>3, <2>1, <2>2, <2>3 DEF Walked
<1> QED BY <1>1, <1>2, <1>3, FileFrame DEF WalkedToEnd, Complete, IdentitiesCount

LEMMA FiniteStates == ASSUME FileShaped, NEW d, NEW n, Composing(d, n) PROVE IsFiniteSet(DOMAIN d)
<1>1. DOMAIN d \subseteq 1 .. Len(file) /\ Len(file) \in Int /\ 1 \in Int
    BY DEF Composing, StatesBefore, FileShaped, IsSeq
<1>2. IsFiniteSet(1 .. Len(file))
    BY <1>1, FS_Interval
<1> QED BY <1>1, <1>2, FS_Subset

\* The streamed walk: a record more, accepted by the validator and so by the reader.
LEMMA VisitRecordKept ==
    ASSUME FileShaped, NEW d, Walked(d), VisitRecord, validated' = "walking"
    PROVE  \E e : Walked(e)'
<1> PICK r : r = file[visit]
    OBVIOUS
<1> PICK info : info = Info(d, visit)
    OBVIOUS
<1>1. /\ mode = "streamed" /\ mode' = mode /\ UNCHANGED fileVars /\ file' = file
      /\ visit' = visit + 1 /\ RecordValid(visit, r)
    BY DEF VisitRecord, Invalid, Others, fileVars
<1>2. /\ Held(d) /\ Decoding(d, visit) /\ Remembers(d) /\ Composing(d, visit) /\ IsFiniteSet(DOMAIN d)
    BY <1>1, FiniteStates DEF Walked, StreamedWalk, Decoding
<1>3. visit \in DOMAIN file /\ visit \in Nat /\ visit + 1 \in 1 .. Len(file) + 1 /\ DOMAIN file = 1 .. Len(file)
    BY <1>1 DEF VisitRecord, Walked, StreamedWalk, FileShaped, IsSeq
<1>4. current.offset < visit
    <2>1. current.offset = 0 \/ current.offset \in StatesBefore(visit)
        BY <1>2 DEF Held, Composing
    <2> QED BY <1>3, <2>1 DEF StatesBefore
<1>5. visit \notin DOMAIN d
    BY <1>2, <1>3 DEF Composing, StatesBefore
<1>6. ASSUME r.op \in StateRecord, Accepts(d, visit), Moves(visit, info),
             remembered' = Extended(remembered, visit,
                               [count |-> info.ops, live |-> Cardinality(info.state.ids)])
      PROVE  \E e : Walked(e)'
    <2>1. PICK e : e = Extended(d, visit, info)
        OBVIOUS
    <2>2. Held(e)'
        BY <1>2, <1>3, <1>4, <1>6, <2>1, HeldMoves
    <2>3. Decoding(e, visit + 1)
        BY <1>2, <1>3, <1>6, <2>1, DecodingGrows
    <2>4. Remembers(e)'
        <3>1. /\ DOMAIN e = DOMAIN d \cup {visit} /\ e[visit] = info /\ \A o \in DOMAIN d : e[o] = d[o]
            BY <1>5, <2>1 DEF Extended
        <3>2. DOMAIN remembered = DOMAIN d
            BY <1>2 DEF Remembers
        <3>3. /\ DOMAIN remembered' = DOMAIN d \cup {visit}
              /\ remembered'[visit].count = info.ops /\ remembered'[visit].live = Cardinality(info.state.ids)
              /\ \A o \in DOMAIN d : remembered'[o] = remembered[o]
            BY <1>5, <1>6, <3>2 DEF Extended
        <3> QED BY <1>2, <3>1, <3>3 DEF Remembers
    <2>5. StreamedWalk(e)'
        <3>1. Decoding(e, visit')
            BY <1>1, <2>3
        <3> QED BY <1>1, <1>3, <2>4, <3>1, FileFrame DEF StreamedWalk
    <2>6. Walked(e)'
        BY <1>1, <2>2, <2>5 DEF Walked
    <2> QED BY <2>6
<1>7. CASE r.op = "CHUNK"
    <2>1. KeyframeValid(r) /\ StepKeyframe(visit, r)
          /\ remembered' = Extended(remembered, visit,
                               [count |-> Cardinality(r.group.ids), live |-> Cardinality(KeyframeResult(r).ids)])
        BY <1>1, <1>7 DEF VisitRecord, Invalid, RecordValid, StateRecord
    <2>2. /\ Accepts(d, visit) /\ Moves(visit, info)
          /\ info.ops = Cardinality(r.group.ids) /\ info.state = KeyframeResult(r)
        BY <1>3, <1>7, <2>1, KeyframeTaken
    <2>3. r.op \in StateRecord
        BY <1>7 DEF StateRecord
    <2> QED BY <1>6, <2>1, <2>2, <2>3
<1>8. CASE r.op = "DELTA_CHUNK"
    <2>1. DeltaValid(visit, r, r) /\ StepDelta(visit, r, r)
          /\ remembered' = Extended(remembered, visit,
                               [count |-> Operations(r.groups), live |-> Cardinality(DeltaResult(r, r).ids)])
        BY <1>1, <1>8 DEF VisitRecord, Invalid, RecordValid, StateRecord
    <2>2. /\ Accepts(d, visit) /\ Moves(visit, info)
          /\ info.ops = Operations(r.groups) /\ info.state = DeltaResult(r, r)
        BY <1>2, <1>3, <1>8, <2>1, DeltaTaken
    <2>3. r.op \in StateRecord
        BY <1>8 DEF StateRecord
    <2> QED BY <1>6, <2>1, <2>2, <2>3
<1>9. CASE r.op \notin StateRecord
    <2>1. /\ current' = current /\ keyframe' = keyframe /\ introduced' = introduced
          /\ remembered' = remembered
        BY <1>1, <1>9 DEF VisitRecord, Invalid, StateRecord
    <2>2. Accepts(d, visit)
        <3>1. CASE r.op = "CHUNK_INDEX"
            BY <1>1, <1>2, <3>1 DEF RecordValid, Accepts, Remembers
        <3>2. CASE r.op # "CHUNK_INDEX"
            BY <1>9, <3>2 DEF Accepts, StateRecord
        <3> QED BY <3>1, <3>2
    <2>3. Decoding(d, visit + 1)
        BY <1>2, <1>3, <1>9, <2>2, DecodingGrows
    <2>4. Held(d)' /\ Remembers(d)'
        BY <1>2, <2>1 DEF Held, Remembers
    <2>5. StreamedWalk(d)'
        <3>1. Decoding(d, visit')
            BY <1>1, <2>3
        <3> QED BY <1>1, <1>3, <2>4, <3>1, FileFrame DEF StreamedWalk
    <2>6. Walked(d)'
        BY <1>1, <2>4, <2>5 DEF Walked
    <2> QED BY <2>6
<1> QED BY <1>7, <1>8, <1>9 DEF StateRecord

\* The entries of a file that owns every state record, in the order of their records.
LEMMA EntriesOrdered ==
    ASSUME FileShaped, OwnsEveryState(SummaryEntries), NEW order, order = InFileOrder(SummaryEntries),
           NEW n, n = Len(SummaryEntries)
    PROVE  /\ n \in Nat /\ StateOffsets \subseteq DOMAIN file /\ DOMAIN file = 1 .. Len(file) /\ Len(file) \in Nat
           /\ \A k \in 1 .. n : order[k].offset \in StateOffsets
           /\ \A o \in StateOffsets : \E k \in 1 .. n : order[k].offset = o
           /\ \A j, k \in 1 .. n : j < k => order[j].offset < order[k].offset
           /\ \A i \in DOMAIN SummaryEntries : \E k \in 1 .. n : order[k] = SummaryEntries[i]
<1> PICK s : s = SummaryEntries
    OBVIOUS
<1>1. IsSeq(s)
    BY EntriesAreList
<1>2. DOMAIN s = 1 .. n /\ n \in Nat
    BY <1>1 DEF IsSeq
<1>3. StateOffsets \subseteq DOMAIN file /\ DOMAIN file = 1 .. Len(file) /\ Len(file) \in Nat
    BY DEF StateOffsets, FileShaped, IsSeq
<1>4. /\ {s[k].offset : k \in DOMAIN s} = StateOffsets
      /\ \A j, k \in DOMAIN s : s[j].offset = s[k].offset => j = k
    BY DEF OwnsEveryState
<1>5. \A i \in DOMAIN s : s[i].offset \in StateOffsets /\ s[i].offset \in Int
    BY <1>3, <1>4
<1>6. /\ \A k \in 1 .. n : \E i \in DOMAIN s : order[k] = s[i]
      /\ \A i \in DOMAIN s : \E k \in 1 .. n : order[k] = s[i]
      /\ \A j, k \in 1 .. n : j < k => order[j].offset < order[k].offset
    <2>1. /\ \A i \in DOMAIN s : s[i].offset \in Int
          /\ \A i, j \in DOMAIN s : s[i].offset = s[j].offset => i = j
        BY <1>4, <1>5
    <2>2. /\ \A k \in 1 .. Len(s) : \E i \in DOMAIN s : InFileOrder(s)[k] = s[i]
          /\ \A i \in DOMAIN s : \E k \in 1 .. Len(s) : InFileOrder(s)[k] = s[i]
          /\ \A j, k \in 1 .. Len(s) : j < k => InFileOrder(s)[j].offset < InFileOrder(s)[k].offset
        BY ONLY <1>1, <2>1, FileOrdered
    <2>3. order = InFileOrder(s) /\ n = Len(s)
        OBVIOUS
    <2> QED BY ONLY <2>2, <2>3
<1>7. \A k \in 1 .. n : order[k].offset \in StateOffsets
    BY <1>5, <1>6
<1>8. ASSUME NEW o \in StateOffsets PROVE \E k \in 1 .. n : order[k].offset = o
    <2>1. PICK i \in DOMAIN s : s[i].offset = o
        BY <1>4
    <2> QED BY <1>6, <2>1
<1> QED BY <1>2, <1>3, <1>6, <1>7, <1>8

LEMMA FaithfulGrows ==
    ASSUME NEW d, NEW o, o \notin DOMAIN d, NEW info, NEW x, Faithful(d, x)
    PROVE  Faithful(Extended(d, o, info), x)
<1> PICK e : e = Extended(d, o, info)
    OBVIOUS
<1>1. DOMAIN d \subseteq DOMAIN e /\ \A p \in DOMAIN d : e[p] = d[p]
    BY DEF Extended
<1>2. Faithful(e, x)
    BY <1>1 DEF Faithful
<1> QED BY <1>2

\* The indexed walk: an entry more, and the record it owns.
LEMMA VisitEntryKept ==
    ASSUME FileShaped, NEW d, Walked(d), VisitEntry, validated' = "walking"
    PROVE  \E e : Walked(e)'
<1> PICK order : order = InFileOrder(SummaryEntries)
    OBVIOUS
<1> PICK n : n = Len(SummaryEntries)
    OBVIOUS
<1> PICK x : x = order[visit]
    OBVIOUS
<1> PICK o : o = x.offset
    OBVIOUS
<1> PICK r : r = file[o]
    OBVIOUS
<1> PICK info : info = Info(d, o)
    OBVIOUS
<1>1. /\ mode = "indexed" /\ mode' = mode /\ UNCHANGED fileVars /\ ending' = ending
      /\ visit' = visit + 1 /\ EntryValid(x) /\ visit <= n
      /\ \/ x.kind = KEYFRAME_KIND /\ StepKeyframe(o, r)
         \/ x.kind = DELTA_KIND /\ StepDelta(o, x, r)
    BY DEF VisitEntry, Invalid, Others, fileVars
<1>2. /\ Held(d) /\ ending = "complete" /\ TilesTimeline(SummaryEntries) /\ OwnsEveryState(SummaryEntries)
      /\ visit \in 1 .. n + 1
      /\ current.offset = IF visit = 1 THEN 0 ELSE order[visit - 1].offset
      /\ Composing(d, current.offset + 1)
      /\ \A k \in 1 .. visit - 1 : Faithful(d, order[k]) /\ order[k].depth \in 0 .. k - 1
    BY <1>1 DEF Walked, IndexedWalk
<1>3. /\ n \in Nat /\ StateOffsets \subseteq DOMAIN file /\ DOMAIN file = 1 .. Len(file) /\ Len(file) \in Nat
      /\ \A k \in 1 .. n : order[k].offset \in StateOffsets
      /\ \A p \in StateOffsets : \E k \in 1 .. n : order[k].offset = p
      /\ \A j, k \in 1 .. n : j < k => order[j].offset < order[k].offset
    BY <1>2, EntriesOrdered
<1>4. visit \in 1 .. n /\ o \in StateOffsets /\ o \in DOMAIN file /\ o \in Nat /\ r.op \in StateRecord
    <2>1. visit \in 1 .. n
        BY <1>1, <1>2, <1>3
    <2>2. o \in StateOffsets
        BY <1>3, <2>1
    <2> QED BY <1>3, <2>1, <2>2 DEF StateOffsets
<1>5. current.offset < o /\ current.offset \in Nat
    <2>1. CASE visit = 1
        BY <1>2, <1>3, <1>4, <2>1
    <2>2. CASE visit # 1
        <3>1. visit - 1 \in 1 .. n /\ visit - 1 < visit
            BY <1>3, <1>4, <2>2
        <3>2. order[visit - 1].offset < order[visit].offset
            BY <1>3, <1>4, <3>1
        <3>3. order[visit - 1].offset \in Nat
            BY <1>3, <3>1
        <3> QED BY <1>2, <2>2, <3>2, <3>3
    <2> QED BY <2>1, <2>2
<1>6. StatesBefore(o) = StatesBefore(current.offset + 1)
    <2>1. ASSUME NEW p \in StateOffsets, p < o PROVE p < current.offset + 1
        <3>1. PICK k \in 1 .. n : order[k].offset = p
            BY <1>3
        <3>2. k < visit
            <4>1. p \in Int /\ o \in Int /\ ~(o < p) /\ p # o
                BY <1>3, <1>4, <2>1
            <4>2. ~(visit < k) /\ k # visit
                BY <1>3, <1>4, <3>1, <4>1
            <4> QED BY <1>3, <1>4, <4>2
        <3>3. visit # 1 /\ k \in Int /\ visit - 1 \in 1 .. n /\ (k < visit - 1 \/ k = visit - 1)
            BY <1>3, <1>4, <3>2
        <3>4. order[k].offset <= order[visit - 1].offset
            <4>1. order[k].offset \in Int /\ order[visit - 1].offset \in Int
                BY <1>3, <3>3
            <4> QED BY <1>3, <3>3, <4>1
        <3>5. p <= current.offset /\ p \in Int
            BY <1>2, <1>3, <3>1, <3>3, <3>4
        <3> QED BY <1>5, <3>5
    <2>2. ASSUME NEW p \in StateOffsets, p < current.offset + 1 PROVE p < o
        BY <1>3, <1>4, <1>5, <2>2
    <2>3. \A m : StatesBefore(m) = {p \in StateOffsets : p < m}
        BY DEF StatesBefore, StateOffsets
    <2> QED BY <2>1, <2>2, <2>3
<1>7. Composing(d, o) /\ o \notin DOMAIN d /\ IsFiniteSet(DOMAIN d)
    <2>1. Composing(d, o)
        BY <1>2, <1>6 DEF Composing
    <2>2. IsFiniteSet(DOMAIN d)
        BY <2>1, FiniteStates
    <2>3. DOMAIN d = StatesBefore(o)
        BY <2>1 DEF Composing
    <2>4. o \notin DOMAIN d
        BY <1>4, <2>3 DEF StatesBefore
    <2> QED BY <2>1, <2>2, <2>4
<1>8. ASSUME Accepts(d, o), Moves(o, info), Faithful(Extended(d, o, info), x), x.depth \in 0 .. visit - 1
      PROVE  \E e : Walked(e)'
    <2>1. PICK e : e = Extended(d, o, info)
        OBVIOUS
    <2>2. Held(e)'
        BY <1>2, <1>4, <1>5, <1>7, <1>8, <2>1, HeldMoves
    <2>3. Composing(e, o + 1) /\ current'.offset = o
        BY <1>4, <1>7, <1>8, <2>1, ComposingGrows DEF Moves
    <2>4. ASSUME NEW k \in 1 .. visit PROVE Faithful(e, order[k]) /\ order[k].depth \in 0 .. k - 1
        <3>1. CASE k = visit
            BY <1>8, <2>1, <3>1
        <3>2. CASE k # visit
            <4>1. k \in 1 .. visit - 1
                BY <1>4, <3>2
            <4> QED BY <1>2, <1>7, <2>1, <4>1, FaithfulGrows
        <3> QED BY <3>1, <3>2
    <2>5. /\ visit' \in 1 .. n + 1 /\ visit' - 1 = visit /\ visit' # 1
        BY <1>1, <1>3, <1>4
    <2>6. IndexedWalk(e)'
        <3>1. Composing(e, current'.offset + 1)
            BY <2>3
        <3>2. /\ SummaryEntries' = SummaryEntries /\ TilesTimeline(SummaryEntries)' /\ OwnsEveryState(SummaryEntries)'
              /\ \A c, y : Faithful(c, y)' = Faithful(c, y)
            BY <1>1, <1>2, EntriesFrame
        <3>3. order = InFileOrder(SummaryEntries)' /\ n = Len(SummaryEntries)'
            BY <3>2
        <3>4. \A k \in 1 .. visit' - 1 : Faithful(e, order[k])' /\ order[k].depth \in 0 .. k - 1
            BY <2>4, <2>5, <3>2
        <3>5. Composing(e, current.offset + 1)'
            BY <1>1, <3>1, FileFrame
        <3>6. current'.offset = order[visit' - 1].offset
            BY <2>3, <2>5
        <3> QED BY <1>1, <1>2, <2>5, <3>2, <3>3, <3>4, <3>5, <3>6 DEF IndexedWalk
    <2>7. Walked(e)'
        BY <1>1, <2>2, <2>6 DEF Walked
    <2> QED BY <2>7
<1>9. \A e : e = Extended(d, o, info) => o \in DOMAIN e /\ e[o] = info /\ DOMAIN d \subseteq DOMAIN e
                                          /\ \A p \in DOMAIN d : e[p] = d[p]
    BY <1>7 DEF Extended
<1>10. CASE x.kind = KEYFRAME_KIND
    <2>1. r.op = "CHUNK" /\ KeyframeValid(r) /\ EntryIsKeyframe(x, r) /\ StepKeyframe(o, r)
        BY <1>1, <1>10 DEF EntryValid, LinkRecord, KEYFRAME_KIND, DELTA_KIND
    <2>2. /\ Accepts(d, o) /\ Moves(o, info) /\ info.depth = 0 /\ info.reference = 0
          /\ info.ops = Cardinality(r.group.ids) /\ info.state = KeyframeResult(r)
          /\ info.t0 = r.t0 /\ info.t1 = r.t1
        BY <1>4, <2>1, KeyframeTaken
    <2>3. PICK e : e = Extended(d, o, info)
        OBVIOUS
    <2>4. Faithful(e, x)
        <3>1. o \in DOMAIN e /\ e[o] = info
            BY <1>9, <2>3
        <3>2. /\ x.t0 = info.t0 /\ x.t1 = info.t1 /\ x.count = info.ops
              /\ x.live = Cardinality(info.state.ids) /\ x.reference = info.reference
              /\ x.depth = info.depth /\ x.depth = 0
            BY <2>1, <2>2 DEF EntryIsKeyframe
        <3> QED BY <1>10, <2>1, <3>1, <3>2 DEF Faithful
    <2>5. x.depth \in 0 .. visit - 1
        BY <1>4, <2>1 DEF EntryIsKeyframe
    <2> QED BY <1>8, <2>2, <2>3, <2>4, <2>5
<1>11. CASE x.kind = DELTA_KIND
    <2>1. /\ r.op = "DELTA_CHUNK" /\ DeltaValid(o, x, r) /\ EntryIsDelta(x, r) /\ StepDelta(o, x, r)
          /\ x.kind # KEYFRAME_KIND
        BY <1>1, <1>11 DEF EntryValid, LinkRecord, KEYFRAME_KIND, DELTA_KIND
    <2>2. x.reference = r.reference /\ x.depth = r.depth
        BY <2>1 DEF EntryIsDelta
    <2>3. /\ Accepts(d, o) /\ Moves(o, info) /\ info.depth = x.depth /\ info.reference = x.reference
          /\ info.ops = Operations(r.groups) /\ info.state = DeltaResult(x, r)
          /\ info.t0 = r.t0 /\ info.t1 = r.t1
          /\ current.offset # 0 /\ x.reference \in {current.offset, keyframe.offset}
          /\ x.reference < o /\ x.depth = d[x.reference].depth + 1
        BY <1>2, <1>4, <2>1, <2>2, DeltaTaken
    <2>4. PICK e : e = Extended(d, o, info)
        OBVIOUS
    <2>5. /\ x.reference \in DOMAIN d /\ current.offset \in DOMAIN d /\ d[keyframe.offset].depth = 0
        BY <1>2, <2>3 DEF Held
    <2>6. Faithful(e, x)
        <3>1. /\ o \in DOMAIN e /\ e[o] = info
              /\ x.reference \in DOMAIN e /\ e[x.reference] = d[x.reference]
            BY <1>9, <2>4, <2>5
        <3>2. /\ x.t0 = info.t0 /\ x.t1 = info.t1 /\ x.count = info.ops
              /\ x.live = Cardinality(info.state.ids)
            BY <2>1, <2>3 DEF EntryIsDelta
        <3> QED BY <2>1, <2>3, <3>1, <3>2 DEF Faithful
    <2>7. x.depth \in 0 .. visit - 1
        <3>1. visit # 1 /\ visit - 1 \in 1 .. visit - 1 /\ current.offset = order[visit - 1].offset
            BY <1>2, <1>4, <2>3
        <3>2. d[current.offset].depth \in 0 .. visit - 2
            <4>1. Faithful(d, order[visit - 1]) /\ order[visit - 1].depth \in 0 .. visit - 1 - 1
                BY <1>2, <3>1
            <4>2. order[visit - 1].depth = d[current.offset].depth
                BY <3>1, <4>1 DEF Faithful
            <4> QED BY <1>4, <4>1, <4>2
        <3>3. d[x.reference].depth \in 0 .. visit - 2
            <4>1. 0 \in 0 .. visit - 2
                BY <1>4, <3>1
            <4> QED BY <2>3, <2>5, <3>2, <4>1
        <3> QED BY <1>4, <2>3, <3>3
    <2> QED BY <1>8, <2>3, <2>4, <2>6, <2>7
<1> QED BY <1>1, <1>10, <1>11

LEMMA NothingHeld ==
    ASSUME FileShaped, ValidatorWaiting
    PROVE  Held(NoChunks) /\ StatesBefore(1) = {}
<1>1. DOMAIN NoChunks = {} /\ \A g : Births(NoChunks, g) = {}
    BY DEF NoChunks, Births
<1>2. current = NoState /\ keyframe = NoState /\ introduced = [g \in Id |-> 0]
    BY DEF ValidatorWaiting
<1>3. Place(NoState) /\ NoState.offset = 0 /\ NoState.state = EmptyPopulation
    BY DEF Place, NoState
<1>4. introduced = [g \in Id |-> Cardinality(Births(NoChunks, g))]
    BY <1>1, <1>2, FS_EmptySet
<1>5. StatesBefore(1) = {}
    BY DEF StatesBefore, FileShaped, IsSeq
<1> QED BY <1>1, <1>2, <1>3, <1>4, <1>5 DEF Held

LEMMA StartWalked ==
    ASSUME FileShaped, ValidatorWaiting, StartIndexed \/ StartStreamed, validated' = "walking"
    PROVE  /\ mode' \in {"streamed", "indexed"} /\ ~LateFrontMatter' /\ Walked(NoChunks)'
<1>1. /\ UNCHANGED fileVars /\ UNCHANGED walkVars /\ file' = file /\ ending' = ending /\ visit' = visit
      /\ current' = current /\ keyframe' = keyframe /\ remembered' = remembered /\ introduced' = introduced
    BY DEF StartIndexed, StartStreamed, Others, fileVars, walkVars
<1>2. Held(NoChunks) /\ StatesBefore(1) = {}
    BY NothingHeld
<1>3. Held(NoChunks)'
    BY <1>1, <1>2 DEF Held
<1>4. /\ visit = 1 /\ current.offset = 0 /\ remembered = [o \in {} |-> 0]
    BY DEF ValidatorWaiting, NoState
<1>5. Composing(NoChunks, 1) /\ Decoding(NoChunks, 1) /\ DOMAIN NoChunks = {}
    <2>1. NoChunks = [o \in {} |-> NoChunks[o]] /\ DOMAIN NoChunks = {}
        BY DEF NoChunks
    <2>2. \A i \in DOMAIN file : ~(i < 1)
        BY DEF FileShaped, IsSeq
    <2> QED BY <1>2, <2>1, <2>2 DEF Composing, Decoding
<1>6. CASE StartStreamed
    <2>1. mode' = "streamed" /\ ~LateFrontMatter
        BY <1>6 DEF StartStreamed
    <2>2. StreamedWalk(NoChunks)'
        <3>1. Len(file) \in Nat /\ 1 \in 1 .. Len(file) + 1
            BY DEF FileShaped, IsSeq
        <3>2. Remembers(NoChunks)'
            BY <1>1, <1>4, <1>5 DEF Remembers
        <3>3. Decoding(NoChunks, visit')
            BY <1>1, <1>4, <1>5
        <3> QED BY <1>1, <1>4, <3>1, <3>2, <3>3, FileFrame DEF StreamedWalk
    <2> QED BY <1>1, <1>3, <2>1, <2>2, FileFrame DEF Walked
<1>7. CASE StartIndexed
    <2>1. /\ mode' = "indexed" /\ ~LateFrontMatter /\ ending = "complete"
          /\ TilesTimeline(SummaryEntries) /\ OwnsEveryState(SummaryEntries)
        BY <1>7 DEF StartIndexed
    <2>2. SummaryEntries' = SummaryEntries /\ TilesTimeline(SummaryEntries)' /\ OwnsEveryState(SummaryEntries)'
        BY <1>1, <2>1, EntriesFrame
    <2>3. IndexedWalk(NoChunks)'
        <3>1. Len(SummaryEntries) \in Nat /\ 1 \in 1 .. Len(SummaryEntries) + 1
            BY EntriesAreList DEF IsSeq
        <3>2. Composing(NoChunks, current'.offset + 1)
            BY <1>1, <1>4, <1>5
        <3>3. Composing(NoChunks, current.offset + 1)'
            BY <1>1, <3>2, FileFrame
        <3>4. 1 .. visit' - 1 = {}
            BY <1>1, <1>4
        <3> QED BY <1>1, <1>4, <2>1, <2>2, <3>1, <3>3, <3>4 DEF IndexedWalk
    <2> QED BY <1>1, <1>3, <2>1, <2>3, FileFrame DEF Walked
<1> QED BY <1>6, <1>7

LEMMA ValidateKept ==
    ASSUME FileShaped, VInv, Validate
    PROVE  VInv'
<1>1. UNCHANGED fileVars
    BY DEF Validate, StartIndexed, StartStreamed, VisitEntry, VisitRecord, FinishWalk, CountIdentities,
           Invalid, Others
<1>2. ASSUME validated' = "invalid" PROVE VInv'
    BY <1>2 DEF VInv
<1>3. CASE StartIndexed \/ StartStreamed
    <2>1. ValidatorWaiting /\ validated' \in {"walking", "invalid"}
        BY <1>3 DEF VInv, StartIndexed, StartStreamed
    <2>2. ASSUME validated' = "walking" PROVE VInv'
        <3>1. mode' \in {"streamed", "indexed"} /\ ~LateFrontMatter' /\ \E d : Walked(d)'
            BY <1>3, <2>1, <2>2, StartWalked
        <3> QED BY <2>2, <3>1 DEF VInv
    <2> QED BY <1>2, <2>1, <2>2
<1>4. CASE VisitEntry \/ VisitRecord
    <2>1. validated = "walking" /\ (validated' = "walking" \/ validated' = "invalid") /\ mode' = mode
        BY <1>4 DEF VisitEntry, VisitRecord, Invalid
    <2>2. ASSUME validated' = "walking" PROVE VInv'
        <3>1. PICK d : Walked(d)
            BY <2>1 DEF VInv
        <3>2. \E e : Walked(e)'
            BY <1>4, <2>2, <3>1, VisitEntryKept, VisitRecordKept
        <3>3. mode' \in {"streamed", "indexed"} /\ ~LateFrontMatter'
            BY <1>1, <2>1, FileFrame DEF VInv
        <3> QED BY <2>2, <3>2, <3>3 DEF VInv
    <2> QED BY <1>2, <2>1, <2>2
<1>5. CASE FinishWalk \/ CountIdentities
    <2>1. /\ validated \in {"walking", "counting"} /\ validated' \in {"counting", "valid", "invalid"}
          /\ UNCHANGED <<mode, walkVars>> /\ mode' = mode
        BY <1>5 DEF FinishWalk, CountIdentities, Invalid
    <2>2. ASSUME validated' # "invalid" PROVE VInv'
        <3>1. /\ WalkedToEnd /\ Complete /\ (validated' = "valid" => IdentitiesCount)
            <4>1. CASE FinishWalk
                BY <2>2, <4>1 DEF FinishWalk, Invalid
            <4>2. CASE CountIdentities
                BY <2>2, <4>2 DEF CountIdentities, VInv, IdentitiesCount
            <4> QED BY <1>5, <4>1, <4>2
        <3>2. PICK d : Walked(d)
            BY <2>1 DEF VInv
        <3>3. Walked(d)' /\ WalkedToEnd' /\ Complete' /\ (validated' = "valid" => IdentitiesCount') /\ ~LateFrontMatter'
            BY <1>1, <2>1, <3>1, <3>2, WalkFrame DEF VInv
        <3>4. mode' \in {"streamed", "indexed"} /\ validated' \in {"counting", "valid"}
            BY <2>1, <2>2 DEF VInv
        <3> QED BY <3>3, <3>4 DEF VInv
    <2> QED BY <1>2, <2>2
<1> QED BY <1>3, <1>4, <1>5 DEF Validate

LEMMA ValidatorFrame ==
    ASSUME VInv, UNCHANGED <<fileVars, validatorVars>>
    PROVE  VInv'
<1>1. /\ UNCHANGED <<fileVars, mode, walkVars>> /\ validated' = validated /\ mode' = mode
      /\ visit' = visit /\ current' = current /\ keyframe' = keyframe
      /\ previous_t1' = previous_t1 /\ remembered' = remembered /\ introduced' = introduced
    BY DEF validatorVars, walkVars
<1>2. validated = "waiting" => ValidatorWaiting'
    BY <1>1 DEF VInv, ValidatorWaiting
<1>3. (\E d : Walked(d)) => (\E d : Walked(d)')
    BY <1>1, WalkFrame
<1> QED BY <1>1, <1>2, <1>3, WalkFrame DEF VInv

----------------------------------------------------------------------------
(* What the indexed reader makes of a file the validator walked            *)

\* d is what the file composes to, and its summary is faithful to d.
Certified(d) ==
    /\ ending = "complete" /\ TilesTimeline(SummaryEntries) /\ OwnsEveryState(SummaryEntries)
    /\ Composing(d, Len(file) + 1)
    /\ \A k \in DOMAIN SummaryEntries :
          Faithful(d, SummaryEntries[k]) /\ SummaryEntries[k].depth \in 0 .. Len(SummaryEntries) - 1

\* The chain from the entry back, each link at the state the next references.
ChainFollows ==
    /\ \A j \in 1 .. Len(chain) : \E i \in DOMAIN index : chain[j] = index[i]
    /\ chain[Len(chain)] = index[entry]
    /\ chain[1].depth = index[entry].depth - (Len(chain) - 1)
    /\ \A j \in 2 .. Len(chain) :
          chain[j].kind # KEYFRAME_KIND /\ chain[j].reference = chain[j - 1].offset

\* The reader refuses no such file and composes what d holds.
IndexedFollows(d) ==
    /\ indexed # "refused"
    /\ indexed # "waiting" => index = SummaryEntries
    /\ \A k \in DOMAIN answers : k \in DOMAIN index /\ answers[k] = d[index[k].offset].state
    /\ (indexed = "walking" /\ chain # <<>>) \/ indexed = "reading" => ChainFollows
    /\ indexed = "reading" =>
          /\ chain[1].kind = KEYFRAME_KIND
          /\ link # 0 => composed = d[chain[link].offset].state

LEMMA CertifiedAtEnd ==
    ASSUME FileShaped, NEW d, Walked(d), mode = "indexed", WalkedToEnd
    PROVE  Certified(d)
<1> PICK order : order = InFileOrder(SummaryEntries)
    OBVIOUS
<1> PICK n : n = Len(SummaryEntries)
    OBVIOUS
<1>1. /\ ending = "complete" /\ TilesTimeline(SummaryEntries) /\ OwnsEveryState(SummaryEntries)
      /\ visit \in 1 .. n + 1
      /\ current.offset = IF visit = 1 THEN 0 ELSE order[visit - 1].offset
      /\ Composing(d, current.offset + 1)
      /\ \A k \in 1 .. visit - 1 : Faithful(d, order[k]) /\ order[k].depth \in 0 .. k - 1
    BY DEF Walked, IndexedWalk
<1>2. /\ n \in Nat /\ StateOffsets \subseteq DOMAIN file /\ DOMAIN file = 1 .. Len(file) /\ Len(file) \in Nat
      /\ \A k \in 1 .. n : order[k].offset \in StateOffsets
      /\ \A o \in StateOffsets : \E k \in 1 .. n : order[k].offset = o
      /\ \A j, k \in 1 .. n : j < k => order[j].offset < order[k].offset
      /\ \A i \in DOMAIN SummaryEntries : \E k \in 1 .. n : order[k] = SummaryEntries[i]
    BY <1>1, EntriesOrdered
<1>3. visit = n + 1
    BY <1>1, <1>2 DEF WalkedToEnd
<1>4. \A k \in 1 .. n : Faithful(d, order[k]) /\ order[k].depth \in 0 .. n - 1
    <2> SUFFICES ASSUME NEW k \in 1 .. n PROVE Faithful(d, order[k]) /\ order[k].depth \in 0 .. n - 1
        OBVIOUS
    <2>1. Faithful(d, order[k]) /\ order[k].depth \in 0 .. k - 1
        BY <1>1, <1>2, <1>3
    <2>2. \A m \in 0 .. k - 1 : m \in 0 .. n - 1
        BY <1>2
    <2> QED BY <2>1, <2>2
<1>5. \A o \in StateOffsets : o < current.offset + 1
    <2> SUFFICES ASSUME NEW o \in StateOffsets PROVE o < current.offset + 1
        OBVIOUS
    <2>1. PICK k \in 1 .. n : order[k].offset = o
        BY <1>2
    <2>2. n \in 1 .. n /\ visit # 1 /\ visit - 1 = n /\ (k < n \/ k = n)
        BY <1>2, <1>3
    <2>3. order[n].offset \in Int /\ o \in Int
        BY <1>2, <2>2
    <2>4. o < order[n].offset \/ o = order[n].offset
        BY <1>2, <2>1, <2>2
    <2>5. current.offset = order[n].offset
        BY <1>1, <2>2
    <2> QED BY <2>3, <2>4, <2>5
<1>6. StatesBefore(current.offset + 1) = StatesBefore(Len(file) + 1)
    <2>1. \A m : StatesBefore(m) = {p \in StateOffsets : p < m}
        BY DEF StatesBefore, StateOffsets
    <2>2. \A o \in StateOffsets : o < Len(file) + 1
        BY <1>2
    <2> QED BY <1>5, <2>1, <2>2
<1>7. Composing(d, Len(file) + 1)
    BY <1>1, <1>6 DEF Composing
<1> QED BY <1>1, <1>2, <1>4, <1>7 DEF Certified

LEMMA EntryAtFinds ==
    ASSUME IsSeq(index), NEW o, NEW i \in DOMAIN index, index[i].offset = o
    PROVE  EntryAt(o) # 0 /\ EntryAt(o) \in DOMAIN index /\ index[EntryAt(o)].offset = o
<1>1. DOMAIN index = 1 .. Len(index) /\ Len(index) \in Nat
    BY DEF IsSeq
<1>2. PICK I : I = {j \in 1 .. Len(index) : index[j].offset = o}
    OBVIOUS
<1>3. EntryAt(o) = IF I # {} THEN Max(I) ELSE 0
    BY <1>2 DEF EntryAt, SelectLastInSeq
<1>4. I \subseteq 1 .. Len(index) /\ i \in I
    BY <1>1, <1>2
<1>5. PICK m \in I : \A j \in m + 1 .. Len(index) : j \notin I
    BY <1>1, <1>4, LastPosition
<1>6. \A j \in I : j <= m
    <2>1. m \in Int /\ \A j \in 1 .. Len(index) : j <= m \/ j \in m + 1 .. Len(index)
        BY <1>1, <1>4
    <2> QED BY <1>4, <1>5, <2>1
<1>7. Max(I) \in I
    BY <1>5, <1>6 DEF Max
<1> QED BY <1>1, <1>2, <1>3, <1>4, <1>7

\* A link at a faithful entry, with what it references composed.
LEMMA LinkTaken ==
    ASSUME FileShaped, NEW d, Composing(d, Len(file) + 1), NEW e, Faithful(d, e),
           e.kind # KEYFRAME_KIND => composed = d[e.reference].state
    PROVE  LinkAccepted(e) /\ LinkState(e) = d[e.offset].state
<1> PICK o : o = e.offset
    OBVIOUS
<1> PICK r : r = file[o]
    OBVIOUS
<1>1. /\ o \in DOMAIN d /\ r.op = IF e.kind = KEYFRAME_KIND THEN "CHUNK" ELSE "DELTA_CHUNK"
      /\ e.t0 = d[o].t0 /\ e.t1 = d[o].t1
      /\ e.count = d[o].ops /\ e.live = Cardinality(d[o].state.ids) /\ e.reference = d[o].reference
    BY DEF Faithful
<1>2. o \in DOMAIN file /\ Accepts(d, o) /\ d[o] = Info(d, o)
    BY <1>1 DEF Composing, StatesBefore
<1>3. LinkRecord(e)
    BY <1>1, <1>2 DEF LinkRecord
<1>4. CASE e.kind = KEYFRAME_KIND
    <2>1. KeyframeAccepted(r) /\ Selectable(r.t0, r.t1, KeyframeState(r.group).state)
        BY <1>1, <1>2, <1>4 DEF Accepts
    <2>2. KeyframeState(r.group).state.ids = r.group.ids
        BY <2>1 DEF KeyframeAccepted, KeyframeState, Refuse, Ok
    <2>3. /\ d[o].t0 = r.t0 /\ d[o].t1 = r.t1 /\ d[o].ops = Cardinality(r.group.ids)
          /\ d[o].state = KeyframeState(r.group).state
        BY <1>1, <1>2, <1>4, <2>2 DEF Info, ChunkInfo
    <2>4. LinkState(e) = d[o].state /\ LinkOperations(e) = Cardinality(r.group.ids)
        BY <1>4, <2>3 DEF LinkState, LinkOperations
    <2> QED BY <1>1, <1>3, <1>4, <2>1, <2>3, <2>4 DEF LinkAccepted
<1>5. CASE e.kind # KEYFRAME_KIND
    <2>1. r.op = "DELTA_CHUNK"
        BY <1>1, <1>5
    <2>2. /\ DeltaAccepted(d[r.reference].state, r)
          /\ Selectable(r.t0, r.t1, ApplyDelta(d[r.reference].state, r.groups).state)
        BY <1>2, <2>1 DEF Accepts
    <2>3. /\ d[o].t0 = r.t0 /\ d[o].t1 = r.t1 /\ d[o].ops = Operations(r.groups) /\ d[o].reference = r.reference
          /\ d[o].state = ApplyDelta(d[r.reference].state, r.groups).state
        BY <1>2, <2>1 DEF Info, ChunkInfo
    <2>4. composed = d[r.reference].state
        BY <1>1, <1>5, <2>3
    <2>5. LinkState(e) = d[o].state /\ LinkOperations(e) = Operations(r.groups)
        BY <1>5, <2>3, <2>4 DEF LinkState, LinkOperations
    <2> QED BY <1>1, <1>3, <1>5, <2>2, <2>3, <2>4, <2>5 DEF LinkAccepted
<1> QED BY <1>4, <1>5

LEMMA CertifiedEntries ==
    ASSUME FileShaped, WalkStands, NEW d, Certified(d), index = SummaryEntries
    PROVE  /\ Len(index) \in Nat /\ DOMAIN index = 1 .. Len(index)
           /\ \A i \in DOMAIN index : Faithful(d, index[i]) /\ index[i].depth \in 0 .. Len(index) - 1
           /\ \A o \in DOMAIN d : \E i \in DOMAIN index : index[i].offset = o
<1>1. Len(index) \in Nat /\ DOMAIN index = 1 .. Len(index)
    BY DEF WalkStands, IsSeq
<1>2. DOMAIN d \subseteq StateOffsets
    BY DEF Certified, Composing, StatesBefore, StateOffsets
<1>3. {index[k].offset : k \in DOMAIN index} = StateOffsets
    BY DEF Certified, OwnsEveryState
<1> QED BY <1>1, <1>2, <1>3 DEF Certified

\* The walk back from a faithful entry reaches its keyframe.
LEMMA WalksBack ==
    ASSUME FileShaped, WalkStands, NEW d, Certified(d), IndexedFollows(d), Walking,
           chain[1].kind # KEYFRAME_KIND
    PROVE  /\ CanWalkBack /\ Len(chain) \in Nat
           /\ EntryAt(chain[1].reference) \in DOMAIN index
           /\ index[EntryAt(chain[1].reference)].offset = chain[1].reference
           /\ index[EntryAt(chain[1].reference)].depth = index[entry].depth - Len(chain)
<1> PICK h : h = chain[1]
    OBVIOUS
<1>1. indexed = "walking" /\ chain # <<>> /\ index = SummaryEntries /\ ChainFollows
    BY DEF Walking, IndexedFollows
<1>2. IsSeq(index) /\ IsSeq(chain) /\ Len(chain) \in 1 .. Len(index) /\ entry \in 1 .. Len(index) /\ Head(chain) = h
    BY <1>1 DEF WalkStands, IsSeq
<1>3. /\ Len(index) \in Nat /\ DOMAIN index = 1 .. Len(index)
      /\ \A i \in DOMAIN index : Faithful(d, index[i]) /\ index[i].depth \in 0 .. Len(index) - 1
      /\ \A o \in DOMAIN d : \E i \in DOMAIN index : index[i].offset = o
    BY <1>1, CertifiedEntries
<1>4. Faithful(d, h) /\ h.depth \in Int /\ h.depth = index[entry].depth - (Len(chain) - 1)
    BY <1>1, <1>2, <1>3 DEF ChainFollows
<1>5. h.reference < h.offset /\ h.reference \in DOMAIN d /\ h.depth = d[h.reference].depth + 1
    BY <1>4 DEF Faithful
<1>6. PICK i \in DOMAIN index : index[i].offset = h.reference
    BY <1>3, <1>5
<1>7. PICK a : a = EntryAt(h.reference)
    OBVIOUS
<1>8. a # 0 /\ a \in DOMAIN index /\ index[a].offset = h.reference
    BY <1>2, <1>6, <1>7, EntryAtFinds
<1>9. index[a].depth = d[h.reference].depth /\ index[a].depth \in 0 .. Len(index) - 1
    BY <1>3, <1>8 DEF Faithful
<1>10. /\ index[entry].depth \in 0 .. Len(index) - 1 /\ Len(chain) \in Nat
       /\ index[a].depth = index[entry].depth - Len(chain) /\ Len(chain) + 1 <= Len(index)
    <2>0. PICK N \in Nat : N = Len(index)
        BY <1>3
    <2>1. PICK L \in 1 .. N : L = Len(chain)
        BY <1>2, <2>0
    <2>2. PICK D \in 0 .. N - 1 : D = index[entry].depth
        BY <1>2, <1>3, <2>0
    <2>3. PICK A \in 0 .. N - 1 : A = index[a].depth
        BY <1>9, <2>0
    <2>4. A + 1 = D - (L - 1)
        BY <1>4, <1>5, <1>9, <2>1, <2>2, <2>3
    <2>5. A = D - L /\ L + 1 <= N /\ L \in Nat
        BY ONLY <2>4, N \in Nat, L \in 1 .. N, D \in 0 .. N - 1, A \in 0 .. N - 1
    <2> QED BY <2>0, <2>1, <2>2, <2>3, <2>5
<1> QED BY <1>2, <1>5, <1>7, <1>8, <1>10 DEF CanWalkBack

LEMMA IndexedFollowsKept ==
    ASSUME FileShaped, WalkStands, NEW d, Certified(d), IndexedFollows(d), DecodeIndexed
    PROVE  IndexedFollows(d)'
<1>1. CASE OpenIndexed
    <2>1. ending = "complete" /\ TilesTimeline(SummaryEntries)
        BY DEF Certified
    <2>2. /\ indexed' = "walking" /\ index' = SummaryEntries /\ chain' = <<>> /\ answers' = NoAnswers
        BY <1>1, <2>1 DEF OpenIndexed
    <2>3. SummaryEntries' = SummaryEntries
        BY <1>1, EntriesFrame DEF OpenIndexed
    <2> QED BY <2>2, <2>3 DEF IndexedFollows, NoAnswers
<1>2. CASE ~OpenIndexed
    <2>1. indexed \in {"walking", "reading"} /\ UNCHANGED fileVars /\ index' = index
        BY <1>2 DEF DecodeIndexed, StartChain, WalkBack, Walking, CheckDepth, ReadLink, AnswerEntry, FinishIndexed,
                    RefuseIndexed
    <2>2. index = SummaryEntries /\ SummaryEntries' = SummaryEntries /\ index' = SummaryEntries'
        BY <2>1, EntriesFrame DEF IndexedFollows
    <2>3. /\ Len(index) \in Nat /\ DOMAIN index = 1 .. Len(index) /\ IsSeq(index)
          /\ \A i \in DOMAIN index : Faithful(d, index[i]) /\ index[i].depth \in 0 .. Len(index) - 1
        BY <2>2, CertifiedEntries DEF WalkStands
    <2>4. answers' = answers => \A k \in DOMAIN answers' : k \in DOMAIN index' /\ answers'[k] = d[index'[k].offset].state
        BY <2>1 DEF IndexedFollows
    <2>5. CASE StartChain
        <3>1. /\ indexed' = "walking" /\ answers' = answers /\ chain' = <<index[entry]>> /\ entry' = entry
              /\ entry \in DOMAIN index
            BY <2>3, <2>5 DEF StartChain, WalkStands
        <3>2. Len(chain') = 1 /\ chain'[1] = index[entry]
            BY <3>1
        <3>3. index[entry].depth \in Int
            BY <2>3, <3>1
        <3>4. ChainFollows'
            <4>1. /\ index'[entry'] = index[entry] /\ DOMAIN index' = DOMAIN index
                BY <2>1, <3>1
            <4>2. \A j \in 1 .. Len(chain') : j = 1
                BY <3>2
            <4>3. \A j \in 2 .. Len(chain') : FALSE
                BY <3>2
            <4>4. chain'[1].depth = index'[entry'].depth - (Len(chain') - 1)
                BY <3>2, <3>3, <4>1
            <4>5. chain'[Len(chain')] = index'[entry']
                BY <3>2, <4>1
            <4> QED BY <2>1, <3>1, <3>2, <4>1, <4>2, <4>3, <4>4, <4>5 DEF ChainFollows
        <3> QED BY <2>2, <2>4, <3>1, <3>4 DEF IndexedFollows
    <2>6. CASE WalkBack
        <3>1. Walking /\ IsSeq(chain) /\ Len(chain) \in 1 .. Len(index) /\ Head(chain) = chain[1] /\ ChainFollows
            BY <2>6 DEF WalkBack, Walking, WalkStands, IndexedFollows, IsSeq
        <3>2. chain[1].kind # KEYFRAME_KIND
            BY <2>6, <3>1 DEF WalkBack
        <3>3. PICK e : e = index[EntryAt(chain[1].reference)]
            OBVIOUS
        <3>4. /\ CanWalkBack /\ Len(chain) \in Nat /\ \E i \in DOMAIN index : e = index[i]
              /\ e.offset = chain[1].reference /\ e.depth = index[entry].depth - Len(chain)
            BY <3>1, <3>2, <3>3, WalksBack
        <3>5. /\ indexed' = "walking" /\ chain' = <<e>> \o chain /\ entry' = entry /\ answers' = answers
            BY <2>6, <3>1, <3>3, <3>4 DEF WalkBack, Walking
        <3>6. IsSeq(<<e>>) /\ Len(<<e>>) = 1 /\ <<e>>[1] = e
            BY DEF IsSeq
        <3>7. PICK c : c = chain
            OBVIOUS
        <3>8. PICK m \in Nat : m = Len(c) /\ m >= 1
            BY <3>1, <3>4, <3>7
        <3>9. /\ Len(<<e>> \o c) = 1 + m
              /\ \A j \in 1 .. 1 + m : (<<e>> \o c)[j] = IF j <= 1 THEN <<e>>[j] ELSE c[j - 1]
            <4>1. IsSeq(c)
                BY <3>1, <3>7
            <4> QED BY ONLY <3>6, <3>8, <4>1, ConcatIsSeq
        <3>10. PICK t : t = <<e>> \o c
            OBVIOUS
        <3>11. Len(t) = m + 1 /\ t[1] = e /\ \A j \in 2 .. m + 1 : t[j] = c[j - 1]
            <4>1. \A j \in 2 .. m + 1 : j \in 1 .. 1 + m /\ ~(j <= 1)
                BY <3>8
            <4>2. 1 \in 1 .. 1 + m /\ 1 + m = m + 1
                BY <3>8
            <4> QED BY <3>6, <3>9, <3>10, <4>1, <4>2
        <3>12. /\ \A j \in 1 .. m : \E i \in DOMAIN index : c[j] = index[i]
               /\ c[m] = index[entry]
               /\ \A j \in 2 .. m : c[j].kind # KEYFRAME_KIND /\ c[j].reference = c[j - 1].offset
               /\ e.offset = c[1].reference /\ c[1].kind # KEYFRAME_KIND /\ e.depth = index[entry].depth - m
            BY <3>1, <3>2, <3>4, <3>7, <3>8 DEF ChainFollows
        <3>13. \A j \in 1 .. m + 1 : \E i \in DOMAIN index : t[j] = index[i]
            <4> SUFFICES ASSUME NEW j \in 1 .. m + 1 PROVE \E i \in DOMAIN index : t[j] = index[i]
                OBVIOUS
            <4>1. j = 1 \/ (j \in 2 .. m + 1 /\ j - 1 \in 1 .. m)
                BY <3>8
            <4> QED BY <3>4, <3>11, <3>12, <4>1
        <3>14. t[m + 1] = index[entry]
            <4>1. m + 1 \in 2 .. m + 1 /\ m + 1 - 1 = m
                BY <3>8
            <4> QED BY <3>11, <3>12, <4>1
        <3>15. \A j \in 2 .. m + 1 : t[j].kind # KEYFRAME_KIND /\ t[j].reference = t[j - 1].offset
            <4> SUFFICES ASSUME NEW j \in 2 .. m + 1
                         PROVE  t[j].kind # KEYFRAME_KIND /\ t[j].reference = t[j - 1].offset
                OBVIOUS
            <4>1. CASE j = 2
                <5>1. t[j] = c[1] /\ t[j - 1] = e
                    BY <3>11, <4>1
                <5> QED BY <3>12, <5>1
            <4>2. CASE j # 2
                <5>1. j - 1 \in 2 .. m /\ j - 1 \in 2 .. m + 1
                    BY <3>8, <4>2
                <5>2. t[j] = c[j - 1] /\ t[j - 1] = c[j - 1 - 1]
                    BY <3>11, <5>1
                <5> QED BY <3>12, <5>1, <5>2
            <4> QED BY <4>1, <4>2
        <3>16. t[1].depth = index[entry].depth - (m + 1 - 1)
            <4>1. m + 1 - 1 = m
                BY <3>8
            <4> QED BY <3>11, <3>12, <4>1
        <3>17. chain' = t /\ index' = index /\ entry' = entry
            BY <2>1, <3>5, <3>7, <3>10
        <3>18. ChainFollows'
            BY <3>11, <3>13, <3>14, <3>15, <3>16, <3>17 DEF ChainFollows
        <3> QED BY <2>2, <2>4, <3>5, <3>18 DEF IndexedFollows
    <2>7. CASE CheckDepth
        <3>1. Walking /\ IsSeq(chain) /\ Len(chain) \in 1 .. Len(index) /\ Head(chain) = chain[1] /\ ChainFollows
              /\ entry \in DOMAIN index
            BY <2>3, <2>7 DEF CheckDepth, Walking, WalkStands, IndexedFollows, IsSeq
        <3>2. chain[1].kind = KEYFRAME_KIND
            BY <2>7, <3>1 DEF CheckDepth
        <3>3. PICK i \in DOMAIN index : chain[1] = index[i]
            BY <2>3, <3>1 DEF ChainFollows
        <3>4. chain[1].depth = 0 /\ chain[1].depth = index[entry].depth - (Len(chain) - 1)
            BY <2>3, <3>1, <3>2, <3>3 DEF Faithful, ChainFollows
        <3>5. Len(chain) - 1 = index[entry].depth
            BY <2>3, <3>1, <3>4
        <3>6. indexed' = "reading" /\ link' = 0 /\ chain' = chain /\ entry' = entry /\ answers' = answers
            BY <2>7, <3>5 DEF CheckDepth
        <3>7. ChainFollows'
            BY <2>1, <3>1, <3>6 DEF ChainFollows
        <3> QED BY <2>2, <2>4, <3>2, <3>6, <3>7 DEF IndexedFollows
    <2>8. CASE ReadLink
        <3>1. /\ indexed = "reading" /\ IsSeq(chain) /\ Len(chain) \in 1 .. Len(index) /\ ChainFollows
              /\ link \in 0 .. Len(chain) /\ link < Len(chain) /\ link \in Nat
              /\ chain[1].kind = KEYFRAME_KIND /\ (link # 0 => composed = d[chain[link].offset].state)
            BY <2>8 DEF ReadLink, WalkStands, IndexedFollows
        <3>2. PICK e : e = chain[link + 1]
            OBVIOUS
        <3>3. link + 1 \in 1 .. Len(chain)
            BY <2>3, <3>1
        <3>4. Faithful(d, e)
            BY <2>3, <3>1, <3>2, <3>3 DEF ChainFollows
        <3>5. e.kind # KEYFRAME_KIND => composed = d[e.reference].state
            <4>1. CASE link = 0
                BY <3>1, <3>2, <4>1
            <4>2. CASE link # 0
                <5>1. link + 1 \in 2 .. Len(chain) /\ link + 1 - 1 = link
                    BY <3>1, <3>3, <4>2
                <5>2. e.reference = chain[link].offset
                    BY <3>1, <3>2, <5>1 DEF ChainFollows
                <5> QED BY <3>1, <4>2, <5>2
            <4> QED BY <4>1, <4>2
        <3>6. LinkAccepted(e) /\ LinkState(e) = d[e.offset].state
            BY <3>4, <3>5, LinkTaken DEF Certified
        <3>7. /\ composed' = d[e.offset].state /\ link' = link + 1 /\ indexed' = "reading" /\ chain' = chain
              /\ entry' = entry /\ answers' = answers
            BY <2>8, <3>1, <3>2, <3>6 DEF ReadLink
        <3>8. ChainFollows'
            BY <2>1, <3>1, <3>7 DEF ChainFollows
        <3>9. composed' = d[chain'[link'].offset].state
            BY <3>2, <3>7
        <3> QED BY <2>2, <2>4, <3>1, <3>7, <3>8, <3>9 DEF IndexedFollows
    <2>9. CASE AnswerEntry
        <3>1. /\ indexed = "reading" /\ Len(chain) \in 1 .. Len(index) /\ ChainFollows /\ entry \in DOMAIN index
              /\ link = Len(chain) /\ link # 0 /\ composed = d[chain[link].offset].state
            BY <2>3, <2>9 DEF AnswerEntry, WalkStands, IndexedFollows
        <3>2. composed = d[index[entry].offset].state
            BY <3>1 DEF ChainFollows
        <3>3. answers' = Extended(answers, entry, composed) /\ indexed' = "walking" /\ chain' = <<>>
            BY <2>9 DEF AnswerEntry
        <3>4. \A k \in DOMAIN answers' : k \in DOMAIN index /\ answers'[k] = d[index[k].offset].state
            <4> SUFFICES ASSUME NEW k \in DOMAIN answers'
                         PROVE  k \in DOMAIN index /\ answers'[k] = d[index[k].offset].state
                OBVIOUS
            <4>1. k \in DOMAIN answers \cup {entry} /\ answers'[k] = IF k = entry THEN composed ELSE answers[k]
                BY <3>3 DEF Extended
            <4> QED BY <3>1, <3>2, <4>1 DEF IndexedFollows
        <3> QED BY <2>1, <2>2, <3>3, <3>4 DEF IndexedFollows
    <2>10. CASE FinishIndexed
        <3>1. indexed = "walking" /\ indexed' = "ok" /\ answers' = answers
            BY <2>10 DEF FinishIndexed
        <3> QED BY <2>2, <2>4, <3>1 DEF IndexedFollows
    <2> QED BY <1>2, <2>5, <2>6, <2>7, <2>8, <2>9, <2>10 DEF DecodeIndexed
<1> QED BY <1>1, <1>2

----------------------------------------------------------------------------
(* The invariant of the three together                                     *)

FollowsEach == \A d : Certified(d) => IndexedFollows(d)

FInv == EInv /\ VInv /\ FollowsEach

LEMMA InitFInv == Init => FInv
<1> SUFFICES ASSUME Init PROVE FInv
    OBVIOUS
<1>1. VInv
    BY DEF Init, ValidatorWaiting, VInv
<1>2. FollowsEach
    BY DEF Init, ReadersWaiting, NoAnswers, FollowsEach, IndexedFollows
<1> QED BY InitEInv, <1>1, <1>2 DEF FInv

LEMMA FollowsEachKept ==
    ASSUME EInv, FollowsEach, [Next]_vars
    PROVE  FollowsEach'
<1>1. UNCHANGED fileVars
    BY StepOfOne DEF EInv
<1>2. ASSUME NEW d, Certified(d)' PROVE IndexedFollows(d)'
    <2>1. SummaryEntries' = SummaryEntries
        BY <1>1, EntriesFrame
    <2>2. Certified(d)
        <3>1. file' = file /\ ending' = ending
            BY <1>1 DEF fileVars
        <3> QED BY <1>1, <1>2, <2>1, <3>1, FileFrame, EntriesFrame DEF Certified
    <2>3. IndexedFollows(d)
        BY <2>2 DEF FollowsEach
    <2>4. CASE DecodeIndexed
        BY <2>2, <2>3, <2>4, IndexedFollowsKept DEF EInv, RInv
    <2>5. CASE UNCHANGED indexedVars
        BY <2>1, <2>3, <2>5 DEF IndexedFollows, ChainFollows, indexedVars
    <2> QED BY <2>4, <2>5, StepOfOne DEF vars
<1> QED BY <1>2 DEF FollowsEach

LEMMA NextFInv == FInv /\ [Next]_vars => FInv'
<1> SUFFICES ASSUME FInv, [Next]_vars PROVE FInv'
    OBVIOUS
<1>1. VInv'
    <2>1. Validate \/ UNCHANGED <<fileVars, validatorVars>>
        BY StepOfOne DEF vars
    <2> QED BY <2>1, ValidateKept, ValidatorFrame DEF FInv, EInv, RInv
<1> QED BY <1>1, NextEInv, FollowsEachKept DEF FInv

\* The states a valid file's index, or its records, composed to, and that each
\* path delivers of them.
LEMMA ValidStates ==
    ASSUME FInv, validated \in {"counting", "valid"}
    PROVE  \E d : /\ Held(d) /\ Composing(d, Len(file) + 1)
                  /\ mode = "streamed" => streamed = "ok"
                  /\ mode = "indexed" => indexed = "ok" /\ Certified(d)
                  /\ mode \in {"streamed", "indexed"}
<1>1. PICK d : Walked(d)
    BY DEF FInv, VInv
<1>2. FileShaped /\ StreamedHolds /\ AnswersWhole /\ IndexedDone /\ StreamedDone
    BY DEF FInv, EInv, RInv, InTurn, IndexedDone
<1>3. /\ mode \in {"streamed", "indexed"} /\ ~LateFrontMatter /\ WalkedToEnd /\ Complete
    BY DEF FInv, VInv
<1>4. CASE mode = "streamed"
    <2>1. Decoding(d, Len(file) + 1)
        <3>1. visit \in 1 .. Len(file) + 1 /\ visit > Len(file) /\ Len(file) \in Nat /\ Decoding(d, visit)
            BY <1>1, <1>2, <1>3, <1>4 DEF Walked, StreamedWalk, WalkedToEnd, FileShaped, IsSeq
        <3>2. visit = Len(file) + 1
            BY <3>1
        <3> QED BY <3>1, <3>2
    <2>2. Decodable
        BY <1>3, <1>4, <2>1 DEF Decodable, Complete
    <2>3. streamed = "ok"
        BY <1>2, <2>2 DEF StreamedHolds, StreamedDone
    <2> QED BY <1>1, <1>4, <2>1, <2>3 DEF Walked, Decoding
<1>5. CASE mode = "indexed"
    <2>1. Certified(d)
        BY <1>1, <1>2, <1>3, <1>5, CertifiedAtEnd
    <2>2. indexed = "ok"
        BY <1>2, <2>1 DEF FInv, FollowsEach, IndexedFollows, IndexedDone
    <2> QED BY <1>1, <1>5, <2>1, <2>2 DEF Walked, Certified
<1> QED BY <1>3, <1>4, <1>5

\* A file that passes validate_streamed is decoded by decode_streamed, one that
\* passes validate_indexed by decode_indexed: what the validator asks of records
\* and entries implies what the reader of that path asks.
THEOREM ValidFilesAreRead == Spec => []ValidFilesDecode
<1>1. FInv => ValidFilesDecode
    BY ValidStates DEF ValidFilesDecode
<1> QED BY InitFInv, NextFInv, <1>1, PTL DEF Spec

\* The two paths deliver one timeline of a file that is valid indexed: the state
\* sought to through the index is the state streamed to.
THEOREM ValidFilesHaveOneTimeline == Spec => []ValidFilesAgree
<1>1. FInv => ValidFilesAgree
    <2> SUFFICES ASSUME FInv, validated = "valid", mode = "indexed", streamed = "ok", indexed = "ok",
                        NEW k \in DOMAIN answers
                 PROVE  index[k].offset \in DOMAIN decoded /\ answers[k] = decoded[index[k].offset].state
        BY DEF ValidFilesAgree
    <2>1. PICK d : Composing(d, Len(file) + 1) /\ Certified(d)
        BY ValidStates
    <2>2. IndexedFollows(d)
        BY <2>1 DEF FInv, FollowsEach
    <2>3. k \in DOMAIN index /\ answers[k] = d[index[k].offset].state /\ index = SummaryEntries
        BY <2>2 DEF IndexedFollows
    <2>4. index[k].offset \in DOMAIN d
        BY <2>1, <2>3 DEF Certified, Faithful
    <2>5. DOMAIN d = DOMAIN decoded
        BY <2>1 DEF FInv, EInv, RInv, StreamedHolds, Decoding, Composing
    <2>6. decoded[index[k].offset] = d[index[k].offset]
        BY <2>1, <2>4, <2>5 DEF FInv, EInv, RInv, StreamedHolds
    <2> QED BY <2>3, <2>4, <2>5, <2>6
<1> QED BY InitFInv, NextFInv, <1>1, PTL DEF Spec

\* The counter `4dgs validate` keeps counts lives: in a valid file no gaussian
\* has two, and the Header declares as many as have one.
THEOREM ValidFilesCountLives == Spec => []CountedIdsAreLives
<1>1. FInv => CountedIdsAreLives
    <2> SUFFICES ASSUME FInv, validated = "valid", streamed = "ok"
                 PROVE  /\ \A g \in Id : LivesOf(g) = introduced[g] /\ LivesOf(g) <= 1
                        /\ header.gaussian_count = Cardinality({g \in Id : LivesOf(g) = 1})
        BY DEF CountedIdsAreLives
    <2>1. PICK d : Held(d) /\ Composing(d, Len(file) + 1)
        BY ValidStates
    <2>2. Composing(decoded, Len(file) + 1) /\ \A o \in DOMAIN decoded : decoded[o] = d[o]
        BY <2>1 DEF FInv, EInv, RInv, StreamedHolds, Decoding
    <2>3. DOMAIN d = DOMAIN decoded /\ IsFiniteSet(DOMAIN d)
        BY <2>1, <2>2, FiniteStates DEF Composing, FInv, EInv, RInv
    <2>4. ASSUME NEW g \in Id PROVE LivesOf(g) = introduced[g] /\ introduced[g] \in Nat
        <3>1. LivesOf(g) = Cardinality(Births(decoded, g))
            BY DEF LivesOf, Births
        <3>2. Births(decoded, g) = Births(d, g)
            BY <2>2, <2>3 DEF Births
        <3>3. introduced[g] = Cardinality(Births(d, g))
            BY <2>1 DEF Held
        <3>4. Births(d, g) \subseteq DOMAIN d
            BY DEF Births
        <3>5. Cardinality(Births(d, g)) \in Nat
            BY <2>3, <3>4, FS_Subset, FS_CardinalityType
        <3> QED BY <3>1, <3>2, <3>3, <3>5
    <2>5. IdentitiesCount
        BY DEF FInv, VInv
    <2>6. {g \in Id : LivesOf(g) = 1} = {g \in Id : introduced[g] > 0}
        <3>1. ASSUME NEW g \in Id PROVE LivesOf(g) = 1 <=> introduced[g] > 0
            <4>1. introduced[g] \in Nat /\ introduced[g] <= 1 /\ LivesOf(g) = introduced[g]
                BY <2>4, <2>5 DEF IdentitiesCount
            <4> QED BY <4>1
        <3> QED BY <3>1
    <2> QED BY <2>4, <2>5, <2>6 DEF IdentitiesCount
<1> QED BY InitFInv, NextFInv, <1>1, PTL DEF Spec
=============================================================================
