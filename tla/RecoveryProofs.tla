--------------------------- MODULE RecoveryProofs ---------------------------
(***************************************************************************)
(* What a cut file gives back (RecoveryHolds): with recovery asked for,    *)
(* the chunks and the gaussians of a streamed read whose bytes end early   *)
(* are the beginning of the scene the whole file holds.  And that there is *)
(* something to give back (CutsRecover): a cut of a file that reads whole  *)
(* is answered once its Header and its Quantization have arrived.          *)
(***************************************************************************)
EXTENDS SceneReadersProofs

----------------------------------------------------------------------------
(***************************************************************************)
(* Runs.  A read of a whole file is a fold; here it becomes a run, one state*)
(* after each record, which a read that is cut short can be compared with. *)
(***************************************************************************)
\* A function that reads the records at any set of positions, as a fold over sets does.
ReadSolves(f, o, m, it) ==
    \A u \in SUBSET (1 .. m) : it[u] = IF u = {} THEN Opened(o) ELSE OnRecord(it[u \ {Max(u)}], f[Max(u)])

\* A function that reads the records at every set of the first n positions exists: it is built one position at a time.
LEMMA ReadsExist ==
    ASSUME NEW n \in Nat, NEW f, NEW o
    PROVE  \E it : it = [u \in SUBSET (1 .. n) |-> it[u]] /\ ReadSolves(f, o, n, it)
<1> DEFINE P == {m \in 0 .. n : \E it : it = [u \in SUBSET (1 .. m) |-> it[u]] /\ ReadSolves(f, o, m, it)}
<1>1. 0 \in P
    <2>1. PICK it : it = [v \in SUBSET (1 .. 0) |-> Opened(o)]
        OBVIOUS
    <2>2. \A v \in SUBSET (1 .. 0) : v = {}
        OBVIOUS
    <2>3. it = [v \in SUBSET (1 .. 0) |-> it[v]]
        BY <2>1
    <2>4. \A v \in SUBSET (1 .. 0) : it[v] = Opened(o)
        BY <2>1
    <2>5. ReadSolves(f, o, 0, it) /\ 0 \in 0 .. n
        BY <2>2, <2>4 DEF ReadSolves
    <2> QED BY <2>3, <2>5
<1>2. ASSUME NEW m \in 1 .. n, m - 1 \in P PROVE m \in P
    <2>1. PICK it : it = [u \in SUBSET (1 .. m - 1) |-> it[u]] /\ ReadSolves(f, o, m - 1, it)
        BY <1>2
    <2>2. \A v \in SUBSET (1 .. m) : m \notin v => v \in SUBSET (1 .. m - 1)
        OBVIOUS
    <2>3. PICK g : g = [v \in SUBSET (1 .. m) |-> IF m \in v THEN OnRecord(it[v \ {m}], f[m]) ELSE it[v]]
        OBVIOUS
    <2>4. g = [v \in SUBSET (1 .. m) |-> g[v]]
        BY <2>3
    <2>5. ASSUME NEW v \in SUBSET (1 .. m)
          PROVE  g[v] = IF v = {} THEN Opened(o) ELSE OnRecord(g[v \ {Max(v)}], f[Max(v)])
        <3>1. CASE m \in v
            <4>1. Max(v) = m /\ m \notin v \ {m} /\ v \ {m} \in SUBSET (1 .. m)
                BY <3>1, MaxIs
            <4>2. PICK t : t = v \ {m}
                OBVIOUS
            <4>3. g[t] = it[t]
                BY <2>3, <4>1, <4>2
            <4>4. v # {} /\ g[v] = OnRecord(it[t], f[m])
                BY <2>3, <3>1, <4>2
            <4>5. g[v] = OnRecord(g[t], f[m])
                BY ONLY <4>3, <4>4
            <4> QED BY <4>1, <4>2, <4>4, <4>5
        <3>2. CASE m \notin v
            <4>1. v \in SUBSET (1 .. m - 1) /\ g[v] = it[v]
                BY <2>2, <2>3, <3>2
            <4>2. PICK t : t = v \ {Max(v)}
                OBVIOUS
            <4>3. t \in SUBSET (1 .. m) /\ m \notin t
                BY <3>2, <4>2
            <4>4. g[t] = it[t]
                BY <2>3, <4>3
            <4> QED BY <2>1, <4>1, <4>2, <4>4 DEF ReadSolves
        <3> QED BY <3>1, <3>2
    <2>6. ReadSolves(f, o, m, g)
        BY ONLY <2>5 DEF ReadSolves
    <2>7. m \in 0 .. n
        OBVIOUS
    <2> QED BY <2>4, <2>6, <2>7
<1> HIDE DEF P
<1>3. n \in 0 .. n
    OBVIOUS
<1>4. n \in P
    BY <1>1, <1>2, <1>3, Ascend
<1> QED BY <1>4 DEF P

\* The state of a read after each of the records of f.
Runs(f, o, g) == g[0] = Opened(o) /\ \A k \in 1 .. Len(f) : g[k] = OnRecord(g[k - 1], f[k])

\* OnRecord folded over a file (read_from_with_limits's loop over all of it) ends where the
\* run of the file ends: a run with a state after each record.
LEMMA ReadRuns ==
    ASSUME NEW f, IsSeq(f), NEW o
    PROVE  \E g : Runs(f, o, g) /\ FoldLeft(OnRecord, Opened(o), f) = g[Len(f)]
<1>1. PICK n \in Nat : n = Len(f)
    BY DEF IsSeq
<1>2. DOMAIN f = 1 .. n
    BY <1>1 DEF IsSeq
<1> DEFINE Iter == CHOOSE it : it = [u \in SUBSET (1 .. n) |->
                       IF u = {} THEN Opened(o) ELSE OnRecord(it[u \ {Max(u)}], f[Max(u)])]
<1>3. FoldLeft(OnRecord, Opened(o), f) = Iter[1 .. n]
    BY <1>2 DEF FoldLeft, MapThenFoldSet
<1>4. PICK it : it = [u \in SUBSET (1 .. n) |-> it[u]] /\ ReadSolves(f, o, n, it)
    BY ReadsExist
<1>5. it = [u \in SUBSET (1 .. n) |-> IF u = {} THEN Opened(o) ELSE OnRecord(it[u \ {Max(u)}], f[Max(u)])]
    BY <1>4 DEF ReadSolves
<1>6. Iter = [u \in SUBSET (1 .. n) |-> IF u = {} THEN Opened(o) ELSE OnRecord(Iter[u \ {Max(u)}], f[Max(u)])]
    BY <1>5
<1> HIDE DEF Iter
<1>7. ReadSolves(f, o, n, Iter)
    BY <1>6 DEF ReadSolves
<1>8. PICK g : g = [k \in 0 .. n |-> Iter[1 .. k]]
    OBVIOUS
<1>9. g[0] = Opened(o) /\ g[n] = Iter[1 .. n]
    <2>1. 1 .. 0 = {} /\ {} \in SUBSET (1 .. n) /\ 0 \in 0 .. n /\ n \in 0 .. n
        OBVIOUS
    <2>2. Iter[{}] = Opened(o)
        BY <1>7, <2>1 DEF ReadSolves
    <2> QED BY <1>8, <2>1, <2>2
<1>10. ASSUME NEW k \in 1 .. n PROVE g[k] = OnRecord(g[k - 1], f[k])
    <2>1. PICK u : u = 1 .. k
        OBVIOUS
    <2>2. u \in SUBSET (1 .. k) /\ k \in u /\ k \in Nat /\ u \in SUBSET (1 .. n) /\ u # {}
        <3>1. k \in u /\ k \in Nat
            BY <2>1
        <3>2. \A j \in u : j \in 1 .. k /\ j \in 1 .. n
            BY <2>1
        <3> QED BY <3>1, <3>2
    <2>3. Max(u) = k
        BY ONLY <2>2, MaxIs
    <2>4. u \ {k} = 1 .. k - 1
        BY ONLY <2>1, k \in 1 .. n, n \in Nat
    <2>7. k - 1 \in 0 .. n /\ k \in 0 .. n
        OBVIOUS
    <2>5. Iter[u] = OnRecord(Iter[1 .. k - 1], f[k])
        BY <1>7, <2>2, <2>3, <2>4 DEF ReadSolves
    <2>6. g[k] = Iter[u] /\ g[k - 1] = Iter[1 .. k - 1]
        BY <1>8, <2>1, <2>7
    <2> QED BY <2>5, <2>6
<1> QED BY <1>1, <1>3, <1>9, <1>10 DEF Runs

----------------------------------------------------------------------------
(***************************************************************************)
(* What is decoded is kept.  No record changes a chunk before the last one,*)
(* or the last one but by adding bands, or a Header that is there.         *)
(***************************************************************************)
\* c and d are the same chunk but for their bands.
ButBands(c, d) == c.offset = d.offset /\ c.t0 = d.t0 /\ c.t1 = d.t1 /\ c.rows = d.rows

\* b begins with a.
Begins(a, b) == Len(a) <= Len(b) /\ \A i \in 1 .. Len(a) : b[i] = a[i]

\* b maps what a maps, and to the same.
MapKept(a, b) == DOMAIN a \subseteq DOMAIN b /\ \A i \in DOMAIN a : b[i] = a[i]

\* What the fields hold that a later record may add to.
Lists == Counted \cup {"intervals", "skipped"}
Maps == {"sources", "payloads"}

\* What x has in the field f it still has in y.
Carried(x, y, f) ==
    /\ f = "options" => y[f] = x[f]
    /\ f \in Ones => (IsSome(x[f]) => IsSome(y[f]))
    /\ f \in Lists => Begins(x[f], y[f])
    /\ f \in Maps => MapKept(x[f], y[f])

Extends(x, y) == \A f \in Fields : Carried(x, y, f)

ListsAre(x) == \A f \in Lists : IsSeq(x[f])

\* The lists of a reader that reads are lists.
LEMMA ListsAreSeqs ==
    ASSUME NEW x, Sound(x), Reading(x)
    PROVE  ListsAre(x)
<1>1. ListsTyped(x)
    BY ReadingIsNot DEF Sound, Typed
<1> QED BY <1>1 DEF ListsAre, Lists, ListsTyped, ListTyped

\* A field that stays is carried.
LEMMA SameCarried ==
    ASSUME NEW x, NEW y, NEW f, y[f] = x[f], f \in Lists => IsSeq(x[f])
    PROVE  Carried(x, y, f)
BY DEF Carried, Begins, MapKept, IsSeq

\* A step that carries the fields it changes extends the reader.
LEMMA OnlyExtends ==
    ASSUME NEW x, ListsAre(x), NEW y, NEW S, Only(x, y, S), \A f \in S : Carried(x, y, f)
    PROVE  Extends(x, y)
<1> SUFFICES ASSUME NEW f \in Fields PROVE Carried(x, y, f)
    BY DEF Extends
<1>1. CASE f \in S
    BY <1>1
<1>2. CASE f \notin S
    <2>1. y[f] = x[f]
        BY <1>2 DEF Only
    <2>2. f \in Lists => IsSeq(x[f])
        BY DEF ListsAre
    <2> QED BY <2>1, <2>2, SameCarried
<1> QED BY <1>1, <1>2

\* The fields nothing is asked of.
Loose == Fields \ (Ones \cup Lists \cup Maps \cup {"options"})

\* Nothing is asked of a field no rule and no bound reads.
LEMMA LooseCarried ==
    ASSUME NEW x, NEW y, NEW f \in Loose
    PROVE  Carried(x, y, f)
BY DEF Loose, Carried

\* A value more in a list.
LEMMA AppendCarried ==
    ASSUME NEW x, ListsAre(x), NEW y, NEW f \in Lists, NEW v, y[f] = Append(x[f], v)
    PROVE  Carried(x, y, f)
<1>1. f \notin Ones /\ f \notin Maps /\ f # "options"
    BY DEF Lists, Counted, Ones, Maps
<1>2. PICK a, b : a = x[f] /\ b = y[f]
    OBVIOUS
<1>3. IsSeq(a) /\ b = Append(a, v)
    BY <1>2 DEF ListsAre
<1>4. PICK n \in Nat : n = Len(a)
    BY <1>3 DEF IsSeq
<1>5. Len(b) = n + 1 /\ \A i \in 1 .. n : b[i] = a[i]
    BY <1>3, <1>4, AppendIsSeq
<1>6. Begins(a, b)
    BY <1>4, <1>5 DEF Begins
<1> QED BY <1>1, <1>2, <1>6 DEF Carried

\* A record where there may have been one.
LEMMA SomeCarried ==
    ASSUME NEW x, NEW y, NEW f \in Ones, NEW v, y[f] = Some(v)
    PROVE  Carried(x, y, f)
<1>1. f \notin Lists /\ f \notin Maps /\ f # "options"
    BY DEF Lists, Counted, Ones, Maps
<1>2. IsSome(y[f])
    <2>1. Some(v) # <<>>
        BY DEF Some
    <2> QED BY <2>1 DEF IsSome, None
<1> QED BY <1>1, <1>2 DEF Carried

\* A record filed under a key that had none.
LEMMA FiledCarried ==
    ASSUME NEW x, NEW y, NEW f \in Maps, NEW k, k \notin DOMAIN x[f], NEW v, y[f] = Filed(x[f], k, v)
    PROVE  Carried(x, y, f)
<1>1. f \notin Lists /\ f \notin Ones /\ f # "options"
    BY DEF Lists, Counted, Ones, Maps
<1>2. MapKept(x[f], y[f])
    BY DEF MapKept, Filed
<1> QED BY <1>1, <1>2 DEF Carried

\* What a reader at x has decoded is kept as it was at y, but that the last chunk may have got more
\* bands; and what it holds besides is still held.
Grown(x, y) ==
    /\ Len(x.chunks) <= Len(y.chunks)
    /\ \A i \in 1 .. Len(x.chunks) :
        /\ ButBands(x.chunks[i], y.chunks[i])
        /\ x.chunks[i].bands \subseteq y.chunks[i].bands
        /\ i # Len(x.chunks) => x.chunks[i].bands = y.chunks[i].bands
    /\ IsSome(x.header) => y.header = x.header
    /\ Extends(x, y)

RowsAreSeqs(x) == \A i \in 1 .. Len(x.chunks) : IsSeq(x.chunks[i].rows)

\* A step that touches neither the chunks nor a Header once there is one.
Keeps(x, y) == y.chunks = x.chunks /\ (IsSome(x.header) => y.header = x.header) /\ Extends(x, y)

Grows(x, y) == Grown(x, y) /\ (RowsAreSeqs(x) => RowsAreSeqs(y))

\* A step that leaves the chunks and the Header alone keeps what is decoded.
LEMMA KeptGrows ==
    ASSUME NEW x, NEW y, Len(x.chunks) \in Nat, Keeps(x, y)
    PROVE  Grows(x, y)
BY DEF Keeps, Grows, Grown, RowsAreSeqs, ButBands

Besides == Chargeable \ {"chunks", "header"}

\* So does one that changes other fields only,
LEMMA OnlyKeeps ==
    ASSUME NEW x, ListsAre(x), NEW y, NEW S, Only(x, y, S), "chunks" \notin S, "header" \notin S,
           \A f \in S : Carried(x, y, f)
    PROVE  Keeps(x, y)
<1>1. Extends(x, y)
    BY OnlyExtends
<1> QED BY <1>1 DEF Only, Keeps, Fields

\* one that charges bytes for another field,
LEMMA ChargedKeeps ==
    ASSUME NEW x, ListsAre(x), NEW y, NEW f \in Besides, NEW bytes, Charges(x, y, {"retained", f}, bytes), Reading(y),
           Carried(x, y, f)
    PROVE  Keeps(x, y)
<1>1. Only(x, y, {"retained", f})
    BY DEF Charges
<1>2. PICK S : S = {"retained", f}
    OBVIOUS
<1>3. Only(x, y, S) /\ "chunks" \notin S /\ "header" \notin S
    BY <1>1, <1>2 DEF Besides
<1>4. "retained" \in Loose
    BY DEF Loose, Fields, Ones, Lists, Counted, Maps
<1>5. \A e \in S : Carried(x, y, e)
    BY <1>2, <1>4, LooseCarried
<1> QED BY <1>3, <1>5, OnlyKeeps

\* a push onto one of the other lists (the pushes of read_from_with_limits, stream_reader.rs),
LEMMA PushKeeps ==
    ASSUME NEW x, Sound(x), Reading(x), NEW f \in Besides, f \in Lists, NEW v, NEW bytes, Reading(Push(x, f, v, bytes))
    PROVE  Keeps(x, Push(x, f, v, bytes))
<1>1. PICK y : y = Push(x, f, v, bytes)
    OBVIOUS
<1>2. f \in Chargeable /\ IsScan(x)
    BY DEF Besides, Sound
<1>3. PICK d : Charges(x, y, {"retained", f}, d) /\ y[f] = Append(x[f], v)
    BY <1>1, <1>2, PushCharges DEF Pushed
<1>4. ListsAre(x)
    BY ListsAreSeqs
<1>5. Carried(x, y, f)
    BY <1>3, <1>4, AppendCarried
<1> QED BY <1>1, <1>3, <1>4, <1>5, ChargedKeeps

\* a field set once its bytes are charged,
LEMMA SetKeeps ==
    ASSUME NEW x, Sound(x), Reading(x), NEW f \in Besides, NEW v, NEW bytes, NEW c, c = Retain(x, bytes),
           NEW y, SetIf(c, f, v, y), Reading(y), y[f] = v => Carried(x, y, f)
    PROVE  Keeps(x, y)
<1>1. Charges(x, c, {"retained"}, bytes)
    BY RetainCharges DEF Sound
<1>2. f \in Chargeable
    BY DEF Besides
<1>3. Charges(x, y, {"retained", f}, bytes) /\ (Reading(y) => y[f] = v)
    BY ONLY <1>1, <1>2, SetIf(c, f, v, y), SetCharges
<1>4. ListsAre(x)
    BY ListsAreSeqs
<1> QED BY <1>3, <1>4, ChargedKeeps

\* a record that replaces the one held (the first Header among them),
LEMMA ReplaceKeeps ==
    ASSUME NEW x, Sound(x), Reading(x), NEW f \in Ones, f = "header" => ~IsSome(x.header), NEW r, r.op = OpOf[f],
           Reading(Replace(x, f, r))
    PROVE  Keeps(x, Replace(x, f, r))
<1>1. PICK y : y = Replace(x, f, r)
    OBVIOUS
<1>2. f \in Chargeable /\ IsScan(x) /\ x.retained \in Int
    BY ReadingIsNot DEF Chargeable, Fields, Ones, Sound, Typed
<1>3. Weight[r.op] \in Int
    <2>1. OpOf[f] \in Weighed
        BY DEF Ones, OpOf, Weighed, FrontMatter, SummaryRecords
    <2> QED BY <2>1, WeighedInt
<1>4. PICK d : Charges(x, y, {"retained", f}, d) /\ y[f] = Some(r)
    BY <1>1, <1>2, <1>3, ReplaceCharges
<1>5. Only(x, y, {"retained", f})
    BY <1>1, <1>4 DEF Charges
<1>8. Extends(x, y)
    <2>1. ListsAre(x)
        BY ListsAreSeqs
    <2>2. PICK S : S = {"retained", f}
        OBVIOUS
    <2>3. "retained" \in Loose
        BY DEF Loose, Fields, Ones, Lists, Counted, Maps
    <2>4. Carried(x, y, f)
        BY <1>4, SomeCarried
    <2>5. \A e \in S : Carried(x, y, e)
        BY <2>2, <2>3, <2>4, LooseCarried
    <2>6. Only(x, y, S)
        BY <1>5, <2>2
    <2> QED BY <2>1, <2>5, <2>6, OnlyExtends
<1>6. y.chunks = x.chunks
    BY <1>5 DEF Only, Fields, Ones
<1>7. f # "header" => y.header = x.header
    BY <1>5 DEF Only, Fields, Ones
<1> QED BY <1>1, <1>6, <1>7, <1>8 DEF Keeps

\* the legacy audio record, charged before the one it replaces is released,
LEMMA AudioKeeps ==
    ASSUME NEW x, Sound(x), Reading(x), NEW r, Reading(OnAudio(x, r))
    PROVE  Keeps(x, OnAudio(x, r))
<1>1. IsScan(x)
    BY DEF Sound
<1>2. PICK c : c = Retain(x, Weight[r.op])
    OBVIOUS
<1>3. PICK w : w = Weight[r.op]
    OBVIOUS
<1>4. Charges(x, c, {"retained"}, w)
    BY <1>1, <1>2, <1>3, RetainCharges
<1>5. CASE ~Reading(c)
    BY <1>2, <1>5 DEF OnAudio
<1>6. CASE Reading(c)
    <2>1. Only(x, c, {"retained"})
        BY <1>4, <1>6 DEF Charges
    <2>2. PICK h : h = IF IsSome(c.legacy) THEN w ELSE 0
        OBVIOUS
    <2>3. PICK z : z = Release(c, h)
        OBVIOUS
    <2>4. Only(c, z, {"retained"})
        BY <2>1, <2>3, ReleaseCharges DEF Only
    <2>5. c.legacy = x.legacy
        BY <2>1 DEF Only, Fields
    <2>6. OnAudio(x, r) = [z EXCEPT !.legacy = Some(r)]
        BY <1>2, <1>3, <1>6, <2>2, <2>3, <2>5 DEF OnAudio
    <2>7. PICK y : y = [z EXCEPT !.legacy = Some(r)]
        OBVIOUS
    <2>8. Only(z, y, {"legacy"})
        <3>1. IsScan(z)
            BY <2>4 DEF Only
        <3> QED BY <2>7, <3>1 DEF Only, IsScan, Fields
    <2>9. y.chunks = x.chunks /\ y.header = x.header
        BY <2>1, <2>4, <2>8 DEF Only, Fields
    <2>10. Only(x, y, {"retained", "legacy"})
        BY <2>1, <2>4, <2>8 DEF Only
    <2>11. y.legacy = Some(r)
        BY <2>4, <2>7 DEF Only, IsScan, Fields
    <2>12. PICK S : S = {"retained", "legacy"}
        OBVIOUS
    <2>13. "retained" \in Loose /\ "legacy" \in Ones
        BY DEF Loose, Fields, Ones, Lists, Counted, Maps
    <2>14. \A e \in S : Carried(x, y, e)
        BY <2>11, <2>12, <2>13, LooseCarried, SomeCarried
    <2>15. Extends(x, y)
        <3>1. ListsAre(x) /\ Only(x, y, S)
            BY <2>10, <2>12, ListsAreSeqs
        <3> QED BY <2>14, <3>1, OnlyExtends
    <2> QED BY <2>6, <2>7, <2>9, <2>15 DEF Keeps
<1> QED BY <1>5, <1>6

\* and the audio descriptors, the payloads and the object table.
LEMMA SingleKeeps ==
    ASSUME NEW x, Sound(x), Reading(x), NEW r, NEW y, Reading(y),
           \/ y = OnAudioSource(x, r)
           \/ y = OnAudioData(x, r)
           \/ y = OnObjectTable(x, r)
    PROVE  Keeps(x, y)
<1>1. IsScan(x) /\ ~Reading(Refused(x))
    BY Gives DEF Sound, Reading
<1>2. {"sources", "payloads", "table"} \subseteq Besides
    BY DEF Besides, Chargeable, Fields
<1>3. CASE y = OnAudioSource(x, r)
    <2>1. PICK c : c = Retain(x, Weight[r.op] + NODE)
        OBVIOUS
    <2>2. r.id \notin DOMAIN x.sources /\ y = IF Reading(c) THEN [c EXCEPT !.sources = Filed(@, r.id, r)] ELSE c
        BY <1>1, <1>3, <2>1 DEF OnAudioSource
    <2>3. PICK v : v = Filed(c.sources, r.id, r)
        OBVIOUS
    <2>4. SetIf(c, "sources", v, y)
        BY <2>2, <2>3 DEF SetIf
    <2>5. Reading(c) => c.sources = x.sources
        <3>1. Charges(x, c, {"retained"}, Weight[r.op] + NODE)
            BY <1>1, <2>1, RetainCharges
        <3> QED BY <3>1 DEF Charges, Only, Fields
    <2>6. Reading(c)
        BY <2>2
    <2>7. y.sources = v => Carried(x, y, "sources")
        BY <2>2, <2>3, <2>5, <2>6, FiledCarried DEF Maps
    <2> QED BY <1>1, <1>2, <2>1, <2>4, <2>7, SetKeeps
<1>4. CASE y = OnAudioData(x, r)
    <2>1. PICK c : c = Retain(x, Weight[r.op] + NODE)
        OBVIOUS
    <2>2. r.id \notin DOMAIN x.payloads /\ y = IF Reading(c) THEN [c EXCEPT !.payloads = Filed(@, r.id, r)] ELSE c
        BY <1>1, <1>4, <2>1 DEF OnAudioData
    <2>3. PICK v : v = Filed(c.payloads, r.id, r)
        OBVIOUS
    <2>4. SetIf(c, "payloads", v, y)
        BY <2>2, <2>3 DEF SetIf
    <2>5. Reading(c) => c.payloads = x.payloads
        <3>1. Charges(x, c, {"retained"}, Weight[r.op] + NODE)
            BY <1>1, <2>1, RetainCharges
        <3> QED BY <3>1 DEF Charges, Only, Fields
    <2>6. Reading(c)
        BY <2>2
    <2>7. y.payloads = v => Carried(x, y, "payloads")
        BY <2>2, <2>3, <2>5, <2>6, FiledCarried DEF Maps
    <2> QED BY <1>1, <1>2, <2>1, <2>4, <2>7, SetKeeps
<1>5. CASE y = OnObjectTable(x, r)
    <2>1. PICK c : c = Retain(x, Weight[r.op])
        OBVIOUS
    <2>2. y = IF Reading(c) THEN [c EXCEPT !.table = Some(r)] ELSE c
        BY <1>1, <1>5, <2>1 DEF OnObjectTable
    <2>3. PICK v : v = Some(r)
        OBVIOUS
    <2>4. SetIf(c, "table", v, y)
        BY <2>2, <2>3 DEF SetIf
    <2>5. y.table = v => Carried(x, y, "table")
        BY <2>3, SomeCarried DEF Ones
    <2> QED BY <1>1, <1>2, <2>1, <2>4, <2>5, SetKeeps
<1> QED BY <1>3, <1>4, <1>5

\* What a record r does to the chunks: a Chunk adds one without bands, a band gets where it was not,
\* and the Footer is only seen when it comes.
Marks(x, y, r) ==
    /\ Len(y.chunks) = Len(x.chunks) + (IF r.op = "CHUNK" THEN 1 ELSE 0)
    /\ r.op = "CHUNK" => y.chunks[Len(x.chunks) + 1].bands = {}
    /\ \A i \in 1 .. Len(x.chunks) : \A b \in y.chunks[i].bands :
          b \notin x.chunks[i].bands => r.op = "SH_BAND_STREAM" /\ r.band = b
    /\ y.saw_footer => x.saw_footer \/ r.op = "FOOTER"

\* A record that leaves the chunks alone and is no Chunk marks nothing.
LEMMA KeptMarks ==
    ASSUME NEW x, Len(x.chunks) \in Nat, NEW y, y.chunks = x.chunks, NEW r, r.op # "CHUNK",
           y.saw_footer => x.saw_footer \/ r.op = "FOOTER"
    PROVE  Marks(x, y, r)
BY DEF Marks

\* A Chunk is decoded behind the chunks there are, which stay as they were.
LEMMA ChunkGrows ==
    ASSUME NEW x, Sound(x), Reading(x), NEW r, r.op = "CHUNK", IsSeq(r.rows), Reading(OnChunk(x, r))
    PROVE  Grows(x, OnChunk(x, r)) /\ (OnChunk(x, r).saw_footer = x.saw_footer => Marks(x, OnChunk(x, r), r))
<1>1. Typed(x) /\ IsScan(x) /\ x.decoded \in Int
    BY ReadingIsNot DEF Sound, Typed
<1>2. PICK n \in Nat : n = Len(x.chunks)
    BY <1>1 DEF Typed, ChunksTyped, IsSeq
<1>3. PICK here : here = [offset |-> x.at, t0 |-> r.t0, t1 |-> r.t1, rows |-> r.rows, bands |-> {}]
    OBVIOUS
<1>4. ChunkTyped(here)
    BY <1>3, FS_EmptySet DEF ChunkTyped, IsSeq
<1>5. PICK b \in Int : b = ChunkBytes(here)
    BY <1>4, ChunkBytesInt
<1>6. PICK g \in Int : g = Slots(n + 1) - Slots(n)
    <2>1. Slots(n) \in Int /\ Slots(n + 1) \in Int
        BY SlotsInt
    <2> QED BY <2>1
<1>7. PICK c0 : c0 = Decode(x, b)
    OBVIOUS
<1>8. PICK c1, c2 : c1 = PushDecoded(c0, n) /\ c2 = PushDecoded(c1, n)
    OBVIOUS
<1>9. PICK c3, c4 : c3 = PushDecoded(c2, n) /\ c4 = PushDecoded(c3, n)
    OBVIOUS
<1>10. \E e : Decodes(x, c4, e)
    <2>1. Decodes(x, c0, b)
        BY <1>1, <1>7, DecodeDecodes
    <2>2. ASSUME NEW z, NEW e \in Int, Decodes(x, z, e)
          PROVE  Decodes(x, PushDecoded(z, n), e + g)
        <3>1. Slots(n + 1) - Slots(n) \in Int
            BY <1>6
        <3>2. Decodes(x, PushDecoded(z, n), e + (Slots(n + 1) - Slots(n)))
            BY <1>1, <2>2, <3>1, PushDecodes
        <3> QED BY <1>6, <3>2
    <2>3. Decodes(x, c1, b + g)
        BY <1>8, <2>1, <2>2
    <2>4. Decodes(x, c2, b + g + g)
        BY <1>8, <2>2, <2>3
    <2>5. Decodes(x, c3, b + g + g + g)
        BY <1>9, <2>2, <2>4
    <2>6. Decodes(x, c4, b + g + g + g + g)
        BY <1>9, <2>2, <2>5
    <2> QED BY <2>6
<1>11. PICK y : y = OnChunk(x, r)
    OBVIOUS
<1>12. PICK kept : kept = Push(c4, "intervals", <<r.t0, r.t1>>, 0)
    OBVIOUS
<1>13. y = IF x.quantization = None \/ ~WindowsExist(r.rows, IF IsSome(x.windows) THEN x.windows[1].windows ELSE <<>>)
           THEN Refused(x)
           ELSE IF ~Reading(c4) THEN c4
           ELSE IF Reading(kept)
                THEN [kept EXCEPT !.chunks = Append(@, here), !.masks = Append(@, {})]
                ELSE kept
    BY <1>2, <1>3, <1>5, <1>7, <1>8, <1>9, <1>11, <1>12 DEF OnChunk
<1>14. ~Reading(Refused(x)) /\ Reading(y)
    BY <1>1, <1>11, Gives DEF Reading
<1>15. Reading(c4) /\ Reading(kept) /\ y = [kept EXCEPT !.chunks = Append(kept.chunks, here),
                                                   !.masks = Append(kept.masks, {})]
    BY <1>13, <1>14
<1>16. Only(x, c4, {"decoded"}) /\ IsScan(c4)
    BY <1>10, <1>15 DEF Decodes
<1>17. Pushed(c4, kept, "intervals", <<r.t0, r.t1>>, 0)
    <2>1. "intervals" \in Chargeable
        BY DEF Chargeable, Fields
    <2> QED BY <1>12, <1>15, <1>16, <2>1, PushCharges
<1>18. Only(c4, kept, {"retained", "intervals"}) /\ IsScan(kept)
    BY <1>15, <1>17 DEF Pushed, Charges
<1>19. kept.chunks = x.chunks /\ kept.header = x.header
    BY <1>16, <1>18 DEF Only, Fields
<1>20. y.chunks = Append(x.chunks, here) /\ y.header = x.header /\ Only(kept, y, {"chunks", "masks"})
    <2>1. PICK p, q : p = Append(kept.chunks, here) /\ q = Append(kept.masks, {})
        OBVIOUS
    <2>2. SetTwo(kept, "chunks", p, "masks", q, y)
        BY <1>15, <2>1 DEF SetTwo
    <2>3. "chunks" \in Fields /\ "masks" \in Fields /\ IsScan(kept)
        BY <1>18 DEF Fields
    <2>4. Only(kept, y, {"chunks", "masks"}) /\ y.chunks = p
        BY ONLY <2>2, <2>3, TwoSet
    <2> QED BY <1>19, <2>1, <2>4 DEF Only, Fields
<1>21. /\ Len(y.chunks) = n + 1
       /\ \A k \in 1 .. n : y.chunks[k] = x.chunks[k]
       /\ y.chunks[n + 1] = here
    <2>1. IsSeq(x.chunks)
        BY <1>1 DEF Typed, ChunksTyped
    <2> QED BY <1>2, <1>20, <2>1, AppendIsSeq
<1>24. Extends(x, y)
    <2>1. ListsAre(x)
        BY ListsAreSeqs
    <2>2. PICK S : S = {"decoded", "retained", "intervals", "chunks", "masks"}
        OBVIOUS
    <2>3. Only(x, y, S)
        BY <1>16, <1>18, <1>20, <2>2 DEF Only
    <2>4. y.intervals = Append(x.intervals, <<r.t0, r.t1>>)
        BY <1>15, <1>16, <1>17, <1>20 DEF Pushed, Only, Fields
    <2>5. Carried(x, y, "intervals")
        BY <2>1, <2>4, AppendCarried DEF Lists
    <2>6. {"decoded", "retained", "chunks", "masks"} \subseteq Loose
        BY DEF Loose, Fields, Ones, Lists, Counted, Maps
    <2>7. \A f \in S : Carried(x, y, f)
        BY <2>2, <2>5, <2>6, LooseCarried
    <2> QED BY <2>1, <2>3, <2>7, OnlyExtends
<1>22. Grown(x, y)
    BY <1>2, <1>20, <1>21, <1>24 DEF Grown, ButBands
<1>25. y.saw_footer = x.saw_footer => Marks(x, y, r)
    BY <1>2, <1>3, <1>21 DEF Marks
<1>23. RowsAreSeqs(x) => RowsAreSeqs(y)
    <2> SUFFICES ASSUME RowsAreSeqs(x), NEW i \in 1 .. n + 1 PROVE IsSeq(y.chunks[i].rows)
        BY <1>21 DEF RowsAreSeqs
    <2>1. CASE i \in 1 .. n
        BY <1>2, <1>21, <2>1 DEF RowsAreSeqs
    <2>2. CASE i = n + 1
        BY <1>3, <1>21, <2>2
    <2> QED BY <2>1, <2>2
<1> QED BY <1>11, <1>22, <1>23, <1>25 DEF Grows

\* A band goes to the last chunk, and to no chunk before it.
LEMMA BandGrows ==
    ASSUME NEW x, Sound(x), Reading(x), NEW r, r.op = "SH_BAND_STREAM", Reading(OnShBandStream(x, r))
    PROVE  /\ Grows(x, OnShBandStream(x, r))
           /\ OnShBandStream(x, r).saw_footer = x.saw_footer => Marks(x, OnShBandStream(x, r), r)
<1>1. Typed(x) /\ IsScan(x)
    BY ReadingIsNot DEF Sound
<1>2. PICK n \in Nat : n = Len(x.chunks)
    BY <1>1 DEF Typed, ChunksTyped, IsSeq
<1>3. PICK masked : masked = [x EXCEPT !.masks[n] = @ \cup {r.band}]
    OBVIOUS
<1>4. PICK bytes : bytes = ROW * Len(x.chunks[n].rows) + NODE
    OBVIOUS
<1>5. PICK c : c = Decode(masked, bytes)
    OBVIOUS
<1>6. PICK y : y = OnShBandStream(x, r)
    OBVIOUS
<1>7. \/ y = Refused(x)
      \/ y = x
      \/ y = masked
      \/ n # 0 /\ y = IF Reading(c) THEN [c EXCEPT !.chunks[n].bands = @ \cup {r.band}] ELSE c
    BY <1>2, <1>3, <1>4, <1>5, <1>6 DEF OnShBandStream
<1>8. y # Refused(x)
    BY <1>1, <1>6, Gives DEF Reading
<1>9. Only(x, masked, {"masks"})
    <2>1. PICK p : p = [x.masks EXCEPT ![n] = @ \cup {r.band}]
        OBVIOUS
    <2>2. masked = [x EXCEPT !.masks = p]
        BY <1>3, <2>1
    <2> QED BY <1>1, <2>2 DEF Only, IsScan, Fields
<1>10. Len(x.chunks) \in Nat
    BY <1>2
<1>14. ListsAre(x)
    BY ListsAreSeqs
<1>15. {"masks", "decoded", "chunks"} \subseteq Loose
    BY DEF Loose, Fields, Ones, Lists, Counted, Maps
<1>11. CASE y = x
    <2>1. Only(x, y, {})
        BY <1>1, <1>11 DEF Only, IsScan, Fields
    <2>2. Extends(x, y)
        BY <1>14, <2>1, OnlyExtends
    <2>3. Keeps(x, y)
        BY <1>11, <2>2 DEF Keeps
    <2>4. y.chunks = x.chunks
        BY <1>11
    <2>5. y.saw_footer = x.saw_footer => Marks(x, y, r)
        BY <1>10, <2>4, KeptMarks
    <2> QED BY <1>6, <1>10, <2>3, <2>5, KeptGrows
<1>12. CASE y = masked
    <2>1. PICK S : S = {"masks"}
        OBVIOUS
    <2>2. Only(x, y, S) /\ \A f \in S : Carried(x, y, f)
        BY <1>9, <1>12, <1>15, <2>1, LooseCarried
    <2>3. Extends(x, y)
        BY <1>14, <2>2, OnlyExtends
    <2>4. Keeps(x, y)
        BY <1>9, <1>12, <2>3 DEF Only, Keeps, Fields
    <2>5. y.chunks = x.chunks
        BY <2>4 DEF Keeps
    <2>6. y.saw_footer = x.saw_footer => Marks(x, y, r)
        BY <1>10, <2>5, KeptMarks
    <2> QED BY <1>6, <1>10, <2>4, <2>6, KeptGrows
<1>13. CASE n # 0 /\ y = IF Reading(c) THEN [c EXCEPT !.chunks[n].bands = @ \cup {r.band}] ELSE c
    <2>1. IsScan(masked) /\ Reading(masked)
        BY <1>9 DEF Only, Reading, Fields
    <2>2. Decodes(masked, c, bytes)
        BY <1>5, <2>1, DecodeDecodes
    <2>3. Reading(c)
        BY <1>6, <1>13
    <2>4. Only(masked, c, {"decoded"})
        BY <2>2, <2>3 DEF Decodes
    <2>5. c.chunks = x.chunks /\ c.header = x.header /\ IsScan(c)
        BY <1>9, <2>4 DEF Only, Fields
    <2>6. PICK q : q = [x.chunks EXCEPT ![n].bands = @ \cup {r.band}]
        OBVIOUS
    <2>7. y.chunks = q /\ y.header = x.header /\ Only(c, y, {"chunks"})
        <3>1. y = [c EXCEPT !.chunks = q]
            BY <1>13, <2>3, <2>5, <2>6
        <3> QED BY <2>5, <3>1 DEF IsScan, Fields, Only
    <2>8. IsSeq(x.chunks) /\ n \in 1 .. n /\ ChunkTyped(x.chunks[n])
        BY <1>1, <1>2, <1>13 DEF Typed, ChunksTyped
    <2>9. PICK u, v : u = x.chunks[n] /\ v = [u EXCEPT !.bands = @ \cup {r.band}]
        OBVIOUS
    <2>10. ButBands(u, v) /\ u.bands \subseteq v.bands /\ v.rows = u.rows
        <3>1. u = [offset |-> u.offset, t0 |-> u.t0, t1 |-> u.t1, rows |-> u.rows, bands |-> u.bands]
            BY <2>8, <2>9 DEF ChunkTyped
        <3> QED BY <2>9, <3>1 DEF ButBands
    <2>11. q = [k \in 1 .. n |-> IF k = n THEN v ELSE x.chunks[k]]
        <3>1. x.chunks = [k \in 1 .. n |-> x.chunks[k]]
            BY <1>2, <2>8 DEF IsSeq
        <3> QED BY <2>6, <2>8, <2>9, <3>1
    <2>12. Len(q) = n
        BY <2>11
    <2>15. Extends(x, y)
        <3>1. PICK S : S = {"masks", "decoded", "chunks"}
            OBVIOUS
        <3>2. Only(x, y, S)
            BY <1>9, <2>4, <2>7, <3>1 DEF Only
        <3>3. \A f \in S : Carried(x, y, f)
            BY <1>15, <3>1, LooseCarried
        <3> QED BY <1>14, <3>2, <3>3, OnlyExtends
    <2>13. Grown(x, y)
        BY <1>2, <2>7, <2>9, <2>10, <2>11, <2>12, <2>15 DEF Grown, ButBands
    <2>16. v.bands = u.bands \cup {r.band}
        <3>1. u = [offset |-> u.offset, t0 |-> u.t0, t1 |-> u.t1, rows |-> u.rows, bands |-> u.bands]
            BY <2>8, <2>9 DEF ChunkTyped
        <3> QED BY <2>9, <3>1
    <2>17. y.saw_footer = x.saw_footer => Marks(x, y, r)
        <3>1. ASSUME NEW i \in 1 .. n, NEW b \in q[i].bands, b \notin x.chunks[i].bands PROVE r.band = b
            BY <2>9, <2>11, <2>16, <3>1
        <3> QED BY <1>2, <2>7, <2>12, <3>1 DEF Marks
    <2>14. RowsAreSeqs(x) => RowsAreSeqs(y)
        BY <1>2, <2>7, <2>9, <2>10, <2>11, <2>12 DEF RowsAreSeqs
    <2> QED BY <1>6, <2>13, <2>14, <2>17 DEF Grows
<1> QED BY <1>7, <1>8, <1>11, <1>12, <1>13

\* Every handler keeps what is decoded.
LEMMA HandledGrows ==
    ASSUME NEW x, Sound(x), Reading(x), NEW r, r.op = "CHUNK" => IsSeq(r.rows), Reading(Handled(x, r))
    PROVE  Grows(x, Handled(x, r)) /\ Marks(x, Handled(x, r), r)
<1>1. PICK y : y = Handled(x, r)
    OBVIOUS
<1>2. IsScan(x) /\ ~Reading(Refused(x)) /\ Reading(y) /\ y # Refused(x)
    BY <1>1, Gives DEF Sound, Reading
<1>3. Len(x.chunks) \in Nat
    BY ReadingIsNot DEF Sound, Typed, ChunksTyped, IsSeq
<1>12. y.saw_footer => x.saw_footer \/ r.op = "FOOTER"
    <2>1. r.op = "CHUNK" => Len(r.rows) \in Nat
        BY DEF IsSeq
    <2>2. r.op # "FOOTER" => Handles(x, y)
        BY <1>1, <2>1, HandledHandles
    <2> QED BY <1>2, <2>2 DEF Handles, Steady
<1>13. ASSUME Keeps(x, y), r.op # "CHUNK" PROVE Grows(x, y) /\ Marks(x, y, r)
    <2>1. y.chunks = x.chunks
        BY <1>13 DEF Keeps
    <2> QED BY <1>3, <1>12, <1>13, <2>1, KeptGrows, KeptMarks
<1>14. r.op \in {"CHUNK", "SH_BAND_STREAM"} => Handles(x, y)
    <2>1. r.op = "CHUNK" => Len(r.rows) \in Nat
        BY DEF IsSeq
    <2> QED BY <1>1, <2>1, HandledHandles
<1>15. r.op \in {"CHUNK", "SH_BAND_STREAM"} => y.saw_footer = x.saw_footer
    BY <1>2, <1>14 DEF Handles, Steady
<1>4. CASE r.op = "CHUNK"
    <2>1. y = OnChunk(x, r)
        BY <1>1, <1>4 DEF Handled
    <2> QED BY <1>1, <1>2, <1>4, <1>15, <2>1, ChunkGrows
<1>5. CASE r.op = "SH_BAND_STREAM"
    <2>1. y = OnShBandStream(x, r)
        BY <1>1, <1>5 DEF Handled
    <2> QED BY <1>1, <1>2, <1>5, <1>15, <2>1, BandGrows
<1>6. CASE r.op \in {"AUDIO_SOURCE", "AUDIO_DATA", "OBJECT_TABLE"}
    <2>1. y = OnAudioSource(x, r) \/ y = OnAudioData(x, r) \/ y = OnObjectTable(x, r)
        BY <1>1, <1>6 DEF Handled
    <2>2. Keeps(x, y)
        BY <1>2, <2>1, SingleKeeps
    <2> QED BY <1>1, <1>6, <1>13, <2>2
<1>7. CASE r.op = "AUDIO"
    <2>1. Keeps(x, y)
        BY <1>1, <1>2, <1>7, AudioKeeps DEF Handled
    <2> QED BY <1>1, <1>7, <1>13, <2>1
<1>8. CASE r.op \in {"HEADER", "QUANTIZATION", "WINDOW_TABLE", "CAMERA", "STATISTICS"}
    <2>1. \E f \in Ones : y = Replace(x, f, r) /\ r.op = OpOf[f] /\ (f = "header" => ~IsSome(x.header))
        <3>1. {"header", "quantization", "windows", "camera", "statistics"} \subseteq Ones
            BY DEF Ones
        <3>2. CASE r.op = "HEADER"
            BY <1>1, <1>2, <3>1, <3>2 DEF Handled, OnHeader, OpOf
        <3>3. CASE r.op = "QUANTIZATION"
            BY <1>1, <1>2, <3>1, <3>3 DEF Handled, OnQuantization, OpOf
        <3>4. CASE r.op = "WINDOW_TABLE"
            BY <1>1, <1>2, <3>1, <3>4 DEF Handled, OnWindowTable, OpOf
        <3>5. CASE r.op = "CAMERA"
            BY <1>1, <1>2, <3>1, <3>5 DEF Handled, OnCamera, OpOf
        <3>6. CASE r.op = "STATISTICS"
            BY <1>1, <1>2, <3>1, <3>6 DEF Handled, OnStatistics, OpOf
        <3> QED BY <1>8, <3>2, <3>3, <3>4, <3>5, <3>6
    <2>2. Keeps(x, y)
        BY <1>2, <2>1, ReplaceKeeps
    <2> QED BY <1>1, <1>8, <1>13, <2>2
<1>9. CASE r.op = "FOOTER"
    <2>1. Only(x, y, {"saw_footer", "crc_ok"})
        <3>1. PICK v : v = IF r.summary_start # 0 /\ r.crc # Digest(<<>>) /\ x.tail_start = r.summary_start
                              /\ x.tail_start + Len(x.tail) = x.at
                           THEN Some(Digest(x.tail) = r.crc) ELSE x.crc_ok
            OBVIOUS
        <3>2. y = [x EXCEPT !.saw_footer = TRUE, !.crc_ok = v]
            BY <1>1, <1>9, <3>1 DEF Handled, OnFooter
        <3> QED BY <1>2, <3>2 DEF Only, IsScan, Fields
    <2>3. PICK S : S = {"saw_footer", "crc_ok"}
        OBVIOUS
    <2>4. S \subseteq Loose
        BY <2>3 DEF Loose, Fields, Ones, Lists, Counted, Maps
    <2>5. Extends(x, y)
        <3>1. ListsAre(x) /\ Only(x, y, S) /\ \A f \in S : Carried(x, y, f)
            BY <2>1, <2>3, <2>4, ListsAreSeqs, LooseCarried
        <3> QED BY <3>1, OnlyExtends
    <2>2. Keeps(x, y)
        BY <2>1, <2>5 DEF Only, Keeps, Fields
    <2> QED BY <1>1, <1>9, <1>13, <2>2
<1>10. CASE r.op \in {"METADATA", "ATTACHMENT", "COORDINATE_FRAME", "SENSOR_CALIBRATION", "GEODETIC_ANCHOR",
                      "SUMMARY_OFFSET", "RIG_TRAJECTORY", "OBJECT_TRACK", "CHUNK_INDEX"}
    <2>1. y = x \/ \E f \in Besides : f \in Lists /\ y = Push(x, f, r, Weight[r.op])
        <3>1. {"metadata", "attachments", "frames", "sensors", "anchors", "offsets", "rigs", "tracks", "index"}
              \subseteq Besides \cap Lists
            BY DEF Besides, Chargeable, Fields, Lists, Counted
        <3>2. CASE r.op = "METADATA"
            BY <1>1, <3>1, <3>2 DEF Handled, OnMetadata
        <3>3. CASE r.op = "ATTACHMENT"
            BY <1>1, <3>1, <3>3 DEF Handled, OnAttachment
        <3>4. CASE r.op = "COORDINATE_FRAME"
            BY <1>1, <3>1, <3>4 DEF Handled, OnCoordinateFrame
        <3>5. CASE r.op = "SENSOR_CALIBRATION"
            BY <1>1, <3>1, <3>5 DEF Handled, OnSensorCalibration
        <3>6. CASE r.op = "GEODETIC_ANCHOR"
            BY <1>1, <3>1, <3>6 DEF Handled, OnGeodeticAnchor
        <3>7. CASE r.op = "SUMMARY_OFFSET"
            BY <1>1, <3>1, <3>7 DEF Handled, OnSummaryOffset
        <3>8. CASE r.op = "RIG_TRAJECTORY"
            BY <1>1, <3>1, <3>8 DEF Handled, OnRigTrajectory
        <3>9. CASE r.op = "OBJECT_TRACK"
            BY <1>1, <3>1, <3>9 DEF Handled, OnObjectTrack
        <3>10. CASE r.op = "CHUNK_INDEX"
            BY <1>1, <1>2, <3>1, <3>10 DEF Handled, OnChunkIndex
        <3> QED BY <1>10, <3>2, <3>3, <3>4, <3>5, <3>6, <3>7, <3>8, <3>9, <3>10
    <2>2. Keeps(x, y)
        <3>1. CASE y = x
            <4>1. Only(x, y, {}) /\ ListsAre(x)
                BY <1>2, <3>1, ListsAreSeqs DEF Only, IsScan, Fields
            <4>2. Extends(x, y)
                BY <4>1, OnlyExtends
            <4> QED BY <3>1, <4>2 DEF Keeps
        <3>2. CASE \E f \in Besides : f \in Lists /\ y = Push(x, f, r, Weight[r.op])
            BY <1>2, <3>2, PushKeeps
        <3> QED BY <2>1, <3>1, <3>2
    <2> QED BY <1>1, <1>10, <1>13, <2>2
<1>11. CASE r.op \notin {"HEADER", "QUANTIZATION", "WINDOW_TABLE", "AUDIO_SOURCE", "AUDIO_DATA", "AUDIO", "CAMERA",
                         "STATISTICS", "OBJECT_TABLE", "CHUNK", "SH_BAND_STREAM", "CHUNK_INDEX", "METADATA", "ATTACHMENT",
                         "COORDINATE_FRAME", "SENSOR_CALIBRATION", "GEODETIC_ANCHOR", "SUMMARY_OFFSET",
                         "RIG_TRAJECTORY", "OBJECT_TRACK", "FOOTER"}
    <2>1. y = Push(x, "skipped", r.op, 0) /\ "skipped" \in Besides /\ "skipped" \in Lists
        BY <1>1, <1>11 DEF Handled, Besides, Chargeable, Fields, Lists
    <2>2. Keeps(x, y)
        BY <1>2, <2>1, PushKeeps
    <2> QED BY <1>1, <1>11, <1>13, <2>2
<1> QED BY <1>4, <1>5, <1>6, <1>7, <1>8, <1>9, <1>10, <1>11

\* So does a turn of the loop.
LEMMA TurnGrows ==
    ASSUME NEW x, Sound(x), Reading(x), NEW r, r.op = "CHUNK" => IsSeq(r.rows), Reading(OnRecord(x, r))
    PROVE  Grows(x, OnRecord(x, r)) /\ Marks(x, OnRecord(x, r), r)
<1>1. PICK y, here : y = OnRecord(x, r) /\ here = Arrived(x, r)
    OBVIOUS
<1>2. Only(x, here, {"at", "state_seen", "tail", "tail_start"})
    BY <1>1, ArrivedIs DEF Sound
<1>3. here.chunks = x.chunks /\ here.header = x.header
    BY <1>2 DEF Only, Fields
<1>4. y = Handled(here, r) /\ Sound(here) /\ Reading(here) /\ Reading(y)
    BY <1>1, TurnIs, ArrivedSound DEF IsSeq
<1>5. Grows(here, y) /\ Marks(here, y, r)
    BY <1>4, HandledGrows
<1>6. here.saw_footer = x.saw_footer
    BY <1>2 DEF Only, Fields
<1>7. Extends(x, y)
    <2>1. ASSUME NEW f \in Fields PROVE Carried(x, y, f)
        <3>1. Carried(here, y, f)
            BY <1>5 DEF Grows, Grown, Extends
        <3>2. f \in Lists \cup Ones \cup Maps \cup {"options"} => here[f] = x[f]
            BY <1>2 DEF Only, Fields, Lists, Counted, Ones, Maps
        <3> QED BY <3>1, <3>2 DEF Carried
    <2> QED BY <2>1 DEF Extends
<1>8. Marks(x, y, r)
    BY <1>3, <1>5, <1>6 DEF Marks
<1> QED BY <1>1, <1>3, <1>5, <1>7, <1>8 DEF Grows, Grown, RowsAreSeqs

----------------------------------------------------------------------------
(***************************************************************************)
(* The run of a file grows: each of its states is a beginning of the last. *)
(***************************************************************************)
\* What is carried twice is carried.
LEMMA ExtendsTrans ==
    ASSUME NEW x, ListsAre(x), NEW y, ListsAre(y), NEW z, ListsAre(z), Extends(x, y), Extends(y, z)
    PROVE  Extends(x, z)
<1> SUFFICES ASSUME NEW f \in Fields PROVE Carried(x, z, f)
    BY DEF Extends
<1>1. Carried(x, y, f) /\ Carried(y, z, f)
    BY DEF Extends
<1>2. PICK a, b, c : a = x[f] /\ b = y[f] /\ c = z[f]
    OBVIOUS
<1>3. CASE f \in Lists
    <2>1. IsSeq(a) /\ IsSeq(b) /\ IsSeq(c) /\ Begins(a, b) /\ Begins(b, c)
        BY <1>1, <1>2, <1>3 DEF Carried, ListsAre
    <2>2. Begins(a, c)
        <3>1. PICK m \in Nat, n \in Nat, l \in Nat : m = Len(a) /\ n = Len(b) /\ l = Len(c)
            BY <2>1 DEF IsSeq
        <3>2. m <= n /\ n <= l
            BY <2>1, <3>1 DEF Begins
        <3>3. \A i \in 1 .. m : i \in 1 .. n
            BY <3>2
        <3>4. \A i \in 1 .. m : c[i] = a[i]
            BY <2>1, <3>1, <3>3 DEF Begins
        <3> QED BY <3>1, <3>2, <3>4 DEF Begins
    <2>3. f \notin Ones /\ f \notin Maps /\ f # "options"
        BY <1>3 DEF Lists, Counted, Ones, Maps
    <2> QED BY <1>2, <2>2, <2>3 DEF Carried
<1>4. CASE f \in Maps
    <2>1. MapKept(a, b) /\ MapKept(b, c)
        BY <1>1, <1>2, <1>4 DEF Carried
    <2>2. MapKept(a, c)
        BY <2>1 DEF MapKept
    <2>3. f \notin Ones /\ f \notin Lists /\ f # "options"
        BY <1>4 DEF Lists, Counted, Ones, Maps
    <2> QED BY <1>2, <2>2, <2>3 DEF Carried
<1>5. CASE f \notin Lists /\ f \notin Maps
    BY <1>1, <1>5 DEF Carried
<1> QED BY <1>3, <1>4, <1>5

\* What is kept from x to y and from y to z is kept from x to z.
LEMMA GrownTrans ==
    ASSUME NEW x, NEW y, NEW z, Len(x.chunks) \in Nat, Len(y.chunks) \in Nat, Len(z.chunks) \in Nat,
           ListsAre(x), ListsAre(y), ListsAre(z), Grown(x, y), Grown(y, z)
    PROVE  Grown(x, z)
<1>5. Extends(x, z)
    BY ExtendsTrans DEF Grown
<1>1. Len(x.chunks) <= Len(y.chunks) /\ Len(y.chunks) <= Len(z.chunks)
    BY DEF Grown
<1>2. ASSUME NEW i \in 1 .. Len(x.chunks)
      PROVE  /\ ButBands(x.chunks[i], z.chunks[i])
             /\ x.chunks[i].bands \subseteq z.chunks[i].bands
             /\ i # Len(x.chunks) => x.chunks[i].bands = z.chunks[i].bands
    <2>1. i \in 1 .. Len(y.chunks)
        BY <1>1
    <2>2. i # Len(x.chunks) => i # Len(y.chunks)
        BY <1>1
    <2>3. ButBands(x.chunks[i], y.chunks[i]) /\ ButBands(y.chunks[i], z.chunks[i])
        BY <2>1 DEF Grown
    <2>4. x.chunks[i].bands \subseteq y.chunks[i].bands /\ y.chunks[i].bands \subseteq z.chunks[i].bands
        BY <2>1 DEF Grown
    <2>5. i # Len(x.chunks) => x.chunks[i].bands = y.chunks[i].bands /\ y.chunks[i].bands = z.chunks[i].bands
        BY <2>1, <2>2 DEF Grown
    <2> QED BY <2>3, <2>4, <2>5 DEF ButBands
<1>3. IsSome(x.header) => z.header = x.header
    BY DEF Grown
<1>4. Len(x.chunks) <= Len(z.chunks)
    BY <1>1
<1> QED BY <1>2, <1>3, <1>4, <1>5 DEF Grown

\* The rows of a Chunk are a list.
LEMMA RowsAre ==
    ASSUME NEW f \in FILES, NEW i \in 1 .. Len(f), f[i].op = "CHUNK"
    PROVE  IsSeq(f[i].rows)
<1>1. i \in DOMAIN f
    BY FileIs DEF IsSeq
<1>2. PICK R : R = Range(f[i].rows)
    OBVIOUS
<1>3. f[i].rows \in Seq(R)
    BY <1>1, <1>2, FileAssumption
<1> QED BY <1>3, SeqIsSeq

\* One turn of a run.
LEMMA RunTurns ==
    ASSUME NEW f \in FILES, NEW o, NEW g, Runs(f, o, g), NEW k \in 1 .. Len(f),
           Sound(g[k - 1]), Reading(g[k - 1]) \/ g[k - 1].outcome = "refused",
           Reading(g[k - 1]) => RowsAreSeqs(g[k - 1])
    PROVE  /\ Sound(g[k])
           /\ Reading(g[k]) \/ g[k].outcome = "refused"
           /\ Reading(g[k]) => /\ Reading(g[k - 1]) /\ Grown(g[k - 1], g[k]) /\ RowsAreSeqs(g[k])
                              /\ Marks(g[k - 1], g[k], f[k])
<1>1. PICK x, y, r : x = g[k - 1] /\ y = g[k] /\ r = f[k]
    OBVIOUS
<1>2. y = OnRecord(x, r)
    BY <1>1 DEF Runs
<1>3. CASE ~Reading(x)
    <2>1. y = x
        BY <1>2, <1>3 DEF OnRecord
    <2> QED BY <1>1, <1>3, <2>1
<1>4. CASE Reading(x)
    <2>1. r.op = "CHUNK" => IsSeq(r.rows)
        BY <1>1, RowsAre
    <2>2. Sound(y) /\ (~Reading(y) => y.outcome = "refused")
        BY <1>1, <1>2, <1>4, <2>1, TurnIs DEF IsSeq
    <2>3. Reading(y) => Grows(x, y) /\ Marks(x, y, r)
        BY <1>1, <1>2, <1>4, <2>1, TurnGrows
    <2> QED BY <1>1, <1>4, <2>2, <2>3 DEF Grows
<1> QED BY <1>3, <1>4

\* Every state of a run is a reader's: it reads on or has refused.
LEMMA RunSound ==
    ASSUME NEW f \in FILES, NEW o, NEW g, Runs(f, o, g), NEW k \in 0 .. Len(f)
    PROVE  /\ Sound(g[k])
           /\ Reading(g[k]) \/ g[k].outcome = "refused"
           /\ Reading(g[k]) => RowsAreSeqs(g[k])
<1>1. PICK n \in Nat : n = Len(f)
    BY FileIs DEF IsSeq
<1>2. PICK P : P = {j \in 0 .. n : /\ Sound(g[j])
                                   /\ Reading(g[j]) \/ g[j].outcome = "refused"
                                   /\ Reading(g[j]) => RowsAreSeqs(g[j])}
    OBVIOUS
<1>3. 0 \in P
    <2>1. g[0] = Opened(o) /\ 0 \in 0 .. n
        BY DEF Runs
    <2>2. Sound(g[0]) /\ Reading(g[0])
        BY <2>1, OpenedSound DEF Opened, Reading
    <2>3. RowsAreSeqs(g[0])
        BY <2>1 DEF Opened, RowsAreSeqs
    <2> QED BY <1>2, <2>1, <2>2, <2>3
<1>4. ASSUME NEW j \in 1 .. n, j - 1 \in P PROVE j \in P
    <2>1. j \in 1 .. Len(f) /\ j \in 0 .. n
        BY <1>1
    <2>2. Sound(g[j - 1]) /\ (Reading(g[j - 1]) \/ g[j - 1].outcome = "refused")
          /\ (Reading(g[j - 1]) => RowsAreSeqs(g[j - 1]))
        BY <1>2, <1>4
    <2> QED BY <1>2, <2>1, <2>2, RunTurns
<1>5. 0 .. n \subseteq P
    BY ONLY <1>3, <1>4, n \in Nat, Ascend
<1> QED BY <1>1, <1>2, <1>5

\* The chunks of a reader that reads are a list.
LEMMA SoundLen ==
    ASSUME NEW x, Sound(x), Reading(x)
    PROVE  IsSeq(x.chunks) /\ Len(x.chunks) \in Nat
BY ReadingIsNot DEF Sound, Typed, ChunksTyped, IsSeq

\* Whatever a read not given up yet has held on the way is kept.
LEMMA RunGrows ==
    ASSUME NEW f \in FILES, NEW o, NEW g, Runs(f, o, g), NEW n \in 0 .. Len(f), Reading(g[n]), NEW k \in 0 .. n
    PROVE  Reading(g[k]) /\ Grown(g[k], g[n])
<1>1. n \in Nat /\ \A j \in 0 .. n : j \in 0 .. Len(f)
    BY FileIs DEF IsSeq
<1>2. PICK P : P = {j \in 0 .. n : Reading(g[n - j]) /\ Grown(g[n - j], g[n])}
    OBVIOUS
<1>3. ASSUME NEW j \in 0 .. n, Reading(g[j]) PROVE Len(g[j].chunks) \in Nat /\ ListsAre(g[j])
    BY <1>1, <1>3, RunSound, SoundLen, ListsAreSeqs
<1>4. 0 \in P
    <2>1. n - 0 = n /\ 0 \in 0 .. n /\ n \in 0 .. n /\ Reading(g[n])
        BY <1>1
    <2>3. Extends(g[n], g[n])
        BY <1>3, <2>1, SameCarried DEF Extends, ListsAre
    <2>2. Grows(g[n], g[n])
        BY <1>3, <2>1, <2>3, KeptGrows DEF Keeps
    <2> QED BY <1>2, <2>1, <2>2 DEF Grows
<1>5. ASSUME NEW j \in 1 .. n, j - 1 \in P PROVE j \in P
    <2>1. PICK m \in 1 .. n : m = n - (j - 1)
        BY ONLY <1>1, j \in 1 .. n
    <2>2. n - j = m - 1 /\ m - 1 \in 0 .. n /\ m \in 0 .. n /\ j \in 0 .. n
        BY ONLY <1>1, <2>1, m \in 1 .. n, j \in 1 .. n
    <2>3. Reading(g[m]) /\ Grown(g[m], g[n])
        BY <1>2, <1>5, <2>1
    <2>4. Sound(g[m - 1]) /\ (Reading(g[m - 1]) \/ g[m - 1].outcome = "refused")
          /\ (Reading(g[m - 1]) => RowsAreSeqs(g[m - 1]))
        BY <1>1, <2>2, RunSound
    <2>5. m \in 1 .. Len(f)
        BY ONLY <1>1, <2>2, m \in 1 .. n, f \in FILES, FileIs DEF IsSeq
    <2>6. Reading(g[m - 1]) /\ Grown(g[m - 1], g[m])
        BY <2>3, <2>4, <2>5, RunTurns
    <2>7. /\ Len(g[m - 1].chunks) \in Nat /\ Len(g[m].chunks) \in Nat /\ Len(g[n].chunks) \in Nat
          /\ ListsAre(g[m - 1]) /\ ListsAre(g[m]) /\ ListsAre(g[n])
        <3>1. n \in 0 .. n /\ Reading(g[n])
            BY <1>1
        <3> QED BY <1>3, <2>2, <2>3, <2>6, <3>1
    <2>8. Grown(g[m - 1], g[n])
        BY ONLY <2>3, <2>6, <2>7, GrownTrans
    <2> QED BY <1>2, <2>2, <2>6, <2>8
<1>6. 0 .. n \subseteq P
    BY ONLY <1>1, <1>4, <1>5, Ascend
<1>7. PICK j \in 0 .. n : j = n - k
    BY <1>1
<1>8. n - j = k /\ j \in P
    BY <1>1, <1>6, <1>7
<1> QED BY <1>2, <1>8

----------------------------------------------------------------------------
(***************************************************************************)
(* Flattened lists.  The gaussians of a scene are the rows of its chunks one*)
(* after the other, so the chunks of a cut are compared by their ids.      *)
(***************************************************************************)
\* Lists joined one after the other.
Joins(t, m, h) == \A k \in 1 .. m : h[k] = IF k = 1 THEN t[k] ELSE h[k - 1] \o t[k]

\* The lists of t joined one after the other, up to each of the first n.
LEMMA JoinsExist ==
    ASSUME NEW n \in Nat, NEW t
    PROVE  \E h : h = [k \in 1 .. n |-> h[k]] /\ Joins(t, n, h)
<1> DEFINE P == {m \in 0 .. n : \E h : h = [k \in 1 .. m |-> h[k]] /\ Joins(t, m, h)}
<1>1. 0 \in P
    <2>1. PICK h : h = [k \in 1 .. 0 |-> 0]
        OBVIOUS
    <2>2. h = [k \in 1 .. 0 |-> h[k]]
        BY <2>1
    <2>3. Joins(t, 0, h) /\ 0 \in 0 .. n
        BY DEF Joins
    <2> QED BY <2>2, <2>3
<1>2. ASSUME NEW m \in 1 .. n, m - 1 \in P PROVE m \in P
    <2>1. PICK h : h = [k \in 1 .. m - 1 |-> h[k]] /\ Joins(t, m - 1, h)
        BY <1>2
    <2>2. PICK j : j = [k \in 1 .. m |-> IF k = m THEN (IF m = 1 THEN t[m] ELSE h[m - 1] \o t[m]) ELSE h[k]]
        OBVIOUS
    <2>3. j = [k \in 1 .. m |-> j[k]]
        BY <2>2
    <2>4. ASSUME NEW k \in 1 .. m PROVE j[k] = IF k = 1 THEN t[k] ELSE j[k - 1] \o t[k]
        <3>1. CASE k = m
            <4>1. k # 1 => k - 1 \in 1 .. m /\ k - 1 # m
                BY <3>1
            <4>2. k # 1 => j[k - 1] = h[k - 1]
                BY <2>2, <4>1
            <4>3. j[k] = IF k = 1 THEN t[k] ELSE h[k - 1] \o t[k]
                BY <2>2, <3>1
            <4> QED BY <4>2, <4>3
        <3>2. CASE k # m
            <4>1. k \in 1 .. m - 1 /\ (k # 1 => k - 1 \in 1 .. m /\ k - 1 # m)
                BY <3>2
            <4>2. k # 1 => j[k - 1] = h[k - 1]
                BY <2>2, <4>1
            <4>3. h[k] = IF k = 1 THEN t[k] ELSE h[k - 1] \o t[k]
                BY <2>1, <4>1 DEF Joins
            <4>4. j[k] = h[k]
                BY <2>2, <3>2
            <4> QED BY <4>2, <4>3, <4>4
        <3> QED BY <3>1, <3>2
    <2>5. Joins(t, m, j) /\ m \in 0 .. n
        BY <2>4 DEF Joins
    <2> QED BY <2>3, <2>5
<1> HIDE DEF P
<1>3. n \in 0 .. n
    OBVIOUS
<1>4. n \in P
    BY <1>1, <1>2, <1>3, Ascend
<1> QED BY <1>4 DEF P

\* A list flattened is the last of the lists joined so far.
Flattening(t, n, h) ==
    /\ h[0] = <<>>
    /\ \A k \in 1 .. n : h[k] = h[k - 1] \o t[k]
    /\ \A k \in 0 .. n : IsSeq(h[k])

\* FlattenSeq, a CHOOSE of a recursive function, is the last of the running joins.
LEMMA FlattenRuns ==
    ASSUME NEW n \in Nat, NEW t, IsSeq(t), Len(t) = n, \A i \in 1 .. n : IsSeq(t[i])
    PROVE  \E h : Flattening(t, n, h) /\ FlattenSeq(t) = h[n]
<1>1. CASE n = 0
    <2>1. t = <<>>
        BY <1>1, EmptyIsSeq, SameSeq
    <2>2. FlattenSeq(t) = <<>>
        BY <1>1, <2>1 DEF FlattenSeq
    <2>3. PICK h : h = [k \in 0 .. n |-> <<>>]
        OBVIOUS
    <2>4. h[0] = <<>> /\ h[n] = <<>> /\ \A k \in 0 .. n : h[k] = <<>>
        BY <1>1, <2>3
    <2>5. Flattening(t, n, h)
        BY <1>1, <2>4, EmptyIsSeq DEF Flattening
    <2> QED BY <2>2, <2>4, <2>5
<1>2. CASE n # 0
    <2> DEFINE J == CHOOSE h : h = [k \in 1 .. n |-> IF k = 1 THEN t[k] ELSE h[k - 1] \o t[k]]
    <2>1. FlattenSeq(t) = J[n]
        BY <1>2 DEF FlattenSeq
    <2>2. PICK h : h = [k \in 1 .. n |-> h[k]] /\ Joins(t, n, h)
        BY JoinsExist
    <2>3. h = [k \in 1 .. n |-> IF k = 1 THEN t[k] ELSE h[k - 1] \o t[k]]
        BY <2>2 DEF Joins
    <2>4. J = [k \in 1 .. n |-> IF k = 1 THEN t[k] ELSE J[k - 1] \o t[k]]
        BY <2>3
    <2> HIDE DEF J
    <2>5. Joins(t, n, J)
        BY <2>4 DEF Joins
    <2>6. PICK e : e = [k \in 0 .. n |-> IF k = 0 THEN <<>> ELSE J[k]]
        OBVIOUS
    <2>7. e[0] = <<>> /\ (\A k \in 1 .. n : e[k] = J[k])
        BY <2>6
    <2>8. PICK P : P = {k \in 0 .. n : IsSeq(e[k]) /\ (k # 0 => e[k] = e[k - 1] \o t[k])}
        OBVIOUS
    <2>9. 0 \in P
        BY <2>7, <2>8, EmptyIsSeq
    <2>10. ASSUME NEW k \in 1 .. n, k - 1 \in P PROVE k \in P
        <3>1. IsSeq(e[k - 1]) /\ IsSeq(t[k])
            BY <2>8, <2>10
        <3>2. e[k] = e[k - 1] \o t[k]
            <4>1. CASE k = 1
                <5>1. e[k] = t[k] /\ e[k - 1] = <<>>
                    BY <2>5, <2>7, <4>1 DEF Joins
                <5>2. PICK a, b : a = <<>> /\ b = t[k]
                    OBVIOUS
                <5>3. IsSeq(a) /\ Len(a) = 0 /\ IsSeq(b)
                    BY <3>1, <5>2, EmptyIsSeq
                <5>4. /\ IsSeq(a \o b) /\ Len(a \o b) = Len(b)
                      /\ \A i \in 1 .. Len(b) : (a \o b)[i] = b[i]
                    <6>1. PICK l \in Nat : l = Len(b)
                        BY <5>3 DEF IsSeq
                    <6>2. /\ IsSeq(a \o b) /\ Len(a \o b) = 0 + l
                          /\ \A i \in 1 .. 0 + l : (a \o b)[i] = IF i <= 0 THEN a[i] ELSE b[i - 0]
                        BY <5>3, <6>1, ConcatIsSeq
                    <6>3. \A i \in 1 .. l : ~(i <= 0) /\ i - 0 = i /\ i \in 1 .. 0 + l
                        OBVIOUS
                    <6> QED BY <6>1, <6>2, <6>3
                <5>5. a \o b = b
                    BY <5>3, <5>4, SameSeq
                <5> QED BY <5>1, <5>2, <5>5
            <4>2. CASE k # 1
                <5>1. k - 1 \in 1 .. n
                    BY <4>2
                <5> QED BY <2>5, <2>7, <4>2, <5>1 DEF Joins
            <4> QED BY <4>1, <4>2
        <3>3. IsSeq(e[k])
            BY <3>1, <3>2, ConcatIsSeq
        <3>4. k \in 0 .. n
            OBVIOUS
        <3> QED BY <2>8, <3>2, <3>3, <3>4
    <2>11. 0 .. n \subseteq P
        BY ONLY <2>9, <2>10, n \in Nat, Ascend
    <2>12. Flattening(t, n, e)
        <3>1. \A k \in 1 .. n : k \in 0 .. n /\ k # 0
            OBVIOUS
        <3> QED BY <2>7, <2>8, <2>11, <3>1 DEF Flattening
    <2>13. e[n] = J[n]
        BY <1>2, <2>7
    <2> QED BY <2>1, <2>12, <2>13
<1> QED BY <1>1, <1>2

\* b goes on where a ends, as far as ids go.
Continues(a, b) == Len(a) <= Len(b) /\ \A i \in 1 .. Len(a) : a[i].id = b[i].id
SameIds(a, b) == Len(a) = Len(b) /\ \A i \in 1 .. Len(a) : a[i].id = b[i].id

\* Lists with the same ids, joined to lists with the same ids.
LEMMA JoinedSame ==
    ASSUME NEW a, IsSeq(a), NEW b, IsSeq(b), SameIds(a, b), NEW c, IsSeq(c), NEW d, IsSeq(d), SameIds(c, d)
    PROVE  SameIds(a \o c, b \o d)
<1>1. PICK n \in Nat, m \in Nat : n = Len(a) /\ m = Len(c)
    BY DEF IsSeq
<1>2. /\ Len(a \o c) = n + m
      /\ \A i \in 1 .. n + m : (a \o c)[i] = IF i <= n THEN a[i] ELSE c[i - n]
    BY <1>1, ConcatIsSeq
<1>3. Len(b) = n /\ Len(d) = m
    BY <1>1 DEF SameIds
<1>4. /\ Len(b \o d) = n + m
      /\ \A i \in 1 .. n + m : (b \o d)[i] = IF i <= n THEN b[i] ELSE d[i - n]
    BY <1>3, ConcatIsSeq
<1>5. ASSUME NEW i \in 1 .. n + m PROVE (a \o c)[i].id = (b \o d)[i].id
    <2>1. CASE i <= n
        <3>1. i \in 1 .. n
            BY <2>1
        <3> QED BY <1>1, <1>2, <1>4, <2>1, <3>1 DEF SameIds
    <2>2. CASE ~(i <= n)
        <3>1. i - n \in 1 .. m
            BY <2>2
        <3> QED BY <1>1, <1>2, <1>4, <2>2, <3>1 DEF SameIds
    <2> QED BY <2>1, <2>2
<1> QED BY <1>2, <1>4, <1>5 DEF SameIds

\* If the lists of t have the ids of the first lists of u, the ids of t flattened begin those of u flattened.
LEMMA FlatContinues ==
    ASSUME NEW m \in Nat, NEW n \in Nat, m <= n,
           NEW t, IsSeq(t), Len(t) = m, \A i \in 1 .. m : IsSeq(t[i]),
           NEW u, IsSeq(u), Len(u) = n, \A i \in 1 .. n : IsSeq(u[i]),
           \A i \in 1 .. m : SameIds(t[i], u[i])
    PROVE  IsSeq(FlattenSeq(t)) /\ IsSeq(FlattenSeq(u)) /\ Continues(FlattenSeq(t), FlattenSeq(u))
<1>1. PICK g : Flattening(t, m, g) /\ FlattenSeq(t) = g[m]
    BY FlattenRuns
<1>2. PICK h : Flattening(u, n, h) /\ FlattenSeq(u) = h[n]
    BY FlattenRuns
<1>3. PICK P : P = {k \in 0 .. m : SameIds(g[k], h[k])}
    OBVIOUS
<1>4. 0 \in P
    BY <1>1, <1>2, <1>3, EmptyIsSeq DEF Flattening, SameIds
<1>5. ASSUME NEW k \in 1 .. m, k - 1 \in P PROVE k \in P
    <2>1. k \in 1 .. n /\ k - 1 \in 0 .. m /\ k - 1 \in 0 .. n /\ k \in 0 .. m
        OBVIOUS
    <2>2. g[k] = g[k - 1] \o t[k] /\ h[k] = h[k - 1] \o u[k]
        BY <1>1, <1>2, <2>1 DEF Flattening
    <2>3. IsSeq(g[k - 1]) /\ IsSeq(h[k - 1]) /\ IsSeq(t[k]) /\ IsSeq(u[k])
        BY <1>1, <1>2, <2>1 DEF Flattening
    <2>4. SameIds(g[k - 1], h[k - 1]) /\ SameIds(t[k], u[k])
        BY <1>3, <1>5
    <2> QED BY <1>3, <2>1, <2>2, <2>3, <2>4, JoinedSame
<1>6. 0 .. m \subseteq P
    BY ONLY <1>4, <1>5, m \in Nat, Ascend
<1>7. m \in 0 .. m /\ m \in 0 .. n /\ n \in 0 .. n
    OBVIOUS
<1>8. SameIds(g[m], h[m]) /\ IsSeq(g[m]) /\ IsSeq(h[m]) /\ IsSeq(h[n])
    BY <1>1, <1>2, <1>3, <1>6, <1>7 DEF Flattening
<1>9. PICK l \in Nat : l = Len(h[m])
    BY <1>8 DEF IsSeq
<1>10. PICK Q : Q = {k \in 0 .. n : m <= k => l <= Len(h[k]) /\ \A i \in 1 .. l : h[k][i] = h[m][i]}
    OBVIOUS
<1>11. 0 \in Q
    <2>1. m <= 0 => m = 0
        OBVIOUS
    <2> QED BY <1>9, <1>10, <2>1
<1>12. ASSUME NEW k \in 1 .. n, k - 1 \in Q PROVE k \in Q
    <2>1. k \in 0 .. n /\ k - 1 \in 0 .. n
        OBVIOUS
    <2>2. CASE k < m
        BY <1>10, <2>1, <2>2
    <2>3. CASE k = m
        BY <1>9, <1>10, <2>1, <2>3
    <2>4. CASE m < k
        <3>1. m <= k - 1
            BY <2>4
        <3>2. l <= Len(h[k - 1]) /\ \A i \in 1 .. l : h[k - 1][i] = h[m][i]
            BY <1>10, <1>12, <3>1
        <3>3. IsSeq(h[k - 1]) /\ IsSeq(u[k]) /\ h[k] = h[k - 1] \o u[k]
            BY <1>2, <2>1 DEF Flattening
        <3>4. PICK a \in Nat, b \in Nat : a = Len(h[k - 1]) /\ b = Len(u[k])
            BY <3>3 DEF IsSeq
        <3>5. /\ Len(h[k]) = a + b
              /\ \A i \in 1 .. a + b : h[k][i] = IF i <= a THEN h[k - 1][i] ELSE u[k][i - a]
            <4>1. PICK p, q, r : p = h[k - 1] /\ q = u[k] /\ r = h[k]
                OBVIOUS
            <4>2. IsSeq(p) /\ IsSeq(q) /\ r = p \o q /\ Len(p) = a /\ Len(q) = b
                BY <3>3, <3>4, <4>1
            <4>3. /\ Len(r) = a + b
                  /\ \A i \in 1 .. a + b : r[i] = IF i <= a THEN p[i] ELSE q[i - a]
                BY ONLY <4>2, a \in Nat, b \in Nat, ConcatIsSeq
            <4> QED BY <4>1, <4>3
        <3>6. \A i \in 1 .. l : i \in 1 .. a + b /\ i <= a
            BY <3>2, <3>4
        <3>7. l <= Len(h[k])
            BY <3>2, <3>4, <3>5
        <3> QED BY <1>10, <2>1, <3>2, <3>5, <3>6, <3>7
    <2> QED BY <2>2, <2>3, <2>4
<1>13. 0 .. n \subseteq Q
    BY ONLY <1>11, <1>12, n \in Nat, Ascend
<1>14. l <= Len(h[n]) /\ \A i \in 1 .. l : h[n][i] = h[m][i]
    BY <1>7, <1>10, <1>13
<1>15. Continues(g[m], h[n])
    BY <1>8, <1>9, <1>14 DEF Continues, SameIds
<1> QED BY <1>1, <1>2, <1>8, <1>15

\* The ids of the set assembled from some chunks begin those of the set assembled from more.
IdsBegin(ga, gb) == [i \in DOMAIN ga |-> ga[i].id] = SubSeq([i \in DOMAIN gb |-> gb[i].id], 1, Len(ga))

\* Two assemblies (assemble_with_budgets, stream_reader.rs), of chunks and of more chunks with the
\* same rows at the start: whatever the windows and the degree, the ids of the first begin those of the second.
LEMMA AssemblePrefix ==
    ASSUME NEW a, IsSeq(a), NEW b, IsSeq(b), Len(a) <= Len(b),
           \A i \in 1 .. Len(a) : a[i].rows = b[i].rows, \A i \in 1 .. Len(b) : IsSeq(b[i].rows),
           NEW wa, NEW wb, NEW ha, NEW hb
    PROVE  IdsBegin(AssembleRows(a, wa, ha), AssembleRows(b, wb, hb))
<1> PICK ga, gb : ga = AssembleRows(a, wa, ha) /\ gb = AssembleRows(b, wb, hb)
    OBVIOUS
<1>1. PICK m \in Nat, n \in Nat : m = Len(a) /\ n = Len(b)
    BY DEF IsSeq
<1>2. DOMAIN a = 1 .. m /\ DOMAIN b = 1 .. n /\ m <= n
    BY <1>1 DEF IsSeq
<1>3. PICK da, db : /\ da = IF ha.sh_degree > 0 THEN DegreeOf(a) ELSE 0
                    /\ db = IF hb.sh_degree > 0 THEN DegreeOf(b) ELSE 0
    OBVIOUS
<1>4. PICK t : t = [i \in DOMAIN a |-> [j \in DOMAIN a[i].rows |-> Assembled(a[i].rows[j], wa, da)]]
    OBVIOUS
<1>5. PICK u : u = [i \in DOMAIN b |-> [j \in DOMAIN b[i].rows |-> Assembled(b[i].rows[j], wb, db)]]
    OBVIOUS
<1>6. ga = FlattenSeq(t) /\ gb = FlattenSeq(u)
    BY <1>3, <1>4, <1>5 DEF AssembleRows
<1>8. IsSeq(t) /\ Len(t) = m
    <2>1. t = [i \in 1 .. m |-> t[i]]
        BY <1>2, <1>4
    <2>2. Len(t) = m
        BY <2>1
    <2> QED BY <2>1, <2>2 DEF IsSeq
<1>9. IsSeq(u) /\ Len(u) = n
    <2>1. u = [i \in 1 .. n |-> u[i]]
        BY <1>2, <1>5
    <2>2. Len(u) = n
        BY <2>1
    <2> QED BY <2>1, <2>2 DEF IsSeq
<1>10. ASSUME NEW i \in 1 .. n
       PROVE  /\ IsSeq(u[i]) /\ Len(u[i]) = Len(b[i].rows)
              /\ \A j \in 1 .. Len(u[i]) : u[i][j].id = b[i].rows[j].id
    <2>1. PICK k \in Nat : k = Len(b[i].rows)
        BY <1>1 DEF IsSeq
    <2>2. DOMAIN b[i].rows = 1 .. k
        BY <1>1, <2>1 DEF IsSeq
    <2>3. PICK v : v = u[i]
        OBVIOUS
    <2>4. v = [j \in 1 .. k |-> Assembled(b[i].rows[j], wb, db)]
        BY <1>2, <1>5, <2>2, <2>3
    <2>5. Len(v) = k /\ v = [j \in 1 .. k |-> v[j]]
        BY <2>4
    <2>6. \A j \in 1 .. k : v[j].id = b[i].rows[j].id
        BY <2>4 DEF Assembled
    <2> QED BY <2>1, <2>3, <2>5, <2>6 DEF IsSeq
<1>11. ASSUME NEW i \in 1 .. m
       PROVE  /\ IsSeq(t[i]) /\ Len(t[i]) = Len(b[i].rows)
              /\ \A j \in 1 .. Len(t[i]) : t[i][j].id = b[i].rows[j].id
    <2>1. i \in 1 .. n /\ a[i].rows = b[i].rows
        BY <1>1, <1>2
    <2>2. PICK k \in Nat : k = Len(b[i].rows)
        BY <1>1, <2>1 DEF IsSeq
    <2>3. DOMAIN b[i].rows = 1 .. k
        BY <1>1, <2>1, <2>2 DEF IsSeq
    <2>4. PICK v : v = t[i]
        OBVIOUS
    <2>5. v = [j \in 1 .. k |-> Assembled(b[i].rows[j], wa, da)]
        BY <1>2, <1>4, <2>1, <2>3, <2>4
    <2>6. Len(v) = k /\ v = [j \in 1 .. k |-> v[j]]
        BY <2>5
    <2>7. \A j \in 1 .. k : v[j].id = b[i].rows[j].id
        BY <2>5 DEF Assembled
    <2> QED BY <2>2, <2>4, <2>6, <2>7 DEF IsSeq
<1>12. ASSUME NEW i \in 1 .. m PROVE SameIds(t[i], u[i])
    <2>1. i \in 1 .. n
        BY <1>2
    <2>2. PICK p, q : p = t[i] /\ q = u[i]
        OBVIOUS
    <2>3. Len(p) = Len(q) /\ \A j \in 1 .. Len(p) : p[j].id = q[j].id
        BY <1>10, <1>11, <2>1, <2>2
    <2> QED BY <2>2, <2>3 DEF SameIds
<1>13. IsSeq(ga) /\ IsSeq(gb) /\ Continues(ga, gb)
    <2>1. (\A i \in 1 .. m : IsSeq(t[i])) /\ (\A i \in 1 .. n : IsSeq(u[i])) /\ m <= n
        BY <1>2, <1>10, <1>11
    <2>2. IsSeq(FlattenSeq(t)) /\ IsSeq(FlattenSeq(u)) /\ Continues(FlattenSeq(t), FlattenSeq(u))
        BY ONLY <1>8, <1>9, <1>12, <2>1, m \in Nat, n \in Nat, FlatContinues
    <2> QED BY <1>6, <2>2
<1>14. PICK p \in Nat, q \in Nat : p = Len(ga) /\ q = Len(gb)
    BY <1>13 DEF IsSeq
<1>15. DOMAIN ga = 1 .. p /\ DOMAIN gb = 1 .. q /\ p <= q
    BY <1>13, <1>14 DEF IsSeq, Continues
<1>16. PICK x, y : x = [i \in DOMAIN ga |-> ga[i].id] /\ y = [i \in DOMAIN gb |-> gb[i].id]
    OBVIOUS
<1>17. IsSeq(x) /\ Len(x) = p
    <2>1. x = [i \in 1 .. p |-> ga[i].id]
        BY <1>15, <1>16
    <2>2. Len(x) = p /\ x = [i \in 1 .. p |-> x[i]]
        BY <2>1
    <2> QED BY <2>2 DEF IsSeq
<1>18. IsSeq(y) /\ Len(y) = q
    <2>1. y = [i \in 1 .. q |-> gb[i].id]
        BY <1>15, <1>16
    <2>2. Len(y) = q /\ y = [i \in 1 .. q |-> y[i]]
        BY <2>1
    <2> QED BY <2>2 DEF IsSeq
<1>19. PICK z : z = SubSeq(y, 1, p)
    OBVIOUS
<1>20. IsSeq(z) /\ Len(z) = p /\ \A i \in 1 .. p : z[i] = y[i]
    BY <1>15, <1>18, <1>19, PrefixIsSeq
<1>21. \A i \in 1 .. p : x[i] = z[i]
    <2> SUFFICES ASSUME NEW i \in 1 .. p PROVE x[i] = y[i]
        BY <1>20
    <2>1. i \in 1 .. q
        BY <1>15
    <2> QED BY <1>13, <1>14, <1>15, <1>16, <2>1 DEF Continues
<1>22. x = z
    BY <1>17, <1>20, <1>21, SameSeq
<1> QED BY <1>14, <1>16, <1>19, <1>22 DEF IdsBegin

----------------------------------------------------------------------------
(***************************************************************************)
(* The recovery (drop_incomplete_trailing_bands, stream_reader.rs): the    *)
(* chunks that have the bands of the first one, as far as they go.         *)
(***************************************************************************)
\* drop_incomplete_trailing_bands keeps a prefix whose chunks all have the first one's bands.
LEMMA WholeKeeps ==
    ASSUME NEW c, IsSeq(c)
    PROVE  LET kept == WholeChunks(c) IN
           /\ IsSeq(kept) /\ Len(kept) <= Len(c)
           /\ \A i \in 1 .. Len(kept) : kept[i] = c[i] /\ kept[i].bands = c[1].bands
<1>1. PICK n \in Nat : n = Len(c)
    BY DEF IsSeq
<1>2. DOMAIN c = 1 .. n
    BY <1>1 DEF IsSeq
<1>3. PICK short : short = {i \in DOMAIN c : c[i].bands # c[1].bands}
    OBVIOUS
<1>4. WholeChunks(c) = IF short = {} THEN c ELSE SubSeq(c, 1, Min(short) - 1)
    BY <1>3 DEF WholeChunks
<1>5. CASE short = {}
    <2>1. WholeChunks(c) = c /\ \A i \in 1 .. n : c[i].bands = c[1].bands
        BY <1>2, <1>3, <1>4, <1>5
    <2> QED BY <1>1, <2>1
<1>6. CASE short # {}
    <2>1. short \subseteq 1 .. n
        BY <1>2, <1>3
    <2>2. PICK k \in short : \A j \in short : k <= j
        BY <1>6, <2>1, FirstPosition
    <2>3. k \in 1 .. n
        BY <2>1
    <2>4. Min(short) = k
        <3>1. ASSUME NEW l \in short, \A j \in short : l =< j PROVE l = k
            <4>1. l =< k /\ k =< l /\ l \in Int /\ k \in Int
                BY <2>1, <2>2, <3>1
            <4> QED BY <4>1
        <3> QED BY <2>2, <3>1 DEF Min
    <2>5. PICK m \in 0 .. n : m = k - 1
        BY <2>3
    <2>6. WholeChunks(c) = SubSeq(c, 1, m)
        BY <1>4, <1>6, <2>4, <2>5
    <2>7. PICK kept : kept = SubSeq(c, 1, m)
        OBVIOUS
    <2>8. IsSeq(kept) /\ Len(kept) = m /\ \A i \in 1 .. m : kept[i] = c[i]
        BY <1>1, <2>7, PrefixIsSeq
    <2>9. ASSUME NEW i \in 1 .. m PROVE c[i].bands = c[1].bands
        <3>1. i \in 1 .. n /\ ~(k <= i)
            BY <2>3, <2>5
        <3>2. i \notin short
            BY <2>2, <3>1
        <3> QED BY <1>2, <1>3, <3>1, <3>2
    <2>10. m <= n
        OBVIOUS
    <2> QED BY <1>1, <2>6, <2>7, <2>8, <2>9, <2>10
<1> QED BY <1>5, <1>6

\* A read that has arrived at x, and the same read at y later on.
Later(x, y) ==
    /\ Sound(x) /\ Reading(x) /\ Sound(y) /\ Reading(y)
    /\ Grown(x, y) /\ RowsAreSeqs(x) /\ RowsAreSeqs(y)

\* The chunks kept are the first of the whole scene's, the last of them short of bands at most.
KeptOf(kept, whole, header) ==
    /\ IsSeq(kept) /\ IsSeq(whole) /\ Len(kept) <= Len(whole)
    /\ \A i \in DOMAIN kept :
          /\ [kept[i] EXCEPT !.bands = {}] = [whole[i] EXCEPT !.bands = {}]
          /\ kept[i].rows = whole[i].rows
          /\ kept[i].bands \subseteq whole[i].bands
    /\ (Len(kept) > 1 /\ header.sh_degree > 0) => \A i \in DOMAIN kept : kept[i].bands = whole[i].bands

\* What the cut leaves of the chunks at x begins the chunks at y, where the file was whole: the last
\* chunk alone may be short of bands, and if a chunk precedes it, it has the bands every chunk of a scene has.
LEMMA KeptChunks ==
    ASSUME NEW x, NEW y, Later(x, y), IsSome(x.header), Assembles(y.chunks, y.header[1])
    PROVE  KeptOf(WholeChunks(x.chunks), y.chunks, x.header[1])
<1> PICK kept, whole : kept = WholeChunks(x.chunks) /\ whole = y.chunks
    OBVIOUS
<1>1. PICK n \in Nat, m \in Nat : n = Len(x.chunks) /\ m = Len(y.chunks)
    BY SoundLen DEF Later
<1>2. IsSeq(x.chunks) /\ IsSeq(whole)
    BY SoundLen DEF Later
<1>3. IsSeq(kept) /\ Len(kept) <= n /\ \A i \in 1 .. Len(kept) : kept[i] = x.chunks[i] /\ kept[i].bands = x.chunks[1].bands
    BY <1>1, <1>2, WholeKeeps
<1>4. PICK l \in Nat : l = Len(kept)
    BY <1>3 DEF IsSeq
<1>5. DOMAIN kept = 1 .. l /\ l <= n /\ n <= m
    BY <1>1, <1>3, <1>4 DEF IsSeq, Later, Grown
<1>6. ASSUME NEW i \in 1 .. l
      PROVE  /\ [kept[i] EXCEPT !.bands = {}] = [whole[i] EXCEPT !.bands = {}]
             /\ kept[i].rows = whole[i].rows
             /\ kept[i].bands \subseteq whole[i].bands
    <2>1. i \in 1 .. n /\ i \in 1 .. m
        BY <1>5
    <2>2. ButBands(x.chunks[i], whole[i]) /\ x.chunks[i].bands \subseteq whole[i].bands /\ kept[i] = x.chunks[i]
        BY <1>1, <1>3, <1>4, <2>1 DEF Later, Grown
    <2>3. ChunkTyped(x.chunks[i]) /\ ChunkTyped(whole[i])
        BY <1>1, <2>1, ReadingIsNot DEF Later, Sound, Typed, ChunksTyped
    <2>4. PICK c, d : c = x.chunks[i] /\ d = whole[i]
        OBVIOUS
    <2>5. c = [offset |-> c.offset, t0 |-> c.t0, t1 |-> c.t1, rows |-> c.rows, bands |-> c.bands]
          /\ d = [offset |-> d.offset, t0 |-> d.t0, t1 |-> d.t1, rows |-> d.rows, bands |-> d.bands]
        BY <2>3, <2>4 DEF ChunkTyped
    <2>6. ButBands(c, d)
        BY <2>2, <2>4
    <2>7. [c EXCEPT !.bands = {}] = [offset |-> c.offset, t0 |-> c.t0, t1 |-> c.t1, rows |-> c.rows, bands |-> {}]
        BY <2>5
    <2>8. [d EXCEPT !.bands = {}] = [offset |-> d.offset, t0 |-> d.t0, t1 |-> d.t1, rows |-> d.rows, bands |-> {}]
        BY <2>5
    <2>9. [c EXCEPT !.bands = {}] = [d EXCEPT !.bands = {}]
        BY <2>6, <2>7, <2>8 DEF ButBands
    <2> QED BY <2>2, <2>4, <2>6, <2>9 DEF ButBands
<1>7. ASSUME l > 1, x.header[1].sh_degree > 0, NEW i \in 1 .. l PROVE kept[i].bands = whole[i].bands
    <2>1. 1 \in 1 .. l /\ 1 \in 1 .. n /\ 1 # n /\ i \in 1 .. m /\ 1 \in 1 .. m
        BY <1>5, <1>7
    <2>2. x.chunks[1].bands = whole[1].bands
        BY <1>1, <2>1 DEF Later, Grown
    <2>3. y.header = x.header
        BY DEF Later, Grown
    <2>4. BandsWhole(whole)
        BY <1>7, <2>3 DEF Assembles
    <2>5. DOMAIN whole = 1 .. m
        BY <1>1, <1>2 DEF IsSeq
    <2>6. whole[i].bands = whole[1].bands
        BY <2>1, <2>4, <2>5 DEF BandsWhole
    <2> QED BY <1>3, <1>4, <2>2, <2>6
<1>8. Len(kept) <= Len(whole)
    BY <1>1, <1>4, <1>5
<1> QED BY <1>2, <1>3, <1>4, <1>5, <1>6, <1>7, <1>8 DEF KeptOf

\* What a read not given up delivers of bytes that end without the magic.
LEMMA CutIs ==
    ASSUME NEW x, NEW v, v = Finish(x, FALSE), IsSome(v)
    PROVE  /\ x.outcome # "refused" /\ IsSome(x.header)
           /\ v[1].chunks = WholeChunks(x.chunks)
           /\ \E w : v[1].gaussians = AssembleRows(WholeChunks(x.chunks), w, x.header[1])
<1>1. PICK chunks, truncated : chunks = WholeChunks(x.chunks) /\ truncated = TRUE
    OBVIOUS
<1>2. x.outcome # "refused" /\ IsSome(x.header) /\ v = Some(SceneOf(x, chunks, truncated))
    BY <1>1 DEF Finish, IsSome, None
<1>3. v[1] = SceneOf(x, chunks, truncated)
    BY ONLY <1>2 DEF Some
<1>4. v[1].chunks = chunks
    BY ONLY <1>3 DEF SceneOf
<1>5. v[1].gaussians = AssembleRows(chunks, IF IsSome(x.windows) THEN x.windows[1].windows ELSE <<>>, x.header[1])
    BY ONLY <1>3 DEF SceneOf
<1> QED BY <1>1, <1>2, <1>4, <1>5

\* What a read delivers of a whole file: all its chunks, with the same bands in each if bands mean anything.
LEMMA WholeIs ==
    ASSUME NEW x, Reading(x) \/ x.outcome = "refused", NEW v, v = Finish(x, TRUE), IsSome(v)
    PROVE  /\ Reading(x)
           /\ v[1].chunks = x.chunks
           /\ Assembles(x.chunks, x.header[1])
           /\ \E w : v[1].gaussians = AssembleRows(x.chunks, w, x.header[1])
<1>1. x.outcome # "refused"
    BY DEF Finish, IsSome, None
<1>2. Reading(x) /\ x.outcome # "cut"
    BY <1>1 DEF Reading
<1>3. PICK chunks, truncated : chunks = x.chunks /\ truncated = FALSE
    OBVIOUS
<1>4. Assembles(chunks, x.header[1]) /\ v = Some(SceneOf(x, chunks, truncated))
    BY <1>2, <1>3 DEF Finish, IsSome, None
<1>5. v[1] = SceneOf(x, chunks, truncated)
    BY ONLY <1>4 DEF Some
<1>6. v[1].chunks = chunks
    BY ONLY <1>5 DEF SceneOf
<1>7. v[1].gaussians = AssembleRows(chunks, IF IsSome(x.windows) THEN x.windows[1].windows ELSE <<>>, x.header[1])
    BY ONLY <1>5 DEF SceneOf
<1> QED BY <1>2, <1>3, <1>4, <1>6, <1>7

\* A record not all there stops the read where it is.
LEMMA StoppedIs ==
    ASSUME NEW x, IsScan(x)
    PROVE  Only(x, Stopped(x), {"outcome"}) /\ Stopped(x).outcome = "cut"
<1>1. PICK y : y = Stopped(x)
    OBVIOUS
<1>2. y = [x EXCEPT !.outcome = "cut"]
    BY <1>1 DEF Stopped
<1>3. y = [f \in Fields |-> IF f = "outcome" THEN "cut" ELSE x[f]]
    BY <1>2 DEF IsScan, Fields
<1> QED BY <1>1, <1>3 DEF Only, IsScan, Fields

\* Or it is refused for what would be refused of the whole record.
LEMMA PartialRefuses ==
    ASSUME NEW x, Sound(x), Reading(x), NEW r, NEW body, NEW y, y = OnPartial(x, r, body), y # Stopped(x)
    PROVE  y.outcome = "refused" /\ ~Reading(OnRecord(x, r))
<1>1. IsScan(x) /\ Typed(x)
    BY ReadingIsNot DEF Sound
<1>2. Late(x, r) \/ x.at + 1 > x.options.records \/ BandRefused(x, r)
    BY DEF OnPartial
<1>3. y = Refused(x)
    BY DEF OnPartial
<1>4. PICK here : here = Arrived(x, r)
    OBVIOUS
<1>5. Only(x, here, {"at", "state_seen", "tail", "tail_start"})
    BY <1>1, <1>4, ArrivedIs
<1>6. ~Reading(Refused(x)) /\ ~Reading(Refused(here)) /\ y.outcome = "refused"
    BY <1>1, <1>3, <1>5, Gives DEF Only, Reading
<1>7. OnRecord(x, r) = IF Late(x, r) \/ x.at + 1 > x.options.records \/ Broken(r) THEN Refused(x)
                       ELSE IF r.op \in Prefixed /\ ~PeakFits(x, r) THEN Refused(x)
                       ELSE Handled(here, r)
    BY <1>4 DEF OnRecord, Arrived
<1>8. CASE BandRefused(x, r)
    <2>1. here.masks = x.masks /\ here.chunks = x.chunks
        BY <1>5 DEF Only, Fields
    <2>2. Handled(here, r) = OnShBandStream(here, r)
        BY <1>8 DEF BandRefused, Handled
    <2>3. r.band \notin Bands \/ (Len(x.chunks) # 0 /\ r.band \in x.masks[Len(x.chunks)])
        <3>1. Len(x.masks) = Len(x.chunks) /\ IsSeq(x.chunks)
            BY <1>1 DEF Typed, ChunksTyped
        <3>2. Len(x.chunks) = 0 => x.chunks = <<>>
            BY <3>1, EmptyIsSeq, SameSeq
        <3> QED BY <1>8, <3>1, <3>2 DEF BandRefused
    <2>4. OnShBandStream(here, r) = Refused(here)
        BY <2>1, <2>3 DEF OnShBandStream
    <2> QED BY <1>6, <1>7, <2>2, <2>4
<1> QED BY <1>2, <1>6, <1>7, <1>8

\* What a cut after k records leaves of the run g: its state, perhaps stopped inside the next record,
\* or a refusal of a record that a whole file would have been refused for.
CutFrom(f, g, k, z) ==
    /\ Reading(g[k])
    /\ z = g[k] \/ z = Stopped(g[k]) \/ (z.outcome = "refused" /\ k + 1 \in 1 .. Len(f) /\ ~Reading(g[k + 1]))

\* The read follows the run of the file: where it is, or where it was when the bytes ended.
Follows(g) ==
    /\ Reads /\ Reading(s) => s.at \in 0 .. Len(file) /\ s = g[s.at]
    /\ cut => streamed = Finish(s, FALSE)
    /\ cut => \E k \in 0 .. Len(file) : CutFrom(file, g, k, s)

RunInv == ReadInv /\ options \in OPTIONS /\ \A g : Runs(file, options, g) => Follows(g)

\* A reader just opened follows every run of its file.
LEMMA RunInit == Init => RunInv
<1> SUFFICES ASSUME Init, NEW g, Runs(file, options, g) PROVE Follows(g)
    BY ReadInit DEF RunInv, Init
<1>1. s = Opened(options) /\ ending = "none" /\ file \in FILES
    BY DEF Init
<1>2. s.at = 0
    BY <1>1 DEF Opened
<1>3. 0 \in 0 .. Len(file)
    BY <1>1, FileIs DEF IsSeq
<1>4. ~cut
    BY <1>1 DEF cut
<1> QED BY <1>1, <1>2, <1>3, <1>4 DEF Follows, Runs

\* A record read is the next turn of every run.
LEMMA RunReads ==
    ASSUME RunInv, ReadRecord, NEW g, Runs(file, options, g)
    PROVE  Follows(g)'
<1>1. Reads /\ Reading(s) /\ s.at < Len(file) /\ s' = OnRecord(s, file[s.at + 1])
      /\ file' = file /\ ending' = ending
    BY DEF ReadRecord
<1>2. file \in FILES /\ Sound(s) /\ s.at \in 0 .. Len(file) /\ Digested(file, s) /\ s = g[s.at]
    BY <1>1 DEF RunInv, ReadInv, Follows
<1>3. PICK x, f, y : x = s /\ f = file /\ y = OnRecord(x, f[x.at + 1])
    OBVIOUS
<1>4. PICK n \in Nat : n = Len(f)
    BY <1>2, <1>3, FileIs DEF IsSeq
<1>5. x.at \in 0 .. n - 1 /\ x.at + 1 \in 1 .. n
    BY <1>1, <1>2, <1>3, <1>4
<1>6. y = g[x.at + 1]
    <2>1. PICK k \in 1 .. n : k = x.at + 1
        BY <1>5
    <2>2. k - 1 = x.at
        BY <1>5, <2>1
    <2> QED BY <1>2, <1>3, <1>4, <2>1, <2>2 DEF Runs
<1>7. Reading(y) => y.at = x.at + 1
    BY <1>1, <1>2, <1>3, <1>4, <1>5, TurnDigests
<1>8. Reading(y) => y.at \in 0 .. n /\ y = g[y.at]
    BY <1>5, <1>6, <1>7
<1>9. s' = y /\ file' = f /\ ending' = "none"
    BY <1>1, <1>3 DEF Reads
<1> QED BY <1>4, <1>8, <1>9 DEF Follows, cut, Reads

\* The end of the bytes, wherever it comes, leaves the chunks and the Header as some state of the run had them.
LEMMA RunDelivers ==
    ASSUME RunInv, NEW arrived, NEW end \in {"whole", "cut"}, Deliver(arrived, end), Reads,
           NEW x, s' = x, NEW g, Runs(file, options, g),
           end = "cut" =>
               /\ Reading(s)
               /\ \/ x = s \/ x = Stopped(s)
                  \/ x.outcome = "refused" /\ s.at < Len(file) /\ ~Reading(OnRecord(s, file[s.at + 1]))
    PROVE  Follows(g)'
<1>1. ending' = end /\ streamed' = Finish(s', end = "whole") /\ file' = file
    BY DEF Deliver
<1>2. PICK v, f : v = Finish(x, end = "whole") /\ f = file
    OBVIOUS
<1>3. streamed' = v /\ file' = f /\ (end = "cut" => v = Finish(x, FALSE))
    <2>1. end = "cut" => (end = "whole") = FALSE
        OBVIOUS
    <2> QED BY <1>1, <1>2, <2>1
<1>4. end = "cut" => s.at \in 0 .. Len(f) /\ s = g[s.at] /\ Reading(s)
    BY <1>2 DEF RunInv, Follows
<1>5. ASSUME end = "cut" PROVE \E k \in 0 .. Len(f) : CutFrom(f, g, k, x)
    <2>1. PICK k \in 0 .. Len(f) : k = s.at
        BY <1>4, <1>5
    <2>2. Reading(g[k])
        BY <1>4, <1>5, <2>1
    <2>3. CASE x = s \/ x = Stopped(s)
        BY <1>4, <1>5, <2>1, <2>2, <2>3 DEF CutFrom
    <2>4. CASE x.outcome = "refused" /\ s.at < Len(file) /\ ~Reading(OnRecord(s, file[s.at + 1]))
        <3>1. PICK n \in Nat : n = Len(f)
            BY <1>2, FileIs DEF IsSeq, RunInv, ReadInv
        <3>2. k + 1 \in 1 .. n /\ (k + 1) - 1 = k
            BY <1>2, <2>1, <2>4, <3>1
        <3>3. g[k + 1] = OnRecord(g[(k + 1) - 1], f[k + 1])
            BY <1>2, <3>1, <3>2 DEF Runs
        <3>4. g[k + 1] = OnRecord(s, file[s.at + 1])
            BY <1>2, <1>4, <1>5, <2>1, <3>2, <3>3
        <3> QED BY <2>2, <2>4, <3>1, <3>2, <3>4 DEF CutFrom
    <2> QED BY <1>5, <2>3, <2>4
<1> QED BY <1>1, <1>3, <1>5 DEF Follows, cut, Reads

\* Every step of the specification keeps the read on the runs of its file.
LEMMA RunInductive == RunInv /\ [Next]_vars => RunInv'
<1> SUFFICES ASSUME RunInv, [Next]_vars PROVE RunInv'
    OBVIOUS
<1>1. ReadInv'
    BY ReadInductive DEF RunInv
<1>2. file' = file /\ options' = options
    BY DEF Next, vars, ReadRecord, EndOfFile, CutBetween, CutInside, Abandon, Deliver
<1>3. ASSUME NEW g, Runs(file, options, g) PROVE Follows(g)'
    <2>1. CASE ReadRecord
        BY <1>3, <2>1, RunReads
    <2>2. PICK x : x = s
        OBVIOUS
    <2>3. CASE EndOfFile
        <3>1. Reads /\ s' = x /\ Deliver(file, "whole")
            BY <2>2, <2>3 DEF EndOfFile
        <3> QED BY <1>3, <3>1, RunDelivers
    <2>4. CASE Abandon
        <3>1. Reads /\ s' = x /\ Deliver(file, "whole")
            BY <2>2, <2>4 DEF Abandon
        <3> QED BY <1>3, <3>1, RunDelivers
    <2>5. CASE CutBetween
        <3>1. PICK a : a = SubSeq(file, 1, s.at)
            OBVIOUS
        <3>2. Reads /\ Reading(s) /\ s' = x /\ Deliver(a, "cut")
            BY <2>2, <2>5, <3>1 DEF CutBetween
        <3> QED BY <1>3, <2>2, <3>2, RunDelivers
    <2>6. CASE CutInside
        <3>1. PICK a : a = SubSeq(file, 1, s.at)
            OBVIOUS
        <3>2. Reads /\ Reading(s) /\ Deliver(a, "cut") /\ \E body \in BOOLEAN : s' = OnPartial(s, file[s.at + 1], body)
            BY <2>6, <3>1 DEF CutInside
        <3>3. PICK body \in BOOLEAN : s' = OnPartial(s, file[s.at + 1], body)
            BY <3>2
        <3>4. PICK y, r : y = OnPartial(x, r, body) /\ r = file[s.at + 1]
            OBVIOUS
        <3>5. s' = y
            BY <2>2, <3>3, <3>4
        <3>6. Sound(x) /\ Reading(x) /\ s.at < Len(file)
            BY <2>2, <2>6 DEF RunInv, ReadInv, CutInside
        <3>7. y = Stopped(x) \/ (y.outcome = "refused" /\ ~Reading(OnRecord(x, r)))
            BY <3>4, <3>6, PartialRefuses
        <3> QED BY <1>3, <2>2, <3>2, <3>4, <3>5, <3>6, <3>7, RunDelivers
    <2>7. CASE UNCHANGED vars
        <3>1. Follows(g)
            BY <1>3 DEF RunInv
        <3> QED BY <2>7, <3>1 DEF vars, Follows, Reads, cut
    <2> QED BY <2>1, <2>3, <2>4, <2>5, <2>6, <2>7 DEF Next
<1>4. PICK f, o : f = file /\ o = options
    OBVIOUS
<1>5. (\A g : Runs(file, options, g) => Follows(g))'
    <2>1. ASSUME NEW g PROVE Runs(file', options', g) => Follows(g)'
        BY <1>2, <1>3
    <2> QED BY <2>1
<1>6. options' \in OPTIONS
    BY <1>2 DEF RunInv
<1> QED BY <1>1, <1>5, <1>6 DEF RunInv

\* Every read, cut or not, follows the runs of its file (read_from_with_limits: one turn of the loop a
\* record, then finish, or the recovery of what was read when the bytes ended early).
THEOREM RunsFollow == Spec => []RunInv
BY RunInit, RunInductive, PTL DEF Spec

\* What recovery keeps is the beginning of the scene: chunks of the file in order, with the file's own
\* bands once a second chunk has begun, and the gaussians a whole read gives first (read_from_with_limits's
\* finish, and drop_incomplete_trailing_bands, stream_reader.rs:2375).
THEOREM RecoveryHolds == Spec => []RecoveredIsPrefix
<1>1. RunInv => RecoveredIsPrefix
    <2> SUFFICES ASSUME RunInv, cut, IsSome(streamed), IsSome(WholeScene)
                 PROVE  LET kept == streamed[1].chunks
                            whole == WholeScene[1].chunks
                        IN  /\ Len(kept) <= Len(whole)
                            /\ \A i \in DOMAIN kept : [kept[i] EXCEPT !.bands = {}] = [whole[i] EXCEPT !.bands = {}]
                            /\ \A i \in DOMAIN kept : kept[i].bands \subseteq whole[i].bands
                            /\ (Len(kept) > 1 /\ s.header[1].sh_degree > 0) =>
                                  \A i \in DOMAIN kept : kept[i].bands = whole[i].bands
                            /\ [i \in DOMAIN streamed[1].gaussians |-> streamed[1].gaussians[i].id]
                                  = SubSeq([i \in DOMAIN WholeScene[1].gaussians |-> WholeScene[1].gaussians[i].id],
                                           1, Len(streamed[1].gaussians))
        BY DEF RecoveredIsPrefix
    <2>1. file \in FILES
        BY DEF RunInv, ReadInv
    <2>2. PICK g : Runs(file, options, g) /\ FoldLeft(OnRecord, Opened(options), file) = g[Len(file)]
        BY <2>1, FileIs, ReadRuns
    <2>3. Follows(g)
        BY <2>2 DEF RunInv
    <2>4. PICK v, y : v = WholeScene /\ y = g[Len(file)]
        OBVIOUS
    <2>5. v = Finish(y, TRUE) /\ IsSome(v)
        BY <2>2, <2>4 DEF WholeScene, ReadStreamed
    <2>6. Len(file) \in 0 .. Len(file)
        BY <2>1, FileIs DEF IsSeq
    <2>7. Sound(y) /\ (Reading(y) \/ y.outcome = "refused") /\ (Reading(y) => RowsAreSeqs(y))
        BY <2>1, <2>2, <2>4, <2>6, RunSound
    <2>8. Reading(y) /\ v[1].chunks = y.chunks /\ Assembles(y.chunks, y.header[1])
        BY <2>5, <2>7, WholeIs
    <2>9. PICK wb : v[1].gaussians = AssembleRows(y.chunks, wb, y.header[1])
        BY <2>5, <2>7, WholeIs
    <2>10. PICK u, z : u = streamed /\ z = s
        OBVIOUS
    <2>11. u = Finish(z, FALSE) /\ IsSome(u)
        BY <2>3, <2>10 DEF Follows
    <2>12. z.outcome # "refused" /\ IsSome(z.header) /\ u[1].chunks = WholeChunks(z.chunks)
        BY <2>11, CutIs
    <2>13. PICK wa : u[1].gaussians = AssembleRows(WholeChunks(z.chunks), wa, z.header[1])
        BY <2>11, CutIs
    <2>14. PICK k \in 0 .. Len(file) : Reading(g[k]) /\ z.chunks = g[k].chunks /\ z.header = g[k].header
        <3>1. PICK k \in 0 .. Len(file) : CutFrom(file, g, k, z)
            BY <2>3, <2>10 DEF Follows
        <3>2. PICK w : w = g[k]
            OBVIOUS
        <3>3. Reading(w) /\ (z = w \/ z = Stopped(w))
            BY <2>12, <3>1, <3>2 DEF CutFrom
        <3>4. IsScan(w)
            BY <2>1, <2>2, <3>2, RunSound DEF Sound
        <3>5. z.chunks = w.chunks /\ z.header = w.header
            BY <3>3, <3>4, StoppedIs DEF Only, Fields
        <3> QED BY <3>2, <3>3, <3>5
    <2>15. PICK x : x = g[k]
        OBVIOUS
    <2>16. Later(x, y)
        <3>1. Sound(x) /\ RowsAreSeqs(x) /\ Reading(x)
            BY <2>1, <2>2, <2>14, <2>15, RunSound
        <3>2. Grown(x, y)
            BY <2>1, <2>2, <2>4, <2>6, <2>8, <2>15, RunGrows
        <3> QED BY <2>7, <2>8, <3>1, <3>2 DEF Later
    <2>17. PICK kept, whole : kept = WholeChunks(x.chunks) /\ whole = y.chunks
        OBVIOUS
    <2>18. KeptOf(kept, whole, x.header[1])
        <3>1. IsSome(x.header) /\ Assembles(y.chunks, y.header[1])
            BY <2>8, <2>12, <2>14, <2>15
        <3>2. KeptOf(WholeChunks(x.chunks), y.chunks, x.header[1])
            BY ONLY <2>16, <3>1, KeptChunks
        <3> QED BY <2>17, <3>2
    <2>19. u[1].chunks = kept /\ v[1].chunks = whole /\ z.header = x.header
        BY <2>8, <2>12, <2>14, <2>15, <2>17
    <2>20. PICK ga, gb : ga = u[1].gaussians /\ gb = v[1].gaussians
        OBVIOUS
    <2>21. [i \in DOMAIN ga |-> ga[i].id] = SubSeq([i \in DOMAIN gb |-> gb[i].id], 1, Len(ga))
        <3>1. ga = AssembleRows(kept, wa, z.header[1]) /\ gb = AssembleRows(whole, wb, y.header[1])
            BY <2>9, <2>13, <2>14, <2>15, <2>17, <2>20
        <3>2. \A i \in 1 .. Len(kept) : kept[i].rows = whole[i].rows
            BY <2>18 DEF IsSeq, KeptOf
        <3>3. \A i \in 1 .. Len(whole) : IsSeq(whole[i].rows)
            BY <2>16, <2>17 DEF Later, RowsAreSeqs
        <3>4. IsSeq(kept) /\ IsSeq(whole) /\ Len(kept) <= Len(whole)
            BY <2>18 DEF KeptOf
        <3>5. PICK ha, hb : ha = z.header[1] /\ hb = y.header[1]
            OBVIOUS
        <3>6. IdsBegin(AssembleRows(kept, wa, ha), AssembleRows(whole, wb, hb))
            BY ONLY <3>2, <3>3, <3>4, AssemblePrefix
        <3> QED BY <3>1, <3>5, <3>6 DEF IdsBegin
    <2>22. z.header = s.header
        BY <2>10
    <2> QED BY <2>4, <2>10, <2>18, <2>19, <2>20, <2>21, <2>22 DEF KeptOf
<1> QED BY <1>1, RunsFollow, PTL

----------------------------------------------------------------------------
(***************************************************************************)
(* Bounds.  What is weighed grows with what is read, so a bound the whole  *)
(* file met is met by every cut of it: first the arithmetic of it,         *)
(***************************************************************************)
\* More of what weighs w weighs more.
LEMMA TimesGrow ==
    ASSUME NEW w \in Nat, NEW a \in Nat, NEW b \in Nat, a <= b
    PROVE  w * a \in Nat /\ w * b \in Nat /\ w * a <= w * b
<1>1. PICK d \in Nat : d = b - a
    BY a <= b
<1>2. w * b = w * a + w * d
    BY <1>1
<1>3. w * d \in Nat /\ w * a \in Nat /\ w * b \in Nat
    OBVIOUS
<1> QED BY <1>2, <1>3

\* A collection that has grown keeps its capacity.
LEMMA CapacityGrows ==
    ASSUME NEW n \in Nat, NEW m \in 0 .. n
    PROVE  Capacity(m) <= Capacity(n)
<1>1. PICK c : Doubles(c, n) /\ Capacity(n) = c[n]
    BY CapacityCounts
<1>2. PICK d : Doubles(d, m) /\ Capacity(m) = d[m]
    BY CapacityCounts
<1>3. PICK P : P = {k \in 0 .. n : IF k <= m THEN c[k] = d[k] ELSE d[m] <= c[k]}
    OBVIOUS
<1>4. 0 \in P
    BY <1>1, <1>2, <1>3 DEF Doubles
<1>5. ASSUME NEW k \in 1 .. n, k - 1 \in P PROVE k \in P
    <2>1. k \in 0 .. n /\ k - 1 \in 0 .. n
        OBVIOUS
    <2>2. PICK a \in Nat : a = c[k - 1]
        BY <1>1, <2>1 DEF Doubles
    <2>3. c[k] = IF k <= a THEN a ELSE IF a = 0 THEN 4 ELSE 2 * a
        BY <1>1, <2>2 DEF Doubles
    <2>4. CASE k <= m
        <3>1. k \in 1 .. m /\ k - 1 <= m
            BY <2>4
        <3>2. d[k - 1] = a
            BY <1>3, <1>5, <2>2, <3>1
        <3>3. d[k] = IF k <= a THEN a ELSE IF a = 0 THEN 4 ELSE 2 * a
            BY <1>2, <3>1, <3>2 DEF Doubles
        <3> QED BY <1>3, <2>1, <2>3, <2>4, <3>3
    <2>5. CASE ~(k <= m)
        <3>1. PICK b \in Nat : b = d[m]
            BY <1>2 DEF Doubles
        <3>2. b <= a
            <4>1. CASE k - 1 = m
                BY <1>3, <1>5, <2>2, <3>1, <4>1
            <4>2. CASE k - 1 # m
                <5>1. ~(k - 1 <= m)
                    BY <2>5, <4>2
                <5> QED BY <1>3, <1>5, <2>2, <3>1, <5>1
            <4> QED BY <4>1, <4>2
        <3>3. b <= c[k]
            BY ONLY <2>3, <3>2, a \in Nat, b \in Nat
        <3> QED BY <1>3, <2>1, <2>5, <3>1, <3>3
    <2> QED BY <2>4, <2>5
<1>6. 0 .. n \subseteq P
    BY ONLY <1>4, <1>5, n \in Nat, Ascend
<1>7. n \in P
    BY <1>6
<1>8. PICK p \in Nat, q \in Nat : p = d[m] /\ q = c[n]
    BY <1>1, <1>2 DEF Doubles
<1>9. IF n <= m THEN q = c[n] /\ c[n] = d[n] ELSE p <= q
    BY <1>3, <1>7, <1>8
<1>10. n <= m => n = m
    OBVIOUS
<1> QED BY <1>1, <1>2, <1>8, <1>9, <1>10

\* So does a vector with more elements: the slots of its allocation (numeric.rs doubles them),
LEMMA SlotsGrow ==
    ASSUME NEW n \in Nat, NEW m \in 0 .. n
    PROVE  Slots(m) \in Nat /\ Slots(n) \in Nat /\ Slots(m) <= Slots(n)
<1>1. m \in Nat /\ SLOT \in Nat
    BY WeightAssumption
<1>2. PICK a \in Nat, b \in Nat : a = Capacity(m) /\ b = Capacity(n)
    BY <1>1, CapacityNat
<1>3. a <= b
    BY <1>2, CapacityGrows
<1>4. SLOT * a \in Nat /\ SLOT * b \in Nat /\ SLOT * a <= SLOT * b
    BY ONLY <1>1, <1>3, a \in Nat, b \in Nat, TimesGrow
<1> QED BY <1>2, <1>4 DEF Slots

\* and one allocated to measure.
LEMMA ExactGrows ==
    ASSUME NEW n \in Nat, NEW m \in 0 .. n
    PROVE  SLOT * Exact(m) \in Nat /\ SLOT * Exact(n) \in Nat /\ SLOT * Exact(m) <= SLOT * Exact(n)
<1>1. ASSUME NEW k \in Nat \ {0} PROVE Exact(k) = IF k < 4 THEN 4 ELSE k
    <2>1. Max({4, k}) = IF k < 4 THEN 4 ELSE k
        BY DEF Max
    <2> QED BY <2>1 DEF Exact
<1>2. Exact(0) = 0
    BY DEF Exact
<1>3. PICK a \in Nat, b \in Nat : a = Exact(m) /\ b = Exact(n)
    BY <1>1, <1>2
<1>4. a <= b
    BY <1>1, <1>2, <1>3
<1>5. SLOT \in Nat
    BY WeightAssumption
<1>6. SLOT * a \in Nat /\ SLOT * b \in Nat /\ SLOT * a <= SLOT * b
    BY ONLY <1>4, <1>5, a \in Nat, b \in Nat, TimesGrow
<1> QED BY <1>3, <1>6

\* A list that goes on, term by term no smaller, adds up to no less.
LEMMA TotalBegins ==
    ASSUME NEW n \in Nat, NEW m \in 0 .. n, NEW t, DOMAIN t = 1 .. m, NEW u, DOMAIN u = 1 .. n,
           \A i \in 1 .. n : u[i] \in Nat, \A i \in 1 .. m : t[i] \in Nat /\ t[i] <= u[i]
    PROVE  Total(t) \in Nat /\ Total(u) \in Nat /\ Total(t) <= Total(u)
<1>0. m \in Nat
    OBVIOUS
<1>1. PICK g : Running(t, m, g) /\ (\A k \in 0 .. m : g[k] \in Int) /\ Total(t) = g[m]
    BY <1>0, TotalRuns
<1>2. PICK h : Running(u, n, h) /\ (\A k \in 0 .. n : h[k] \in Int) /\ Total(u) = h[n]
    BY TotalRuns
<1>3. PICK P : P = {k \in 0 .. n : h[k] >= 0 /\ IF k <= m THEN 0 <= g[k] /\ g[k] <= h[k] ELSE g[m] <= h[k]}
    OBVIOUS
<1>4. 0 \in P
    BY <1>1, <1>2, <1>3 DEF Running
<1>5. ASSUME NEW k \in 1 .. n, k - 1 \in P PROVE k \in P
    <2>1. k \in 0 .. n /\ k - 1 \in 0 .. n
        OBVIOUS
    <2>2. PICK a \in Int, v \in Nat : a = h[k - 1] /\ v = u[k]
        BY <1>2, <2>1
    <2>3. h[k] = a + v /\ a >= 0
        BY <1>2, <1>3, <1>5, <2>2 DEF Running
    <2>4. CASE k <= m
        <3>1. k \in 1 .. m /\ k - 1 \in 0 .. m
            BY <2>4
        <3>2. PICK b \in Int, w \in Nat : b = g[k - 1] /\ w = t[k]
            BY <1>1, <3>1
        <3>3. g[k] = b + w /\ w <= v
            BY <1>1, <2>2, <3>1, <3>2 DEF Running
        <3>4. 0 <= b /\ b <= a
            BY <1>3, <1>5, <2>2, <3>1, <3>2
        <3>5. 0 <= g[k] /\ g[k] <= h[k] /\ h[k] >= 0
            BY ONLY <2>3, <3>3, <3>4, a \in Int, b \in Int, v \in Nat, w \in Nat
        <3> QED BY <1>3, <2>1, <2>4, <3>5
    <2>5. CASE ~(k <= m)
        <3>1. PICK b \in Int : b = g[m]
            BY <1>0, <1>1
        <3>2. b <= a
            <4>1. CASE k - 1 = m
                BY <1>3, <1>5, <2>2, <3>1, <4>1
            <4>2. CASE k - 1 # m
                <5>1. ~(k - 1 <= m)
                    BY <2>5, <4>2
                <5> QED BY <1>3, <1>5, <2>2, <3>1, <5>1
            <4> QED BY <4>1, <4>2
        <3>3. b <= h[k] /\ h[k] >= 0
            BY ONLY <2>3, <3>2, a \in Int, b \in Int, v \in Nat
        <3> QED BY <1>3, <2>1, <2>5, <3>1, <3>3
    <2> QED BY <2>4, <2>5
<1>6. 0 .. n \subseteq P
    BY ONLY <1>4, <1>5, n \in Nat, Ascend
<1>7. n \in P /\ m \in P
    BY <1>6
<1>8. PICK p \in Int, q \in Int : p = g[m] /\ q = h[n]
    BY <1>0, <1>1, <1>2
<1>9. 0 <= p /\ 0 <= q /\ p <= q
    <2>1. 0 <= p
        BY <1>3, <1>7, <1>8
    <2>2. 0 <= q /\ IF n <= m THEN g[n] <= q ELSE p <= q
        BY <1>3, <1>7, <1>8
    <2>3. n <= m => n = m
        OBVIOUS
    <2> QED BY <1>8, <2>1, <2>2, <2>3
<1> QED BY <1>1, <1>2, <1>8, <1>9

----------------------------------------------------------------------------
(***************************************************************************)
(* then the records held,                                                  *)
(***************************************************************************)
\* Every weight is a natural number.
LEMMA WeighedNat ==
    ASSUME NEW op \in Weighed
    PROVE  Weight[op] \in Nat
BY WeightAssumption DEF Weighed

\* A record that is still there weighs what it weighed.
LEMMA HeldOneKept ==
    ASSUME NEW x, NEW y, NEW f \in Ones, OneTyped(x, f), OneTyped(y, f), IsSome(x[f]) => IsSome(y[f])
    PROVE  HeldOne(x, f) \in Nat /\ HeldOne(y, f) \in Nat /\ HeldOne(x, f) <= HeldOne(y, f)
<1>1. PICK w \in Nat : w = Weight[OpOf[f]]
    <2>1. OpOf[f] \in Weighed
        BY DEF Ones, OpOf, Weighed, FrontMatter, SummaryRecords
    <2> QED BY <2>1, WeighedNat
<1>2. ASSUME NEW z, OneTyped(z, f) PROVE HeldOne(z, f) = IF IsSome(z[f]) THEN w ELSE 0
    <2>1. IsSome(z[f]) => z[f][1].op = OpOf[f]
        BY <1>2 DEF OneTyped, IsSome
    <2> QED BY <1>1, <2>1 DEF HeldOne
<1>3. HeldOne(x, f) = IF IsSome(x[f]) THEN w ELSE 0
    BY <1>2
<1>4. HeldOne(y, f) = IF IsSome(y[f]) THEN w ELSE 0
    BY <1>2
<1> QED BY <1>3, <1>4

\* A list that goes on weighs no less.
LEMMA HeldManyKept ==
    ASSUME NEW x, NEW y, NEW f, ListTyped(x, f), ListTyped(y, f), Begins(x[f], y[f])
    PROVE  HeldMany(x, f) \in Nat /\ HeldMany(y, f) \in Nat /\ HeldMany(x, f) <= HeldMany(y, f)
<1>1. PICK a, b : a = x[f] /\ b = y[f]
    OBVIOUS
<1>2. PICK m \in Nat, n \in Nat : m = Len(a) /\ n = Len(b)
    BY <1>1 DEF ListTyped, IsSeq
<1>3. DOMAIN a = 1 .. m /\ DOMAIN b = 1 .. n /\ m \in 0 .. n
    BY <1>1, <1>2 DEF ListTyped, IsSeq, Begins
<1>4. PICK t, u : t = [i \in DOMAIN a |-> Weight[a[i].op]] /\ u = [i \in DOMAIN b |-> Weight[b[i].op]]
    OBVIOUS
<1>5. DOMAIN t = 1 .. m /\ DOMAIN u = 1 .. n
    BY <1>3, <1>4
<1>6. \A i \in 1 .. n : u[i] \in Nat
    <2>1. \A i \in 1 .. n : b[i].op \in Weighed
        BY <1>1, <1>2 DEF ListTyped
    <2> QED BY <1>3, <1>4, <2>1, WeighedNat
<1>7. \A i \in 1 .. m : t[i] \in Nat /\ t[i] <= u[i]
    <2> SUFFICES ASSUME NEW i \in 1 .. m PROVE t[i] = u[i] /\ i \in 1 .. n
        BY <1>6
    <2>1. i \in 1 .. n /\ b[i] = a[i]
        BY <1>1, <1>2, <1>3 DEF Begins
    <2> QED BY <1>3, <1>4, <2>1
<1>8. Total(t) \in Nat /\ Total(u) \in Nat /\ Total(t) <= Total(u)
    BY ONLY <1>3, <1>5, <1>6, <1>7, n \in Nat, TotalBegins
<1>9. Slots(m) \in Nat /\ Slots(n) \in Nat /\ Slots(m) <= Slots(n)
    BY <1>3, SlotsGrow
<1>10. HeldMany(x, f) = Slots(m) + Total(t) /\ HeldMany(y, f) = Slots(n) + Total(u)
    BY <1>1, <1>2, <1>4 DEF HeldMany
<1> QED BY ONLY <1>8, <1>9, <1>10

Kept(x, y) == OnesTyped(x) /\ OnesTyped(y) /\ ListsTyped(x) /\ ListsTyped(y) /\ Extends(x, y)

\* The records a scene has one of weigh no less later on,
LEMMA HeldOnesKept ==
    ASSUME NEW x, NEW y, Kept(x, y)
    PROVE  HeldOnes(x) \in Nat /\ HeldOnes(y) \in Nat /\ HeldOnes(x) <= HeldOnes(y)
<1>1. PICK a, b : a = [g \in Ones |-> HeldOne(x, g)] /\ b = [g \in Ones |-> HeldOne(y, g)]
    OBVIOUS
<1>2. ASSUME NEW g \in Ones PROVE a[g] \in Nat /\ b[g] \in Nat /\ a[g] <= b[g]
    <2>1. OneTyped(x, g) /\ OneTyped(y, g)
        BY DEF Kept, OnesTyped
    <2>2. g \in Fields
        BY DEF Ones, Fields
    <2>3. IsSome(x[g]) => IsSome(y[g])
        BY <2>2 DEF Kept, Extends, Carried
    <2> QED BY <1>1, <2>1, <2>3, HeldOneKept
<1>3. HeldOnes(x) = a["header"] + a["quantization"] + a["windows"] + a["legacy"]
                  + a["camera"] + a["table"] + a["statistics"]
    BY <1>1 DEF HeldOnes, Ones
<1>4. HeldOnes(y) = b["header"] + b["quantization"] + b["windows"] + b["legacy"]
                  + b["camera"] + b["table"] + b["statistics"]
    BY <1>1 DEF HeldOnes, Ones
<1> QED BY ONLY <1>2, <1>3, <1>4 DEF Ones

\* nor do the lists whose records all weigh the same,
LEMMA PlainKept ==
    ASSUME NEW x, NEW y, Kept(x, y), NEW f \in {"intervals", "skipped"}
    PROVE  Slots(Len(x[f])) \in Nat /\ Slots(Len(y[f])) \in Nat /\ Slots(Len(x[f])) <= Slots(Len(y[f]))
<1>1. PICK m \in Nat, n \in Nat : m = Len(x[f]) /\ n = Len(y[f])
    <2>1. IsSeq(x[f]) /\ IsSeq(y[f])
        BY DEF Kept, ListsTyped
    <2> QED BY <2>1 DEF IsSeq
<1>2. f \in Fields /\ f \in Lists
    BY DEF Fields, Lists
<1>3. m <= n
    BY <1>1, <1>2 DEF Kept, Extends, Carried, Begins
<1> QED BY <1>1, <1>3, SlotsGrow

\* nor all the lists together,
LEMMA HeldListsKept ==
    ASSUME NEW x, NEW y, Kept(x, y)
    PROVE  HeldLists(x) \in Nat /\ HeldLists(y) \in Nat /\ HeldLists(x) <= HeldLists(y)
<1>1. PICK a, b : a = [g \in Counted |-> HeldMany(x, g)] /\ b = [g \in Counted |-> HeldMany(y, g)]
    OBVIOUS
<1>2. ASSUME NEW g \in Counted PROVE a[g] \in Nat /\ b[g] \in Nat /\ a[g] <= b[g]
    <2>1. ListTyped(x, g) /\ ListTyped(y, g)
        BY DEF Kept, ListsTyped
    <2>2. g \in Fields /\ g \in Lists
        BY DEF Counted, Lists, Fields
    <2>3. Begins(x[g], y[g])
        BY <2>2 DEF Kept, Extends, Carried
    <2> QED BY <1>1, <2>1, <2>3, HeldManyKept
<1>3. PICK i, j, k, l : /\ i = Slots(Len(x.intervals)) /\ j = Slots(Len(y.intervals))
                        /\ k = Slots(Len(x.skipped)) /\ l = Slots(Len(y.skipped))
    OBVIOUS
<1>4. i \in Nat /\ j \in Nat /\ i <= j /\ k \in Nat /\ l \in Nat /\ k <= l
    <2>1. "intervals" \in {"intervals", "skipped"} /\ "skipped" \in {"intervals", "skipped"}
        OBVIOUS
    <2> QED BY <1>3, <2>1, PlainKept
<1>5. HeldLists(x) = a["metadata"] + a["attachments"] + a["frames"] + a["sensors"] + a["rigs"] + a["anchors"]
                     + a["tracks"] + a["index"] + a["offsets"] + i + k
    BY <1>1, <1>3 DEF HeldLists, Counted
<1>6. HeldLists(y) = b["metadata"] + b["attachments"] + b["frames"] + b["sensors"] + b["rigs"] + b["anchors"]
                     + b["tracks"] + b["index"] + b["offsets"] + j + l
    BY <1>1, <1>3 DEF HeldLists, Counted
<1> QED BY ONLY <1>2, <1>4, <1>5, <1>6 DEF Counted

\* Of a finite set, a part.
LEMMA PartCounts ==
    ASSUME NEW T, IsFiniteSet(T), NEW S, S \subseteq T
    PROVE  IsFiniteSet(S) /\ Cardinality(S) \in Nat /\ Cardinality(T) \in Nat /\ Cardinality(S) <= Cardinality(T)
BY FS_Subset, FS_CardinalityType

\* nor the audio.
LEMMA HeldAudioKept ==
    ASSUME NEW x, NEW y, AudioTyped(x), AudioTyped(y), Extends(x, y)
    PROVE  HeldAudio(x) \in Nat /\ HeldAudio(y) \in Nat /\ HeldAudio(x) <= HeldAudio(y)
<1>1. PICK a, b, c, d : a = DOMAIN x.sources /\ b = DOMAIN y.sources /\ c = DOMAIN x.payloads /\ d = DOMAIN y.payloads
    OBVIOUS
<1>2. IsFiniteSet(b) /\ IsFiniteSet(d)
    BY <1>1 DEF AudioTyped
<1>3. a \subseteq b /\ c \subseteq d
    <2>1. "sources" \in Fields /\ "payloads" \in Fields /\ "sources" \in Maps /\ "payloads" \in Maps
        BY DEF Fields, Maps
    <2> QED BY <1>1, <2>1 DEF Extends, Carried, MapKept
<1>4. Cardinality(a) \in Nat /\ Cardinality(b) \in Nat /\ Cardinality(a) <= Cardinality(b)
    BY <1>2, <1>3, PartCounts
<1>5. Cardinality(c) \in Nat /\ Cardinality(d) \in Nat /\ Cardinality(c) <= Cardinality(d)
    BY <1>2, <1>3, PartCounts
<1>6. PICK v \in Nat, w \in Nat : v = Weight["AUDIO_SOURCE"] + NODE /\ w = Weight["AUDIO_DATA"] + NODE
    <2>1. Weight["AUDIO_SOURCE"] \in Nat /\ Weight["AUDIO_DATA"] \in Nat
        BY WeighedNat DEF Weighed, FrontMatter
    <2> QED BY <2>1, WeightAssumption
<1>7. v * Cardinality(a) \in Nat /\ v * Cardinality(b) \in Nat /\ v * Cardinality(a) <= v * Cardinality(b)
    BY <1>4, TimesGrow
<1>8. w * Cardinality(c) \in Nat /\ w * Cardinality(d) \in Nat /\ w * Cardinality(c) <= w * Cardinality(d)
    BY <1>5, TimesGrow
<1>9. HeldAudio(x) = v * Cardinality(a) + w * Cardinality(c) /\ HeldAudio(y) = v * Cardinality(b) + w * Cardinality(d)
    BY <1>1, <1>6 DEF HeldAudio
<1> QED BY ONLY <1>7, <1>8, <1>9

----------------------------------------------------------------------------
(***************************************************************************)
(* the chunks and what they assemble to,                                   *)
(***************************************************************************)
\* The chunks of p are the first of q, perhaps short of bands.
ChunksBegin(p, q) ==
    /\ IsSeq(p) /\ IsSeq(q) /\ Len(p) <= Len(q)
    /\ \A i \in 1 .. Len(p) : ChunkTyped(p[i]) /\ p[i].rows = q[i].rows /\ p[i].bands \subseteq q[i].bands
    /\ \A i \in 1 .. Len(q) : ChunkTyped(q[i])

\* A chunk short of bands weighs no more than the chunk.
LEMMA ChunkBytesNat ==
    ASSUME NEW c, ChunkTyped(c), NEW d, ChunkTyped(d), c.rows = d.rows, c.bands \subseteq d.bands
    PROVE  ChunkBytes(c) \in Nat /\ ChunkBytes(d) \in Nat /\ ChunkBytes(c) <= ChunkBytes(d)
<1>1. PICK a, b : a = c.bands /\ b = d.bands
    OBVIOUS
<1>2. PICK m \in Nat, n \in Nat : m = Cardinality(a) /\ n = Cardinality(b) /\ m <= n
    <2>1. IsFiniteSet(b) /\ a \subseteq b
        BY <1>1 DEF ChunkTyped
    <2> QED BY <2>1, PartCounts
<1>3. PICK r \in Nat : r = Len(c.rows)
    BY DEF ChunkTyped
<1>4. ROW \in Nat /\ NODE \in Nat
    BY WeightAssumption
<1>5. PICK w \in Nat : w = ROW * r
    BY <1>4
<1>6. 1 + m \in Nat /\ 1 + n \in Nat /\ 1 + m <= 1 + n
    BY <1>2
<1>7. w * (1 + m) \in Nat /\ w * (1 + n) \in Nat /\ w * (1 + m) <= w * (1 + n)
    BY ONLY <1>6, w \in Nat, TimesGrow
<1>8. NODE * m \in Nat /\ NODE * n \in Nat /\ NODE * m <= NODE * n
    BY ONLY <1>2, <1>4, m \in Nat, n \in Nat, TimesGrow
<1>9. ChunkBytes(c) = w * (1 + m) + NODE * m /\ ChunkBytes(d) = w * (1 + n) + NODE * n
    BY <1>1, <1>2, <1>3, <1>5 DEF ChunkBytes
<1> QED BY ONLY <1>7, <1>8, <1>9

\* Fewer chunks, or shorter ones, decode to no more bytes,
LEMMA DecodedBegins ==
    ASSUME NEW p, NEW q, ChunksBegin(p, q)
    PROVE  DecodedBytes(p) \in Nat /\ DecodedBytes(q) \in Nat /\ DecodedBytes(p) <= DecodedBytes(q)
<1>1. PICK m \in Nat, n \in Nat : m = Len(p) /\ n = Len(q)
    BY DEF ChunksBegin, IsSeq
<1>2. DOMAIN p = 1 .. m /\ DOMAIN q = 1 .. n /\ m \in 0 .. n
    BY <1>1 DEF ChunksBegin, IsSeq
<1>3. PICK t, u : t = [i \in DOMAIN p |-> ChunkBytes(p[i])] /\ u = [i \in DOMAIN q |-> ChunkBytes(q[i])]
    OBVIOUS
<1>4. DOMAIN t = 1 .. m /\ DOMAIN u = 1 .. n
    BY <1>2, <1>3
<1>5. \A i \in 1 .. n : u[i] \in Nat
    BY <1>1, <1>2, <1>3, ChunkBytesNat DEF ChunksBegin
<1>6. \A i \in 1 .. m : t[i] \in Nat /\ t[i] <= u[i]
    <2> SUFFICES ASSUME NEW i \in 1 .. m PROVE t[i] \in Nat /\ t[i] <= u[i]
        OBVIOUS
    <2>1. i \in 1 .. n
        BY <1>2
    <2>2. PICK c, d : c = p[i] /\ d = q[i]
        OBVIOUS
    <2>3. ChunkTyped(c) /\ ChunkTyped(d) /\ c.rows = d.rows /\ c.bands \subseteq d.bands
        BY <1>1, <2>1, <2>2 DEF ChunksBegin
    <2>4. ChunkBytes(c) \in Nat /\ ChunkBytes(c) <= ChunkBytes(d)
        BY <2>3, ChunkBytesNat
    <2> QED BY <1>2, <1>3, <2>1, <2>2, <2>4
<1>7. Total(t) \in Nat /\ Total(u) \in Nat /\ Total(t) <= Total(u)
    BY ONLY <1>2, <1>4, <1>5, <1>6, n \in Nat, TotalBegins
<1> QED BY <1>3, <1>7 DEF DecodedBytes

\* have no more gaussians,
LEMMA RowsBegin ==
    ASSUME NEW p, NEW q, ChunksBegin(p, q)
    PROVE  RowsOf(p) \in Nat /\ RowsOf(q) \in Nat /\ RowsOf(p) <= RowsOf(q)
<1>1. PICK m \in Nat, n \in Nat : m = Len(p) /\ n = Len(q)
    BY DEF ChunksBegin, IsSeq
<1>2. DOMAIN p = 1 .. m /\ DOMAIN q = 1 .. n /\ m \in 0 .. n
    BY <1>1 DEF ChunksBegin, IsSeq
<1>3. PICK t, u : t = [i \in DOMAIN p |-> Len(p[i].rows)] /\ u = [i \in DOMAIN q |-> Len(q[i].rows)]
    OBVIOUS
<1>4. DOMAIN t = 1 .. m /\ DOMAIN u = 1 .. n
    BY <1>2, <1>3
<1>5. \A i \in 1 .. n : u[i] \in Nat
    BY <1>1, <1>2, <1>3 DEF ChunksBegin, ChunkTyped
<1>6. \A i \in 1 .. m : t[i] \in Nat /\ t[i] <= u[i]
    <2> SUFFICES ASSUME NEW i \in 1 .. m PROVE t[i] = u[i] /\ i \in 1 .. n
        BY <1>5
    <2>1. i \in 1 .. n
        BY <1>2
    <2>2. p[i].rows = q[i].rows
        BY <1>1 DEF ChunksBegin
    <2> QED BY <1>2, <1>3, <2>1, <2>2
<1>7. Total(t) \in Nat /\ Total(u) \in Nat /\ Total(t) <= Total(u)
    BY ONLY <1>2, <1>4, <1>5, <1>6, n \in Nat, TotalBegins
<1> QED BY <1>3, <1>7 DEF RowsOf

\* The bands the chunks have are finitely many.
LEMMA PresentFinite ==
    ASSUME NEW q, IsSeq(q), \A i \in 1 .. Len(q) : ChunkTyped(q[i])
    PROVE  IsFiniteSet(Present(q))
<1>1. PICK n \in Nat : n = Len(q)
    BY DEF IsSeq
<1>2. DOMAIN q = 1 .. n
    BY <1>1 DEF IsSeq
<1>3. PICK D : D = 1 .. n
    OBVIOUS
<1>4. PICK b : b = [i \in D |-> q[i].bands]
    OBVIOUS
<1>5. PICK S : S = {b[i] : i \in D}
    OBVIOUS
<1>6. IsFiniteSet(S)
    <2>1. IsFiniteSet(D)
        BY <1>3, FS_Interval
    <2>2. PICK T : T = {b[i] : i \in D}
        OBVIOUS
    <2>3. b \in Surjection(D, T)
        BY <1>4, <2>2 DEF Surjection
    <2> QED BY <1>5, <2>1, <2>2, <2>3, FS_Surjection
<1>7. \A T \in S : IsFiniteSet(T)
    BY <1>1, <1>3, <1>4, <1>5 DEF ChunkTyped
<1>8. IsFiniteSet(UNION S)
    BY ONLY <1>6, <1>7, FS_UNION
<1>9. Present(q) = UNION S
    BY <1>2, <1>3, <1>4, <1>5 DEF Present
<1> QED BY <1>8, <1>9

\* reach no higher degree,
LEMMA DegreeBegins ==
    ASSUME NEW p, NEW q, ChunksBegin(p, q)
    PROVE  DegreeOf(p) \in Nat /\ DegreeOf(q) \in Nat /\ DegreeOf(p) <= DegreeOf(q)
<1>1. DOMAIN p = 1 .. Len(p) /\ DOMAIN q = 1 .. Len(q) /\ Len(p) \in Nat /\ Len(q) \in Nat /\ Len(p) <= Len(q)
    BY DEF ChunksBegin, IsSeq
<1>2. Present(p) \subseteq Present(q)
    <2> SUFFICES ASSUME NEW i \in DOMAIN p PROVE i \in DOMAIN q /\ p[i].bands \subseteq q[i].bands
        BY DEF Present
    <2> QED BY <1>1 DEF ChunksBegin
<1>3. IsFiniteSet(Present(q))
    BY PresentFinite DEF ChunksBegin
<1> QED BY <1>2, <1>3, PartCounts DEF DegreeOf

\* and take no more to assemble (assemble_with_budgets, stream_reader.rs).
LEMMA AssemblyBegins ==
    ASSUME NEW p, NEW q, ChunksBegin(p, q), NEW h
    PROVE  AssemblyBytes(p, h) \in Nat /\ AssemblyBytes(q, h) \in Nat /\ AssemblyBytes(p, h) <= AssemblyBytes(q, h)
<1>1. PICK r \in Nat, e \in Nat : r = RowsOf(p) /\ e = RowsOf(q) /\ r <= e
    BY RowsBegin
<1>2. PICK i \in Nat, j \in Nat : /\ i = 1 + (IF h.sh_degree > 0 THEN DegreeOf(p) ELSE 0)
                                  /\ j = 1 + (IF h.sh_degree > 0 THEN DegreeOf(q) ELSE 0) /\ i <= j
    BY DegreeBegins
<1>3. ROW \in Nat
    BY WeightAssumption
<1>4. PICK v \in Nat, w \in Nat : v = ROW * r /\ w = ROW * e /\ v <= w
    BY <1>1, <1>3, TimesGrow
<1>5. v * i <= w * j /\ v * i \in Nat /\ w * j \in Nat
    <2>1. v * i \in Nat /\ v * i <= v * j /\ v * j \in Nat
        BY <1>2, TimesGrow
    <2>2. j * v <= j * w /\ j * v \in Nat /\ j * w \in Nat
        BY <1>4, TimesGrow
    <2>3. j * v = v * j /\ j * w = w * j
        OBVIOUS
    <2> QED BY ONLY <2>1, <2>2, <2>3
<1>6. SetBytes(p, h) = v * i /\ SetBytes(q, h) = w * j
    BY <1>1, <1>2, <1>4 DEF SetBytes
<1>7. PICK m \in Nat, n \in Nat : m = Len(p) /\ n = Len(q) /\ m \in 0 .. n
    BY DEF ChunksBegin, IsSeq
<1>8. SLOT * Exact(m) \in Nat /\ SLOT * Exact(n) \in Nat /\ SLOT * Exact(m) <= SLOT * Exact(n)
    BY <1>7, ExactGrows
<1>9. DecodedBytes(p) \in Nat /\ DecodedBytes(q) \in Nat /\ DecodedBytes(p) <= DecodedBytes(q)
    BY DecodedBegins
<1>10. AssemblyBytes(p, h) = DecodedBytes(p) + v * i + SLOT * Exact(m)
       /\ AssemblyBytes(q, h) = DecodedBytes(q) + w * j + SLOT * Exact(n)
    BY <1>6, <1>7 DEF AssemblyBytes
<1> QED BY ONLY <1>5, <1>8, <1>9, <1>10

----------------------------------------------------------------------------
(***************************************************************************)
(* and what outlives the read.  Audio is delivered another way than it is held:*)
(* a descriptor whose payload has not come is not a source.                *)
(***************************************************************************)
\* A legacy record stands alone.
AudioApart(x) == IsSome(x.legacy) => DOMAIN x.sources = {} /\ DOMAIN x.payloads = {}

\* How many audio sources are delivered: the legacy one, or one for each descriptor with its payload.
LEMMA SourceCount ==
    ASSUME NEW x, AudioTyped(x)
    PROVE  /\ IsFiniteSet(MatchedIds(x))
           /\ Len(Sources(x)) = IF IsSome(x.legacy) THEN 1 ELSE Cardinality(MatchedIds(x))
<1>1. IsFiniteSet(MatchedIds(x))
    <2>1. IsFiniteSet(DOMAIN x.sources) /\ MatchedIds(x) \subseteq DOMAIN x.sources
        BY DEF AudioTyped, MatchedIds
    <2> QED BY <2>1, FS_Subset
<1>2. PICK n \in Nat : n = Cardinality(MatchedIds(x))
    BY <1>1, FS_CardinalityType
<1>3. CASE IsSome(x.legacy)
    <2>1. Sources(x) = <<[id |-> 0, legacy |-> TRUE, length |-> x.legacy[1].payload]>>
        BY <1>3 DEF Sources
    <2>2. Len(Sources(x)) = 1
        BY <2>1
    <2> QED BY <1>1, <1>3, <2>2
<1>4. CASE ~IsSome(x.legacy)
    <2>1. PICK ids : ids = Ranked(MatchedIds(x))
        OBVIOUS
    <2>2. DOMAIN ids = 1 .. n
        BY <1>2, <2>1 DEF Ranked
    <2>3. Sources(x) = [i \in DOMAIN ids |-> [id |-> ids[i], legacy |-> FALSE, length |-> x.payloads[ids[i]].length]]
        BY <1>4, <2>1 DEF Sources
    <2>4. Sources(x) = [i \in 1 .. n |-> [id |-> ids[i], legacy |-> FALSE, length |-> x.payloads[ids[i]].length]]
        BY <2>2, <2>3
    <2>5. Len(Sources(x)) = n
        BY <2>4
    <2> QED BY <1>1, <1>2, <1>4, <2>5
<1> QED BY <1>3, <1>4

\* Audio that was there is there, and sources once matched stay matched.
LEMMA MatchedKept ==
    ASSUME NEW x, NEW y, Extends(x, y)
    PROVE  /\ DOMAIN x.sources \subseteq DOMAIN y.sources /\ DOMAIN x.payloads \subseteq DOMAIN y.payloads
           /\ \A i \in DOMAIN x.sources : y.sources[i] = x.sources[i]
           /\ \A i \in DOMAIN x.payloads : y.payloads[i] = x.payloads[i]
           /\ MatchedIds(x) \subseteq MatchedIds(y)
           /\ IsSome(x.legacy) => IsSome(y.legacy)
<1>1. {"sources", "payloads", "legacy"} \subseteq Fields /\ {"sources", "payloads"} \subseteq Maps /\ "legacy" \in Ones
    BY DEF Fields, Maps, Ones
<1>2. MapKept(x.sources, y.sources) /\ MapKept(x.payloads, y.payloads) /\ (IsSome(x.legacy) => IsSome(y.legacy))
    BY <1>1 DEF Extends, Carried
<1> QED BY <1>2 DEF MapKept, MatchedIds

\* So the sources delivered grow in number, if a legacy record stands alone.
LEMMA SourcesGrow ==
    ASSUME NEW x, NEW y, AudioTyped(x), AudioTyped(y), Extends(x, y), AudioApart(y)
    PROVE  LET a == Slots(Len(Sources(x)))  b == Slots(Len(Sources(y))) IN a \in Nat /\ b \in Nat /\ a <= b
<1>1. PICK m, n : m = Cardinality(MatchedIds(x)) /\ n = Cardinality(MatchedIds(y))
    OBVIOUS
<1>2. m \in Nat /\ n \in Nat /\ m <= n
    BY <1>1, MatchedKept, SourceCount, PartCounts
<1>3. Len(Sources(x)) = (IF IsSome(x.legacy) THEN 1 ELSE m) /\ Len(Sources(y)) = (IF IsSome(y.legacy) THEN 1 ELSE n)
    BY <1>1, SourceCount
<1>4. IsSome(y.legacy) => m = 0
    <2>1. ASSUME IsSome(y.legacy) PROVE MatchedIds(x) = {}
        BY <2>1, MatchedKept DEF AudioApart, MatchedIds
    <2> QED BY <1>1, <2>1, FS_EmptySet
<1>5. IsSome(x.legacy) => IsSome(y.legacy)
    BY MatchedKept
<1>6. PICK i \in Nat, j \in Nat : i = Len(Sources(x)) /\ j = Len(Sources(y)) /\ i <= j
    BY <1>2, <1>3, <1>4, <1>5
<1> QED BY <1>6, SlotsGrow

\* What outlives the read, written without subtracting.
LEMMA SettledIs ==
    ASSUME NEW x, Sound(x), x.outcome # "refused"
    PROVE  Settled(x) = HeldOnes(x) + HeldLists(x) + Weight["AUDIO_SOURCE"] * Cardinality(DOMAIN x.sources)
                        + Weight["AUDIO_DATA"] * Cardinality(MatchedIds(x)) + Slots(Len(Sources(x)))
<1>1. Typed(x) /\ x.retained = Held(x)
    BY DEF Sound, Ledger
<1>2. PICK a, c, o, m : /\ a = Cardinality(DOMAIN x.sources) /\ c = Cardinality(DOMAIN x.payloads)
                        /\ o = Cardinality(DOMAIN x.payloads \ MatchedIds(x)) /\ m = Cardinality(MatchedIds(x))
    OBVIOUS
<1>3. a \in Nat /\ c \in Nat /\ o \in Nat /\ m \in Nat /\ c = o + m
    <2>1. PICK S, T : S = DOMAIN x.payloads /\ T = MatchedIds(x)
        OBVIOUS
    <2>2. IsFiniteSet(S) /\ IsFiniteSet(DOMAIN x.sources) /\ T \subseteq S
        BY <1>1, <2>1 DEF Typed, AudioTyped, MatchedIds
    <2>3. IsFiniteSet(S \ T) /\ Cardinality(S \ T) = Cardinality(S) - Cardinality(S \cap T)
        BY <2>2, FS_Difference
    <2>4. S \cap T = T /\ IsFiniteSet(T)
        BY <2>2, FS_Subset
    <2>5. c = Cardinality(S) /\ o = Cardinality(S \ T) /\ m = Cardinality(T) /\ m = Cardinality(S \cap T)
        BY <1>2, <2>1, <2>4
    <2>6. a \in Nat /\ c \in Nat /\ o \in Nat /\ m \in Nat
        BY <1>2, <2>2, <2>3, <2>4, <2>5, FS_CardinalityType
    <2> QED BY <2>3, <2>5, <2>6
<1>4. PICK v \in Nat, w \in Nat : v = Weight["AUDIO_SOURCE"] /\ w = Weight["AUDIO_DATA"]
    BY WeighedNat DEF Weighed, FrontMatter
<1>5. NODE \in Nat
    BY WeightAssumption
<1>6. PICK p \in Int, q \in Int, l \in Int : p = HeldOnes(x) /\ q = HeldLists(x) /\ l = Slots(Len(Sources(x)))
    <2>1. HeldOnes(x) \in Int
        BY <1>1, OnesStay DEF Typed
    <2>2. HeldLists(x) \in Int
        BY <1>1, ListsStay DEF Typed, ListsTyped
    <2>3. Slots(Len(Sources(x))) \in Int
        <3>1. Len(Sources(x)) \in Nat
            BY <1>1, <1>2, <1>3, SourceCount DEF Typed
        <3> QED BY <3>1, SlotsInt
    <2> QED BY <2>1, <2>2, <2>3
<1>7. Settled(x) = p + q + ((v + NODE) * a + (w + NODE) * c) + l - w * o - NODE * (a + c)
    BY <1>1, <1>2, <1>4, <1>6 DEF Settled, Held, HeldAudio
<1>8. (v + NODE) * a = v * a + NODE * a /\ (w + NODE) * c = w * c + NODE * c /\ NODE * (a + c) = NODE * a + NODE * c
      /\ w * c = w * o + w * m
    BY ONLY <1>3, <1>5, v \in Nat, w \in Nat
<1>9. v * a \in Int /\ NODE * a \in Int /\ w * c \in Int /\ NODE * c \in Int /\ w * o \in Int /\ w * m \in Int
    BY ONLY <1>3, <1>5, v \in Nat, w \in Nat
<1>10. Settled(x) = p + q + v * a + w * m + l
    BY ONLY <1>7, <1>8, <1>9, p \in Int, q \in Int, l \in Int
<1> QED BY <1>2, <1>4, <1>6, <1>10

\* What outlives a read grows with what is read.
LEMMA SettledGrows ==
    ASSUME NEW x, NEW y, Sound(x), x.outcome # "refused", Sound(y), y.outcome # "refused", Extends(x, y), AudioApart(y)
    PROVE  Settled(x) \in Nat /\ Settled(y) \in Nat /\ Settled(x) <= Settled(y)
<1>1. Typed(x) /\ Typed(y)
    BY DEF Sound
<1>2. Kept(x, y) /\ AudioTyped(x) /\ AudioTyped(y)
    BY <1>1 DEF Typed, Kept
<1>3. PICK a \in Nat, b \in Nat : a = HeldOnes(x) /\ b = HeldOnes(y) /\ a <= b
    BY <1>2, HeldOnesKept
<1>4. PICK c \in Nat, d \in Nat : c = HeldLists(x) /\ d = HeldLists(y) /\ c <= d
    BY <1>2, HeldListsKept
<1>5. PICK e \in Nat, f \in Nat : e = Slots(Len(Sources(x))) /\ f = Slots(Len(Sources(y))) /\ e <= f
    BY <1>2, SourcesGrow
<1>6. PICK v \in Nat, w \in Nat : v = Weight["AUDIO_SOURCE"] /\ w = Weight["AUDIO_DATA"]
    BY WeighedNat DEF Weighed, FrontMatter
<1>7. PICK g \in Nat, h \in Nat : g = v * Cardinality(DOMAIN x.sources) /\ h = v * Cardinality(DOMAIN y.sources) /\ g <= h
    <2>1. IsFiniteSet(DOMAIN y.sources) /\ DOMAIN x.sources \subseteq DOMAIN y.sources
        BY <1>2, MatchedKept DEF AudioTyped
    <2>2. PICK i \in Nat, j \in Nat : i = Cardinality(DOMAIN x.sources) /\ j = Cardinality(DOMAIN y.sources) /\ i <= j
        BY <2>1, PartCounts
    <2> QED BY <2>2, TimesGrow
<1>8. PICK k \in Nat, l \in Nat : k = w * Cardinality(MatchedIds(x)) /\ l = w * Cardinality(MatchedIds(y)) /\ k <= l
    <2>1. IsFiniteSet(MatchedIds(y)) /\ MatchedIds(x) \subseteq MatchedIds(y)
        BY <1>2, MatchedKept, SourceCount
    <2>2. PICK i \in Nat, j \in Nat : i = Cardinality(MatchedIds(x)) /\ j = Cardinality(MatchedIds(y)) /\ i <= j
        BY <2>1, PartCounts
    <2> QED BY <2>2, TimesGrow
<1>9. Settled(x) = a + c + g + k + e
    BY <1>3, <1>4, <1>5, <1>6, <1>7, <1>8, SettledIs
<1>10. Settled(y) = b + d + h + l + f
    BY <1>3, <1>4, <1>5, <1>6, <1>7, <1>8, SettledIs
<1>11. a + c + g + k + e \in Nat /\ b + d + h + l + f \in Nat /\ a + c + g + k + e <= b + d + h + l + f
    <2>1. a <= b /\ c <= d /\ e <= f /\ g <= h /\ k <= l
        BY <1>3, <1>4, <1>5, <1>7, <1>8
    <2> QED
        BY ONLY <2>1, a \in Nat, b \in Nat, c \in Nat, d \in Nat, e \in Nat, f \in Nat, g \in Nat, h \in Nat,
           k \in Nat, l \in Nat
<1> QED BY ONLY <1>9, <1>10, <1>11

----------------------------------------------------------------------------
(***************************************************************************)
(* Rules.  What Finish asks of a cut file follows from what it asked of the*)
(* whole one.                                                              *)
(***************************************************************************)
ProvenanceOf(x) == [frames |-> x.frames, sensors |-> x.sensors, rigs |-> x.rigs, anchors |-> x.anchors]

\* What Finish asks of a reader that has not given up, with the chunks it would deliver.
Delivers(x, chunks, truncated) ==
    /\ truncated => x.options.recover
    /\ IsSome(x.header) /\ IsSome(x.quantization)
    /\ ProvenanceHolds(ProvenanceOf(x), truncated /\ ~x.saw_footer)
    /\ TracksHold(x.tracks) /\ AudioHolds(x, truncated) /\ SourcesFit(x)
    /\ Assembles(chunks, x.header[1]) /\ AssemblyFits(x, chunks)

\* A whole file that is answered met every demand of finish, with all of its chunks.
LEMMA WholeAsks ==
    ASSUME NEW x, Reading(x), IsSome(Finish(x, TRUE))
    PROVE  Delivers(x, x.chunks, FALSE)
<1>1. x.outcome # "cut"
    BY DEF Reading
<1>2. PICK chunks, truncated : chunks = x.chunks /\ truncated = FALSE
    OBVIOUS
<1>3. PICK p : p = ProvenanceOf(x)
    OBVIOUS
<1>4. /\ IsSome(x.header) /\ IsSome(x.quantization)
      /\ ProvenanceHolds(p, truncated /\ ~x.saw_footer)
      /\ TracksHold(x.tracks) /\ AudioHolds(x, truncated) /\ SourcesFit(x)
      /\ Assembles(chunks, x.header[1]) /\ AssemblyFits(x, chunks)
    BY <1>1, <1>2, <1>3 DEF Finish, IsSome, None, ProvenanceOf
<1> QED BY <1>2, <1>3, <1>4 DEF Delivers

\* A cut file that meets them, with the chunks recovery keeps, is answered.
LEMMA CutAnswers ==
    ASSUME NEW x, x.outcome # "refused", Delivers(x, WholeChunks(x.chunks), TRUE)
    PROVE  IsSome(Finish(x, FALSE))
<1>1. PICK chunks, truncated : chunks = WholeChunks(x.chunks) /\ truncated = TRUE
    OBVIOUS
<1>2. PICK p : p = ProvenanceOf(x)
    OBVIOUS
<1>3. /\ x.options.recover /\ IsSome(x.header) /\ IsSome(x.quantization)
      /\ ProvenanceHolds(p, truncated /\ ~x.saw_footer)
      /\ TracksHold(x.tracks) /\ AudioHolds(x, truncated) /\ SourcesFit(x)
      /\ Assembles(chunks, x.header[1]) /\ AssemblyFits(x, chunks)
    BY <1>1, <1>2 DEF Delivers
<1>4. PICK w : w = SceneOf(x, chunks, truncated)
    OBVIOUS
<1>5. Finish(x, FALSE) = Some(w)
    BY <1>1, <1>2, <1>3, <1>4 DEF Finish, ProvenanceOf
<1>6. Some(w) # <<>>
    BY DEF Some
<1> QED BY <1>5, <1>6 DEF IsSome, None

\* Names that are unique in a list are unique in what it begins with.
LEMMA UniqueBegins ==
    ASSUME NEW a, IsSeq(a), NEW b, IsSeq(b), Begins(a, b), Unique(b)
    PROVE  Unique(a)
<1>1. DOMAIN a = 1 .. Len(a) /\ DOMAIN b = 1 .. Len(b) /\ Len(a) \in Nat /\ Len(b) \in Nat /\ Len(a) <= Len(b)
    BY DEF IsSeq, Begins
<1> SUFFICES ASSUME NEW i \in DOMAIN a, NEW j \in DOMAIN a, a[i].name = a[j].name PROVE i = j
    BY DEF Unique
<1>2. i \in DOMAIN b /\ j \in DOMAIN b /\ b[i] = a[i] /\ b[j] = a[j]
    BY <1>1 DEF Begins
<1> QED BY <1>2 DEF Unique

\* So are the objects of the pose tracks.
LEMMA TracksBegin ==
    ASSUME NEW a, IsSeq(a), NEW b, IsSeq(b), Begins(a, b), TracksHold(b)
    PROVE  TracksHold(a)
<1>1. DOMAIN a = 1 .. Len(a) /\ DOMAIN b = 1 .. Len(b) /\ Len(a) \in Nat /\ Len(b) \in Nat /\ Len(a) <= Len(b)
    BY DEF IsSeq, Begins
<1> SUFFICES ASSUME NEW i \in DOMAIN a, NEW j \in DOMAIN a, a[i].object = a[j].object PROVE i = j
    BY DEF TracksHold
<1>2. i \in DOMAIN b /\ j \in DOMAIN b /\ b[i] = a[i] /\ b[j] = a[j]
    BY <1>1 DEF Begins
<1> QED BY <1>2 DEF TracksHold

\* No rule asks of a cut what only the lost part could supply.
LEMMA RulesKept ==
    ASSUME NEW x, NEW y, Sound(x), x.outcome # "refused", Sound(y), y.outcome # "refused", Extends(x, y),
           IsSome(x.header), y.header = x.header, x.saw_footer => ProvenanceOf(x) = ProvenanceOf(y),
           NEW c, Delivers(y, c, FALSE)
    PROVE  /\ ProvenanceHolds(ProvenanceOf(x), TRUE /\ ~x.saw_footer)
           /\ TracksHold(x.tracks) /\ AudioHolds(x, TRUE) /\ AudioApart(y)
<1>1. ListsTyped(x) /\ ListsTyped(y)
    BY DEF Sound, Typed
<1>2. ASSUME NEW f \in Counted PROVE IsSeq(x[f]) /\ IsSeq(y[f]) /\ Begins(x[f], y[f])
    <2>1. f \in Fields /\ f \in Lists
        BY DEF Counted, Lists, Fields
    <2> QED BY <1>1, <2>1 DEF ListsTyped, ListTyped, Extends, Carried
<1>3. ProvenanceHolds(ProvenanceOf(y), FALSE)
    <2>1. (FALSE /\ ~y.saw_footer) = FALSE
        OBVIOUS
    <2> QED BY <2>1 DEF Delivers
<1>4. Unique(x.frames) /\ Unique(x.sensors) /\ Unique(x.rigs) /\ Unique(x.anchors)
    <2>1. Unique(y.frames) /\ Unique(y.sensors) /\ Unique(y.rigs) /\ Unique(y.anchors)
        BY <1>3 DEF ProvenanceHolds, ProvenanceOf
    <2>2. ASSUME NEW f \in {"frames", "sensors", "rigs", "anchors"} PROVE IsSeq(x[f]) /\ IsSeq(y[f]) /\ Begins(x[f], y[f])
        BY <1>2 DEF Counted
    <2>3. PICK a, b : a = x.frames /\ b = y.frames
        OBVIOUS
    <2>4. PICK d, e : d = x.sensors /\ e = y.sensors
        OBVIOUS
    <2>5. PICK g, h : g = x.rigs /\ h = y.rigs
        OBVIOUS
    <2>6. PICK i, j : i = x.anchors /\ j = y.anchors
        OBVIOUS
    <2>7. Unique(a)
        BY <2>1, <2>2, <2>3, UniqueBegins
    <2>8. Unique(d)
        BY <2>1, <2>2, <2>4, UniqueBegins
    <2>9. Unique(g)
        BY <2>1, <2>2, <2>5, UniqueBegins
    <2>10. Unique(i)
        BY <2>1, <2>2, <2>6, UniqueBegins
    <2> QED BY <2>3, <2>4, <2>5, <2>6, <2>7, <2>8, <2>9, <2>10
<1>5. ProvenanceHolds(ProvenanceOf(x), TRUE /\ ~x.saw_footer)
    <2>1. CASE x.saw_footer
        <3>1. (TRUE /\ ~x.saw_footer) = FALSE
            BY <2>1
        <3> QED BY <1>3, <2>1, <3>1
    <2>2. CASE ~x.saw_footer
        BY <1>4, <2>2 DEF ProvenanceHolds, ProvenanceOf
    <2> QED BY <2>1, <2>2
<1>6. TracksHold(x.tracks)
    <2>1. PICK a, b : a = x.tracks /\ b = y.tracks
        OBVIOUS
    <2>2. IsSeq(a) /\ IsSeq(b) /\ Begins(a, b)
        BY <1>2, <2>1 DEF Counted
    <2> QED BY <2>1, <2>2, TracksBegin DEF Delivers
<1>7. AudioHolds(y, FALSE)
    BY DEF Delivers
<1>8. AudioApart(y)
    BY <1>7 DEF AudioHolds, AudioApart
<1>9. /\ DOMAIN x.sources \subseteq DOMAIN y.sources /\ DOMAIN x.payloads \subseteq DOMAIN y.payloads
      /\ \A i \in DOMAIN x.sources : y.sources[i] = x.sources[i]
      /\ \A i \in DOMAIN x.payloads : y.payloads[i] = x.payloads[i]
      /\ MatchedIds(x) \subseteq MatchedIds(y)
      /\ IsSome(x.legacy) => IsSome(y.legacy)
    BY MatchedKept
<1>10. AudioHolds(x, TRUE)
    <2>1. PICK h : h = x.header[1]
        OBVIOUS
    <2>2. (DOMAIN x.sources # {} \/ DOMAIN x.payloads # {} \/ IsSome(x.legacy)) => h.has_audio
        BY <1>7, <1>9, <2>1 DEF AudioHolds
    <2>3. ~(IsSome(x.legacy) /\ DOMAIN x.sources \cup DOMAIN x.payloads # {})
        BY <1>8, <1>9 DEF AudioApart
    <2>4. ASSUME NEW i \in MatchedIds(x)
          PROVE  /\ x.payloads[i].length = x.sources[i].length
                 /\ \A k \in DOMAIN x.sources[i].times : x.sources[i].times[k] \in 0 .. h.duration
        <3>1. i \in MatchedIds(y) /\ y.sources[i] = x.sources[i] /\ y.payloads[i] = x.payloads[i]
            BY <1>9 DEF MatchedIds
        <3> QED BY <1>7, <2>1, <3>1 DEF AudioHolds
    <2> QED BY <2>1, <2>2, <2>3, <2>4 DEF AudioHolds
<1> QED BY <1>5, <1>6, <1>8, <1>10

\* Nor is a bound met sooner.
LEMMA BoundsKept ==
    ASSUME NEW x, NEW y, Sound(x), x.outcome # "refused", Sound(y), y.outcome # "refused", Extends(x, y),
           y.header = x.header, AudioApart(y), ChunksBegin(x.chunks, y.chunks),
           x.options.limit \in Int, x.options.ceiling \in Int,
           NEW kept, ChunksBegin(kept, y.chunks), SourcesFit(y), AssemblyFits(y, y.chunks)
    PROVE  SourcesFit(x) /\ AssemblyFits(x, kept)
<1>1. Typed(x) /\ Typed(y) /\ Ledger(x) /\ Ledger(y)
    BY DEF Sound
<1>2. Kept(x, y) /\ AudioTyped(x) /\ AudioTyped(y)
    BY <1>1 DEF Typed, Kept
<1>3. PICK limit \in Int, ceiling \in Int : /\ limit = x.options.limit /\ limit = y.options.limit
                                            /\ ceiling = x.options.ceiling /\ ceiling = y.options.ceiling
    <2>1. y.options = x.options
        BY DEF Extends, Carried, Fields
    <2> QED BY <2>1
<1>4. PICK a \in Nat, b \in Nat : a = x.retained /\ b = y.retained /\ a <= b
    <2>1. HeldOnes(x) \in Nat /\ HeldOnes(y) \in Nat /\ HeldOnes(x) <= HeldOnes(y)
        BY <1>2, HeldOnesKept
    <2>2. HeldLists(x) \in Nat /\ HeldLists(y) \in Nat /\ HeldLists(x) <= HeldLists(y)
        BY <1>2, HeldListsKept
    <2>3. HeldAudio(x) \in Nat /\ HeldAudio(y) \in Nat /\ HeldAudio(x) <= HeldAudio(y)
        BY <1>2, HeldAudioKept
    <2>4. Held(x) \in Nat /\ Held(y) \in Nat /\ Held(x) <= Held(y)
        BY <2>1, <2>2, <2>3 DEF Held
    <2> QED BY <1>1, <2>4 DEF Ledger
<1>5. PICK p \in Nat, q \in Nat : p = Slots(Len(x.chunks)) /\ q = Slots(Len(y.chunks)) /\ p <= q
    <2>1. PICK m \in Nat, n \in Nat : m = Len(x.chunks) /\ n = Len(y.chunks) /\ m <= n
        BY DEF ChunksBegin, IsSeq
    <2> QED BY <2>1, SlotsGrow
<1>6. PICK c \in Nat, d \in Nat : c = x.decoded /\ d = y.decoded /\ c <= d
    <2>1. DecodedBytes(x.chunks) \in Nat /\ DecodedBytes(y.chunks) \in Nat
          /\ DecodedBytes(x.chunks) <= DecodedBytes(y.chunks)
        BY DecodedBegins
    <2>2. x.decoded = DecodedBytes(x.chunks) + 4 * p /\ y.decoded = DecodedBytes(y.chunks) + 4 * q
        BY <1>1, <1>5 DEF Ledger, DecodedLedger
    <2> QED BY <1>5, <2>1, <2>2
<1>7. PICK e \in Nat, f \in Nat : e = Slots(Len(Sources(x))) /\ f = Slots(Len(Sources(y))) /\ e <= f
    BY <1>2, SourcesGrow
<1>8. SourcesFit(x)
    <2>1. b + f <= ceiling - d
        BY <1>3, <1>4, <1>6, <1>7 DEF SourcesFit, RetainedCeiling
    <2>2. a <= b /\ c <= d /\ e <= f
        BY <1>4, <1>6, <1>7
    <2>3. a + e <= ceiling - c
        BY ONLY <2>1, <2>2, a \in Nat, b \in Nat, c \in Nat, d \in Nat, e \in Nat, f \in Nat, ceiling \in Int
    <2> QED BY <1>3, <1>4, <1>6, <1>7, <2>3 DEF SourcesFit, RetainedCeiling
<1>9. PICK g \in Nat, h \in Nat : /\ g = AssemblyBytes(kept, x.header[1]) /\ h = AssemblyBytes(y.chunks, y.header[1])
                                  /\ g <= h
    <2>1. PICK r : r = x.header[1] /\ r = y.header[1]
        OBVIOUS
    <2> QED BY <2>1, AssemblyBegins
<1>10. PICK k \in Nat, l \in Nat : k = Settled(x) /\ l = Settled(y) /\ k <= l
    BY SettledGrows
<1>11. h + 2 * q <= limit /\ h + 2 * q + l <= ceiling
    BY <1>3, <1>5, <1>9, <1>10 DEF AssemblyFits
<1>12. g + 2 * p <= limit /\ g + 2 * p + k <= ceiling
    <2>1. p <= q /\ g <= h /\ k <= l
        BY <1>5, <1>9, <1>10
    <2> QED BY ONLY <1>11, <2>1, g \in Nat, h \in Nat, k \in Nat, l \in Nat, p \in Nat, q \in Nat,
                   limit \in Int, ceiling \in Int
<1>13. AssemblyFits(x, kept)
    BY <1>3, <1>5, <1>9, <1>10, <1>12 DEF AssemblyFits
<1> QED BY <1>8, <1>13

----------------------------------------------------------------------------
(***************************************************************************)
(* Bands in order.  A chunk that another follows has all its bands; the last*)
(* one has the first so many, for they came in ascending order.            *)
(***************************************************************************)
\* One turn of a run that reads on.
LEMMA TurnMarks ==
    ASSUME NEW f \in FILES, NEW o, NEW g, Runs(f, o, g), NEW n \in 0 .. Len(f), Reading(g[n]), NEW k \in 1 .. n
    PROVE  /\ Reading(g[k - 1]) /\ Reading(g[k])
           /\ Grown(g[k - 1], g[k]) /\ Marks(g[k - 1], g[k], f[k])
           /\ Len(g[k - 1].chunks) \in Nat /\ Len(g[k].chunks) \in Nat
<1>1. k \in 1 .. Len(f) /\ k \in 0 .. n /\ k - 1 \in 0 .. n /\ k \in 0 .. Len(f) /\ k - 1 \in 0 .. Len(f)
    BY FileIs DEF IsSeq
<1>2. Reading(g[k - 1]) /\ Reading(g[k])
    BY <1>1, RunGrows
<1>3. /\ Sound(g[k - 1]) /\ Sound(g[k]) /\ RowsAreSeqs(g[k - 1])
    BY <1>1, <1>2, RunSound
<1>4. Grown(g[k - 1], g[k]) /\ Marks(g[k - 1], g[k], f[k])
    BY <1>1, <1>2, <1>3, RunTurns
<1> QED BY <1>2, <1>3, <1>4, SoundLen

\* A Footer that ends the file is seen at the end of it.
LEMMA FooterAtEnd ==
    ASSUME NEW f \in FILES, NEW o, NEW g, Runs(f, o, g), Reading(g[Len(f)]), FooterEnds(f),
           NEW k \in 0 .. Len(f), g[k].saw_footer
    PROVE  k = Len(f)
<1>1. PICK n \in Nat : n = Len(f)
    BY FileIs DEF IsSeq
<1>2. PICK P : P = {j \in 0 .. n : j < n => ~g[j].saw_footer}
    OBVIOUS
<1>3. 0 \in P
    <2>1. g[0] = Opened(o)
        BY DEF Runs
    <2>2. ~Opened(o).saw_footer
        BY DEF Opened
    <2> QED BY <1>2, <2>1, <2>2
<1>4. ASSUME NEW j \in 1 .. n, j - 1 \in P PROVE j \in P
    <2>1. j \in 0 .. n /\ j - 1 < n /\ n \in 0 .. Len(f)
        BY <1>1
    <2>2. ~g[j - 1].saw_footer
        BY <1>2, <1>4, <2>1
    <2>3. Marks(g[j - 1], g[j], f[j])
        BY <1>1, <2>1, TurnMarks
    <2>4. j \in DOMAIN f
        BY <1>1, FileIs DEF IsSeq
    <2>5. g[j].saw_footer => j = n
        BY <1>1, <2>2, <2>3, <2>4 DEF Marks, FooterEnds
    <2> QED BY <1>2, <2>1, <2>5
<1>5. 0 .. n \subseteq P
    BY ONLY <1>3, <1>4, n \in Nat, Ascend
<1>6. k \in P /\ k <= n
    BY <1>1, <1>5
<1> QED BY <1>1, <1>2, <1>6

\* The i-th chunk has the band b.
HasBand(x, i, b) == i \in 1 .. Len(x.chunks) /\ b \in x.chunks[i].bands

\* A band that a chunk has at n and had not at l came in between, while that chunk was the last.
LEMMA BandArrives ==
    ASSUME NEW f \in FILES, NEW o, NEW g, Runs(f, o, g), NEW n \in 0 .. Len(f), Reading(g[n]), NEW l \in 0 .. n,
           NEW i, NEW b, HasBand(g[n], i, b), ~HasBand(g[l], i, b)
    PROVE  \E j \in l + 1 .. n : f[j].op = "SH_BAND_STREAM" /\ f[j].band = b /\ Len(g[j - 1].chunks) = i
<1>1. n \in Nat /\ l \in Nat
    BY FileIs DEF IsSeq
<1>2. PICK S : S = {j \in l + 1 .. n : HasBand(g[j], i, b)}
    OBVIOUS
<1>3. n \in S
    <2>1. n # l
        OBVIOUS
    <2>2. n \in l + 1 .. n
        BY ONLY <1>1, <2>1, l \in 0 .. n
    <2> QED BY <1>2, <2>2
<1>4. S \subseteq 1 .. n
    BY <1>1, <1>2
<1>5. PICK j \in S : \A k \in S : j <= k
    BY <1>1, <1>3, <1>4, FirstPosition
<1>6. j \in l + 1 .. n /\ j \in 1 .. n /\ j - 1 \notin S
    BY <1>1, <1>2, <1>4, <1>5
<1>7. ~HasBand(g[j - 1], i, b)
    <2>1. j - 1 = l \/ j - 1 \in l + 1 .. n
        BY ONLY <1>1, <1>6
    <2> QED BY <1>2, <1>6, <2>1
<1>8. PICK x, y, r : x = g[j - 1] /\ y = g[j] /\ r = f[j]
    OBVIOUS
<1>9. Grown(x, y) /\ Marks(x, y, r) /\ Len(x.chunks) \in Nat /\ Len(y.chunks) \in Nat
    BY <1>6, <1>8, TurnMarks
<1>10. i \in 1 .. Len(y.chunks) /\ b \in y.chunks[i].bands
    BY <1>2, <1>5, <1>8 DEF HasBand
<1>11. ~(i \in 1 .. Len(x.chunks) /\ b \in x.chunks[i].bands)
    BY <1>7, <1>8 DEF HasBand
<1>12. PICK c \in Nat, d \in Nat : c = Len(x.chunks) /\ d = Len(y.chunks)
    BY <1>9
<1>13. i \in 1 .. c
    <2>1. d = c + (IF r.op = "CHUNK" THEN 1 ELSE 0) /\ (r.op = "CHUNK" => y.chunks[c + 1].bands = {})
        BY <1>9, <1>12 DEF Marks
    <2>2. i \notin 1 .. c => i = c + 1 /\ r.op = "CHUNK"
        <3>1. i \in 1 .. d
            BY <1>10, <1>12
        <3>2. d = IF r.op = "CHUNK" THEN c + 1 ELSE c
            BY <2>1
        <3> QED BY ONLY <3>1, <3>2, c \in Nat, d \in Nat
    <2> QED BY <1>10, <2>1, <2>2
<1>14. b \notin x.chunks[i].bands
    BY <1>11, <1>12, <1>13
<1>15. r.op = "SH_BAND_STREAM" /\ r.band = b
    BY <1>9, <1>10, <1>12, <1>13, <1>14 DEF Marks
<1>16. i = c
    BY <1>9, <1>10, <1>12, <1>13, <1>14 DEF Grown
<1> QED BY <1>6, <1>8, <1>12, <1>15, <1>16

\* While the number of chunks stays, no Chunk comes.
LEMMA NoChunkComes ==
    ASSUME NEW f \in FILES, NEW o, NEW g, Runs(f, o, g), NEW n \in 0 .. Len(f), Reading(g[n]), NEW l \in 0 .. n,
           Len(g[l].chunks) = Len(g[n].chunks), NEW j \in l + 1 .. n
    PROVE  f[j].op # "CHUNK"
<1>1. n \in Nat /\ l \in Nat
    BY FileIs DEF IsSeq
<1>2. j \in 1 .. n /\ j \in 0 .. n /\ j - 1 \in 0 .. n /\ l \in 0 .. j - 1 /\ n \in 0 .. n /\ j - 1 \in 0 .. Len(f)
    BY <1>1
<1>3. Marks(g[j - 1], g[j], f[j]) /\ Len(g[j - 1].chunks) \in Nat /\ Len(g[j].chunks) \in Nat /\ Reading(g[j - 1])
    BY <1>2, TurnMarks
<1>4. Len(g[l].chunks) <= Len(g[j - 1].chunks)
    BY <1>2, <1>3, RunGrows DEF Grown
<1>5. Len(g[j].chunks) <= Len(g[n].chunks)
    BY <1>2, RunGrows DEF Grown
<1>6. Reading(g[l]) /\ l \in 0 .. Len(f)
    BY <1>1, <1>2, RunGrows
<1>7. Len(g[l].chunks) \in Nat
    BY <1>6, RunSound, SoundLen
<1>8. PICK a \in Nat, b \in Nat, c \in Nat : a = Len(g[l].chunks) /\ b = Len(g[j - 1].chunks) /\ c = Len(g[j].chunks)
    BY <1>3, <1>7
<1>9. a <= b /\ c <= a
    BY <1>4, <1>5, <1>8
<1>10. f[j].op = "CHUNK" => c = b + 1
    BY <1>3, <1>8 DEF Marks
<1> QED BY ONLY <1>9, <1>10, a \in Nat, b \in Nat, c \in Nat

\* A set of bands without a gap below any of them is the first so many.
LEMMA FirstBands ==
    ASSUME NEW d \in Nat, NEW B, B \subseteq 1 .. d, \A b \in B : \A a \in 1 .. d : a < b => a \in B
    PROVE  B = 1 .. Cardinality(B)
<1>1. CASE B = {}
    <2>1. Cardinality(B) = 0
        BY <1>1, FS_EmptySet
    <2> QED BY <1>1, <2>1
<1>2. CASE B # {}
    <2>1. PICK m \in B : \A j \in m + 1 .. d : j \notin B
        BY <1>2, LastPosition
    <2>2. m \in Nat /\ m <= d /\ 1 <= m
        BY <2>1
    <2>3. B = 1 .. m
        <3>1. ASSUME NEW a \in B PROVE a \in 1 .. m
            <4>1. a \in 1 .. d /\ a \notin m + 1 .. d
                BY <2>1
            <4> QED BY <2>2, <4>1
        <3>2. ASSUME NEW a \in 1 .. m PROVE a \in B
            <4>1. a = m \/ (a < m /\ a \in 1 .. d)
                BY <2>2
            <4> QED BY <2>1, <4>1
        <3> QED BY <3>1, <3>2
    <2>4. Cardinality(1 .. m) = m
        <3>1. PICK c : c = Cardinality(1 .. m)
            OBVIOUS
        <3>2. 1 \in Int /\ m \in Int
            BY <2>2
        <3>3. c = IF 1 > m THEN 0 ELSE m - 1 + 1
            BY <3>1, <3>2, FS_Interval
        <3> QED BY <2>2, <3>1, <3>3
    <2> QED BY <2>3, <2>4
<1> QED BY <1>1, <1>2

\* The chunks a cut leaves assemble: a chunk that another follows has all its bands, and the bands of
\* one that none follows came in order.
LEMMA LoneBands ==
    ASSUME file \in FILES, Ascending, NEW o, NEW g, Runs(file, o, g), Reading(g[Len(file)]),
           NEW k \in 0 .. Len(file), Len(g[k].chunks) = 1,
           NEW d \in Nat, g[Len(file)].chunks[1].bands = 1 .. d
    PROVE  g[k].chunks[1].bands = 1 .. Cardinality(g[k].chunks[1].bands)
<1>1. PICK n \in Nat : n = Len(file) /\ n \in 0 .. Len(file)
    BY FileIs DEF IsSeq
<1>2. PICK x, y : x = g[k] /\ y = g[n]
    OBVIOUS
<1>3. Reading(x) /\ Grown(x, y) /\ Reading(y)
    BY <1>1, <1>2, RunGrows
<1>4. PICK B, w, e : B = x.chunks[1].bands /\ w = 1 /\ e = 0
    OBVIOUS
<1>5. Len(x.chunks) = w /\ Len(g[k].chunks) = w /\ y.chunks[w].bands = 1 .. d /\ B = x.chunks[w].bands
    BY ONLY <1>1, <1>2, <1>4, Len(g[k].chunks) = 1, g[Len(file)].chunks[1].bands = 1 .. d
<1>6. PICK m \in Nat : m = Len(y.chunks)
    <2>1. Sound(y)
        BY <1>1, <1>2, RunSound
    <2> QED BY <1>3, <2>1, SoundLen
<1>7. w \in 1 .. w
    BY <1>4
<1>8. B \subseteq 1 .. d /\ w <= m
    BY ONLY <1>3, <1>5, <1>6, <1>7 DEF Grown
<1>9. w \in 1 .. Len(y.chunks) /\ w \in 1 .. Len(x.chunks)
    BY ONLY <1>4, <1>8, <1>5, <1>6, <1>7, m \in Nat
<1>10. ASSUME NEW b \in B, NEW a \in 1 .. d, a < b, a \notin B PROVE FALSE
    <2>1. PICK j \in 1 .. k : /\ file[j].op = "SH_BAND_STREAM" /\ file[j].band = b
                              /\ Len(g[j - 1].chunks) = w
        <3>1. e \in 0 .. k
            BY <1>1, <1>4
        <3>2. ~HasBand(g[e], w, b)
            <4>1. g[e] = Opened(o)
                BY <1>4 DEF Runs
            <4>2. Opened(o).chunks = <<>>
                BY DEF Opened
            <4> QED BY <4>1, <4>2 DEF HasBand
        <3>3. PICK l : l = k /\ l \in 0 .. Len(file) /\ e \in 0 .. l /\ Reading(g[l]) /\ HasBand(g[l], w, b)
            BY <1>2, <1>3, <1>5, <1>9, <3>1 DEF HasBand
        <3>4. \E j \in e + 1 .. l : file[j].op = "SH_BAND_STREAM" /\ file[j].band = b /\ Len(g[j - 1].chunks) = w
            BY ONLY <3>2, <3>3, file \in FILES, Runs(file, o, g), BandArrives
        <3>5. e + 1 = 1
            BY <1>4
        <3> QED BY <3>3, <3>4, <3>5
    <2>2. PICK h \in k + 1 .. n : /\ file[h].op = "SH_BAND_STREAM" /\ file[h].band = a
                                  /\ Len(g[h - 1].chunks) = w
        <3>1. k \in 0 .. n /\ Reading(g[n]) /\ n \in 0 .. Len(file)
            BY <1>1, <1>2, <1>3
        <3>2. HasBand(g[n], w, a)
            BY <1>2, <1>5, <1>9 DEF HasBand
        <3>3. ~HasBand(g[k], w, a)
            BY <1>2, <1>5, <1>10 DEF HasBand
        <3>4. \E h \in k + 1 .. n : file[h].op = "SH_BAND_STREAM" /\ file[h].band = a /\ Len(g[h - 1].chunks) = w
            BY ONLY <3>1, <3>2, <3>3, file \in FILES, Runs(file, o, g), BandArrives
        <3> QED BY <3>4
    <2>3. j \in 1 .. n /\ h \in 1 .. n /\ j < h /\ j - 1 \in 0 .. h - 1 /\ h - 1 \in 0 .. n /\ h - 1 \in Nat
        BY <1>1
    <2>4. Reading(g[h - 1])
        BY <1>1, <1>2, <1>3, <2>3, RunGrows
    <2>5. ASSUME NEW i \in 1 .. n, j <= i, i <= h PROVE file[i].op # "CHUNK"
        <3>1. CASE i = h
            BY <2>2, <3>1
        <3>2. CASE i # h
            <4>1. i \in (j - 1) + 1 .. h - 1 /\ h - 1 \in 0 .. Len(file)
                BY <1>1, <2>3, <2>5, <3>2
            <4> QED BY <2>1, <2>2, <2>3, <2>4, <4>1, NoChunkComes
        <3> QED BY <3>1, <3>2
    <2>6. DOMAIN file = 1 .. n
        BY <1>1, FileIs DEF IsSeq
    <2>7. {i \in DOMAIN file : i > j /\ file[i].op = "CHUNK"} = {i \in DOMAIN file : i > h /\ file[i].op = "CHUNK"}
        <3>1. ASSUME NEW i \in 1 .. n, file[i].op = "CHUNK" PROVE i > j <=> i > h
            <4>1. ~(j <= i /\ i <= h)
                BY <2>5, <3>1
            <4> QED BY <2>3, <4>1
        <3> QED BY <2>6, <3>1
    <2>8. NextChunk(j) = NextChunk(h)
        BY <2>7 DEF NextChunk
    <2>9. file[j].band < file[h].band
        BY <2>1, <2>2, <2>3, <2>6, <2>8 DEF Ascending
    <2>10. b < a /\ b \in 1 .. d
        BY <1>8, <2>1, <2>2, <2>9
    <2> QED BY <1>10, <2>10
<1>11. \A b \in B : \A a \in 1 .. d : a < b => a \in B
    BY <1>10
<1>12. B = 1 .. Cardinality(B)
    BY <1>8, <1>11, FirstBands
<1> QED BY <1>2, <1>4, <1>12

----------------------------------------------------------------------------
(***************************************************************************)
(* Every cut recovers.                                                     *)
(***************************************************************************)
\* Chunks that all have the first so many bands have no band missing.
LEMMA SameBandsWhole ==
    ASSUME NEW c, IsSeq(c), NEW B, \A i \in 1 .. Len(c) : c[i].bands = B,
           Len(c) = 0 \/ B = 1 .. Cardinality(B)
    PROVE  BandsWhole(c)
<1>1. PICK n \in Nat : n = Len(c)
    BY DEF IsSeq
<1>2. DOMAIN c = 1 .. n
    BY <1>1 DEF IsSeq
<1>3. CASE n = 0
    <2>1. Present(c) = {}
        BY <1>2, <1>3 DEF Present
    <2>2. Cardinality({}) = 0 /\ 1 .. 0 = {}
        BY FS_EmptySet
    <2> QED BY <1>2, <1>3, <2>1, <2>2 DEF BandsWhole
<1>4. CASE n # 0
    <2>1. Present(c) = B
        <3>1. 1 \in DOMAIN c /\ \A i \in DOMAIN c : c[i].bands = B
            BY <1>1, <1>2, <1>4
        <3> QED BY <3>1 DEF Present
    <2>2. B = 1 .. Cardinality(B)
        BY <1>1, <1>4
    <2> QED BY <1>1, <1>2, <2>1, <2>2 DEF BandsWhole
<1> QED BY <1>3, <1>4

\* The chunks a cut leaves are the first of the whole scene's, and drop_incomplete_trailing_bands
\* (stream_reader.rs) keeps of them what assembles.
LEMMA CutAssembles ==
    ASSUME file \in FILES, Ascending, NEW o, NEW g, Runs(file, o, g), Reading(g[Len(file)]),
           NEW k \in 0 .. Len(file), NEW x, x = g[k], NEW y, y = g[Len(file)],
           IsSome(x.header), Assembles(y.chunks, y.header[1])
    PROVE  /\ ChunksBegin(x.chunks, y.chunks) /\ ChunksBegin(WholeChunks(x.chunks), y.chunks)
           /\ Assembles(WholeChunks(x.chunks), x.header[1])
<1>1. Len(file) \in 0 .. Len(file)
    BY FileIs DEF IsSeq
<1>2. Reading(x) /\ Grown(x, y) /\ Reading(y)
    BY <1>1, RunGrows
<1>3. Sound(x) /\ Sound(y)
    BY <1>1, RunSound
<1>4. ChunksTyped(x) /\ ChunksTyped(y)
    BY <1>2, <1>3, ReadingIsNot DEF Sound, Typed
<1>5. PICK p, q, kept : p = x.chunks /\ q = y.chunks /\ kept = WholeChunks(p)
    OBVIOUS
<1>6. IsSeq(p) /\ IsSeq(q)
    BY <1>4, <1>5 DEF ChunksTyped
<1>7. PICK m \in Nat, n \in Nat : m = Len(p) /\ n = Len(q) /\ m <= n
    BY <1>2, <1>5, <1>6 DEF IsSeq, Grown
<1>8. \A i \in 1 .. m : ChunkTyped(p[i]) /\ p[i].rows = q[i].rows /\ p[i].bands \subseteq q[i].bands
    BY <1>2, <1>4, <1>5, <1>7 DEF ChunksTyped, Grown, ButBands
<1>9. \A i \in 1 .. n : ChunkTyped(q[i])
    BY <1>4, <1>5, <1>7 DEF ChunksTyped
<1>10. ChunksBegin(p, q)
    BY <1>6, <1>7, <1>8, <1>9 DEF ChunksBegin
<1>11. IsSeq(kept) /\ Len(kept) <= m /\ \A i \in 1 .. Len(kept) : kept[i] = p[i] /\ kept[i].bands = p[1].bands
    <2>1. LET c == WholeChunks(p) IN
          /\ IsSeq(c) /\ Len(c) <= Len(p)
          /\ \A i \in 1 .. Len(c) : c[i] = p[i] /\ c[i].bands = p[1].bands
        BY ONLY <1>6, WholeKeeps
    <2> QED BY <1>5, <1>7, <2>1
<1>12. PICK l \in Nat : l = Len(kept) /\ l <= m
    BY <1>11 DEF IsSeq
<1>13. ChunksBegin(kept, q)
    <2>1. \A i \in 1 .. l : i \in 1 .. m
        BY <1>12
    <2> QED BY <1>6, <1>7, <1>8, <1>9, <1>11, <1>12, <2>1 DEF ChunksBegin
<1>14. ASSUME x.header[1].sh_degree > 0 PROVE BandsWhole(kept)
    <2>1. BandsWhole(q)
        <3>1. y.header = x.header
            BY <1>2 DEF Grown
        <3> QED BY <1>5, <1>14, <3>1 DEF Assembles
    <2>2. Present(q) = 1 .. Cardinality(Present(q)) /\ Cardinality(Present(q)) \in Nat
        <3>1. IsFiniteSet(Present(q))
            BY <1>6, <1>7, <1>9, PresentFinite
        <3>2. Cardinality(Present(q)) \in Nat
            BY <3>1, FS_CardinalityType
        <3> QED BY <2>1, <3>2 DEF BandsWhole
    <2>3. PICK D : D = Present(q)
        OBVIOUS
    <2>4. PICK d \in Nat : D = 1 .. d /\ d = Cardinality(D)
        BY <2>2, <2>3
    <2>5. \A i \in 1 .. n : q[i].bands = D
        BY <1>6, <1>7, <2>1, <2>3 DEF BandsWhole, IsSeq
    <2>6. PICK B : B = p[1].bands
        OBVIOUS
    <2>7. CASE m = 0
        <3>1. l = 0
            BY <1>12, <2>7
        <3> QED BY <1>11, <1>12, <2>6, <3>1, SameBandsWhole
    <2>8. CASE m = 1
        <3>1. q[1].bands = 1 .. d
            BY <1>7, <2>4, <2>5, <2>8
        <3>2. B = 1 .. Cardinality(B)
            BY <1>5, <1>7, <2>6, <2>8, <3>1, LoneBands
        <3> QED BY <1>11, <2>6, <3>2, SameBandsWhole
    <2>9. CASE m > 1
        <3>1. 1 \in 1 .. m /\ 1 \in 1 .. n /\ 1 # m
            BY <1>7, <2>9
        <3>2. B = D
            BY <1>2, <1>5, <1>7, <2>5, <2>6, <3>1 DEF Grown
        <3> QED BY <1>11, <2>4, <2>6, <3>2, SameBandsWhole
    <2> QED BY <2>7, <2>8, <2>9
<1> QED BY <1>5, <1>10, <1>13, <1>14 DEF Assembles

\* A cut of a read that reads on to the end, whole, gives the scene so far.
LEMMA CutRecovers ==
    ASSUME file \in FILES, Ascending, FooterLast, NEW o \in OPTIONS, o.recover, NEW g, Runs(file, o, g),
           IsSome(Finish(g[Len(file)], TRUE)), NEW k \in 0 .. Len(file), NEW z, CutFrom(file, g, k, z),
           IsSome(z.header), IsSome(z.quantization)
    PROVE  IsSome(Finish(z, FALSE))
<1>1. PICK n \in Nat : n = Len(file) /\ n \in 0 .. Len(file)
    BY FileIs DEF IsSeq
<1>2. PICK x, y : x = g[k] /\ y = g[n]
    OBVIOUS
<1>3. Sound(x) /\ Sound(y)
    BY <1>1, <1>2, RunSound
<1>4. Reading(y)
    <2>1. Reading(y) \/ y.outcome = "refused"
        BY <1>1, <1>2, RunSound
    <2>2. PICK v : v = Finish(y, TRUE)
        OBVIOUS
    <2>3. IsSome(v)
        BY <1>1, <1>2, <2>2
    <2> QED BY ONLY <2>1, <2>2, <2>3, WholeIs
<1>5. Delivers(y, y.chunks, FALSE)
    BY <1>1, <1>2, <1>4, WholeAsks
<1>6. Reading(x) /\ Grown(x, y)
    BY <1>1, <1>2, <1>4, RunGrows
<1>7. z = x \/ z = Stopped(x)
    <2>1. ~(k + 1 \in 1 .. Len(file) /\ ~Reading(g[k + 1]))
        <3>1. k + 1 \in 1 .. Len(file) => k + 1 \in 0 .. n
            BY <1>1
        <3> QED BY <1>1, <1>2, <1>4, <3>1, RunGrows
    <2> QED BY <1>2, <2>1 DEF CutFrom
<1>8. IsScan(x) /\ x.outcome = "reading"
    BY <1>3, <1>6 DEF Sound, Reading
<1>9. Only(x, z, {"outcome"}) /\ z.outcome # "refused"
    <2>1. CASE z = x
        BY <1>8, <2>1 DEF Only
    <2>2. CASE z = Stopped(x)
        BY <1>8, <2>2, StoppedIs
    <2> QED BY <1>7, <2>1, <2>2
<1>10. Sound(z)
    <2>1. Only(x, z, Unledgered)
        BY <1>9 DEF Only, Unledgered
    <2> QED BY <1>3, <1>8, <2>1, SoundStays
<1>11. \A f \in Fields \ {"outcome"} : z[f] = x[f]
    BY <1>9 DEF Only
<1>12. Extends(z, y)
    <2> SUFFICES ASSUME NEW f \in Fields PROVE Carried(z, y, f)
        BY DEF Extends
    <2>1. CASE f = "outcome"
        <3>1. f \in Loose
            BY <2>1 DEF Loose, Fields, Ones, Lists, Counted, Maps
        <3> QED BY <3>1, LooseCarried
    <2>2. CASE f # "outcome"
        <3>1. z[f] = x[f] /\ Carried(x, y, f)
            BY <1>6, <1>11, <2>2 DEF Grown, Extends
        <3> QED BY <3>1 DEF Carried
    <2> QED BY <2>1, <2>2
<1>13. /\ z.header = x.header /\ z.chunks = x.chunks /\ z.saw_footer = x.saw_footer /\ z.options = x.options
       /\ ProvenanceOf(z) = ProvenanceOf(x)
    BY <1>11 DEF Fields, ProvenanceOf
<1>14. IsSome(x.header) /\ y.header = x.header
    BY <1>6, <1>13 DEF Grown
<1>15. z.saw_footer => ProvenanceOf(z) = ProvenanceOf(y)
    <2>1. FooterEnds(file)
        BY DEF FooterLast, FooterEnds
    <2>2. x.saw_footer => k = n
        BY <1>1, <1>2, <1>4, <2>1, FooterAtEnd
    <2> QED BY <1>2, <1>13, <2>2
<1>16. /\ ProvenanceHolds(ProvenanceOf(z), TRUE /\ ~z.saw_footer)
       /\ TracksHold(z.tracks) /\ AudioHolds(z, TRUE) /\ AudioApart(y)
    <2>1. z.outcome # "refused" /\ y.outcome # "refused" /\ y.header = z.header /\ IsSome(z.header)
        BY <1>4, <1>9, <1>13, <1>14, ReadingIsNot
    <2>2. PICK c : c = y.chunks
        OBVIOUS
    <2>3. Delivers(y, c, FALSE)
        BY <1>5, <2>2
    <2> QED BY ONLY <1>3, <1>10, <1>12, <1>15, <2>1, <2>3, RulesKept
<1>17. /\ ChunksBegin(x.chunks, y.chunks) /\ ChunksBegin(WholeChunks(x.chunks), y.chunks)
       /\ Assembles(WholeChunks(x.chunks), x.header[1])
    <2>1. Assembles(y.chunks, y.header[1])
        BY <1>5 DEF Delivers
    <2> QED BY <1>1, <1>2, <1>4, <1>14, <2>1, CutAssembles
<1>18. z.options = o
    <2>1. g[0] = Opened(o) /\ 0 \in 0 .. n
        BY <1>1 DEF Runs
    <2>2. 0 \in 0 .. k /\ k \in 0 .. Len(file)
        BY <1>1
    <2>3. Grown(g[0], x)
        BY <1>2, <1>6, <2>2, RunGrows
    <2>4. x.options = g[0].options
        BY <2>3 DEF Grown, Extends, Carried, Fields
    <2>5. Opened(o).options = o
        BY DEF Opened
    <2> QED BY <1>13, <2>1, <2>4, <2>5
<1>19. SourcesFit(z) /\ AssemblyFits(z, WholeChunks(z.chunks))
    <2>1. z.outcome # "refused" /\ y.outcome # "refused" /\ y.header = z.header
        BY <1>4, <1>9, <1>13, <1>14, ReadingIsNot
    <2>2. z.options.limit \in Int /\ z.options.ceiling \in Int
        BY <1>18, OptionAssumption
    <2>3. SourcesFit(y) /\ AssemblyFits(y, y.chunks)
        BY <1>5 DEF Delivers
    <2>4. PICK kept : kept = WholeChunks(z.chunks)
        OBVIOUS
    <2>5. ChunksBegin(z.chunks, y.chunks) /\ ChunksBegin(kept, y.chunks)
        BY <1>13, <1>17, <2>4
    <2>6. SourcesFit(z) /\ AssemblyFits(z, kept)
        BY ONLY <1>3, <1>10, <1>12, <1>16, <2>1, <2>2, <2>3, <2>5, BoundsKept
    <2> QED BY <2>4, <2>6
<1>20. Delivers(z, WholeChunks(z.chunks), TRUE)
    <2>1. Assembles(WholeChunks(z.chunks), z.header[1]) /\ z.options.recover
        BY <1>13, <1>17, <1>18
    <2> QED BY <1>16, <1>19, <2>1 DEF Delivers
<1> QED BY <1>9, <1>20, CutAnswers

\* A cut of a file that reads whole is never refused, whatever the record it falls on, once the Header and
\* the Quantization have been read: the end of the bytes makes finish (stream_reader.rs) ask nothing that only
\* the lost part could supply, and no ceiling is met that the whole file did not meet.
THEOREM CutsRecover == Spec => []AnyCutRecovers
<1>1. RunInv => AnyCutRecovers
    <2> SUFFICES ASSUME RunInv, cut, options.recover, Ascending, FooterLast, IsSome(s.header), IsSome(s.quantization),
                        IsSome(WholeScene)
                 PROVE  IsSome(streamed)
        BY DEF AnyCutRecovers
    <2>1. file \in FILES /\ options \in OPTIONS
        BY DEF RunInv, ReadInv
    <2>2. PICK g : Runs(file, options, g) /\ FoldLeft(OnRecord, Opened(options), file) = g[Len(file)]
        BY <2>1, FileIs, ReadRuns
    <2>3. Follows(g)
        BY <2>2 DEF RunInv
    <2>4. IsSome(Finish(g[Len(file)], TRUE))
        BY <2>2 DEF WholeScene, ReadStreamed
    <2>5. PICK z, o : z = s /\ o = options
        OBVIOUS
    <2>6. PICK k \in 0 .. Len(file) : CutFrom(file, g, k, z)
        BY <2>3, <2>5 DEF Follows
    <2>7. streamed = Finish(z, FALSE)
        BY <2>3, <2>5 DEF Follows
    <2>8. o \in OPTIONS /\ o.recover /\ Runs(file, o, g) /\ IsSome(z.header) /\ IsSome(z.quantization)
        BY <2>1, <2>2, <2>5
    <2>9. IsSome(Finish(z, FALSE))
        BY <2>1, <2>4, <2>6, <2>8, CutRecovers
    <2> QED BY <2>7, <2>9
<1> QED BY <1>1, RunsFollow, PTL
=============================================================================
