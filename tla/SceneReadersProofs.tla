------------------------- MODULE SceneReadersProofs -------------------------
(***************************************************************************)
(* Proofs about the two ways to read a gaussian-birth file: the streamed   *)
(* reader charges exactly what it keeps (ChargesHold), where the Footer is *)
(* last its verdict over the summary is the indexed reader's               *)
(* (VerdictsHold), and the poses the indexed reader samples are those of   *)
(* the object layer read whole (SamplesMatch).                             *)
(***************************************************************************)
EXTENDS SceneReaders, ListLemmas

----------------------------------------------------------------------------
(***************************************************************************)
(* Sums.  A fold over a list is the last of its running sums: the fold is  *)
(* the CHOOSE of a recursive function over sets of positions, so one that  *)
(* solves it is built first and then shown to be the one chosen.           *)
(***************************************************************************)

\* The greatest of a set of numbers that holds the bound.
LEMMA MaxIs ==
    ASSUME NEW n \in Nat, NEW v \in SUBSET (1 .. n), n \in v
    PROVE  Max(v) = n
<1>1. \A j \in v : n >= j
    OBVIOUS
<1>2. ASSUME NEW w \in v, \A j \in v : w >= j PROVE w = n
    BY <1>2
<1> QED BY <1>1, <1>2 DEF Max

Solves(it, n, b, F) ==
    \A u \in SUBSET (1 .. n) : it[u] = IF u = {} THEN b ELSE F[<<it[u \ {Max(u)}], Max(u)>>]

\* So does one over the sets of numbers up to n that takes the greatest away.
LEMMA Folding ==
    ASSUME NEW n \in Nat, NEW S, NEW b \in S, NEW F \in [S \X Nat -> S]
    PROVE  \E it \in [SUBSET (1 .. n) -> S] : Solves(it, n, b, F)
<1> DEFINE P == {m \in 0 .. n : \E it \in [SUBSET (1 .. m) -> S] : Solves(it, m, b, F)}
<1>1. 0 \in P
    <2>1. PICK it : it = [v \in SUBSET (1 .. 0) |-> b]
        OBVIOUS
    <2>2. \A v \in SUBSET (1 .. 0) : v = {}
        OBVIOUS
    <2>3. it \in [SUBSET (1 .. 0) -> S]
        BY <2>1
    <2>4. \A v \in SUBSET (1 .. 0) : it[v] = b
        BY <2>1
    <2>5. Solves(it, 0, b, F) /\ 0 \in 0 .. n
        BY <2>2, <2>4 DEF Solves
    <2> QED BY <2>3, <2>5
<1>2. ASSUME NEW m \in 1 .. n, m - 1 \in P PROVE m \in P
    <2>1. PICK it \in [SUBSET (1 .. m - 1) -> S] : Solves(it, m - 1, b, F)
        BY <1>2
    <2>2. \A v \in SUBSET (1 .. m) : m \notin v => v \in SUBSET (1 .. m - 1)
        OBVIOUS
    <2>3. \A v \in SUBSET (1 .. m) : v \ {m} \in SUBSET (1 .. m - 1)
        OBVIOUS
    <2>4. PICK g : g = [v \in SUBSET (1 .. m) |-> IF m \in v THEN F[<<it[v \ {m}], m>>] ELSE it[v]]
        OBVIOUS
    <2>5. g \in [SUBSET (1 .. m) -> S]
        <3>1. ASSUME NEW v \in SUBSET (1 .. m) PROVE g[v] \in S
            <4>1. CASE m \in v
                <5>1. it[v \ {m}] \in S /\ m \in Nat
                    BY <2>1, <2>3
                <5> QED BY <2>4, <4>1, <5>1
            <4>2. CASE m \notin v
                BY <2>1, <2>2, <2>4, <4>2
            <4> QED BY <4>1, <4>2
        <3> QED BY <2>4, <3>1
    <2>6. ASSUME NEW v \in SUBSET (1 .. m)
          PROVE  g[v] = IF v = {} THEN b ELSE F[<<g[v \ {Max(v)}], Max(v)>>]
        <3>1. CASE m \in v
            <4>1. Max(v) = m /\ m \notin v \ {m} /\ v \ {m} \in SUBSET (1 .. m)
                BY <3>1, MaxIs
            <4>2. g[v \ {m}] = it[v \ {m}]
                BY <2>4, <4>1
            <4>3. v # {} /\ g[v] = F[<<it[v \ {m}], m>>]
                BY <2>4, <3>1
            <4>4. PICK t : t = v \ {m}
                OBVIOUS
            <4>5. g[t] = it[t] /\ g[v] = F[<<it[t], m>>]
                BY <4>2, <4>3, <4>4
            <4>6. g[v] = F[<<g[t], m>>]
                BY ONLY <4>5
            <4> QED BY <4>1, <4>3, <4>4, <4>6
        <3>2. CASE m \notin v
            <4>1. v \in SUBSET (1 .. m - 1) /\ g[v] = it[v]
                BY <2>2, <2>4, <3>2
            <4>2. PICK t : t = v \ {Max(v)}
                OBVIOUS
            <4>3. t \in SUBSET (1 .. m) /\ m \notin t /\ g[t] = it[t]
                BY <2>4, <3>2, <4>2
            <4> QED BY <2>1, <4>1, <4>2, <4>3 DEF Solves
        <3> QED BY <3>1, <3>2
    <2>7. Solves(g, m, b, F) /\ m \in 0 .. n
        BY <2>6 DEF Solves
    <2> QED BY <2>5, <2>7
<1> HIDE DEF P
<1>3. n \in 0 .. n
    OBVIOUS
<1>4. n \in P
    BY <1>1, <1>2, <1>3, Ascend
<1> QED BY <1>4 DEF P

\* The greatest of some numbers is one of them, and none is greater.
LEMMA Greatest ==
    ASSUME NEW n \in Nat, NEW u \in SUBSET (1 .. n), u # {}
    PROVE  Max(u) \in u /\ \A j \in u : j <= Max(u)
<1>1. PICK k \in u : \A j \in k + 1 .. n : j \notin u
    BY LastPosition
<1>2. k \in u /\ \A j \in u : k >= j
    BY <1>1
<1>3. \A j \in u : j \in Int
    OBVIOUS
<1>4. Max(u) \in u /\ \A j \in u : Max(u) >= j
    BY <1>2 DEF Max
<1> QED BY <1>3, <1>4

\* The sum of n numbers is what adding them one by one comes to.
Sums(t, n, it) ==
    \A u \in SUBSET (1 .. n) : it[u] = IF u = {} THEN 0 ELSE it[u \ {Max(u)}] + t[Max(u)]

\* A function that sums over any set of positions, the way a fold over sets does.
LEMMA SumsExist ==
    ASSUME NEW n \in Nat, NEW t, \A i \in 1 .. n : t[i] \in Int
    PROVE  \E it \in [SUBSET (1 .. n) -> Int] : Sums(t, n, it)
<1>2. PICK F : F = [p \in Int \X Nat |-> p[1] + IF p[2] \in 1 .. n THEN t[p[2]] ELSE 0]
    OBVIOUS
<1>3. F \in [Int \X Nat -> Int] /\ 0 \in Int
    BY <1>2
<1>4. PICK it \in [SUBSET (1 .. n) -> Int] : Solves(it, n, 0, F)
    <2>1. PICK S, z : S = Int /\ z = 0
        OBVIOUS
    <2>2. z \in S /\ F \in [S \X Nat -> S]
        BY <1>3, <2>1
    <2>3. \E it \in [SUBSET (1 .. n) -> S] : Solves(it, n, z, F)
        BY ONLY <2>2, Folding, n \in Nat
    <2> QED BY <2>1, <2>3
<1>6. ASSUME NEW u \in SUBSET (1 .. n)
      PROVE  it[u] = IF u = {} THEN 0 ELSE it[u \ {Max(u)}] + t[Max(u)]
    <2>1. CASE u = {}
        BY <1>4, <2>1 DEF Solves
    <2>2. CASE u # {}
        <3>1. PICK m \in 1 .. n : m = Max(u)
            BY <2>2, Greatest
        <3>2. PICK v \in SUBSET (1 .. n) : v = u \ {m}
            OBVIOUS
        <3>3. it[v] \in Int /\ it[u] = F[<<it[v], m>>]
            BY <1>4, <2>2, <3>1, <3>2 DEF Solves
        <3>4. F[<<it[v], m>>] = it[v] + t[m]
            BY <1>2, <3>3
        <3> QED BY <2>2, <3>1, <3>2, <3>3, <3>4
    <2> QED BY <2>1, <2>2
<1> QED BY <1>6 DEF Sums

\* The total of a list is what that function gives for all its positions.
LEMMA TotalFolds ==
    ASSUME NEW n \in Nat, NEW t, DOMAIN t = 1 .. n, \A i \in 1 .. n : t[i] \in Int
    PROVE  \E it : Sums(t, n, it) /\ Total(t) = it[1 .. n]
<1> DEFINE Iter == CHOOSE it : it = [u \in SUBSET (1 .. n) |-> IF u = {} THEN 0 ELSE it[u \ {Max(u)}] + t[Max(u)]]
<1>1. Total(t) = Iter[1 .. n]
    BY DEF Total, FoldLeft, MapThenFoldSet
<1>2. PICK it \in [SUBSET (1 .. n) -> Int] : Sums(t, n, it)
    BY SumsExist
<1>3. it = [u \in SUBSET (1 .. n) |-> IF u = {} THEN 0 ELSE it[u \ {Max(u)}] + t[Max(u)]]
    BY <1>2 DEF Sums
<1>4. Iter = [u \in SUBSET (1 .. n) |-> IF u = {} THEN 0 ELSE Iter[u \ {Max(u)}] + t[Max(u)]]
    BY <1>3
<1> HIDE DEF Iter
<1>5. Sums(t, n, Iter)
    BY <1>4 DEF Sums
<1> QED BY <1>1, <1>5

\* Adding up in order.
Running(t, n, g) == g[0] = 0 /\ \A k \in 1 .. n : g[k] = g[k - 1] + t[k]

\* It is also the last of the running sums.
LEMMA TotalRuns ==
    ASSUME NEW n \in Nat, NEW t, DOMAIN t = 1 .. n, \A i \in 1 .. n : t[i] \in Int
    PROVE  \E g : Running(t, n, g) /\ (\A k \in 0 .. n : g[k] \in Int) /\ Total(t) = g[n]
<1>1. PICK it : Sums(t, n, it) /\ Total(t) = it[1 .. n]
    BY TotalFolds
<1>2. PICK g : g = [k \in 0 .. n |-> it[1 .. k]]
    OBVIOUS
<1>3. g[0] = 0 /\ g[n] = Total(t)
    <2>1. 1 .. 0 = {} /\ {} \in SUBSET (1 .. n) /\ 0 \in 0 .. n /\ n \in 0 .. n
        OBVIOUS
    <2>2. it[{}] = 0
        BY <1>1, <2>1 DEF Sums
    <2> QED BY <1>1, <1>2, <2>1, <2>2
<1>4. ASSUME NEW k \in 1 .. n PROVE g[k] = g[k - 1] + t[k]
    <2>1. PICK u : u = 1 .. k
        OBVIOUS
    <2>2. u \in SUBSET (1 .. k) /\ k \in u /\ k \in Nat /\ u \in SUBSET (1 .. n) /\ u # {}
        BY <2>1
    <2>3. Max(u) = k
        BY ONLY <2>2, MaxIs
    <2>4. u \ {k} = 1 .. k - 1
        BY <2>1
    <2>5. it[u] = it[1 .. k - 1] + t[k]
        BY <1>1, <2>2, <2>3, <2>4 DEF Sums
    <2> QED BY <1>2, <2>1, <2>5
<1>5. \A k \in 0 .. n : g[k] \in Int
    <2>1. PICK P : P = {k \in 0 .. n : g[k] \in Int}
        OBVIOUS
    <2>2. 0 \in P
        BY <1>3, <2>1
    <2>3. ASSUME NEW k \in 1 .. n, k - 1 \in P PROVE k \in P
        BY <1>4, <2>1, <2>3
    <2>4. 0 .. n \subseteq P
        BY ONLY <2>2, <2>3, n \in Nat, Ascend
    <2> QED BY <2>1, <2>4
<1> QED BY <1>3, <1>4, <1>5 DEF Running

\* One number more.
LEMMA TotalGrows ==
    ASSUME NEW n \in Nat, NEW t, DOMAIN t = 1 .. n, NEW u, DOMAIN u = 1 .. n + 1,
           \A i \in 1 .. n : t[i] \in Int /\ u[i] = t[i], u[n + 1] \in Int
    PROVE  Total(t) \in Int /\ Total(u) = Total(t) + u[n + 1]
<1>1. PICK g : Running(t, n, g) /\ (\A k \in 0 .. n : g[k] \in Int) /\ Total(t) = g[n]
    BY TotalRuns
<1>2. PICK m \in Nat : m = n + 1
    OBVIOUS
<1>3. DOMAIN u = 1 .. m /\ \A i \in 1 .. m : u[i] \in Int
    BY <1>2
<1>4. PICK h : Running(u, m, h) /\ (\A k \in 0 .. m : h[k] \in Int) /\ Total(u) = h[m]
    BY <1>3, TotalRuns
<1>5. PICK P : P = {k \in 0 .. n : h[k] = g[k]}
    OBVIOUS
<1>6. 0 \in P
    BY <1>1, <1>4, <1>5 DEF Running
<1>7. ASSUME NEW k \in 1 .. n, k - 1 \in P PROVE k \in P
    <2>1. k \in 1 .. m /\ h[k - 1] = g[k - 1] /\ u[k] = t[k]
        BY <1>2, <1>5, <1>7
    <2>2. h[k] = h[k - 1] + u[k] /\ g[k] = g[k - 1] + t[k]
        BY <1>1, <1>4, <2>1 DEF Running
    <2> QED BY <1>5, <2>1, <2>2
<1>8. 0 .. n \subseteq P
    BY ONLY <1>6, <1>7, n \in Nat, Ascend
<1>9. h[n] = g[n]
    BY <1>5, <1>8
<1>10. h[m] = h[n] + u[m]
    BY <1>2, <1>4 DEF Running
<1> QED BY <1>1, <1>2, <1>4, <1>9, <1>10

\* An empty list sums to nothing.
LEMMA TotalOfNone ==
    ASSUME NEW t, DOMAIN t = {}
    PROVE  Total(t) = 0
<1>1. DOMAIN t = 1 .. 0 /\ 0 \in Nat
    OBVIOUS
<1>2. PICK g : Running(t, 0, g) /\ Total(t) = g[0]
    <2>1. PICK n \in Nat : n = 0
        OBVIOUS
    <2>2. \E g : Running(t, n, g) /\ (\A k \in 0 .. n : g[k] \in Int) /\ Total(t) = g[n]
        BY <1>1, <2>1, TotalRuns
    <2> QED BY <2>1, <2>2
<1> QED BY <1>2 DEF Running

----------------------------------------------------------------------------
(***************************************************************************)
(* The accounts.  A state of the reader is a record; as a function on the  *)
(* names of its fields, a step that touches few of them is stated once.    *)
(***************************************************************************)

Fields == {"outcome", "options", "at", "state_seen", "header", "quantization", "windows", "sources",
           "payloads", "legacy", "camera", "metadata", "attachments", "frames", "sensors", "rigs",
           "anchors", "table", "tracks", "statistics", "saw_footer", "chunks", "masks", "index",
           "offsets", "intervals", "skipped", "tail", "tail_start", "crc_ok", "retained", "decoded"}

IsScan(x) == x = [f \in Fields |-> x[f]]

\* y is x but for the fields in S.
Only(x, y, S) == IsScan(y) /\ \A f \in Fields : f \notin S => y[f] = x[f]

\* A step that gives up, or keeps what it does not charge.
Charges(x, y, S, bytes) ==
    /\ IsScan(y)
    /\ Reading(y) => Only(x, y, S) /\ y.retained = x.retained + bytes
    /\ ~Reading(y) => y.outcome = "refused"

\* A reader that gives up is still a reader.
LEMMA Gives ==
    ASSUME NEW x, IsScan(x)
    PROVE  IsScan(Refused(x)) /\ Refused(x).outcome = "refused"
BY DEF IsScan, Fields, Refused

\* Two fields set at once.
SetTwo(x, f, v, g, w, y) == y = [x EXCEPT ![f] = v, ![g] = w]

LEMMA TwoSet ==
    ASSUME NEW x, IsScan(x), NEW f \in Fields, NEW g \in Fields, f # g, NEW v, NEW w,
           NEW y, SetTwo(x, f, v, g, w, y)
    PROVE  Only(x, y, {f, g}) /\ y[f] = v /\ y[g] = w
<1>1. DOMAIN x = Fields
    BY DEF IsScan
<1>2. y = [h \in Fields |-> IF h = g THEN w ELSE IF h = f THEN v ELSE x[h]]
    BY <1>1 DEF SetTwo
<1> QED BY <1>2 DEF Only, IsScan

\* add_streamed_retained_bytes (stream_reader.rs) adds the bytes to the account or gives up.
LEMMA RetainCharges ==
    ASSUME NEW x, IsScan(x), Reading(x), NEW bytes
    PROVE  Charges(x, Retain(x, bytes), {"retained"}, bytes)
<1>1. CASE x.retained + bytes > RetainedCeiling(x)
    BY <1>1, Gives DEF Retain, Charges, Reading
<1>2. CASE ~(x.retained + bytes > RetainedCeiling(x))
    <2>1. PICK y : y = [x EXCEPT !.retained = @ + bytes]
        OBVIOUS
    <2>2. Only(x, y, {"retained"}) /\ y.retained = x.retained + bytes
        BY <2>1 DEF Only, IsScan, Fields
    <2>3. y.outcome = x.outcome
        BY <2>2 DEF Only, Fields
    <2> QED BY <1>2, <2>1, <2>2, <2>3 DEF Retain, Charges, Reading, Only
<1> QED BY <1>1, <1>2

\* Releasing takes the bytes off the account and changes nothing else.
LEMMA ReleaseCharges ==
    ASSUME NEW x, IsScan(x), NEW bytes
    PROVE  /\ Only(x, Release(x, bytes), {"retained"})
           /\ Release(x, bytes).retained = x.retained - bytes
           /\ Release(x, bytes).outcome = x.outcome
BY DEF Release, Only, IsScan, Fields

\* A field set once its bytes are charged.
SetIf(c, f, v, y) == y = IF Reading(c) THEN [c EXCEPT ![f] = v] ELSE c
Chargeable == Fields \ {"retained", "outcome"}

LEMMA SetCharges ==
    ASSUME NEW x, NEW c, NEW bytes, Charges(x, c, {"retained"}, bytes), NEW f \in Chargeable, NEW v,
           NEW y, SetIf(c, f, v, y)
    PROVE  Charges(x, y, {"retained", f}, bytes) /\ (Reading(y) => y[f] = v)
<1>1. CASE Reading(c)
    <2>1. IsScan(c) /\ y = [c EXCEPT ![f] = v] /\ c.retained = x.retained + bytes
        BY <1>1 DEF Charges, SetIf
    <2>2. y[f] = v /\ Only(c, y, {f})
        BY <2>1 DEF IsScan, Only, Chargeable
    <2>3. y.outcome = c.outcome /\ y.retained = c.retained
        BY <2>2 DEF Only, Fields, Chargeable
    <2>4. Only(x, y, {"retained", f})
        BY <1>1, <2>2 DEF Only, Charges
    <2> QED BY <1>1, <2>1, <2>2, <2>3, <2>4 DEF Charges, Reading, Only
<1>2. CASE ~Reading(c)
    BY <1>2 DEF Charges, SetIf
<1> QED BY <1>1, <1>2

\* y is x with a value more in f, and its bytes, or has given up.
Pushed(x, y, f, v, bytes) ==
    /\ Charges(x, y, {"retained", f}, bytes + Slots(Len(x[f]) + 1) - Slots(Len(x[f])))
    /\ Reading(y) => y[f] = Append(x[f], v)

\* A list kept by the reader: the record is charged, with the slots the list grows by.
LEMMA PushCharges ==
    ASSUME NEW x, IsScan(x), Reading(x), NEW f \in Chargeable, NEW v, NEW bytes
    PROVE  Pushed(x, Push(x, f, v, bytes), f, v, bytes)
<1> PICK y : y = Push(x, f, v, bytes)
    OBVIOUS
<1>1. PICK d : d = bytes + Slots(Len(x[f]) + 1) - Slots(Len(x[f]))
    OBVIOUS
<1>2. PICK c : c = Retain(x, d)
    OBVIOUS
<1>3. Charges(x, c, {"retained"}, d)
    BY <1>2, RetainCharges
<1>4. y = IF Reading(c) THEN [c EXCEPT ![f] = Append(@, v)] ELSE c
    BY <1>1, <1>2 DEF Push
<1>5. Reading(c) => c[f] = x[f]
    BY <1>3 DEF Charges, Only, Chargeable
<1>6. PICK w : w = Append(x[f], v)
    OBVIOUS
<1>7. SetIf(c, f, w, y)
    BY <1>4, <1>5, <1>6 DEF SetIf
<1>8. Charges(x, y, {"retained", f}, d) /\ (Reading(y) => y[f] = w)
    BY ONLY <1>3, <1>7, SetCharges, f \in Chargeable
<1> QED BY <1>1, <1>6, <1>8 DEF Pushed

\* A single record kept by the reader: the one before it is released first.
LEMMA ReplaceCharges ==
    ASSUME NEW x, IsScan(x), Reading(x), NEW f \in Chargeable, NEW r, x.retained \in Int,
           Weight[r.op] \in Int, NEW y, y = Replace(x, f, r)
    PROVE  /\ Charges(x, y, {"retained", f}, Weight[r.op] - IF IsSome(x[f]) THEN Weight[r.op] ELSE 0)
           /\ Reading(y) => y[f] = Some(r)
<1>1. PICK held : held = IF IsSome(x[f]) THEN Weight[r.op] ELSE 0
    OBVIOUS
<1>2. PICK z : z = Release(x, held)
    OBVIOUS
<1>3. PICK c : c = Retain(z, Weight[r.op])
    OBVIOUS
<1>4. Only(x, z, {"retained"}) /\ z.retained = x.retained - held /\ z.outcome = x.outcome
    BY <1>2, ReleaseCharges
<1>5. IsScan(z) /\ Reading(z)
    BY <1>4 DEF Only, Reading
<1>6. Charges(z, c, {"retained"}, Weight[r.op])
    BY <1>3, <1>5, RetainCharges
<1>7. Charges(x, c, {"retained"}, Weight[r.op] - held)
    <2>1. Reading(c) => Only(x, c, {"retained"})
        BY <1>4, <1>6 DEF Charges, Only
    <2>2. Reading(c) => c.retained = x.retained + (Weight[r.op] - held)
        BY <1>1, <1>4, <1>6 DEF Charges
    <2> QED BY <1>6, <2>1, <2>2 DEF Charges
<1>8. PICK w : w = Some(r)
    OBVIOUS
<1>9. SetIf(c, f, w, y)
    BY <1>1, <1>2, <1>3, <1>8 DEF Replace, SetIf
<1>10. PICK d : d = Weight[r.op] - held
    OBVIOUS
<1>11. Charges(x, c, {"retained"}, d)
    BY <1>7, <1>10
<1>12. Charges(x, y, {"retained", f}, d) /\ (Reading(y) => y[f] = w)
    BY ONLY <1>9, <1>11, SetCharges, f \in Chargeable
<1> QED BY <1>1, <1>8, <1>10, <1>12

\* A step of the decoded account.
Decodes(x, y, bytes) ==
    /\ IsScan(y)
    /\ Reading(y) => Only(x, y, {"decoded"}) /\ y.decoded = x.decoded + bytes
    /\ ~Reading(y) => y.outcome = "refused"

\* The decoded account, charged or the read given up.
LEMMA DecodeDecodes ==
    ASSUME NEW x, IsScan(x), Reading(x), NEW bytes
    PROVE  Decodes(x, Decode(x, bytes), bytes)
<1>1. CASE ~DecodedFits(x, bytes)
    BY <1>1, Gives DEF Decode, Decodes, Reading
<1>2. CASE DecodedFits(x, bytes)
    <2>1. PICK y : y = [x EXCEPT !.decoded = @ + bytes]
        OBVIOUS
    <2>2. Only(x, y, {"decoded"}) /\ y.decoded = x.decoded + bytes
        BY <2>1 DEF Only, IsScan, Fields
    <2>3. y.outcome = x.outcome
        BY <2>2 DEF Only, Fields
    <2> QED BY <1>2, <2>1, <2>2, <2>3 DEF Decode, Decodes, Reading, Only
<1> QED BY <1>1, <1>2

\* The slots a decoded list grows by, charged to the decoded account.
LEMMA PushDecodes ==
    ASSUME NEW x, NEW z, NEW bytes, Decodes(x, z, bytes), NEW n, x.decoded \in Int, bytes \in Int,
           Slots(n + 1) - Slots(n) \in Int
    PROVE  Decodes(x, PushDecoded(z, n), bytes + (Slots(n + 1) - Slots(n)))
<1>1. PICK d : d = Slots(n + 1) - Slots(n)
    OBVIOUS
<1>2. CASE ~Reading(z)
    BY <1>2 DEF Decodes, PushDecoded
<1>3. CASE Reading(z) /\ PushDecoded(z, n) = Refused(z)
    <2>1. IsScan(z)
        BY DEF Decodes
    <2> QED BY <1>3, <2>1, Gives DEF Decodes, Reading
<1>4. CASE Reading(z) /\ PushDecoded(z, n) = Decode(z, d)
    <2>1. PICK y : y = Decode(z, d)
        OBVIOUS
    <2>2. Decodes(z, y, d)
        BY <1>4, <2>1, DecodeDecodes DEF Decodes
    <2>3. Reading(y) => Only(x, y, {"decoded"})
        BY <1>4, <2>2 DEF Decodes, Only
    <2>4. Reading(y) => y.decoded = x.decoded + (bytes + d)
        <3>1. d \in Int
            BY <1>1
        <3> QED BY <1>4, <2>2, <3>1 DEF Decodes
    <2>5. Decodes(x, y, bytes + d)
        BY <2>2, <2>3, <2>4 DEF Decodes
    <2> QED BY <1>1, <1>4, <2>1, <2>5
<1>5. Reading(z) => PushDecoded(z, n) \in {Refused(z), Decode(z, d)}
    BY <1>1 DEF PushDecoded
<1> QED BY <1>2, <1>3, <1>4, <1>5

----------------------------------------------------------------------------
(***************************************************************************)
(* What is kept, and that the accounts say so.  Typed gives every field the *)
(* shape the accounts are computed from; Ledger is the equality itself.    *)
(***************************************************************************)

Ones == {"header", "quantization", "windows", "legacy", "camera", "table", "statistics"}
OpOf == [header |-> "HEADER", quantization |-> "QUANTIZATION", windows |-> "WINDOW_TABLE", legacy |-> "AUDIO",
         camera |-> "CAMERA", table |-> "OBJECT_TABLE", statistics |-> "STATISTICS"]
Counted == {"metadata", "attachments", "frames", "sensors", "rigs", "anchors", "tracks", "index", "offsets"}
Weighed == FrontMatter \cup SummaryRecords

OneTyped(x, f) == x[f] = None \/ (x[f] = <<x[f][1]>> /\ x[f][1].op = OpOf[f])
ListTyped(x, f) == IsSeq(x[f]) /\ \A i \in 1 .. Len(x[f]) : x[f][i].op \in Weighed
ChunkTyped(c) ==
    /\ c = [offset |-> c.offset, t0 |-> c.t0, t1 |-> c.t1, rows |-> c.rows, bands |-> c.bands]
    /\ Len(c.rows) \in Nat
    /\ IsFiniteSet(c.bands)

OnesTyped(x) == \A f \in Ones : OneTyped(x, f)
ListsTyped(x) == (\A f \in Counted : ListTyped(x, f)) /\ IsSeq(x.intervals) /\ IsSeq(x.skipped)
AudioTyped(x) == IsFiniteSet(DOMAIN x.sources) /\ IsFiniteSet(DOMAIN x.payloads)
ChunksTyped(x) ==
    /\ IsSeq(x.chunks) /\ IsSeq(x.masks) /\ Len(x.masks) = Len(x.chunks)
    /\ \A i \in 1 .. Len(x.chunks) : ChunkTyped(x.chunks[i]) /\ x.chunks[i].bands \subseteq x.masks[i]

Typed(x) ==
    /\ x.retained \in Int /\ x.decoded \in Int
    /\ OnesTyped(x) /\ ListsTyped(x) /\ AudioTyped(x) /\ ChunksTyped(x)

DecodedLedger(x) == DecodedBytes(x.chunks) + 4 * Slots(Len(x.chunks))
Ledger(x) == x.retained = Held(x) /\ x.decoded = DecodedLedger(x)

Sound(x) == IsScan(x) /\ (x.outcome # "refused" => Typed(x) /\ Ledger(x))

\* The capacity after each of n pushes.
Doubles(c, n) ==
    /\ c[0] = 0 /\ \A k \in 0 .. n : c[k] \in Nat
    /\ \A k \in 1 .. n : c[k] = IF k <= c[k - 1] THEN c[k - 1] ELSE IF c[k - 1] = 0 THEN 4 ELSE 2 * c[k - 1]

\* Capacity, the CHOOSE of a recursive function, is the last of these: the capacity a growing
\* collection reaches is a number.
LEMMA CapacityCounts ==
    ASSUME NEW n \in Nat
    PROVE  \E c : Doubles(c, n) /\ Capacity(n) = c[n]
<1> DEFINE After == CHOOSE after : after = [k \in 0 .. n |->
                       IF k = 0 THEN 0
                       ELSE LET held == after[k - 1]
                            IN  IF k <= held THEN held ELSE IF held = 0 THEN 4 ELSE 2 * held]
<1>1. Capacity(n) = After[n]
    BY DEF Capacity
<1>2. PICK F : F = [p \in Nat \X Nat |-> IF p[2] <= p[1] THEN p[1] ELSE IF p[1] = 0 THEN 4 ELSE 2 * p[1]]
    OBVIOUS
<1>3. F \in [Nat \X Nat -> Nat]
    BY <1>2
<1>4. PICK f \in [0 .. n -> Nat] : Counts(f, n, 0, F)
    <2>1. PICK S, z : S = Nat /\ z = 0
        OBVIOUS
    <2>2. z \in S /\ F \in [S \X Nat -> S]
        BY <1>3, <2>1
    <2>3. \E f \in [0 .. n -> S] : Counts(f, n, z, F)
        BY ONLY <2>2, n \in Nat, Counting
    <2> QED BY <2>1, <2>3
<1>5. ASSUME NEW k \in 0 .. n
      PROVE  f[k] = IF k = 0 THEN 0
                    ELSE LET held == f[k - 1]
                         IN  IF k <= held THEN held ELSE IF held = 0 THEN 4 ELSE 2 * held
    <2>1. CASE k = 0
        BY <1>4, <2>1 DEF Counts
    <2>2. CASE k # 0
        <3>1. PICK h \in Nat : h = f[k - 1]
            BY <1>4, <2>2
        <3>2. f[k] = F[<<h, k>>] /\ k \in Nat
            BY <1>4, <2>2, <3>1 DEF Counts
        <3>3. F[<<h, k>>] = IF k <= h THEN h ELSE IF h = 0 THEN 4 ELSE 2 * h
            BY <1>2, <3>2
        <3> QED BY <2>2, <3>1, <3>2, <3>3
    <2> QED BY <2>1, <2>2
<1>6. f = [k \in 0 .. n |-> IF k = 0 THEN 0
                            ELSE LET held == f[k - 1]
                                 IN  IF k <= held THEN held ELSE IF held = 0 THEN 4 ELSE 2 * held]
    BY <1>4, <1>5
<1>7. After = [k \in 0 .. n |-> IF k = 0 THEN 0
                                ELSE LET held == After[k - 1]
                                     IN  IF k <= held THEN held ELSE IF held = 0 THEN 4 ELSE 2 * held]
    BY <1>6
<1> HIDE DEF After
<1>8. PICK P : P = {k \in 0 .. n : After[k] \in Nat}
    OBVIOUS
<1>9. 0 \in P
    BY <1>7, <1>8
<1>10. ASSUME NEW k \in 1 .. n
       PROVE  After[k] = IF k <= After[k - 1] THEN After[k - 1] ELSE IF After[k - 1] = 0 THEN 4 ELSE 2 * After[k - 1]
    <2>1. k \in 0 .. n /\ k # 0
        OBVIOUS
    <2> QED BY <1>7, <2>1
<1>11. ASSUME NEW k \in 1 .. n, k - 1 \in P PROVE k \in P
    <2>1. PICK h \in Nat : h = After[k - 1]
        BY <1>8, <1>11
    <2>2. k \in 0 .. n
        OBVIOUS
    <2>3. After[k] = IF k <= h THEN h ELSE IF h = 0 THEN 4 ELSE 2 * h
        BY <1>10, <2>1
    <2> QED BY <1>8, <2>2, <2>3
<1>12. 0 .. n \subseteq P
    BY ONLY <1>9, <1>11, n \in Nat, Ascend
<1>13. Doubles(After, n)
    <2>1. After[0] = 0
        BY <1>7
    <2>2. \A k \in 0 .. n : After[k] \in Nat
        BY <1>8, <1>12
    <2> QED BY <1>10, <2>1, <2>2 DEF Doubles
<1> QED BY <1>1, <1>13

LEMMA CapacityNat ==
    ASSUME NEW n \in Nat
    PROVE  Capacity(n) \in Nat
<1>1. PICK c : Doubles(c, n) /\ Capacity(n) = c[n]
    BY CapacityCounts
<1> QED BY <1>1 DEF Doubles

LEMMA SlotsInt ==
    ASSUME NEW n \in Nat
    PROVE  Slots(n) \in Int /\ Slots(n + 1) \in Int
<1>1. PICK m \in Nat : m = n + 1
    OBVIOUS
<1>2. Capacity(n) \in Nat /\ Capacity(m) \in Nat
    BY CapacityNat
<1> QED BY <1>1, <1>2, WeightAssumption DEF Slots

LEMMA WeighedInt ==
    ASSUME NEW op \in Weighed
    PROVE  Weight[op] \in Int
BY WeightAssumption DEF Weighed

LEMMA HeldOneInt ==
    ASSUME NEW x, NEW f \in Ones, OneTyped(x, f)
    PROVE  HeldOne(x, f) \in Int
<1>1. OpOf[f] \in Weighed
    BY DEF Ones, OpOf, Weighed, FrontMatter, SummaryRecords
<1> QED BY <1>1, WeighedInt DEF OneTyped, HeldOne, IsSome

LEMMA HeldManyInt ==
    ASSUME NEW x, NEW f, ListTyped(x, f)
    PROVE  HeldMany(x, f) \in Int
<1>1. PICK n \in Nat : n = Len(x[f])
    BY DEF ListTyped, IsSeq
<1>2. PICK t : t = [i \in DOMAIN x[f] |-> Weight[x[f][i].op]]
    OBVIOUS
<1>3. DOMAIN x[f] = 1 .. n
    BY <1>1 DEF ListTyped, IsSeq
<1>4. DOMAIN t = 1 .. n /\ \A i \in 1 .. n : t[i] \in Int
    BY <1>1, <1>2, <1>3, WeighedInt DEF ListTyped
<1>5. Total(t) \in Int
    <2>1. \E g : Running(t, n, g) /\ (\A k \in 0 .. n : g[k] \in Int) /\ Total(t) = g[n]
        BY <1>4, TotalRuns
    <2>2. n \in 0 .. n
        OBVIOUS
    <2> QED BY <2>1, <2>2
<1>6. HeldMany(x, f) = Slots(n) + Total(t)
    BY <1>1, <1>2 DEF HeldMany
<1> QED BY <1>5, <1>6, SlotsInt

\* One value more in a list.
LEMMA HeldManyGrows ==
    ASSUME NEW x, NEW y, NEW f, ListTyped(x, f), NEW v, v.op \in Weighed, y[f] = Append(x[f], v)
    PROVE  /\ ListTyped(y, f)
           /\ HeldMany(y, f) = HeldMany(x, f) + (Weight[v.op] + Slots(Len(x[f]) + 1) - Slots(Len(x[f])))
<1>1. PICK n \in Nat : n = Len(x[f])
    BY DEF ListTyped, IsSeq
<1>2. IsSeq(x[f])
    BY DEF ListTyped
<1>3. /\ IsSeq(y[f]) /\ Len(y[f]) = n + 1
      /\ \A i \in 1 .. n : y[f][i] = x[f][i]
      /\ y[f][n + 1] = v
    BY <1>1, <1>2, AppendIsSeq
<1>4. ListTyped(y, f)
    BY <1>1, <1>3 DEF ListTyped
<1>5. DOMAIN x[f] = 1 .. n /\ DOMAIN y[f] = 1 .. n + 1
    BY <1>1, <1>2, <1>3 DEF IsSeq
<1>6. PICK t : t = [i \in DOMAIN x[f] |-> Weight[x[f][i].op]]
    OBVIOUS
<1>7. PICK u : u = [i \in DOMAIN y[f] |-> Weight[y[f][i].op]]
    OBVIOUS
<1>8. DOMAIN t = 1 .. n /\ DOMAIN u = 1 .. n + 1
    BY <1>5, <1>6, <1>7
<1>9. u[n + 1] = Weight[v.op] /\ u[n + 1] \in Int
    BY <1>3, <1>5, <1>7, WeighedInt
<1>10. ASSUME NEW i \in 1 .. n PROVE t[i] \in Int /\ u[i] = t[i]
    <2>1. x[f][i].op \in Weighed /\ y[f][i] = x[f][i] /\ i \in 1 .. n + 1
        BY <1>1, <1>3 DEF ListTyped
    <2> QED BY <1>5, <1>6, <1>7, <2>1, WeighedInt
<1>11. Total(t) \in Int /\ Total(u) = Total(t) + u[n + 1]
    BY ONLY <1>8, <1>9, <1>10, n \in Nat, TotalGrows
<1>12. HeldMany(x, f) = Slots(n) + Total(t) /\ HeldMany(y, f) = Slots(n + 1) + Total(u)
    BY <1>1, <1>3, <1>6, <1>7 DEF HeldMany
<1>13. Slots(n) \in Int /\ Slots(n + 1) \in Int
    BY SlotsInt
<1>14. HeldMany(y, f) = HeldMany(x, f) + (u[n + 1] + Slots(n + 1) - Slots(n))
    BY ONLY <1>9, <1>11, <1>12, <1>13
<1> QED BY <1>1, <1>4, <1>9, <1>14

\* One of the single records changed: what they hold moves by what that one holds.
LEMMA OnesMove ==
    ASSUME NEW x, NEW y, OnesTyped(x), NEW f \in Ones, OneTyped(y, f), \A g \in Ones : g # f => y[g] = x[g]
    PROVE  /\ OnesTyped(y) /\ HeldOnes(x) \in Int
           /\ HeldOnes(y) = HeldOnes(x) + (HeldOne(y, f) - HeldOne(x, f))
<1>1. OnesTyped(y)
    BY DEF OnesTyped, OneTyped
<1>2. PICK a : a = [g \in Ones |-> HeldOne(x, g)]
    OBVIOUS
<1>3. PICK b : b = [g \in Ones |-> HeldOne(y, g)]
    OBVIOUS
<1>4. \A g \in Ones : a[g] \in Int /\ b[g] \in Int
    BY <1>1, <1>2, <1>3, HeldOneInt DEF OnesTyped
<1>5. \A g \in Ones : g # f => b[g] = a[g]
    BY <1>2, <1>3 DEF HeldOne
<1>6. HeldOnes(x) = a["header"] + a["quantization"] + a["windows"] + a["legacy"] + a["camera"] + a["table"] + a["statistics"]
    BY <1>2 DEF HeldOnes, Ones
<1>7. HeldOnes(y) = b["header"] + b["quantization"] + b["windows"] + b["legacy"] + b["camera"] + b["table"] + b["statistics"]
    BY <1>3 DEF HeldOnes, Ones
<1>8. HeldOnes(x) \in Int /\ HeldOnes(y) = HeldOnes(x) + (b[f] - a[f])
    BY ONLY <1>4, <1>5, <1>6, <1>7, f \in Ones DEF Ones
<1> QED BY <1>1, <1>2, <1>3, <1>8

LEMMA OnesStay ==
    ASSUME NEW x, NEW y, OnesTyped(x), \A g \in Ones : y[g] = x[g]
    PROVE  OnesTyped(y) /\ HeldOnes(x) \in Int /\ HeldOnes(y) = HeldOnes(x)
<1>1. PICK f \in Ones : f = "header"
    BY DEF Ones
<1>2. OneTyped(y, f) /\ HeldOne(y, f) = HeldOne(x, f) /\ HeldOne(x, f) \in Int
    BY HeldOneInt DEF OnesTyped, OneTyped, HeldOne
<1>3. /\ OnesTyped(y) /\ HeldOnes(x) \in Int
      /\ HeldOnes(y) = HeldOnes(x) + (HeldOne(y, f) - HeldOne(x, f))
    BY <1>2, OnesMove
<1> QED BY <1>2, <1>3

PlainSlots(x) == Slots(Len(x.intervals)) + Slots(Len(x.skipped))

LEMMA PlainInt ==
    ASSUME NEW x, ListsTyped(x)
    PROVE  PlainSlots(x) \in Int /\ Slots(Len(x.intervals)) \in Int /\ Slots(Len(x.skipped)) \in Int
<1>1. Len(x.intervals) \in Nat /\ Len(x.skipped) \in Nat
    BY DEF ListsTyped, IsSeq
<1>2. PICK m \in Nat, n \in Nat : m = Len(x.intervals) /\ n = Len(x.skipped)
    BY <1>1
<1>3. Slots(m) \in Int /\ Slots(n) \in Int
    BY SlotsInt
<1> QED BY <1>2, <1>3 DEF PlainSlots

\* One of the lists changed: what they hold moves by what that one holds.
LEMMA ListsMove ==
    ASSUME NEW x, NEW y, ListsTyped(x), NEW f \in Counted, ListTyped(y, f), \A g \in Counted : g # f => y[g] = x[g],
           IsSeq(y.intervals), IsSeq(y.skipped)
    PROVE  /\ ListsTyped(y) /\ HeldLists(x) \in Int
           /\ HeldLists(y) = HeldLists(x) + (HeldMany(y, f) - HeldMany(x, f)) + (PlainSlots(y) - PlainSlots(x))
<1>1. ListsTyped(y)
    BY DEF ListsTyped, ListTyped
<1>2. PICK a : a = [g \in Counted |-> HeldMany(x, g)]
    OBVIOUS
<1>3. PICK b : b = [g \in Counted |-> HeldMany(y, g)]
    OBVIOUS
<1>4. \A g \in Counted : a[g] \in Int /\ b[g] \in Int
    BY <1>1, <1>2, <1>3, HeldManyInt DEF ListsTyped
<1>5. \A g \in Counted : g # f => b[g] = a[g]
    BY <1>2, <1>3 DEF HeldMany
<1>6. PICK p \in Int : p = PlainSlots(x)
    BY PlainInt
<1>7. PICK q \in Int : q = PlainSlots(y)
    BY <1>1, PlainInt
<1>8. HeldLists(x) = a["metadata"] + a["attachments"] + a["frames"] + a["sensors"] + a["rigs"] + a["anchors"]
                     + a["tracks"] + a["index"] + a["offsets"] + p
    <2>1. p = Slots(Len(x.intervals)) + Slots(Len(x.skipped))
          /\ Slots(Len(x.intervals)) \in Int /\ Slots(Len(x.skipped)) \in Int
        BY <1>6, PlainInt DEF PlainSlots
    <2>2. PICK i \in Int, k \in Int : i = Slots(Len(x.intervals)) /\ k = Slots(Len(x.skipped))
        BY <2>1
    <2>3. HeldLists(x) = a["metadata"] + a["attachments"] + a["frames"] + a["sensors"] + a["rigs"] + a["anchors"]
                         + a["tracks"] + a["index"] + a["offsets"] + i + k
        BY <1>2, <2>2 DEF HeldLists, Counted
    <2>4. p = i + k
        BY <2>1, <2>2
    <2>5. a["metadata"] \in Int /\ a["attachments"] \in Int /\ a["frames"] \in Int /\ a["sensors"] \in Int
          /\ a["rigs"] \in Int /\ a["anchors"] \in Int /\ a["tracks"] \in Int /\ a["index"] \in Int /\ a["offsets"] \in Int
        BY <1>4 DEF Counted
    <2> QED BY ONLY <2>3, <2>4, <2>5, i \in Int, k \in Int
<1>9. HeldLists(y) = b["metadata"] + b["attachments"] + b["frames"] + b["sensors"] + b["rigs"] + b["anchors"]
                     + b["tracks"] + b["index"] + b["offsets"] + q
    <2>1. q = Slots(Len(y.intervals)) + Slots(Len(y.skipped))
          /\ Slots(Len(y.intervals)) \in Int /\ Slots(Len(y.skipped)) \in Int
        BY <1>1, <1>7, PlainInt DEF PlainSlots
    <2>2. PICK i \in Int, k \in Int : i = Slots(Len(y.intervals)) /\ k = Slots(Len(y.skipped))
        BY <2>1
    <2>3. HeldLists(y) = b["metadata"] + b["attachments"] + b["frames"] + b["sensors"] + b["rigs"] + b["anchors"]
                         + b["tracks"] + b["index"] + b["offsets"] + i + k
        BY <1>3, <2>2 DEF HeldLists, Counted
    <2>4. q = i + k
        BY <2>1, <2>2
    <2>5. b["metadata"] \in Int /\ b["attachments"] \in Int /\ b["frames"] \in Int /\ b["sensors"] \in Int
          /\ b["rigs"] \in Int /\ b["anchors"] \in Int /\ b["tracks"] \in Int /\ b["index"] \in Int /\ b["offsets"] \in Int
        BY <1>4 DEF Counted
    <2> QED BY ONLY <2>3, <2>4, <2>5, i \in Int, k \in Int
<1>10. HeldLists(x) \in Int /\ HeldLists(y) = HeldLists(x) + (b[f] - a[f]) + (q - p)
    BY ONLY <1>4, <1>5, <1>8, <1>9, f \in Counted, p \in Int, q \in Int DEF Counted
<1> QED BY <1>1, <1>2, <1>3, <1>6, <1>7, <1>10

LEMMA ListsStay ==
    ASSUME NEW x, NEW y, ListsTyped(x), \A g \in Counted : y[g] = x[g], IsSeq(y.intervals), IsSeq(y.skipped)
    PROVE  /\ ListsTyped(y) /\ HeldLists(x) \in Int
           /\ HeldLists(y) = HeldLists(x) + (PlainSlots(y) - PlainSlots(x))
<1>1. PICK f \in Counted : f = "metadata"
    BY DEF Counted
<1>2. ListTyped(y, f) /\ HeldMany(y, f) = HeldMany(x, f) /\ HeldMany(x, f) \in Int
    BY HeldManyInt DEF ListsTyped, ListTyped, HeldMany
<1>3. /\ ListsTyped(y) /\ HeldLists(x) \in Int
      /\ HeldLists(y) = HeldLists(x) + (HeldMany(y, f) - HeldMany(x, f)) + (PlainSlots(y) - PlainSlots(x))
    BY <1>2, ListsMove
<1>4. PlainSlots(y) \in Int /\ PlainSlots(x) \in Int
    BY <1>3, PlainInt
<1> QED BY <1>2, <1>3, <1>4

\* What the audio maps hold is a number.
LEMMA AudioInt ==
    ASSUME NEW x, AudioTyped(x)
    PROVE  HeldAudio(x) \in Int
<1>1. Cardinality(DOMAIN x.sources) \in Nat /\ Cardinality(DOMAIN x.payloads) \in Nat
    BY FS_CardinalityType DEF AudioTyped
<1>2. Weight["AUDIO_SOURCE"] \in Int /\ Weight["AUDIO_DATA"] \in Int /\ NODE \in Int
    BY WeightAssumption DEF FrontMatter
<1> QED BY <1>1, <1>2 DEF HeldAudio

\* Where nothing of the ledger's is touched.
Unledgered == {"outcome", "options", "at", "state_seen", "saw_footer", "tail", "tail_start", "crc_ok"}

LEMMA SoundStays ==
    ASSUME NEW x, Sound(x), x.outcome # "refused", NEW y, Only(x, y, Unledgered)
    PROVE  Sound(y)
<1>1. \A f \in Fields : f \notin Unledgered => y[f] = x[f]
    BY DEF Only
<1>2. /\ \A g \in Ones : y[g] = x[g]
      /\ \A g \in Counted : y[g] = x[g]
    BY <1>1 DEF Fields, Unledgered, Ones, Counted
<1>3. y.intervals = x.intervals /\ y.skipped = x.skipped /\ y.sources = x.sources /\ y.payloads = x.payloads
      /\ y.chunks = x.chunks /\ y.masks = x.masks /\ y.retained = x.retained /\ y.decoded = x.decoded
    BY <1>1 DEF Fields, Unledgered
<1>4. Typed(x) /\ Ledger(x)
    BY DEF Sound
<1>5. OnesTyped(y) /\ HeldOnes(y) = HeldOnes(x)
    BY <1>2, <1>4, OnesStay DEF Typed
<1>6. ListsTyped(y) /\ HeldLists(y) = HeldLists(x)
    <2>1. IsSeq(y.intervals) /\ IsSeq(y.skipped) /\ PlainSlots(y) = PlainSlots(x) /\ PlainSlots(x) \in Int
        BY <1>3, <1>4, PlainInt DEF Typed, ListsTyped, PlainSlots
    <2> QED BY <1>2, <1>4, <2>1, ListsStay DEF Typed
<1>7. AudioTyped(y) /\ HeldAudio(y) = HeldAudio(x) /\ ChunksTyped(y)
    BY <1>3, <1>4 DEF Typed, AudioTyped, HeldAudio, ChunksTyped
<1>8. Typed(y)
    BY <1>3, <1>4, <1>5, <1>6, <1>7 DEF Typed
<1>9. Ledger(y)
    BY <1>3, <1>4, <1>5, <1>6, <1>7 DEF Ledger, Held, DecodedLedger
<1> QED BY <1>8, <1>9 DEF Sound, Only

----------------------------------------------------------------------------
(***************************************************************************)
(* The handlers, one lemma each: a handler keeps the accounts and where the *)
(* read is, or gives up.                                                   *)
(***************************************************************************)

\* What a handler leaves alone.
Steady == {"options", "at", "state_seen", "saw_footer", "tail", "tail_start", "crc_ok"}

\* A handler keeps the ledger, and where the read is; or it gives up.
Handles(x, y) ==
    /\ Sound(y)
    /\ Reading(y) => \A f \in Steady : y[f] = x[f]
    /\ ~Reading(y) => y.outcome = "refused"

\* Giving up is always handled.
LEMMA RefusedHandles ==
    ASSUME NEW x, NEW y, IsScan(y), y.outcome = "refused"
    PROVE  Handles(x, y)
BY DEF Sound, Handles, Reading

LEMMA SoundHandles ==
    ASSUME NEW x, NEW y, NEW S, Only(x, y, S), S \cap Steady = {}, Sound(y), Reading(y)
    PROVE  Handles(x, y)
<1>1. \A f \in Steady : f \in Fields /\ f \notin S
    BY DEF Steady, Fields
<1> QED BY <1>1 DEF Handles, Only

LEMMA ReadingIsNot ==
    ASSUME NEW x, Reading(x)
    PROVE  x.outcome # "refused"
BY DEF Reading

\* A record kept in a list: its bytes and the slots the list grows by are charged.
LEMMA ListHandles ==
    ASSUME NEW x, Sound(x), Reading(x), NEW f \in Counted, NEW v, v.op \in Weighed
    PROVE  Handles(x, Push(x, f, v, Weight[v.op]))
<1>1. PICK y : y = Push(x, f, v, Weight[v.op])
    OBVIOUS
<1>2. f \in Chargeable /\ Typed(x) /\ Ledger(x) /\ IsScan(x)
    BY ReadingIsNot DEF Chargeable, Fields, Counted, Sound
<1>3. PICK d : d = Weight[v.op] + Slots(Len(x[f]) + 1) - Slots(Len(x[f]))
    OBVIOUS
<1>4. Charges(x, y, {"retained", f}, d) /\ (Reading(y) => y[f] = Append(x[f], v))
    <2>1. Pushed(x, y, f, v, Weight[v.op])
        BY <1>1, <1>2, PushCharges
    <2> QED BY <1>3, <2>1 DEF Pushed
<1>5. CASE ~Reading(y)
    BY <1>1, <1>4, <1>5, RefusedHandles DEF Charges
<1>6. CASE Reading(y)
    <2>1. Only(x, y, {"retained", f}) /\ y.retained = x.retained + d /\ y[f] = Append(x[f], v)
        BY <1>4, <1>6 DEF Charges
    <2>2. \A g \in Fields : g # f /\ g # "retained" => y[g] = x[g]
        BY <2>1 DEF Only
    <2>3. (\A g \in Ones : y[g] = x[g]) /\ (\A g \in Counted : g # f => y[g] = x[g])
        BY <2>2 DEF Fields, Ones, Counted
    <2>4. y.intervals = x.intervals /\ y.skipped = x.skipped /\ y.sources = x.sources /\ y.payloads = x.payloads
          /\ y.chunks = x.chunks /\ y.masks = x.masks /\ y.decoded = x.decoded
        BY <2>2 DEF Fields, Counted
    <2>5. OnesTyped(y) /\ HeldOnes(y) = HeldOnes(x) /\ HeldOnes(x) \in Int
        BY <1>2, <2>3, OnesStay DEF Typed
    <2>6. ListTyped(y, f) /\ HeldMany(y, f) = HeldMany(x, f) + d
        BY <1>2, <1>3, <2>1, HeldManyGrows DEF Typed, ListsTyped
    <2>7. HeldMany(x, f) \in Int /\ HeldMany(y, f) \in Int
        BY <1>2, <2>6, HeldManyInt DEF Typed, ListsTyped
    <2>8. IsSeq(y.intervals) /\ IsSeq(y.skipped) /\ PlainSlots(y) = PlainSlots(x) /\ PlainSlots(x) \in Int
        BY <1>2, <2>4, PlainInt DEF Typed, ListsTyped, PlainSlots
    <2>9. /\ ListsTyped(y) /\ HeldLists(x) \in Int
          /\ HeldLists(y) = HeldLists(x) + (HeldMany(y, f) - HeldMany(x, f)) + (PlainSlots(y) - PlainSlots(x))
        BY <1>2, <2>3, <2>6, <2>8, ListsMove DEF Typed
    <2>10. d \in Int
        <3>1. PICK n \in Nat : n = Len(x[f])
            BY <1>2 DEF Typed, ListsTyped, ListTyped, IsSeq
        <3>2. Slots(n) \in Int /\ Slots(n + 1) \in Int /\ Weight[v.op] \in Int
            BY SlotsInt, WeighedInt
        <3> QED BY <1>3, <3>1, <3>2
    <2>11. HeldLists(y) = HeldLists(x) + d
        BY ONLY <2>6, <2>7, <2>8, <2>9, <2>10
    <2>12. AudioTyped(y) /\ HeldAudio(y) = HeldAudio(x) /\ HeldAudio(x) \in Int /\ ChunksTyped(y)
        BY <1>2, <2>4, AudioInt DEF Typed, AudioTyped, HeldAudio, ChunksTyped
    <2>13. Typed(y)
        BY <1>2, <2>1, <2>4, <2>5, <2>9, <2>10, <2>12 DEF Typed
    <2>14. y.retained = Held(y)
        BY <1>2, <2>1, <2>5, <2>9, <2>10, <2>11, <2>12 DEF Ledger, Held
    <2>15. Ledger(y)
        BY <1>2, <2>4, <2>14 DEF Ledger, DecodedLedger
    <2>16. Sound(y) /\ {"retained", f} \cap Steady = {}
        BY <2>1, <2>13, <2>15 DEF Sound, Only, Steady, Counted
    <2> QED BY <1>1, <1>6, <2>1, <2>16, SoundHandles
<1> QED BY <1>5, <1>6

\* A skipped record keeps only its place in a list.
LEMMA SkippedHandles ==
    ASSUME NEW x, Sound(x), Reading(x), NEW v
    PROVE  Handles(x, Push(x, "skipped", v, 0))
<1>1. PICK y : y = Push(x, "skipped", v, 0)
    OBVIOUS
<1>2. "skipped" \in Chargeable /\ Typed(x) /\ Ledger(x) /\ IsScan(x)
    BY ReadingIsNot DEF Chargeable, Fields, Sound
<1>3. PICK n \in Nat : n = Len(x.skipped)
    BY <1>2 DEF Typed, ListsTyped, IsSeq
<1>4. PICK d \in Int : d = Slots(n + 1) - Slots(n)
    BY SlotsInt
<1>5. Charges(x, y, {"retained", "skipped"}, d) /\ (Reading(y) => y.skipped = Append(x.skipped, v))
    <2>1. d = 0 + Slots(n + 1) - Slots(n)
        BY <1>4, SlotsInt
    <2>2. Pushed(x, y, "skipped", v, 0)
        BY <1>1, <1>2, PushCharges
    <2> QED BY <1>3, <2>1, <2>2 DEF Pushed
<1>6. CASE ~Reading(y)
    BY <1>1, <1>5, <1>6, RefusedHandles DEF Charges
<1>7. CASE Reading(y)
    <2>1. Only(x, y, {"retained", "skipped"}) /\ y.retained = x.retained + d /\ y.skipped = Append(x.skipped, v)
        BY <1>5, <1>7 DEF Charges
    <2>2. \A g \in Fields : g # "skipped" /\ g # "retained" => y[g] = x[g]
        BY <2>1 DEF Only
    <2>3. (\A g \in Ones : y[g] = x[g]) /\ (\A g \in Counted : y[g] = x[g])
        BY <2>2 DEF Fields, Ones, Counted
    <2>4. y.intervals = x.intervals /\ y.sources = x.sources /\ y.payloads = x.payloads
          /\ y.chunks = x.chunks /\ y.masks = x.masks /\ y.decoded = x.decoded
        BY <2>2 DEF Fields, Counted
    <2>5. OnesTyped(y) /\ HeldOnes(y) = HeldOnes(x) /\ HeldOnes(x) \in Int
        BY <1>2, <2>3, OnesStay DEF Typed
    <2>6. IsSeq(y.intervals) /\ IsSeq(y.skipped) /\ Len(y.skipped) = n + 1
        BY <1>2, <1>3, <2>1, <2>4, AppendIsSeq DEF Typed, ListsTyped
    <2>7. ListsTyped(y) /\ HeldLists(x) \in Int /\ HeldLists(y) = HeldLists(x) + (PlainSlots(y) - PlainSlots(x))
        BY <1>2, <2>3, <2>6, ListsStay DEF Typed
    <2>8. PlainSlots(y) - PlainSlots(x) = d
        <3>1. PICK i \in Int : i = Slots(Len(x.intervals))
            BY <1>2, PlainInt DEF Typed
        <3>2. Slots(n) \in Int /\ Slots(n + 1) \in Int
            BY SlotsInt
        <3>3. PlainSlots(x) = i + Slots(n) /\ PlainSlots(y) = i + Slots(n + 1)
            BY <1>3, <2>4, <2>6, <3>1 DEF PlainSlots
        <3> QED BY <1>4, <3>2, <3>3
    <2>9. AudioTyped(y) /\ HeldAudio(y) = HeldAudio(x) /\ HeldAudio(x) \in Int /\ ChunksTyped(y)
        BY <1>2, <2>4, AudioInt DEF Typed, AudioTyped, HeldAudio, ChunksTyped
    <2>10. Typed(y)
        BY <1>2, <2>1, <2>4, <2>5, <2>7, <2>9 DEF Typed
    <2>11. Ledger(y)
        <3>1. y.retained = Held(y)
            BY <1>2, <2>1, <2>5, <2>7, <2>8, <2>9 DEF Ledger, Held
        <3> QED BY <1>2, <2>4, <3>1 DEF Ledger, DecodedLedger
    <2>12. Sound(y) /\ {"retained", "skipped"} \cap Steady = {}
        BY <2>1, <2>10, <2>11 DEF Sound, Only, Steady
    <2> QED BY <1>1, <1>7, <2>1, <2>12, SoundHandles
<1> QED BY <1>6, <1>7

\* A value charged for, the one it replaces released.
LEMMA OneHandles ==
    ASSUME NEW x, Sound(x), Reading(x), NEW f \in Ones, NEW r, r.op = OpOf[f], NEW y,
           Charges(x, y, {"retained", f}, Weight[r.op] - IF IsSome(x[f]) THEN Weight[r.op] ELSE 0),
           Reading(y) => y[f] = Some(r)
    PROVE  Handles(x, y)
<1>1. Typed(x) /\ Ledger(x) /\ IsScan(x)
    BY ReadingIsNot DEF Sound
<1>2. PICK d : d = Weight[r.op] - IF IsSome(x[f]) THEN Weight[r.op] ELSE 0
    OBVIOUS
<1>3. CASE ~Reading(y)
    BY <1>3, RefusedHandles DEF Charges
<1>4. CASE Reading(y)
    <2>1. Only(x, y, {"retained", f}) /\ y.retained = x.retained + d /\ y[f] = Some(r)
        BY <1>2, <1>4 DEF Charges
    <2>2. \A g \in Fields : g # f /\ g # "retained" => y[g] = x[g]
        BY <2>1 DEF Only
    <2>3. (\A g \in Ones : g # f => y[g] = x[g]) /\ (\A g \in Counted : y[g] = x[g])
        BY <2>2 DEF Fields, Ones, Counted
    <2>4. y.intervals = x.intervals /\ y.skipped = x.skipped /\ y.sources = x.sources /\ y.payloads = x.payloads
          /\ y.chunks = x.chunks /\ y.masks = x.masks /\ y.decoded = x.decoded
        BY <2>2 DEF Fields, Ones
    <2>5. OneTyped(y, f) /\ OneTyped(x, f)
        BY <1>1, <2>1 DEF Some, OneTyped, Typed, OnesTyped
    <2>6. HeldOne(y, f) = Weight[r.op] /\ HeldOne(x, f) = IF IsSome(x[f]) THEN Weight[r.op] ELSE 0
        BY <2>1, <2>5 DEF Some, None, IsSome, HeldOne, OneTyped
    <2>7. Weight[r.op] \in Int
        BY <2>5, <2>6, HeldOneInt
    <2>8. HeldOnes(x) \in Int /\ OnesTyped(y) /\ HeldOnes(y) = HeldOnes(x) + d /\ d \in Int
        BY <1>1, <1>2, <2>3, <2>5, <2>6, <2>7, OnesMove DEF Typed
    <2>9. ListsTyped(y) /\ HeldLists(x) \in Int /\ HeldLists(y) = HeldLists(x)
        <3>1. IsSeq(y.intervals) /\ IsSeq(y.skipped) /\ PlainSlots(y) = PlainSlots(x) /\ PlainSlots(x) \in Int
            BY <1>1, <2>4, PlainInt DEF Typed, ListsTyped, PlainSlots
        <3> QED BY <1>1, <2>3, <3>1, ListsStay DEF Typed
    <2>10. AudioTyped(y) /\ HeldAudio(y) = HeldAudio(x) /\ HeldAudio(x) \in Int /\ ChunksTyped(y)
        BY <1>1, <2>4, AudioInt DEF Typed, AudioTyped, HeldAudio, ChunksTyped
    <2>11. Typed(y)
        BY <1>1, <2>1, <2>4, <2>8, <2>9, <2>10 DEF Typed
    <2>12. Ledger(y)
        <3>1. y.retained = Held(y)
            BY <1>1, <2>1, <2>8, <2>9, <2>10 DEF Ledger, Held
        <3> QED BY <1>1, <2>4, <3>1 DEF Ledger, DecodedLedger
    <2>13. Sound(y) /\ {"retained", f} \cap Steady = {}
        BY <2>1, <2>11, <2>12 DEF Sound, Only, Steady, Ones
    <2> QED BY <1>4, <2>1, <2>13, SoundHandles
<1> QED BY <1>3, <1>4

\* A descriptor or a payload under an id that has none, and the node that holds it.
LEMMA NodeHandles ==
    ASSUME NEW x, Sound(x), Reading(x), NEW f, NEW op,
           (f = "sources" /\ op = "AUDIO_SOURCE") \/ (f = "payloads" /\ op = "AUDIO_DATA"),
           NEW r, r.op = op, r.id \notin DOMAIN x[f],
           NEW c, c = Retain(x, Weight[r.op] + NODE), NEW y, SetIf(c, f, Filed(x[f], r.id, r), y)
    PROVE  Handles(x, y)
<1>1. Typed(x) /\ Ledger(x) /\ IsScan(x) /\ f \in Chargeable
    BY ReadingIsNot DEF Sound, Chargeable, Fields
<1>2. PICK d \in Int : d = Weight[r.op] + NODE
    BY WeightAssumption DEF FrontMatter
<1>3. PICK v : v = Filed(x[f], r.id, r)
    OBVIOUS
<1>4. Charges(x, c, {"retained"}, d)
    BY <1>1, <1>2, RetainCharges
<1>5. SetIf(c, f, v, y)
    BY <1>3
<1>6. Charges(x, y, {"retained", f}, d) /\ (Reading(y) => y[f] = v)
    BY ONLY <1>1, <1>4, <1>5, SetCharges
<1>7. CASE ~Reading(y)
    BY <1>6, <1>7, RefusedHandles DEF Charges
<1>8. CASE Reading(y)
    <2>1. Only(x, y, {"retained", f}) /\ y.retained = x.retained + d /\ y[f] = v
        BY <1>6, <1>8 DEF Charges
    <2>2. \A g \in Fields : g # f /\ g # "retained" => y[g] = x[g]
        BY <2>1 DEF Only
    <2>3. (\A g \in Ones : y[g] = x[g]) /\ (\A g \in Counted : y[g] = x[g])
        BY <2>2 DEF Fields, Ones, Counted
    <2>4. y.intervals = x.intervals /\ y.skipped = x.skipped
          /\ y.chunks = x.chunks /\ y.masks = x.masks /\ y.decoded = x.decoded
        BY <2>2 DEF Fields
    <2>5. OnesTyped(y) /\ HeldOnes(y) = HeldOnes(x) /\ HeldOnes(x) \in Int
        BY <1>1, <2>3, OnesStay DEF Typed
    <2>6. ListsTyped(y) /\ HeldLists(x) \in Int /\ HeldLists(y) = HeldLists(x)
        <3>1. IsSeq(y.intervals) /\ IsSeq(y.skipped) /\ PlainSlots(y) = PlainSlots(x) /\ PlainSlots(x) \in Int
            BY <1>1, <2>4, PlainInt DEF Typed, ListsTyped, PlainSlots
        <3> QED BY <1>1, <2>3, <3>1, ListsStay DEF Typed
    <2>7. DOMAIN v = DOMAIN x[f] \cup {r.id}
        BY <1>3 DEF Filed
    <2>8. PICK S : S = DOMAIN x[f]
        OBVIOUS
    <2>9. IsFiniteSet(S) /\ r.id \notin S
        BY <1>1, <2>8 DEF Typed, AudioTyped
    <2>10. IsFiniteSet(S \cup {r.id}) /\ Cardinality(S \cup {r.id}) = Cardinality(S) + 1 /\ Cardinality(S) \in Nat
        BY <2>9, FS_AddElement, FS_CardinalityType
    <2>11. AudioTyped(y) /\ HeldAudio(x) \in Int /\ HeldAudio(y) = HeldAudio(x) + d
        <3>1. PICK w \in Int, z \in Int : w = Weight["AUDIO_SOURCE"] + NODE /\ z = Weight["AUDIO_DATA"] + NODE
            BY WeightAssumption DEF FrontMatter
        <3>2. HeldAudio(x) = w * Cardinality(DOMAIN x.sources) + z * Cardinality(DOMAIN x.payloads)
              /\ HeldAudio(y) = w * Cardinality(DOMAIN y.sources) + z * Cardinality(DOMAIN y.payloads)
            BY <3>1 DEF HeldAudio
        <3>3. CASE f = "sources" /\ op = "AUDIO_SOURCE"
            <4>1. y.payloads = x.payloads /\ DOMAIN y.sources = S \cup {r.id} /\ S = DOMAIN x.sources /\ d = w
                BY <1>2, <2>1, <2>2, <2>7, <2>8, <3>1, <3>3 DEF Fields
            <4>2. AudioTyped(y) /\ Cardinality(DOMAIN x.payloads) \in Nat
                BY <1>1, <2>10, <4>1, FS_CardinalityType DEF Typed, AudioTyped
            <4>3. PICK a \in Int, b \in Int : a = Cardinality(S) /\ b = Cardinality(DOMAIN x.payloads)
                BY <2>10, <4>2
            <4>4. HeldAudio(x) = w * a + z * b /\ HeldAudio(y) = w * (a + 1) + z * b
                BY <2>10, <3>2, <4>1, <4>3
            <4> QED BY <4>1, <4>2, <4>4
        <3>4. CASE f = "payloads" /\ op = "AUDIO_DATA"
            <4>1. y.sources = x.sources /\ DOMAIN y.payloads = S \cup {r.id} /\ S = DOMAIN x.payloads /\ d = z
                BY <1>2, <2>1, <2>2, <2>7, <2>8, <3>1, <3>4 DEF Fields
            <4>2. AudioTyped(y) /\ Cardinality(DOMAIN x.sources) \in Nat
                BY <1>1, <2>10, <4>1, FS_CardinalityType DEF Typed, AudioTyped
            <4>3. PICK a \in Int, b \in Int : a = Cardinality(S) /\ b = Cardinality(DOMAIN x.sources)
                BY <2>10, <4>2
            <4>4. HeldAudio(x) = w * b + z * a /\ HeldAudio(y) = w * b + z * (a + 1)
                BY <2>10, <3>2, <4>1, <4>3
            <4> QED BY <4>1, <4>2, <4>4
        <3> QED BY <3>3, <3>4
    <2>12. Typed(y)
        BY <1>1, <2>1, <2>4, <2>5, <2>6, <2>11 DEF Typed, ChunksTyped
    <2>13. Ledger(y)
        <3>1. y.retained = Held(y)
            BY <1>1, <2>1, <2>5, <2>6, <2>11 DEF Ledger, Held
        <3> QED BY <1>1, <2>4, <3>1 DEF Ledger, DecodedLedger
    <2>14. Sound(y) /\ {"retained", f} \cap Steady = {}
        BY <2>1, <2>12, <2>13 DEF Sound, Only, Steady
    <2> QED BY <1>8, <2>1, <2>14, SoundHandles
<1> QED BY <1>7, <1>8

\* The AudioSource handler: a duplicate, or one after a chunk, gives the read up.
LEMMA AudioSourceHandles ==
    ASSUME NEW x, Sound(x), Reading(x), NEW r, r.op = "AUDIO_SOURCE"
    PROVE  Handles(x, OnAudioSource(x, r))
<1>1. IsScan(x)
    BY DEF Sound
<1>2. CASE x.chunks # <<>> \/ r.id \in DOMAIN x.sources
    BY <1>1, <1>2, Gives, RefusedHandles DEF OnAudioSource
<1>3. CASE ~(x.chunks # <<>> \/ r.id \in DOMAIN x.sources)
    <2>1. PICK c : c = Retain(x, Weight[r.op] + NODE)
        OBVIOUS
    <2>2. Reading(c) => c.sources = x.sources
        BY <1>1, <2>1, RetainCharges DEF Charges, Only, Fields
    <2>3. PICK y : y = OnAudioSource(x, r)
        OBVIOUS
    <2>4. SetIf(c, "sources", Filed(x.sources, r.id, r), y)
        BY <1>3, <2>1, <2>2, <2>3 DEF OnAudioSource, SetIf
    <2>5. Handles(x, y)
        BY <1>3, <2>1, <2>4, NodeHandles
    <2> QED BY <2>3, <2>5
<1> QED BY <1>2, <1>3

\* The AudioData handler, the same with payloads.
LEMMA AudioDataHandles ==
    ASSUME NEW x, Sound(x), Reading(x), NEW r, r.op = "AUDIO_DATA"
    PROVE  Handles(x, OnAudioData(x, r))
<1>1. IsScan(x)
    BY DEF Sound
<1>2. CASE x.chunks # <<>> \/ r.id \in DOMAIN x.payloads
    BY <1>1, <1>2, Gives, RefusedHandles DEF OnAudioData
<1>3. CASE ~(x.chunks # <<>> \/ r.id \in DOMAIN x.payloads)
    <2>1. PICK c : c = Retain(x, Weight[r.op] + NODE)
        OBVIOUS
    <2>2. Reading(c) => c.payloads = x.payloads
        BY <1>1, <2>1, RetainCharges DEF Charges, Only, Fields
    <2>3. PICK y : y = OnAudioData(x, r)
        OBVIOUS
    <2>4. SetIf(c, "payloads", Filed(x.payloads, r.id, r), y)
        BY <1>3, <2>1, <2>2, <2>3 DEF OnAudioData, SetIf
    <2>5. Handles(x, y)
        BY <1>3, <2>1, <2>4, NodeHandles
    <2> QED BY <2>3, <2>5
<1> QED BY <1>2, <1>3

\* The handlers of single records that may be repeated.
LEMMA ReplaceHandles ==
    ASSUME NEW x, Sound(x), Reading(x), NEW f \in Ones, NEW r, r.op = OpOf[f]
    PROVE  Handles(x, Replace(x, f, r))
<1>1. PICK y : y = Replace(x, f, r)
    OBVIOUS
<1>2. f \in Chargeable /\ IsScan(x) /\ x.retained \in Int
    BY ReadingIsNot DEF Chargeable, Fields, Ones, Sound, Typed
<1>3. Weight[r.op] \in Int
    <2>1. OpOf[f] \in Weighed
        BY DEF Ones, OpOf, Weighed, FrontMatter, SummaryRecords
    <2> QED BY <2>1, WeighedInt
<1>4. /\ Charges(x, y, {"retained", f}, Weight[r.op] - IF IsSome(x[f]) THEN Weight[r.op] ELSE 0)
      /\ Reading(y) => y[f] = Some(r)
    BY <1>1, <1>2, <1>3, ReplaceCharges
<1>5. Handles(x, y)
    BY <1>4, OneHandles
<1> QED BY <1>1, <1>5

\* The ObjectTable handler: a second table gives the read up.
LEMMA TableHandles ==
    ASSUME NEW x, Sound(x), Reading(x), NEW r, r.op = "OBJECT_TABLE"
    PROVE  Handles(x, OnObjectTable(x, r))
<1>1. IsScan(x) /\ "table" \in Chargeable /\ "table" \in Ones /\ r.op = OpOf["table"]
    BY DEF Sound, Chargeable, Fields, Ones, OpOf
<1>2. CASE IsSome(x.table)
    BY <1>1, <1>2, Gives, RefusedHandles DEF OnObjectTable
<1>3. CASE ~IsSome(x.table)
    <2>1. PICK c, d, v : c = Retain(x, Weight[r.op]) /\ d = Weight[r.op] /\ v = Some(r)
        OBVIOUS
    <2>2. PICK y : y = OnObjectTable(x, r)
        OBVIOUS
    <2>3. SetIf(c, "table", v, y) /\ Charges(x, c, {"retained"}, d)
        BY <1>1, <1>3, <2>1, <2>2, RetainCharges DEF OnObjectTable, SetIf
    <2>4. Charges(x, y, {"retained", "table"}, d) /\ (Reading(y) => y.table = v)
        BY ONLY <1>1, <2>3, SetCharges
    <2>5. Weight[r.op] - (IF IsSome(x.table) THEN Weight[r.op] ELSE 0) = d
        BY <1>3, <2>1, WeightAssumption DEF FrontMatter
    <2>6. Charges(x, y, {"retained", "table"}, Weight[r.op] - (IF IsSome(x.table) THEN Weight[r.op] ELSE 0))
        BY <2>4, <2>5
    <2>7. Handles(x, y)
        BY <1>1, <2>1, <2>4, <2>6, OneHandles
    <2> QED BY <2>2, <2>7
<1> QED BY <1>2, <1>3

\* The content charged, then the record before it released.
LEMMA LegacyHandles ==
    ASSUME NEW x, Sound(x), Reading(x), NEW r, r.op = "AUDIO"
    PROVE  Handles(x, OnAudio(x, r))
<1>1. IsScan(x) /\ "legacy" \in Chargeable /\ "legacy" \in Ones /\ r.op = OpOf["legacy"] /\ x.retained \in Int
    BY ReadingIsNot DEF Sound, Chargeable, Fields, Ones, OpOf, Typed
<1>2. PICK c : c = Retain(x, Weight[r.op])
    OBVIOUS
<1>3. PICK w \in Int : w = Weight[r.op]
    BY WeightAssumption DEF FrontMatter
<1>4. Charges(x, c, {"retained"}, w)
    BY <1>1, <1>2, <1>3, RetainCharges
<1>5. CASE ~Reading(c)
    <2>1. OnAudio(x, r) = c
        BY <1>2, <1>5 DEF OnAudio
    <2> QED BY <1>4, <1>5, <2>1, RefusedHandles DEF Charges
<1>6. CASE Reading(c)
    <2>1. Only(x, c, {"retained"}) /\ c.retained = x.retained + w
        BY <1>4, <1>6 DEF Charges
    <2>2. PICK h \in Int : h = IF IsSome(x.legacy) THEN w ELSE 0
        OBVIOUS
    <2>3. PICK z : z = Release(c, h)
        OBVIOUS
    <2>4. Only(c, z, {"retained"}) /\ z.retained = c.retained - h /\ z.outcome = c.outcome
        BY <2>1, <2>3, ReleaseCharges DEF Only
    <2>5. c.legacy = x.legacy
        BY <2>1 DEF Only, Fields
    <2>6. OnAudio(x, r) = [z EXCEPT !.legacy = Some(r)]
        BY <1>2, <1>3, <1>6, <2>2, <2>3, <2>5 DEF OnAudio
    <2>7. PICK y : y = [z EXCEPT !.legacy = Some(r)]
        OBVIOUS
    <2>8. Only(z, y, {"legacy"}) /\ y.legacy = Some(r) /\ y.retained = z.retained /\ y.outcome = z.outcome
        <3>1. IsScan(z)
            BY <2>4 DEF Only
        <3> QED BY <2>7, <3>1 DEF Only, IsScan, Fields
    <2>9. Only(x, y, {"retained", "legacy"}) /\ y.retained = x.retained + (w - h) /\ Reading(y)
        BY <1>1, <1>6, <2>1, <2>4, <2>8 DEF Only, Reading
    <2>10. Charges(x, y, {"retained", "legacy"}, w - h)
        BY <2>9 DEF Charges, Only
    <2>11. Charges(x, y, {"retained", "legacy"}, Weight[r.op] - IF IsSome(x.legacy) THEN Weight[r.op] ELSE 0)
        BY <1>3, <2>2, <2>10
    <2>12. Handles(x, y)
        BY <1>1, <2>8, <2>11, OneHandles
    <2> QED BY <2>6, <2>7, <2>12
<1> QED BY <1>5, <1>6

\* What a decoded chunk weighs is a number.
LEMMA ChunkBytesInt ==
    ASSUME NEW c, ChunkTyped(c)
    PROVE  ChunkBytes(c) \in Int
<1>1. Len(c.rows) \in Nat /\ Cardinality(c.bands) \in Nat
    BY FS_CardinalityType DEF ChunkTyped
<1> QED BY <1>1, WeightAssumption DEF ChunkBytes

\* One chunk more.
LEMMA DecodedGrows ==
    ASSUME NEW p, IsSeq(p), \A i \in 1 .. Len(p) : ChunkTyped(p[i]), NEW c, ChunkTyped(c)
    PROVE  /\ DecodedBytes(p) \in Int
           /\ DecodedBytes(Append(p, c)) = DecodedBytes(p) + ChunkBytes(c)
<1>1. PICK n \in Nat : n = Len(p)
    BY DEF IsSeq
<1>2. PICK q : q = Append(p, c)
    OBVIOUS
<1>3. /\ IsSeq(q) /\ Len(q) = n + 1
      /\ \A i \in 1 .. n : q[i] = p[i]
      /\ q[n + 1] = c
    BY <1>1, <1>2, AppendIsSeq
<1>4. DOMAIN p = 1 .. n /\ DOMAIN q = 1 .. n + 1
    BY <1>1, <1>3 DEF IsSeq
<1>5. PICK t : t = [i \in DOMAIN p |-> ChunkBytes(p[i])]
    OBVIOUS
<1>6. PICK u : u = [i \in DOMAIN q |-> ChunkBytes(q[i])]
    OBVIOUS
<1>7. DOMAIN t = 1 .. n /\ DOMAIN u = 1 .. n + 1
    BY <1>4, <1>5, <1>6
<1>8. u[n + 1] = ChunkBytes(c) /\ u[n + 1] \in Int
    BY <1>3, <1>4, <1>6, ChunkBytesInt
<1>9. ASSUME NEW i \in 1 .. n PROVE t[i] \in Int /\ u[i] = t[i]
    BY <1>1, <1>3, <1>4, <1>5, <1>6, ChunkBytesInt
<1>10. Total(t) \in Int /\ Total(u) = Total(t) + u[n + 1]
    BY ONLY <1>7, <1>8, <1>9, n \in Nat, TotalGrows
<1> QED BY <1>2, <1>5, <1>6, <1>8, <1>10 DEF DecodedBytes

\* The last chunk replaced.
LEMMA DecodedMoves ==
    ASSUME NEW p, IsSeq(p), NEW q, IsSeq(q), NEW n \in Nat \ {0}, Len(p) = n, Len(q) = n,
           \A i \in 1 .. n : ChunkTyped(p[i]), ChunkTyped(q[n]), \A i \in 1 .. n - 1 : q[i] = p[i]
    PROVE  /\ DecodedBytes(p) \in Int
           /\ DecodedBytes(q) = DecodedBytes(p) + (ChunkBytes(q[n]) - ChunkBytes(p[n]))
<1>1. PICK m \in Nat : m = n - 1
    OBVIOUS
<1>2. DOMAIN p = 1 .. n /\ DOMAIN q = 1 .. n /\ n = m + 1
    BY <1>1 DEF IsSeq
<1>3. PICK t : t = [i \in DOMAIN p |-> ChunkBytes(p[i])]
    OBVIOUS
<1>4. PICK u : u = [i \in DOMAIN q |-> ChunkBytes(q[i])]
    OBVIOUS
<1>5. PICK w : w = [i \in 1 .. m |-> t[i]]
    OBVIOUS
<1>6. DOMAIN t = 1 .. m + 1 /\ DOMAIN u = 1 .. m + 1 /\ DOMAIN w = 1 .. m
    BY <1>2, <1>3, <1>4, <1>5
<1>7. \A i \in 1 .. m + 1 : t[i] \in Int
    BY <1>2, <1>3, ChunkBytesInt
<1>8. u[m + 1] \in Int /\ u[m + 1] = ChunkBytes(q[n]) /\ t[m + 1] = ChunkBytes(p[n])
    BY <1>2, <1>3, <1>4, ChunkBytesInt
<1>9. ASSUME NEW i \in 1 .. m PROVE w[i] \in Int /\ t[i] = w[i] /\ u[i] = w[i]
    <2>1. i \in 1 .. m + 1 /\ q[i] = p[i]
        BY <1>1
    <2> QED BY <1>2, <1>3, <1>4, <1>5, <1>7, <2>1
<1>10. t[m + 1] \in Int
    BY <1>7
<1>11. Total(w) \in Int /\ Total(t) = Total(w) + t[m + 1]
    BY ONLY <1>6, <1>9, <1>10, m \in Nat, TotalGrows
<1>12. Total(u) = Total(w) + u[m + 1]
    BY ONLY <1>6, <1>8, <1>9, m \in Nat, TotalGrows
<1> QED BY <1>3, <1>4, <1>8, <1>10, <1>11, <1>12 DEF DecodedBytes

\* What only the chunks and the decoded account change.
LEMMA ChunkHandles ==
    ASSUME NEW x, Sound(x), Reading(x), NEW r, r.op = "CHUNK", Len(r.rows) \in Nat
    PROVE  Handles(x, OnChunk(x, r))
<1>1. Typed(x) /\ Ledger(x) /\ IsScan(x)
    BY ReadingIsNot DEF Sound
<1>2. PICK n \in Nat : n = Len(x.chunks)
    BY <1>1 DEF Typed, ChunksTyped, IsSeq
<1>3. PICK here : here = [offset |-> x.at, t0 |-> r.t0, t1 |-> r.t1, rows |-> r.rows, bands |-> {}]
    OBVIOUS
<1>4. ChunkTyped(here) /\ here.bands = {}
    BY <1>3, FS_EmptySet DEF ChunkTyped
<1>5. PICK b \in Int : b = ChunkBytes(here)
    BY <1>4, ChunkBytesInt
<1>6. PICK g \in Int : g = Slots(n + 1) - Slots(n)
    <2>1. Slots(n) \in Int /\ Slots(n + 1) \in Int
        BY SlotsInt
    <2> QED BY <2>1
<1>7. PICK c0 : c0 = Decode(x, b)
    OBVIOUS
<1>8. PICK c1, c2 : c1 = PushDecoded(c0, n) /\ c2 = PushDecoded(c1, n)
    OBVIOUS
<1>9. PICK c3, c4 : c3 = PushDecoded(c2, n) /\ c4 = PushDecoded(c3, n)
    OBVIOUS
<1>10. x.decoded \in Int
    BY <1>1 DEF Typed
<1>11. Decodes(x, c4, b + 4 * g)
    <2>1. Decodes(x, c0, b)
        BY <1>1, <1>7, DecodeDecodes
    <2>2. ASSUME NEW z, NEW e \in Int, Decodes(x, z, e)
          PROVE  Decodes(x, PushDecoded(z, n), e + g)
        <3>1. Slots(n + 1) - Slots(n) \in Int
            BY <1>6
        <3>2. Decodes(x, PushDecoded(z, n), e + (Slots(n + 1) - Slots(n)))
            BY <1>10, <2>2, <3>1, PushDecodes
        <3> QED BY <1>6, <3>2
    <2>3. Decodes(x, c1, b + g)
        BY <1>8, <2>1, <2>2
    <2>4. Decodes(x, c2, b + g + g)
        BY <1>8, <2>2, <2>3
    <2>5. Decodes(x, c3, b + g + g + g)
        BY <1>9, <2>2, <2>4
    <2>6. Decodes(x, c4, b + g + g + g + g)
        BY <1>9, <2>2, <2>5
    <2>7. b + g + g + g + g = b + 4 * g
        OBVIOUS
    <2> QED BY <2>6, <2>7
<1>12. PICK y : y = OnChunk(x, r)
    OBVIOUS
<1>13. PICK kept : kept = Push(c4, "intervals", <<r.t0, r.t1>>, 0)
    OBVIOUS
<1>14. y = IF x.quantization = None \/ ~WindowsExist(r.rows, IF IsSome(x.windows) THEN x.windows[1].windows ELSE <<>>)
           THEN Refused(x)
           ELSE IF ~Reading(c4) THEN c4
           ELSE IF Reading(kept)
                THEN [kept EXCEPT !.chunks = Append(@, here), !.masks = Append(@, {})]
                ELSE kept
    BY <1>2, <1>3, <1>5, <1>7, <1>8, <1>9, <1>12, <1>13 DEF OnChunk
<1>15. CASE y = Refused(x)
    BY <1>1, <1>12, <1>15, Gives, RefusedHandles
<1>16. CASE y = c4 /\ ~Reading(c4)
    BY <1>11, <1>12, <1>16, RefusedHandles DEF Decodes
<1>17. CASE /\ Reading(c4)
            /\ y = IF Reading(kept) THEN [kept EXCEPT !.chunks = Append(@, here), !.masks = Append(@, {})] ELSE kept
    <2>1. Only(x, c4, {"decoded"}) /\ c4.decoded = x.decoded + (b + 4 * g) /\ IsScan(c4)
        BY <1>11, <1>17 DEF Decodes
    <2>2. Pushed(c4, kept, "intervals", <<r.t0, r.t1>>, 0)
        <3>1. "intervals" \in Chargeable
            BY DEF Chargeable, Fields
        <3> QED BY <1>13, <1>17, <2>1, <3>1, PushCharges
    <2>3. CASE ~Reading(kept)
        BY <1>12, <1>17, <2>2, <2>3, RefusedHandles DEF Pushed, Charges
    <2>4. CASE Reading(kept)
        <3>1. PICK i \in Nat : i = Len(x.intervals)
            BY <1>1 DEF Typed, ListsTyped, IsSeq
        <3>2. PICK d \in Int : d = Slots(i + 1) - Slots(i)
            <4>1. Slots(i) \in Int /\ Slots(i + 1) \in Int
                BY SlotsInt
            <4> QED BY <4>1
        <3>3. c4.intervals = x.intervals /\ c4.retained = x.retained
            BY <2>1 DEF Only, Fields
        <3>4. 0 + Slots(i + 1) - Slots(i) = d
            BY <3>2, SlotsInt
        <3>5. Only(c4, kept, {"retained", "intervals"}) /\ kept.retained = x.retained + d
              /\ kept.intervals = Append(x.intervals, <<r.t0, r.t1>>) /\ IsScan(kept)
            BY <2>2, <2>4, <3>1, <3>3, <3>4 DEF Pushed, Charges
        <3>6. Only(x, kept, {"decoded", "retained", "intervals"}) /\ kept.decoded = x.decoded + (b + 4 * g)
            BY <2>1, <3>5 DEF Only, Fields
        <3>7. kept.chunks = x.chunks /\ kept.masks = x.masks
            BY <3>6 DEF Only, Fields
        <3>8. y = [kept EXCEPT !.chunks = Append(x.chunks, here), !.masks = Append(x.masks, {})]
            BY <1>17, <2>4, <3>7
        <3>9. /\ Only(kept, y, {"chunks", "masks"})
              /\ y.chunks = Append(x.chunks, here) /\ y.masks = Append(x.masks, {})
            <4>1. PICK p, q : p = Append(x.chunks, here) /\ q = Append(x.masks, {})
                OBVIOUS
            <4>2. y = [kept EXCEPT !.chunks = p, !.masks = q]
                BY <3>8, <4>1
            <4>3. Only(kept, y, {"chunks", "masks"}) /\ y.chunks = p /\ y.masks = q
                <5>1. "chunks" \in Fields /\ "masks" \in Fields /\ IsScan(kept)
                    BY <3>5 DEF Fields
                <5>2. SetTwo(kept, "chunks", p, "masks", q, y)
                    BY <4>2 DEF SetTwo
                <5> QED BY ONLY <5>1, <5>2, TwoSet
            <4> QED BY <4>1, <4>3
        <3>10. \A h \in Fields : h \notin {"decoded", "retained", "intervals", "chunks", "masks"} => y[h] = x[h]
            BY <3>6, <3>9 DEF Only
        <3>11. (\A h \in Ones : y[h] = x[h]) /\ (\A h \in Counted : y[h] = x[h])
            BY <3>10 DEF Fields, Ones, Counted
        <3>12. y.skipped = x.skipped /\ y.sources = x.sources /\ y.payloads = x.payloads
            BY <3>10 DEF Fields
        <3>13. y.decoded = x.decoded + (b + 4 * g) /\ y.retained = x.retained + d
               /\ y.intervals = Append(x.intervals, <<r.t0, r.t1>>)
            BY <3>5, <3>6, <3>9 DEF Only, Fields
        <3>14. OnesTyped(y) /\ HeldOnes(y) = HeldOnes(x) /\ HeldOnes(x) \in Int
            BY <1>1, <3>11, OnesStay DEF Typed
        <3>15. IsSeq(y.intervals) /\ Len(y.intervals) = i + 1 /\ IsSeq(y.skipped)
            BY <1>1, <3>1, <3>12, <3>13, AppendIsSeq DEF Typed, ListsTyped
        <3>16. ListsTyped(y) /\ HeldLists(x) \in Int /\ HeldLists(y) = HeldLists(x) + (PlainSlots(y) - PlainSlots(x))
            BY <1>1, <3>11, <3>15, ListsStay DEF Typed
        <3>17. PlainSlots(y) - PlainSlots(x) = d
            <4>1. PICK j \in Int : j = Slots(Len(x.skipped))
                BY <1>1, PlainInt DEF Typed
            <4>2. Slots(i) \in Int /\ Slots(i + 1) \in Int
                BY SlotsInt
            <4>3. PlainSlots(x) = Slots(i) + j /\ PlainSlots(y) = Slots(i + 1) + j
                BY <3>1, <3>12, <3>15, <4>1 DEF PlainSlots
            <4> QED BY <3>2, <4>2, <4>3
        <3>18. AudioTyped(y) /\ HeldAudio(y) = HeldAudio(x) /\ HeldAudio(x) \in Int
            BY <1>1, <3>12, AudioInt DEF Typed, AudioTyped, HeldAudio
        <3>19. ChunksTyped(y) /\ Len(y.chunks) = n + 1
            <4>1. IsSeq(x.chunks) /\ IsSeq(x.masks) /\ Len(x.masks) = n
                BY <1>1, <1>2 DEF Typed, ChunksTyped
            <4>2. /\ IsSeq(y.chunks) /\ Len(y.chunks) = n + 1
                  /\ \A k \in 1 .. n : y.chunks[k] = x.chunks[k]
                  /\ y.chunks[n + 1] = here
                BY <1>2, <3>9, <4>1, AppendIsSeq
            <4>3. /\ IsSeq(y.masks) /\ Len(y.masks) = n + 1
                  /\ \A k \in 1 .. n : y.masks[k] = x.masks[k]
                  /\ y.masks[n + 1] = {}
                BY <3>9, <4>1, AppendIsSeq
            <4>4. ASSUME NEW k \in 1 .. n + 1
                  PROVE  ChunkTyped(y.chunks[k]) /\ y.chunks[k].bands \subseteq y.masks[k]
                <5>1. CASE k \in 1 .. n
                    BY <1>1, <1>2, <4>2, <4>3, <5>1 DEF Typed, ChunksTyped
                <5>2. CASE k = n + 1
                    BY <1>4, <4>2, <4>3, <5>2
                <5> QED BY <5>1, <5>2
            <4> QED BY <4>2, <4>3, <4>4 DEF ChunksTyped
        <3>20. y.decoded = DecodedLedger(y)
            <4>1. DecodedBytes(x.chunks) \in Int /\ DecodedBytes(y.chunks) = DecodedBytes(x.chunks) + b
                BY <1>1, <1>4, <1>5, <3>9, DecodedGrows DEF Typed, ChunksTyped
            <4>2. Slots(n) \in Int /\ Slots(n + 1) \in Int
                BY SlotsInt
            <4>3. x.decoded = DecodedBytes(x.chunks) + 4 * Slots(n)
                BY <1>1, <1>2 DEF Ledger, DecodedLedger
            <4>4. y.decoded = DecodedBytes(y.chunks) + 4 * Slots(n + 1)
                <5>1. PICK k \in Int, l \in Int : k = Slots(n) /\ l = Slots(n + 1)
                    BY <4>2
                <5>2. g = l - k
                    BY <1>6, <5>1
                <5>3. x.decoded = DecodedBytes(x.chunks) + 4 * k
                    BY <4>3, <5>1
                <5>4. y.decoded = DecodedBytes(y.chunks) + 4 * l
                    BY ONLY <3>13, <4>1, <5>2, <5>3, b \in Int, k \in Int, l \in Int
                <5> QED BY <5>1, <5>4
            <4> QED BY <3>19, <4>4 DEF DecodedLedger
        <3>21. Typed(y)
            <4>1. y.retained \in Int /\ y.decoded \in Int
                BY <1>1, <3>13 DEF Typed
            <4> QED BY <3>14, <3>16, <3>18, <3>19, <4>1 DEF Typed
        <3>22. y.retained = Held(y)
            BY <1>1, <3>13, <3>14, <3>16, <3>17, <3>18 DEF Ledger, Held
        <3>23. PICK S : S = {"decoded", "retained", "intervals", "chunks", "masks"}
            OBVIOUS
        <3>24. Only(x, y, S) /\ Sound(y) /\ S \cap Steady = {} /\ Reading(y)
            <4>1. y.outcome = kept.outcome
                BY <3>9 DEF Only, Fields
            <4> QED BY <2>4, <3>9, <3>10, <3>20, <3>21, <3>22, <3>23, <4>1 DEF Sound, Only, Ledger, Steady, Reading
        <3> QED BY <1>12, <3>24, SoundHandles
    <2> QED BY <2>3, <2>4
<1> QED BY <1>14, <1>15, <1>16, <1>17

\* A band the chunk has not had.
LEMMA BandHandles ==
    ASSUME NEW x, Sound(x), Reading(x), NEW r, r.op = "SH_BAND_STREAM"
    PROVE  Handles(x, OnShBandStream(x, r))
<1>1. Typed(x) /\ Ledger(x) /\ IsScan(x)
    BY ReadingIsNot DEF Sound
<1>2. PICK n \in Nat : n = Len(x.chunks)
    BY <1>1 DEF Typed, ChunksTyped, IsSeq
<1>3. PICK masked : masked = [x EXCEPT !.masks[n] = @ \cup {r.band}]
    OBVIOUS
<1>4. PICK bytes : bytes = ROW * Len(x.chunks[n].rows) + NODE
    OBVIOUS
<1>5. PICK c : c = Decode(masked, bytes)
    OBVIOUS
<1>6. PICK y : y = OnShBandStream(x, r)
    OBVIOUS
<1>7. \/ y = Refused(x)
      \/ y = x
      \/ n # 0 /\ r.band \notin x.masks[n] /\ y = masked
      \/ n # 0 /\ r.band \notin x.masks[n] /\ y = IF Reading(c) THEN [c EXCEPT !.chunks[n].bands = @ \cup {r.band}] ELSE c
    BY <1>2, <1>3, <1>4, <1>5, <1>6 DEF OnShBandStream
<1>8. CASE y = Refused(x)
    BY <1>1, <1>6, <1>8, Gives, RefusedHandles
<1>9. CASE y = x
    BY <1>6, <1>9 DEF Handles
<1>10. PICK p : p = [x.masks EXCEPT ![n] = @ \cup {r.band}]
    OBVIOUS
<1>11. Only(x, masked, {"masks"}) /\ masked.masks = p
    BY <1>1, <1>3, <1>10 DEF Only, IsScan, Fields
<1>12. ASSUME n # 0
       PROVE  IsSeq(p) /\ Len(p) = n /\ p[n] = x.masks[n] \cup {r.band} /\ \A k \in 1 .. n : x.masks[k] \subseteq p[k]
    <2>1. IsSeq(x.masks) /\ Len(x.masks) = n /\ n \in 1 .. n
        BY <1>1, <1>2, <1>12 DEF Typed, ChunksTyped
    <2>2. x.masks = [k \in 1 .. n |-> x.masks[k]]
        BY <2>1 DEF IsSeq
    <2>3. p = [k \in 1 .. n |-> IF k = n THEN x.masks[n] \cup {r.band} ELSE x.masks[k]]
        BY <1>10, <2>1, <2>2
    <2>4. Len(p) = n
        BY <2>3
    <2>5. IsSeq(p)
        BY <2>3, <2>4 DEF IsSeq
    <2> QED BY <2>1, <2>3, <2>4, <2>5
<1>13. CASE n # 0 /\ y = masked
    <2>1. \A h \in Fields : h # "masks" => y[h] = x[h]
        BY <1>11, <1>13 DEF Only
    <2>2. (\A h \in Ones : y[h] = x[h]) /\ (\A h \in Counted : y[h] = x[h])
        BY <2>1 DEF Fields, Ones, Counted
    <2>3. y.intervals = x.intervals /\ y.skipped = x.skipped /\ y.sources = x.sources /\ y.payloads = x.payloads
          /\ y.chunks = x.chunks /\ y.decoded = x.decoded /\ y.retained = x.retained
        BY <2>1 DEF Fields
    <2>4. OnesTyped(y) /\ HeldOnes(y) = HeldOnes(x)
        BY <1>1, <2>2, OnesStay DEF Typed
    <2>5. ListsTyped(y) /\ HeldLists(y) = HeldLists(x)
        <3>1. IsSeq(y.intervals) /\ IsSeq(y.skipped) /\ PlainSlots(y) = PlainSlots(x) /\ PlainSlots(x) \in Int
            BY <1>1, <2>3, PlainInt DEF Typed, ListsTyped, PlainSlots
        <3> QED BY <1>1, <2>2, <3>1, ListsStay DEF Typed
    <2>6. AudioTyped(y) /\ HeldAudio(y) = HeldAudio(x)
        BY <1>1, <2>3 DEF Typed, AudioTyped, HeldAudio
    <2>7. ChunksTyped(y)
        BY <1>1, <1>2, <1>11, <1>12, <1>13, <2>3 DEF Typed, ChunksTyped
    <2>8. Typed(y) /\ Ledger(y)
        BY <1>1, <2>3, <2>4, <2>5, <2>6, <2>7 DEF Typed, Ledger, Held, DecodedLedger
    <2>9. Only(x, y, {"masks"}) /\ Sound(y) /\ {"masks"} \cap Steady = {} /\ Reading(y)
        BY <1>11, <1>13, <2>8 DEF Sound, Only, Steady, Reading, Fields
    <2> QED BY <1>6, <2>9, SoundHandles
<1>14. CASE n # 0 /\ r.band \notin x.masks[n] /\ y = IF Reading(c) THEN [c EXCEPT !.chunks[n].bands = @ \cup {r.band}] ELSE c
    <2>1. IsScan(masked) /\ Reading(masked) /\ masked.decoded = x.decoded
        BY <1>11 DEF Only, Reading, Fields
    <2>2. Decodes(masked, c, bytes)
        BY <1>5, <2>1, DecodeDecodes
    <2>3. CASE ~Reading(c)
        BY <1>6, <1>14, <2>2, <2>3, RefusedHandles DEF Decodes
    <2>4. CASE Reading(c)
        <3>1. Only(masked, c, {"decoded"}) /\ c.decoded = x.decoded + bytes
            BY <2>1, <2>2, <2>4 DEF Decodes
        <3>2. Only(x, c, {"decoded", "masks"}) /\ c.chunks = x.chunks /\ c.masks = p
            BY <1>11, <3>1 DEF Only, Fields
        <3>3. PICK q : q = [x.chunks EXCEPT ![n].bands = @ \cup {r.band}]
            OBVIOUS
        <3>4. Only(c, y, {"chunks"}) /\ y.chunks = q
            <4>1. IsScan(c) /\ y = [c EXCEPT !.chunks[n].bands = @ \cup {r.band}]
                BY <1>14, <2>4, <3>2 DEF Only
            <4> QED BY <3>2, <3>3, <4>1 DEF Only, IsScan, Fields
        <3>5. Only(x, y, {"decoded", "masks", "chunks"}) /\ y.masks = p /\ y.decoded = x.decoded + bytes
            BY <3>1, <3>2, <3>4 DEF Only, Fields
        <3>6. \A h \in Fields : h \notin {"decoded", "masks", "chunks"} => y[h] = x[h]
            BY <3>5 DEF Only
        <3>7. (\A h \in Ones : y[h] = x[h]) /\ (\A h \in Counted : y[h] = x[h])
            BY <3>6 DEF Fields, Ones, Counted
        <3>8. y.intervals = x.intervals /\ y.skipped = x.skipped /\ y.sources = x.sources /\ y.payloads = x.payloads
              /\ y.retained = x.retained
            BY <3>6 DEF Fields
        <3>9. OnesTyped(y) /\ HeldOnes(y) = HeldOnes(x)
            BY <1>1, <3>7, OnesStay DEF Typed
        <3>10. ListsTyped(y) /\ HeldLists(y) = HeldLists(x)
            <4>1. IsSeq(y.intervals) /\ IsSeq(y.skipped) /\ PlainSlots(y) = PlainSlots(x) /\ PlainSlots(x) \in Int
                BY <1>1, <3>8, PlainInt DEF Typed, ListsTyped, PlainSlots
            <4> QED BY <1>1, <3>7, <4>1, ListsStay DEF Typed
        <3>11. AudioTyped(y) /\ HeldAudio(y) = HeldAudio(x)
            BY <1>1, <3>8 DEF Typed, AudioTyped, HeldAudio
        <3>12. /\ IsSeq(x.chunks) /\ Len(x.chunks) = n /\ n \in 1 .. n
               /\ \A k \in 1 .. n : ChunkTyped(x.chunks[k]) /\ x.chunks[k].bands \subseteq x.masks[k]
            BY <1>1, <1>2, <1>14 DEF Typed, ChunksTyped
        <3>13. PICK u : u = x.chunks[n]
            OBVIOUS
        <3>14. PICK v : v = [u EXCEPT !.bands = @ \cup {r.band}]
            OBVIOUS
        <3>15. /\ v = [offset |-> v.offset, t0 |-> v.t0, t1 |-> v.t1, rows |-> v.rows, bands |-> v.bands]
               /\ v.rows = u.rows /\ v.bands = u.bands \cup {r.band}
            <4>1. u = [offset |-> u.offset, t0 |-> u.t0, t1 |-> u.t1, rows |-> u.rows, bands |-> u.bands]
                BY <3>12, <3>13 DEF ChunkTyped
            <4> QED BY <3>14, <4>1
        <3>16. IsFiniteSet(u.bands) /\ r.band \notin u.bands /\ Len(u.rows) \in Nat
            BY <1>14, <3>12, <3>13 DEF ChunkTyped
        <3>17. PICK S, e : S = u.bands /\ e = r.band
            OBVIOUS
        <3>18. IsFiniteSet(S) /\ e \notin S
            BY <3>16, <3>17
        <3>19. IsFiniteSet(S \cup {e}) /\ Cardinality(S \cup {e}) = Cardinality(S) + 1 /\ Cardinality(S) \in Nat
            BY <3>18, FS_AddElement, FS_CardinalityType
        <3>20. ChunkTyped(v) /\ ChunkTyped(u)
            BY <3>12, <3>13, <3>15, <3>16, <3>17, <3>19 DEF ChunkTyped
        <3>21. ChunkBytes(v) = ChunkBytes(u) + bytes /\ ChunkBytes(u) \in Int /\ bytes \in Int
            <4>1. PICK k \in Int, a \in Int, m \in Int : k = Cardinality(S) /\ a = ROW * Len(u.rows) /\ m = NODE
                BY <3>16, <3>19, WeightAssumption
            <4>2. ChunkBytes(u) = a * (1 + k) + m * k /\ ChunkBytes(v) = a * (1 + (k + 1)) + m * (k + 1) /\ bytes = a + m
                BY <1>4, <3>13, <3>15, <3>17, <3>19, <4>1 DEF ChunkBytes
            <4> QED BY <4>2
        <3>22. q = [k \in 1 .. n |-> IF k = n THEN v ELSE x.chunks[k]]
            <4>1. x.chunks = [k \in 1 .. n |-> x.chunks[k]]
                BY <3>12 DEF IsSeq
            <4> QED BY <3>3, <3>12, <3>13, <3>14, <4>1
        <3>23. IsSeq(q) /\ Len(q) = n
            <4>1. Len(q) = n
                BY <3>22
            <4> QED BY <3>22, <4>1 DEF IsSeq
        <3>24. q[n] = v /\ \A k \in 1 .. n - 1 : q[k] = x.chunks[k]
            BY <3>12, <3>22
        <3>25. ChunksTyped(y)
            <4>1. IsSeq(p) /\ Len(p) = n /\ p[n] = x.masks[n] \cup {r.band} /\ \A k \in 1 .. n : x.masks[k] \subseteq p[k]
                BY <1>12, <1>14
            <4>2. ASSUME NEW k \in 1 .. n PROVE ChunkTyped(q[k]) /\ q[k].bands \subseteq p[k]
                <5>1. CASE k = n
                    BY <3>12, <3>13, <3>15, <3>20, <3>24, <4>1, <5>1
                <5>2. CASE k # n
                    BY <3>12, <3>22, <4>1, <5>2
                <5> QED BY <5>1, <5>2
            <4> QED BY <3>4, <3>5, <3>23, <4>1, <4>2 DEF ChunksTyped
        <3>26. y.decoded = DecodedLedger(y)
            <4>1. n \in Nat \ {0}
                BY <1>14
            <4>2. /\ DecodedBytes(x.chunks) \in Int
                  /\ DecodedBytes(q) = DecodedBytes(x.chunks) + (ChunkBytes(v) - ChunkBytes(u))
                <5>1. \A k \in 1 .. n : ChunkTyped(x.chunks[k])
                    BY <3>12
                <5>2. ChunkTyped(q[n])
                    BY <3>20, <3>24
                <5>3. PICK z : z = x.chunks
                    OBVIOUS
                <5>4. /\ DecodedBytes(z) \in Int
                      /\ DecodedBytes(q) = DecodedBytes(z) + (ChunkBytes(q[n]) - ChunkBytes(z[n]))
                    BY <3>12, <3>23, <3>24, <4>1, <5>1, <5>2, <5>3, DecodedMoves
                <5> QED BY <3>13, <3>24, <5>3, <5>4
            <4>3. x.decoded = DecodedBytes(x.chunks) + 4 * Slots(n) /\ Slots(n) \in Int
                BY <1>1, <1>2, SlotsInt DEF Ledger, DecodedLedger
            <4>4. y.decoded = DecodedBytes(q) + 4 * Slots(n)
                BY <3>5, <3>21, <4>2, <4>3
            <4> QED BY <3>4, <3>23, <4>4 DEF DecodedLedger
        <3>27. y.decoded \in Int
            BY <1>1, <3>5, <3>21 DEF Typed
        <3>28. Typed(y) /\ Ledger(y)
            BY <1>1, <3>8, <3>9, <3>10, <3>11, <3>25, <3>26, <3>27 DEF Typed, Ledger, Held
        <3>29. PICK Z : Z = {"decoded", "masks", "chunks"}
            OBVIOUS
        <3>30. Only(x, y, Z) /\ Sound(y) /\ Z \cap Steady = {} /\ Reading(y)
            <4>1. y.outcome = x.outcome
                BY <3>5 DEF Only, Fields
            <4> QED BY <3>5, <3>28, <3>29, <4>1 DEF Sound, Only, Steady, Reading
        <3> QED BY <1>6, <3>30, SoundHandles
    <2> QED BY <2>3, <2>4
<1> QED BY <1>7, <1>8, <1>9, <1>13, <1>14

----------------------------------------------------------------------------
(***************************************************************************)
(* One turn of the loop.                                                   *)
(***************************************************************************)

\* The ChunkIndex handler.
LEMMA IndexHandles ==
    ASSUME NEW x, Sound(x), Reading(x), NEW r, r.op = "CHUNK_INDEX"
    PROVE  Handles(x, OnChunkIndex(x, r))
<1>1. IsScan(x) /\ "index" \in Counted /\ r.op \in Weighed
    BY DEF Sound, Counted, Weighed, SummaryRecords
<1>2. OnChunkIndex(x, r) = Refused(x) \/ OnChunkIndex(x, r) = Push(x, "index", r, Weight[r.op])
    BY DEF OnChunkIndex
<1>3. CASE OnChunkIndex(x, r) = Refused(x)
    BY <1>1, <1>3, Gives, RefusedHandles
<1>4. CASE OnChunkIndex(x, r) = Push(x, "index", r, Weight[r.op])
    BY <1>1, <1>4, ListHandles
<1> QED BY <1>2, <1>3, <1>4

LEMMA StayHandles ==
    ASSUME NEW x, Sound(x), Reading(x)
    PROVE  Handles(x, x)
BY DEF Handles

\* Every handler but the Footer's.
LEMMA HandledHandles ==
    ASSUME NEW x, Sound(x), Reading(x), NEW r, r.op = "CHUNK" => Len(r.rows) \in Nat, r.op # "FOOTER"
    PROVE  Handles(x, Handled(x, r))
<1>1. IsScan(x) /\ Handles(x, Refused(x))
    BY Gives, RefusedHandles DEF Sound
<1>2. CASE r.op = "HEADER"
    <2>1. Handled(x, r) = OnHeader(x, r) /\ r.op = OpOf["header"] /\ "header" \in Ones
        BY <1>2 DEF Handled, OpOf, Ones
    <2> QED BY <1>1, <2>1, ReplaceHandles DEF OnHeader
<1>3. CASE r.op = "QUANTIZATION"
    <2>1. Handled(x, r) = OnQuantization(x, r) /\ r.op = OpOf["quantization"] /\ "quantization" \in Ones
        BY <1>3 DEF Handled, OpOf, Ones
    <2> QED BY <1>1, <2>1, ReplaceHandles DEF OnQuantization
<1>4. CASE r.op = "WINDOW_TABLE"
    <2>1. Handled(x, r) = OnWindowTable(x, r) /\ r.op = OpOf["windows"] /\ "windows" \in Ones
        BY <1>4 DEF Handled, OpOf, Ones
    <2> QED BY <1>1, <2>1, ReplaceHandles DEF OnWindowTable
<1>5. CASE r.op = "AUDIO_SOURCE"
    BY <1>5, AudioSourceHandles DEF Handled
<1>6. CASE r.op = "AUDIO_DATA"
    BY <1>6, AudioDataHandles DEF Handled
<1>7. CASE r.op = "AUDIO"
    BY <1>7, LegacyHandles DEF Handled
<1>8. CASE r.op = "CAMERA"
    <2>1. Handled(x, r) = Replace(x, "camera", r) /\ r.op = OpOf["camera"] /\ "camera" \in Ones
        BY <1>8 DEF Handled, OnCamera, OpOf, Ones
    <2> QED BY <2>1, ReplaceHandles
<1>9. CASE r.op = "STATISTICS"
    <2>1. Handled(x, r) = Replace(x, "statistics", r) /\ r.op = OpOf["statistics"] /\ "statistics" \in Ones
        BY <1>9 DEF Handled, OnStatistics, OpOf, Ones
    <2> QED BY <2>1, ReplaceHandles
<1>10. CASE r.op = "OBJECT_TABLE"
    BY <1>10, TableHandles DEF Handled
<1>11. CASE r.op = "CHUNK"
    BY <1>11, ChunkHandles DEF Handled
<1>12. CASE r.op = "SH_BAND_STREAM"
    BY <1>12, BandHandles DEF Handled
<1>13. CASE r.op = "CHUNK_INDEX"
    BY <1>13, IndexHandles DEF Handled
<1>14. CASE r.op \in {"METADATA", "ATTACHMENT", "COORDINATE_FRAME", "SENSOR_CALIBRATION", "GEODETIC_ANCHOR",
                      "SUMMARY_OFFSET", "RIG_TRAJECTORY", "OBJECT_TRACK"}
    <2>1. r.op \in Weighed
        BY <1>14 DEF Weighed, FrontMatter, SummaryRecords
    <2>2. \A f \in Counted : Handles(x, Push(x, f, r, Weight[r.op]))
        BY <2>1, ListHandles
    <2>3. CASE r.op = "METADATA"
        BY <2>2, <2>3 DEF Handled, OnMetadata, Counted
    <2>4. CASE r.op = "ATTACHMENT"
        BY <2>2, <2>4 DEF Handled, OnAttachment, Counted
    <2>5. CASE r.op = "COORDINATE_FRAME"
        BY <2>2, <2>5 DEF Handled, OnCoordinateFrame, Counted
    <2>6. CASE r.op = "SENSOR_CALIBRATION"
        BY <2>2, <2>6 DEF Handled, OnSensorCalibration, Counted
    <2>7. CASE r.op = "GEODETIC_ANCHOR"
        BY <2>2, <2>7 DEF Handled, OnGeodeticAnchor, Counted
    <2>8. CASE r.op = "SUMMARY_OFFSET"
        BY <2>2, <2>8 DEF Handled, OnSummaryOffset, Counted
    <2>9. CASE r.op = "RIG_TRAJECTORY"
        BY <2>2, <2>9, StayHandles DEF Handled, OnRigTrajectory, Counted
    <2>10. CASE r.op = "OBJECT_TRACK"
        BY <2>2, <2>10, StayHandles DEF Handled, OnObjectTrack, Counted
    <2> QED BY <1>14, <2>3, <2>4, <2>5, <2>6, <2>7, <2>8, <2>9, <2>10
<1>15. CASE r.op \notin {"HEADER", "QUANTIZATION", "WINDOW_TABLE", "AUDIO_SOURCE", "AUDIO_DATA", "AUDIO", "CAMERA",
                         "STATISTICS", "OBJECT_TABLE", "CHUNK", "SH_BAND_STREAM", "CHUNK_INDEX", "METADATA", "ATTACHMENT",
                         "COORDINATE_FRAME", "SENSOR_CALIBRATION", "GEODETIC_ANCHOR", "SUMMARY_OFFSET",
                         "RIG_TRAJECTORY", "OBJECT_TRACK"}
    <2>1. Handled(x, r) = Push(x, "skipped", r.op, 0)
        BY <1>15 DEF Handled
    <2> QED BY <2>1, SkippedHandles
<1> QED BY <1>2, <1>3, <1>4, <1>5, <1>6, <1>7, <1>8, <1>9, <1>10, <1>11, <1>12, <1>13, <1>14, <1>15

\* A record counted, and the run of summary records it belongs to or ends.
Arrived(x, r) == SummaryRun([x EXCEPT !.at = @ + 1, !.state_seen = @ \/ r.op \in {"CHUNK", "DELTA_CHUNK"}], r)

\* The summary run: it takes a summary record in, a Footer leaves it, any other record ends it.
LEMMA ArrivedIs ==
    ASSUME NEW x, IsScan(x), NEW r
    PROVE  LET y == Arrived(x, r) IN
           /\ Only(x, y, {"at", "state_seen", "tail", "tail_start"})
           /\ y.at = x.at + 1
           /\ r.op \in SummaryRecords =>
                 y.tail = Append(x.tail, r) /\ y.tail_start = IF x.tail = <<>> THEN x.at + 1 ELSE x.tail_start
           /\ r.op = "FOOTER" => y.tail = x.tail /\ y.tail_start = x.tail_start
           /\ r.op \notin SummaryRecords \cup {"FOOTER"} => y.tail = <<>> /\ y.tail_start = 0
<1>1. PICK z : z = [x EXCEPT !.at = @ + 1, !.state_seen = @ \/ r.op \in {"CHUNK", "DELTA_CHUNK"}]
    OBVIOUS
<1>2. Only(x, z, {"at", "state_seen"}) /\ z.at = x.at + 1
    BY <1>1 DEF Only, IsScan, Fields
<1>3. IsScan(z) /\ z.tail = x.tail /\ z.tail_start = x.tail_start
    BY <1>2 DEF Only, Fields
<1>4. PICK y : y = Arrived(x, r)
    OBVIOUS
<1>5. y = SummaryRun(z, r)
    BY <1>1, <1>4 DEF Arrived
<1>6. CASE r.op \in SummaryRecords
    <2>1. y = [z EXCEPT !.tail = Append(@, r), !.tail_start = IF z.tail = <<>> THEN z.at ELSE @]
        BY <1>5, <1>6 DEF SummaryRun
    <2>2. Only(z, y, {"tail", "tail_start"}) /\ y.tail = Append(z.tail, r)
          /\ y.tail_start = IF z.tail = <<>> THEN z.at ELSE z.tail_start
        <3>1. PICK v, w : v = Append(z.tail, r) /\ w = IF z.tail = <<>> THEN z.at ELSE z.tail_start
            OBVIOUS
        <3>2. y = [z EXCEPT !.tail = v, !.tail_start = w]
            BY <2>1, <3>1
        <3>3. Only(z, y, {"tail", "tail_start"}) /\ y.tail = v /\ y.tail_start = w
            <4>1. "tail" \in Fields /\ "tail_start" \in Fields /\ IsScan(z)
                BY <1>3 DEF Fields
            <4>2. SetTwo(z, "tail", v, "tail_start", w, y)
                BY <3>2 DEF SetTwo
            <4> QED BY ONLY <4>1, <4>2, TwoSet
        <3> QED BY <3>1, <3>3
    <2>3. Only(x, y, {"at", "state_seen", "tail", "tail_start"}) /\ y.at = z.at
        BY <1>2, <2>2 DEF Only, Fields
    <2>4. r.op # "FOOTER"
        BY <1>6 DEF SummaryRecords
    <2> QED BY <1>2, <1>3, <1>4, <1>6, <2>2, <2>3, <2>4
<1>7. CASE r.op = "FOOTER"
    <2>1. r.op \notin SummaryRecords
        BY <1>7 DEF SummaryRecords
    <2>2. y = z
        BY <1>5, <1>7, <2>1 DEF SummaryRun
    <2>3. Only(x, y, {"at", "state_seen", "tail", "tail_start"})
        BY <1>2, <2>2 DEF Only
    <2> QED BY <1>2, <1>3, <1>4, <1>7, <2>1, <2>2, <2>3
<1>8. CASE r.op \notin SummaryRecords \cup {"FOOTER"}
    <2>1. y = [z EXCEPT !.tail = <<>>, !.tail_start = 0]
        BY <1>5, <1>8 DEF SummaryRun
    <2>2. Only(z, y, {"tail", "tail_start"}) /\ y.tail = <<>> /\ y.tail_start = 0
        <3>1. "tail" \in Fields /\ "tail_start" \in Fields /\ IsScan(z)
            BY <1>3 DEF Fields
        <3>2. SetTwo(z, "tail", <<>>, "tail_start", 0, y)
            BY <2>1 DEF SetTwo
        <3> QED BY ONLY <3>1, <3>2, TwoSet
    <2>3. Only(x, y, {"at", "state_seen", "tail", "tail_start"}) /\ y.at = z.at
        BY <1>2, <2>2 DEF Only, Fields
    <2> QED BY <1>2, <1>3, <1>4, <1>8, <2>2, <2>3
<1> QED BY <1>6, <1>7, <1>8

LEMMA ArrivedSound ==
    ASSUME NEW x, Sound(x), Reading(x), NEW r
    PROVE  Sound(Arrived(x, r)) /\ Reading(Arrived(x, r))
<1>1. PICK y : y = Arrived(x, r)
    OBVIOUS
<1>2. Only(x, y, {"at", "state_seen", "tail", "tail_start"})
    BY <1>1, ArrivedIs DEF Sound
<1>3. Only(x, y, Unledgered) /\ y.outcome = x.outcome
    BY <1>2 DEF Only, Unledgered, Fields
<1> QED BY <1>1, <1>3, SoundStays, ReadingIsNot DEF Reading

\* The Footer handler: a verdict only over a run that starts where the Footer says and ends just before it.
LEMMA FooterIs ==
    ASSUME NEW x, Sound(x), Reading(x), NEW r
    PROVE  LET y == OnFooter(x, r) IN
           /\ Sound(y) /\ Reading(y)
           /\ \A f \in Steady \ {"saw_footer", "crc_ok"} : y[f] = x[f]
           /\ y.crc_ok = IF /\ r.summary_start # 0 /\ r.crc # Digest(<<>>)
                            /\ x.tail_start = r.summary_start /\ x.tail_start + Len(x.tail) = x.at
                         THEN Some(Digest(x.tail) = r.crc) ELSE x.crc_ok
<1>1. PICK y : y = OnFooter(x, r)
    OBVIOUS
<1>2. IsScan(x)
    BY DEF Sound
<1>3. PICK v : v = IF /\ r.summary_start # 0 /\ r.crc # Digest(<<>>)
                      /\ x.tail_start = r.summary_start /\ x.tail_start + Len(x.tail) = x.at
                   THEN Some(Digest(x.tail) = r.crc) ELSE x.crc_ok
    OBVIOUS
<1>4. y = [x EXCEPT !.saw_footer = TRUE, !.crc_ok = v]
    BY <1>1, <1>3 DEF OnFooter
<1>5. Only(x, y, {"saw_footer", "crc_ok"}) /\ y.crc_ok = v
    BY <1>2, <1>4 DEF Only, IsScan, Fields
<1>6. Only(x, y, Unledgered) /\ y.outcome = x.outcome
    BY <1>5 DEF Only, Unledgered, Fields
<1>7. Sound(y) /\ Reading(y)
    BY <1>6, SoundStays, ReadingIsNot DEF Reading
<1>8. \A f \in Steady \ {"saw_footer", "crc_ok"} : y[f] = x[f]
    BY <1>5 DEF Only, Steady, Fields
<1> QED BY <1>1, <1>3, <1>5, <1>7, <1>8

\* One turn of the loop: it gives up, or it handled the record.
LEMMA TurnIs ==
    ASSUME NEW x, Sound(x), Reading(x), NEW r, r.op = "CHUNK" => Len(r.rows) \in Nat
    PROVE  LET y == OnRecord(x, r) IN
           /\ Sound(y)
           /\ Reading(y) => y = Handled(Arrived(x, r), r)
           /\ ~Reading(y) => y.outcome = "refused"
<1>1. PICK y, here : y = OnRecord(x, r) /\ here = Arrived(x, r)
    OBVIOUS
<1>2. y = Refused(x) \/ y = Handled(here, r)
    BY <1>1 DEF OnRecord, Arrived
<1>3. Sound(here) /\ Reading(here)
    BY <1>1, ArrivedSound
<1>4. CASE y = Refused(x)
    <2>1. IsScan(y) /\ y.outcome = "refused"
        BY <1>4, Gives DEF Sound
    <2> QED BY <1>1, <2>1 DEF Sound, Reading
<1>5. CASE y = Handled(here, r) /\ r.op # "FOOTER"
    <2>1. Handles(here, y)
        BY <1>3, <1>5, HandledHandles
    <2> QED BY <1>1, <1>5, <2>1 DEF Handles
<1>6. CASE y = Handled(here, r) /\ r.op = "FOOTER"
    <2>1. y = OnFooter(here, r)
        BY <1>6 DEF Handled
    <2> QED BY <1>1, <1>3, <1>6, <2>1, FooterIs
<1> QED BY <1>2, <1>4, <1>5, <1>6

----------------------------------------------------------------------------
(***************************************************************************)
(* The invariant.  Beside the accounts it says what the run of summary records *)
(* is: consecutive records of the file that end just before the next one.  *)
(***************************************************************************)

NoFooter(f, n) == \A i \in 1 .. n : f[i].op # "FOOTER"
FooterEnds(f) == \A i \in DOMAIN f : f[i].op = "FOOTER" => i = Len(f)

\* The run just past: what it holds is the records of the file up to here.
RunOfFile(f, x) ==
    /\ IsSeq(x.tail)
    /\ x.tail = <<>> => x.tail_start = 0
    /\ x.tail # <<>> =>
        /\ x.tail_start \in 1 .. x.at /\ x.tail_start + Len(x.tail) - 1 = x.at
        /\ \A i \in 1 .. Len(x.tail) : x.tail[i] = f[x.tail_start + i - 1]

\* Until the Footer, and once the Footer that ends the file has been seen.
Digested(f, x) ==
    /\ NoFooter(f, x.at) => x.crc_ok = None /\ RunOfFile(f, x)
    /\ FooterEnds(f) /\ ~NoFooter(f, x.at) =>
        x.at = Len(f) /\ (IsSome(x.crc_ok) => x.crc_ok = I!Verdict(f))

ReadInv ==
    /\ file \in FILES
    /\ Sound(s)
    /\ Reading(s) => s.at \in 0 .. Len(file) /\ Digested(file, s)
    /\ Reads => streamed = None /\ indexed = None /\ (~Reading(s) => s.outcome = "refused")
    /\ IsSome(streamed) =>
        /\ s.outcome # "refused"
        /\ streamed[1].retained = Settled(s)
        /\ streamed[1].crc_ok = s.crc_ok
    /\ clean /\ IsSome(streamed) => Reading(s)
    /\ clean /\ IsSome(indexed) => indexed[1].crc_ok = I!Verdict(file)

\* The files are sequences of records, and the rows of their chunks are sequences.
LEMMA FileIs ==
    ASSUME NEW f \in FILES
    PROVE  IsSeq(f) /\ \A i \in 1 .. Len(f) : f[i].op = "CHUNK" => Len(f[i].rows) \in Nat
<1>1. f \in Seq(Range(f))
    BY FileAssumption
<1>2. PICK S : S = Range(f)
    OBVIOUS
<1>3. IsSeq(f)
    BY <1>1, <1>2, SeqIsSeq
<1>4. ASSUME NEW i \in 1 .. Len(f), f[i].op = "CHUNK"
      PROVE  Len(f[i].rows) \in Nat
    <2>1. i \in DOMAIN f
        BY <1>3 DEF IsSeq
    <2>2. PICK R : R = Range(f[i].rows)
        OBVIOUS
    <2>3. f[i].rows \in Seq(R)
        BY <1>4, <2>1, <2>2, FileAssumption
    <2> QED BY <2>3
<1> QED BY <1>3, <1>4

\* The accounts agree before the first record.
LEMMA OpenedSound ==
    ASSUME NEW o
    PROVE  Sound(Opened(o))
<1>1. PICK x : x = Opened(o)
    OBVIOUS
<1>2. IsScan(x)
    BY <1>1 DEF Opened, IsScan, Fields
<1>3. (\A f \in Ones : x[f] = None) /\ (\A f \in Counted : x[f] = <<>>)
    BY <1>1 DEF Opened, Ones, Counted
<1>4. /\ x.intervals = <<>> /\ x.skipped = <<>> /\ x.chunks = <<>> /\ x.masks = <<>>
      /\ DOMAIN x.sources = {} /\ DOMAIN x.payloads = {} /\ x.retained = 0 /\ x.decoded = 0
    BY <1>1 DEF Opened
<1>5. OnesTyped(x) /\ ListsTyped(x) /\ ChunksTyped(x) /\ AudioTyped(x)
    BY <1>3, <1>4, EmptyIsSeq, FS_EmptySet DEF OnesTyped, OneTyped, ListsTyped, ListTyped, ChunksTyped, AudioTyped
<1>6. Slots(0) = 0
    <2>1. Capacity(0) = 0
        <3>1. PICK n \in Nat : n = 0
            OBVIOUS
        <3> DEFINE After == CHOOSE after : after = [k \in 0 .. n |->
                       IF k = 0 THEN 0
                       ELSE LET held == after[k - 1]
                            IN  IF k <= held THEN held ELSE IF held = 0 THEN 4 ELSE 2 * held]
        <3>2. Capacity(n) = After[n]
            BY DEF Capacity
        <3>3. PICK f : f = [k \in 0 .. n |-> 0]
            OBVIOUS
        <3>4. f = [k \in 0 .. n |-> IF k = 0 THEN 0
                       ELSE LET held == f[k - 1]
                            IN  IF k <= held THEN held ELSE IF held = 0 THEN 4 ELSE 2 * held]
            BY <3>1, <3>3
        <3>5. After = [k \in 0 .. n |-> IF k = 0 THEN 0
                       ELSE LET held == After[k - 1]
                            IN  IF k <= held THEN held ELSE IF held = 0 THEN 4 ELSE 2 * held]
            BY <3>4
        <3> HIDE DEF After
        <3> QED BY <3>1, <3>2, <3>5
    <2> QED BY <2>1, WeightAssumption DEF Slots
<1>7. ASSUME NEW f \in Counted PROVE HeldMany(x, f) = 0
    <2>1. PICK t : t = [i \in DOMAIN x[f] |-> Weight[x[f][i].op]]
        OBVIOUS
    <2>2. DOMAIN t = {}
        BY <1>3, <2>1
    <2>3. Total(t) = 0
        BY <2>2, TotalOfNone
    <2>4. Len(x[f]) = 0
        BY <1>3
    <2> QED BY <1>6, <2>1, <2>3, <2>4 DEF HeldMany
<1>8. HeldOnes(x) = 0
    <2>1. \A f \in Ones : HeldOne(x, f) = 0
        BY <1>3 DEF HeldOne, IsSome
    <2> QED BY <2>1 DEF HeldOnes, Ones
<1>9. HeldLists(x) = 0
    <2>1. Len(x.intervals) = 0 /\ Len(x.skipped) = 0
        BY <1>4
    <2> QED BY <1>6, <1>7, <2>1 DEF HeldLists, Counted
<1>10. HeldAudio(x) = 0
    <2>1. Cardinality(DOMAIN x.sources) = 0 /\ Cardinality(DOMAIN x.payloads) = 0
        BY <1>4, FS_EmptySet
    <2>2. PICK a \in Int, b \in Int : a = Weight["AUDIO_SOURCE"] + NODE /\ b = Weight["AUDIO_DATA"] + NODE
        BY WeightAssumption DEF FrontMatter
    <2>3. HeldAudio(x) = a * 0 + b * 0
        BY <2>1, <2>2 DEF HeldAudio
    <2> QED BY <2>3
<1>11. DecodedLedger(x) = 0
    <2>1. PICK t : t = [i \in DOMAIN x.chunks |-> ChunkBytes(x.chunks[i])]
        OBVIOUS
    <2>2. DOMAIN t = {}
        BY <1>4, <2>1
    <2>3. Total(t) = 0
        BY <2>2, TotalOfNone
    <2>4. Len(x.chunks) = 0
        BY <1>4
    <2> QED BY <1>6, <2>1, <2>3, <2>4 DEF DecodedLedger, DecodedBytes
<1>12. Ledger(x)
    BY <1>4, <1>8, <1>9, <1>10, <1>11 DEF Ledger, Held
<1>13. Typed(x)
    BY <1>4, <1>5 DEF Typed
<1> QED BY <1>1, <1>2, <1>12, <1>13 DEF Sound

\* The invariant holds of a read not begun.
LEMMA ReadInit == Init => ReadInv
<1> SUFFICES ASSUME Init PROVE ReadInv
    OBVIOUS
<1>1. file \in FILES /\ s = Opened(options) /\ ending = "none" /\ streamed = None /\ indexed = None
    BY DEF Init
<1>2. Sound(s)
    BY <1>1, OpenedSound
<1>3. s.at = 0 /\ s.tail = <<>> /\ s.tail_start = 0 /\ s.crc_ok = None /\ s.outcome = "reading"
    BY <1>1 DEF Opened
<1>4. Len(file) \in Nat
    BY <1>1, FileIs DEF IsSeq
<1>5. Digested(file, s)
    <2>1. NoFooter(file, 0)
        BY DEF NoFooter
    <2>2. RunOfFile(file, s)
        BY <1>3, EmptyIsSeq DEF RunOfFile
    <2> QED BY <1>3, <2>1, <2>2 DEF Digested
<1>6. s.at \in 0 .. Len(file) /\ Reading(s)
    BY <1>3, <1>4 DEF Reading
<1> QED BY <1>1, <1>2, <1>5, <1>6 DEF ReadInv, IsSome, clean

----------------------------------------------------------------------------
(***************************************************************************)
(* The verdict.                                                            *)
(***************************************************************************)

\* A record that is not a Footer keeps the run a run of the file.
LEMMA RunArrives ==
    ASSUME file \in FILES, NEW x, Sound(x), x.at \in 0 .. Len(file) - 1, RunOfFile(file, x),
           file[x.at + 1].op # "FOOTER"
    PROVE  RunOfFile(file, Arrived(x, file[x.at + 1]))
<1>1. PICK k, r : k \in Nat /\ k = x.at /\ r = file[k + 1]
    OBVIOUS
<1>2. PICK y : y = Arrived(x, r)
    OBVIOUS
<1>3. IsScan(x)
    BY DEF Sound
<1>4. /\ y.at = k + 1
      /\ r.op \in SummaryRecords =>
            y.tail = Append(x.tail, r) /\ y.tail_start = IF x.tail = <<>> THEN k + 1 ELSE x.tail_start
      /\ r.op \notin SummaryRecords \cup {"FOOTER"} => y.tail = <<>> /\ y.tail_start = 0
    BY <1>1, <1>2, <1>3, ArrivedIs
<1>5. CASE r.op \notin SummaryRecords
    <2>1. y.tail = <<>> /\ y.tail_start = 0
        BY <1>1, <1>4, <1>5
    <2> QED BY <1>1, <1>2, <2>1, EmptyIsSeq DEF RunOfFile
<1>6. CASE r.op \in SummaryRecords
    <2>1. PICK n \in Nat : n = Len(x.tail)
        BY DEF RunOfFile, IsSeq
    <2>2. /\ IsSeq(y.tail) /\ Len(y.tail) = n + 1
          /\ \A i \in 1 .. n : y.tail[i] = x.tail[i]
          /\ y.tail[n + 1] = r
        <3>1. IsSeq(x.tail) /\ y.tail = Append(x.tail, r)
            BY <1>4, <1>6 DEF RunOfFile
        <3> QED BY <2>1, <3>1, AppendIsSeq
    <2>3. y.tail # <<>>
        BY <2>2, EmptyIsSeq
    <2>4. CASE x.tail = <<>>
        <3>1. n = 0
            BY <2>1, <2>4, EmptyIsSeq
        <3>2. y.tail_start = k + 1
            BY <1>4, <1>6, <2>4
        <3>3. y.tail_start \in 1 .. y.at /\ y.tail_start + Len(y.tail) - 1 = y.at
            <4>1. y.at = k + 1 /\ y.tail_start = k + 1 /\ Len(y.tail) = 1
                BY <1>4, <2>2, <3>1, <3>2
            <4> QED BY <1>1, <4>1
        <3>4. ASSUME NEW i \in 1 .. Len(y.tail) PROVE y.tail[i] = file[y.tail_start + i - 1]
            BY <1>1, <2>2, <3>1, <3>2
        <3> QED BY <1>1, <1>2, <2>2, <2>3, <3>3, <3>4 DEF RunOfFile
    <2>5. CASE x.tail # <<>>
        <3>1. PICK b \in 1 .. k : b = x.tail_start
            BY <1>1, <2>5 DEF RunOfFile
        <3>2. b + n - 1 = k /\ \A i \in 1 .. n : x.tail[i] = file[b + i - 1]
            BY <1>1, <2>1, <2>5, <3>1 DEF RunOfFile
        <3>3. y.tail_start = b
            BY <1>4, <1>6, <2>5, <3>1
        <3>4. y.tail_start \in 1 .. y.at /\ y.tail_start + Len(y.tail) - 1 = y.at
            <4>1. y.at = k + 1 /\ Len(y.tail) = n + 1
                BY <1>4, <2>2
            <4>2. b \in 1 .. k + 1 /\ b + (n + 1) - 1 = k + 1
                BY ONLY <3>1, <3>2, k \in Nat, n \in Nat
            <4> QED BY <3>3, <4>1, <4>2
        <3>5. ASSUME NEW i \in 1 .. n + 1 PROVE y.tail[i] = file[b + i - 1]
            <4>1. CASE i \in 1 .. n
                BY <2>2, <3>2, <4>1
            <4>2. CASE i = n + 1
                <5>1. b + i - 1 = k + 1
                    BY <3>2, <4>2
                <5> QED BY <1>1, <2>2, <4>2, <5>1
            <4> QED BY <4>1, <4>2
        <3> QED BY <1>1, <1>2, <2>2, <2>3, <3>3, <3>4, <3>5 DEF RunOfFile
    <2> QED BY <2>4, <2>5
<1> QED BY <1>5, <1>6

\* The Footer that ends the file, met with the run it names just past.
LEMMA FooterDigests ==
    ASSUME file \in FILES, NEW x, Sound(x), Reading(x), x.at = Len(file) - 1, Len(file) >= 1, Digested(file, x),
           NEW r, r = file[Len(file)], r.op = "FOOTER", NoFooter(file, x.at),
           NEW y, y = OnFooter(Arrived(x, r), r), IsSome(y.crc_ok)
    PROVE  y.crc_ok = I!Verdict(file)
<1>1. PICK here : here = Arrived(x, r)
    OBVIOUS
<1>2. Sound(here) /\ Reading(here)
    BY <1>1, ArrivedSound
<1>3. IsScan(x) /\ IsSeq(file)
    BY FileIs DEF Sound
<1>4. /\ Only(x, here, {"at", "state_seen", "tail", "tail_start"})
      /\ here.at = x.at + 1 /\ here.tail = x.tail /\ here.tail_start = x.tail_start
    BY <1>1, <1>3, ArrivedIs
<1>5. here.crc_ok = x.crc_ok /\ x.crc_ok = None /\ RunOfFile(file, x)
    BY <1>4 DEF Only, Fields, Digested
<1>6. y.crc_ok = IF /\ r.summary_start # 0 /\ r.crc # Digest(<<>>)
                    /\ here.tail_start = r.summary_start /\ here.tail_start + Len(here.tail) = here.at
                 THEN Some(Digest(here.tail) = r.crc) ELSE here.crc_ok
    <2>1. PICK z : z = OnFooter(here, r)
        OBVIOUS
    <2>2. z.crc_ok = IF /\ r.summary_start # 0 /\ r.crc # Digest(<<>>)
                        /\ here.tail_start = r.summary_start /\ here.tail_start + Len(here.tail) = here.at
                     THEN Some(Digest(here.tail) = r.crc) ELSE here.crc_ok
        BY <1>2, <2>1, FooterIs
    <2>3. z = y
        BY <1>1, <2>1
    <2> QED BY <2>2, <2>3
<1>7. /\ r.summary_start # 0 /\ r.crc # Digest(<<>>)
      /\ x.tail_start = r.summary_start
      /\ y.crc_ok = Some(Digest(x.tail) = r.crc)
    BY <1>4, <1>5, <1>6 DEF IsSome
<1>8. PICK n \in Nat, m \in Nat : n = Len(file) - 1 /\ m = Len(x.tail)
    <2>1. Len(file) \in Nat /\ Len(x.tail) \in Nat
        BY <1>3, <1>5 DEF RunOfFile, IsSeq
    <2>2. Len(file) - 1 \in Nat
        BY ONLY <2>1, Len(file) >= 1
    <2>3. PICK n, m : n = Len(file) - 1 /\ m = Len(x.tail)
        OBVIOUS
    <2> QED BY <2>1, <2>2, <2>3
<1>9. PICK b \in 1 .. n : b = r.summary_start /\ b + m - 1 = n /\ \A i \in 1 .. m : x.tail[i] = file[b + i - 1]
    BY <1>5, <1>7, <1>8 DEF RunOfFile
<1>10. /\ IsSeq(SubSeq(file, b, n)) /\ Len(SubSeq(file, b, n)) = n - b + 1
       /\ \A i \in 1 .. n - b + 1 : SubSeq(file, b, n)[i] = file[b + i - 1]
    <2>1. b \in 1 .. Len(file) + 1 /\ n \in b - 1 .. Len(file)
        BY <1>8
    <2> QED BY <1>3, <2>1, SliceIsSeq
<1>11. SubSeq(file, b, n) = x.tail
    <2>1. m = n - b + 1 /\ IsSeq(x.tail)
        BY <1>5, <1>9 DEF RunOfFile
    <2>2. PICK z, t : z = SubSeq(file, b, n) /\ t = x.tail
        OBVIOUS
    <2>3. IsSeq(z) /\ IsSeq(t) /\ Len(z) = m /\ Len(t) = m
        BY <1>8, <1>10, <2>1, <2>2
    <2>4. \A i \in 1 .. m : z[i] = t[i]
        BY <1>9, <1>10, <2>1, <2>2
    <2>5. z = t
        BY <2>3, <2>4, SameSeq
    <2> QED BY <2>2, <2>5
<1>12. Last(file) = r
    BY DEF Last
<1>13. I!SummaryOf(file) = x.tail
    BY <1>7, <1>8, <1>9, <1>11, <1>12 DEF I!SummaryOf, I!Last, Last
<1> QED BY <1>7, <1>12, <1>13 DEF I!Verdict, I!Digest, Digest, I!Some, Some, I!Last, Last

\* One turn of the loop keeps the run a run of the file, and the verdict the file's own.
LEMMA TurnDigests ==
    ASSUME file \in FILES, NEW x, Sound(x), Reading(x), x.at \in 0 .. Len(file) - 1, Digested(file, x),
           NEW y, y = OnRecord(x, file[x.at + 1]), Reading(y)
    PROVE  y.at = x.at + 1 /\ Digested(file, y)
<1>1. PICK k, r : k \in Nat /\ k = x.at /\ r = file[k + 1] /\ k + 1 \in 1 .. Len(file)
    OBVIOUS
<1>2. r.op = "CHUNK" => Len(r.rows) \in Nat
    BY <1>1, FileIs
<1>3. PICK here : here = Arrived(x, r)
    OBVIOUS
<1>4. y = Handled(here, r) /\ Sound(here) /\ Reading(here)
    BY <1>1, <1>2, <1>3, TurnIs, ArrivedSound
<1>5. Only(x, here, {"at", "state_seen", "tail", "tail_start"}) /\ here.at = k + 1
    BY <1>1, <1>3, ArrivedIs DEF Sound
<1>6. here.crc_ok = x.crc_ok
    BY <1>5 DEF Only, Fields
<1>7. CASE r.op # "FOOTER"
    <2>1. \A f \in Steady : y[f] = here[f]
        BY <1>2, <1>4, <1>7, HandledHandles DEF Handles
    <2>2. y.at = k + 1 /\ y.crc_ok = x.crc_ok /\ y.tail = here.tail /\ y.tail_start = here.tail_start
        BY <1>5, <1>6, <2>1 DEF Steady
    <2>3. NoFooter(file, k + 1) <=> NoFooter(file, k)
        BY <1>1, <1>7 DEF NoFooter
    <2>4. ASSUME NoFooter(file, k) PROVE y.crc_ok = None /\ RunOfFile(file, y)
        <3>1. RunOfFile(file, x) /\ x.crc_ok = None
            BY <1>1, <2>4 DEF Digested
        <3>2. RunOfFile(file, here)
            BY <1>1, <1>3, <1>7, <3>1, RunArrives
        <3> QED BY <1>5, <2>2, <3>1, <3>2 DEF RunOfFile
    <2>5. ASSUME FooterEnds(file) PROVE NoFooter(file, k)
        <3>1. IsSeq(file)
            BY FileIs
        <3>2. \A i \in 1 .. k : i \in DOMAIN file /\ i # Len(file)
            BY <1>1, <3>1 DEF IsSeq
        <3> QED BY <2>5, <3>2 DEF FooterEnds, NoFooter
    <2> QED BY <1>1, <2>2, <2>3, <2>4, <2>5 DEF Digested
<1>8. CASE r.op = "FOOTER"
    <2>1. y = OnFooter(here, r)
        BY <1>4, <1>8 DEF Handled
    <2>2. \A f \in Steady \ {"saw_footer", "crc_ok"} : y[f] = here[f]
        <3>1. PICK z : z = OnFooter(here, r)
            OBVIOUS
        <3>2. \A f \in Steady \ {"saw_footer", "crc_ok"} : z[f] = here[f]
            BY <1>4, <3>1, FooterIs
        <3> QED BY <2>1, <3>1, <3>2
    <2>3. y.at = k + 1
        BY <1>5, <2>2 DEF Steady
    <2>4. ~NoFooter(file, k + 1)
        BY <1>1, <1>8 DEF NoFooter
    <2>5. ASSUME FooterEnds(file) PROVE k + 1 = Len(file) /\ (IsSome(y.crc_ok) => y.crc_ok = I!Verdict(file))
        <3>1. IsSeq(file)
            BY FileIs
        <3>2. k + 1 = Len(file)
            BY <1>1, <1>8, <2>5, <3>1 DEF IsSeq, FooterEnds
        <3>3. \A i \in 1 .. k : i \in DOMAIN file /\ i # Len(file)
            BY <1>1, <3>1 DEF IsSeq
        <3>4. NoFooter(file, k)
            BY <2>5, <3>3 DEF FooterEnds, NoFooter
        <3>5. x.at = Len(file) - 1 /\ Len(file) >= 1 /\ r = file[Len(file)] /\ NoFooter(file, x.at)
            BY <1>1, <3>1, <3>2, <3>4 DEF IsSeq
        <3>6. IsSome(y.crc_ok) => y.crc_ok = I!Verdict(file)
            BY <1>3, <1>8, <2>1, <3>5, FooterDigests
        <3> QED BY <3>2, <3>6
    <2> QED BY <1>1, <2>3, <2>4, <2>5 DEF Digested
<1> QED BY <1>7, <1>8

\* The answer the streamed reader gives, when it gives one.
LEMMA FinishIs ==
    ASSUME NEW x, NEW clean_, IsSome(Finish(x, clean_))
    PROVE  /\ x.outcome # "refused"
           /\ Finish(x, clean_)[1].retained = Settled(x)
           /\ Finish(x, clean_)[1].crc_ok = x.crc_ok
<1>1. PICK chunks, truncated : x.outcome # "refused" /\ Finish(x, clean_) = Some(SceneOf(x, chunks, truncated))
    BY DEF Finish, IsSome, None
<1> QED BY <1>1 DEF SceneOf, Some

\* The answer the indexed reader gives carries the verdict over the summary it found.
LEMMA OpenIs ==
    ASSUME NEW bytes, NEW clean_, NEW o, IsSome(I!OpenIndexed(bytes, clean_, o))
    PROVE  I!OpenIndexed(bytes, clean_, o)[1].crc_ok = I!Verdict(bytes)
<1>1. I!OpenIndexed(bytes, clean_, o) = I!Some(I!SceneFrom(I!WalkFront(bytes, o), bytes))
    BY DEF I!OpenIndexed, IsSome, None, I!None
<1> QED BY <1>1 DEF I!SceneFrom, I!Some

----------------------------------------------------------------------------
(***************************************************************************)
(* The steps, and the theorems.                                            *)
(***************************************************************************)

\* A record read keeps the invariant.
LEMMA ReadStep ==
    ASSUME ReadInv, ReadRecord
    PROVE  ReadInv'
<1>1. Reads /\ Reading(s) /\ s.at < Len(file) /\ s' = OnRecord(s, file[s.at + 1])
      /\ file' = file /\ ending' = ending /\ streamed' = streamed /\ indexed' = indexed
    BY DEF ReadRecord
<1>2. file \in FILES /\ Sound(s) /\ s.at \in 0 .. Len(file) /\ Digested(file, s) /\ streamed = None /\ indexed = None
    BY <1>1 DEF ReadInv
<1>3. PICK x, y, f : x = s /\ y = OnRecord(s, file[s.at + 1]) /\ f = file
    OBVIOUS
<1>4. Sound(x) /\ Reading(x) /\ x.at \in 0 .. Len(file) - 1 /\ Digested(file, x) /\ Len(file) \in Nat
    <2>1. s.at \in Int /\ s.at < Len(file)
        BY <1>1, <1>2
    <2>2. Len(file) \in Nat
        BY <1>2, FileIs DEF IsSeq
    <2> QED BY <1>1, <1>2, <1>3, <2>1, <2>2
<1>5. file[x.at + 1].op = "CHUNK" => Len(file[x.at + 1].rows) \in Nat
    <2>1. x.at + 1 \in 1 .. Len(file)
        BY <1>4
    <2> QED BY <1>2, <2>1, FileIs
<1>6. Sound(y) /\ (~Reading(y) => y.outcome = "refused")
    <2>1. PICK r : r = file[x.at + 1]
        OBVIOUS
    <2>2. y = OnRecord(x, r) /\ (r.op = "CHUNK" => Len(r.rows) \in Nat)
        BY <1>3, <1>5, <2>1
    <2> QED BY <1>4, <2>2, TurnIs
<1>7. Reading(y) => y.at = x.at + 1 /\ Digested(file, y)
    BY <1>2, <1>3, <1>4, TurnDigests
<1>8. Reading(y) => y.at \in 0 .. Len(f) /\ Digested(f, y)
    BY <1>3, <1>4, <1>7
<1>9. s' = y /\ file' = f /\ f \in FILES
    BY <1>1, <1>2, <1>3
<1>10. streamed' = None /\ indexed' = None /\ ending' = "none"
    BY <1>1, <1>2 DEF Reads
<1> QED BY <1>6, <1>8, <1>9, <1>10 DEF ReadInv, Reads, IsSome, clean

\* The end of the bytes, with the record the reader ends in.
LEMMA DeliverStep ==
    ASSUME ReadInv, NEW arrived, NEW end \in {"whole", "cut"}, Deliver(arrived, end),
           NEW x, s' = x, Sound(x), Reads,
           Reading(x) => x.at \in 0 .. Len(file) /\ Digested(file, x),
           end = "whole" => arrived = file /\ x = s
    PROVE  ReadInv'
<1>1. /\ ending' = end
      /\ streamed' = Finish(s', end = "whole")
      /\ indexed' = I!OpenIndexed(arrived, end = "whole", options)
      /\ file' = file
    BY DEF Deliver
<1>2. PICK f, o : f = file /\ o = options
    OBVIOUS
<1>3. file' = f /\ f \in FILES
    BY <1>1, <1>2 DEF ReadInv
<1>4. PICK a, b : a = Finish(x, end = "whole") /\ b = I!OpenIndexed(arrived, end = "whole", o)
    OBVIOUS
<1>5. streamed' = a /\ indexed' = b
    BY <1>1, <1>2, <1>4
<1>6. IsSome(a) => x.outcome # "refused" /\ a[1].retained = Settled(x) /\ a[1].crc_ok = x.crc_ok
    BY <1>4, FinishIs
<1>7. end = "whole" /\ IsSome(b) => b[1].crc_ok = I!Verdict(f)
    BY <1>2, <1>4, OpenIs
<1>8. end = "whole" /\ IsSome(a) => Reading(x)
    <2>1. end = "whole" => (~Reading(x) => x.outcome = "refused")
        BY DEF ReadInv
    <2> QED BY <1>6, <2>1
<1>9. Reading(x) => x.at \in 0 .. Len(f) /\ Digested(f, x)
    BY <1>2
<1>10. ending' # "none" /\ (ending' = "whole" => end = "whole")
    BY <1>1
<1> QED BY <1>3, <1>5, <1>6, <1>7, <1>8, <1>9, <1>10 DEF ReadInv, Reads, clean

\* A record cut short ends the read, the accounts as they were.
LEMMA PartialIs ==
    ASSUME NEW x, Sound(x), Reading(x), NEW r, NEW body
    PROVE  Sound(OnPartial(x, r, body)) /\ ~Reading(OnPartial(x, r, body))
<1>1. PICK y : y = OnPartial(x, r, body)
    OBVIOUS
<1>2. y = Refused(x) \/ y = Stopped(x)
    BY <1>1 DEF OnPartial
<1>3. IsScan(x)
    BY DEF Sound
<1>4. CASE y = Refused(x)
    BY <1>1, <1>3, <1>4, Gives DEF Sound, Reading
<1>5. CASE y = Stopped(x)
    <2>1. Only(x, y, {"outcome"}) /\ y.outcome = "cut"
        BY <1>3, <1>5 DEF Stopped, Only, IsScan, Fields
    <2>2. Only(x, y, Unledgered)
        BY <2>1 DEF Only, Unledgered
    <2> QED BY <1>1, <2>1, <2>2, SoundStays, ReadingIsNot DEF Reading
<1> QED BY <1>2, <1>4, <1>5

\* Every step keeps the invariant.
LEMMA ReadInductive == ReadInv /\ [Next]_vars => ReadInv'
<1> SUFFICES ASSUME ReadInv, [Next]_vars PROVE ReadInv'
    OBVIOUS
<1>1. CASE ReadRecord
    BY <1>1, ReadStep
<1>2. PICK x : x = s
    OBVIOUS
<1>3. Sound(x) /\ (Reading(x) => x.at \in 0 .. Len(file) /\ Digested(file, x))
    BY <1>2 DEF ReadInv
<1>4. CASE EndOfFile
    <2>1. Reads /\ s' = x /\ Deliver(file, "whole")
        BY <1>2, <1>4 DEF EndOfFile
    <2>2. PICK a : a = file
        OBVIOUS
    <2> QED BY <1>2, <1>3, <2>1, <2>2, DeliverStep
<1>5. CASE Abandon
    <2>1. Reads /\ s' = x /\ Deliver(file, "whole")
        BY <1>2, <1>5 DEF Abandon
    <2> QED BY <1>2, <1>3, <2>1, DeliverStep
<1>6. CASE CutBetween
    <2>1. PICK a : a = SubSeq(file, 1, s.at)
        OBVIOUS
    <2>2. Reads /\ s' = x /\ Deliver(a, "cut")
        BY <1>2, <1>6, <2>1 DEF CutBetween
    <2> QED BY <1>3, <2>2, DeliverStep
<1>7. CASE CutInside
    <2>1. PICK a : a = SubSeq(file, 1, s.at)
        OBVIOUS
    <2>2. Reads /\ Reading(s) /\ Deliver(a, "cut") /\ \E body \in BOOLEAN : s' = OnPartial(s, file[s.at + 1], body)
        BY <1>7, <2>1 DEF CutInside
    <2>3. PICK body \in BOOLEAN : s' = OnPartial(s, file[s.at + 1], body)
        BY <2>2
    <2>4. PICK y, r : y = OnPartial(x, r, body) /\ r = file[s.at + 1]
        OBVIOUS
    <2>5. s' = y
        BY <1>2, <2>3, <2>4
    <2>6. Sound(y) /\ ~Reading(y)
        BY <1>2, <1>3, <2>2, <2>4, PartialIs
    <2> QED BY <2>2, <2>5, <2>6, DeliverStep
<1>8. CASE UNCHANGED vars
    <2>1. PICK f, st, ix, en : f = file /\ st = streamed /\ ix = indexed /\ en = ending
        OBVIOUS
    <2> QED BY <1>8 DEF vars, ReadInv, Reads, clean
<1> QED BY <1>1, <1>4, <1>5, <1>6, <1>7, <1>8 DEF Next

\* In every reachable state the accounts of the streamed reader are exactly what it keeps, and the run of
\* summary records it digests is a run of the file: the loop of read_from_with_limits (stream_reader.rs)
\* keeps both.
THEOREM ReadCorrect == Spec => []ReadInv
BY ReadInit, ReadInductive, PTL DEF Spec

\* The streamed reader has charged, when it answers, exactly what the scene it returns keeps: no record
\* handler (stream_reader.rs `push_streamed_retained_value`, `replace_streamed_retained_bytes`,
\* `add_streamed_retained_bytes`) charges without keeping or keeps without charging, whatever the file,
\* the order of its records and the ceilings.
THEOREM ChargesHold == Spec => []ChargedExactly
<1>1. ReadInv => ChargedExactly
    <2> SUFFICES ASSUME ReadInv PROVE ChargedExactly
        OBVIOUS
    <2>1. s.outcome # "refused" => s.retained = Held(s) /\ s.decoded = DecodedBytes(s.chunks) + 4 * Slots(Len(s.chunks))
        BY DEF ReadInv, Sound, Ledger, DecodedLedger
    <2>2. IsSome(streamed) => streamed[1].retained = Settled(s) /\ s.retained = Held(s)
        BY <2>1 DEF ReadInv
    <2>3. IsSome(streamed) => streamed[1].retained = Delivered(s)
        BY <2>2 DEF Settled, Delivered
    <2> QED BY <2>1, <2>3, ReadingIsNot DEF ChargedExactly
<1> QED BY <1>1, ReadCorrect, PTL

\* Where the Footer is the last record, a summary verdict of the streamed reader, made from the run of
\* summary records it has just read, is the verdict of the indexed reader, made from the bytes the Footer
\* points at.
THEOREM VerdictsHold == Spec => []VerdictsAgree
<1>1. ReadInv => VerdictsAgree
    <2> SUFFICES ASSUME ReadInv, clean, FooterLast, IsSome(streamed), IsSome(indexed), IsSome(streamed[1].crc_ok)
                 PROVE  streamed[1].crc_ok = indexed[1].crc_ok
        BY DEF VerdictsAgree
    <2>1. Reading(s) /\ streamed[1].crc_ok = s.crc_ok /\ indexed[1].crc_ok = I!Verdict(file) /\ Digested(file, s)
        BY DEF ReadInv
    <2>2. FooterEnds(file)
        BY DEF FooterEnds, FooterLast
    <2> QED BY <2>1, <2>2 DEF Digested, IsSome
<1> QED BY <1>1, ReadCorrect, PTL

----------------------------------------------------------------------------
(***************************************************************************)
(* Poses sampled.  The tracks the indexed reader samples one by one are    *)
(* the Object Tracks its walk of the front matter filed, each under its    *)
(* object; reading the layer whole fetches the same records, in the        *)
(* order of their positions; and halving a track ends at the sample        *)
(* before the time wherever it starts from.                                *)
(***************************************************************************)

\* Times that increase from one to the next increase from any to any later.
LEMMA Rising ==
    ASSUME NEW times \in Seq(Int), Increasing(times), NEW i \in DOMAIN times, NEW j \in DOMAIN times, i < j
    PROVE  times[i] < times[j]
<1>1. PICK n \in Nat : n = Len(times) /\ DOMAIN times = 1 .. n
    OBVIOUS
<1>2. PICK P : P = {k \in 0 .. n : i < k => times[i] < times[k]}
    OBVIOUS
<1>3. 0 \in P
    BY <1>1, <1>2
<1>4. ASSUME NEW k \in 1 .. n, k - 1 \in P PROVE k \in P
    <2> SUFFICES ASSUME i < k PROVE times[i] < times[k]
        BY <1>2
    <2>1. k \in 2 .. n /\ k - 1 \in 1 .. n /\ (i = k - 1 \/ i < k - 1)
        BY <1>1
    <2>2. times[k - 1] < times[k]
        BY <1>1, <2>1 DEF Increasing
    <2>3. times[i] = times[k - 1] \/ times[i] < times[k - 1]
        BY <1>2, <1>4, <2>1
    <2>4. times[i] \in Int /\ times[k - 1] \in Int /\ times[k] \in Int
        BY <1>1, <2>1
    <2> QED BY <2>2, <2>3, <2>4
<1>5. 0 .. n \subseteq P
    BY ONLY <1>3, <1>4, n \in Nat, Ascend
<1> QED BY <1>1, <1>2, <1>5

\* The sample before t is the one whose successor is after t.
SampleBefore(times, t, b) ==
    /\ b \in DOMAIN times /\ b + 1 \in DOMAIN times
    /\ \A i \in DOMAIN times : times[i] <= t <=> i <= b

\* Two positions of times, the first before the second.
Windows(times) == {p \in (DOMAIN times) \X (DOMAIN times) : p[1] < p[2]}

\* What the indexed reader halves its windows by, as a function of the window.
Halving(times, t, h) ==
    h = [w \in Windows(times) |->
            LET mid == w[1] + ((w[2] - w[1]) \div 2)
            IN  IF w[2] - w[1] <= 1 THEN w
                ELSE IF times[mid] <= t THEN h[<<mid, w[2]>>] ELSE h[<<w[1], mid>>]]

\* Halving from any window ends: at the sample before t, or at the end nearer to it.
LEMMA HalvingExists ==
    ASSUME NEW times \in Seq(Int), NEW t \in Int, NEW b, SampleBefore(times, t, b)
    PROVE  \E h : Halving(times, t, h)
<1>1. PICK n \in Nat : n = Len(times) /\ DOMAIN times = 1 .. n
    OBVIOUS
<1>2. b \in 1 .. n
    BY <1>1 DEF SampleBefore
<1>3. PICK W : W = Windows(times)
    OBVIOUS
<1>4. ASSUME NEW w \in W PROVE w = <<w[1], w[2]>> /\ w[1] \in 1 .. n /\ w[2] \in 1 .. n /\ w[1] < w[2]
    <2>1. w \in (1 .. n) \X (1 .. n) /\ w[1] < w[2]
        BY <1>1, <1>3 DEF Windows
    <2> QED BY ONLY <2>1
<1>5. PICK at : at = [w \in W |-> IF b >= w[2] THEN w[2] - 1 ELSE IF b < w[1] THEN w[1] ELSE b]
    OBVIOUS
<1>6. PICK h : h = [w \in W |-> <<at[w], at[w] + 1>>]
    OBVIOUS
<1>7. ASSUME NEW w \in W
      PROVE  h[w] = LET mid == w[1] + ((w[2] - w[1]) \div 2)
                    IN  IF w[2] - w[1] <= 1 THEN w
                        ELSE IF times[mid] <= t THEN h[<<mid, w[2]>>] ELSE h[<<w[1], mid>>]
    <2>1. PICK x \in 1 .. n, y \in 1 .. n : w = <<x, y>> /\ x < y /\ x = w[1] /\ y = w[2]
        BY <1>4
    <2>2. CASE y - x <= 1
        <3>1. y = x + 1
            BY <2>1, <2>2
        <3>2. at[w] = x
            BY <1>2, <1>5, <2>1, <3>1
        <3> QED BY <1>6, <2>1, <2>2, <3>1, <3>2
    <2>3. CASE ~(y - x <= 1)
        <3>1. PICK mid \in 1 .. n : mid = x + ((y - x) \div 2) /\ x < mid /\ mid < y
            BY <2>1, <2>3
        <3>2. <<mid, y>> \in W /\ <<x, mid>> \in W
            BY <1>1, <1>3, <2>1, <3>1 DEF Windows
        <3>3. PICK u, v : u = <<mid, y>> /\ v = <<x, mid>> /\ u \in W /\ v \in W /\ u[1] = mid /\ u[2] = y /\ v[1] = x /\ v[2] = mid
            BY <3>2
        <3>4. times[mid] <= t <=> mid <= b
            BY <1>1 DEF SampleBefore
        <3>5. mid <= b => at[w] = at[u]
            BY <1>2, <1>5, <2>1, <3>1, <3>3
        <3>6. ~(mid <= b) => at[w] = at[v]
            BY <1>2, <1>5, <2>1, <3>1, <3>3
        <3>7. IF times[mid] <= t THEN h[w] = h[u] ELSE h[w] = h[v]
            BY <1>6, <3>3, <3>4, <3>5, <3>6
        <3> QED BY <2>1, <2>3, <3>1, <3>3, <3>7
    <2> QED BY <2>2, <2>3
<1>8. h = [w \in W |-> h[w]]
    BY <1>6
<1>9. Halving(times, t, h)
    BY ONLY <1>3, <1>7, <1>8 DEF Halving
<1> QED BY <1>9

\* A window with the sample before t in it and a later one narrows to that sample and the next.
LEMMA HalvingEnds ==
    ASSUME NEW times \in Seq(Int), NEW t \in Int, NEW b, SampleBefore(times, t, b),
           NEW h, Halving(times, t, h)
    PROVE  h[<<1, Len(times)>>] = <<b, b + 1>>
<1>1. PICK n \in Nat : n = Len(times) /\ DOMAIN times = 1 .. n
    OBVIOUS
<1>2. b \in 1 .. n /\ b + 1 \in 1 .. n
    BY <1>1 DEF SampleBefore
<1>3. PICK P : P = {d \in 0 .. n : \A x, y \in 1 .. n : x <= b /\ b < y /\ y - x <= d => h[<<x, y>>] = <<b, b + 1>>}
    OBVIOUS
<1>4. 0 \in P
    BY <1>2, <1>3
<1>5. ASSUME NEW d \in 1 .. n, d - 1 \in P PROVE d \in P
    <2> SUFFICES ASSUME NEW x \in 1 .. n, NEW y \in 1 .. n, x <= b, b < y, y - x <= d
                 PROVE  h[<<x, y>>] = <<b, b + 1>>
        BY <1>3
    <2>1. PICK w : w = <<x, y>>
        OBVIOUS
    <2>2. w[1] = x /\ w[2] = y
        BY ONLY <2>1
    <2>3. w \in Windows(times)
        BY <1>1, <1>2, <2>1, <2>2 DEF Windows
    <2>4. PICK mid : mid = x + ((y - x) \div 2)
        OBVIOUS
    <2>5. h[w] = IF y - x <= 1 THEN w ELSE IF times[mid] <= t THEN h[<<mid, y>>] ELSE h[<<x, mid>>]
        BY ONLY Halving(times, t, h), <2>3, <2>4, <2>2 DEF Halving
    <2>6. CASE y - x <= 1
        <3>1. x = b /\ y = b + 1
            BY <1>2, <2>6
        <3> QED BY <2>1, <2>5, <2>6, <3>1
    <2>7. CASE ~(y - x <= 1)
        <3>1. mid \in 1 .. n /\ x < mid /\ mid < y
            BY <2>4, <2>7
        <3>2. times[mid] <= t <=> mid <= b
            BY <1>1, <3>1 DEF SampleBefore
        <3>3. CASE mid <= b
            <4>1. h[<<mid, y>>] = <<b, b + 1>>
                BY <1>2, <1>3, <1>5, <3>1, <3>3
            <4> QED BY <2>1, <2>5, <2>7, <3>2, <3>3, <4>1
        <3>4. CASE ~(mid <= b)
            <4>1. mid - x <= d - 1 /\ b < mid
                BY <1>2, <3>1, <3>4
            <4>2. h[<<x, mid>>] = <<b, b + 1>>
                BY <1>3, <1>5, <3>1, <4>1
            <4> QED BY <2>1, <2>5, <2>7, <3>2, <3>4, <4>2
        <3> QED BY <3>3, <3>4
    <2> QED BY <2>6, <2>7
<1>6. 0 .. n \subseteq P
    BY ONLY <1>4, <1>5, n \in Nat, Ascend
<1>7. n \in P /\ 1 \in 1 .. n /\ n \in 1 .. n /\ 1 <= b /\ b < n /\ n - 1 <= n
    BY <1>1, <1>2, <1>6
<1> QED BY <1>1, <1>3, <1>7

\* The bracket the indexed reader halves its way to begins with the sample before t.
LEMMA BracketIs ==
    ASSUME NEW times \in Seq(Int), NEW t \in Int, NEW b, SampleBefore(times, t, b)
    PROVE  I!Bracket(times, t)[1] = b
<1>1. PICK h : h = CHOOSE g : Halving(times, t, g)
    OBVIOUS
<1>2. Halving(times, t, h)
    BY <1>1, HalvingExists
<1>3. I!Bracket(times, t) = h[<<1, Len(times)>>]
    BY <1>1 DEF I!Bracket, Halving, Windows
<1>4. h[<<1, Len(times)>>] = <<b, b + 1>>
    BY <1>2, HalvingEnds
<1> QED BY <1>3, <1>4

\* The elements of S below x.
Below(S, x) == {y \in S : y < x}

\* The cardinality of the indexed reader's module is the one the facts about finite sets are of.
LEMMA CardinalityIs ==
    ASSUME NEW S
    PROVE  I!Cardinality(S) = Cardinality(S)
BY DEF I!Cardinality, Cardinality

\* r lists the elements of S, the lesser before the greater.
Enumerates(r, S) ==
    /\ IsSeq(r)
    /\ \A i \in 1 .. Len(r) : r[i] \in S
    /\ \A x \in S : \E i \in 1 .. Len(r) : r[i] = x
    /\ \A i, j \in 1 .. Len(r) : i < j => r[i] < r[j]

\* r has, at each of c places, the element of S with as many below it as there are places before.
RanksBy(r, S, c) ==
    r = [i \in 1 .. c |-> r[i]] /\ \A i \in 1 .. c : r[i] \in S /\ Cardinality(Below(S, r[i])) = i - 1

\* Listing a set of numbers by how many of them are below each lists it in order.
LEMMA RanksEnumerate ==
    ASSUME NEW n \in Nat, NEW S, S \subseteq 0 .. n, NEW c, c = Cardinality(S)
    PROVE  /\ c \in Nat
           /\ \A i \in 1 .. c : \E x \in S : Cardinality(Below(S, x)) = i - 1
           /\ \A r : RanksBy(r, S, c) => Enumerates(r, S)
<1>1. IsFiniteSet(S)
    <2>1. IsFiniteSet(0 .. n)
        BY FS_Interval
    <2> QED BY <2>1, FS_Subset
<1>2. c \in Nat
    BY <1>1, FS_CardinalityType
<1>3. PICK rank : rank = [x \in S |-> Cardinality(Below(S, x))]
    OBVIOUS
<1>4. \A x \in S : rank[x] \in 0 .. c - 1
    <2> SUFFICES ASSUME NEW x \in S PROVE rank[x] \in 0 .. c - 1
        OBVIOUS
    <2>1. Below(S, x) \subseteq S \ {x}
        BY DEF Below
    <2>2. IsFiniteSet(S \ {x}) /\ Cardinality(S \ {x}) = c - 1
        BY <1>1, <1>2, FS_RemoveElement
    <2>3. IsFiniteSet(Below(S, x)) /\ Cardinality(Below(S, x)) <= c - 1
        BY <2>1, <2>2, FS_Subset
    <2>4. Cardinality(Below(S, x)) \in Nat
        BY <2>3, FS_CardinalityType
    <2> QED BY <1>2, <1>3, <2>3, <2>4
<1>5. \A x, y \in S : x < y => rank[x] < rank[y]
    <2> SUFFICES ASSUME NEW x \in S, NEW y \in S, x < y PROVE rank[x] < rank[y]
        OBVIOUS
    <2>1. IsFiniteSet(Below(S, y)) /\ x \in Below(S, y) /\ Below(S, x) \subseteq Below(S, y) \ {x}
        <3>1. Below(S, y) \subseteq S
            BY DEF Below
        <3>2. IsFiniteSet(Below(S, y))
            BY <1>1, <3>1, FS_Subset
        <3>3. x \in Int /\ y \in Int /\ S \subseteq Int
            OBVIOUS
        <3>4. \A z \in S : z < x => z < y /\ z # x
            BY <3>3
        <3>5. x \in Below(S, y) /\ Below(S, x) \subseteq Below(S, y) \ {x}
            BY <3>4 DEF Below
        <3> QED BY <3>2, <3>5
    <2>2. IsFiniteSet(Below(S, y) \ {x}) /\ Cardinality(Below(S, y) \ {x}) = Cardinality(Below(S, y)) - 1
        BY <2>1, FS_RemoveElement
    <2>3. Cardinality(Below(S, x)) <= Cardinality(Below(S, y) \ {x})
        BY <2>1, <2>2, FS_Subset
    <2>4. rank[x] \in Int /\ rank[y] \in Int
        BY <1>2, <1>4
    <2> QED BY <1>3, <2>2, <2>3, <2>4
<1>6. \A x, y \in S : rank[x] = rank[y] => x = y
    <2> SUFFICES ASSUME NEW x \in S, NEW y \in S, x # y PROVE rank[x] # rank[y]
        OBVIOUS
    <2>1. x \in Int /\ y \in Int /\ (x < y \/ y < x) /\ rank[x] \in Int /\ rank[y] \in Int
        BY <1>2, <1>4
    <2> QED BY <1>5, <2>1
<1>7. PICK up : up = [m \in 0 .. n + 1 |-> {y \in S : y < m}]
    OBVIOUS
<1>8. ASSUME NEW m \in 0 .. n + 1 PROVE up[m] \subseteq S /\ \A y \in S : y \in up[m] <=> y < m
    BY <1>7
<1>9. ASSUME NEW m \in 0 .. n + 1 PROVE \A i \in 1 .. Cardinality(up[m]) : \E x \in S : rank[x] = i - 1
    <2>1. PICK P : P = {k \in 0 .. n + 1 : \A i \in 1 .. Cardinality(up[k]) : \E x \in S : rank[x] = i - 1}
        OBVIOUS
    <2>2. 0 \in P
        <3>1. up[0] = {}
            <4>1. 0 \in 0 .. n + 1 /\ \A y \in S : ~(y < 0)
                OBVIOUS
            <4> QED BY <1>8, <4>1
        <3>2. Cardinality(up[0]) = 0
            BY <3>1, FS_EmptySet
        <3> QED BY <2>1, <3>2
    <2>3. ASSUME NEW k \in 1 .. n + 1, k - 1 \in P PROVE k \in P
        <3>1. k \in 0 .. n + 1 /\ k - 1 \in 0 .. n + 1
            OBVIOUS
        <3>2. \A y \in S : y < k <=> y < k - 1 \/ y = k - 1
            OBVIOUS
        <3>3. \A i \in 1 .. Cardinality(up[k - 1]) : \E x \in S : rank[x] = i - 1
            BY <2>1, <2>3
        <3>4. CASE k - 1 \notin S
            <4>1. up[k] = up[k - 1]
                BY <1>8, <3>1, <3>2, <3>4
            <4> QED BY <2>1, <3>1, <3>3, <4>1
        <3>5. CASE k - 1 \in S
            <4>1. PICK a, d : a = up[k - 1] /\ d = up[k]
                OBVIOUS
            <4>2. a \subseteq S /\ d = a \cup {k - 1} /\ k - 1 \notin a
                <5>1. ~(k - 1 < k - 1)
                    OBVIOUS
                <5> QED BY <1>8, <3>1, <3>2, <3>5, <4>1, <5>1
            <4>3. Below(S, k - 1) = a
                BY <1>8, <3>1, <4>1 DEF Below
            <4>4. IsFiniteSet(a)
                BY <1>1, <4>2, FS_Subset
            <4>5. PICK u \in Nat : u = Cardinality(a)
                BY <4>4, FS_CardinalityType
            <4>6. Cardinality(d) = u + 1
                BY <4>2, <4>4, <4>5, FS_AddElement
            <4>7. rank[k - 1] = u
                BY <1>3, <3>5, <4>3, <4>5
            <4>8. ASSUME NEW i \in 1 .. u + 1 PROVE \E x \in S : rank[x] = i - 1
                <5>1. i \in 1 .. u \/ i - 1 = u
                    OBVIOUS
                <5> QED BY <3>3, <3>5, <4>1, <4>5, <4>7, <5>1
            <4> QED BY <2>1, <3>1, <4>1, <4>6, <4>8
        <3> QED BY <3>4, <3>5
    <2>4. n + 1 \in Nat
        OBVIOUS
    <2>5. 0 .. n + 1 \subseteq P
        BY ONLY <2>2, <2>3, <2>4, Ascend
    <2> QED BY <2>1, <2>5
<1>10. up[n + 1] = S /\ n + 1 \in 0 .. n + 1
    <2>1. n + 1 \in 0 .. n + 1 /\ \A y \in S : y < n + 1
        OBVIOUS
    <2> QED BY <1>8, <2>1
<1>11. \A i \in 1 .. c : \E x \in S : rank[x] = i - 1
    BY <1>2, <1>9, <1>10
<1>12. ASSUME NEW r, RanksBy(r, S, c) PROVE Enumerates(r, S)
    <2>1. IsSeq(r) /\ Len(r) = c
        BY <1>2, <1>12 DEF RanksBy, IsSeq
    <2>2. \A i \in 1 .. c : r[i] \in S /\ rank[r[i]] = i - 1
        BY <1>3, <1>12 DEF RanksBy
    <2>3. ASSUME NEW x \in S PROVE \E i \in 1 .. c : r[i] = x
        <3>1. PICK i : i = rank[x] + 1
            OBVIOUS
        <3>2. i \in 1 .. c /\ rank[x] = i - 1
            BY <1>2, <1>4, <3>1
        <3> QED BY <1>6, <2>2, <3>2
    <2>4. ASSUME NEW i \in 1 .. c, NEW j \in 1 .. c, i < j PROVE r[i] < r[j]
        <3>1. r[i] \in S /\ r[j] \in S /\ rank[r[i]] = i - 1 /\ rank[r[j]] = j - 1 /\ i - 1 < j - 1 /\ i \in Int /\ j \in Int
            BY <1>2, <2>2, <2>4
        <3>2. r[j] < r[i] => rank[r[j]] < rank[r[i]]
            BY <1>5, <3>1
        <3>3. r[i] # r[j] /\ ~(r[j] < r[i])
            BY <3>1, <3>2
        <3>4. r[i] \in Int /\ r[j] \in Int
            <4>1. \A x \in S : x \in Int
                OBVIOUS
            <4> QED BY <3>1, <4>1
        <3> QED BY ONLY <3>3, <3>4
    <2> QED BY <2>1, <2>2, <2>3, <2>4 DEF Enumerates
<1>13. ASSUME NEW i \in 1 .. c PROVE \E x \in S : Cardinality(Below(S, x)) = i - 1
    BY <1>3, <1>11
<1> QED BY <1>2, <1>12, <1>13

\* One set is listed in order in one way: the listings agree place by place,
Heads(r, q) == Len(r) <= Len(q) /\ \A i \in 1 .. Len(r) : r[i] = q[i]

LEMMA EnumeratesBegins ==
    ASSUME NEW S, S \subseteq Nat, NEW r, Enumerates(r, S), NEW q, Enumerates(q, S)
    PROVE  Heads(r, q)
<1>1. PICK n \in Nat, m \in Nat : n = Len(r) /\ m = Len(q)
    BY DEF Enumerates, IsSeq
<1>2. PICK P : P = {k \in 0 .. n : k <= m /\ \A i \in 1 .. k : r[i] = q[i]}
    OBVIOUS
<1>3. 0 \in P
    BY <1>1, <1>2
<1>4. ASSUME NEW k \in 1 .. n, k - 1 \in P PROVE k \in P
    <2>1. k - 1 <= m /\ \A i \in 1 .. k - 1 : r[i] = q[i]
        BY <1>2, <1>4
    <2>2. r[k] \in S /\ \A i \in 1 .. n : i < k => r[i] < r[k]
        BY <1>1 DEF Enumerates
    <2>3. PICK j \in 1 .. m : q[j] = r[k]
        BY <1>1, <2>2 DEF Enumerates
    <2>4. ~(j <= k - 1)
        <3> SUFFICES ASSUME j <= k - 1 PROVE FALSE
            OBVIOUS
        <3>1. j \in 1 .. k - 1 /\ j \in 1 .. n /\ j < k
            OBVIOUS
        <3>2. r[j] = r[k] /\ r[j] < r[k]
            BY <2>1, <2>2, <2>3, <3>1
        <3>3. r[k] \in Nat
            BY <2>2
        <3> QED BY <3>2, <3>3
    <2>5. k \in 1 .. m /\ k <= j
        BY <2>4
    <2>6. q[k] \in S
        BY <1>1, <2>5 DEF Enumerates
    <2>7. PICK i \in 1 .. n : r[i] = q[k]
        BY <1>1, <2>6 DEF Enumerates
    <2>8. ~(i <= k - 1)
        <3> SUFFICES ASSUME i <= k - 1 PROVE FALSE
            OBVIOUS
        <3>1. i \in 1 .. k - 1 /\ i \in 1 .. m /\ i < k
            BY <2>5
        <3>2. q[i] = q[k] /\ q[i] < q[k]
            BY <1>1, <2>1, <2>5, <2>7, <3>1 DEF Enumerates
        <3>3. q[k] \in Nat
            BY <2>6
        <3> QED BY <3>2, <3>3
    <2>9. r[k] = r[i] \/ r[k] < r[i]
        <3>1. k = i \/ k < i
            BY <2>8
        <3> QED BY <1>1, <3>1 DEF Enumerates
    <2>10. q[k] = q[j] \/ q[k] < q[j]
        <3>1. k = j \/ k < j
            BY <2>5
        <3> QED BY <1>1, <2>5, <3>1 DEF Enumerates
    <2>11. r[k] \in Nat /\ q[k] \in Nat
        BY <2>2, <2>6
    <2>12. r[k] = q[k]
        BY <2>3, <2>7, <2>9, <2>10, <2>11
    <2>13. \A e \in 1 .. k : e = k \/ e \in 1 .. k - 1
        OBVIOUS
    <2> QED BY <1>2, <2>1, <2>5, <2>12, <2>13
<1>5. 0 .. n \subseteq P
    BY ONLY <1>3, <1>4, n \in Nat, Ascend
<1>6. n \in P
    BY <1>5
<1> QED BY <1>1, <1>2, <1>6 DEF Heads

\* and are as long.
LEMMA EnumeratesOnce ==
    ASSUME NEW S, S \subseteq Nat, NEW r, Enumerates(r, S), NEW q, Enumerates(q, S)
    PROVE  r = q
<1>1. Heads(r, q) /\ Heads(q, r)
    BY EnumeratesBegins
<1>2. IsSeq(r) /\ IsSeq(q)
    BY DEF Enumerates
<1>3. Len(r) \in Nat /\ Len(q) \in Nat
    BY <1>2 DEF IsSeq
<1>4. Len(r) = Len(q) /\ \A i \in 1 .. Len(r) : r[i] = q[i]
    BY <1>1, <1>3 DEF Heads
<1> QED BY <1>2, <1>4, SameSeq

\* What Ranked gives is a list with one place for each element.
LEMMA RankedTuple ==
    ASSUME NEW S, NEW c, Cardinality(S) = c, NEW r, r = Ranked(S)
    PROVE  r = [i \in 1 .. c |-> r[i]] /\ DOMAIN r = 1 .. c
BY DEF Ranked

LEMMA RangedTuple ==
    ASSUME NEW S, NEW c, I!Cardinality(S) = c, NEW q, q = I!Ranked(S)
    PROVE  q = [i \in 1 .. c |-> q[i]] /\ DOMAIN q = 1 .. c
BY DEF I!Ranked

\* Ranked lists a set of numbers in order, whichever of the two readers asks,
LEMMA RankedOrders ==
    ASSUME NEW n \in Nat, NEW S, S \subseteq 0 .. n
    PROVE  Enumerates(Ranked(S), S) /\ I!Ranked(S) = Ranked(S) /\ Len(Ranked(S)) = Cardinality(S)
<1>1. PICK c : c = Cardinality(S)
    OBVIOUS
<1>2. /\ c \in Nat
      /\ \A i \in 1 .. c : \E x \in S : Cardinality(Below(S, x)) = i - 1
      /\ \A r : RanksBy(r, S, c) => Enumerates(r, S)
    BY <1>1, RanksEnumerate
<1>3. I!Cardinality(S) = c
    BY <1>1, CardinalityIs
<1>4. PICK r, q : r = Ranked(S) /\ q = I!Ranked(S)
    OBVIOUS
<1>5. RanksBy(r, S, c)
    <2>1. r = [i \in 1 .. c |-> r[i]] /\ DOMAIN r = 1 .. c
        BY <1>1, <1>4, RankedTuple
    <2>2. ASSUME NEW i \in 1 .. c PROVE r[i] \in S /\ Cardinality(Below(S, r[i])) = i - 1
        <3>1. r[i] = CHOOSE x \in S : Cardinality({y \in S : y < x}) = i - 1
            BY <1>1, <1>4 DEF Ranked
        <3>2. PICK x \in S : Cardinality({y \in S : y < x}) = i - 1
            BY <1>2 DEF Below
        <3>3. PICK v : v = r[i]
            OBVIOUS
        <3>4. v = CHOOSE z \in S : Cardinality({y \in S : y < z}) = i - 1
            BY <3>1, <3>3
        <3>5. v \in S /\ Cardinality({y \in S : y < v}) = i - 1
            BY ONLY <3>2, <3>4, x \in S
        <3> QED BY <3>3, <3>5 DEF Below
    <2> QED BY ONLY <2>1, <2>2 DEF RanksBy
<1>6. RanksBy(q, S, c)
    <2>1. q = [i \in 1 .. c |-> q[i]] /\ DOMAIN q = 1 .. c
        BY <1>3, <1>4, RangedTuple
    <2>2. ASSUME NEW i \in 1 .. c PROVE q[i] \in S /\ Cardinality(Below(S, q[i])) = i - 1
        <3>1. q[i] = CHOOSE x \in S : I!Cardinality({y \in S : y < x}) = i - 1
            BY <1>3, <1>4 DEF I!Ranked
        <3>2. PICK x \in S : I!Cardinality({y \in S : y < x}) = i - 1
            BY <1>2, CardinalityIs DEF Below
        <3>3. PICK v : v = q[i]
            OBVIOUS
        <3>4. v = CHOOSE z \in S : I!Cardinality({y \in S : y < z}) = i - 1
            BY <3>1, <3>3
        <3>5. v \in S /\ I!Cardinality({y \in S : y < v}) = i - 1
            BY ONLY <3>2, <3>4, x \in S
        <3> QED BY <3>3, <3>5, CardinalityIs DEF Below
    <2> QED BY ONLY <2>1, <2>2 DEF RanksBy
<1>7. Enumerates(r, S) /\ Enumerates(q, S)
    BY <1>2, <1>5, <1>6
<1>8. r = q
    <2>1. S \subseteq Nat
        OBVIOUS
    <2> QED BY <1>7, <2>1, EnumeratesOnce
<1>9. Len(r) = c
    BY <1>2, <1>5 DEF RanksBy
<1> QED BY <1>1, <1>4, <1>7, <1>8, <1>9

\* and so a set of positions.
LEMMA RankedEnumerates ==
    ASSUME NEW n \in Nat, NEW S, S \subseteq 1 .. n
    PROVE  Enumerates(Ranked(S), S) /\ I!Ranked(S) = Ranked(S) /\ Len(Ranked(S)) = Cardinality(S)
<1>1. S \subseteq 0 .. n
    OBVIOUS
<1> QED BY <1>1, RankedOrders

\* Ranked lists every element of a set of positions, and nothing else.
LEMMA RankedIs ==
    ASSUME NEW n \in Nat, NEW S, S \subseteq 1 .. n
    PROVE  /\ \E c \in Nat : DOMAIN I!Ranked(S) = 1 .. c
           /\ \A i \in DOMAIN I!Ranked(S) : I!Ranked(S)[i] \in S
           /\ \A x \in S : \E i \in DOMAIN I!Ranked(S) : I!Ranked(S)[i] = x
<1>1. Enumerates(I!Ranked(S), S)
    BY RankedEnumerates
<1>2. PICK r : r = I!Ranked(S)
    OBVIOUS
<1>3. DOMAIN r = 1 .. Len(r)
    BY <1>1, <1>2 DEF Enumerates, IsSeq
<1> QED BY <1>1, <1>2, <1>3 DEF Enumerates, IsSeq

\* One turn of the indexed reader's walk over the front matter.
WalkTurn(f, o, x, i) ==
    IF i > o.records /\ x.refusal = "none" THEN I!TooLarge(x) ELSE I!OnFront(x, f[i], i, o.ceiling)

\* A walk of the first n records, as what has been found after each of them.
Walks(f, o, n, w) == w = [i \in 0 .. n |-> IF i = 0 THEN I!NothingFound ELSE WalkTurn(f, o, w[i - 1], i)]

\* A walk as long as wanted exists: it is built one turn at a time.
LEMMA WalksExist ==
    ASSUME NEW n \in Nat, NEW f, NEW o
    PROVE  \E w : Walks(f, o, n, w)
<1>1. PICK P : P = {m \in 0 .. n : \E w : Walks(f, o, m, w)}
    OBVIOUS
<1>2. 0 \in P
    <2>1. PICK w : w = [i \in 0 .. 0 |-> I!NothingFound]
        OBVIOUS
    <2>2. Walks(f, o, 0, w)
        BY <2>1 DEF Walks
    <2> QED BY <1>1, <2>2
<1>3. ASSUME NEW m \in 1 .. n, m - 1 \in P PROVE m \in P
    <2>1. PICK w : Walks(f, o, m - 1, w)
        BY <1>1, <1>3
    <2>2. PICK v : v = [i \in 0 .. m |-> IF i = m THEN WalkTurn(f, o, w[m - 1], m) ELSE w[i]]
        OBVIOUS
    <2>3. ASSUME NEW i \in 0 .. m PROVE v[i] = IF i = 0 THEN I!NothingFound ELSE WalkTurn(f, o, v[i - 1], i)
        <3>1. CASE i = m
            <4>1. i # 0 /\ i - 1 \in 0 .. m /\ i - 1 # m /\ m \in 0 .. m
                BY <3>1
            <4>2. v[m] = WalkTurn(f, o, w[m - 1], m) /\ v[i - 1] = w[i - 1]
                BY ONLY <2>2, <4>1
            <4> QED BY <3>1, <4>1, <4>2
        <3>2. CASE i # m
            <4>1. i \in 0 .. m - 1 /\ (i # 0 => i - 1 \in 0 .. m /\ i - 1 # m)
                BY <3>2
            <4>2. v[i] = w[i] /\ (i # 0 => v[i - 1] = w[i - 1])
                BY <2>2, <3>2, <4>1
            <4>3. w[i] = IF i = 0 THEN I!NothingFound ELSE WalkTurn(f, o, w[i - 1], i)
                BY <2>1, <4>1 DEF Walks
            <4> QED BY <4>2, <4>3
        <3> QED BY <3>1, <3>2
    <2>4. v = [i \in 0 .. m |-> v[i]]
        BY <2>2
    <2>5. Walks(f, o, m, v)
        BY ONLY <2>3, <2>4 DEF Walks
    <2>6. m \in 0 .. n
        OBVIOUS
    <2> QED BY <1>1, <2>5, <2>6
<1>4. 0 .. n \subseteq P
    BY ONLY <1>2, <1>3, n \in Nat, Ascend
<1>5. n \in P
    BY <1>4
<1> QED BY <1>1, <1>5

\* The front matter is a beginning of the file.
LEMMA FrontIs ==
    ASSUME NEW f, IsSeq(f)
    PROVE  I!FrontLength(f) \in 0 .. Len(f)
<1>1. PICK n \in Nat : n = Len(f) /\ DOMAIN f = 1 .. n
    BY DEF IsSeq
<1>2. PICK S : S = {i \in DOMAIN f : f[i].op = "CHUNK"}
    OBVIOUS
<1>3. I!FrontLength(f) = IF S = {} THEN n ELSE I!Min(S) - 1
    BY <1>1, <1>2 DEF I!FrontLength
<1>4. CASE S # {}
    <2>1. PICK k \in S : \A j \in S : k <= j
        BY <1>1, <1>2, <1>4, FirstPosition
    <2>2. I!Min(S) \in S
        BY <2>1 DEF I!Min
    <2> QED BY <1>1, <1>2, <1>3, <1>4, <2>2
<1> QED BY <1>1, <1>3, <1>4

\* The walk ends where a walk of the front matter ends.
LEMMA WalkRuns ==
    ASSUME NEW f, IsSeq(f), NEW o
    PROVE  \E n \in 0 .. Len(f) : \E w : n = I!FrontLength(f) /\ Walks(f, o, n, w) /\ I!WalkFront(f, o) = w[n]
<1>1. PICK n \in 0 .. Len(f) : n = I!FrontLength(f)
    BY FrontIs
<1>2. n \in Nat
    BY DEF IsSeq
<1>3. PICK w : w = CHOOSE v : Walks(f, o, n, v)
    OBVIOUS
<1>4. Walks(f, o, n, w)
    BY <1>2, <1>3, WalksExist
<1>5. I!WalkFront(f, o) = w[n]
    BY <1>1, <1>3 DEF I!WalkFront, Walks, WalkTurn
<1> QED BY <1>1, <1>4, <1>5

\* What the walk has filed of tracks are Object Tracks, each under its object.
TracksFiled(f, x) ==
    /\ "tracks" \in DOMAIN x
    /\ \A o \in DOMAIN x.tracks :
          /\ o # BACKGROUND /\ x.tracks[o] \in DOMAIN f
          /\ f[x.tracks[o]].op = "OBJECT_TRACK" /\ f[x.tracks[o]].object = o

\* The tracks found are the same in both.
TracksStay(x, y) == "tracks" \in DOMAIN y /\ y.tracks = x.tracks

\* A record that is no Object Track leaves the tracks found as they were.
LEMMA OthersStay ==
    ASSUME NEW x, "tracks" \in DOMAIN x, NEW r, NEW at, NEW c, r.op # "OBJECT_TRACK"
    PROVE  TracksStay(x, I!OnFront(x, r, at, c)) /\ TracksStay(x, I!TooLarge(x))
<1>1. TracksStay(x, x) /\ TracksStay(x, I!TooLarge(x)) /\ TracksStay(x, I!Malformed(x))
    BY DEF TracksStay, I!TooLarge, I!Malformed
<1>2. \A field, v : field # "tracks" => TracksStay(x, [x EXCEPT ![field] = v])
    BY DEF TracksStay
<1>3. \A field : field # "tracks" => TracksStay(x, I!Latest(x, field, r, c)) /\ TracksStay(x, I!OnlyOnce(x, field, r, c))
    BY <1>1, <1>2 DEF I!Latest, I!OnlyOnce
<1>4. \A field, key, value, parsed : field # "tracks" => TracksStay(x, I!MapRange(x, field, key, value, parsed, c))
    BY <1>1, <1>2 DEF I!MapRange
<1>5. \A field : field # "tracks" => TracksStay(x, I!PushRange(x, field, at, c))
    BY <1>1, <1>2 DEF I!PushRange
<1>6. PICK y : y = I!OnFront(x, r, at, c)
    OBVIOUS
<1>7. TracksStay(x, y)
    <2>1. CASE x.refusal # "none"
        BY <1>1, <1>6, <2>1 DEF I!OnFront, I!ProvenanceRecords
    <2>2. CASE x.refusal = "none"
        <3>1. CASE r.op = "HEADER"
            BY <1>3, <1>6, <2>2, <3>1 DEF I!OnFront, I!ProvenanceRecords, I!OnHeader
        <3>2. CASE r.op = "QUANTIZATION"
            BY <1>3, <1>6, <2>2, <3>2 DEF I!OnFront, I!ProvenanceRecords, I!OnQuantization
        <3>3. CASE r.op = "WINDOW_TABLE"
            BY <1>3, <1>6, <2>2, <3>3 DEF I!OnFront, I!ProvenanceRecords, I!OnWindowTable
        <3>4. CASE r.op = "AUDIO"
            BY <1>3, <1>6, <2>2, <3>4 DEF I!OnFront, I!ProvenanceRecords, I!OnAudio
        <3>5. CASE r.op = "AUDIO_SOURCE"
            BY <1>1, <1>4, <1>6, <2>2, <3>5 DEF I!OnFront, I!ProvenanceRecords, I!OnAudioSource
        <3>6. CASE r.op = "AUDIO_DATA"
            BY <1>1, <1>4, <1>6, <2>2, <3>6 DEF I!OnFront, I!ProvenanceRecords, I!OnAudioData
        <3>7. CASE r.op = "CAMERA"
            BY <1>2, <1>6, <2>2, <3>7 DEF I!OnFront, I!ProvenanceRecords
        <3>8. CASE r.op = "METADATA"
            BY <1>5, <1>6, <2>2, <3>8 DEF I!OnFront, I!ProvenanceRecords
        <3>9. CASE r.op = "ATTACHMENT"
            BY <1>5, <1>6, <2>2, <3>9 DEF I!OnFront, I!ProvenanceRecords
        <3>10. CASE r.op = "OBJECT_TABLE"
            BY <1>5, <1>6, <2>2, <3>10 DEF I!OnFront, I!ProvenanceRecords
        <3>11. CASE r.op \notin {"HEADER", "QUANTIZATION", "WINDOW_TABLE", "AUDIO", "AUDIO_SOURCE", "AUDIO_DATA",
                                "CAMERA", "METADATA", "ATTACHMENT", "OBJECT_TABLE"}
            BY <1>1, <1>5, <1>6, <2>2, <3>11 DEF I!OnFront, I!ProvenanceRecords
        <3> QED BY <3>1, <3>2, <3>3, <3>4, <3>5, <3>6, <3>7, <3>8, <3>9, <3>10, <3>11
    <2> QED BY <2>1, <2>2
<1> QED BY <1>1, <1>6, <1>7

\* One turn files nothing under an object but an Object Track of it.
LEMMA TrackTurn ==
    ASSUME NEW f, IsSeq(f), NEW o, NEW x, TracksFiled(f, x), NEW i \in 1 .. Len(f)
    PROVE  TracksFiled(f, WalkTurn(f, o, x, i))
<1>1. PICK y, r, c : y = WalkTurn(f, o, x, i) /\ r = f[i] /\ c = o.ceiling
    OBVIOUS
<1>2. i \in DOMAIN f
    BY DEF IsSeq
<1>3. "tracks" \in DOMAIN x
    BY DEF TracksFiled
<1>4. y = I!TooLarge(x) \/ y = I!OnFront(x, r, i, c)
    BY <1>1 DEF WalkTurn
<1>5. ASSUME TracksStay(x, y) PROVE TracksFiled(f, y)
    BY <1>5 DEF TracksFiled, TracksStay
<1>6. TracksStay(x, x) /\ TracksStay(x, I!TooLarge(x)) /\ TracksStay(x, I!Malformed(x))
    BY <1>3 DEF TracksStay, I!TooLarge, I!Malformed
<1>7. CASE r.op # "OBJECT_TRACK"
    <2>1. TracksStay(x, I!OnFront(x, r, i, c))
        BY <1>3, <1>7, OthersStay
    <2> QED BY <1>1, <1>4, <1>5, <1>6, <2>1
<1>8. CASE r.op = "OBJECT_TRACK"
    <2>1. \/ TracksStay(x, y)
          \/ r.object # BACKGROUND /\ y = [x EXCEPT !["tracks"] = I!Filed(@, r.object, i)]
        <3>1. y = x \/ y = I!TooLarge(x) \/ y = I!OnObjectTrack(x, r, i, c)
            BY <1>4, <1>8 DEF I!OnFront, I!ProvenanceRecords
        <3>2. CASE y = I!OnObjectTrack(x, r, i, c)
            BY <1>6, <3>2 DEF I!OnObjectTrack, I!MapRange, I!BACKGROUND, BACKGROUND
        <3> QED BY <1>6, <3>1, <3>2
    <2>2. CASE r.object # BACKGROUND /\ y = [x EXCEPT !["tracks"] = I!Filed(@, r.object, i)]
        <3>1. "tracks" \in DOMAIN y /\ y.tracks = I!Filed(x.tracks, r.object, i)
            BY <1>3, <2>2
        <3>2. PICK a, b : a = x.tracks /\ b = y.tracks
            OBVIOUS
        <3>3. DOMAIN b = DOMAIN a \cup {r.object} /\ \A k \in DOMAIN b : b[k] = IF k = r.object THEN i ELSE a[k]
            BY <3>1, <3>2 DEF I!Filed
        <3>4. \A k \in DOMAIN a : k # BACKGROUND /\ a[k] \in DOMAIN f /\ f[a[k]].op = "OBJECT_TRACK" /\ f[a[k]].object = k
            BY <3>2 DEF TracksFiled
        <3>5. \A k \in DOMAIN b : k # BACKGROUND /\ b[k] \in DOMAIN f /\ f[b[k]].op = "OBJECT_TRACK" /\ f[b[k]].object = k
            BY <1>1, <1>2, <1>8, <2>2, <3>3, <3>4
        <3>6. TracksFiled(f, y)
            BY <3>1, <3>2, <3>5 DEF TracksFiled
        <3> QED BY <1>1, <3>6
    <2> QED BY <1>1, <1>5, <2>1, <2>2
<1> QED BY <1>1, <1>7, <1>8

\* So whatever the whole walk filed as tracks are Object Tracks, each under its own object.
LEMMA TracksAreFiled ==
    ASSUME NEW f, IsSeq(f), NEW o
    PROVE  TracksFiled(f, I!WalkFront(f, o))
<1>1. PICK n \in 0 .. Len(f) : \E w : Walks(f, o, n, w) /\ I!WalkFront(f, o) = w[n]
    BY WalkRuns
<1>2. PICK w : Walks(f, o, n, w) /\ I!WalkFront(f, o) = w[n]
    BY <1>1
<1>3. n \in Nat /\ \A i \in 1 .. n : i \in 1 .. Len(f)
    BY DEF IsSeq
<1>4. PICK P : P = {i \in 0 .. n : TracksFiled(f, w[i])}
    OBVIOUS
<1>5. 0 \in P
    <2>1. w[0] = I!NothingFound
        BY <1>2 DEF Walks
    <2>2. TracksFiled(f, I!NothingFound)
        BY DEF TracksFiled, I!NothingFound, I!RangeMap
    <2> QED BY <1>3, <1>4, <2>1, <2>2
<1>6. ASSUME NEW i \in 1 .. n, i - 1 \in P PROVE i \in P
    <2>1. i # 0 /\ i \in 0 .. n
        BY <1>3
    <2>2. w[i] = WalkTurn(f, o, w[i - 1], i)
        BY <1>2, <2>1 DEF Walks
    <2>3. TracksFiled(f, w[i - 1])
        BY <1>4, <1>6
    <2>4. TracksFiled(f, WalkTurn(f, o, w[i - 1], i))
        BY <1>3, <2>3, TrackTurn
    <2> QED BY <1>4, <2>1, <2>2, <2>4
<1>7. 0 .. n \subseteq P
    BY ONLY <1>5, <1>6, n \in Nat, Ascend
<1>8. n \in P
    BY <1>3, <1>7
<1> QED BY <1>2, <1>4, <1>8

\* A sample found by halving is the sample the whole track gives.
LEMMA SampleIs ==
    ASSUME NEW times \in Seq(Int), times # <<>>, Increasing(times), NEW t \in Int
    PROVE  I!SampleTrack(times, t) = PoseAt(times, t)
<1>1. PICK n \in Nat \ {0} : n = Len(times) /\ DOMAIN times = 1 .. n
    OBVIOUS
<1>2. PICK S : S = {i \in DOMAIN times : times[i] <= t}
    OBVIOUS
<1>3. PICK one : one = 1
    OBVIOUS
<1>4. one \in 1 .. n /\ n \in 1 .. n
    BY <1>1, <1>3
<1>5. \A i \in 1 .. n : times[i] \in Int
    BY <1>1
<1>6. \A i, j \in 1 .. n : i < j => times[i] < times[j]
    BY <1>1, Rising
<1>7. I!SampleTrack(times, t) = IF n = one \/ t <= times[one] THEN <<times[one], times[one]>>
                                ELSE IF t >= times[n] THEN <<times[n], times[n]>>
                                ELSE Between(times, I!Bracket(times, t)[1], t)
    BY <1>1, <1>3 DEF I!SampleTrack, I!Last, I!Between, Between
<1>8. PoseAt(times, t) = IF S = {} THEN <<times[one], times[one]>>
                         ELSE IF Max(S) = n THEN <<times[n], times[n]>> ELSE Between(times, Max(S), t)
    BY <1>1, <1>2, <1>3 DEF PoseAt
<1>9. ASSUME NEW b \in 1 .. n, times[b] <= t, b = n \/ t < times[b + 1] PROVE Max(S) = b /\ S # {} /\ \A i \in 1 .. n : times[i] <= t <=> i <= b
    <2>1. ASSUME NEW i \in 1 .. n PROVE times[i] <= t <=> i <= b
        <3>1. i = b \/ i < b \/ i > b
            OBVIOUS
        <3>2. CASE i = b
            BY <1>9, <3>2
        <3>3. CASE i < b
            <4>1. times[i] < times[b] /\ times[i] \in Int /\ times[b] \in Int
                BY <1>5, <1>6, <3>3
            <4> QED BY <1>9, <3>3, <4>1
        <3>4. CASE i > b
            <4>1. b + 1 \in 1 .. n /\ b # n /\ (i = b + 1 \/ b + 1 < i)
                BY <3>4
            <4>2. times[i] = times[b + 1] \/ times[b + 1] < times[i]
                BY <1>6, <4>1
            <4>3. times[i] \in Int /\ times[b + 1] \in Int
                BY <1>5, <4>1
            <4>4. t < times[b + 1]
                BY <1>9, <4>1
            <4>5. t < times[i]
                BY <4>2, <4>3, <4>4
            <4> QED BY <3>4, <4>3, <4>5
        <3> QED BY <3>1, <3>2, <3>3, <3>4
    <2>2. b \in S /\ \A j \in S : b >= j
        BY <1>1, <1>2, <2>1
    <2>3. ASSUME NEW w \in S, \A j \in S : w >= j PROVE w = b
        BY <1>1, <1>2, <2>2, <2>3
    <2>4. Max(S) = b
        BY <2>2, <2>3 DEF Max
    <2> QED BY <2>1, <2>2, <2>4
<1>10. CASE t < times[one]
    <2>1. ASSUME NEW i \in 1 .. n PROVE ~(times[i] <= t)
        <3>1. i = one \/ one < i
            BY <1>3
        <3>2. times[one] = times[i] \/ times[one] < times[i]
            BY <1>4, <1>6, <3>1
        <3> QED BY <1>4, <1>5, <1>10, <3>2
    <2>2. S = {}
        BY <1>1, <1>2, <2>1
    <2>3. t <= times[one]
        BY <1>4, <1>5, <1>10
    <2> QED BY <1>7, <1>8, <2>2, <2>3
<1>11. CASE n = one /\ ~(t < times[one])
    <2>1. times[one] <= t
        BY <1>4, <1>5, <1>11
    <2>2. Max(S) = one /\ S # {}
        BY <1>4, <1>9, <1>11, <2>1
    <2> QED BY <1>7, <1>8, <1>11, <2>2
<1>12. CASE n # one /\ t = times[one]
    <2>1. one + 1 \in 1 .. n /\ one < one + 1
        BY <1>3, <1>12
    <2>2. t < times[one + 1]
        BY <1>4, <1>6, <1>12, <2>1
    <2>3. Max(S) = one /\ S # {}
        BY <1>4, <1>5, <1>9, <1>12, <2>2
    <2>4. Between(times, one, t) = <<times[one], times[one]>>
        BY <1>12 DEF Between
    <2> QED BY <1>7, <1>8, <1>12, <2>3, <2>4
<1>13. CASE n # one /\ times[one] < t
    <2>1. ~(t <= times[one])
        BY <1>4, <1>5, <1>13
    <2>2. CASE t >= times[n]
        <3>1. times[n] <= t
            BY <2>2
        <3>2. Max(S) = n /\ S # {}
            BY <1>4, <1>9, <3>1
        <3> QED BY <1>7, <1>8, <1>13, <2>1, <2>2, <3>2
    <2>3. CASE ~(t >= times[n])
        <3>1. S # {} /\ S \subseteq 1 .. n
            BY <1>1, <1>2, <1>4, <1>5, <1>13
        <3>2. PICK b \in S : \A j \in b + 1 .. n : j \notin S
            BY <3>1, LastPosition
        <3>3. b \in 1 .. n /\ times[b] <= t
            BY <1>1, <1>2
        <3>4. b # n
            BY <1>5, <2>3, <3>3
        <3>5. b + 1 \in 1 .. n /\ b + 1 \in b + 1 .. n
            BY <3>3, <3>4
        <3>6. t < times[b + 1]
            <4>1. b + 1 \notin S
                BY <3>2, <3>5
            <4> QED BY <1>1, <1>2, <1>5, <3>5, <4>1
        <3>7. Max(S) = b /\ \A i \in 1 .. n : times[i] <= t <=> i <= b
            BY <1>9, <3>3, <3>6
        <3>8. SampleBefore(times, t, b)
            BY <1>1, <3>3, <3>5, <3>7 DEF SampleBefore
        <3>9. I!Bracket(times, t)[1] = b
            BY <3>8, BracketIs
        <3> QED BY <1>7, <1>8, <1>13, <2>1, <2>3, <3>1, <3>4, <3>7, <3>9
    <2> QED BY <2>2, <2>3
<1>14. times[one] \in Int
    BY <1>4, <1>5
<1> QED BY <1>10, <1>11, <1>12, <1>13, <1>14

\* The poses of a file with its tracks filed: asked of each one unread, and of all of them read.
LEMMA PosesAgree ==
    ASSUME NEW f \in FILES, NEW scene, TracksFiled(f, scene.front), IsSome(I!ReadObjects(f, scene)),
           NEW ids, NEW t \in TIMES
    PROVE  I!ReadPoses(f, scene, ids, t, {}) = Some(PosesAt(I!ReadObjects(f, scene)[1].tracks, ids, t))
<1>1. PICK n \in Nat : n = Len(f) /\ DOMAIN f = 1 .. n
    BY FileIs DEF IsSeq
<1>2. PICK at : at = scene.front.tracks
    OBVIOUS
<1>3. ASSUME NEW o \in DOMAIN at
      PROVE  o # BACKGROUND /\ at[o] \in 1 .. n /\ f[at[o]].op = "OBJECT_TRACK" /\ f[at[o]].object = o
    BY <1>1, <1>2 DEF TracksFiled
<1>4. PICK R : R = {at[o] : o \in DOMAIN at}
    OBVIOUS
<1>5. PICK r : r = I!Ranked(R)
    OBVIOUS
<1>6. /\ \E m \in Nat : DOMAIN r = 1 .. m
      /\ \A i \in DOMAIN r : r[i] \in R
      /\ \A k \in R : \E i \in DOMAIN r : r[i] = k
    <2>1. R \subseteq 1 .. n
        BY <1>3, <1>4
    <2> QED BY ONLY <1>5, <2>1, n \in Nat, RankedIs
<1>7. I!TrackRanges(scene) = r
    BY <1>2, <1>4, <1>5 DEF I!TrackRanges, I!Range
<1>8. PICK tracks : tracks = [i \in DOMAIN r |-> f[r[i]]]
    OBVIOUS
<1>9. /\ \A i \in DOMAIN r : f[r[i]].sound
      /\ I!ReadObjects(f, scene)[1].tracks = I!Sampled(tracks)
    <2>1. PICK tables, fetched : tables = I!Fetch(f, scene.front.tables) /\ fetched = I!Fetch(f, r)
        OBVIOUS
    <2>2. /\ I!IsSome(fetched)
          /\ I!ReadObjects(f, scene)
                = I!Some([table |-> I!LastOf(tables[1]), tracks |-> I!Sampled(fetched[1])])
        BY <1>7, <2>1 DEF I!ReadObjects, IsSome, None, I!None
    <2>3. (\A i \in DOMAIN r : f[r[i]].sound) /\ fetched = I!Some(tracks)
        BY <1>8, <2>1, <2>2 DEF I!Fetch, I!IsSome, I!None
    <2>4. fetched[1] = tracks
        BY <2>3 DEF I!Some
    <2> QED BY <2>2, <2>3, <2>4 DEF I!Some
<1>10. ASSUME NEW o \in DOMAIN at
       PROVE  f[at[o]].times \in Seq(Int) /\ f[at[o]].sound /\ (f[at[o]].times # <<>> => Increasing(f[at[o]].times))
    <2>1. \E i \in DOMAIN r : r[i] = at[o]
        BY <1>4, <1>6
    <2>2. f[at[o]].sound
        BY <1>9, <2>1
    <2>3. at[o] \in DOMAIN f /\ f[at[o]].op = "OBJECT_TRACK"
        BY <1>1, <1>3
    <2> QED BY <2>2, <2>3, TrackAssumption DEF ObjectTrackChecks
<1>11. PICK S, kept : S = {i \in DOMAIN tracks : tracks[i].times # <<>>} /\ kept = I!Ranked(S)
    OBVIOUS
<1>12. /\ \A i \in DOMAIN kept : kept[i] \in S
       /\ \A k \in S : \E i \in DOMAIN kept : kept[i] = k
    <2>1. PICK m \in Nat : DOMAIN r = 1 .. m
        BY <1>6
    <2>2. S \subseteq 1 .. m
        BY <1>8, <1>11, <2>1
    <2>3. /\ \A i \in DOMAIN I!Ranked(S) : I!Ranked(S)[i] \in S
          /\ \A k \in S : \E i \in DOMAIN I!Ranked(S) : I!Ranked(S)[i] = k
        BY ONLY <2>2, m \in Nat, RankedIs
    <2> QED BY ONLY <1>11, <2>3
<1>13. PICK read : read = I!Sampled(tracks)
    OBVIOUS
<1>14. read = [i \in DOMAIN kept |-> tracks[kept[i]]]
    BY <1>11, <1>13 DEF I!Sampled, I!Taken
<1>15. ASSUME NEW i \in DOMAIN read
       PROVE  /\ read[i].object \in DOMAIN at /\ read[i] = f[at[read[i].object]]
              /\ read[i].times # <<>> /\ read[i].object # BACKGROUND
    <2>1. kept[i] \in DOMAIN r /\ read[i] = f[r[kept[i]]] /\ read[i].times # <<>>
        BY <1>8, <1>11, <1>12, <1>14
    <2>2. PICK o \in DOMAIN at : r[kept[i]] = at[o]
        BY <1>4, <1>6, <2>1
    <2>3. read[i].object = o
        BY <1>3, <2>1, <2>2
    <2> QED BY <1>3, <2>1, <2>2, <2>3
<1>16. ASSUME NEW o \in DOMAIN at, f[at[o]].times # <<>>
       PROVE  \E i \in DOMAIN read : read[i] = f[at[o]]
    <2>1. PICK j \in DOMAIN r : r[j] = at[o]
        BY <1>4, <1>6
    <2>2. j \in S
        BY <1>8, <1>11, <1>16, <2>1
    <2>3. PICK i \in DOMAIN kept : kept[i] = j
        BY <1>12, <2>2
    <2> QED BY <1>8, <1>14, <2>1, <2>3
<1>17. PICK moved : moved = {o \in DOMAIN at \cap ids : f[at[o]].times # <<>>}
    OBVIOUS
<1>18. PICK M : M = {i \in DOMAIN read : read[i].object \in ids \ {BACKGROUND} /\ read[i].times # <<>>}
    OBVIOUS
<1>19. moved = {read[i].object : i \in M}
    <2>1. ASSUME NEW o \in moved PROVE \E i \in M : read[i].object = o
        <3>1. o \in DOMAIN at /\ o \in ids /\ f[at[o]].times # <<>>
            BY <1>17
        <3>2. PICK i \in DOMAIN read : read[i] = f[at[o]]
            BY <1>16, <3>1
        <3>3. read[i].object = o /\ o # BACKGROUND
            BY <1>3, <3>1, <3>2
        <3> QED BY <1>15, <1>18, <3>1, <3>3
    <2>2. ASSUME NEW i \in M PROVE read[i].object \in moved
        BY <1>15, <1>17, <1>18
    <2> QED BY <2>1, <2>2
<1>20. ASSUME NEW o \in moved
       PROVE  I!SampleTrack(f[at[o]].times, t) = PoseAt(read[CHOOSE i \in M : read[i].object = o].times, t)
    <2>1. PICK j : j = CHOOSE i \in M : read[i].object = o
        OBVIOUS
    <2>2. j \in M /\ read[j].object = o
        BY <1>19, <2>1
    <2>3. read[j] = f[at[o]]
        BY <1>15, <1>18, <2>2
    <2>4. PICK times \in Seq(Int) : times = f[at[o]].times /\ times # <<>> /\ Increasing(times)
        BY <1>10, <1>17
    <2>5. I!SampleTrack(times, t) = PoseAt(times, t)
        <3>1. t \in Int
            BY TrackAssumption
        <3> QED BY <2>4, <3>1, SampleIs
    <2> QED BY <2>1, <2>3, <2>4, <2>5
<1>21. PosesAt(read, ids, t) = [o \in moved |-> I!SampleTrack(f[at[o]].times, t)]
    <2>1. PosesAt(read, ids, t) = [o \in {read[i].object : i \in M} |-> PoseAt(read[CHOOSE i \in M : read[i].object = o].times, t)]
        BY <1>18 DEF PosesAt
    <2> QED BY <1>19, <1>20, <2>1
<1>22. I!ReadPoses(f, scene, ids, t, {}) = I!Some([o \in moved |-> I!SampleTrack(f[at[o]].times, t)])
    <2>1. \A o \in moved : I!TimesHold(f[at[o]].times)
        BY <1>10, <1>17 DEF I!TimesHold, I!Increasing, Increasing
    <2> QED BY <1>2, <1>17, <2>1 DEF I!ReadPoses
<1> QED BY <1>9, <1>13, <1>21, <1>22 DEF I!Some, Some

\* What an uncut reading has opened is what opening the file itself gives.
OpenedWhole == file \in FILES /\ (clean => indexed = I!OpenIndexed(file, TRUE, options))

\* Every pose the indexed reader samples of a file by reading only the tracks asked for (indexed_reader.rs
\* read_object_poses, sample_object_track, which halve the samples of a track to the one before the time) is the
\* pose the object layer read whole gives at that time (object_layer.rs), in every state of the reading.
THEOREM SamplesMatch == Spec => []SampledPosesMatch
<1>1. Init => OpenedWhole
    BY DEF Init, OpenedWhole, clean
<1>2. OpenedWhole /\ [Next]_vars => OpenedWhole'
    <2> SUFFICES ASSUME OpenedWhole, [Next]_vars PROVE OpenedWhole'
        OBVIOUS
    <2>1. CASE ReadRecord
        BY <2>1 DEF OpenedWhole, ReadRecord, Reads, clean
    <2>2. ASSUME NEW bytes, NEW end, Deliver(bytes, end), end = "whole" => bytes = file PROVE OpenedWhole'
        BY <2>2 DEF OpenedWhole, Deliver, clean
    <2>3. CASE EndOfFile
        BY <2>2, <2>3 DEF EndOfFile
    <2>4. CASE CutBetween
        BY <2>2, <2>4 DEF CutBetween
    <2>5. CASE CutInside
        BY <2>2, <2>5 DEF CutInside
    <2>6. CASE Abandon
        BY <2>2, <2>6 DEF Abandon
    <2>7. CASE UNCHANGED vars
        BY <2>7 DEF vars, OpenedWhole, clean
    <2> QED BY <2>1, <2>3, <2>4, <2>5, <2>6, <2>7 DEF Next
<1>3. OpenedWhole => SampledPosesMatch
    <2> SUFFICES ASSUME OpenedWhole, clean, IsSome(indexed), IsSome(I!ReadObjects(file, indexed[1])),
                        NEW ids, NEW t \in TIMES
                 PROVE  I!ReadPoses(file, indexed[1], ids, t, {})
                            = Some(PosesAt(I!ReadObjects(file, indexed[1])[1].tracks, ids, t))
        BY DEF SampledPosesMatch
    <2>1. file \in FILES /\ indexed = I!OpenIndexed(file, TRUE, options)
        BY DEF OpenedWhole
    <2>2. PICK scene : scene = indexed[1]
        OBVIOUS
    <2>3. scene.front = I!WalkFront(file, options)
        <3>1. indexed = I!Some(I!SceneFrom(I!WalkFront(file, options), file))
            BY <2>1 DEF I!OpenIndexed, IsSome, None, I!None
        <3> QED BY <2>2, <3>1 DEF I!SceneFrom, I!Some
    <2>4. TracksFiled(file, scene.front)
        BY <2>1, <2>3, FileIs, TracksAreFiled
    <2> QED BY <2>1, <2>2, <2>4, PosesAgree
<1> QED BY <1>1, <1>2, <1>3, PTL DEF Spec

----------------------------------------------------------------------------
(***************************************************************************)
(* Both readers of a whole file give one scene.  What each holds is said   *)
(* as what is taken of the file at some of its places, in order: by the    *)
(* streamed reader of the records up to the one it is at, kept as an       *)
(* invariant of the reading, and by the indexed reader of the front matter *)
(* it has walked over and of the summary.                                  *)
(***************************************************************************)

\* Nothing is listed in no place.
LEMMA RankedNone == Ranked({}) = <<>>
<1>1. Len(Ranked({})) = 0 /\ IsSeq(Ranked({}))
    <2>1. PICK n \in Nat : n = 0
        OBVIOUS
    <2>2. {} \subseteq 1 .. n /\ Cardinality({}) = 0
        BY FS_EmptySet
    <2> QED BY <2>1, <2>2, RankedEnumerates DEF Enumerates
<1> QED BY <1>1, EmptyIsSeq, SameSeq

\* A greater number is listed last.
LEMMA RankedNext ==
    ASSUME NEW n \in Nat, NEW S, S \subseteq 1 .. n
    PROVE  Ranked(S \cup {n + 1}) = Append(Ranked(S), n + 1)
<1>1. PICK r, q, T : r = Ranked(S) /\ q = Append(r, n + 1) /\ T = S \cup {n + 1}
    OBVIOUS
<1>2. Enumerates(r, S)
    BY <1>1, RankedEnumerates
<1>3. PICK c \in Nat : c = Len(r)
    BY <1>2 DEF Enumerates, IsSeq
<1>4. IsSeq(q) /\ Len(q) = c + 1 /\ (\A i \in 1 .. c : q[i] = r[i]) /\ q[c + 1] = n + 1
    BY <1>1, <1>2, <1>3, AppendIsSeq DEF Enumerates
<1>5. \A i \in 1 .. c + 1 : i \in 1 .. c \/ i = c + 1
    OBVIOUS
<1>6. \A i \in 1 .. c + 1 : q[i] \in T
    BY <1>1, <1>2, <1>3, <1>4, <1>5 DEF Enumerates
<1>7. \A x \in T : \E i \in 1 .. c + 1 : q[i] = x
    <2> SUFFICES ASSUME NEW x \in T PROVE \E i \in 1 .. c + 1 : q[i] = x
        OBVIOUS
    <2>1. CASE x = n + 1
        BY <1>4, <2>1
    <2>2. CASE x \in S
        <3>1. PICK i \in 1 .. c : r[i] = x
            BY <1>2, <1>3, <2>2 DEF Enumerates
        <3> QED BY <1>4, <3>1
    <2> QED BY <1>1, <2>1, <2>2
<1>8. ASSUME NEW i \in 1 .. c + 1, NEW j \in 1 .. c + 1, i < j PROVE q[i] < q[j]
    <2>1. i \in 1 .. c /\ q[i] = r[i]
        BY <1>4, <1>8
    <2>2. CASE j \in 1 .. c
        BY <1>2, <1>3, <1>4, <1>8, <2>1, <2>2 DEF Enumerates
    <2>3. CASE j = c + 1
        <3>1. r[i] \in 1 .. n
            BY <1>2, <1>3, <2>1 DEF Enumerates
        <3> QED BY <1>4, <2>1, <2>3, <3>1
    <2> QED BY <1>5, <2>2, <2>3
<1>9. Enumerates(q, T)
    BY <1>4, <1>6, <1>7, <1>8 DEF Enumerates
<1>10. Enumerates(Ranked(T), T)
    <2>1. T \subseteq 1 .. n + 1 /\ n + 1 \in Nat
        BY <1>1
    <2> QED BY <2>1, RankedEnumerates
<1>11. T \subseteq Nat
    BY <1>1
<1>12. Ranked(T) = q
    BY <1>9, <1>10, <1>11, EnumeratesOnce
<1> QED BY <1>1, <1>12

\* What is taken of a list at some positions is a list of the elements there, whichever reader takes it.
LEMMA TakenIs ==
    ASSUME NEW n \in Nat, NEW S, S \subseteq 1 .. n, NEW f
    PROVE  /\ IsSeq(Taken(f, S)) /\ Len(Taken(f, S)) = Len(Ranked(S))
           /\ \A k \in 1 .. Len(Ranked(S)) : Taken(f, S)[k] = f[Ranked(S)[k]]
           /\ I!Taken(f, S) = Taken(f, S)
<1>1. PICK r, q : r = Ranked(S) /\ q = I!Ranked(S)
    OBVIOUS
<1>2. IsSeq(r) /\ q = r
    BY <1>1, RankedEnumerates DEF Enumerates
<1>3. DOMAIN r = 1 .. Len(r) /\ Len(r) \in Nat
    BY <1>2 DEF IsSeq
<1>4. Taken(f, S) = [k \in 1 .. Len(r) |-> f[r[k]]]
    BY <1>1, <1>3 DEF Taken
<1>5. I!Taken(f, S) = [k \in 1 .. Len(r) |-> f[r[k]]]
    BY <1>1, <1>2, <1>3 DEF I!Taken
<1> QED BY <1>1, <1>3, <1>4, <1>5 DEF IsSeq

\* A list is what is taken if it has those elements.
LEMMA TakenAre ==
    ASSUME NEW n \in Nat, NEW S, S \subseteq 1 .. n, NEW f, NEW l, IsSeq(l), Len(l) = Len(Ranked(S)),
           \A k \in 1 .. Len(l) : l[k] = f[Ranked(S)[k]]
    PROVE  l = Taken(f, S)
<1>1. PICK t : t = Taken(f, S)
    OBVIOUS
<1>2. IsSeq(t) /\ Len(t) = Len(l) /\ \A k \in 1 .. Len(l) : t[k] = l[k]
    BY <1>1, TakenIs
<1>3. l = t
    BY <1>2, SameSeq
<1> QED BY <1>1, <1>3

LEMMA TakenNone ==
    ASSUME NEW f
    PROVE  Taken(f, {}) = <<>>
BY RankedNone DEF Taken

\* What is taken at one position more is one element more.
LEMMA TakenNext ==
    ASSUME NEW n \in Nat, NEW S, S \subseteq 1 .. n, NEW f
    PROVE  Taken(f, S \cup {n + 1}) = Append(Taken(f, S), f[n + 1])
<1>1. PICK r, q, T, m : r = Ranked(S) /\ T = S \cup {n + 1} /\ q = Ranked(T) /\ m = n + 1
    OBVIOUS
<1>2. IsSeq(r) /\ q = Append(r, m)
    BY <1>1, RankedEnumerates, RankedNext DEF Enumerates
<1>3. PICK c \in Nat : c = Len(r)
    BY <1>2 DEF IsSeq
<1>4. Len(q) = c + 1 /\ (\A i \in 1 .. c : q[i] = r[i]) /\ q[c + 1] = m
    BY <1>2, <1>3, AppendIsSeq
<1>5. PICK t : t = Taken(f, S)
    OBVIOUS
<1>6. IsSeq(t) /\ Len(t) = c /\ \A k \in 1 .. c : t[k] = f[r[k]]
    BY <1>1, <1>3, <1>5, TakenIs
<1>7. PICK l, v : v = f[m] /\ l = Append(t, v)
    OBVIOUS
<1>8. IsSeq(l) /\ Len(l) = c + 1 /\ (\A k \in 1 .. c : l[k] = t[k]) /\ l[c + 1] = v
    BY <1>6, <1>7, AppendIsSeq
<1>9. \A k \in 1 .. c + 1 : l[k] = f[q[k]]
    <2>1. \A k \in 1 .. c + 1 : k \in 1 .. c \/ k = c + 1
        OBVIOUS
    <2> QED BY <1>4, <1>6, <1>7, <1>8, <2>1
<1>10. T \subseteq 1 .. m /\ m \in Nat
    BY <1>1
<1>11. l = Taken(f, T)
    <2>1. Len(l) = Len(Ranked(T)) /\ \A k \in 1 .. Len(l) : l[k] = f[Ranked(T)[k]]
        BY <1>1, <1>4, <1>8, <1>9
    <2> QED BY ONLY <1>8, <1>10, <2>1, TakenAre
<1> QED BY <1>1, <1>5, <1>7, <1>11

\* Taking of what was taken is taking of the list.
Within(f, n, S, U, T) == S \subseteq 1 .. n /\ U \subseteq S /\ T = {k \in DOMAIN Taken(f, S) : Ranked(S)[k] \in U}

LEMMA TakenInner ==
    ASSUME NEW n \in Nat, NEW S, NEW f, NEW U, NEW T, Within(f, n, S, U, T)
    PROVE  I!Taken(Taken(f, S), T) = Taken(f, U) /\ Taken(Taken(f, S), T) = Taken(f, U)
<1>20. S \subseteq 1 .. n /\ U \subseteq S
    BY DEF Within
<1>1. PICK r, t : r = Ranked(S) /\ t = Taken(f, S)
    OBVIOUS
<1>2. Enumerates(r, S) /\ IsSeq(r)
    BY <1>1, <1>20, RankedEnumerates DEF Enumerates
<1>3. PICK c \in Nat : c = Len(r) /\ DOMAIN t = 1 .. c
    BY <1>1, <1>2, <1>20, TakenIs DEF IsSeq
<1>4. T = {k \in 1 .. c : r[k] \in U}
    BY <1>1, <1>3 DEF Within
<1>5. PICK p : p = Ranked(T)
    OBVIOUS
<1>6. Enumerates(p, T) /\ I!Taken(t, T) = Taken(t, T)
    BY <1>1, <1>4, <1>5, RankedEnumerates, TakenIs
<1>7. PICK d \in Nat : d = Len(p)
    BY <1>6 DEF Enumerates, IsSeq
<1>8. PICK q : q = [k \in 1 .. d |-> r[p[k]]]
    OBVIOUS
<1>9. IsSeq(q) /\ Len(q) = d
    BY <1>8 DEF IsSeq
<1>10. \A k \in 1 .. d : p[k] \in 1 .. c /\ r[p[k]] \in U
    BY <1>4, <1>6, <1>7 DEF Enumerates
<1>11. Enumerates(q, U)
    <2>1. ASSUME NEW x \in U PROVE \E k \in 1 .. d : q[k] = x
        <3>1. PICK j \in 1 .. c : r[j] = x
            BY <1>2, <1>3, <1>20 DEF Enumerates
        <3>2. PICK k \in 1 .. d : p[k] = j
            BY <1>4, <1>6, <1>7, <3>1 DEF Enumerates
        <3> QED BY <1>8, <3>1, <3>2
    <2>2. ASSUME NEW i \in 1 .. d, NEW j \in 1 .. d, i < j PROVE q[i] < q[j]
        <3>1. p[i] < p[j] /\ p[i] \in 1 .. c /\ p[j] \in 1 .. c
            BY <1>6, <1>7, <1>10, <2>2 DEF Enumerates
        <3> QED BY <1>2, <1>3, <1>8, <3>1 DEF Enumerates
    <2> QED BY <1>8, <1>9, <1>10, <2>1, <2>2 DEF Enumerates
<1>12. U \subseteq 1 .. n
    BY <1>20
<1>13. q = Ranked(U)
    <2>1. Enumerates(Ranked(U), U)
        BY <1>12, RankedEnumerates
    <2>2. U \subseteq Nat
        BY <1>12
    <2> QED BY <1>11, <2>1, <2>2, EnumeratesOnce
<1>14. PICK l : l = Taken(t, T)
    OBVIOUS
<1>15. IsSeq(l) /\ Len(l) = d /\ \A k \in 1 .. d : l[k] = t[p[k]]
    BY <1>4, <1>5, <1>7, <1>14, TakenIs
<1>16. \A k \in 1 .. d : l[k] = f[q[k]]
    <2>1. \A k \in 1 .. c : t[k] = f[r[k]]
        BY <1>1, <1>3, <1>20, TakenIs
    <2> QED BY <1>8, <1>10, <1>15, <2>1
<1>17. l = Taken(f, U)
    <2>1. IsSeq(l) /\ Len(l) = Len(Ranked(U)) /\ \A k \in 1 .. Len(l) : l[k] = f[Ranked(U)[k]]
        BY <1>9, <1>13, <1>15, <1>16
    <2> QED BY ONLY <2>1, <1>12, n \in Nat, TakenAre
<1> QED BY <1>1, <1>6, <1>14, <1>17

\* Taking of a run of a list is taking of the list.
Moved(a, b, U, T) == T = {i \in 1 .. b - a + 1 : i + a - 1 \in U}

LEMMA TakenShift ==
    ASSUME NEW f, IsSeq(f), NEW a \in 1 .. Len(f) + 1, NEW b \in a - 1 .. Len(f),
           NEW U, U \subseteq a .. b, NEW T, Moved(a, b, U, T)
    PROVE  Taken(SubSeq(f, a, b), T) = Taken(f, U) /\ I!Taken(SubSeq(f, a, b), T) = Taken(f, U)
<1>1. PICK n \in Nat, m \in Nat : n = Len(f) /\ m = b - a + 1
    BY DEF IsSeq
<1>2. a \in Nat /\ b \in Nat /\ a <= n + 1 /\ b <= n /\ a >= 1 /\ b >= a - 1
    BY <1>1
<1>3. PICK t : t = SubSeq(f, a, b)
    OBVIOUS
<1>4. Len(t) = m /\ \A i \in 1 .. m : t[i] = f[a + i - 1]
    BY <1>1, <1>3, SliceIsSeq
<1>20. T = {i \in 1 .. m : i + a - 1 \in U}
    BY <1>1 DEF Moved
<1>5. T \subseteq 1 .. m
    BY <1>20
<1>6. PICK p : p = Ranked(T)
    OBVIOUS
<1>7. Enumerates(p, T) /\ I!Taken(t, T) = Taken(t, T)
    BY <1>5, <1>6, RankedEnumerates, TakenIs
<1>8. PICK d \in Nat : d = Len(p)
    BY <1>7 DEF Enumerates, IsSeq
<1>9. PICK q : q = [k \in 1 .. d |-> p[k] + a - 1]
    OBVIOUS
<1>10. IsSeq(q) /\ Len(q) = d
    BY <1>9 DEF IsSeq
<1>11. \A k \in 1 .. d : p[k] \in 1 .. m /\ q[k] = p[k] + a - 1 /\ q[k] \in U
    BY <1>7, <1>8, <1>9, <1>20 DEF Enumerates
<1>12. Enumerates(q, U)
    <2>1. ASSUME NEW x \in U PROVE \E k \in 1 .. d : q[k] = x
        <3>1. PICK i : i = x - a + 1
            OBVIOUS
        <3>2. i \in 1 .. m /\ i + a - 1 = x
            BY <1>1, <1>2, <3>1
        <3>3. i \in T
            BY <1>20, <3>2
        <3>4. PICK k \in 1 .. d : p[k] = i
            BY <1>7, <1>8, <3>3 DEF Enumerates
        <3> QED BY <1>11, <3>2, <3>4
    <2>2. ASSUME NEW i \in 1 .. d, NEW j \in 1 .. d, i < j PROVE q[i] < q[j]
        <3>1. p[i] < p[j] /\ p[i] \in Int /\ p[j] \in Int
            BY <1>7, <1>8, <1>11, <2>2 DEF Enumerates
        <3> QED BY <1>2, <1>11, <3>1
    <2> QED BY <1>10, <1>11, <2>1, <2>2 DEF Enumerates
<1>13. U \subseteq 1 .. n
    BY <1>2
<1>14. q = Ranked(U)
    <2>1. Enumerates(Ranked(U), U)
        BY <1>13, RankedEnumerates
    <2>2. U \subseteq Nat
        BY <1>13
    <2> QED BY <1>12, <2>1, <2>2, EnumeratesOnce
<1>15. PICK l : l = Taken(t, T)
    OBVIOUS
<1>16. IsSeq(l) /\ Len(l) = d /\ \A k \in 1 .. d : l[k] = t[p[k]]
    BY <1>5, <1>6, <1>8, <1>15, TakenIs
<1>17. \A k \in 1 .. d : l[k] = f[q[k]]
    <2> SUFFICES ASSUME NEW k \in 1 .. d PROVE l[k] = f[q[k]]
        OBVIOUS
    <2>1. l[k] = f[a + p[k] - 1]
        BY <1>4, <1>11, <1>16
    <2>2. a + p[k] - 1 = q[k]
        BY <1>2, <1>11
    <2> QED BY <2>1, <2>2
<1>18. l = Taken(f, U)
    <2>1. IsSeq(l) /\ Len(l) = Len(Ranked(U)) /\ \A k \in 1 .. Len(l) : l[k] = f[Ranked(U)[k]]
        BY <1>10, <1>14, <1>16, <1>17
    <2> QED BY ONLY <2>1, <1>13, n \in Nat, TakenAre
<1> QED BY <1>3, <1>7, <1>15, <1>18

\* The last of a list one longer.
LEMMA LastOfNext ==
    ASSUME NEW l, IsSeq(l), NEW v
    PROVE  I!LastOf(Append(l, v)) = Some(v)
<1>1. PICK k : k = Append(l, v)
    OBVIOUS
<1>2. IsSeq(k) /\ Len(k) = Len(l) + 1 /\ k[Len(k)] = v
    BY <1>1, AppendIsSeq
<1>3. k # <<>>
    <2>1. Len(l) \in Nat
        BY DEF IsSeq
    <2> QED BY <1>2, <2>1, EmptyIsSeq
<1> QED BY <1>1, <1>2, <1>3 DEF I!LastOf, I!Last, I!Some, Some

LEMMA LastOfNone == I!LastOf(<<>>) = None
BY DEF I!LastOf, I!None, None

----------------------------------------------------------------------------
(* What a record adds to what the streamed reader holds.                   *)

\* The records each list is of; a trajectory or a track without samples is not listed.
ListOp == [metadata |-> "METADATA", attachments |-> "ATTACHMENT", frames |-> "COORDINATE_FRAME",
           sensors |-> "SENSOR_CALIBRATION", rigs |-> "RIG_TRAJECTORY", anchors |-> "GEODETIC_ANCHOR",
           tracks |-> "OBJECT_TRACK", index |-> "CHUNK_INDEX", offsets |-> "SUMMARY_OFFSET"]
Listed(r, g) == r.op = ListOp[g] /\ (g \in {"rigs", "tracks"} => r.times # <<>>)
NodeOp == [sources |-> "AUDIO_SOURCE", payloads |-> "AUDIO_DATA"]

\* What the record r adds to the scene.
TakesLists(x, y, r) == \A g \in Counted : y[g] = IF Listed(r, g) THEN Append(x[g], r) ELSE x[g]
TakesOnes(x, y, r) == \A g \in Ones : y[g] = IF r.op = OpOf[g] THEN Some(r) ELSE x[g]
TakesNodes(x, y, r) ==
    \A g \in {"sources", "payloads"} :
        /\ r.op = NodeOp[g] => r.id \notin DOMAIN x[g] /\ y[g] = Filed(x[g], r.id, r)
        /\ r.op # NodeOp[g] => y[g] = x[g]
TakesChunk(x, y, r) ==
    y.chunks = Append(x.chunks, [offset |-> x.at, t0 |-> r.t0, t1 |-> r.t1, rows |-> r.rows, bands |-> {}])
TakesBand(x, y, r) ==
    /\ r.band \in Bands
    /\ IF x.chunks = <<>> \/ r.band > x.options.band THEN y.chunks = x.chunks
       ELSE y.chunks = [x.chunks EXCEPT ![Len(x.chunks)].bands = @ \cup {r.band}]
TakesChunks(x, y, r) ==
    /\ r.op = "CHUNK" => TakesChunk(x, y, r)
    /\ r.op = "SH_BAND_STREAM" => TakesBand(x, y, r)
    /\ r.op \notin {"CHUNK", "SH_BAND_STREAM"} => y.chunks = x.chunks
TakesRecord(x, y, r) == TakesLists(x, y, r) /\ TakesOnes(x, y, r) /\ TakesNodes(x, y, r) /\ TakesChunks(x, y, r)

\* One kind of record is of one field.
OnesOps == {OpOf[g] : g \in Ones}
ListsOps == {ListOp[g] : g \in Counted}
OpsApart ==
    /\ \A g, h \in Ones : OpOf[g] = OpOf[h] => g = h
    /\ \A g, h \in Counted : ListOp[g] = ListOp[h] => g = h
    /\ OnesOps \cap ListsOps = {}
    /\ (OnesOps \cup ListsOps) \cap {"AUDIO_SOURCE", "AUDIO_DATA", "CHUNK", "SH_BAND_STREAM", "FOOTER"} = {}

LEMMA KindsApart == OpsApart
<1>1. \A g, h \in Ones : OpOf[g] = OpOf[h] => g = h
    BY DEF Ones, OpOf
<1>2. \A g, h \in Counted : ListOp[g] = ListOp[h] => g = h
    BY DEF Counted, ListOp
<1>3. OnesOps = {"HEADER", "QUANTIZATION", "WINDOW_TABLE", "AUDIO", "CAMERA", "OBJECT_TABLE", "STATISTICS"}
    BY DEF OnesOps, Ones, OpOf
<1>4. ListsOps = {"METADATA", "ATTACHMENT", "COORDINATE_FRAME", "SENSOR_CALIBRATION", "RIG_TRAJECTORY",
                  "GEODETIC_ANCHOR", "OBJECT_TRACK", "CHUNK_INDEX", "SUMMARY_OFFSET"}
    BY DEF ListsOps, Counted, ListOp
<1> QED BY <1>1, <1>2, <1>3, <1>4 DEF OpsApart

\* Fields that hold what the scene is of.
Content == Ones \cup Counted \cup {"sources", "payloads", "chunks"}

\* A step that touches no content leaves it.
LEMMA ContentStays ==
    ASSUME NEW x, NEW y, NEW S, Only(x, y, S)
    PROVE  \A g \in Content : g \notin S => y[g] = x[g]
BY DEF Only, Content, Fields, Ones, Counted

\* A record of no field,
LEMMA StayTakes ==
    ASSUME NEW x, NEW y, NEW S, Only(x, y, S), S \cap Content = {}, NEW r,
           r.op \notin OnesOps \cup {"AUDIO_SOURCE", "AUDIO_DATA", "CHUNK", "SH_BAND_STREAM"},
           \A g \in Counted : ~Listed(r, g)
    PROVE  TakesRecord(x, y, r)
<1>1. \A g \in Content : y[g] = x[g]
    BY ContentStays
<1>2. TakesLists(x, y, r)
    BY <1>1 DEF TakesLists, Content
<1>3. TakesOnes(x, y, r)
    BY <1>1 DEF TakesOnes, Content, OnesOps
<1>4. TakesNodes(x, y, r)
    BY <1>1 DEF TakesNodes, Content, NodeOp
<1>5. TakesChunks(x, y, r)
    BY <1>1 DEF TakesChunks, Content
<1> QED BY <1>2, <1>3, <1>4, <1>5 DEF TakesRecord

\* a record that replaces the one of its kind,
LEMMA OneTakes ==
    ASSUME NEW x, NEW y, NEW f \in Ones, Only(x, y, {"retained", f}), NEW r, r.op = OpOf[f], y[f] = Some(r)
    PROVE  TakesRecord(x, y, r)
<1>1. \A g \in Content : g # f => y[g] = x[g]
    <2>1. \A g \in Content : g # "retained"
        BY DEF Content, Ones, Counted
    <2> QED BY <2>1, ContentStays
<1>2. f \notin Counted \cup {"sources", "payloads", "chunks"}
    BY DEF Ones, Counted
<1>3. r.op \in OnesOps
    BY DEF OnesOps
<1>4. TakesLists(x, y, r)
    <2> SUFFICES ASSUME NEW g \in Counted PROVE y[g] = x[g] /\ ~Listed(r, g)
        BY DEF TakesLists
    <2>1. ListOp[g] \in ListsOps
        BY DEF ListsOps
    <2> QED BY <1>1, <1>2, <1>3, <2>1, KindsApart DEF OpsApart, Listed, Content
<1>5. TakesOnes(x, y, r)
    BY <1>1, KindsApart DEF TakesOnes, OpsApart, Content
<1>6. TakesNodes(x, y, r)
    BY <1>1, <1>2, <1>3, KindsApart DEF TakesNodes, OpsApart, Content, NodeOp
<1>7. TakesChunks(x, y, r)
    BY <1>1, <1>2, <1>3, KindsApart DEF TakesChunks, OpsApart, Content
<1> QED BY <1>4, <1>5, <1>6, <1>7 DEF TakesRecord

\* a record that joins those of its kind,
LEMMA ListTakes ==
    ASSUME NEW x, NEW y, NEW f \in Counted, Only(x, y, {"retained", f}), NEW r, Listed(r, f), y[f] = Append(x[f], r)
    PROVE  TakesRecord(x, y, r)
<1>1. \A g \in Content : g # f => y[g] = x[g]
    <2>1. \A g \in Content : g # "retained"
        BY DEF Content, Ones, Counted
    <2> QED BY <2>1, ContentStays
<1>2. f \notin Ones \cup {"sources", "payloads", "chunks"}
    BY DEF Ones, Counted
<1>3. r.op \in ListsOps /\ r.op = ListOp[f]
    BY DEF ListsOps, Listed
<1>4. TakesLists(x, y, r)
    <2> SUFFICES ASSUME NEW g \in Counted, g # f PROVE y[g] = x[g] /\ ~Listed(r, g)
        BY DEF TakesLists
    <2> QED BY <1>1, <1>3, KindsApart DEF OpsApart, Listed, Content
<1>5. TakesOnes(x, y, r)
    <2> SUFFICES ASSUME NEW g \in Ones PROVE y[g] = x[g] /\ r.op # OpOf[g]
        BY DEF TakesOnes
    <2>1. OpOf[g] \in OnesOps
        BY DEF OnesOps
    <2> QED BY <1>1, <1>2, <1>3, <2>1, KindsApart DEF OpsApart, Content
<1>6. TakesNodes(x, y, r)
    BY <1>1, <1>2, <1>3, KindsApart DEF TakesNodes, OpsApart, Content, NodeOp
<1>7. TakesChunks(x, y, r)
    BY <1>1, <1>2, <1>3, KindsApart DEF TakesChunks, OpsApart, Content
<1> QED BY <1>4, <1>5, <1>6, <1>7 DEF TakesRecord

\* a record filed under its id,
LEMMA NodeTakes ==
    ASSUME NEW x, NEW y, NEW f \in {"sources", "payloads"}, Only(x, y, {"retained", f}), NEW r, r.op = NodeOp[f],
           r.id \notin DOMAIN x[f], y[f] = Filed(x[f], r.id, r)
    PROVE  TakesRecord(x, y, r)
<1>1. \A g \in Content : g # f => y[g] = x[g]
    <2>1. \A g \in Content : g # "retained"
        BY DEF Content, Ones, Counted
    <2> QED BY <2>1, ContentStays
<1>2. f \notin Ones \cup Counted \cup {"chunks"}
    BY DEF Ones, Counted
<1>3. r.op \in {"AUDIO_SOURCE", "AUDIO_DATA"}
    BY DEF NodeOp
<1>4. TakesLists(x, y, r)
    <2> SUFFICES ASSUME NEW g \in Counted PROVE y[g] = x[g] /\ ~Listed(r, g)
        BY DEF TakesLists
    <2>1. ListOp[g] \in ListsOps
        BY DEF ListsOps
    <2> QED BY <1>1, <1>2, <1>3, <2>1, KindsApart DEF OpsApart, Listed, Content
<1>5. TakesOnes(x, y, r)
    <2> SUFFICES ASSUME NEW g \in Ones PROVE y[g] = x[g] /\ r.op # OpOf[g]
        BY DEF TakesOnes
    <2>1. OpOf[g] \in OnesOps
        BY DEF OnesOps
    <2> QED BY <1>1, <1>2, <1>3, <2>1, KindsApart DEF OpsApart, Content
<1>6. TakesNodes(x, y, r)
    BY <1>1 DEF TakesNodes, Content, NodeOp
<1>7. TakesChunks(x, y, r)
    BY <1>1, <1>2, <1>3 DEF TakesChunks, Content
<1> QED BY <1>4, <1>5, <1>6, <1>7 DEF TakesRecord

\* and a Chunk or a band.
LEMMA ChunkTakes ==
    ASSUME NEW x, NEW y, NEW S, Only(x, y, S), S \cap Content \subseteq {"chunks"}, NEW r,
           \/ r.op = "CHUNK" /\ TakesChunk(x, y, r)
           \/ r.op = "SH_BAND_STREAM" /\ TakesBand(x, y, r)
    PROVE  TakesRecord(x, y, r)
<1>1. \A g \in Content : g # "chunks" => y[g] = x[g]
    BY ContentStays
<1>2. "chunks" \notin Ones \cup Counted
    BY DEF Ones, Counted
<1>3. r.op \in {"CHUNK", "SH_BAND_STREAM"}
    OBVIOUS
<1>4. TakesLists(x, y, r)
    <2> SUFFICES ASSUME NEW g \in Counted PROVE y[g] = x[g] /\ ~Listed(r, g)
        BY DEF TakesLists
    <2>1. ListOp[g] \in ListsOps
        BY DEF ListsOps
    <2> QED BY <1>1, <1>2, <1>3, <2>1, KindsApart DEF OpsApart, Listed, Content
<1>5. TakesOnes(x, y, r)
    <2> SUFFICES ASSUME NEW g \in Ones PROVE y[g] = x[g] /\ r.op # OpOf[g]
        BY DEF TakesOnes
    <2>1. OpOf[g] \in OnesOps
        BY DEF OnesOps
    <2> QED BY <1>1, <1>2, <1>3, <2>1, KindsApart DEF OpsApart, Content
<1>6. TakesNodes(x, y, r)
    BY <1>1, <1>3 DEF TakesNodes, Content, NodeOp
<1>7. TakesChunks(x, y, r)
    BY <1>3 DEF TakesChunks
<1> QED BY <1>4, <1>5, <1>6, <1>7 DEF TakesRecord

\* The Chunk handler, if it does not give up: the chunk is decoded behind the chunks there are.
LEMMA ChunkIs ==
    ASSUME NEW x, Sound(x), Reading(x), NEW r, r.op = "CHUNK", Len(r.rows) \in Nat, Reading(OnChunk(x, r))
    PROVE  LET y == OnChunk(x, r) IN
           /\ Only(x, y, {"decoded", "retained", "intervals", "chunks", "masks"})
           /\ TakesChunk(x, y, r)
<1>1. Typed(x) /\ IsScan(x) /\ x.decoded \in Int
    BY ReadingIsNot DEF Sound, Typed
<1>2. PICK n \in Nat : n = Len(x.chunks)
    BY <1>1 DEF Typed, ChunksTyped, IsSeq
<1>3. PICK here : here = [offset |-> x.at, t0 |-> r.t0, t1 |-> r.t1, rows |-> r.rows, bands |-> {}]
    OBVIOUS
<1>4. ChunkTyped(here)
    BY <1>3, FS_EmptySet DEF ChunkTyped
<1>5. PICK b \in Int : b = ChunkBytes(here)
    BY <1>4, ChunkBytesInt
<1>6. PICK g \in Int : g = Slots(n + 1) - Slots(n)
    <2>1. Slots(n) \in Int /\ Slots(n + 1) \in Int
        BY SlotsInt
    <2> QED BY <2>1
<1>7. PICK c0 : c0 = Decode(x, b)
    OBVIOUS
<1>8. PICK c1, c2 : c1 = PushDecoded(c0, n) /\ c2 = PushDecoded(c1, n)
    OBVIOUS
<1>9. PICK c3, c4 : c3 = PushDecoded(c2, n) /\ c4 = PushDecoded(c3, n)
    OBVIOUS
<1>10. \E e : Decodes(x, c4, e)
    <2>1. Decodes(x, c0, b)
        BY <1>1, <1>7, DecodeDecodes
    <2>2. ASSUME NEW z, NEW e \in Int, Decodes(x, z, e)
          PROVE  Decodes(x, PushDecoded(z, n), e + g)
        <3>1. Slots(n + 1) - Slots(n) \in Int
            BY <1>6
        <3>2. Decodes(x, PushDecoded(z, n), e + (Slots(n + 1) - Slots(n)))
            BY <1>1, <2>2, <3>1, PushDecodes
        <3> QED BY <1>6, <3>2
    <2>3. Decodes(x, c1, b + g)
        BY <1>8, <2>1, <2>2
    <2>4. Decodes(x, c2, b + g + g)
        BY <1>8, <2>2, <2>3
    <2>5. Decodes(x, c3, b + g + g + g)
        BY <1>9, <2>2, <2>4
    <2>6. Decodes(x, c4, b + g + g + g + g)
        BY <1>9, <2>2, <2>5
    <2> QED BY <2>6
<1>11. PICK y : y = OnChunk(x, r)
    OBVIOUS
<1>12. PICK kept : kept = Push(c4, "intervals", <<r.t0, r.t1>>, 0)
    OBVIOUS
<1>13. y = IF x.quantization = None \/ ~WindowsExist(r.rows, IF IsSome(x.windows) THEN x.windows[1].windows ELSE <<>>)
           THEN Refused(x)
           ELSE IF ~Reading(c4) THEN c4
           ELSE IF Reading(kept)
                THEN [kept EXCEPT !.chunks = Append(@, here), !.masks = Append(@, {})]
                ELSE kept
    BY <1>2, <1>3, <1>5, <1>7, <1>8, <1>9, <1>11, <1>12 DEF OnChunk
<1>14. ~Reading(Refused(x)) /\ Reading(y)
    BY <1>1, <1>11, Gives DEF Reading
<1>15. Reading(c4) /\ Reading(kept) /\ y = [kept EXCEPT !.chunks = Append(kept.chunks, here),
                                                   !.masks = Append(kept.masks, {})]
    BY <1>13, <1>14
<1>16. Only(x, c4, {"decoded"}) /\ IsScan(c4)
    BY <1>10, <1>15 DEF Decodes
<1>17. Pushed(c4, kept, "intervals", <<r.t0, r.t1>>, 0)
    <2>1. "intervals" \in Chargeable
        BY DEF Chargeable, Fields
    <2> QED BY <1>12, <1>15, <1>16, <2>1, PushCharges
<1>18. Only(c4, kept, {"retained", "intervals"}) /\ IsScan(kept)
    BY <1>15, <1>17 DEF Pushed, Charges
<1>19. kept.chunks = x.chunks
    BY <1>16, <1>18 DEF Only, Fields
<1>20. y.chunks = Append(x.chunks, here) /\ Only(kept, y, {"chunks", "masks"})
    <2>1. PICK p, q : p = Append(kept.chunks, here) /\ q = Append(kept.masks, {})
        OBVIOUS
    <2>2. SetTwo(kept, "chunks", p, "masks", q, y)
        BY <1>15, <2>1 DEF SetTwo
    <2>3. "chunks" \in Fields /\ "masks" \in Fields /\ IsScan(kept)
        BY <1>18 DEF Fields
    <2>4. Only(kept, y, {"chunks", "masks"}) /\ y.chunks = p
        BY ONLY <2>2, <2>3, TwoSet
    <2> QED BY <1>19, <2>1, <2>4
<1>21. Only(x, y, {"decoded", "retained", "intervals", "chunks", "masks"})
    BY <1>16, <1>18, <1>20 DEF Only
<1> QED BY <1>3, <1>11, <1>20, <1>21 DEF TakesChunk

\* The band handler: the band goes to the last chunk, if it is one the read decodes.
LEMMA BandIs ==
    ASSUME NEW x, Sound(x), Reading(x), NEW r, r.op = "SH_BAND_STREAM", Reading(OnShBandStream(x, r))
    PROVE  LET y == OnShBandStream(x, r) IN
           /\ Only(x, y, {"masks", "decoded", "chunks"})
           /\ TakesBand(x, y, r)
<1>1. Typed(x) /\ IsScan(x)
    BY ReadingIsNot DEF Sound
<1>2. PICK n \in Nat : n = Len(x.chunks)
    BY <1>1 DEF Typed, ChunksTyped, IsSeq
<1>20. n = 0 <=> x.chunks = <<>>
    <2>1. IsSeq(x.chunks)
        BY <1>1 DEF Typed, ChunksTyped
    <2> QED BY <1>2, <2>1, EmptyIsSeq, SameSeq
<1>3. PICK masked : masked = [x EXCEPT !.masks[n] = @ \cup {r.band}]
    OBVIOUS
<1>4. PICK bytes : bytes = ROW * Len(x.chunks[n].rows) + NODE
    OBVIOUS
<1>5. PICK c : c = Decode(masked, bytes)
    OBVIOUS
<1>6. PICK y : y = OnShBandStream(x, r)
    OBVIOUS
<1>8. y # Refused(x) /\ Reading(y)
    BY <1>1, <1>6, Gives DEF Reading
<1>7. /\ r.band \in Bands
      /\ \/ n = 0 /\ y = x
         \/ n # 0 /\ r.band > x.options.band /\ y = masked
         \/ n # 0 /\ ~(r.band > x.options.band) /\ y = IF Reading(c) THEN [c EXCEPT !.chunks[n].bands = @ \cup {r.band}] ELSE c
    BY <1>2, <1>3, <1>4, <1>5, <1>6, <1>8 DEF OnShBandStream
<1>9. Only(x, masked, {"masks"})
    <2>1. PICK p : p = [x.masks EXCEPT ![n] = @ \cup {r.band}]
        OBVIOUS
    <2>2. masked = [x EXCEPT !.masks = p]
        BY <1>3, <2>1
    <2> QED BY <1>1, <2>2 DEF Only, IsScan, Fields
<1>11. CASE n = 0 /\ y = x
    <2>1. Only(x, y, {"masks", "decoded", "chunks"})
        BY <1>1, <1>11 DEF Only, IsScan
    <2> QED BY <1>6, <1>7, <1>11, <1>20, <2>1 DEF TakesBand
<1>12. CASE n # 0 /\ r.band > x.options.band /\ y = masked
    <2>1. Only(x, y, {"masks", "decoded", "chunks"})
        BY <1>9, <1>12 DEF Only
    <2>2. y.chunks = x.chunks
        BY <1>9, <1>12 DEF Only, Fields
    <2> QED BY <1>6, <1>7, <1>12, <2>1, <2>2 DEF TakesBand
<1>13. CASE n # 0 /\ ~(r.band > x.options.band) /\ y = IF Reading(c) THEN [c EXCEPT !.chunks[n].bands = @ \cup {r.band}] ELSE c
    <2>1. IsScan(masked) /\ Reading(masked)
        BY <1>9 DEF Only, Reading, Fields
    <2>2. Decodes(masked, c, bytes)
        BY <1>5, <2>1, DecodeDecodes
    <2>3. Reading(c)
        BY <1>8, <1>13
    <2>4. Only(masked, c, {"decoded"})
        BY <2>2, <2>3 DEF Decodes
    <2>5. c.chunks = x.chunks /\ IsScan(c)
        BY <1>9, <2>4 DEF Only, Fields
    <2>6. PICK q : q = [x.chunks EXCEPT ![n].bands = @ \cup {r.band}]
        OBVIOUS
    <2>7. y.chunks = q /\ Only(c, y, {"chunks"})
        <3>1. y = [c EXCEPT !.chunks = q]
            BY <1>13, <2>3, <2>5, <2>6
        <3> QED BY <2>5, <3>1 DEF IsScan, Fields, Only
    <2>8. Only(x, y, {"masks", "decoded", "chunks"})
        BY <1>9, <2>4, <2>7 DEF Only
    <2>9. TakesBand(x, y, r)
        BY <1>2, <1>7, <1>13, <1>20, <2>6, <2>7 DEF TakesBand
    <2> QED BY <1>6, <2>8, <2>9
<1> QED BY <1>7, <1>11, <1>12, <1>13

\* The legacy audio record is charged before the one it replaces is released.
LEMMA LegacyTakes ==
    ASSUME NEW x, Sound(x), Reading(x), NEW r, r.op = "AUDIO", Reading(OnAudio(x, r))
    PROVE  TakesRecord(x, OnAudio(x, r), r)
<1>1. IsScan(x)
    BY DEF Sound
<1>2. PICK c, w : c = Retain(x, w) /\ w = Weight[r.op]
    OBVIOUS
<1>3. Charges(x, c, {"retained"}, w)
    BY <1>1, <1>2, RetainCharges
<1>4. Reading(c)
    BY <1>2 DEF OnAudio
<1>5. Only(x, c, {"retained"})
    BY <1>3, <1>4 DEF Charges
<1>6. PICK z, h : z = Release(c, h) /\ h = IF IsSome(c.legacy) THEN w ELSE 0
    OBVIOUS
<1>7. Only(c, z, {"retained"})
    BY <1>5, <1>6, ReleaseCharges DEF Only
<1>8. c.legacy = x.legacy
    BY <1>5 DEF Only, Fields
<1>9. PICK y : y = OnAudio(x, r)
    OBVIOUS
<1>10. y = [z EXCEPT !.legacy = Some(r)]
    BY <1>2, <1>4, <1>6, <1>8, <1>9 DEF OnAudio
<1>11. Only(z, y, {"legacy"}) /\ y.legacy = Some(r)
    <2>1. IsScan(z)
        BY <1>7 DEF Only
    <2> QED BY <1>10, <2>1 DEF Only, IsScan, Fields
<1>12. Only(x, y, {"retained", "legacy"})
    BY <1>5, <1>7, <1>11 DEF Only
<1>13. "legacy" \in Ones /\ r.op = OpOf["legacy"]
    BY DEF Ones, OpOf
<1>14. TakesRecord(x, y, r)
    BY <1>11, <1>12, <1>13, OneTakes
<1> QED BY <1>9, <1>14

\* A record kept in a list,
LEMMA PushTakes ==
    ASSUME NEW x, Sound(x), Reading(x), NEW f \in Counted, NEW r, Listed(r, f), NEW bytes, Reading(Push(x, f, r, bytes))
    PROVE  TakesRecord(x, Push(x, f, r, bytes), r)
<1>1. PICK y : y = Push(x, f, r, bytes)
    OBVIOUS
<1>2. f \in Chargeable /\ IsScan(x)
    BY DEF Chargeable, Fields, Counted, Sound
<1>3. Pushed(x, y, f, r, bytes)
    BY <1>1, <1>2, PushCharges
<1>4. Only(x, y, {"retained", f}) /\ y[f] = Append(x[f], r)
    BY <1>1, <1>3 DEF Pushed, Charges
<1>5. TakesRecord(x, y, r)
    BY <1>4, ListTakes
<1> QED BY <1>1, <1>5

\* a record that replaces the one held,
LEMMA ReplaceTakes ==
    ASSUME NEW x, Sound(x), Reading(x), NEW f \in Ones, NEW r, r.op = OpOf[f], Reading(Replace(x, f, r))
    PROVE  TakesRecord(x, Replace(x, f, r), r)
<1>1. PICK y : y = Replace(x, f, r)
    OBVIOUS
<1>2. f \in Chargeable /\ IsScan(x) /\ x.retained \in Int
    BY ReadingIsNot DEF Chargeable, Fields, Ones, Sound, Typed
<1>3. Weight[r.op] \in Int
    <2>1. OpOf[f] \in Weighed
        BY DEF Ones, OpOf, Weighed, FrontMatter, SummaryRecords
    <2> QED BY <2>1, WeighedInt
<1>4. PICK d : Charges(x, y, {"retained", f}, d) /\ y[f] = Some(r)
    BY <1>1, <1>2, <1>3, ReplaceCharges
<1>5. Only(x, y, {"retained", f})
    BY <1>1, <1>4 DEF Charges
<1>6. TakesRecord(x, y, r)
    BY <1>4, <1>5, OneTakes
<1> QED BY <1>1, <1>6

\* and a field set once its bytes are charged.
LEMMA SetIs ==
    ASSUME NEW x, Sound(x), Reading(x), NEW f \in Chargeable, NEW v, NEW bytes, NEW c, c = Retain(x, bytes),
           NEW y, SetIf(c, f, v, y), Reading(y)
    PROVE  Only(x, y, {"retained", f}) /\ y[f] = v
<1>1. Charges(x, c, {"retained"}, bytes)
    BY RetainCharges DEF Sound
<1>2. Charges(x, y, {"retained", f}, bytes) /\ (Reading(y) => y[f] = v)
    BY ONLY <1>1, SetIf(c, f, v, y), f \in Chargeable, SetCharges
<1> QED BY <1>2 DEF Charges

\* The audio descriptors and payloads, and the object table.
LEMMA SingleTakes ==
    ASSUME NEW x, Sound(x), Reading(x), NEW r, NEW y, Reading(y),
           \/ r.op = "AUDIO_SOURCE" /\ y = OnAudioSource(x, r)
           \/ r.op = "AUDIO_DATA" /\ y = OnAudioData(x, r)
           \/ r.op = "OBJECT_TABLE" /\ y = OnObjectTable(x, r)
    PROVE  TakesRecord(x, y, r)
<1>1. IsScan(x) /\ ~Reading(Refused(x))
    BY Gives DEF Sound, Reading
<1>2. {"sources", "payloads", "table"} \subseteq Chargeable
    BY DEF Chargeable, Fields
<1>3. CASE r.op = "AUDIO_SOURCE" /\ y = OnAudioSource(x, r)
    <2>1. PICK c, d : c = Retain(x, d) /\ d = Weight[r.op] + NODE
        OBVIOUS
    <2>2. r.id \notin DOMAIN x.sources /\ y = IF Reading(c) THEN [c EXCEPT !.sources = Filed(c.sources, r.id, r)] ELSE c
        BY <1>1, <1>3, <2>1 DEF OnAudioSource
    <2>3. Charges(x, c, {"retained"}, d)
        BY <1>1, <2>1, RetainCharges
    <2>4. Reading(c) /\ c.sources = x.sources
        BY <2>2, <2>3 DEF Charges, Only, Fields
    <2>5. PICK v : v = Filed(x.sources, r.id, r)
        OBVIOUS
    <2>6. SetIf(c, "sources", v, y)
        BY <2>2, <2>4, <2>5 DEF SetIf
    <2>7. Only(x, y, {"retained", "sources"}) /\ y.sources = v
        BY <1>2, <2>1, <2>6, SetIs
    <2>8. NodeOp["sources"] = r.op
        BY <1>3 DEF NodeOp
    <2> QED BY <2>2, <2>5, <2>7, <2>8, NodeTakes
<1>4. CASE r.op = "AUDIO_DATA" /\ y = OnAudioData(x, r)
    <2>1. PICK c, d : c = Retain(x, d) /\ d = Weight[r.op] + NODE
        OBVIOUS
    <2>2. r.id \notin DOMAIN x.payloads /\ y = IF Reading(c) THEN [c EXCEPT !.payloads = Filed(c.payloads, r.id, r)] ELSE c
        BY <1>1, <1>4, <2>1 DEF OnAudioData
    <2>3. Charges(x, c, {"retained"}, d)
        BY <1>1, <2>1, RetainCharges
    <2>4. Reading(c) /\ c.payloads = x.payloads
        BY <2>2, <2>3 DEF Charges, Only, Fields
    <2>5. PICK v : v = Filed(x.payloads, r.id, r)
        OBVIOUS
    <2>6. SetIf(c, "payloads", v, y)
        BY <2>2, <2>4, <2>5 DEF SetIf
    <2>7. Only(x, y, {"retained", "payloads"}) /\ y.payloads = v
        BY <1>2, <2>1, <2>6, SetIs
    <2>8. NodeOp["payloads"] = r.op
        BY <1>4 DEF NodeOp
    <2> QED BY <2>2, <2>5, <2>7, <2>8, NodeTakes
<1>5. CASE r.op = "OBJECT_TABLE" /\ y = OnObjectTable(x, r)
    <2>1. PICK c, d : c = Retain(x, d) /\ d = Weight[r.op]
        OBVIOUS
    <2>2. y = IF Reading(c) THEN [c EXCEPT !.table = Some(r)] ELSE c
        BY <1>1, <1>5, <2>1 DEF OnObjectTable
    <2>3. PICK v : v = Some(r)
        OBVIOUS
    <2>4. SetIf(c, "table", v, y)
        BY <2>2, <2>3 DEF SetIf
    <2>5. Only(x, y, {"retained", "table"}) /\ y.table = v
        BY <1>2, <2>1, <2>4, SetIs
    <2>6. "table" \in Ones /\ r.op = OpOf["table"]
        BY <1>5 DEF Ones, OpOf
    <2> QED BY <2>3, <2>5, <2>6, OneTakes
<1> QED BY <1>3, <1>4, <1>5

\* A record of a list is pushed, unless it is read as absent.
Pushes(x, y, r, f) ==
    \/ f \in {"rigs", "tracks"} /\ r.times = <<>> /\ y = x
    \/ Listed(r, f) /\ y = Push(x, f, r, Weight[r.op])

\* Every handler takes what its record says.
LEMMA HandledTakes ==
    ASSUME NEW x, Sound(x), Reading(x), NEW r, r.op = "CHUNK" => Len(r.rows) \in Nat, Reading(Handled(x, r))
    PROVE  TakesRecord(x, Handled(x, r), r)
<1>1. PICK y : y = Handled(x, r)
    OBVIOUS
<1>2. IsScan(x) /\ ~Reading(Refused(x)) /\ Reading(y) /\ y # Refused(x)
    BY <1>1, Gives DEF Sound, Reading
<1>4. CASE r.op = "CHUNK"
    <2>1. y = OnChunk(x, r)
        BY <1>1, <1>4 DEF Handled
    <2>2. PICK S : S = {"decoded", "retained", "intervals", "chunks", "masks"}
        OBVIOUS
    <2>3. Only(x, y, S) /\ TakesChunk(x, y, r)
        BY <1>2, <1>4, <2>1, <2>2, ChunkIs
    <2>4. S \cap Content \subseteq {"chunks"}
        BY <2>2 DEF Content, Ones, Counted
    <2> QED BY <1>1, <1>4, <2>3, <2>4, ChunkTakes
<1>5. CASE r.op = "SH_BAND_STREAM"
    <2>1. y = OnShBandStream(x, r)
        BY <1>1, <1>5 DEF Handled
    <2>2. PICK S : S = {"masks", "decoded", "chunks"}
        OBVIOUS
    <2>3. Only(x, y, S) /\ TakesBand(x, y, r)
        BY <1>2, <1>5, <2>1, <2>2, BandIs
    <2>4. S \cap Content \subseteq {"chunks"}
        BY <2>2 DEF Content, Ones, Counted
    <2> QED BY <1>1, <1>5, <2>3, <2>4, ChunkTakes
<1>6. CASE r.op \in {"AUDIO_SOURCE", "AUDIO_DATA", "OBJECT_TABLE"}
    <2>1. \/ r.op = "AUDIO_SOURCE" /\ y = OnAudioSource(x, r)
          \/ r.op = "AUDIO_DATA" /\ y = OnAudioData(x, r)
          \/ r.op = "OBJECT_TABLE" /\ y = OnObjectTable(x, r)
        BY <1>1, <1>6 DEF Handled
    <2> QED BY <1>1, <1>2, <2>1, SingleTakes
<1>7. CASE r.op = "AUDIO"
    BY <1>1, <1>2, <1>7, LegacyTakes DEF Handled
<1>8. CASE r.op \in {"HEADER", "QUANTIZATION", "WINDOW_TABLE", "CAMERA", "STATISTICS"}
    <2>1. \E f \in Ones : y = Replace(x, f, r) /\ r.op = OpOf[f]
        <3>1. {"header", "quantization", "windows", "camera", "statistics"} \subseteq Ones
            BY DEF Ones
        <3>2. CASE r.op = "HEADER"
            BY <1>1, <1>2, <3>1, <3>2 DEF Handled, OnHeader, OpOf
        <3>3. CASE r.op = "QUANTIZATION"
            BY <1>1, <1>2, <3>1, <3>3 DEF Handled, OnQuantization, OpOf
        <3>4. CASE r.op = "WINDOW_TABLE"
            BY <1>1, <1>2, <3>1, <3>4 DEF Handled, OnWindowTable, OpOf
        <3>5. CASE r.op = "CAMERA"
            BY <1>1, <1>2, <3>1, <3>5 DEF Handled, OnCamera, OpOf
        <3>6. CASE r.op = "STATISTICS"
            BY <1>1, <1>2, <3>1, <3>6 DEF Handled, OnStatistics, OpOf
        <3> QED BY <1>8, <3>2, <3>3, <3>4, <3>5, <3>6
    <2> QED BY <1>1, <1>2, <2>1, ReplaceTakes
<1>9. CASE r.op = "FOOTER"
    <2>1. PICK v : v = IF r.summary_start # 0 /\ r.crc # Digest(<<>>) /\ x.tail_start = r.summary_start
                          /\ x.tail_start + Len(x.tail) = x.at
                       THEN Some(Digest(x.tail) = r.crc) ELSE x.crc_ok
        OBVIOUS
    <2>2. y = [x EXCEPT !.saw_footer = TRUE, !.crc_ok = v]
        BY <1>1, <1>9, <2>1 DEF Handled, OnFooter
    <2>3. PICK S : S = {"saw_footer", "crc_ok"}
        OBVIOUS
    <2>4. Only(x, y, S) /\ S \cap Content = {}
        BY <1>2, <2>2, <2>3 DEF Only, IsScan, Fields, Content, Ones, Counted
    <2>5. r.op \notin OnesOps \cup {"AUDIO_SOURCE", "AUDIO_DATA", "CHUNK", "SH_BAND_STREAM"}
        BY <1>9, KindsApart DEF OpsApart
    <2>6. \A g \in Counted : ~Listed(r, g)
        BY <1>9, KindsApart DEF OpsApart, ListsOps, Listed
    <2> QED BY <1>1, <2>4, <2>5, <2>6, StayTakes
<1>10. CASE r.op \in {"METADATA", "ATTACHMENT", "COORDINATE_FRAME", "SENSOR_CALIBRATION", "GEODETIC_ANCHOR",
                      "SUMMARY_OFFSET", "RIG_TRAJECTORY", "OBJECT_TRACK", "CHUNK_INDEX"}
    <2>1. \E f \in Counted : r.op = ListOp[f] /\ Pushes(x, y, r, f)
        <3>1. /\ \A f \in {"metadata", "attachments", "frames", "sensors", "anchors", "offsets", "index"} :
                     f \in Counted /\ f \notin {"rigs", "tracks"}
              /\ {"rigs", "tracks"} \subseteq Counted
            BY DEF Counted
        <3>2. CASE r.op = "METADATA"
            <4>1. r.op = ListOp["metadata"]
                BY <3>2 DEF ListOp
            <4>2. y = OnMetadata(x, r)
                BY <1>1, <3>2 DEF Handled
            <4>3. Pushes(x, y, r, "metadata")
                BY <1>2, <3>1, <4>1, <4>2 DEF OnMetadata, Pushes, Listed
            <4> QED BY <3>1, <4>1, <4>3
        <3>3. CASE r.op = "ATTACHMENT"
            <4>1. r.op = ListOp["attachments"]
                BY <3>3 DEF ListOp
            <4>2. y = OnAttachment(x, r)
                BY <1>1, <3>3 DEF Handled
            <4>3. Pushes(x, y, r, "attachments")
                BY <1>2, <3>1, <4>1, <4>2 DEF OnAttachment, Pushes, Listed
            <4> QED BY <3>1, <4>1, <4>3
        <3>4. CASE r.op = "COORDINATE_FRAME"
            <4>1. r.op = ListOp["frames"]
                BY <3>4 DEF ListOp
            <4>2. y = OnCoordinateFrame(x, r)
                BY <1>1, <3>4 DEF Handled
            <4>3. Pushes(x, y, r, "frames")
                BY <1>2, <3>1, <4>1, <4>2 DEF OnCoordinateFrame, Pushes, Listed
            <4> QED BY <3>1, <4>1, <4>3
        <3>5. CASE r.op = "SENSOR_CALIBRATION"
            <4>1. r.op = ListOp["sensors"]
                BY <3>5 DEF ListOp
            <4>2. y = OnSensorCalibration(x, r)
                BY <1>1, <3>5 DEF Handled
            <4>3. Pushes(x, y, r, "sensors")
                BY <1>2, <3>1, <4>1, <4>2 DEF OnSensorCalibration, Pushes, Listed
            <4> QED BY <3>1, <4>1, <4>3
        <3>6. CASE r.op = "GEODETIC_ANCHOR"
            <4>1. r.op = ListOp["anchors"]
                BY <3>6 DEF ListOp
            <4>2. y = OnGeodeticAnchor(x, r)
                BY <1>1, <3>6 DEF Handled
            <4>3. Pushes(x, y, r, "anchors")
                BY <1>2, <3>1, <4>1, <4>2 DEF OnGeodeticAnchor, Pushes, Listed
            <4> QED BY <3>1, <4>1, <4>3
        <3>7. CASE r.op = "SUMMARY_OFFSET"
            <4>1. r.op = ListOp["offsets"]
                BY <3>7 DEF ListOp
            <4>2. y = OnSummaryOffset(x, r)
                BY <1>1, <3>7 DEF Handled
            <4>3. Pushes(x, y, r, "offsets")
                BY <1>2, <3>1, <4>1, <4>2 DEF OnSummaryOffset, Pushes, Listed
            <4> QED BY <3>1, <4>1, <4>3
        <3>8. CASE r.op = "RIG_TRAJECTORY"
            <4>1. r.op = ListOp["rigs"]
                BY <3>8 DEF ListOp
            <4>2. y = OnRigTrajectory(x, r)
                BY <1>1, <3>8 DEF Handled
            <4>3. Pushes(x, y, r, "rigs")
                BY <1>2, <3>1, <4>1, <4>2 DEF OnRigTrajectory, Pushes, Listed
            <4> QED BY <3>1, <4>1, <4>3
        <3>9. CASE r.op = "OBJECT_TRACK"
            <4>1. r.op = ListOp["tracks"]
                BY <3>9 DEF ListOp
            <4>2. y = OnObjectTrack(x, r)
                BY <1>1, <3>9 DEF Handled
            <4>3. Pushes(x, y, r, "tracks")
                BY <1>2, <3>1, <4>1, <4>2 DEF OnObjectTrack, Pushes, Listed
            <4> QED BY <3>1, <4>1, <4>3
        <3>10. CASE r.op = "CHUNK_INDEX"
            <4>1. r.op = ListOp["index"]
                BY <3>10 DEF ListOp
            <4>2. y = OnChunkIndex(x, r)
                BY <1>1, <3>10 DEF Handled
            <4>3. Pushes(x, y, r, "index")
                BY <1>2, <3>1, <4>1, <4>2 DEF OnChunkIndex, Pushes, Listed
            <4> QED BY <3>1, <4>1, <4>3
        <3> QED BY <1>10, <3>2, <3>3, <3>4, <3>5, <3>6, <3>7, <3>8, <3>9, <3>10
    <2>2. PICK f \in Counted : r.op = ListOp[f] /\ Pushes(x, y, r, f)
        BY <2>1
    <2>3. CASE f \in {"rigs", "tracks"} /\ r.times = <<>> /\ y = x
        <3>1. PICK S : S = {"outcome"}
            OBVIOUS
        <3>2. Only(x, y, S) /\ S \cap Content = {}
            BY <1>2, <2>3, <3>1 DEF Only, Content, Ones, Counted
        <3>3. r.op \in ListsOps
            BY <2>2 DEF ListsOps
        <3>4. r.op \notin OnesOps \cup {"AUDIO_SOURCE", "AUDIO_DATA", "CHUNK", "SH_BAND_STREAM"}
            BY <3>3, KindsApart DEF OpsApart
        <3>5. \A g \in Counted : ~Listed(r, g)
            BY <2>2, <2>3, KindsApart DEF OpsApart, Listed
        <3> QED BY <1>1, <3>2, <3>4, <3>5, StayTakes
    <2>4. CASE Listed(r, f) /\ y = Push(x, f, r, Weight[r.op])
        BY <1>1, <1>2, <2>4, PushTakes
    <2> QED BY <2>2, <2>3, <2>4 DEF Pushes
<1>11. CASE r.op \notin {"HEADER", "QUANTIZATION", "WINDOW_TABLE", "AUDIO_SOURCE", "AUDIO_DATA", "AUDIO", "CAMERA",
                         "STATISTICS", "OBJECT_TABLE", "CHUNK", "SH_BAND_STREAM", "CHUNK_INDEX", "METADATA", "ATTACHMENT",
                         "COORDINATE_FRAME", "SENSOR_CALIBRATION", "GEODETIC_ANCHOR", "SUMMARY_OFFSET",
                         "RIG_TRAJECTORY", "OBJECT_TRACK", "FOOTER"}
    <2>1. y = Push(x, "skipped", r.op, 0) /\ "skipped" \in Chargeable
        BY <1>1, <1>11 DEF Handled, Chargeable, Fields
    <2>2. Pushed(x, y, "skipped", r.op, 0)
        BY <1>2, <2>1, PushCharges
    <2>3. PICK S : S = {"retained", "skipped"}
        OBVIOUS
    <2>4. Only(x, y, S) /\ S \cap Content = {}
        BY <1>2, <2>2, <2>3 DEF Pushed, Charges, Content, Ones, Counted
    <2>5. r.op \notin OnesOps \cup {"AUDIO_SOURCE", "AUDIO_DATA", "CHUNK", "SH_BAND_STREAM"}
        BY <1>11 DEF OnesOps, Ones, OpOf
    <2>6. \A g \in Counted : ~Listed(r, g)
        BY <1>11 DEF Counted, ListOp, Listed
    <2> QED BY <1>1, <2>4, <2>5, <2>6, StayTakes
<1> QED BY <1>4, <1>5, <1>6, <1>7, <1>8, <1>9, <1>10, <1>11

\* So does a turn of the loop, which counts the record and keeps the options.
LEMMA TurnTakes ==
    ASSUME NEW x, Sound(x), Reading(x), NEW r, r.op = "CHUNK" => Len(r.rows) \in Nat, Reading(OnRecord(x, r)),
           x.at \in Nat
    PROVE  LET y == OnRecord(x, r)
               here == Arrived(x, r)
           IN  /\ TakesRecord(here, y, r) /\ y.options = x.options /\ y.at = x.at + 1
               /\ here.at = x.at + 1 /\ here.options = x.options /\ \A g \in Content : here[g] = x[g]
<1>1. PICK y, here : y = OnRecord(x, r) /\ here = Arrived(x, r)
    OBVIOUS
<1>2. PICK S : S = {"at", "state_seen", "tail", "tail_start"}
    OBVIOUS
<1>3. Only(x, here, S) /\ here.at = x.at + 1
    BY <1>1, <1>2, ArrivedIs DEF Sound
<1>4. \A g \in Content : here[g] = x[g]
    <2>1. \A g \in Content : g \notin S
        BY <1>2 DEF Content, Ones, Counted
    <2> QED BY <1>3, <2>1, ContentStays
<1>5. here.options = x.options
    BY <1>2, <1>3 DEF Only, Fields
<1>6. y = Handled(here, r) /\ Sound(here) /\ Reading(here) /\ Reading(y)
    BY <1>1, TurnIs, ArrivedSound
<1>7. TakesRecord(here, y, r)
    BY <1>6, HandledTakes
<1>8. y.options = here.options /\ y.at = here.at
    <2>1. CASE r.op # "FOOTER"
        <3>1. Handles(here, y)
            BY <1>6, <2>1, HandledHandles
        <3> QED BY <1>6, <3>1 DEF Handles, Steady
    <2>2. CASE r.op = "FOOTER"
        <3>1. y = OnFooter(here, r)
            BY <1>6, <2>2 DEF Handled
        <3>2. PICK v : v = IF /\ r.summary_start # 0 /\ r.crc # Digest(<<>>)
                              /\ here.tail_start = r.summary_start /\ here.tail_start + Len(here.tail) = here.at
                           THEN Some(Digest(here.tail) = r.crc) ELSE here.crc_ok
            OBVIOUS
        <3>3. y = [here EXCEPT !.saw_footer = TRUE, !.crc_ok = v]
            BY <3>1, <3>2 DEF OnFooter
        <3>4. IsScan(here)
            BY <1>6 DEF Sound
        <3> QED BY <3>3, <3>4 DEF IsScan, Fields
    <2> QED BY <2>1, <2>2
<1> QED BY <1>1, <1>3, <1>4, <1>5, <1>7, <1>8

----------------------------------------------------------------------------
(* What the streamed reader holds of the beginning of a file.              *)

\* The places of a beginning of the file that each field is of.
ListPlaces(f, n, g) == {i \in 1 .. n : Listed(f[i], g)}
OpPlaces(f, n, op) == {i \in 1 .. n : f[i].op = op}

\* The bands of the chunk at c that have arrived and that the read decodes.
BandPlaces(f, n, c, cap) ==
    {j \in 1 .. n : /\ c < j /\ f[j].op = "SH_BAND_STREAM" /\ f[j].band <= cap
                    /\ \A k \in 1 .. n : f[k].op = "CHUNK" => ~(c < k /\ k < j)}
ChunkOfFile(f, n, cap, c) ==
    [offset |-> c, t0 |-> f[c].t0, t1 |-> f[c].t1, rows |-> f[c].rows,
     bands |-> {f[j].band : j \in BandPlaces(f, n, c, cap)}]

\* What the streamed reader holds is what the records so far say.
ListsOfFile(f, x) == \A g \in Counted : x[g] = Taken(f, ListPlaces(f, x.at, g))
OnesOfFile(f, x) == \A g \in Ones : x[g] = I!LastOf(Taken(f, OpPlaces(f, x.at, OpOf[g])))
NodesOfFile(f, x) ==
    \A g \in {"sources", "payloads"} :
        /\ DOMAIN x[g] = {f[i].id : i \in OpPlaces(f, x.at, NodeOp[g])}
        /\ \A i \in OpPlaces(f, x.at, NodeOp[g]) : x[g][f[i].id] = f[i]
ChunksOfFile(f, x) ==
    /\ IsSeq(x.chunks) /\ Len(x.chunks) = Len(Ranked(OpPlaces(f, x.at, "CHUNK")))
    /\ \A k \in 1 .. Len(x.chunks) :
          x.chunks[k] = ChunkOfFile(f, x.at, x.options.band, Ranked(OpPlaces(f, x.at, "CHUNK"))[k])
OfFile(f, x) == ListsOfFile(f, x) /\ OnesOfFile(f, x) /\ NodesOfFile(f, x) /\ ChunksOfFile(f, x)

\* One record further on, the places of a kind are the same or one more.
LEMMA PlacesNext ==
    ASSUME NEW f, NEW n \in Nat, NEW op
    PROVE  /\ OpPlaces(f, n, op) \subseteq 1 .. n
           /\ f[n + 1].op = op => OpPlaces(f, n + 1, op) = OpPlaces(f, n, op) \cup {n + 1}
           /\ f[n + 1].op # op => OpPlaces(f, n + 1, op) = OpPlaces(f, n, op)
<1>1. \A i : i \in 1 .. n + 1 <=> i \in 1 .. n \/ i = n + 1
    OBVIOUS
<1> QED BY <1>1 DEF OpPlaces

LEMMA ListPlacesNext ==
    ASSUME NEW f, NEW n \in Nat, NEW g
    PROVE  /\ ListPlaces(f, n, g) \subseteq 1 .. n
           /\ Listed(f[n + 1], g) => ListPlaces(f, n + 1, g) = ListPlaces(f, n, g) \cup {n + 1}
           /\ ~Listed(f[n + 1], g) => ListPlaces(f, n + 1, g) = ListPlaces(f, n, g)
<1>1. \A i : i \in 1 .. n + 1 <=> i \in 1 .. n \/ i = n + 1
    OBVIOUS
<1> QED BY <1>1 DEF ListPlaces

\* The lists of the records so far,
LEMMA ListsNext ==
    ASSUME NEW f, NEW n \in Nat, NEW x, x.at = n, ListsOfFile(f, x), NEW y, y.at = n + 1,
           TakesLists(x, y, f[n + 1])
    PROVE  ListsOfFile(f, y)
<1> SUFFICES ASSUME NEW g \in Counted PROVE y[g] = Taken(f, ListPlaces(f, n + 1, g))
    BY DEF ListsOfFile
<1>1. PICK S, r : S = ListPlaces(f, n, g) /\ r = f[n + 1]
    OBVIOUS
<1>2. S \subseteq 1 .. n /\ x[g] = Taken(f, S)
    BY <1>1, ListPlacesNext DEF ListsOfFile
<1>3. y[g] = IF Listed(r, g) THEN Append(x[g], r) ELSE x[g]
    BY <1>1 DEF TakesLists
<1>4. CASE Listed(r, g)
    <2>1. Taken(f, S \cup {n + 1}) = Append(Taken(f, S), r)
        <3>1. Taken(f, S \cup {n + 1}) = Append(Taken(f, S), f[n + 1])
            BY ONLY <1>2, n \in Nat, TakenNext
        <3> QED BY <1>1, <3>1
    <2>2. ListPlaces(f, n + 1, g) = S \cup {n + 1}
        BY <1>1, <1>4, ListPlacesNext
    <2> QED BY <1>2, <1>3, <1>4, <2>1, <2>2
<1>5. CASE ~Listed(r, g)
    BY <1>1, <1>2, <1>3, <1>5, ListPlacesNext
<1> QED BY <1>4, <1>5

\* the latest of each kind,
LEMMA OnesNext ==
    ASSUME NEW f, NEW n \in Nat, NEW x, x.at = n, OnesOfFile(f, x), NEW y, y.at = n + 1,
           TakesOnes(x, y, f[n + 1])
    PROVE  OnesOfFile(f, y)
<1> SUFFICES ASSUME NEW g \in Ones PROVE y[g] = I!LastOf(Taken(f, OpPlaces(f, n + 1, OpOf[g])))
    BY DEF OnesOfFile
<1>1. PICK S, r, op : S = OpPlaces(f, n, op) /\ r = f[n + 1] /\ op = OpOf[g]
    OBVIOUS
<1>2. S \subseteq 1 .. n /\ x[g] = I!LastOf(Taken(f, S))
    BY <1>1, PlacesNext DEF OnesOfFile
<1>3. y[g] = IF r.op = op THEN Some(r) ELSE x[g]
    BY <1>1 DEF TakesOnes
<1>4. CASE r.op = op
    <2>1. Taken(f, S \cup {n + 1}) = Append(Taken(f, S), r)
        BY <1>1, <1>2, TakenNext
    <2>2. OpPlaces(f, n + 1, op) = S \cup {n + 1}
        BY <1>1, <1>4, PlacesNext
    <2>3. PICK l : l = Taken(f, S) /\ IsSeq(l)
        BY <1>2, TakenIs
    <2>4. I!LastOf(Append(l, r)) = Some(r)
        BY <2>3, LastOfNext
    <2> QED BY <1>1, <1>3, <1>4, <2>1, <2>2, <2>3, <2>4
<1>5. CASE r.op # op
    BY <1>1, <1>2, <1>3, <1>5, PlacesNext
<1> QED BY <1>4, <1>5

\* the audio descriptors and payloads under their ids,
LEMMA NodesNext ==
    ASSUME NEW f, NEW n \in Nat, NEW x, x.at = n, NodesOfFile(f, x), NEW y, y.at = n + 1,
           TakesNodes(x, y, f[n + 1])
    PROVE  NodesOfFile(f, y)
<1> SUFFICES ASSUME NEW g \in {"sources", "payloads"}
             PROVE  /\ DOMAIN y[g] = {f[i].id : i \in OpPlaces(f, n + 1, NodeOp[g])}
                    /\ \A i \in OpPlaces(f, n + 1, NodeOp[g]) : y[g][f[i].id] = f[i]
    BY DEF NodesOfFile
<1>1. PICK S, T, r, op : S = OpPlaces(f, n, op) /\ T = OpPlaces(f, n + 1, op) /\ r = f[n + 1] /\ op = NodeOp[g]
    OBVIOUS
<1>2. PICK a, b : a = x[g] /\ b = y[g]
    OBVIOUS
<1>3. DOMAIN a = {f[i].id : i \in S} /\ \A i \in S : a[f[i].id] = f[i]
    BY <1>1, <1>2 DEF NodesOfFile
<1>4. (r.op = op => r.id \notin DOMAIN a /\ b = Filed(a, r.id, r)) /\ (r.op # op => b = a)
    BY <1>1, <1>2 DEF TakesNodes
<1>5. (r.op = op => T = S \cup {n + 1}) /\ (r.op # op => T = S)
    BY <1>1, PlacesNext
<1>6. CASE r.op = op
    <2>1. DOMAIN b = DOMAIN a \cup {r.id} /\ \A k \in DOMAIN b : b[k] = IF k = r.id THEN r ELSE a[k]
        BY <1>4, <1>6 DEF Filed
    <2>2. DOMAIN b = {f[i].id : i \in T}
        BY <1>1, <1>3, <1>5, <1>6, <2>1
    <2>3. ASSUME NEW i \in T PROVE b[f[i].id] = f[i]
        <3>1. CASE i = n + 1
            BY <1>1, <2>1, <3>1
        <3>2. CASE i \in S
            <4>1. f[i].id \in DOMAIN a /\ f[i].id # r.id
                BY <1>3, <1>4, <1>6, <3>2
            <4> QED BY <1>3, <2>1, <3>2, <4>1
        <3> QED BY <1>5, <1>6, <3>1, <3>2
    <2> QED BY <1>1, <1>2, <2>2, <2>3
<1>7. CASE r.op # op
    BY <1>1, <1>2, <1>3, <1>4, <1>5, <1>7
<1> QED BY <1>6, <1>7

\* the bands of a chunk: a record that is none, or none the read decodes, changes nothing,
LEMMA BandsStay ==
    ASSUME NEW f, NEW n \in Nat, NEW c \in Nat, NEW cap,
           \/ f[n + 1].op # "SH_BAND_STREAM"
           \/ ~(f[n + 1].band <= cap)
           \/ \E k \in 1 .. n : f[k].op = "CHUNK" /\ c < k
    PROVE  BandPlaces(f, n + 1, c, cap) = BandPlaces(f, n, c, cap)
<1>1. ASSUME NEW j \in BandPlaces(f, n + 1, c, cap) PROVE j \in BandPlaces(f, n, c, cap)
    <2>1. /\ j \in 1 .. n + 1 /\ c < j /\ f[j].op = "SH_BAND_STREAM" /\ f[j].band <= cap
          /\ \A k \in 1 .. n + 1 : f[k].op = "CHUNK" => ~(c < k /\ k < j)
        BY <1>1 DEF BandPlaces
    <2>2. j # n + 1
        <3>1. \A k \in 1 .. n : k \in 1 .. n + 1 /\ k < n + 1
            OBVIOUS
        <3> QED BY <2>1, <3>1
    <2>3. j \in 1 .. n /\ \A k \in 1 .. n : k \in 1 .. n + 1
        BY <2>1, <2>2
    <2> QED BY <2>1, <2>3 DEF BandPlaces
<1>2. ASSUME NEW j \in BandPlaces(f, n, c, cap) PROVE j \in BandPlaces(f, n + 1, c, cap)
    <2>1. /\ j \in 1 .. n /\ c < j /\ f[j].op = "SH_BAND_STREAM" /\ f[j].band <= cap
          /\ \A k \in 1 .. n : f[k].op = "CHUNK" => ~(c < k /\ k < j)
        BY <1>2 DEF BandPlaces
    <2>2. \A k \in 1 .. n + 1 : k \in 1 .. n \/ ~(k < j)
        BY <2>1
    <2>3. j \in 1 .. n + 1
        BY <2>1
    <2> QED BY <2>1, <2>2, <2>3 DEF BandPlaces
<1> QED BY <1>1, <1>2

\* No chunk begins after c.
LastChunk(f, n, c) == \A k \in 1 .. n : f[k].op = "CHUNK" => k <= c

\* one that is decoded joins those of the chunk it follows,
JoinsBand(f, n, c, cap) ==
    c \in 1 .. n /\ f[n + 1].op = "SH_BAND_STREAM" /\ f[n + 1].band <= cap /\ LastChunk(f, n, c)

LEMMA BandsGrow ==
    ASSUME NEW f, NEW n \in Nat, NEW c, NEW cap, JoinsBand(f, n, c, cap)
    PROVE  BandPlaces(f, n + 1, c, cap) = BandPlaces(f, n, c, cap) \cup {n + 1}
<1>20. c \in 1 .. n /\ f[n + 1].op = "SH_BAND_STREAM" /\ f[n + 1].band <= cap /\ LastChunk(f, n, c)
    BY DEF JoinsBand
<1>1. ASSUME NEW j \in BandPlaces(f, n + 1, c, cap), j # n + 1 PROVE j \in BandPlaces(f, n, c, cap)
    <2>1. /\ j \in 1 .. n + 1 /\ c < j /\ f[j].op = "SH_BAND_STREAM" /\ f[j].band <= cap
          /\ \A k \in 1 .. n + 1 : f[k].op = "CHUNK" => ~(c < k /\ k < j)
        BY <1>1 DEF BandPlaces
    <2>2. j \in 1 .. n /\ \A k \in 1 .. n : k \in 1 .. n + 1
        BY <1>1, <2>1
    <2> QED BY <2>1, <2>2 DEF BandPlaces
<1>2. ASSUME NEW j \in BandPlaces(f, n, c, cap) PROVE j \in BandPlaces(f, n + 1, c, cap)
    <2>1. /\ j \in 1 .. n /\ c < j /\ f[j].op = "SH_BAND_STREAM" /\ f[j].band <= cap
          /\ \A k \in 1 .. n : f[k].op = "CHUNK" => ~(c < k /\ k < j)
        BY <1>2 DEF BandPlaces
    <2>2. \A k \in 1 .. n + 1 : k \in 1 .. n \/ ~(k < j)
        BY <2>1
    <2>3. j \in 1 .. n + 1
        BY <2>1
    <2> QED BY <2>1, <2>2, <2>3 DEF BandPlaces
<1>3. n + 1 \in BandPlaces(f, n + 1, c, cap)
    <2>1. c < n + 1 /\ n + 1 \in 1 .. n + 1
        BY <1>20
    <2>2. ASSUME NEW k \in 1 .. n + 1, f[k].op = "CHUNK" PROVE ~(c < k /\ k < n + 1)
        <3>1. k # n + 1
            BY <1>20, <2>2
        <3>2. k \in 1 .. n
            BY <3>1
        <3>3. k <= c
            BY <1>20, <2>2, <3>2 DEF LastChunk
        <3> QED BY <1>20, <3>3
    <2> QED BY <1>20, <2>1, <2>2 DEF BandPlaces
<1> QED BY <1>1, <1>2, <1>3

\* and a chunk just begun has none.
LEMMA BandsNone ==
    ASSUME NEW f, NEW n \in Nat, NEW cap
    PROVE  BandPlaces(f, n, n, cap) = {}
<1>1. \A j \in 1 .. n : ~(n < j)
    OBVIOUS
<1> QED BY <1>1 DEF BandPlaces

\* So the chunks are those of the records so far, each with its bands.
LEMMA ChunksNext ==
    ASSUME NEW f, NEW n \in Nat, NEW x, x.at = n, ChunksOfFile(f, x), NEW y, y.at = n + 1,
           NEW cap \in Nat, x.options.band = cap, y.options.band = cap,
           NEW h, h.at = n + 1, h.chunks = x.chunks, h.options.band = cap, TakesChunks(h, y, f[n + 1])
    PROVE  ChunksOfFile(f, y)
<1>1. PICK S, p, r, T : S = OpPlaces(f, n, "CHUNK") /\ p = Ranked(S) /\ r = f[n + 1] /\ T = OpPlaces(f, n + 1, "CHUNK")
    OBVIOUS
<1>2. S \subseteq 1 .. n /\ (r.op = "CHUNK" => T = S \cup {n + 1}) /\ (r.op # "CHUNK" => T = S)
    BY <1>1, PlacesNext
<1>3. Enumerates(p, S)
    BY <1>1, <1>2, RankedEnumerates
<1>4. PICK c \in Nat : c = Len(p)
    BY <1>3 DEF Enumerates, IsSeq
<1>5. PICK a, b : a = x.chunks /\ b = y.chunks
    OBVIOUS
<1>6. IsSeq(a) /\ Len(a) = c /\ \A k \in 1 .. c : a[k] = ChunkOfFile(f, n, cap, p[k])
    BY <1>1, <1>4, <1>5 DEF ChunksOfFile
<1>7. \A k \in 1 .. c : p[k] \in 1 .. n /\ p[k] \in Nat /\ f[p[k]].op = "CHUNK"
    <2>1. \A k \in 1 .. c : p[k] \in S
        BY <1>3, <1>4 DEF Enumerates
    <2> QED BY <1>1, <1>2, <2>1 DEF OpPlaces
<1>8. ASSUME NEW k \in 1 .. c, r.op # "SH_BAND_STREAM" \/ ~(r.band <= cap) \/ k < c
      PROVE  ChunkOfFile(f, n + 1, cap, p[k]) = a[k]
    <2>1. PICK d \in Nat : d = p[k]
        BY <1>7
    <2>2. k < c => \E e \in 1 .. n : f[e].op = "CHUNK" /\ d < e
        <3> SUFFICES ASSUME k < c PROVE \E e \in 1 .. n : f[e].op = "CHUNK" /\ d < e
            OBVIOUS
        <3>1. c \in 1 .. c
            OBVIOUS
        <3>2. p[k] < p[c]
            BY <1>3, <1>4, <3>1 DEF Enumerates
        <3> QED BY <1>7, <2>1, <3>1, <3>2
    <2>3. BandPlaces(f, n + 1, d, cap) = BandPlaces(f, n, d, cap)
        BY <1>1, <1>8, <2>2, BandsStay
    <2> QED BY <1>6, <2>1, <2>3 DEF ChunkOfFile
<1>9. CASE r.op = "CHUNK"
    <2>1. PICK v : v = [offset |-> n + 1, t0 |-> r.t0, t1 |-> r.t1, rows |-> r.rows, bands |-> {}]
        OBVIOUS
    <2>2. b = Append(a, v)
        BY <1>1, <1>5, <1>9, <2>1 DEF TakesChunks, TakesChunk
    <2>3. v = ChunkOfFile(f, n + 1, cap, n + 1)
        <3>1. BandPlaces(f, n + 1, n + 1, cap) = {}
            BY BandsNone
        <3> QED BY <1>1, <2>1, <3>1 DEF ChunkOfFile
    <2>4. Ranked(T) = Append(p, n + 1)
        BY <1>1, <1>2, <1>9, RankedNext
    <2>5. PICK q : q = Ranked(T) /\ Len(q) = c + 1 /\ (\A k \in 1 .. c : q[k] = p[k]) /\ q[c + 1] = n + 1
        BY <1>3, <1>4, <2>4, AppendIsSeq DEF Enumerates
    <2>6. IsSeq(b) /\ Len(b) = c + 1 /\ (\A k \in 1 .. c : b[k] = a[k]) /\ b[c + 1] = v
        BY <1>6, <2>2, AppendIsSeq
    <2>7. ASSUME NEW k \in 1 .. c + 1 PROVE b[k] = ChunkOfFile(f, n + 1, cap, q[k])
        <3>1. CASE k = c + 1
            BY <2>3, <2>5, <2>6, <3>1
        <3>2. CASE k \in 1 .. c
            BY <1>8, <1>9, <2>5, <2>6, <3>2
        <3> QED BY <3>1, <3>2
    <2> QED BY <1>1, <1>5, <2>5, <2>6, <2>7 DEF ChunksOfFile
<1>10. CASE r.op = "SH_BAND_STREAM" /\ c > 0 /\ r.band <= cap
    <2>1. r.band \in Bands /\ ~(r.band > cap)
        <3>1. r.band \in Bands
            BY <1>1, <1>10 DEF TakesChunks, TakesBand
        <3> QED BY <1>10, <3>1 DEF Bands
    <2>2. a # <<>>
        BY <1>6, <1>10, EmptyIsSeq
    <2>3. b = [a EXCEPT ![c].bands = @ \cup {r.band}]
        BY <1>1, <1>5, <1>6, <1>10, <2>1, <2>2 DEF TakesChunks, TakesBand
    <2>4. c \in 1 .. c /\ DOMAIN a = 1 .. c
        BY <1>6, <1>10 DEF IsSeq
    <2>5. PICK d \in 1 .. n : d = p[c]
        BY <1>7, <2>4
    <2>6. LastChunk(f, n, d)
        <3> SUFFICES ASSUME NEW k \in 1 .. n, f[k].op = "CHUNK" PROVE k <= d
            BY DEF LastChunk
        <3>1. k \in S
            BY <1>1 DEF OpPlaces
        <3>2. PICK i \in 1 .. c : p[i] = k
            BY <1>3, <1>4, <3>1 DEF Enumerates
        <3>3. i = c \/ i < c
            OBVIOUS
        <3>4. i < c => p[i] < p[c]
            BY <1>3, <1>4, <2>4 DEF Enumerates
        <3> QED BY <2>5, <3>2, <3>3, <3>4
    <2>7. BandPlaces(f, n + 1, d, cap) = BandPlaces(f, n, d, cap) \cup {n + 1}
        <3>1. JoinsBand(f, n, d, cap)
            BY <1>1, <1>10, <2>5, <2>6 DEF JoinsBand
        <3> QED BY <3>1, BandsGrow
    <2>8. b[c] = ChunkOfFile(f, n + 1, cap, d)
        <3>1. PICK A, B : A = BandPlaces(f, n, d, cap) /\ B = BandPlaces(f, n + 1, d, cap)
            OBVIOUS
        <3>2. {f[j].band : j \in B} = {f[j].band : j \in A} \cup {r.band}
            BY <1>1, <2>7, <3>1
        <3>3. a[c] = [offset |-> d, t0 |-> f[d].t0, t1 |-> f[d].t1, rows |-> f[d].rows, bands |-> {f[j].band : j \in A}]
            BY <1>6, <2>4, <2>5, <3>1 DEF ChunkOfFile
        <3>4. b[c] = [a[c] EXCEPT !.bands = @ \cup {r.band}]
            BY <2>3, <2>4
        <3>5. PICK u, w : u = {f[j].band : j \in A} /\ w = {f[j].band : j \in B}
            OBVIOUS
        <3>6. b[c] = [offset |-> d, t0 |-> f[d].t0, t1 |-> f[d].t1, rows |-> f[d].rows, bands |-> w]
            <4>1. PICK z, t0, t1, rows : z = a[c] /\ t0 = f[d].t0 /\ t1 = f[d].t1 /\ rows = f[d].rows
                OBVIOUS
            <4>2. z = [offset |-> d, t0 |-> t0, t1 |-> t1, rows |-> rows, bands |-> u]
                BY <3>3, <3>5, <4>1
            <4>3. b[c] = [z EXCEPT !.bands = z.bands \cup {r.band}] /\ w = u \cup {r.band}
                BY <3>2, <3>4, <3>5, <4>1
            <4>4. b[c] = [offset |-> d, t0 |-> t0, t1 |-> t1, rows |-> rows, bands |-> w]
                BY ONLY <4>2, <4>3
            <4> QED BY <4>1, <4>4
        <3> QED BY <3>1, <3>5, <3>6 DEF ChunkOfFile
    <2>9. IsSeq(b) /\ Len(b) = c /\ \A k \in 1 .. c : k # c => b[k] = a[k]
        <3>1. PICK v : v = [a[c] EXCEPT !.bands = @ \cup {r.band}]
            OBVIOUS
        <3>2. b = [a EXCEPT ![c] = v]
            BY <2>3, <3>1
        <3>3. b = [k \in 1 .. c |-> IF k = c THEN v ELSE a[k]]
            BY <2>4, <3>2
        <3>4. Len(b) = c
            BY <3>3
        <3> QED BY <3>3, <3>4 DEF IsSeq
    <2>10. ASSUME NEW k \in 1 .. c PROVE b[k] = ChunkOfFile(f, n + 1, cap, p[k])
        <3>1. CASE k = c
            BY <2>5, <2>8, <3>1
        <3>2. CASE k # c
            BY <1>8, <2>9, <3>2
        <3> QED BY <3>1, <3>2
    <2>11. Ranked(T) = p
        BY <1>1, <1>2, <1>10
    <2> QED BY <1>1, <1>4, <1>5, <2>9, <2>10, <2>11 DEF ChunksOfFile
<1>11. CASE r.op # "CHUNK" /\ (r.op # "SH_BAND_STREAM" \/ c = 0 \/ ~(r.band <= cap))
    <2>1. b = a
        <3>1. CASE r.op # "SH_BAND_STREAM"
            BY <1>1, <1>5, <1>11, <3>1 DEF TakesChunks
        <3>2. CASE r.op = "SH_BAND_STREAM"
            <4>1. c = 0 => a = <<>>
                BY <1>6, EmptyIsSeq, SameSeq
            <4>2. r.band \in Bands
                BY <1>1, <3>2 DEF TakesChunks, TakesBand
            <4>3. a = <<>> \/ r.band > cap
                BY <1>11, <3>2, <4>1, <4>2 DEF Bands
            <4> QED BY <1>1, <1>5, <3>2, <4>3 DEF TakesChunks, TakesBand
        <3> QED BY <3>1, <3>2
    <2>2. Ranked(T) = p
        BY <1>1, <1>2, <1>11
    <2>3. \A k \in 1 .. c : b[k] = ChunkOfFile(f, n + 1, cap, p[k])
        <3> SUFFICES ASSUME NEW k \in 1 .. c PROVE b[k] = ChunkOfFile(f, n + 1, cap, p[k])
            OBVIOUS
        <3>1. c # 0
            OBVIOUS
        <3> QED BY <1>8, <1>11, <2>1, <3>1
    <2> QED BY <1>1, <1>4, <1>5, <1>6, <2>1, <2>2, <2>3 DEF ChunksOfFile
<1> QED BY <1>9, <1>10, <1>11

\* Before the first record the reader holds nothing.
LEMMA OpenedOfFile ==
    ASSUME NEW f, NEW o
    PROVE  OfFile(f, Opened(o)) /\ Opened(o).options = o /\ Opened(o).at = 0 /\ Reading(Opened(o))
<1>20. PICK n \in Nat : n = 0
    OBVIOUS
<1>1. PICK x : x = Opened(o)
    OBVIOUS
<1>2. x.at = n /\ x.options = o /\ Reading(x) /\ x.chunks = <<>>
    BY <1>1, <1>20 DEF Opened, Reading
<1>3. (\A g \in Counted : x[g] = <<>>) /\ (\A g \in Ones : x[g] = None)
    BY <1>1 DEF Opened, Counted, Ones
<1>4. \A g \in {"sources", "payloads"} : DOMAIN x[g] = {}
    BY <1>1 DEF Opened
<1>5. 1 .. n = {}
    BY <1>20
<1>6. (\A g : ListPlaces(f, n, g) = {}) /\ (\A op : OpPlaces(f, n, op) = {})
    BY <1>5 DEF ListPlaces, OpPlaces
<1>7. Taken(f, {}) = <<>> /\ I!LastOf(<<>>) = None /\ Ranked({}) = <<>> /\ IsSeq(<<>>) /\ Len(<<>>) = n
    BY <1>20, TakenNone, LastOfNone, RankedNone, EmptyIsSeq
<1>8. ListsOfFile(f, x)
    BY <1>2, <1>3, <1>6, <1>7 DEF ListsOfFile
<1>9. OnesOfFile(f, x)
    BY <1>2, <1>3, <1>6, <1>7 DEF OnesOfFile
<1>10. NodesOfFile(f, x)
    BY <1>2, <1>4, <1>6 DEF NodesOfFile
<1>11. ChunksOfFile(f, x)
    BY <1>2, <1>5, <1>6, <1>7 DEF ChunksOfFile
<1> QED BY <1>1, <1>2, <1>20, <1>8, <1>9, <1>10, <1>11 DEF OfFile

\* One record on, it holds what the records up to that one say.
LEMMA TurnOfFile ==
    ASSUME NEW f \in FILES, NEW x, Sound(x), Reading(x), NEW n \in Nat, x.at = n, n + 1 \in 1 .. Len(f), OfFile(f, x),
           x.options \in OPTIONS, NEW y, y = OnRecord(x, f[n + 1]), Reading(y)
    PROVE  OfFile(f, y) /\ y.options = x.options /\ y.at = n + 1
<1>1. PICK r, h : r = f[n + 1] /\ h = Arrived(x, r)
    OBVIOUS
<1>2. r.op = "CHUNK" => Len(r.rows) \in Nat
    BY <1>1, FileIs
<1>3. /\ TakesRecord(h, y, r) /\ y.options = x.options /\ y.at = n + 1
      /\ h.at = n + 1 /\ h.options = x.options /\ \A g \in Content : h[g] = x[g]
    BY <1>1, <1>2, TurnTakes
<1>4. PICK cap \in Nat : cap = x.options.band
    BY OptionAssumption
<1>5. ListsOfFile(f, x) /\ OnesOfFile(f, x) /\ NodesOfFile(f, x) /\ ChunksOfFile(f, x)
    BY DEF OfFile
<1>6. TakesLists(h, y, r) /\ TakesOnes(h, y, r) /\ TakesNodes(h, y, r) /\ TakesChunks(h, y, r)
    BY <1>3 DEF TakesRecord
<1>7. ListsOfFile(f, y)
    <2>1. TakesLists(x, y, f[n + 1])
        BY <1>1, <1>3, <1>6 DEF TakesLists, Content
    <2> QED BY <1>3, <1>5, <2>1, ListsNext
<1>8. OnesOfFile(f, y)
    <2>1. TakesOnes(x, y, f[n + 1])
        BY <1>1, <1>3, <1>6 DEF TakesOnes, Content
    <2> QED BY <1>3, <1>5, <2>1, OnesNext
<1>9. NodesOfFile(f, y)
    <2>1. TakesNodes(x, y, f[n + 1])
        BY <1>1, <1>3, <1>6 DEF TakesNodes, Content
    <2> QED BY <1>3, <1>5, <2>1, NodesNext
<1>10. ChunksOfFile(f, y)
    <2>1. h.chunks = x.chunks
        BY <1>3 DEF Content
    <2>2. TakesChunks(h, y, f[n + 1])
        BY <1>1, <1>6
    <2> QED BY <1>3, <1>4, <1>5, <2>1, <2>2, ChunksNext
<1> QED BY <1>3, <1>7, <1>8, <1>9, <1>10 DEF OfFile

\* While the streamed reader reads it holds what the file so far says; an uncut reading has read it all, and has
\* asked the other reader of the same file.
BothRead ==
    /\ ReadInv
    /\ options \in OPTIONS
    /\ Reading(s) => s.options = options /\ OfFile(file, s)
    /\ clean => /\ streamed = Finish(s, TRUE) /\ indexed = I!OpenIndexed(file, TRUE, options)
                /\ Reading(s) => s.at = Len(file)

LEMMA BothInit == Init => BothRead
<1> SUFFICES ASSUME Init PROVE BothRead
    OBVIOUS
<1>1. options \in OPTIONS /\ s = Opened(options) /\ ~clean
    BY DEF Init, clean
<1>2. PICK f, x, o : f = file /\ x = s /\ o = options
    OBVIOUS
<1>3. OfFile(f, x) /\ x.options = o
    BY <1>1, <1>2, OpenedOfFile
<1>4. s.options = options /\ OfFile(file, s)
    BY <1>2, <1>3
<1> QED BY <1>1, <1>4, ReadInit DEF BothRead

LEMMA BothInductive == BothRead /\ [Next]_vars => BothRead'
<1> SUFFICES ASSUME BothRead, [Next]_vars PROVE BothRead'
    OBVIOUS
<1>1. ReadInv /\ ReadInv'
    BY ReadInductive DEF BothRead
<1>2. PICK f, o, x : f = file /\ o = options /\ x = s
    OBVIOUS
<1>3. f \in FILES /\ o \in OPTIONS /\ Sound(x) /\ (Reading(x) => x.options = o /\ OfFile(f, x) /\ x.at \in 0 .. Len(f))
    BY <1>1, <1>2 DEF BothRead, ReadInv
<1>4. CASE ReadRecord
    <2>1. Reading(x) /\ x.at < Len(f) /\ s' = OnRecord(x, f[x.at + 1]) /\ file' = f /\ options' = o /\ ~clean'
        BY <1>2, <1>4 DEF ReadRecord, Reads, clean
    <2>2. PICK y : y = OnRecord(x, f[x.at + 1]) /\ s' = y
        BY <2>1
    <2>3. PICK n \in Nat : n = x.at /\ n + 1 \in 1 .. Len(f)
        <3>1. Len(f) \in Nat
            BY <1>3, FileIs DEF IsSeq
        <3> QED BY <1>3, <2>1, <3>1
    <2>4. Reading(y) => OfFile(f, y) /\ y.options = o
        BY <1>3, <2>1, <2>2, <2>3, TurnOfFile
    <2>5. (Reading(s) => s.options = options /\ OfFile(file, s))'
        BY <2>1, <2>2, <2>4
    <2>6. (options \in OPTIONS)'
        BY <1>3, <2>1
    <2> QED BY <1>1, <2>1, <2>5, <2>6 DEF BothRead
<1>5. ASSUME NEW arrived, NEW end, Deliver(arrived, end),
             end = "whole" => arrived = file /\ s' = s /\ (Reading(s) => s.at = Len(file)),
             s' = s \/ ~Reading(s')
      PROVE  BothRead'
    <2>1. PICK y : y = s'
        OBVIOUS
    <2>2. /\ ending' = end /\ streamed' = Finish(s', end = "whole") /\ indexed' = I!OpenIndexed(arrived, end = "whole", o)
          /\ file' = f /\ options' = o
        BY <1>2, <1>5 DEF Deliver
    <2>3. (Reading(s) => s.options = options /\ OfFile(file, s))'
        <3>1. Reading(y) => y = x
            BY <1>2, <1>5, <2>1
        <3>2. Reading(y) => y.options = o /\ OfFile(f, y)
            BY <1>3, <3>1
        <3> QED BY <2>1, <2>2, <3>2
    <2>4. ASSUME clean'
          PROVE  (/\ streamed = Finish(s, TRUE) /\ indexed = I!OpenIndexed(file, TRUE, options)
                  /\ Reading(s) => s.at = Len(file))'
        <3>1. end = "whole" /\ arrived = f /\ y = x /\ (Reading(x) => x.at = Len(f))
            BY <1>2, <1>5, <2>1, <2>2, <2>4 DEF clean
        <3>2. (end = "whole") = TRUE
            BY <3>1
        <3>3. streamed' = Finish(y, TRUE) /\ indexed' = I!OpenIndexed(f, TRUE, o)
            BY <2>1, <2>2, <3>1, <3>2
        <3> QED BY <2>1, <2>2, <3>1, <3>3
    <2>5. (options \in OPTIONS)'
        BY <1>3, <2>2
    <2> QED BY <1>1, <2>3, <2>4, <2>5 DEF BothRead
<1>6. CASE EndOfFile
    BY <1>5, <1>6 DEF EndOfFile
<1>7. CASE CutBetween
    BY <1>5, <1>7 DEF CutBetween
<1>8. CASE CutInside
    <2>1. PICK body \in BOOLEAN : s' = OnPartial(s, file[s.at + 1], body)
        BY <1>8 DEF CutInside
    <2>2. PICK r : r = file[s.at + 1]
        OBVIOUS
    <2>3. Reading(x) /\ Deliver(SubSeq(file, 1, s.at), "cut")
        BY <1>2, <1>8 DEF CutInside
    <2>4. ~Reading(OnPartial(x, r, body))
        BY <1>3, <2>3, PartialIs
    <2>5. ~Reading(s')
        BY <1>2, <2>1, <2>2, <2>4
    <2> QED BY <1>5, <2>3, <2>5
<1>9. CASE Abandon
    BY <1>5, <1>9 DEF Abandon
<1>10. CASE UNCHANGED vars
    <2>1. PICK st, ix, en : st = streamed /\ ix = indexed /\ en = ending
        OBVIOUS
    <2> QED BY <1>1, <1>10 DEF vars, BothRead, clean
<1> QED BY <1>4, <1>6, <1>7, <1>8, <1>9, <1>10 DEF Next

----------------------------------------------------------------------------
(* What the indexed reader finds in the front matter.                      *)

\* The field of its findings the indexed reader's walk keeps a record in.
FieldOf == [HEADER |-> "header", QUANTIZATION |-> "quantization", WINDOW_TABLE |-> "windows", AUDIO |-> "legacy",
            AUDIO_SOURCE |-> "sources", AUDIO_DATA |-> "payloads", OBJECT_TRACK |-> "tracks", CAMERA |-> "camera",
            METADATA |-> "metadata", ATTACHMENT |-> "attachments", OBJECT_TABLE |-> "tables",
            COORDINATE_FRAME |-> "provenance", SENSOR_CALIBRATION |-> "provenance",
            RIG_TRAJECTORY |-> "provenance", GEODETIC_ANCHOR |-> "provenance"]
FieldFor(r) == IF r.op \in FrontMatter THEN FieldOf[r.op] ELSE "none"

Parsed == {"header", "quantization", "windows", "legacy"}
Located == {"metadata", "attachments", "tables", "provenance"}
Facts == {"sources", "payloads"}
Findings == Parsed \cup Located \cup Facts \cup {"camera", "tracks"}
IsFront(x) == x = [g \in Findings \cup {"refusal"} |-> x[g]]

\* What the walk finds in the record r, at the place at.
Finds(x, y, r, at, g) ==
    /\ g \in Parsed => y[g] = Some(r)
    /\ g \in Located => y[g] = Append(x[g], at)
    /\ g = "camera" => y[g] = Some(at)
    /\ g \in Facts => r.id \notin DOMAIN x[g] /\ \E v : v.length = r.length /\ y[g] = Filed(x[g], r.id, v)
    /\ g = "tracks" => \E o : o \notin DOMAIN x[g] /\ y[g] = Filed(x[g], o, at)
FindsOnly(x, y, r, at) ==
    \A g \in Findings : (g = FieldFor(r) => Finds(x, y, r, at, g)) /\ (g # FieldFor(r) => y[g] = x[g])

\* What it has found is what those records say.
Found(f, S, x, g) ==
    /\ g \in Parsed => x[g] = I!LastOf(Taken(f, S))
    /\ g \in Located => x[g] = Ranked(S)
    /\ g = "camera" => x[g] = I!LastOf(Ranked(S))
    /\ g \in Facts => DOMAIN x[g] = {f[i].id : i \in S} /\ \A i \in S : x[g][f[i].id].length = f[i].length
    /\ g = "tracks" => I!Range(x[g]) = S
FieldPlaces(f, n, g) == {i \in 1 .. n : FieldFor(f[i]) = g}
FrontFound(f, n, x) == \A g \in Findings : Found(f, FieldPlaces(f, n, g), x, g)

\* One record more is found,
LEMMA FoundMore ==
    ASSUME NEW f, NEW n \in Nat, NEW S, S \subseteq 1 .. n, NEW x, NEW y, NEW g \in Findings,
           Found(f, S, x, g), Finds(x, y, f[n + 1], n + 1, g)
    PROVE  Found(f, S \cup {n + 1}, y, g)
<1>1. PICK r, m, T : r = f[n + 1] /\ m = n + 1 /\ T = S \cup {n + 1}
    OBVIOUS
<1>2. PICK p, l : p = Ranked(S) /\ l = Taken(f, S)
    OBVIOUS
<1>3. IsSeq(p) /\ IsSeq(l)
    BY <1>2, TakenIs, RankedEnumerates DEF Enumerates
<1>4. Ranked(T) = Append(p, m)
    BY <1>1, <1>2, RankedNext
<1>5. Taken(f, T) = Append(l, r)
    <2>1. Taken(f, S \cup {n + 1}) = Append(Taken(f, S), f[n + 1])
        BY ONLY S \subseteq 1 .. n, n \in Nat, TakenNext
    <2> QED BY <1>1, <1>2, <2>1
<1>6. I!LastOf(Append(l, r)) = Some(r) /\ I!LastOf(Append(p, m)) = Some(m)
    BY <1>3, LastOfNext
<1>7. CASE g \in Parsed
    <2>1. y[g] = I!LastOf(Taken(f, T))
        BY <1>1, <1>5, <1>6, <1>7 DEF Finds
    <2> QED BY <1>1, <1>7, <2>1 DEF Found, Parsed, Located, Facts
<1>8. CASE g \in Located
    <2>1. y[g] = Ranked(T)
        BY <1>1, <1>2, <1>4, <1>8 DEF Finds, Found
    <2> QED BY <1>1, <1>8, <2>1 DEF Found, Parsed, Located, Facts
<1>9. CASE g = "camera"
    <2>1. y[g] = I!LastOf(Ranked(T))
        BY <1>1, <1>4, <1>6, <1>9 DEF Finds
    <2> QED BY <1>1, <1>9, <2>1 DEF Found, Parsed, Located, Facts
<1>10. CASE g \in Facts
    <2>1. PICK a, b : a = x[g] /\ b = y[g]
        OBVIOUS
    <2>2. r.id \notin DOMAIN a /\ \E v : v.length = r.length /\ b = Filed(a, r.id, v)
        BY <1>1, <1>10, <2>1 DEF Finds
    <2>3. PICK v : v.length = r.length /\ b = Filed(a, r.id, v)
        BY <2>2
    <2>4. DOMAIN b = DOMAIN a \cup {r.id} /\ \A k \in DOMAIN b : b[k] = IF k = r.id THEN v ELSE a[k]
        BY <2>3 DEF Filed
    <2>5. DOMAIN a = {f[i].id : i \in S} /\ \A i \in S : a[f[i].id].length = f[i].length
        BY <1>10, <2>1 DEF Found
    <2>6. DOMAIN b = {f[i].id : i \in T}
        BY <1>1, <2>4, <2>5
    <2>7. ASSUME NEW i \in T PROVE b[f[i].id].length = f[i].length
        <3>1. CASE i = m
            BY <1>1, <2>3, <2>4, <3>1
        <3>2. CASE i \in S
            <4>1. f[i].id \in DOMAIN a /\ f[i].id # r.id
                BY <2>2, <2>5, <3>2
            <4> QED BY <2>4, <2>5, <3>2, <4>1
        <3> QED BY <1>1, <3>1, <3>2
    <2> QED BY <1>1, <1>10, <2>1, <2>6, <2>7 DEF Found, Parsed, Located, Facts
<1>11. CASE g = "tracks"
    <2>1. PICK a, b : a = x[g] /\ b = y[g]
        OBVIOUS
    <2>2. PICK o : o \notin DOMAIN a /\ b = Filed(a, o, m)
        BY <1>1, <1>11, <2>1 DEF Finds
    <2>3. DOMAIN b = DOMAIN a \cup {o} /\ \A k \in DOMAIN b : b[k] = IF k = o THEN m ELSE a[k]
        BY <2>2 DEF Filed
    <2>4. {a[k] : k \in DOMAIN a} = S
        BY <1>11, <2>1 DEF Found, I!Range
    <2>5. {b[k] : k \in DOMAIN b} = T
        <3>1. \A k \in DOMAIN a : b[k] = a[k]
            BY <2>2, <2>3
        <3>2. \A k \in DOMAIN b : b[k] \in T
            BY <1>1, <2>3, <2>4, <3>1
        <3>3. \A i \in T : \E k \in DOMAIN b : b[k] = i
            BY <1>1, <2>3, <2>4, <3>1
        <3> QED BY <3>2, <3>3
    <2>6. I!Range(b) = T
        BY <2>5 DEF I!Range
    <2> QED BY <1>1, <1>11, <2>1, <2>6 DEF Found, Parsed, Located, Facts
<1> QED BY <1>7, <1>8, <1>9, <1>10, <1>11 DEF Findings

\* and nothing else changes.
LEMMA FrontNext ==
    ASSUME NEW f, NEW n \in Nat, NEW x, NEW y, FrontFound(f, n, x), FindsOnly(x, y, f[n + 1], n + 1)
    PROVE  FrontFound(f, n + 1, y)
<1> SUFFICES ASSUME NEW g \in Findings PROVE Found(f, FieldPlaces(f, n + 1, g), y, g)
    BY DEF FrontFound
<1>1. PICK S : S = FieldPlaces(f, n, g)
    OBVIOUS
<1>2. Found(f, S, x, g) /\ S \subseteq 1 .. n
    BY <1>1 DEF FrontFound, FieldPlaces
<1>3. \A i : i \in 1 .. n + 1 <=> i \in 1 .. n \/ i = n + 1
    OBVIOUS
<1>4. CASE g = FieldFor(f[n + 1])
    <2>1. FieldPlaces(f, n + 1, g) = S \cup {n + 1}
        BY <1>1, <1>3, <1>4 DEF FieldPlaces
    <2>2. Finds(x, y, f[n + 1], n + 1, g)
        BY <1>4 DEF FindsOnly
    <2>3. Found(f, S \cup {n + 1}, y, g)
        BY ONLY <1>2, <2>2, n \in Nat, g \in Findings, FoundMore, Zenon
    <2> QED BY <2>1, <2>3
<1>5. CASE g # FieldFor(f[n + 1])
    <2>1. FieldPlaces(f, n + 1, g) = S
        BY <1>1, <1>3, <1>5 DEF FieldPlaces
    <2>2. y[g] = x[g]
        BY <1>5 DEF FindsOnly
    <2> QED BY <1>2, <2>1, <2>2 DEF Found
<1> QED BY <1>4, <1>5

\* Setting the field a record is of is finding it.
Finding(x, r, at, g, v) ==
    \/ g \in Parsed /\ v = Some(r)
    \/ g \in Located /\ v = Append(x[g], at)
    \/ g = "camera" /\ v = Some(at)
    \/ g \in Facts /\ r.id \notin DOMAIN x[g] /\ \E u : u.length = r.length /\ v = Filed(x[g], r.id, u)
    \/ g = "tracks" /\ \E o : o \notin DOMAIN x[g] /\ v = Filed(x[g], o, at)
Sets(x, y, g, v) == y = [x EXCEPT ![g] = v]

LEMMA SetFinds ==
    ASSUME NEW x, IsFront(x), NEW r, NEW at, NEW g \in Findings, g = FieldFor(r), NEW v, NEW y, Sets(x, y, g, v),
           Finding(x, r, at, g, v)
    PROVE  IsFront(y) /\ FindsOnly(x, y, r, at) /\ y.refusal = x.refusal
<1>1. "refusal" \notin Findings
    BY DEF Findings, Parsed, Located, Facts
<1>2. IsFront(y) /\ y[g] = v /\ (\A h \in Findings : h # g => y[h] = x[h]) /\ y.refusal = x.refusal
    BY <1>1 DEF IsFront, Sets
<1>3. Finds(x, y, r, at, g)
    BY <1>2 DEF Finds, Finding, Parsed, Located, Facts
<1> QED BY <1>2, <1>3 DEF FindsOnly

\* A record the walk steps over.
LEMMA StayFinds ==
    ASSUME NEW x, IsFront(x), NEW r, r.op \notin FrontMatter, NEW at
    PROVE  FindsOnly(x, x, r, at)
BY DEF FindsOnly, FieldFor, Findings, Parsed, Located, Facts

LEMMA FiledIs ==
    ASSUME NEW map, NEW key, NEW value
    PROVE  I!Filed(map, key, value) = Filed(map, key, value)
BY DEF I!Filed, Filed

\* The walk's helpers, if they refuse nothing.
Refuses(x, y) == y = I!Malformed(x) \/ y = I!TooLarge(x)

LEMMA RefusesIs ==
    ASSUME NEW x, IsFront(x), NEW y, Refuses(x, y)
    PROVE  y.refusal # "none"
BY DEF Refuses, I!Malformed, I!TooLarge, IsFront

\* A turn of the walk that is not refused finds its record.
LEMMA TurnFinds ==
    ASSUME NEW f, NEW o, NEW x, IsFront(x), NEW i, NEW y, y = WalkTurn(f, o, x, i), y.refusal = "none"
    PROVE  x.refusal = "none" /\ IsFront(y) /\ FindsOnly(x, y, f[i], i)
<1>1. PICK r, c : r = f[i] /\ c = o.ceiling
    OBVIOUS
<1>2. ~Refuses(x, y)
    BY RefusesIs
<1>3. y = I!OnFront(x, r, i, c)
    BY <1>1, <1>2 DEF WalkTurn, Refuses
<1>4. x.refusal = "none"
    BY <1>3 DEF I!OnFront
<1>5. \A g : Refuses(x, I!Latest(x, g, r, c)) \/ Sets(x, I!Latest(x, g, r, c), g, Some(r))
    BY DEF Sets, I!Latest, Refuses, I!Some, Some
<1>6. \A g : Refuses(x, I!OnlyOnce(x, g, r, c)) \/ Sets(x, I!OnlyOnce(x, g, r, c), g, Some(r))
    BY <1>5 DEF I!OnlyOnce, Refuses
<1>7. \A g : Refuses(x, I!PushRange(x, g, i, c)) \/ Sets(x, I!PushRange(x, g, i, c), g, Append(x[g], i))
    BY DEF Sets, I!PushRange, Refuses
<1>8. \A g, k, v, w : \/ Refuses(x, I!MapRange(x, g, k, v, w, c))
                      \/ k \notin DOMAIN x[g] /\ Sets(x, I!MapRange(x, g, k, v, w, c), g, Filed(x[g], k, v))
    BY FiledIs DEF Sets, I!MapRange, Refuses
<1>9. ASSUME NEW g \in Parsed, g = FieldFor(r), y = I!Latest(x, g, r, c) \/ y = I!OnlyOnce(x, g, r, c)
      PROVE  IsFront(y) /\ FindsOnly(x, y, r, i)
    <2>1. PICK v : v = Some(r) /\ Sets(x, y, g, v)
        BY <1>2, <1>5, <1>6, <1>9
    <2>2. g \in Findings
        BY DEF Findings
    <2>3. Finding(x, r, i, g, v)
        BY <1>9, <2>1 DEF Finding
    <2> QED BY <1>9, <2>1, <2>2, <2>3, SetFinds
<1>10. ASSUME NEW g \in Located, g = FieldFor(r), y = I!PushRange(x, g, i, c)
       PROVE  IsFront(y) /\ FindsOnly(x, y, r, i)
    <2>1. PICK v : v = Append(x[g], i) /\ Sets(x, y, g, v)
        BY <1>2, <1>7, <1>10
    <2>2. g \in Findings
        BY DEF Findings
    <2>3. Finding(x, r, i, g, v)
        BY <1>10, <2>1 DEF Finding
    <2> QED BY <1>10, <2>1, <2>2, <2>3, SetFinds
<1>11. ASSUME NEW g \in Facts, g = FieldFor(r), NEW v, v.length = r.length, NEW w, y = I!MapRange(x, g, r.id, v, w, c)
       PROVE  IsFront(y) /\ FindsOnly(x, y, r, i)
    <2>1. PICK u : r.id \notin DOMAIN x[g] /\ u = Filed(x[g], r.id, v) /\ Sets(x, y, g, u)
        BY <1>2, <1>8, <1>11
    <2>2. g \in Findings
        BY DEF Findings
    <2>3. Finding(x, r, i, g, u)
        BY <1>11, <2>1 DEF Finding
    <2> QED BY <1>11, <2>1, <2>2, <2>3, SetFinds
<1>12. CASE r.op \in {"HEADER", "QUANTIZATION", "WINDOW_TABLE", "AUDIO"}
    <2>1. FieldFor(r) \in Parsed
        BY <1>12 DEF FieldFor, FrontMatter, FieldOf, Parsed
    <2>2. CASE r.op = "HEADER"
        <3>1. FieldFor(r) = "header"
            BY <2>2 DEF FieldFor, FrontMatter, FieldOf
        <3>2. y = I!OnlyOnce(x, "header", r, c)
            BY <1>3, <1>4, <2>2 DEF I!OnFront, I!ProvenanceRecords, I!OnHeader
        <3> QED BY <1>1, <1>4, <1>9, <2>1, <3>1, <3>2
    <2>3. CASE r.op = "QUANTIZATION"
        <3>1. FieldFor(r) = "quantization"
            BY <2>3 DEF FieldFor, FrontMatter, FieldOf
        <3>2. y = I!OnlyOnce(x, "quantization", r, c)
            BY <1>3, <1>4, <2>3 DEF I!OnFront, I!ProvenanceRecords, I!OnQuantization
        <3> QED BY <1>1, <1>4, <1>9, <2>1, <3>1, <3>2
    <2>4. CASE r.op = "WINDOW_TABLE"
        <3>1. FieldFor(r) = "windows"
            BY <2>4 DEF FieldFor, FrontMatter, FieldOf
        <3>2. y = I!OnlyOnce(x, "windows", r, c)
            BY <1>3, <1>4, <2>4 DEF I!OnFront, I!ProvenanceRecords, I!OnWindowTable
        <3> QED BY <1>1, <1>4, <1>9, <2>1, <3>1, <3>2
    <2>5. CASE r.op = "AUDIO"
        <3>1. FieldFor(r) = "legacy"
            BY <2>5 DEF FieldFor, FrontMatter, FieldOf
        <3>2. y = I!Latest(x, "legacy", r, c)
            BY <1>3, <1>4, <2>5 DEF I!OnFront, I!ProvenanceRecords, I!OnAudio
        <3> QED BY <1>1, <1>4, <1>9, <2>1, <3>1, <3>2
    <2> QED BY <1>1, <1>4, <1>12, <2>2, <2>3, <2>4, <2>5
<1>13. CASE r.op \in {"METADATA", "ATTACHMENT", "OBJECT_TABLE"} \cup ProvenanceRecords
    <2>1. FieldFor(r) \in Located
        BY <1>13 DEF FieldFor, FrontMatter, FieldOf, Located, ProvenanceRecords
    <2>2. CASE r.op = "METADATA"
        BY <1>1, <1>3, <1>4, <1>10, <2>1, <2>2 DEF I!OnFront, I!ProvenanceRecords, FieldFor, FrontMatter, FieldOf
    <2>3. CASE r.op = "ATTACHMENT"
        BY <1>1, <1>3, <1>4, <1>10, <2>1, <2>3 DEF I!OnFront, I!ProvenanceRecords, FieldFor, FrontMatter, FieldOf
    <2>4. CASE r.op = "OBJECT_TABLE"
        BY <1>1, <1>3, <1>4, <1>10, <2>1, <2>4 DEF I!OnFront, I!ProvenanceRecords, FieldFor, FrontMatter, FieldOf
    <2>5. CASE r.op \in ProvenanceRecords
        <3>1. FieldFor(r) = "provenance"
            BY <2>5 DEF FieldFor, FrontMatter, FieldOf, ProvenanceRecords
        <3>2. y = I!PushRange(x, "provenance", i, c)
            BY <1>3, <1>4, <2>5 DEF I!OnFront, I!ProvenanceRecords, ProvenanceRecords
        <3> QED BY <1>1, <1>4, <1>10, <2>1, <3>1, <3>2
    <2> QED BY <1>13, <2>2, <2>3, <2>4, <2>5
<1>14. CASE r.op = "AUDIO_SOURCE"
    <2>1. PICK v : v = I!SourceFacts(r, i)
        OBVIOUS
    <2>2. v.length = r.length
        BY <2>1 DEF I!SourceFacts
    <2>3. FieldFor(r) = "sources" /\ "sources" \in Facts
        BY <1>14 DEF FieldFor, FrontMatter, FieldOf, Facts
    <2>4. y = I!MapRange(x, "sources", r.id, v, 2 * Weight[r.op], c)
        BY <1>2, <1>3, <1>4, <1>14, <2>1 DEF I!OnFront, I!ProvenanceRecords, I!OnAudioSource, Refuses
    <2> QED BY <1>1, <1>4, <1>11, <2>2, <2>3, <2>4
<1>15. CASE r.op = "AUDIO_DATA"
    <2>1. PICK v : v = [at |-> i, length |-> r.length]
        OBVIOUS
    <2>2. v.length = r.length
        BY <2>1
    <2>3. FieldFor(r) = "payloads" /\ "payloads" \in Facts
        BY <1>15 DEF FieldFor, FrontMatter, FieldOf, Facts
    <2>4. y = I!MapRange(x, "payloads", r.id, v, 0, c)
        BY <1>2, <1>3, <1>4, <1>15, <2>1 DEF I!OnFront, I!ProvenanceRecords, I!OnAudioData, Refuses
    <2> QED BY <1>1, <1>4, <1>11, <2>2, <2>3, <2>4
<1>16. CASE r.op = "CAMERA"
    <2>1. PICK v : v = Some(i) /\ Sets(x, y, "camera", v)
        BY <1>3, <1>4, <1>16 DEF Sets, I!ProvenanceRecords, I!OnFront, I!Some, Some
    <2>2. FieldFor(r) = "camera" /\ "camera" \in Findings
        BY <1>16 DEF FieldFor, FrontMatter, FieldOf, Findings
    <2>3. IsFront(y) /\ FindsOnly(x, y, r, i)
        BY <2>1, <2>2, SetFinds DEF Finding
    <2> QED BY <1>1, <1>4, <2>3
<1>17. CASE r.op = "OBJECT_TRACK"
    <2>1. y = I!MapRange(x, "tracks", r.object, i, 0, c)
        BY <1>2, <1>3, <1>4, <1>17 DEF I!OnFront, I!ProvenanceRecords, I!OnObjectTrack, Refuses
    <2>2. FieldFor(r) = "tracks" /\ "tracks" \in Findings
        BY <1>17 DEF FieldFor, FrontMatter, FieldOf, Findings
    <2>3. PICK v : r.object \notin DOMAIN x["tracks"] /\ v = Filed(x["tracks"], r.object, i) /\ Sets(x, y, "tracks", v)
        BY <1>2, <1>8, <2>1
    <2>4. Finding(x, r, i, "tracks", v)
        <3>1. PICK k, m : k = r.object /\ m = x["tracks"]
            OBVIOUS
        <3>2. k \notin DOMAIN m /\ v = Filed(m, k, i)
            BY <2>3, <3>1
        <3>3. \E e : e \notin DOMAIN m /\ v = Filed(m, e, i)
            BY <3>2
        <3> QED BY <3>1, <3>3 DEF Finding
    <2>5. IsFront(y) /\ FindsOnly(x, y, r, i)
        BY <2>2, <2>3, <2>4, SetFinds
    <2> QED BY <1>1, <1>4, <2>5
<1>18. CASE r.op \notin FrontMatter
    <2>1. y = x
        BY <1>3, <1>4, <1>18 DEF I!OnFront, I!ProvenanceRecords, FrontMatter
    <2> QED BY <1>1, <1>4, <1>18, <2>1, StayFinds
<1> QED BY <1>12, <1>13, <1>14, <1>15, <1>16, <1>17, <1>18 DEF FrontMatter, ProvenanceRecords

\* A walk that nothing refuses has found the records it passed.
LEMMA WalkFinds ==
    ASSUME NEW f, IsSeq(f), NEW o, I!WalkFront(f, o).refusal = "none"
    PROVE  FrontFound(f, I!FrontLength(f), I!WalkFront(f, o))
<1>1. PICK n \in 0 .. Len(f) : \E w : n = I!FrontLength(f) /\ Walks(f, o, n, w) /\ I!WalkFront(f, o) = w[n]
    BY WalkRuns
<1>2. PICK w : n = I!FrontLength(f) /\ Walks(f, o, n, w) /\ I!WalkFront(f, o) = w[n]
    BY <1>1
<1>3. n \in Nat
    BY DEF IsSeq
<1>4. PICK P : P = {i \in 0 .. n : w[i].refusal = "none" => IsFront(w[i]) /\ FrontFound(f, i, w[i])}
    OBVIOUS
<1>5. 0 \in P
    <2>1. PICK z : z = w[0] /\ z = I!NothingFound
        BY <1>2 DEF Walks
    <2>2. IsFront(z)
        BY <2>1 DEF IsFront, I!NothingFound, Findings, Parsed, Located, Facts
    <2>3. PICK k \in Nat : k = 0 /\ 1 .. k = {}
        OBVIOUS
    <2>4. \A g : FieldPlaces(f, k, g) = {}
        BY <2>3 DEF FieldPlaces
    <2>5. /\ \A g \in Parsed \cup {"camera"} : z[g] = None
          /\ \A g \in Located : z[g] = <<>>
          /\ \A g \in Facts \cup {"tracks"} : DOMAIN z[g] = {}
        BY <2>1 DEF I!NothingFound, I!RangeMap, Parsed, Located, Facts, I!None, None
    <2>6. Taken(f, {}) = <<>> /\ Ranked({}) = <<>> /\ I!LastOf(<<>>) = None
        BY TakenNone, RankedNone, LastOfNone
    <2>7. ASSUME NEW g \in Findings PROVE Found(f, {}, z, g)
        BY <2>5, <2>6 DEF Found, I!Range
    <2>8. FrontFound(f, k, z)
        BY <2>4, <2>7 DEF FrontFound
    <2>9. IsFront(w[0]) /\ FrontFound(f, 0, w[0])
        BY <2>1, <2>2, <2>3, <2>8
    <2>10. 0 \in 0 .. n
        BY <1>3
    <2> QED BY <1>4, <2>9, <2>10
<1>6. ASSUME NEW i \in 1 .. n, i - 1 \in P PROVE i \in P
    <2>1. PICK x, y : x = w[i - 1] /\ y = w[i]
        OBVIOUS
    <2>2. y = WalkTurn(f, o, x, i)
        <3>1. i # 0 /\ i \in 0 .. n
            OBVIOUS
        <3> QED BY <1>2, <2>1, <3>1 DEF Walks
    <2>3. PICK m \in Nat : m = i - 1 /\ m + 1 = i
        OBVIOUS
    <2>4. x.refusal = "none" => IsFront(x) /\ FrontFound(f, m, x)
        BY <1>4, <1>6, <2>1, <2>3
    <2>5. y.refusal = "none" => x.refusal = "none"
        BY <2>2 DEF WalkTurn, I!OnFront
    <2>6. ASSUME y.refusal = "none" PROVE IsFront(y) /\ FrontFound(f, i, y)
        <3>1. IsFront(x) /\ FrontFound(f, m, x)
            BY <2>4, <2>5, <2>6
        <3>2. IsFront(y) /\ FindsOnly(x, y, f[m + 1], m + 1)
            BY <2>2, <2>3, <2>6, <3>1, TurnFinds
        <3>3. FrontFound(f, m + 1, y)
            BY ONLY <3>1, <3>2, m \in Nat, FrontNext
        <3> QED BY <2>3, <3>2, <3>3
    <2> QED BY <1>4, <2>1, <2>6
<1>7. 0 .. n \subseteq P
    BY ONLY <1>5, <1>6, n \in Nat, Ascend
<1>8. n \in P
    BY <1>3, <1>7
<1> QED BY <1>2, <1>4, <1>8

\* Where no front matter follows a Chunk, the walk passes all of it.
LEMMA FrontIsAll ==
    ASSUME file \in FILES, InOrder
    PROVE  \A g \in Findings : FieldPlaces(file, I!FrontLength(file), g) = FieldPlaces(file, Len(file), g)
<1>1. PICK f : f = file
    OBVIOUS
<1>2. PICK n \in Nat : n = Len(f) /\ DOMAIN f = 1 .. n
    BY <1>1, FileIs DEF IsSeq
<1>3. PICK S : S = {i \in DOMAIN f : f[i].op = "CHUNK"}
    OBVIOUS
<1>4. PICK m \in 0 .. n : m = I!FrontLength(f)
    BY <1>1, <1>2, FrontIs, FileIs
<1>5. ASSUME NEW i \in 1 .. n, f[i].op \in FrontMatter PROVE i \in 1 .. m
    <2>1. m = IF S = {} THEN n ELSE I!Min(S) - 1
        BY <1>2, <1>3, <1>4 DEF I!FrontLength
    <2>2. CASE S = {}
        BY <2>1, <2>2
    <2>3. CASE S # {}
        <3>1. S \subseteq 1 .. n
            BY <1>2, <1>3
        <3>2. PICK k \in S : \A j \in S : k <= j
            BY <2>3, <3>1, FirstPosition
        <3>3. I!Min(S) \in S
            BY <3>2 DEF I!Min
        <3>4. PICK p : p = Ranked(S)
            OBVIOUS
        <3>5. Enumerates(p, S)
            BY <3>1, <3>4, RankedEnumerates
        <3>6. PICK e \in 1 .. Len(p) : p[e] = I!Min(S)
            BY <3>3, <3>5 DEF Enumerates
        <3>7. ChunkOffsets = p
            BY <1>1, <1>3, <3>4 DEF ChunkOffsets
        <3>8. I!Min(S) \in Range(ChunkOffsets)
            BY <3>5, <3>6, <3>7 DEF Range, Enumerates, IsSeq
        <3>9. i \in DOMAIN file /\ file[i].op \in FrontMatter
            BY <1>1, <1>2, <1>5
        <3>10. i < I!Min(S)
            BY <3>8, <3>9 DEF InOrder
        <3>11. PICK d \in 1 .. n : d = I!Min(S)
            BY <3>1, <3>3
        <3> QED BY <2>1, <2>3, <3>10, <3>11
    <2> QED BY <2>2, <2>3
<1>6. ASSUME NEW g \in Findings PROVE FieldPlaces(f, m, g) = FieldPlaces(f, n, g)
    <2>1. g # "none"
        BY DEF Findings, Parsed, Located, Facts
    <2>2. \A i \in 1 .. m : i \in 1 .. n
        OBVIOUS
    <2>3. \A i \in 1 .. n : FieldFor(f[i]) = g => i \in 1 .. m
        BY <1>5, <2>1 DEF FieldFor
    <2> QED BY <2>2, <2>3 DEF FieldPlaces
<1> QED BY <1>1, <1>2, <1>4, <1>6

\* The kinds of record of each field.
LEMMA FieldKinds ==
    ASSUME NEW f, NEW n
    PROVE  /\ \A g \in Parsed : g \in Ones /\ FieldPlaces(f, n, g) = OpPlaces(f, n, OpOf[g])
           /\ FieldPlaces(f, n, "camera") = OpPlaces(f, n, "CAMERA")
           /\ FieldPlaces(f, n, "metadata") = OpPlaces(f, n, "METADATA")
           /\ FieldPlaces(f, n, "attachments") = OpPlaces(f, n, "ATTACHMENT")
           /\ FieldPlaces(f, n, "tables") = OpPlaces(f, n, "OBJECT_TABLE")
           /\ FieldPlaces(f, n, "tracks") = OpPlaces(f, n, "OBJECT_TRACK")
           /\ \A g \in Facts : FieldPlaces(f, n, g) = OpPlaces(f, n, NodeOp[g])
           /\ FieldPlaces(f, n, "provenance") = {i \in 1 .. n : f[i].op \in ProvenanceRecords}
<1>1. ASSUME NEW r
      PROVE  /\ \A g \in Parsed : FieldFor(r) = g <=> r.op = OpOf[g]
             /\ FieldFor(r) = "camera" <=> r.op = "CAMERA"
             /\ FieldFor(r) = "metadata" <=> r.op = "METADATA"
             /\ FieldFor(r) = "attachments" <=> r.op = "ATTACHMENT"
             /\ FieldFor(r) = "tables" <=> r.op = "OBJECT_TABLE"
             /\ FieldFor(r) = "tracks" <=> r.op = "OBJECT_TRACK"
             /\ \A g \in Facts : FieldFor(r) = g <=> r.op = NodeOp[g]
             /\ FieldFor(r) = "provenance" <=> r.op \in ProvenanceRecords
    <2>1. CASE r.op \in FrontMatter
        BY <2>1 DEF FieldFor, FieldOf, FrontMatter, OpOf, NodeOp, Parsed, Facts, ProvenanceRecords
    <2>2. CASE r.op \notin FrontMatter
        BY <2>2 DEF FieldFor, FrontMatter, OpOf, NodeOp, Parsed, Facts, ProvenanceRecords
    <2> QED BY <2>1, <2>2
<1>2. \A g \in Parsed : g \in Ones
    BY DEF Parsed, Ones
<1> QED BY <1>1, <1>2 DEF FieldPlaces, OpPlaces

----------------------------------------------------------------------------
(* What the indexed reader fetches of a file both have taken whole.        *)

\* What is fetched at places is what is taken there,
LEMMA FetchTakes ==
    ASSUME NEW f, NEW S, NEW at, at = Ranked(S), IsSome(I!Fetch(f, at))
    PROVE  I!Fetch(f, at) = Some(Taken(f, S))
BY DEF I!Fetch, Taken, I!Some, Some, IsSome, None, I!None

\* the latest of what is taken is the element at the last place,
LEMMA LastTaken ==
    ASSUME NEW n \in Nat, NEW S, S \subseteq 1 .. n, NEW f
    PROVE  /\ I!LastOf(Ranked(S)) = None => I!LastOf(Taken(f, S)) = None
           /\ I!LastOf(Ranked(S)) # None =>
                 /\ I!LastOf(Ranked(S))[1] \in S
                 /\ I!LastOf(Taken(f, S)) = Some(f[I!LastOf(Ranked(S))[1]])
<1>1. PICK p, l : p = Ranked(S) /\ l = Taken(f, S)
    OBVIOUS
<1>20. IsSeq(l) /\ Len(l) = Len(p) /\ Enumerates(p, S) /\ \A k \in 1 .. Len(p) : l[k] = f[p[k]]
    BY <1>1, TakenIs, RankedEnumerates
<1>2. IsSeq(p) /\ IsSeq(l) /\ Len(l) = Len(p) /\ Enumerates(p, S) /\ \A k \in 1 .. Len(p) : l[k] = f[p[k]]
    BY <1>20 DEF Enumerates
<1>3. PICK c \in Nat : c = Len(p)
    BY <1>2 DEF IsSeq
<1>4. (p = <<>> <=> c = 0) /\ (l = <<>> <=> c = 0)
    BY <1>2, <1>3, EmptyIsSeq, SameSeq
<1>5. CASE c = 0
    BY <1>1, <1>4, <1>5, LastOfNone
<1>6. CASE c # 0
    <2>1. c \in 1 .. c
        BY <1>6
    <2>2. I!LastOf(p) = Some(p[c]) /\ I!LastOf(l) = Some(l[c])
        BY <1>2, <1>3, <1>4, <1>6 DEF I!LastOf, I!Last, I!Some, Some
    <2>3. p[c] \in S /\ l[c] = f[p[c]]
        BY <1>2, <1>3, <2>1 DEF Enumerates
    <2> QED BY <1>1, <2>2, <2>3 DEF Some, None
<1> QED BY <1>5, <1>6

\* what is taken of one kind among others is what is taken of that kind,
Among(f, n, op, S) == S \subseteq 1 .. n /\ OpPlaces(f, n, op) \subseteq S

LEMMA OpsTaken ==
    ASSUME NEW n \in Nat, NEW S, NEW f, NEW op, Among(f, n, op, S)
    PROVE  I!Ops(Taken(f, S), op) = Taken(f, OpPlaces(f, n, op))
<1>20. S \subseteq 1 .. n /\ OpPlaces(f, n, op) \subseteq S
    BY DEF Among
<1>1. PICK p, l, U : p = Ranked(S) /\ l = Taken(f, S) /\ U = OpPlaces(f, n, op)
    OBVIOUS
<1>2. IsSeq(l) /\ Len(l) = Len(p) /\ Enumerates(p, S) /\ \A k \in 1 .. Len(p) : l[k] = f[p[k]]
    BY <1>1, <1>20, TakenIs, RankedEnumerates
<1>3. DOMAIN l = 1 .. Len(p)
    BY <1>2 DEF IsSeq
<1>4. PICK T : T = {k \in DOMAIN l : p[k] \in U}
    OBVIOUS
<1>5. T = {k \in DOMAIN l : l[k].op = op}
    <2>1. \A k \in DOMAIN l : p[k] \in 1 .. n /\ l[k] = f[p[k]]
        BY <1>2, <1>3, <1>20 DEF Enumerates
    <2> QED BY <1>1, <1>4, <2>1 DEF OpPlaces
<1>6. I!Ops(l, op) = I!Taken(l, T)
    BY <1>5 DEF I!Ops
<1>7. I!Taken(l, T) = Taken(f, U)
    <2>1. Within(f, n, S, U, T)
        BY <1>1, <1>4, <1>20 DEF Within
    <2>2. I!Taken(Taken(f, S), T) = Taken(f, U)
        BY ONLY <2>1, n \in Nat, TakenInner
    <2> QED BY <1>1, <2>2
<1> QED BY <1>1, <1>6, <1>7

\* and what has samples of it is what is taken of those with samples.
LEMMA SampledTaken ==
    ASSUME NEW n \in Nat, NEW S, S \subseteq 1 .. n, NEW f
    PROVE  I!Sampled(Taken(f, S)) = Taken(f, {i \in S : f[i].times # <<>>})
<1>1. PICK p, l, U : p = Ranked(S) /\ l = Taken(f, S) /\ U = {i \in S : f[i].times # <<>>}
    OBVIOUS
<1>2. IsSeq(l) /\ Len(l) = Len(p) /\ Enumerates(p, S) /\ \A k \in 1 .. Len(p) : l[k] = f[p[k]]
    BY <1>1, TakenIs, RankedEnumerates
<1>3. DOMAIN l = 1 .. Len(p)
    BY <1>2 DEF IsSeq
<1>4. PICK T : T = {k \in DOMAIN l : p[k] \in U}
    OBVIOUS
<1>5. T = {k \in DOMAIN l : l[k].times # <<>>}
    <2>1. \A k \in DOMAIN l : p[k] \in S /\ l[k] = f[p[k]]
        BY <1>2, <1>3 DEF Enumerates
    <2> QED BY <1>1, <1>4, <2>1
<1>6. I!Sampled(l) = I!Taken(l, T)
    BY <1>5 DEF I!Sampled
<1>7. U \subseteq S
    BY <1>1
<1>8. I!Taken(l, T) = Taken(f, U)
    <2>1. Within(f, n, S, U, T)
        BY <1>1, <1>4 DEF Within
    <2>2. I!Taken(Taken(f, S), T) = Taken(f, U)
        BY ONLY <2>1, n \in Nat, TakenInner
    <2> QED BY <1>1, <2>2
<1> QED BY <1>1, <1>6, <1>8

\* The summary's records of a kind are the file's, where the summary is indexed.
LEMMA SummaryTakes ==
    ASSUME file \in FILES, Indexed, NEW op \in SummaryRecords
    PROVE  I!Ops(I!SummaryOf(file), op) = Taken(file, OpPlaces(file, Len(file), op))
<1>1. PICK f : f = file /\ IsSeq(f)
    BY FileIs
<1>2. PICK n \in Nat : n = Len(f) /\ DOMAIN f = 1 .. n
    BY <1>1 DEF IsSeq
<1>3. PICK z : z = FooterOf
    OBVIOUS
<1>4. /\ f # <<>> /\ z.op = "FOOTER" /\ z.summary_start \in 1 .. n
      /\ \A i \in 1 .. z.summary_start - 1 : f[i].op \notin SummaryRecords \cup {"FOOTER"}
    BY <1>1, <1>2, <1>3 DEF Indexed
<1>5. z = f[n]
    BY <1>1, <1>2, <1>3 DEF FooterOf, Last
<1>6. PICK a \in 1 .. n : a = z.summary_start
    BY <1>4
<1>7. PICK U, t : U = OpPlaces(f, n, op) /\ t = SubSeq(f, a, n - 1)
    OBVIOUS
<1>8. I!SummaryOf(f) = t
    BY <1>2, <1>5, <1>6, <1>7 DEF I!SummaryOf, I!Last
<1>9. U \subseteq a .. n - 1
    <2> SUFFICES ASSUME NEW i \in 1 .. n, f[i].op = op PROVE i \in a .. n - 1
        BY <1>7 DEF OpPlaces
    <2>1. op # "FOOTER"
        BY DEF SummaryRecords
    <2>2. i # n
        BY <1>4, <1>5, <2>1
    <2>3. ~(i \in 1 .. a - 1)
        BY <1>4, <1>6
    <2> QED BY <2>2, <2>3
<1>10. PICK b \in a - 1 .. n : b = n - 1
    OBVIOUS
<1>11. PICK T : T = {i \in 1 .. b - a + 1 : i + a - 1 \in U}
    OBVIOUS
<1>12. I!Taken(SubSeq(f, a, b), T) = Taken(f, U)
    <2>1. a \in 1 .. Len(f) + 1 /\ b \in a - 1 .. Len(f) /\ U \subseteq a .. b
        BY <1>2, <1>9, <1>10
    <2>2. Moved(a, b, U, T)
        BY <1>11 DEF Moved
    <2> QED BY <1>1, <2>1, <2>2, TakenShift
<1>13. T = {i \in DOMAIN t : t[i].op = op}
    <2>1. DOMAIN t = 1 .. b - a + 1 /\ \A i \in 1 .. b - a + 1 : t[i] = f[a + i - 1]
        <3>1. a \in 1 .. Len(f) + 1 /\ b \in a - 1 .. Len(f)
            BY <1>2, <1>10
        <3> QED BY <1>1, <1>7, <1>10, <3>1, SliceIsSeq DEF IsSeq
    <2>2. ASSUME NEW i \in 1 .. b - a + 1 PROVE i + a - 1 \in U <=> t[i].op = op
        <3>1. a + i - 1 = i + a - 1 /\ i + a - 1 \in 1 .. n
            BY <1>10
        <3> QED BY <1>7, <2>1, <3>1 DEF OpPlaces
    <2> QED BY <1>11, <2>1, <2>2
<1>14. I!Ops(t, op) = I!Taken(t, T)
    BY <1>13 DEF I!Ops
<1> QED BY <1>1, <1>2, <1>7, <1>8, <1>10, <1>12, <1>14

\* Some numbers of the records of a file have a bound,
LEMMA IdsBounded ==
    ASSUME NEW n \in Nat, NEW v, \A i \in 1 .. n : v[i] \in Nat
    PROVE  \E b \in Nat : \A i \in 1 .. n : v[i] <= b
<1>1. PICK P : P = {k \in 0 .. n : \E b \in Nat : \A i \in 1 .. k : v[i] <= b}
    OBVIOUS
<1>2. 0 \in P
    <2>1. 0 \in 0 .. n /\ 0 \in Nat /\ \A i \in 1 .. 0 : FALSE
        OBVIOUS
    <2> QED BY <1>1, <2>1
<1>3. ASSUME NEW k \in 1 .. n, k - 1 \in P PROVE k \in P
    <2>1. PICK b \in Nat : \A i \in 1 .. k - 1 : v[i] <= b
        BY <1>1, <1>3
    <2>2. PICK c \in Nat : c = v[k]
        OBVIOUS
    <2>3. PICK d \in Nat : d = b + c
        OBVIOUS
    <2>4. \A i \in 1 .. k : i \in 1 .. k - 1 \/ i = k
        OBVIOUS
    <2>5. \A i \in 1 .. k : v[i] <= d
        <3> SUFFICES ASSUME NEW i \in 1 .. k PROVE v[i] <= d
            OBVIOUS
        <3>1. PICK u \in Nat : u = v[i]
            OBVIOUS
        <3>2. u <= b \/ u = c
            BY <2>1, <2>2, <2>4, <3>1
        <3> QED BY <2>3, <3>1, <3>2
    <2> QED BY <1>1, <2>3, <2>5
<1>4. 0 .. n \subseteq P
    BY ONLY <1>2, <1>3, n \in Nat, Ascend
<1>5. n \in P
    BY <1>4
<1> QED BY <1>1, <1>5

\* and both readers list the numbers in one order.
Numbered(f, n, S) == S \subseteq 1 .. n /\ \A i \in S : f[i].id \in Nat

Ids(f, S) == {f[i].id : i \in S}
ListsIds(D) == I!Ranked(D) = Ranked(D) /\ \A i \in DOMAIN Ranked(D) : Ranked(D)[i] \in D

LEMMA IdsRanked ==
    ASSUME NEW n \in Nat, NEW S, NEW f, Numbered(f, n, S)
    PROVE  ListsIds(Ids(f, S))
<1>20. PICK D : D = Ids(f, S) /\ D = {f[i].id : i \in S}
    BY DEF Ids
<1>1. S \subseteq 1 .. n /\ \A i \in S : f[i].id \in Nat
    BY DEF Numbered
<1>2. PICK v : v = [i \in 1 .. n |-> IF i \in S THEN f[i].id ELSE 0]
    OBVIOUS
<1>3. \A i \in 1 .. n : v[i] \in Nat
    BY <1>1, <1>2
<1>4. PICK b \in Nat : \A i \in 1 .. n : v[i] <= b
    BY <1>3, IdsBounded
<1>5. D \subseteq 0 .. b
    BY <1>1, <1>2, <1>4, <1>20
<1>6. Enumerates(Ranked(D), D) /\ I!Ranked(D) = Ranked(D)
    BY ONLY <1>4, <1>5, b \in Nat, RankedOrders
<1>7. PICK r : r = Ranked(D)
    OBVIOUS
<1>8. \A i \in DOMAIN r : r[i] \in D
    BY <1>6, <1>7 DEF Enumerates, IsSeq
<1> QED BY <1>6, <1>7, <1>8, <1>20 DEF ListsIds

\* The records the readers keep parsed are the same ones.
LEMMA ParsedAgree ==
    ASSUME NEW f, NEW n \in Nat, NEW x, x.at = n, OfFile(f, x), NEW y, FrontFound(f, n, y)
    PROVE  \A g \in Parsed : x[g] = y[g]
<1> SUFFICES ASSUME NEW g \in Parsed PROVE x[g] = y[g]
    OBVIOUS
<1>1. PICK S : S = OpPlaces(f, n, OpOf[g])
    OBVIOUS
<1>2. g \in Ones /\ FieldPlaces(f, n, g) = S
    BY <1>1, FieldKinds
<1>3. x[g] = I!LastOf(Taken(f, S))
    BY <1>1, <1>2 DEF OfFile, OnesOfFile
<1>4. y[g] = I!LastOf(Taken(f, S))
    BY <1>2 DEF FrontFound, Findings, Found
<1> QED BY <1>3, <1>4

\* Both readers give the same audio.
LEMMA AudioAgrees ==
    ASSUME NEW f, NEW n \in Nat, NEW x, x.at = n, OfFile(f, x), NEW y, FrontFound(f, n, y),
           AudioHolds(x, FALSE), Numbered(f, n, OpPlaces(f, n, "AUDIO_SOURCE"))
    PROVE  Sources(x) = I!AudioOf(y)
<1>1. x.legacy = y.legacy
    BY ParsedAgree DEF Parsed
<1>2. PICK S, T : S = OpPlaces(f, n, "AUDIO_SOURCE") /\ T = OpPlaces(f, n, "AUDIO_DATA")
    OBVIOUS
<1>3. FieldPlaces(f, n, "sources") = S /\ FieldPlaces(f, n, "payloads") = T
    BY <1>2, FieldKinds DEF Facts, NodeOp
<1>4. PICK D : D = {f[i].id : i \in S}
    OBVIOUS
<1>5. DOMAIN x.sources = D /\ DOMAIN y.sources = D
    <2>1. DOMAIN x["sources"] = D
        BY <1>2, <1>4 DEF OfFile, NodesOfFile, NodeOp
    <2>2. DOMAIN y["sources"] = D
        BY <1>3, <1>4 DEF FrontFound, Findings, Found, Facts
    <2> QED BY <2>1, <2>2
<1>6. /\ DOMAIN x.payloads = {f[i].id : i \in T} /\ \A i \in T : x.payloads[f[i].id] = f[i]
      /\ \A i \in T : y.payloads[f[i].id].length = f[i].length
    <2>1. DOMAIN x["payloads"] = {f[i].id : i \in T} /\ \A i \in T : x["payloads"][f[i].id] = f[i]
        BY <1>2 DEF OfFile, NodesOfFile, NodeOp
    <2>2. \A i \in T : y["payloads"][f[i].id].length = f[i].length
        BY <1>3 DEF FrontFound, Findings, Found, Facts
    <2> QED BY <2>1, <2>2
<1>7. DOMAIN x.payloads = D /\ MatchedIds(x) = D
    BY <1>5 DEF AudioHolds, MatchedIds
<1>8. \A k \in D : x.payloads[k].length = y.payloads[k].length
    BY <1>6, <1>7
<1>12. Numbered(f, n, S)
    BY <1>2
<1>13. I!Ranked(D) = Ranked(D) /\ \A i \in DOMAIN Ranked(D) : Ranked(D)[i] \in D
    <2>1. D = Ids(f, S)
        BY <1>4 DEF Ids
    <2> QED BY <1>12, <2>1, IdsRanked DEF ListsIds
<1>14. PICK ids : ids = Ranked(D)
    OBVIOUS
<1>9. I!Ranked(D) = ids /\ \A i \in DOMAIN ids : ids[i] \in D
    BY <1>13, <1>14
<1>10. CASE IsSome(x.legacy)
    BY <1>1, <1>10 DEF Sources, I!AudioOf, IsSome, I!IsSome, None, I!None
<1>11. CASE ~IsSome(x.legacy)
    <2>1. Sources(x) = [i \in DOMAIN ids |-> [id |-> ids[i], legacy |-> FALSE, length |-> x.payloads[ids[i]].length]]
        BY <1>7, <1>11, <1>14 DEF Sources
    <2>2. I!AudioOf(y) = [i \in DOMAIN ids |-> [id |-> ids[i], legacy |-> FALSE, length |-> y.payloads[ids[i]].length]]
        BY <1>1, <1>5, <1>9, <1>11 DEF I!AudioOf, IsSome, I!IsSome, None, I!None
    <2> QED BY <1>8, <1>9, <1>14, <2>1, <2>2
<1> QED BY <1>10, <1>11

\* The places of the records a list is of.
LEMMA ListKinds ==
    ASSUME NEW f, NEW n, NEW g \in Counted
    PROVE  /\ g \notin {"rigs", "tracks"} => ListPlaces(f, n, g) = OpPlaces(f, n, ListOp[g])
           /\ g \in {"rigs", "tracks"} => ListPlaces(f, n, g) = {i \in OpPlaces(f, n, ListOp[g]) : f[i].times # <<>>}
BY DEF ListPlaces, OpPlaces, Listed

\* Of a file both readers have taken whole: the camera,
LEMMA CameraAgrees ==
    ASSUME NEW f, NEW n \in Nat, NEW x, x.at = n, OfFile(f, x), NEW scene, FrontFound(f, n, scene.front),
           IsSome(I!ReadCamera(f, scene))
    PROVE  I!ReadCamera(f, scene)[1] = x.camera
<1>1. PICK S, c, r : S = OpPlaces(f, n, "CAMERA") /\ c = scene.front.camera /\ r = Ranked(S)
    OBVIOUS
<1>2. S \subseteq 1 .. n
    BY <1>1, PlacesNext
<1>3. c = I!LastOf(r)
    <2>1. scene.front["camera"] = I!LastOf(Ranked(FieldPlaces(f, n, "camera")))
        BY DEF FrontFound, Findings, Found
    <2> QED BY <1>1, <2>1, FieldKinds
<1>4. PICK l : l = Taken(f, S)
    OBVIOUS
<1>5. x.camera = I!LastOf(l)
    <2>1. x["camera"] = I!LastOf(Taken(f, OpPlaces(f, n, "CAMERA")))
        BY DEF OfFile, OnesOfFile, Ones, OpOf
    <2> QED BY <1>1, <1>4, <2>1
<1>6. (c = None => I!LastOf(l) = None) /\ (c # None => I!LastOf(l) = Some(f[c[1]]))
    BY <1>1, <1>2, <1>3, <1>4, LastTaken
<1>7. CASE c = None
    BY <1>1, <1>5, <1>6, <1>7 DEF I!ReadCamera, I!None, None, I!Some
<1>8. CASE c # None
    BY <1>1, <1>5, <1>6, <1>8 DEF I!ReadCamera, I!None, None, I!Some, Some, IsSome
<1> QED BY <1>7, <1>8

\* the metadata and the attachments,
LEMMA FetchedAgree ==
    ASSUME NEW f, NEW n \in Nat, NEW x, x.at = n, OfFile(f, x), NEW y, FrontFound(f, n, y),
           NEW g \in {"metadata", "attachments"}, IsSome(I!Fetch(f, y[g]))
    PROVE  I!Fetch(f, y[g])[1] = x[g]
<1>1. PICK S : S = ListPlaces(f, n, g)
    OBVIOUS
<1>2. x[g] = Taken(f, S)
    BY <1>1 DEF OfFile, ListsOfFile, Counted
<1>3. FieldPlaces(f, n, g) = S
    <2>1. S = OpPlaces(f, n, ListOp[g])
        BY <1>1, ListKinds DEF Counted
    <2> QED BY <2>1, FieldKinds DEF ListOp
<1>4. y[g] = Ranked(S)
    BY <1>3 DEF FrontFound, Findings, Found, Located
<1>5. I!Fetch(f, y[g]) = Some(Taken(f, S))
    BY <1>4, FetchTakes
<1> QED BY <1>2, <1>5 DEF Some

\* the provenance,
LEMMA ProvenanceAgrees ==
    ASSUME NEW f, NEW n \in Nat, NEW x, x.at = n, OfFile(f, x), NEW scene, FrontFound(f, n, scene.front),
           IsSome(I!ReadProvenance(f, scene))
    PROVE  I!ReadProvenance(f, scene)[1]
             = [frames |-> x.frames, sensors |-> x.sensors, rigs |-> x.rigs, anchors |-> x.anchors]
<1>1. PICK S : S = {i \in 1 .. n : f[i].op \in ProvenanceRecords}
    OBVIOUS
<1>2. scene.front.provenance = Ranked(S)
    <2>1. scene.front["provenance"] = Ranked(FieldPlaces(f, n, "provenance"))
        BY DEF FrontFound, Findings, Found, Located
    <2> QED BY <1>1, <2>1, FieldKinds
<1>3. PICK l, at : l = Taken(f, S) /\ at = scene.front.provenance
    OBVIOUS
<1>4. I!IsSome(I!Fetch(f, at))
    BY <1>3 DEF I!ReadProvenance, IsSome, None, I!None
<1>5. I!Fetch(f, at) = Some(l)
    <2>1. IsSome(I!Fetch(f, at))
        BY <1>4 DEF I!IsSome, IsSome, I!None, None
    <2> QED BY <1>2, <1>3, <2>1, FetchTakes
<1>6. I!Fetch(f, at)[1] = l
    BY <1>5 DEF Some
<1>7. ASSUME NEW op \in ProvenanceRecords PROVE I!Ops(l, op) = Taken(f, OpPlaces(f, n, op))
    <2>1. Among(f, n, op, S)
        BY <1>1 DEF OpPlaces, Among
    <2> QED BY <1>3, <2>1, OpsTaken
<1>8. ASSUME NEW g \in {"frames", "sensors", "rigs", "anchors"}
      PROVE  ListOp[g] \in ProvenanceRecords /\ g \in Counted
    BY DEF ListOp, ProvenanceRecords, Counted
<1>9. ASSUME NEW g \in {"frames", "sensors", "anchors"} PROVE I!Ops(l, ListOp[g]) = x[g]
    <2>1. x[g] = Taken(f, ListPlaces(f, n, g))
        BY <1>8 DEF OfFile, ListsOfFile
    <2>2. ListPlaces(f, n, g) = OpPlaces(f, n, ListOp[g])
        BY <1>8, ListKinds
    <2> QED BY <1>7, <1>8, <2>1, <2>2
<1>10. I!Sampled(I!Ops(l, "RIG_TRAJECTORY")) = x.rigs
    <2>1. PICK T : T = OpPlaces(f, n, "RIG_TRAJECTORY") /\ T \subseteq 1 .. n
        BY PlacesNext
    <2>2. I!Ops(l, "RIG_TRAJECTORY") = Taken(f, T)
        BY <1>7, <2>1 DEF ProvenanceRecords
    <2>3. I!Sampled(Taken(f, T)) = Taken(f, {i \in T : f[i].times # <<>>})
        BY <2>1, SampledTaken
    <2>4. x["rigs"] = Taken(f, ListPlaces(f, n, "rigs"))
        BY DEF OfFile, ListsOfFile, Counted
    <2>5. ListPlaces(f, n, "rigs") = {i \in T : f[i].times # <<>>}
        BY <2>1, ListKinds DEF Counted, ListOp
    <2> QED BY <2>2, <2>3, <2>4, <2>5
<1>11. I!Ops(l, "COORDINATE_FRAME") = x.frames /\ I!Ops(l, "SENSOR_CALIBRATION") = x.sensors
       /\ I!Ops(l, "GEODETIC_ANCHOR") = x.anchors
    <2>1. I!Ops(l, ListOp["frames"]) = x["frames"] /\ I!Ops(l, ListOp["sensors"]) = x["sensors"]
          /\ I!Ops(l, ListOp["anchors"]) = x["anchors"]
        BY <1>9
    <2> QED BY <2>1 DEF ListOp
<1>12. PICK q : q = [frames |-> x.frames, sensors |-> x.sensors, rigs |-> x.rigs, anchors |-> x.anchors]
    OBVIOUS
<1>13. I!ReadProvenance(f, scene) = IF I!ProvenanceHolds(q, FALSE) THEN I!Some(q) ELSE I!None
    BY <1>3, <1>4, <1>6, <1>10, <1>11, <1>12 DEF I!ReadProvenance
<1>14. I!ReadProvenance(f, scene) = <<q>>
    BY <1>13 DEF IsSome, None, I!None, I!Some
<1>15. I!ReadProvenance(f, scene)[1] = q
    BY <1>14
<1> QED BY <1>12, <1>15

\* and the object layer.
LEMMA ObjectsAgree ==
    ASSUME NEW f, NEW n \in Nat, NEW x, x.at = n, OfFile(f, x), NEW scene, FrontFound(f, n, scene.front),
           IsSome(I!ReadObjects(f, scene))
    PROVE  I!ReadObjects(f, scene)[1] = [table |-> x.table, tracks |-> x.tracks]
<1>1. PICK S, T : S = OpPlaces(f, n, "OBJECT_TABLE") /\ T = OpPlaces(f, n, "OBJECT_TRACK")
    OBVIOUS
<1>2. S \subseteq 1 .. n /\ T \subseteq 1 .. n
    BY <1>1, PlacesNext
<1>3. PICK at, ranges : at = scene.front.tables /\ ranges = I!TrackRanges(scene)
    OBVIOUS
<1>4. at = Ranked(S)
    <2>1. scene.front["tables"] = Ranked(FieldPlaces(f, n, "tables"))
        BY DEF FrontFound, Findings, Found, Located
    <2> QED BY <1>1, <1>3, <2>1, FieldKinds
<1>5. ranges = Ranked(T)
    <2>1. I!Range(scene.front["tracks"]) = FieldPlaces(f, n, "tracks")
        BY DEF FrontFound, Findings, Found
    <2>2. I!Range(scene.front.tracks) = T
        BY <1>1, <2>1, FieldKinds
    <2>3. ranges = I!Ranked(T)
        BY <1>3, <2>2 DEF I!TrackRanges
    <2> QED BY <1>2, <2>3, RankedEnumerates
<1>6. I!IsSome(I!Fetch(f, at)) /\ I!IsSome(I!Fetch(f, ranges))
    BY <1>3 DEF I!ReadObjects, IsSome, None, I!None
<1>7. I!Fetch(f, at) = Some(Taken(f, S)) /\ I!Fetch(f, ranges) = Some(Taken(f, T))
    <2>1. IsSome(I!Fetch(f, at)) /\ IsSome(I!Fetch(f, ranges))
        BY <1>6 DEF I!IsSome, IsSome, I!None, None
    <2> QED BY <1>4, <1>5, <2>1, FetchTakes
<1>8. I!Fetch(f, at)[1] = Taken(f, S) /\ I!Fetch(f, ranges)[1] = Taken(f, T)
    BY <1>7 DEF Some
<1>9. I!LastOf(Taken(f, S)) = x.table
    <2>1. x["table"] = I!LastOf(Taken(f, OpPlaces(f, n, "OBJECT_TABLE")))
        BY DEF OfFile, OnesOfFile, Ones, OpOf
    <2> QED BY <1>1, <2>1
<1>10. I!Sampled(Taken(f, T)) = x.tracks
    <2>1. I!Sampled(Taken(f, T)) = Taken(f, {i \in T : f[i].times # <<>>})
        BY <1>2, SampledTaken
    <2>2. x["tracks"] = Taken(f, ListPlaces(f, n, "tracks"))
        BY DEF OfFile, ListsOfFile, Counted
    <2>3. ListPlaces(f, n, "tracks") = {i \in T : f[i].times # <<>>}
        BY <1>1, ListKinds DEF Counted, ListOp
    <2> QED BY <2>1, <2>2, <2>3
<1> QED BY <1>3, <1>6, <1>8, <1>9, <1>10 DEF I!ReadObjects, I!Some, IsSome, None, I!None

\* The bands of a chunk are those before the next chunk.
LEMMA BandOffsetsAre ==
    ASSUME file \in FILES, NEW c \in 1 .. Len(file), NEW cap
    PROVE  {j \in BandOffsets(c) : file[j].band <= cap} = BandPlaces(file, Len(file), c, cap)
<1>1. PICK f : f = file
    OBVIOUS
<1>2. PICK n \in Nat : n = Len(f) /\ DOMAIN f = 1 .. n
    BY <1>1, FileIs DEF IsSeq
<1>3. PICK U : U = {j \in 1 .. n : j > c /\ f[j].op = "CHUNK"}
    OBVIOUS
<1>4. PICK m : m = NextChunk(c)
    OBVIOUS
<1>5. m = IF U = {} THEN n + 1 ELSE Min(U)
    BY <1>1, <1>2, <1>3, <1>4 DEF NextChunk
<1>6. c \in 1 .. n
    BY <1>1, <1>2
<1>7. ASSUME NEW j \in 1 .. n, f[j].op = "SH_BAND_STREAM"
      PROVE  j < m <=> \A k \in 1 .. n : f[k].op = "CHUNK" => ~(c < k /\ k < j)
    <2>1. CASE U = {}
        <3>1. j < m
            BY <1>5, <2>1
        <3>2. \A k \in 1 .. n : f[k].op = "CHUNK" => ~(c < k)
            BY <1>3, <1>6, <2>1
        <3> QED BY <3>1, <3>2
    <2>2. CASE U # {}
        <3>1. U \subseteq 1 .. n
            BY <1>3
        <3>2. PICK d \in U : \A k \in U : d <= k
            BY <2>2, <3>1, FirstPosition
        <3>3. Min(U) \in U /\ \A k \in U : Min(U) <= k
            BY <3>2 DEF Min
        <3>4. PICK e \in 1 .. n : e = m /\ e \in U /\ \A k \in U : e <= k
            BY <1>5, <2>2, <3>1, <3>3
        <3>5. f[e].op = "CHUNK" /\ c < e
            BY <1>3, <1>6, <3>4
        <3>6. e # j
            BY <1>7, <3>5
        <3>7. ASSUME j < e, NEW k \in 1 .. n, f[k].op = "CHUNK", c < k PROVE ~(k < j)
            <4>1. k \in U
                BY <1>3, <1>6, <3>7
            <4>2. e <= k
                BY <3>4, <4>1
            <4> QED BY <3>7, <4>2
        <3>8. ASSUME \A k \in 1 .. n : f[k].op = "CHUNK" => ~(c < k /\ k < j) PROVE j < e
            <4>1. ~(e < j)
                BY <3>5, <3>8
            <4> QED BY <3>6, <4>1
        <3> QED BY <3>4, <3>7, <3>8
    <2> QED BY <2>1, <2>2
<1>8. {j \in BandOffsets(c) : f[j].band <= cap}
        = {j \in 1 .. n : c < j /\ j < m /\ f[j].op = "SH_BAND_STREAM" /\ f[j].band <= cap}
    BY <1>1, <1>2, <1>4 DEF BandOffsets
<1> QED BY <1>1, <1>2, <1>7, <1>8 DEF BandPlaces

\* The labels of the bands a fetch wants.
LEMMA WantedBands ==
    ASSUME NEW entry, IsSeq(entry.bands), NEW cap
    PROVE  {I!Wanted(entry, cap)[i][1] : i \in DOMAIN I!Wanted(entry, cap)}
             = {b[1] : b \in {d \in Range(entry.bands) : d[1] <= cap}}
<1>1. PICK l : l = entry.bands
    OBVIOUS
<1>2. PICK n \in Nat : n = Len(l) /\ DOMAIN l = 1 .. n
    BY <1>1 DEF IsSeq
<1>3. PICK K : K = {k \in 1 .. n : l[k][1] <= cap}
    OBVIOUS
<1>4. PICK w, r : w = I!Wanted(entry, cap) /\ r = Ranked(K)
    OBVIOUS
<1>5. w = Taken(l, K)
    <2>1. w = I!Taken(l, K)
        BY <1>1, <1>2, <1>3, <1>4 DEF I!Wanted
    <2>2. K \subseteq 1 .. n
        BY <1>3
    <2> QED BY <2>1, <2>2, TakenIs
<1>6. IsSeq(w) /\ Len(w) = Len(r) /\ (\A k \in 1 .. Len(r) : w[k] = l[r[k]]) /\ Enumerates(r, K)
    BY <1>3, <1>4, <1>5, TakenIs, RankedEnumerates
<1>7. PICK c \in Nat : c = Len(r) /\ DOMAIN w = 1 .. c
    BY <1>6 DEF IsSeq
<1>8. ASSUME NEW i \in 1 .. c PROVE w[i] \in Range(l) /\ w[i][1] <= cap
    <2>1. r[i] \in K /\ w[i] = l[r[i]]
        BY <1>6, <1>7 DEF Enumerates
    <2> QED BY <1>2, <1>3, <2>1 DEF Range
<1>9. ASSUME NEW b \in Range(l), b[1] <= cap PROVE \E i \in 1 .. c : w[i] = b
    <2>1. PICK k \in 1 .. n : l[k] = b
        BY <1>2 DEF Range
    <2>2. k \in K
        BY <1>3, <1>9, <2>1
    <2>3. PICK i \in 1 .. c : r[i] = k
        BY <1>6, <1>7, <2>2 DEF Enumerates
    <2> QED BY <1>6, <1>7, <2>1, <2>3
<1>10. {w[i][1] : i \in 1 .. c} = {b[1] : b \in {d \in Range(l) : d[1] <= cap}}
    BY <1>8, <1>9
<1> QED BY <1>1, <1>4, <1>7, <1>10

\* What the fetch of an indexed chunk gives is the chunk as the streamed reader took it.
LEMMA ChunkAgrees ==
    ASSUME file \in FILES, NEW n \in Nat, n = Len(file), NEW entry, IsSeq(entry.bands), NEW cap, entry.chunk \in 1 .. n,
           Range(entry.bands) = {<<file[j].band, j>> : j \in BandOffsets(entry.chunk)},
           entry.t0 = file[entry.chunk].t0, entry.t1 = file[entry.chunk].t1
    PROVE  I!Decoded(file, entry, cap) = ChunkOfFile(file, n, cap, entry.chunk)
<1>1. PICK c, f : c = entry.chunk /\ f = file
    OBVIOUS
<1>2. {b[1] : b \in {d \in Range(entry.bands) : d[1] <= cap}} = {f[j].band : j \in {k \in BandOffsets(c) : f[k].band <= cap}}
    <2>1. PICK B, R : B = BandOffsets(c) /\ R = Range(entry.bands)
        OBVIOUS
    <2>2. R = {<<f[j].band, j>> : j \in B}
        BY <1>1, <2>1
    <2>3. {b[1] : b \in {d \in R : d[1] <= cap}} = {f[j].band : j \in {k \in B : f[k].band <= cap}}
        <3>1. ASSUME NEW d \in R, d[1] <= cap PROVE \E j \in B : f[j].band <= cap /\ d[1] = f[j].band
            <4>1. PICK j \in B : d = <<f[j].band, j>>
                BY <2>2
            <4> QED BY <3>1, <4>1
        <3>2. ASSUME NEW j \in B, f[j].band <= cap PROVE \E d \in R : d[1] <= cap /\ d[1] = f[j].band
            <4>1. PICK d : d = <<f[j].band, j>>
                OBVIOUS
            <4>2. d \in R /\ d[1] = f[j].band
                BY <2>2, <4>1
            <4> QED BY <3>2, <4>2
        <3> QED BY ONLY <3>1, <3>2
    <2> QED BY <2>1, <2>3
<1>3. {k \in BandOffsets(c) : f[k].band <= cap} = BandPlaces(f, n, c, cap)
    BY <1>1, BandOffsetsAre
<1>4. {I!Wanted(entry, cap)[i][1] : i \in DOMAIN I!Wanted(entry, cap)} = {f[j].band : j \in BandPlaces(f, n, c, cap)}
    <2>1. {I!Wanted(entry, cap)[i][1] : i \in DOMAIN I!Wanted(entry, cap)}
            = {b[1] : b \in {d \in Range(entry.bands) : d[1] <= cap}}
        BY WantedBands
    <2>2. PICK W : W = {I!Wanted(entry, cap)[i][1] : i \in DOMAIN I!Wanted(entry, cap)}
        OBVIOUS
    <2>3. W = {f[j].band : j \in {k \in BandOffsets(c) : f[k].band <= cap}}
        BY <1>2, <2>1, <2>2
    <2>4. W = {f[j].band : j \in BandPlaces(f, n, c, cap)}
        BY <1>3, <2>3
    <2> QED BY <2>2, <2>4
<1> QED BY <1>1, <1>4 DEF I!Decoded, ChunkOfFile

\* What both readers keep of the summary is the same.
LEMMA SummaryAgrees ==
    ASSUME file \in FILES, Indexed, NEW x, x.at = Len(file), OfFile(file, x), NEW y
    PROVE  /\ x.index = I!SceneFrom(y, file).index /\ x.offsets = I!SceneFrom(y, file).offsets
           /\ x.statistics = I!SceneFrom(y, file).statistics
           /\ x.index = I!Ops(I!SummaryOf(file), "CHUNK_INDEX")
           /\ x.index = Taken(file, OpPlaces(file, Len(file), "CHUNK_INDEX"))
<1>1. PICK n, u : n = Len(file) /\ u = I!SummaryOf(file)
    OBVIOUS
<1>2. ASSUME NEW g \in {"index", "offsets"} PROVE x[g] = Taken(file, OpPlaces(file, n, ListOp[g]))
    <2>1. x[g] = Taken(file, ListPlaces(file, n, g))
        BY <1>1 DEF OfFile, ListsOfFile, Counted
    <2>2. ListPlaces(file, n, g) = OpPlaces(file, n, ListOp[g])
        BY ListKinds DEF Counted
    <2> QED BY <2>1, <2>2
<1>3. x["statistics"] = I!LastOf(Taken(file, OpPlaces(file, n, "STATISTICS")))
    BY <1>1 DEF OfFile, OnesOfFile, Ones, OpOf
<1>4. \A op \in SummaryRecords : I!Ops(u, op) = Taken(file, OpPlaces(file, n, op))
    BY <1>1, SummaryTakes
<1>5. x["index"] = I!Ops(u, "CHUNK_INDEX") /\ x["offsets"] = I!Ops(u, "SUMMARY_OFFSET")
    BY <1>2, <1>4 DEF ListOp, SummaryRecords
<1>6. x["statistics"] = I!LastOf(I!Ops(u, "STATISTICS"))
    BY <1>3, <1>4 DEF SummaryRecords
<1>7. x["index"] = Taken(file, OpPlaces(file, n, "CHUNK_INDEX"))
    BY <1>2 DEF ListOp
<1> QED BY <1>1, <1>5, <1>6, <1>7 DEF I!SceneFrom

\* The chunks fetched through the index are the chunks of a front-to-back read.
LEMMA ChunksAgree ==
    ASSUME file \in FILES, Indexed, NEW x, x.at = Len(file), OfFile(file, x), x.options.band = options.band,
           NEW scene, scene.index = x.index, \A i \in DOMAIN scene.index : IsSome(FetchedChunks(scene)[i])
    PROVE  ChunksOf(FetchedChunks(scene)) = x.chunks
<1>20. Len(file) \in Nat
    BY FileIs DEF IsSeq
<1>21. PICK n \in Nat : n = Len(file)
    BY <1>20
<1>22. PICK f, cap : f = file /\ cap = options.band
    OBVIOUS
<1>1. f = file /\ n = Len(file) /\ cap = options.band
    BY <1>21, <1>22
<1>2. n \in Nat /\ DOMAIN f = 1 .. n
    BY <1>1, FileIs DEF IsSeq
<1>3. PICK S, C : S = OpPlaces(f, n, "CHUNK_INDEX") /\ C = OpPlaces(f, n, "CHUNK")
    OBVIOUS
<1>4. S \subseteq 1 .. n /\ C \subseteq 1 .. n
    BY <1>2, <1>3, PlacesNext
<1>5. PICK e : e = scene.index
    OBVIOUS
<1>6. e = I!Ops(I!SummaryOf(file), "CHUNK_INDEX") /\ e = Taken(f, S)
    BY <1>1, <1>3, <1>5, SummaryAgrees
<1>7. PICK r, p : r = Ranked(C) /\ p = Ranked(S)
    OBVIOUS
<1>8. IsSeq(r) /\ \A i \in 1 .. Len(r) : r[i] \in C
    BY <1>2, <1>4, <1>7, RankedEnumerates DEF Enumerates
<1>9. IsSeq(e) /\ Len(e) = Len(p) /\ (\A i \in 1 .. Len(p) : e[i] = f[p[i]] /\ p[i] \in S)
    <2>1. IsSeq(e) /\ Len(e) = Len(p) /\ \A i \in 1 .. Len(p) : e[i] = f[p[i]]
        <3>1. S \subseteq 1 .. n
            BY <1>4
        <3>2. IsSeq(Taken(f, S)) /\ Len(Taken(f, S)) = Len(Ranked(S))
            BY <3>1, TakenIs
        <3>3. \A k \in 1 .. Len(Ranked(S)) : Taken(f, S)[k] = f[Ranked(S)[k]]
            BY <3>1, TakenIs
        <3> QED BY <1>6, <1>7, <3>2, <3>3
    <2>2. Enumerates(p, S)
        BY <1>2, <1>4, <1>7, RankedEnumerates
    <2> QED BY <2>1, <2>2 DEF Enumerates
<1>10. /\ [i \in DOMAIN e |-> e[i].chunk] = r
       /\ \A i \in DOMAIN e :
            /\ Range(e[i].bands) = {<<file[j].band, j>> : j \in BandOffsets(e[i].chunk)}
            /\ e[i].t0 = file[e[i].chunk].t0 /\ e[i].t1 = file[e[i].chunk].t1
    <2>1. ChunkOffsets = r
        BY <1>1, <1>2, <1>3, <1>7 DEF ChunkOffsets, OpPlaces
    <2> QED BY <1>6, <2>1 DEF Indexed
<1>11. PICK m \in Nat : m = Len(e) /\ DOMAIN e = 1 .. m
    BY <1>9 DEF IsSeq
<1>12. DOMAIN r = 1 .. m /\ Len(r) = m /\ \A i \in 1 .. m : e[i].chunk = r[i]
    <2>1. DOMAIN r = 1 .. m /\ \A i \in 1 .. m : e[i].chunk = r[i]
        BY <1>10, <1>11
    <2>2. DOMAIN r = 1 .. Len(r) /\ Len(r) \in Nat
        BY <1>8 DEF IsSeq
    <2> QED BY <1>11, <2>1, <2>2
<1>13. PICK q : q = x.chunks
    OBVIOUS
<1>14. IsSeq(q) /\ Len(q) = m /\ \A k \in 1 .. m : q[k] = ChunkOfFile(f, n, cap, r[k])
    BY <1>1, <1>3, <1>7, <1>12, <1>13 DEF OfFile, ChunksOfFile
<1>15. ASSUME NEW i \in 1 .. m PROVE FetchedChunks(scene)[i] = Some(q[i])
    <2>1. PICK d : d = e[i]
        OBVIOUS
    <2>2. IsSeq(d.bands)
        <3>1. d = f[p[i]] /\ p[i] \in S
            BY <1>9, <1>11, <2>1
        <3>2. p[i] \in DOMAIN f /\ f[p[i]].op = "CHUNK_INDEX"
            BY <1>2, <1>3, <3>1 DEF OpPlaces
        <3>3. PICK b, R : b = d.bands /\ R = Range(b)
            OBVIOUS
        <3>4. b \in Seq(R)
            BY <1>1, <3>1, <3>2, <3>3, FileAssumption
        <3> QED BY <3>3, <3>4, SeqIsSeq
    <2>3. d.chunk = r[i] /\ d.chunk \in 1 .. n
        BY <1>4, <1>8, <1>12, <2>1
    <2>4. /\ Range(d.bands) = {<<file[j].band, j>> : j \in BandOffsets(d.chunk)}
          /\ d.t0 = file[d.chunk].t0 /\ d.t1 = file[d.chunk].t1
        BY <1>10, <1>11, <2>1
    <2>5. I!Decoded(file, d, cap) = ChunkOfFile(file, n, cap, d.chunk)
        BY <1>1, <1>2, <2>2, <2>3, <2>4, ChunkAgrees
    <2>6. I!Decoded(file, d, cap) = q[i]
        BY <1>1, <1>14, <2>3, <2>5
    <2>7. FetchedChunks(scene)[i] = I!ReadChunk(file, scene, d, cap, options.limit)
        BY <1>1, <1>5, <1>11, <2>1 DEF FetchedChunks
    <2>8. IsSome(FetchedChunks(scene)[i])
        BY <1>5, <1>11
    <2> QED BY <2>6, <2>7, <2>8 DEF I!ReadChunk, IsSome, None, I!None, I!Some, Some
<1>16. PICK h : h = FetchedChunks(scene)
    OBVIOUS
<1>17. DOMAIN h = 1 .. m
    BY <1>5, <1>11, <1>16 DEF FetchedChunks
<1>18. ChunksOf(h) = [i \in 1 .. m |-> q[i]]
    BY <1>15, <1>16, <1>17 DEF ChunksOf, Some
<1>19. q = [i \in 1 .. m |-> q[i]]
    BY <1>14 DEF IsSeq
<1> QED BY <1>13, <1>16, <1>18, <1>19

\* What the two readers hold of a file they have both taken whole is the same scene.
HoldsWhole(x) ==
    x.at = Len(file) /\ OfFile(file, x) /\ x.options.band = options.band /\ AudioHolds(x, FALSE)
OpensWhole(y, scene) ==
    y = I!WalkFront(file, options) /\ y.refusal = "none" /\ scene = I!SceneFrom(y, file) /\ Fetches(scene)
SameScene(answer, fetched) == \A field \in DOMAIN fetched : answer[field] = fetched[field]

LEMMA BothAgree ==
    ASSUME file \in FILES, Indexed, InOrder, NEW x, HoldsWhole(x), NEW scene, NEW y, OpensWhole(y, scene)
    PROVE  SameScene(SceneOf(x, x.chunks, FALSE), FetchedScene(scene))
<1>20. PICK answer : answer = SceneOf(x, x.chunks, FALSE)
    OBVIOUS
<1>21. x.at = Len(file) /\ OfFile(file, x) /\ x.options.band = options.band /\ AudioHolds(x, FALSE)
    BY DEF HoldsWhole
<1>22. y = I!WalkFront(file, options) /\ y.refusal = "none" /\ scene = I!SceneFrom(y, file) /\ Fetches(scene)
    BY DEF OpensWhole
<1>1. PICK f, n, o : f = file /\ n = Len(file) /\ o = options
    OBVIOUS
<1>2. IsSeq(f) /\ n \in Nat /\ DOMAIN f = 1 .. n
    BY <1>1, FileIs DEF IsSeq
<1>3. scene.front = y /\ scene.audio = I!AudioOf(y)
    BY <1>22 DEF I!SceneFrom
<1>4. FrontFound(f, n, y)
    <2>1. FrontFound(f, I!FrontLength(f), y)
        BY <1>1, <1>2, <1>22, WalkFinds
    <2>2. \A g \in Findings : FieldPlaces(f, I!FrontLength(f), g) = FieldPlaces(f, n, g)
        BY <1>1, FrontIsAll
    <2> QED BY <2>1, <2>2 DEF FrontFound
<1>5. x.at = n /\ OfFile(f, x) /\ FrontFound(f, n, scene.front)
    BY <1>1, <1>3, <1>4, <1>21
<1>6. x.header = scene.front.header /\ x.windows = scene.front.windows
    <2>1. \A g \in Parsed : x[g] = y[g]
        BY <1>2, <1>4, <1>5, ParsedAgree
    <2> QED BY <1>3, <2>1 DEF Parsed
<1>7. scene.audio = Sources(x)
    <2>1. Numbered(f, n, OpPlaces(f, n, "AUDIO_SOURCE"))
        <3>1. \A i \in DOMAIN f : f[i].op \in {"AUDIO_SOURCE", "AUDIO_DATA"} => f[i].id \in Nat
            BY <1>1, FileAssumption
        <3> QED BY <1>2, <3>1 DEF Numbered, OpPlaces
    <2> QED BY <1>2, <1>3, <1>4, <1>5, <1>21, <2>1, AudioAgrees
<1>8. I!ReadCamera(file, scene)[1] = x.camera
    BY <1>1, <1>2, <1>5, <1>22, CameraAgrees DEF Fetches
<1>9. I!ReadMetadata(file, scene)[1] = x.metadata /\ I!ReadAttachments(file, scene)[1] = x.attachments
    <2>1. PICK z : z = scene.front
        OBVIOUS
    <2>2. IsSome(I!Fetch(f, z["metadata"])) /\ IsSome(I!Fetch(f, z["attachments"]))
        BY <1>1, <1>22, <2>1 DEF Fetches, I!ReadMetadata, I!ReadAttachments
    <2>3. FrontFound(f, n, z)
        BY <1>5, <2>1
    <2>4. \A g \in {"metadata", "attachments"} : I!Fetch(f, z[g])[1] = x[g]
        BY <1>2, <1>5, <2>2, <2>3, FetchedAgree
    <2>5. I!Fetch(f, z["metadata"])[1] = x["metadata"] /\ I!Fetch(f, z["attachments"])[1] = x["attachments"]
        BY <2>4
    <2> QED BY <1>1, <2>1, <2>5 DEF I!ReadMetadata, I!ReadAttachments
<1>10. I!ReadProvenance(file, scene)[1]
         = [frames |-> x.frames, sensors |-> x.sensors, rigs |-> x.rigs, anchors |-> x.anchors]
    BY <1>1, <1>2, <1>5, <1>22, ProvenanceAgrees DEF Fetches
<1>11. I!ReadObjects(file, scene)[1] = [table |-> x.table, tracks |-> x.tracks]
    BY <1>1, <1>2, <1>5, <1>22, ObjectsAgree DEF Fetches
<1>12. scene.index = x.index /\ scene.offsets = x.offsets /\ scene.statistics = x.statistics
    BY <1>21, <1>22, SummaryAgrees
<1>13. ChunksOf(FetchedChunks(scene)) = x.chunks
    BY <1>12, <1>21, <1>22, ChunksAgree DEF Fetches
<1>14. I!WindowsOf(scene) = IF IsSome(x.windows) THEN x.windows[1].windows ELSE <<>>
    BY <1>6 DEF I!WindowsOf, I!IsSome, IsSome, I!None, None
<1>15. FetchedScene(scene) =
         [header |-> x.header[1], chunks |-> x.chunks,
          gaussians |-> AssembleRows(x.chunks, IF IsSome(x.windows) THEN x.windows[1].windows ELSE <<>>, x.header[1]),
          audio |-> Sources(x), camera |-> x.camera, metadata |-> x.metadata, attachments |-> x.attachments,
          provenance |-> [frames |-> x.frames, sensors |-> x.sensors, rigs |-> x.rigs, anchors |-> x.anchors],
          table |-> x.table, tracks |-> x.tracks, statistics |-> x.statistics, index |-> x.index, offsets |-> x.offsets]
    BY <1>6, <1>7, <1>8, <1>9, <1>10, <1>11, <1>12, <1>13, <1>14 DEF FetchedScene
<1>16. PICK gs, au, pr : /\ gs = AssembleRows(x.chunks, IF IsSome(x.windows) THEN x.windows[1].windows ELSE <<>>, x.header[1])
                         /\ au = Sources(x)
                         /\ pr = [frames |-> x.frames, sensors |-> x.sensors, rigs |-> x.rigs, anchors |-> x.anchors]
    OBVIOUS
<1>17. FetchedScene(scene) =
         [header |-> x.header[1], chunks |-> x.chunks, gaussians |-> gs, audio |-> au, camera |-> x.camera,
          metadata |-> x.metadata, attachments |-> x.attachments, provenance |-> pr,
          table |-> x.table, tracks |-> x.tracks, statistics |-> x.statistics, index |-> x.index, offsets |-> x.offsets]
    BY <1>15, <1>16
<1>18. /\ answer.header = x.header[1] /\ answer.chunks = x.chunks /\ answer.gaussians = gs /\ answer.audio = au
       /\ answer.camera = x.camera /\ answer.metadata = x.metadata /\ answer.attachments = x.attachments
       /\ answer.provenance = pr /\ answer.table = x.table /\ answer.tracks = x.tracks
       /\ answer.statistics = x.statistics /\ answer.index = x.index /\ answer.offsets = x.offsets
    BY <1>16, <1>20 DEF SceneOf
<1>19. DOMAIN FetchedScene(scene) = {"header", "chunks", "gaussians", "audio", "camera", "metadata", "attachments",
                                     "provenance", "table", "tracks", "statistics", "index", "offsets"}
    BY DEF FetchedScene
<1>23. PICK z : z = FetchedScene(scene)
    OBVIOUS
<1>24. /\ z.header = answer.header /\ z.chunks = answer.chunks /\ z.gaussians = answer.gaussians
       /\ z.audio = answer.audio /\ z.camera = answer.camera /\ z.metadata = answer.metadata
       /\ z.attachments = answer.attachments /\ z.provenance = answer.provenance /\ z.table = answer.table
       /\ z.tracks = answer.tracks /\ z.statistics = answer.statistics /\ z.index = answer.index
       /\ z.offsets = answer.offsets
    BY <1>17, <1>18, <1>23
<1>25. \A field \in DOMAIN z : answer[field] = z[field]
    BY <1>19, <1>23, <1>24
<1> QED BY <1>20, <1>23, <1>25 DEF SameScene

\* A file both readers take whole is one scene (stream_reader.rs read_from, which hands over what the records of
\* the file in order say; indexed_reader.rs open_indexed and its fetches, which find every one of them by the walk
\* over the front matter and by the index): in every state of the reading, what the two give agrees field by field.
THEOREM ReadersMatch == Spec => []ReadersAgree
<1>1. BothRead => ReadersAgree
    <2> SUFFICES ASSUME BothRead, clean, Comparable, IsSome(streamed), IsSome(indexed), NEW scene, scene = indexed[1],
                        Fetches(scene)
                 PROVE  \A field \in DOMAIN FetchedScene(scene) : streamed[1][field] = FetchedScene(scene)[field]
        BY DEF ReadersAgree
    <2>1. PICK x, y : x = s /\ y = I!WalkFront(file, options)
        OBVIOUS
    <2>2. Reading(x) /\ file \in FILES
        BY <2>1 DEF BothRead, ReadInv
    <2>3. /\ OfFile(file, x) /\ x.options = options /\ x.at = Len(file) /\ streamed = Finish(x, TRUE)
          /\ indexed = I!OpenIndexed(file, TRUE, options)
        BY <2>1, <2>2 DEF BothRead
    <2>4. AudioHolds(x, FALSE) /\ streamed = Some(SceneOf(x, x.chunks, FALSE))
        <3>1. (x.outcome = "cut" \/ ~TRUE) = FALSE
            BY <2>2 DEF Reading
        <3> QED BY <2>3, <3>1 DEF Finish, IsSome, None
    <2>5. y.refusal = "none" /\ scene = I!SceneFrom(y, file)
        <3>1. I!OpenRefusal(file, TRUE, options) = "none" /\ indexed = I!Some(I!SceneFrom(y, file))
            BY <2>1, <2>3 DEF I!OpenIndexed, IsSome, None, I!None
        <3>2. y.refusal = "none"
            BY <2>1, <3>1 DEF I!OpenRefusal
        <3> QED BY <3>1, <3>2 DEF I!Some
    <2>6. Indexed /\ InOrder
        BY DEF Comparable
    <2>7. HoldsWhole(x)
        BY <2>3, <2>4 DEF HoldsWhole
    <2>8. OpensWhole(y, scene)
        BY <2>1, <2>5 DEF OpensWhole
    <2>9. SameScene(SceneOf(x, x.chunks, FALSE), FetchedScene(scene))
        BY <2>2, <2>6, <2>7, <2>8, BothAgree
    <2>10. streamed[1] = SceneOf(x, x.chunks, FALSE)
        BY <2>4 DEF Some
    <2> QED BY <2>9, <2>10 DEF SameScene
<1> QED BY <1>1, BothInit, BothInductive, PTL DEF Spec
=============================================================================
