-------------------------- MODULE SceneWriterProofs --------------------------
(***************************************************************************)
(* The harmonics of a fourdgs_writer handle, whatever its setters are      *)
(* called with, in whatever order, and however often it is encoded; and    *)
(* where plan_chunks puts a gaussian, whatever the scene, its windows, the *)
(* depth of the tree and the order of its nodes.                           *)
(***************************************************************************)
EXTENDS SceneWriter, ListLemmas

----------------------------------------------------------------------------
(* Harmonics                                                               *)

\* What a handle holds has the fields the setters set, and only a handle is
\* assembled: the setters then leave the fields they do not name alone.
HandleInv ==
    /\ stage = "assembling" => input.handle
    /\ input.handle =>
        /\ input = [field \in DOMAIN input |-> input[field]]
        /\ {"gaussians", "degree", "coefficients", "rows", "duration", "options", "handle"} \subseteq DOMAIN input
        /\ HarmonicsFit

LEMMA HandleInit == Init => HandleInv
<1> SUFFICES ASSUME Init PROVE HandleInv
    OBVIOUS
<1>1. CASE input \in INPUTS /\ stage = "called"
    <2>1. ~input.handle
        BY <1>1, HandleAssumption
    <2> QED BY <1>1, <2>1 DEF HandleInv
<1>2. CASE input = FRESH /\ stage = "assembling"
    <2>1. input = [field \in DOMAIN input |-> input[field]]
          /\ {"gaussians", "degree", "coefficients", "rows", "duration", "options", "handle"} \subseteq DOMAIN input
          /\ input.coefficients = 0 /\ input.degree = 0 /\ input.rows = 0 /\ input.handle
        BY <1>2, HandleAssumption
    <2>2. HarmonicsFit
        BY <2>1 DEF HarmonicsFit
    <2> QED BY <2>1, <2>2 DEF HandleInv
<1> QED BY <1>1, <1>2 DEF Init

LEMMA HandleNext == HandleInv /\ [Next]_vars => HandleInv'
<1> SUFFICES ASSUME HandleInv, [Next]_vars PROVE HandleInv'
    OBVIOUS
<1> DEFINE Fields == {"gaussians", "degree", "coefficients", "rows", "duration", "options", "handle"}
\* A handle's input keeps its shape when some of its fields are set.
<1>1. ASSUME Assembling PROVE /\ input.handle /\ stage' = stage
                              /\ input = [field \in DOMAIN input |-> input[field]]
                              /\ Fields \subseteq DOMAIN input
                              /\ HarmonicsFit
    BY <1>1 DEF Assembling, HandleInv
<1>2. ASSUME input' = input, stage' = "assembling" => stage = "assembling" \/ input.handle PROVE HandleInv'
    BY <1>2 DEF HandleInv, HarmonicsFit
<1>3. CASE SetGaussians
    <2>1. PICK columns \in COLUMNS :
              input' = [input EXCEPT !.gaussians = columns, !.degree = 0, !.coefficients = 0, !.rows = 0]
        BY <1>3 DEF SetGaussians
    <2>2. /\ input'.handle /\ DOMAIN input' = DOMAIN input
          /\ input' = [field \in DOMAIN input' |-> input'[field]]
          /\ input'.coefficients = 0 /\ input'.degree = 0 /\ input'.rows = 0
        BY <1>1, <1>3, <2>1 DEF SetGaussians
    <2> QED BY <1>1, <1>3, <2>2 DEF SetGaussians, HandleInv, HarmonicsFit
<1>4. CASE SetSh
    <2>1. PICK degree \in 0 .. 4, coefficients \in {0, 3, 5, 15}, rows \in 0 .. 2 :
              input' = IF 0 \in {degree, coefficients, rows}
                       THEN [input EXCEPT !.degree = 0, !.coefficients = 0, !.rows = 0]
                       ELSE IF rows # Len(input.gaussians) THEN input
                       ELSE [input EXCEPT !.degree = degree, !.coefficients = coefficients, !.rows = rows]
        BY <1>4 DEF SetSh
    <2>2. /\ input.handle /\ stage' = stage
          /\ input = [field \in DOMAIN input |-> input[field]]
          /\ Fields \subseteq DOMAIN input
          /\ HarmonicsFit
        BY <1>1, <1>4 DEF SetSh
    <2>3. CASE 0 \in {degree, coefficients, rows}
        <3>1. input' = [input EXCEPT !.degree = 0, !.coefficients = 0, !.rows = 0]
            BY <2>1, <2>3
        <3>2. /\ input'.handle /\ DOMAIN input' = DOMAIN input
              /\ input' = [field \in DOMAIN input' |-> input'[field]]
              /\ input'.coefficients = 0 /\ input'.degree = 0 /\ input'.rows = 0
            BY <2>2, <3>1
        <3> QED BY <2>2, <3>2 DEF HandleInv, HarmonicsFit
    <2>4. CASE 0 \notin {degree, coefficients, rows} /\ rows # Len(input.gaussians)
        BY <1>2, <2>1, <2>2, <2>4
    <2>5. CASE 0 \notin {degree, coefficients, rows} /\ rows = Len(input.gaussians)
        <3>1. input' = [input EXCEPT !.degree = degree, !.coefficients = coefficients, !.rows = rows]
            BY <2>1, <2>5
        <3>2. /\ input'.handle /\ DOMAIN input' = DOMAIN input
              /\ input' = [field \in DOMAIN input' |-> input'[field]]
              /\ input'.coefficients = coefficients /\ input'.degree = degree /\ input'.rows = rows
              /\ input'.gaussians = input.gaussians
            BY <2>2, <3>1
        <3>3. coefficients # 0 /\ degree > 0
            BY <2>5
        <3> QED BY <2>2, <2>5, <3>2, <3>3 DEF HandleInv, HarmonicsFit
    <2> QED BY <2>3, <2>4, <2>5
<1>5. CASE SetOption
    <2>1. PICK options \in SETTINGS, duration \in {0, 16} :
              input' = [input EXCEPT !.options = options, !.duration = duration]
        BY <1>5 DEF SetOption
    <2>2. /\ input.handle /\ stage' = stage
          /\ input = [field \in DOMAIN input |-> input[field]]
          /\ Fields \subseteq DOMAIN input
          /\ HarmonicsFit
        BY <1>1, <1>5 DEF SetOption
    <2>3. /\ input'.handle /\ DOMAIN input' = DOMAIN input
          /\ input' = [field \in DOMAIN input' |-> input'[field]]
          /\ input'.coefficients = input.coefficients /\ input'.degree = input.degree
          /\ input'.rows = input.rows /\ input'.gaussians = input.gaussians
        BY <2>1, <2>2
    <2> QED BY <2>2, <2>3 DEF HandleInv, HarmonicsFit
\* The handle keeps what it holds, whatever comes of an encoding.
<1>6. CASE HandBack
    BY <1>2, <1>6 DEF HandBack
<1>7. CASE EncodeHandle \/ Quantize \/ Plan \/ WriteFront \/ WriteChunk \/ WriteSummary \/ Refuse
    BY <1>2, <1>7 DEF EncodeHandle, Quantize, Plan, WriteFront, WriteChunk, WriteSummary, Refuse
<1>8. CASE UNCHANGED vars
    BY <1>2, <1>8 DEF vars
<1> QED BY <1>3, <1>4, <1>5, <1>6, <1>7, <1>8 DEF Next

\* Whatever order the setters of a handle are called in, and however often what it
\* holds is encoded, the harmonics it holds are for exactly its gaussians, or there
\* are none: fourdgs_writer_set_gaussians takes the old ones away.
THEOREM HarmonicsStay == Spec => []HarmonicsFit
<1>1. HandleInv => HarmonicsFit
    BY DEF HandleInv, HarmonicsFit
<1> QED BY <1>1, HandleInit, HandleNext, PTL DEF Spec

----------------------------------------------------------------------------
(* Numbers in order                                                        *)

\* An order of a finite set ranks it: so many are before an element.
Lower(S, R, x) == {y \in S : <<y, x>> \in R}

Orders(R, S) ==
    /\ \A x \in S : <<x, x>> \notin R
    /\ \A x, y, z \in S : <<x, y>> \in R /\ <<y, z>> \in R => <<x, z>> \in R
    /\ \A x, y \in S : x = y \/ <<x, y>> \in R \/ <<y, x>> \in R

Rank(S, R, x) == Cardinality(Lower(S, R, x))

LEMMA RanksGrow ==
    ASSUME NEW S, IsFiniteSet(S), NEW R, Orders(R, S), NEW x \in S, NEW y \in S, <<x, y>> \in R
    PROVE  Rank(S, R, x) \in Nat /\ Rank(S, R, y) \in Nat /\ Rank(S, R, x) < Rank(S, R, y)
<1>1. PICK A, B : A = Lower(S, R, x) /\ B = Lower(S, R, y)
    OBVIOUS
<1>2. A \subseteq B /\ x \in B /\ x \notin A /\ B \subseteq S
    BY <1>1 DEF Lower, Orders
<1>3. IsFiniteSet(B)
    BY <1>2, FS_Subset
<1>4. IsFiniteSet(A) /\ Cardinality(A) <= Cardinality(B) /\ Cardinality(A) # Cardinality(B)
    BY <1>2, <1>3, FS_Subset
<1>5. Cardinality(A) \in Nat /\ Cardinality(B) \in Nat
    BY <1>3, <1>4, FS_CardinalityType
<1> QED BY <1>1, <1>4, <1>5 DEF Rank

LEMMA RanksBelow ==
    ASSUME NEW S, IsFiniteSet(S), NEW R, Orders(R, S), NEW x \in S
    PROVE  /\ Cardinality(S) \in Nat /\ Rank(S, R, x) \in Nat
           /\ Rank(S, R, x) + 1 \in 1 .. Cardinality(S)
<1>1. PICK A : A = Lower(S, R, x)
    OBVIOUS
<1>2. A \subseteq S /\ x \notin A
    BY <1>1 DEF Lower, Orders
<1>3. IsFiniteSet(A) /\ Cardinality(A) <= Cardinality(S) /\ Cardinality(A) # Cardinality(S)
    BY <1>2, FS_Subset
<1>4. Cardinality(A) \in Nat /\ Cardinality(S) \in Nat
    BY <1>3, FS_CardinalityType
<1> QED BY <1>1, <1>3, <1>4 DEF Rank

\* Every place is somebody's rank: there are as many of one as of the other.
LEMMA RanksAll ==
    ASSUME NEW S, IsFiniteSet(S), NEW R, Orders(R, S), NEW i \in 1 .. Cardinality(S)
    PROVE  \E x \in S : Rank(S, R, x) = i - 1
<1>1. PICK c : c = Cardinality(S)
    OBVIOUS
<1>2. c \in Nat
    BY <1>1, FS_CardinalityType
<1>3. PICK f : f = [x \in S |-> Rank(S, R, x) + 1]
    OBVIOUS
<1>4. \A x \in S : f[x] = Rank(S, R, x) + 1 /\ f[x] \in 1 .. c
    BY <1>1, <1>3, RanksBelow
<1>5. ASSUME NEW x \in S, NEW y \in S, f[x] = f[y] PROVE x = y
    <2>1. ASSUME NEW v \in S, NEW w \in S, <<v, w>> \in R PROVE f[v] # f[w]
        BY <1>4, <2>1, RanksGrow
    <2> QED BY <1>5, <2>1 DEF Orders
<1>6. f \in Injection(S, 1 .. c)
    BY <1>3, <1>4, <1>5 DEF Injection, IsInjective
<1>7. IsFiniteSet(1 .. c) /\ Cardinality(1 .. c) = c
    BY <1>2, FS_Interval
<1>8. f \in Surjection(S, 1 .. c)
    BY <1>1, <1>6, <1>7, FS_Injection
<1>9. PICK x \in S : f[x] = i
    BY <1>1, <1>8 DEF Surjection
<1>10. PICK r : r = Rank(S, R, x)
    OBVIOUS
<1>11. r \in Nat /\ r + 1 = i
    BY <1>4, <1>9, <1>10, RanksBelow
<1>12. r = i - 1
    BY <1>11
<1> QED BY <1>10, <1>12

\* Ranked lists a finite set of numbers in ascending order.
LEMMA RankedAscends ==
    ASSUME NEW S, S \subseteq Int, IsFiniteSet(S), NEW r, r = Ranked(S)
    PROVE  /\ Cardinality(S) \in Nat /\ IsSeq(r) /\ Len(r) = Cardinality(S)
           /\ \A i \in 1 .. Len(r) : r[i] \in S
           /\ \A i, j \in 1 .. Len(r) : i < j => r[i] < r[j]
<1>1. PICK c : c = Cardinality(S)
    OBVIOUS
<1>2. c \in Nat
    BY <1>1, FS_CardinalityType
<1>3. PICK R : R = {p \in S \X S : p[1] < p[2]}
    OBVIOUS
<1>4. \A x, y \in S : <<x, y>> \in R <=> x < y
    BY <1>3
<1>5. Orders(R, S)
    BY <1>4 DEF Orders
<1>6. \A x \in S : {y \in S : y < x} = Lower(S, R, x)
    BY <1>4 DEF Lower
<1>7. r = [i \in 1 .. c |-> CHOOSE x \in S : Cardinality({y \in S : y < x}) = i - 1]
    BY <1>1 DEF Ranked
<1>8. IsSeq(r) /\ Len(r) = c
    <2>1. r = [i \in 1 .. c |-> r[i]]
        BY <1>7
    <2> QED BY <1>2, <2>1 DEF IsSeq
<1>9. ASSUME NEW i \in 1 .. c PROVE r[i] \in S /\ Rank(S, R, r[i]) = i - 1
    <2>1. \E x \in S : Cardinality({y \in S : y < x}) = i - 1
        <3>1. PICK x \in S : Rank(S, R, x) = i - 1
            BY <1>1, <1>5, RanksAll
        <3>2. Cardinality({y \in S : y < x}) = i - 1
            BY <1>6, <3>1 DEF Rank
        <3> QED BY <3>2
    <2>2. PICK v : v = r[i]
        OBVIOUS
    <2>3. v = CHOOSE x \in S : Cardinality({y \in S : y < x}) = i - 1
        BY <1>7, <2>2
    <2>4. v \in S /\ Cardinality({y \in S : y < v}) = i - 1
        BY ONLY <2>1, <2>3
    <2> QED BY <1>6, <2>2, <2>4 DEF Rank
<1>10. ASSUME NEW i \in 1 .. c, NEW j \in 1 .. c, i < j PROVE r[i] < r[j]
    <2>1. r[i] \in S /\ r[j] \in S /\ Rank(S, R, r[i]) = i - 1 /\ Rank(S, R, r[j]) = j - 1
        BY <1>9
    <2>2. ~(<<r[j], r[i]>> \in R)
        <3>1. SUFFICES ASSUME <<r[j], r[i]>> \in R PROVE FALSE
            OBVIOUS
        <3>2. j - 1 < i - 1
            BY <1>5, <2>1, <3>1, RanksGrow
        <3> QED BY <1>10, <3>2
    <2>3. r[i] # r[j]
        <3>1. i - 1 # j - 1
            BY <1>10
        <3> QED BY <2>1, <3>1
    <2>4. r[i] \in Int /\ r[j] \in Int /\ ~(r[j] < r[i])
        BY <1>4, <2>1, <2>2
    <2> QED BY <2>3, <2>4
<1> QED BY <1>1, <1>2, <1>8, <1>9, <1>10

----------------------------------------------------------------------------
(* The input and the tops                                                  *)

\* An input whose times and limits are numbers.
Fits(x) == Measured(x.gaussians) /\ Limited(x.options) /\ x.duration \in Int

LEMMA MaxOfTwo ==
    ASSUME NEW a \in Int, NEW b \in Int
    PROVE  Max({a, b}) \in Int /\ Min({a, b}) \in Int
<1>1. \E m \in {a, b} : \A y \in {a, b} : m >= y
    OBVIOUS
<1>2. \E m \in {a, b} : \A y \in {a, b} : m <= y
    OBVIOUS
<1>3. Max({a, b}) \in {a, b}
    BY <1>1 DEF Max
<1>4. Min({a, b}) \in {a, b}
    BY <1>2 DEF Min
<1> QED BY <1>3, <1>4

\* A support is a pair of numbers.
LEMMA SupportIs ==
    ASSUME NEW x, Fits(x), NEW i \in DOMAIN x.gaussians
    PROVE  Support(x.gaussians[i]).lo \in Int /\ Support(x.gaussians[i]).hi \in Int
<1>1. PICK g : g = x.gaussians[i]
    OBVIOUS
<1>2. g.lo \in Int /\ g.hi \in Int /\ (g.half # None => g.mu \in Int /\ g.half[1] \in Int)
    BY <1>1 DEF Fits, Measured
<1>3. CASE g.half = None
    BY <1>1, <1>2, <1>3 DEF Support
<1>4. CASE g.half # None
    <2>1. PICK a, b : a = g.mu - g.half[1] - 1 /\ b = g.mu + g.half[1] + 1
        OBVIOUS
    <2>2. a \in Int /\ b \in Int
        BY <1>2, <1>4, <2>1
    <2>3. Support(g).lo = Max({a, g.lo}) /\ Support(g).hi = Min({b, g.hi})
        BY <1>4, <2>1 DEF Support, Marginal
    <2>4. Max({a, g.lo}) \in Int /\ Min({b, g.hi}) \in Int
        BY <1>2, <2>2, MaxOfTwo
    <2> QED BY <1>1, <2>3, <2>4
<1> QED BY <1>3, <1>4

\* The ends of the top nodes are numbers in order, at least two.
Climbs(tops) ==
    /\ IsSeq(tops) /\ Len(tops) >= 2
    /\ \A k \in 1 .. Len(tops) : tops[k] \in Int
    /\ \A j, k \in 1 .. Len(tops) : j <= k => tops[j] <= tops[k]

LEMMA TopsClimb ==
    ASSUME NEW x, Fits(x)
    PROVE  Climbs(Tops(x))
<1>1. PICK d : d = x.duration
    OBVIOUS
<1>2. CASE d = 0
    <2>1. PICK tops : tops = <<0, TINY>>
        OBVIOUS
    <2>2. IsSeq(tops) /\ Len(tops) = 2 /\ tops[1] = 0 /\ tops[2] = TINY
        BY <2>1 DEF IsSeq
    <2>3. TINY \in Nat
        BY InputAssumption
    <2>4. Climbs(tops)
        BY <2>2, <2>3 DEF Climbs
    <2>5. Tops(x) = tops
        BY <1>1, <1>2, <2>1 DEF Tops
    <2> QED BY <2>4, <2>5
<1>3. CASE d # 0
    <2>1. PICK S : S = {0, d} \cup {v \in UNION {{x.gaussians[i].lo, x.gaussians[i].hi} : i \in DOMAIN x.gaussians} :
                                     0 < v /\ v < d}
        OBVIOUS
    <2>2. d \in Int
        BY <1>1 DEF Fits
    <2>3. PICK E : E = UNION {{x.gaussians[i].lo, x.gaussians[i].hi} : i \in DOMAIN x.gaussians}
        OBVIOUS
    <2>4. E \subseteq Int
        <3>1. \A i \in DOMAIN x.gaussians : x.gaussians[i].lo \in Int /\ x.gaussians[i].hi \in Int
            BY DEF Fits, Measured
        <3> QED BY <2>3, <3>1
    <2>5. S \subseteq 0 .. d \/ S \subseteq d .. 0
        <3>1. S = {0, d} \cup {v \in E : 0 < v /\ v < d}
            BY <2>1, <2>3
        <3>2. {v \in E : 0 < v /\ v < d} \subseteq 0 .. d
            <4>1. ASSUME NEW v \in E, 0 < v, v < d PROVE v \in 0 .. d
                <5>1. v \in Int
                    BY <2>4
                <5> QED BY <2>2, <4>1, <5>1
            <4> QED BY <4>1
        <3>3. CASE d > 0
            <4>1. {0, d} \subseteq 0 .. d
                BY <2>2, <3>3
            <4> QED BY <3>1, <3>2, <4>1
        <3>4. CASE d < 0
            <4>1. {0, d} \subseteq d .. 0
                BY <2>2, <3>4
            <4>2. {v \in E : 0 < v /\ v < d} = {}
                <5>1. ASSUME NEW v \in E, 0 < v, v < d PROVE FALSE
                    <6>1. v \in Int
                        BY <2>4
                    <6> QED BY <2>2, <3>4, <5>1, <6>1
                <5> QED BY <5>1
            <4> QED BY <3>1, <4>1, <4>2
        <3> QED BY <1>3, <2>2, <3>3, <3>4
    <2>6. IsFiniteSet(S) /\ S \subseteq Int
        <3>1. IsFiniteSet(0 .. d) /\ IsFiniteSet(d .. 0)
            BY <2>2, FS_Interval
        <3> QED BY <2>2, <2>5, <3>1, FS_Subset
    <2>7. PICK tops : tops = Ranked(S)
        OBVIOUS
    <2>8. Tops(x) = tops
        BY <1>1, <1>3, <2>1, <2>7 DEF Tops
    <2>9. Cardinality(S) >= 2
        <3>1. {0} \subseteq S /\ d \in S /\ {0} # S
            BY <1>3, <2>1
        <3>2. IsFiniteSet({0}) /\ Cardinality({0}) = 1
            BY FS_Singleton
        <3>3. Cardinality({0}) <= Cardinality(S) /\ Cardinality({0}) # Cardinality(S)
            BY <2>6, <3>1, FS_Subset
        <3>4. Cardinality(S) \in Nat
            BY <2>6, FS_CardinalityType
        <3> QED BY <3>2, <3>3, <3>4
    <2>10. /\ Cardinality(S) \in Nat /\ IsSeq(tops) /\ Len(tops) = Cardinality(S)
           /\ \A i \in 1 .. Len(tops) : tops[i] \in S
           /\ \A i, j \in 1 .. Len(tops) : i < j => tops[i] < tops[j]
        BY <2>6, <2>7, RankedAscends
    <2>11. \A i \in 1 .. Len(tops) : tops[i] \in Int
        BY <2>6, <2>10
    <2>12. ASSUME NEW j \in 1 .. Len(tops), NEW k \in 1 .. Len(tops), j <= k PROVE tops[j] <= tops[k]
        <3>1. CASE j = k
            BY <2>11, <3>1
        <3>2. CASE j < k
            BY <2>10, <2>11, <3>2
        <3> QED BY <2>12, <3>1, <3>2
    <2>13. Climbs(tops)
        BY <2>9, <2>10, <2>11, <2>12 DEF Climbs
    <2> QED BY <2>8, <2>13
<1> QED BY <1>2, <1>3

----------------------------------------------------------------------------
(* The intervals there could be                                            *)

\* What the partition could use: an interval of some length and its depth.
Cut == {v \in [t0 : Int, t1 : Int, level : Nat] : v.t0 <= v.t1}

Inside(v, w) == w.t0 <= v.t0 /\ v.t1 <= w.t1

LEMMA MiddleIs ==
    ASSUME NEW v, v.t0 \in Int, v.t1 \in Int, v.t0 <= v.t1
    PROVE  Middle(v) \in Int /\ v.t0 <= Middle(v) /\ Middle(v) <= v.t1
<1>1. PICK a \in Int, b \in Int : a = v.t0 /\ b = v.t1
    OBVIOUS
<1>2. (a + b) \div 2 \in Int /\ a <= (a + b) \div 2 /\ (a + b) \div 2 <= b
    BY <1>1
<1> QED BY <1>1, <1>2 DEF Middle

LEMMA HalvesAre ==
    ASSUME NEW v \in Cut, NEW h \in Halves(v)
    PROVE  /\ h \in Cut /\ h.level = v.level + 1 /\ Inside(h, v)
           /\ \/ h.t0 = v.t0 /\ h.t1 = Middle(v)
              \/ h.t0 = Middle(v) /\ h.t1 = v.t1
<1>1. PICK m \in Int : m = Middle(v) /\ v.t0 <= m /\ m <= v.t1
    BY MiddleIs DEF Cut
<1>2. h = [t0 |-> v.t0, t1 |-> m, level |-> v.level + 1] \/ h = [t0 |-> m, t1 |-> v.t1, level |-> v.level + 1]
    BY <1>1 DEF Halves
<1>3. v.t0 \in Int /\ v.t1 \in Int /\ v.level \in Nat
    BY DEF Cut
<1>4. CASE h = [t0 |-> v.t0, t1 |-> m, level |-> v.level + 1]
    BY <1>1, <1>3, <1>4 DEF Cut, Inside
<1>5. CASE h = [t0 |-> m, t1 |-> v.t1, level |-> v.level + 1]
    BY <1>1, <1>3, <1>5 DEF Cut, Inside
<1> QED BY <1>2, <1>4, <1>5

Firsts(tops) == {[t0 |-> tops[k], t1 |-> tops[k + 1], level |-> 0] : k \in 1 .. Len(tops) - 1}

LEMMA FirstsAre ==
    ASSUME NEW tops, Climbs(tops)
    PROVE  /\ Firsts(tops) \subseteq {v \in Cut : v.level = 0}
           /\ \A v, w \in Firsts(tops) : v = w \/ v.t1 <= w.t0 \/ w.t1 <= v.t0
<1>1. PICK n \in Nat : n = Len(tops)
    BY DEF Climbs, IsSeq
<1>2. ASSUME NEW k \in 1 .. n - 1
      PROVE  /\ tops[k] \in Int /\ tops[k + 1] \in Int /\ tops[k] <= tops[k + 1]
             /\ \A j \in 1 .. n - 1 : j < k => tops[j + 1] <= tops[k]
    <2>1. k \in 1 .. n /\ k + 1 \in 1 .. n /\ k <= k + 1
        OBVIOUS
    <2>2. ASSUME NEW j \in 1 .. n - 1, j < k PROVE j + 1 \in 1 .. n /\ j + 1 <= k
        BY <2>2
    <2> QED BY <1>1, <2>1, <2>2 DEF Climbs
<1>3. ASSUME NEW k \in 1 .. n - 1 PROVE [t0 |-> tops[k], t1 |-> tops[k + 1], level |-> 0] \in Cut
    BY <1>2 DEF Cut
<1>4. ASSUME NEW v \in Firsts(tops), NEW w \in Firsts(tops) PROVE v = w \/ v.t1 <= w.t0 \/ w.t1 <= v.t0
    <2>1. PICK j \in 1 .. n - 1 : v = [t0 |-> tops[j], t1 |-> tops[j + 1], level |-> 0]
        BY <1>1 DEF Firsts
    <2>2. PICK k \in 1 .. n - 1 : w = [t0 |-> tops[k], t1 |-> tops[k + 1], level |-> 0]
        BY <1>1 DEF Firsts
    <2>3. CASE j = k
        BY <2>1, <2>2, <2>3
    <2>4. CASE j < k
        BY <1>2, <2>1, <2>2, <2>4
    <2>5. CASE k < j
        BY <1>2, <2>1, <2>2, <2>5
    <2> QED BY <2>3, <2>4, <2>5
<1> QED BY <1>1, <1>3, <1>4 DEF Firsts

\* Cuts, the CHOOSE of a recursive function, is that function: it is built one
\* level at a time.
LEMMA CutsHalve ==
    ASSUME NEW x, Fits(x)
    PROVE  /\ Cuts(x)[0] = Firsts(Tops(x))
           /\ \A l \in 1 .. x.options.max_depth : Cuts(x)[l] = UNION {Halves(v) : v \in Cuts(x)[l - 1]}
<1> DEFINE n == x.options.max_depth
           All == CHOOSE cuts : cuts = [level \in 0 .. n |->
                      IF level = 0 THEN {[t0 |-> Tops(x)[k], t1 |-> Tops(x)[k + 1], level |-> 0] : k \in 1 .. Len(Tops(x)) - 1}
                      ELSE UNION {Halves(v) : v \in cuts[level - 1]}]
<1>1. Cuts(x) = All
    BY DEF Cuts
<1>2. n \in Nat
    BY DEF Fits, Limited
<1>3. PICK S, b, F : S = SUBSET Cut /\ b = Firsts(Tops(x)) /\ F = [p \in S \X Nat |-> UNION {Halves(v) : v \in p[1]}]
    OBVIOUS
<1>4. b \in S
    BY <1>3, TopsClimb, FirstsAre
<1>5. F \in [S \X Nat -> S]
    <2>1. ASSUME NEW p \in S \X Nat PROVE UNION {Halves(v) : v \in p[1]} \in S
        BY <1>3, HalvesAre
    <2> QED BY <1>3, <2>1
<1> HIDE DEF n
<1>6. PICK f \in [0 .. n -> S] : Counts(f, n, b, F)
    BY ONLY <1>2, <1>4, <1>5, Counting
<1>7. ASSUME NEW k \in 0 .. n
      PROVE  f[k] = IF k = 0 THEN b ELSE UNION {Halves(v) : v \in f[k - 1]}
    <2>1. CASE k = 0
        BY <1>6, <2>1 DEF Counts
    <2>2. CASE k # 0
        <3>1. k \in 1 .. n /\ k \in Nat /\ k - 1 \in 0 .. n
            BY <1>2, <2>2
        <3>2. <<f[k - 1], k>> \in S \X Nat /\ f[k] = F[<<f[k - 1], k>>]
            BY <1>6, <3>1 DEF Counts
        <3>3. F[<<f[k - 1], k>>] = UNION {Halves(v) : v \in f[k - 1]}
            BY <1>3, <3>2
        <3> QED BY <2>2, <3>2, <3>3
    <2> QED BY <2>1, <2>2
<1>8. f = [level \in 0 .. n |->
              IF level = 0 THEN {[t0 |-> Tops(x)[k], t1 |-> Tops(x)[k + 1], level |-> 0] : k \in 1 .. Len(Tops(x)) - 1}
              ELSE UNION {Halves(v) : v \in f[level - 1]}]
    <2>1. f = [level \in 0 .. n |-> IF level = 0 THEN b ELSE UNION {Halves(v) : v \in f[level - 1]}]
        BY <1>6, <1>7
    <2> QED BY <1>3, <2>1 DEF Firsts
<1>9. All = [level \in 0 .. n |->
              IF level = 0 THEN {[t0 |-> Tops(x)[k], t1 |-> Tops(x)[k + 1], level |-> 0] : k \in 1 .. Len(Tops(x)) - 1}
              ELSE UNION {Halves(v) : v \in All[level - 1]}]
    BY <1>8
<1> HIDE DEF All
<1>10. All = [level \in 0 .. n |-> IF level = 0 THEN b ELSE UNION {Halves(v) : v \in All[level - 1]}]
    BY <1>3, <1>9 DEF Firsts
<1>11. All[0] = b
    BY <1>2, <1>10
<1>12. \A l \in 1 .. n : All[l] = UNION {Halves(v) : v \in All[l - 1]}
    <2>1. \A l \in 1 .. n : l \in 0 .. n /\ l # 0
        OBVIOUS
    <2> QED BY <1>10, <2>1
<1> QED BY <1>1, <1>3, <1>11, <1>12 DEF n

Apart(v, w) == v = w \/ v.t1 <= w.t0 \/ w.t1 <= v.t0

\* The cuts of a level lie side by side,
LEMMA CutsApart ==
    ASSUME NEW x, Fits(x), NEW l \in 0 .. x.options.max_depth
    PROVE  /\ Cuts(x)[l] \subseteq {v \in Cut : v.level = l}
           /\ \A v, w \in Cuts(x)[l] : Apart(v, w)
<1>1. PICK n \in Nat : n = x.options.max_depth
    BY DEF Fits, Limited
<1>2. PICK c : c = Cuts(x)
    OBVIOUS
<1>3. c[0] = Firsts(Tops(x)) /\ \A k \in 1 .. n : c[k] = UNION {Halves(v) : v \in c[k - 1]}
    BY <1>1, <1>2, CutsHalve
<1>4. PICK P : P = {k \in 0 .. n : c[k] \subseteq {v \in Cut : v.level = k} /\ \A v, w \in c[k] : Apart(v, w)}
    OBVIOUS
<1>5. 0 \in P
    BY <1>3, <1>4, TopsClimb, FirstsAre DEF Apart
<1>6. ASSUME NEW k \in 1 .. n, k - 1 \in P PROVE k \in P
    <2>1. /\ c[k - 1] \subseteq {v \in Cut : v.level = k - 1} /\ \A v, w \in c[k - 1] : Apart(v, w)
          /\ c[k] = UNION {Halves(v) : v \in c[k - 1]}
        BY <1>3, <1>4, <1>6
    <2>2. ASSUME NEW h \in c[k] PROVE h \in Cut /\ h.level = k
        <3>1. PICK v \in c[k - 1] : h \in Halves(v)
            BY <2>1
        <3>2. v \in Cut /\ v.level = k - 1
            BY <2>1
        <3>3. h \in Cut /\ h.level = k - 1 + 1
            BY <3>1, <3>2, HalvesAre
        <3> QED BY <3>3
    <2>3. ASSUME NEW h \in c[k], NEW g \in c[k] PROVE Apart(h, g)
        <3>1. PICK v \in c[k - 1], w \in c[k - 1] : h \in Halves(v) /\ g \in Halves(w)
            BY <2>1
        <3>2. v \in Cut /\ w \in Cut /\ Apart(v, w) /\ h \in Cut /\ g \in Cut
            BY <2>1, <2>2
        <3>3. Inside(h, v) /\ Inside(g, w)
            BY <3>1, <3>2, HalvesAre
        <3>4. CASE v # w
            BY <3>2, <3>3, <3>4 DEF Apart, Inside, Cut
        <3>5. CASE v = w
            BY <3>1, <3>2, <3>5, MiddleIs DEF Apart, Halves, Cut
        <3> QED BY <3>4, <3>5
    <2> QED BY <1>4, <2>2, <2>3
<1>7. 0 .. n \subseteq P
    BY ONLY <1>5, <1>6, n \in Nat, Ascend
<1> QED BY <1>1, <1>2, <1>4, <1>7

\* each inside one of every level above it,
LEMMA CutsNest ==
    ASSUME NEW x, Fits(x), NEW m \in Nat, NEW d \in Nat, m + d <= x.options.max_depth, NEW v \in Cuts(x)[m + d]
    PROVE  \E w \in Cuts(x)[m] : Inside(v, w)
<1>1. PICK n \in Nat : n = x.options.max_depth
    BY DEF Fits, Limited
<1>2. PICK c : c = Cuts(x)
    OBVIOUS
<1>3. \A k \in 0 .. n : c[k] \subseteq Cut
    BY <1>1, <1>2, CutsApart
<1>4. PICK P : P = {k \in 0 .. d : \A u \in c[m + k] : \E w \in c[m] : Inside(u, w)}
    OBVIOUS
<1>5. 0 \in P
    <2>1. ASSUME NEW u \in c[m + 0] PROVE u \in c[m] /\ Inside(u, u)
        <3>1. m \in 0 .. n /\ m + 0 = m
            BY <1>1
        <3>2. u \in Cut
            BY <1>3, <3>1
        <3> QED BY <3>1, <3>2 DEF Inside, Cut
    <2> QED BY <1>4, <2>1
<1>6. ASSUME NEW k \in 1 .. d, k - 1 \in P PROVE k \in P
    <2>1. m + k \in 1 .. n /\ m + (k - 1) \in 0 .. n /\ m \in 0 .. n /\ (m + k) - 1 = m + (k - 1) /\ k \in 0 .. d
        BY <1>1
    <2>2. ASSUME NEW u \in c[m + k] PROVE \E w \in c[m] : Inside(u, w)
        <3>1. c[m + k] = UNION {Halves(y) : y \in c[(m + k) - 1]}
            BY <1>1, <1>2, <2>1, CutsHalve
        <3>2. PICK y \in c[m + (k - 1)] : u \in Halves(y)
            BY <2>1, <3>1
        <3>3. PICK w \in c[m] : Inside(y, w)
            BY <1>4, <1>6
        <3>4. y \in Cut /\ w \in Cut
            BY <1>3, <2>1
        <3>5. u \in Cut /\ Inside(u, y)
            BY <3>2, <3>4, HalvesAre
        <3>6. Inside(u, w)
            BY <3>3, <3>4, <3>5 DEF Inside, Cut
        <3> QED BY <3>6
    <2> QED BY <1>4, <2>1, <2>2
<1>7. 0 .. d \subseteq P
    BY ONLY <1>5, <1>6, d \in Nat, Ascend
<1>8. d \in 0 .. d
    OBVIOUS
<1> QED BY <1>2, <1>4, <1>7, <1>8

\* so that what its middle divides lies in no deeper one.
LEMMA DividedIsDeepest ==
    ASSUME NEW x, Fits(x), NEW l \in 0 .. x.options.max_depth, NEW w \in Cuts(x)[l],
           NEW a \in Int, NEW b \in Int, w.t0 <= a, b <= w.t1,
           l = x.options.max_depth \/ (a < Middle(w) /\ Middle(w) < b),
           NEW m \in 0 .. x.options.max_depth, NEW v \in Cuts(x)[m], v.t0 <= a, b <= v.t1
    PROVE  m <= l
<1>1. PICK n \in Nat : n = x.options.max_depth
    BY DEF Fits, Limited
<1>2. SUFFICES ASSUME m > l PROVE FALSE
    BY <1>1
<1>3. /\ l \in Nat /\ m \in Nat /\ l + 1 \in Nat /\ m - (l + 1) \in Nat /\ l + 1 + (m - (l + 1)) = m /\ l + 1 <= n
      /\ l + 1 \in 0 .. n /\ l + 1 \in 1 .. n /\ l + 1 - 1 = l
    BY <1>1, <1>2
<1>4. PICK d, k : d = m - (l + 1) /\ k = l + 1
    OBVIOUS
<1>5. d \in Nat /\ k \in Nat /\ k + d = m /\ k + d <= x.options.max_depth
    BY <1>1, <1>3, <1>4
<1>6. PICK h \in Cuts(x)[k] : Inside(v, h)
    BY <1>5, CutsNest
<1>7. Cuts(x)[k] = UNION {Halves(y) : y \in Cuts(x)[l]}
    <2>1. k \in 1 .. x.options.max_depth /\ k - 1 = l
        BY <1>1, <1>3, <1>4
    <2> QED BY <2>1, CutsHalve
<1>8. PICK y \in Cuts(x)[l] : h \in Halves(y)
    BY <1>6, <1>7
<1>9. Cuts(x)[l] \subseteq {u \in Cut : u.level = l} /\ Cuts(x)[m] \subseteq {u \in Cut : u.level = m}
    BY CutsApart
<1>10. w \in Cut /\ v \in Cut /\ y \in Cut
    BY <1>9
<1>11. /\ h \in Cut /\ Inside(h, y)
       /\ \/ h.t0 = y.t0 /\ h.t1 = Middle(y)
          \/ h.t0 = Middle(y) /\ h.t1 = y.t1
    BY <1>8, <1>10, HalvesAre
<1>12. a < Middle(w) /\ Middle(w) < b
    BY <1>1, <1>3
<1>13. Middle(w) \in Int
    BY <1>10, MiddleIs DEF Cut
<1>14. y = w
    <2>1. Apart(y, w)
        BY <1>9, CutsApart
    <2> QED BY <1>6, <1>10, <1>11, <1>12, <1>13, <2>1 DEF Apart, Inside, Cut
<1> QED BY <1>6, <1>10, <1>11, <1>12, <1>13, <1>14 DEF Inside, Cut

----------------------------------------------------------------------------
(* Nodes that lie where they should                                        *)

Interval(node) == [t0 |-> node.t0, t1 |-> node.t1, level |-> node.level]

\* A node that lies where the partition could put one.
Sited(x, node) ==
    /\ node \in NodesOf(x) /\ node.level \in 0 .. x.options.max_depth
    /\ Interval(node) \in Cuts(x)[node.level]

HeldBy(x, node, i) == i \in DOMAIN x.gaussians /\ Holds(node, x.gaussians[i])

\* A gaussian that goes no deeper: the middle of the node divides its support.
Settles(x, node, i) ==
    /\ HeldBy(x, node, i)
    /\ \/ node.level = x.options.max_depth
       \/ /\ Support(x.gaussians[i]).lo < Middle(node)
          /\ Middle(node) < Support(x.gaussians[i]).hi

Placed(x, node) == Sited(x, node) /\ \A i \in node.members : Settles(x, node, i)

Tidy(x, nodes) == nodes \in Seq(NodesOf(x)) /\ \A j \in DOMAIN nodes : Placed(x, nodes[j])

LEMMA TidyNone ==
    ASSUME NEW x
    PROVE  Tidy(x, <<>>)
BY DEF Tidy

LEMMA TidyBoth ==
    ASSUME NEW x, NEW s, Tidy(x, s), NEW t, Tidy(x, t)
    PROVE  Tidy(x, s \o t) /\ Assigned(s \o t) = Assigned(s) \cup Assigned(t)
<1>1. PICK S : S = NodesOf(x)
    OBVIOUS
<1>2. s \in Seq(S) /\ t \in Seq(S)
    BY <1>1 DEF Tidy
<1>3. PICK m \in Nat, n \in Nat : m = Len(s) /\ n = Len(t)
    BY <1>2
<1>4. PICK u : u = s \o t
    OBVIOUS
<1>5. /\ u \in Seq(S) /\ DOMAIN u = 1 .. m + n /\ DOMAIN s = 1 .. m /\ DOMAIN t = 1 .. n
      /\ \A j \in 1 .. m : u[j] = s[j]
      /\ \A j \in 1 .. n : u[m + j] = t[j]
    BY <1>2, <1>3, <1>4
<1>6. ASSUME NEW j \in 1 .. m + n
      PROVE  (j \in 1 .. m /\ u[j] = s[j]) \/ (j - m \in 1 .. n /\ u[j] = t[j - m])
    <2>1. CASE j <= m
        BY <1>3, <1>5, <2>1
    <2>2. CASE j > m
        <3>1. j - m \in 1 .. n /\ m + (j - m) = j
            BY <1>3, <2>2
        <3> QED BY <1>5, <3>1
    <2> QED BY <1>3, <2>1, <2>2
<1>7. Tidy(x, u)
    BY <1>1, <1>5, <1>6 DEF Tidy
<1>8. Assigned(u) \subseteq Assigned(s) \cup Assigned(t)
    BY <1>5, <1>6 DEF Assigned
<1>9. ASSUME NEW j \in 1 .. m PROVE u[j] = s[j] /\ j \in DOMAIN u
    BY <1>3, <1>5
<1>10. ASSUME NEW j \in 1 .. n PROVE u[m + j] = t[j] /\ m + j \in DOMAIN u
    BY <1>3, <1>5
<1>11. Assigned(s) \subseteq Assigned(u) /\ Assigned(t) \subseteq Assigned(u)
    BY <1>5, <1>9, <1>10 DEF Assigned
<1> QED BY <1>4, <1>7, <1>8, <1>11

\* A node of those of another that go no deeper.
LEMMA TidyOne ==
    ASSUME NEW x, NEW node, Sited(x, node), NEW M, \A i \in M : Settles(x, node, i),
           NEW one, one = NodeIfAny(node.t0, node.t1, node.level, M)
    PROVE  Tidy(x, one) /\ Assigned(one) = M
<1>1. CASE M = {}
    <2>1. one = <<>>
        BY <1>1 DEF NodeIfAny
    <2>2. Assigned(one) = {}
        BY <2>1 DEF Assigned
    <2> QED BY <1>1, <2>1, <2>2, TidyNone
<1>2. CASE M # {}
    <2>1. PICK v : v = Node(node.t0, node.t1, node.level, M)
        OBVIOUS
    <2>2. one = <<v>>
        BY <1>2, <2>1 DEF NodeIfAny
    <2>3. v.t0 = node.t0 /\ v.t1 = node.t1 /\ v.level = node.level /\ v.members = M
        BY <2>1 DEF Node
    <2>4. M \subseteq DOMAIN x.gaussians
        BY DEF Settles, HeldBy
    <2>5. v \in NodesOf(x)
        BY <2>1, <2>4 DEF Node, NodesOf, Sited
    <2>6. Interval(v) = Interval(node)
        BY <2>3 DEF Interval
    <2>7. Sited(x, v)
        BY <2>3, <2>5, <2>6 DEF Sited
    <2>8. Middle(v) = Middle(node)
        BY <2>3 DEF Middle
    <2>9. \A i \in M : Settles(x, v, i)
        BY <2>3, <2>8 DEF Settles, HeldBy, Holds
    <2>10. Placed(x, v)
        BY <2>3, <2>7, <2>9 DEF Placed
    <2>11. one \in Seq(NodesOf(x)) /\ DOMAIN one = {1} /\ one[1] = v
        BY <2>2, <2>5
    <2>12. Assigned(one) = M
        BY <2>3, <2>11 DEF Assigned
    <2> QED BY <2>10, <2>11, <2>12 DEF Tidy
<1> QED BY <1>1, <1>2

----------------------------------------------------------------------------
(* The recursion                                                           *)

Outcome(x) == [stay : SUBSET DOMAIN x.gaussians, nodes : Seq(NodesOf(x))]

LEMMA NodeIsNode ==
    ASSUME NEW x, NEW a \in Int, NEW b \in Int, NEW l \in Nat, NEW M \in SUBSET DOMAIN x.gaussians
    PROVE  /\ Node(a, b, l, M) \in NodesOf(x)
           /\ NodeIfAny(a, b, l, M) \in Seq(NodesOf(x))
<1>1. Node(a, b, l, M) \in NodesOf(x)
    BY DEF Node, NodesOf
<1> QED BY <1>1 DEF NodeIfAny

LEMMA HalfIs ==
    ASSUME NEW x, NEW below \in [NodesOf(x) -> Outcome(x)], NEW node \in NodesOf(x)
    PROVE  Half(x, below, node) \in Outcome(x)
<1>1. PICK o \in Outcome(x) : o = below[node]
    OBVIOUS
<1>2. o.stay \in SUBSET DOMAIN x.gaussians /\ o.nodes \in Seq(NodesOf(x))
    BY DEF Outcome
<1>3. node.t0 \in Int /\ node.t1 \in Int /\ node.level \in Nat /\ node.members \in SUBSET DOMAIN x.gaussians
    BY DEF NodesOf
<1>4. PICK one : one = NodeIfAny(node.t0, node.t1, node.level, o.stay)
    OBVIOUS
<1>5. one \in Seq(NodesOf(x))
    BY <1>2, <1>3, <1>4, NodeIsNode
<1>6. o.nodes \o one \in Seq(NodesOf(x))
    BY <1>2, <1>5
<1>7. Half(x, below, node) \in {[stay |-> node.members, nodes |-> <<>>], [stay |-> {}, nodes |-> o.nodes \o one]}
    BY <1>1, <1>4 DEF Half
<1>8. [stay |-> node.members, nodes |-> <<>>] \in Outcome(x)
    BY <1>3 DEF Outcome
<1>9. [stay |-> {}, nodes |-> o.nodes \o one] \in Outcome(x)
    BY <1>6 DEF Outcome
<1> QED BY <1>7, <1>8, <1>9

\* The members of a node as its middle divides them, and the halves they go to.
LeftOf(x, node) == {i \in node.members : EndsBy(Support(x.gaussians[i]), Middle(node))}
RightOf(x, node) == {i \in node.members \ LeftOf(x, node) : Support(x.gaussians[i]).lo >= Middle(node)}
LeftNode(x, node) == Node(node.t0, Middle(node), node.level + 1, LeftOf(x, node))
RightNode(x, node) == Node(Middle(node), node.t1, node.level + 1, RightOf(x, node))

LEMMA SplitIs ==
    ASSUME NEW x, NEW below, NEW node
    PROVE  Split(x, below, node) =
             [stay |-> (node.members \ (LeftOf(x, node) \cup RightOf(x, node)))
                           \cup Half(x, below, LeftNode(x, node)).stay \cup Half(x, below, RightNode(x, node)).stay,
              nodes |-> Half(x, below, LeftNode(x, node)).nodes \o Half(x, below, RightNode(x, node)).nodes]
BY DEF Split, LeftOf, RightOf, LeftNode, RightNode

LEMMA SidesAre ==
    ASSUME NEW x, NEW node \in NodesOf(x)
    PROVE  LeftNode(x, node) \in NodesOf(x) /\ RightNode(x, node) \in NodesOf(x)
<1>1. node.t0 \in Int /\ node.t1 \in Int /\ node.level + 1 \in Nat /\ node.members \in SUBSET DOMAIN x.gaussians
    BY DEF NodesOf
<1>2. Middle(node) \in Int
    BY <1>1 DEF Middle
<1>3. LeftOf(x, node) \in SUBSET DOMAIN x.gaussians /\ RightOf(x, node) \in SUBSET DOMAIN x.gaussians
    BY <1>1 DEF LeftOf, RightOf
<1> QED BY <1>1, <1>2, <1>3, NodeIsNode DEF LeftNode, RightNode

LEMMA SplitTyped ==
    ASSUME NEW x, NEW below \in [NodesOf(x) -> Outcome(x)], NEW node \in NodesOf(x)
    PROVE  Split(x, below, node) \in Outcome(x)
<1>1. PICK l, r : l = Half(x, below, LeftNode(x, node)) /\ r = Half(x, below, RightNode(x, node))
    OBVIOUS
<1>2. l \in Outcome(x) /\ r \in Outcome(x)
    BY <1>1, SidesAre, HalfIs
<1>3. node.members \in SUBSET DOMAIN x.gaussians
    BY DEF NodesOf
<1>4. l.nodes \o r.nodes \in Seq(NodesOf(x)) /\ l.stay \subseteq DOMAIN x.gaussians /\ r.stay \subseteq DOMAIN x.gaussians
    BY <1>2 DEF Outcome
<1> QED BY <1>1, <1>3, <1>4, SplitIs DEF Outcome

\* What comes of every node with so many levels to go.
Turn(x, below) ==
    [node \in NodesOf(x) |-> IF node.members = {} THEN [stay |-> node.members, nodes |-> <<>>] ELSE Split(x, below, node)]

Descends(x, d) ==
    /\ d[0] = [node \in NodesOf(x) |-> [stay |-> node.members, nodes |-> <<>>]]
    /\ \A k \in 1 .. x.options.max_depth : d[k] = Turn(x, d[k - 1])

LEMMA DescendRecurs ==
    ASSUME NEW x, Fits(x)
    PROVE  \E d : Descends(x, d) /\ Descend(x) = d[x.options.max_depth]
<1> DEFINE n == x.options.max_depth
           All == CHOOSE descend : descend = [rooms \in 0 .. n |->
                      [node \in NodesOf(x) |->
                          IF node.members = {} \/ rooms = 0 THEN [stay |-> node.members, nodes |-> <<>>]
                          ELSE Split(x, descend[rooms - 1], node)]]
<1>1. Descend(x) = All[n]
    BY DEF Descend
<1>2. n \in Nat
    BY DEF Fits, Limited
<1>3. PICK S, b, F : /\ S = [NodesOf(x) -> Outcome(x)]
                     /\ b = [node \in NodesOf(x) |-> [stay |-> node.members, nodes |-> <<>>]]
                     /\ F = [p \in S \X Nat |-> Turn(x, p[1])]
    OBVIOUS
<1>4. b \in S
    <2>1. ASSUME NEW node \in NodesOf(x) PROVE [stay |-> node.members, nodes |-> <<>>] \in Outcome(x)
        BY DEF NodesOf, Outcome
    <2> QED BY <1>3, <2>1
<1>5. F \in [S \X Nat -> S]
    <2>1. ASSUME NEW p \in S \X Nat PROVE Turn(x, p[1]) \in S
        <3>1. PICK below \in [NodesOf(x) -> Outcome(x)] : below = p[1]
            BY <1>3
        <3>2. ASSUME NEW node \in NodesOf(x)
              PROVE  /\ Split(x, below, node) \in Outcome(x)
                     /\ [stay |-> node.members, nodes |-> <<>>] \in Outcome(x)
            <4>1. Split(x, below, node) \in Outcome(x)
                BY SplitTyped
            <4> QED BY <4>1 DEF NodesOf, Outcome
        <3>3. Turn(x, below) \in [NodesOf(x) -> Outcome(x)]
            BY <3>2 DEF Turn
        <3> QED BY <1>3, <3>1, <3>3
    <2> QED BY <1>3, <2>1
<1> HIDE DEF n
<1>6. PICK f \in [0 .. n -> S] : Counts(f, n, b, F)
    BY ONLY <1>2, <1>4, <1>5, Counting
<1>7. ASSUME NEW k \in 0 .. n PROVE f[k] = IF k = 0 THEN b ELSE Turn(x, f[k - 1])
    <2>1. CASE k = 0
        BY <1>6, <2>1 DEF Counts
    <2>2. CASE k # 0
        <3>1. k \in 1 .. n /\ k \in Nat /\ k - 1 \in 0 .. n
            BY <1>2, <2>2
        <3>2. <<f[k - 1], k>> \in S \X Nat /\ f[k] = F[<<f[k - 1], k>>]
            BY <1>6, <3>1 DEF Counts
        <3>3. F[<<f[k - 1], k>>] = Turn(x, f[k - 1])
            BY <1>3, <3>2
        <3> QED BY <2>2, <3>2, <3>3
    <2> QED BY <2>1, <2>2
<1> DEFINE Step(g, k) == [node \in NodesOf(x) |->
                              IF node.members = {} \/ k = 0 THEN [stay |-> node.members, nodes |-> <<>>]
                              ELSE Split(x, g[k - 1], node)]
<1>8. \A g : \A k : Step(g, k) = IF k = 0 THEN b ELSE Turn(x, g[k - 1])
    BY <1>3 DEF Turn
<1>9. f = [rooms \in 0 .. n |-> Step(f, rooms)]
    <2> HIDE DEF Step
    <2> QED BY <1>6, <1>7, <1>8
<1>10. All = [rooms \in 0 .. n |-> Step(All, rooms)]
    BY <1>9
<1> HIDE DEF All
<1> HIDE DEF Step
<1>11. All[0] = b
    BY <1>2, <1>8, <1>10
<1>12. ASSUME NEW k \in 1 .. n PROVE All[k] = Turn(x, All[k - 1])
    <2>1. k \in 0 .. n /\ k # 0
        OBVIOUS
    <2> QED BY <1>8, <1>10, <2>1
<1>13. Descends(x, All)
    BY <1>3, <1>11, <1>12 DEF Descends, n
<1> QED BY <1>1, <1>13 DEF n

----------------------------------------------------------------------------
(* What comes of a node                                                    *)

Enters(x, node) == Sited(x, node) /\ \A i \in node.members : HeldBy(x, node, i)

\* What a node keeps settles in it, what goes below it is placed there, and that is
\* all of it.
Delivers(x, node, o) ==
    /\ \A i \in o.stay : Settles(x, node, i)
    /\ Tidy(x, o.nodes)
    /\ node.members \subseteq o.stay \cup Assigned(o.nodes)

\* A half that takes what it is given: with a threshold of at most one, what it
\* would give back is nothing.
LEMMA HalfTakes ==
    ASSUME NEW x, Fits(x), x.options.min_gaussians <= 1, NEW below, NEW node, Enters(x, node),
           Delivers(x, node, below[node]), NEW h, h = Half(x, below, node)
    PROVE  h.stay = {} /\ Tidy(x, h.nodes) /\ node.members \subseteq Assigned(h.nodes)
<1>1. CASE Cardinality(node.members) < x.options.min_gaussians
    <2>1. node.members \subseteq DOMAIN x.gaussians
        BY DEF Enters, Sited, NodesOf
    <2>2. IsFiniteSet(node.members)
        <3>1. Len(x.gaussians) \in Nat /\ DOMAIN x.gaussians = 1 .. Len(x.gaussians)
            BY DEF Fits, Measured
        <3>2. IsFiniteSet(1 .. Len(x.gaussians))
            BY <3>1, FS_Interval
        <3> QED BY <2>1, <3>1, <3>2, FS_Subset
    <2>3. Cardinality(node.members) = 0
        <3>1. x.options.min_gaussians \in Nat
            BY DEF Fits, Limited
        <3>2. Cardinality(node.members) \in Nat
            BY <2>2, FS_CardinalityType
        <3> QED BY <1>1, <3>1, <3>2
    <2>4. node.members = {}
        BY <2>2, <2>3, FS_EmptySet
    <2>5. h.stay = {} /\ h.nodes = <<>>
        BY <1>1, <2>4 DEF Half
    <2> QED BY <2>4, <2>5, TidyNone
<1>2. CASE ~(Cardinality(node.members) < x.options.min_gaussians)
    <2>1. PICK o, one : o = below[node] /\ one = NodeIfAny(node.t0, node.t1, node.level, o.stay)
        OBVIOUS
    <2>2. h.stay = {} /\ h.nodes = o.nodes \o one
        BY <1>2, <2>1 DEF Half
    <2>3. Delivers(x, node, o) /\ Sited(x, node)
        BY <2>1 DEF Enters
    <2>4. Tidy(x, o.nodes)
        BY <2>3 DEF Delivers
    <2>5. Tidy(x, one) /\ Assigned(one) = o.stay
        BY <2>1, <2>3, TidyOne DEF Delivers
    <2>6. Tidy(x, h.nodes) /\ Assigned(h.nodes) = Assigned(o.nodes) \cup o.stay
        BY <2>2, <2>4, <2>5, TidyBoth
    <2> QED BY <2>2, <2>3, <2>6 DEF Delivers
<1> QED BY <1>1, <1>2

\* The halves of a node with room below it hold what they are given.
LEMMA SidesEnter ==
    ASSUME NEW x, Fits(x), NEW node, Enters(x, node), node.level < x.options.max_depth
    PROVE  Enters(x, LeftNode(x, node)) /\ Enters(x, RightNode(x, node))
<1>1. PICK n \in Nat : n = x.options.max_depth
    BY DEF Fits, Limited
<1>2. node \in NodesOf(x) /\ node.level \in 0 .. n /\ Interval(node) \in Cuts(x)[node.level]
    BY <1>1 DEF Enters, Sited
<1>3. PICK k : k = node.level + 1
    OBVIOUS
<1>4. k \in 1 .. n /\ k - 1 = node.level /\ k \in 0 .. n
    BY <1>1, <1>2, <1>3
<1>5. Cuts(x)[k] = UNION {Halves(v) : v \in Cuts(x)[node.level]}
    BY <1>1, <1>4, CutsHalve
<1>6. PICK v : v = Interval(node)
    OBVIOUS
<1>7. v.t0 = node.t0 /\ v.t1 = node.t1 /\ v.level = node.level /\ Middle(v) = Middle(node)
    BY <1>6 DEF Interval, Middle
<1>8. v \in Cuts(x)[node.level]
    BY <1>2, <1>6
<1>9. [t0 |-> node.t0, t1 |-> Middle(node), level |-> k] \in Cuts(x)[k]
      /\ [t0 |-> Middle(node), t1 |-> node.t1, level |-> k] \in Cuts(x)[k]
    <2>1. [t0 |-> node.t0, t1 |-> Middle(node), level |-> k] \in Halves(v)
          /\ [t0 |-> Middle(node), t1 |-> node.t1, level |-> k] \in Halves(v)
        BY <1>3, <1>7 DEF Halves
    <2> QED BY <1>5, <1>8, <2>1
<1>10. LeftNode(x, node) \in NodesOf(x) /\ RightNode(x, node) \in NodesOf(x)
    BY <1>2, SidesAre
<1>11. /\ LeftNode(x, node).t0 = node.t0 /\ LeftNode(x, node).t1 = Middle(node)
       /\ LeftNode(x, node).level = k /\ LeftNode(x, node).members = LeftOf(x, node)
    BY <1>3 DEF LeftNode, Node
<1>12. /\ RightNode(x, node).t0 = Middle(node) /\ RightNode(x, node).t1 = node.t1
       /\ RightNode(x, node).level = k /\ RightNode(x, node).members = RightOf(x, node)
    BY <1>3 DEF RightNode, Node
<1>13. ASSUME NEW i \in LeftOf(x, node) PROVE HeldBy(x, LeftNode(x, node), i)
    <2>1. HeldBy(x, node, i) /\ Support(x.gaussians[i]).hi <= Middle(node)
        BY DEF LeftOf, Enters, EndsBy
    <2> QED BY <1>11, <2>1 DEF HeldBy, Holds
<1>14. ASSUME NEW i \in RightOf(x, node) PROVE HeldBy(x, RightNode(x, node), i)
    <2>1. HeldBy(x, node, i) /\ Support(x.gaussians[i]).lo >= Middle(node)
        BY DEF RightOf, Enters
    <2>2. Middle(node) <= Support(x.gaussians[i]).lo
        <3>1. Middle(node) \in Int
            BY <1>2 DEF NodesOf, Middle
        <3>2. Support(x.gaussians[i]).lo \in Int
            BY <2>1, SupportIs DEF HeldBy
        <3> QED BY <2>1, <3>1, <3>2
    <2> QED BY <1>12, <2>1, <2>2 DEF HeldBy, Holds
<1>15. Sited(x, LeftNode(x, node))
    BY <1>1, <1>4, <1>9, <1>10, <1>11 DEF Sited, Interval
<1>16. Sited(x, RightNode(x, node))
    BY <1>1, <1>4, <1>9, <1>10, <1>12 DEF Sited, Interval
<1> QED BY <1>11, <1>12, <1>13, <1>14, <1>15, <1>16 DEF Enters

LEMMA SplitDelivers ==
    ASSUME NEW x, Fits(x), x.options.min_gaussians <= 1, NEW below, NEW node, Enters(x, node),
           node.level < x.options.max_depth,
           Delivers(x, LeftNode(x, node), below[LeftNode(x, node)]),
           Delivers(x, RightNode(x, node), below[RightNode(x, node)])
    PROVE  Delivers(x, node, Split(x, below, node))
<1>1. PICK ln, rn : ln = LeftNode(x, node) /\ rn = RightNode(x, node)
    OBVIOUS
<1>2. PICK l, r, s : l = Half(x, below, ln) /\ r = Half(x, below, rn) /\ s = Split(x, below, node)
    OBVIOUS
<1>3. Enters(x, ln) /\ Enters(x, rn)
    BY <1>1, SidesEnter
<1>4. l.stay = {} /\ Tidy(x, l.nodes) /\ ln.members \subseteq Assigned(l.nodes)
    BY <1>1, <1>2, <1>3, HalfTakes
<1>5. r.stay = {} /\ Tidy(x, r.nodes) /\ rn.members \subseteq Assigned(r.nodes)
    BY <1>1, <1>2, <1>3, HalfTakes
<1>6. ln.members = LeftOf(x, node) /\ rn.members = RightOf(x, node)
    BY <1>1 DEF LeftNode, RightNode, Node
<1>7. s = [stay |-> (node.members \ (LeftOf(x, node) \cup RightOf(x, node))) \cup l.stay \cup r.stay,
           nodes |-> l.nodes \o r.nodes]
    BY <1>1, <1>2, SplitIs
<1>8. s.stay = node.members \ (LeftOf(x, node) \cup RightOf(x, node))
    BY <1>4, <1>5, <1>7
<1>9. Tidy(x, s.nodes) /\ Assigned(s.nodes) = Assigned(l.nodes) \cup Assigned(r.nodes)
    BY <1>4, <1>5, <1>7, TidyBoth
<1>10. ASSUME NEW i \in s.stay PROVE Settles(x, node, i)
    <2>1. i \in node.members /\ i \notin LeftOf(x, node) /\ i \notin RightOf(x, node)
        BY <1>8
    <2>2. HeldBy(x, node, i)
        BY <2>1 DEF Enters
    <2>3. Middle(node) \in Int
        BY DEF Enters, Sited, NodesOf, Middle
    <2>4. PICK a \in Int, b \in Int : a = Support(x.gaussians[i]).lo /\ b = Support(x.gaussians[i]).hi
        BY <2>2, SupportIs DEF HeldBy
    <2>5. ~(b <= Middle(node)) /\ ~(a >= Middle(node))
        BY <2>1, <2>4 DEF LeftOf, RightOf, EndsBy
    <2>6. a < Middle(node) /\ Middle(node) < b
        BY <2>3, <2>5
    <2> QED BY <2>2, <2>4, <2>6 DEF Settles
<1>11. node.members \subseteq s.stay \cup Assigned(s.nodes)
    BY <1>4, <1>5, <1>6, <1>8, <1>9
<1> QED BY <1>2, <1>9, <1>10, <1>11 DEF Delivers

LEMMA DescendDelivers ==
    ASSUME NEW x, Fits(x), x.options.min_gaussians <= 1, NEW node, Enters(x, node), node.level = 0
    PROVE  Delivers(x, node, Descend(x)[node])
<1>1. PICK n \in Nat : n = x.options.max_depth
    BY DEF Fits, Limited
<1>2. PICK d : Descends(x, d) /\ Descend(x) = d[n]
    BY <1>1, DescendRecurs
<1>3. PICK P : P = {k \in 0 .. n : \A v \in NodesOf(x) : Enters(x, v) /\ v.level + k = n => Delivers(x, v, d[k][v])}
    OBVIOUS
<1>4. ASSUME NEW v \in NodesOf(x), NEW o, o = [stay |-> v.members, nodes |-> <<>>],
             \A i \in v.members : Settles(x, v, i)
      PROVE  Delivers(x, v, o)
    <2>1. o.stay = v.members /\ o.nodes = <<>>
        BY <1>4
    <2> QED BY <1>4, <2>1, TidyNone DEF Delivers
<1>5. 0 \in P
    <2>1. ASSUME NEW v \in NodesOf(x), Enters(x, v), v.level + 0 = n PROVE Delivers(x, v, d[0][v])
        <3>1. d[0][v] = [stay |-> v.members, nodes |-> <<>>]
            BY <1>2 DEF Descends
        <3>2. v.level = n
            BY <2>1 DEF NodesOf
        <3>3. \A i \in v.members : Settles(x, v, i)
            BY <1>1, <2>1, <3>2 DEF Enters, Settles
        <3> QED BY <1>4, <3>1, <3>3
    <2> QED BY <1>3, <2>1
<1>6. ASSUME NEW k \in 1 .. n, k - 1 \in P PROVE k \in P
    <2>1. d[k] = Turn(x, d[k - 1])
        BY <1>1, <1>2 DEF Descends
    <2>2. ASSUME NEW v \in NodesOf(x), Enters(x, v), v.level + k = n PROVE Delivers(x, v, d[k][v])
        <3>1. d[k][v] = IF v.members = {} THEN [stay |-> v.members, nodes |-> <<>>] ELSE Split(x, d[k - 1], v)
            BY <2>1 DEF Turn
        <3>2. CASE v.members = {}
            BY <1>4, <3>1, <3>2
        <3>3. CASE v.members # {}
            <4>1. PICK ln, rn : ln = LeftNode(x, v) /\ rn = RightNode(x, v)
                OBVIOUS
            <4>2. v.level \in Nat
                BY DEF NodesOf
            <4>3. v.level < x.options.max_depth /\ v.level + 1 + (k - 1) = n
                BY <1>1, <2>2, <4>2
            <4>4. Enters(x, ln) /\ Enters(x, rn)
                BY <2>2, <4>1, <4>3, SidesEnter
            <4>5. ln \in NodesOf(x) /\ rn \in NodesOf(x)
                BY <4>1, SidesAre
            <4>6. ln.level = v.level + 1 /\ rn.level = v.level + 1
                BY <4>1 DEF LeftNode, RightNode, Node
            <4>7. ln.level + (k - 1) = n /\ rn.level + (k - 1) = n
                BY <4>3, <4>6
            <4>8. Delivers(x, ln, d[k - 1][ln]) /\ Delivers(x, rn, d[k - 1][rn])
                BY <1>3, <1>6, <4>4, <4>5, <4>7
            <4>9. Delivers(x, v, Split(x, d[k - 1], v))
                BY <2>2, <4>1, <4>3, <4>8, SplitDelivers
            <4> QED BY <3>1, <3>3, <4>9
        <3> QED BY <3>2, <3>3
    <2> QED BY <1>3, <2>2
<1>7. 0 .. n \subseteq P
    BY ONLY <1>5, <1>6, n \in Nat, Ascend
<1>8. n \in P /\ node \in NodesOf(x) /\ node.level + n = n
    <2>1. node \in NodesOf(x)
        BY DEF Enters, Sited
    <2> QED BY <1>7, <2>1
<1> QED BY <1>2, <1>3, <1>8

----------------------------------------------------------------------------
(* The partition                                                           *)

\* One top node takes what it holds and no earlier one took.
LEMMA UnderTakes ==
    ASSUME NEW x, Fits(x), x.options.min_gaussians <= 1, NEW nodes, Tidy(x, nodes),
           NEW k \in 1 .. Len(Tops(x)) - 1,
           NEW after, after = Under(x, nodes, Tops(x)[k], Tops(x)[k + 1])
    PROVE  /\ Tidy(x, after)
           /\ Assigned(nodes) \subseteq Assigned(after)
           /\ \A i \in DOMAIN x.gaussians :
                Tops(x)[k] <= Support(x.gaussians[i]).lo /\ Support(x.gaussians[i]).hi <= Tops(x)[k + 1]
                    => i \in Assigned(after)
<1>1. PICK tops : tops = Tops(x)
    OBVIOUS
<1>2. PICK a, b : a = tops[k] /\ b = tops[k + 1]
    OBVIOUS
<1>3. Climbs(tops)
    BY <1>1, TopsClimb
<1>4. a \in Int /\ b \in Int
    <2>1. k \in 1 .. Len(tops) /\ k + 1 \in 1 .. Len(tops)
        BY <1>1, <1>3 DEF Climbs, IsSeq
    <2> QED BY <1>2, <1>3, <2>1 DEF Climbs
<1>5. PICK pool : pool = {i \in DOMAIN x.gaussians \ Assigned(nodes) :
                             a <= Support(x.gaussians[i]).lo /\ Support(x.gaussians[i]).hi <= b}
    OBVIOUS
<1>6. PICK top : top = Node(a, b, 0, pool)
    OBVIOUS
<1>7. top.t0 = a /\ top.t1 = b /\ top.level = 0 /\ top.members = pool
    BY <1>6 DEF Node
<1>8. PICK below, one : below = Descend(x)[top] /\ one = NodeIfAny(a, b, 0, below.stay)
    OBVIOUS
<1>9. after = nodes \o below.nodes \o one
    BY <1>1, <1>2, <1>5, <1>6, <1>8 DEF Under
<1>10. Sited(x, top)
    <2>1. pool \in SUBSET DOMAIN x.gaussians
        BY <1>5
    <2>2. top \in NodesOf(x)
        BY <1>4, <1>6, <2>1, NodeIsNode
    <2>3. Interval(top) = [t0 |-> tops[k], t1 |-> tops[k + 1], level |-> 0]
        BY <1>2, <1>7 DEF Interval
    <2>4. Interval(top) \in Cuts(x)[0]
        BY <1>1, <2>3, CutsHalve DEF Firsts
    <2>5. 0 \in 0 .. x.options.max_depth
        BY DEF Fits, Limited
    <2> QED BY <1>7, <2>2, <2>4, <2>5 DEF Sited
<1>11. Enters(x, top)
    <2>1. ASSUME NEW i \in pool PROVE HeldBy(x, top, i)
        BY <1>5, <1>7 DEF HeldBy, Holds
    <2> QED BY <1>7, <1>10, <2>1 DEF Enters
<1>12. Delivers(x, top, below)
    BY <1>7, <1>8, <1>11, DescendDelivers
<1>13. Tidy(x, one) /\ Assigned(one) = below.stay
    <2>1. \A i \in below.stay : Settles(x, top, i)
        BY <1>12 DEF Delivers
    <2>2. one = NodeIfAny(top.t0, top.t1, top.level, below.stay)
        BY <1>7, <1>8
    <2> QED BY <1>10, <2>1, <2>2, TidyOne
<1>14. PICK both : both = nodes \o below.nodes
    OBVIOUS
<1>15. Tidy(x, both) /\ Assigned(both) = Assigned(nodes) \cup Assigned(below.nodes)
    BY <1>12, <1>14, TidyBoth DEF Delivers
<1>16. Tidy(x, after) /\ Assigned(after) = Assigned(both) \cup below.stay
    BY <1>9, <1>13, <1>14, <1>15, TidyBoth
<1>17. pool \subseteq Assigned(after)
    BY <1>7, <1>12, <1>15, <1>16 DEF Delivers
<1> QED BY <1>1, <1>2, <1>5, <1>15, <1>16, <1>17

\* The partition, top by top.
Grows(x, u) ==
    /\ u[0] = <<>>
    /\ \A k \in 0 .. Len(Tops(x)) - 1 : Tidy(x, u[k])
    /\ \A k \in 1 .. Len(Tops(x)) - 1 : u[k] = Under(x, u[k - 1], Tops(x)[k], Tops(x)[k + 1])

Leftover(x, placed) ==
    NodeIfAny(Head(Tops(x)), Last(Tops(x)), 0, DOMAIN x.gaussians \ Assigned(placed))

LEMMA PlanGrows ==
    ASSUME NEW x, Fits(x), x.options.min_gaussians <= 1
    PROVE  \E u : /\ Grows(x, u)
                  /\ PlanChunks(x) = InLayoutOrder(u[Len(Tops(x)) - 1] \o Leftover(x, u[Len(Tops(x)) - 1]))
<1> DEFINE tops == Tops(x)
           m == Len(tops) - 1
           All == CHOOSE under : under = [k \in 0 .. Len(tops) - 1 |->
                      IF k = 0 THEN <<>> ELSE Under(x, under[k - 1], tops[k], tops[k + 1])]
<1>1. PlanChunks(x) = InLayoutOrder(All[m] \o NodeIfAny(Head(tops), Last(tops), 0, DOMAIN x.gaussians \ Assigned(All[m])))
    BY DEF PlanChunks
<1>2. m \in Nat
    BY TopsClimb DEF Climbs, IsSeq
<1> HIDE DEF m
<1>3. PICK S, b, F : /\ S = {s \in Seq(NodesOf(x)) : Tidy(x, s)}
                     /\ b = <<>>
                     /\ F = [p \in S \X Nat |-> IF p[2] \in 1 .. m THEN Under(x, p[1], tops[p[2]], tops[p[2] + 1]) ELSE p[1]]
    OBVIOUS
<1>4. b \in S
    BY <1>3, TidyNone
<1>5. F \in [S \X Nat -> S]
    <2>1. ASSUME NEW s \in S, NEW k \in 1 .. m PROVE Under(x, s, tops[k], tops[k + 1]) \in S
        <3>1. Tidy(x, s) /\ k \in 1 .. Len(Tops(x)) - 1
            BY <1>3 DEF m
        <3>2. PICK after : after = Under(x, s, Tops(x)[k], Tops(x)[k + 1])
            OBVIOUS
        <3>3. Tidy(x, after)
            BY <3>1, <3>2, UnderTakes
        <3> QED BY <1>3, <3>2, <3>3 DEF Tidy
    <2>2. ASSUME NEW p \in S \X Nat
          PROVE  (IF p[2] \in 1 .. m THEN Under(x, p[1], tops[p[2]], tops[p[2] + 1]) ELSE p[1]) \in S
        <3>1. p[1] \in S
            OBVIOUS
        <3> QED BY <2>1, <3>1
    <2> QED BY <1>3, <2>2
<1>6. PICK f \in [0 .. m -> S] : Counts(f, m, b, F)
    BY ONLY <1>2, <1>4, <1>5, Counting
<1> HIDE DEF tops
<1>7. ASSUME NEW k \in 0 .. m PROVE f[k] = IF k = 0 THEN <<>> ELSE Under(x, f[k - 1], tops[k], tops[k + 1])
    <2>1. CASE k = 0
        BY <1>3, <1>6, <2>1 DEF Counts
    <2>2. CASE k # 0
        <3>1. k \in 1 .. m /\ k \in Nat /\ k - 1 \in 0 .. m
            BY <1>2, <2>2
        <3>2. <<f[k - 1], k>> \in S \X Nat /\ f[k] = F[<<f[k - 1], k>>]
            BY <1>6, <3>1 DEF Counts
        <3>3. F[<<f[k - 1], k>>] = Under(x, f[k - 1], tops[k], tops[k + 1])
            BY <1>3, <3>1, <3>2
        <3> QED BY <2>2, <3>2, <3>3
    <2> QED BY <2>1, <2>2
<1>8. f = [k \in 0 .. Len(tops) - 1 |-> IF k = 0 THEN <<>> ELSE Under(x, f[k - 1], tops[k], tops[k + 1])]
    BY <1>6, <1>7 DEF m
<1>9. All = [k \in 0 .. Len(tops) - 1 |-> IF k = 0 THEN <<>> ELSE Under(x, All[k - 1], tops[k], tops[k + 1])]
    BY <1>8
<1> HIDE DEF All
<1>10. All[0] = <<>>
    <2>1. 0 \in 0 .. Len(tops) - 1
        BY <1>2 DEF m
    <2> QED BY <1>9, <2>1
<1>11. ASSUME NEW k \in 1 .. m PROVE All[k] = Under(x, All[k - 1], tops[k], tops[k + 1])
    <2>1. k \in 0 .. Len(tops) - 1 /\ k # 0
        BY <1>2 DEF m
    <2> QED BY <1>9, <2>1
<1>12. PICK P : P = {k \in 0 .. m : Tidy(x, All[k])}
    OBVIOUS
<1>13. 0 \in P
    BY <1>2, <1>10, <1>12, TidyNone
<1>14. ASSUME NEW k \in 1 .. m, k - 1 \in P PROVE k \in P
    <2>1. Tidy(x, All[k - 1]) /\ k \in 0 .. m
        BY <1>12, <1>14
    <2>2. k \in 1 .. Len(Tops(x)) - 1 /\ All[k] = Under(x, All[k - 1], Tops(x)[k], Tops(x)[k + 1])
        BY <1>11 DEF m, tops
    <2>3. Tidy(x, All[k])
        BY <2>1, <2>2, UnderTakes
    <2> QED BY <1>12, <2>1, <2>3
<1>15. 0 .. m \subseteq P
    BY ONLY <1>2, <1>13, <1>14, Ascend
<1>16. Grows(x, All)
    BY <1>10, <1>11, <1>12, <1>15 DEF Grows, m, tops
<1> QED BY <1>1, <1>16 DEF Leftover, m, tops

\* In the end every gaussian that some top node holds is placed.
LEMMA HeldIsPlaced ==
    ASSUME NEW x, Fits(x), x.options.min_gaussians <= 1, NEW u, Grows(x, u),
           NEW i \in DOMAIN x.gaussians, NEW w \in Cuts(x)[0], Holds(w, x.gaussians[i])
    PROVE  i \in Assigned(u[Len(Tops(x)) - 1])
<1>1. PICK tops, m : tops = Tops(x) /\ m = Len(tops) - 1
    OBVIOUS
<1>2. m \in Nat
    BY <1>1, TopsClimb DEF Climbs, IsSeq
<1>3. PICK k \in 1 .. m : w = [t0 |-> tops[k], t1 |-> tops[k + 1], level |-> 0]
    <2>1. w \in Firsts(tops)
        BY <1>1, CutsHalve
    <2> QED BY <1>1, <2>1 DEF Firsts
<1>4. tops[k] <= Support(x.gaussians[i]).lo /\ Support(x.gaussians[i]).hi <= tops[k + 1]
    BY <1>3 DEF Holds
<1>5. PICK P : P = {j \in 0 .. m : j >= k => i \in Assigned(u[j])}
    OBVIOUS
<1>6. 0 \in P
    BY <1>2, <1>5
<1>7. ASSUME NEW j \in 1 .. m, j - 1 \in P PROVE j \in P
    <2>1. j \in 1 .. Len(Tops(x)) - 1 /\ j \in 0 .. m /\ j - 1 \in 0 .. Len(Tops(x)) - 1
        BY <1>1, <1>2
    <2>2. u[j] = Under(x, u[j - 1], Tops(x)[j], Tops(x)[j + 1]) /\ Tidy(x, u[j - 1])
        BY <2>1 DEF Grows
    <2>3. /\ Assigned(u[j - 1]) \subseteq Assigned(u[j])
          /\ \A y \in DOMAIN x.gaussians :
                Tops(x)[j] <= Support(x.gaussians[y]).lo /\ Support(x.gaussians[y]).hi <= Tops(x)[j + 1]
                    => y \in Assigned(u[j])
        BY <2>1, <2>2, UnderTakes
    <2>4. CASE j = k
        BY <1>1, <1>4, <1>5, <2>1, <2>3, <2>4
    <2>5. CASE j > k
        <3>1. j - 1 >= k
            BY <2>5
        <3> QED BY <1>5, <1>7, <2>1, <2>3, <3>1
    <2>6. CASE j < k
        BY <1>5, <2>1, <2>6
    <2> QED BY <2>4, <2>5, <2>6
<1>8. 0 .. m \subseteq P
    BY ONLY <1>2, <1>6, <1>7, Ascend
<1> QED BY <1>1, <1>2, <1>5, <1>8

\* A layout moves the nodes and makes none.
LEMMA LayoutKeeps ==
    ASSUME NEW x, NEW nodes \in Seq(NodesOf(x)), NEW k \in DOMAIN InLayoutOrder(nodes)
    PROVE  \E i \in DOMAIN nodes : InLayoutOrder(nodes)[k] = nodes[i]
<1> DEFINE Before(i, j) ==
            \/ nodes[i].level < nodes[j].level
            \/ nodes[i].level = nodes[j].level /\ nodes[i].t0 < nodes[j].t0
            \/ nodes[i].level = nodes[j].level /\ nodes[i].t0 = nodes[j].t0 /\ i < j
           order == [p \in DOMAIN nodes |->
                    CHOOSE i \in DOMAIN nodes : Cardinality({j \in DOMAIN nodes : Before(j, i)}) = p - 1]
<1>1. InLayoutOrder(nodes) = [p \in DOMAIN nodes |-> nodes[order[p]]]
    BY DEF InLayoutOrder
<1>2. PICK n \in Nat : DOMAIN nodes = 1 .. n
    OBVIOUS
<1>3. PICK S : S = DOMAIN nodes
    OBVIOUS
<1>4. \A i \in S : i \in Int /\ nodes[i].level \in Int /\ nodes[i].t0 \in Int
    <2>1. ASSUME NEW i \in S PROVE i \in Int /\ nodes[i] \in NodesOf(x)
        BY <1>2, <1>3
    <2>2. \A v \in NodesOf(x) : v.level \in Int /\ v.t0 \in Int
        BY DEF NodesOf
    <2> QED BY <2>1, <2>2
<1>5. PICK R : R = {p \in S \X S : Before(p[1], p[2])}
    OBVIOUS
<1>6. \A i, j \in S : <<i, j>> \in R <=> Before(i, j)
    BY <1>5
<1>7. Orders(R, S)
    <2>1. \A i \in S : ~Before(i, i)
        BY <1>4
    <2>2. \A i, j, m \in S : Before(i, j) /\ Before(j, m) => Before(i, m)
        BY <1>4
    <2>3. \A i, j \in S : i = j \/ Before(i, j) \/ Before(j, i)
        BY <1>4
    <2> HIDE DEF Before
    <2> QED BY <1>6, <2>1, <2>2, <2>3 DEF Orders
<1>8. IsFiniteSet(S) /\ Cardinality(S) = n
    BY <1>2, <1>3, FS_Interval
<1>9. k \in S /\ k \in 1 .. n
    BY <1>1, <1>2, <1>3
<1>10. PICK i \in S : Rank(S, R, i) = k - 1
    BY <1>7, <1>8, <1>9, RanksAll
<1>11. {j \in S : Before(j, i)} = Lower(S, R, i)
    BY <1>6 DEF Lower
<1>12. Cardinality({j \in S : Before(j, i)}) = k - 1
    BY <1>10, <1>11 DEF Rank
<1>13. order[k] \in S
    <2>1. order[k] = CHOOSE v \in S : Cardinality({j \in S : Before(j, v)}) = k - 1
        BY <1>3, <1>9
    <2> HIDE DEF Before, order
    <2> QED BY <1>12, <2>1
<1> HIDE DEF order
<1> QED BY <1>1, <1>3, <1>9, <1>13

\* Where a gaussian could lie, and where it is planned.
Holding(x, i) ==
    {v \in UNION {Cuts(x)[level] : level \in 0 .. x.options.max_depth} : Holds(v, x.gaussians[i])}

LEMMA PlansDeepest ==
    ASSUME NEW x, Fits(x), x.options.min_gaussians <= 1,
           NEW plan, NEW k \in DOMAIN PlanChunks(x), plan = PlanChunks(x)[k], NEW i \in plan.members,
           NEW holding, holding = Holding(x, i)
    PROVE  IF holding = {} THEN plan.t0 = Head(Tops(x)) /\ plan.t1 = Last(Tops(x))
           ELSE Holds(plan, x.gaussians[i]) /\ plan.level = Max({v.level : v \in holding})
<1>1. PICK n \in Nat : n = x.options.max_depth
    BY DEF Fits, Limited
<1>2. PICK u : /\ Grows(x, u)
               /\ PlanChunks(x) = InLayoutOrder(u[Len(Tops(x)) - 1] \o Leftover(x, u[Len(Tops(x)) - 1]))
    BY PlanGrows
<1>3. PICK placed, rest : placed = u[Len(Tops(x)) - 1] /\ rest = Leftover(x, placed)
    OBVIOUS
<1>4. Len(Tops(x)) - 1 \in 0 .. Len(Tops(x)) - 1 /\ Len(Tops(x)) \in 1 .. Len(Tops(x)) /\ 1 \in 1 .. Len(Tops(x))
    BY TopsClimb DEF Climbs, IsSeq
<1>5. Tidy(x, placed)
    BY <1>2, <1>3, <1>4 DEF Grows
<1>6. PICK a, b, M : a = Head(Tops(x)) /\ b = Last(Tops(x)) /\ M = DOMAIN x.gaussians \ Assigned(placed)
    OBVIOUS
<1>7. a \in Int /\ b \in Int
    <2>1. PICK tops : tops = Tops(x)
        OBVIOUS
    <2>2. IsSeq(tops) /\ tops[1] \in Int /\ tops[Len(tops)] \in Int
        BY <1>4, <2>1, TopsClimb DEF Climbs
    <2>3. tops \in Seq({tops[j] : j \in 1 .. Len(tops)})
        BY <2>2, InSeq
    <2>4. Head(tops) = tops[1] /\ Last(tops) = tops[Len(tops)]
        BY <1>4, <2>1, <2>3 DEF Last
    <2> QED BY <1>6, <2>1, <2>2, <2>4
<1>8. rest = NodeIfAny(a, b, 0, M) /\ rest \in Seq(NodesOf(x))
    BY <1>3, <1>6, <1>7, NodeIsNode DEF Leftover
<1>9. PICK nodes : nodes = placed \o rest
    OBVIOUS
<1>10. PlanChunks(x) = InLayoutOrder(nodes) /\ nodes \in Seq(NodesOf(x))
    BY <1>2, <1>3, <1>5, <1>8, <1>9 DEF Tidy
<1>11. PICK p \in DOMAIN nodes : plan = nodes[p]
    BY <1>10, LayoutKeeps
<1>12. Placed(x, plan) \/ plan = Node(a, b, 0, M)
    <2>1. placed \in Seq(NodesOf(x))
        BY <1>5 DEF Tidy
    <2>2. CASE p <= Len(placed)
        <3>1. p \in DOMAIN placed /\ nodes[p] = placed[p]
            BY <1>8, <1>9, <2>1, <2>2
        <3> QED BY <1>5, <1>11, <3>1 DEF Tidy
    <2>3. CASE p > Len(placed)
        <3>1. p - Len(placed) \in 1 .. Len(rest) /\ nodes[p] = rest[p - Len(placed)]
            BY <1>8, <1>9, <2>1, <2>3
        <3>2. rest = <<Node(a, b, 0, M)>>
            BY <1>8, <3>1 DEF NodeIfAny
        <3>3. p - Len(placed) = 1
            BY <3>1, <3>2
        <3> QED BY <1>11, <3>1, <3>2, <3>3
    <2> QED BY <1>10, <2>1, <2>2, <2>3
<1>13. i \in DOMAIN x.gaussians
    BY <1>6, <1>12 DEF Placed, Settles, HeldBy, Node
<1>14. PICK lo \in Int, hi \in Int : lo = Support(x.gaussians[i]).lo /\ hi = Support(x.gaussians[i]).hi
    BY <1>13, SupportIs
<1>15. \A v \in holding : \E m \in 0 .. n : v \in Cuts(x)[m] /\ v.level = m /\ v.t0 <= lo /\ hi <= v.t1
    BY <1>1, <1>14, CutsApart DEF Holding, Holds
<1>16. CASE Placed(x, plan)
    <2>1. Sited(x, plan) /\ Settles(x, plan, i)
        BY <1>16 DEF Placed
    <2>2. Holds(plan, x.gaussians[i])
        BY <2>1 DEF Settles, HeldBy
    <2>3. PICK w : w = Interval(plan)
        OBVIOUS
    <2>4. w.t0 = plan.t0 /\ w.t1 = plan.t1 /\ w.level = plan.level /\ Middle(w) = Middle(plan)
        BY <2>3 DEF Interval, Middle
    <2>5. w \in Cuts(x)[plan.level] /\ plan.level \in 0 .. n
        BY <1>1, <2>1, <2>3 DEF Sited
    <2>6. w \in holding
        BY <1>1, <2>2, <2>4, <2>5 DEF Holding, Holds
    <2>7. w.t0 <= lo /\ hi <= w.t1
        BY <1>14, <2>2, <2>4 DEF Holds
    <2>8. plan.level = x.options.max_depth \/ (lo < Middle(w) /\ Middle(w) < hi)
        BY <1>14, <2>1, <2>4 DEF Settles
    <2>9. ASSUME NEW v \in holding PROVE v.level <= plan.level /\ v.level \in Int
        <3>1. PICK m \in 0 .. n : v \in Cuts(x)[m] /\ v.level = m /\ v.t0 <= lo /\ hi <= v.t1
            BY <1>15
        <3>2. m <= plan.level
            BY <1>1, <2>5, <2>7, <2>8, <3>1, DividedIsDeepest
        <3> QED BY <3>1, <3>2
    <2>10. plan.level = Max({v.level : v \in holding})
        <3>1. PICK L : L = {v.level : v \in holding}
            OBVIOUS
        <3>2. plan.level \in L /\ plan.level \in Int /\ \A y \in L : y \in Int /\ plan.level >= y
            BY <2>4, <2>5, <2>6, <2>9, <3>1
        <3>3. Max(L) \in L /\ \A y \in L : Max(L) >= y
            BY <3>2 DEF Max
        <3>4. Max(L) = plan.level
            BY <3>2, <3>3
        <3> QED BY <3>1, <3>4
    <2> QED BY <2>2, <2>6, <2>10
<1>17. CASE plan = Node(a, b, 0, M)
    <2>1. plan.t0 = a /\ plan.t1 = b /\ i \notin Assigned(placed)
        BY <1>6, <1>17 DEF Node
    <2>2. ASSUME NEW v \in holding PROVE FALSE
        <3>1. PICK m \in 0 .. n : v \in Cuts(x)[m] /\ v.t0 <= lo /\ hi <= v.t1
            BY <1>15
        <3>2. m \in Nat /\ 0 + m = m /\ 0 + m <= x.options.max_depth
            BY <1>1
        <3>3. PICK w \in Cuts(x)[0] : Inside(v, w)
            BY <3>1, <3>2, CutsNest
        <3>4. v \in Cut /\ w \in Cut
            <4>1. 0 \in 0 .. x.options.max_depth /\ m \in 0 .. x.options.max_depth
                BY <1>1
            <4> QED BY <3>1, <3>3, <4>1, CutsApart
        <3>5. w.t0 <= lo /\ hi <= w.t1
            BY <3>1, <3>3, <3>4 DEF Inside, Cut
        <3>6. i \in Assigned(placed)
            BY <1>2, <1>3, <1>13, <1>14, <3>5, HeldIsPlaced DEF Holds
        <3> QED BY <2>1, <3>6
    <2> QED BY <1>6, <2>1, <2>2
<1> QED BY <1>12, <1>16, <1>17

----------------------------------------------------------------------------
(* The specification                                                       *)

\* The plans are those of the input as it is: nothing sets a field of it between
\* the planning and the last record.
Planned ==
    /\ HandleInv
    /\ Fits(input)
    /\ stage \in {"planned", "writing", "written"} =>
         plans = IF input.gaussians = <<>> THEN <<>> ELSE PlanChunks(input)

LEMMA PlannedInit == Init => Planned
<1> SUFFICES ASSUME Init PROVE Planned
    OBVIOUS
<1>1. HandleInv
    BY HandleInit
<1>2. input \in INPUTS \cup {FRESH} /\ stage \in {"called", "assembling"}
    BY DEF Init
<1>3. Fits(input)
    BY <1>2, InputAssumption DEF Fits
<1> QED BY <1>1, <1>2, <1>3 DEF Planned

LEMMA PlannedNext == Planned /\ [Next]_vars => Planned'
<1> SUFFICES ASSUME Planned, [Next]_vars PROVE Planned'
    OBVIOUS
<1>1. HandleInv'
    BY HandleNext DEF Planned
<1>2. Fits(input) /\ HandleInv
    BY DEF Planned
\* The setters, of a handle that is not being encoded.
<1>3. ASSUME Assembling
      PROVE  /\ stage' \notin {"planned", "writing", "written"}
             /\ input = [field \in DOMAIN input |-> input[field]]
             /\ {"gaussians", "degree", "coefficients", "rows", "duration", "options"} \subseteq DOMAIN input
    BY <1>2, <1>3 DEF Assembling, HandleInv
<1>4. ASSUME Assembling, Fits(input') PROVE Planned'
    BY <1>1, <1>3, <1>4 DEF Planned, Fits
<1>5. ASSUME input' = input, plans' = plans,
             stage' \in {"planned", "writing", "written"} => stage \in {"planned", "writing", "written"}
      PROVE  Planned'
    BY <1>1, <1>5 DEF Planned, Fits
<1>6. CASE SetGaussians
    <2>1. PICK columns \in COLUMNS :
              input' = [input EXCEPT !.gaussians = columns, !.degree = 0, !.coefficients = 0, !.rows = 0]
        BY <1>6 DEF SetGaussians
    <2>2. Assembling
        BY <1>6 DEF SetGaussians
    <2>3. input'.gaussians = columns /\ input'.options = input.options /\ input'.duration = input.duration
        BY <1>3, <2>1, <2>2
    <2>4. Fits(input')
        BY <1>2, <2>3, InputAssumption DEF Fits
    <2> QED BY <1>4, <2>2, <2>4
<1>7. CASE SetSh
    <2>1. PICK degree, coefficients, rows :
              input' = IF 0 \in {degree, coefficients, rows}
                       THEN [input EXCEPT !.degree = 0, !.coefficients = 0, !.rows = 0]
                       ELSE IF rows # Len(input.gaussians) THEN input
                       ELSE [input EXCEPT !.degree = degree, !.coefficients = coefficients, !.rows = rows]
        BY <1>7 DEF SetSh
    <2>2. Assembling
        BY <1>7 DEF SetSh
    <2>3. \E d, c, r : input' \in {input, [input EXCEPT !.degree = d, !.coefficients = c, !.rows = r]}
        BY <2>1
    <2>4. PICK d, c, r : input' \in {input, [input EXCEPT !.degree = d, !.coefficients = c, !.rows = r]}
        BY <2>3
    <2>5. input'.gaussians = input.gaussians /\ input'.options = input.options /\ input'.duration = input.duration
        BY <1>3, <2>2, <2>4
    <2>6. Fits(input')
        BY <1>2, <2>5 DEF Fits
    <2> QED BY <1>4, <2>2, <2>6
<1>8. CASE SetOption
    <2>1. PICK options \in SETTINGS, duration \in {0, 16} :
              input' = [input EXCEPT !.options = options, !.duration = duration]
        BY <1>8 DEF SetOption
    <2>2. Assembling
        BY <1>8 DEF SetOption
    <2>3. input'.gaussians = input.gaussians /\ input'.options = options /\ input'.duration \in Int
        BY <1>3, <2>1, <2>2
    <2>4. Fits(input')
        BY <1>2, <2>3, InputAssumption DEF Fits
    <2> QED BY <1>4, <2>2, <2>4
<1>9. CASE Plan
    <2>1. input' = input /\ plans' = IF input.gaussians = <<>> THEN <<>> ELSE PlanChunks(input)
        BY <1>9 DEF Plan
    <2> QED BY <1>1, <1>2, <2>1 DEF Planned
<1>10. CASE HandBack
    <2>1. input' = input /\ stage' = "assembling"
        BY <1>10 DEF HandBack
    <2> QED BY <1>1, <1>2, <2>1 DEF Planned
\* The writing leaves the input and the plans alone.
<1>11. CASE EncodeHandle \/ Quantize \/ WriteFront \/ WriteChunk \/ WriteSummary \/ Refuse
    BY <1>5, <1>11 DEF EncodeHandle, Quantize, WriteFront, WriteChunk, WriteSummary, Refuse
<1>12. CASE UNCHANGED vars
    BY <1>5, <1>12 DEF vars
<1> QED BY <1>6, <1>7, <1>8, <1>9, <1>10, <1>11, <1>12 DEF Next

LEMMA PlannedDeepest == Planned => InDeepestNode
<1> SUFFICES ASSUME Planned, stage \in {"planned", "writing", "written"}, input.options.min_gaussians <= 1,
                    NEW k \in DOMAIN plans, NEW i \in plans[k].members,
                    NEW holding, holding = {v \in Intervals : Holds(v, input.gaussians[i])}
             PROVE  IF holding = {} THEN plans[k].t0 = Head(Tops(input)) /\ plans[k].t1 = Last(Tops(input))
                    ELSE Holds(plans[k], input.gaussians[i]) /\ plans[k].level = Max({v.level : v \in holding})
    BY DEF InDeepestNode
<1>1. plans = PlanChunks(input) /\ Fits(input)
    BY DEF Planned
<1>2. holding = Holding(input, i)
    BY DEF Intervals, Holding
<1>3. PICK plan : plan = plans[k]
    OBVIOUS
<1>4. k \in DOMAIN PlanChunks(input) /\ plan = PlanChunks(input)[k] /\ i \in plan.members
    BY <1>1, <1>3
<1>5. IF holding = {} THEN plan.t0 = Head(Tops(input)) /\ plan.t1 = Last(Tops(input))
      ELSE Holds(plan, input.gaussians[i]) /\ plan.level = Max({v.level : v \in holding})
    <2>1. Fits(input) /\ input.options.min_gaussians <= 1
        BY <1>1
    <2> QED BY ONLY <2>1, <1>2, <1>4, PlansDeepest
<1> QED BY <1>3, <1>5

\* "A gaussian goes in the deepest node whose interval fully contains its support"
\* (writer.rs, plan_chunks), whatever the scene, when no node is too small to be
\* worth a chunk; and what no window holds lies in the chunk of the whole scene.
THEOREM PlannedWhereItFits == Spec => []InDeepestNode
<1> QED BY PlannedInit, PlannedNext, PlannedDeepest, PTL DEF Spec
=============================================================================
