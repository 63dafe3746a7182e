---------------------------- MODULE ListLemmas ----------------------------
(***************************************************************************)
(* Facts about sequences whose elements are of no one set, as the records  *)
(* of a file are, and about the last of some positions of one.             *)
(***************************************************************************)
EXTENDS Integers, Sequences, FiniteSets, FiniteSetTheorems, WellFoundedInduction, TLAPS

IsSeq(s) == Len(s) \in Nat /\ s = [i \in 1 .. Len(s) |-> s[i]]

LEMMA InSeq ==
    ASSUME NEW s, IsSeq(s), NEW S, \A i \in 1 .. Len(s) : s[i] \in S
    PROVE  s \in Seq(S)
<1>1. s \in [1 .. Len(s) -> S]
  BY DEF IsSeq
<1> QED
  BY <1>1 DEF IsSeq

LEMMA SeqIsSeq ==
    ASSUME NEW S, NEW s \in Seq(S)
    PROVE  IsSeq(s)
BY DEF IsSeq

LEMMA EmptyIsSeq == IsSeq(<<>>) /\ Len(<<>>) = 0
BY DEF IsSeq

LEMMA AppendIsSeq ==
    ASSUME NEW s, IsSeq(s), NEW x
    PROVE  /\ IsSeq(Append(s, x))
           /\ Len(Append(s, x)) = Len(s) + 1
           /\ \A i \in 1 .. Len(s) : Append(s, x)[i] = s[i]
           /\ Append(s, x)[Len(s) + 1] = x
<1> DEFINE S == {s[i] : i \in 1 .. Len(s)} \cup {x}
<1>1. \A i \in 1 .. Len(s) : s[i] \in S
  OBVIOUS
<1>2. s \in Seq(S) /\ x \in S
  BY <1>1, InSeq
<1> HIDE DEF S
<1>3. Append(s, x) \in Seq(S)
  BY <1>2
<1>4. IsSeq(Append(s, x))
  BY <1>3, SeqIsSeq
<1> QED
  BY <1>2, <1>3, <1>4

LEMMA ConcatIsSeq ==
    ASSUME NEW s, IsSeq(s), NEW t, IsSeq(t)
    PROVE  /\ IsSeq(s \o t)
           /\ Len(s \o t) = Len(s) + Len(t)
           /\ \A i \in 1 .. Len(s) + Len(t) :
                 (s \o t)[i] = IF i <= Len(s) THEN s[i] ELSE t[i - Len(s)]
<1> DEFINE S == {s[i] : i \in 1 .. Len(s)} \cup {t[i] : i \in 1 .. Len(t)}
<1>1. (\A i \in 1 .. Len(s) : s[i] \in S) /\ (\A i \in 1 .. Len(t) : t[i] \in S)
  OBVIOUS
<1>2. s \in Seq(S) /\ t \in Seq(S)
  BY <1>1, InSeq
<1> HIDE DEF S
<1>3. s \o t \in Seq(S)
  BY <1>2
<1>4. IsSeq(s \o t)
  BY <1>3, SeqIsSeq
<1> QED
  BY <1>2, <1>3, <1>4

LEMMA PrefixIsSeq ==
    ASSUME NEW s, IsSeq(s), NEW n \in 0 .. Len(s)
    PROVE  /\ IsSeq(SubSeq(s, 1, n))
           /\ Len(SubSeq(s, 1, n)) = n
           /\ \A i \in 1 .. n : SubSeq(s, 1, n)[i] = s[i]
<1> DEFINE S == {s[i] : i \in 1 .. Len(s)}
<1>1. \A i \in 1 .. Len(s) : s[i] \in S
  OBVIOUS
<1>2. s \in Seq(S)
  BY <1>1, InSeq
<1> HIDE DEF S
<1>3. SubSeq(s, 1, n) \in Seq(S)
  BY <1>2 DEF IsSeq
<1>4. IsSeq(SubSeq(s, 1, n))
  BY <1>3, SeqIsSeq
<1> QED
  BY <1>2, <1>3, <1>4 DEF IsSeq

LEMMA SliceIsSeq ==
    ASSUME NEW s, IsSeq(s), NEW m \in 1 .. Len(s) + 1, NEW n \in m - 1 .. Len(s)
    PROVE  /\ IsSeq(SubSeq(s, m, n))
           /\ Len(SubSeq(s, m, n)) = n - m + 1
           /\ \A i \in 1 .. n - m + 1 : SubSeq(s, m, n)[i] = s[m + i - 1]
<1> DEFINE S == {s[i] : i \in 1 .. Len(s)}
<1>1. \A i \in 1 .. Len(s) : s[i] \in S
  OBVIOUS
<1>2. s \in Seq(S) /\ Len(s) \in Nat
  BY <1>1, InSeq DEF IsSeq
<1> HIDE DEF S
<1>3. SubSeq(s, m, n) \in Seq(S)
  BY <1>2
<1>4. IsSeq(SubSeq(s, m, n))
  BY <1>3, SeqIsSeq
<1> QED
  BY <1>2, <1>3, <1>4

\* Sequences with the same elements at the same places are the same.
LEMMA SameSeq ==
    ASSUME NEW s, IsSeq(s), NEW t, IsSeq(t), Len(s) = Len(t),
           \A i \in 1 .. Len(s) : s[i] = t[i]
    PROVE  s = t
BY DEF IsSeq

\* A non-empty set of positions up to i has a last one: the intervals that end
\* at i and start in it are finite, and strict inclusion is well-founded.
LEMMA LastPosition ==
    ASSUME NEW i \in Nat, NEW S, S \subseteq 1 .. i, S # {}
    PROVE  \E k \in S : \A j \in k + 1 .. i : j \notin S
<1> DEFINE T == {k .. i : k \in S}
           R == StrictSubsetOrdering(1 .. i)
<1>1. IsWellFoundedOn(R, FiniteSubsetsOf(1 .. i))
  BY FS_StrictSubsetOrderingWellFounded
<1>2. T \subseteq FiniteSubsetsOf(1 .. i)
  <2>1. ASSUME NEW k \in S
        PROVE  k .. i \in SUBSET (1 .. i) /\ IsFiniteSet(k .. i)
    <3>1. k \in 1 .. i /\ k \in Int
      OBVIOUS
    <3>2. IsFiniteSet(k .. i)
      BY <3>1, FS_Interval
    <3> QED
      BY <3>1, <3>2
  <2> QED
    BY <2>1 DEF FiniteSubsetsOf
<1>3. T # {}
  OBVIOUS
<1>4. \E x \in T : \A y \in T : ~(<<y, x>> \in R)
  <2> HIDE DEF T, R
  <2> QED
    BY <1>1, <1>2, <1>3, WFMin
<1>5. PICK k \in S : \A y \in T : ~(<<y, k .. i>> \in R)
  BY <1>4
<1>6. ASSUME NEW j \in k + 1 .. i, j \in S
      PROVE  FALSE
  <2>1. k \in 1 .. i /\ j \in 1 .. i /\ k < j
    BY <1>6
  <2>2. j .. i \subseteq k .. i /\ k .. i \subseteq 1 .. i
    BY <2>1
  <2>3. k \in k .. i /\ k \notin j .. i
    BY <2>1
  <2>4. <<j .. i, k .. i>> \in R
    BY <2>2, <2>3 DEF StrictSubsetOrdering
  <2> QED
    BY <1>5, <1>6, <2>4
<1> QED
  BY <1>6

\* A set of positions has a first one: the last, counted from the end.
LEMMA FirstPosition ==
    ASSUME NEW i \in Nat, NEW S, S \subseteq 1 .. i, S # {}
    PROVE  \E k \in S : \A j \in S : k <= j
<1>1. PICK T : T = {i + 1 - k : k \in S}
    OBVIOUS
<1>2. T \subseteq 1 .. i
    <2>1. \A k \in 1 .. i : i + 1 - k \in 1 .. i
        OBVIOUS
    <2> QED BY <1>1, <2>1
<1>3. PICK m \in T : \A j \in m + 1 .. i : j \notin T
    <2>1. T # {}
        BY <1>1
    <2> QED BY <1>2, <2>1, LastPosition
<1>4. PICK k \in S : m = i + 1 - k
    BY <1>1, <1>3
<1>5. ASSUME NEW j \in S, ~(k <= j)
      PROVE  FALSE
    <2>1. i + 1 - j \in T
        BY <1>1
    <2>2. i + 1 - j \in m + 1 .. i
        BY <1>4, <1>5
    <2> QED BY <1>3, <2>1, <2>2
<1> QED BY <1>5

\* Induction up to n, on a set of the numbers of which something holds.
LEMMA Ascend ==
    ASSUME NEW n \in Nat, NEW P, 0 \in P, \A k \in 1 .. n : k - 1 \in P => k \in P
    PROVE  0 .. n \subseteq P
<1>1. PICK S : S = {k \in 1 .. n : k \notin P}
    OBVIOUS
<1>2. CASE S = {}
    BY <1>1, <1>2
<1>3. CASE S # {}
    <2>1. PICK k \in S : \A j \in S : k <= j
        BY <1>1, <1>3, FirstPosition
    <2>2. k \in 1 .. n /\ k \notin P /\ (k = 1 \/ k - 1 \in 1 .. n) /\ ~(k <= k - 1)
        BY <1>1, <2>1
    <2>3. k - 1 \in P
        BY <1>1, <2>1, <2>2
    <2> QED BY <2>2, <2>3
<1> QED BY <1>2, <1>3

\* A recursion that counts up to n has a solution.
Counts(f, n, b, F) == f[0] = b /\ \A k \in 1 .. n : f[k] = F[<<f[k - 1], k>>]

LEMMA Counting ==
    ASSUME NEW n \in Nat, NEW S, NEW b \in S, NEW F \in [S \X Nat -> S]
    PROVE  \E f \in [0 .. n -> S] : Counts(f, n, b, F)
<1> DEFINE Upto(m) == \E f \in [0 .. m -> S] : f[0] = b /\ \A k \in 1 .. m : f[k] = F[<<f[k - 1], k>>]
           P == {m \in 0 .. n : Upto(m)}
<1>1. 0 \in P
    <2>1. PICK f : f = [k \in 0 .. 0 |-> b]
        OBVIOUS
    <2> QED BY <2>1
<1>2. ASSUME NEW m \in 1 .. n, m - 1 \in P PROVE m \in P
    <2>1. PICK f \in [0 .. m - 1 -> S] : f[0] = b /\ \A k \in 1 .. m - 1 : f[k] = F[<<f[k - 1], k>>]
        BY <1>2
    <2>2. PICK g : g = [k \in 0 .. m |-> IF k = m THEN F[<<f[m - 1], m>>] ELSE f[k]]
        OBVIOUS
    <2>3. m - 1 \in 0 .. m - 1 /\ m \in Nat
        OBVIOUS
    <2>4. F[<<f[m - 1], m>>] \in S
        BY <2>1, <2>3
    <2>5. g \in [0 .. m -> S]
        <3>1. \A k \in 0 .. m : k # m => k \in 0 .. m - 1
            OBVIOUS
        <3> QED BY <2>1, <2>2, <2>4, <3>1
    <2>6. g[0] = b
        BY <2>1, <2>2
    <2>7. ASSUME NEW k \in 1 .. m PROVE g[k] = F[<<g[k - 1], k>>]
        <3>1. g[k - 1] = f[k - 1]
            BY <2>2
        <3>2. CASE k = m
            <4>1. m \in 0 .. m
                OBVIOUS
            <4>2. g[m] = F[<<f[m - 1], m>>]
                BY ONLY <2>2, <4>1
            <4>3. g[m - 1] = f[m - 1]
                BY <3>1, <3>2
            <4>4. g[m] = F[<<g[m - 1], m>>]
                BY ONLY <4>2, <4>3
            <4> QED BY <3>2, <4>4
        <3>3. CASE k # m
            <4>1. k \in 1 .. m - 1
                BY <3>3
            <4> QED BY <2>1, <2>2, <3>1, <3>3, <4>1
        <3> QED BY <3>2, <3>3
    <2> QED BY <2>5, <2>6, <2>7
<1> HIDE DEF P
<1>3. n \in 0 .. n
    OBVIOUS
<1>4. n \in P
    BY <1>1, <1>2, <1>3, Ascend
<1> QED BY <1>4 DEF P, Counts

=============================================================================
