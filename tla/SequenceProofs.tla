--------------------------- MODULE SequenceProofs ---------------------------
(***************************************************************************)
(* The encoder and both readers, for any number of samples, any            *)
(* populations, options and widths.  First what composition does, for      *)
(* every population: the delta the writer makes of a sample composes back  *)
(* to that sample exactly, and a composition that is not refused yields a  *)
(* population.  Then the streamed reader: every state chunk that           *)
(* decode_streamed composes is the sample that was written, bin for bin.   *)
(* Last the index encode() writes and the indexed reader that follows it.  *)
(***************************************************************************)
EXTENDS SequenceWriter, ListLemmas

\* A population with exactly the columns C, of integers of any width.
Carries(s, C) == /\ s = [ids |-> s.ids, bins |-> s.bins]
                 /\ s.bins \in [C -> [s.ids -> Int]]

\* The rows of s for some of its ids.
Part(s, C, ids) == [ids |-> ids, bins |-> [a \in C |-> [g \in ids |-> s.bins[a][g]]]]

----------------------------------------------------------------------------
(* The round trip                                                          *)

\* Deaths leave the rows the two populations share.
LEMMA SurvivorsAreShared ==
    ASSUME NEW ref, NEW cur, NEW C, Carries(ref, C), Carries(cur, C)
    PROVE  Survivors(ref, DeathGroup(ref, cur).ids) = Part(ref, C, ref.ids \cap cur.ids)
<1>1. DeathGroup(ref, cur).ids = ref.ids \ cur.ids
  BY DEF DeathGroup, Group
<1>2. DOMAIN ref.bins = C /\ \A a \in C : DOMAIN ref.bins[a] = ref.ids
  BY DEF Carries
<1>3. ref.ids \ (ref.ids \ cur.ids) = ref.ids \cap cur.ids
  OBVIOUS
<1> QED
  BY <1>1, <1>2, <1>3 DEF Survivors, Part

\* A row that is not in the update group has not changed.
LEMMA UnmovedRowsAgree ==
    ASSUME NEW ref, NEW cur, NEW C, Carries(ref, C), Carries(cur, C),
           ~ChangesInvariant(ref, cur),
           NEW g \in ref.ids \cap cur.ids, g \notin UpdateGroup(ref, cur).ids,
           NEW a \in C
    PROVE  ref.bins[a][g] = cur.bins[a][g]
<1>1. DOMAIN ref.bins = C /\ DOMAIN cur.bins = C
  BY DEF Carries
<1>2. CASE a \in GOP_INVARIANT
  BY <1>1, <1>2 DEF ChangesInvariant, RowsChanged
<1>3. CASE a \notin GOP_INVARIANT
  BY <1>1, <1>3 DEF UpdateGroup, Streams, Group, RowsChanged
<1> QED
  BY <1>2, <1>3

\* The update group takes the shared rows of ref to those of cur.
LEMMA UpdateReachesShared ==
    ASSUME NEW ref, NEW cur, NEW C, Carries(ref, C), Carries(cur, C),
           ~ChangesInvariant(ref, cur)
    PROVE  Updated(Part(ref, C, ref.ids \cap cur.ids), UpdateGroup(ref, cur))
               = Part(cur, C, ref.ids \cap cur.ids)
<1> DEFINE shared == ref.ids \cap cur.ids
           kept   == Part(ref, C, shared)
           u      == UpdateGroup(ref, cur)
<1>1. DOMAIN ref.bins = C /\ DOMAIN cur.bins = C
  BY DEF Carries
<1>2. /\ kept.ids = shared
      /\ DOMAIN kept.bins = C
      /\ \A a \in C : DOMAIN kept.bins[a] = shared
      /\ \A a \in C, g \in shared : kept.bins[a][g] = ref.bins[a][g]
  BY DEF Part
<1>3. u.ids \subseteq shared
  BY DEF UpdateGroup, Streams, Group
<1>4. CASE u.ids = {}
  <2>1. \A a \in C, g \in shared : ref.bins[a][g] = cur.bins[a][g]
    BY <1>4, UnmovedRowsAgree
  <2>2. kept = Part(cur, C, shared)
    BY <2>1 DEF Part
  <2> QED
    BY <1>4, <2>2 DEF Updated
<1>5. CASE u.ids # {}
  <2>1. DOMAIN u.bins = C \ GOP_INVARIANT
    BY <1>1, <1>5 DEF UpdateGroup, Streams, Group
  <2>2. ASSUME NEW a \in C \ GOP_INVARIANT
        PROVE  UpdatedColumn(kept, u, a) = [g \in shared |-> cur.bins[a][g]]
    <3>1. BaseColumn(kept, a) = kept.bins[a]
      BY <1>2 DEF BaseColumn
    <3>2. ASSUME NEW g \in shared
          PROVE  UpdatedColumn(kept, u, a)[g] = cur.bins[a][g]
      <4>1. CASE g \notin u.ids
        <5>1. ref.bins[a][g] = cur.bins[a][g]
          BY <4>1, UnmovedRowsAgree
        <5>2. UpdatedColumn(kept, u, a)[g] = kept.bins[a][g]
          BY <3>1, <4>1, <1>2 DEF UpdatedColumn
        <5> QED
          BY <5>1, <5>2, <1>2
      <4>2. CASE g \in u.ids
        <5>1. u.bins[a][g] = IF a \in ABSOLUTE_IN_UPDATE
                             THEN cur.bins[a][g] ELSE cur.bins[a][g] - ref.bins[a][g]
          BY <1>1, <1>5, <4>2 DEF UpdateGroup, Streams, Group
        <5>2. cur.bins[a][g] \in Int /\ ref.bins[a][g] \in Int
          BY DEF Carries
        <5>3. UpdatedColumn(kept, u, a)[g] = IF a \in ABSOLUTE_IN_UPDATE
                             THEN u.bins[a][g] ELSE ref.bins[a][g] + u.bins[a][g]
          BY <3>1, <4>2, <1>2 DEF UpdatedColumn
        <5> QED
          BY <5>1, <5>2, <5>3
      <4> QED
        BY <4>1, <4>2
    <3>3. DOMAIN UpdatedColumn(kept, u, a) = shared
      BY <3>1, <1>2 DEF UpdatedColumn
    <3>4. UpdatedColumn(kept, u, a) = [g \in shared |-> UpdatedColumn(kept, u, a)[g]]
      BY <3>3 DEF UpdatedColumn
    <3> QED
      BY <3>2, <3>4
  <2>3. ASSUME NEW a \in C \cap GOP_INVARIANT
        PROVE  kept.bins[a] = [g \in shared |-> cur.bins[a][g]]
    <3>1. \A g \in shared : ref.bins[a][g] = cur.bins[a][g]
      BY <1>1 DEF ChangesInvariant, RowsChanged
    <3> QED
      BY <3>1 DEF Part
  <2>4. Updated(kept, u) = [ids |-> shared,
                            bins |-> [a \in C |-> IF a \in C \ GOP_INVARIANT
                                                  THEN UpdatedColumn(kept, u, a) ELSE kept.bins[a]]]
    <3>1. C \cup (C \ GOP_INVARIANT) = C
      OBVIOUS
    <3> QED
      BY <1>2, <1>5, <2>1, <3>1 DEF Updated
  <2>5. [a \in C |-> IF a \in C \ GOP_INVARIANT THEN UpdatedColumn(kept, u, a) ELSE kept.bins[a]]
            = [a \in C |-> [g \in shared |-> cur.bins[a][g]]]
    BY <2>2, <2>3
  <2> QED
    BY <2>4, <2>5 DEF Part
<1> QED
  BY <1>4, <1>5

\* The birth group completes the shared rows of cur to the whole of cur.
LEMMA BirthCompletes ==
    ASSUME NEW ref, NEW cur, NEW C, Carries(cur, C)
    PROVE  Born(Part(cur, C, ref.ids \cap cur.ids), BirthGroup(ref, cur)) = cur
<1> DEFINE shared == ref.ids \cap cur.ids
           kept   == Part(cur, C, shared)
           b      == BirthGroup(ref, cur)
<1>1. DOMAIN cur.bins = C
  BY DEF Carries
<1>2. cur = Part(cur, C, cur.ids)
  <2>1. cur.bins = [a \in C |-> [g \in cur.ids |-> cur.bins[a][g]]]
    BY DEF Carries
  <2> QED
    BY <2>1 DEF Carries, Part
<1>3. b.ids = cur.ids \ ref.ids
  BY DEF BirthGroup, Streams, Group
<1>4. CASE b.ids = {}
  <2>1. shared = cur.ids
    BY <1>3, <1>4
  <2> QED
    BY <1>2, <1>4, <2>1 DEF Born
<1>5. CASE b.ids # {}
  <2>1. b.bins = [a \in C |-> [g \in b.ids |-> cur.bins[a][g]]]
    BY <1>1, <1>3, <1>5 DEF BirthGroup, Streams, Group
  <2>2. kept.ids = shared /\ DOMAIN kept.bins = C
    BY DEF Part
  <2>3. shared \cup b.ids = cur.ids
    BY <1>3
  <2>4. ASSUME NEW a \in C
        PROVE  BornColumn(kept, b, a) = [g \in cur.ids |-> cur.bins[a][g]]
    <3>1. BaseColumn(kept, a) = [g \in shared |-> cur.bins[a][g]]
      BY DEF BaseColumn, Part
    <3>2. BornColumn(kept, b, a) = [g \in shared \cup b.ids |->
              IF g \in b.ids THEN b.bins[a][g] ELSE BaseColumn(kept, a)[g]]
      BY <2>1, <3>1 DEF BornColumn
    <3>3. ASSUME NEW g \in cur.ids
          PROVE  (IF g \in b.ids THEN b.bins[a][g] ELSE BaseColumn(kept, a)[g]) = cur.bins[a][g]
      <4>1. g \in b.ids => b.bins[a][g] = cur.bins[a][g]
        BY <2>1
      <4>2. g \notin b.ids => BaseColumn(kept, a)[g] = cur.bins[a][g]
        BY <2>3, <3>1
      <4> QED
        BY <4>1, <4>2
    <3>4. BornColumn(kept, b, a) = [g \in cur.ids |->
              IF g \in b.ids THEN b.bins[a][g] ELSE BaseColumn(kept, a)[g]]
      BY <2>3, <3>2
    <3> HIDE DEF kept, b
    <3> QED
      BY <3>3, <3>4
  <2>5. Born(kept, b) = [ids |-> cur.ids, bins |-> [a \in C |-> BornColumn(kept, b, a)]]
    <3>1. DOMAIN kept.bins \cup DOMAIN b.bins = C
      BY <2>1, <2>2
    <3> QED
      BY <1>5, <2>2, <2>3, <3>1 DEF Born
  <2> QED
    BY <1>2, <2>4, <2>5 DEF Part
<1> QED
  BY <1>4, <1>5

\* The telescoping claim of keyframe_delta.rs for one link: whatever was born,
\* changed or died between a reference and a sample, the delta the writer makes
\* of the two composes back onto the reference to exactly the sample.
THEOREM DeltaRoundTrip ==
    ASSUME NEW ref, NEW cur, NEW C, Carries(ref, C), Carries(cur, C),
           ~ChangesInvariant(ref, cur)
    PROVE  Composed(ref, DeltaGroups(ref, cur)) = cur
<1> DEFINE d == DeltaGroups(ref, cur)
<1>1. /\ d.death  = DeathGroup(ref, cur)
      /\ d.update = UpdateGroup(ref, cur)
      /\ d.birth  = BirthGroup(ref, cur)
  BY DEF DeltaGroups
<1>2. Survivors(ref, d.death.ids) = Part(ref, C, ref.ids \cap cur.ids)
  BY <1>1, SurvivorsAreShared
<1>3. Updated(Part(ref, C, ref.ids \cap cur.ids), d.update) = Part(cur, C, ref.ids \cap cur.ids)
  BY <1>1, UpdateReachesShared
<1>4. Born(Part(cur, C, ref.ids \cap cur.ids), d.birth) = cur
  BY <1>1, BirthCompletes
<1> QED
  BY <1>2, <1>3, <1>4 DEF Composed

\* What apply_delta delivers when it does not refuse.
LEMMA AppliedIsComposed ==
    ASSUME NEW s, NEW d, ApplyDelta(s, d).code = "ok"
    PROVE  ApplyDelta(s, d).state = Composed(s, d)
BY DEF ApplyDelta, Refuse, Ok

\* What keyframe_state delivers when it does not refuse.
LEMMA KeyframeStateIsGroup ==
    ASSUME NEW group, KeyframeState(group).code = "ok"
    PROVE  KeyframeState(group).state = [ids |-> group.ids, bins |-> group.bins]
BY DEF KeyframeState, Refuse, Ok

HasRotation(C) == "rotation_index" \in C /\ "rotation" \in C

----------------------------------------------------------------------------
(* The reader does not refuse what the writer makes                        *)

\* What the groups of a delta the writer makes name and carry.
LEMMA UpdateGroupShape ==
    ASSUME NEW ref, NEW cur, NEW C, Carries(ref, C), Carries(cur, C),
           NEW u, u = UpdateGroup(ref, cur)
    PROVE  /\ u.ids \subseteq ref.ids \cap cur.ids
           /\ ~u.repeated
           /\ u.ids = {} => DOMAIN u.bins = {}
           /\ u.ids # {} => DOMAIN u.bins = C \ GOP_INVARIANT
           /\ \A a \in DOMAIN u.bins \cap ABSOLUTE_IN_UPDATE :
                  u.bins[a] = [g \in u.ids |-> cur.bins[a][g]]
<1>1. DOMAIN ref.bins = C /\ DOMAIN cur.bins = C
  BY DEF Carries
<1>2. u.ids \subseteq ref.ids \cap cur.ids /\ ~u.repeated
  BY DEF UpdateGroup, Streams, Group
<1>3. u.ids = {} => DOMAIN u.bins = {}
  BY DEF UpdateGroup, Streams, Group, NoColumns
<1>4. u.ids # {} => u.bins = [a \in C \ GOP_INVARIANT |->
          [g \in u.ids |-> IF a \in ABSOLUTE_IN_UPDATE
                           THEN cur.bins[a][g] ELSE cur.bins[a][g] - ref.bins[a][g]]]
  <2>1. (C \ GOP_INVARIANT) \cap C = C \ GOP_INVARIANT
    OBVIOUS
  <2> QED
    BY <1>1, <2>1 DEF UpdateGroup, Streams, Group
<1> QED
  BY <1>2, <1>3, <1>4

LEMMA BirthGroupShape ==
    ASSUME NEW ref, NEW cur, NEW C, Carries(cur, C), NEW b, b = BirthGroup(ref, cur)
    PROVE  /\ b.ids = cur.ids \ ref.ids
           /\ ~b.repeated
           /\ b.ids = {} => DOMAIN b.bins = {}
           /\ b.ids # {} => b.bins = [a \in C |-> [g \in b.ids |-> cur.bins[a][g]]]
<1>1. DOMAIN cur.bins = C
  BY DEF Carries
<1> QED
  BY <1>1 DEF BirthGroup, Streams, Group, NoColumns

\* The absolute bins of such a delta are bins of the sample.
LEMMA AbsoluteBinsAreCurrent ==
    ASSUME NEW ref, NEW cur, NEW C, Carries(ref, C), Carries(cur, C), ~OutOfRange(cur.bins)
    PROVE  ~AbsoluteOutOfRange(DeltaGroups(ref, cur))
<1>1. \A a \in C, g \in cur.ids : cur.bins[a][g] \in Bin
  BY DEF OutOfRange, Carries
<1>2. ASSUME NEW u, u = UpdateGroup(ref, cur)
      PROVE  ~OutOfRange([a \in DOMAIN u.bins \cap ABSOLUTE_IN_UPDATE |-> u.bins[a]])
  <2>1. \A a \in DOMAIN u.bins \cap ABSOLUTE_IN_UPDATE :
            a \in C /\ u.bins[a] = [g \in u.ids |-> cur.bins[a][g]]
    BY <1>2, UpdateGroupShape
  <2>2. u.ids \subseteq cur.ids
    BY <1>2, UpdateGroupShape
  <2>3. \A a \in DOMAIN u.bins \cap ABSOLUTE_IN_UPDATE :
            \A g \in DOMAIN u.bins[a] : u.bins[a][g] \in Bin
    BY <1>1, <2>1, <2>2
  <2> QED
    BY <2>3 DEF OutOfRange
<1>3. ASSUME NEW b, b = BirthGroup(ref, cur)
      PROVE  ~OutOfRange(b.bins)
  <2>1. b.ids \subseteq cur.ids
    BY <1>3 DEF BirthGroup, Streams, Group
  <2>2. CASE b.ids = {}
    BY <1>3, <2>2, BirthGroupShape DEF OutOfRange
  <2>3. CASE b.ids # {}
    <3>1. b.bins = [a \in C |-> [g \in b.ids |-> cur.bins[a][g]]]
      BY <1>3, <2>3, BirthGroupShape
    <3> QED
      BY <1>1, <2>1, <3>1 DEF OutOfRange
  <2> QED
    BY <2>2, <2>3
<1> QED
  BY <1>2, <1>3 DEF AbsoluteOutOfRange, DeltaGroups

\* The rows two populations share are in range if those of one of them are.
LEMMA PartInRange ==
    ASSUME NEW cur, NEW C, Carries(cur, C), ~OutOfRange(cur.bins),
           NEW ids, ids \subseteq cur.ids, NEW s, s = Part(cur, C, ids)
    PROVE  ~OutOfRange(s.bins)
<1>1. \A a \in C, g \in cur.ids : cur.bins[a][g] \in Bin
  BY DEF OutOfRange, Carries
<1> QED
  BY <1>1 DEF Part, OutOfRange

\* apply_delta accepts the delta of every sample whose own bins are in range
\* and whose rotation indexes are real: none of its twelve refusals can meet
\* what delta_groups makes, and what it delivers is the sample.
THEOREM WrittenDeltaAccepted ==
    ASSUME NEW ref, NEW cur, NEW C, Carries(ref, C), Carries(cur, C),
           ~ChangesInvariant(ref, cur),
           HasRotation(C),
           ~OutOfRange(cur.bins), ~BadRotation(cur)
    PROVE  ApplyDelta(ref, DeltaGroups(ref, cur)) = Ok(cur)
<1> DEFINE shared == ref.ids \cap cur.ids
<1>1. PICK d : d = DeltaGroups(ref, cur)
  OBVIOUS
<1>2. PICK kept : kept = Survivors(ref, d.death.ids)
  OBVIOUS
<1>3. PICK changed : changed = Updated(kept, d.update)
  OBVIOUS
<1>4. /\ d.update = UpdateGroup(ref, cur)
      /\ d.birth = BirthGroup(ref, cur)
      /\ d.death = DeathGroup(ref, cur)
  BY <1>1 DEF DeltaGroups
<1>5. kept = Part(ref, C, shared) /\ changed = Part(cur, C, shared)
  BY <1>2, <1>3, <1>4, SurvivorsAreShared, UpdateReachesShared
<1>6. /\ kept.ids = shared /\ DOMAIN kept.bins = C
      /\ changed.ids = shared /\ DOMAIN changed.bins = C
  BY <1>5 DEF Part
<1>7. /\ d.update.ids \subseteq shared
      /\ d.birth.ids = cur.ids \ ref.ids
      /\ ~d.update.repeated /\ ~d.birth.repeated
      /\ DOMAIN d.update.bins \in {{}, C \ GOP_INVARIANT}
      /\ d.birth.ids # {} => DOMAIN d.birth.bins = C
  <2>1. d.update.ids \subseteq shared /\ ~d.update.repeated
    BY <1>4, UpdateGroupShape
  <2>2. DOMAIN d.update.bins \in {{}, C \ GOP_INVARIANT}
    <3>1. PICK u : u = UpdateGroup(ref, cur)
      OBVIOUS
    <3>2. /\ u.ids = {} => DOMAIN u.bins = {}
          /\ u.ids # {} => DOMAIN u.bins = C \ GOP_INVARIANT
      BY <3>1, UpdateGroupShape
    <3> QED
      BY <1>4, <3>1, <3>2
  <2>3. d.birth.ids = cur.ids \ ref.ids /\ ~d.birth.repeated
    BY <1>4 DEF BirthGroup, Streams, Group
  <2>4. d.birth.ids # {} => DOMAIN d.birth.bins = C
    <3>1. PICK b : b = BirthGroup(ref, cur)
      OBVIOUS
    <3>2. b.ids # {} => b.bins = [a \in C |-> [g \in b.ids |-> cur.bins[a][g]]]
      BY <3>1, BirthGroupShape
    <3> QED
      BY <1>4, <3>1, <3>2
  <2> QED
    BY <2>1, <2>2, <2>3, <2>4
<1>8. d.death.ids = ref.ids \ cur.ids /\ ~d.death.repeated
  BY <1>4 DEF DeathGroup, Group
<1>9. ~IdInTwoGroups(d)
  BY <1>7, <1>8 DEF IdInTwoGroups
<1>10. ("rotation_index" \in DOMAIN d.update.bins) = ("rotation" \in DOMAIN d.update.bins)
  BY <1>7 DEF GOP_INVARIANT, HasRotation
<1>11. ~AbsoluteOutOfRange(d)
  BY <1>1, AbsoluteBinsAreCurrent
<1>12. ~TouchesGrid(d.update)
  BY <1>7 DEF TouchesGrid
<1>13. d.death.ids \subseteq ref.ids /\ d.update.ids \subseteq kept.ids
  BY <1>6, <1>7, <1>8
<1>14. UnknownInUpdate(kept, d.update) = {}
  BY <1>6, <1>7 DEF UnknownInUpdate
<1>15. ~OutOfRange(changed.bins)
  BY <1>5, PartInRange
<1>16. d.birth.ids \cap changed.ids = {}
  BY <1>6, <1>7
<1>17. d.birth.ids # {} => IncompleteBirth(changed, d.birth) = {}
  BY <1>6, <1>7 DEF IncompleteBirth
<1>18. Composed(ref, d) = cur
  BY <1>1, DeltaRoundTrip
<1>19. ~BadRotation(Composed(ref, d))
  BY <1>18
<1>20. ApplyDelta(ref, d) = Ok(Composed(ref, d))
  <2>1. ~IdInTwoGroups(d) /\ ~(d.update.repeated \/ d.birth.repeated \/ d.death.repeated)
    BY <1>7, <1>8, <1>9
  <2>2. ~(("rotation_index" \in DOMAIN d.update.bins) # ("rotation" \in DOMAIN d.update.bins))
    BY <1>10
  <2>3. ~(d.update.ids # {} /\ UnknownInUpdate(kept, d.update) # {})
    BY <1>14
  <2>4. ~(d.update.ids # {} /\ OutOfRange(changed.bins))
    BY <1>15
  <2>5. ~(d.birth.ids # {} /\ IncompleteBirth(changed, d.birth) # {})
    BY <1>17
  <2>6. ~(d.birth.ids \cap changed.ids # {})
    BY <1>16
  <2>7. ~~(d.death.ids \subseteq ref.ids) /\ ~~(d.update.ids \subseteq kept.ids)
    BY <1>13
  <2> QED
    BY <2>1, <2>2, <1>11, <1>12, <2>7, <2>3, <2>4, <2>6, <2>5, <1>19, <1>2, <1>3, Zenon
    DEF ApplyDelta
<1> QED
  BY <1>1, <1>18, <1>20

----------------------------------------------------------------------------
(* What does not change when the handle does not                           *)

LEMMA HandleFrame ==
    ASSUME options' = options, samples' = samples
    PROVE  \A i : /\ IsKeyframe(i)' = IsKeyframe(i)
                  /\ Source(i)' = Source(i)
                  /\ T1(i)' = T1(i)
                  /\ Reference(i)' = Reference(i)
<1>1. \A i : IsKeyframe(i)' = IsKeyframe(i)
  BY DEF IsKeyframe
<1>2. \A i : T1(i)' = T1(i)
  BY DEF T1
<1>3. \A i : Source(i)' = Source(i)
  BY <1>1 DEF Source, Restated
<1>4. \A i : Reference(i)' = Reference(i)
  BY <1>1 DEF Reference, KeyframeIndex, IsKeyframe
<1> QED
  BY <1>1, <1>2, <1>3, <1>4

\* Every sample has a keyframe at or before it, and a nearest one.
LEMMA NearestKeyframe ==
    ASSUME NEW i \in Nat \ {0}
    PROVE  /\ KeyframeIndex(i) \in 1 .. i /\ IsKeyframe(KeyframeIndex(i))
           /\ \A j \in KeyframeIndex(i) + 1 .. i : ~IsKeyframe(j)
<1> DEFINE S == {k \in 1 .. i : IsKeyframe(k)}
<1>1. 1 \in S
  BY DEF IsKeyframe
<1>2. \E k \in S : \A j \in k + 1 .. i : j \notin S
  <2> HIDE DEF S
  <2>1. S # {} /\ i \in Nat
    BY <1>1
  <2>2. S \subseteq 1 .. i
    BY DEF S
  <2> QED
    BY <2>1, <2>2, LastPosition
<1>3. \E k \in 1 .. i : IsKeyframe(k) /\ \A j \in k + 1 .. i : ~IsKeyframe(j)
  BY <1>2
<1> QED
  BY <1>3 DEF KeyframeIndex

\* Every sample that is not a keyframe has a reference behind it.
LEMMA ReferenceBehind ==
    ASSUME NEW i \in Nat \ {0}, ~IsKeyframe(i)
    PROVE  Reference(i) \in 1 .. i - 1
<1>1. KeyframeIndex(i) \in 1 .. i /\ IsKeyframe(KeyframeIndex(i))
  BY NearestKeyframe
<1>2. KeyframeIndex(i) # i /\ i # 1
  BY <1>1 DEF IsKeyframe
<1>3. CASE options.mode = DELTA_MODE_KEYFRAME
  BY <1>1, <1>2, <1>3 DEF Reference
<1>4. CASE options.mode # DELTA_MODE_KEYFRAME
  BY <1>2, <1>4 DEF Reference
<1> QED
  BY <1>3, <1>4

----------------------------------------------------------------------------
(* The inductive invariant                                                 *)

Typed ==
    /\ status \in {"collecting", "encoding", "refused", "delivered", "stored"}
    /\ options \in OPTIONS
    /\ IsSeq(samples) /\ Len(samples) \in 0 .. MAX_SAMPLES
    /\ \A i \in 1 .. Len(samples) : samples[i] \in Offered(i)
    /\ IsSeq(file) /\ IsSeq(summary)
    /\ depths \in Seq(0 .. DEPTH_MOD - 1)
    /\ keyframe_offset \in Nat /\ summary_start \in Nat
    /\ ending \in Ending

ReadersTyped ==
    /\ streamed \in {"waiting", "reading", "ok", "refused"}
    /\ at \in Nat \ {0}
    /\ indexed \in {"waiting", "walking", "reading", "ok", "refused"}
    /\ entry \in Nat \ {0} /\ link \in Nat

\* A handle that collects has written nothing, ...
Idle == Collecting => file = <<>> /\ depths = <<>> /\ summary = <<>>

\* ... and nothing is read before it is stored.
Unread == status # "stored" => decoded = NoChunks

IInv == Typed /\ ReadersTyped /\ Idle /\ Unread /\ FileHolds /\ WorkHolds /\ StreamedIsSource

LEMMA TypedImpliesTypeOK == Typed /\ ReadersTyped => TypeOK
BY DEF Typed, ReadersTyped, TypeOK, IsSeq

LEMMA InitIInv == Init => IInv
<1> SUFFICES ASSUME Init PROVE IInv
  OBVIOUS
<1>1. Typed
  <2>1. <<>> \in Seq(0 .. DEPTH_MOD - 1)
    OBVIOUS
  <2> QED
    BY <2>1, EmptyIsSeq, BoundAssumption DEF Init, Typed, Ending
<1>2. ReadersTyped
  BY DEF Init, ReadersTyped, ReadersWaiting
<1>3. Idle /\ Unread
  BY DEF Init, Idle, Unread, ReadersWaiting
<1>4. FileHolds /\ WorkHolds
  BY DEF Init, FileHolds, WorkHolds, Writing
<1>5. StreamedIsSource
  BY DEF Init, ReadersWaiting, NoChunks, StreamedIsSource
<1> QED
  BY <1>1, <1>2, <1>3, <1>4, <1>5 DEF IInv

\* A sample's population has every required column, in integers.
LEMMA SampleCarries ==
    ASSUME Typed, NEW i \in 1 .. Len(samples)
    PROVE  Carries(samples[i].state, REQUIRED)
<1>1. samples[i] \in Offered(i) /\ i \in 1 .. MAX_SAMPLES
  BY BoundAssumption DEF Typed
<1>2. IsSample(samples[i])
  BY <1>1, SampleAssumption
<1> QED
  BY <1>2 DEF IsSample, IsQuantized, Carries

\* So has the population it stands for in the file, once it is written.
LEMMA SourceCarries ==
    ASSUME Typed, NEW i \in 1 .. Len(samples),
           IsKeyframe(i) => Encodable(Source(i).bins)
    PROVE  Carries(Source(i), REQUIRED)
<1> DEFINE s == samples[i].state
           mu == [g \in s.ids |-> MuBin(samples[i].t0, s.bins["sigma_t"][g], s.bins["flags"][g])]
<1>1. Carries(s, REQUIRED)
  BY SampleCarries
<1>2. CASE ~IsKeyframe(i)
  BY <1>1, <1>2 DEF Source
<1>3. CASE IsKeyframe(i)
  <2>1. Source(i) = [s EXCEPT !.bins["mu_t"] = mu]
    BY <1>3 DEF Source, Restated
  <2>2. Source(i) = [ids |-> s.ids, bins |-> [s.bins EXCEPT !["mu_t"] = mu]]
    BY <1>1, <2>1 DEF Carries
  <2>3. "mu_t" \in REQUIRED
    BY DEF REQUIRED
  <2>4. \A g \in s.ids : mu[g] \in Int
    <3>1. ~OutOfRange(Source(i).bins)
      BY <1>3 DEF Encodable
    <3>2. Source(i).bins["mu_t"] = mu /\ "mu_t" \in DOMAIN Source(i).bins
      BY <1>1, <2>2, <2>3 DEF Carries
    <3>3. \A g \in DOMAIN mu : mu[g] \in Bin
      <4> HIDE DEF mu
      <4> QED
        BY <3>1, <3>2 DEF OutOfRange
    <3> QED
      BY <3>3, BinAssumption DEF Bin
  <2>5. mu \in [s.ids -> Int]
    BY <2>4
  <2> HIDE DEF mu
  <2> QED
    BY <1>1, <2>2, <2>3, <2>5 DEF Carries
<1> QED
  BY <1>2, <1>3

----------------------------------------------------------------------------
(* Steps of the handle and of encode()                                     *)

\* The records written stay what they state while the handle is not touched.
LEMMA RecordFrame ==
    ASSUME options' = options, samples' = samples,
           NEW i, file'[i] = file[i], RecordHolds(i)
    PROVE  RecordHolds(i)'
<1>1. /\ IsKeyframe(i)' = IsKeyframe(i)
      /\ Source(i)' = Source(i)
      /\ Reference(i)' = Reference(i)
      /\ Source(Reference(i))' = Source(Reference(i))
  BY HandleFrame
<1> QED
  BY <1>1, Zenon DEF RecordHolds

\* The file as a whole.
LEMMA FileFrame ==
    ASSUME options' = options, samples' = samples, file' = file,
           FileHolds, Writing
    PROVE  FileHolds'
<1>1. ASSUME NEW i \in DOMAIN file'
      PROVE  IF i <= Len(samples')
             THEN /\ RecordHolds(i)'
                  /\ file'[i].t0 = samples'[i].t0 /\ file'[i].t1 = T1(i)'
             ELSE file'[i].op \notin StateRecord
  BY <1>1, RecordFrame, HandleFrame DEF FileHolds
<1> QED
  BY <1>1 DEF FileHolds

\* What an encode() that fails leaves behind.
LEMMA RefusedIInv == IInv /\ status # "stored" /\ Refused => IInv'
<1> SUFFICES ASSUME IInv, status # "stored", Refused PROVE IInv'
  OBVIOUS
<1> USE DEF Refused, handleVars, readerVars, streamedVars, indexedVars
<1>1. Typed'
  <2>1. <<>> \in Seq(0 .. DEPTH_MOD - 1)
    OBVIOUS
  <2> QED
    BY <2>1, EmptyIsSeq DEF IInv, Typed
<1>2. ReadersTyped'
  BY DEF IInv, ReadersTyped
<1>3. Idle'
  BY DEF Idle
<1>4. Unread' /\ StreamedIsSource'
  BY DEF IInv, Unread, StreamedIsSource, NoChunks
<1>5. FileHolds' /\ WorkHolds'
  BY DEF FileHolds, WorkHolds, Writing
<1> QED
  BY <1>1, <1>2, <1>3, <1>4, <1>5 DEF IInv

\* Options and samples may change only while nothing is written or read.
LEMMA HandleIInv == IInv /\ (SetOptions \/ AddSample) => IInv'
<1> SUFFICES ASSUME IInv, SetOptions \/ AddSample PROVE IInv'
  OBVIOUS
<1> USE DEF handleVars, encodeVars, fileVars, readerVars, streamedVars, indexedVars
<1>1. Collecting /\ Collecting' /\ file = <<>> /\ depths = <<>> /\ summary = <<>> /\ decoded = NoChunks
  BY DEF IInv, Idle, Unread, Collecting, SetOptions, AddSample
<1>2. UNCHANGED <<encodeVars, fileVars, readerVars>>
  BY DEF SetOptions, AddSample
<1>3. Typed'
  <2>1. CASE SetOptions
    BY <2>1 DEF IInv, Typed, SetOptions
  <2>2. CASE AddSample
    <3>1. PICK x \in Offered(Len(samples) + 1) : samples' = Append(samples, x)
      BY <2>2 DEF AddSample
    <3>2. IsSeq(samples) /\ Len(samples) \in Nat /\ Len(samples) < MAX_SAMPLES
      BY <2>2 DEF IInv, Typed, AddSample, IsSeq
    <3>3. /\ IsSeq(samples')
          /\ Len(samples') = Len(samples) + 1
          /\ \A i \in 1 .. Len(samples) : samples'[i] = samples[i]
          /\ samples'[Len(samples) + 1] = x
      BY <3>1, <3>2, AppendIsSeq
    <3>4. \A i \in 1 .. Len(samples') : samples'[i] \in Offered(i)
      BY <3>1, <3>2, <3>3 DEF IInv, Typed
    <3>5. Len(samples') \in 0 .. MAX_SAMPLES
      BY <3>2, <3>3, BoundAssumption
    <3> QED
      BY <2>2, <3>3, <3>4, <3>5 DEF IInv, Typed, AddSample
  <2> QED
    BY <2>1, <2>2
<1>4. ReadersTyped' /\ Idle' /\ Unread'
  BY <1>1, <1>2 DEF IInv, ReadersTyped, Idle, Unread
<1>5. FileHolds' /\ WorkHolds'
  BY <1>1 DEF FileHolds, WorkHolds, Writing, Collecting
<1>6. StreamedIsSource'
  BY <1>1, <1>2 DEF StreamedIsSource, NoChunks
<1> QED
  BY <1>3, <1>4, <1>5, <1>6 DEF IInv

LEMMA EncodeIInv == IInv /\ Encode => IInv'
<1> SUFFICES ASSUME IInv, Encode PROVE IInv'
  OBVIOUS
<1> USE DEF handleVars, readerVars, streamedVars, indexedVars
<1>1. Collecting /\ file = <<>> /\ depths = <<>> /\ summary = <<>> /\ decoded = NoChunks
  BY DEF IInv, Idle, Unread, Collecting, Encode
<1>2. CASE ~Tiling
  BY <1>1, <1>2, RefusedIInv DEF Encode, Collecting
<1>3. CASE Tiling
  <2>1. /\ status' = "encoding"
        /\ quantized' = [i \in DOMAIN samples |-> samples[i].state]
        /\ UNCHANGED <<handleVars, depths, keyframe_offset, summary,
                       file, summary_start, ending, readerVars>>
    BY <1>3 DEF Encode
  <2>2. Typed' /\ ReadersTyped' /\ Idle' /\ Unread'
    BY <1>1, <2>1 DEF IInv, Typed, ReadersTyped, Idle, Unread, Collecting
  <2>3. FileHolds'
    <3>1. DOMAIN file' = {}
      BY <1>1, <2>1
    <3> QED
      BY <3>1 DEF FileHolds
  <2>4. WorkHolds'
    <3>1. Len(file') = 0 /\ Len(depths') = 0 /\ Len(summary') = 0 /\ DOMAIN summary' = {}
      BY <1>1, <2>1
    <3>2. DOMAIN samples' = 1 .. Len(samples') /\ Len(samples') \in Nat
      BY <2>1 DEF IInv, Typed, IsSeq
    <3>3. \A i \in DOMAIN samples' : ~(i <= Len(file'))
      BY <3>1, <3>2
    <3> QED
      BY <2>1, <3>1, <3>2, <3>3 DEF WorkHolds
  <2>5. StreamedIsSource'
    BY <1>1, <2>1 DEF StreamedIsSource, NoChunks
  <2> QED
    BY <2>2, <2>3, <2>4, <2>5 DEF IInv
<1> QED
  BY <1>2, <1>3

\* The population encode() holds for the sample it is at.
LEMMA AtNext ==
    ASSUME IInv, Encoding
    PROVE  /\ Next1 \in 1 .. Len(samples) /\ Next1 = Len(file) + 1 /\ Len(file) \in Nat
           /\ Len(depths) = Len(file) /\ Len(summary) = Len(file)
           /\ DOMAIN quantized = 1 .. Len(samples)
           /\ quantized[Next1] = samples[Next1].state
           /\ \A i \in 1 .. Len(file) : quantized[i] = Source(i)
<1>1. IsSeq(file) /\ IsSeq(samples) /\ Len(file) \in Nat /\ DOMAIN samples = 1 .. Len(samples)
  BY DEF IInv, Typed, IsSeq
<1>2. Next1 \in 1 .. Len(samples) /\ Next1 = Len(file) + 1
  BY <1>1 DEF Encoding, Next1, IsSeq
<1>3. /\ Len(depths) = Len(file) /\ Len(summary) = Len(file)
      /\ quantized = [i \in DOMAIN samples |->
                          IF i <= Len(file) THEN Source(i) ELSE samples[i].state]
  BY DEF IInv, WorkHolds, Encoding
<1> HIDE DEF Next1
<1>4. quantized[Next1] = samples[Next1].state
  BY <1>1, <1>2, <1>3
<1>5. \A i \in 1 .. Len(file) : quantized[i] = Source(i)
  BY <1>1, <1>2, <1>3 DEF IsSeq
<1> QED
  BY <1>1, <1>2, <1>3, <1>4, <1>5

\* What a step of encode() must have written to keep the invariant: a record
\* that states the next sample, an index entry and a depth.
LEMMA EmittedIInv ==
    ASSUME IInv, Encoding, NEW n, n = Next1,
           NEW r, file' = Append(file, r), RecordHolds(n)',
           r.t0 = samples[n].t0, r.t1 = T1(n),
           NEW e, summary' = Append(summary, e), e.op = "CHUNK_INDEX",
           NEW d \in 0 .. DEPTH_MOD - 1, depths' = Append(depths, d),
           keyframe_offset' \in Nat,
           quantized' = [quantized EXCEPT ![n] = Source(n)],
           UNCHANGED <<status, handleVars, header, summary_start, ending, readerVars>>
    PROVE  IInv'
<1> USE DEF handleVars, readerVars, streamedVars, indexedVars
<1>1. /\ n \in 1 .. Len(samples) /\ n = Len(file) + 1 /\ Len(file) \in Nat
      /\ Len(depths) = Len(file) /\ Len(summary) = Len(file)
  BY AtNext
<1>2. IsSeq(file) /\ IsSeq(summary) /\ IsSeq(samples) /\ depths \in Seq(0 .. DEPTH_MOD - 1)
  BY DEF IInv, Typed
<1>3. /\ IsSeq(file') /\ Len(file') = n
      /\ \A i \in 1 .. Len(file) : file'[i] = file[i]
      /\ file'[n] = r
  BY <1>1, <1>2, AppendIsSeq
<1>4. /\ IsSeq(summary') /\ Len(summary') = n
      /\ \A i \in 1 .. Len(file) : summary'[i] = summary[i]
      /\ summary'[n] = e
  BY <1>1, <1>2, AppendIsSeq
<1>5. depths' \in Seq(0 .. DEPTH_MOD - 1) /\ Len(depths') = n
  BY <1>1, <1>2
<1>6. Typed' /\ ReadersTyped' /\ Unread'
  BY <1>3, <1>4, <1>5 DEF IInv, Typed, ReadersTyped, Unread
<1>7. Idle' /\ StreamedIsSource'
  <2>1. decoded' = NoChunks /\ ~Collecting'
    BY DEF IInv, Unread, Encoding, Collecting
  <2> QED
    BY <2>1 DEF Idle, StreamedIsSource, NoChunks
<1>8. FileHolds'
  <2>1. ASSUME NEW i \in 1 .. Len(file)
        PROVE  RecordHolds(i)' /\ file'[i].t0 = samples'[i].t0 /\ file'[i].t1 = T1(i)'
    <3>1. i \in DOMAIN file /\ i <= Len(samples)
      BY <1>1, <1>2 DEF IsSeq
    <3>2. RecordHolds(i) /\ file[i].t0 = samples[i].t0 /\ file[i].t1 = T1(i)
      BY <3>1 DEF IInv, FileHolds, Writing, Encoding
    <3>3. file'[i] = file[i]
      BY <1>3
    <3> QED
      BY <3>2, <3>3, RecordFrame, HandleFrame
  <2>2. \A i \in DOMAIN file' : i \in 1 .. Len(file) \/ i = n
    BY <1>1, <1>3 DEF IsSeq
  <2>3. RecordHolds(n)' /\ file'[n].t0 = samples'[n].t0 /\ file'[n].t1 = T1(n)'
    BY <1>3, HandleFrame
  <2>4. ASSUME NEW i \in DOMAIN file'
        PROVE  i <= Len(samples') /\ RecordHolds(i)' /\ file'[i].t0 = samples'[i].t0 /\ file'[i].t1 = T1(i)'
    <3>1. CASE i \in 1 .. Len(file)
      BY <1>1, <2>1, <3>1 DEF IsSeq
    <3>2. CASE i = n
      BY <1>1, <2>3, <3>2
    <3> QED
      BY <2>2, <3>1, <3>2
  <2> QED
    BY <2>4 DEF FileHolds
<1>9. WorkHolds'
  <2>1. \A k \in DOMAIN summary' : summary'[k].op = "CHUNK_INDEX"
    <3>1. \A k \in DOMAIN summary : summary[k].op = "CHUNK_INDEX"
      BY DEF IInv, WorkHolds, Encoding
    <3>2. DOMAIN summary = 1 .. Len(file) /\ DOMAIN summary' = 1 .. n
      BY <1>1, <1>2, <1>4 DEF IsSeq
    <3> QED
      BY <1>1, <1>4, <3>1, <3>2
  <2>2. quantized' = [i \in DOMAIN samples' |->
                          IF i <= Len(file') THEN Source(i)' ELSE samples'[i].state]
    <3>1. quantized = [i \in DOMAIN samples |->
                          IF i <= Len(file) THEN Source(i) ELSE samples[i].state]
      BY DEF IInv, WorkHolds, Encoding
    <3>2. DOMAIN samples = 1 .. Len(samples) /\ Len(samples) \in Nat
      BY <1>2 DEF IsSeq
    <3>3. \A i \in DOMAIN samples : Source(i)' = Source(i)
      BY HandleFrame
    <3>4. \A i \in DOMAIN samples : i <= Len(file') <=> i <= Len(file) \/ i = n
      BY <1>1, <1>3, <3>2
    <3> QED
      BY <1>1, <3>1, <3>2, <3>3, <3>4
  <2>3. Len(file') <= Len(samples') /\ Len(depths') = Len(file') /\ Len(summary') = Len(file')
    BY <1>1, <1>3, <1>4, <1>5
  <2> QED
    BY <2>1, <2>2, <2>3, Zenon DEF WorkHolds
<1> QED
  BY <1>6, <1>7, <1>8, <1>9 DEF IInv

LEMMA EmitKeyframeIInv == IInv /\ EmitKeyframe => IInv'
<1> SUFFICES ASSUME IInv, EmitKeyframe PROVE IInv'
  OBVIOUS
<1>0. PICK n : n = Next1
  OBVIOUS
<1>1. Encoding /\ IsKeyframe(n)
  BY <1>0 DEF EmitKeyframe
<1>2. n \in 1 .. Len(samples) /\ quantized[n] = samples[n].state
  BY <1>0, <1>1, AtNext
<1>3. KeyframeAt(n) = Source(n)
  BY <1>1, <1>2 DEF KeyframeAt, Source
<1>4. PICK r : r = ChunkRecord(samples[n].t0, T1(n),
                               Group(Source(n).ids, Source(n).bins))
  OBVIOUS
<1>5. PICK e : e = Entry(n, KEYFRAME_KIND, DELTA_MODE_KEYFRAME, 0, n, 0,
                         Cardinality(Source(n).ids))
  OBVIOUS
<1>6. /\ Encodable(Source(n).bins)
      /\ file' = Append(file, r)
      /\ quantized' = [quantized EXCEPT ![n] = Source(n)]
      /\ depths' = Append(depths, 0)
      /\ keyframe_offset' = n
      /\ summary' = Append(summary, e)
      /\ UNCHANGED <<status, handleVars, header, summary_start, ending, readerVars>>
  BY <1>0, <1>3, <1>4, <1>5 DEF EmitKeyframe
<1>7. e.op = "CHUNK_INDEX"
  BY <1>5 DEF Entry
<1>8. /\ r.op = "CHUNK" /\ r.t0 = samples[n].t0 /\ r.t1 = T1(n)
      /\ r.group = Group(Source(n).ids, Source(n).bins)
  BY <1>4 DEF ChunkRecord
<1>9. file'[n] = r
  BY <1>0, <1>1, <1>6, AtNext, AppendIsSeq DEF IInv, Typed
<1>10. RecordHolds(n)'
  <2>1. IsKeyframe(n)' = IsKeyframe(n) /\ Source(n)' = Source(n)
    BY <1>6, HandleFrame DEF handleVars
  <2>2. IsKeyframe(n)' /\ Encodable(Source(n)'.bins)
    BY <1>1, <1>6, <2>1
  <2>3. file'[n].op = "CHUNK" /\ file'[n].group = Group(Source(n)'.ids, Source(n)'.bins)
    BY <1>8, <1>9, <2>1
  <2> QED
    BY <2>2, <2>3, Zenon DEF RecordHolds, Encodable
<1>11. 0 \in 0 .. DEPTH_MOD - 1
  BY BoundAssumption
<1>12. keyframe_offset' \in Nat
  BY <1>2, <1>6
<1> QED
  BY <1>0, <1>1, <1>6, <1>7, <1>8, <1>10, <1>11, <1>12, EmittedIInv, Zenon

LEMMA EmitDeltaIInv == IInv /\ EmitDelta => IInv'
<1> SUFFICES ASSUME IInv, EmitDelta PROVE IInv'
  OBVIOUS
<1>0. PICK n : n = Next1
  OBVIOUS
<1>1. Encoding /\ ~IsKeyframe(n)
  BY <1>0 DEF EmitDelta
<1>2. /\ n \in 1 .. Len(samples) /\ n = Len(file) + 1 /\ Len(file) \in Nat
      /\ Len(depths) = Len(file)
      /\ DOMAIN quantized = 1 .. Len(samples)
      /\ quantized[n] = Source(n)
      /\ \A i \in 1 .. Len(file) : quantized[i] = Source(i)
  BY <1>0, <1>1, AtNext DEF Source
<1>3. PICK p : p = Reference(n)
  OBVIOUS
<1>4. p \in 1 .. n - 1
  BY <1>1, <1>2, <1>3, ReferenceBehind
<1>5. quantized[p] = Source(p)
  BY <1>2, <1>4
<1>6. PICK d : d = DeltaGroups(Source(p), Source(n))
  OBVIOUS
<1>7. DeltaAt(n) = d
  BY <1>2, <1>3, <1>5, <1>6 DEF DeltaAt
<1>8. PICK r : r = DeltaRecord(samples[n].t0, T1(n), options.mode, p, keyframe_offset, Depth(n), d)
  OBVIOUS
<1>9. PICK e : e = Entry(n, DELTA_KIND, options.mode, p, keyframe_offset, Depth(n), Operations(d))
  OBVIOUS
<1>10. /\ ~ChangesInvariant(Source(p), Source(n))
       /\ file' = Append(file, r)
       /\ depths' = Append(depths, Depth(n))
       /\ summary' = Append(summary, e)
       /\ UNCHANGED <<status, handleVars, quantized, keyframe_offset,
                      header, summary_start, ending, readerVars>>
  BY <1>0, <1>2, <1>3, <1>5, <1>7, <1>8, <1>9 DEF EmitDelta
<1>11. e.op = "CHUNK_INDEX"
  BY <1>9 DEF Entry
<1>12. /\ r.op = "DELTA_CHUNK" /\ r.t0 = samples[n].t0 /\ r.t1 = T1(n)
       /\ r.reference = p /\ r.groups = d
  BY <1>8 DEF DeltaRecord
<1>13. file'[n] = r
  BY <1>2, <1>10, AppendIsSeq DEF IInv, Typed
<1>14. RecordHolds(n)'
  <2>1. /\ IsKeyframe(n)' = IsKeyframe(n) /\ Source(n)' = Source(n)
        /\ Reference(n)' = Reference(n)
    BY <1>10, HandleFrame DEF handleVars
  <2>2. Source(Reference(n))' = Source(p)
    <3>1. PICK q : q = Reference(n)'
      BY <2>1
    <3>2. Source(q)' = Source(q)
      BY <1>10, HandleFrame DEF handleVars
    <3> QED
      BY <1>3, <2>1, <3>1, <3>2
  <2>3. ~IsKeyframe(n)' /\ ~ChangesInvariant(Source(Reference(n))', Source(n)')
    BY <1>1, <1>10, <2>1, <2>2
  <2>4. /\ file'[n].op = "DELTA_CHUNK" /\ file'[n].reference = Reference(n)'
        /\ file'[n].groups = DeltaGroups(Source(Reference(n))', Source(n)')
    BY <1>3, <1>6, <1>12, <1>13, <2>1, <2>2
  <2> QED
    BY <2>3, <2>4, Zenon DEF RecordHolds
<1>15. Depth(n) \in 0 .. DEPTH_MOD - 1
  <2>1. n - 1 \in 1 .. Len(depths) /\ depths \in Seq(0 .. DEPTH_MOD - 1)
    BY <1>2, <1>4 DEF IInv, Typed
  <2>2. depths[n - 1] \in 0 .. DEPTH_MOD - 1
    <3>1. PICK k : k = n - 1
      OBVIOUS
    <3>2. PICK S : S = 0 .. DEPTH_MOD - 1
      OBVIOUS
    <3>3. k \in 1 .. Len(depths) /\ depths \in Seq(S)
      BY <2>1, <3>1, <3>2
    <3>4. depths[k] \in S
      BY <3>3
    <3> QED
      BY <3>1, <3>2, <3>4
  <2> QED
    BY <2>2, BoundAssumption DEF Depth
<1>16. quantized' = [quantized EXCEPT ![n] = Source(n)]
  <2>1. quantized = [i \in DOMAIN samples |->
                        IF i <= Len(file) THEN Source(i) ELSE samples[i].state]
    BY <1>1 DEF IInv, WorkHolds, Encoding
  <2> QED
    BY <1>2, <1>10, <2>1
<1>17. keyframe_offset' \in Nat /\ UNCHANGED <<status, handleVars, header, summary_start, ending, readerVars>>
  BY <1>10 DEF IInv, Typed
<1> QED
  BY <1>0, <1>1, <1>10, <1>11, <1>12, <1>14, <1>15, <1>16, <1>17, EmittedIInv, Zenon

LEMMA EmitRefusedIInv == IInv /\ EmitRefused => IInv'
BY RefusedIInv DEF EmitRefused, Encoding

\* What may follow the state records is not one.
LEMMA SummaryIsNoState == "CHUNK_INDEX" \notin StateRecord /\ "STATISTICS" \notin StateRecord
BY DEF StateRecord

LEMMA WriteSummaryIInv == IInv /\ WriteSummary => IInv'
<1> SUFFICES ASSUME IInv, WriteSummary PROVE IInv'
  OBVIOUS
<1> USE DEF handleVars, encodeVars, readerVars, streamedVars, indexedVars
<1>1. /\ status = "encoding" /\ status' = "delivered" /\ ending' = "complete"
      /\ summary_start' = Len(file) + 1
      /\ UNCHANGED <<handleVars, encodeVars, header, readerVars>>
  BY DEF WriteSummary
<1>2. PICK last : last = <<[op |-> "STATISTICS"]>>
  OBVIOUS
<1>3. file' = (file \o summary) \o last /\ Len(file) = Len(samples)
  BY <1>2 DEF WriteSummary
<1>4. IsSeq(last) /\ Len(last) = 1 /\ last[1].op = "STATISTICS"
  BY <1>2 DEF IsSeq
<1>5. /\ IsSeq(file) /\ IsSeq(summary) /\ Len(file) \in Nat /\ Len(summary) \in Nat
      /\ DOMAIN file = 1 .. Len(file) /\ DOMAIN summary = 1 .. Len(summary)
  BY DEF IInv, Typed, IsSeq
<1>6. PICK body : body = file \o summary
  OBVIOUS
<1>7. /\ IsSeq(body) /\ Len(body) = Len(file) + Len(summary)
      /\ \A i \in 1 .. Len(file) + Len(summary) :
            body[i] = IF i <= Len(file) THEN file[i] ELSE summary[i - Len(file)]
  BY <1>5, <1>6, ConcatIsSeq
<1>8. /\ IsSeq(file') /\ Len(file') = Len(body) + 1
      /\ \A i \in 1 .. Len(body) + 1 :
            file'[i] = IF i <= Len(body) THEN body[i] ELSE last[i - Len(body)]
  <2>1. /\ IsSeq(body \o last) /\ Len(body \o last) = Len(body) + Len(last)
        /\ \A i \in 1 .. Len(body) + Len(last) :
              (body \o last)[i] = IF i <= Len(body) THEN body[i] ELSE last[i - Len(body)]
    BY <1>4, <1>7, ConcatIsSeq, Zenon
  <2>2. file' = body \o last
    BY <1>3, <1>6
  <2> QED
    BY <1>4, <2>1, <2>2, Zenon
<1>9. \A i \in 1 .. Len(file) : file'[i] = file[i]
  BY <1>5, <1>7, <1>8
<1>10. ASSUME NEW i \in 1 .. Len(file'), ~(i <= Len(file))
       PROVE  file'[i].op \notin StateRecord
  <2>1. CASE i <= Len(body)
    <3>1. file'[i] = summary[i - Len(file)] /\ i - Len(file) \in DOMAIN summary
      BY <1>5, <1>7, <1>8, <1>10, <2>1
    <3>2. \A k \in DOMAIN summary : summary[k].op = "CHUNK_INDEX"
      BY <1>1 DEF IInv, WorkHolds
    <3>3. file'[i].op = "CHUNK_INDEX"
      BY <3>1, <3>2
    <3> QED
      BY <3>3, SummaryIsNoState
  <2>2. CASE ~(i <= Len(body))
    <3>1. file'[i] = last[1]
      <4>1. Len(body) \in Nat /\ i = Len(body) + 1
        BY <1>5, <1>7, <1>8, <2>2
      <4> QED
        BY <1>8, <2>2, <4>1
    <3>2. file'[i].op = "STATISTICS"
      BY <1>4, <3>1
    <3> QED
      BY <3>2, SummaryIsNoState
  <2> QED
    BY <2>1, <2>2
<1>11. Typed' /\ ReadersTyped' /\ Unread' /\ Idle'
  BY <1>1, <1>5, <1>8 DEF IInv, Typed, ReadersTyped, Unread, Idle, Collecting, Ending
<1>12. StreamedIsSource'
  <2>1. decoded' = NoChunks
    BY <1>1 DEF IInv, Unread
  <2> QED
    BY <2>1 DEF StreamedIsSource, NoChunks
<1>13. FileHolds'
  <2>1. ASSUME NEW i \in DOMAIN file', i <= Len(samples')
        PROVE  RecordHolds(i)' /\ file'[i].t0 = samples'[i].t0 /\ file'[i].t1 = T1(i)'
    <3>1. i \in DOMAIN file /\ i <= Len(samples) /\ file'[i] = file[i]
      BY <1>1, <1>3, <1>5, <1>8, <1>9, <2>1 DEF IsSeq
    <3>2. RecordHolds(i) /\ file[i].t0 = samples[i].t0 /\ file[i].t1 = T1(i)
      BY <1>1, <3>1 DEF IInv, FileHolds, Writing
    <3> QED
      BY <1>1, <3>1, <3>2, RecordFrame, HandleFrame
  <2>2. ASSUME NEW i \in DOMAIN file', ~(i <= Len(samples'))
        PROVE  file'[i].op \notin StateRecord
    BY <1>1, <1>3, <1>8, <1>10, <2>2 DEF IsSeq
  <2> QED
    BY <2>1, <2>2 DEF FileHolds
<1>14. WorkHolds'
  BY <1>1 DEF WorkHolds
<1> QED
  BY <1>11, <1>12, <1>13, <1>14 DEF IInv

LEMMA StoreIInv == IInv /\ Store => IInv'
<1> SUFFICES ASSUME IInv, Store PROVE IInv'
  OBVIOUS
<1> USE DEF handleVars, encodeVars, readerVars, streamedVars, indexedVars
<1>1. /\ status = "delivered" /\ status' = "stored"
      /\ UNCHANGED <<handleVars, encodeVars, header, summary_start, readerVars>>
  BY DEF Store
<1>2. IsSeq(file)
  BY DEF IInv, Typed
<1>3. /\ IsSeq(file') /\ ending' \in Ending /\ Len(file') \in Nat
      /\ Len(file') <= Len(file)
      /\ \A i \in 1 .. Len(file') : file'[i] = file[i]
  <2>1. CASE UNCHANGED <<file, ending>>
    BY <1>2, <2>1 DEF IInv, Typed, IsSeq
  <2>2. ASSUME NEW n \in CUTS, NEW how \in {"boundary", "partial"},
               n <= Len(file), file' = SubSeq(file, 1, n), ending' = how
        PROVE  <1>3
    <3>1. n \in 0 .. Len(file)
      BY <1>2, <2>2, BoundAssumption DEF IsSeq
    <3>2. ending' \in Ending
      BY <2>2 DEF Ending
    <3>3. /\ IsSeq(file') /\ Len(file') = n
          /\ \A i \in 1 .. n : file'[i] = file[i]
      BY <1>2, <2>2, <3>1, PrefixIsSeq
    <3> QED
      BY <3>1, <3>2, <3>3
  <2> QED
    BY <2>1, <2>2 DEF Store
<1>4. Typed' /\ ReadersTyped' /\ Unread' /\ Idle'
  BY <1>1, <1>3 DEF IInv, Typed, ReadersTyped, Unread, Idle, Collecting
<1>5. StreamedIsSource'
  <2>1. decoded' = NoChunks
    BY <1>1 DEF IInv, Unread
  <2> QED
    BY <2>1 DEF StreamedIsSource, NoChunks
<1>6. FileHolds'
  <2>1. ASSUME NEW i \in DOMAIN file'
        PROVE  /\ i \in DOMAIN file /\ file'[i] = file[i]
               /\ IF i <= Len(samples)
                  THEN RecordHolds(i) /\ file[i].t0 = samples[i].t0 /\ file[i].t1 = T1(i)
                  ELSE file[i].op \notin StateRecord
    <3>1. i \in DOMAIN file /\ file'[i] = file[i]
      BY <1>2, <1>3 DEF IsSeq
    <3> QED
      BY <1>1, <3>1 DEF IInv, FileHolds, Writing
  <2>2. ASSUME NEW i \in DOMAIN file', i <= Len(samples')
        PROVE  RecordHolds(i)' /\ file'[i].t0 = samples'[i].t0 /\ file'[i].t1 = T1(i)'
    BY <1>1, <2>1, <2>2, RecordFrame, HandleFrame
  <2>3. ASSUME NEW i \in DOMAIN file', ~(i <= Len(samples'))
        PROVE  file'[i].op \notin StateRecord
    BY <1>1, <2>1, <2>3
  <2> QED
    BY <2>2, <2>3 DEF FileHolds
<1>7. WorkHolds'
  BY <1>1 DEF WorkHolds
<1> QED
  BY <1>4, <1>5, <1>6, <1>7 DEF IInv

----------------------------------------------------------------------------
(* Steps of the readers                                                    *)

\* A reader touches neither the bytes nor the writer.
LEMMA ReaderIInv ==
    ASSUME IInv, status = "stored",
           UNCHANGED <<status, handleVars, encodeVars, fileVars>>,
           ReadersTyped', StreamedIsSource'
    PROVE  IInv'
<1> USE DEF handleVars, encodeVars, fileVars
<1>1. Typed' /\ Idle' /\ Unread'
  BY DEF IInv, Typed, Idle, Unread, Collecting
<1>2. FileHolds' /\ WorkHolds'
  BY FileFrame DEF IInv, Writing, WorkHolds
<1> QED
  BY <1>1, <1>2 DEF IInv

\* A state record of the stored bytes is that of the sample at its offset.
LEMMA StoredRecord ==
    ASSUME IInv, status = "stored", at <= Len(file), file[at].op \in StateRecord
    PROVE  /\ at \in 1 .. Len(samples) /\ at \in 1 .. Len(file)
           /\ RecordHolds(at)
           /\ file[at].t0 = samples[at].t0 /\ file[at].t1 = T1(at)
<1>1. at \in 1 .. Len(file) /\ at \in DOMAIN file
  BY DEF IInv, Typed, ReadersTyped, IsSeq
<1>2. IF at <= Len(samples)
      THEN RecordHolds(at) /\ file[at].t0 = samples[at].t0 /\ file[at].t1 = T1(at)
      ELSE file[at].op \notin StateRecord
  BY <1>1 DEF IInv, FileHolds, Writing
<1>3. at <= Len(samples) /\ Len(samples) \in Nat
  BY <1>2 DEF IInv, Typed, IsSeq
<1> QED
  BY <1>1, <1>2, <1>3

\* One more state that is a sample's.
LEMMA OneMoreDelivered ==
    ASSUME StreamedIsSource, UNCHANGED <<options, samples>>,
           NEW n \in DOMAIN samples, NEW info, Delivers(n, info),
           decoded' = Extended(decoded, n, info)
    PROVE  StreamedIsSource'
<1>1. ASSUME NEW o \in DOMAIN decoded'
      PROVE  o \in DOMAIN samples /\ Delivers(o, decoded'[o])
  BY <1>1 DEF StreamedIsSource, Extended
<1>2. ASSUME NEW o \in DOMAIN decoded'
      PROVE  o \in DOMAIN samples' /\ Delivers(o, decoded[o])'
  BY <1>1, HandleFrame DEF Delivers
<1> QED
  BY <1>2 DEF StreamedIsSource

\* A state record that survived holds its sample, whoever reads it.
LEMMA SurvivingRecord ==
    ASSUME IInv, Writing, NEW n \in 1 .. Len(samples), n \in DOMAIN file
    PROVE  /\ RecordHolds(n) /\ file[n].t0 = samples[n].t0 /\ file[n].t1 = T1(n)
           /\ Carries(Source(n), REQUIRED)
<1>1. n <= Len(samples)
  BY DEF IInv, Typed, IsSeq
<1>2. RecordHolds(n) /\ file[n].t0 = samples[n].t0 /\ file[n].t1 = T1(n)
  BY <1>1 DEF IInv, FileHolds
<1>3. IsKeyframe(n) => Encodable(Source(n).bins)
  BY <1>2 DEF RecordHolds
<1> QED
  BY <1>2, <1>3, SourceCarries DEF IInv

\* A keyframe record is read as the population it states.
LEMMA KeyframeDecodes ==
    ASSUME IInv, Writing, NEW n \in 1 .. Len(samples), n \in DOMAIN file, IsKeyframe(n),
           KeyframeState(file[n].group).code = "ok"
    PROVE  KeyframeState(file[n].group).state = Source(n)
<1>1. file[n].group = Group(Source(n).ids, Source(n).bins) /\ Carries(Source(n), REQUIRED)
  BY SurvivingRecord DEF RecordHolds
<1>2. KeyframeState(file[n].group).state = [ids |-> Source(n).ids, bins |-> Source(n).bins]
  BY <1>1, KeyframeStateIsGroup DEF Group
<1> QED
  BY <1>1, <1>2 DEF Carries

\* A delta record composes, onto the population its reference stands for, the
\* population of its own sample: the telescoping argument, one step of it.
LEMMA DeltaDecodes ==
    ASSUME IInv, Writing, NEW n \in 1 .. Len(samples), n \in DOMAIN file, ~IsKeyframe(n),
           NEW p, p = Reference(n), ApplyDelta(Source(p), file[n].groups).code = "ok"
    PROVE  ApplyDelta(Source(p), file[n].groups).state = Source(n)
<1>1. /\ file[n].groups = DeltaGroups(Source(p), Source(n))
      /\ ~ChangesInvariant(Source(p), Source(n))
      /\ Carries(Source(n), REQUIRED)
  BY SurvivingRecord DEF RecordHolds
<1>2. p \in 1 .. n - 1
  BY ReferenceBehind
<1>3. p \in 1 .. Len(samples) /\ p \in DOMAIN file
  BY <1>2 DEF IInv, Typed, IsSeq
<1>4. Carries(Source(p), REQUIRED)
  BY <1>3, SurvivingRecord
<1> QED
  BY <1>1, <1>4, AppliedIsComposed, DeltaRoundTrip

LEMMA ReadChunkDelivers ==
    ASSUME IInv, status = "stored", UNCHANGED <<options, samples>>, ReadChunk
    PROVE  StreamedIsSource'
<1>1. PICK n : n = at
  OBVIOUS
<1>2. n <= Len(file) /\ file[n].op = "CHUNK" /\ StreamedAccepts(file[n])
  BY <1>1 DEF ReadChunk, ReadingRecord
<1>3. file[n].op \in StateRecord
  BY <1>2 DEF StateRecord
<1>4. /\ n \in 1 .. Len(samples) /\ n \in DOMAIN file /\ RecordHolds(n)
      /\ file[n].t0 = samples[n].t0 /\ file[n].t1 = T1(n)
  BY <1>1, <1>2, <1>3, StoredRecord DEF IInv, Typed, IsSeq
<1>5. IsKeyframe(n)
  BY <1>2, <1>4 DEF RecordHolds
<1>6. KeyframeState(file[n].group).code = "ok"
  BY <1>2 DEF StreamedAccepts, KeyframeAccepted
<1>7. KeyframeState(file[n].group).state = Source(n)
  BY <1>4, <1>5, <1>6, KeyframeDecodes DEF Writing
<1>8. PICK info : info = ChunkInfo(file[n], Cardinality(Source(n).ids), Source(n))
  OBVIOUS
<1>9. decoded' = Extended(decoded, n, info)
  BY <1>1, <1>7, <1>8 DEF ReadChunk
<1>10. Delivers(n, info)
  BY <1>4, <1>8 DEF Delivers, ChunkInfo
<1>11. n \in DOMAIN samples
  BY <1>4 DEF IInv, Typed, IsSeq
<1> QED
  BY <1>9, <1>10, <1>11, OneMoreDelivered DEF IInv

LEMMA ReadDeltaDelivers ==
    ASSUME IInv, status = "stored", UNCHANGED <<options, samples>>, ReadDeltaChunk
    PROVE  StreamedIsSource'
<1>1. PICK n : n = at
  OBVIOUS
<1>2. PICK p : p = file[n].reference
  OBVIOUS
<1>3. n <= Len(file) /\ file[n].op = "DELTA_CHUNK" /\ StreamedAccepts(file[n])
  BY <1>1 DEF ReadDeltaChunk, ReadingRecord
<1>4. file[n].op \in StateRecord
  BY <1>3 DEF StateRecord
<1>5. /\ n \in 1 .. Len(samples) /\ n \in DOMAIN file /\ RecordHolds(n)
      /\ file[n].t0 = samples[n].t0 /\ file[n].t1 = T1(n)
  BY <1>1, <1>3, <1>4, StoredRecord DEF IInv, Typed, IsSeq
<1>6. ~IsKeyframe(n) /\ p = Reference(n)
  BY <1>2, <1>3, <1>5 DEF RecordHolds
<1>7. p \in DOMAIN decoded /\ ApplyDelta(decoded[p].state, file[n].groups).code = "ok"
  BY <1>1, <1>2, <1>3 DEF StreamedAccepts, ReferenceDecoded, DeltaAccepted
<1>8. decoded[p].state = Source(p)
  BY <1>7 DEF IInv, StreamedIsSource, Delivers
<1>9. ApplyDelta(Source(p), file[n].groups).state = Source(n)
  BY <1>5, <1>6, <1>7, <1>8, DeltaDecodes DEF Writing
<1>10. PICK info : info = ChunkInfo(file[n], Operations(file[n].groups), Source(n))
  OBVIOUS
<1>11. decoded' = Extended(decoded, n, info)
  BY <1>1, <1>2, <1>8, <1>9, <1>10 DEF ReadDeltaChunk
<1>12. Delivers(n, info)
  BY <1>5, <1>10 DEF Delivers, ChunkInfo
<1>13. n \in DOMAIN samples
  BY <1>5 DEF IInv, Typed, IsSeq
<1> QED
  BY <1>11, <1>12, <1>13, OneMoreDelivered DEF IInv

\* No step of the indexed reader touches what the streamed one has decoded.
LEMMA IndexedFrame ==
    ASSUME ReadersTyped, DecodeIndexed
    PROVE  UNCHANGED <<fileVars, streamedVars>> /\ ReadersTyped'
<1> USE DEF ReadersTyped, streamedVars, RefuseIndexed
<1>1. CASE OpenIndexed
  BY <1>1 DEF OpenIndexed
<1>2. CASE StartChain
  BY <1>2 DEF StartChain
<1>3. CASE WalkBack
  BY <1>3 DEF WalkBack, Walking
<1>4. CASE CheckDepth
  BY <1>4 DEF CheckDepth, Walking
<1>5. CASE ReadLink
  <2>1. UNCHANGED <<fileVars, streamedVars, entry>> /\ indexed' \in {indexed, "refused"}
    BY <1>5 DEF ReadLink
  <2>2. link' \in {link, link + 1}
    BY <1>5 DEF ReadLink
  <2> QED
    BY <2>1, <2>2
<1>6. CASE AnswerEntry
  BY <1>6 DEF AnswerEntry
<1>7. CASE FinishIndexed
  BY <1>7 DEF FinishIndexed
<1> QED
  BY <1>1, <1>2, <1>3, <1>4, <1>5, <1>6, <1>7 DEF DecodeIndexed

\* Every step of the streamed reader leaves the bytes alone, and either keeps
\* what it has decoded, drops all of it, or reads one state record.
LEMMA StreamedFrame ==
    ASSUME ReadersTyped, DecodeStreamed
    PROVE  /\ UNCHANGED <<fileVars, indexedVars>> /\ ReadersTyped'
           /\ decoded' \in {decoded, NoChunks} \/ ReadChunk \/ ReadDeltaChunk
<1> USE DEF ReadersTyped, indexedVars, ReadingRecord
<1>1. CASE OpenStreamed
  BY <1>1 DEF OpenStreamed
<1>2. CASE ReadChunk
  BY <1>2 DEF ReadChunk
<1>3. CASE ReadDeltaChunk
  BY <1>3 DEF ReadDeltaChunk
<1>4. CASE ReadChunkIndex
  BY <1>4 DEF ReadChunkIndex
<1>5. CASE ReadOther
  BY <1>5 DEF ReadOther
<1>6. CASE RefuseRecord
  BY <1>6 DEF RefuseRecord
<1>7. CASE EndOfRecords
  BY <1>7 DEF EndOfRecords
<1> QED
  BY <1>1, <1>2, <1>3, <1>4, <1>5, <1>6, <1>7 DEF DecodeStreamed

LEMMA ReadIInv == IInv /\ Read => IInv'
<1> SUFFICES ASSUME IInv, Read PROVE IInv'
  OBVIOUS
<1>1. /\ status = "stored" /\ UNCHANGED <<status, handleVars, encodeVars>>
      /\ UNCHANGED <<options, samples>>
      /\ ReadersTyped /\ StreamedIsSource
  BY DEF Read, IInv, handleVars
<1>2. CASE DecodeIndexed
  <2>1. UNCHANGED <<fileVars, streamedVars>> /\ ReadersTyped'
    BY <1>1, <1>2, IndexedFrame
  <2>2. StreamedIsSource'
    <3>1. decoded' = decoded /\ samples' = samples
      BY <1>1, <2>1 DEF streamedVars
    <3>2. ASSUME NEW o \in DOMAIN decoded'
          PROVE  o \in DOMAIN samples' /\ Delivers(o, decoded[o])'
      BY <1>1, <3>1, <3>2, HandleFrame DEF StreamedIsSource, Delivers
    <3> QED
      BY <3>2 DEF StreamedIsSource
  <2> QED
    BY <1>1, <2>1, <2>2, ReaderIInv
<1>3. CASE DecodeStreamed
  <2>1. /\ UNCHANGED <<fileVars, indexedVars>> /\ ReadersTyped'
        /\ decoded' \in {decoded, NoChunks} \/ ReadChunk \/ ReadDeltaChunk
    BY <1>1, <1>3, StreamedFrame
  <2>2. CASE decoded' = decoded
    <3>1. ASSUME NEW o \in DOMAIN decoded'
          PROVE  o \in DOMAIN samples' /\ Delivers(o, decoded[o])'
      BY <1>1, <2>2, <3>1, HandleFrame DEF StreamedIsSource, Delivers
    <3>2. StreamedIsSource'
      BY <3>1 DEF StreamedIsSource
    <3> QED
      BY <1>1, <2>1, <3>2, ReaderIInv
  <2>3. CASE decoded' = NoChunks
    <3>1. StreamedIsSource'
      BY <2>3 DEF StreamedIsSource, NoChunks
    <3> QED
      BY <1>1, <2>1, <3>1, ReaderIInv
  <2>4. CASE ReadChunk
    BY <1>1, <2>1, <2>4, ReadChunkDelivers, ReaderIInv
  <2>5. CASE ReadDeltaChunk
    BY <1>1, <2>1, <2>5, ReadDeltaDelivers, ReaderIInv
  <2> QED
    BY <2>1, <2>2, <2>3, <2>4, <2>5
<1> QED
  BY <1>2, <1>3 DEF Read

\* Nothing happens.
LEMMA StutterIInv == IInv /\ UNCHANGED vars => IInv'
<1> SUFFICES ASSUME IInv, UNCHANGED vars PROVE IInv'
  OBVIOUS
<1> USE DEF vars, handleVars, encodeVars, fileVars, readerVars, streamedVars, indexedVars
<1>1. Typed' /\ ReadersTyped' /\ Idle' /\ Unread'
  BY DEF IInv, Typed, ReadersTyped, Idle, Unread, Collecting
<1>2. FileHolds'
  <2>1. CASE Writing
    BY <2>1, FileFrame DEF IInv
  <2>2. CASE ~Writing
    BY <2>2 DEF FileHolds, Writing
  <2> QED
    BY <2>1, <2>2
<1>3. WorkHolds'
  <2>1. \A i : Source(i)' = Source(i)
    BY HandleFrame
  <2> QED
    BY <2>1 DEF IInv, WorkHolds
<1>4. StreamedIsSource'
  <2>1. ASSUME NEW o \in DOMAIN decoded'
        PROVE  o \in DOMAIN samples' /\ Delivers(o, decoded[o])'
    BY <2>1, HandleFrame DEF IInv, StreamedIsSource, Delivers
  <2> QED
    BY <2>1 DEF StreamedIsSource
<1> QED
  BY <1>1, <1>2, <1>3, <1>4 DEF IInv

----------------------------------------------------------------------------
(* The theorems                                                            *)

\* Every step of the handle, of encode(), of the transport and of either reader
\* preserves the inductive invariant.
THEOREM NextIInv == IInv /\ [Next]_vars => IInv'
<1> SUFFICES ASSUME IInv, [Next]_vars PROVE IInv'
  OBVIOUS
<1>1. CASE SetOptions \/ AddSample
  BY <1>1, HandleIInv
<1>2. CASE Encode
  BY <1>2, EncodeIInv
<1>3. CASE EncodeStep
  BY <1>3, EmitKeyframeIInv, EmitDeltaIInv, EmitRefusedIInv, WriteSummaryIInv DEF EncodeStep
<1>4. CASE Store
  BY <1>4, StoreIInv
<1>5. CASE Read
  BY <1>5, ReadIInv
<1>6. CASE Done \/ UNCHANGED vars
  BY <1>6, StutterIInv DEF Done
<1> QED
  BY <1>1, <1>2, <1>3, <1>4, <1>5, <1>6 DEF Next

\* The variables keep their types, whatever the samples, options and widths.
THEOREM TypeCorrect == Spec => []TypeOK
<1>1. IInv => TypeOK
  BY TypedImpliesTypeOK DEF IInv
<1> QED
  BY InitIInv, NextIInv, <1>1, PTL DEF Spec

\* The bytes encode() returns, and whatever prefix of them survives, are the
\* records of the samples, each against the population its reference states.
THEOREM FileCorrect == Spec => [](FileHolds /\ WorkHolds)
<1>1. IInv => FileHolds /\ WorkHolds
  BY DEF IInv
<1> QED
  BY InitIInv, NextIInv, <1>1, PTL DEF Spec

\* decode_streamed delivers the samples: for every mix of keyframes and deltas,
\* every reference and every number of samples, what it composes is bin for bin
\* what was written.
THEOREM StreamedCorrect == Spec => []StreamedIsSource
<1>1. IInv => StreamedIsSource
  BY DEF IInv
<1> QED
  BY InitIInv, NextIInv, <1>1, PTL DEF Spec

----------------------------------------------------------------------------
(* What encode() leaves behind the records                                 *)

\* Entry e of the index names the record of sample k and says of it what the
\* record says.
Names(e, k) ==
    /\ e.op = "CHUNK_INDEX" /\ e.extended
    /\ e.offset = k
    /\ e.t0 = samples[k].t0 /\ e.t1 = T1(k)
    /\ e.live = Cardinality(samples[k].state.ids)
    /\ e.depth = depths[k]
    /\ IF IsKeyframe(k)
       THEN /\ e.kind = KEYFRAME_KIND
            /\ e.count = Cardinality(Source(k).ids)
       ELSE /\ e.kind = DELTA_KIND
            /\ e.reference = Reference(k)
            /\ e.count = Operations(DeltaGroups(Source(Reference(k)), Source(k)))

\* What encode() checked before it wrote, and what it wrote first.
FrontHolds ==
    Writing => /\ Tiling
               /\ header.windows = WINDOWS
               /\ header.duration_sec = options.duration_sec

\* One entry and one depth per record written, in their order.
SummaryHolds ==
    Writing => /\ Len(summary) = Len(depths)
               /\ status # "encoding" => Len(summary) = Len(samples)
               /\ \A k \in 1 .. Len(summary) : Names(summary[k], k)
               /\ \A k \in 1 .. Len(depths) : depths[k] = IF IsKeyframe(k) THEN 0 ELSE Depth(k)

\* Every state record written is one a reader can open.
Readable == Writing => \A i \in 1 .. Len(file) : i <= Len(samples) => file[i].readable

\* The bytes returned, or what is left of them: after the state records come
\* their entries and then the Statistics record.
TailHolds ==
    Published =>
        /\ \A i \in 1 .. Len(file) :
              \/ i <= Len(samples)
              \/ i <= 2 * Len(samples) /\ file[i] = summary[i - Len(samples)]
              \/ i = 2 * Len(samples) + 1 /\ file[i].op = "STATISTICS"
        /\ ending = "complete" => /\ summary_start = Len(samples) + 1
                                  /\ Len(file) = 2 * Len(samples) + 1

WInv == FrontHolds /\ SummaryHolds /\ Readable /\ TailHolds

LEMMA NotWritingWInv == ~Writing => WInv
BY DEF WInv, FrontHolds, SummaryHolds, Readable, TailHolds, Writing, Published

LEMMA NamesFrame ==
    ASSUME options' = options, samples' = samples,
           NEW e, NEW k, depths'[k] = depths[k], Names(e, k)
    PROVE  Names(e, k)'
<1>1. /\ IsKeyframe(k)' = IsKeyframe(k) /\ Source(k)' = Source(k)
      /\ T1(k)' = T1(k) /\ Reference(k)' = Reference(k)
  BY HandleFrame
<1>2. Source(Reference(k))' = Source(Reference(k))
  <2>1. PICK q : q = Reference(k)'
    BY <1>1
  <2>2. Source(q)' = Source(q)
    BY HandleFrame
  <2> QED
    BY <1>1, <2>1, <2>2
<1>3. DeltaGroups(Source(Reference(k)), Source(k))' = DeltaGroups(Source(Reference(k)), Source(k))
  BY <1>1, <1>2
<1> QED
  BY <1>1, <1>3, Zenon DEF Names, Operations

LEMMA DepthFrame ==
    ASSUME options' = options, NEW k, depths'[k - 1] = depths[k - 1]
    PROVE  Depth(k)' = Depth(k)
BY DEF Depth

\* Steps that leave the handle and what encode() has accumulated alone.
LEMMA EntriesFrame ==
    ASSUME SummaryHolds, Writing, UNCHANGED <<handleVars, encodeVars>>
    PROVE  /\ \A k \in 1 .. Len(summary') : Names(summary[k], k)'
           /\ \A k \in 1 .. Len(depths') : depths'[k] = IF IsKeyframe(k)' THEN 0 ELSE Depth(k)'
<1> USE DEF handleVars, encodeVars
<1>1. ASSUME NEW k \in 1 .. Len(summary')
      PROVE  Names(summary[k], k)'
  <2>1. PICK e : e = summary[k] /\ e = summary'[k]
    OBVIOUS
  <2>2. Names(e, k)
    BY <1>1, <2>1 DEF SummaryHolds
  <2>3. Names(e, k)'
    BY <2>2, NamesFrame
  <2> QED
    BY <2>1, <2>3 DEF Names
<1>2. ASSUME NEW k \in 1 .. Len(depths')
      PROVE  depths'[k] = IF IsKeyframe(k)' THEN 0 ELSE Depth(k)'
  BY <1>2, HandleFrame, DepthFrame DEF SummaryHolds
<1> QED
  BY <1>1, <1>2

LEMMA WrittenFrame ==
    ASSUME WInv, UNCHANGED <<handleVars, encodeVars, header>>,
           Writing, Writing',
           status' # "encoding" => status # "encoding" \/ Len(summary) = Len(samples)
    PROVE  FrontHolds' /\ SummaryHolds'
<1> USE DEF handleVars, encodeVars
<1>1. FrontHolds'
  <2>1. Tiling /\ header.windows = WINDOWS /\ header.duration_sec = options.duration_sec
    BY DEF WInv, FrontHolds
  <2>2. Tiling'
    BY <2>1, HandleFrame DEF Tiling
  <2> QED
    BY <2>1, <2>2 DEF FrontHolds
<1>2. SummaryHolds'
  BY EntriesFrame DEF WInv, SummaryHolds
<1> QED
  BY <1>1, <1>2

\* The first step of encode() accepts the samples before it writes anything.
LEMMA EncodeWInv == IInv /\ Encode => WInv'
<1> SUFFICES ASSUME IInv, Encode PROVE WInv'
  OBVIOUS
<1> USE DEF handleVars
<1>1. CASE Refused
  <2>1. ~Writing'
    BY <1>1 DEF Refused, Writing
  <2> QED
    BY <2>1 DEF WInv, FrontHolds, SummaryHolds, Readable, TailHolds, Writing, Published
<1>2. CASE ~Refused
  <2>1. /\ Tiling /\ status' = "encoding" /\ UNCHANGED <<options, samples, depths, summary, file>>
        /\ header'.windows = WINDOWS /\ header'.duration_sec = options.duration_sec
    BY <1>2 DEF Encode
  <2>2. file = <<>> /\ depths = <<>> /\ summary = <<>>
    BY DEF Encode, IInv, Idle
  <2>3. Tiling'
    BY <2>1, HandleFrame DEF Tiling
  <2>4. ~Published'
    BY <2>1 DEF Published
  <2>5. Len(file') = 0 /\ Len(depths') = 0 /\ Len(summary') = 0
    BY <2>1, <2>2
  <2> QED
    BY <2>1, <2>3, <2>4, <2>5 DEF WInv, FrontHolds, SummaryHolds, Readable, TailHolds
<1> QED
  BY <1>1, <1>2

\* What a step of encode() must have written: an entry that names the record.
LEMMA EmittedWInv ==
    ASSUME IInv, WInv, Encoding, NEW n, n = Next1,
           NEW r, file' = Append(file, r), r.readable,
           NEW e, summary' = Append(summary, e),
           NEW d \in 0 .. DEPTH_MOD - 1, depths' = Append(depths, d),
           d = IF IsKeyframe(n) THEN 0 ELSE Depth(n),
           depths'[n] = d => Names(e, n)',
           UNCHANGED <<status, handleVars, header>>
    PROVE  WInv'
<1> USE DEF handleVars
<1>1. /\ n \in 1 .. Len(samples) /\ n = Len(file) + 1 /\ Len(file) \in Nat
      /\ Len(depths) = Len(file) /\ Len(summary) = Len(file)
  BY AtNext
<1>2. IsSeq(file) /\ IsSeq(summary) /\ IsSeq(depths)
  BY SeqIsSeq DEF IInv, Typed
<1>3. /\ Len(file') = n /\ file'[n] = r
      /\ \A i \in 1 .. Len(file) : file'[i] = file[i]
  BY <1>1, <1>2, AppendIsSeq
<1>4. /\ Len(summary') = n /\ summary'[n] = e
      /\ \A i \in 1 .. Len(file) : summary'[i] = summary[i]
  BY <1>1, <1>2, AppendIsSeq
<1>5. /\ Len(depths') = n /\ depths'[n] = d
      /\ \A i \in 1 .. Len(file) : depths'[i] = depths[i]
  BY <1>1, <1>2, AppendIsSeq
<1>6. status = "encoding" /\ status' = "encoding" /\ Writing /\ ~Published'
  BY DEF Encoding, Writing, Published
<1>7. FrontHolds'
  <2>1. Tiling /\ header.windows = WINDOWS /\ header.duration_sec = options.duration_sec
    BY <1>6 DEF WInv, FrontHolds
  <2>2. Tiling'
    BY <2>1, HandleFrame DEF Tiling
  <2> QED
    BY <2>1, <2>2 DEF FrontHolds
<1>8. Readable'
  <2>1. \A i \in 1 .. Len(file) : file[i].readable
    BY <1>1, <1>6 DEF WInv, Readable
  <2> QED
    BY <1>1, <1>3, <2>1 DEF Readable
<1>9. ASSUME NEW k \in 1 .. Len(summary')
      PROVE  Names(summary[k], k)'
  <2>1. CASE k \in 1 .. Len(file)
    <3>1. PICK x : x = summary[k] /\ x = summary'[k]
      BY <1>4, <2>1
    <3>2. Names(x, k)
      BY <1>1, <1>6, <2>1, <3>1 DEF WInv, SummaryHolds
    <3>3. depths'[k] = depths[k]
      BY <1>5, <2>1
    <3>4. Names(x, k)'
      BY <3>2, <3>3, NamesFrame
    <3> QED
      BY <3>1, <3>4 DEF Names
  <2>2. CASE k = n
    BY <1>4, <1>5, <2>2 DEF Names
  <2> QED
    BY <1>1, <1>4, <2>1, <2>2
<1>10. ASSUME NEW k \in 1 .. Len(depths')
       PROVE  depths'[k] = IF IsKeyframe(k)' THEN 0 ELSE Depth(k)'
  <2>1. IsKeyframe(k)' = IsKeyframe(k)
    BY HandleFrame
  <2>2. IsKeyframe(k) \/ k - 1 \in 1 .. Len(file)
    BY <1>1, <1>5 DEF IsKeyframe
  <2>3. IsKeyframe(k) \/ Depth(k)' = Depth(k)
    BY <1>5, <2>2, DepthFrame
  <2>4. depths'[k] = IF IsKeyframe(k) THEN 0 ELSE Depth(k)
    <3>1. CASE k \in 1 .. Len(file)
      BY <1>1, <1>5, <1>6, <3>1 DEF WInv, SummaryHolds
    <3>2. CASE k = n
      BY <1>5, <3>2
    <3> QED
      BY <1>1, <1>5, <3>1, <3>2
  <2> QED
    BY <2>1, <2>3, <2>4
<1>11. SummaryHolds'
  BY <1>4, <1>5, <1>6, <1>9, <1>10 DEF SummaryHolds
<1>12. TailHolds'
  BY <1>6 DEF TailHolds
<1> QED
  BY <1>7, <1>8, <1>11, <1>12 DEF WInv

LEMMA EmitKeyframeWInv == IInv /\ WInv /\ EmitKeyframe => WInv'
<1> SUFFICES ASSUME IInv, WInv, EmitKeyframe PROVE WInv'
  OBVIOUS
<1>0. PICK n : n = Next1
  OBVIOUS
<1>1. Encoding /\ IsKeyframe(n)
  BY <1>0 DEF EmitKeyframe
<1>2. n \in 1 .. Len(samples) /\ quantized[n] = samples[n].state
  BY <1>0, <1>1, AtNext
<1>3. KeyframeAt(n) = Source(n)
  BY <1>1, <1>2 DEF KeyframeAt, Source
<1>4. PICK r : r = ChunkRecord(samples[n].t0, T1(n),
                               Group(Source(n).ids, Source(n).bins))
  OBVIOUS
<1>5. PICK e : e = Entry(n, KEYFRAME_KIND, DELTA_MODE_KEYFRAME, 0, n, 0,
                         Cardinality(Source(n).ids))
  OBVIOUS
<1>6. /\ file' = Append(file, r)
      /\ depths' = Append(depths, 0)
      /\ summary' = Append(summary, e)
      /\ UNCHANGED <<status, handleVars, header>>
  BY <1>0, <1>3, <1>4, <1>5 DEF EmitKeyframe
<1>7. r.readable
  BY <1>4 DEF ChunkRecord
<1>8. ASSUME depths'[n] = 0 PROVE Names(e, n)'
  <2>1. /\ IsKeyframe(n)' = IsKeyframe(n) /\ Source(n)' = Source(n) /\ T1(n)' = T1(n)
        /\ samples' = samples
    BY <1>6, HandleFrame DEF handleVars
  <2> QED
    BY <1>1, <1>5, <1>8, <2>1 DEF Names, Entry
<1>9. 0 \in 0 .. DEPTH_MOD - 1
  BY BoundAssumption
<1> QED
  BY <1>0, <1>1, <1>6, <1>7, <1>8, <1>9, EmittedWInv, Zenon

\* The delta encode() writes for sample n is against the population its
\* reference stands for in the file.
LEMMA DeltaWritten ==
    ASSUME IInv, Encoding, NEW n, n = Next1, ~IsKeyframe(n)
    PROVE  /\ Reference(n) \in 1 .. n - 1
           /\ quantized[Reference(n)] = Source(Reference(n))
           /\ DeltaAt(n) = DeltaGroups(Source(Reference(n)), Source(n))
           /\ Depth(n) \in 0 .. DEPTH_MOD - 1
<1>1. /\ n \in 1 .. Len(samples) /\ n = Len(file) + 1 /\ Len(file) \in Nat
      /\ Len(depths) = Len(file)
      /\ quantized[n] = Source(n)
      /\ \A i \in 1 .. Len(file) : quantized[i] = Source(i)
  BY AtNext DEF Source
<1>2. PICK p : p = Reference(n)
  OBVIOUS
<1>3. p \in 1 .. n - 1
  BY <1>1, <1>2, ReferenceBehind
<1>4. quantized[p] = Source(p)
  BY <1>1, <1>3
<1>5. DeltaAt(n) = DeltaGroups(Source(p), Source(n))
  BY <1>1, <1>2, <1>4 DEF DeltaAt
<1>6. depths[n - 1] \in 0 .. DEPTH_MOD - 1
  <2>1. PICK k : k = n - 1
    OBVIOUS
  <2>2. PICK S : S = 0 .. DEPTH_MOD - 1
    OBVIOUS
  <2>3. k \in 1 .. Len(depths) /\ depths \in Seq(S)
    BY <1>1, <1>3, <2>1, <2>2 DEF IInv, Typed
  <2>4. depths[k] \in S
    BY <2>3
  <2> QED
    BY <2>1, <2>2, <2>4
<1>7. Depth(n) \in 0 .. DEPTH_MOD - 1
  BY <1>6, BoundAssumption DEF Depth
<1> QED
  BY <1>2, <1>3, <1>4, <1>5, <1>7

LEMMA EmitDeltaWInv == IInv /\ WInv /\ EmitDelta => WInv'
<1> SUFFICES ASSUME IInv, WInv, EmitDelta PROVE WInv'
  OBVIOUS
<1>0. PICK n : n = Next1
  OBVIOUS
<1>1. Encoding /\ ~IsKeyframe(n)
  BY <1>0 DEF EmitDelta
<1>2. PICK p : p = Reference(n)
  OBVIOUS
<1>3. /\ DeltaAt(n) = DeltaGroups(Source(p), Source(n))
      /\ Depth(n) \in 0 .. DEPTH_MOD - 1
  BY <1>0, <1>1, <1>2, DeltaWritten
<1>4. PICK d : d = DeltaGroups(Source(p), Source(n))
  OBVIOUS
<1>5. PICK r : r = DeltaRecord(samples[n].t0, T1(n), options.mode, p, keyframe_offset, Depth(n), d)
  OBVIOUS
<1>6. PICK e : e = Entry(n, DELTA_KIND, options.mode, p, keyframe_offset, Depth(n), Operations(d))
  OBVIOUS
<1>7. PICK x : x = Depth(n)
  OBVIOUS
<1>8. /\ file' = Append(file, r)
      /\ depths' = Append(depths, x)
      /\ summary' = Append(summary, e)
      /\ UNCHANGED <<status, handleVars, header>>
  BY <1>0, <1>2, <1>3, <1>4, <1>5, <1>6, <1>7 DEF EmitDelta
<1>9. r.readable
  BY <1>5 DEF DeltaRecord
<1>10. ASSUME depths'[n] = x PROVE Names(e, n)'
  <2>1. /\ IsKeyframe(n)' = IsKeyframe(n) /\ Source(n)' = Source(n) /\ T1(n)' = T1(n)
        /\ Reference(n)' = Reference(n) /\ samples' = samples
    BY <1>8, HandleFrame DEF handleVars
  <2>2. Source(Reference(n))' = Source(p)
    <3>1. Source(p)' = Source(p)
      BY <1>8, HandleFrame DEF handleVars
    <3> QED
      BY <1>2, <2>1, <3>1
  <2>3. DeltaGroups(Source(Reference(n)), Source(n))' = d
    BY <1>4, <2>1, <2>2
  <2>4. Operations(DeltaGroups(Source(Reference(n)), Source(n)))' = Operations(d)
    BY <2>3 DEF Operations
  <2>5. /\ e.op = "CHUNK_INDEX" /\ e.extended /\ e.offset = n
        /\ e.t0 = samples[n].t0 /\ e.t1 = T1(n) /\ e.live = Cardinality(samples[n].state.ids)
        /\ e.depth = x /\ e.kind = DELTA_KIND /\ e.reference = p /\ e.count = Operations(d)
    BY <1>6, <1>7 DEF Entry
  <2> QED
    BY <1>1, <1>2, <1>10, <2>1, <2>4, <2>5, Zenon DEF Names
<1>11. x \in 0 .. DEPTH_MOD - 1 /\ x = IF IsKeyframe(n) THEN 0 ELSE Depth(n)
  BY <1>1, <1>3, <1>7
<1> QED
  BY <1>0, <1>1, <1>8, <1>9, <1>10, <1>11, EmittedWInv, Zenon

LEMMA WriteSummaryWInv == IInv /\ WInv /\ WriteSummary => WInv'
<1> SUFFICES ASSUME IInv, WInv, WriteSummary PROVE WInv'
  OBVIOUS
<1> USE DEF handleVars, encodeVars
<1>1. /\ status = "encoding" /\ status' = "delivered" /\ ending' = "complete"
      /\ summary_start' = Len(file) + 1
      /\ UNCHANGED <<handleVars, encodeVars, header>>
  BY DEF WriteSummary
<1>2. PICK last : last = <<[op |-> "STATISTICS"]>>
  OBVIOUS
<1>3. file' = (file \o summary) \o last /\ Len(file) = Len(samples) /\ Len(summary) = Len(file)
  BY <1>1, <1>2 DEF WriteSummary, IInv, WorkHolds
<1>4. IsSeq(last) /\ Len(last) = 1 /\ last[1].op = "STATISTICS"
  BY <1>2 DEF IsSeq
<1>5. IsSeq(file) /\ IsSeq(summary) /\ Len(file) \in Nat
  BY DEF IInv, Typed, IsSeq
<1>6. PICK n \in Nat : n = Len(samples) /\ Len(file) = n /\ Len(summary) = n
  BY <1>3, <1>5
<1>7. PICK body : body = file \o summary
  OBVIOUS
<1>8. /\ IsSeq(body) /\ Len(body) = n + n
      /\ \A i \in 1 .. n + n : body[i] = IF i <= n THEN file[i] ELSE summary[i - n]
  <2>1. /\ IsSeq(body) /\ Len(body) = Len(file) + Len(summary)
        /\ \A i \in 1 .. Len(file) + Len(summary) :
              body[i] = IF i <= Len(file) THEN file[i] ELSE summary[i - Len(file)]
    BY <1>5, <1>7, ConcatIsSeq
  <2> QED
    BY <1>6, <2>1
<1>9. /\ Len(file') = (n + n) + 1
      /\ \A i \in 1 .. (n + n) + 1 : file'[i] = IF i <= n + n THEN body[i] ELSE last[i - (n + n)]
  <2>1. /\ Len(body \o last) = Len(body) + Len(last)
        /\ \A i \in 1 .. Len(body) + Len(last) :
              (body \o last)[i] = IF i <= Len(body) THEN body[i] ELSE last[i - Len(body)]
    BY <1>4, <1>8, ConcatIsSeq, Zenon
  <2>2. file' = body \o last
    BY <1>3, <1>7
  <2> QED
    BY <1>4, <1>8, <2>1, <2>2, Zenon
<1>10. Readable'
  <2>1. ASSUME NEW i \in 1 .. Len(file'), i <= n
        PROVE  file'[i].readable
    <3>1. i \in 1 .. n /\ file'[i] = file[i]
      BY <1>8, <1>9, <2>1
    <3> QED
      BY <1>1, <1>6, <3>1 DEF WInv, Readable, Writing
  <2> QED
    BY <1>1, <1>6, <2>1 DEF Readable
<1>11. TailHolds'
  <2>1. ASSUME NEW i \in 1 .. Len(file')
        PROVE  \/ i <= n
               \/ i <= 2 * n /\ file'[i] = summary[i - n]
               \/ i = 2 * n + 1 /\ file'[i].op = "STATISTICS"
    <3>1. CASE i <= n + n
      BY <1>8, <1>9, <3>1
    <3>2. CASE ~(i <= n + n)
      <4>1. i = (n + n) + 1 /\ i - (n + n) = 1
        BY <1>9, <3>2
      <4> QED
        BY <1>4, <1>9, <3>2, <4>1
    <3> QED
      BY <3>1, <3>2
  <2>2. summary_start' = n + 1 /\ Len(file') = 2 * n + 1
    BY <1>1, <1>6, <1>9
  <2> QED
    BY <1>1, <1>6, <2>1, <2>2 DEF TailHolds
<1>12. FrontHolds' /\ SummaryHolds'
  <2>1. Len(summary) = Len(samples) /\ Writing /\ Writing'
    BY <1>1, <1>6 DEF Writing
  <2> QED
    BY <1>1, <2>1, WrittenFrame
<1> QED
  BY <1>10, <1>11, <1>12 DEF WInv

LEMMA StoreWInv == IInv /\ WInv /\ Store => WInv'
<1> SUFFICES ASSUME IInv, WInv, Store PROVE WInv'
  OBVIOUS
<1> USE DEF handleVars, encodeVars
<1>1. /\ status = "delivered" /\ status' = "stored" /\ Writing /\ Writing' /\ Published
      /\ UNCHANGED <<handleVars, encodeVars, header, summary_start>>
  BY DEF Store, Writing, Published
<1>2. FrontHolds' /\ SummaryHolds'
  BY <1>1, WrittenFrame
<1>3. IsSeq(file)
  BY DEF IInv, Typed
<1>4. /\ \A i \in 1 .. Len(file') : i \in 1 .. Len(file) /\ file'[i] = file[i]
      /\ ending' = "complete" => ending = "complete" /\ Len(file') = Len(file)
  <2>1. CASE UNCHANGED <<file, ending>>
    BY <2>1
  <2>2. ASSUME NEW n \in CUTS, NEW how \in {"boundary", "partial"},
               n <= Len(file), file' = SubSeq(file, 1, n), ending' = how
        PROVE  <1>4
    <3>1. n \in 0 .. Len(file) /\ Len(file) \in Nat
      BY <1>3, <2>2, BoundAssumption DEF IsSeq
    <3>2. Len(file') = n /\ \A i \in 1 .. n : file'[i] = file[i]
      BY <1>3, <2>2, <3>1, PrefixIsSeq
    <3> QED
      BY <2>2, <3>1, <3>2
  <2> QED
    BY <2>1, <2>2 DEF Store
<1>5. Readable'
  BY <1>1, <1>4 DEF WInv, Readable
<1>6. TailHolds'
  BY <1>1, <1>4 DEF WInv, TailHolds
<1> QED
  BY <1>2, <1>5, <1>6 DEF WInv

\* A reader touches none of it, and neither does a step that does nothing.
LEMMA BytesFrame ==
    ASSUME IInv, WInv, UNCHANGED <<status, handleVars, encodeVars, fileVars>>
    PROVE  WInv'
<1> USE DEF handleVars, encodeVars, fileVars
<1>1. CASE Writing
  <2>1. FrontHolds' /\ SummaryHolds'
    BY <1>1, WrittenFrame DEF Writing
  <2>2. Readable' /\ TailHolds'
    BY <1>1 DEF WInv, Readable, TailHolds, Writing, Published
  <2> QED
    BY <2>1, <2>2 DEF WInv
<1>2. CASE ~Writing
  BY <1>2 DEF WInv, FrontHolds, SummaryHolds, Readable, TailHolds, Writing, Published
<1> QED
  BY <1>1, <1>2

LEMMA NextWInv == IInv /\ WInv /\ [Next]_vars => WInv'
<1> SUFFICES ASSUME IInv, WInv, [Next]_vars PROVE WInv'
  OBVIOUS
<1> USE DEF handleVars, encodeVars, fileVars, readerVars
<1>1. CASE SetOptions \/ AddSample
  <2>1. ~Writing'
    BY <1>1 DEF SetOptions, AddSample, Collecting, Writing
  <2> QED
    BY <2>1 DEF WInv, FrontHolds, SummaryHolds, Readable, TailHolds, Writing, Published
<1>2. CASE Encode
  BY <1>2, EncodeWInv
<1>3. CASE EmitRefused
  <2>1. ~Writing'
    BY <1>3 DEF EmitRefused, Refused, Writing
  <2> QED
    BY <2>1 DEF WInv, FrontHolds, SummaryHolds, Readable, TailHolds, Writing, Published
<1>4. CASE EmitKeyframe \/ EmitDelta \/ WriteSummary
  BY <1>4, EmitKeyframeWInv, EmitDeltaWInv, WriteSummaryWInv
<1>5. CASE Store
  BY <1>5, StoreWInv
<1>6. CASE Read
  <2>1. UNCHANGED fileVars
    BY <1>6, IndexedFrame, StreamedFrame DEF Read, IInv
  <2> QED
    BY <1>6, <2>1, BytesFrame DEF Read
<1>7. CASE Done \/ UNCHANGED vars
  BY <1>7, BytesFrame DEF Done, vars
<1> QED
  BY <1>1, <1>2, <1>3, <1>4, <1>5, <1>6, <1>7 DEF Next, EncodeStep

LEMMA InitWInv == Init => WInv
BY DEF Init, WInv, FrontHolds, SummaryHolds, Readable, TailHolds, Writing, Published

----------------------------------------------------------------------------
(* What the indexed reader has in hand                                     *)

\* Nothing is indexed before the bytes are stored, and a reader that waits
\* has nothing.
Unindexed == indexed = "waiting" \/ status = "stored"
AtRest    == indexed = "waiting" => chain = <<>> /\ index = <<>>

\* The index it opened is the one encode() accumulated.
IndexHolds == index = <<>> \/ (status = "stored" /\ index = summary)

\* The chain leads from one entry to another through the references of the
\* samples, and ends at the entry asked for.
ChainHolds ==
    chain # <<>> =>
        /\ IsSeq(chain) /\ Len(chain) \in Nat \ {0} /\ entry <= Len(index)
        /\ \A k \in 1 .. Len(chain) : /\ chain[k].offset \in 1 .. Len(index)
                                      /\ chain[k] = index[chain[k].offset]
        /\ chain[Len(chain)].offset = entry
        /\ \A k \in 1 .. Len(chain) - 1 : /\ ~IsKeyframe(chain[k + 1].offset)
                                          /\ Reference(chain[k + 1].offset) = chain[k].offset

\* It stays behind the keyframe nearest to the entry and gains a link for a
\* sample passed; a delta against the keyframe is a chain of two.
SeekHolds ==
    chain # <<>> =>
        /\ \A k \in 1 .. Len(chain) : chain[k].offset \in KeyframeIndex(entry) .. entry
        /\ Len(chain) <= entry - chain[1].offset + 1
        /\ options.mode = DELTA_MODE_KEYFRAME =>
              Len(chain) = 1 \/ (Len(chain) = 2 /\ IsKeyframe(chain[1].offset))

\* What is composed so far is the sample of the last link read.
LinkHolds ==
    indexed = "reading" =>
        /\ chain # <<>> /\ IsKeyframe(chain[1].offset)
        /\ link <= Len(chain)
        /\ link > 0 => composed = Source(chain[link].offset)

\* Every entry before this one has been answered with its sample.
AnswersHold ==
    /\ DOMAIN answers = IF indexed \in {"walking", "reading", "ok"} THEN 1 .. entry - 1 ELSE {}
    /\ \A k \in DOMAIN answers : k <= Len(index) /\ answers[k] = Source(k)

XInv == /\ Unindexed /\ AtRest /\ IndexHolds
        /\ ChainHolds /\ SeekHolds /\ LinkHolds
        /\ AnswersHold

LEMMA InitXInv == Init => XInv
BY DEF Init, ReadersWaiting, XInv, Unindexed, AtRest, IndexHolds, ChainHolds, SeekHolds,
       LinkHolds, AnswersHold, NoAnswers

\* An indexed reader that waits has nothing that could change.
LEMMA WaitingStays ==
    ASSUME XInv, UNCHANGED indexedVars, indexed = "waiting"
    PROVE  XInv'
<1>1. indexed' = "waiting" /\ chain' = <<>> /\ index' = <<>> /\ DOMAIN answers' = {}
  BY DEF XInv, AtRest, AnswersHold, indexedVars
<1> QED
  BY <1>1 DEF XInv, Unindexed, AtRest, IndexHolds, ChainHolds, SeekHolds, LinkHolds, AnswersHold

\* A step that keeps the chain keeps what is said of it.
LEMMA ChainStays ==
    ASSUME XInv, UNCHANGED <<options, samples, index, entry, chain>>
    PROVE  ChainHolds' /\ SeekHolds'
<1>1. KeyframeIndex(entry)' = KeyframeIndex(entry)
  BY DEF KeyframeIndex, IsKeyframe
<1>2. ChainHolds'
  BY HandleFrame DEF XInv, ChainHolds
<1>3. SeekHolds'
  BY <1>1, HandleFrame DEF XInv, SeekHolds
<1> QED
  BY <1>2, <1>3

\* A step of something else changes nothing of it either.
LEMMA IndexedStays ==
    ASSUME XInv, UNCHANGED <<indexedVars, options, samples, summary, status>>
    PROVE  XInv'
<1> USE DEF indexedVars
<1>1. Unindexed' /\ AtRest' /\ IndexHolds'
  BY DEF XInv, Unindexed, AtRest, IndexHolds
<1>2. LinkHolds' /\ AnswersHold'
  BY HandleFrame DEF XInv, LinkHolds, AnswersHold
<1> QED
  BY <1>1, <1>2, ChainStays DEF XInv

\* An index that was read names the samples, one by one.
LEMMA IndexNames ==
    ASSUME IInv, WInv, XInv, index # <<>>
    PROVE  /\ IsSeq(index) /\ Len(index) = Len(samples) /\ Len(index) \in Nat
           /\ status = "stored" /\ index = summary
           /\ \A k \in 1 .. Len(index) : Names(index[k], k) /\ index[k].offset = k
<1>1. index = summary /\ status = "stored" /\ Writing
  BY DEF XInv, IndexHolds, Writing
<1>2. IsSeq(summary) /\ Len(summary) = Len(samples) /\ Len(summary) \in Nat
  BY <1>1 DEF IInv, Typed, WInv, SummaryHolds, IsSeq
<1>3. \A k \in 1 .. Len(summary) : Names(summary[k], k)
  BY <1>1 DEF WInv, SummaryHolds
<1> QED
  BY <1>1, <1>2, <1>3 DEF Names

\* The entry of a record is the one of its number.
LEMMA EntryAtOffset ==
    ASSUME \A k \in 1 .. Len(index) : index[k].offset = k, NEW o
    PROVE  EntryAt(o) = IF o \in 1 .. Len(index) THEN o ELSE 0
<1>1. PICK I : I = {i \in 1 .. Len(index) : index[i].offset = o}
  OBVIOUS
<1>2. I = IF o \in 1 .. Len(index) THEN {o} ELSE {}
  BY <1>1
<1>3. EntryAt(o) = IF I # {} THEN Max(I) ELSE 0
  BY <1>1 DEF EntryAt, SelectLastInSeq
<1>4. o \in 1 .. Len(index) => Max({o}) = o
  BY DEF Max
<1> QED
  BY <1>2, <1>3, <1>4

\* What open_indexed reads from the bytes that arrived whole.
LEMMA SummaryRead ==
    ASSUME IInv, WInv, status = "stored", ending = "complete"
    PROVE  SummaryEntries = summary
<1>1. /\ summary_start = Len(samples) + 1 /\ Len(file) = 2 * Len(samples) + 1
      /\ Len(summary) = Len(samples)
      /\ \A i \in 1 .. Len(file) :
            \/ i <= Len(samples)
            \/ i <= 2 * Len(samples) /\ file[i] = summary[i - Len(samples)]
            \/ i = 2 * Len(samples) + 1 /\ file[i].op = "STATISTICS"
      /\ \A k \in 1 .. Len(summary) : summary[k].op = "CHUNK_INDEX"
  BY DEF WInv, TailHolds, SummaryHolds, Writing, Published, Names
<1>2. IsSeq(file) /\ IsSeq(summary) /\ Len(samples) \in Nat
  BY DEF IInv, Typed, IsSeq
<1>3. PICK n \in Nat : n = Len(samples)
  BY <1>2
<1>4. PICK tail : tail = SubSeq(file, n + 1, 2 * n + 1)
  OBVIOUS
<1>5. /\ IsSeq(tail) /\ Len(tail) = n + 1
      /\ \A i \in 1 .. n + 1 : tail[i] = file[n + i]
  <2>1. n + 1 \in 1 .. Len(file) + 1 /\ 2 * n + 1 \in (n + 1) - 1 .. Len(file)
    BY <1>1, <1>3
  <2>2. (2 * n + 1) - (n + 1) + 1 = n + 1 /\ \A i \in 1 .. n + 1 : (n + 1) + i - 1 = n + i
    OBVIOUS
  <2>3. /\ IsSeq(tail) /\ Len(tail) = (2 * n + 1) - (n + 1) + 1
        /\ \A i \in 1 .. (2 * n + 1) - (n + 1) + 1 : tail[i] = file[(n + 1) + i - 1]
    BY <1>2, <1>4, <2>1, SliceIsSeq
  <2> QED
    BY <2>2, <2>3
<1>6. \A i \in 1 .. n : tail[i] = summary[i] /\ tail[i].op = "CHUNK_INDEX"
  <2> SUFFICES ASSUME NEW i \in 1 .. n
               PROVE  tail[i] = summary[i] /\ tail[i].op = "CHUNK_INDEX"
    OBVIOUS
  <2>1. n + i \in 1 .. Len(file) /\ ~(n + i <= n) /\ (n + i) - n = i /\ n + i # 2 * n + 1
    BY <1>1, <1>3
  <2>2. file[n + i] = summary[(n + i) - n]
    BY <1>1, <1>3, <2>1
  <2>3. tail[i] = summary[i]
    BY <1>5, <2>1, <2>2
  <2> QED
    BY <1>1, <1>3, <2>3
<1>7. tail[n + 1].op # "CHUNK_INDEX"
  <2>1. n + (n + 1) = 2 * n + 1 /\ 2 * n + 1 \in 1 .. Len(file) /\ ~(2 * n + 1 <= 2 * n) /\ ~(2 * n + 1 <= n)
    BY <1>1, <1>3
  <2>2. file[2 * n + 1].op = "STATISTICS"
    BY <1>1, <1>3, <2>1
  <2>3. tail[n + 1] = file[n + (n + 1)]
    BY <1>5
  <2> QED
    BY <2>1, <2>2, <2>3
<1>8. PICK I : I = {i \in 1 .. Len(tail) : tail[i].op # "CHUNK_INDEX"}
  OBVIOUS
<1>9. I = {n + 1}
  <2>1. \A i \in 1 .. n + 1 : i \in 1 .. n \/ i = n + 1
    OBVIOUS
  <2> QED
    BY <1>5, <1>6, <1>7, <1>8, <2>1
<1>10. Min({n + 1}) = n + 1
  BY DEF Min
<1>11. SummaryEntries = SubSeq(tail, 1, n)
  <2>1. tail = SubSeq(file, summary_start, Len(file)) /\ summary_start # 0 /\ n + 1 # 0 /\ (n + 1) - 1 = n
    BY <1>1, <1>3, <1>4
  <2> QED
    BY <1>8, <1>9, <1>10, <2>1 DEF SummaryEntries, SelectInSeq
<1>12. /\ IsSeq(SubSeq(tail, 1, n)) /\ Len(SubSeq(tail, 1, n)) = n
       /\ \A i \in 1 .. n : SubSeq(tail, 1, n)[i] = tail[i]
  <2>1. n \in 0 .. Len(tail)
    BY <1>5
  <2> QED
    BY <1>5, <2>1, PrefixIsSeq
<1>13. PICK t : t = SubSeq(tail, 1, n)
  OBVIOUS
<1>14. /\ IsSeq(t) /\ IsSeq(summary) /\ Len(t) = n /\ Len(summary) = n
       /\ \A i \in 1 .. n : t[i] = summary[i]
  BY <1>1, <1>2, <1>3, <1>6, <1>12, <1>13
<1>15. t = summary
  BY ONLY <1>14, SameSeq
<1> QED
  BY <1>11, <1>13, <1>15

LEMMA OpenXInv == IInv /\ WInv /\ XInv /\ status = "stored" /\ OpenIndexed
                  /\ UNCHANGED <<status, options, samples, summary>> => XInv'
<1> SUFFICES ASSUME IInv, WInv, XInv, status = "stored", OpenIndexed,
                    UNCHANGED <<status, options, samples, summary>>
             PROVE  XInv'
  OBVIOUS
<1>1. /\ chain' = <<>> /\ entry' = 1 /\ answers' = NoAnswers
      /\ indexed' \in {"walking", "refused"}
      /\ index' = <<>> \/ index' = summary
  BY SummaryRead DEF OpenIndexed
<1>2. DOMAIN answers' = {} /\ 1 .. entry' - 1 = {}
  BY <1>1 DEF NoAnswers
<1> QED
  BY <1>1, <1>2 DEF XInv, Unindexed, AtRest, IndexHolds, ChainHolds, SeekHolds, LinkHolds, AnswersHold

\* An error of the indexed reader gives up what it had answered.
LEMMA RefuseXInv ==
    ASSUME XInv, status = "stored", RefuseIndexed, UNCHANGED <<status, options, samples, summary>>
    PROVE  XInv'
<1>1. /\ indexed' = "refused" /\ DOMAIN answers' = {}
      /\ UNCHANGED <<index, entry, chain, link, composed>>
  BY DEF RefuseIndexed, NoAnswers
<1>2. Unindexed' /\ AtRest' /\ IndexHolds' /\ LinkHolds' /\ AnswersHold'
  BY <1>1 DEF XInv, Unindexed, AtRest, IndexHolds, LinkHolds, AnswersHold
<1>3. ChainHolds' /\ SeekHolds'
  BY <1>1, ChainStays
<1> QED
  BY <1>2, <1>3 DEF XInv

\* The samples of one group have one nearest keyframe.
LEMMA OneGroup ==
    ASSUME NEW i \in Nat \ {0}, NEW j \in KeyframeIndex(i) .. i, j \in Nat \ {0}
    PROVE  KeyframeIndex(j) = KeyframeIndex(i)
<1>1. PICK a : a = KeyframeIndex(i)
  OBVIOUS
<1>2. PICK b : b = KeyframeIndex(j)
  OBVIOUS
<1>3. a \in 1 .. i /\ IsKeyframe(a) /\ \A k \in a + 1 .. i : ~IsKeyframe(k)
  BY <1>1, NearestKeyframe
<1>4. b \in 1 .. j /\ IsKeyframe(b) /\ \A k \in b + 1 .. j : ~IsKeyframe(k)
  BY <1>2, NearestKeyframe
<1>5. ~(a < b)
  BY <1>1, <1>3, <1>4
<1>6. ~(b < a)
  BY <1>1, <1>3, <1>4
<1> QED
  BY <1>1, <1>2, <1>3, <1>4, <1>5, <1>6

\* A group holds no reference out of it.
LEMMA ReferenceInGroup ==
    ASSUME NEW i \in Nat \ {0}, NEW j \in KeyframeIndex(i) .. i, j \in Nat \ {0}, ~IsKeyframe(j)
    PROVE  /\ Reference(j) \in KeyframeIndex(i) .. j - 1
           /\ options.mode = DELTA_MODE_KEYFRAME => IsKeyframe(Reference(j))
<1>1. KeyframeIndex(j) = KeyframeIndex(i) /\ KeyframeIndex(i) \in 1 .. i
  BY OneGroup, NearestKeyframe
<1>2. IsKeyframe(KeyframeIndex(j)) /\ KeyframeIndex(j) # j
  BY NearestKeyframe
<1>3. CASE options.mode = DELTA_MODE_KEYFRAME
  BY <1>1, <1>2, <1>3 DEF Reference
<1>4. CASE options.mode # DELTA_MODE_KEYFRAME
  BY <1>1, <1>2, <1>4 DEF Reference
<1> QED
  BY <1>3, <1>4

\* What is known of the chain without its primes: it is put together from
\* these when a step lengthens it.
ChainIs(c) ==
    /\ IsSeq(c) /\ Len(c) \in Nat \ {0} /\ entry <= Len(index)
    /\ \A k \in 1 .. Len(c) : c[k].offset \in 1 .. Len(index) /\ c[k] = index[c[k].offset]
    /\ c[Len(c)].offset = entry
    /\ \A k \in 1 .. Len(c) - 1 : ~IsKeyframe(c[k + 1].offset) /\ Reference(c[k + 1].offset) = c[k].offset
    /\ \A k \in 1 .. Len(c) : c[k].offset \in KeyframeIndex(entry) .. entry
    /\ Len(c) <= entry - c[1].offset + 1
    /\ options.mode = DELTA_MODE_KEYFRAME => Len(c) = 1 \/ (Len(c) = 2 /\ IsKeyframe(c[1].offset))

LEMMA ChainNext ==
    ASSUME UNCHANGED <<options, samples, index, entry>>, NEW c, ChainIs(c), chain' = c
    PROVE  ChainHolds' /\ SeekHolds'
<1>1. KeyframeIndex(entry)' = KeyframeIndex(entry)
  BY DEF KeyframeIndex, IsKeyframe
<1>2. ChainHolds'
  BY HandleFrame DEF ChainIs, ChainHolds
<1>3. SeekHolds'
  BY <1>1, HandleFrame DEF ChainIs, SeekHolds
<1> QED
  BY <1>2, <1>3

LEMMA StartChainXInv ==
    ASSUME IInv, WInv, XInv, status = "stored", StartChain,
           UNCHANGED <<status, options, samples, summary>>
    PROVE  XInv'
<1>1. /\ indexed = "walking" /\ entry \in Nat \ {0} /\ entry <= Len(index)
      /\ chain' = <<index[entry]>>
      /\ UNCHANGED <<indexed, index, entry, link, composed, answers>>
  BY DEF StartChain, IInv, ReadersTyped
<1>2. index # <<>>
  BY <1>1
<1>3. Len(index) \in Nat /\ entry \in 1 .. Len(index) /\ index[entry].offset = entry
  BY <1>1, <1>2, IndexNames
<1>4. PICK c : c = <<index[entry]>>
  OBVIOUS
<1>5. IsSeq(c) /\ Len(c) = 1 /\ c[1] = index[entry]
  BY <1>4 DEF IsSeq
<1>6. KeyframeIndex(entry) \in 1 .. entry
  BY <1>1, NearestKeyframe
<1>7. ChainIs(c)
  <2>1. 1 .. Len(c) = {1} /\ 1 .. Len(c) - 1 = {}
    BY <1>5
  <2>2. c[1].offset = entry /\ c[Len(c)].offset = entry /\ c[1] = index[c[1].offset]
    BY <1>3, <1>5
  <2>3. entry \in KeyframeIndex(entry) .. entry /\ Len(c) <= entry - entry + 1
    BY <1>3, <1>5, <1>6
  <2> QED
    <3>1. \A k \in 1 .. Len(c) : /\ c[k].offset \in 1 .. Len(index) /\ c[k] = index[c[k].offset]
                                 /\ c[k].offset \in KeyframeIndex(entry) .. entry
      BY <1>3, <2>1, <2>2, <2>3
    <3>2. \A k \in 1 .. Len(c) - 1 : ~IsKeyframe(c[k + 1].offset) /\ Reference(c[k + 1].offset) = c[k].offset
      BY <2>1
    <3> QED
      BY <1>1, <1>5, <2>2, <2>3, <3>1, <3>2 DEF ChainIs
<1>8. ChainHolds' /\ SeekHolds'
  BY <1>1, <1>4, <1>7, ChainNext
<1>9. AnswersHold'
  BY <1>1, HandleFrame DEF XInv, AnswersHold
<1>10. Unindexed' /\ AtRest' /\ IndexHolds' /\ LinkHolds'
  BY <1>1 DEF XInv, Unindexed, AtRest, IndexHolds, LinkHolds
<1> QED
  BY <1>8, <1>9, <1>10 DEF XInv

LEMMA WalkBackXInv ==
    ASSUME IInv, WInv, XInv, status = "stored", WalkBack,
           UNCHANGED <<status, options, samples, summary>>
    PROVE  XInv'
<1>1. indexed = "walking" /\ chain # <<>> /\ Head(chain).kind # KEYFRAME_KIND
  BY DEF WalkBack, Walking
<1>2. /\ IsSeq(chain) /\ Len(chain) \in Nat \ {0} /\ entry <= Len(index)
      /\ \A k \in 1 .. Len(chain) : chain[k].offset \in 1 .. Len(index) /\ chain[k] = index[chain[k].offset]
      /\ chain[Len(chain)].offset = entry
      /\ \A k \in 1 .. Len(chain) - 1 :
            ~IsKeyframe(chain[k + 1].offset) /\ Reference(chain[k + 1].offset) = chain[k].offset
      /\ \A k \in 1 .. Len(chain) : chain[k].offset \in KeyframeIndex(entry) .. entry
      /\ Len(chain) <= entry - chain[1].offset + 1
      /\ options.mode = DELTA_MODE_KEYFRAME =>
            Len(chain) = 1 \/ (Len(chain) = 2 /\ IsKeyframe(chain[1].offset))
  BY <1>1 DEF XInv, ChainHolds, SeekHolds
<1>3. PICK o : o = chain[1].offset
  OBVIOUS
<1>4. PICK n \in Nat : n = Len(chain) /\ n # 0
  BY <1>2
<1>5. o \in 1 .. Len(index) /\ chain[1] = index[o] /\ o \in KeyframeIndex(entry) .. entry
  BY <1>2, <1>3, <1>4
<1>6. index # <<>> /\ entry \in Nat \ {0}
  BY <1>5 DEF IInv, ReadersTyped
<1>7. /\ Len(index) \in Nat
      /\ \A k \in 1 .. Len(index) : Names(index[k], k) /\ index[k].offset = k
  BY <1>6, IndexNames
<1>8. ~IsKeyframe(o) /\ chain[1].reference = Reference(o)
  <2>1. Head(chain) = chain[1]
    BY <1>1, <1>2
  <2>2. Names(chain[1], o)
    BY <1>5, <1>7
  <2> QED
    BY <1>1, <2>1, <2>2 DEF Names, KEYFRAME_KIND, DELTA_KIND
<1>9. PICK p : p = Reference(o)
  OBVIOUS
<1>10. /\ p \in KeyframeIndex(entry) .. o - 1 /\ p \in 1 .. Len(index)
       /\ KeyframeIndex(entry) \in Nat
       /\ options.mode = DELTA_MODE_KEYFRAME => IsKeyframe(p)
  <2>1. o \in Nat \ {0} /\ KeyframeIndex(entry) \in 1 .. entry
    BY <1>5, <1>6, <1>7, NearestKeyframe
  <2> QED
    BY <1>5, <1>6, <1>7, <1>8, <1>9, <2>1, ReferenceInGroup
<1>11. EntryAt(Head(chain).reference) = p
  <2>1. Head(chain) = chain[1]
    BY <1>1, <1>2
  <2> QED
    BY <1>7, <1>8, <1>9, <1>10, <2>1, EntryAtOffset
<1>12. CASE RefuseIndexed
  BY <1>12, RefuseXInv
<1>13. CASE ~RefuseIndexed
  <2>1. /\ chain' = <<index[p]>> \o chain
        /\ UNCHANGED <<indexed, index, entry, link, composed, answers>>
    BY <1>11, <1>13 DEF WalkBack
  <2>2. PICK c : c = <<index[p]>> \o chain
    OBVIOUS
  <2>3. /\ IsSeq(c) /\ Len(c) = n + 1 /\ c[1] = index[p]
        /\ \A k \in 2 .. n + 1 : c[k] = chain[k - 1]
    <3>1. PICK h : h = <<index[p]>>
      OBVIOUS
    <3>2. IsSeq(h) /\ Len(h) = 1 /\ h[1] = index[p]
      BY <3>1 DEF IsSeq
    <3>3. /\ IsSeq(h \o chain) /\ Len(h \o chain) = Len(h) + Len(chain)
          /\ \A i \in 1 .. Len(h) + Len(chain) :
                (h \o chain)[i] = IF i <= Len(h) THEN h[i] ELSE chain[i - Len(h)]
      <4>1. IsSeq(chain)
        BY <1>2
      <4> QED
        BY ONLY <3>2, <4>1, ConcatIsSeq
    <3> QED
      BY <1>4, <2>2, <3>1, <3>2, <3>3
  <2>4. \A k \in 1 .. Len(c) : /\ c[k].offset \in 1 .. Len(index) /\ c[k] = index[c[k].offset]
                               /\ c[k].offset \in KeyframeIndex(entry) .. entry
    <3> SUFFICES ASSUME NEW k \in 1 .. n + 1
                 PROVE  /\ c[k].offset \in 1 .. Len(index) /\ c[k] = index[c[k].offset]
                        /\ c[k].offset \in KeyframeIndex(entry) .. entry
      BY <2>3
    <3>1. CASE k = 1
      <4>1. c[k].offset = p
        BY <1>7, <1>10, <2>3, <3>1
      <4>2. p \in KeyframeIndex(entry) .. entry
        BY <1>5, <1>6, <1>7, <1>10
      <4> QED
        BY <1>10, <2>3, <3>1, <4>1, <4>2
    <3>2. CASE k # 1
      <4>1. k - 1 \in 1 .. Len(chain) /\ c[k] = chain[k - 1]
        BY <1>4, <2>3, <3>2
      <4> QED
        BY <1>2, <4>1
    <3> QED
      BY <3>1, <3>2
  <2>5. \A k \in 1 .. Len(c) - 1 : ~IsKeyframe(c[k + 1].offset) /\ Reference(c[k + 1].offset) = c[k].offset
    <3> SUFFICES ASSUME NEW k \in 1 .. n
                 PROVE  ~IsKeyframe(c[k + 1].offset) /\ Reference(c[k + 1].offset) = c[k].offset
      BY <1>4, <2>3
    <3>1. c[k + 1] = chain[k]
      <4>1. k + 1 \in 2 .. n + 1 /\ (k + 1) - 1 = k
        OBVIOUS
      <4> QED
        BY <2>3, <4>1
    <3>2. CASE k = 1
      <4>1. c[k].offset = p
        BY <1>7, <1>10, <2>3, <3>2
      <4> QED
        BY <1>3, <1>8, <1>9, <3>1, <3>2, <4>1
    <3>3. CASE k # 1
      <4>1. k - 1 \in 1 .. Len(chain) - 1 /\ k \in 2 .. n + 1 /\ (k - 1) + 1 = k
        BY <1>4, <3>3
      <4>2. c[k] = chain[k - 1]
        BY <2>3, <4>1
      <4>3. ~IsKeyframe(chain[(k - 1) + 1].offset) /\ Reference(chain[(k - 1) + 1].offset) = chain[k - 1].offset
        BY <1>2, <4>1
      <4> QED
        BY <3>1, <4>1, <4>2, <4>3
    <3> QED
      BY <3>2, <3>3
  <2>6. c[Len(c)].offset = entry
    <3>1. n + 1 \in 2 .. n + 1 /\ (n + 1) - 1 = n
      BY <1>4
    <3> QED
      BY <1>2, <1>4, <2>3, <3>1
  <2>7. c[1].offset = p /\ Len(c) <= entry - p + 1
    <3>1. c[1].offset = p
      BY <1>7, <1>10, <2>3
    <3>2. Len(c) = n + 1 /\ n <= entry - o + 1
      BY <1>2, <1>3, <1>4, <2>3
    <3>3. n \in Nat /\ entry \in Nat /\ o \in Nat /\ p \in Nat /\ p <= o - 1
      <4>1. o \in Nat
        BY <1>5, <1>7
      <4>2. p \in 1 .. Len(index) /\ p \in KeyframeIndex(entry) .. o - 1 /\ KeyframeIndex(entry) \in Nat
        BY <1>10
      <4> QED
        BY <1>4, <1>6, <1>7, <4>1, <4>2
    <3> QED
      BY ONLY <3>1, <3>2, <3>3
  <2>8. options.mode = DELTA_MODE_KEYFRAME => Len(c) = 2 /\ IsKeyframe(c[1].offset)
    <3>1. options.mode = DELTA_MODE_KEYFRAME => n = 1 \/ (n = 2 /\ IsKeyframe(o))
      BY <1>2, <1>3, <1>4
    <3>2. options.mode = DELTA_MODE_KEYFRAME => n = 1
      BY <1>8, <3>1
    <3>3. IsKeyframe(p) => IsKeyframe(c[1].offset)
      BY <2>7
    <3> QED
      BY <1>10, <2>3, <3>2, <3>3
  <2>9. ChainIs(c)
    BY <1>2, <1>4, <2>3, <2>4, <2>5, <2>6, <2>7, <2>8 DEF ChainIs
  <2>10. ChainHolds' /\ SeekHolds'
    BY <2>1, <2>2, <2>9, ChainNext
  <2>11. AnswersHold'
    BY <2>1, HandleFrame DEF XInv, AnswersHold
  <2>12. Unindexed' /\ AtRest' /\ IndexHolds' /\ LinkHolds'
    BY <1>1, <2>1 DEF XInv, Unindexed, AtRest, IndexHolds, LinkHolds
  <2> QED
    BY <2>10, <2>11, <2>12 DEF XInv
<1> QED
  BY <1>12, <1>13

LEMMA CheckDepthXInv ==
    ASSUME IInv, WInv, XInv, status = "stored", CheckDepth,
           UNCHANGED <<status, options, samples, summary>>
    PROVE  XInv'
<1>1. CASE RefuseIndexed
  BY <1>1, RefuseXInv
<1>2. CASE ~RefuseIndexed
  <2>1. /\ indexed = "walking" /\ chain # <<>> /\ Head(chain).kind = KEYFRAME_KIND
        /\ indexed' = "reading" /\ link' = 0
        /\ UNCHANGED <<index, entry, chain, composed, answers>>
    BY <1>2 DEF CheckDepth, Walking
  <2>2. /\ IsSeq(chain) /\ Len(chain) \in Nat \ {0}
        /\ chain[1].offset \in 1 .. Len(index) /\ chain[1] = index[chain[1].offset]
    BY <2>1 DEF XInv, ChainHolds
  <2>3. Names(chain[1], chain[1].offset) /\ Head(chain) = chain[1]
    <3>1. index # <<>>
      BY <2>2
    <3> QED
      BY <2>1, <2>2, <3>1, IndexNames
  <2>4. IsKeyframe(chain[1].offset)
    BY <2>1, <2>3 DEF Names, KEYFRAME_KIND, DELTA_KIND
  <2>5. LinkHolds'
    BY <2>1, <2>2, <2>4, HandleFrame DEF LinkHolds
  <2>6. ChainHolds' /\ SeekHolds'
    BY <2>1, ChainStays
  <2>7. AnswersHold'
    BY <2>1, HandleFrame DEF XInv, AnswersHold
  <2>8. Unindexed' /\ AtRest' /\ IndexHolds'
    BY <2>1 DEF XInv, Unindexed, AtRest, IndexHolds
  <2> QED
    BY <2>5, <2>6, <2>7, <2>8 DEF XInv
<1> QED
  BY <1>1, <1>2

\* What a link composes to is the sample of its record: a keyframe states it,
\* a delta is read onto the sample before it in the chain.
LEMMA LinkIsSource ==
    ASSUME IInv, WInv, XInv, indexed = "reading", link < Len(chain),
           NEW e, e = chain[link + 1], LinkAccepted(e)
    PROVE  LinkState(e) = Source(e.offset)
<1>1. /\ chain # <<>> /\ IsKeyframe(chain[1].offset)
      /\ link > 0 => composed = Source(chain[link].offset)
      /\ Len(chain) \in Nat /\ link \in Nat
      /\ \A k \in 1 .. Len(chain) : chain[k].offset \in 1 .. Len(index) /\ chain[k] = index[chain[k].offset]
      /\ \A k \in 1 .. Len(chain) - 1 :
            ~IsKeyframe(chain[k + 1].offset) /\ Reference(chain[k + 1].offset) = chain[k].offset
  BY DEF XInv, LinkHolds, ChainHolds, IInv, ReadersTyped
<1>2. PICK o : o = e.offset
  OBVIOUS
<1>3. link + 1 \in 1 .. Len(chain)
  BY <1>1
<1>4. o \in 1 .. Len(index) /\ e = index[o]
  BY <1>1, <1>2, <1>3
<1>5. index # <<>>
  BY <1>4
<1>6. Names(e, o) /\ o \in 1 .. Len(samples) /\ Writing
  BY <1>4, <1>5, IndexNames DEF Writing
<1>7. o \in DOMAIN file
  BY <1>2 DEF LinkAccepted, LinkRecord
<1>8. CASE IsKeyframe(o)
  <2>1. e.kind = KEYFRAME_KIND
    BY <1>6, <1>8 DEF Names
  <2>2. KeyframeState(file[o].group).code = "ok"
    BY <1>2, <2>1 DEF LinkAccepted, KeyframeAccepted
  <2>3. KeyframeState(file[o].group).state = Source(o)
    BY <1>6, <1>7, <1>8, <2>2, KeyframeDecodes
  <2> QED
    BY <1>2, <2>1, <2>3 DEF LinkState
<1>9. CASE ~IsKeyframe(o)
  <2>1. e.kind # KEYFRAME_KIND
    BY <1>6, <1>9 DEF Names, KEYFRAME_KIND, DELTA_KIND
  <2>2. link # 0
    BY <1>1, <1>2, <1>9
  <2>3. link \in 1 .. Len(chain) - 1
    BY <1>1, <1>3, <2>2
  <2>4. Reference(o) = chain[link].offset
    BY <1>1, <1>2, <2>3
  <2>5. PICK p : p = Reference(o)
    OBVIOUS
  <2>6. composed = Source(p)
    BY <1>1, <2>3, <2>4, <2>5
  <2>7. ApplyDelta(Source(p), file[o].groups).code = "ok"
    BY <1>2, <2>1, <2>6 DEF LinkAccepted, DeltaAccepted
  <2>8. ApplyDelta(Source(p), file[o].groups).state = Source(o)
    BY <1>6, <1>7, <1>9, <2>5, <2>7, DeltaDecodes
  <2> QED
    BY <1>2, <2>1, <2>6, <2>8 DEF LinkState
<1> QED
  BY <1>8, <1>9

LEMMA ReadLinkXInv ==
    ASSUME IInv, WInv, XInv, status = "stored", ReadLink,
           UNCHANGED <<status, options, samples, summary>>
    PROVE  XInv'
<1>1. CASE RefuseIndexed
  BY <1>1, RefuseXInv
<1>2. CASE ~RefuseIndexed
  <2>1. PICK e : e = chain[link + 1]
    OBVIOUS
  <2>2. /\ indexed = "reading" /\ link < Len(chain) /\ LinkAccepted(e)
        /\ composed' = LinkState(e) /\ link' = link + 1
        /\ UNCHANGED <<indexed, index, entry, chain, answers>>
    BY <1>2, <2>1 DEF ReadLink
  <2>3. composed' = Source(e.offset)
    BY <2>1, <2>2, LinkIsSource
  <2>4. Len(chain) \in Nat /\ link \in Nat /\ chain # <<>> /\ IsKeyframe(chain[1].offset)
    BY <2>2 DEF XInv, ChainHolds, LinkHolds, IInv, ReadersTyped
  <2>5. LinkHolds'
    <3>1. Source(e.offset)' = Source(e.offset)
      BY HandleFrame
    <3>2. composed' = Source(chain[link].offset)'
      BY <2>1, <2>2, <2>3, <3>1
    <3>3. IsKeyframe(chain[1].offset)'
      BY <2>2, <2>4, HandleFrame
    <3> QED
      BY <2>2, <2>4, <3>2, <3>3 DEF LinkHolds
  <2>6. AnswersHold'
    BY <2>2, HandleFrame DEF XInv, AnswersHold
  <2>7. Unindexed' /\ AtRest' /\ IndexHolds'
    BY <2>2 DEF XInv, Unindexed, AtRest, IndexHolds
  <2>8. ChainHolds' /\ SeekHolds'
    BY <2>2, ChainStays
  <2> QED
    BY <2>5, <2>6, <2>7, <2>8 DEF XInv
<1> QED
  BY <1>1, <1>2

LEMMA AnswerEntryXInv ==
    ASSUME IInv, WInv, XInv, status = "stored", AnswerEntry,
           UNCHANGED <<status, options, samples, summary>>
    PROVE  XInv'
<1>1. /\ indexed = "reading" /\ link = Len(chain) /\ indexed' = "walking"
      /\ answers' = Extended(answers, entry, composed)
      /\ entry' = entry + 1 /\ chain' = <<>> /\ index' = index
  BY DEF AnswerEntry
<1>2. /\ entry \in Nat \ {0} /\ entry <= Len(index)
      /\ chain[Len(chain)].offset = entry /\ Len(chain) \in Nat \ {0}
      /\ link > 0 => composed = Source(chain[link].offset)
  BY <1>1 DEF XInv, ChainHolds, LinkHolds, IInv, ReadersTyped
<1>3. composed = Source(entry)
  BY <1>1, <1>2
<1>4. /\ DOMAIN answers = 1 .. entry - 1
      /\ \A k \in DOMAIN answers : k <= Len(index) /\ answers[k] = Source(k)
  BY <1>1 DEF XInv, AnswersHold
<1>5. DOMAIN answers' = 1 .. entry /\ \A k \in 1 .. entry : k <= Len(index) /\ answers'[k] = Source(k)
  <2>1. (1 .. entry - 1) \cup {entry} = 1 .. entry
    BY <1>2
  <2> QED
    BY <1>1, <1>2, <1>3, <1>4, <2>1 DEF Extended
<1>6. AnswersHold'
  <2>1. entry' - 1 = entry
    BY <1>1, <1>2
  <2> QED
    BY <1>1, <1>5, <2>1, HandleFrame DEF AnswersHold
<1>7. ChainHolds' /\ SeekHolds' /\ LinkHolds'
  BY <1>1 DEF ChainHolds, SeekHolds, LinkHolds
<1>8. Unindexed' /\ AtRest' /\ IndexHolds'
  BY <1>1 DEF XInv, Unindexed, AtRest, IndexHolds
<1> QED
  BY <1>6, <1>7, <1>8 DEF XInv

LEMMA FinishXInv ==
    ASSUME XInv, status = "stored", FinishIndexed, UNCHANGED <<status, options, samples, summary>>
    PROVE  XInv'
<1>1. indexed = "walking" /\ indexed' = "ok" /\ UNCHANGED <<index, entry, chain, answers>>
  BY DEF FinishIndexed
<1>2. ChainHolds' /\ SeekHolds'
  BY <1>1, ChainStays
<1>3. AnswersHold'
  BY <1>1, HandleFrame DEF XInv, AnswersHold
<1> QED
  BY <1>1, <1>2, <1>3 DEF XInv, Unindexed, AtRest, IndexHolds, LinkHolds

LEMMA NextXInv == IInv /\ WInv /\ XInv /\ [Next]_vars => XInv'
<1> SUFFICES ASSUME IInv, WInv, XInv, [Next]_vars PROVE XInv'
  OBVIOUS
<1> USE DEF handleVars, encodeVars, readerVars
<1>1. CASE Read /\ DecodeIndexed
  <2>1. status = "stored" /\ UNCHANGED <<status, options, samples, summary>>
    BY <1>1 DEF Read
  <2> QED
    BY <1>1, <2>1, OpenXInv, StartChainXInv, WalkBackXInv, CheckDepthXInv, ReadLinkXInv,
       AnswerEntryXInv, FinishXInv DEF DecodeIndexed
<1>2. CASE Read /\ DecodeStreamed
  <2>1. UNCHANGED indexedVars
    BY <1>2, StreamedFrame DEF IInv
  <2> QED
    BY <1>2, <2>1, IndexedStays DEF Read
<1>3. CASE UNCHANGED vars
  BY <1>3, IndexedStays DEF vars
<1>4. CASE SetOptions \/ AddSample \/ Encode \/ EncodeStep \/ Store
  <2>1. UNCHANGED indexedVars /\ status # "stored"
    BY <1>4 DEF SetOptions, AddSample, Encode, Refused, Collecting, EncodeStep, EmitKeyframe, EmitDelta,
                EmitRefused, WriteSummary, Store, Encoding
  <2>2. indexed = "waiting" /\ indexed' = "waiting"
    BY <2>1 DEF XInv, Unindexed, indexedVars
  <2> QED
    BY <2>1, <2>2, WaitingStays
<1> QED
  BY <1>1, <1>2, <1>3, <1>4 DEF Next, Read, Done

----------------------------------------------------------------------------
(* What the indexed reader delivers, and how far it looks                  *)

RInv == IInv /\ WInv /\ XInv

LEMMA InitRInv == Init => RInv
BY InitIInv, InitWInv, InitXInv DEF RInv

LEMMA NextRInv == RInv /\ [Next]_vars => RInv'
BY NextIInv, NextWInv, NextXInv DEF RInv

\* decode_indexed delivers the samples: whatever chain the index leads it
\* through, the population it composes for an entry is the sample of the entry,
\* bin for bin, under the interval the sample was given.
THEOREM IndexedCorrect == Spec => []IndexedIsSource
<1>1. RInv => IndexedIsSource
  <2> SUFFICES ASSUME RInv, NEW k \in DOMAIN answers
               PROVE  /\ k \in DOMAIN samples /\ answers[k] = Source(k)
                      /\ index[k].t0 = samples[k].t0 /\ index[k].t1 = T1(k)
    BY DEF IndexedIsSource
  <2>1. k \in Nat \ {0} /\ k <= Len(index) /\ answers[k] = Source(k)
    BY DEF RInv, XInv, AnswersHold, IInv, ReadersTyped
  <2>2. index # <<>>
    BY <2>1
  <2>3. Len(index) = Len(samples) /\ Len(index) \in Nat /\ k \in 1 .. Len(index) /\ Names(index[k], k)
    BY <2>1, <2>2, IndexNames DEF RInv
  <2>4. k \in DOMAIN samples
    BY <2>3 DEF RInv, IInv, Typed, IsSeq
  <2> QED
    BY <2>1, <2>3, <2>4 DEF Names
<1> QED
  BY InitRInv, NextRInv, <1>1, PTL DEF Spec

\* A multiple lies within a cadence behind every position.
LEMMA MultipleBehind ==
    ASSUME NEW n \in Nat \ {0}, NEW m \in Nat
    PROVE  \E k \in Int : 0 <= k /\ k <= m /\ m < k + n /\ k % n = 0
<1>1. PICK q \in Int : q = m \div n
  OBVIOUS
<1>2. PICK r \in Int : r = m % n
  OBVIOUS
<1>3. m = n * q + r /\ 0 <= r /\ r < n /\ q >= 0
  BY <1>1, <1>2
<1>4. (n * q) % n = 0
  OBVIOUS
<1>5. PICK k \in Int : k = n * q
  OBVIOUS
<1>6. k % n = 0
  BY <1>4, <1>5
<1>7. 0 <= k
  BY <1>3, <1>5
<1>8. k <= m /\ m < k + n
  BY ONLY <1>2, <1>3, <1>5
<1> QED
  BY <1>6, <1>7, <1>8

\* A keyframe every so many samples is never further away than that.
LEMMA GroupIsShort ==
    ASSUME NEW i \in Nat \ {0}, NEW n \in Nat \ {0}, n = options.every
    PROVE  i - KeyframeIndex(i) < n
<1>1. PICK m \in Nat : m = i - 1
  OBVIOUS
<1>2. PICK r \in Int : 0 <= r /\ r <= m /\ m < r + n /\ r % n = 0
  BY MultipleBehind
<1>3. PICK k \in Int : k = r + 1
  OBVIOUS
<1>4. k \in 1 .. i /\ k - 1 = r /\ i - k < n
  BY <1>1, <1>2, <1>3
<1>5. IsKeyframe(k)
  BY <1>2, <1>4 DEF IsKeyframe
<1>6. KeyframeIndex(i) \in 1 .. i /\ \A j \in KeyframeIndex(i) + 1 .. i : ~IsKeyframe(j)
  BY NearestKeyframe
<1>7. ~(KeyframeIndex(i) < k)
  BY <1>4, <1>5, <1>6
<1> QED
  BY <1>4, <1>6, <1>7

\* A seek costs at most one group of pictures: every chain decode_indexed walks
\* stays behind the keyframe nearest to the entry asked for, is that keyframe
\* and one delta in keyframe mode, and is never longer than the cadence.
THEOREM SeeksBounded == Spec => []SeeksWithinGroup
<1>1. RInv => SeeksWithinGroup
  <2> SUFFICES ASSUME RInv, chain # <<>>
               PROVE  /\ \A k \in DOMAIN chain : chain[k].offset \in KeyframeIndex(entry) .. entry
                      /\ options.mode = DELTA_MODE_KEYFRAME => Len(chain) <= 2
                      /\ options.every > 0 => Len(chain) <= options.every
    BY DEF SeeksWithinGroup
  <2>1. /\ IsSeq(chain) /\ Len(chain) \in Nat \ {0} /\ DOMAIN chain = 1 .. Len(chain)
        /\ entry \in Nat \ {0} /\ chain[1].offset \in KeyframeIndex(entry) .. entry
        /\ Len(chain) <= entry - chain[1].offset + 1
        /\ \A k \in 1 .. Len(chain) : chain[k].offset \in KeyframeIndex(entry) .. entry
        /\ options.mode = DELTA_MODE_KEYFRAME => Len(chain) <= 2
    <3>1. /\ IsSeq(chain) /\ Len(chain) \in Nat \ {0} /\ DOMAIN chain = 1 .. Len(chain)
          /\ entry \in Nat \ {0}
      BY DEF RInv, XInv, ChainHolds, IInv, ReadersTyped, IsSeq
    <3>2. SeekHolds
      BY DEF RInv, XInv
    <3>3. 1 \in 1 .. Len(chain)
      BY <3>1
    <3> QED
      BY <3>1, <3>2, <3>3 DEF SeekHolds
  <2>2. KeyframeIndex(entry) \in 1 .. entry
    BY <2>1, NearestKeyframe
  <2>3. ASSUME options.every > 0 PROVE Len(chain) <= options.every
    <3>1. options.every \in Nat \ {0}
      BY <2>3, OptionAssumption DEF RInv, IInv, Typed, Option
    <3>2. entry - KeyframeIndex(entry) < options.every
      BY <2>1, <3>1, GroupIsShort
    <3> QED
      BY <2>1, <2>2, <3>1, <3>2
  <2> QED
    BY <2>1, <2>3
<1> QED
  BY InitRInv, NextRInv, <1>1, PTL DEF Spec

----------------------------------------------------------------------------
(* How far the streamed reader has come                                    *)

Unstreamed == streamed = "waiting" \/ status = "stored"

\* The rows the record of sample o declares.
Rows(o) == IF IsKeyframe(o) THEN Cardinality(Source(o).ids)
           ELSE Operations(DeltaGroups(Source(Reference(o)), Source(o)))

\* It has decoded the state records up to where it is, and counted their rows.
DecodedHolds ==
    /\ DOMAIN decoded = IF streamed \in {"reading", "ok"}
                        THEN {o \in 1 .. at - 1 : o <= Len(samples)} ELSE {}
    /\ \A o \in DOMAIN decoded : decoded[o].ops = Rows(o)

AtHolds == /\ streamed \in {"reading", "ok"} => at <= Len(file) + 1
           /\ streamed = "ok" => at = Len(file) + 1

DInv == Unstreamed /\ DecodedHolds /\ AtHolds

LEMMA InitDInv == Init => DInv
BY DEF Init, ReadersWaiting, DInv, Unstreamed, DecodedHolds, AtHolds, NoChunks

LEMMA RowsFrame ==
    ASSUME UNCHANGED <<options, samples>>
    PROVE  \A o : Rows(o)' = Rows(o)
<1> SUFFICES ASSUME NEW o PROVE Rows(o)' = Rows(o)
  OBVIOUS
<1>1. /\ IsKeyframe(o)' = IsKeyframe(o) /\ Source(o)' = Source(o)
      /\ Reference(o)' = Reference(o)
  BY HandleFrame
<1>2. Source(Reference(o))' = Source(Reference(o))
  <2>1. PICK q : q = Reference(o)'
    BY <1>1
  <2>2. Source(q)' = Source(q)
    BY HandleFrame
  <2> QED
    BY <1>1, <2>1, <2>2
<1>3. DeltaGroups(Source(Reference(o)), Source(o))' = DeltaGroups(Source(Reference(o)), Source(o))
  BY <1>1, <1>2
<1> QED
  BY <1>1, <1>3, Zenon DEF Rows, Operations

LEMMA WaitingDInv ==
    ASSUME DInv, UNCHANGED streamedVars, streamed = "waiting"
    PROVE  DInv'
<1>1. streamed' = "waiting" /\ DOMAIN decoded' = {}
  BY DEF DInv, DecodedHolds, streamedVars
<1> QED
  BY <1>1 DEF DInv, Unstreamed, DecodedHolds, AtHolds

LEMMA StreamedStays ==
    ASSUME DInv, UNCHANGED <<streamedVars, options, samples, file, status>>
    PROVE  DInv'
BY RowsFrame DEF DInv, Unstreamed, DecodedHolds, AtHolds, streamedVars

\* Whether a record states a sample is a matter of its number.
LEMMA StateRecords ==
    ASSUME IInv, Writing, NEW n \in 1 .. Len(file)
    PROVE  /\ n <= Len(samples) <=> file[n].op \in StateRecord
           /\ n <= Len(samples) => (file[n].op = "CHUNK" <=> IsKeyframe(n))
<1>1. n \in DOMAIN file
  BY DEF IInv, Typed, IsSeq
<1>2. IF n <= Len(samples) THEN RecordHolds(n) ELSE file[n].op \notin StateRecord
  BY <1>1 DEF IInv, FileHolds
<1>3. ASSUME RecordHolds(n) PROVE file[n].op \in StateRecord /\ (file[n].op = "CHUNK" <=> IsKeyframe(n))
  BY <1>3 DEF RecordHolds, StateRecord
<1> QED
  BY <1>2, <1>3

\* The next record is decoded.
LEMMA OneMoreDecoded ==
    ASSUME IInv, DInv, status = "stored", UNCHANGED <<options, samples, file, status>>,
           streamed = "reading", streamed' = "reading", at <= Len(file), at' = at + 1,
           IF at <= Len(samples)
           THEN \E info : decoded' = Extended(decoded, at, info) /\ info.ops = Rows(at)
           ELSE decoded' = decoded
    PROVE  DInv'
<1>1. /\ at \in Nat \ {0} /\ Len(file) \in Nat /\ Len(samples) \in Nat
      /\ DOMAIN decoded = {o \in 1 .. at - 1 : o <= Len(samples)}
      /\ \A o \in DOMAIN decoded : decoded[o].ops = Rows(o)
  BY DEF IInv, ReadersTyped, Typed, IsSeq, DInv, DecodedHolds
<1>2. {o \in 1 .. at' - 1 : o <= Len(samples)} =
      IF at <= Len(samples) THEN {o \in 1 .. at - 1 : o <= Len(samples)} \cup {at}
                            ELSE {o \in 1 .. at - 1 : o <= Len(samples)}
  <2>1. at' - 1 = at
    BY <1>1
  <2>2. \A o : o \in 1 .. at <=> o \in 1 .. at - 1 \/ o = at
    BY <1>1
  <2> QED
    BY <2>1, <2>2
<1>3. /\ DOMAIN decoded' = {o \in 1 .. at' - 1 : o <= Len(samples)}
      /\ \A o \in DOMAIN decoded' : decoded'[o].ops = Rows(o)
  <2>1. CASE at <= Len(samples)
    <3>1. PICK info : decoded' = Extended(decoded, at, info) /\ info.ops = Rows(at)
      BY <2>1
    <3> QED
      BY <1>1, <1>2, <2>1, <3>1 DEF Extended
  <2>2. CASE ~(at <= Len(samples))
    BY <1>1, <1>2, <2>2
  <2> QED
    BY <2>1, <2>2
<1>4. DecodedHolds'
  BY <1>3, RowsFrame DEF DecodedHolds
<1>5. AtHolds'
  BY <1>1 DEF AtHolds
<1> QED
  BY <1>4, <1>5 DEF DInv, Unstreamed

LEMMA ReadChunkDInv ==
    ASSUME IInv, DInv, status = "stored", ReadChunk, UNCHANGED <<options, samples, status>>
    PROVE  DInv' /\ at <= Len(samples) /\ decoded' = Extended(decoded, at, decoded'[at])
<1>1. PICK n : n = at
  OBVIOUS
<1>2. /\ n \in 1 .. Len(file) /\ n \in DOMAIN file /\ file[n].op = "CHUNK" /\ StreamedAccepts(file[n])
      /\ streamed = "reading" /\ streamed' = "reading" /\ at' = at + 1 /\ file' = file
  BY <1>1 DEF ReadChunk, ReadingRecord, IInv, Typed, ReadersTyped, IsSeq, fileVars
<1>3. file[n].op \in StateRecord
  BY <1>2 DEF StateRecord
<1>4. n <= Len(samples) /\ IsKeyframe(n) /\ n \in 1 .. Len(samples)
  BY <1>2, <1>3, StateRecords DEF Writing, IInv, Typed, IsSeq
<1>5. KeyframeState(file[n].group).code = "ok"
  BY <1>2 DEF StreamedAccepts, KeyframeAccepted
<1>6. KeyframeState(file[n].group).state = Source(n)
  BY <1>2, <1>4, <1>5, KeyframeDecodes DEF Writing
<1>7. PICK info : info = ChunkInfo(file[n], Cardinality(Source(n).ids), Source(n))
  OBVIOUS
<1>8. decoded' = Extended(decoded, n, info)
  BY <1>1, <1>6, <1>7 DEF ReadChunk
<1>9. info.ops = Rows(n) /\ decoded'[n] = info
  BY <1>4, <1>7, <1>8 DEF ChunkInfo, Rows, Extended
<1>10. DInv'
  BY <1>1, <1>2, <1>4, <1>8, <1>9, OneMoreDecoded
<1> QED
  BY <1>1, <1>4, <1>8, <1>9, <1>10

LEMMA ReadDeltaDInv ==
    ASSUME IInv, DInv, status = "stored", ReadDeltaChunk, UNCHANGED <<options, samples, status>>
    PROVE  DInv' /\ at <= Len(samples) /\ decoded' = Extended(decoded, at, decoded'[at])
<1>1. PICK n : n = at
  OBVIOUS
<1>2. /\ n \in 1 .. Len(file) /\ n \in DOMAIN file /\ file[n].op = "DELTA_CHUNK"
      /\ streamed = "reading" /\ streamed' = "reading" /\ at' = at + 1 /\ file' = file
  BY <1>1 DEF ReadDeltaChunk, ReadingRecord, IInv, Typed, ReadersTyped, IsSeq, fileVars
<1>3. file[n].op \in StateRecord
  BY <1>2 DEF StateRecord
<1>4. n <= Len(samples) /\ ~IsKeyframe(n) /\ n \in 1 .. Len(samples)
  BY <1>2, <1>3, StateRecords DEF Writing, IInv, Typed, IsSeq
<1>5. file[n].groups = DeltaGroups(Source(Reference(n)), Source(n))
  BY <1>2, <1>4, SurvivingRecord DEF RecordHolds, Writing
<1>6. PICK info : info = ChunkInfo(file[n], Operations(file[n].groups),
                                   ApplyDelta(decoded[file[n].reference].state, file[n].groups).state)
  OBVIOUS
<1>7. decoded' = Extended(decoded, n, info)
  BY <1>1, <1>6 DEF ReadDeltaChunk
<1>8. info.ops = Rows(n) /\ decoded'[n] = info
  BY <1>4, <1>5, <1>6, <1>7 DEF ChunkInfo, Rows, Extended
<1>9. DInv'
  BY <1>1, <1>2, <1>4, <1>7, <1>8, OneMoreDecoded
<1> QED
  BY <1>1, <1>4, <1>7, <1>8, <1>9

LEMMA ReadNoStateDInv ==
    ASSUME IInv, DInv, status = "stored", ReadChunkIndex \/ ReadOther,
           UNCHANGED <<options, samples, status>>
    PROVE  DInv'
<1>1. PICK n : n = at
  OBVIOUS
<1>2. /\ n \in 1 .. Len(file) /\ file[n].op \notin StateRecord
      /\ streamed = "reading" /\ streamed' = "reading" /\ at' = at + 1 /\ file' = file
      /\ decoded' = decoded
  BY <1>1, SummaryIsNoState DEF ReadChunkIndex, ReadOther, ReadingRecord, IInv, Typed, ReadersTyped, IsSeq, fileVars
<1>3. ~(n <= Len(samples))
  BY <1>2, StateRecords DEF Writing
<1> QED
  BY <1>1, <1>2, <1>3, OneMoreDecoded

LEMMA StreamedEndsDInv ==
    ASSUME IInv, DInv, status = "stored", OpenStreamed \/ RefuseRecord \/ EndOfRecords,
           UNCHANGED <<options, samples, status>>
    PROVE  DInv'
<1>1. file' = file /\ at \in Nat \ {0} /\ Len(file) \in Nat /\ DOMAIN NoChunks = {}
  BY DEF OpenStreamed, RefuseRecord, EndOfRecords, fileVars, IInv, ReadersTyped, Typed, IsSeq, NoChunks
<1>2. CASE OpenStreamed
  <2>1. at' = 1 /\ DOMAIN decoded' = {} /\ streamed' \in {"refused", "reading"} /\ {o \in 1 .. at' - 1 : o <= Len(samples)} = {}
    BY <1>1, <1>2 DEF OpenStreamed
  <2> QED
    BY <1>1, <2>1 DEF DInv, Unstreamed, DecodedHolds, AtHolds
<1>3. CASE RefuseRecord
  BY <1>1, <1>3 DEF RefuseRecord, DInv, Unstreamed, DecodedHolds, AtHolds
<1>4. CASE EndOfRecords
  <2>1. /\ streamed = "reading" /\ at = Len(file) + 1 /\ at' = at
        /\ \/ streamed' = "refused" /\ decoded' = NoChunks
           \/ streamed' = "ok" /\ decoded' = decoded
    BY <1>1, <1>4 DEF EndOfRecords, DInv, AtHolds
  <2>2. DecodedHolds'
    BY <1>1, <2>1, RowsFrame DEF DInv, DecodedHolds
  <2> QED
    BY <1>1, <2>1, <2>2 DEF DInv, Unstreamed, AtHolds
<1> QED
  BY <1>2, <1>3, <1>4

LEMMA NextDInv == IInv /\ DInv /\ [Next]_vars => DInv'
<1> SUFFICES ASSUME IInv, DInv, [Next]_vars PROVE DInv'
  OBVIOUS
<1> USE DEF handleVars, encodeVars, readerVars
<1>1. CASE Read /\ DecodeStreamed
  <2>1. status = "stored" /\ UNCHANGED <<options, samples, status>>
    BY <1>1 DEF Read
  <2> QED
    BY <1>1, <2>1, ReadChunkDInv, ReadDeltaDInv, ReadNoStateDInv, StreamedEndsDInv DEF DecodeStreamed
<1>2. CASE Read /\ DecodeIndexed
  <2>1. UNCHANGED <<fileVars, streamedVars>>
    BY <1>2, IndexedFrame DEF IInv
  <2> QED
    BY <1>2, <2>1, StreamedStays DEF Read, fileVars
<1>3. CASE UNCHANGED vars
  BY <1>3, StreamedStays DEF vars, fileVars
<1>4. CASE SetOptions \/ AddSample \/ Encode \/ EncodeStep \/ Store
  <2>1. UNCHANGED streamedVars /\ status # "stored"
    BY <1>4 DEF SetOptions, AddSample, Encode, Refused, Collecting, EncodeStep, EmitKeyframe, EmitDelta,
                EmitRefused, WriteSummary, Store, Encoding
  <2> QED
    BY <2>1, WaitingDInv DEF DInv, Unstreamed
<1> QED
  BY <1>1, <1>2, <1>3, <1>4 DEF Next, Read, Done

----------------------------------------------------------------------------
(* What all of it implements: StateTimeline, step by step                  *)

\* The timeline the samples stand for.
Sources == [i \in DOMAIN samples |-> Source(i)]

\* What a function on an initial segment is: a list.
LEMMA SegmentIsSeq ==
    ASSUME NEW n \in Nat, NEW f, f = [i \in 1 .. n |-> f[i]]
    PROVE  IsSeq(f) /\ Len(f) = n
BY DEF IsSeq

\* A list with one more entry, as a function.
LEMMA AppendAsFunction ==
    ASSUME NEW s, IsSeq(s), NEW x
    PROVE  Append(s, x) = [i \in 1 .. Len(s) + 1 |-> IF i = Len(s) + 1 THEN x ELSE s[i]]
BY AppendIsSeq DEF IsSeq

\* A handle that has not returned its bytes shows nothing.
LEMMA SilentSteps ==
    ASSUME ~Published, ~Published', UNCHANGED <<streamed, decoded, indexed, answers>>
    PROVE  UNCHANGED Timeline!vars
<1>1. Known' = Known /\ Outcome' = Outcome
  BY DEF Known, Outcome
<1> QED
  BY <1>1 DEF Timeline!vars

\* Neither does a step that delivers no population and no verdict.
LEMMA QuietSteps ==
    ASSUME UNCHANGED <<options, samples>>, Published <=> Published',
           Known' = Known, Outcome' = Outcome
    PROVE  UNCHANGED Timeline!vars
<1>1. Sources' = Sources
  BY HandleFrame DEF Sources
<1> QED
  BY <1>1 DEF Timeline!vars, Sources

\* What a record states is a population the caller could have offered.
LEMMA SourceIsQuantized ==
    ASSUME IInv, Writing, NEW i \in 1 .. Len(samples), i \in DOMAIN file
    PROVE  IsQuantized(Source(i)) /\ Source(i).ids = samples[i].state.ids
<1>1. IsSample(samples[i])
  BY SampleAssumption, BoundAssumption DEF IInv, Typed
<1>2. Carries(Source(i), REQUIRED)
  BY SurvivingRecord
<1>3. /\ Source(i).ids = samples[i].state.ids
      /\ \A a \in REQUIRED \ {"mu_t"} : Source(i).bins[a] = samples[i].state.bins[a]
  BY <1>1 DEF Source, Restated, IsSample, IsQuantized
<1>4. "rotation_index" \in REQUIRED \ {"mu_t"} /\ "window_index" \in REQUIRED \ {"mu_t"}
  BY DEF REQUIRED, Rotation, GOP_INVARIANT
<1> QED
  BY <1>1, <1>2, <1>3, <1>4 DEF IsQuantized, IsSample, Carries

\* Returning the bytes publishes the timeline.
LEMMA WriteSummaryPublishes ==
    ASSUME IInv, WInv, WriteSummary
    PROVE  Timeline!Publish
<1>1. /\ status = "encoding" /\ status' = "delivered" /\ Writing
      /\ UNCHANGED <<options, samples, streamed, decoded, indexed, answers>>
      /\ Len(file) = Len(samples)
  BY DEF WriteSummary, handleVars, readerVars, streamedVars, indexedVars, Writing
<1>2. ~Published /\ Published'
  BY <1>1 DEF Published
<1>3. Known' = Known /\ Outcome' = Outcome /\ Sources' = Sources
  BY <1>1, HandleFrame DEF Known, Outcome, Sources
<1>4. Sources # <<>>
  <2>1. samples # <<>> /\ IsSeq(samples)
    BY <1>1 DEF WInv, FrontHolds, Tiling, IInv, Typed
  <2>2. DOMAIN samples # {}
    BY <2>1 DEF IsSeq
  <2> QED
    BY <2>2 DEF Sources
<1>5. ASSUME NEW i \in DOMAIN samples PROVE IsQuantized(Source(i))
  <2>1. i \in 1 .. Len(samples) /\ i \in DOMAIN file
    BY <1>1 DEF IInv, Typed, IsSeq
  <2> QED
    BY <1>1, <2>1, SourceIsQuantized
<1> QED
  BY <1>2, <1>3, <1>4, <1>5 DEF Timeline!Publish, Sources

\* One reader composes a population, or loses them all.
LEMMA StreamedField ==
    ASSUME NEW k, NEW a, NEW x,
           Known = [streamed |-> k, indexed |-> a], Known' = [streamed |-> x, indexed |-> a]
    PROVE  Known["streamed"] = k /\ Known' = [Known EXCEPT !["streamed"] = x]
<1>1. PICK p : p = Known
  OBVIOUS
<1>2. PICK q : q = Known'
  OBVIOUS
<1>3. p = [streamed |-> k, indexed |-> a] /\ q = [streamed |-> x, indexed |-> a]
  BY <1>1, <1>2
<1>4. q = [p EXCEPT !["streamed"] = x]
  BY ONLY <1>3
<1>5. p["streamed"] = k
  BY ONLY <1>3
<1> QED
  BY <1>1, <1>2, <1>4, <1>5, Zenon

LEMMA IndexedField ==
    ASSUME NEW k, NEW a, NEW x,
           Known = [streamed |-> k, indexed |-> a], Known' = [streamed |-> k, indexed |-> x]
    PROVE  Known["indexed"] = a /\ Known' = [Known EXCEPT !["indexed"] = x]
<1>1. PICK p : p = Known
  OBVIOUS
<1>2. PICK q : q = Known'
  OBVIOUS
<1>3. p = [streamed |-> k, indexed |-> a] /\ q = [streamed |-> k, indexed |-> x]
  BY <1>1, <1>2
<1>4. q = [p EXCEPT !["indexed"] = x]
  BY ONLY <1>3
<1>5. p["indexed"] = a
  BY ONLY <1>3
<1> QED
  BY <1>1, <1>2, <1>4, <1>5, Zenon

LEMMA OnePopulationMore ==
    ASSUME Published, Published', Sources' = Sources, Outcome' = Outcome,
           NEW r, Outcome[r] = "open",
           NEW k, Known[r] = k, Len(k) < Len(Sources),
           Known' = [Known EXCEPT ![r] = Append(k, Sources[Len(k) + 1])]
    PROVE  Timeline!Learn(r)
BY DEF Timeline!Learn, Sources

\* Every state chunk the streamed reader composes is the next of the timeline.
LEMMA StreamedLearns ==
    ASSUME Published, UNCHANGED <<options, samples, status, indexed, answers>>,
           streamed = "reading", streamed' = "reading", IsSeq(samples),
           NEW n \in 1 .. Len(samples), DOMAIN decoded = 1 .. n - 1,
           NEW info, info.state = Source(n), decoded' = Extended(decoded, n, info)
    PROVE  Timeline!Learn("streamed")
<1>1. PICK k : k = [o \in DOMAIN decoded |-> decoded[o].state]
  OBVIOUS
<1>2. n \in Nat /\ n - 1 \in Nat /\ n \in DOMAIN samples /\ Len(samples) \in Nat
  BY DEF IsSeq
<1>3. IsSeq(k) /\ Len(k) = n - 1
  BY <1>1, <1>2, SegmentIsSeq
<1>4. [o \in DOMAIN decoded |-> decoded[o].state]' = Append(k, Source(n))
  <2>1. DOMAIN decoded' = 1 .. n
    BY <1>2 DEF Extended
  <2>2. \A o \in 1 .. n : decoded'[o].state = IF o = n THEN Source(n) ELSE k[o]
    BY <1>1, <1>2, <2>1 DEF Extended
  <2>3. Append(k, Source(n)) = [o \in 1 .. n |-> IF o = n THEN Source(n) ELSE k[o]]
    BY <1>2, <1>3, AppendAsFunction
  <2> QED
    BY <2>1, <2>2, <2>3
<1>5. Known = [streamed |-> k, indexed |-> answers]
      /\ Known' = [streamed |-> Append(k, Source(n)), indexed |-> answers]
  BY <1>1, <1>4 DEF Known
<1>6. Known' = [Known EXCEPT !["streamed"] = Append(k, Source(n))] /\ Known["streamed"] = k
  <2>1. PICK x : x = Append(k, Source(n))
    OBVIOUS
  <2> QED
    BY <1>5, <2>1, StreamedField
<1>7. Outcome' = Outcome /\ Outcome["streamed"] = "open"
  BY DEF Outcome
<1>8. Sources' = Sources /\ Sources[n] = Source(n) /\ IsSeq(Sources) /\ Len(Sources) = Len(samples)
  <2>1. Sources = [i \in 1 .. Len(samples) |-> Source(i)]
    BY DEF Sources, IsSeq
  <2>2. IsSeq(Sources) /\ Len(Sources) = Len(samples)
    BY <1>2, <2>1, SegmentIsSeq
  <2> QED
    BY <1>2, <2>1, <2>2, HandleFrame DEF Sources
<1>9. Published'
  BY DEF Published
<1>10. Sources[Len(k) + 1] = Source(n) /\ Len(k) < Len(Sources)
  BY <1>2, <1>3, <1>8
<1> QED
  BY <1>6, <1>7, <1>8, <1>9, <1>10, OnePopulationMore

\* Answers are given one by one.
Listed == answers = [k \in DOMAIN answers |-> answers[k]]

LEMMA NextListed == IInv /\ Listed /\ [Next]_vars => Listed'
<1> SUFFICES ASSUME IInv, Listed, [Next]_vars PROVE Listed'
  OBVIOUS
<1> USE DEF handleVars, encodeVars, readerVars
<1>1. CASE Read /\ DecodeIndexed
  <2>1. CASE AnswerEntry
    <3>1. answers' = Extended(answers, entry, composed)
      BY <2>1 DEF AnswerEntry
    <3>2. PICK D : D = DOMAIN answers \cup {entry}
      OBVIOUS
    <3>3. PICK f : f = [z \in D |-> IF z = entry THEN composed ELSE answers[z]]
      OBVIOUS
    <3>4. answers' = f /\ f = [z \in DOMAIN f |-> f[z]]
      BY <3>1, <3>2, <3>3 DEF Extended
    <3> QED
      BY <3>4 DEF Listed
  <2>2. CASE OpenIndexed
    BY <2>2 DEF OpenIndexed, NoAnswers, Listed
  <2>3. CASE RefuseIndexed
    BY <2>3 DEF RefuseIndexed, NoAnswers, Listed
  <2>4. CASE UNCHANGED answers
    BY <2>4 DEF Listed
  <2> QED
    BY <1>1, <2>1, <2>2, <2>3, <2>4
    DEF DecodeIndexed, StartChain, WalkBack, CheckDepth, ReadLink, FinishIndexed
<1>2. CASE Read /\ DecodeStreamed
  <2>1. UNCHANGED indexedVars
    BY <1>2, StreamedFrame DEF IInv
  <2> QED
    BY <2>1 DEF indexedVars, Listed
<1>3. CASE UNCHANGED vars \/ SetOptions \/ AddSample \/ Encode \/ EncodeStep \/ Store
  <2>1. UNCHANGED answers
    BY <1>3 DEF SetOptions, AddSample, Encode, Refused, Collecting, EncodeStep, EmitKeyframe, EmitDelta,
                EmitRefused, WriteSummary, Store, Encoding, vars, indexedVars
  <2> QED
    BY <2>1 DEF Listed
<1> QED
  BY <1>1, <1>2, <1>3 DEF Next, Read, Done

\* Every answer of the indexed reader is the next of the timeline.
LEMMA AnswerEntryLearns ==
    ASSUME IInv, WInv, XInv, Listed, status = "stored", AnswerEntry,
           UNCHANGED <<options, samples, status>>
    PROVE  Timeline!Learn("indexed")
<1>1. PICK n : n = entry
  OBVIOUS
<1>2. /\ indexed = "reading" /\ indexed' = "walking" /\ link = Len(chain)
      /\ answers' = Extended(answers, n, composed)
      /\ UNCHANGED <<streamed, decoded>>
  BY <1>1 DEF AnswerEntry, streamedVars
<1>3. /\ n \in Nat \ {0} /\ n <= Len(index) /\ composed = Source(n)
      /\ DOMAIN answers = 1 .. n - 1
  BY <1>1, <1>2 DEF XInv, ChainHolds, LinkHolds, AnswersHold, IInv, ReadersTyped
<1>4. index # <<>>
  BY <1>3
<1>5. /\ n \in 1 .. Len(samples) /\ n \in DOMAIN samples /\ IsSeq(samples)
      /\ n - 1 \in Nat /\ Len(samples) \in Nat
  BY <1>3, <1>4, IndexNames DEF IInv, Typed, IsSeq
<1>6. IsSeq(answers) /\ Len(answers) = n - 1
  BY <1>3, <1>5, SegmentIsSeq DEF Listed
<1>7. answers' = Append(answers, Source(n))
  <2>1. DOMAIN answers \cup {n} = 1 .. n
    BY <1>3
  <2>2. answers' = [o \in 1 .. n |-> IF o = n THEN Source(n) ELSE answers[o]]
    BY <1>2, <1>3, <2>1 DEF Extended
  <2>3. Append(answers, Source(n)) = [o \in 1 .. n |-> IF o = n THEN Source(n) ELSE answers[o]]
    BY <1>3, <1>6, AppendAsFunction
  <2> QED
    BY <2>2, <2>3
<1>8. PICK k : k = Known["streamed"]
  OBVIOUS
<1>9. /\ Known = [streamed |-> k, indexed |-> answers]
      /\ Known' = [streamed |-> k, indexed |-> Append(answers, Source(n))]
  BY <1>2, <1>7, <1>8 DEF Known
<1>10. Known' = [Known EXCEPT !["indexed"] = Append(answers, Source(n))] /\ Known["indexed"] = answers
  <2>1. PICK x : x = Append(answers, Source(n))
    OBVIOUS
  <2> QED
    BY <1>9, <2>1, IndexedField
<1>11. Outcome' = Outcome /\ Outcome["indexed"] = "open"
  BY <1>2 DEF Outcome
<1>12. Sources' = Sources /\ Sources[n] = Source(n) /\ IsSeq(Sources) /\ Len(Sources) = Len(samples)
  <2>1. Sources = [i \in 1 .. Len(samples) |-> Source(i)]
    BY <1>5 DEF Sources, IsSeq
  <2>2. IsSeq(Sources) /\ Len(Sources) = Len(samples)
    BY <1>5, <2>1, SegmentIsSeq
  <2> QED
    BY <1>5, <2>1, <2>2, HandleFrame DEF Sources
<1>13. Published /\ Published'
  BY DEF Published
<1>14. Sources[Len(answers) + 1] = Source(n) /\ Len(answers) < Len(Sources)
  BY <1>3, <1>5, <1>6, <1>12
<1> QED
  BY <1>10, <1>11, <1>12, <1>13, <1>14, OnePopulationMore

\* A reader that refuses gives up what it had composed, ...
LEMMA RefusalFails ==
    ASSUME Published, UNCHANGED <<options, samples, status>>
    PROVE  /\ /\ streamed \in {"waiting", "reading"} /\ streamed' = "refused"
              /\ decoded' = NoChunks /\ UNCHANGED <<indexed, answers>>
              => Timeline!Fail("streamed")
           /\ /\ indexed \in {"waiting", "walking", "reading"} /\ indexed' = "refused"
              /\ answers' = NoAnswers /\ UNCHANGED <<streamed, decoded>>
              => Timeline!Fail("indexed")
<1>1. Sources' = Sources /\ Published'
  BY HandleFrame DEF Sources, Published
<1>2. ASSUME streamed \in {"waiting", "reading"}, streamed' = "refused",
             decoded' = NoChunks, UNCHANGED <<indexed, answers>>
      PROVE  Timeline!Fail("streamed")
  <2>1. PICK v : v = Outcome["indexed"]
    OBVIOUS
  <2>2. Outcome = [streamed |-> "open", indexed |-> v] /\ Outcome' = [streamed |-> "failed", indexed |-> v]
    BY <1>2, <2>1 DEF Outcome
  <2>3. PICK k : k = Known["streamed"]
    OBVIOUS
  <2>4. [o \in DOMAIN decoded |-> decoded[o].state]' = <<>>
    BY <1>2 DEF NoChunks
  <2>5. Known = [streamed |-> k, indexed |-> answers] /\ Known' = [streamed |-> <<>>, indexed |-> answers]
    BY <1>2, <2>3, <2>4 DEF Known
  <2>6. Outcome' = [Outcome EXCEPT !["streamed"] = "failed"] /\ Outcome["streamed"] = "open"
    BY <2>2
  <2>7. PICK x : x = <<>>
    OBVIOUS
  <2>8. Known' = [Known EXCEPT !["streamed"] = <<>>]
    BY <2>5, <2>7, StreamedField
  <2> QED
    BY <1>1, <2>6, <2>8 DEF Timeline!Fail, Sources
<1>3. ASSUME indexed \in {"waiting", "walking", "reading"}, indexed' = "refused",
             answers' = NoAnswers, UNCHANGED <<streamed, decoded>>
      PROVE  Timeline!Fail("indexed")
  <2>1. PICK v : v = Outcome["streamed"]
    OBVIOUS
  <2>2. Outcome = [streamed |-> v, indexed |-> "open"] /\ Outcome' = [streamed |-> v, indexed |-> "failed"]
    BY <1>3, <2>1 DEF Outcome
  <2>3. PICK k : k = Known["streamed"]
    OBVIOUS
  <2>4. NoAnswers = <<>>
    BY DEF NoAnswers
  <2>5. Known = [streamed |-> k, indexed |-> answers] /\ Known' = [streamed |-> k, indexed |-> <<>>]
    BY <1>3, <2>3, <2>4 DEF Known
  <2>6. Outcome' = [Outcome EXCEPT !["indexed"] = "failed"] /\ Outcome["indexed"] = "open"
    BY <2>2
  <2>7. PICK x : x = <<>>
    OBVIOUS
  <2>8. Known' = [Known EXCEPT !["indexed"] = <<>>]
    BY <2>5, <2>7, IndexedField
  <2> QED
    BY <1>1, <2>6, <2>8 DEF Timeline!Fail, Sources
<1> QED
  BY <1>2, <1>3

\* ... and one that reaches the end keeps it.
LEMMA EndDelivers ==
    ASSUME Published, UNCHANGED <<options, samples, status, decoded, answers>>
    PROVE  /\ streamed = "reading" /\ streamed' = "ok" /\ UNCHANGED indexed => Timeline!Deliver("streamed")
           /\ indexed = "walking" /\ indexed' = "ok" /\ UNCHANGED streamed => Timeline!Deliver("indexed")
<1>1. Sources' = Sources /\ Published' /\ Known' = Known
  BY HandleFrame DEF Sources, Published, Known
<1>2. ASSUME streamed = "reading", streamed' = "ok", UNCHANGED indexed PROVE Timeline!Deliver("streamed")
  <2>1. PICK v : v = Outcome["indexed"]
    OBVIOUS
  <2>2. Outcome = [streamed |-> "open", indexed |-> v] /\ Outcome' = [streamed |-> "delivered", indexed |-> v]
    BY <1>2, <2>1 DEF Outcome
  <2>3. Outcome' = [Outcome EXCEPT !["streamed"] = "delivered"] /\ Outcome["streamed"] = "open"
    BY <2>2
  <2> QED
    BY <1>1, <2>3 DEF Timeline!Deliver, Sources
<1>3. ASSUME indexed = "walking", indexed' = "ok", UNCHANGED streamed PROVE Timeline!Deliver("indexed")
  <2>1. PICK v : v = Outcome["streamed"]
    OBVIOUS
  <2>2. Outcome = [streamed |-> v, indexed |-> "open"] /\ Outcome' = [streamed |-> v, indexed |-> "delivered"]
    BY <1>3, <2>1 DEF Outcome
  <2>3. Outcome' = [Outcome EXCEPT !["indexed"] = "delivered"] /\ Outcome["indexed"] = "open"
    BY <2>2
  <2> QED
    BY <1>1, <2>3 DEF Timeline!Deliver, Sources
<1> QED
  BY <1>2, <1>3

LEMMA StreamedSteps ==
    ASSUME IInv, DInv, status = "stored", DecodeStreamed, UNCHANGED <<options, samples, status>>
    PROVE  Timeline!Next \/ UNCHANGED Timeline!vars
<1>1. Published /\ Published'
  BY DEF Published
<1>2. UNCHANGED indexedVars
  BY StreamedFrame DEF IInv
<1>3. UNCHANGED <<indexed, answers>> /\ IsSeq(samples)
  BY <1>2 DEF indexedVars, IInv, Typed
<1>4. CASE ReadChunk \/ ReadDeltaChunk
  <2>1. PICK n : n = at
    OBVIOUS
  <2>2. /\ n <= Len(samples) /\ decoded' = Extended(decoded, n, decoded'[n])
        /\ DInv' /\ n \in 1 .. Len(samples) /\ streamed = "reading" /\ streamed' = "reading"
    <3>1. DInv' /\ n <= Len(samples) /\ decoded' = Extended(decoded, n, decoded'[n])
      BY <1>4, <2>1, ReadChunkDInv, ReadDeltaDInv
    <3>2. streamed = "reading" /\ streamed' = "reading"
      BY <1>4 DEF ReadChunk, ReadDeltaChunk, ReadingRecord
    <3>3. n \in Nat \ {0} /\ Len(samples) \in Nat
      BY <2>1 DEF IInv, ReadersTyped, Typed, IsSeq
    <3> QED
      BY <3>1, <3>2, <3>3
  <2>3. PICK info : info = decoded'[n]
    OBVIOUS
  <2>4. info.state = Source(n)
    <3>1. StreamedIsSource'
      BY <1>4, ReadChunkDelivers, ReadDeltaDelivers
    <3>2. n \in DOMAIN decoded'
      BY <2>2 DEF Extended
    <3>3. decoded'[n].state = Source(n)'
      BY <3>1, <3>2 DEF StreamedIsSource, Delivers
    <3> QED
      BY <2>3, <3>3, HandleFrame
  <2>5. DOMAIN decoded = 1 .. n - 1
    <3>1. DOMAIN decoded = {o \in 1 .. n - 1 : o <= Len(samples)}
      BY <2>1, <2>2 DEF DInv, DecodedHolds
    <3>2. \A o \in 1 .. n - 1 : o <= Len(samples)
      BY <2>2
    <3> QED
      BY <3>1, <3>2
  <2>6. decoded' = Extended(decoded, n, info)
    BY <2>2, <2>3
  <2>7. Timeline!Learn("streamed")
    BY <1>1, <1>3, <2>2, <2>4, <2>5, <2>6, StreamedLearns
  <2> QED
    BY <2>7 DEF Timeline!Next
<1>5. CASE ReadChunkIndex \/ ReadOther
  <2>1. Known' = Known /\ Outcome' = Outcome
    BY <1>3, <1>5 DEF ReadChunkIndex, ReadOther, ReadingRecord, Known, Outcome
  <2> QED
    BY <1>1, <2>1, QuietSteps
<1>6. CASE OpenStreamed /\ streamed' = "reading"
  <2>1. DOMAIN decoded = {} /\ DOMAIN decoded' = {} /\ streamed = "waiting"
    BY <1>6 DEF OpenStreamed, NoChunks, DInv, DecodedHolds
  <2>2. Known' = Known /\ Outcome' = Outcome
    BY <1>3, <1>6, <2>1 DEF Known, Outcome
  <2> QED
    BY <1>1, <2>2, QuietSteps
<1>7. CASE (OpenStreamed \/ RefuseRecord \/ EndOfRecords) /\ streamed' = "refused"
  <2>1. streamed \in {"waiting", "reading"} /\ decoded' = NoChunks
    BY <1>7 DEF OpenStreamed, RefuseRecord, EndOfRecords
  <2>2. Timeline!Fail("streamed")
    BY <1>1, <1>3, <1>7, <2>1, RefusalFails
  <2> QED
    BY <2>2 DEF Timeline!Next
<1>8. CASE EndOfRecords /\ streamed' = "ok"
  <2>1. streamed = "reading" /\ decoded' = decoded
    BY <1>8 DEF EndOfRecords
  <2>2. Timeline!Deliver("streamed")
    BY <1>1, <1>3, <1>8, <2>1, EndDelivers
  <2> QED
    BY <2>2 DEF Timeline!Next
<1> QED
  BY <1>4, <1>5, <1>6, <1>7, <1>8 DEF DecodeStreamed, OpenStreamed, RefuseRecord, EndOfRecords

LEMMA IndexedSteps ==
    ASSUME IInv, WInv, XInv, Listed, status = "stored", DecodeIndexed,
           UNCHANGED <<options, samples, status>>
    PROVE  Timeline!Next \/ UNCHANGED Timeline!vars
<1>1. Published /\ Published'
  BY DEF Published
<1>2. UNCHANGED <<streamed, decoded>>
  BY IndexedFrame DEF IInv, streamedVars
<1>3. CASE AnswerEntry
  BY <1>3, AnswerEntryLearns DEF Timeline!Next
<1>4. CASE /\ indexed \in {"waiting", "walking", "reading"}
           /\ indexed' = "refused" /\ answers' = NoAnswers
  <2>1. Timeline!Fail("indexed")
    BY <1>1, <1>2, <1>4, RefusalFails
  <2> QED
    BY <2>1 DEF Timeline!Next
<1>5. CASE FinishIndexed
  <2>1. indexed = "walking" /\ indexed' = "ok" /\ answers' = answers
    BY <1>5 DEF FinishIndexed
  <2>2. Timeline!Deliver("indexed")
    BY <1>1, <1>2, <2>1, EndDelivers
  <2> QED
    BY <2>2 DEF Timeline!Next
<1>6. CASE /\ indexed \in {"waiting", "walking", "reading"} /\ indexed' \in {"walking", "reading"}
           /\ answers' = answers
  <2>1. Known' = Known /\ Outcome' = Outcome
    BY <1>2, <1>6 DEF Known, Outcome
  <2> QED
    BY <1>1, <2>1, QuietSteps
<1>7. CASE OpenIndexed
  <2>1. indexed = "waiting" /\ answers' = NoAnswers /\ indexed' \in {"walking", "refused"}
    BY <1>7 DEF OpenIndexed
  <2>2. answers = NoAnswers
    <3>1. DOMAIN answers = {} /\ answers = [k \in DOMAIN answers |-> answers[k]]
      BY <2>1 DEF XInv, AnswersHold, Listed
    <3>2. answers = [k \in {} |-> answers[k]]
      BY <3>1
    <3> QED
      BY <3>2 DEF NoAnswers
  <2> QED
    BY <1>4, <1>6, <2>1, <2>2
<1>8. CASE StartChain \/ WalkBack \/ CheckDepth \/ ReadLink
  <2>1. /\ indexed \in {"walking", "reading"}
        /\ \/ indexed' = "refused" /\ answers' = NoAnswers
           \/ indexed' \in {"walking", "reading"} /\ answers' = answers
    BY <1>8 DEF StartChain, WalkBack, CheckDepth, ReadLink, RefuseIndexed, Walking
  <2> QED
    BY <1>4, <1>6, <2>1
<1> QED
  BY <1>3, <1>5, <1>7, <1>8 DEF DecodeIndexed

LEMMA HandleSteps ==
    ASSUME IInv, WInv, SetOptions \/ AddSample \/ Encode \/ EncodeStep \/ Store
    PROVE  Timeline!Next \/ UNCHANGED Timeline!vars
<1> USE DEF handleVars, encodeVars, readerVars, streamedVars, indexedVars
<1>1. CASE WriteSummary
  BY <1>1, WriteSummaryPublishes DEF Timeline!Next
<1>2. CASE Store
  <2>1. Published /\ Published' /\ UNCHANGED <<options, samples>> /\ Known' = Known /\ Outcome' = Outcome
    BY <1>2 DEF Store, Published, Known, Outcome
  <2> QED
    BY <2>1, QuietSteps
<1>3. CASE SetOptions \/ AddSample \/ Encode \/ EmitKeyframe \/ EmitDelta \/ EmitRefused
  <2>1. ~Published /\ ~Published' /\ UNCHANGED <<streamed, decoded, indexed, answers>>
    BY <1>3 DEF SetOptions, AddSample, Encode, Refused, Collecting, EmitKeyframe, EmitDelta,
                EmitRefused, Encoding, Published
  <2> QED
    BY <2>1, SilentSteps
<1> QED
  BY <1>1, <1>2, <1>3 DEF EncodeStep

TInv == RInv /\ DInv /\ Listed

LEMMA InitTInv == Init => TInv
BY InitRInv, InitDInv DEF TInv, Listed, Init, ReadersWaiting, NoAnswers

LEMMA NextTInv == TInv /\ [Next]_vars => TInv'
BY NextRInv, NextDInv, NextListed DEF TInv, RInv

\* The writer, the transport and both readers together are one published
\* timeline: whatever encode() wrote, however the bytes were cut and whichever
\* chains the index names, a reader learns the populations in order, each as it
\* was published, or gives all of it up.
THEOREM TimelineImplemented == Spec => ImplementsTimeline
<1>1. Init => Timeline!Init
  <2> SUFFICES ASSUME Init PROVE Timeline!Init
    OBVIOUS
  <2>1. /\ ~Published /\ streamed = "waiting" /\ indexed = "waiting"
        /\ decoded = NoChunks /\ answers = NoAnswers
    BY DEF Init, ReadersWaiting, Published
  <2>2. NoAnswers = <<>> /\ [o \in DOMAIN decoded |-> decoded[o].state] = <<>>
    BY <2>1 DEF NoAnswers, NoChunks
  <2>3. Known = [streamed |-> <<>>, indexed |-> <<>>] /\ Outcome = [streamed |-> "open", indexed |-> "open"]
    BY <2>1, <2>2 DEF Known, Outcome
  <2>4. Known = [r \in {"streamed", "indexed"} |-> <<>>] /\ Outcome = [r \in {"streamed", "indexed"} |-> "open"]
    BY <2>3
  <2> QED
    BY <2>1, <2>4 DEF Timeline!Init
<1>2. TInv /\ [Next]_vars => [Timeline!Next]_(Timeline!vars)
  <2> SUFFICES ASSUME TInv, [Next]_vars PROVE Timeline!Next \/ UNCHANGED Timeline!vars
    OBVIOUS
  <2> USE DEF TInv, RInv
  <2>1. CASE Read
    <3>1. status = "stored" /\ UNCHANGED <<options, samples, status>> /\ (DecodeStreamed \/ DecodeIndexed)
      BY <2>1 DEF Read, handleVars
    <3> QED
      BY <3>1, StreamedSteps, IndexedSteps
  <2>2. CASE SetOptions \/ AddSample \/ Encode \/ EncodeStep \/ Store
    BY <2>2, HandleSteps
  <2>3. CASE UNCHANGED vars
    <3>1. /\ UNCHANGED <<options, samples>> /\ (Published <=> Published')
          /\ Known' = Known /\ Outcome' = Outcome
      BY <2>3 DEF vars, handleVars, readerVars, streamedVars, indexedVars, Published, Known, Outcome
    <3> QED
      BY <3>1, QuietSteps
  <2> QED
    BY <2>1, <2>2, <2>3 DEF Next, Done
<1> QED
  BY InitTInv, NextTInv, <1>1, <1>2, PTL DEF Spec, ImplementsTimeline, Timeline!Spec

----------------------------------------------------------------------------
(* Nothing encode() wrote is refused                                       *)

\* What the readers ask of a population holds of a sample they can hold.
LEMMA SourceIsAcceptable ==
    ASSUME IInv, WInv, Writing, Representable, NEW n \in 1 .. Len(samples), n \in DOMAIN file
    PROVE  /\ Carries(Source(n), REQUIRED)
           /\ ~OutOfRange(Source(n).bins) /\ ~BadRotation(Source(n))
           /\ WindowsInTable(Source(n))
           /\ Selectable(file[n].t0, file[n].t1, Source(n))
<1>1. IsQuantized(Source(n)) /\ Source(n).ids = samples[n].state.ids
  BY SourceIsQuantized
<1>2. Carries(Source(n), REQUIRED) /\ file[n].t0 = samples[n].t0 /\ file[n].t1 = T1(n)
  BY SurvivingRecord
<1>3. n \in DOMAIN samples
  BY DEF IInv, Typed, IsSeq
<1>4. ~OutOfRange(Source(n).bins)
  BY <1>3 DEF Representable
<1>5. /\ DOMAIN Source(n).bins = REQUIRED
      /\ \A a \in REQUIRED : DOMAIN Source(n).bins[a] = Source(n).ids
  BY <1>2 DEF Carries
<1>6. "rotation_index" \in REQUIRED /\ "window_index" \in REQUIRED
  BY DEF REQUIRED, Rotation, GOP_INVARIANT
<1>7. ~BadRotation(Source(n))
  BY <1>1, <1>5, <1>6 DEF BadRotation, IsQuantized
<1>8. WindowsInTable(Source(n))
  <2>1. header.windows = WINDOWS /\ WINDOWS # 0
    BY BoundAssumption DEF WInv, FrontHolds
  <2> QED
    BY <1>1, <1>5, <1>6, <2>1 DEF WindowsInTable, IsQuantized
<1>9. Selectable(file[n].t0, file[n].t1, Source(n))
  <2>1. Selectable(samples[n].t0, T1(n), samples[n].state)
    BY <1>3 DEF WInv, FrontHolds, Tiling
  <2> QED
    BY <1>1, <1>2, <2>1 DEF Selectable
<1> QED
  BY <1>2, <1>4, <1>7, <1>8, <1>9

\* A keyframe record is accepted, and read as the sample.
LEMMA KeyframeIsAccepted ==
    ASSUME IInv, WInv, Writing, Representable, NEW n \in 1 .. Len(samples), n \in DOMAIN file,
           IsKeyframe(n)
    PROVE  KeyframeAccepted(file[n]) /\ KeyframeState(file[n].group).state = Source(n)
<1>1. file[n].group = Group(Source(n).ids, Source(n).bins) /\ file[n].t0 = samples[n].t0
  BY SurvivingRecord DEF RecordHolds
<1>2. /\ Carries(Source(n), REQUIRED) /\ ~OutOfRange(Source(n).bins) /\ ~BadRotation(Source(n))
      /\ WindowsInTable(Source(n))
  BY SourceIsAcceptable
<1>3. Source(n) = [ids |-> Source(n).ids, bins |-> Source(n).bins] /\ DOMAIN Source(n).bins = REQUIRED
  BY <1>2 DEF Carries
<1>4. PICK s : s = Source(n)
  OBVIOUS
<1>5. KeyframeState(file[n].group) = Ok(s)
  <2>1. /\ file[n].group.ids = s.ids /\ file[n].group.bins = s.bins /\ ~file[n].group.repeated
        /\ s = [ids |-> s.ids, bins |-> s.bins] /\ ~OutOfRange(s.bins) /\ ~BadRotation(s)
    BY <1>1, <1>2, <1>3, <1>4 DEF Group
  <2>2. PICK r : r = [ids |-> file[n].group.ids, bins |-> file[n].group.bins]
    OBVIOUS
  <2>3. r = s /\ r.bins = s.bins
    BY <2>1, <2>2
  <2> QED
    BY <2>1, <2>2, <2>3, Zenon DEF KeyframeState
<1>6. /\ KeyframeState(file[n].group).code = "ok"
      /\ KeyframeState(file[n].group).state = s
  BY <1>5 DEF Ok
<1>7. file[n].readable
  <2>1. n \in 1 .. Len(file) /\ n <= Len(samples)
    BY DEF IInv, Typed, IsSeq
  <2> QED
    BY <2>1 DEF WInv, Readable
<1>8. ~MissingRequired(file[n].group)
  BY <1>1, <1>3 DEF MissingRequired, Group
<1>9. BornAtStart(s, file[n].t0)
  <2>1. IsSample(samples[n]) /\ s = Restated(samples[n].state, samples[n].t0)
    BY <1>4, SampleAssumption, BoundAssumption DEF IInv, Typed, Source
  <2>2. PICK q : q = samples[n].state
    OBVIOUS
  <2>3. /\ q = [ids |-> q.ids, bins |-> q.bins] /\ DOMAIN q.bins = REQUIRED
        /\ s = [q EXCEPT !.bins["mu_t"] =
                   [g \in q.ids |-> MuBin(samples[n].t0, q.bins["sigma_t"][g], q.bins["flags"][g])]]
    BY <2>1, <2>2 DEF IsSample, IsQuantized, Restated
  <2>4. "mu_t" \in REQUIRED /\ "sigma_t" \in REQUIRED /\ "flags" \in REQUIRED
    BY DEF REQUIRED, GOP_INVARIANT
  <2>5. /\ s.ids = q.ids /\ s.bins["sigma_t"] = q.bins["sigma_t"] /\ s.bins["flags"] = q.bins["flags"]
        /\ s.bins["mu_t"] = [g \in q.ids |-> MuBin(samples[n].t0, q.bins["sigma_t"][g], q.bins["flags"][g])]
    BY <2>3, <2>4
  <2> QED
    BY <1>1, <2>5 DEF BornAtStart
<1> QED
  BY <1>2, <1>4, <1>6, <1>7, <1>8, <1>9 DEF KeyframeAccepted

\* A delta record is accepted against its reference, and read as the sample.
LEMMA DeltaIsAccepted ==
    ASSUME IInv, WInv, Writing, Representable, NEW n \in 1 .. Len(samples), n \in DOMAIN file,
           ~IsKeyframe(n), NEW p, p = Reference(n)
    PROVE  DeltaAccepted(Source(p), file[n]) /\ ApplyDelta(Source(p), file[n].groups).state = Source(n)
<1>1. /\ file[n].groups = DeltaGroups(Source(p), Source(n))
      /\ ~ChangesInvariant(Source(p), Source(n))
  BY SurvivingRecord DEF RecordHolds
<1>2. p \in 1 .. Len(samples) /\ p \in DOMAIN file
  <2>1. p \in 1 .. n - 1
    BY ReferenceBehind
  <2> QED
    BY <2>1 DEF IInv, Typed, IsSeq
<1>3. /\ Carries(Source(n), REQUIRED) /\ ~OutOfRange(Source(n).bins) /\ ~BadRotation(Source(n))
      /\ WindowsInTable(Source(n)) /\ Carries(Source(p), REQUIRED)
  BY <1>2, SourceIsAcceptable
<1>4. HasRotation(REQUIRED)
  BY DEF HasRotation, REQUIRED, Rotation
<1>5. ApplyDelta(Source(p), file[n].groups) = Ok(Source(n))
  BY <1>1, <1>3, <1>4, WrittenDeltaAccepted
<1>6. /\ ApplyDelta(Source(p), file[n].groups).code = "ok"
      /\ ApplyDelta(Source(p), file[n].groups).state = Source(n)
  BY <1>5 DEF Ok
<1>7. file[n].readable
  <2>1. n \in 1 .. Len(file) /\ n <= Len(samples)
    BY DEF IInv, Typed, IsSeq
  <2> QED
    BY <2>1 DEF WInv, Readable
<1>8. ~MissingRequired(file[n].groups.birth)
  <2>1. PICK b : b = BirthGroup(Source(p), Source(n))
    OBVIOUS
  <2>2. b.ids # {} => b.bins = [a \in REQUIRED |-> [g \in b.ids |-> Source(n).bins[a][g]]]
    BY <1>3, <2>1, BirthGroupShape
  <2> QED
    BY <1>1, <2>1, <2>2 DEF MissingRequired, DeltaGroups
<1>9. DOMAIN file[n].groups.death.bins = {}
  BY <1>1 DEF DeltaGroups, DeathGroup, Group, NoColumns
<1> QED
  BY <1>3, <1>6, <1>7, <1>8, <1>9 DEF DeltaAccepted

\* The streamed reader refuses for one of two reasons only: a record is cut,
\* or a sample whose record is there cannot be held.
StreamedRefusals == streamed = "refused" => ending = "partial" \/ ~Representable

LEMMA RepresentableFrame ==
    ASSUME UNCHANGED <<options, samples, file>>
    PROVE  Representable' <=> Representable
<1>1. \A i : Source(i)' = Source(i)
  BY HandleFrame
<1> QED
  BY <1>1 DEF Representable

\* No front matter comes after the first record.
LEMMA NoLateFrontMatter ==
    ASSUME IInv, WInv, Published
    PROVE  ~LateFrontMatter
<1>1. ASSUME NEW j \in DOMAIN file PROVE file[j].op # "FRONT_MATTER"
  <2>1. j \in 1 .. Len(file) /\ Len(samples) \in Nat /\ Writing
    BY DEF IInv, Typed, IsSeq, Published, Writing
  <2>2. CASE j <= Len(samples)
    BY <2>1, <2>2, StateRecords DEF StateRecord
  <2>3. CASE j > Len(samples) /\ j <= 2 * Len(samples)
    <3>1. file[j] = summary[j - Len(samples)]
      BY <2>1, <2>3 DEF WInv, TailHolds
    <3>2. j - Len(samples) \in 1 .. Len(summary)
      BY <2>1, <2>3 DEF WInv, SummaryHolds, Published
    <3>3. Names(summary[j - Len(samples)], j - Len(samples))
      BY <2>1, <3>2 DEF WInv, SummaryHolds
    <3> QED
      BY <3>1, <3>3 DEF Names
  <2>4. CASE j > 2 * Len(samples)
    BY <2>1, <2>4 DEF WInv, TailHolds
  <2> QED
    BY <2>1, <2>2, <2>3, <2>4
<1> QED
  BY <1>1 DEF LateFrontMatter

\* The record it is at is accepted.
LEMMA RecordIsAccepted ==
    ASSUME IInv, WInv, DInv, status = "stored", Representable, streamed = "reading", at <= Len(file)
    PROVE  StreamedAccepts(file[at])
<1>1. PICK n : n = at
  OBVIOUS
<1>2. /\ n \in 1 .. Len(file) /\ n \in DOMAIN file /\ Writing /\ Published
      /\ Len(samples) \in Nat /\ Len(file) \in Nat
      /\ DOMAIN decoded = {o \in 1 .. n - 1 : o <= Len(samples)}
      /\ \A o \in DOMAIN decoded : decoded[o].ops = Rows(o) /\ decoded[o].state = Source(o)
  BY <1>1 DEF IInv, Typed, ReadersTyped, IsSeq, DInv, DecodedHolds, StreamedIsSource, Delivers, Writing, Published
<1>3. CASE n <= Len(samples) /\ IsKeyframe(n)
  <2>1. n \in 1 .. Len(samples) /\ file[n].op = "CHUNK"
    BY <1>2, <1>3, StateRecords
  <2>2. /\ KeyframeAccepted(file[n]) /\ KeyframeState(file[n].group).state = Source(n)
        /\ Selectable(file[n].t0, file[n].t1, Source(n))
    BY <1>2, <1>3, <2>1, KeyframeIsAccepted, SourceIsAcceptable
  <2> QED
    BY <1>1, <2>1, <2>2 DEF StreamedAccepts
<1>4. CASE n <= Len(samples) /\ ~IsKeyframe(n)
  <2>1. n \in 1 .. Len(samples)
    BY <1>2, <1>4
  <2>2. file[n].op = "DELTA_CHUNK" /\ file[n].reference = Reference(n)
    BY <1>2, <1>4, <2>1, SurvivingRecord DEF RecordHolds
  <2>3. PICK p : p = Reference(n)
    OBVIOUS
  <2>4. p \in 1 .. n - 1
    BY <1>4, <2>1, <2>3, ReferenceBehind
  <2>5. p < n /\ p \in DOMAIN decoded /\ decoded[p].state = Source(p)
    BY <1>2, <1>4, <2>4
  <2>6. /\ DeltaAccepted(Source(p), file[n]) /\ ApplyDelta(Source(p), file[n].groups).state = Source(n)
        /\ Selectable(file[n].t0, file[n].t1, Source(n))
    BY <1>2, <1>4, <2>1, <2>3, DeltaIsAccepted, SourceIsAcceptable
  <2> QED
    BY <1>1, <2>2, <2>3, <2>5, <2>6 DEF StreamedAccepts, ReferenceDecoded
<1>5. CASE n > Len(samples) /\ n <= 2 * Len(samples)
  <2>1. PICK k : k = n - Len(samples)
    OBVIOUS
  <2>2. k \in 1 .. Len(samples) /\ Len(summary) = Len(samples)
    BY <1>2, <1>5, <2>1 DEF WInv, SummaryHolds, Published
  <2>3. PICK e : e = file[n]
    OBVIOUS
  <2>4. Names(e, k)
    <3>1. e = summary[k]
      BY <1>2, <1>5, <2>1, <2>3 DEF WInv, TailHolds
    <3> QED
      BY <1>2, <2>2, <3>1 DEF WInv, SummaryHolds
  <2>5. k \in DOMAIN file /\ k \in DOMAIN decoded
    <3>1. k \in 1 .. n - 1 /\ k <= Len(samples)
      BY <1>2, <1>5, <2>1, <2>2
    <3> QED
      BY <1>2, <3>1 DEF IInv, Typed, IsSeq
  <2>6. Source(k).ids = samples[k].state.ids
    BY <1>2, <2>2, <2>5, SourceIsQuantized
  <2>7. decoded[k].ops = Rows(k) /\ decoded[k].state = Source(k)
    BY <1>2, <2>5
  <2>8. CountsAgree(e)
    BY <2>4, <2>6, <2>7 DEF CountsAgree, Names, Rows
  <2> QED
    BY <1>1, <2>3, <2>4, <2>8 DEF StreamedAccepts, Names
<1>6. CASE n > 2 * Len(samples)
  <2>1. file[n].op = "STATISTICS"
    BY <1>2, <1>6 DEF WInv, TailHolds
  <2> QED
    BY <1>1, <2>1 DEF StreamedAccepts
<1> QED
  BY <1>2, <1>3, <1>4, <1>5, <1>6

LEMMA NextStreamedRefusals ==
    ASSUME IInv, WInv, DInv, StreamedRefusals, [Next]_vars
    PROVE  StreamedRefusals'
<1> USE DEF handleVars, encodeVars, readerVars, fileVars
<1>1. CASE Read /\ DecodeStreamed
  <2>1. status = "stored" /\ Published /\ UNCHANGED <<options, samples, status>>
    BY <1>1 DEF Read, Published
  <2>2. UNCHANGED <<file, ending>>
    BY <1>1 DEF DecodeStreamed, OpenStreamed, ReadChunk, ReadDeltaChunk, ReadChunkIndex, ReadOther,
                RefuseRecord, EndOfRecords, ReadingRecord
  <2>3. Representable' <=> Representable
    BY <2>1, <2>2, RepresentableFrame
  <2>4. CASE RefuseRecord
    <3>1. streamed = "reading" /\ at <= Len(file) /\ ~StreamedAccepts(file[at])
      BY <2>4 DEF RefuseRecord
    <3>2. ~Representable
      BY <2>1, <3>1, RecordIsAccepted
    <3> QED
      BY <2>3, <3>2 DEF StreamedRefusals
  <2>5. CASE OpenStreamed
    <3>1. streamed' = "reading"
      BY <2>1, <2>5, NoLateFrontMatter DEF OpenStreamed
    <3> QED
      BY <3>1 DEF StreamedRefusals
  <2>6. CASE EndOfRecords
    BY <2>2, <2>6 DEF EndOfRecords, StreamedRefusals
  <2>7. CASE ReadChunk \/ ReadDeltaChunk \/ ReadChunkIndex \/ ReadOther
    BY <2>7 DEF ReadChunk, ReadDeltaChunk, ReadChunkIndex, ReadOther, ReadingRecord, StreamedRefusals
  <2> QED
    BY <1>1, <2>4, <2>5, <2>6, <2>7 DEF DecodeStreamed
<1>2. CASE Read /\ DecodeIndexed
  <2>1. UNCHANGED <<file, ending, streamed, options, samples>>
    BY <1>2, IndexedFrame DEF IInv, Read, streamedVars
  <2> QED
    BY <2>1, RepresentableFrame DEF StreamedRefusals
<1>3. CASE UNCHANGED vars
  <2>1. UNCHANGED <<file, ending, streamed, options, samples>>
    BY <1>3 DEF vars, streamedVars
  <2> QED
    BY <2>1, RepresentableFrame DEF StreamedRefusals
<1>4. CASE SetOptions \/ AddSample \/ Encode \/ EncodeStep \/ Store
  <2>1. streamed' = streamed /\ status # "stored"
    BY <1>4 DEF SetOptions, AddSample, Encode, Refused, Collecting, EncodeStep, EmitKeyframe, EmitDelta,
                EmitRefused, WriteSummary, Store, Encoding, streamedVars
  <2> QED
    BY <2>1 DEF DInv, Unstreamed, StreamedRefusals
<1> QED
  BY <1>1, <1>2, <1>3, <1>4 DEF Next, Read, Done

\* The records before a cut at a record boundary are a file in themselves: the
\* streamed reader delivers every state that is left.
THEOREM CutsDecode == Spec => []BoundaryCutsDecode
<1>1. Init => StreamedRefusals
  BY DEF Init, ReadersWaiting, StreamedRefusals
<1>2. TInv /\ StreamedRefusals /\ [Next]_vars => StreamedRefusals'
  BY NextStreamedRefusals DEF TInv, RInv
<1>3. TInv /\ StreamedRefusals => BoundaryCutsDecode
  <2> SUFFICES ASSUME TInv, StreamedRefusals, status = "stored", ending = "boundary", Representable
               PROVE  /\ streamed # "refused"
                      /\ streamed = "ok" =>
                            DOMAIN decoded = {o \in DOMAIN file : file[o].op \in StateRecord}
    BY DEF BoundaryCutsDecode
  <2>1. streamed # "refused"
    BY DEF StreamedRefusals
  <2>2. ASSUME streamed = "ok"
        PROVE  DOMAIN decoded = {o \in DOMAIN file : file[o].op \in StateRecord}
    <3>1. DOMAIN decoded = {o \in 1 .. at - 1 : o <= Len(samples)} /\ at = Len(file) + 1
      BY <2>2 DEF TInv, DInv, DecodedHolds, AtHolds
    <3>2. Len(file) \in Nat /\ DOMAIN file = 1 .. Len(file) /\ Writing
      BY DEF TInv, RInv, IInv, Typed, IsSeq, Writing
    <3>3. \A o \in 1 .. Len(file) : o <= Len(samples) <=> file[o].op \in StateRecord
      BY <3>2, StateRecords DEF TInv, RInv
    <3>4. at - 1 = Len(file)
      BY <3>1, <3>2
    <3> QED
      BY <3>1, <3>2, <3>3, <3>4
  <2> QED
    BY <2>1, <2>2
<1> QED
  BY InitTInv, NextTInv, <1>1, <1>2, <1>3, PTL DEF Spec

----------------------------------------------------------------------------
(* Nothing encode() wrote is refused by the indexed reader either          *)

\* The samples follow one another in time.
LEMMA TimesInOrder ==
    ASSUME IInv, Tiling, NEW j \in 1 .. Len(samples), NEW i \in 1 .. j
    PROVE  samples[i].t0 <= samples[j].t0
<1>1. Len(samples) \in Nat /\ DOMAIN samples = 1 .. Len(samples)
  BY DEF IInv, Typed, IsSeq
<1>2. \A k \in 1 .. Len(samples) : samples[k].t0 \in Int
  BY SampleAssumption, BoundAssumption DEF IInv, Typed, IsSample
<1>3. \A k \in 1 .. Len(samples) - 1 : samples[k].t0 <= samples[k + 1].t0
  BY <1>1 DEF Tiling, T1
<1>4. PICK S : S = {k \in 1 .. j : samples[k].t0 > samples[j].t0}
  OBVIOUS
<1>5. ASSUME S # {} PROVE FALSE
  <2>1. S \subseteq 1 .. j /\ j \in Nat
    BY <1>4
  <2>2. PICK k \in S : \A m \in k + 1 .. j : m \notin S
    BY <1>5, <2>1, LastPosition
  <2>3. k \in 1 .. j /\ samples[k].t0 > samples[j].t0
    BY <1>4, <2>2
  <2>4. k # j
    BY <1>2, <2>3
  <2>5. k + 1 \in k + 1 .. j /\ k + 1 \in 1 .. j /\ k \in 1 .. Len(samples) - 1
    BY <1>1, <2>3, <2>4
  <2>6. samples[k + 1].t0 <= samples[j].t0
    BY <1>1, <1>2, <1>4, <2>2, <2>5
  <2> QED
    BY <1>1, <1>2, <1>3, <2>3, <2>5, <2>6
<1> QED
  BY <1>1, <1>2, <1>4, <1>5

\* Entries that come in time order are in time order.
LEMMA OrderIsKept ==
    ASSUME NEW s, IsSeq(s), \A k \in 1 .. Len(s) : s[k].t0 \in Int,
           \A j \in 1 .. Len(s) : \A i \in 1 .. j : s[i].t0 <= s[j].t0
    PROVE  InTimeOrder(s) = s
<1>1. Len(s) \in Nat /\ DOMAIN s = 1 .. Len(s)
  BY DEF IsSeq
<1> DEFINE Before(i) == {j \in DOMAIN s : \/ s[j].t0 < s[i].t0
                                          \/ s[j].t0 = s[i].t0 /\ j < i}
           Place(k) == CHOOSE i \in DOMAIN s : Cardinality(Before(i)) = k - 1
<1>2. ASSUME NEW i \in 1 .. Len(s)
      PROVE  Cardinality(Before(i)) = i - 1
  <2>1. ASSUME NEW j \in 1 .. Len(s)
        PROVE  j \in Before(i) <=> j < i
    <3>1. j <= i => s[j].t0 <= s[i].t0
      BY <1>1
    <3>2. i <= j => s[i].t0 <= s[j].t0
      BY <1>1
    <3>3. s[i].t0 \in Int /\ s[j].t0 \in Int
      OBVIOUS
    <3> QED
      BY <1>1, <3>1, <3>2, <3>3
  <2>2. Before(i) = 1 .. i - 1
    <3>1. Before(i) \subseteq 1 .. Len(s)
      BY <1>1
    <3>2. \A j : j \in 1 .. i - 1 <=> j \in 1 .. Len(s) /\ j < i
      BY <1>1
    <3> HIDE DEF Before
    <3> QED
      BY <2>1, <3>1, <3>2
  <2>3. Cardinality(1 .. i - 1) = i - 1
    <3>1. PICK m \in Nat : m = i - 1
      BY <1>1
    <3>2. Cardinality(1 .. m) = IF 1 > m THEN 0 ELSE m - 1 + 1
      BY FS_Interval
    <3> QED
      BY <3>1, <3>2
  <2> QED
    BY <2>2, <2>3
<1>3. ASSUME NEW k \in 1 .. Len(s)
      PROVE  Place(k) = k
  <2> HIDE DEF Before
  <2>1. \A i \in DOMAIN s : Cardinality(Before(i)) = k - 1 => i = k
    BY <1>1, <1>2
  <2>2. k \in DOMAIN s /\ Cardinality(Before(k)) = k - 1
    BY <1>1, <1>2
  <2> QED
    BY <2>1, <2>2
<1>4. InTimeOrder(s) = [k \in DOMAIN s |-> s[Place(k)]]
  BY DEF InTimeOrder
<1>5. InTimeOrder(s) = [k \in 1 .. Len(s) |-> s[k]]
  <2> HIDE DEF Place
  <2> QED
    BY <1>1, <1>3, <1>4
<1> QED
  BY <1>5 DEF IsSeq

\* The index encode() writes tiles the timeline.
LEMMA SummaryTiles ==
    ASSUME IInv, WInv, Published
    PROVE  TilesTimeline(summary)
<1>1. /\ Tiling /\ header.duration_sec = options.duration_sec
      /\ Len(summary) = Len(samples)
      /\ \A k \in 1 .. Len(summary) : Names(summary[k], k)
  BY DEF WInv, FrontHolds, SummaryHolds, Published, Writing
<1>2. IsSeq(summary) /\ Len(samples) \in Nat /\ Len(samples) # 0
  BY <1>1 DEF IInv, Typed, IsSeq, Tiling
<1>3. PICK n \in Nat : n = Len(samples) /\ n # 0
  BY <1>2
<1>4. \A k \in 1 .. n : /\ summary[k].t0 = samples[k].t0 /\ summary[k].t1 = T1(k)
                        /\ samples[k].t0 \in Int
  <2> SUFFICES ASSUME NEW k \in 1 .. n
               PROVE  /\ summary[k].t0 = samples[k].t0 /\ summary[k].t1 = T1(k)
                      /\ samples[k].t0 \in Int
    OBVIOUS
  <2>1. Names(summary[k], k)
    BY <1>1, <1>3
  <2>2. IsSample(samples[k])
    BY <1>3, SampleAssumption, BoundAssumption DEF IInv, Typed
  <2> QED
    BY <2>1, <2>2 DEF Names, IsSample
<1>5. PICK t : t = InTimeOrder(summary)
  OBVIOUS
<1>6. t = summary /\ Len(t) = n
  <2>1. \A j \in 1 .. n : \A i \in 1 .. j : summary[i].t0 <= summary[j].t0
    BY <1>1, <1>3, <1>4, TimesInOrder
  <2> QED
    BY <1>1, <1>2, <1>3, <1>4, <1>5, <2>1, OrderIsKept
<1>7. \A k \in 1 .. n - 1 : t[k].t1 = t[k + 1].t0
  BY <1>3, <1>4, <1>6 DEF T1
<1>8. t[1].t0 = 0 /\ t[n].t1 = header.duration_sec
  BY <1>1, <1>3, <1>4, <1>6 DEF T1, Tiling
<1> QED
  BY <1>5, <1>6, <1>7, <1>8 DEF TilesTimeline

\* In a chain of neighbours that the depth can count, it counts them.
LEMMA DepthCounts ==
    ASSUME IInv, WInv, Published, DepthsFit, options.mode = DELTA_MODE_CHAINED,
           NEW j \in 1 .. Len(samples)
    PROVE  depths[j] = j - KeyframeIndex(j)
<1>1. /\ Len(samples) \in Nat /\ DOMAIN samples = 1 .. Len(samples)
      /\ \A k \in 1 .. Len(samples) : depths[k] = IF IsKeyframe(k) THEN 0 ELSE Depth(k)
  BY DEF IInv, Typed, IsSeq, WInv, SummaryHolds, Published, Writing
<1>2. ASSUME NEW k \in 1 .. Len(samples), IsKeyframe(k)
      PROVE  depths[k] = k - KeyframeIndex(k)
  <2>1. KeyframeIndex(k) = k
    BY <1>2, NearestKeyframe
  <2> QED
    BY <1>1, <1>2, <2>1
<1>3. ASSUME NEW k \in 1 .. Len(samples) - 1, depths[k] = k - KeyframeIndex(k), ~IsKeyframe(k + 1)
      PROVE  depths[k + 1] = (k + 1) - KeyframeIndex(k + 1)
  <2>1. KeyframeIndex(k + 1) \in 1 .. k + 1 /\ IsKeyframe(KeyframeIndex(k + 1))
    BY <1>1, NearestKeyframe
  <2>2. KeyframeIndex(k) = KeyframeIndex(k + 1)
    <3>1. KeyframeIndex(k + 1) # k + 1
      BY <1>3, <2>1
    <3>2. k \in KeyframeIndex(k + 1) .. k + 1 /\ k + 1 \in Nat \ {0} /\ k \in Nat \ {0}
      BY <1>1, <2>1, <3>1
    <3> QED
      BY <3>2, OneGroup
  <2>3. PICK d : d = (k + 1) - KeyframeIndex(k + 1)
    OBVIOUS
  <2>4. d \in 0 .. DEPTH_MOD - 1 /\ DEPTH_MOD \in Nat \ {0}
    <3>1. k + 1 \in DOMAIN samples
      BY <1>1
    <3>2. d < DEPTH_MOD
      BY <2>3, <3>1 DEF DepthsFit
    <3> QED
      BY <1>1, <2>1, <2>3, <3>2, BoundAssumption
  <2>5. depths[k + 1] = (depths[k] + 1) % DEPTH_MOD
    <3>1. k + 1 \in 1 .. Len(samples) /\ (k + 1) - 1 = k
      BY <1>1
    <3> QED
      BY <1>1, <1>3, <3>1 DEF Depth, DELTA_MODE_KEYFRAME, DELTA_MODE_CHAINED
  <2>6. depths[k] + 1 = d
    BY <1>1, <1>3, <2>1, <2>2, <2>3
  <2>7. d % DEPTH_MOD = d
    BY ONLY <2>4
  <2> QED
    BY <2>3, <2>5, <2>6, <2>7
<1>4. PICK T : T = {k \in 1 .. j : depths[k] = k - KeyframeIndex(k)}
  OBVIOUS
<1>5. 1 \in T
  <2>1. IsKeyframe(1) /\ 1 \in 1 .. Len(samples) /\ 1 \in 1 .. j
    BY <1>1 DEF IsKeyframe
  <2> QED
    BY <1>2, <1>4, <2>1
<1>6. PICK k \in T : \A m \in k + 1 .. j : m \notin T
  <2>1. T \subseteq 1 .. j /\ T # {} /\ j \in Nat
    BY <1>4, <1>5
  <2> QED
    BY <2>1, LastPosition
<1>7. k \in 1 .. j /\ depths[k] = k - KeyframeIndex(k)
  BY <1>4, <1>6
<1>8. ASSUME k # j PROVE FALSE
  <2>1. k + 1 \in k + 1 .. j /\ k + 1 \in 1 .. j /\ k \in 1 .. Len(samples) - 1 /\ k + 1 \in 1 .. Len(samples)
    BY <1>1, <1>7, <1>8
  <2>2. depths[k + 1] = (k + 1) - KeyframeIndex(k + 1)
    BY <1>2, <1>3, <1>7, <2>1
  <2> QED
    BY <1>4, <1>6, <2>1, <2>2
<1> QED
  BY <1>7, <1>8

\* The indexed reader reads the index of a whole file to its end, ...
IndexOpened ==
    indexed \in {"walking", "reading", "ok"} =>
        /\ index = summary /\ ending = "complete"
        /\ entry <= Len(index) + 1
        /\ indexed = "ok" => entry = Len(index) + 1

\* ... and a chain of neighbours holds every sample from its head to the entry.
NeighboursHold ==
    chain # <<>> /\ options.mode = DELTA_MODE_CHAINED => Len(chain) = entry - chain[1].offset + 1

\* It refuses for one of three reasons only.
IndexedRefusals == indexed = "refused" => ending # "complete" \/ ~Representable \/ ~DepthsFit

ZInv == IndexOpened /\ NeighboursHold /\ IndexedRefusals

LEMMA DepthsFrame ==
    ASSUME UNCHANGED <<options, samples>>
    PROVE  DepthsFit' <=> DepthsFit
<1>1. \A i : KeyframeIndex(i)' = KeyframeIndex(i)
  BY DEF KeyframeIndex, IsKeyframe
<1> QED
  BY <1>1 DEF DepthsFit

\* A step that refuses nothing keeps what is said of refusals.
LEMMA RefusalsStay ==
    ASSUME ZInv, UNCHANGED <<options, samples, file, ending>>, indexed' # "refused" \/ indexed' = indexed
    PROVE  IndexedRefusals'
BY DepthsFrame, RepresentableFrame DEF ZInv, IndexedRefusals

\* The walk back meets a keyframe's entry behind the one it is at.
LEMMA WalkIsPossible ==
    ASSUME IInv, WInv, XInv, Walking, Head(chain).kind # KEYFRAME_KIND
    PROVE  /\ CanWalkBack
           /\ EntryAt(Head(chain).reference) \in 1 .. Len(index)
           /\ index[EntryAt(Head(chain).reference)].offset = Reference(chain[1].offset)
           /\ ~IsKeyframe(chain[1].offset) /\ chain[1].offset \in Nat \ {0}
<1>1. /\ IsSeq(chain) /\ Len(chain) \in Nat \ {0} /\ entry <= Len(index)
      /\ chain[1].offset \in 1 .. Len(index) /\ chain[1] = index[chain[1].offset]
      /\ chain[1].offset \in KeyframeIndex(entry) .. entry
      /\ Len(chain) <= entry - chain[1].offset + 1
  <2>1. IsSeq(chain) /\ Len(chain) \in Nat \ {0} /\ ChainHolds /\ SeekHolds /\ chain # <<>>
    BY DEF Walking, XInv, ChainHolds
  <2>2. 1 \in 1 .. Len(chain)
    BY <2>1
  <2> QED
    BY <2>1, <2>2 DEF ChainHolds, SeekHolds
<1>2. PICK o : o = chain[1].offset
  OBVIOUS
<1>3. index # <<>> /\ entry \in Nat \ {0}
  BY <1>1 DEF IInv, ReadersTyped
<1>4. /\ Len(index) \in Nat
      /\ \A k \in 1 .. Len(index) : Names(index[k], k) /\ index[k].offset = k
  BY <1>3, IndexNames
<1>5. Head(chain) = chain[1]
  BY <1>1 DEF IsSeq, Walking
<1>6. ~IsKeyframe(o) /\ chain[1].reference = Reference(o)
  <2>1. Names(chain[1], o)
    BY <1>1, <1>2, <1>4
  <2> QED
    BY <1>5, <2>1 DEF Names, KEYFRAME_KIND, DELTA_KIND
<1>7. o \in Nat \ {0}
  BY <1>1, <1>2, <1>4
<1>8. PICK p : p = Reference(o)
  OBVIOUS
<1>9. p \in 1 .. o - 1
  BY <1>6, <1>7, <1>8, ReferenceBehind
<1>10. p \in 1 .. Len(index)
  BY <1>1, <1>2, <1>4, <1>7, <1>9
<1>11. EntryAt(p) = p
  BY <1>4, <1>10, EntryAtOffset
<1>12. Head(chain).reference = p
  BY <1>5, <1>6, <1>8
<1>13. p < o /\ p # 0 /\ Len(chain) + 1 <= Len(index)
  <2>1. p \in Nat /\ p < o /\ p # 0 /\ o \in Nat /\ o > 1
    BY <1>7, <1>9
  <2>2. Len(chain) \in Nat /\ Len(chain) <= entry - o + 1 /\ entry <= Len(index)
    BY <1>1, <1>2
  <2> QED
    BY ONLY <1>3, <1>4, <2>1, <2>2
<1> QED
  BY <1>2, <1>4, <1>5, <1>6, <1>7, <1>8, <1>10, <1>11, <1>12, <1>13 DEF CanWalkBack

\* The chain that was walked is as long as the entry's depth says.
LEMMA DepthIsChain ==
    ASSUME IInv, WInv, XInv, ZInv, Published, Walking, Head(chain).kind = KEYFRAME_KIND, DepthsFit
    PROVE  Len(chain) - 1 = index[entry].depth
<1>1. /\ IsSeq(chain) /\ Len(chain) \in Nat \ {0} /\ entry <= Len(index)
      /\ chain[Len(chain)].offset = entry
      /\ \A k \in 1 .. Len(chain) - 1 : ~IsKeyframe(chain[k + 1].offset)
      /\ chain[1].offset \in 1 .. Len(index) /\ chain[1] = index[chain[1].offset]
      /\ chain[1].offset \in KeyframeIndex(entry) .. entry
      /\ options.mode = DELTA_MODE_KEYFRAME =>
            Len(chain) = 1 \/ (Len(chain) = 2 /\ IsKeyframe(chain[1].offset))
  <2>1. IsSeq(chain) /\ Len(chain) \in Nat \ {0} /\ ChainHolds /\ SeekHolds /\ chain # <<>>
    BY DEF Walking, XInv, ChainHolds
  <2>2. 1 \in 1 .. Len(chain)
    BY <2>1
  <2> QED
    BY <2>1, <2>2 DEF ChainHolds, SeekHolds
<1>2. index # <<>> /\ entry \in Nat \ {0}
  BY <1>1 DEF IInv, ReadersTyped
<1>3. /\ Len(index) \in Nat /\ Len(index) = Len(samples)
      /\ \A k \in 1 .. Len(index) : Names(index[k], k) /\ index[k].offset = k
  BY <1>2, IndexNames
<1>4. entry \in 1 .. Len(samples) /\ index[entry].depth = depths[entry]
  BY <1>1, <1>2, <1>3 DEF Names
<1>5. depths[entry] = IF IsKeyframe(entry) THEN 0 ELSE Depth(entry)
  BY <1>4 DEF WInv, SummaryHolds, Published, Writing
<1>6. PICK o : o = chain[1].offset
  OBVIOUS
<1>7. IsKeyframe(o)
  <2>1. Head(chain) = chain[1]
    BY <1>1 DEF IsSeq, Walking
  <2>2. Names(chain[1], o)
    BY <1>1, <1>3, <1>6
  <2> QED
    BY <2>1, <2>2 DEF Names, KEYFRAME_KIND, DELTA_KIND
<1>8. CASE options.mode = DELTA_MODE_KEYFRAME
  <2>1. CASE Len(chain) = 1
    <3>1. IsKeyframe(entry)
      BY <1>1, <1>6, <1>7, <2>1
    <3> QED
      BY <1>4, <1>5, <2>1, <3>1
  <2>2. CASE Len(chain) = 2
    <3>1. ~IsKeyframe(entry)
      <4>1. 1 \in 1 .. Len(chain) - 1 /\ 1 + 1 = Len(chain)
        BY <2>2
      <4> QED
        BY <1>1, <4>1
    <3> QED
      BY <1>4, <1>5, <1>8, <2>2, <3>1 DEF Depth
  <2> QED
    BY <1>1, <1>8, <2>1, <2>2
<1>9. CASE options.mode = DELTA_MODE_CHAINED
  <2>1. Len(chain) = entry - o + 1
    BY <1>6, <1>9 DEF ZInv, NeighboursHold, Walking
  <2>2. depths[entry] = entry - KeyframeIndex(entry)
    BY <1>4, <1>9, DepthCounts
  <2>3. o = KeyframeIndex(entry)
    <3>1. /\ KeyframeIndex(entry) \in 1 .. entry
          /\ \A j \in KeyframeIndex(entry) + 1 .. entry : ~IsKeyframe(j)
      BY <1>2, NearestKeyframe
    <3>2. o \notin KeyframeIndex(entry) + 1 .. entry
      BY <1>7, <3>1
    <3> QED
      BY <1>1, <1>2, <1>3, <1>6, <3>1, <3>2
  <2>4. KeyframeIndex(entry) \in 1 .. entry
    BY <1>2, NearestKeyframe
  <2> QED
    BY <1>2, <1>4, <2>1, <2>2, <2>3, <2>4
<1>10. options.mode \in {DELTA_MODE_KEYFRAME, DELTA_MODE_CHAINED}
  BY OptionAssumption DEF IInv, Typed, Option
<1> QED
  BY <1>8, <1>9, <1>10

\* Every link of the chain is read.
LEMMA LinkIsAccepted ==
    ASSUME IInv, WInv, XInv, ZInv, Representable, indexed = "reading", link < Len(chain),
           NEW e, e = chain[link + 1]
    PROVE  LinkAccepted(e)
<1>1. /\ chain # <<>> /\ IsKeyframe(chain[1].offset)
      /\ link > 0 => composed = Source(chain[link].offset)
      /\ Len(chain) \in Nat /\ link \in Nat
      /\ \A k \in 1 .. Len(chain) : chain[k].offset \in 1 .. Len(index) /\ chain[k] = index[chain[k].offset]
      /\ \A k \in 1 .. Len(chain) - 1 :
            ~IsKeyframe(chain[k + 1].offset) /\ Reference(chain[k + 1].offset) = chain[k].offset
  BY DEF XInv, LinkHolds, ChainHolds, IInv, ReadersTyped
<1>2. PICK o : o = e.offset
  OBVIOUS
<1>3. link + 1 \in 1 .. Len(chain)
  BY <1>1
<1>4. o \in 1 .. Len(index) /\ e = index[o]
  BY <1>1, <1>2, <1>3
<1>5. index # <<>>
  BY <1>4
<1>6. Names(e, o) /\ o \in 1 .. Len(samples) /\ Writing /\ Published /\ status = "stored"
  BY <1>4, <1>5, IndexNames DEF Writing, Published
<1>7. o \in 1 .. Len(file) /\ o \in DOMAIN file
  <2>1. Len(file) = 2 * Len(samples) + 1
    BY <1>6 DEF ZInv, IndexOpened, WInv, TailHolds
  <2> QED
    BY <1>6, <2>1 DEF IInv, Typed, IsSeq
<1>8. /\ file[o].t0 = samples[o].t0 /\ file[o].t1 = T1(o) /\ RecordHolds(o)
      /\ Selectable(file[o].t0, file[o].t1, Source(o))
      /\ Source(o).ids = samples[o].state.ids
  BY <1>6, <1>7, SurvivingRecord, SourceIsAcceptable, SourceIsQuantized
<1>9. /\ e.t0 = file[o].t0 /\ e.t1 = file[o].t1
      /\ e.live = Cardinality(Source(o).ids)
      /\ Selectable(e.t0, e.t1, Source(o))
  BY <1>6, <1>8 DEF Names
<1>10. CASE IsKeyframe(o)
  <2>1. e.kind = KEYFRAME_KIND /\ e.count = Cardinality(Source(o).ids)
    BY <1>6, <1>10 DEF Names
  <2>2. /\ file[o].op = "CHUNK" /\ file[o].group = Group(Source(o).ids, Source(o).bins)
    BY <1>8, <1>10 DEF RecordHolds
  <2>3. KeyframeAccepted(file[o]) /\ KeyframeState(file[o].group).state = Source(o)
    BY <1>6, <1>7, <1>10, KeyframeIsAccepted
  <2>4. LinkState(e) = Source(o) /\ LinkOperations(e) = Cardinality(Source(o).ids)
    BY <1>2, <2>1, <2>2, <2>3 DEF LinkState, LinkOperations, Group
  <2> QED
    BY <1>2, <1>7, <1>9, <2>1, <2>2, <2>3, <2>4 DEF LinkAccepted, LinkRecord
<1>11. CASE ~IsKeyframe(o)
  <2>1. e.kind # KEYFRAME_KIND /\ e.count = Operations(DeltaGroups(Source(Reference(o)), Source(o)))
    BY <1>6, <1>11 DEF Names, KEYFRAME_KIND, DELTA_KIND
  <2>2. link \in 1 .. Len(chain) - 1
    <3>1. link # 0
      BY <1>1, <1>2, <1>11
    <3> QED
      BY <1>1, <1>3, <3>1
  <2>3. PICK p : p = Reference(o)
    OBVIOUS
  <2>4. composed = Source(p)
    BY <1>1, <1>2, <2>2, <2>3
  <2>5. file[o].op = "DELTA_CHUNK" /\ file[o].groups = DeltaGroups(Source(p), Source(o))
    BY <1>8, <1>11, <2>3 DEF RecordHolds
  <2>6. DeltaAccepted(Source(p), file[o]) /\ ApplyDelta(Source(p), file[o].groups).state = Source(o)
    BY <1>6, <1>7, <1>11, <2>3, DeltaIsAccepted
  <2>7. LinkState(e) = Source(o) /\ LinkOperations(e) = e.count
    BY <1>2, <2>1, <2>3, <2>4, <2>5, <2>6 DEF LinkState, LinkOperations
  <2> QED
    BY <1>2, <1>7, <1>9, <2>1, <2>4, <2>5, <2>6, <2>7 DEF LinkAccepted, LinkRecord
<1> QED
  BY <1>10, <1>11

LEMMA InitZInv == Init => ZInv
BY DEF Init, ReadersWaiting, ZInv, IndexOpened, NeighboursHold, IndexedRefusals

\* A step of something else.
LEMMA IndexedRests ==
    ASSUME ZInv, UNCHANGED <<indexedVars, options, samples, summary, file, ending>>
    PROVE  ZInv'
<1>1. IndexedRefusals'
  BY RefusalsStay DEF indexedVars
<1>2. IndexOpened' /\ NeighboursHold'
  BY DEF ZInv, IndexOpened, NeighboursHold, indexedVars
<1> QED
  BY <1>1, <1>2 DEF ZInv

\* A refusal with a cause.
LEMMA EarnedRefusal ==
    ASSUME ZInv, RefuseIndexed, UNCHANGED <<options, samples, file, ending>>,
           ending # "complete" \/ ~Representable \/ ~DepthsFit
    PROVE  ZInv'
<1>1. indexed' = "refused" /\ UNCHANGED <<entry, chain>>
  BY DEF RefuseIndexed
<1>2. IndexedRefusals'
  BY DepthsFrame, RepresentableFrame DEF IndexedRefusals
<1> QED
  BY <1>1, <1>2 DEF ZInv, IndexOpened, NeighboursHold

LEMMA IndexedZInv ==
    ASSUME IInv, WInv, XInv, ZInv, status = "stored", DecodeIndexed,
           UNCHANGED <<status, options, samples, summary>>
    PROVE  ZInv'
<1>1. UNCHANGED <<file, ending>> /\ Published /\ Len(samples) \in Nat /\ entry \in Nat \ {0}
  BY IndexedFrame DEF IInv, fileVars, Published, Typed, IsSeq, ReadersTyped
<1>2. CASE OpenIndexed
  <2>1. chain' = <<>> /\ entry' = 1
    BY <1>2 DEF OpenIndexed
  <2>2. CASE ending = "complete"
    <3>1. SummaryEntries = summary /\ TilesTimeline(summary)
      BY <1>1, <2>2, SummaryRead, SummaryTiles
    <3>2. indexed' = "walking" /\ index' = summary
      BY <1>2, <2>2, <3>1 DEF OpenIndexed
    <3>3. Len(summary) \in Nat
      BY DEF IInv, Typed, IsSeq
    <3>4. IndexOpened'
      BY <1>1, <2>1, <2>2, <3>2, <3>3 DEF IndexOpened
    <3> QED
      BY <2>1, <3>2, <3>4 DEF ZInv, NeighboursHold, IndexedRefusals
  <2>3. CASE ending # "complete"
    <3>1. indexed' = "refused"
      BY <1>2, <2>3 DEF OpenIndexed
    <3> QED
      BY <1>1, <2>1, <2>3, <3>1 DEF ZInv, IndexOpened, NeighboursHold, IndexedRefusals
  <2> QED
    BY <2>2, <2>3
<1>3. CASE StartChain
  <2>1. /\ chain' = <<index[entry]>> /\ entry <= Len(index) /\ indexed = "walking"
        /\ UNCHANGED <<indexed, index, entry>>
    BY <1>3 DEF StartChain
  <2>2. index # <<>>
    BY <1>1, <2>1
  <2>3. index[entry].offset = entry
    BY <1>1, <2>1, <2>2, IndexNames
  <2>4. PICK c : c = <<index[entry]>>
    OBVIOUS
  <2>5. Len(c) = 1 /\ c[1].offset = entry
    BY <2>3, <2>4
  <2>6. NeighboursHold'
    BY <1>1, <2>1, <2>4, <2>5 DEF NeighboursHold
  <2>7. IndexOpened' /\ IndexedRefusals'
    BY <1>1, <2>1, RefusalsStay DEF ZInv, IndexOpened
  <2> QED
    BY <2>6, <2>7 DEF ZInv
<1>4. CASE WalkBack
  <2>1. Walking /\ Head(chain).kind # KEYFRAME_KIND
    BY <1>4 DEF WalkBack
  <2>2. CanWalkBack
    BY <2>1, WalkIsPossible
  <2>3. PICK a : a = EntryAt(Head(chain).reference)
    OBVIOUS
  <2>4. /\ a \in 1 .. Len(index) /\ index[a].offset = Reference(chain[1].offset)
        /\ ~IsKeyframe(chain[1].offset) /\ chain[1].offset \in Nat \ {0}
    BY <2>1, <2>3, WalkIsPossible
  <2>5. /\ chain' = <<index[a]>> \o chain
        /\ UNCHANGED <<indexed, index, entry>> /\ indexed = "walking"
    BY <1>4, <2>2, <2>3 DEF WalkBack, Walking
  <2>6. PICK c : c = <<index[a]>> \o chain
    OBVIOUS
  <2>7. Len(c) = Len(chain) + 1 /\ c[1] = index[a] /\ Len(chain) \in Nat \ {0}
    <3>1. PICK h : h = <<index[a]>>
      OBVIOUS
    <3>2. IsSeq(h) /\ Len(h) = 1 /\ h[1] = index[a]
      BY <3>1 DEF IsSeq
    <3>3. IsSeq(chain) /\ Len(chain) \in Nat \ {0}
      BY <2>1 DEF Walking, XInv, ChainHolds
    <3>4. /\ Len(h \o chain) = Len(h) + Len(chain)
          /\ \A i \in 1 .. Len(h) + Len(chain) :
                (h \o chain)[i] = IF i <= Len(h) THEN h[i] ELSE chain[i - Len(h)]
      BY ONLY <3>2, <3>3, ConcatIsSeq
    <3>5. 1 \in 1 .. Len(h) + Len(chain)
      BY <3>2, <3>3
    <3>6. c = h \o chain
      BY <2>6, <3>1
    <3> QED
      BY ONLY <3>2, <3>3, <3>4, <3>5, <3>6
  <2>8. NeighboursHold'
    <3>1. options.mode = DELTA_MODE_CHAINED =>
              Len(chain) = entry - chain[1].offset + 1 /\ Reference(chain[1].offset) = chain[1].offset - 1
      BY <2>1 DEF ZInv, NeighboursHold, Walking, Reference, DELTA_MODE_KEYFRAME, DELTA_MODE_CHAINED
    <3>2. options.mode = DELTA_MODE_CHAINED => Len(c) = entry - c[1].offset + 1
      <4> SUFFICES ASSUME options.mode = DELTA_MODE_CHAINED PROVE Len(c) = entry - c[1].offset + 1
        OBVIOUS
      <4>1. PICK o \in Nat : o = chain[1].offset
        BY <2>4
      <4>2. PICK n \in Nat : n = Len(chain)
        BY <2>7
      <4>3. n = entry - o + 1 /\ c[1].offset = o - 1
        BY <2>4, <2>7, <3>1, <4>1, <4>2
      <4>4. entry \in Nat /\ Len(c) = n + 1
        BY <1>1, <2>7, <4>2
      <4> QED
        BY <4>3, <4>4
    <3> QED
      BY <2>5, <2>6, <3>2 DEF NeighboursHold
  <2>9. IndexOpened' /\ IndexedRefusals'
    BY <1>1, <2>5, RefusalsStay DEF ZInv, IndexOpened
  <2> QED
    BY <2>8, <2>9 DEF ZInv
<1>5. CASE CheckDepth
  <2>1. Walking /\ Head(chain).kind = KEYFRAME_KIND
    BY <1>5 DEF CheckDepth
  <2>2. CASE DepthsFit
    <3>1. indexed' = "reading" /\ indexed = "walking" /\ UNCHANGED <<index, entry, chain>>
      BY <1>1, <1>5, <2>1, <2>2, DepthIsChain DEF CheckDepth, Walking
    <3>2. IndexOpened' /\ IndexedRefusals' /\ NeighboursHold'
      BY <1>1, <3>1, RefusalsStay DEF ZInv, IndexOpened, NeighboursHold
    <3> QED
      BY <3>2 DEF ZInv
  <2>3. CASE ~DepthsFit /\ RefuseIndexed
    BY <1>1, <2>3, EarnedRefusal
  <2>4. CASE ~RefuseIndexed
    <3>1. indexed' = "reading" /\ indexed = "walking" /\ UNCHANGED <<index, entry, chain>>
      BY <1>5, <2>4 DEF CheckDepth, Walking
    <3>2. IndexOpened' /\ IndexedRefusals' /\ NeighboursHold'
      BY <1>1, <3>1, RefusalsStay DEF ZInv, IndexOpened, NeighboursHold
    <3> QED
      BY <3>2 DEF ZInv
  <2> QED
    BY <2>2, <2>3, <2>4
<1>6. CASE ReadLink
  <2>1. PICK e : e = chain[link + 1]
    OBVIOUS
  <2>2. indexed = "reading" /\ link < Len(chain)
    BY <1>6 DEF ReadLink
  <2>3. CASE RefuseIndexed /\ ~LinkAccepted(e)
    <3>1. ~Representable
      BY <2>1, <2>2, <2>3, LinkIsAccepted
    <3> QED
      BY <1>1, <2>3, <3>1, EarnedRefusal
  <2>4. CASE UNCHANGED <<indexed, index, entry, chain>>
    <3>1. IndexOpened' /\ IndexedRefusals' /\ NeighboursHold'
      BY <1>1, <2>4, RefusalsStay DEF ZInv, IndexOpened, NeighboursHold
    <3> QED
      BY <3>1 DEF ZInv
  <2> QED
    BY <1>6, <2>1, <2>3, <2>4 DEF ReadLink
<1>7. CASE AnswerEntry
  <2>1. /\ indexed = "reading" /\ indexed' = "walking" /\ entry' = entry + 1
        /\ chain' = <<>> /\ index' = index
    BY <1>7 DEF AnswerEntry
  <2>2. entry <= Len(index) /\ Len(index) \in Nat
    <3>1. entry <= Len(index)
      BY <2>1 DEF XInv, LinkHolds, ChainHolds
    <3>2. index = summary
      BY <2>1 DEF ZInv, IndexOpened
    <3> QED
      BY <3>1, <3>2 DEF IInv, Typed, IsSeq
  <2>3. IndexOpened'
    BY <1>1, <2>1, <2>2 DEF ZInv, IndexOpened
  <2>4. NeighboursHold' /\ IndexedRefusals'
    BY <1>1, <2>1, RefusalsStay DEF NeighboursHold
  <2> QED
    BY <2>3, <2>4 DEF ZInv
<1>8. CASE FinishIndexed
  <2>1. indexed = "walking" /\ indexed' = "ok" /\ entry > Len(index) /\ UNCHANGED <<index, entry, chain>>
    BY <1>8 DEF FinishIndexed
  <2>2. entry <= Len(index) + 1 /\ index = summary /\ ending = "complete"
    BY <2>1 DEF ZInv, IndexOpened
  <2>3. Len(index) \in Nat
    BY <2>2 DEF IInv, Typed, IsSeq
  <2>4. IndexOpened'
    BY <1>1, <2>1, <2>2, <2>3 DEF IndexOpened
  <2>5. NeighboursHold' /\ IndexedRefusals'
    BY <1>1, <2>1, RefusalsStay DEF ZInv, NeighboursHold
  <2> QED
    BY <2>4, <2>5 DEF ZInv
<1> QED
  BY <1>2, <1>3, <1>4, <1>5, <1>6, <1>7, <1>8 DEF DecodeIndexed

\* What a reader that waits has to keep is nothing.
LEMMA WaitingZInv ==
    ASSUME XInv, UNCHANGED indexedVars, indexed = "waiting"
    PROVE  ZInv'
<1>1. indexed' = "waiting" /\ chain' = <<>>
  BY DEF XInv, AtRest, indexedVars
<1> QED
  BY <1>1 DEF ZInv, IndexOpened, NeighboursHold, IndexedRefusals

LEMMA NextZInv == IInv /\ WInv /\ XInv /\ ZInv /\ [Next]_vars => ZInv'
<1> SUFFICES ASSUME IInv, WInv, XInv, ZInv, [Next]_vars PROVE ZInv'
  OBVIOUS
<1> USE DEF handleVars, encodeVars, readerVars
<1>1. CASE Read /\ DecodeIndexed
  BY <1>1, IndexedZInv DEF Read
<1>2. CASE Read /\ DecodeStreamed
  <2>1. UNCHANGED indexedVars
    BY <1>2, StreamedFrame DEF IInv
  <2>2. UNCHANGED <<file, ending>>
    BY <1>2 DEF DecodeStreamed, OpenStreamed, ReadChunk, ReadDeltaChunk, ReadChunkIndex, ReadOther,
                RefuseRecord, EndOfRecords, ReadingRecord, fileVars
  <2> QED
    BY <1>2, <2>1, <2>2, IndexedRests DEF Read
<1>3. CASE UNCHANGED vars
  BY <1>3, IndexedRests DEF vars, fileVars
<1>4. CASE SetOptions \/ AddSample \/ Encode \/ EncodeStep \/ Store
  <2>1. UNCHANGED indexedVars /\ status # "stored"
    BY <1>4 DEF SetOptions, AddSample, Encode, Refused, Collecting, EncodeStep, EmitKeyframe, EmitDelta,
                EmitRefused, WriteSummary, Store, Encoding
  <2>2. indexed = "waiting"
    BY <2>1 DEF XInv, Unindexed
  <2> QED
    BY <2>1, <2>2, WaitingZInv
<1> QED
  BY <1>1, <1>2, <1>3, <1>4 DEF Next, Read, Done

\* What encode() returns, its readers read: bytes that arrive whole are refused
\* by neither, unless a sample cannot be held or a chain cannot be counted, and
\* each of them delivers every sample.
THEOREM WholeFilesAreRead == Spec => []WholeFilesDecode
<1> DEFINE Whole == TInv /\ StreamedRefusals /\ ZInv
<1>1. Init => Whole
  BY InitTInv, InitZInv DEF Init, ReadersWaiting, StreamedRefusals
<1>2. Whole /\ [Next]_vars => Whole'
  BY NextTInv, NextStreamedRefusals, NextZInv DEF TInv, RInv
<1>3. Whole => WholeFilesDecode
  <2> SUFFICES ASSUME Whole, status = "stored", ending = "complete", Representable
               PROVE  /\ streamed # "refused"
                      /\ DepthsFit => indexed # "refused"
                      /\ streamed = "ok" => DOMAIN decoded = DOMAIN samples
                      /\ indexed = "ok" => DOMAIN answers = DOMAIN samples
    BY DEF WholeFilesDecode
  <2>1. streamed # "refused" /\ (DepthsFit => indexed # "refused")
    BY DEF StreamedRefusals, ZInv, IndexedRefusals
  <2>2. Len(samples) \in Nat /\ DOMAIN samples = 1 .. Len(samples) /\ Len(file) = 2 * Len(samples) + 1
    BY DEF TInv, RInv, IInv, Typed, IsSeq, WInv, TailHolds, Published
  <2>3. ASSUME streamed = "ok" PROVE DOMAIN decoded = DOMAIN samples
    <3>1. DOMAIN decoded = {o \in 1 .. at - 1 : o <= Len(samples)} /\ at = Len(file) + 1
      BY <2>3 DEF TInv, DInv, DecodedHolds, AtHolds
    <3>2. at - 1 = 2 * Len(samples) + 1
      BY <2>2, <3>1
    <3>3. \A o : o \in 1 .. Len(samples) <=> o \in 1 .. 2 * Len(samples) + 1 /\ o <= Len(samples)
      BY <2>2
    <3> QED
      BY <2>2, <3>1, <3>2, <3>3
  <2>4. ASSUME indexed = "ok" PROVE DOMAIN answers = DOMAIN samples
    <3>1. DOMAIN answers = 1 .. entry - 1 /\ entry = Len(index) + 1 /\ index = summary
      BY <2>4 DEF TInv, RInv, XInv, AnswersHold, ZInv, IndexOpened
    <3>2. Len(summary) = Len(samples)
      BY DEF TInv, RInv, WInv, SummaryHolds, Writing
    <3>3. entry - 1 = Len(samples)
      BY <2>2, <3>1, <3>2
    <3> QED
      BY <2>2, <3>1, <3>3
  <2> QED
    BY <2>1, <2>2, <2>3, <2>4
<1> HIDE DEF Whole
<1> QED
  BY <1>1, <1>2, <1>3, PTL DEF Spec
=============================================================================
