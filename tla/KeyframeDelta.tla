--------------------------- MODULE KeyframeDelta ---------------------------
(***************************************************************************)
(* The keyframe-delta composition of rust/fourdgs/src/keyframe_delta.rs:   *)
(* what a population is, how a keyframe states one, how a delta is         *)
(* composed onto one, and (from keyframe_delta_file.rs) how the writer     *)
(* splits a sample into a delta against its reference.                     *)
(*                                                                         *)
(* A population is column-oriented, as in the code: a set of live ids and, *)
(* per attribute, one integer bin per id.  Rows are found by identity, so  *)
(* their order is not kept; a multi-channel attribute is one integer,      *)
(* because every channel obeys the same rule.                              *)
(***************************************************************************)
EXTENDS Integers, FiniteSets

CONSTANTS
    Id,                   \* gaussian ids
    MEASURED,             \* attributes an update differences: position, scale, colour, ...
    OPTIONAL_IDENTITY,    \* source_group, source_index, object_id
    BIN_MIN, BIN_MAX,     \* the signed range of a composed bin (i32 in the code)
    MuStep(_, _)          \* mu_step(sigma_bin, flags): the pitch of a row's birth-time grid

GOP_INVARIANT == {"sigma_t", "flags", "window_index"}
Rotation      == {"rotation_index", "rotation"}
REQUIRED      == MEASURED \cup {"mu_t"} \cup Rotation \cup GOP_INVARIANT
Attribute     == REQUIRED \cup OPTIONAL_IDENTITY

\* The attributes an update restates outright instead of differencing.
ABSOLUTE_IN_UPDATE == Rotation \cup OPTIONAL_IDENTITY

Bin == BIN_MIN .. BIN_MAX

ASSUME BinAssumption == BIN_MIN \in Int /\ BIN_MAX \in Int /\ BIN_MIN <= 0 /\ 0 <= BIN_MAX

ASSUME AttributeAssumption ==
    /\ MEASURED \cap ({"mu_t"} \cup Rotation \cup GOP_INVARIANT) = {}
    /\ OPTIONAL_IDENTITY \cap REQUIRED = {}

ASSUME MuStepAssumption == \A s \in Bin, f \in Bin : MuStep(s, f) \in Nat \ {0}

----------------------------------------------------------------------------
(* Populations and groups                                                  *)

NoColumns == [a \in {} |-> <<>>]
EmptyPopulation == [ids |-> {}, bins |-> NoColumns]

\* Columns as a set of functions: what bins can be for a given set of ids.
ColumnsOver(ids, values) == UNION {[A -> [ids -> values]] : A \in SUBSET Attribute}

IsPopulation(s) == /\ s = [ids |-> s.ids, bins |-> s.bins]
                   /\ s.ids \subseteq Id
                   /\ s.bins \in ColumnsOver(s.ids, Bin)

\* A length-framed group of a chunk: the ids it names, whether its id stream
\* names one of them twice, and a column per stream.
Group(ids, bins) == [ids |-> ids, repeated |-> FALSE, bins |-> bins]
EmptyGroup       == Group({}, NoColumns)

Ok(s)        == [code |-> "ok", state |-> s]
Refuse(code) == [code |-> code, state |-> EmptyPopulation]

\* rint: the nearest integer to n/d, ties to even.
Rint(n, d) ==
    LET q == n \div d
        r == 2 * (n % d)
    IN  IF r < d \/ (r = d /\ q % 2 = 0) THEN q ELSE q + 1

\* The birth-time bin that names the instant t0 on the grid of one row.
MuBin(t0, sigma, flags) == Rint(t0, MuStep(sigma, flags))

----------------------------------------------------------------------------
(* keyframe_state                                                          *)

\* A column with a value outside the composed-bin range.
OutOfRange(bins) == \E a \in DOMAIN bins : \E g \in DOMAIN bins[a] : bins[a][g] \notin Bin

\* check_rotation_indexes: smallest-three names one of four components.
BadRotation(s) ==
    /\ "rotation_index" \in DOMAIN s.bins
    /\ \E g \in DOMAIN s.bins["rotation_index"] : s.bins["rotation_index"][g] \notin 0 .. 3

KeyframeState(group) ==
    LET s == [ids |-> group.ids, bins |-> group.bins]
    IN  IF group.repeated           THEN Refuse("duplicate-gaussian-id")
        ELSE IF OutOfRange(s.bins)  THEN Refuse("bin-overflow")
        ELSE IF BadRotation(s)      THEN Refuse("rotation-index-out-of-range")
        ELSE Ok(s)

----------------------------------------------------------------------------
(* apply_delta: deaths, then updates, then births                          *)

\* select_rows over the ids that did not die.
Survivors(s, dead) ==
    [ids  |-> s.ids \ dead,
     bins |-> [a \in DOMAIN s.bins |-> [g \in DOMAIN s.bins[a] \ dead |-> s.bins[a][g]]]]

\* The column an update or a birth starts from: a lane the state never carried
\* physically is a logical column of zeros when it is an optional identity.
BaseColumn(s, a) ==
    IF a \in DOMAIN s.bins THEN s.bins[a]
    ELSE IF a \in OPTIONAL_IDENTITY THEN [g \in s.ids |-> 0]
    ELSE [g \in {} |-> 0]

\* A wrong UpdatedColumn: a rotation is added to the old one instead of restated.
UpdatedColumnByDifference(s, u, a) ==
    [g \in DOMAIN BaseColumn(s, a) |->
        BaseColumn(s, a)[g] + (IF g \in u.ids THEN u.bins[a][g] ELSE 0)]

UpdatedColumn(s, u, a) ==
    [g \in DOMAIN BaseColumn(s, a) |->
        IF g \notin u.ids                THEN BaseColumn(s, a)[g]
        ELSE IF a \in ABSOLUTE_IN_UPDATE THEN u.bins[a][g]
        ELSE BaseColumn(s, a)[g] + u.bins[a][g]]

Updated(s, u) ==
    IF u.ids = {} THEN s
    ELSE [ids  |-> s.ids,
          bins |-> [a \in DOMAIN s.bins \cup DOMAIN u.bins |->
                       IF a \in DOMAIN u.bins THEN UpdatedColumn(s, u, a) ELSE s.bins[a]]]

BornColumn(s, b, a) ==
    LET new == IF a \in DOMAIN b.bins THEN b.bins[a] ELSE [g \in b.ids |-> 0]
    IN  [g \in DOMAIN BaseColumn(s, a) \cup DOMAIN new |->
            IF g \in DOMAIN new THEN new[g] ELSE BaseColumn(s, a)[g]]

Born(s, b) ==
    IF b.ids = {} THEN s
    ELSE [ids  |-> s.ids \cup b.ids,
          bins |-> [a \in DOMAIN s.bins \cup DOMAIN b.bins |-> BornColumn(s, b, a)]]

Composed(s, d) == Born(Updated(Survivors(s, d.death.ids), d.update), d.birth)

IdInTwoGroups(d) ==
    \/ d.update.ids \cap d.birth.ids # {}
    \/ d.update.ids \cap d.death.ids # {}
    \/ d.birth.ids \cap d.death.ids # {}

AbsoluteOutOfRange(d) ==
    \/ OutOfRange([a \in DOMAIN d.update.bins \cap ABSOLUTE_IN_UPDATE |-> d.update.bins[a]])
    \/ OutOfRange(d.birth.bins)

\* Attributes the update touches that the referenced state does not carry.
UnknownInUpdate(s, u) == (DOMAIN u.bins \ DOMAIN s.bins) \ OPTIONAL_IDENTITY

\* A wrong TouchesGrid: sigma_t and window_index are forgotten.
TouchesFlags(u) == "flags" \in DOMAIN u.bins

\* The update group carries a per-gaussian grid.
TouchesGrid(u) == DOMAIN u.bins \cap GOP_INVARIANT # {}

IncompleteBirth(s, b) == (DOMAIN s.bins \ OPTIONAL_IDENTITY) \ DOMAIN b.bins

\* Every refusal of apply_delta_with_rows, in the order the code meets them.
\* (Inside one update group the code interleaves the unknown-attribute and
\* overflow checks attribute by attribute; here the first comes first.)
ApplyDelta(s, d) ==
    LET kept    == Survivors(s, d.death.ids)
        changed == Updated(kept, d.update)
        result  == Composed(s, d)
    IN  IF IdInTwoGroups(d) THEN Refuse("id-in-two-groups")
        ELSE IF d.update.repeated \/ d.birth.repeated \/ d.death.repeated
             THEN Refuse("duplicate-gaussian-id")
        ELSE IF ("rotation_index" \in DOMAIN d.update.bins) # ("rotation" \in DOMAIN d.update.bins)
             THEN Refuse("incomplete-rotation-update")
        ELSE IF AbsoluteOutOfRange(d) THEN Refuse("bin-overflow")
        ELSE IF TouchesGrid(d.update) THEN Refuse("invariant-changed-in-update")
        ELSE IF ~(d.death.ids \subseteq s.ids) THEN Refuse("unknown-gaussian-id")
        ELSE IF ~(d.update.ids \subseteq kept.ids) THEN Refuse("unknown-gaussian-id")
        ELSE IF d.update.ids # {} /\ UnknownInUpdate(kept, d.update) # {}
             THEN Refuse("unknown-attribute-in-update")
        ELSE IF d.update.ids # {} /\ OutOfRange(changed.bins) THEN Refuse("bin-overflow")
        ELSE IF d.birth.ids \cap changed.ids # {} THEN Refuse("duplicate-gaussian-id")
        ELSE IF d.birth.ids # {} /\ IncompleteBirth(changed, d.birth) # {}
             THEN Refuse("incomplete-birth")
        ELSE IF BadRotation(result) THEN Refuse("rotation-index-out-of-range")
        ELSE Ok(result)

----------------------------------------------------------------------------
(* delta_groups: the writer's split of a sample against its reference      *)

\* A wrong RowsChanged: only the measured attributes are compared.
MeasuredRowsChanged(ref, cur, attributes, g) ==
    \E a \in attributes \cap MEASURED : ref.bins[a][g] # cur.bins[a][g]

RowsChanged(ref, cur, attributes, g) ==
    \E a \in attributes \cap DOMAIN ref.bins \cap DOMAIN cur.bins : ref.bins[a][g] # cur.bins[a][g]

\* "Refuse a sequence that changes a per-gaussian grid mid-group."
ChangesInvariant(ref, cur) ==
    \E g \in ref.ids \cap cur.ids : RowsChanged(ref, cur, GOP_INVARIANT, g)

\* The streams the writer emits for ids: none at all when there is no id.
Streams(ids, bins) == Group(ids, IF ids = {} THEN NoColumns ELSE bins)

UpdateGroup(ref, cur) ==
    LET carried == DOMAIN cur.bins \ GOP_INVARIANT
        moved   == {g \in ref.ids \cap cur.ids : RowsChanged(ref, cur, carried, g)}
    IN  Streams(moved,
                [a \in carried \cap DOMAIN ref.bins |->
                    [g \in moved |-> IF a \in ABSOLUTE_IN_UPDATE
                                     THEN cur.bins[a][g]
                                     ELSE cur.bins[a][g] - ref.bins[a][g]]])

BirthGroup(ref, cur) ==
    LET born == cur.ids \ ref.ids
    IN  Streams(born, [a \in DOMAIN cur.bins |-> [g \in born |-> cur.bins[a][g]]])

DeathGroup(ref, cur) == Group(ref.ids \ cur.ids, NoColumns)

DeltaGroups(ref, cur) == [update |-> UpdateGroup(ref, cur),
                          birth  |-> BirthGroup(ref, cur),
                          death  |-> DeathGroup(ref, cur)]
=============================================================================
