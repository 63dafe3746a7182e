-------------------------- MODULE SceneHandleProofs --------------------------
(***************************************************************************)
(* SceneReader, and the scene behind the C ABI that holds one, of any file *)
(* and under any bounds.  Whatever a reader was asked before and whichever *)
(* range reads failed, the resident gaussians are those its key and band   *)
(* name, its caches hold what a reader that never asked would fetch, and a *)
(* failed call leaves both alone.  Of the handle: a source is released     *)
(* once, the error slots describe the last failure, and the reader behind  *)
(* an open handle keeps its caches in order.                               *)
(***************************************************************************)
EXTENDS SceneHandle, TLAPS

----------------------------------------------------------------------------
(***************************************************************************)
(* The reader.                                                             *)
(***************************************************************************)

IsReader(r) ==
    r = [mode |-> r.mode, scene |-> r.scene, loaded |-> r.loaded, loaded_band |-> r.loaded_band,
         loaded_key |-> r.loaded_key, records |-> r.records, provenance_only |-> r.provenance_only,
         objects |-> r.objects, poses |-> r.poses, validated |-> r.validated]

SameFile(r, s) == IsReader(s) /\ s.mode = r.mode /\ s.scene = r.scene

SameSet(r, s) == s.loaded = r.loaded /\ s.loaded_band = r.loaded_band /\ s.loaded_key = r.loaded_key

SameRecords(r, s) == s.records = r.records /\ s.provenance_only = r.provenance_only

SameCaches(r, s) == SameRecords(r, s) /\ s.objects = r.objects /\ s.poses = r.poses

----------------------------------------------------------------------------
(* The invariant, of a reader r of the file f                              *)

\* ResidentIsKeyed.
Keyed(f, r) ==
    IF r.mode = "streamed" THEN r.loaded = r.scene.gaussians
    ELSE r.loaded = IF r.loaded_key = None THEN <<>> ELSE SetOf(f, r, r.loaded_key[1], r.loaded_band)

\* The records part of CachesAreFresh.
RecordsFresh(f, r) ==
    /\ IsSome(r.records) => r.records = RecordsOf(f, [r EXCEPT !.provenance_only = None])
    /\ IsSome(r.provenance_only) => r.provenance_only = I!ReadProvenance(f, r.scene)
    /\ ~(IsSome(r.records) /\ IsSome(r.provenance_only))

\* The poses part: what the instant and the band name, whatever is resident now.
PosesFresh(f, r) ==
    IsSome(r.poses) =>
        LET cached == r.poses[1]
            then == [r EXCEPT !.loaded = SetOf(f, r, At(cached.t), cached.band)]
        IN  /\ r.objects = None
            /\ Some(cached.poses) = I!ReadPoses(f, r.scene, Referenced(then, cached.t), cached.t, {})

\* What makes them inductive: a track is only marked validated once its times
\* were found in order, so leaving it out of a later check changes no answer.
ValidatedHold(f, r) == \A at \in r.validated : I!TimesHold(f[at].times)

Good(f, r) == IsReader(r) /\ Keyed(f, r) /\ RecordsFresh(f, r) /\ PosesFresh(f, r) /\ ValidatedHold(f, r)

IInv == Good(file, reader)

----------------------------------------------------------------------------
(* Options, and one lemma per assignment to a reader's fields              *)

LEMMA OptionFacts ==
    /\ \A x : IsSome(Some(x)) /\ Some(x)[1] = x /\ Some(x) # None
    /\ ~IsSome(None)
    /\ \A x, y : Some(x) = Some(y) => x = y
BY DEF IsSome, Some, None

LEMMA SameOptions == (\A x : I!IsSome(x) = IsSome(x) /\ I!Some(x) = Some(x)) /\ I!None = None
BY DEF IsSome, Some, None, I!IsSome, I!Some, I!None

LEMMA KeyTaken ==
    ASSUME NEW r, IsReader(r), NEW k, NEW s, s = [r EXCEPT !.loaded_key = k]
    PROVE  SameFile(r, s) /\ SameCaches(r, s) /\ s.validated = r.validated /\ s.loaded = r.loaded
BY DEF IsReader, SameFile, SameCaches, SameRecords

LEMMA LoadedReplaced ==
    ASSUME NEW r, IsReader(r), NEW l, NEW s, s = [r EXCEPT !.loaded = l]
    PROVE  s.loaded = l
BY DEF IsReader

LEMMA TracksValidated ==
    ASSUME NEW r, IsReader(r), NEW tracks
    PROVE  LET s == Validated(r, tracks)
           IN  SameFile(r, s) /\ SameSet(r, s) /\ SameCaches(r, s) /\ s.validated = r.validated \cup tracks
<1> DEFINE s == Validated(r, tracks)
<1>1. s = [r EXCEPT !.validated = r.validated \cup tracks]
    BY DEF Validated
<1> QED BY <1>1 DEF IsReader, SameFile, SameSet, SameCaches, SameRecords

LEMMA PosesKept ==
    ASSUME NEW r, IsReader(r), NEW p, NEW s, s = [r EXCEPT !.poses = p]
    PROVE  /\ SameFile(r, s) /\ SameSet(r, s) /\ SameRecords(r, s) /\ s.validated = r.validated
           /\ s.objects = r.objects /\ s.poses = p
BY DEF IsReader, SameFile, SameSet, SameRecords

LEMMA RecordsKept ==
    ASSUME NEW r, IsReader(r), NEW x
    PROVE  LET s == KeepRecords(r, x)
           IN  /\ SameFile(r, s) /\ SameSet(r, s) /\ s.objects = r.objects /\ s.poses = r.poses
               /\ s.validated = r.validated /\ s.records = Some(x) /\ s.provenance_only = None
<1> DEFINE s == KeepRecords(r, x)
<1>1. s = [r EXCEPT !.records = Some(x), !.provenance_only = None]
    BY DEF KeepRecords
<1> QED BY <1>1 DEF IsReader, SameFile, SameSet

LEMMA ProvenanceKept ==
    ASSUME NEW r, IsReader(r), NEW p, NEW s, s = [r EXCEPT !.provenance_only = p]
    PROVE  /\ SameFile(r, s) /\ SameSet(r, s) /\ s.objects = r.objects /\ s.poses = r.poses
           /\ s.validated = r.validated /\ s.records = r.records /\ s.provenance_only = p
BY DEF IsReader, SameFile, SameSet

LEMMA LayerKept ==
    ASSUME NEW r, IsReader(r), NEW l, NEW s, s = [r EXCEPT !.objects = l, !.poses = None]
    PROVE  /\ SameFile(r, s) /\ SameSet(r, s) /\ SameRecords(r, s) /\ s.validated = r.validated
           /\ s.objects = l /\ s.poses = None
BY DEF IsReader, SameFile, SameSet, SameRecords

----------------------------------------------------------------------------
(* What the fetches depend on                                              *)

\* A key and a band name the same set whatever is resident.
LEMMA SetOfScene ==
    ASSUME NEW f, NEW r, NEW s, s.scene = r.scene, NEW key, NEW cap
    PROVE  SetOf(f, s, key, cap) = SetOf(f, r, key, cap)
BY DEF SetOf, Wanted, Assembly

LEMMA ReferencedLoaded ==
    ASSUME NEW r, NEW s, s.loaded = r.loaded, NEW t
    PROVE  Referenced(s, t) = Referenced(r, t)
BY DEF Referenced, Visible

\* The provenance fetched alone is the one the records would fetch.
LEMMA RecordsOfScene ==
    ASSUME NEW f, NEW r, NEW s, SameFile(r, s),
           IsSome(r.provenance_only) => r.provenance_only = I!ReadProvenance(f, r.scene),
           IsSome(s.provenance_only) => s.provenance_only = I!ReadProvenance(f, r.scene)
    PROVE  RecordsOf(f, s) = RecordsOf(f, r)
<1>1. (IF IsSome(s.provenance_only) THEN s.provenance_only ELSE I!ReadProvenance(f, s.scene))
      = (IF IsSome(r.provenance_only) THEN r.provenance_only ELSE I!ReadProvenance(f, r.scene))
    BY DEF SameFile
<1>2. s.mode = r.mode /\ s.scene = r.scene
    BY DEF SameFile
<1> QED BY <1>1, <1>2 DEF RecordsOf

\* Tracks already validated may be left out of the check.
LEMMA ValidatedSkipped ==
    ASSUME NEW f, NEW r, ValidatedHold(f, r), NEW ids, NEW t
    PROVE  I!ReadPoses(f, r.scene, ids, t, r.validated) = I!ReadPoses(f, r.scene, ids, t, {})
<1> DEFINE tracks == r.scene.front.tracks
           moved == {o \in DOMAIN tracks \cap ids : f[tracks[o]].times # <<>>}
<1>1. (\A o \in moved : tracks[o] \in r.validated \/ I!TimesHold(f[tracks[o]].times))
      <=> (\A o \in moved : tracks[o] \in {} \/ I!TimesHold(f[tracks[o]].times))
    BY DEF ValidatedHold
<1> QED BY <1>1 DEF I!ReadPoses

\* Poses that were read are of tracks whose times are in order.
LEMMA PosesValidate ==
    ASSUME NEW f, NEW r, ValidatedHold(f, r), NEW ids, NEW t,
           I!ReadPoses(f, r.scene, ids, t, r.validated) # None
    PROVE  \A at \in TracksOf(r, ids) : I!TimesHold(f[at].times)
<1> DEFINE tracks == r.scene.front.tracks
           moved == {o \in DOMAIN tracks \cap ids : f[tracks[o]].times # <<>>}
<1>1. \A o \in moved : tracks[o] \in r.validated \/ I!TimesHold(f[tracks[o]].times)
    BY SameOptions DEF I!ReadPoses
<1>2. I!TimesHold(<<>>)
    BY DEF I!TimesHold, I!Increasing
<1> QED BY <1>1, <1>2 DEF TracksOf, ValidatedHold

----------------------------------------------------------------------------
(* Each part of the invariant survives what leaves its fields alone        *)

LEMMA KeyedKept ==
    ASSUME NEW f, NEW r, Keyed(f, r), NEW s, SameFile(r, s), SameSet(r, s)
    PROVE  Keyed(f, s)
BY SetOfScene DEF Keyed, SameFile, SameSet

LEMMA RecordsFreshKept ==
    ASSUME NEW f, NEW r, IsReader(r), RecordsFresh(f, r), NEW s, SameFile(r, s), SameRecords(r, s)
    PROVE  RecordsFresh(f, s)
<1> DEFINE alone(x) == [x EXCEPT !.provenance_only = None]
<1>1. /\ SameFile(r, alone(r)) /\ alone(r).provenance_only = None
      /\ SameFile(s, alone(s)) /\ alone(s).provenance_only = None
    BY ProvenanceKept DEF SameFile
<1>2. RecordsOf(f, alone(s)) = RecordsOf(f, alone(r))
    <2> HIDE DEF alone
    <2> QED BY <1>1, OptionFacts, RecordsOfScene DEF SameFile
<1> QED BY <1>2 DEF RecordsFresh, SameRecords, SameFile

\* The cached poses are those of a set, whatever set is resident.
LEMMA PosesOf ==
    ASSUME NEW f, NEW r, IsReader(r), NEW s, SameFile(r, s), NEW t, NEW cap
    PROVE  Referenced([s EXCEPT !.loaded = SetOf(f, s, At(t), cap)], t)
           = Referenced([r EXCEPT !.loaded = SetOf(f, r, At(t), cap)], t)
<1> DEFINE a == SetOf(f, s, At(t), cap)
           b == SetOf(f, r, At(t), cap)
           y == [s EXCEPT !.loaded = a]
           z == [r EXCEPT !.loaded = b]
<1>1. a = b
    BY SetOfScene DEF SameFile
<1> HIDE DEF a, b
<1>2. y.loaded = a /\ z.loaded = b
    BY LoadedReplaced DEF SameFile
<1> HIDE DEF y, z
<1>3. Referenced(y, t) = Referenced(z, t)
    BY <1>1, <1>2, ReferencedLoaded
<1> QED BY <1>3 DEF y, z, a, b

LEMMA PosesFreshKept ==
    ASSUME NEW f, NEW r, IsReader(r), PosesFresh(f, r), NEW s, SameFile(r, s),
           s.objects = r.objects, s.poses = r.poses
    PROVE  PosesFresh(f, s)
BY PosesOf DEF PosesFresh, SameFile

LEMMA GoodKept ==
    ASSUME NEW f, NEW r, Good(f, r), NEW s, SameFile(r, s), SameCaches(r, s), Keyed(f, s),
           s.validated = r.validated
    PROVE  Good(f, s)
BY RecordsFreshKept, PosesFreshKept DEF Good, SameFile, SameCaches, ValidatedHold

----------------------------------------------------------------------------
(* Loads                                                                   *)

\* The chunks that arrived are the ones their entries name, under any bound.
LEMMA ArrivedIsNamed ==
    ASSUME NEW f, NEW r, NEW key, NEW cap, NEW budget, Arrived(Fetched(f, r, key, cap, budget))
    PROVE  Assembly(r, ChunksOf(Fetched(f, r, key, cap, budget))) = SetOf(f, r, key, cap)
<1> DEFINE wanted == Wanted(r, key)
           fetched == Fetched(f, r, key, cap, budget)
           named == [i \in DOMAIN wanted |-> I!Decoded(f, wanted[i], cap)]
<1>1. fetched = [i \in DOMAIN wanted |-> I!ReadChunk(f, r.scene, wanted[i], cap, budget)]
    BY DEF Fetched
<1>2. ASSUME NEW i \in DOMAIN wanted
      PROVE  fetched[i][1] = named[i]
    <2>1. I!ReadChunk(f, r.scene, wanted[i], cap, budget) # None
        BY <1>1 DEF Arrived, IsSome
    <2>2. I!ReadChunk(f, r.scene, wanted[i], cap, budget) = Some(I!Decoded(f, wanted[i], cap))
        BY <2>1, SameOptions DEF I!ReadChunk
    <2> QED BY <1>1, <2>2, OptionFacts
<1>3. ChunksOf(fetched) = named
    BY <1>1, <1>2 DEF ChunksOf
<1> QED BY <1>3 DEF SetOf

LEMMA Replacing ==
    ASSUME NEW f, NEW r, IsReader(r), NEW key, NEW cap, NEW o, NEW limit, NEW fails,
           NEW x, x = Replaced(f, r, key, cap, o, limit, fails)
    PROVE  \/ x = Failed(r)
           \/ /\ SameFile(r, x.reader) /\ SameCaches(r, x.reader) /\ x.reader.validated = r.validated
              /\ x.reader.loaded = SetOf(f, r, key, cap)
              /\ x.reader.loaded_band = cap /\ x.reader.loaded_key = Some(key)
              /\ x.value # None
<1> DEFINE fetched == Fetched(f, r, key, cap, limit)
           chunks == ChunksOf(fetched)
           s == [r EXCEPT !.loaded = Assembly(r, chunks), !.loaded_band = cap, !.loaded_key = Some(key)]
<1>1. x = Failed(r) \/ (Arrived(fetched) /\ x = Done(s, Len(chunks)))
    BY DEF Replaced
<1>2. CASE Arrived(fetched) /\ x = Done(s, Len(chunks))
    <2>1. x.reader = s /\ x.value = Some(Len(chunks))
        BY <1>2 DEF Done
    <2>2. Assembly(r, chunks) = SetOf(f, r, key, cap)
        BY <1>2, ArrivedIsNamed
    <2>3. s = [r EXCEPT !.loaded = Assembly(r, chunks), !.loaded_band = cap, !.loaded_key = Some(key)]
        OBVIOUS
    <2> HIDE DEF s
    <2>4. /\ SameFile(r, s) /\ SameCaches(r, s) /\ s.validated = r.validated
          /\ s.loaded = Assembly(r, chunks) /\ s.loaded_band = cap /\ s.loaded_key = Some(key)
        BY <2>3 DEF IsReader, SameFile, SameCaches, SameRecords
    <2> QED BY <2>1, <2>2, <2>4, OptionFacts
<1> QED BY <1>1, <1>2

\* A load keeps the caches and the invariant; one that fails keeps the reader,
\* and one that succeeds on the indexed path holds what its key and band name.
LEMMA Loading ==
    ASSUME NEW f, NEW r, Good(f, r), NEW key, NEW cap, NEW o, NEW limit, NEW fails,
           NEW x, x = LoadWithin(f, r, key, cap, o, limit, fails)
    PROVE  /\ Good(f, x.reader) /\ SameFile(r, x.reader) /\ SameCaches(r, x.reader)
           /\ x.value = None => x.reader = r
           /\ x.value # None /\ r.mode # "streamed" => x.reader.loaded = SetOf(f, r, key, cap)
<1> DEFINE taken == [r EXCEPT !.loaded_key = Some(key)]
<1>0. IsReader(r) /\ Keyed(f, r)
    BY DEF Good
<1>1. \/ x = Failed(r)
      \/ \E v : x = Done(r, v) /\ Cached(r, key, cap)
      \/ \E v : x = Done(taken, v) /\ r.mode = "streamed"
      \/ x = Replaced(f, r, key, cap, o, limit, fails) /\ r.mode # "streamed"
    BY DEF LoadWithin
<1>2. SameFile(r, r) /\ SameSet(r, r) /\ SameCaches(r, r)
    BY <1>0 DEF SameFile, SameSet, SameCaches, SameRecords
<1>3. CASE x = Failed(r)
    BY <1>2, <1>3 DEF Failed
<1>4. CASE \E v : x = Done(r, v) /\ Cached(r, key, cap)
    <2>1. x.reader = r /\ x.value # None /\ r.loaded_key = Some(key) /\ r.loaded_band = cap
        BY <1>4, OptionFacts DEF Done, Cached
    <2>2. r.mode # "streamed" => r.loaded = SetOf(f, r, key, cap)
        BY <1>0, <2>1, OptionFacts DEF Keyed
    <2> QED BY <1>2, <2>1, <2>2
<1>5. CASE \E v : x = Done(taken, v) /\ r.mode = "streamed"
    <2>1. x.reader = taken /\ x.value # None
        BY <1>5, OptionFacts DEF Done
    <2>2. SameFile(r, taken) /\ SameCaches(r, taken) /\ taken.validated = r.validated /\ taken.loaded = r.loaded
        BY <1>0, KeyTaken
    <2>3. Keyed(f, taken)
        <3> HIDE DEF taken
        <3> QED BY <1>0, <1>5, <2>2 DEF Keyed, SameFile
    <2>4. Good(f, taken)
        <3> HIDE DEF taken
        <3> QED BY <2>2, <2>3, GoodKept
    <2> QED BY <1>5, <2>1, <2>2, <2>4
<1>6. CASE x = Replaced(f, r, key, cap, o, limit, fails) /\ r.mode # "streamed" /\ x # Failed(r)
    <2>1. /\ SameFile(r, x.reader) /\ SameCaches(r, x.reader) /\ x.reader.validated = r.validated
          /\ x.reader.loaded = SetOf(f, r, key, cap)
          /\ x.reader.loaded_band = cap /\ x.reader.loaded_key = Some(key)
          /\ x.value # None
        BY <1>0, <1>6, Replacing
    <2>2. Keyed(f, x.reader)
        BY <1>6, <2>1, SetOfScene, OptionFacts DEF Keyed, SameFile
    <2>3. Good(f, x.reader)
        BY <2>1, <2>2, GoodKept
    <2> QED BY <2>1, <2>3
<1> QED BY <1>1, <1>3, <1>4, <1>5, <1>6

----------------------------------------------------------------------------
(* The poses of a state                                                    *)

\* Sampling for a state whose load succeeded on the indexed path.
LEMMA Sampling ==
    ASSUME NEW f, NEW r, Good(f, r), NEW t, NEW cap, r.loaded = SetOf(f, r, At(t), cap), r.objects = None,
           NEW fails, NEW some, \A at \in some : I!TimesHold(f[at].times),
           NEW x, x = Sampled(f, r, t, cap, fails, some)
    PROVE  /\ Good(f, x.reader) /\ SameRecords(r, x.reader) /\ x.reader.objects = r.objects
           /\ x.value = None => x.reader.poses = r.poses
<1> DEFINE ids == Referenced(r, t)
           poses == I!ReadPoses(f, r.scene, ids, t, r.validated)
           part == Validated(r, some)
           all == Validated(r, TracksOf(r, ids))
           done == [all EXCEPT !.poses = Some([t |-> t, band |-> cap, poses |-> poses[1]])]
<1>0. IsReader(r) /\ Keyed(f, r) /\ RecordsFresh(f, r) /\ PosesFresh(f, r) /\ ValidatedHold(f, r)
    BY DEF Good
<1>1. \/ x = Done(r, r.poses[1].poses)
      \/ x = Failed(part)
      \/ poses # None /\ x = Done(done, poses[1])
    BY DEF Sampled
<1>2. CASE x = Done(r, r.poses[1].poses)
    BY <1>2, OptionFacts DEF Done, SameRecords
<1>3. CASE x = Failed(part)
    <2>1. /\ SameFile(r, part) /\ SameSet(r, part) /\ SameCaches(r, part)
          /\ part.validated = r.validated \cup some
        BY <1>0, TracksValidated
    <2>2. x.reader = part
        BY <1>3 DEF Failed
    <2> HIDE DEF part
    <2>3. ValidatedHold(f, part)
        BY <1>0, <2>1 DEF ValidatedHold
    <2>4. Keyed(f, part) /\ RecordsFresh(f, part) /\ PosesFresh(f, part)
        BY <1>0, <2>1, KeyedKept, RecordsFreshKept, PosesFreshKept DEF SameCaches
    <2> QED BY <2>1, <2>2, <2>3, <2>4 DEF Good, SameFile, SameCaches
<1>4. CASE poses # None /\ x = Done(done, poses[1])
    <2>1. /\ SameFile(r, all) /\ SameSet(r, all) /\ SameCaches(r, all)
          /\ all.validated = r.validated \cup TracksOf(r, ids)
        BY <1>0, TracksValidated
    <2>2. x.reader = done /\ x.value # None
        BY <1>4, OptionFacts DEF Done
    <2>3. \A at \in TracksOf(r, ids) : I!TimesHold(f[at].times)
        BY <1>0, <1>4, PosesValidate
    <2>4. poses = Some(poses[1]) /\ poses = I!ReadPoses(f, r.scene, ids, t, {})
        <3>1. poses = I!ReadPoses(f, r.scene, ids, t, {})
            BY <1>0, ValidatedSkipped
        <3>2. poses = Some(poses[1])
            BY <1>4, SameOptions, OptionFacts DEF I!ReadPoses
        <3> QED BY <3>1, <3>2
    <2> HIDE DEF all, ids, poses
    <2>5. /\ SameFile(all, done) /\ SameSet(all, done) /\ SameRecords(all, done)
          /\ done.validated = all.validated /\ done.objects = all.objects
          /\ done.poses = Some([t |-> t, band |-> cap, poses |-> poses[1]])
        BY <2>1, PosesKept DEF SameFile
    <2> HIDE DEF done
    <2>6. SameFile(r, done) /\ SameSet(r, done) /\ SameRecords(r, done) /\ done.objects = None
        BY <2>1, <2>5 DEF SameFile, SameSet, SameRecords, SameCaches
    <2>7. ValidatedHold(f, done)
        BY <1>0, <2>1, <2>3, <2>5 DEF ValidatedHold
    <2>8. PosesFresh(f, done)
        <3> DEFINE then == [done EXCEPT !.loaded = SetOf(f, done, At(t), cap)]
        <3>1. then.loaded = r.loaded
            BY <2>6, LoadedReplaced, SetOfScene DEF SameFile
        <3>2. Referenced(then, t) = ids
            BY <3>1, ReferencedLoaded DEF ids
        <3>3. /\ done.poses[1].t = t /\ done.poses[1].band = cap /\ done.poses[1].poses = poses[1]
            BY <2>5, OptionFacts
        <3> QED BY <2>4, <2>6, <3>2, <3>3 DEF PosesFresh, SameFile
    <2>9. Keyed(f, done) /\ RecordsFresh(f, done)
        BY <1>0, <2>6, KeyedKept, RecordsFreshKept
    <2> QED BY <2>2, <2>6, <2>7, <2>8, <2>9 DEF Good, SameFile
<1> QED BY <1>1, <1>2, <1>3, <1>4

\* Posing keeps all but the poses, and those too when it fails.
KeepsRest(f, r, x) ==
    /\ Good(f, x.reader) /\ SameRecords(r, x.reader) /\ x.reader.objects = r.objects
    /\ x.value = None => x.reader.poses = r.poses

\* Posed, in every mode.
LEMMA Posing ==
    ASSUME NEW f, NEW r, Good(f, r), NEW t, NEW cap, r.mode # "streamed" => r.loaded = SetOf(f, r, At(t), cap),
           NEW fails, NEW some, \A at \in some : I!TimesHold(f[at].times),
           NEW x, x = Posed(f, r, t, cap, fails, some)
    PROVE  KeepsRest(f, r, x)
<1>1. \/ \E v : x = Done(r, v)
      \/ r.mode # "streamed" /\ r.objects = None /\ x = Sampled(f, r, t, cap, fails, some)
    BY DEF Posed, IsSome
<1>2. CASE \E v : x = Done(r, v)
    BY <1>2 DEF Done, SameRecords, KeepsRest
<1>3. CASE r.mode # "streamed" /\ r.objects = None /\ x = Sampled(f, r, t, cap, fails, some)
    BY <1>3, Sampling DEF KeepsRest
<1> QED BY <1>1, <1>2, <1>3

----------------------------------------------------------------------------
(* The records fetched on first use                                        *)

\* A failing call changes nothing, and one that answers keeps the resident set.
Fetches(f, r, x) ==
    /\ Good(f, x.reader)
    /\ x.value = None => x.reader = r

LEMMA FetchingRecords ==
    ASSUME NEW f, NEW r, Good(f, r), NEW o, NEW fails, NEW x, x = EnsureRecords(f, r, o, fails)
    PROVE  Fetches(f, r, x)
<1> DEFINE records == RecordsOf(f, r)
           kept == KeepRecords(r, records[1])
           alone == [kept EXCEPT !.provenance_only = None]
<1>0. IsReader(r) /\ Keyed(f, r) /\ RecordsFresh(f, r) /\ PosesFresh(f, r) /\ ValidatedHold(f, r)
    BY DEF Good
<1>1. \/ x = Failed(r)
      \/ \E v : x = Done(r, v)
      \/ IsSome(records) /\ x = Done(kept, records[1])
    <2>1. r.mode = "streamed" => IsSome(records)
        BY OptionFacts DEF RecordsOf
    <2> QED BY <2>1 DEF EnsureRecords, TakesProvenance
<1>2. CASE x = Failed(r) \/ \E v : x = Done(r, v)
    BY <1>2, OptionFacts DEF Done, Failed, Fetches
<1>3. CASE IsSome(records) /\ x = Done(kept, records[1])
    <2>1. x.reader = kept /\ x.value # None
        <3>1. x.reader = kept /\ x.value = Some(records[1])
            BY <1>3 DEF Done
        <3> QED BY <3>1, OptionFacts
    <2>2. /\ SameFile(r, kept) /\ SameSet(r, kept) /\ kept.objects = r.objects /\ kept.poses = r.poses
          /\ kept.validated = r.validated /\ kept.records = Some(records[1]) /\ kept.provenance_only = None
        BY <1>0, RecordsKept
    <2>3. records = Some(records[1])
        <3>1. records = None \/ \E v : records = Some(v)
            BY DEF RecordsOf
        <3> QED BY <1>3, <3>1, OptionFacts
    <2> HIDE DEF kept
    <2>4. SameFile(kept, alone) /\ alone.provenance_only = None
        BY <2>2, ProvenanceKept DEF SameFile
    <2> HIDE DEF alone
    <2>5. RecordsOf(f, alone) = records
        <3>1. SameFile(r, alone)
            BY <2>2, <2>4 DEF SameFile
        <3> QED BY <1>0, <2>4, <3>1, OptionFacts, RecordsOfScene DEF RecordsFresh
    <2>6. RecordsFresh(f, kept)
        BY <2>2, <2>3, <2>5, OptionFacts DEF RecordsFresh, alone
    <2>7. Keyed(f, kept) /\ PosesFresh(f, kept) /\ ValidatedHold(f, kept)
        BY <1>0, <2>2, KeyedKept, PosesFreshKept DEF ValidatedHold
    <2> QED BY <2>1, <2>2, <2>6, <2>7 DEF Fetches, Good, SameFile
<1> QED BY <1>1, <1>2, <1>3

LEMMA FetchingProvenance ==
    ASSUME NEW f, NEW r, Good(f, r), NEW o, NEW fails, NEW x, x = EnsureProvenance(f, r, o, fails)
    PROVE  Fetches(f, r, x)
<1> DEFINE provenance == I!ReadProvenance(f, r.scene)
           kept == [r EXCEPT !.provenance_only = provenance]
           alone == [kept EXCEPT !.provenance_only = None]
           whole == EnsureRecords(f, r, o, fails)
<1>0. IsReader(r) /\ Keyed(f, r) /\ RecordsFresh(f, r) /\ PosesFresh(f, r) /\ ValidatedHold(f, r)
    BY DEF Good
<1>1. \/ x = Failed(r)
      \/ \E v : x = Done(r, v)
      \/ ~IsSome(r.records) /\ r.mode = "streamed" /\ x = Done(whole.reader, whole.value[1].provenance)
      \/ ~IsSome(r.records) /\ IsSome(provenance) /\ x = Done(kept, provenance[1])
    BY DEF EnsureProvenance
<1>2. CASE x = Failed(r) \/ \E v : x = Done(r, v)
    BY <1>2, OptionFacts DEF Done, Failed, Fetches
<1>3. CASE x = Done(whole.reader, whole.value[1].provenance)
    <2>1. Good(f, whole.reader)
        BY FetchingRecords DEF Fetches
    <2> QED BY <1>3, <2>1, OptionFacts DEF Done, Fetches
<1>4. CASE ~IsSome(r.records) /\ IsSome(provenance) /\ x = Done(kept, provenance[1])
    <2>1. x.reader = kept /\ x.value # None
        BY <1>4, OptionFacts DEF Done
    <2> HIDE DEF provenance
    <2>2. /\ SameFile(r, kept) /\ SameSet(r, kept) /\ kept.objects = r.objects /\ kept.poses = r.poses
          /\ kept.validated = r.validated /\ kept.records = r.records /\ kept.provenance_only = provenance
        BY <1>0, ProvenanceKept
    <2> HIDE DEF kept
    <2>3. RecordsFresh(f, kept)
        BY <1>4, <2>2 DEF RecordsFresh, SameFile, provenance
    <2>4. Keyed(f, kept) /\ PosesFresh(f, kept) /\ ValidatedHold(f, kept)
        BY <1>0, <2>2, KeyedKept, PosesFreshKept DEF ValidatedHold
    <2> QED BY <2>1, <2>2, <2>3, <2>4 DEF Fetches, Good, SameFile
<1> QED BY <1>1, <1>2, <1>3, <1>4

LEMMA FetchingObjects ==
    ASSUME NEW f, NEW r, Good(f, r), NEW o, NEW fails, NEW x, x = EnsureObjects(f, r, o, fails)
    PROVE  Fetches(f, r, x)
<1>0. IsReader(r) /\ Keyed(f, r) /\ RecordsFresh(f, r) /\ PosesFresh(f, r) /\ ValidatedHold(f, r)
    BY DEF Good
<1>1. \/ x = Failed(r)
      \/ \E v : x = Done(r, v)
      \/ \E layer : x = Done([r EXCEPT !.objects = layer, !.poses = None], layer[1])
    BY DEF EnsureObjects
<1>2. CASE x = Failed(r) \/ \E v : x = Done(r, v)
    BY <1>2, OptionFacts DEF Done, Failed, Fetches
<1>3. CASE \E layer : x = Done([r EXCEPT !.objects = layer, !.poses = None], layer[1])
    <2> PICK layer : x = Done([r EXCEPT !.objects = layer, !.poses = None], layer[1])
        BY <1>3
    <2> DEFINE kept == [r EXCEPT !.objects = layer, !.poses = None]
    <2>1. x.reader = kept /\ x.value # None
        BY OptionFacts DEF Done
    <2>2. kept = [r EXCEPT !.objects = layer, !.poses = None]
        OBVIOUS
    <2> HIDE DEF kept
    <2>3. /\ SameFile(r, kept) /\ SameSet(r, kept) /\ SameRecords(r, kept)
          /\ kept.validated = r.validated /\ kept.poses = None
        BY <2>2 DEF IsReader, SameFile, SameSet, SameRecords, Good
    <2>4. Keyed(f, kept) /\ RecordsFresh(f, kept) /\ ValidatedHold(f, kept) /\ PosesFresh(f, kept)
        BY <1>0, <2>3, KeyedKept, RecordsFreshKept, OptionFacts DEF ValidatedHold, PosesFresh
    <2> QED BY <2>1, <2>3, <2>4 DEF Fetches, Good, SameFile
<1> QED BY <1>1, <1>2, <1>3

----------------------------------------------------------------------------
(* Every call keeps the invariant, and a failed one keeps the caches       *)

\* What FailuresKeepCaches says of a call.
KeepsCaches(op, r, x) ==
    x.value = None => /\ SameRecords(r, x.reader) /\ x.reader.objects = r.objects /\ x.reader.poses = r.poses
                      /\ op = "load" => SameSet(r, x.reader)

\* A call answers op with the outcome x of some operation on the reader.
Calls(op) ==
    \E x, request, shown :
        /\ Returns(request, x, shown) /\ request.op = op
        /\ Good(file, x.reader) /\ KeepsCaches(op, reader, x)

LEMMA FailedFetch ==
    ASSUME NEW f, NEW r, NEW x, Fetches(f, r, x), NEW op
    PROVE  Good(f, x.reader) /\ KeepsCaches(op, r, x)
BY DEF Fetches, KeepsCaches, SameRecords, SameSet

LEMMA CallAnswers ==
    ASSUME NEW op, Calls(op)
    PROVE  /\ IInv' /\ UNCHANGED <<file, options>>
           /\ answer'.value = None =>
                /\ reader'.records = reader.records /\ reader'.provenance_only = reader.provenance_only
                /\ reader'.objects = reader.objects /\ reader'.poses = reader.poses
                /\ answer'.request.op = "load" =>
                    reader'.loaded = reader.loaded /\ reader'.loaded_key = reader.loaded_key
                    /\ reader'.loaded_band = reader.loaded_band
<1> PICK x, request, shown :
        /\ Returns(request, x, shown) /\ request.op = op
        /\ Good(file, x.reader) /\ KeepsCaches(op, reader, x)
    BY DEF Calls
<1>1. /\ reader' = x.reader /\ file' = file /\ options' = options
      /\ answer' = Answer(request, IF IsSome(x.value) THEN Some(shown) ELSE None)
    BY DEF Returns
<1>2. answer'.request = request /\ (answer'.value = None => x.value = None)
    BY <1>1, OptionFacts DEF Answer, IsSome
<1>3. IInv'
    BY <1>1 DEF IInv
<1> QED BY <1>1, <1>2, <1>3 DEF KeepsCaches, SameRecords, SameSet

LEMMA LoadCalls ==
    ASSUME IInv, NEW key, NEW cap, NEW limit, NEW fails, NEW shown,
           NEW x, x = LoadWithin(file, reader, key, cap, options, limit, fails),
           NEW request, request.op = "load", Returns(request, x, shown)
    PROVE  Calls("load")
<1>1. /\ Good(file, x.reader) /\ SameCaches(reader, x.reader)
      /\ x.value = None => x.reader = reader
    BY Loading DEF IInv
<1>2. KeepsCaches("load", reader, x)
    BY <1>1 DEF KeepsCaches, SameCaches, SameRecords, SameSet
<1> QED BY <1>1, <1>2 DEF Calls

LEMMA PosingAfterLoad ==
    ASSUME NEW r, Good(file, r), SameCaches(reader, r), NEW t, NEW cap,
           r.mode # "streamed" => r.loaded = SetOf(file, r, At(t), cap),
           NEW fails, NEW some, \A at \in some : I!TimesHold(file[at].times),
           NEW x, x = Posed(file, r, t, cap, fails, some)
    PROVE  Good(file, x.reader) /\ KeepsCaches("state", reader, x)
<1>1. KeepsRest(file, r, x)
    BY Posing
<1> QED BY <1>1 DEF KeepsRest, KeepsCaches, SameCaches, SameRecords

LEMMA StateAtCalls == ASSUME IInv, StateAt PROVE Calls("state")
<1> PICK t \in INSTANTS, cap \in CAPS : \E fails \in Faults(Cached(reader, At(t), cap)) :
        LET load == LoadWithin(file, reader, At(t), cap, options, options.limit, fails)
            request == [op |-> "state", t |-> t]
        IN  IF load.value = None THEN Returns(request, load, <<>>)
            ELSE \E poseFails \in Faults(PoseHit(reader, t, cap)) :
                 \E some \in SUBSET (IF poseFails /\ load.reader.mode = "indexed"
                                     THEN InOrder(file, TracksOf(load.reader, Referenced(load.reader, t))) ELSE {}) :
                    LET x == Posed(file, load.reader, t, cap, poseFails, some)
                    IN  Returns(request, x,
                                [ids |-> P!Ids(Visible(load.reader, t)),
                                 poses |-> Moved(x.value[1], Referenced(load.reader, t))])
    BY DEF StateAt
<1> PICK fails \in Faults(Cached(reader, At(t), cap)) :
        LET load == LoadWithin(file, reader, At(t), cap, options, options.limit, fails)
            request == [op |-> "state", t |-> t]
        IN  IF load.value = None THEN Returns(request, load, <<>>)
            ELSE \E poseFails \in Faults(PoseHit(reader, t, cap)) :
                 \E some \in SUBSET (IF poseFails /\ load.reader.mode = "indexed"
                                     THEN InOrder(file, TracksOf(load.reader, Referenced(load.reader, t))) ELSE {}) :
                    LET x == Posed(file, load.reader, t, cap, poseFails, some)
                    IN  Returns(request, x,
                                [ids |-> P!Ids(Visible(load.reader, t)),
                                 poses |-> Moved(x.value[1], Referenced(load.reader, t))])
    OBVIOUS
<1> DEFINE load == LoadWithin(file, reader, At(t), cap, options, options.limit, fails)
           request == [op |-> "state", t |-> t]
<1>1. /\ Good(file, load.reader) /\ SameFile(reader, load.reader) /\ SameCaches(reader, load.reader)
      /\ load.value = None => load.reader = reader
      /\ load.value # None /\ reader.mode # "streamed" => load.reader.loaded = SetOf(file, reader, At(t), cap)
    BY Loading DEF IInv
<1>2. request.op = "state"
    OBVIOUS
<1>3. CASE load.value = None
    <2>1. Returns(request, load, <<>>)
        BY <1>3
    <2> HIDE DEF load, request
    <2>2. KeepsCaches("state", reader, load)
        BY <1>1 DEF KeepsCaches, SameCaches
    <2> QED BY <1>1, <1>2, <2>1, <2>2 DEF Calls
<1>4. CASE load.value # None
    <2> PICK poseFails, some, x, shown :
            /\ \A at \in some : I!TimesHold(file[at].times)
            /\ x = Posed(file, load.reader, t, cap, poseFails, some)
            /\ Returns(request, x, shown)
        BY <1>4 DEF InOrder
    <2> HIDE DEF load, request
    <2>1. Good(file, load.reader) /\ SameCaches(reader, load.reader)
          /\ (load.reader.mode # "streamed" => load.reader.loaded = SetOf(file, load.reader, At(t), cap))
        BY <1>1, <1>4, SetOfScene DEF SameFile
    <2>2. Good(file, x.reader) /\ KeepsCaches("state", reader, x)
        BY <2>1, PosingAfterLoad
    <2> QED BY <1>2, <2>2 DEF Calls
<1> QED BY <1>3, <1>4

LEMMA LoadActionCalls == ASSUME IInv, LoadAll \/ LoadAt \/ LoadChunk \/ LoadAllWithin PROVE Calls("load")
<1>1. ASSUME NEW key, NEW cap, NEW fails, LoadFor(key, cap, fails)
      PROVE  Calls("load")
    <2> DEFINE x == LoadWithin(file, reader, key, cap, options, options.limit, fails)
               request == [op |-> "load", key |-> key]
    <2>1. Returns(request, x, P!Ids(x.reader.loaded)) /\ request.op = "load"
        BY <1>1 DEF LoadFor
    <2> QED BY <2>1, LoadCalls
<1>2. CASE LoadAll
    BY <1>1, <1>2 DEF LoadAll
<1>3. CASE LoadAt
    BY <1>1, <1>3 DEF LoadAt
<1>4. CASE LoadChunk
    BY <1>1, <1>4 DEF LoadChunk
<1>5. CASE LoadAllWithin
    <2> PICK cap \in CAPS : \E fails \in Faults(Cached(reader, All, cap)) :
            LET x == LoadWithin(file, reader, All, cap, options, options.limit \div 2, fails)
            IN  Returns([op |-> "load", key |-> All], x, P!Ids(x.reader.loaded))
        BY <1>5 DEF LoadAllWithin
    <2> PICK fails \in Faults(Cached(reader, All, cap)) :
            LET x == LoadWithin(file, reader, All, cap, options, options.limit \div 2, fails)
            IN  Returns([op |-> "load", key |-> All], x, P!Ids(x.reader.loaded))
        OBVIOUS
    <2> DEFINE x == LoadWithin(file, reader, All, cap, options, options.limit \div 2, fails)
               request == [op |-> "load", key |-> All]
    <2>1. Returns(request, x, P!Ids(x.reader.loaded)) /\ request.op = "load"
        OBVIOUS
    <2> QED BY <2>1, LoadCalls
<1> QED BY <1>2, <1>3, <1>4, <1>5

LEMMA RecordsCalls == ASSUME IInv, Records PROVE Calls("records")
<1> PICK fails \in Faults(IsSome(reader.records)) :
        LET x == EnsureRecords(file, reader, options, fails)
        IN  Returns([op |-> "records"], x,
                    [camera |-> x.value[1].camera, metadata |-> x.value[1].metadata,
                     attachments |-> x.value[1].attachments])
    BY DEF Records
<1> DEFINE x == EnsureRecords(file, reader, options, fails)
<1>1. Good(file, x.reader) /\ KeepsCaches("records", reader, x)
    BY FetchingRecords, FailedFetch DEF IInv
<1>2. [op |-> "records"].op = "records"
    OBVIOUS
<1> HIDE DEF x
<1> QED BY <1>1, <1>2 DEF Calls, x

LEMMA ProvenanceCalls == ASSUME IInv, Provenance PROVE Calls("provenance")
<1> PICK fails \in Faults(IsSome(reader.records) \/ IsSome(reader.provenance_only)) :
        LET x == EnsureProvenance(file, reader, options, fails) IN Returns([op |-> "provenance"], x, x.value[1])
    BY DEF Provenance
<1> DEFINE x == EnsureProvenance(file, reader, options, fails)
<1>1. Good(file, x.reader) /\ KeepsCaches("provenance", reader, x)
    BY FetchingProvenance, FailedFetch DEF IInv
<1>2. [op |-> "provenance"].op = "provenance"
    OBVIOUS
<1> QED BY <1>1, <1>2 DEF Calls

LEMMA ObjectsCalls == ASSUME IInv, Objects PROVE Calls("objects")
<1> PICK fails \in Faults(IsSome(reader.objects)) :
        LET x == EnsureObjects(file, reader, options, fails) IN Returns([op |-> "objects"], x, x.value[1])
    BY DEF Objects
<1> DEFINE x == EnsureObjects(file, reader, options, fails)
<1>1. Good(file, x.reader) /\ KeepsCaches("objects", reader, x)
    BY FetchingObjects, FailedFetch DEF IInv
<1>2. [op |-> "objects"].op = "objects"
    OBVIOUS
<1> QED BY <1>1, <1>2 DEF Calls

\* Audio is kept nowhere.
LEMMA AudioCalls == ASSUME IInv, AudioDescriptor \/ AudioRange PROVE \E op : Calls(op)
<1>1. ASSUME NEW x, x.reader = reader, NEW op
      PROVE  Good(file, x.reader) /\ KeepsCaches(op, reader, x)
    BY <1>1 DEF IInv, KeepsCaches, SameRecords, SameSet
<1>2. CASE AudioDescriptor
    <2> PICK i \in DOMAIN reader.scene.audio, fails \in Faults(FALSE) :
            LET x == AudioSourceAt(reader, i, options, fails)
            IN  Returns([op |-> "audio", index |-> i], x, x.value[1])
        BY <1>2 DEF AudioDescriptor
    <2> DEFINE x == AudioSourceAt(reader, i, options, fails)
               request == [op |-> "audio", index |-> i]
    <2>1. x.reader = reader
        BY DEF AudioSourceAt, Done, Failed
    <2>2. request.op = "audio" /\ Returns(request, x, x.value[1])
        OBVIOUS
    <2> HIDE DEF x, request
    <2> QED BY <1>1, <2>1, <2>2 DEF Calls
<1>3. CASE AudioRange
    <2> PICK i \in DOMAIN reader.scene.audio, n \in 0 .. 3, fails \in Faults(FALSE) :
            LET x == AudioRangeOf(reader, i, 1, n, options, fails)
            IN  Returns([op |-> "range", index |-> i, end |-> 1 + n], x, x.value[1])
        BY <1>3 DEF AudioRange
    <2> DEFINE x == AudioRangeOf(reader, i, 1, n, options, fails)
               request == [op |-> "range", index |-> i, end |-> 1 + n]
    <2>1. x.reader = reader
        BY DEF AudioRangeOf, Done, Failed
    <2>2. request.op = "range" /\ Returns(request, x, x.value[1])
        OBVIOUS
    <2> HIDE DEF x, request
    <2> QED BY <1>1, <2>1, <2>2 DEF Calls
<1> QED BY <1>2, <1>3

LEMMA NextCalls == ASSUME IInv, Next PROVE \E op : Calls(op)
BY LoadActionCalls, StateAtCalls, RecordsCalls, ProvenanceCalls, ObjectsCalls, AudioCalls DEF Next

----------------------------------------------------------------------------
(* The theorems                                                            *)

LEMMA FreshIsGood ==
    ASSUME NEW f, NEW mode, NEW scene, NEW loaded, NEW band, NEW key,
           mode = "streamed" => loaded = scene.gaussians,
           mode # "streamed" => loaded = <<>> /\ key = None
    PROVE  Good(f, Fresh(mode, scene, loaded, band, key))
<1> DEFINE r == Fresh(mode, scene, loaded, band, key)
<1>1. IsReader(r) /\ r.mode = mode /\ r.scene = scene /\ r.loaded = loaded /\ r.loaded_key = key
      /\ r.records = None /\ r.provenance_only = None /\ r.poses = None /\ r.validated = {}
    BY DEF Fresh, IsReader
<1> HIDE DEF r
<1> QED BY <1>1, OptionFacts DEF Good, Keyed, RecordsFresh, PosesFresh, ValidatedHold, r

LEMMA OpenedGood ==
    ASSUME NEW f, NEW mode, NEW o, IsSome(OpenReader(f, mode, o))
    PROVE  Good(f, OpenReader(f, mode, o)[1])
<1>1. OpenReader(f, mode, o)[1] = Indexed(f, o) \/ OpenReader(f, mode, o)[1] = Streamed(f, o)
    BY OptionFacts DEF OpenReader
<1>2. Good(f, Indexed(f, o))
    BY FreshIsGood DEF Indexed
<1>3. Good(f, Streamed(f, o))
    BY FreshIsGood DEF Streamed
<1> QED BY <1>1, <1>2, <1>3

LEMMA InitIInv == Init => IInv
BY OpenedGood DEF Init, IInv

LEMMA StepIInv == IInv /\ [Next]_vars => IInv'
<1> SUFFICES ASSUME IInv, [Next]_vars PROVE IInv'
    OBVIOUS
<1>1. CASE Next
    BY <1>1, NextCalls, CallAnswers
<1>2. CASE UNCHANGED vars
    BY <1>2 DEF vars, IInv
<1> QED BY <1>1, <1>2

\* The resident gaussians are the ones the last load that succeeded asked for,
\* of any file and under any bounds, whichever loads failed since.
THEOREM ResidentSetIsKeyed == Spec => []ResidentIsKeyed
<1>1. IInv => ResidentIsKeyed
    BY DEF IInv, Good, Keyed, ResidentIsKeyed
<1> QED BY <1>1, InitIInv, StepIInv, PTL DEF Spec

\* No cache is ever stale: what is kept is what would be fetched again.
THEOREM CachesStayFresh == Spec => []CachesAreFresh
<1>1. IInv => CachesAreFresh
    BY DEF IInv, Good, RecordsFresh, PosesFresh, CachesAreFresh
<1> QED BY <1>1, InitIInv, StepIInv, PTL DEF Spec

\* A failed call leaves the caches alone, and a failed load the resident set.
THEOREM FailuresAreHarmless == Spec => FailuresKeepCaches
<1> DEFINE Kept == answer'.value = None =>
                     /\ reader'.records = reader.records /\ reader'.provenance_only = reader.provenance_only
                     /\ reader'.objects = reader.objects /\ reader'.poses = reader.poses
                     /\ answer'.request.op = "load" =>
                         reader'.loaded = reader.loaded /\ reader'.loaded_key = reader.loaded_key
                         /\ reader'.loaded_band = reader.loaded_band
<1>1. IInv /\ [Next]_vars => [Kept]_vars
    BY NextCalls, CallAnswers DEF vars
<1> QED BY <1>1, InitIInv, StepIInv, PTL DEF Spec, FailuresKeepCaches

----------------------------------------------------------------------------
(***************************************************************************)
(* The handle.                                                             *)
(***************************************************************************)

\* Who owns what: a handle stands for a source that was given away.
Owned ==
    /\ released \in [Contexts -> Nat] /\ given \subseteq Contexts
    /\ handle \in {"none", "open", "freed"}
    /\ handle # "none" => "scene" \in given
    /\ ReleasedOnce

Behind == handle = "open" => Good(file, reader)

HInv == Owned /\ Behind

----------------------------------------------------------------------------
(* Ownership                                                               *)

LEMMA DroppedOnce ==
    ASSUME released \in [Contexts -> Nat], NEW source \in Contexts
    PROVE  /\ Dropped(source) \in [Contexts -> Nat]
           /\ Dropped(source)[source] = released[source] + 1
           /\ \A other \in Contexts : other # source => Dropped(source)[other] = released[other]
BY DEF Dropped

\* What the ownership of the sources depends on.
LEMMA OwnedIdle == ASSUME Owned, UNCHANGED <<handle, released, given>> PROVE Owned'
BY DEF Owned, ReleasedOnce

LEMMA OwnedNext == ASSUME Owned, HNext PROVE Owned'
<1> USE DEF Contexts
<1>1. CASE OpenMisused
    <2>1. /\ handle = "none" /\ "scene" \notin given /\ given' = given \cup {"scene"} /\ handle' = handle
          /\ released' = Dropped("scene")
        BY <1>1 DEF OpenMisused, Takes
    <2> QED BY <2>1, DroppedOnce DEF Owned, ReleasedOnce
<1>2. CASE Open
    <2>1. /\ handle = "none" /\ "scene" \notin given /\ given' = given \cup {"scene"}
          /\ \/ handle' = "open" /\ released' = released
             \/ handle' = "none" /\ released' = Dropped("scene")
        BY <1>2 DEF Open
    <2> QED BY <2>1, DroppedOnce DEF Owned, ReleasedOnce
<1>3. CASE Free
    <2>1. handle = "open" /\ handle' = "freed" /\ released' = Dropped("scene") /\ given' = given
        BY <1>3 DEF Free
    <2> QED BY <2>1, DroppedOnce DEF Owned, ReleasedOnce
<1>4. CASE Validate
    <2>1. /\ "sequence" \notin given /\ given' = given \cup {"sequence"} /\ handle' = handle
          /\ released' = Dropped("sequence")
        BY <1>4 DEF Validate, Takes
    <2> QED BY <2>1, DroppedOnce DEF Owned, ReleasedOnce
<1>5. CASE \/ Misuse \/ Load \/ Fetch \/ TakeState \/ FreeState \/ DescribeAudio \/ ReadAudio \/ Summarize
    BY <1>5, OwnedIdle
    DEF Misuse, Load, Fetch, TakeState, FreeState, DescribeAudio, ReadAudio, Summarize, HandleIdle
<1> QED BY <1>1, <1>2, <1>3, <1>4, <1>5 DEF HNext

----------------------------------------------------------------------------
(* The error slots                                                         *)

\* What SlotsDescribeOneFailure says of one call.
LastDescribed ==
    IF answer'.value = None /\ answer'.request.op \notin {"none", "codec"}
    THEN /\ IsSome(last'.message)
         /\ last'.refusal = (IF last'.message = Some("refused") THEN last'.message ELSE None)
         /\ IsSome(last'.offset) => answer'.request.op = "validate"
    ELSE last' = last

\* Slots that describe one failure, without a byte.
OneFailure(slots) ==
    /\ IsSome(slots.message) /\ ~IsSome(slots.offset)
    /\ slots.refusal = IF slots.message = Some("refused") THEN slots.message ELSE None

LEMMA ReportedSlots ==
    ASSUME NEW slots, NEW what
    PROVE  /\ what # "refused" => OneFailure(SetLastError(slots, what))
           /\ OneFailure(Report(slots, what))
<1>1. Some(what) = Some("refused") <=> what = "refused"
    BY OptionFacts
<1>2. /\ SetLastError(slots, what).message = Some(what) /\ SetLastError(slots, what).refusal = None
      /\ SetLastError(slots, what).offset = None
    BY DEF SetLastError
<1>3. /\ Report(slots, what).message = Some(what) /\ Report(slots, what).offset = None
      /\ Report(slots, what).refusal = IF what = "refused" THEN Some(what) ELSE None
    BY DEF Report, SetLastError
<1> QED BY <1>1, <1>2, <1>3, OptionFacts DEF OneFailure

LEMMA SlotsOfCall ==
    ASSUME answer'.request.op \notin {"none", "codec"}, last' \in SlotsAfter(answer'.value)
    PROVE  LastDescribed
<1>1. CASE IsSome(answer'.value)
    BY <1>1 DEF SlotsAfter, IsSome, LastDescribed
<1>2. CASE ~IsSome(answer'.value)
    <2>1. OneFailure(last')
        BY <1>2, ReportedSlots DEF SlotsAfter
    <2> QED BY <1>2, <2>1 DEF IsSome, LastDescribed, OneFailure
<1> QED BY <1>1, <1>2

LEMMA SceneCallOp ==
    ASSUME IInv, LoadAll \/ LoadAllWithin \/ LoadAt \/ LoadChunk \/ StateAt \/ Records \/ Provenance
    PROVE  answer'.request.op \notin {"none", "codec"}
<1>1. Calls("load") \/ Calls("state") \/ Calls("records") \/ Calls("provenance")
    BY LoadActionCalls, StateAtCalls, RecordsCalls, ProvenanceCalls
<1>2. ASSUME NEW op, Calls(op) PROVE answer'.request.op = op
    BY <1>2 DEF Calls, Returns, Answer
<1> QED BY <1>1, <1>2

LEMMA SlotsNext == ASSUME Behind, HNext PROVE LastDescribed
<1>1. CASE OpenMisused \/ Misuse
    <2>1. /\ answer'.value = None /\ answer'.request.op \in {"open", "misuse"}
          /\ last' = SetLastError(last, "argument") \/ last' = Report(last, "error")
        <3>1. CASE OpenMisused
            BY <3>1 DEF OpenMisused, Answer
        <3>2. CASE Misuse
            BY <3>2 DEF Misuse, Answer
        <3> QED BY <1>1, <3>1, <3>2
    <2>2. OneFailure(last')
        BY <2>1, ReportedSlots
    <2> QED BY <2>1, <2>2 DEF LastDescribed, OneFailure
<1>2. CASE Open
    <2> PICK value : answer' = Answer([op |-> "open"], value) /\ last' \in SlotsAfter(value)
        BY <1>2 DEF Open
    <2>1. answer'.request.op = "open" /\ answer'.value = value
        BY DEF Answer
    <2> QED BY <2>1, SlotsOfCall
<1>3. CASE Free \/ FreeState
    <2>1. answer' = NoAnswer /\ last' = last
        BY <1>3 DEF Free, FreeState
    <2>2. answer'.request.op = "none"
        BY <2>1 DEF NoAnswer
    <2> QED BY <2>1, <2>2 DEF LastDescribed
<1>4. CASE Validate
    <2> PICK outcome \in {"valid", "argument", "refused", "error"} :
            /\ answer' = Answer([op |-> "validate"], IF outcome = "valid" THEN Some(outcome) ELSE None)
            /\ last' \in CASE outcome = "valid" -> {last}
                           [] outcome = "argument" -> {SetLastError(last, outcome)}
                           [] OTHER -> {Report(last, outcome), ReportAt(last, outcome)}
        BY <1>4 DEF Validate
    <2>1. /\ answer'.request.op = "validate"
          /\ answer'.value = IF outcome = "valid" THEN Some(outcome) ELSE None
        BY DEF Answer
    <2>2. CASE outcome = "valid"
        BY <2>1, <2>2, OptionFacts DEF LastDescribed
    <2>3. CASE outcome # "valid"
        <3>1. answer'.value = None
            BY <2>1, <2>3
        <3>2. last' = ReportAt(last, outcome) \/ OneFailure(last')
            BY <2>3, ReportedSlots
        <3>3. /\ ReportAt(last, outcome).message = Report(last, outcome).message
              /\ ReportAt(last, outcome).refusal = Report(last, outcome).refusal
            BY DEF ReportAt, Report, SetLastError
        <3>4. OneFailure(Report(last, outcome))
            BY ReportedSlots
        <3> QED BY <2>1, <3>1, <3>2, <3>3, <3>4 DEF OneFailure, LastDescribed
    <2> QED BY <2>2, <2>3
<1>5. CASE Load \/ Fetch \/ TakeState
    <2>1. last' \in SlotsAfter(answer'.value) /\ handle = "open"
        BY <1>5 DEF Load, Fetch, TakeState
    <2>2. answer'.request.op \notin {"none", "codec"}
        BY <1>5, <2>1, SceneCallOp DEF Load, Fetch, TakeState, Behind, IInv
    <2> QED BY <2>1, <2>2, SlotsOfCall
<1>6. CASE DescribeAudio
    <2> PICK i \in DOMAIN reader.scene.audio : \E op \in {"audio", "codec"} : \E x, shown :
            /\ Returns([op |-> op, index |-> i], x, shown)
            /\ last' \in (IF op = "codec" THEN {last} ELSE SlotsAfter(x.value))
        BY <1>6 DEF DescribeAudio
    <2> PICK op \in {"audio", "codec"} : \E x, shown :
            /\ Returns([op |-> op, index |-> i], x, shown)
            /\ last' \in (IF op = "codec" THEN {last} ELSE SlotsAfter(x.value))
        OBVIOUS
    <2> PICK x, shown :
            /\ Returns([op |-> op, index |-> i], x, shown)
            /\ last' \in (IF op = "codec" THEN {last} ELSE SlotsAfter(x.value))
        OBVIOUS
    <2>1. answer'.request.op = op /\ answer'.value = IF IsSome(x.value) THEN Some(shown) ELSE None
        BY DEF Returns, Answer
    <2>2. CASE op = "codec"
        BY <2>1, <2>2 DEF LastDescribed
    <2>3. CASE op = "audio"
        <3>1. last' \in SlotsAfter(answer'.value)
            BY <2>1, <2>3, OptionFacts DEF SlotsAfter
        <3> QED BY <2>1, <2>3, <3>1, SlotsOfCall
    <2> QED BY <2>2, <2>3
<1>7. ASSUME NEW request, NEW x, NEW shown, Returns(request, x, shown), request.op \in {"range", "summary"},
             last' \in SlotsAfter(x.value)
      PROVE  LastDescribed
    <2>1. answer'.request.op = request.op /\ answer'.value = IF IsSome(x.value) THEN Some(shown) ELSE None
        BY <1>7 DEF Returns, Answer
    <2>2. last' \in SlotsAfter(answer'.value)
        BY <1>7, <2>1, OptionFacts DEF SlotsAfter
    <2> QED BY <1>7, <2>1, <2>2, SlotsOfCall
<1>8. CASE ReadAudio
    <2> PICK i, n, x, shown : /\ Returns([op |-> "range", index |-> i, end |-> 1 + n], x, shown)
                              /\ last' \in SlotsAfter(x.value)
        BY <1>8 DEF ReadAudio
    <2>1. [op |-> "range", index |-> i, end |-> 1 + n].op = "range"
        OBVIOUS
    <2> QED BY <1>7, <2>1
<1>9. CASE Summarize
    <2> PICK x, shown : Returns([op |-> "summary"], x, shown) /\ last' \in SlotsAfter(x.value)
        BY <1>9 DEF Summarize
    <2>1. [op |-> "summary"].op = "summary"
        OBVIOUS
    <2> QED BY <1>7, <2>1
<1> QED BY <1>1, <1>2, <1>3, <1>4, <1>5, <1>6, <1>8, <1>9 DEF HNext

----------------------------------------------------------------------------
(* The reader behind the handle                                            *)

\* A call answered by a reader that is in order leaves it so.
LEMMA ReaderOfCall ==
    ASSUME NEW request, NEW x, NEW shown, Returns(request, x, shown), Good(file, x.reader)
    PROVE  Good(file, reader)'
BY DEF Returns

\* The three steps of a summary.
LEMMA SummaryGood ==
    ASSUME NEW r, Good(file, r), NEW full, NEW lower, NEW fails,
           NEW layer, layer = EnsureObjects(file, r, options, fails["objects"]),
           NEW whole, whole = IF layer.value = None THEN layer
                              ELSE LoadWithin(file, layer.reader, All, full, options, options.limit, fails["load"]),
           NEW x, x = IF lower
                      THEN LoadWithin(file, whole.reader, All, r.loaded_band, options, options.limit, fails["restore"])
                      ELSE whole
    PROVE  Good(file, x.reader)
<1>1. Good(file, layer.reader)
    BY FetchingObjects DEF Fetches
<1>2. Good(file, whole.reader)
    <2>1. CASE layer.value = None
        BY <1>1, <2>1
    <2>2. CASE layer.value # None
        BY <1>1, <2>2, Loading
    <2> QED BY <2>1, <2>2
<1>3. CASE lower
    BY <1>2, <1>3, Loading
<1>4. CASE ~lower
    BY <1>2, <1>4
<1> QED BY <1>3, <1>4

LEMMA AudioKeepsReader ==
    ASSUME NEW i, NEW n, NEW fails
    PROVE  /\ Described(i, fails).reader = reader
           /\ AudioRangeOf(reader, i, 1, n, options, fails).reader = reader
BY DEF Described, AudioSourceAt, AudioRangeOf, Done, Failed

LEMMA BehindNext == ASSUME Owned, Behind, HNext PROVE Behind'
<1>1. CASE OpenMisused \/ Validate \/ Misuse
    BY <1>1 DEF OpenMisused, Validate, Misuse, SceneIdle, Behind
<1>2. CASE Open
    <2>1. /\ file' = file
          /\ \E opened \in {None, OpenReader(file, options.mode, options)} :
                /\ handle' = "open" => IsSome(opened)
                /\ IsSome(opened) => reader' = opened[1]
        BY <1>2, OptionFacts DEF Open
    <2>2. handle' = "open" => Good(file, reader')
        BY <2>1, OpenedGood, OptionFacts
    <2> QED BY <2>1, <2>2 DEF Behind
<1>3. CASE Free
    BY <1>3 DEF Free, Behind
<1>4. CASE FreeState
    BY <1>4 DEF FreeState, Behind
<1>5. ASSUME IInv, handle = "open", Load \/ Fetch \/ TakeState
      PROVE  IInv'
    <2>1. LoadAll \/ LoadAllWithin \/ LoadAt \/ LoadChunk \/ Records \/ Provenance \/ StateAt
        BY <1>5 DEF Load, Fetch, TakeState
    <2>2. Next
        BY <2>1 DEF Next
    <2> QED BY <1>5, <2>2, StepIInv
<1>6. CASE Load \/ Fetch \/ TakeState
    <2>1. handle = "open" /\ handle' = handle
        BY <1>6 DEF Load, Fetch, TakeState, HandleIdle
    <2> QED BY <1>5, <1>6, <2>1 DEF Behind, IInv
<1>7. CASE DescribeAudio
    <2> PICK i, fails, request, shown, x : x = Described(i, fails) /\ Returns(request, x, shown) /\ handle = "open"
        BY <1>7 DEF DescribeAudio
    <2>1. x.reader = reader
        BY AudioKeepsReader
    <2> QED BY <1>7, <2>1, ReaderOfCall DEF Behind
<1>8. CASE ReadAudio
    <2> PICK i, n, fails, again, described, request, shown, x :
            /\ described = Described(i, fails)
            /\ x = IF IsSome(described.value) THEN AudioRangeOf(reader, i, 1, n, options, again) ELSE described
            /\ Returns(request, x, shown) /\ handle = "open"
        BY <1>8 DEF ReadAudio
    <2>1. x.reader = reader
        BY AudioKeepsReader
    <2> QED BY <1>8, <2>1, ReaderOfCall DEF Behind
<1>9. CASE Summarize
    <2> PICK full, fails, layer, whole, x, request, shown :
            /\ layer = EnsureObjects(file, reader, options, fails["objects"])
            /\ whole = IF layer.value = None THEN layer
                       ELSE LoadWithin(file, layer.reader, All, full, options, options.limit, fails["load"])
            /\ x = IF IsSome(whole.value) /\ reader.loaded_band < full
                   THEN LoadWithin(file, whole.reader, All, reader.loaded_band, options, options.limit, fails["restore"])
                   ELSE whole
            /\ Returns(request, x, shown) /\ handle = "open"
        BY <1>9 DEF Summarize
    <2>1. Good(file, reader)
        BY DEF Behind
    <2>2. Good(file, x.reader)
        BY <2>1, SummaryGood
    <2> QED BY <2>2, ReaderOfCall DEF Behind
<1> QED BY <1>1, <1>2, <1>3, <1>4, <1>6, <1>7, <1>8, <1>9 DEF HNext

----------------------------------------------------------------------------
(* The theorems                                                            *)

LEMMA InitHInv == HInit => HInv
BY DEF HInit, HInv, Owned, Behind, ReleasedOnce, Contexts

LEMMA NextHInv == HInv /\ [HNext]_hvars => HInv'
<1> SUFFICES ASSUME HInv, [HNext]_hvars PROVE HInv'
    OBVIOUS
<1>1. CASE HNext
    BY <1>1, OwnedNext, BehindNext DEF HInv
<1>2. CASE UNCHANGED hvars
    BY <1>2, OwnedIdle DEF hvars, HInv, Behind
<1> QED BY <1>1, <1>2

\* A source given away is released exactly once, whatever failed in between: by
\* the call that refused it, or with the scene that holds it (CallbackSource).
THEOREM SourcesReleasedOnce == HSpec => []ReleasedOnce
<1>1. HInv => ReleasedOnce
    BY DEF HInv, Owned
<1> QED BY <1>1, InitHInv, NextHInv, PTL DEF HSpec

\* "The message and the identifier a caller reads always describe the same
\* failure" (capi.rs): after any call that reports one, and no other call.
THEOREM SlotsAgree == HSpec => SlotsDescribeOneFailure
<1>1. HInv /\ [HNext]_hvars => [LastDescribed]_hvars
    BY SlotsNext DEF HInv
<1> QED BY <1>1, InitHInv, NextHInv, PTL DEF HSpec, SlotsDescribeOneFailure, LastDescribed

\* The reader behind an open handle keeps what SceneReader promises, summaries
\* and failed loads included: its resident set is keyed and its caches fresh.
THEOREM HandleKeepsReader == HSpec => [](handle = "open" => ResidentIsKeyed /\ CachesAreFresh)
<1>1. HInv => (handle = "open" => ResidentIsKeyed /\ CachesAreFresh)
    BY DEF HInv, Behind, Good, Keyed, RecordsFresh, PosesFresh, ResidentIsKeyed, CachesAreFresh
<1> QED BY <1>1, InitHInv, NextHInv, PTL DEF HSpec
==============================================================================
