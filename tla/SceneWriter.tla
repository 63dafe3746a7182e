----------------------------- MODULE SceneWriter -----------------------------
(***************************************************************************)
(* encode() of a gaussian-birth file (rust/fourdgs/src/writer.rs): what is *)
(* checked, how gaussians are assigned to chunks, and the records in the   *)
(* order they are written.  Time is in units of one rounding step, and     *)
(* attribute values are the gaussian's number; what quantization does to   *)
(* them, and the measurement of it, is not modelled.                       *)
(*                                                                         *)
(* An input is [gaussians, degree, coefficients, rows, duration, options,  *)
(* extras, handle], a gaussian [lo, hi, mu, half, object, sound], its      *)
(* window and the instants mu - half .. mu + half of its marginal; half is *)
(* None for one that never fades.  rows is how many gaussians the harmonic *)
(* coefficients are for.  What a fourdgs_writer holds is an input that is  *)
(* put together call by call and encoded as often as the caller likes.     *)
(***************************************************************************)
EXTENDS StreamedScene

CONSTANTS
    INPUTS,  \* what encode is called with, by a caller of the library
    FRESH,   \* what fourdgs_writer_new holds: an input without gaussians
    COLUMNS, \* the gaussians a handle may be given at once
    SETTINGS,\* the options its setters may be called for
    TINY     \* the interval planned for a scene without a duration

\* A handle starts without harmonics, and an input that a caller of the library
\* made is not a handle's.
ASSUME HandleAssumption ==
    /\ FRESH = [field \in DOMAIN FRESH |-> FRESH[field]]
    /\ {"gaussians", "degree", "coefficients", "rows", "duration", "options", "handle"} \subseteq DOMAIN FRESH
    /\ FRESH.handle /\ FRESH.degree = 0 /\ FRESH.coefficients = 0 /\ FRESH.rows = 0
    /\ \A x \in INPUTS : ~x.handle

\* Windows and marginals are numbers, as are the limits of a partition.
Measured(gaussians) ==
    /\ Len(gaussians) \in Nat /\ DOMAIN gaussians = 1 .. Len(gaussians)
    /\ \A i \in DOMAIN gaussians :
        LET g == gaussians[i]
        IN  /\ g.lo \in Int /\ g.hi \in Int
            /\ g.half # None => g.mu \in Int /\ g.half[1] \in Int

Limited(options) == options.max_depth \in Nat /\ options.min_gaussians \in Nat

ASSUME InputAssumption ==
    /\ \A x \in INPUTS \cup {FRESH} : Measured(x.gaussians) /\ Limited(x.options) /\ x.duration \in Int
    /\ \A columns \in COLUMNS : Measured(columns)
    /\ \A options \in SETTINGS : Limited(options)
    /\ TINY \in Nat

VARIABLES
    input,
    stage,   \* "assembling" by a handle; "called", "quantized", "planned", "writing", "written" or "refused"
    plans,   \* the chunks to write: [t0, t1, level, members]
    out,     \* the records written
    index    \* the index entries of the chunks written
vars == <<input, stage, plans, out, index>>

I == INSTANCE IndexedScene

Gaussians == DOMAIN input.gaussians

----------------------------------------------------------------------------
(* What is refused                                                         *)

TablesIn(records) == Len(SelectSeq(records, LAMBDA r : r.op = "OBJECT_TABLE"))

\* The objects profile promises memberships and exactly one, parseable, table.
ProfileHolds(x) ==
    x.options.profile = "objects" =>
        /\ x.gaussians # <<>> => x.options.memberships
        /\ \A r \in Range(x.options.extra_records) : r.op = "OBJECT_TABLE" => r.sound
        /\ TablesIn(x.options.extra_records) = 1

\* check_cutoff and check_finite_input.
InputHolds(x) == x.options.cutoff /\ \A i \in DOMAIN x.gaussians : x.gaussians[i].sound

\* normalized_audio_sources: the legacy track is the one source 0, which lasts
\* until the scene ends.
SourcesOf(x) ==
    IF x.extras.legacy = None THEN x.extras.sources
    ELSE LET track == x.extras.legacy[1]
         IN  <<[id |-> 0, length |-> track.length, times |-> <<>>, lasts |-> Max({x.duration - track.start, 0})]>>

AudioNormal(x) ==
    LET sources == SourcesOf(x)
    IN  /\ x.extras.legacy = None \/ x.extras.sources = <<>>
        /\ \A i, j \in DOMAIN sources : sources[i].id = sources[j].id => i = j
        /\ \A s \in Range(sources) :
            /\ s.length > 0 /\ s.lasts > 0
            /\ Increasing(s.times)
            /\ Range(s.times) \subseteq 0 .. x.duration

\* The bands that are written: those below both caps whose first coefficient exists.
FirstOf(band) == <<0, 3, 8>>[band]
EndOf(band) == <<3, 8, 15>>[band]
BandsOf(x) == {b \in Bands : b <= x.degree /\ b <= x.options.sh_bands /\ FirstOf(b) < x.coefficients}

\* Coefficients that end inside a band are written as far as they go.
WidthIn(x, band) == Min({EndOf(band), x.coefficients}) - FirstOf(band)

\* resolve_sh_depths: a ladder as long as the bands, if there is one.
DepthsResolve(x) ==
    IsSome(x.options.ladder) /\ BandsOf(x) # {} => Len(x.options.ladder[1]) >= Cardinality(BandsOf(x))

\* Provenance::check, in which a trajectory without samples is no rig.
ProvenanceNormal(p) ==
    /\ Unique(p.rigs)
    /\ ProvenanceHolds([p EXCEPT !.rigs = SelectSeq(@, LAMBDA r : r.times # <<>>)], FALSE)
    /\ \A field \in DOMAIN p : \A r \in Range(p[field]) : r.sound

----------------------------------------------------------------------------
(* Chunks                                                                  *)

\* A wrong Marginal: the endpoints are not rounded outwards.
MarginalExact(g) == [lo |-> g.mu - g.half[1], hi |-> g.mu + g.half[1]]

\* marginal_support: one rounding step beyond the last instant that is visible.
Marginal(g) == [lo |-> g.mu - g.half[1] - 1, hi |-> g.mu + g.half[1] + 1]

\* planning_support: the marginal within the window.
Support(g) ==
    IF g.half = None THEN [lo |-> g.lo, hi |-> g.hi]
    ELSE [lo |-> Max({Marginal(g).lo, g.lo}), hi |-> Min({Marginal(g).hi, g.hi})]

\* The ends of the scene and of every window strictly inside it.
Tops(x) ==
    LET ends == UNION {{x.gaussians[i].lo, x.gaussians[i].hi} : i \in DOMAIN x.gaussians}
        inside == {v \in ends : 0 < v /\ v < x.duration}
    IN  IF x.duration = 0 THEN <<0, TINY>> ELSE Ranked({0, x.duration} \cup inside)

Node(a, b, level, members) == [t0 |-> a, t1 |-> b, level |-> level, members |-> members]

\* A node and those that no node below it took.
NodeIfAny(a, b, level, members) == IF members = {} THEN <<>> ELSE <<Node(a, b, level, members)>>

\* A wrong EndsBy: a support that ends at the middle straddles it.
EndsBefore(support, mid) == support.hi < mid
EndsBy(support, mid) == support.hi <= mid

\* What can be a node, and what comes of one: those of its members that stay in
\* it, and the nodes below it.
NodesOf(x) == [t0 : Int, t1 : Int, level : Nat, members : SUBSET DOMAIN x.gaussians]

Middle(node) == (node.t0 + node.t1) \div 2

\* A half with too few to be worth a chunk gives them back.
Half(x, below, node) ==
    IF Cardinality(node.members) < x.options.min_gaussians THEN [stay |-> node.members, nodes |-> <<>>]
    ELSE [stay |-> {}, nodes |-> below[node].nodes \o NodeIfAny(node.t0, node.t1, node.level, below[node].stay)]

\* The members of a node go to the half that holds their support, and on from there.
Split(x, below, node) ==
    LET In(i) == Support(x.gaussians[i])
        mid == Middle(node)
        left == {i \in node.members : EndsBy(In(i), mid)}
        right == {i \in node.members \ left : In(i).lo >= mid}
        l == Half(x, below, Node(node.t0, mid, node.level + 1, left))
        r == Half(x, below, Node(mid, node.t1, node.level + 1, right))
    IN  [stay |-> (node.members \ (left \cup right)) \cup l.stay \cup r.stay, nodes |-> l.nodes \o r.nodes]

\* Tree::descend, by how many levels there may still be below the node.
Descend(x) ==
    LET descend[rooms \in 0 .. x.options.max_depth] ==
            [node \in NodesOf(x) |->
                IF node.members = {} \/ rooms = 0 THEN [stay |-> node.members, nodes |-> <<>>]
                ELSE Split(x, descend[rooms - 1], node)]
    IN  descend[x.options.max_depth]

Assigned(nodes) == UNION {nodes[i].members : i \in DOMAIN nodes}

\* The nodes below one window, of the gaussians that no earlier window took.
Under(x, nodes, a, b) ==
    LET pool == {i \in DOMAIN x.gaussians \ Assigned(nodes) :
                    a <= Support(x.gaussians[i]).lo /\ Support(x.gaussians[i]).hi <= b}
        below == Descend(x)[Node(a, b, 0, pool)]
    IN  nodes \o below.nodes \o NodeIfAny(a, b, 0, below.stay)

\* Shallow nodes first, then by start.
InLayoutOrder(nodes) ==
    LET Before(i, j) ==
            \/ nodes[i].level < nodes[j].level
            \/ nodes[i].level = nodes[j].level /\ nodes[i].t0 < nodes[j].t0
            \/ nodes[i].level = nodes[j].level /\ nodes[i].t0 = nodes[j].t0 /\ i < j
        order == [k \in DOMAIN nodes |->
                    CHOOSE i \in DOMAIN nodes : Cardinality({j \in DOMAIN nodes : Before(j, i)}) = k - 1]
    IN  [k \in DOMAIN nodes |-> nodes[order[k]]]

\* plan_chunks: what fits no window lies in one chunk as long as the scene.
PlanChunks(x) ==
    LET tops == Tops(x)
        under[k \in 0 .. Len(tops) - 1] == IF k = 0 THEN <<>> ELSE Under(x, under[k - 1], tops[k], tops[k + 1])
        placed == under[Len(tops) - 1]
    IN  InLayoutOrder(placed \o NodeIfAny(Head(tops), Last(tops), 0, DOMAIN x.gaussians \ Assigned(placed)))

----------------------------------------------------------------------------
(* Records                                                                 *)

\* Distinct windows in order, or the one in which nothing is visible.
WindowList(x) ==
    LET Before(v, w) == v.lo < w.lo \/ (v.lo = w.lo /\ v.hi < w.hi)
        distinct == {[lo |-> x.gaussians[i].lo, hi |-> x.gaussians[i].hi] : i \in DOMAIN x.gaussians}
    IN  WindowTableOrDefault(SetToSortSeq(distinct, Before))

\* A wrong HasAudio: the legacy track is forgotten.
HasAudioSources(x) == x.extras.sources # <<>>

HasAudio(x) == SourcesOf(x) # <<>>

HeaderOf(x) == Header(x.duration, IF BandsOf(x) = {} THEN 0 ELSE x.degree, HasAudio(x))

AudioRecords(x) ==
    LET sources == SourcesOf(x)
    IN  FlattenSeq([i \in DOMAIN sources |->
            <<AudioSource(sources[i].id, sources[i].length, sources[i].times),
              AudioData(sources[i].id, sources[i].length)>>])

ProvenanceRecordsOf(p) == p.frames \o p.sensors \o p.rigs \o p.anchors

\* Everything before the first chunk.
FrontOf(x) ==
    <<HeaderOf(x), Quantization, WindowTable(WindowList(x))>> \o x.options.extra_records
    \o AudioRecords(x) \o ProvenanceRecordsOf(x.extras.provenance)
    \o x.extras.camera \o x.extras.metadata \o x.extras.attachments

\* morton_sorted: members in the order of the curve through their positions.
InCurveOrder(x, members) ==
    LET Before(i, j) == x.gaussians[i].at < x.gaussians[j].at \/ (x.gaussians[i].at = x.gaussians[j].at /\ i < j)
    IN  SetToSortSeq(members, Before)

RowOf(x, i) ==
    LET g == x.gaussians[i]
        window == CHOOSE w \in DOMAIN WindowList(x) : WindowList(x)[w] = [lo |-> g.lo, hi |-> g.hi]
    IN  [id |-> i, window |-> window, object |-> IF x.options.memberships THEN g.object ELSE BACKGROUND]

\* One planned chunk, and its bands from the lowest up.
ChunkRecords(x, plan) ==
    LET members == InCurveOrder(x, plan.members)
        bands == SetToSortSeq(BandsOf(x), <)
    IN  <<Chunk(plan.t0, plan.t1, [k \in DOMAIN members |-> RowOf(x, members[k])])>>
        \o [k \in DOMAIN bands |-> ShBandStream(bands[k], WidthIn(x, bands[k]), Len(members))]

EntryFor(x, plan, at) ==
    LET bands == SetToSortSeq(BandsOf(x), <)
    IN  ChunkIndexEntry(plan.t0, plan.t1, at, Cardinality(plan.members),
                        [k \in DOMAIN bands |-> <<bands[k], at + k>>])

\* Statistics, and the offset of the group of entries, when they are asked for.
SummaryFor(x, entries) ==
    IF ~x.options.write_index \/ entries = <<>> THEN <<>>
    ELSE entries \o (IF x.options.write_statistics THEN <<Plain("STATISTICS", Len(x.gaussians))>> ELSE <<>>)
                 \o (IF x.options.write_offsets THEN <<Plain("SUMMARY_OFFSET", 1)>> ELSE <<>>)

FooterFor(x, body, summary) ==
    Footer(IF summary = <<>> THEN 0 ELSE Len(body) + 1, IF x.options.write_crc THEN Digest(summary) ELSE Digest(<<>>))

----------------------------------------------------------------------------
(* The fourdgs_writer handle (rust/fourdgs/src/capi.rs)                    *)

Assembling == stage = "assembling" /\ UNCHANGED <<stage, plans, out, index>>

\* A wrong SetGaussians: the harmonics attached before stay.
SetGaussiansOnly ==
    /\ Assembling
    /\ \E columns \in COLUMNS : input' = [input EXCEPT !.gaussians = columns]

\* New columns take the harmonics of the old ones away.
SetGaussians ==
    /\ Assembling
    /\ \E columns \in COLUMNS :
        input' = [input EXCEPT !.gaussians = columns, !.degree = 0, !.coefficients = 0, !.rows = 0]

\* A payload for `rows` gaussians; one without bytes clears the harmonics, and one
\* that does not fit the gaussians already set changes nothing.  Neither the degree
\* nor the number of coefficients is held against the bands there are.
SetSh ==
    /\ Assembling
    /\ \E degree \in 0 .. 4, coefficients \in {0, 3, 5, 15}, rows \in 0 .. 2 :
        input' = IF 0 \in {degree, coefficients, rows} THEN [input EXCEPT !.degree = 0, !.coefficients = 0, !.rows = 0]
                 ELSE IF rows # Len(input.gaussians) THEN input
                 ELSE [input EXCEPT !.degree = degree, !.coefficients = coefficients, !.rows = rows]

\* The setters of the duration and of the write options.
SetOption ==
    /\ Assembling
    /\ \E options \in SETTINGS, duration \in {0, 16} : input' = [input EXCEPT !.options = options, !.duration = duration]

\* fourdgs_writer_encode: the handle keeps what it holds, whatever comes of it.
EncodeHandle ==
    /\ stage = "assembling"
    /\ stage' = "called"
    /\ UNCHANGED <<input, plans, out, index>>

\* The buffer, or the error, is the caller's; the handle goes on.
HandBack ==
    /\ stage \in {"written", "refused"} /\ input.handle
    /\ stage' = "assembling"
    /\ plans' = <<>> /\ out' = <<>> /\ index' = <<>>
    /\ UNCHANGED input

----------------------------------------------------------------------------
(* encode                                                                  *)

Init ==
    /\ \/ input \in INPUTS /\ stage = "called"
       \/ input = FRESH /\ stage = "assembling"
    /\ plans = <<>> /\ out = <<>> /\ index = <<>>

Quantize ==
    /\ stage = "called"
    /\ ProfileHolds(input) /\ InputHolds(input)
    /\ stage' = "quantized"
    /\ UNCHANGED <<input, plans, out, index>>

Plan ==
    /\ stage = "quantized"
    /\ AudioNormal(input)
    /\ stage' = "planned"
    /\ plans' = IF input.gaussians = <<>> THEN <<>> ELSE PlanChunks(input)
    /\ UNCHANGED <<input, out, index>>

WriteFront ==
    /\ stage = "planned"
    /\ DepthsResolve(input) /\ ProvenanceNormal(input.extras.provenance)
    /\ stage' = "writing"
    /\ out' = FrontOf(input)
    /\ UNCHANGED <<input, plans, index>>

WriteChunk ==
    /\ stage = "writing" /\ Len(index) < Len(plans)
    /\ LET plan == plans[Len(index) + 1]
       IN  /\ out' = out \o ChunkRecords(input, plan)
           /\ index' = Append(index, EntryFor(input, plan, Len(out) + 1))
    /\ UNCHANGED <<input, stage, plans>>

WriteSummary ==
    /\ stage = "writing" /\ Len(index) = Len(plans)
    /\ stage' = "written"
    /\ LET summary == SummaryFor(input, index) IN out' = out \o summary \o <<FooterFor(input, out, summary)>>
    /\ UNCHANGED <<input, plans, index>>

\* Nothing written reaches the caller.
Refuse ==
    /\ \/ stage = "called" /\ ~(ProfileHolds(input) /\ InputHolds(input))
       \/ stage = "quantized" /\ ~AudioNormal(input)
       \/ stage = "planned" /\ ~(DepthsResolve(input) /\ ProvenanceNormal(input.extras.provenance))
    /\ stage' = "refused"
    /\ out' = <<>>
    /\ UNCHANGED <<input, plans, index>>

Next == SetGaussians \/ SetSh \/ SetOption \/ EncodeHandle \/ HandBack
        \/ Quantize \/ Plan \/ WriteFront \/ WriteChunk \/ WriteSummary \/ Refuse

Spec == Init /\ [][Next]_vars

----------------------------------------------------------------------------
(* Properties                                                              *)

\* The instants of the scene.
Scene == IF input.duration = 0 THEN {0} ELSE 0 .. input.duration - 1

VisibleNow(g, t) == g.lo <= t /\ t < g.hi /\ (IsSome(g.half) => t \in g.mu - g.half[1] .. g.mu + g.half[1])

Roomy == [recover |-> FALSE, band |-> 3, limit |-> 100000, ceiling |-> 100000, records |-> 1000, summary |-> 1000]

\* The numbers of the gaussians a seek through the written index delivers.
Sought(scene, t) ==
    LET entries == I!ChunksForTime(scene, t)
    IN  FlattenSeq([k \in DOMAIN entries |->
            LET chunk == I!ReadChunk(out, scene, entries[k], 0, Roomy.limit)[1]
            IN  [j \in DOMAIN chunk.rows |-> chunk.rows[j].id]])

\* "Chunk membership is an indexed-read promise" (writer.rs): the chunks the index
\* names for an instant of the scene hold every gaussian visible at it, once,
\* whatever the partition, the boundaries and the threshold.
SeekDelivers ==
    stage = "written" /\ input.options.write_index =>
        LET scene == I!OpenIndexed(out, TRUE, Roomy)[1]
        IN  \A t \in Scene :
                /\ {i \in Gaussians : VisibleNow(input.gaussians[i], t)} \subseteq Range(Sought(scene, t))
                /\ Cardinality(Range(Sought(scene, t))) = Len(Sought(scene, t))

\* Every interval the partition could use, by its depth: the tops, and halves.
Halves(v) ==
    {[t0 |-> v.t0, t1 |-> Middle(v), level |-> v.level + 1], [t0 |-> Middle(v), t1 |-> v.t1, level |-> v.level + 1]}

Cuts(x) ==
    LET tops == Tops(x)
        cuts[level \in 0 .. x.options.max_depth] ==
            IF level = 0 THEN {[t0 |-> tops[k], t1 |-> tops[k + 1], level |-> 0] : k \in 1 .. Len(tops) - 1}
            ELSE UNION {Halves(v) : v \in cuts[level - 1]}
    IN  cuts

Intervals == UNION {Cuts(input)[level] : level \in 0 .. input.options.max_depth}

Holds(interval, g) == interval.t0 <= Support(g).lo /\ Support(g).hi <= interval.t1

\* "A gaussian goes in the deepest node whose interval fully contains its support"
\* (writer.rs, plan_chunks), if no node is too small to be worth a chunk.
InDeepestNode ==
    stage \in {"planned", "writing", "written"} /\ input.options.min_gaussians <= 1 =>
        \A k \in DOMAIN plans : \A i \in plans[k].members :
            LET holding == {v \in Intervals : Holds(v, input.gaussians[i])}
            IN  IF holding = {} THEN plans[k].t0 = Head(Tops(input)) /\ plans[k].t1 = Last(Tops(input))
                ELSE /\ Holds(plans[k], input.gaussians[i])
                     /\ plans[k].level = Max({v.level : v \in holding})

\* Extra records a writer of a conforming file would pass.
ExtrasFit ==
    LET extra == input.options.extra_records
        tracks == SelectSeq(extra, LAMBDA r : r.op = "OBJECT_TRACK")
    IN  /\ \A r \in Range(extra) : r.sound
        /\ TablesIn(extra) <= 1 /\ TracksHold(tracks)

\* The bands written whole: all of them, unless the coefficients end inside the last.
WholeBands == {b \in BandsOf(input) : EndOf(b) <= input.coefficients}

\* Whatever encode accepts, both readers capped to the bands it wrote whole take the
\* file and give back what went in: each gaussian with its window and membership, at
\* the degree of those bands, and every record that travels with them.  Uncapped,
\* both refuse just the chunks whose last band the coefficients cut short.
ReadBack ==
    stage = "written" /\ ExtrasFit =>
        LET degree == Cardinality(WholeBands)
            capped == [Roomy EXCEPT !.band = degree]
            streamed == ReadStreamed(out, TRUE, capped)
            indexed == I!OpenIndexed(out, TRUE, capped)
            rows == streamed[1].gaussians
            sampled == [input.extras.provenance EXCEPT !.rigs = SelectSeq(@, LAMBDA r : r.times # <<>>)]
        IN  /\ IsSome(streamed) /\ IsSome(indexed)
            /\ Len(rows) = Len(input.gaussians)
            /\ \A i \in Gaussians : \E k \in DOMAIN rows :
                LET g == input.gaussians[i]
                IN  rows[k] = [id |-> i, object |-> IF input.options.memberships THEN g.object ELSE BACKGROUND,
                               degree |-> degree, lo |-> g.lo, hi |-> g.hi]
            /\ {<<a.id, a.length>> : a \in Range(streamed[1].audio)} = {<<a.id, a.length>> : a \in Range(SourcesOf(input))}
            /\ indexed[1].audio = streamed[1].audio
            /\ streamed[1].camera = input.extras.camera
            /\ streamed[1].metadata = input.extras.metadata
            /\ streamed[1].attachments = input.extras.attachments
            /\ streamed[1].provenance = sampled /\ I!ReadProvenance(out, indexed[1]) = Some(sampled)
            /\ indexed[1].index = (IF input.options.write_index THEN index ELSE <<>>)
            /\ \A e \in Range(indexed[1].index) : IsSome(I!ReadChunk(out, indexed[1], e, degree, Roomy.limit))
            /\ streamed[1].crc_ok = indexed[1].crc_ok
            /\ input.options.write_crc /\ input.options.write_index /\ input.gaussians # <<>>
                  => indexed[1].crc_ok = Some(TRUE)
            /\ IsSome(ReadStreamed(out, TRUE, Roomy)) <=> WholeBands = BandsOf(input) \/ plans = <<>>
            /\ \A e \in Range(indexed[1].index) :
                IsSome(I!ReadChunk(out, indexed[1], e, 3, Roomy.limit)) <=> WholeBands = BandsOf(input)

\* "Their row count is tied to this one" (capi.rs): whatever order the setters are
\* called in, encode finds harmonics for exactly the gaussians it is given.
HarmonicsFit ==
    input.handle => IF input.coefficients = 0 THEN input.degree = 0 /\ input.rows = 0
                    ELSE input.degree > 0 /\ input.rows = Len(input.gaussians)

\* "Bands 1..D give exactly a degree-D scene" (index.md, section 6.5), and the
\* Header declares D: "The degree the file actually carries, which is the highest
\* band written and not the degree the input happened to hold" (python writer.py).
HeaderDegreeWritten == stage = "written" => out[1].sh_degree = Cardinality(BandsOf(input))
=============================================================================
