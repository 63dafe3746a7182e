# TLA+ models of 4dgs

`4dgs` is a container format for four-dimensional gaussian splats: scenes whose
gaussians are born, move, change and die. The repository holds a Rust library
(`rust/fourdgs`), its command line (`rust/cli`), a C ABI, and ports or bindings
in TypeScript, Python, Dart, C++ and Swift. This directory holds TLA+ models of
the code that keeps state over several steps, the TLC configurations that check
them, and TLAPS proofs. Paths below are relative to the repository root; `R/` is
`rust/fourdgs/src/`.

To run a check: `tlc -config writer_cuts.cfg MCSequenceWriter.tla`.
To check the proofs: `tlapm ListLemmas.tla`, and the same for
`SequenceProofs`, `ForeignSequenceProofs`, `SceneReadersProofs`,
`RecoveryProofs`, `SceneHandleProofs`, `SceneWriterProofs` and
`DeferredRecordsProofs`.


## 1. Inventory

A file is a sequence of records behind a magic number: front matter (Header,
Quantization, Window Table, ...), state records, and a summary (Chunk Index
entries, Statistics, Footer) that lets a reader seek. There are two encodings
of state.

* *Gaussian-birth*: every Chunk holds gaussians with a birth time and a
  lifetime; chunks are independent of each other. What is hard here is around
  the chunks: two readers of different design, files cut anywhere, bounds on
  memory, caches over a transport that fails, and a writer that must put every
  gaussian where a seek will look.
* *Keyframe-delta*: a sequence of samples of a population. A sample is written
  as a keyframe Chunk, or as a Delta Chunk of update, birth and death groups
  against an earlier sample's population: the previous one (chained), or the
  last keyframe (keyframe mode). A delta means nothing without the population
  it was taken against, so writer and readers must agree on that population bin
  for bin, and two readers reach it by different routes.

| Component | State it keeps | Operations | What is hard |
|---|---|---|---|
| Composition, `R/keyframe_delta.rs` | none (populations are values) | `keyframe_state`, `apply_delta`, `chain_ending_at`, `delta_groups` | order of the guards; differences against absolute attributes; range of sums; a chain taken from a file's own claims |
| Sequence writer, `write_sequence` in `R/keyframe_delta_file.rs` | quantized populations, depths, current keyframe, index entries | one record per sample, then the summary | later deltas are taken against populations that earlier keyframes have changed; widths; refusing half way |
| `fourdgs_kd_writer`, `R/capi.rs` | options, samples, encoded bytes | new, setters, `add_sample`, `encode` | a failing call leaves the handle usable |
| `decode_streamed` | populations decoded so far, by offset | one record at a time | references that are missing, forward or cut off; index entries that contradict what was decoded |
| `open_indexed`, `decode_indexed` | index, current chain | open, walk a chain, compose its links | the index duplicates what the records say |
| Validator, `R/keyframe_delta_validate.rs`, `rust/cli/src/validate.rs` | current and keyframe populations, births, identity counter | visits records or entries with a loop of its own | its loop and the readers' must accept the same files |
| `R/stream_reader.rs` | records and chunks held, bytes charged, summary digest | one record at a time, recovery at a cut | what a cut leaves must be consistent; accounting |
| `R/indexed_reader.rs` | ranges found at open, index | open, then one range per fetch | must agree with the other reader on every rule |
| `SceneReader`, `R/reader.rs` | resident gaussians with key and band, records, provenance, objects, poses | open with fallback, load, fetch, `state_at` | each call may fail; caches must stay true |
| `R/writer.rs` | chunk plan, output, index | checks, `plan_chunks`, records, summary | every gaussian found by every seek at which it is visible |
| `R/capi.rs`, scene and writer handles | scene, source, state, error slots per thread | open, load, read, state, summary, setters, encode, free | ownership of a callback; indices into arrays that are replaced |
| `R/provenance.rs`, `R/object_layer.rs` | none after parsing | check references, sample poses | the same checks in three places |
| Codecs and numeric kernels | none | compress, pack, quantize, SH, gaussian evaluation | pure functions |
| TypeScript `indexedDecoder.ts` | ranges, a shared promise, descriptor cache | asynchronous accessors | callers interleave at `await`; a rejected shared promise stays |
| Python, Dart, C++, Swift | as Rust | ports and bindings | agreement with Rust |

Interactions. A handle calls a writer; its bytes are stored or sent and may
arrive cut; either reader, or the validator, opens what arrived. `SceneReader`
chooses one of the two gaussian-birth readers and keeps what it fetches; the C
ABI puts a handle around it and owns the caller's source. Rust's readers,
writers and handles are single-threaded, so the interleavings that matter are
those of a *file's* life (which reader runs, how far, on what remains of which
file) and of a *caller's* calls, each of which may fail. The TypeScript reader
does interleave: calls that wait for range reads, and for each other's.

What makes each correct:

* composition: splitting a population against another and composing it back is
  the identity; an accepted delta leaves a complete population, on unchanged
  grids, within range;
* writers: a record states its sample, against what was *written* for the
  sample it references; a gaussian lies where every seek that should see it
  looks; what is accepted is never something a reader will refuse;
* readers: both deliver the same, and refuse the same; a cut loses what was cut
  and no more; bytes are charged once; they end;
* validator: passes only what a reader decodes, and what two readers agree on;
* caching readers: an answer is the one a front-to-back read of the file gives,
  or an error, whatever was asked before and whatever failed;
* handles: one release of a source, one failure in the error slots, no index
  into arrays that are gone;
* shared discovery: one walk, seen whole or not at all.

`PROJECT.json` lists the hazards of this code at their lines, with the properties
that cover each. Three have none, and say why: the code does what the hazard
describes or the model's steps are too coarse to show it.


## 2. Modules

```
KeyframeDelta               populations, groups, apply_delta, delta_groups
  KeyframeDeltaFile         file as records; decode_streamed, decode_indexed
    SequenceWriter          handle, write_sequence, transport, both readers
      MCSequenceWriter        small instances                (TLC)
      SequenceProofs          composition, the file, both readers, StateTimeline (TLAPS)
    SequenceValidator       validate_indexed, validate_streamed, identity counter
      ForeignSequence       any file, both readers, validator
        MCForeignSequence     small sets of files            (TLC)
        ForeignSequenceProofs readers and validator, any file (TLAPS)
StateTimeline               what a sequence promises (abstract)
ListLemmas                  Append, SubSeq, \o, first and last positions,
                            recursions that count (TLAPS)

SceneFile                   gaussian-birth records and the rules both readers apply
  StreamedScene             the front-to-back reader: OnRecord, Finish
    SceneReaders            a file, a cut, and both readers
      MCSceneReaders          families of files              (TLC)
      SceneReadersProofs      accounts, verdicts, one scene of two readers (TLAPS)
        RecoveryProofs        cuts of any file               (TLAPS)
    ScenePromise            what an open scene promises (abstract)
    SceneReader             SceneReader's loads and caches
      MCSceneReader                                          (TLC)
      SceneHandle           the C ABI around it
        MCSceneHandle                                        (TLC)
        SceneHandleProofs     the reader's caches of any file; ownership,
                              error slots                    (TLAPS)
    SceneWriter             encode() and the fourdgs_writer handle
      MCSceneWriter                                          (TLC)
      SceneWriterProofs     a handle's harmonics, the plan   (TLAPS)
  IndexedScene              the reader by ranges: OpenIndexed and the fetches
  SceneLayout               helpers to lay out small files for TLC

DeferredRecords             TypeScript: shared discovery, accessors, failures
  MCDeferredRecords                                          (TLC)
  DeferredRecordsProofs     discovery, answers, rejections   (TLAPS)
```

`SceneReaders`, `SceneReader` and `SceneWriter` take `IndexedScene` with
`INSTANCE`, so that the two readers do not share names; `SceneReader` takes
`ScenePromise` the same way and refines it.

**KeyframeDelta.** A population is `[ids, bins]`: a set of ids and, per
attribute, a function from ids to an integer bin. The code stores rows; it
finds them by identity and promises nothing of their order, so order is not
kept. A multi-channel attribute is one integer, every channel being treated
alike. The attributes that updates difference (position, motion, scale, colour,
opacity, ...) are the constant `MEASURED`; the ones with a rule of their own
(`sigma_t`, `flags`, `window_index`, `mu_t`, rotation and its index, the
optional identities) are there by name. `ApplyDelta` is
`apply_delta_with_rows`, its refusals in the code's order. `MuBin` is the
requantization of a keyframe's time to a row's birth-time grid, whose pitch is
the constant `MuStep`. `DeltaGroups` is `delta_groups`.

**KeyframeDeltaFile.** A file is a sequence of records with an `ending`:
`complete`, cut at a record `boundary`, or `partial`, cut inside a record. An
offset is a position in the sequence. The streamed reader is one action per
record kind (`ReadChunk`, `ReadDeltaChunk`, `ReadChunkIndex`, `ReadOther`,
`RefuseRecord`) and `EndOfRecords`. The indexed reader opens (`OpenIndexed`:
summary, tiling), then for each entry, in time order, walks back to a keyframe
(`StartChain`, `WalkBack`, `CheckDepth`), composes forward (`ReadLink`), and
answers (`AnswerEntry`, `FinishIndexed`). Any failure drops everything the
reader had, as `?` does there.

**SequenceWriter.** The handle collects samples; `Encode` is the check of
tiling and the quantization of all samples; `EmitKeyframe`, `EmitDelta` and
`EmitRefused` are one iteration of the loop in `write_sequence`;
`WriteSummary` writes index, Statistics and Footer; `Store` is the transport.
Sample and record `i` here are `i - 1` in the code, and the code's vector
`offsets` is the identity. `MayRefuse`: `encode_stream` computes differences of
neighbouring rows as one of two candidate codings and fails when one does not
fit, although the other coding would; as row order is abstracted, the model
lets `encode` refuse whenever some two rows are that far apart.

**SequenceValidator, ForeignSequence.** The validator's two modes on files that
this writer did not produce. `ForeignSequence` runs both readers and then the
validator on any member of a constant set of files. `FileAssumption` is all that
is assumed of one: a record sequence, in which a group that parsed (`Parsed`)
has an element per id in each of its streams. Everything else in it (offsets,
references, depths, counts, intervals, what a group claims) may be anything.

**StateTimeline.** The abstract promise: one timeline is published, once; each
reader learns its populations one at a time, in order and as published, and
either keeps what it has or gives everything up.

**SceneFile.** A gaussian-birth file is a sequence of records, each with the
fields that some rule reads and `sound`, which stands for every check the body
passes on its own. A gaussian is `[id, window, object]`: where it exists and
which object carries it; attribute values play no part in any rule. Bytes are
small weights (`Weight`, `SLOT`, `NODE`, `ROW`), and a growing collection has
the capacity its allocator would give it.

**StreamedScene, IndexedScene, SceneReaders.** `OnRecord` is one turn of the
streamed reader's loop: the framing rules, one branch per opcode with its
charges and refusals, in the code's order; `OnPartial` is a record that stops
within its frame, `Finish` what happens after the last record, recovery of a
cut tail included. `OpenIndexed` is the head walk, Footer and summary;
`ReadChunk`, `ReadCamera`, ..., `ReadPoses` are the fetches. `SceneReaders`
reads a file record by record, ends it anywhere, and asks the other reader for
everything it can fetch of the same bytes.

**SceneReader, ScenePromise.** One action per call (`LoadAll`, `LoadAt`,
`LoadChunk`, `LoadAllWithin`, `StateAt`, `Records`, `Provenance`, `Objects`,
`AudioDescriptor`, `AudioRange`), each of which may be refused for a bound or
fail for the transport. A call that fails leaves what the code leaves: after a
`state_at` whose poses fail, the load it began with stays. `ScenePromise` keeps
nothing but the last answer, and that answer is the front-to-back read's.

**SceneHandle.** The C ABI around `SceneReader`: who owns the caller's source at
each point of a call, the three error slots, a state handle with indices into
the resident arrays, kept descriptors, and the canonical summary, which loads
everything and restores the caller's cap.

**SceneWriter.** `encode()` in stages (`Quantize`, `Plan`, `WriteFront`,
`WriteChunk`, `WriteSummary`, `Refuse`), each with the checks the code makes
there. Time is in units of one rounding step: a gaussian is visible from
`mu - half` to `mu + half`, and `marginal_support` is one unit wider.
`PlanChunks` is `plan_chunks`: a binary tree under every window (`Descend`, a
function of the levels that are left). The middle of an odd length is rounded down
to a step, where the code takes the half as a float; nothing below uses more of it
than that it lies between the ends. A `fourdgs_writer` handle puts an input together with its setters and encodes it
as often as it likes.

**DeferredRecords.** `open()` is the initial state: it keeps the optional
records ahead of the first state record, up to its ceiling. An accessor
(`Call`) begins or joins the walk, waits for its promise (`Resume`), and then
reads its records one range at a time (`Take`, `Request`, `Arrive`, `Fail`,
`Return`); a walk passes one record at a time (`WalkRecord`, `WalkEnds`,
`WalkFails`). Steps of different callers interleave wherever the code awaits.

`map` in `PROJECT.json` names for each definition the lines it models.


## 3. Model checking

| Run | Question | Bounds |
|---|---|---|
| `writer_refusals` | Is a file of representable samples that `encode` returned always decoded, and to those samples, whatever was offered | 4-bit bins at both ends and past the range, 2 gaussians, up to 3 samples; times -1 to 3 against durations 2 and 3; a depth that wraps at 2, so that chains are longer than it counts |
| `writer_cuts` | Does each reader give back every sample; does a seek stay in its group; does a cut lose only what was cut; do all loops end; is the whole an implementation of `StateTimeline` | 1 gaussian, 0 to 4 samples, cadence 0, 2, 3, forced keyframes {} or {2}, both modes, every cut, both endings, grid changes that are refused |
| `foreign_files` | Is what a reader accepts complete and on fixed grids; does the validator pass only what decodes, and alike on both paths; does it count lives; does the walk end | three records, all well formed or one malformed in any place; a faithful index, none, one with a field misstated or an entry missing; front matter after state; cut files |
| `scene_files` | Do the two gaussian-birth readers deliver and refuse the same; is what recovery keeps a prefix; is every byte charged once; are sampled poses the layer's | 271 files in four families (chunks and bands, audio, other front matter, summaries), those of `OneRule`'s exceptions among them, each whole, cut after every record and inside every record; 17 sets of options, 11 of them tight |
| `scene_cache` | Does any order of calls and failures change an answer or leave a stale cache | one file with every kind of record on both paths, one without an index, one plain; roomy and tight bounds; 2 instants, 2 caps; each fetch may fail |
| `scene_write` | Does a seek deliver what is visible; are gaussians as deep as they fit; do both readers give back what was written; do a handle's harmonics fit | every pair of 6 kinds of gaussian, depths 0 to 2, chunks worth 1 or 2; one input for everything `encode` refuses or writes; degrees 0 to 4 against 0 to 15 coefficients, at the ends of bands and inside them; 4 sets of columns and 5 of options on a handle |
| `scene_handle` | Is a source released once; do the error slots describe one failure; do a state's indices stay good; does a summary depend on earlier calls | one file on either path, every sequence of calls at one instant, each misused, refused or failing |
| `deferred_records` | Do concurrent accessors answer with the whole file, reject with a cause, share one walk and settle | 2 callers that ask for anything, 22 files, ceilings 3, 4 and 9, any range read rejected |

Properties and what they are about:

* `StreamedIsSource`, `IndexedIsSource`: a composed population is the sample's.
  Bins are compared, so the claim is that composition adds no error to
  quantization (the "telescoping" comment of `R/keyframe_delta.rs`). A keyframe
  restates every birth time as its own `t0`; `Source` says so and the properties
  compare with that.
* `SeeksWithinGroup`: a chain does not leave its group of pictures.
* `WholeFilesDecode`: nothing the writer returns for samples in range is refused,
  by the indexed reader as long as no chain is longer than a depth can count
  (`DepthsFit`; section 4).
* `BoundaryCutsDecode`: references point backwards, so a prefix is a file. Like
  the property above it asks that the samples whose records are there be in
  range (`Representable`): section 4 says what happens to others.
* `FileHolds`: the part of the inductive invariant that is about the file.
* `ImplementsTimeline`: refinement of `StateTimeline`.
* `LoopsEnd`: the writer's loop ends, and both readers' do. `WalkEnds` is
  stronger and about any file: every step of the indexed reader brings its end
  nearer.
* `StatesReconstructible`: whatever the file, a delivered population has one row
  per gaussian in every column; `reconstruct_at` indexes without looking.
* `GridsFixedByDeltas`: a gaussian a delta keeps stays on its grids, by
  whichever of the three groups one might try to move it.
* `ValidFilesDecode`, `ValidFilesAgree`: the validator against the readers. In
  streamed mode the validator does not look at an entry's reference and depth:
  it certifies the streamed path alone, and the property says no more.
* `CountedIdsAreLives`: a valid file gives each identity one life.
* `ReadersAgree`: of the files whose index is complete (`Indexed`), whose front
  matter precedes the chunks (`InOrder`) and in which no object has an empty
  second track (`NoEmptyTwin`), the two readers hold the same scene.
* `ReadersRefuseTogether`: of such a file one reader refuses exactly what the other
  does, at open or at the fetch of the thing that is wrong, but for the rules that
  only one of them has. `OneRule` names these, one conjunct each, and section 4 says
  what they are; leave out any conjunct and a file of the run is taken by one reader
  and refused by the other.
* `VerdictsAgree`: a digest accumulated record by record, without knowing where
  the summary starts, is the digest of the range the Footer names.
* `RecoveredIsPrefix`, `AnyCutRecovers`: recovery keeps chunks, bands and
  intervals in step, and never asks of a cut file what the lost part held.
* `ChargedExactly`: the bytes charged are the weights of what is held, so
  nothing is charged twice and nothing replaced stays charged.
* `SampledPosesMatch`: halving an unread track finds the samples a whole read
  would use, for every set of objects and every instant.
* `ResidentIsKeyed`, `CachesAreFresh`, `FailuresKeepCaches`: what is resident is
  what the key names, and a failure in the middle of a call leaves it so.
* `AnswersLikeAFreshRead`: refinement of `ScenePromise`.
* `SeekDelivers`, `InDeepestNode`, `ReadBack`, `HarmonicsFit`: the promises of
  the writer's own comments on chunk membership and on rows, and the round trip
  through both readers. `ReadBack` has two halves. Readers capped to the bands that
  were written whole take every file `encode` returned and give back what went in;
  readers without a cap refuse exactly the chunks whose last band the number of
  coefficients cut short (section 4).
* `ReleasedOnce`, `StatesReadArrays`, `SlotsDescribeOneFailure`,
  `SummaryIsCanonical`: the promises of the C ABI's comments.
* `AnswersAreWhole`, `RejectionsAreEarned`: an accessor that answers has read
  every record of its kind of a file lawful to its end, although another's walk
  and cache served it; one that rejects has a cause in its own reads, in the
  walk's, or in the file. `Lawful` and `Deliverable` say what a file allows
  without any of the code's steps.
* `FieldsTogether`, `OneWalk`, `CallsSettle`: discovery is seen before or after,
  never during; there is one; every call settles.

**Why the bounds are enough.** Composition acts on each gaussian by itself and
on each attribute by its rule; two gaussians give every combination of born,
updated, kept and dead in one delta and two attributes of `MEASURED` (one
differenced value and the motion that couples with birth time) exercise the
rest. Four samples hold a keyframe, a chain of deltas behind it, and a second
keyframe with a delta behind that; nothing in the code distinguishes a longer
chain but its depth. A bin of 3 or 4 bits leaves its range with one sum, as 32
bits do. Every rule of the gaussian-birth readers relates at most three records
(a chunk, its band, the next chunk), and each family of files has all the ways
to break the rules of one concern while the others stay plain. A partition two
levels deep has a boundary of every kind: of the scene, of a window, of a half
and of a quarter. Two callers can be at any two places of an accessor and the
walk at a third. The proofs of section 5 remove the bounds for the keyframe-delta
writer and both its readers, for the readers and the validator on foreign files,
for the caches of `SceneReader` and the ownership and errors of a handle, and
for shared discovery and what its accessors answer.

Bounds in the specifications: `MAX_SAMPLES` (samples one handle collects),
`CUTS` (how many records may survive), `DEPTH_MOD` and `MAX_DEPTH` (the width
of depth), `BIN_MIN`, `BIN_MAX` (the width of a bin), `CASES`, `FILES`,
`OPTIONS`, `INPUTS`, `COLUMNS`, `SETTINGS`, `INSTANTS`, `TIMES`, `CAPS` (what is
offered), `TINY` (the interval planned for a scene without a duration).
`scene_cache` and `scene_handle` leave the last answer, on which no step
depends, out of the VIEW; properties of steps are still evaluated on each.
`CHECK_DEADLOCK FALSE` is in the runs of `SceneReaders` and `SceneWriter`: a
read, and a call of `encode()`, ends.

**Fairness.** `write_sequence` and its readers are loops of one thread, without
locks, waiting or I/O that may be retried: entered, they run until they return.
That is weak fairness of `EncodeStep` and of `Read`. There is none on the caller
(`SetOptions`, `AddSample`, `Encode`) or on the transport (`Store`), which
nothing obliges to happen. In `DeferredRecords` a range read settles one way or
the other (`IReadable` returns a promise; a reader that never settles it would
hang any caller), and the event loop runs a continuation whose promise has
settled: weak fairness of each walk's and each call's steps, and none of
`Call`, which is the application's.


## 4. Where the repository disagrees with itself

Four runs end in a violation on purpose: each states a sentence of the
repository's docs or comments, and TLC finds what the code does instead.

| Run | Sentence | What the code does |
|---|---|---|
| `writer_centres` | "Position and mu_t are one coupled trajectory anchor" (`python/fourdgs/fourdgs/keyframe_delta_file.py:274`) | the Rust writer moves `mu_t` to the keyframe's `t0` and leaves position: a moving gaussian is decoded somewhere else |
| `foreign_paths` | "index and Delta Chunk disagree on any duplicated field" is malformed (`website/docs/spec/index.md:1810`) | the readers compare counts and interval only, and answer differently |
| `scene_chunk_bounds` | a gaussian exists within its window and the interval of the chunk that stores it (`index.md:68-84`) | the streamed reader keeps the window alone, so a whole read shows a gaussian at instants at which no chunk holds it |
| `scene_degree` | "The degree the file actually carries" (`python/fourdgs/fourdgs/writer.py:514`) | the Rust writer declares the degree of its input, although it may have written fewer bands |

Observed and not made into runs:

* `encode` writes a file that no reader takes. The last column of a band is capped at
  the number of coefficients (`R/writer.rs:831`), which `fourdgs_writer_set_sh` holds
  against the size of the payload only (`R/capi.rs:2422-2429`). Degree 2 with 5
  coefficients gives a band 2 of two coefficients, where the streamed reader
  (`R/stream_reader.rs:1430`) and the indexed one (`R/indexed_reader.rs:1899`) expect
  five; `index.md:1330` says "Bands are whole", and the encoder's comment
  (`R/writer.rs:4-7`) that it decodes what it produced. A reader capped below that
  band steps over it. `ReadBack` states this case and that there is no other.
* Of a whole file with a complete index, the two readers of gaussian births part over
  what is refused in the cases that `OneRule` and `Comparable` name, and in no other
  that `scene_files` holds:
    * a Camera that a later Camera replaces is parsed by the streamed reader and
      skipped by the indexed one, which keeps the last range
      (`R/indexed_reader.rs:1206`), so only the streamed reader refuses a broken one;
      the same holds of an SH Band Stream ahead of the first Chunk, whose number the
      streamed reader checks (`R/stream_reader.rs:1362`) (`PassedOverSound`);
    * after a Delta Chunk the streamed reader refuses front matter
      (`R/stream_reader.rs:712-723`); the indexed reader's walk ends at a Chunk only
      (`R/indexed_reader.rs:811`) and takes it (`NothingAfterDelta`);
    * an index entry that names one band twice is refused by the indexed reader
      at the fetch (`R/indexed_reader.rs:1785`) and of no concern to the streamed one
      (`NamedOnce`);
    * a Footer that is not last means something to each reader and not the same
      (`FooterLast`);
    * a second Object Track without samples is absent to the streamed reader and a
      duplicate to the indexed one (`NoEmptyTwin`).
* `encode` of a sequence accepts an id that comes back after a death
  (`R/keyframe_delta_file.rs:777`; `index.md:1606` forbids it); only the CLI's
  identity counter refuses the file.
* `decode_streamed` returns nothing for a file cut inside a record
  (`R/keyframe_delta_file.rs:2002`; `index.md:1826` says it recovers).
* The depth of a chain is a `u16` that wraps, or panics, after 65535 deltas
  (`:773`). The writer returns such a file; the streamed reader, which does not
  look at depths, reads it; the indexed reader refuses it. `DepthsFit` is the
  condition `WholeFilesDecode` needs.
* A sample out of the 32-bit range can be written: a delta holds differences,
  and each may fit although the sum does not (`:778`; `index.md:1758`). Both
  readers then refuse the state. The proof of `BoundaryCutsDecode` failed on
  this until the property asked that the samples be `Representable`.
* The refusal of an unknown attribute in an update group cannot be reached from
  a file: `decode_state_stream_with_limit` skips streams it does not know, so no
  group that parses holds one (`FileAssumption`).
* The sequence writer does not check that ids within one sample are distinct (in
  the model they are); `encode` may refuse a stream whose raw coding fits
  (`MayRefuse`); `validate_indexed` does not see a Chunk Index record outside
  the summary; the decoders do not check `keyframe_offset` or `level`.
* The bound of `SceneReader::provenance` and of audio ranges counts the opened
  scene and not what is resident, so a later load can be refused (`R/reader.rs:554`).
* The indexed reader ignores front matter after the first chunk, and chunks no
  entry names; opened with `Indexed`, a file without an index has no gaussians.
* Streamed recovery refuses the whole file when a chunk's bands are not in
  ascending order and the cut falls between them (`Ascending`); descriptors whose
  payload was cut are dropped with their bytes still charged (`Delivered`).
* Automatic opening falls back to a streamed read for any error but most
  refusals for size, failures of the transport included (`R/reader.rs:258`).
* `provenance_count` counts trajectories without samples on the indexed path
  only (`R/reader.rs:579`).
* `check` "stays strict for the writer" (`R/records.rs`) and yet accepts a
  trajectory without samples, which the writer emits (`R/writer.rs:968`).
* `plan_chunks` weighs a half by the gaussians offered to it, not by those that
  stay in it, so a chunk smaller than the threshold can still be written.
* `fourdgs_scene_audio_codec` returns null without setting an error; the
  canonical member reports an error with the full set resident when only
  restoring the cap fails.
* `fourdgs_writer_set_sh` neither bounds the degree nor relates it to the
  coefficients; the model offers it degree 4 and a number inside a band.
* In TypeScript a rejected discovery stays (`indexedDecoder.ts:504`): after one
  failed range request, every later accessor that needs it fails. A file without
  chunks that holds two legacy tracks is accepted by `open()` and refused by the
  walk once a chunk follows (`:315-321` keeps the last, `:541` refuses;
  `typescript/nodejs/src/validate.ts:708` says "a file may carry at most one legacy
  Audio record"); comments at `:287`, `:388` and `:809` speak of late
  optional records, which the walk refuses (`:526`).


## 5. Proofs

| Module | Theorem | States |
|---|---|---|
| `SequenceProofs` | `DeltaRoundTrip` | `Composed(ref, DeltaGroups(ref, cur)) = cur` for any two populations over the same attributes with no grid changed |
| | `WrittenDeltaAccepted` | when `cur` is also in range, `ApplyDelta` accepts those groups and returns `cur` |
| | `TypeCorrect` | `TypeOK` |
| | `FileCorrect` | `FileHolds /\ WorkHolds` |
| | `StreamedCorrect` | `StreamedIsSource` |
| | `IndexedCorrect` | `IndexedIsSource` |
| | `SeeksBounded` | `SeeksWithinGroup` |
| | `TimelineImplemented` | `Spec => ImplementsTimeline`, the refinement |
| | `CutsDecode` | `BoundaryCutsDecode` |
| | `WholeFilesAreRead` | `WholeFilesDecode` |
| `ForeignSequenceProofs` | `DeliveredStatesWhole` | `StatesReconstructible` |
| | `DeltasFixGrids` | `GridsFixedByDeltas` |
| | `NoFileKeepsWalking` | `WalkEnds`, an action property |
| | `ValidFilesAreRead` | `ValidFilesDecode` |
| | `ValidFilesHaveOneTimeline` | `ValidFilesAgree` |
| | `ValidFilesCountLives` | `CountedIdsAreLives` |
| `SceneReadersProofs` | `ChargesHold` | `ChargedExactly` |
| | `VerdictsHold` | `VerdictsAgree` |
| | `SamplesMatch` | `SampledPosesMatch` |
| | `ReadersMatch` | `ReadersAgree` |
| `RecoveryProofs` | `RecoveryHolds` | `RecoveredIsPrefix` |
| | `CutsRecover` | `AnyCutRecovers` |
| `SceneWriterProofs` | `HarmonicsStay` | `HarmonicsFit` |
| | `PlannedWhereItFits` | `InDeepestNode` |
| `SceneHandleProofs` | `ResidentSetIsKeyed` | `ResidentIsKeyed` |
| | `CachesStayFresh` | `CachesAreFresh` |
| | `FailuresAreHarmless` | `FailuresKeepCaches`, an action property |
| | `SourcesReleasedOnce` | `ReleasedOnce` |
| | `SlotsAgree` | `SlotsDescribeOneFailure`, an action property |
| | `HandleKeepsReader` | `ResidentIsKeyed` and `CachesAreFresh` of the reader behind an open handle |
| `DeferredRecordsProofs` | `WalkedOnce` | `OneWalk` |
| | `SharedDiscovery` | `FieldsTogether` and `ReadsSeeWhole` |
| | `AnswersWhole` | `AnswersAreWhole` |
| | `RejectionsEarned` | `RejectionsAreEarned` |

`ListLemmas` holds what the others need of sequences and the sets of their
positions: a non-empty set of positions has a first and a last member
(`FirstPosition`, `LastPosition`), and with that an induction over a set of
numbers (`Ascend`) and the solution of a recursion that counts (`Counting`) need
no induction rule.

**Assumptions**, all of them ASSUMEs that TLC evaluates in a run:
`BinAssumption` (the range contains 0), `AttributeAssumption` (the named
attributes are distinct), `MuStepAssumption` (a grid has a positive pitch),
`SampleAssumption` (samples are quantized populations over the required
attributes), `OptionAssumption`, `BoundAssumption`, `FileAssumption` (section 2;
of `SceneReaders`: a file is a list of records, a Chunk's rows and an index
entry's bands are lists, an audio id is a number, and so are the ceilings and the
highest band of the options), `TrackAssumption` (times are integers, and
an Object Track whose body passes its own checks has increasing ones),
`WeightAssumption` (what a record, a slot and a node weigh are numbers),
`CaseAssumption` (a file's records are a list, and a ceiling is positive),
`HandleAssumption` (a writer's handle starts without harmonics, and no input of a
direct call is a handle's), `InputAssumption` (the gaussians are a list, their
windows and marginals and the scene's length are numbers, and so are the depth and
the threshold of a partition).
Nothing limits the number of gaussians, samples, records, attributes, callers,
calls or failures, nor the widths; `Id` and `CALLERS` need not be finite. The
proofs about `SceneReader` and its handle need no assumption at all.

**The writer and the streamed reader.** `StreamedIsSource` is not inductive: that
a composed delta is its sample depends on what the file says and on what was
composed before it. The invariant is

    IInv == Typed /\ ReadersTyped /\ Idle /\ Unread
                  /\ FileHolds /\ WorkHolds /\ StreamedIsSource

`FileHolds` says record `i` states `Source(i)`: a keyframe outright, a delta as
the difference between `Source(i)` and `Source(Reference(i))`. `WorkHolds` says
the same of what `encode` works on: written samples are already `Source`, later
ones still as given. It is what makes `EmitDelta` preserve `FileHolds`, and it
is false of a writer that takes deltas against its samples. A reader step then
has a reference strictly behind it (`ReferenceBehind`), decoded and equal to
its `Source` by the invariant, and `DeltaRoundTrip` gives the next. `Idle` and
`Unread` say that nothing is written before `encode` and nothing read before
the bytes arrive. `Store` keeps a prefix, which is why `FileHolds` speaks of the
records that are there and not of all samples.

**Both readers of a written file.** The indexed reader never sees the states
between, only what the index says, so the index has to be followed from the
writer on. `WInv` says what the summary and the tail of the file hold: entry `k`
names record `k` with its kind, count, reference and depth, and the tail repeats
the entries in their order. `XInv` says of an index that was opened that it is
that summary; of a chain under construction that each link is the entry of its
own offset and the sample of each link references the sample of the one before
it (`ChainHolds`), behind the nearest keyframe (`SeekHolds`); of a composition
that it is the `Source` of the last link read (`LinkHolds`). `RInv` is the three
together, and gives `IndexedCorrect` and `SeeksBounded`. That *something is
delivered* needs what was decoded so far, record by record, with its row counts
(`DInv`, in `TInv`); with it, each step of each reader is a step or a stutter of
`StateTimeline` (`TimelineImplemented`), and refusal can be turned round:
`StreamedRefusals` says the streamed reader refuses only a partial file or a
sample out of range, `IndexedRefusals` (in `ZInv`, with `NeighboursHold`: a
chain of neighbours is as long as the samples it spans) only an incomplete file,
a sample out of range, or a chain longer than its depth counts.

**Foreign files.** Here nothing is known of the file but that its groups parse.
`Accepts(d, i)` is what the code asks of record `i` when earlier records
composed to `d`, `Info(d, i)` what it makes of it, and `Composing(d, n)` says
that `d` is exactly what the state records before `n` compose to, each accepted.
There is at most one such `d`, whoever computes it: that is the link between
programs that never see each other's state.

    RInv == FileShaped /\ StreamedHolds /\ AnswersWhole
    EInv == RInv /\ InTurn /\ WalkStands
    FInv == EInv /\ VInv /\ FollowsEach

`StreamedHolds` says what the streamed reader decoded is that `d`, and that it
refused only a file no `d` decodes. `AnswersWhole` is closure under
`ApplyDelta`: what an accepted group leaves is a bin in range per gaussian in
every column (`Whole`), which is where the *order* and the coverage of the
guards matter. `WalkStands` bounds chain and link by the index, and
`WalkProgress` shows each step nearer the end for every file. `VInv` says of the
validator's walk that some `d` is composing as far as it came, that the
populations it holds are states of `d`, and that its counter holds, for each
gaussian, the number of records of `d` at which it is born; on the indexed path
it walks entries sorted by offset, and `Faithful` says each says of its record
what `d` says. Since the entries own every state record (`OwnsEveryState`) and
the sort is a bijection, a finished indexed walk makes a `d` of the whole file
(`Certified`); `FollowsEach` says the indexed reader, going by entries alone,
cannot refuse under any such `d` and delivers its states, since a chain leads
from an entry to the entry of its reference with a depth one smaller.

**Front-to-back reading of gaussian-birth files.** The model's reader is one record
with thirty-two fields, and a handler for each kind of record changes a few of
them and may give up. The invariant is `ReadInv`, with two strengthenings of what
the theorems say.

`Sound(s)` is for `ChargesHold`: unless the read was given up, every field has the
shape its weight is computed from (`Typed`), and `Ledger(s)`: the retained bytes
are `Held(s)` and the decoded bytes those of the chunks. The shape matters: the
bands of a chunk must be among the masks seen for it, or a repeated band would be
charged twice and kept once (`BandHandles`). Each handler has a lemma that it keeps
`Sound` or gives up, and leaves the rest of the reader alone. `Held` is a sum over
lists of any length and `Slots` a capacity that doubles; both are recursions, and
the lemmas that they move by what a list grows (`TotalGrows`, `HeldManyGrows`,
`DecodedMoves`) come from exhibiting a solution (`Folding`, `Counting`) and showing
it is the chosen one. So this induction over data is within reach, when what is
summed grows at its end.

`Digested(file, s)` is for `VerdictsHold`: before the Footer the run of summary
records is a stretch of the file that ends just before the next record, and starts
where `tail_start` says (`RunOfFile`); once the Footer that ends the file is past,
a verdict reached is `Verdict(file)`, since a run that starts at `summary_start` and
ends at the Footer is the range the indexed reader fetches (`FooterDigests`).

`SamplesMatch` compares two ways to a pose. The indexed reader's walk of the front
matter is unfolded into a run too (`Walks`), of which `TracksFiled` is the invariant:
what is filed under an object is the position of an Object Track of that object.
Reading the layer whole fetches the same positions in their order (`Ranked` lists
each of a set once, `RankedIs`), so each pose comes from the same track. Within it,
the halving of `Bracket` is a recursion over windows with no counter: a solution is
exhibited for every window (the sample before the time, moved to the nearer end of a
window it is not in, `HalvingExists`), and any solution started from the whole track
ends at that sample, by induction on the length of the window (`HalvingEnds`).

**One scene of two readers.** `ReadersMatch` compares a reader that folds over every
record with one that fetches ranges by offset. Both sides are brought to places in the
file: `Taken(file, S)` is the records at the positions in `S`, in order. The invariant
of the streamed reader says what each accumulator is of the records so far:

    BothRead == /\ ReadInv /\ options \in OPTIONS
                /\ Reading(s) => s.options = options /\ OfFile(file, s)
                /\ clean => /\ streamed = Finish(s, TRUE)
                            /\ indexed = I!OpenIndexed(file, TRUE, options)
                            /\ Reading(s) => s.at = Len(file)

`OfFile` has a part for each way of keeping: lists are `Taken` at the positions of
their kind (`ListsOfFile`), of a singleton the latest stays (`OnesOfFile`), audio and
descriptors are filed by id (`NodesOfFile`), and the chunks are those of the file with
the bands that followed each and are within the options' degree (`ChunksOfFile`). Each
handler adds exactly what its record says (`HandledTakes`), whatever it refuses or
charges, and so a turn keeps `OfFile` (`TurnOfFile`). On the other side, the walk of
the front matter finds the same positions (`WalkFinds`), because `InOrder` leaves none
behind the first Chunk (`FrontIsAll`); the summary's are all of the file's of their
kinds by `Indexed` (`SummaryTakes`), which also makes the entries the chunks in order
with their own bands. What joins them is about `Taken` alone: what is taken of what was
taken is taken of the file (`TakenInner`), a stretch of the file is the file shifted
(`TakenShift`), and a list of numbers that ascends is the one way to enumerate them
(`RankedOrders`, `EnumeratesOnce`). The scene then agrees field by field (`BothAgree`).
The proof uses neither the ceilings nor `NoEmptyTwin`: an empty second track changes
what is refused, not what is delivered by readers that both finish.

**Recovery at a cut.** `RecoveredIsPrefix` compares what a cut read delivers with
`WholeScene`, the same file read whole: a state with a fold it never takes part in.
The fold is first unfolded into a run `g`, a state after each record (`ReadRuns`),
and the invariant is

    RunInv == ReadInv /\ \A g : Runs(file, options, g) => Follows(g)

`Follows` says the read is at the run's state for its position, and after a cut has
the chunks and the Header of one of the run's states. What is left is about the run
alone. `Grown(x, y)` says that what was decoded at `x` is still there at `y`, except
that the last chunk may have got more bands; every handler keeps it (`HandledGrows`),
and hence a run that does not refuse (`RunGrows`). The chunks of the cut are
`WholeChunks` of an earlier state, those that have the first one's bands
(`WholeKeeps`). If there are two, the first was complete when the second began, and
`Assembles` made every chunk of the whole scene have the first one's bands, so all of
them are complete (`KeptChunks`). The gaussians are rows flattened, and flattening
keeps a beginning a beginning (`FlatContinues`, `AssemblePrefix`). That a band without
a Header, or of a degree-0 scene, means nothing is why the property says
`sh_degree > 0`.

`AnyCutRecovers` says that such a read is answered at all, and needs of the run
everything `Finish` asks about. `Extends(x, y)`, a part of `Grown`, says it of every
field: a record held is still held, a list goes on, a map keeps its keys. So the
weights of what is held, of the chunks and of their assembly are no larger in the
cut than in the whole (`HeldOnesKept`, `HeldListsKept`, `AssemblyBegins`,
`SettledGrows`), and a ceiling the whole file met is met (`BoundsKept`): the
property asks nothing of the ceilings. One term could have gone the other way, for
`Settled` counts a source only once its payload has come, and a legacy record
replaces all sources; the whole file's `AudioHolds` keeps a legacy record alone
(`AudioApart`, `SourcesGrow`). Names unique in a list are unique in its beginning; a
reference that does not resolve yet is let pass by a cut file, unless the Footer was
seen, and then the file must have ended (`FooterAtEnd`), which is why the property
asks that the Footer be last: with a Footer between a sensor and the rig it names, a
cut between the Footer and the rig is refused. Last, the one chunk of a cut may lack
bands (`WholeChunks` keeps it if it is alone) and must still assemble. `Marks`
records which record put a band where it is: a band present at the cut came before
it and one still missing came after (`BandArrives`), to the same chunk with no Chunk
in between (`NoChunkComes`), so bands written in order leave no gap (`FirstBands`,
`LoneBands`).

**`SceneReader`.** The invariant is `Good(file, reader)`: `Keyed` (what is
resident is what the key and the band name), `RecordsFresh` and `PosesFresh`
(each cache is what would be fetched now) and `ValidatedHold`. The last is the
strengthening: a track is marked validated so that its times are not checked
again, and a later fetch that skips the check is equal to a fetch that makes it
only if every marked track would pass. There is a lemma per assignment to the
reader's fields, one per call, and `StepIInv` over the calls, each with the
places at which it can fail; it holds in the middle of a call as well, which is
why `FailuresAreHarmless` follows for a call that fails half way.

**A writer's handle.** `HarmonicsFit` needs `HandleInv`: only a handle is assembled,
and what it holds keeps its fields, so a setter leaves alone what it does not name.
The step that matters is `SetGaussians`, which takes the harmonics away.

**The plan of a scene.** The invariant is `Planned`: the plans are `PlanChunks` of
an input that has not changed since, which is so because no setter runs while a
handle is being encoded (`HandleInv`). The rest is about `PlanChunks` alone. The
intervals there could be (`Cuts`) are halved level by level from the tops; those of
one level lie side by side (`CutsApart`), and each lies in one of every level above
(`CutsNest`). So a gaussian whose support the middle of a node divides lies in no
deeper interval (`DividedIsDeepest`): such an interval would lie in a half of the
very node. `Settles` says that a member of a node is so divided, or that the tree is
as deep as it may be. It also covers a gaussian that is never visible, whose support
ends before it begins and which goes all the way down. By `Ascend` on the levels left,
what a node keeps settles in it, what goes below settles where it is placed, and none
is lost (`SplitDelivers`, `DescendDelivers`); that a half gives nothing back is the
threshold of at most one (`HalfTakes`). Top by top, whatever a top holds is placed
(`HeldIsPlaced`), so what is left over lies in no interval at all. The layout only
moves nodes: an order of a finite set gives every place a rank (`RanksAll`, by
counting), which also puts the tops in order (`RankedAscends`).

**The handle.** `HInv == Owned /\ Behind`. `Owned` says who owns a source given
away: nobody released it while a handle is open, and a refusing call released it
itself. `Behind` is the reader's invariant while the handle is open: a handle
makes sequences of reader calls that `SceneReader`'s own specification does not
have, so the lemmas are used again, call by call.

**Discovery.** That the fields are whole when a walk ends depends on what the
walk kept, and that no call reads early depends on which walk it joined. The
invariant is

    IInv == FileListed /\ complete \in BOOLEAN /\ CallsShaped /\ SingleWalk
                       /\ FieldsTogether /\ \A c : CallHolds(calls[c])

`SingleWalk` says that the promise held is that of the only walk, that the walk
has kept exactly the optional records it passed, and that a walk that is done
has set `complete`. `CallHolds` says that a call waits for that walk or needs
none because discovery was complete, and that a call that reads began to when it
was. When `open()` saw the whole file within its ceiling, `KeptByOpen` is
everything, by cardinality (`InitIInv`). `AInv` adds what `AnswersWhole` and
`RejectionsEarned` need: a walk on its way has found nothing unlawful in what it
passed (`Unbroken`), and one that rejected had a cause; a file known completely
is `Lawful`; a reading call has taken a prefix of the list of its kind and
checked each item of it (`SoFar`); and the cache, shared by calls that may reject
for other reasons, holds only descriptors that agree with their payload
(`CacheSays`).

**What proving changed in the models.** Five failed attempts were true findings:
`BoundaryCutsDecode` needs representable samples, `WholeFilesDecode` needs depths
that fit, a file's bins are those of known attributes (section 4), and a file
with two legacy tracks that `open()` sees whole is answered and not refused,
which `Lawful` now says. A fifth: with two Footers the streamed reader keeps the
verdict of the first that its run agrees with (`R/stream_reader.rs:1336-1344`),
the indexed reader has the last, and they may differ, so `VerdictsAgree` asks for
what the specification demands, "The Footer MUST be last"
(`website/docs/spec/index.md:232`); neither reader refuses such a file, and
`scene_files` holds some. In `SceneReader`, a track is taken for validated only
when its times are in order, as the code's early return has it. For the provers,
sorted and filtered sequences are given by the rank of their elements
(`InTimeOrder`, `InFileOrder`, `Nth`, `Only`, `Ranked`, `Taken`) in place of library folds, a map with
one key more is `Filed` in place of `@@`, and a growing collection's capacity is
the code's doubling in place of a table of its first values.

**Model-checked only.** Of invariants: that the gaussian-birth readers refuse
together (`ReadersRefuseTogether`, under `OneRule`: the runs say it of ceilings that are generous
for the files they hold, a number fitted to those files, so for every file it
would need a bound on what a file weighs in either reader), the gaussian-birth
writer's file (`ReadBack`, `SeekDelivers`) and `StatesReadArrays`; of properties
of steps, `SummaryIsCanonical` and the refinement `AnswersLikeAFreshRead`.
`ReadBack`, `StatesReadArrays` and the refinement compare with a front-to-back
read (`ReadStreamed`, a fold over a file that the writer or the handle holds):
`ReadersMatch` is about the run of that reader, and carrying it over needs the
fold unfolded there as `ReadRuns` does for recovery. `ReadBack` and `SeekDelivers`
also read under fixed, roomy bounds, which some file exceeds. Liveness
(`LoopsEnd`, `CallsSettle`) is out of the prover's reach.


## 6. What is not modelled

In keyframe-delta: spherical harmonic bands; the contents of windows (only
membership in the table counts); dequantization and its f32 guards
(`check_decoded_f32_*`); infinite or NaN times and durations (times are
integers, and a model time step stands for any); counts of channels and stream
elements (`readable` stands for a group that parses); decoded-state byte
budgets; compression levels and codecs; the text and offsets of diagnostics;
panics on allocation failure; a handle whose bytes were delivered being encoded
a second time.

In gaussian-birth: attribute values, and so quantization, the measured
verification of the writer (`verify_chunk`), curve order beyond being an order,
and what harmonics contain; byte layouts (`sound` stands for a body's own
checks); the audio payload's bytes and the sampling of its keyframes; the
allocator beyond its growth rule.

At the C ABI: buffers and string getters, chunk-level readers, and threads,
which share nothing but code: each has its own error slots, and a handle belongs
to one. A `release` callback that calls back into the library is not considered.

In TypeScript: chunk reading, the keyframe-delta port, rendering, and an
`IReadable` whose promise never settles.

Components: see `PROJECT.json`. Codecs and numeric kernels are pure functions
over bytes and floats and belong to tests; the other ports and bindings repeat
the Rust design.


## 7. Plan

Done: both encodings with their writers, both readers of each, the validator,
`SceneReader` and the C ABI around it, TypeScript's shared discovery, two
abstract specifications with their refinements, and the proofs above.

Worth proving next:

1. `SeekDelivers`, from `InDeepestNode`'s lemmas (every gaussian is in one chunk, whose
   interval holds what is visible of it) and the writer's file read record by
   record, under bounds that grow with the file.
2. `AnswersLikeAFreshRead` and `StatesReadArrays`, from `IInv` and the statement
   that the two readers' fetches agree on the file of the handle, for which
   `ReadersMatch` is the larger half.

Worth modelling next: byte budgets of the keyframe-delta readers, and keyframe-
delta files behind `SceneReader`.
