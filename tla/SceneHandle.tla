----------------------------- MODULE SceneHandle -----------------------------
(***************************************************************************)
(* A scene behind the C ABI (rust/fourdgs/src/capi.rs): the caller's byte  *)
(* source and its release callback, the handle around a SceneReader, one   *)
(* state handle, the descriptors the handle keeps, and the thread's three  *)
(* error slots.  One thread owns one scene; a source is also handed to     *)
(* fourdgs_validate_keyframe_delta_reader, which keeps it for one call.    *)
(***************************************************************************)
EXTENDS SceneReader

VARIABLES
    handle,       \* "none", "open" or "freed"
    released,     \* source -> how often its release callback was called
    given,        \* the sources the caller gave away
    last,         \* LAST_ERROR, LAST_REFUSAL and LAST_ERROR_OFFSET
    descriptors,  \* audio_descriptors: the sources whose descriptor is kept
    state         \* the caller's state handle: Option of [t, indices, current]
hvars == <<file, options, reader, answer, handle, released, given, last, descriptors, state>>

\* The sources a caller has to give away.
Contexts == {"scene", "sequence"}

\* No reader yet, or no longer.
NoReader == [mode |-> "none"]

----------------------------------------------------------------------------
(* The error slots                                                         *)

\* What can be wrong with a call: its arguments, something the specification's
\* refusal table names, or anything else.
Failures == {"argument", "refused", "error"}

NoError == [message |-> None, refusal |-> None, offset |-> None]

\* A wrong SetLastError: the other two slots keep what an earlier failure left.
SetMessageOnly(slots, what) == [slots EXCEPT !.message = Some(what)]

SetLastError(slots, what) == [message |-> Some(what), refusal |-> None, offset |-> None]

\* report: the identifier is set after the message, which clears it.
Report(slots, what) ==
    [SetLastError(slots, what) EXCEPT !.refusal = IF what = "refused" THEN Some(what) ELSE None]

\* report_at, of a failure whose byte is known.
ReportAt(slots, what) == [Report(slots, what) EXCEPT !.offset = Some(what)]

\* What a call that answers `value` may leave; a success writes nothing.
SlotsAfter(value) == IF IsSome(value) THEN {last} ELSE {Report(last, what) : what \in Failures \ {"argument"}}

----------------------------------------------------------------------------
(* Ownership of a source                                                   *)

\* A wrong Takes: the source is only taken once the arguments are in order.
TakesWhenSound(sound) == sound

\* The callee owns the source before it looks at any argument.
Takes(sound) == TRUE

\* Dropping CallbackSource calls release.
Dropped(source) == [released EXCEPT ![source] = @ + 1]

----------------------------------------------------------------------------
(* Opening and freeing                                                     *)

SceneIdle == UNCHANGED <<file, options, reader, descriptors, state>>

\* open_reader_with_options with a null out parameter, a bad mode, a zero limit
\* or a missing callback.
OpenMisused ==
    /\ handle = "none" /\ "scene" \notin given
    /\ given' = given \cup {"scene"}
    /\ released' = IF Takes(FALSE) THEN Dropped("scene") ELSE released
    /\ last' = SetLastError(last, "argument")
    /\ answer' = Answer([op |-> "open"], None)
    /\ UNCHANGED handle /\ SceneIdle

\* The source is moved into the reader, or dropped with the error.
Open ==
    /\ handle = "none" /\ "scene" \notin given
    /\ given' = given \cup {"scene"}
    /\ \E opened \in {None, OpenReader(file, options.mode, options)} :
        \E value \in {IF IsSome(opened) THEN Some("scene") ELSE None} :
            /\ handle' = IF IsSome(value) THEN "open" ELSE "none"
            /\ reader' = IF IsSome(value) THEN opened[1] ELSE reader
            /\ released' = IF IsSome(value) THEN released ELSE Dropped("scene")
            /\ answer' = Answer([op |-> "open"], value)
            /\ last' \in SlotsAfter(value)
    /\ descriptors' = {}
    /\ UNCHANGED <<file, options, state>>

\* fourdgs_scene_free: the handle and everything in it, the source with it.  A
\* state borrows nothing, but its arrays are gone.
Free ==
    /\ handle = "open"
    /\ handle' = "freed" /\ reader' = NoReader /\ descriptors' = {} /\ state' = None
    /\ released' = Dropped("scene")
    /\ answer' = NoAnswer
    /\ UNCHANGED <<file, options, given, last>>

\* validate_keyframe_delta_reader: the source lives as long as the call.
Validate ==
    /\ "sequence" \notin given
    /\ given' = given \cup {"sequence"}
    /\ \E outcome \in {"valid", "argument", "refused", "error"} :
        /\ released' = IF Takes(outcome # "argument") THEN Dropped("sequence") ELSE released
        /\ answer' = Answer([op |-> "validate"], IF outcome = "valid" THEN Some(outcome) ELSE None)
        /\ last' \in CASE outcome = "valid" -> {last}
                       [] outcome = "argument" -> {SetLastError(last, outcome)}
                       [] OTHER -> {Report(last, outcome), ReportAt(last, outcome)}
    /\ UNCHANGED handle /\ SceneIdle

----------------------------------------------------------------------------
(* Calls on an open scene                                                  *)

\* A null pointer, an index past its end, a zero limit, a chunk of a streamed scene.
Misuse ==
    /\ answer' = Answer([op |-> "misuse"], None)
    /\ last' \in {SetLastError(last, "argument")}
                 \cup (IF handle = "open" /\ reader.mode = "streamed" THEN {Report(last, "error")} ELSE {})
    /\ UNCHANGED <<handle, released, given>> /\ SceneIdle

HandleIdle == UNCHANGED <<handle, released, given, descriptors>>

\* The arrays a state's indices refer to are replaced.
Outdated == IF IsSome(state) THEN Some([state[1] EXCEPT !.current = FALSE]) ELSE None

\* fourdgs_scene_load_all, _load_all_with_options, _load_at and _load_chunk.
Load ==
    /\ handle = "open"
    /\ LoadAll \/ LoadAllWithin \/ LoadAt \/ LoadChunk
    /\ last' \in SlotsAfter(answer'.value)
    /\ state' = IF IsSome(answer'.value) THEN Outdated ELSE state
    /\ HandleIdle

\* fourdgs_scene_load_records and _provenance_json.
Fetch ==
    /\ handle = "open"
    /\ Records \/ Provenance
    /\ last' \in SlotsAfter(answer'.value)
    /\ UNCHANGED state
    /\ HandleIdle

\* StateAt::indices, of the gaussians visible at t among those resident.
IndicesAt(rows, t) == SelectSeq([k \in DOMAIN rows |-> k], LAMBDA k : rows[k].lo <= t /\ t < rows[k].hi)

\* fourdgs_scene_state_at; a caller keeps one state.
TakeState ==
    /\ handle = "open"
    /\ StateAt
    /\ last' \in SlotsAfter(answer'.value)
    /\ state' = IF IsSome(answer'.value)
                THEN Some([t |-> answer'.request.t, indices |-> IndicesAt(reader'.loaded, answer'.request.t),
                           current |-> TRUE])
                ELSE Outdated
    /\ HandleIdle

\* fourdgs_state_free.
FreeState ==
    /\ IsSome(state)
    /\ state' = None
    /\ answer' = NoAnswer
    /\ UNCHANGED <<file, options, reader, handle, released, given, last, descriptors>>

\* cache_audio_descriptor: fetched on the first use.
Described(i, fails) == IF i \in descriptors THEN Done(reader, i) ELSE AudioSourceAt(reader, i, options, fails)

\* fourdgs_scene_audio_source, _keyframe, _state_at, and _audio_codec, which
\* returns null and reports nothing.
DescribeAudio ==
    /\ handle = "open"
    /\ \E i \in DOMAIN reader.scene.audio : \E fails \in Faults(i \in descriptors), op \in {"audio", "codec"} :
        \E x \in {Described(i, fails)} :
            /\ Returns([op |-> op, index |-> i], x, reader.scene.audio[i].id)
            /\ descriptors' = IF IsSome(x.value) THEN descriptors \cup {i} ELSE descriptors
            /\ last' \in (IF op = "codec" THEN {last} ELSE SlotsAfter(x.value))
    /\ UNCHANGED <<handle, released, given, state>>

\* fourdgs_scene_audio_source_read: the descriptor stays when the range fails.
ReadAudio ==
    /\ handle = "open"
    /\ \E i \in DOMAIN reader.scene.audio, n \in {1, 3} : \E fails, again \in Faults(FALSE) :
        \E described \in {Described(i, fails)} :
        \E x \in {IF IsSome(described.value) THEN AudioRangeOf(reader, i, 1, n, options, again) ELSE described} :
            /\ Returns([op |-> "range", index |-> i, end |-> 1 + n], x, x.value[1])
            /\ descriptors' = IF IsSome(described.value) THEN descriptors \cup {i} ELSE descriptors
            /\ last' \in SlotsAfter(x.value)
    /\ UNCHANGED <<handle, released, given, state>>

\* A wrong SummaryCap: the harmonics the caller left resident will do.
CallersCap(r) == r.loaded_band

\* The summary is made of every gaussian at the file's full degree.
SummaryCap(r) == r.scene.front.header[1].sh_degree

\* A streamed scene holds everything at the band it was opened with.
WholeCap(r) == IF r.mode = "streamed" THEN r.scene.header.sh_degree ELSE SummaryCap(r)

\* The objects, then everything; the cap, but not the set, is restored.
Summarize ==
    /\ handle = "open"
    /\ \E full \in {WholeCap(reader)}, fails \in [{"objects", "load", "restore"} -> BOOLEAN] :
        \E layer \in {EnsureObjects(file, reader, options, fails["objects"])} :
        \E whole \in {IF layer.value = None THEN layer
                      ELSE LoadWithin(file, layer.reader, All, full, options, options.limit, fails["load"])} :
        \E x \in {IF IsSome(whole.value) /\ reader.loaded_band < full
                  THEN LoadWithin(file, whole.reader, All, reader.loaded_band, options, options.limit, fails["restore"])
                  ELSE whole} :
            /\ Returns([op |-> "summary"], x, [rows |-> Range(whole.reader.loaded), tracks |-> layer.value[1].tracks])
            /\ last' \in SlotsAfter(x.value)
    /\ state' = Outdated
    /\ HandleIdle

HInit ==
    /\ \E c \in CASES : file = c.file /\ options = c.options
    /\ reader = NoReader /\ answer = NoAnswer
    /\ handle = "none" /\ given = {} /\ released = [s \in Contexts |-> 0]
    /\ last = NoError /\ descriptors = {} /\ state = None

HNext == OpenMisused \/ Open \/ Free \/ Validate \/ Misuse \/ Load \/ Fetch \/ TakeState \/ FreeState \/ DescribeAudio \/ ReadAudio
         \/ Summarize

HSpec == HInit /\ [][HNext]_hvars

----------------------------------------------------------------------------
(* Properties                                                              *)

\* A source the caller gave away is released exactly once: when the call that
\* refused it returns, or with the scene that holds it, whatever failed in between.
ReleasedOnce ==
    \A source \in Contexts :
        released[source] = IF source \in given /\ ~(source = "scene" /\ handle = "open") THEN 1 ELSE 0

\* "The message and the identifier a caller reads always describe the same
\* failure" (capi.rs), and it is the last call that reported one; a success
\* leaves the diagnosis of the failure before it.
SlotsDescribeOneFailure ==
    [][IF answer'.value = None /\ answer'.request.op \notin {"none", "codec"}
       THEN /\ IsSome(last'.message)
            /\ last'.refusal = (IF last'.message = Some("refused") THEN last'.message ELSE None)
            /\ IsSome(last'.offset) => answer'.request.op = "validate"
       ELSE last' = last]_hvars

\* "Its indices refer to the scene's resident arrays" (fourdgs.h): until another
\* load succeeds or a summary is asked for, whatever else is called or fails,
\* they name the gaussians visible at the state's instant.
StatesReadArrays ==
    IsSome(state) /\ state[1].current =>
        LET named == state[1].indices
        IN  /\ Range(named) \subseteq DOMAIN reader.loaded
            /\ P!Ids([k \in DOMAIN named |-> reader.loaded[named[k]]]) = P!StateOf(P!Wholes[file], state[1].t).ids

\* A summary does not depend on the calls before it ("making canonical output
\* depend on call history ... is the one thing a canonical form may not do"), and
\* one that succeeds leaves a cap that was lower than the file's degree as it was.
SummaryIsCanonical ==
    [][answer'.request.op = "summary" /\ IsSome(answer'.value) =>
        /\ answer'.value[1] = [rows |-> Range(P!Wholes[file].gaussians), tracks |-> P!Wholes[file].tracks]
        /\ reader.loaded_band < P!Wholes[file].header.sh_degree => reader'.loaded_band = reader.loaded_band]_hvars
=============================================================================
