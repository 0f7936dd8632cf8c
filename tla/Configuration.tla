--------------------------- MODULE Configuration ---------------------------
(***************************************************************************)
(* The configuration of the server: ConfigManager                          *)
(* (core/config_manager.py), its schema (core/config_schema.py), the       *)
(* routes that change it (server/routes/config.py, modules.py, outputs.py),*)
(* the answer they cache (core/cache.py) and what the pipeline was given   *)
(* (core/app_context.py, pipeline_helpers.py).                             *)
(*                                                                         *)
(* The routes are coroutines that await nothing once they hold the body,   *)
(* so a request is one step; what makes it hard is the order of its parts  *)
(* when one fails: memory is changed first, then the file, then the        *)
(* pipeline part by part, and nothing is taken back.                       *)
(*                                                                         *)
(* A configuration is the chunk duration, the modules that are enabled and *)
(* the list of named outputs.                                              *)
(***************************************************************************)
EXTENDS Naturals, FiniteSets, Functions

CONSTANTS
    Durations,    \* values of pipeline.chunk_duration_sec
    DefaultChunk, \* the schema's
    Streams,      \* names of outputs that can be added
    Presets,      \* names of presets
    Faults,       \* what may fail: "save", "load", "presets", "configure"
    MaxSteps,     \* bound on the steps of one hand-over that fail
    MaxRequests   \* bound on the requests that change something

Modules == {"translator", "tts_engine", "audio_mixer"}

\* The output create_app_context makes when the list is empty.
WebOutput == "web_1"
OutputNames == Streams \cup {WebOutput}

NoCache == [chunk |-> 0, on |-> {}, outs |-> <<>>]

VARIABLES
    memory,       \* ConfigManager._config
    file,         \* config.yaml
    pipe,         \* what the pipeline was last given: chunk, enabled modules
    live,         \* the outputs of the composite and whether each is enabled
    presets,      \* presets.json
    cache,        \* the cached answer of GET /config
    unsettled,    \* history: the last save failed, or the last read gave defaults
    behind,       \* history: the parts of the pipeline that a change did not reach
    requests      \* history: how many requests changed something

cvars == <<memory, file, pipe, live, presets, cache, unsettled, behind, requests>>

----------------------------------------------------------------------------
(* Schema and merge.                                                       *)

\* SRT2WebConfig.validate_module_dependencies.
DependenciesHold(on) ==
    /\ "tts_engine" \in on => "translator" \in on
    /\ "audio_mixer" \in on => {"translator", "tts_engine"} \subseteq on

Valid(c) == DependenciesHold(c.on)

DEFAULT_CONFIG == [chunk |-> DefaultChunk, on |-> Modules, outs |-> <<>>]

\* An update names some modules, and perhaps the duration (0 when it does not).
Updates == [chunk : Durations \cup {0}, mods : UNION {[S -> BOOLEAN] : S \in SUBSET Modules}]

\* _deep_merge: what the update names takes precedence.
Merged(c, u) ==
    [c EXCEPT !.chunk = IF u.chunk = 0 THEN @ ELSE u.chunk,
              !.on = {m \in Modules : IF m \in DOMAIN u.mods THEN u.mods[m] ELSE m \in @}]

\* The route's own check looks at the body alone, where what is absent is off.
BodyAccepted(u) == DependenciesHold({m \in DOMAIN u.mods : u.mods[m]})

----------------------------------------------------------------------------
(* save, reload, reconfigure.                                              *)

\* save validates the whole of memory, then replaces the file atomically.
Saves(c, fault) == Valid(c) /\ fault # "save"

\* _load: a file that cannot be read gives the defaults.
Loaded(c, fault) == IF fault = "load" THEN DEFAULT_CONFIG ELSE c

\* What the pipeline is given: the duration and each module's enabled flag.
Parts == Modules \cup {"chunk"}
Changed(c) == {m \in Modules : (m \in c.on) # (m \in memory.on)}
              \cup (IF c.chunk # memory.chunk THEN {"chunk"} ELSE {})

\* What p becomes when all but the failed parts of c are given to it.
Given_ChunkOnly(c, p, failed) == [chunk |-> IF "chunk" \in failed THEN p.chunk ELSE c.chunk, on |-> p.on]
Given(c, p, failed) ==
    [chunk |-> IF "chunk" \in failed THEN p.chunk ELSE c.chunk,
     on    |-> {m \in Modules : m \in (IF m \in failed THEN p.on ELSE c.on)}]

\* configure_outputs merges modules.video_muxer, whose enabled is true, into
\* the configuration of every output; only the web output takes it up.
Reconfigured(outs) == [o \in DOMAIN outs |-> outs[o] \/ o = WebOutput]

\* reconfigure_pipeline: the duration, configure() of every module, then the
\* outputs.  Each step that raises is logged and the next one is taken.
Reconfigures(c, p, fault) ==
    /\ \E failed \in SUBSET Parts :
          /\ fault # "configure" => failed = {}
          /\ Cardinality(failed) <= MaxSteps
          /\ pipe' = Given(c, p, failed)
          /\ behind' = failed
    /\ live' \in {Reconfigured(live)} \cup (IF fault = "configure" THEN {live} ELSE {})

\* The common end of PUT /config, POST /config/chunk and a preset: memory is
\* changed; if it can be saved it is read back and given to the pipeline.
Store(c, fault, invalidates) ==
    IF Saves(c, fault)
       THEN LET read == Loaded(c, fault)
            IN  /\ file' = c /\ memory' = read
                /\ Reconfigures(read, pipe, fault)
                /\ cache' = IF invalidates THEN NoCache ELSE cache
                /\ unsettled' = (fault = "load")
       ELSE /\ memory' = c
            /\ unsettled' = TRUE /\ behind' = behind \cup Changed(c)
            /\ UNCHANGED <<file, pipe, live, cache>>

Requested ==
    /\ requests < MaxRequests
    /\ requests' = requests + 1

----------------------------------------------------------------------------
(* Requests that change the configuration.                                 *)

\* PUT /config and PUT /config/video_muxer: checked, merged and validated
\* before memory is changed.
UpdateConfig(u, fault) ==
    /\ Requested
    /\ BodyAccepted(u) /\ Valid(Merged(memory, u))
    /\ Store(Merged(memory, u), fault, TRUE)
    /\ UNCHANGED presets

\* POST /config/chunk: set() one key after the other, unvalidated.
UpdateChunk(d, fault) ==
    /\ Requested
    /\ Store([memory EXCEPT !.chunk = d], fault, TRUE)
    /\ UNCHANGED presets

\* POST /presets/{name}/apply: like an update, but nothing is invalidated.
ApplyPreset(p, fault) ==
    /\ Requested
    /\ p \in DOMAIN presets
    /\ LET kept == presets[p]
           c == [memory EXCEPT !.chunk = kept.chunk, !.on = kept.on, !.outs = kept.outs]
       IN  Valid(c) /\ Store(c, fault, FALSE)
    /\ UNCHANGED presets

\* The presets that come with the program: low_latency, and the two that
\* switch translation and dubbing on.
BuiltIn == {[chunk |-> DefaultChunk, mods |-> [m \in Modules |-> FALSE]],
            [chunk |-> DefaultChunk, mods |-> [m \in {"translator", "tts_engine"} |-> TRUE]]}

ApplyBuiltIn(u, fault) ==
    /\ Requested
    /\ Valid(Merged(memory, u))
    /\ Store(Merged(memory, u), fault, FALSE)
    /\ UNCHANGED presets

\* PUT /modules/{name}/toggle: the module and memory first, then save, which
\* may refuse; what it refused stays.
ToggleModule(m, enable, fault) ==
    /\ Requested
    /\ LET c == [memory EXCEPT !.on = IF enable THEN @ \cup {m} ELSE @ \ {m}]
           hot == [pipe EXCEPT !.on = IF enable THEN @ \cup {m} ELSE @ \ {m}]
       IN  /\ memory' = c
           /\ IF Saves(c, fault)
                 THEN /\ file' = c
                      \* hot start or stop of a module that runs, or reconfigure
                      /\ \/ pipe' = hot /\ live' = live /\ behind' = behind \ {m}
                         \/ Reconfigures(c, hot, fault)
                      /\ unsettled' = FALSE
                 ELSE /\ pipe' = hot /\ behind' = behind \ {m}
                      /\ unsettled' = TRUE
                      /\ UNCHANGED <<file, live>>
    /\ UNCHANGED <<presets, cache>>

\* _sync_outputs_to_config, after the composite changed: an output has no
\* attribute "enabled", so every entry says enabled; a save that fails is
\* logged and the request answers as if it had not.
SyncOutputs(fault) ==
    /\ memory' = [memory EXCEPT !.outs = [o \in DOMAIN live' |-> TRUE]]
    /\ IF Saves(memory', fault)
         THEN file' = memory' /\ unsettled' = FALSE
         ELSE file' = file /\ unsettled' = TRUE
    /\ UNCHANGED <<pipe, behind, presets, cache>>

AddOutput(o, fault) ==
    /\ Requested
    /\ live' = [n \in DOMAIN live \cup {o} |-> IF n = o THEN TRUE ELSE live[n]]
    /\ SyncOutputs(fault)

RemoveOutput(o, fault) ==
    /\ Requested
    /\ o \in DOMAIN live /\ Cardinality(DOMAIN live) > 1
    /\ live' = Restrict(live, DOMAIN live \ {o})
    /\ SyncOutputs(fault)

\* enable_output.
Switched(o) == [live EXCEPT ![o] = ~@]

ToggleOutput(o, fault) ==
    /\ Requested
    /\ o \in DOMAIN live
    /\ live' = Switched(o)
    /\ SyncOutputs(fault)

\* PUT /outputs/{name} enables or disables an output and syncs nothing.
UpdateOutput(o) ==
    /\ Requested
    /\ o \in DOMAIN live
    /\ live' = Switched(o)
    /\ UNCHANGED <<memory, file, pipe, presets, cache, unsettled, behind>>

----------------------------------------------------------------------------
(* Presets, the cached answer, restart.                                    *)

\* _load_presets: a file that cannot be read counts as empty.
ReadPresets(fault) == IF fault = "presets" THEN <<>> ELSE presets

SavePreset(p, fault) ==
    /\ Requested
    /\ presets' = [n \in DOMAIN ReadPresets(fault) \cup {p} |->
                      IF n = p THEN memory ELSE presets[n]]
    /\ UNCHANGED <<memory, file, pipe, live, cache, unsettled, behind>>

DeletePreset(p, fault) ==
    /\ Requested
    /\ p \in DOMAIN ReadPresets(fault)
    /\ presets' = Restrict(presets, DOMAIN presets \ {p})
    /\ UNCHANGED <<memory, file, pipe, live, cache, unsettled, behind>>

\* GET /config under @cached.
GetConfig ==
    /\ cache = NoCache
    /\ cache' = memory
    /\ UNCHANGED <<memory, file, pipe, live, presets, unsettled, behind, requests>>

\* The time to live of the cached answer is over.
CacheExpires ==
    /\ cache # NoCache
    /\ cache' = NoCache
    /\ UNCHANGED <<memory, file, pipe, live, presets, unsettled, behind, requests>>

\* The process ends and main() starts another: load, then create_app_context,
\* which ignores the enabled of an entry.
CInitial(c) ==
    [o \in (IF DOMAIN c.outs = {} THEN {WebOutput} ELSE DOMAIN c.outs) |-> TRUE]

Restart(fault) ==
    /\ Requested
    /\ memory' = Loaded(file, fault)
    /\ pipe' = Given(memory', pipe, {}) /\ behind' = {}
    /\ live' = CInitial(memory')
    /\ cache' = NoCache
    /\ unsettled' = (fault = "load")
    /\ UNCHANGED <<file, presets>>

CInit ==
    /\ file = DEFAULT_CONFIG
    /\ memory = DEFAULT_CONFIG
    /\ pipe = [chunk |-> DefaultChunk, on |-> Modules]
    /\ live = CInitial(DEFAULT_CONFIG)
    /\ presets = <<>> /\ cache = NoCache
    /\ unsettled = FALSE /\ behind = {} /\ requests = 0

\* The faults that one request can meet.
NoneOr(kinds) == {"none"} \cup (kinds \cap Faults)

CNext ==
    \/ GetConfig \/ CacheExpires
    \/ \E o \in OutputNames : UpdateOutput(o)
    \/ \E fault \in NoneOr({"save", "load", "configure"}) :
         \/ \E u \in Updates : UpdateConfig(u, fault)
         \/ \E u \in BuiltIn : ApplyBuiltIn(u, fault)
         \/ \E d \in Durations : UpdateChunk(d, fault)
         \/ \E p \in Presets : ApplyPreset(p, fault)
    \/ \E fault \in NoneOr({"save", "configure"}), m \in Modules, enable \in BOOLEAN :
         ToggleModule(m, enable, fault)
    \/ \E fault \in NoneOr({"presets"}), p \in Presets : SavePreset(p, fault) \/ DeletePreset(p, fault)
    \/ \E fault \in NoneOr({"save"}) :
         \/ \E o \in OutputNames : RemoveOutput(o, fault) \/ ToggleOutput(o, fault)
         \/ \E o \in Streams : AddOutput(o, fault)
    \/ \E fault \in NoneOr({"load"}) : Restart(fault)

CSpec == CInit /\ [][CNext]_cvars

----------------------------------------------------------------------------
\* Memory is what the file holds, unless the last save failed or the last read
\* gave the defaults; and each part of the pipeline is what memory says, even
\* then, unless a request that failed half-way has left this part behind
\* (config_manager.py:196-291, pipeline_helpers.py:75-128).
SettledAgrees ==
    /\ ~unsettled => memory = file
    /\ "chunk" \notin behind => pipe.chunk = memory.chunk
    /\ \A m \in Modules \ behind : m \in pipe.on <=> m \in memory.on

=============================================================================
