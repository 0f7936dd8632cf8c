# A TLA+ model of SRT2Web

SRT2Web takes a live stream (SRT, RTMP or a file), cuts it into chunks of some seconds,
transcribes, translates and dubs each chunk, and publishes the result with subtitles through
any number of outputs (HLS, RTMP, SRT, file, recording). It is one Python process with many
threads, a FastAPI server that drives it, and several FFmpeg and Piper subprocesses. A harness
for its development (`harness/`) keeps its backlog and its agents in a SQLite file.

This directory holds specifications of the parts of that system where order matters: who may
start what while something else is stopping, which thread may overtake which, what is still
true after a time-out has given up on a thread that goes on running, what is left when one of
several steps fails. The specifications are translated from the Python source (paths below are
relative to the repository), checked with TLC on small instances and, where the property
matters most, proved with TLAPS for every size.

## 1. The system and its parts

| Component (source) | State it keeps | What is hard about it | Module |
|---|---|---|---|
| Life cycle: `core/unified_pipeline.py`, `server/routes/pipeline.py` | pipeline state, `_initialized`, the stop event, `_stop_in_progress`, the init thread | `/start` runs in one thread per request, initialization in another, `/stop` on the event loop with its blocking half in an executor; both are given up after a time-out and go on | `UnifiedPipeline` |
| Thread-parallel strategy: `core/pipeline/strategies.py` | queues, results, concurrency target, the output thread's reorder buffer, metrics | concurrent workers, bounded queues, skipping lost chunks, a stop at any point | `ThreadParallel` |
| Sequential and asyncio strategies: same file | the tasks that were made, metrics | tasks pile up while the input has chunks, and run when it has none or when the loop has returned | `SerialStrategies` |
| Module base and breaker: `core/module_base.py`, `core/circuit_breaker.py` | module state, failure counters, breaker state | called by several threads at once; two locks, or none | `ModuleProcess`, `CircuitBreaker` |
| Composite output: `modules/outputs/composite_output.py`, `server/routes/outputs.py` | outputs, errors, attempts, the reconnection queue and its worker | four parties, short critical sections, a worker that may outlive its join, state that survives into the next life | `CompositeOutput` |
| FFmpeg pool: `core/ffmpeg_pool.py`, `core/ffmpeg_wrapper.py` | a semaphore and a table of jobs | two pieces of state changed in separate steps; ids that collide | `FFmpegPool` |
| Inputs with watchdog and clock: `modules/inputs/*`, `core/watchdog.py`, `core/chunk_clock.py` | the FFmpeg handle, the last index, hang flag and restart count, cumulative time | FFmpeg writes files while they are listed, numbered and purged; restarts race the stop | `StreamInput` |
| RTMP and SRT outputs: `modules/outputs/{rtmp,srt}_output.py` | the FFmpeg process, retries, a monitor thread | a write restarts what a stop ends | `StreamOutput` |
| HLS output and subtitles: `modules/outputs/hls_output.py`, `modules/subtitle_generator_pkg` | segments, windows, the reorder buffer, fragments | chunks arrive out of order; two writers keep two playlists alike | `LivePlaylist` |
| Recording: `modules/outputs/recording_output.py` | chunk list, temporary directory, a background join | the join of one life meets the writes of the next | `RecordingOutput` |
| Player feedback: `core/player_feedback.py` | what is reduced, when, the last reports | players, the monitor, saves and the strategy's thread change one duration | `PlayerFeedback` |
| Transcription: `modules/transcriber.py`, `core/model_cache.py` | the cache of transcripts, the model | the language changes during a call; calls time out and end later | `Transcription` |
| Translation: `modules/translator.py`, `modules/dmr_translator.py` | the pair, the detected language, a cache | check, eviction and store of the cache are separate steps | `Translation` |
| Synthesis: `modules/tts_engine.py`, `modules/piper_loader.py`, `modules/piper_worker.py` | manager, process, two locks, the pipe | several threads, a heartbeat and a restart on one line protocol | `PiperSynthesis` |
| Audio: `modules/audio_extractor.py`, `modules/audio_mixer.py` | the end of the last mix | workers overtake each other | `AudioMixing` |
| Configuration: `core/config_manager.py`, `server/routes/{config,modules,outputs}.py`, `core/pipeline/pipeline_helpers.py`, `core/cache.py` | memory, the file, the running pipeline, presets, a cached answer | three copies, a dozen handlers, each step may fail | `Configuration` |
| Accounts: `core/auth_db.py`, `server/routes/auth.py` | users, tokens, a blacklist, two files | windows, expiry, rotation, restarts | `Accounts` |
| Request limits: `server/security.py` | a list of request times per key | a purge beside a sliding window | `RequestLimits` |
| Log stream: `server/ws_routes.py` | buffer, subscribers | threads write, a delivery awaits each client | `LogStream` |
| Harness: `harness/db.py`, `harness/commands`, `harness/web/server.py` | tasks, agents, features, an audit log | processes share a file, are killed, and write what they read before | `HarnessAgents`, `HarnessFeatures`, `HarnessLimit` |

How they interact. The handler of `/start` calls `UnifiedPipeline.start` in a thread;
`initialize` starts the modules, the input and the sink (the composite) and creates the queues and
a new stop event; `start` then makes a context that captures that event and hands it to the strategy,
whose threads read chunks from the input, run every module's `process` on them (extraction,
transcription, translation, synthesis, mixing, subtitles) and write to the sink. Modules and outputs
run FFmpeg through the pool. `/stop` sets the event, waits for the threads and stops everything in an
executor job. Outputs are added and removed by handlers of their own while all that goes on, and
failing outputs are restarted by the composite's worker, failing inputs by their watchdog. Saving the
configuration changes the running pipeline; players' reports change it for a while.

The models meet where the code does. `UnifiedPipeline` says when the composite, the modules and the
loops start and stop; `ThreadParallel` and `SerialStrategies` are what a loop does in between and
implement one specification, `OrderedDelivery`; `ModuleProcess` runs on `CircuitBreaker`, whose
specification it implements; `LivePlaylist` puts the generator, the output thread and the HLS output
together with the chunks lost and skipped that `ThreadParallel` allows; `StreamInput` is the input
with its watchdog and its clock.

## 2. Modules

| Module | Models | Checked by | Proved in |
|---|---|---|---|
| `OrderedDelivery` | what the output side promises: a frontier that walks through the numbers, delivering or giving up | (abstract) | |
| `ThreadParallel` | the four loops of `ThreadParallelStrategy`; implements `OrderedDelivery` | `tp_safety`, `tp_live` | `ThreadParallel_proofs` |
| `SerialStrategies` | the sequential and the asyncio loop; implements `OrderedDelivery` | `services` | `Modules_proofs` |
| `UnifiedPipeline` | the life cycle with its handlers, and the end of the loops | `up_*` | `UnifiedPipeline_proofs` |
| `CompositeOutput` | the composite, its worker and its handlers | `co_*` | `CompositeOutput_proofs` |
| `CircuitBreaker` | the breaker's operations in any order: the abstract specification of `ModuleProcess` | `components` | `ModuleProcess_proofs` |
| `ModuleProcess` | `BaseModule.process` in several threads on one breaker; implements `BreakerSpec` | `components` | `ModuleProcess_proofs` |
| `StreamInput` | the SRT, RTMP and file inputs, watchdog, clock | `components` | `Streams_proofs` |
| `StreamOutput` | the RTMP and SRT outputs | `components` | `Streams_proofs` |
| `FFmpegPool` | the pool and the threads that run FFmpeg | `services`, `fp_leak` | `Modules_proofs` |
| `LivePlaylist` | subtitle generator, HLS output, the output thread between them | `services` | `Modules_proofs` |
| `RecordingOutput` | the recording and its background joins | `services`, `recording` | `Modules_proofs` |
| `PlayerFeedback` | reports, reductions, restorations, configuration saves, the thread strategy's adaptation | `services` | `Modules_proofs` |
| `AudioMixing` | extraction, mix, cross-fade | `services` | `Modules_proofs` |
| `Transcription`, `Translation`, `PiperSynthesis` | the three modules that call a model | `services`, `piper` | `Modules_proofs` |
| `Configuration`, `Accounts`, `RequestLimits`, `LogStream` | what the server keeps | `services` | `Server_proofs` |
| `HarnessAgents`, `HarnessFeatures`, `HarnessLimit` | the development harness | `services` | `Server_proofs` |
| `MCComponents`, `MCServices` | compositions: components that share no variable, one per behaviour | `components`, `services` | `Streams_proofs`, `Services_proofs` |

### Reading the models against the code

A variable carries the name of the attribute or local it stands for, or a plain word where several
modules need the same name; its comment says which it is. A thread's position is a `pc` field whose
values name the point between two steps. A step is as large as the code lets it be seen from outside:
one critical section of a lock, one call on a thread-safe queue, one assignment that another thread
reads, one handler up to its next `await`. Where the code reads something and acts on it later, the
read and the act are two actions. History variables (marked so in their comments) hold what a property
needs and no action reads. An operator named `X_Suffix` beside an operator `X` is `X` as a plausible
mistake would have it; nothing refers to it, and putting it in the place of `X` makes a property fail.

* **ThreadParallel.** A chunk is its number. `outcome` is what the modules made of it: `ok`, `failed`
  (a critical module raised), `degraded` (another one raised; the code records the error and goes on),
  `partial` (a stop made it skip modules). A timed wait is a choice between its two branches. `OutputSkip`
  is the lost-chunk rule: the time-out may elapse whenever something is pending, also while a worker is still
  at the chunk it skips (`Overtaken`). `fate` and `written` are history. Backpressure sleeps, the adaptation
  of the chunk duration (an action of `PlayerFeedback`) and timings are left out: they change when, not what.
* **SerialStrategies.** Nothing in an asyncio task ever suspends it, so the tasks run one after the other
  whenever the loop sleeps, oldest first. When the loop has returned (`serial_over`), the first step of each task that is left is queued
  ahead of the cancellation by `asyncio.run`, and with its first step a task is done: they run too, before the thread ends.
* **UnifiedPipeline.** `Starters` are the threads of `/start` requests, `Stoppers` the `/stop` tasks. Each
  start has an initialization thread of its own (`init_pc`), each stop an executor job (`job_pc`), so that the
  thread that outlives its time-out is there to be seen. `is_set` maps event *objects* to their flags because
  `initialize` makes a new one while others still hold the old one. A *generation* is the set of loops of one
  `start_threads` call, with the event its context captured. `Disturbances` names what may go wrong in an
  instance. The history variable `orderly` is true until a start or stop is called while a start is under way, or
  something fails or times out; what the code keeps in that case only is stated under it.
* **CompositeOutput.** `life` says how far the pipeline's start or stop is, as far as the composite can tell: `"starting"` before its own
  start, `"failed"` when it did not come to that. A handler is one action per piece between two steps of other threads: `AddOutput`, then
  `AddedStarts`; `Reconfigure`, then `ConfigureOutput` for each output; one handler at a time, since none awaits in between. `overwritten` remembers the
  outputs whose error `configure_outputs` cleared: two properties except these, because the code clears it under a reconnection.
  Each `start` may create a worker of its own, because an old one can still be alive. The
  queue holds `(output, attempt)` tasks and the `None` that ends a worker. `"worker_lingers"` lets a worker that is
  inside an output's `stop` or `start` outlive the 2 s join. The backoff is abstracted to the worker taking the task
  at any later time. `FirstLife` restricts two properties to the time before the second `start`, because the
  queue of one life is carried into the next.
* **CircuitBreaker / ModuleProcess.** Every operation holds the breaker's lock, so it is one action;
  `can_execute` takes it twice, so it is two in `ModuleProcess` (`Admit`, `Count`). The clock is one bit:
  has the time-out passed since the last failure. `_consecutive_failures` is counted up to the three at which
  the code looks at it.
* **FFmpegPool.** A caller computes its id before it calls `acquire` (`CallerIds`): `run_command` from the
  clock in milliseconds, the outputs from a segment number. A renamed entry is `<<id, k>>` with `k > 0`.
* **StreamInput.** FFmpeg and its files are the environment: `Produce` starts, finishes and numbers files,
  `Disturb` ends or hangs a process. `kind` picks the input, whose differences are guards and alternatives. A life
  has a watchdog thread of its own, because an old one may still be there. `raced` notes a purge that fell into a
  read, `lingered` a watchdog that outlived its join; properties the code keeps only without them say so.
* **StreamOutput.** `proto` picks RTMP or SRT. `overran` notes a stop in the middle of a write. A chunk is written
  whole or not at all.
* **LivePlaylist.** `stage` says how far a chunk is, `next` is the output frontier (chunks reach HLS in order,
  the generator in any order within `InFlight`). A mishap is one of ten named faults, at most `MaxMishaps` in a
  behaviour, remembered in `mishaps`, so that a property names the faults it excludes; `"jump"` joins them when the generator goes on without
  the numbers before. `wired` says whether the output knows the generator. A run of subtitles is written whole, or in part (`WriteRunInPart`). `Torn` is what a failed
  encode leaves under a segment's name.
* **RecordingOutput.** A recorded chunk is the pair of its life and its number. `met` notes a life that began before
  the join of the one before had ended: the two use the same names.
* **PlayerFeedback, Accounts, RequestLimits, HarnessLimit.** Time is a bounded clock that ticks; windows, cooldowns
  and expiries are compared as the code compares them, strictly or not.
* **Transcription, Translation.** A text is the language it is in, or a model value; the model is external and
  answers in the language it was called with. A call that timed out goes on and its result is dropped.
* **PiperSynthesis.** Manager, process and thread are numbered, so that a forgotten manager with a live process is
  there to be seen. The pipe is an inbox and an outbox; text 0 is a command that is no synthesis. `budget` bounds
  pings, breakages and late answers. `stop_heartbeat` waits five seconds for its thread, so that a thread in a long
  ping may live beside the one the next start makes: the model has one heartbeat of a manager and no property counts
  them.
* **AudioMixing.** A chunk is its life and number; `_prev_end_sample` is the chunk whose end is kept, `blend` the last
  pair that was cross-faded.
* **Configuration.** `memory`, `file` and `pipe` are the three copies, each reduced to the chunk duration, what is
  switched on and the outputs. `unsettled` notes that the last save failed or the last read gave the defaults, `behind` the parts of the pipeline (a module, the duration) that a
  request which failed half-way has left as they were. The hand-over is step by step, any of which may fail. The module starts from a file that
  the schema accepts, and the durations of the instance are of the schema.
* **Accounts.** The handlers never await, so each is one action. A password is right or wrong. `tries`, `exchanged`,
  `twice`, `remade`, `lost` are history.
* **HarnessAgents, HarnessFeatures.** A writer is a process that may die at any point; an open transaction rolls
  back. `legacy` is a row left under an id that is not normalised, which only `sanitize` touches. `untold` notes a status
  that no entry tells of. `entry` is the entry inserted last, by its number; what `get_audit_trail` lists first may be another (section 3). In `HarnessAgents`
  the rejections are the rows of `agent_feedback`, and `byHand` remembers the largest count of rounds that `agent task update` set.

## 3. What is checked

All instances are small in numbers and complete in behaviour: every action of every module fires in some
passing run. `tp_safety` and `up_concurrent`, which check safety only, exchange workers and clients by
symmetry. No passing run checks deadlock: each ends where a bound is reached (the chunks run out, the starts are used up,
the threads have exited); what must go on is a liveness property instead.

### Runs that pass

| Run | Question | Instance, and why it is enough |
|---|---|---|
| `tp_safety` | Is a chunk that was read in one place, are all counters right, and is `OrderedDelivery` implemented? | 2 workers, 3 chunks, queues of 1, the time-out elapsing at any time: 2 workers overtake each other, 3 chunks fill both queues and leave one to be dropped or lost |
| `tp_live` | Is every chunk that was queued passed, unless a number before it was dropped, and do the threads end after a stop? | 1 worker, 3 chunks: the smallest in which the chunk queue overflows |
| `up_lives` | Does the state tell the truth over several lives, does no start begin beside a stop, and does every request return? | 1 client each, 3 starts, everything that can fail or time out: the third life starts from whatever the first two can leave |
| `up_concurrent` | Whatever the interleaving, is one stop at a time in progress? | 2 clients each, 2 starts, both time-outs: two starts and two stops are each in every pair of positions |
| `co_lives` | If the worker ends within the join: is a stopped composite down, and is there one worker? In the first life: is a healthy output up, and has it one reconnection at most? | 2 outputs of which one is added later, 2 starts, 2 stops (also during an initialization), 2 failing writes, one `configure_outputs`, starts, initializations and configurations that fail, a writer that lingers beyond a stop. Of the last two questions, outputs whose error `configure_outputs` has cleared are excepted |
| `components` | Inputs: does no FFmpeg outlive the stop, is no file read twice or while it is written, does stream time advance, is a crash repaired or given up? Modules: does a module recover? Outputs: no stray process, and does SRT stream again? | One of the three components per behaviour (`subject`). Input: 3 kinds, 2 lives, 3 FFmpeg processes with 2 files each, 1 restart by the watchdog, time stamps that jump back, fit and jump ahead. Module: 2 threads, critical, threshold 3, 2 trial calls, 8 failures, which is two openings with some left. Streaming: RTMP and SRT, 2 lives, 5 FFmpeg processes, 2 retries |
| `services` | What the other sixteen components promise; one property each, two or three where there is more to say, none where the claim fails | One component per behaviour (`subject`), below |

The instances of `services`, in the order of `Services.cfg`:

| Component | Property | Instance |
|---|---|---|
| FFmpegPool | slots are neither lost nor invented | 3 callers on 2 slots with 2 shared ids, 1 shutdown: an id is held twice while a third caller waits |
| HarnessAgents | each round a task is charged with, beyond a count that was set by hand, stands for one rejection the builder was told of, however many verifications overlap | 2 processes, 2 tasks, 2 iterations, 2 rounds, 2 commands (a cycle with its hook and a verification beside it, or an update by hand), kills and completions at any point |
| HarnessFeatures | the audit entry inserted last leads to the status the feature has, unless a write that no entry tells of came after it: one without an agent, an upsert over a row it had not read, a row made anew, the row left under the old id | 2 writers, 3 writes, one row left under an old id, deletions, kills: a feature is written, deleted, made anew and written again by a writer that read it before |
| Accounts | logins look at no more than `MaxFailed` wrong passwords in a window, an accepted token carries the user's present role, a refresh token is exchanged once | 2 users, lock after 2 failures, 3 tokens, a clock of 2 ticks with an access life of 1 and a refresh life of 2: an access token is used before and after its expiry, a refresh token before it and at it; a behaviour ends with a restart that lost something, after which nothing is promised |
| RequestLimits | never more requests than the limit in any window | limit 2, window 3, purge every 3, a clock to 8: two windows and a purge between |
| HarnessLimit | no property: its promise does not hold, see below; `WindowNeverBegins` proves what does | 1 client, limit 2, window 2, a clock to 4 |
| LogStream | a connected client has each line, or it is on its way to it | 2 threads, 2 clients, a buffer of 1, 2 lines |
| Configuration | memory, file and each part of the running pipeline agree, but for what a failure has left behind | 2 durations of the schema, 1 stream, 1 preset, faults when saving, loading, reading presets and in one step of the hand-over to the pipeline, 3 requests: each pair of handlers in each order with a third to show what is left |
| PiperSynthesis | a chunk gets its own audio | 2 workers, a manager, 2 processes, a ping, one breakage; a behaviour ends with a command that timed out, after which nothing is promised |
| Transcription | a transcript is in the language it was asked for | 2 workers on one audio, 2 languages, 2 changes |
| Translation | the cache exceeds its size by the workers minus one at most | 2 workers, 3 texts, a cache of 1, 4 chunks: every store evicts |
| PlayerFeedback | one reduction of what was last set at most, none in force when nothing is reduced | chunks of 4 or 10 s, factor 2, 5 reports, saves or steps of the strategy, a clock to 5 with a recovery time of 3 |
| AudioMixing | a chunk is faded in over its predecessor only | 2 workers, 2 lives, 3 numbers |
| RecordingOutput | the joined recording is whole | 2 lives, 3 chunks; for a life that began after the join of the one before, and of a life whose FFmpeg did not finish only that nothing of another life is in it |
| LivePlaylist | subtitles in order; the playlist of subtitles shows the segments of video | 4 chunks, 2 lives, windows of 2 and 1, 3 in flight but 1 pending before a jump, so that workers get further ahead than the generator waits for, 2 mishaps of 10, an output that knows the generator or not |
| SerialStrategies | implements `OrderedDelivery` | 2 modules of which one is critical, 4 chunks, both modes |

Since `subject` is chosen once, the states of the components add up instead of multiplying: about 2.5 million
for `services` (its `VIEW` tells states apart by the component the behaviour is about, whose variables are the only
ones that change), 0.7 million for `components`. In place of a type invariant per component,
`ServicesTypeOK` joins those that state one.

### Runs that find a violation

Each is a claim of a doc, comment or test that the code does not keep; `PROJECT.json` quotes the claim.

| Run | Claim | What TLC shows |
|---|---|---|
| `up_f172` | a stop during initialization aborts the start | the stop sets an event that `initialize` has replaced or that `stop` has cleared again |
| `co_sentinel` | after a start a failing write schedules again | a left-over `None` ends the new worker at once |
| `fp_leak` | `release` frees the job's slot | with a duplicate id one release is unknown and the slot is gone |
| `recording` | `write` copies each chunk to a temporary directory | a life without chunks removes the directory and keeps its name, so the next life has none |
| `piper` | exactly one subprocess per voice | a load answered with an error leaves its process running, and the next load starts another |

### Disagreements the models contain without a run of their own

The models follow the code here too, and state their properties around these behaviours.

The pipeline:

* `core/pipeline/strategies.py:670`: a chunk that arrives after its skip stays in `pending`, which keeps the skip
  condition true: later numbers are skipped before they are read. `:602`, `:634`: each chunk that arrives, and each that is passed, starts the time-out anew, so that as long as chunks
  arrive more often than it lasts, one number that was dropped blocks the output for good (`EveryChunkPassed` excepts what waits behind it).
  The setting is documented as the seconds before a chunk is declared lost (`core/config_schema.py:478`).
* `core/pipeline/strategies.py:539`: workers that all saw one free slot process together above the target; `:433`: the
  target is read once, when the monitor starts, and restored to 4.
* `core/pipeline/strategies.py:788`: the asyncio loop never yields while the input has chunks, so tasks pile up; those
  left at the stop still run: they leave out the modules (`:849`), write the chunk as it was read to the sink and count it as processed.
  The semaphore meant to bound them is made anew for each task.
* `core/unified_pipeline.py:343`, `:386`: the checks of `start` are not atomic with `STARTING`, and `initialize` shows
  IDLE while a start is under way: two requests can start two generations of loops. `:469`: a loop that fails before
  `start` is over leads from ERROR to RUNNING. An illegal transition is logged and made.
* `core/unified_pipeline.py:493`: a stop in the ERROR state returns at once and the handler
  (`server/routes/pipeline.py:192`) sets idle with everything started. `:518`: `stop` clears the event before a slow loop
  has looked at it; `:520`: after 30 s the executor job goes on beside the next start.
* `core/circuit_breaker.py:93`: successes of one half-open period count in the next. `core/module_base.py:287`: retries go on
  after the failure that opened the circuit; the breaker survives a restart of the pipeline. `:197`, `:270`: a
  module switched off by `configure` is disabled, and no later `configure` takes it back; a start that failed
  leaves it disabled for every later life.
* `core/player_feedback.py:189`: a restoration counts the healthy time from the reduction, not from the last
  bad report; a reduction of the chunk never becomes one of both; a save of the configuration is not told to the
  monitor. No input has `set_chunk_duration` (`core/unified_pipeline.py:211`), so the reduction reaches none.
* `core/pipeline/strategies.py:645`: the strategy adapts its own copy of the chunk duration and overwrites the pipeline's, so a saved duration and
  a player's reduction last until the next adaptation; `core/unified_pipeline.py:376`: a life that starts while players hold
  the duration reduced takes the reduced one as its own and adapts from there, also after the restoration. `server/ws_routes.py:353`: a reduction
  that reads before an adaptation and writes after it undoes the adaptation.

Inputs and outputs:

* `modules/inputs/srt_input.py:573`: a file that is alone in the directory counts as finished, though FFmpeg may
  still write it.
* `core/chunk_clock.py:202` says that on a small or negative step of the time stamps consumers "will see the new chunk as starting slightly before the previous
  one". It starts `min_delta_s` after it (`:225`): what is lowered is the offset the next chunk would have had (`TimelineMovesOn`).
* `modules/outputs/srt_output.py:229`: "giving up" is logged and the error set, but the next chunk starts FFmpeg again, with the retries used up.
* `modules/outputs/composite_output.py:46` says that the lock protects outputs, errors and attempts; `configure_outputs` (`:93`) writes errors without it. It clears
  one whose reconnection is under way, so that the output is written to while it is down, and may fail and be scheduled a second time; a `configure` that raises leaves
  an error for which nothing is scheduled.
* `server/routes/outputs.py:173` with `core/unified_pipeline.py:177`: an output that is added while the pipeline is STARTING is started at once; if the initialization fails
  before the composite was started, the output is up and no stop comes for it (`core/unified_pipeline.py:493`).
* `modules/outputs/composite_output.py:202`: reconnections queued before a stop are executed after the next start;
  `:103`, `:228`: a worker that outlives the 2 s join may start an output after `stop` has returned and go on beside the
  next worker (`"worker_lingers"`); `:228`: an output removed while the worker restarts it is started again.
  Only an exception from `write` leads to a reconnection.
* `server/routes/outputs.py:173`: an output added while running whose start fails has no error and is never reconnected.
* `modules/outputs/rtmp_output.py:136` with `core/watchdog.py:275`: the restart callback stops the watchdog from its own thread,
  the join raises, the watchdog ends, and writes return silently from then on, where automatic restarts are
  promised (`core/watchdog.py:62`).
* `modules/subtitle_generator_pkg/__init__.py:243`: a chunk that never comes freezes the subtitles until the gap exceeds
  128, and what was buffered below the jump stays. `modules/outputs/hls_output.py`: segments are numbered by writes, subtitles by chunks, so
  a skipped chunk or a reconnection parts them; a stop empties the directory's name under a write (`:314`), which then goes to the
  working directory; between the trim and the new list, the old list names removed segments; fragments are never trimmed.
  Nothing bounds how far the workers get ahead of the output (`core/pipeline/strategies.py:590`), so the generator may jump over chunks that are only slow.
  A fragment that could be written only in part stays on the disk and is listed once the window asks for it, where "Files on disk always carry real content"
  (`modules/subtitle_generator_pkg/_fragment_writer.py:227`). An HLS output added by `POST /outputs` is not told of the generator (`core/app_context.py:146` does that
  for the outputs of the start), so `subs.m3u8` is not rewritten after its segments (`modules/outputs/hls_output.py:793`).
* `modules/outputs/recording_output.py`: two lives whose joins overlap use the same names. A join that is killed after five minutes (385), or
  ends in an error, leaves what it wrote at `output_path` under the name of a recording, removes the chunks it was made from (250-252), and the
  next join backs the part up as "Previous recording" (283).

Modules:

* `modules/transcriber.py`: a language changed between the key and the call stores the text under the wrong key; the time-out
  (`:205`) covers the call, not the decoding, which is lazy.
* `modules/translator.py:218`: source `auto` never translates; once a language was detected, later ones are
  ignored, and the next start tries the pair `auto` and disables the module. The cache knows the text only and survives a change of
  the language. The check and the store of its bound are separate.
* `modules/piper_loader.py`: a command that timed out leaves its answer in the pipe, so later chunks get the one before until a
  restart; a restart that races a stop starts an orphan.
* `modules/audio_mixer.py:182`: a start does not reset the last index, so after a restart nothing is cross-faded until the numbers
  pass the old ones, and the first that matches is blended with the end of the other life; a write that failed keeps an end that nobody hears.

Server and harness:

* `core/pipeline/pipeline_helpers.py:94`, `:103`, `:114`: a step of the hand-over that fails is logged and the request answers as if it had not; and a change
  whose save failed stays in memory, from where the next save of anything, of an output's for one, writes it to the file without giving it to the pipeline.
* A toggle that breaks a dependency is refused and leaves memory invalid, so that every later save fails and an output
  is reported as added though the file does not have it (`server/routes/outputs.py:57`); an unreadable file gives
  the defaults, which the next save writes over it; likewise the presets.
* `core/auth_db.py:600`: a wrong old password shown with a token of the account is not counted, locks nothing and is looked at on
  a locked account too, as often as the client likes (`core/auth_db.py:4` and the lock-out of F122 speak of logins); `:237`, `:285`: a
  file that cannot be read at the start counts as empty, and the next save writes over it.
* `server/ws_routes.py`: the replay and live lines may interleave, and two threads that trim the buffer together can lose a line from it.
* `harness/web/server.py:47`: the limiter promised as 120 requests a minute (`:9`) never forgets, so the 121st request of a client's
  life is refused and all after it; `HarnessLimit.RefusedOnlyTheBusy` states the promise.
* `harness/db.py:495`: two sanitizing processes can delete a feature: the second removes the row the first renamed.
  Verifications that overlap lose a round; `agent task update --iterations` (`harness/commands/agents.py:119`) sets any number of rounds.
* `harness/db.py:389`: the audit trail is listed by stamps in whole seconds that are taken before the transactions, so the entry listed first
  need not be the last one. A write whose agent is empty leaves none (`:231`, `:345`), which the web page may ask for; a field written to a
  feature that was deleted in between leaves one all the same; a deletion keeps the entries, and a feature made anew under the number has them.

### Fairness

Liveness assumes only what the scheduler gives: a thread that can take a step eventually does
(`WF` per thread), because every wait in these loops has a time-out, except a worker's put on a full output
queue, which is enabled only when there is room. Nothing is assumed of the lost-chunk time-out, which a steady stream of chunks
keeps from elapsing: no progress rests on a skip. Inputs need not yield chunks,
users need not call anything, FFmpeg need not fail or be repaired, and what a time-out guards (an initialization, a shutdown job) is not fair when
the instance lets it hang. In `components` the fairness of the three components is stated conjunct by conjunct over
the variables of all: the watchdog threads, a start or stop under way and the kill at its end for the inputs; chunks that keep
coming, attempts that end and time that passes for the module; writes that keep coming and monitors that look for the
streaming outputs. The services have safety properties only.

## 4. What is proved

Every safety property that a passing run checks is also a theorem: the invariants, the action properties and the refinements,
of each component by itself and of the compositions that the runs `services` and `components` check. TLC has them on small instances, TLAPS for every value of the constants that the
named assumptions allow. Each module that declares constants states its assumptions (`BoundsAssumption`, `PoolAssumption`,
`InputAssumption`, `LimitsAssumption`, `PiperAssumption` and so on); they say that bounds, sizes and delays are natural numbers, that sets
of threads are finite, that a limit or threshold of which the code reads a first element is not zero, that a cycle of the harness has
a round, and what the schema of the configuration asks of the values that come from there. The larger inductive invariants were checked with TLC before they were
proved; the arguments, component by component:

* **ThreadParallel**: `TypeCorrect`; `OutputIsOrdered`; `ImplementsOrderedDelivery`; `EachChunkInOnePlace`; `CountersAreRight`.
  `TypeOK` alone is not inductive: a worker at `"process"` must hold a chunk, so it is strengthened by `HoldersOK`.
  The order follows from the fact that `written` only grows by the current frontier: lemma `FrontierSteps` shows
  that no other thread touches it, `DeliverStep` what the output thread appends. `ChunkInOnePlace` counts places, which no
  step preserves directly, since a queue's positions shift; the inductive invariant `PlaceInv` says it with sets: the chunks
  that were read are the disjoint union (`Split`) of those at the input thread, in either queue, at a worker, pending, and
  ended, the queues hold no chunk twice and no two workers hold the same one. One lemma per step that moves a chunk shows which of the six sets
  it leaves and which it enters. The balance of `task_done` needs it: the chunk taken from the output queue is not already pending.
* **SerialStrategies**: `SerialImplementsOrderedDelivery`. The frontier is `Through`, the number of chunks that were processed or
  failed; `SerialInv` says that the one in hand is the next, and that the tasks that wait are the numbers from there to the last read,
  in line (`LinedUp`): without it nothing would say that the task that begins is the oldest. `SerialCountsStayInRange`: nothing is
  counted past what was read, because what is through, in hand and waiting are different chunks (`SerialBounds`).
* **UnifiedPipeline**: `TypeCorrect`; `StopIsExclusive`; `RunningPipelineIsBacked`; `IdlePipelineIsReleased`; `NoStartWhileStopping`.
  That event numbers stay in range needs `EventsCounted`: the events made, plus the starts that may still make one, never outnumber the starts.
  `NoStartWhileStopping` needs no condition: a job is at work only while its stop waits for it, which the guard of a start sees, or when the 30 seconds have given it up
  (`JobsAwaited`, `given_up`). The two before it follow from `OrderlyInv`. While the lives are orderly, one start at a time gets past its check and none during a
  stop, no thread outlives what waits for it, and when neither is under way the pipeline is idle and released or runs on one generation
  of loops (`Backed`). In between, `StartProgress`, `InitProgress` and `StopProgress` say at each point of a start, its initialization
  and a stop what is already up or down. `NewEventsClear` is needed because `initialize` makes an event: one that was not made yet is not set.
* **CompositeOutput**: `TypeCorrect`; `OneReconnectionEach`; `HealthyOutputsAreUp`; and, assuming `"worker_lingers" \notin Disturbances`,
  `StoppedStaysDown` and `ReconnectorIsUnique`. For those two the invariant is `WorkersJoined` (an alive worker is the current one of a composite that
  is up, or the one `stop` is waiting for) with `GoingDown` (from the flag on, what a worker is restarting is still
  on `stop`'s list or was removed). With `"worker_lingers"` both are false. For the other two it is `FirstInv`: in the first life the
  queue, the workers and the write under way hold at most one task of an output among them, and none of an output without an error, but for those whose error
  `configure_outputs` has cleared (`OneEach`); such an output is up, and so is one a worker has restarted and not marked yet (`HealthyInv`). That every output in the queue
  was once configured (`NamesKnown`) and that nothing precedes the first start (`BeforeStarts`) is what the steps need of one another.
  `FirstWorkerServes`: before the first `stop`, whatever is written, added and removed, the worker of a composite that is up lives, is not told to
  end and has no `None` in its queue (`Serving`): only a stop makes what the run `co_sentinel` shows.
* **CircuitBreaker, ModuleProcess**: `ClosedIsBelowThreshold`, `HalfOpenAdmitsAll` from `BreakerInv` (the counted
  trial calls never exceed the successes, which never reach the limit); `ImplementsBreaker`: every step of `process`
  is an operation of the breaker or leaves it alone; `NeverRestsInError`, because whoever sets the error state is
  on its way to `"degrade"`.
* **FFmpegPool**: `PoolTyped`, `NoSlotLostOrInvented`, `ConcurrencyLimit`, `OwnEntriesRun` from `PoolInv`. `AtMostMaxSizeRun` is not inductive, since
  a caller may release another caller's entry; `EntriesStandForRuns` says that until a shutdown there are
  at least as many entries as runs, whoever owns them. `DistinctIdsLoseNoSlot` has a hypothesis the code does not meet, that no two callers can
  come up with one id (`DistinctIds`); under it no entry is ever renamed (`NothingRenamed`) and a pool nobody uses has all its slots, which is
  the claim that `fp_leak` refutes: duplicate ids are all that is wrong with it.
* **StreamInput**: `NoFFmpegIsOrphaned`, `ChunksAreReadInOrder`, `TimelineMovesOn`. Two of the conditions are those of the properties: no
  watchdog has outlived its join, no purge fell into a read. `OneWatcher` says that the process that is alive is the one the input holds
  and its one watchdog watches; `LastRunsFiles` that the files on the disk are those of the FFmpeg started last, unfinished at the newest
  number at most; `ReaderSound` that what the reader knows of the directory stays true until it has delivered, which the order needs, since
  processes number their files from 0 again (`RunsInOrder` orders them first). The clock needs `ClockAgrees` only: the
  cumulative time is a chunk beyond the last offset.
* **StreamOutput**: `NoStreamIsLeft` from `Attended`: the process held is the one the watchdog watches, an SRT output streams exactly while it
  holds one, and a write that goes on after a broken pipe finds none alive.
* **Transcription**: `TranscriptLanguageIsConfigured`. A call's `during` always has the present language and the one the model was called with
  (`CallsAreCurrent`), and the cache holds under a key a transcript in the language of that key (`EntriesMatchKeys`), until a change falls
  between the two.
* **Translation**: `CacheStaysBounded`. The bound is inductive because it counts the workers that are about to store along with the entries: a
  worker comes to its store with an entry dropped or with one to spare.
* **PiperSynthesis**: `SynthesisTyped`, `TextGetsItsAudio`. The protocol has no request numbers, so that an answer is the right one is a fact about the
  pipe: while no command has timed out, a pipe carries nothing that leads to audio when nobody waits, and when somebody waits only the answer
  awaited, as a command or as an answer, behind nothing (`PipesInStep`). That needs `OneTalks`, whoever waits holds the lock of its
  manager and nobody else does, and `OwnProcesses`, no two managers share a subprocess. A command that timed out breaks it for
  good: its answer stays in the pipe. `VoiceHasOneProcess`: as long as no load fails, no subprocess dies and no command times out
  (`Intact`), a voice has one subprocess at most. Two things carry it. A load succeeds, because the subprocess of a manager that loads
  is out of reach of whoever is about to end one: its lock is held throughout, and what is being ended is older (`LoadsApart`). And a
  voice that has a manager is loaded, or somebody holds the load lock, or the engine was stopped or changed since (`VoicesApart`, with `NoneCurrent`
  for the last): so nobody makes a second one.
* **AudioMixing**: `CrossfadeIsRight`. What was blended last says nothing of the next blend; the invariant adds `KeptEnd`, that the end which
  is kept belongs to the chunk whose number is the last index, and `HoldsChunk`, that a worker past its first step holds one.
* **LivePlaylist**: `PlaylistsTyped`, `SubtitlesKeepOrder`, `PlaylistsShowTheSame`. `NumbersInv`: as long as every chunk reached the output with its file,
  the segment numbers are the chunk numbers. `SmoothInv`: without a mishap and before the generator ever jumps, it has all that is through the modules, in a
  fragment or behind a missing number, and no number is missing below the one the output is at (`GeneratorKeepsUp`). How far the workers are
  ahead is not assumed: a jump is noted among the mishaps. That the fragments ascend whatever could not be written is a fact about runs (`SomeOf`). What remains
  under each single mishap is proved with it, since the property states it.
* **RecordingOutput**: `RecordingTyped`, `RecordingsAreWhole`. If each join ends before the next life begins, a job that is pending has its list to
  itself: the files are on the disk and no write touches them (`JobsApart`); and a recording is the whole list of one job, or a part of it if that
  job is in `cut` (`RecordingsOfOneJob`).
  `RecordedDirectoryStays` holds with overlapping lives too: the directory is only removed by a life that has nothing on the disk or in a list
  and never started a job (`DirectoryInv`), so that what the run `recording` shows cannot happen after a chunk was copied.
* **PlayerFeedback**: `FeedbackIsTyped`, `ReductionsDoNotAddUp`. `OneReduction` is inductive together with what a reduction under way has read
  (`ReductionInv`): it is only made where nothing is reduced, so that it starts from nobody's reduction.
* **Configuration**: `ConfigurationSettles`. `SettledAgrees` with the shape of the three records (`SettledInv`): each handler has
  written what it left in memory, unless its save failed, and given the pipeline each part of it, unless that step failed (`HandedOver`).
* **Accounts**: `AccountsTyped`, `AcceptedTokenHasRole`, `RefreshTokensRotate`, `WrongPasswordsAreBounded`. Unless a restart lost something: a token as new as its
  user names the user's role (`TokensInv`: every change of a role makes the user newer); what was exchanged is blacklisted (`RotationInv`); what an
  account remembers of the attempts are the last ones, the forgotten ones are a window old, and an account at its limit is locked
  since its last attempt (`AttemptsInv`). The events still allowed bound the versions.
* **RequestLimits**: `NoWindowExceedsLimit`. What the window keeps of a client are the last requests that were let through, and those it no longer keeps
  are a window old (`WindowOf`), whoever dropped them, the next request or the purge. A window is written down as an index (from which
  position on it keeps the stamps), because filters of sequences are beyond the provers; the lemmas on windows serve `Accounts` too.
* **LogStream**: `ClientsMissNothing`. `Subscribed`: a client that is there is subscribed and no delivery takes it for dead, because whom a delivery found
  gone never connects again.
* **HarnessLimit**: `WindowNeverBegins`. The start of a window is read with the present time as its default and written only when a window that
  began has ended, so none ever begins (`NeverBegun`), and the count is that of all requests since the start.
* **HarnessAgents**: `AgentsTyped`, `NoRoundWithoutRejection`. That the pending rows of a phase are no more than the commands is no fact about a
  step but a count (`AgentCounts`): each command at work in a phase has a pending row there, and the rows of a phase and the commands
  at work elsewhere are together no more than the commands given. For the rounds: what a verification read of the rounds before its checks is no more than the rejections and the
  largest count set by hand (`RoundsDue`), and less by one
  once it has saved its own (`Charges`): hence an overlap loses rounds, and never adds one.
* **HarnessFeatures**: `FeaturesTyped`, `AuditTrailFollows`. `FeaturesInv` adds that a writer under way writes a status; a field write that names its
  agent sets the row and the entry in one transaction, so it mends whatever was untold before (`untold`).

* **The compositions.** `ServicesAreIndependent`: a behaviour of `MCServices` is one of each of its sixteen components, since a step of one leaves the
  variables of the others alone and each starts by itself; hence `ServicesAreTyped` and `ServicesKeepTheirPromises`, which are
  the theorems above, about the specification that the run checks. `ComponentsKeepTheirPromises` is the same for `MCComponents`, whose fairness, stated
  over the variables of all three, it does not need.

Four of the five claims that a run refutes have a theorem beside them, which says how much of the claim is true: `DistinctIdsLoseNoSlot` (`fp_leak`),
`FirstWorkerServes` (`co_sentinel`), `RecordedDirectoryStays` (`recording`) and `VoiceHasOneProcess` (`piper`); `WindowNeverBegins` says what
`HarnessLimit` does instead of its promise.

The types of each module, `OutputIsOrdered`, `ClosedIsBelowThreshold`, `HalfOpenAdmitsAll`, `ImplementsBreaker`, `NeverRestsInError`, `ConcurrencyLimit`,
`OwnEntriesRun` and the theorems of the last paragraph are proved though no run lists their properties by themselves; TLC agreed with each
before it was proved.

Only model-checked:

* all liveness (`EveryChunkPassed`, `ThreadsEnd`, `RequestsReturn`, `CrashIsRepaired`, `Recovers`, `SrtStreamsAgain`), since fairness and `ENABLED`
  are out of the prover's reach;
* the refuted claims, and that the instances reach what they are meant to.

The specifications contain no recursive definition, so induction over data does not arise.


## 5. Not modelled, and why

* **Data.** Content (audio, text, video), file formats, command lines, log messages and the validation of single fields. The models,
  FFmpeg and Piper's synthesis are external: they answer, fail or hang.
* **Code without a caller in the server.** `VideoMuxer`, the state manager, `PipelineManager` with its error handler and validator, the legacy
  pipelines (`core/pipeline.py`, `core/pipeline/{base,sequential,parallel,async_pipeline,factory}.py`), `MediaMTXManager`,
  `ProcessManager`, the preloading of the model cache, `split_mode` of the recording, the registry of breakers. Their behaviour can be read, but
  nothing says in what order they are used.
* **Webhooks.** Nothing starts the worker, so events are queued and never sent.
* **WebRTC and the file output.** The offer route answers 501, so the engine has no client; the file output copies each chunk.
* **The `/restart` handler**, which is a stop followed by a start as the clients of `UnifiedPipeline` already make them, and the setters of
  modules and priorities.
* **Of the harness**, sessions and progress entries: one row written once, but for `is_current`.
* **The rest.** Hardware probing, paths, logging and metrics; the server's wiring and warm-up; the CLI, the TUI and the web front end, which are clients of the
  HTTP API; headers, the size limit and CSRF, which keep no state.

## 6. What could be added

* Theorems: a `FirstLife` of `CompositeOutput` that ends with the first task carried into a later life instead of with the second
  `start`; `VoiceHasOneProcess` from the first load that fails on, for the managers made after it; the refutations as
  theorems that a behaviour exists.
* Instances: three workers in `tp_safety`; two workers in `tp_live`; two managers in `services`.
* Composition: `StreamInput` and `ThreadParallel` on one index, which today meet only in what each assumes of the other.
