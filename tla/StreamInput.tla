---------------------------- MODULE StreamInput ----------------------------
(***************************************************************************)
(* modules/inputs/: the SRT, RTMP and file inputs, with the FFmpeg process  *)
(* that cuts the stream into numbered files, the input thread that reads    *)
(* them, core/watchdog.py that restarts a failed FFmpeg, and                *)
(* core/chunk_clock.py that gives every chunk its place on the timeline.    *)
(*                                                                          *)
(* FFmpeg numbers its files from 0 whenever it is started, the input        *)
(* remembers the last number it has read, and the directory is purged on    *)
(* a restart: three pieces of state, changed by the thread that calls start *)
(* and stop, the watchdog's thread, the playback handlers and the reader,   *)
(* without a lock between them.                                             *)
(***************************************************************************)
EXTENDS Integers, FiniteSetsExt

CONSTANTS Kinds,         \* which of "srt", "rtmp", "file" an instance may be configured with
          MaxLives,      \* bound: calls of start()
          MaxRuns,       \* bound: FFmpeg processes started
          MaxIndex,      \* bound: the last file number of one process
          MaxRestarts,   \* the watchdog's max_restarts
          ChunkDuration, \* chunk_duration_sec, in ticks
          MinDelta,      \* ChunkClock's min_delta_s
          MaxMultiplier, \* ChunkClock's max_delta_multiplier
          Timestamps,    \* distances from one chunk's timestamp to the next, in ticks
          MaxCumulative, \* bound: the timeline modelled
          Disturbances   \* subset of {"spawn_fails", "watcher_lingers", "reconfigure"}

ASSUME InputAssumption ==
    /\ Kinds \subseteq {"srt", "rtmp", "file"}
    /\ {MaxLives, MaxRuns, MaxIndex, MaxRestarts, MaxCumulative, MinDelta} \subseteq Nat
    /\ {ChunkDuration, MaxMultiplier} \subseteq Nat \ {0}
    /\ MinDelta <= ChunkDuration * MaxMultiplier
    /\ Timestamps \subseteq Int

Runs  == 1..MaxRuns
Lives == 1..MaxLives
Index == 0..MaxIndex

VARIABLES
    kind,       \* the configured input type
    api,        \* the caller of start()/stop(): "down", "starting", "up", "joining"
    input_life,       \* how many start() calls there have been
    stopping,   \* the event _stopping
    handle,     \* _ffmpeg_proc: the run it names, 0 for None
    ffmpeg,     \* the FFmpeg processes: their state and the file each one writes
    files,      \* the chunk directory: which run wrote a file, and how far it is
    last_index,       \* _last_chunk_index
    watchdog,   \* _watchdog: the life it was made in, 0 for None
    watch,      \* the watchdog of each life and where its thread is
    restarting, \* _is_restarting
    paused,     \* FileInput._is_paused
    user,       \* the playback handler: "idle", "play" or "seek" once FFmpeg is stopped
    frozen,     \* FileInput._last_chunk_path: a file number, -1 for none
    reader,     \* the input thread: position, the files it listed, the one it chose
    clock,      \* ChunkClock: whether a chunk was recorded, and _cumulative
    got,        \* history: the last chunk delivered, with its offset
    raced,      \* history: a purge has happened inside a read of this life
    lingered    \* history: a watchdog's thread has outlived its join

fileVars  == <<handle, ffmpeg, files, last_index>>
apiVars   == <<kind, api, input_life, stopping>>
watchVars == <<watchdog, watch, restarting>>
userVars  == <<paused, user, frozen>>
readVars  == <<reader, clock, got>>
history   == <<raced, lingered>>
ivars == <<apiVars, fileVars, watchVars, userVars, readVars, history>>

Absent  == [run |-> 0, st |-> "absent"]
OnDisk(fs) == {i \in Index : fs[i].run # 0}
Alive(r) == r # 0 /\ ffmpeg[r].st \in {"alive", "stalled"}
Spawned  == {r \in Runs : ffmpeg[r].st # "none"}
NoClock  == [started |-> FALSE, cumulative |-> 0]
Nothing  == [run |-> 0, index |-> 0, st |-> "done", offset |-> 0]
FreshWatch == [pc |-> "loop", stop |-> FALSE, run |-> 0, hung |-> FALSE, ever |-> FALSE, restarts |-> 0]
IdleReader     == [pc |-> "idle", listed |-> {}, pick |-> 0]

InputTypeOK ==
    /\ kind \in Kinds
    /\ api \in {"down", "starting", "up", "joining"}
    /\ input_life \in 0..MaxLives
    /\ stopping \in BOOLEAN /\ restarting \in BOOLEAN /\ paused \in BOOLEAN
    /\ raced \in BOOLEAN /\ lingered \in BOOLEAN
    /\ handle \in Runs \cup {0}
    /\ ffmpeg \in [Runs -> [st : {"none", "alive", "stalled", "dead"}, at : Index]]
    /\ files \in [Index -> [run : Runs \cup {0}, st : {"absent", "empty", "partial", "done"}]]
    /\ last_index \in Index \cup {-1}
    /\ watchdog \in 0..MaxLives
    /\ watch \in [Lives -> [pc : {"none", "loop", "delay", "gap", "spawn", "ended"}, stop : BOOLEAN,
                            run : Runs \cup {0}, hung : BOOLEAN, ever : BOOLEAN,
                            restarts : 0..MaxRestarts]]
    /\ user \in {"idle", "play", "seek"}
    /\ frozen \in Index \cup {-1}
    /\ reader \in [pc : {"off", "idle", "listed", "open", "dead"}, listed : SUBSET Index, pick : Index]
    /\ clock \in [started : BOOLEAN, cumulative : Int]
    /\ got \in [run : Runs \cup {0}, index : Index, st : {"absent", "empty", "partial", "done"},
                offset : Int]

IInit ==
    /\ kind \in Kinds
    /\ api = "down" /\ input_life = 0 /\ stopping = FALSE
    /\ handle = 0
    /\ ffmpeg = [r \in Runs |-> [st |-> "none", at |-> 0]]
    /\ files = [i \in Index |-> Absent]
    /\ last_index = -1
    /\ watchdog = 0 /\ restarting = FALSE
    /\ watch = [l \in Lives |-> [FreshWatch EXCEPT !.pc = "none"]]
    /\ paused = TRUE /\ user = "idle" /\ frozen = -1
    /\ reader = [IdleReader EXCEPT !.pc = "off"]
    /\ clock = NoClock /\ got = Nothing
    /\ raced = FALSE /\ lingered = FALSE

----------------------------------------------------------------------------
(* FFmpeg.                                                                  *)

Kill(procs, r) == IF r = 0 THEN procs ELSE [procs EXCEPT ![r] = [st |-> "dead", at |-> 0]]

(* Popen: the lowest unused run; it opens its first file at once (-y, so an  *)
(* old file of that name is overwritten).                                   *)
NextRun == Min(Runs \ Spawned)
Launch(procs)  == [procs EXCEPT ![NextRun] = [st |-> "alive", at |-> 0]]
CanLaunch      == Runs \ Spawned # {}
Purged(kept)   == [[i \in Index |-> Absent] EXCEPT ![0] = kept]
FirstFile      == [run |-> NextRun, st |-> "empty"]

(* A purge while the reader is between its listing and its last look at the *)
(* file is what the history variable raced remembers.                       *)
Reading == reader.pc \in {"listed", "open"}

(* An output file that was purged under FFmpeg stays gone.                   *)
Produce(r) ==
    /\ ffmpeg[r].st = "alive"
    /\ LET i == ffmpeg[r].at
           mine == files[i].run = r
       IN  \/ /\ mine /\ files[i].st = "empty"
              /\ files' = [files EXCEPT ![i].st = "partial"]
              /\ ffmpeg' = ffmpeg
           \/ /\ mine => files[i].st = "partial"
              /\ i < MaxIndex
              /\ files' = [files EXCEPT ![i].st = IF mine THEN "done" ELSE @,
                                       ![i + 1] = [run |-> r, st |-> "empty"]]
              /\ ffmpeg' = [ffmpeg EXCEPT ![r].at = i + 1]
    /\ UNCHANGED <<apiVars, handle, last_index, watchVars, userVars, readVars, history>>

(* The source pauses and goes on, which only the SRT input can notice, or    *)
(* the process ends: a crash, a lost connection, or the end of the file.    *)
Disturb(r) ==
    /\ \/ ffmpeg[r].st = "alive" /\ kind = "srt"
          /\ ffmpeg' = [ffmpeg EXCEPT ![r].st = "stalled"]
       \/ ffmpeg[r].st = "stalled" /\ ffmpeg' = [ffmpeg EXCEPT ![r].st = "alive"]
       \/ Alive(r) /\ ffmpeg' = Kill(ffmpeg, r)
    /\ UNCHANGED <<apiVars, handle, files, last_index, watchVars, userVars, readVars, history>>

----------------------------------------------------------------------------
(* start() and stop(), from the pipeline.                                   *)

(* The process the input holds is ended and forgotten.                      *)
Release == ffmpeg' = Kill(ffmpeg, handle) /\ handle' = 0

(* FFmpegWatchdog.stop: the event is set; the caller then joins the thread.  *)
Told(ws) == IF watchdog = 0 THEN ws ELSE [ws EXCEPT ![watchdog].stop = TRUE]

(* start() up to the end of _ensure_stopped (srt) or of stop() (rtmp): the   *)
(* process and the watchdog that a previous life may have left are stopped. *)
(* A file input that is paused does not start FFmpeg at all.                *)
StartBegin ==
    /\ api = "down" /\ input_life < MaxLives
    /\ input_life' = input_life + 1
    /\ stopping' = FALSE
    /\ api' = "starting"
    /\ IF kind = "file" /\ paused THEN ffmpeg' = ffmpeg /\ handle' = 0 ELSE Release
    /\ watch' = Told(watch)
    /\ watchdog' = 0
    /\ UNCHANGED <<kind, files, last_index, restarting, userVars, readVars, history>>

(* The rest of start(): reset the index, purge, reset the clock and start    *)
(* FFmpeg.  Popen may raise; then start() raises and the pipeline does not   *)
(* run.                                                                     *)
Started(ws, wd) ==
    \/ /\ CanLaunch
       /\ files' = Purged(FirstFile)
       /\ handle' = NextRun /\ ffmpeg' = Launch(ffmpeg)
       /\ watch' = ws /\ watchdog' = wd
       /\ api' = "up" /\ reader' = IdleReader
    \/ /\ "spawn_fails" \in Disturbances
       /\ files' = Purged(Absent)
       /\ api' = "down"
       /\ UNCHANGED <<handle, ffmpeg, watchdog, watch, reader>>

StartSpawn(ws, wd) ==
    /\ api = "starting"
    /\ last_index' = -1 /\ clock' = NoClock
    /\ Started(ws, wd)
    /\ raced' = FALSE
    /\ UNCHANGED <<kind, input_life, stopping, restarting, userVars, got, lingered>>

SrtStart  == kind = "srt" /\ StartSpawn([watch EXCEPT ![input_life] = [FreshWatch EXCEPT !.run = NextRun]], input_life)
RtmpStart == kind = "rtmp" /\ StartSpawn(watch, 0)
FileStart == kind = "file" /\ ~paused /\ StartSpawn(watch, 0)
Start     == SrtStart \/ RtmpStart \/ FileStart

StartPaused ==
    /\ api = "starting" /\ kind = "file" /\ paused
    /\ api' = "up" /\ reader' = IdleReader
    /\ raced' = FALSE
    /\ UNCHANGED <<kind, input_life, stopping, fileVars, watchVars, userVars, clock, got, lingered>>

(* The pipeline joins its threads first, then calls stop(), which sets the   *)
(* event, tells the watchdog to end and joins its thread.                   *)
StopBegin ==
    /\ api = "up" /\ ~Reading
    /\ reader' = [IdleReader EXCEPT !.pc = "off"]
    /\ api' = "joining"
    /\ stopping' = TRUE
    /\ watch' = Told(watch)
    /\ UNCHANGED <<kind, input_life, fileVars, watchdog, restarting, userVars, clock, got, history>>

WatchEnded(w)       == w.pc \in {"none", "ended"}
WatcherGone(l) == \A k \in Lives : k = l => WatchEnded(watch[k])

(* join(timeout=5): the watch thread has ended, or it is given up.           *)
Joined_Not(l) == TRUE
Joined(l) == WatcherGone(l)

StopKill ==
    /\ api = "joining"
    /\ \/ Joined(watchdog) /\ lingered' = lingered
       \/ "watcher_lingers" \in Disturbances /\ lingered' = TRUE
    /\ watchdog' = 0
    /\ Release
    /\ api' = "down"
    /\ UNCHANGED <<kind, input_life, stopping, files, last_index, watch, restarting, userVars, readVars, raced>>

(* reconfigure() of a running pipeline with another chunk duration: the      *)
(* timeline starts again at 0, FFmpeg goes on as it was.                    *)
ReconfigureInput ==
    /\ "reconfigure" \in Disturbances /\ api = "up"
    /\ clock' = NoClock
    /\ UNCHANGED <<apiVars, fileVars, watchVars, userVars, reader, got, history>>

----------------------------------------------------------------------------
(* The watchdog's thread.                                                   *)

Ends(l)     == watch' = [watch EXCEPT ![l] = [FreshWatch EXCEPT !.pc = "ended"]]
Restarts(l) == watch' = [watch EXCEPT ![l].pc = "delay", ![l].restarts = @ + 1]
MayRestart_OneLess(l) == watch[l].restarts < MaxRestarts - 1
MayRestart(l) == watch[l].restarts < MaxRestarts

(* _check_health: a process that has exited is restarted, as often as        *)
(* max_restarts allows.  The loop looks at its stop event between checks.    *)
WatchLoopEnds(l) ==
    /\ watch[l].pc = "loop" /\ watch[l].stop
    /\ Ends(l)
    /\ UNCHANGED <<apiVars, fileVars, watchdog, restarting, userVars, readVars, history>>

WatchSeesCrash(l) ==
    /\ watch[l].pc = "loop" /\ ~watch[l].stop
    /\ watch[l].run # 0 /\ ~Alive(watch[l].run)
    /\ MayRestart(l) /\ Restarts(l)
    /\ UNCHANGED <<apiVars, fileVars, watchdog, restarting, userVars, readVars, history>>

(* No output for hang_timeout.  A process that has never delivered a chunk   *)
(* is waiting for its source and is left alone; another one is killed and   *)
(* restarted.                                                               *)
WatchSeesHang(l) ==
    /\ watch[l].pc = "loop" /\ ~watch[l].stop /\ ~watch[l].hung
    /\ watch[l].run # 0 /\ ffmpeg[watch[l].run].st = "stalled"
    /\ IF watch[l].ever
       THEN /\ ffmpeg' = Kill(ffmpeg, watch[l].run)
            /\ watch' = [watch EXCEPT ![l].hung = TRUE,
                                      ![l].pc = IF MayRestart(l) THEN "delay" ELSE "loop",
                                      ![l].restarts = IF MayRestart(l) THEN @ + 1 ELSE @]
       ELSE /\ watch' = [watch EXCEPT ![l].hung = TRUE]
            /\ ffmpeg' = ffmpeg
    /\ UNCHANGED <<apiVars, handle, files, last_index, watchdog, restarting, userVars, readVars, history>>

(* notify_activity, from the stderr monitor, for which any line counts, and  *)
(* from the reader, which also says that data has arrived.                  *)
Noted(w, data) == [w EXCEPT !.hung = FALSE, !.ever = @ \/ data]

MonitorNotes(l) ==
    /\ watch[l].hung /\ watchdog = l /\ handle # 0 /\ ffmpeg[handle].st = "alive"
    /\ watch' = [watch EXCEPT ![l] = Noted(@, FALSE)]
    /\ UNCHANGED <<apiVars, fileVars, watchdog, restarting, userVars, readVars, history>>

(* After restart_delay: the stop event once more, then _on_ffmpeg_restart,   *)
(* which refuses to run twice at a time, looks at _stopping, and kills what  *)
(* is left of the old process.  When it does nothing it returns normally,    *)
(* and the watchdog takes that for a restart.                               *)
BackToLoop(w) == [w EXCEPT !.pc = "loop", !.hung = FALSE]

Declines(l) == watch[l].stop \/ restarting \/ stopping

WatchWakes(l) ==
    /\ watch[l].pc = "delay"
    /\ IF Declines(l)
       THEN /\ watch' = [watch EXCEPT ![l] = IF watch[l].stop THEN [@ EXCEPT !.pc = "loop"] ELSE BackToLoop(@)]
            /\ UNCHANGED <<handle, ffmpeg, restarting>>
       ELSE /\ restarting' = TRUE
            /\ Release
            /\ watch' = [watch EXCEPT ![l].pc = "gap"]
    /\ UNCHANGED <<apiVars, files, last_index, watchdog, userVars, readVars, history>>

(* One second later: _stopping once more, then the index is reset and the    *)
(* directory purged (F185) ...                                              *)
AbortsRestart == stopping

WatchPurges(l) ==
    /\ watch[l].pc = "gap"
    /\ IF AbortsRestart
       THEN /\ watch' = [watch EXCEPT ![l] = BackToLoop(@)]
            /\ restarting' = FALSE
            /\ UNCHANGED <<last_index, files, raced>>
       ELSE /\ watch' = [watch EXCEPT ![l].pc = "spawn"]
            /\ last_index' = -1
            /\ files' = Purged(Absent)
            /\ raced' = (raced \/ Reading)
            /\ UNCHANGED restarting
    /\ UNCHANGED <<apiVars, handle, ffmpeg, watchdog, userVars, readVars, lingered>>

(* ... and the new process started and attached to the current watchdog,    *)
(* which need not be the one this thread belongs to.  An exception of Popen  *)
(* is logged; the watchdog takes the callback's return for a success.       *)
Attached(w, r) == [w EXCEPT !.run = r, !.hung = FALSE, !.ever = FALSE]

WatchSpawns(l) ==
    /\ watch[l].pc = "spawn"
    /\ restarting' = FALSE
    /\ \/ /\ CanLaunch
          /\ handle' = NextRun /\ ffmpeg' = Launch(ffmpeg)
          /\ files' = [files EXCEPT ![0] = FirstFile]
          /\ watch' = [k \in Lives |->
                          LET w == IF k = watchdog THEN Attached(watch[k], NextRun) ELSE watch[k]
                          IN  IF k = l THEN BackToLoop(w) ELSE w]
       \/ /\ "spawn_fails" \in Disturbances
          /\ watch' = [watch EXCEPT ![l] = BackToLoop(@)]
          /\ UNCHANGED <<handle, ffmpeg, files>>
    /\ UNCHANGED <<apiVars, last_index, watchdog, userVars, readVars, history>>

----------------------------------------------------------------------------
(* Playback of a file: the handlers run on the event loop and do not ask     *)
(* whether the pipeline runs.                                               *)

Pause ==
    /\ kind = "file" /\ user = "idle" /\ ~paused
    /\ paused' = TRUE
    /\ UNCHANGED <<apiVars, fileVars, watchVars, user, frozen, readVars, history>>

(* play() with a process resumes; without one it stops what runs and starts  *)
(* FFmpeg at the beginning.  seek() always does, at the new position.        *)
Play ==
    /\ kind = "file" /\ user = "idle" /\ input_life > 0
    /\ \/ handle # 0 /\ paused' = FALSE /\ user' = user
       \/ handle = 0 /\ paused' = paused /\ user' = "play"
    /\ UNCHANGED <<apiVars, fileVars, watchVars, frozen, readVars, history>>

Seek ==
    /\ kind = "file" /\ user = "idle" /\ input_life > 0
    /\ user' = "seek"
    /\ Release
    /\ UNCHANGED <<apiVars, files, last_index, watchVars, paused, frozen, readVars, history>>

PlaybackSpawn ==
    /\ user # "idle" /\ CanLaunch
    /\ user' = "idle"
    /\ paused' = IF user = "play" THEN FALSE ELSE paused
    /\ last_index' = -1
    /\ files' = Purged(FirstFile)
    /\ handle' = NextRun /\ ffmpeg' = Launch(ffmpeg)
    /\ clock' = NoClock
    /\ raced' = (raced \/ Reading)
    /\ UNCHANGED <<apiVars, watchVars, frozen, reader, got, lingered>>

----------------------------------------------------------------------------
(* get_next_chunk(), in the input thread.                                   *)

(* The directory is listed; the newest file may still be written and is left *)
(* out.  The SRT input takes a single file when it has not been written for  *)
(* half a chunk's duration, that is, when its writer has stalled or ended.   *)
Quiet(i) == ffmpeg[files[i].run].st # "alive"
AllButNewest(all) == {i \in all : \E j \in all : i < j}
SrtTakes(all) == IF Cardinality(all) = 1 /\ \A i \in all : Quiet(i) THEN all ELSE AllButNewest(all)

ReaderLists ==
    /\ reader.pc = "idle" /\ api = "up" /\ ~(kind = "file" /\ paused)
    /\ LET all == OnDisk(files)
           taken == IF kind = "srt" THEN SrtTakes(all) ELSE AllButNewest(all)
       IN  /\ taken # {}
           /\ reader' = [reader EXCEPT !.pc = "listed", !.listed = taken]
    /\ UNCHANGED <<apiVars, fileVars, watchVars, userVars, clock, got, history>>

(* The oldest unread one is chosen and remembered as read.  The SRT input    *)
(* looks at the size of each and passes over empty ones; a file that is gone *)
(* by then raises, and the input thread ends.                               *)
Unread_AndLast(i) == i >= last_index
Unread(i) == i > last_index

ReaderPicks ==
    /\ reader.pc = "listed"
    /\ LET unread == {i \in reader.listed : Unread(i)}
           empty  == IF kind = "srt" THEN {i \in unread : files[i].st = "empty"} ELSE {}
           usable == unread \ empty
       IN  IF kind = "srt" /\ \E i \in unread : files[i] = Absent
           THEN /\ reader' = [IdleReader EXCEPT !.pc = "dead"]
                /\ UNCHANGED <<last_index, frozen>>
           ELSE IF usable = {}
           THEN /\ reader' = IdleReader
                /\ last_index' = IF empty = {} THEN last_index ELSE Max(empty)
                /\ UNCHANGED frozen
           ELSE /\ reader' = [reader EXCEPT !.pc = "open", !.pick = Min(usable)]
                /\ last_index' = Min(usable)
                /\ frozen' = IF kind = "file" THEN Min(usable) ELSE frozen
    /\ UNCHANGED <<apiVars, handle, ffmpeg, files, watchVars, paused, user, clock, got, history>>

(* ChunkClock._record_timestamp: the distance to the previous timestamp,     *)
(* clamped, corrects the running offset; the first chunk only starts it.     *)
Clamped_NoFloor(d) == Min({d, ChunkDuration * MaxMultiplier})
Clamped(d) == Max({MinDelta, Min({d, ChunkDuration * MaxMultiplier})})
Snapshot(d) ==
    IF clock.started THEN clock.cumulative + Clamped(d) - ChunkDuration ELSE clock.cumulative
Recorded(d) == [started |-> TRUE, cumulative |-> Snapshot(d) + ChunkDuration]

(* The file is opened for its time stamp; if it is gone, stat() raises (srt, *)
(* rtmp).  The file input hands the path on without a look.  A delivered     *)
(* chunk tells the watchdog that data has arrived.                          *)
ReaderDelivers ==
    /\ reader.pc = "open"
    /\ IF kind # "file" /\ files[reader.pick] = Absent
       THEN /\ reader' = [IdleReader EXCEPT !.pc = "dead"]
            /\ UNCHANGED <<clock, got, watch>>
       ELSE /\ \E d \in IF kind = "file" THEN {ChunkDuration} ELSE Timestamps :
                 /\ Snapshot(d) + ChunkDuration <= MaxCumulative
                 /\ clock' = Recorded(d)
                 /\ got' = [run |-> files[reader.pick].run, index |-> reader.pick,
                            st |-> files[reader.pick].st, offset |-> Snapshot(d)]
            /\ reader' = IdleReader
            /\ watch' = IF watchdog = 0 THEN watch
                        ELSE [watch EXCEPT ![watchdog] = Noted(@, TRUE)]
    /\ UNCHANGED <<apiVars, fileVars, watchdog, restarting, userVars, history>>

(* While a file is paused its last chunk is delivered again and again, if    *)
(* there is still a file of that name; nothing else changes.                *)
ReaderRepeats ==
    /\ reader.pc = "idle" /\ api = "up" /\ kind = "file" /\ paused
    /\ frozen # -1 /\ files[frozen] # Absent
    /\ got' = [got EXCEPT !.run = files[frozen].run, !.index = frozen, !.st = files[frozen].st]
    /\ UNCHANGED <<apiVars, fileVars, watchVars, userVars, reader, clock, history>>

----------------------------------------------------------------------------
WatchStep(l) ==
    \/ WatchLoopEnds(l) \/ WatchSeesCrash(l) \/ WatchSeesHang(l)
    \/ WatchWakes(l) \/ WatchPurges(l) \/ WatchSpawns(l)

INext ==
    \/ StartBegin \/ Start \/ StartPaused \/ StopBegin \/ StopKill \/ ReconfigureInput
    \/ \E r \in Runs : Produce(r) \/ Disturb(r)
    \/ \E l \in Lives : MonitorNotes(l) \/ WatchStep(l)
    \/ Pause \/ Play \/ Seek \/ PlaybackSpawn
    \/ ReaderLists \/ ReaderPicks \/ ReaderDelivers \/ ReaderRepeats

(* Every thread that can go on does; FFmpeg, its source and the users need   *)
(* not do anything.                                                         *)
IFairness ==
    /\ \A l \in Lives : WF_ivars(WatchStep(l))
    /\ WF_ivars(Start) /\ WF_ivars(StopKill)

ISpec == IInit /\ [][INext]_ivars /\ IFairness

----------------------------------------------------------------------------
(* Correctness.                                                             *)

(* Whatever the watchdog does, at most one FFmpeg runs, and it is the one the *)
(* input holds and a running watchdog watches: nothing else would stop it.   *)
(* So none is left once stop() has returned.  Excepted are a watchdog that   *)
(* outlived its join, and the playback handlers of a file, which start        *)
(* FFmpeg in any state of the pipeline.                                      *)
NoOrphan ==
    /\ InputTypeOK
    /\ ~lingered /\ kind # "file" =>
        /\ \A r \in Runs : Alive(r) => r = handle
        /\ \A l \in Lives : ~WatchEnded(watch[l]) /\ Alive(handle) => watch[l].run = handle
        /\ api = "down" => handle = 0

(* Within a life the chunks are delivered in order, each one once, the files *)
(* of a restarted FFmpeg after those of the one before; an unfinished one is  *)
(* only ever the first of an SRT process; and no file disappears under the   *)
(* reader, which would end the input thread - unless a purge falls into a     *)
(* read or a watchdog has outlived its life.                                 *)
Newer(a, b)  == a.run > b.run \/ (a.run = b.run /\ a.index > b.index)
ReadsAreSound ==
    [][~raced /\ ~lingered =>
        /\ reader'.pc # "dead"
        /\ got' # got /\ kind # "file" =>
               /\ Newer(got', got)
               /\ got'.st # "done" => kind = "srt" /\ got'.index = 0]_ivars

(* Whatever the time stamps say - a source that jumps back, a restart that   *)
(* begins again at 0 - each chunk of a life starts at least MinDelta after   *)
(* the one before it, so never before it, and not further than the           *)
(* multiplier allows, unless the duration was reconfigured or a file was     *)
(* started anew.                                                            *)
TimelineAdvances ==
    [][clock.started /\ clock' # clock /\ clock' # NoClock
       => LET step == got'.offset - got.offset
          IN  MinDelta <= step /\ step <= ChunkDuration * MaxMultiplier]_ivars

(* An SRT input whose FFmpeg has ended gets a new one, until its restarts    *)
(* are used up (or the model's processes are).                               *)
CrashIsRepaired ==
    (kind = "srt" /\ api = "up" /\ handle # 0 /\ ~Alive(handle))
        ~> (api # "up" \/ ~CanLaunch \/ Alive(handle) \/ watch[input_life].restarts = MaxRestarts)
=============================================================================
