--------------------------- MODULE Streams_proofs ---------------------------
(***************************************************************************)
(* Theorems about the two ends of the pipeline: the stream inputs with     *)
(* their FFmpeg processes, watchdogs and chunk clock, and the streaming    *)
(* outputs; and about their composition with a module behind its breaker.  *)
(***************************************************************************)
EXTENDS MCComponents, ModuleProcess_proofs, FiniteSetTheorems, WellFoundedInduction, TLAPS

-----------------------------------------------------------------------------
(* Stream inputs. *)

(* Without a watchdog that outlives its join, and for the inputs that have no
   playback: the only watch thread alive is the current one, and while it replaces
   FFmpeg the input holds none. *)
OneWatcher ==
    /\ user = "idle"
    /\ \A r \in Runs : Alive(r) => r = handle
    /\ \A l \in Lives : ~WatchEnded(watch[l]) =>
          /\ l = watchdog /\ api \in {"up", "joining"}
          /\ watch[l].pc \in {"gap", "spawn"} => handle = 0
          /\ Alive(handle) => watch[l].run = handle
    /\ api \in {"down", "starting"} => handle = 0

(* The files on the disk are those of the last FFmpeg started, from number 0 on;
   only the newest may be unfinished, and it is the one the process writes. *)
LastRunsFiles ==
    /\ \A i \in OnDisk(files) :
          /\ files[i].run \in Spawned /\ \A k \in Spawned : k <= files[i].run
          /\ 0 \in OnDisk(files)
          /\ \A j \in OnDisk(files) : i < j => files[i].st = "done"
    /\ \A r \in Runs : Alive(r) =>
          /\ files[ffmpeg[r].at].run = r
          /\ \A i \in OnDisk(files) : i <= ffmpeg[r].at
    /\ \A l \in Lives : watch[l].pc = "spawn" => OnDisk(files) = {}

(* A file the reader may deliver. *)
Readable(i) == i \in OnDisk(files) /\ (files[i].st = "done" \/ (kind = "srt" /\ i = 0))

(* What the reader knows of the directory stays true until it has delivered. *)
ReaderSound ==
    /\ got.run \in Spawned \cup {0}
    /\ reader.pc # "dead"
    /\ \A i \in OnDisk(files) : files[i].run = got.run => got.index <= last_index
    /\ reader.pc = "listed" => \A i \in reader.listed : Readable(i)
    /\ reader.pc = "open" =>
         /\ Readable(reader.pick) /\ reader.pick = last_index
         /\ files[reader.pick].run = got.run => got.index < reader.pick

ReaderOff == /\ api # "up" => reader.pc = "off"
             /\ reader.pc = "dead" => kind # "file"

(* The processes are started in the order of their numbers. *)
RunsInOrder ==
    /\ handle \in Spawned \cup {0}
    /\ \A k \in Spawned, j \in Runs : j < k => j \in Spawned

InputInv ==
    /\ InputTypeOK /\ ReaderOff /\ RunsInOrder
    /\ ~lingered /\ kind # "file" => /\ OneWatcher /\ LastRunsFiles
                                     /\ got.run \in Spawned \cup {0}
                                     /\ ~raced => ReaderSound

ClockAgrees == clock.started => clock.cumulative = got.offset + ChunkDuration

LEMMA InputNat ==
    /\ MaxLives \in Nat /\ MaxRuns \in Nat /\ MaxIndex \in Nat /\ MaxRestarts \in Nat
    /\ MaxCumulative \in Nat
    /\ ChunkDuration \in Nat \ {0} /\ MinDelta \in Nat /\ MaxMultiplier \in Nat \ {0}
    /\ ChunkDuration * MaxMultiplier \in Nat
    /\ MinDelta <= ChunkDuration * MaxMultiplier /\ Timestamps \subseteq Int
    /\ Kinds \subseteq {"srt", "rtmp", "file"}
  BY InputAssumption

(* A set of naturals has a least element. *)
LEMMA LeastOf ==
    ASSUME NEW T \in SUBSET Nat, T # {}
    PROVE  \E m \in T : \A k \in T : m <= k
<1> DEFINE R == OpToRel(<, Nat)
<1>1. IsWellFoundedOn(R, Nat)
  BY NatLessThanWellFounded
<1>2. \E x \in T : \A y \in T : ~(<<y, x>> \in R)
  <2> HIDE DEF R
  <2> QED  BY <1>1, WFMin
<1>3. \A x, y \in T : ~(<<y, x>> \in R) => x <= y
  BY DEF OpToRel
<1>. QED  BY <1>2, <1>3

LEMMA MinOf ==
    ASSUME NEW T \in SUBSET Nat, T # {}
    PROVE  Min(T) \in T /\ \A k \in T : Min(T) <= k
<1>1. \E m \in T : \A k \in T : m <= k
  BY LeastOf
<1>. QED  BY <1>1 DEF Min

LEMMA MaxOf ==
    ASSUME NEW T \in SUBSET Index, T # {}
    PROVE  Max(T) \in T /\ \A k \in T : k <= Max(T)
<1> DEFINE U == {MaxIndex - i : i \in T}
<1>0. MaxIndex \in Nat /\ \A i \in T : i \in Nat /\ i <= MaxIndex /\ MaxIndex - i \in Nat
  BY InputNat DEF Index
<1>1. U \in SUBSET Nat /\ U # {}
  BY <1>0
<1>2. PICK m \in U : \A k \in U : m <= k
  <2> HIDE DEF U
  <2> QED  BY <1>1, LeastOf
<1>3. PICK i \in T : m = MaxIndex - i
  BY <1>2
<1>4. \A k \in T : MaxIndex - k \in U
  OBVIOUS
<1>5. \A k \in T : k <= i
  <2> HIDE DEF U
  <2> SUFFICES ASSUME NEW k \in T PROVE k <= i
    OBVIOUS
  <2>1. m <= MaxIndex - k
    BY <1>2, <1>4
  <2>. QED  BY <1>0, <1>3, <2>1
<1>. QED  BY <1>3, <1>5 DEF Max

LEMMA MinOfPair == \A a, b \in Int : Min({a, b}) = IF a <= b THEN a ELSE b
<1> SUFFICES ASSUME NEW a \in Int, NEW b \in Int PROVE Min({a, b}) = IF a <= b THEN a ELSE b
  OBVIOUS
<1>1. Min({a, b}) \in {a, b} /\ \A k \in {a, b} : Min({a, b}) <= k
  BY DEF Min
<1>. QED  BY <1>1

LEMMA MaxOfPair == \A a, b \in Int : Max({a, b}) = IF a >= b THEN a ELSE b
<1> SUFFICES ASSUME NEW a \in Int, NEW b \in Int PROVE Max({a, b}) = IF a >= b THEN a ELSE b
  OBVIOUS
<1>1. Max({a, b}) \in {a, b} /\ \A k \in {a, b} : Max({a, b}) >= k
  BY DEF Max
<1>. QED  BY <1>1

(* Popen takes the next free number. *)
LEMMA NextIsFree ==
    ASSUME CanLaunch
    PROVE  NextRun \in Runs \ Spawned /\ \A k \in Runs \ Spawned : NextRun <= k
<1>1. Runs \ Spawned \in SUBSET Nat
  BY DEF Runs
<1>. QED  BY <1>1, MinOf DEF CanLaunch, NextRun

Processes == [Runs -> [st : {"none", "alive", "stalled", "dead"}, at : Index]]
Directory == [Index -> [run : Runs \cup {0}, st : {"absent", "empty", "partial", "done"}]]
Watch == [pc : {"none", "loop", "delay", "gap", "spawn", "ended"}, stop : BOOLEAN,
          run : Runs \cup {0}, hung : BOOLEAN, ever : BOOLEAN, restarts : 0 .. MaxRestarts]
Watches == [Lives -> Watch]
Readers == [pc : {"off", "idle", "listed", "open", "dead"}, listed : SUBSET Index, pick : Index]

LEMMA KillTyped ==
    ASSUME NEW ps \in Processes, NEW r \in Runs \cup {0}
    PROVE  /\ Kill(ps, r) \in Processes
           /\ \A k \in Runs : Kill(ps, r)[k] = IF k = r THEN [st |-> "dead", at |-> 0]
                                                          ELSE ps[k]
<1>1. [st |-> "dead", at |-> 0] \in [st : {"none", "alive", "stalled", "dead"}, at : Index]
  BY InputNat DEF Index
<1>. QED  BY <1>1 DEF Kill, Processes, Runs

\* Killing a process now leaves every other process as it was.
LEMMA KilledNow ==
    ASSUME ffmpeg \in Processes, NEW r \in Runs \cup {0}, ffmpeg' = Kill(ffmpeg, r)
    PROVE  \A k \in Runs : ffmpeg'[k] = IF k = r THEN [st |-> "dead", at |-> 0] ELSE ffmpeg[k]
<1>1. \A k \in Runs : Kill(ffmpeg, r)[k] = IF k = r THEN [st |-> "dead", at |-> 0] ELSE ffmpeg[k]
  BY KillTyped
<1>. QED  BY <1>1

LEMMA LaunchTyped ==
    ASSUME NEW ps \in Processes, CanLaunch
    PROVE  /\ Launch(ps) \in Processes /\ FirstFile.run = NextRun /\ FirstFile.st = "empty"
           /\ FirstFile \in [run : Runs \cup {0}, st : {"absent", "empty", "partial", "done"}]
           /\ \A k \in Runs : Launch(ps)[k] = IF k = NextRun THEN [st |-> "alive", at |-> 0]
                                                               ELSE ps[k]
<1>1. [st |-> "alive", at |-> 0] \in [st : {"none", "alive", "stalled", "dead"}, at : Index]
  BY InputNat DEF Index
<1>2. NextRun \in Runs
  BY NextIsFree
<1>. QED  BY <1>1, <1>2 DEF Launch, Processes, FirstFile

LEMMA PurgedTyped ==
    ASSUME NEW kept \in [run : Runs \cup {0}, st : {"absent", "empty", "partial", "done"}]
    PROVE  /\ Purged(kept) \in Directory
           /\ \A i \in Index : Purged(kept)[i] = IF i = 0 THEN kept ELSE Absent
<1>1. 0 \in Index /\ Absent \in [run : Runs \cup {0}, st : {"absent", "empty", "partial", "done"}]
  BY InputNat DEF Index, Absent
<1>. QED  BY <1>1 DEF Purged, Directory

LEMMA AbsentTyped == /\ Absent \in [run : Runs \cup {0}, st : {"absent", "empty", "partial", "done"}]
                     /\ Absent.run = 0
  BY DEF Absent

LEMMA FreshWatchTyped ==
    \A r \in Runs \cup {0}, at \in {"none", "loop", "delay", "gap", "spawn", "ended"} :
        /\ [FreshWatch EXCEPT !.run = r] \in Watch
        /\ [FreshWatch EXCEPT !.pc = at] \in Watch
<1>1. 0 \in 0 .. MaxRestarts
  BY InputNat
<1>2. FreshWatch \in Watch
  BY <1>1 DEF FreshWatch, Watch
<1>. QED  BY <1>2 DEF Watch

LEMMA ToldTyped ==
    ASSUME NEW ws \in Watches, watchdog \in 0 .. MaxLives
    PROVE  /\ Told(ws) \in Watches
           /\ \A l \in Lives : Told(ws)[l].pc = ws[l].pc /\ Told(ws)[l].run = ws[l].run
<1>1. CASE watchdog = 0
  BY <1>1 DEF Told
<1>2. CASE watchdog # 0
  <2>1. watchdog \in Lives
    BY <1>2, InputNat DEF Lives
  <2>2. [ws[watchdog] EXCEPT !.stop = TRUE] \in Watch
    BY <2>1 DEF Watches, Watch
  <2>3. Told(ws) = [ws EXCEPT ![watchdog] = [ws[watchdog] EXCEPT !.stop = TRUE]]
    BY <1>2 DEF Told
  <2>. QED  BY <2>1, <2>2, <2>3 DEF Watches, Watch
<1>. QED  BY <1>1, <1>2

LEMMA NotedTyped ==
    \A w \in Watch, data \in BOOLEAN :
       /\ Noted(w, data) \in Watch /\ Noted(w, data).pc = w.pc /\ Noted(w, data).run = w.run
  BY DEF Noted, Watch

LEMMA BackTyped ==
    \A w \in Watch : /\ BackToLoop(w) \in Watch /\ BackToLoop(w).pc = "loop"
                     /\ BackToLoop(w).run = w.run
  BY DEF BackToLoop, Watch

LEMMA AttachedTyped ==
    \A w \in Watch, r \in Runs : /\ Attached(w, r) \in Watch /\ Attached(w, r).run = r
                                 /\ Attached(w, r).pc = w.pc
  BY DEF Attached, Watch

(* The types, grouped by the variables that change together. *)
InputTypes ==
    /\ kind \in Kinds /\ api \in {"down", "starting", "up", "joining"}
    /\ input_life \in 0 .. MaxLives
    /\ stopping \in BOOLEAN /\ restarting \in BOOLEAN /\ paused \in BOOLEAN
    /\ raced \in BOOLEAN /\ lingered \in BOOLEAN
    /\ handle \in Runs \cup {0} /\ ffmpeg \in Processes /\ files \in Directory
    /\ last_index \in Index \cup {-1} /\ watchdog \in 0 .. MaxLives /\ watch \in Watches
    /\ user \in {"idle", "play", "seek"} /\ frozen \in Index \cup {-1}
    /\ reader \in Readers /\ clock \in [started : BOOLEAN, cumulative : Int]
    /\ got \in [run : Runs \cup {0}, index : Index, st : {"absent", "empty", "partial", "done"},
                offset : Int]

LEMMA SameTypes == InputTypeOK <=> InputTypes
  BY DEF InputTypeOK, InputTypes, Processes, Directory, Watches, Watch, Readers

LEMMA SameTypesNext == InputTypeOK' <=> InputTypes'
  BY DEF InputTypeOK, InputTypes, Processes, Directory, Watches, Watch, Readers

LEMMA IdleReaderTyped ==
    \A at \in {"off", "idle", "listed", "open", "dead"} :
       IdleReader \in Readers /\ [IdleReader EXCEPT !.pc = at] \in Readers
  BY InputNat DEF IdleReader, Readers, Index

LEMMA NoClockTyped == NoClock \in [started : BOOLEAN, cumulative : Int]
  BY DEF NoClock

LEMMA InputInitTypes == IInit => InputTypes
<1> SUFFICES ASSUME IInit PROVE InputTypes
  OBVIOUS
<1>1. ffmpeg \in Processes /\ files \in Directory
  BY InputNat, AbsentTyped DEF IInit, Processes, Directory, Index
<1>2. watch \in Watches
  BY FreshWatchTyped DEF IInit, Watches
<1>3. reader \in Readers /\ clock \in [started : BOOLEAN, cumulative : Int]
  BY IdleReaderTyped, NoClockTyped DEF IInit
<1>4. got \in [run : Runs \cup {0}, index : Index, st : {"absent", "empty", "partial", "done"},
                offset : Int]
  BY InputNat DEF IInit, Nothing, Index
<1>5. /\ stopping \in BOOLEAN /\ restarting \in BOOLEAN /\ paused \in BOOLEAN
      /\ raced \in BOOLEAN /\ lingered \in BOOLEAN
  BY DEF IInit
<1>. QED  BY <1>1, <1>2, <1>3, <1>4, <1>5, InputNat DEF IInit, InputTypes

(* The process the input holds is ended and forgotten. *)
LEMMA ReleaseTyped ==
    ASSUME InputTypes, Release
    PROVE  /\ ffmpeg' \in Processes /\ handle' = 0
           /\ \A k \in Runs : ffmpeg'[k] = IF k = handle THEN [st |-> "dead", at |-> 0] ELSE ffmpeg[k]
  BY KillTyped DEF Release, InputTypes

LEMMA ApiTypes ==
    ASSUME InputTypes, StartBegin \/ Start \/ StartPaused \/ StopBegin \/ StopKill \/ ReconfigureInput
    PROVE  InputTypes'
<1> USE DEF InputTypes
<1>1. CASE StartBegin
  <2>1. ffmpeg' \in Processes /\ handle' \in Runs \cup {0}
    BY <1>1, ReleaseTyped DEF StartBegin
  <2>2. watch' \in Watches
    BY <1>1, ToldTyped DEF StartBegin
  <2>3. input_life' \in 0 .. MaxLives
    BY <1>1, InputNat DEF StartBegin
  <2>4. stopping' = FALSE /\ watchdog' = 0 /\ api' = "starting" /\ 0 \in 0 .. MaxLives
    BY <1>1, InputNat DEF StartBegin
  <2>5. UNCHANGED <<kind, files, last_index, restarting, userVars, readVars, history>>
    BY <1>1 DEF StartBegin
  <2>. QED  BY <2>1, <2>2, <2>3, <2>4, <2>5 DEF userVars, readVars, history
<1>2. CASE Start
  <2>1. PICK ws, wd : /\ StartSpawn(ws, wd)
                      /\ \/ ws = watch /\ wd = 0
                         \/ /\ ws = [watch EXCEPT ![input_life] = [FreshWatch EXCEPT !.run = NextRun]]
                            /\ wd = input_life
    BY <1>2 DEF Start, SrtStart, RtmpStart, FileStart
  <2>2. last_index' = -1 /\ clock' = NoClock /\ Started(ws, wd) /\ raced' = FALSE
        /\ UNCHANGED <<kind, input_life, stopping, restarting, userVars, got, lingered>>
    BY <2>1 DEF StartSpawn
  <2>3. CASE CanLaunch /\ files' = Purged(FirstFile)
       /\ handle' = NextRun /\ ffmpeg' = Launch(ffmpeg)
       /\ watch' = ws /\ watchdog' = wd
       /\ api' = "up" /\ reader' = IdleReader
    <3>1. NextRun \in Runs
      BY <2>3, NextIsFree
    <3>2. files' \in Directory /\ ffmpeg' \in Processes
      BY <2>3, LaunchTyped, PurgedTyped
    <3>3. ws \in Watches
      <4>1. [FreshWatch EXCEPT !.run = NextRun] \in Watch
        BY <3>1, FreshWatchTyped
      <4>. QED  BY <2>1, <4>1 DEF Watches
    <3>4. wd \in 0 .. MaxLives
      BY <2>1, InputNat
    <3>5. reader' \in Readers
      BY <2>3, IdleReaderTyped
    <3>. QED  BY <2>2, <2>3, <3>1, <3>2, <3>3, <3>4, <3>5, NoClockTyped DEF userVars
  <2>4. CASE files' = Purged(Absent) /\ api' = "down"
       /\ UNCHANGED <<handle, ffmpeg, watchdog, watch, reader>>
    <3>1. files' \in Directory
      BY <2>4, PurgedTyped, AbsentTyped
    <3>. QED  BY <2>2, <2>4, <3>1, NoClockTyped DEF userVars
  <2>. QED  BY <2>2, <2>3, <2>4 DEF Started
<1>3. CASE StartPaused
  <2>1. reader' \in Readers /\ api' = "up" /\ raced' = FALSE
    BY <1>3, IdleReaderTyped DEF StartPaused
  <2>2. UNCHANGED <<kind, input_life, stopping, fileVars, watchVars, userVars, clock, got, lingered>>
    BY <1>3 DEF StartPaused
  <2>. QED  BY <2>1, <2>2 DEF fileVars, watchVars, userVars
<1>4. CASE StopBegin
  <2>1. reader' \in Readers /\ api' = "joining" /\ stopping' \in BOOLEAN
    BY <1>4, IdleReaderTyped DEF StopBegin
  <2>2. watch' \in Watches
    BY <1>4, ToldTyped DEF StopBegin
  <2>3. UNCHANGED <<kind, input_life, fileVars, watchdog, restarting, userVars, clock, got, history>>
    BY <1>4 DEF StopBegin
  <2>. QED  BY <2>1, <2>2, <2>3 DEF fileVars, userVars, history
<1>5. CASE StopKill
  <2>1. lingered' \in BOOLEAN /\ watchdog' = 0 /\ api' = "down"
    BY <1>5 DEF StopKill
  <2>2. ffmpeg' \in Processes /\ handle' = 0
    BY <1>5, ReleaseTyped DEF StopKill
  <2>3. UNCHANGED <<kind, input_life, stopping, files, last_index, watch, restarting, userVars, readVars, raced>>
    BY <1>5 DEF StopKill
  <2>. QED  BY <2>1, <2>2, <2>3, InputNat DEF userVars, readVars
<1>6. CASE ReconfigureInput
  <2>1. clock' = NoClock
        /\ UNCHANGED <<apiVars, fileVars, watchVars, userVars, reader, got, history>>
    BY <1>6 DEF ReconfigureInput
  <2>. QED  BY <2>1, NoClockTyped DEF apiVars, fileVars, watchVars, userVars, history
<1>. QED  BY <1>1, <1>2, <1>3, <1>4, <1>5, <1>6

LEMMA ProcessTypes ==
    ASSUME InputTypes, NEW r \in Runs, Produce(r) \/ Disturb(r)
    PROVE  InputTypes'
<1> USE DEF InputTypes
<1>1. ffmpeg' \in Processes
  <2>1. CASE Produce(r)
    BY <2>1, InputNat DEF Produce, Processes, Index
  <2>2. CASE Disturb(r)
    <3>1. Kill(ffmpeg, r) \in Processes
      BY KillTyped
    <3>. QED  BY <2>2, <3>1 DEF Disturb, Processes
  <2>. QED  BY <2>1, <2>2
<1>2. files' \in Directory
  <2>1. CASE Disturb(r)
    BY <2>1 DEF Disturb
  <2>2. CASE Produce(r)
    <3> DEFINE i == ffmpeg[r].at
               mine == files[i].run = r
    <3>1. i \in Index
      BY DEF Processes
    <3>2. CASE mine /\ files' = [files EXCEPT ![i].st = "partial"]
      BY <3>1, <3>2 DEF Directory
    <3>3. CASE i < MaxIndex
               /\ files' = [files EXCEPT ![i].st = IF mine THEN "done" ELSE @,
                                       ![i + 1] = [run |-> r, st |-> "empty"]]
      <4>1. i + 1 \in Index /\ i \in Nat
        BY <3>1, <3>3, InputNat DEF Index
      <4>2. [files EXCEPT ![i].st = IF mine THEN "done" ELSE @] \in Directory
        BY <3>1 DEF Directory
      <4> DEFINE half == [files EXCEPT ![i].st = IF mine THEN "done" ELSE @]
      <4>3. files' = [half EXCEPT ![i + 1] = [run |-> r, st |-> "empty"]]
        BY <3>3
      <4> HIDE DEF half
      <4>. QED  BY <4>1, <4>2, <4>3 DEF Directory, half
    <3>. QED  BY <2>2, <3>2, <3>3 DEF Produce
  <2>. QED  BY <2>1, <2>2
<1>3. UNCHANGED <<apiVars, handle, last_index, watchVars, userVars, readVars, history>>
  BY DEF Produce, Disturb
<1>. QED  BY <1>1, <1>2, <1>3 DEF apiVars, watchVars, userVars, readVars, history

LEMMA WatchTypes ==
    ASSUME InputTypes, NEW l \in Lives, MonitorNotes(l) \/ WatchStep(l)
    PROVE  InputTypes'
<1> USE DEF InputTypes
<1>0. /\ watch[l] \in Watch
      /\ \A w \in Watch : [watch EXCEPT ![l] = w] \in Watches
  BY DEF Watches
<1>1. CASE MonitorNotes(l)
  <2>1. watch' \in Watches
    BY <1>0, <1>1, NotedTyped DEF MonitorNotes
  <2>2. UNCHANGED <<apiVars, fileVars, watchdog, restarting, userVars, readVars, history>>
    BY <1>1 DEF MonitorNotes
  <2>. QED  BY <2>1, <2>2 DEF apiVars, fileVars, userVars, readVars, history
<1>2. CASE WatchLoopEnds(l)
  <2>1. watch' \in Watches
    BY <1>0, <1>2, FreshWatchTyped DEF WatchLoopEnds, Ends
  <2>2. UNCHANGED <<apiVars, fileVars, watchdog, restarting, userVars, readVars, history>>
    BY <1>2 DEF WatchLoopEnds
  <2>. QED  BY <2>1, <2>2 DEF apiVars, fileVars, userVars, readVars, history
<1>3. CASE WatchSeesCrash(l)
  <2>1. watch[l].restarts + 1 \in 0 .. MaxRestarts
    BY <1>0, <1>3, InputNat DEF WatchSeesCrash, MayRestart, Watch
  <2>2. watch' = [watch EXCEPT ![l] = [watch[l] EXCEPT !.pc = "delay", !.restarts = @ + 1]]
    BY <1>3 DEF WatchSeesCrash, Restarts, Watches
  <2>3. [watch[l] EXCEPT !.pc = "delay", !.restarts = @ + 1] \in Watch
    BY <1>0, <2>1 DEF Watch
  <2>4. UNCHANGED <<apiVars, fileVars, watchdog, restarting, userVars, readVars, history>>
    BY <1>3 DEF WatchSeesCrash
  <2>5. watch' \in Watches
    BY <1>0, <2>2, <2>3
  <2>. QED  BY <2>4, <2>5 DEF apiVars, fileVars, userVars, readVars, history
<1>4. CASE WatchSeesHang(l)
  <2>1. ffmpeg' \in Processes
    <3>1. watch[l].run \in Runs \cup {0}
      BY <1>0 DEF Watch
    <3>. QED  BY <1>4, <3>1, KillTyped DEF WatchSeesHang
  <2>2. watch' \in Watches
    <3>1. CASE ~watch[l].ever
      <4>1. watch' = [watch EXCEPT ![l] = [watch[l] EXCEPT !.hung = TRUE]]
        BY <1>4, <3>1 DEF WatchSeesHang, Watches
      <4>. QED  BY <1>0, <4>1 DEF Watch
    <3>2. CASE watch[l].ever /\ MayRestart(l)
      <4>1. watch[l].restarts + 1 \in 0 .. MaxRestarts
        BY <1>0, <3>2, InputNat DEF MayRestart, Watch
      <4>2. watch' = [watch EXCEPT ![l] = [watch[l] EXCEPT !.hung = TRUE, !.pc = "delay",
                                                          !.restarts = @ + 1]]
        BY <1>4, <3>2 DEF WatchSeesHang, Watches
      <4>3. [watch[l] EXCEPT !.hung = TRUE, !.pc = "delay", !.restarts = @ + 1] \in Watch
        BY <1>0, <4>1 DEF Watch
      <4>. QED  BY <1>0, <4>2, <4>3
    <3>3. CASE watch[l].ever /\ ~MayRestart(l)
      <4>1. watch' = [watch EXCEPT ![l] = [watch[l] EXCEPT !.hung = TRUE, !.pc = "loop",
                                                          !.restarts = @]]
        BY <1>4, <3>3 DEF WatchSeesHang, Watches
      <4>2. [watch[l] EXCEPT !.hung = TRUE, !.pc = "loop", !.restarts = @] \in Watch
        BY <1>0 DEF Watch
      <4>. QED  BY <1>0, <4>1, <4>2
    <3>. QED  BY <3>1, <3>2, <3>3
  <2>3. UNCHANGED <<apiVars, handle, files, last_index, watchdog, restarting, userVars, readVars, history>>
    BY <1>4 DEF WatchSeesHang
  <2>. QED  BY <2>1, <2>2, <2>3 DEF apiVars, userVars, readVars, history
<1>5. CASE WatchWakes(l)
  <2>1. watch' \in Watches
    <3>1. [watch[l] EXCEPT !.pc = "loop"] \in Watch /\ [watch[l] EXCEPT !.pc = "gap"] \in Watch
      BY <1>0 DEF Watch
    <3>2. \/ watch' = [watch EXCEPT ![l] = [watch[l] EXCEPT !.pc = "loop"]]
          \/ watch' = [watch EXCEPT ![l] = BackToLoop(watch[l])]
          \/ watch' = [watch EXCEPT ![l] = [watch[l] EXCEPT !.pc = "gap"]]
      BY <1>5 DEF WatchWakes, Watches
    <3>. QED  BY <1>0, <3>1, <3>2, BackTyped
  <2>2. ffmpeg' \in Processes /\ handle' \in Runs \cup {0} /\ restarting' \in BOOLEAN
    BY <1>5, ReleaseTyped DEF WatchWakes
  <2>3. UNCHANGED <<apiVars, files, last_index, watchdog, userVars, readVars, history>>
    BY <1>5 DEF WatchWakes
  <2>. QED  BY <2>1, <2>2, <2>3 DEF apiVars, userVars, readVars, history
<1>6. CASE WatchPurges(l)
  <2>1. watch' \in Watches
    <3>1. [watch[l] EXCEPT !.pc = "spawn"] \in Watch
      BY <1>0 DEF Watch
    <3>2. \/ watch' = [watch EXCEPT ![l] = BackToLoop(watch[l])]
          \/ watch' = [watch EXCEPT ![l] = [watch[l] EXCEPT !.pc = "spawn"]]
      BY <1>6 DEF WatchPurges, Watches
    <3>. QED  BY <1>0, <3>1, <3>2, BackTyped
  <2>2. files' \in Directory /\ last_index' \in Index \cup {-1}
    BY <1>6, PurgedTyped, AbsentTyped DEF WatchPurges
  <2>3. raced' \in BOOLEAN /\ restarting' \in BOOLEAN
    BY <1>6 DEF WatchPurges
  <2>4. UNCHANGED <<apiVars, handle, ffmpeg, watchdog, userVars, readVars, lingered>>
    BY <1>6 DEF WatchPurges
  <2>. QED  BY <2>1, <2>2, <2>3, <2>4 DEF apiVars, userVars, readVars
<1>7. CASE WatchSpawns(l)
  <2>1. UNCHANGED <<apiVars, last_index, watchdog, userVars, readVars, history>>
    BY <1>7 DEF WatchSpawns
  <2>0. restarting' \in BOOLEAN
    BY <1>7 DEF WatchSpawns
  <2>2. CASE CanLaunch
          /\ handle' = NextRun /\ ffmpeg' = Launch(ffmpeg)
          /\ files' = [files EXCEPT ![0] = FirstFile]
          /\ watch' = [k \in Lives |->
                          LET w == IF k = watchdog THEN Attached(watch[k], NextRun) ELSE watch[k]
                          IN  IF k = l THEN BackToLoop(w) ELSE w]
    <3>1. NextRun \in Runs
      BY <2>2, NextIsFree
    <3>2. ffmpeg' \in Processes /\ files' \in Directory
      BY <2>2, LaunchTyped DEF Directory
    <3>3. \A k \in Lives : Attached(watch[k], NextRun) \in Watch /\ watch[k] \in Watch
      BY <3>1, AttachedTyped DEF Watches
    <3>4. watch' \in Watches
      BY <2>2, <3>3, BackTyped DEF Watches
    <3>. QED  BY <2>0, <2>1, <2>2, <3>1, <3>2, <3>4 DEF apiVars, userVars, readVars, history
  <2>3. CASE watch' = [watch EXCEPT ![l] = BackToLoop(@)] /\ UNCHANGED <<handle, ffmpeg, files>>
    <3>1. watch' \in Watches
      BY <1>0, <2>3, BackTyped DEF Watches
    <3>. QED  BY <2>0, <2>1, <2>3, <3>1 DEF apiVars, userVars, readVars, history
  <2>. QED  BY <1>7, <2>2, <2>3 DEF WatchSpawns
<1>. QED  BY <1>1, <1>2, <1>3, <1>4, <1>5, <1>6, <1>7 DEF WatchStep

LEMMA PlaybackTypes ==
    ASSUME InputTypes, Pause \/ Play \/ Seek \/ PlaybackSpawn
    PROVE  InputTypes'
<1> USE DEF InputTypes
<1>1. CASE Pause \/ Play
  BY <1>1 DEF Pause, Play, apiVars, fileVars, watchVars, userVars, readVars, history
<1>2. CASE Seek
  <2>1. ffmpeg' \in Processes /\ handle' = 0
    BY <1>2, ReleaseTyped DEF Seek
  <2>. QED  BY <1>2, <2>1 DEF Seek, apiVars, watchVars, readVars, history
<1>3. CASE PlaybackSpawn
  <2>1. ffmpeg' \in Processes /\ files' \in Directory /\ handle' \in Runs \cup {0}
    BY <1>3, LaunchTyped, PurgedTyped, NextIsFree DEF PlaybackSpawn
  <2>2. /\ paused' \in BOOLEAN /\ raced' \in BOOLEAN /\ user' = "idle" /\ last_index' = -1
        /\ clock' \in [started : BOOLEAN, cumulative : Int]
    BY <1>3, NoClockTyped DEF PlaybackSpawn
  <2>3. UNCHANGED <<apiVars, watchVars, frozen, reader, got, lingered>>
    BY <1>3 DEF PlaybackSpawn
  <2>. QED  BY <2>1, <2>2, <2>3 DEF apiVars, watchVars
<1>. QED  BY <1>1, <1>2, <1>3

LEMMA IndexSets ==
    \A T \in SUBSET Index : T # {} => /\ Min(T) \in T /\ Max(T) \in T
                                      /\ \A k \in T : Min(T) <= k /\ k <= Max(T)
<1>1. Index \subseteq Nat
  BY InputNat DEF Index
<1>. QED  BY <1>1, MinOf, MaxOf

LEMMA SnapshotTyped ==
    ASSUME InputTypes, NEW d \in Int
    PROVE  /\ Clamped(d) \in Int /\ MinDelta <= Clamped(d)
           /\ Clamped(d) <= ChunkDuration * MaxMultiplier
           /\ Snapshot(d) \in Int /\ Recorded(d) \in [started : BOOLEAN, cumulative : Int]
<1> DEFINE top == ChunkDuration * MaxMultiplier
           low == Min({d, top})
<1>1. top \in Nat /\ MinDelta \in Nat /\ ChunkDuration \in Nat /\ MinDelta <= top
  BY InputNat
<1> HIDE DEF top
<1>2. low \in Int /\ low <= top
  <2>1. low = IF d <= top THEN d ELSE top
    BY <1>1, MinOfPair
  <2>. QED  BY <1>1, <2>1
<1>3. Clamped(d) = Max({MinDelta, low})
  BY DEF Clamped, top
<1> HIDE DEF low
<1>4. Clamped(d) = IF MinDelta >= low THEN MinDelta ELSE low
  BY <1>1, <1>2, <1>3, MaxOfPair
<1>5. Clamped(d) \in Int /\ MinDelta <= Clamped(d) /\ Clamped(d) <= top
  BY <1>1, <1>2, <1>4
<1>6. Snapshot(d) \in Int
  BY <1>1, <1>5 DEF Snapshot, InputTypes
<1>7. Recorded(d) \in [started : BOOLEAN, cumulative : Int]
  BY <1>1, <1>6 DEF Recorded
<1>. QED  BY <1>5, <1>6, <1>7 DEF top

LEMMA ReaderTypes ==
    ASSUME InputTypes, ReaderLists \/ ReaderPicks \/ ReaderDelivers \/ ReaderRepeats
    PROVE  InputTypes'
<1> USE DEF InputTypes
<1>1. CASE ReaderLists
  <2>1. reader' \in Readers
    <3>1. OnDisk(files) \in SUBSET Index
      BY DEF OnDisk
    <3>2. SrtTakes(OnDisk(files)) \in SUBSET Index /\ AllButNewest(OnDisk(files)) \in SUBSET Index
      BY <3>1 DEF SrtTakes, AllButNewest
    <3>. QED  BY <1>1, <3>2 DEF ReaderLists, Readers
  <2>2. UNCHANGED <<apiVars, fileVars, watchVars, userVars, clock, got, history>>
    BY <1>1 DEF ReaderLists
  <2>. QED  BY <2>1, <2>2 DEF apiVars, fileVars, watchVars, userVars, history
<1>2. CASE ReaderPicks
  <2> DEFINE unread == {i \in reader.listed : Unread(i)}
             empty  == IF kind = "srt" THEN {i \in unread : files[i].st = "empty"} ELSE {}
             usable == unread \ empty
  <2>1. unread \in SUBSET Index /\ empty \in SUBSET Index /\ usable \in SUBSET Index
    BY DEF Readers
  <2>2. \/ /\ reader' = [IdleReader EXCEPT !.pc = "dead"] /\ UNCHANGED <<last_index, frozen>>
        \/ /\ reader' = IdleReader /\ UNCHANGED frozen
           /\ last_index' = IF empty = {} THEN last_index ELSE Max(empty)
        \/ /\ usable # {} /\ reader' = [reader EXCEPT !.pc = "open", !.pick = Min(usable)]
           /\ last_index' = Min(usable)
           /\ frozen' = IF kind = "file" THEN Min(usable) ELSE frozen
    BY <1>2 DEF ReaderPicks
  <2> HIDE DEF unread, empty, usable
  <2>3. /\ empty # {} => Max(empty) \in Index
        /\ usable # {} => Min(usable) \in Index
    BY <2>1, IndexSets
  <2>4. last_index' \in Index \cup {-1} /\ frozen' \in Index \cup {-1}
    BY <2>2, <2>3
  <2>5. reader' \in Readers
    BY <2>2, <2>3, IdleReaderTyped DEF Readers
  <2>6. UNCHANGED <<apiVars, handle, ffmpeg, files, watchVars, paused, user, clock, got, history>>
    BY <1>2 DEF ReaderPicks
  <2>. QED  BY <2>4, <2>5, <2>6 DEF apiVars, watchVars, history
<1>3. CASE ReaderDelivers
  <2>1. reader' \in Readers
    BY <1>3, IdleReaderTyped DEF ReaderDelivers
  <2>2. UNCHANGED <<apiVars, fileVars, watchdog, restarting, userVars, history>>
    BY <1>3 DEF ReaderDelivers
  <2>3. watch' \in Watches
    <3>1. \/ watch' = watch
          \/ watchdog # 0 /\ watch' = [watch EXCEPT ![watchdog] = Noted(@, TRUE)]
      BY <1>3 DEF ReaderDelivers
    <3>2. CASE watchdog # 0 /\ watch' = [watch EXCEPT ![watchdog] = Noted(@, TRUE)]
      <4>1. watchdog \in Lives
        BY <3>2, InputNat DEF Lives
      <4>2. Noted(watch[watchdog], TRUE) \in Watch
        BY <4>1, NotedTyped DEF Watches
      <4>. QED  BY <3>2, <4>1, <4>2 DEF Watches
    <3>. QED  BY <3>1, <3>2
  <2>4. /\ clock' \in [started : BOOLEAN, cumulative : Int]
        /\ got' \in [run : Runs \cup {0}, index : Index, st : {"absent", "empty", "partial", "done"},
                     offset : Int]
    <3>1. CASE clock' = clock /\ got' = got
      BY <3>1
    <3>2. CASE \E d \in Int : /\ clock' = Recorded(d)
                              /\ got' = [run |-> files[reader.pick].run, index |-> reader.pick,
                                         st |-> files[reader.pick].st, offset |-> Snapshot(d)]
      <4>1. PICK d \in Int : /\ clock' = Recorded(d)
                             /\ got' = [run |-> files[reader.pick].run, index |-> reader.pick,
                                         st |-> files[reader.pick].st, offset |-> Snapshot(d)]
        BY <3>2
      <4>2. reader.pick \in Index
        BY DEF Readers
      <4>3. files[reader.pick] \in [run : Runs \cup {0}, st : {"absent", "empty", "partial", "done"}]
        BY <4>2 DEF Directory
      <4>. QED  BY <4>1, <4>2, <4>3, SnapshotTyped
    <3>3. (IF kind = "file" THEN {ChunkDuration} ELSE Timestamps) \subseteq Int
      BY InputNat
    <3>4. \/ clock' = clock /\ got' = got
          \/ \E d \in IF kind = "file" THEN {ChunkDuration} ELSE Timestamps :
                /\ clock' = Recorded(d)
                /\ got' = [run |-> files[reader.pick].run, index |-> reader.pick,
                           st |-> files[reader.pick].st, offset |-> Snapshot(d)]
      BY <1>3 DEF ReaderDelivers
    <3>. QED  BY <3>1, <3>2, <3>3, <3>4
  <2>. QED  BY <2>1, <2>2, <2>3, <2>4 DEF apiVars, fileVars, userVars, history
<1>4. CASE ReaderRepeats
  <2>1. files[frozen] \in [run : Runs \cup {0}, st : {"absent", "empty", "partial", "done"}]
        /\ frozen \in Index
    BY <1>4 DEF ReaderRepeats, Directory
  <2>2. got' = [got EXCEPT !.run = files[frozen].run, !.index = frozen, !.st = files[frozen].st]
        /\ UNCHANGED <<apiVars, fileVars, watchVars, userVars, reader, clock, history>>
    BY <1>4 DEF ReaderRepeats
  <2>. QED  BY <2>1, <2>2 DEF apiVars, fileVars, watchVars, userVars, history
<1>. QED  BY <1>1, <1>2, <1>3, <1>4

LEMMA InputStutter == ASSUME InputTypes, UNCHANGED ivars PROVE InputTypes'
  BY DEF InputTypes, ivars, apiVars, fileVars, watchVars, userVars, readVars, history

LEMMA InputStepTypes == ASSUME InputTypes, [INext]_ivars PROVE InputTypes'
  BY ApiTypes, ProcessTypes, WatchTypes, PlaybackTypes, ReaderTypes, InputStutter DEF INext

-----------------------------------------------------------------------------
(* What a step does to the processes. *)
LEMMA KillKeeps ==
    ASSUME InputTypes, NEW r \in Spawned \cup {0},
           \A k \in Runs : ffmpeg'[k] = IF k = r THEN [st |-> "dead", at |-> 0] ELSE ffmpeg[k]
    PROVE  Spawned' = Spawned /\ \A k \in Runs : Alive(k)' <=> (k # r /\ Alive(k))
  BY DEF Spawned, Alive, Runs

LEMMA ReleaseKeeps ==
    ASSUME InputTypes, RunsInOrder, Release
    PROVE  /\ handle' = 0 /\ Spawned' = Spawned
           /\ \A k \in Runs : /\ Alive(k)' <=> (k # handle /\ Alive(k))
                              /\ k # handle => ffmpeg'[k] = ffmpeg[k]
<1>1. handle \in Spawned \cup {0}
  BY DEF RunsInOrder
<1>. QED  BY <1>1, ReleaseTyped, KillKeeps

LEMMA DisturbKeeps ==
    ASSUME InputTypes, NEW r \in Runs, Disturb(r)
    PROVE  /\ Spawned' = Spawned
           /\ \A k \in Runs : /\ Alive(k)' => Alive(k)
                              /\ Alive(k)' => ffmpeg'[k].at = ffmpeg[k].at
<1>1. CASE Alive(r) /\ ffmpeg' = Kill(ffmpeg, r)
  <2>1. r \in Spawned
    BY <1>1 DEF Alive, Spawned
  <2>2. \A k \in Runs : ffmpeg'[k] = IF k = r THEN [st |-> "dead", at |-> 0] ELSE ffmpeg[k]
    BY <1>1, KillTyped DEF InputTypes
  <2>. QED  BY <2>1, <2>2, KillKeeps
<1>2. CASE ffmpeg[r].st = "alive" /\ ffmpeg' = [ffmpeg EXCEPT ![r].st = "stalled"]
  BY <1>2 DEF InputTypes, Processes, Spawned, Alive
<1>3. CASE ffmpeg[r].st = "stalled" /\ ffmpeg' = [ffmpeg EXCEPT ![r].st = "alive"]
  BY <1>3 DEF InputTypes, Processes, Spawned, Alive
<1>. QED  BY <1>1, <1>2, <1>3 DEF Disturb

LEMMA ProduceKeeps ==
    ASSUME InputTypes, NEW r \in Runs, Produce(r)
    PROVE  Spawned' = Spawned /\ \A k \in Runs : Alive(k)' <=> Alive(k)
  BY DEF Produce, InputTypes, Processes, Spawned, Alive

LEMMA LaunchKeeps ==
    ASSUME InputTypes, RunsInOrder, CanLaunch, ffmpeg' = Launch(ffmpeg)
    PROVE  /\ NextRun \in Runs /\ NextRun # 0 /\ NextRun \notin Spawned
           /\ Spawned' = Spawned \cup {NextRun}
           /\ \A k \in Spawned : k <= NextRun
           /\ \A k \in Runs : Alive(k)' <=> (k = NextRun \/ Alive(k))
           /\ ffmpeg'[NextRun].at = 0
           /\ \A k \in Spawned', j \in Runs : j < k => j \in Spawned'
<1>1. NextRun \in Runs \ Spawned /\ \A k \in Runs \ Spawned : NextRun <= k
  BY NextIsFree
<1>2. \A k \in Runs : ffmpeg'[k] = IF k = NextRun THEN [st |-> "alive", at |-> 0] ELSE ffmpeg[k]
  BY LaunchTyped DEF InputTypes
<1>3. Spawned' = Spawned \cup {NextRun}
  BY <1>1, <1>2 DEF Spawned
<1>4. \A k \in Runs : Alive(k)' <=> (k = NextRun \/ Alive(k))
  BY <1>1, <1>2 DEF Alive, Runs
<1>5. Spawned \subseteq Runs /\ Runs \subseteq Nat
  BY DEF Spawned, Runs
<1>6. \A k \in Spawned : k <= NextRun
  BY <1>1, <1>5 DEF RunsInOrder
<1>7. \A k \in Spawned', j \in Runs : j < k => j \in Spawned'
  <2> SUFFICES ASSUME NEW k \in Spawned', NEW j \in Runs, j < k PROVE j \in Spawned'
    OBVIOUS
  <2>1. CASE k \in Spawned
    BY <1>3, <2>1 DEF RunsInOrder
  <2>2. CASE k = NextRun
    <3>1. ~(NextRun <= j)
      BY <1>1, <1>5, <2>2
    <3>. QED  BY <1>1, <1>3, <3>1
  <2>. QED  BY <1>3, <2>1, <2>2
<1>8. NextRun # 0
  BY <1>1 DEF Runs
<1>. QED  BY <1>1, <1>2, <1>3, <1>4, <1>6, <1>7, <1>8

(* The numbers of the processes stay in order, and a process once started stays so. *)
LEMMA InOrderStep ==
    ASSUME InputTypes, RunsInOrder, [INext]_ivars
    PROVE  RunsInOrder' /\ Spawned \subseteq Spawned'
<1>1. CASE handle' \in {handle, 0} /\ Spawned' = Spawned
  BY <1>1 DEF RunsInOrder
<1>2. CASE CanLaunch /\ handle' = NextRun /\ ffmpeg' = Launch(ffmpeg)
  BY <1>2, LaunchKeeps DEF RunsInOrder
<1>3. ASSUME UNCHANGED <<handle, ffmpeg>> PROVE RunsInOrder' /\ Spawned \subseteq Spawned'
  BY <1>3 DEF RunsInOrder, Spawned
<1>4. CASE Release
  BY <1>1, <1>4, ReleaseKeeps
<1>5. CASE StartBegin
  <2>1. CASE ffmpeg' = ffmpeg /\ handle' = 0
    BY <2>1 DEF RunsInOrder, Spawned
  <2>. QED  BY <1>4, <1>5, <2>1 DEF StartBegin
<1>6. CASE Start
  <2>1. \E ws, wd : Started(ws, wd)
    BY <1>6 DEF Start, SrtStart, RtmpStart, FileStart, StartSpawn
  <2>. QED  BY <1>2, <1>3, <2>1 DEF Started
<1>7. CASE StartPaused \/ StopBegin \/ ReconfigureInput
  BY <1>3, <1>7 DEF StartPaused, StopBegin, ReconfigureInput, fileVars
<1>8. CASE StopKill
  BY <1>4, <1>8 DEF StopKill
<1>9. ASSUME NEW r \in Runs, Produce(r) \/ Disturb(r) PROVE RunsInOrder' /\ Spawned \subseteq Spawned'
  <2>1. handle' = handle
    BY <1>9 DEF Produce, Disturb
  <2>. QED  BY <1>1, <1>9, <2>1, ProduceKeeps, DisturbKeeps
<1>10. ASSUME NEW l \in Lives, MonitorNotes(l) \/ WatchStep(l)
       PROVE  RunsInOrder' /\ Spawned \subseteq Spawned'
  <2>1. CASE MonitorNotes(l) \/ WatchLoopEnds(l) \/ WatchSeesCrash(l) \/ WatchPurges(l)
    BY <1>3, <2>1 DEF MonitorNotes, WatchLoopEnds, WatchSeesCrash, WatchPurges, fileVars
  <2>2. CASE WatchSeesHang(l)
    <3>1. watch[l].run \in Spawned /\ handle' = handle
      BY <2>2 DEF WatchSeesHang, Spawned, InputTypes, Watches, Watch
    <3>2. CASE ffmpeg' = ffmpeg
      BY <1>3, <3>1, <3>2
    <3>3. CASE ffmpeg' = Kill(ffmpeg, watch[l].run)
      <4>0. ffmpeg \in Processes
        BY DEF InputTypes
      <4>1. watch[l].run \in Runs \cup {0} /\ watch[l].run \in Spawned \cup {0}
        BY <3>1 DEF Spawned
      <4>2. \A k \in Runs : ffmpeg'[k] = IF k = watch[l].run THEN [st |-> "dead", at |-> 0]
                                                              ELSE ffmpeg[k]
        BY <3>3, <4>0, <4>1, KilledNow
      <4>. QED  BY <1>1, <3>1, <4>2, KillKeeps
    <3>. QED  BY <2>2, <3>2, <3>3 DEF WatchSeesHang
  <2>3. CASE WatchWakes(l)
    BY <1>3, <1>4, <2>3 DEF WatchWakes
  <2>4. CASE WatchSpawns(l)
    BY <1>2, <1>3, <2>4 DEF WatchSpawns
  <2>. QED  BY <1>10, <2>1, <2>2, <2>3, <2>4 DEF WatchStep
<1>11. CASE Pause \/ Play
  BY <1>3, <1>11 DEF Pause, Play, fileVars
<1>12. CASE Seek
  BY <1>4, <1>12 DEF Seek
<1>13. CASE PlaybackSpawn
  BY <1>2, <1>13 DEF PlaybackSpawn
<1>14. CASE ReaderLists \/ ReaderPicks \/ ReaderDelivers \/ ReaderRepeats
  BY <1>3, <1>14 DEF ReaderLists, ReaderPicks, ReaderDelivers, ReaderRepeats, fileVars
<1>15. CASE UNCHANGED ivars
  BY <1>3, <1>15 DEF ivars, fileVars
<1>. QED  BY <1>5, <1>6, <1>7, <1>8, <1>9, <1>10, <1>11, <1>12, <1>13, <1>14, <1>15 DEF INext

(* Outside a running pipeline the input thread is off. *)
LEMMA ReaderOffStep ==
    ASSUME InputTypes, ReaderOff, [INext]_ivars
    PROVE  ReaderOff'
<1>1. \A at \in {"off", "idle", "dead"} : [IdleReader EXCEPT !.pc = at].pc = at
  BY DEF IdleReader
<1>2. IdleReader.pc = "idle"
  BY DEF IdleReader
<1>3. CASE StartBegin
  BY <1>3 DEF StartBegin, readVars, ReaderOff
<1>4. CASE Start
  <2>1. PICK ws, wd : api = "starting" /\ Started(ws, wd) /\ kind' = kind
    BY <1>4 DEF Start, SrtStart, RtmpStart, FileStart, StartSpawn
  <2>. QED  BY <1>2, <2>1 DEF Started, ReaderOff
<1>5. CASE StartPaused \/ StopBegin \/ StopKill
  BY <1>1, <1>2, <1>5 DEF StartPaused, StopBegin, StopKill, readVars, ReaderOff
<1>6. ASSUME UNCHANGED <<api, reader, kind>> PROVE ReaderOff'
  BY <1>6 DEF ReaderOff
<1>7. CASE ReconfigureInput \/ Pause \/ Play \/ Seek \/ PlaybackSpawn \/ ReaderRepeats \/ UNCHANGED ivars
  BY <1>6, <1>7 DEF ReconfigureInput, Pause, Play, Seek, PlaybackSpawn, ReaderRepeats, ivars,
                    apiVars, readVars
<1>8. ASSUME NEW r \in Runs, Produce(r) \/ Disturb(r) PROVE ReaderOff'
  BY <1>6, <1>8 DEF Produce, Disturb, apiVars, readVars
<1>9. ASSUME NEW l \in Lives, MonitorNotes(l) \/ WatchStep(l) PROVE ReaderOff'
  BY <1>6, <1>9 DEF MonitorNotes, WatchStep, WatchLoopEnds, WatchSeesCrash, WatchSeesHang,
                    WatchWakes, WatchPurges, WatchSpawns, apiVars, readVars
<1>10. CASE ReaderLists
  <2>1. reader'.pc = "listed" /\ api = "up" /\ UNCHANGED apiVars
    BY <1>10 DEF ReaderLists, InputTypes, Readers
  <2>. QED  BY <2>1 DEF ReaderOff, apiVars
<1>11. CASE ReaderPicks \/ ReaderDelivers
  <2>1. reader.pc \in {"listed", "open"} /\ UNCHANGED apiVars
    BY <1>11 DEF ReaderPicks, ReaderDelivers
  <2>2. reader'.pc = "dead" => kind # "file"
    BY <1>1, <1>2, <1>11 DEF ReaderPicks, ReaderDelivers, InputTypes, Readers
  <2>. QED  BY <2>1, <2>2 DEF ReaderOff, apiVars
<1>. QED  BY <1>3, <1>4, <1>5, <1>7, <1>8, <1>9, <1>10, <1>11 DEF INext

-----------------------------------------------------------------------------
(* One process and one watchdog. *)
LEMMA NoneAlive ==
    ASSUME OneWatcher, handle = 0
    PROVE  \A r \in Runs : ~Alive(r)
  BY DEF OneWatcher, Alive

LEMMA NoWatch ==
    ASSUME OneWatcher, api \in {"down", "starting"}
    PROVE  handle = 0 /\ \A l \in Lives : WatchEnded(watch[l])
  BY DEF OneWatcher

LEMMA ApiOneWatcher ==
    ASSUME InputTypes, RunsInOrder, OneWatcher, kind # "file", ~lingered',
           StartBegin \/ Start \/ StartPaused \/ StopBegin \/ StopKill \/ ReconfigureInput
    PROVE  OneWatcher'
<1>1. CASE StartBegin
  <2>1. handle = 0 /\ \A l \in Lives : WatchEnded(watch[l])
    BY <1>1, NoWatch DEF StartBegin
  <2>2. Release /\ api' = "starting" /\ user' = user
    BY <1>1 DEF StartBegin, userVars
  <2>3. \A l \in Lives : WatchEnded(watch'[l])
    <3>1. watch' = Told(watch)
      BY <1>1 DEF StartBegin
    <3>. QED  BY <2>1, <3>1, ToldTyped DEF WatchEnded, InputTypes
  <2>4. handle' = 0 /\ \A r \in Runs : ~Alive(r)'
    BY <2>1, <2>2, NoneAlive, ReleaseKeeps
  <2>. QED  BY <2>2, <2>3, <2>4 DEF OneWatcher, WatchEnded
<1>2. CASE Start
  <2>1. PICK ws, wd : /\ StartSpawn(ws, wd)
                      /\ \/ ws = watch /\ wd = 0
                         \/ /\ ws = [watch EXCEPT ![input_life] = [FreshWatch EXCEPT !.run = NextRun]]
                            /\ wd = input_life
    BY <1>2 DEF Start, SrtStart, RtmpStart, FileStart
  <2>2. api = "starting" /\ Started(ws, wd) /\ user' = user
    BY <2>1 DEF StartSpawn, userVars
  <2>3. handle = 0 /\ \A l \in Lives : WatchEnded(watch[l])
    BY <2>2, NoWatch
  <2>4. CASE CanLaunch /\ handle' = NextRun /\ ffmpeg' = Launch(ffmpeg)
             /\ watch' = ws /\ watchdog' = wd /\ api' = "up"
    <3>1. \A l \in Lives : ~WatchEnded(watch'[l]) =>
             l = watchdog' /\ watch'[l].pc = "loop" /\ watch'[l].run = NextRun
      <4>1. CASE ws = watch
        BY <2>3, <2>4, <4>1
      <4>2. CASE ws = [watch EXCEPT ![input_life] = [FreshWatch EXCEPT !.run = NextRun]]
                 /\ wd = input_life
        BY <2>3, <2>4, <4>2 DEF FreshWatch, InputTypes, Watches
      <4>. QED  BY <2>1, <4>1, <4>2
    <3>2. \A r \in Runs : Alive(r)' => r = handle'
      BY <2>3, <2>4, NoneAlive, LaunchKeeps
    <3>. QED  BY <2>2, <2>4, <3>1, <3>2 DEF OneWatcher, WatchEnded
  <2>5. CASE api' = "down" /\ UNCHANGED <<handle, ffmpeg, watchdog, watch, reader>>
    <3>1. \A r \in Runs : ~Alive(r)'
      BY <2>3, <2>5, NoneAlive DEF Alive
    <3>. QED  BY <2>2, <2>3, <2>5, <3>1 DEF OneWatcher, WatchEnded
  <2>. QED  BY <2>2, <2>4, <2>5 DEF Started
<1>3. CASE StartPaused
  BY <1>3 DEF StartPaused
<1>4. CASE StopBegin
  <2>1. api = "up" /\ api' = "joining" /\ UNCHANGED <<handle, ffmpeg, watchdog, user>>
    BY <1>4 DEF StopBegin, fileVars, userVars
  <2>2. \A l \in Lives : watch'[l].pc = watch[l].pc /\ watch'[l].run = watch[l].run
    BY <1>4, ToldTyped DEF StopBegin, InputTypes
  <2>3. \A r \in Runs \cup {0} : Alive(r)' <=> Alive(r)
    BY <2>1 DEF Alive
  <2>. QED  BY <2>1, <2>2, <2>3 DEF OneWatcher, WatchEnded, InputTypes
<1>5. CASE StopKill
  <2>1. Joined(watchdog)
    BY <1>5 DEF StopKill
  <2>2. \A l \in Lives : WatchEnded(watch[l])
    BY <2>1 DEF Joined, WatcherGone, OneWatcher
  <2>3. Release /\ api' = "down" /\ UNCHANGED <<watch, user>>
    BY <1>5 DEF StopKill, userVars
  <2>4. handle' = 0 /\ \A r \in Runs : ~Alive(r)'
    BY <2>3, ReleaseKeeps DEF OneWatcher
  <2>. QED  BY <2>2, <2>3, <2>4 DEF OneWatcher, WatchEnded
<1>6. CASE ReconfigureInput
  BY <1>6 DEF ReconfigureInput, OneWatcher, WatchEnded, Alive, apiVars, fileVars, watchVars, userVars
<1>. QED  BY <1>1, <1>2, <1>3, <1>4, <1>5, <1>6

LEMMA ProcessOneWatcher ==
    ASSUME InputTypes, RunsInOrder, OneWatcher, NEW r \in Runs, Produce(r) \/ Disturb(r)
    PROVE  OneWatcher'
<1>1. UNCHANGED <<api, user, handle, watch, watchdog>>
  BY DEF Produce, Disturb, apiVars, watchVars, userVars
<1>2. \A k \in Runs \cup {0} : Alive(k)' => Alive(k)
  BY ProduceKeeps, DisturbKeeps DEF Alive
<1>. QED  BY <1>1, <1>2 DEF OneWatcher, WatchEnded, InputTypes

(* The step of a watch thread that is neither the current one nor lingering. *)
LEMMA WatchOneWatcher ==
    ASSUME InputTypes, RunsInOrder, OneWatcher, NEW l \in Lives, MonitorNotes(l) \/ WatchStep(l)
    PROVE  OneWatcher'
<1>0. UNCHANGED <<api, user, watchdog>>
  BY DEF MonitorNotes, WatchStep, WatchLoopEnds, WatchSeesCrash, WatchSeesHang,
         WatchWakes, WatchPurges, WatchSpawns, apiVars, userVars
<1>1. watch \in Watches /\ watch[l] \in Watch /\ handle \in Runs \cup {0}
  BY DEF InputTypes, Watches
<1>2. ASSUME \A k \in Lives \ {l} : watch'[k] = watch[k],
             watch'[l].pc \in {"loop", "delay", "ended"} \/ watch'[l].pc = watch[l].pc,
             watch'[l].run = watch[l].run \/ WatchEnded(watch'[l]),
             WatchEnded(watch'[l]) \/ ~WatchEnded(watch[l]),
             handle' = handle, \A k \in Runs \cup {0} : Alive(k)' => Alive(k)
      PROVE  OneWatcher'
  <2>1. \A k \in Lives : ~WatchEnded(watch'[k]) => ~WatchEnded(watch[k]) /\ watch'[k].run = watch[k].run
    BY <1>2
  <2>2. \A k \in Lives : watch'[k].pc \in {"gap", "spawn"} => watch[k].pc \in {"gap", "spawn"}
    BY <1>2
  <2>. QED  BY <1>0, <1>1, <1>2, <2>1, <2>2 DEF OneWatcher, WatchEnded
<1>3. ASSUME UNCHANGED <<handle, ffmpeg>> PROVE \A k \in Runs \cup {0} : Alive(k)' => Alive(k)
  BY <1>3 DEF Alive
<1>4. CASE MonitorNotes(l)
  <2>1. watch' = [watch EXCEPT ![l] = Noted(watch[l], FALSE)] /\ UNCHANGED <<handle, ffmpeg>>
    BY <1>4 DEF MonitorNotes, fileVars
  <2>2. watch'[l].pc = watch[l].pc /\ watch'[l].run = watch[l].run
    BY <1>1, <2>1, NotedTyped DEF Watches
  <2>. QED  BY <1>1, <1>2, <1>3, <2>1, <2>2 DEF Watches, WatchEnded
<1>5. CASE WatchLoopEnds(l)
  <2>1. watch' = [watch EXCEPT ![l] = [FreshWatch EXCEPT !.pc = "ended"]] /\ UNCHANGED <<handle, ffmpeg>>
    BY <1>5 DEF WatchLoopEnds, Ends, fileVars
  <2>2. watch'[l].pc = "ended"
    BY <1>1, <2>1 DEF Watches, FreshWatch
  <2>. QED  BY <1>1, <1>2, <1>3, <2>1, <2>2 DEF Watches, WatchEnded
<1>6. CASE WatchSeesCrash(l)
  <2>1. watch' = [watch EXCEPT ![l] = [watch[l] EXCEPT !.pc = "delay", !.restarts = @ + 1]]
        /\ UNCHANGED <<handle, ffmpeg>> /\ watch[l].pc = "loop"
    BY <1>1, <1>6 DEF WatchSeesCrash, Restarts, fileVars, Watches
  <2>2. watch'[l].pc = "delay" /\ watch'[l].run = watch[l].run
    BY <1>1, <2>1 DEF Watches, Watch
  <2>. QED  BY <1>1, <1>2, <1>3, <2>1, <2>2 DEF Watches, WatchEnded
<1>7. CASE WatchSeesHang(l)
  <2>1. watch[l].pc = "loop" /\ handle' = handle
    BY <1>7 DEF WatchSeesHang
  <2>2. /\ watch'[l].pc \in {"loop", "delay"} /\ watch'[l].run = watch[l].run
        /\ \A k \in Lives \ {l} : watch'[k] = watch[k]
    BY <1>1, <1>7 DEF WatchSeesHang, Watches, Watch
  <2>3. \A k \in Runs \cup {0} : Alive(k)' => Alive(k)
    <3>1. CASE ffmpeg' = ffmpeg
      BY <3>1 DEF Alive
    <3>2. CASE ffmpeg' = Kill(ffmpeg, watch[l].run)
      <4>1. watch[l].run \in Runs \cup {0}
        BY <1>1 DEF Watch
      <4>2. ffmpeg \in Processes
        BY DEF InputTypes
      <4>3. \A k \in Runs : ffmpeg'[k] = IF k = watch[l].run THEN [st |-> "dead", at |-> 0]
                                                             ELSE ffmpeg[k]
        BY <3>2, <4>1, <4>2, KilledNow
      <4>. QED  BY <4>3 DEF Alive
    <3>. QED  BY <1>7, <3>1, <3>2 DEF WatchSeesHang
  <2>. QED  BY <1>2, <2>1, <2>2, <2>3 DEF WatchEnded
<1>8. CASE WatchWakes(l)
  <2>1. watch[l].pc = "delay"
    BY <1>8 DEF WatchWakes
  <2>2. CASE Declines(l)
    <3>1. UNCHANGED <<handle, ffmpeg>>
      BY <1>8, <2>2 DEF WatchWakes
    <3>2. \/ watch' = [watch EXCEPT ![l] = [watch[l] EXCEPT !.pc = "loop"]]
          \/ watch' = [watch EXCEPT ![l] = BackToLoop(watch[l])]
      BY <1>1, <1>8, <2>2 DEF WatchWakes, Watches
    <3>3. watch'[l].pc = "loop" /\ watch'[l].run = watch[l].run
      BY <1>1, <3>2, BackTyped DEF Watches, Watch
    <3>. QED  BY <1>1, <1>2, <1>3, <2>1, <3>1, <3>2, <3>3 DEF Watches, WatchEnded
  <2>3. CASE ~Declines(l)
    <3>1. Release /\ watch' = [watch EXCEPT ![l].pc = "gap"]
      BY <1>8, <2>3 DEF WatchWakes
    <3>2. handle' = 0 /\ \A r \in Runs \cup {0} : ~Alive(r)'
      BY <3>1, ReleaseKeeps DEF OneWatcher, Alive
    <3>3. \A k \in Lives : k # l => watch'[k] = watch[k]
      BY <3>1 DEF InputTypes, Watches
    <3>4. ~WatchEnded(watch[l])
      BY <2>1 DEF WatchEnded
    <3>5. \A k \in Lives : ~WatchEnded(watch'[k]) => ~WatchEnded(watch[k])
      BY <3>3, <3>4
    <3>. QED  BY <1>0, <3>2, <3>5 DEF OneWatcher
  <2>. QED  BY <2>2, <2>3
<1>9. CASE WatchPurges(l)
  <2>1. watch[l].pc = "gap" /\ UNCHANGED <<handle, ffmpeg>>
    BY <1>9 DEF WatchPurges
  <2>2. \/ watch' = [watch EXCEPT ![l] = [watch[l] EXCEPT !.pc = "spawn"]]
        \/ watch' = [watch EXCEPT ![l] = BackToLoop(watch[l])]
    BY <1>1, <1>9 DEF WatchPurges, Watches
  <2>3. watch'[l].pc \in {"loop", "spawn"} /\ watch'[l].run = watch[l].run
    BY <1>1, <2>2, BackTyped DEF Watches, Watch
  <2>4. handle = 0 /\ \A r \in Runs : ~Alive(r)
    BY <2>1, NoneAlive DEF OneWatcher, WatchEnded
  <2>5. \A k \in Lives : ~WatchEnded(watch'[k]) => ~WatchEnded(watch[k])
    BY <1>1, <2>1, <2>2 DEF Watches, WatchEnded
  <2>6. \A r \in Runs \cup {0} : ~Alive(r)'
    BY <2>1, <2>4 DEF Alive
  <2>. QED  BY <1>0, <2>1, <2>4, <2>5, <2>6 DEF OneWatcher
<1>10. CASE WatchSpawns(l)
  <2>1. watch[l].pc = "spawn"
    BY <1>10 DEF WatchSpawns
  <2>2. handle = 0 /\ (\A r \in Runs : ~Alive(r)) /\ l = watchdog /\ api \in {"up", "joining"}
    BY <2>1, NoneAlive DEF OneWatcher, WatchEnded
  <2>3. \A k \in Lives : k # l => WatchEnded(watch[k])
    BY <2>2 DEF OneWatcher
  <2>4. CASE CanLaunch /\ handle' = NextRun /\ ffmpeg' = Launch(ffmpeg)
          /\ watch' = [k \in Lives |->
                          LET w == IF k = watchdog THEN Attached(watch[k], NextRun) ELSE watch[k]
                          IN  IF k = l THEN BackToLoop(w) ELSE w]
    <3>1. watch'[l] = BackToLoop(Attached(watch[l], NextRun)) /\ \A k \in Lives : k # l => watch'[k] = watch[k]
      BY <2>2, <2>4
    <3>2. watch'[l].pc = "loop" /\ watch'[l].run = NextRun
      BY <1>1, <2>4, <3>1, NextIsFree, AttachedTyped, BackTyped
    <3>3. \A r \in Runs : Alive(r)' => r = handle'
      BY <2>2, <2>4, LaunchKeeps
    <3>. QED  BY <1>0, <2>2, <2>3, <2>4, <3>1, <3>2, <3>3 DEF OneWatcher, WatchEnded
  <2>5. CASE watch' = [watch EXCEPT ![l] = BackToLoop(@)] /\ UNCHANGED <<handle, ffmpeg>>
    <3>1. watch'[l].pc = "loop" /\ \A k \in Lives : k # l => watch'[k] = watch[k]
      BY <1>1, <2>5, BackTyped DEF Watches
    <3>2. \A r \in Runs \cup {0} : ~Alive(r)'
      BY <2>2, <2>5 DEF Alive
    <3>. QED  BY <1>0, <2>2, <2>3, <2>5, <3>1, <3>2 DEF OneWatcher, WatchEnded
  <2>. QED  BY <1>10, <2>4, <2>5 DEF WatchSpawns
<1>. QED  BY <1>4, <1>5, <1>6, <1>7, <1>8, <1>9, <1>10 DEF WatchStep

LEMMA ReaderOneWatcher ==
    ASSUME InputTypes, OneWatcher,
           ReaderLists \/ ReaderPicks \/ ReaderDelivers \/ ReaderRepeats \/ UNCHANGED ivars
    PROVE  OneWatcher'
<1>1. UNCHANGED <<api, user, handle, ffmpeg, watchdog>>
  BY DEF ReaderLists, ReaderPicks, ReaderDelivers, ReaderRepeats, ivars,
         apiVars, fileVars, watchVars, userVars
<1>2. \A l \in Lives : watch'[l].pc = watch[l].pc /\ watch'[l].run = watch[l].run
  <2>1. CASE watch' = watch
    BY <2>1
  <2>2. CASE watchdog # 0 /\ watch' = [watch EXCEPT ![watchdog] = Noted(@, TRUE)]
    <3>1. watchdog \in Lives
      BY <2>2, InputNat DEF Lives, InputTypes
    <3>. QED  BY <2>2, <3>1, NotedTyped DEF InputTypes, Watches
  <2>3. watch' = watch \/ (watchdog # 0 /\ watch' = [watch EXCEPT ![watchdog] = Noted(@, TRUE)])
    BY DEF ReaderLists, ReaderPicks, ReaderDelivers, ReaderRepeats, ivars, watchVars
  <2>. QED  BY <2>1, <2>2, <2>3
<1>3. \A r \in Runs \cup {0} : Alive(r)' <=> Alive(r)
  BY <1>1 DEF Alive
<1>. QED  BY <1>1, <1>2, <1>3 DEF OneWatcher, WatchEnded, InputTypes

LEMMA OneWatcherStep ==
    ASSUME InputTypes, RunsInOrder, OneWatcher, kind # "file", ~lingered', [INext]_ivars
    PROVE  OneWatcher'
<1>1. ~(Pause \/ Play \/ Seek \/ PlaybackSpawn)
  BY DEF Pause, Play, Seek, PlaybackSpawn, OneWatcher
<1>. QED  BY <1>1, ApiOneWatcher, ProcessOneWatcher, WatchOneWatcher, ReaderOneWatcher DEF INext

-----------------------------------------------------------------------------
(* The files of one process. *)
LEMMA FilesStay ==
    ASSUME InputTypes, LastRunsFiles, files' = files, Spawned' = Spawned,
           \A r \in Runs : Alive(r)' => Alive(r) /\ ffmpeg'[r].at = ffmpeg[r].at,
           \A l \in Lives : watch'[l].pc = "spawn" => watch[l].pc = "spawn"
    PROVE  LastRunsFiles'
<1>1. OnDisk(files)' = OnDisk(files)
  BY DEF OnDisk
<1>. QED  BY <1>1 DEF LastRunsFiles

LEMMA FirstFileOnly ==
    ASSUME InputTypes, RunsInOrder, CanLaunch, ffmpeg' = Launch(ffmpeg),
           \A i \in Index : files'[i].run = IF i = 0 THEN NextRun ELSE 0,
           \A r \in Runs : ~Alive(r), \A l \in Lives : watch'[l].pc # "spawn"
    PROVE  LastRunsFiles' /\ OnDisk(files)' = {0} /\ files'[0].run = NextRun
<1>1. 0 \in Index /\ Index \subseteq Nat
  BY InputNat DEF Index
<1>2. NextRun \in Runs /\ NextRun # 0
  BY LaunchKeeps
<1>3. OnDisk(files)' = {0} /\ files'[0].run = NextRun
  BY <1>1, <1>2 DEF OnDisk
<1>4. \A k \in Spawned' : k <= NextRun
  BY <1>2, LaunchKeeps DEF Runs
<1>5. NextRun \in Spawned' /\ \A r \in Runs : Alive(r)' => r = NextRun
  BY LaunchKeeps
<1>6. ffmpeg'[NextRun].at = 0
  BY LaunchKeeps
<1>. QED  BY <1>1, <1>3, <1>4, <1>5, <1>6 DEF LastRunsFiles

LEMMA NoFiles ==
    ASSUME files' = Purged(Absent), \A r \in Runs : ~Alive(r)'
    PROVE  LastRunsFiles' /\ OnDisk(files)' = {}
<1>1. OnDisk(files)' = {}
  BY PurgedTyped, AbsentTyped DEF OnDisk
<1>. QED  BY <1>1 DEF LastRunsFiles

(* FFmpeg goes on with its file, or begins the next one. *)
LEMMA ProducedFiles ==
    ASSUME InputTypes, OneWatcher, LastRunsFiles, NEW r \in Runs, Produce(r)
    PROVE  /\ \A i \in OnDisk(files) : i \in OnDisk(files)' /\ files'[i].run = files[i].run
           /\ \A i \in OnDisk(files) : files[i].st = "done" => files'[i].st = "done"
           /\ \A i \in OnDisk(files)' : files'[i].run = r \/ i \in OnDisk(files)
           /\ r \in Spawned /\ ffmpeg[r].at \in OnDisk(files) /\ files[ffmpeg[r].at].run = r
           /\ LastRunsFiles'
<1> DEFINE i == ffmpeg[r].at
<1>0. i \in Index /\ r # 0 /\ Alive(r) /\ Index \subseteq Nat /\ r \in Spawned
  <2>1. ffmpeg[r].st = "alive" /\ r # 0
    BY DEF Produce, Runs
  <2>2. Index \subseteq Nat /\ i \in Index
    BY InputNat DEF Index, InputTypes, Processes
  <2>. QED  BY <2>1, <2>2 DEF Alive, Spawned
<1>1. files[i].run = r /\ (\A j \in OnDisk(files) : j <= i) /\ i \in OnDisk(files)
  BY <1>0 DEF LastRunsFiles, OnDisk
<1>2. Spawned' = Spawned /\ \A k \in Runs : Alive(k)' <=> Alive(k)
  BY ProduceKeeps
<1>3. \A k \in Runs : Alive(k) => k = r
  BY <1>0 DEF OneWatcher
<1>4. watch' = watch
  BY DEF Produce, watchVars
<1>5. \A l \in Lives : watch[l].pc # "spawn"
  BY <1>1 DEF LastRunsFiles
<1>6. CASE files' = [files EXCEPT ![i].st = "partial"] /\ ffmpeg' = ffmpeg /\ files[i].st = "empty"
  <2>1. \A j \in Index : /\ files'[j].run = files[j].run
                         /\ j # i => files'[j] = files[j]
    BY <1>0, <1>6 DEF InputTypes, Directory
  <2>2. OnDisk(files)' = OnDisk(files)
    BY <2>1 DEF OnDisk
  <2>3. \A j \in OnDisk(files), k \in OnDisk(files) : j < k => files'[j].st = "done"
    <3> SUFFICES ASSUME NEW j \in OnDisk(files), NEW k \in OnDisk(files), j < k
                 PROVE  files'[j].st = "done"
      OBVIOUS
    <3>1. j \in Index /\ k \in Index
      BY DEF OnDisk
    <3>2. j # i
      BY <1>0, <1>1, <3>1
    <3>. QED  BY <2>1, <3>1, <3>2 DEF LastRunsFiles
  <2>4. \A j \in OnDisk(files) : j \in Index
    BY DEF OnDisk
  <2>5. \A j \in OnDisk(files)' : /\ files'[j].run \in Spawned'
                                  /\ \A k \in Spawned' : k <= files'[j].run
                                  /\ 0 \in OnDisk(files)'
    BY <1>2, <2>1, <2>2, <2>4 DEF LastRunsFiles
  <2>6. \A k \in Runs : Alive(k)' => /\ files'[ffmpeg'[k].at].run = k
                                     /\ \A j \in OnDisk(files)' : j <= ffmpeg'[k].at
    BY <1>0, <1>1, <1>2, <1>3, <1>6, <2>1, <2>2
  <2>7. LastRunsFiles'
    BY <1>4, <1>5, <2>2, <2>3, <2>5, <2>6 DEF LastRunsFiles
  <2>. QED  BY <1>0, <1>1, <1>6, <2>1, <2>2, <2>4, <2>7
<1>7. CASE /\ i < MaxIndex
           /\ files' = [files EXCEPT ![i].st = "done", ![i + 1] = [run |-> r, st |-> "empty"]]
           /\ ffmpeg' = [ffmpeg EXCEPT ![r].at = i + 1]
  <2>0. i + 1 \in Index /\ i \in Nat
    BY <1>0, <1>7, InputNat DEF Index
  <2>1. \A j \in Index : /\ j # i + 1 => files'[j].run = files[j].run
                         /\ j # i + 1 /\ j # i => files'[j] = files[j]
                         /\ j = i => files'[j].st = "done"
                         /\ j = i + 1 => files'[j] = [run |-> r, st |-> "empty"]
    <3> DEFINE half == [files EXCEPT ![i].st = "done"]
    <3>1. \A j \in Index : half[j] = IF j = i THEN [files[j] EXCEPT !.st = "done"] ELSE files[j]
      BY <1>0 DEF InputTypes, Directory
    <3>2. half \in Directory
      BY <1>0 DEF InputTypes, Directory
    <3>3. files' = [half EXCEPT ![i + 1] = [run |-> r, st |-> "empty"]]
      BY <1>7
    <3> HIDE DEF half
    <3>4. \A j \in Index : files'[j] = IF j = i + 1 THEN [run |-> r, st |-> "empty"] ELSE half[j]
      BY <2>0, <3>2, <3>3 DEF Directory
    <3>5. \A j \in Index : files[j] \in [run : Runs \cup {0}, st : {"absent", "empty", "partial", "done"}]
      BY DEF InputTypes, Directory
    <3>6. i # i + 1
      BY <2>0
    <3> HIDE DEF i
    <3>7. \A j \in Index : j # i + 1 => files'[j].run = files[j].run
      BY <3>1, <3>4, <3>5
    <3>8. \A j \in Index : j # i + 1 /\ j # i => files'[j] = files[j]
      BY <3>1, <3>4
    <3>9. \A j \in Index : j = i => files'[j].st = "done"
      <4>1. files'[i] = [files[i] EXCEPT !.st = "done"] /\ i \in Index
        BY <1>0, <3>1, <3>4, <3>6
      <4>. QED  BY <3>5, <4>1
    <3>. QED  BY <3>4, <3>7, <3>8, <3>9
  <2>2. i + 1 \notin OnDisk(files)
    BY <1>1, <2>0
  <2>3. OnDisk(files)' = OnDisk(files) \cup {i + 1}
    BY <1>0, <2>0, <2>1 DEF OnDisk
  <2>4. \A j \in OnDisk(files) : j \in Index /\ j # i + 1 /\ j <= i
    BY <1>1, <2>2 DEF OnDisk
  <2>5. \A j \in OnDisk(files) : files'[j].run = files[j].run /\ (files[j].st = "done" => files'[j].st = "done")
    BY <2>1, <2>4
  <2>6. \A j \in OnDisk(files) : files'[j].st = "done"
    <3> SUFFICES ASSUME NEW j \in OnDisk(files) PROVE files'[j].st = "done"
      OBVIOUS
    <3>1. CASE j = i
      BY <1>0, <2>1, <3>1
    <3>2. CASE j # i
      <4>1. j < i
        <5>1. j \in Nat /\ i \in Nat /\ j <= i
          BY <1>0, <2>4
        <5> HIDE DEF i
        <5>. QED  BY <3>2, <5>1
      <4>2. files[j].st = "done"
        BY <1>1, <4>1 DEF LastRunsFiles
      <4>. QED  BY <2>5, <4>2
    <3>. QED  BY <3>1, <3>2
  <2>7. files'[i + 1].run = r
    BY <2>0, <2>1
  <2>8. ffmpeg'[r].at = i + 1
    BY <1>7 DEF InputTypes, Processes
  <2>9. \A j \in OnDisk(files)' : /\ files'[j].run \in Spawned' /\ \A k \in Spawned' : k <= files'[j].run
                                  /\ 0 \in OnDisk(files)'
    <3>1. \A j \in OnDisk(files)' : files'[j].run = r \/ (j \in OnDisk(files) /\ files'[j].run = files[j].run)
      BY <2>3, <2>5, <2>7
    <3>2. r \in Spawned /\ (\A k \in Spawned : k <= r) /\ 0 \in OnDisk(files)
      BY <1>0, <1>1 DEF LastRunsFiles
    <3>. QED  BY <1>2, <2>3, <3>1, <3>2 DEF LastRunsFiles
  <2>10. \A j \in OnDisk(files)', k \in OnDisk(files)' : j < k => files'[j].st = "done"
    <3> SUFFICES ASSUME NEW j \in OnDisk(files)', NEW k \in OnDisk(files)', j < k
                 PROVE  files'[j].st = "done"
      OBVIOUS
    <3>1. j # i + 1
      <4>0. k = i + 1 \/ k <= i
        BY <2>3, <2>4
      <4>1. j \in Nat /\ k \in Nat /\ i \in Nat
        BY <1>0, <2>0, <2>3, <2>4
      <4> HIDE DEF i
      <4>. QED  BY <4>0, <4>1
    <3>. QED  BY <2>3, <2>6, <3>1
  <2>11. \A k \in Runs : Alive(k)' => /\ files'[ffmpeg'[k].at].run = k
                                      /\ \A j \in OnDisk(files)' : j <= ffmpeg'[k].at
    <3>1. \A j \in OnDisk(files)' : j <= i + 1
      <4> SUFFICES ASSUME NEW j \in OnDisk(files)' PROVE j <= i + 1
        OBVIOUS
      <4>1. (j = i + 1 \/ j <= i) /\ j \in Nat /\ i \in Nat
        BY <1>0, <2>0, <2>3, <2>4
      <4> HIDE DEF i
      <4>. QED  BY <4>1
    <3>. QED  BY <1>2, <1>3, <2>7, <2>8, <3>1
  <2>12. LastRunsFiles'
    BY <1>4, <1>5, <2>9, <2>10, <2>11 DEF LastRunsFiles
  <2>. QED  BY <1>0, <1>1, <2>3, <2>5, <2>7, <2>12
<1>. QED  BY <1>1, <1>6, <1>7 DEF Produce

LEMMA NoNewSpawn ==
    ASSUME InputTypes, NEW l \in Lives,
           MonitorNotes(l) \/ WatchLoopEnds(l) \/ WatchSeesCrash(l) \/ WatchSeesHang(l) \/ WatchWakes(l)
    PROVE  \A k \in Lives : watch'[k].pc = "spawn" => watch[k].pc = "spawn"
<1>1. watch \in Watches /\ watch[l] \in Watch
  BY DEF InputTypes, Watches
<1>2. ASSUME NEW w, watch' = [watch EXCEPT ![l] = w], w.pc # "spawn" \/ w.pc = watch[l].pc
      PROVE  \A k \in Lives : watch'[k].pc = "spawn" => watch[k].pc = "spawn"
  BY <1>1, <1>2 DEF Watches
<1>3. CASE MonitorNotes(l)
  BY <1>1, <1>2, <1>3, NotedTyped DEF MonitorNotes
<1>4. CASE WatchLoopEnds(l)
  BY <1>1, <1>4 DEF WatchLoopEnds, Ends, Watches, FreshWatch
<1>5. CASE WatchSeesCrash(l)
  BY <1>1, <1>5 DEF WatchSeesCrash, Restarts, Watches, Watch
<1>6. CASE WatchSeesHang(l)
  BY <1>1, <1>6 DEF WatchSeesHang, Watches, Watch
<1>7. CASE WatchWakes(l)
  <2>1. \/ watch' = [watch EXCEPT ![l] = [watch[l] EXCEPT !.pc = "loop"]]
        \/ watch' = [watch EXCEPT ![l] = BackToLoop(watch[l])]
        \/ watch' = [watch EXCEPT ![l] = [watch[l] EXCEPT !.pc = "gap"]]
    BY <1>1, <1>7 DEF WatchWakes, Watches
  <2>2. /\ [watch[l] EXCEPT !.pc = "loop"].pc = "loop" /\ [watch[l] EXCEPT !.pc = "gap"].pc = "gap"
        /\ BackToLoop(watch[l]).pc = "loop"
    BY <1>1, BackTyped DEF Watch
  <2>. QED  BY <1>2, <2>1, <2>2
<1>. QED  BY <1>3, <1>4, <1>5, <1>6, <1>7

(* The thread of the current watchdog, when it starts a process, is the only one. *)
LEMMA SpawnsAlone ==
    ASSUME InputTypes, OneWatcher, NEW l \in Lives, WatchSpawns(l)
    PROVE  /\ handle = 0 /\ (\A r \in Runs : ~Alive(r))
           /\ \A k \in Lives : watch'[k].pc # "spawn"
<1>1. watch[l].pc = "spawn" /\ ~WatchEnded(watch[l])
  BY DEF WatchSpawns, WatchEnded
<1>2. handle = 0 /\ \A k \in Lives : k # l => WatchEnded(watch[k])
  BY <1>1 DEF OneWatcher
<1>3. \A r \in Runs : ~Alive(r)
  BY <1>2, NoneAlive
<1>4. l = watchdog
  BY <1>1 DEF OneWatcher
<1>5. \A k \in Lives : k # l => watch'[k] = watch[k]
  BY <1>4 DEF WatchSpawns, InputTypes, Watches
<1>6. watch'[l].pc = "loop"
  <2>1. watch[l] \in Watch
    BY DEF InputTypes, Watches
  <2>2. CanLaunch => Attached(watch[l], NextRun) \in Watch
    BY <2>1, AttachedTyped, NextIsFree
  <2>3. watch'[l] = BackToLoop(watch[l]) \/ (CanLaunch /\ watch'[l] = BackToLoop(Attached(watch[l], NextRun)))
    BY <1>4 DEF WatchSpawns, InputTypes, Watches
  <2>. QED  BY <2>1, <2>2, <2>3, BackTyped
<1>. QED  BY <1>2, <1>3, <1>5, <1>6 DEF WatchEnded

LEMMA StartsAlone ==
    ASSUME InputTypes, OneWatcher, Start
    PROVE  /\ handle = 0 /\ (\A r \in Runs : ~Alive(r)) /\ api = "starting"
           /\ \A k \in Lives : watch'[k].pc # "spawn"
<1>1. PICK ws, wd : /\ StartSpawn(ws, wd)
                    /\ \/ ws = watch
                       \/ ws = [watch EXCEPT ![input_life] = [FreshWatch EXCEPT !.run = NextRun]]
  BY DEF Start, SrtStart, RtmpStart, FileStart
<1>2. api = "starting" /\ handle = 0 /\ \A l \in Lives : WatchEnded(watch[l])
  BY <1>1, NoWatch DEF StartSpawn
<1>3. watch' = ws \/ watch' = watch
  BY <1>1 DEF StartSpawn, Started
<1>4. \A k \in Lives : watch'[k].pc # "spawn"
  BY <1>1, <1>2, <1>3 DEF WatchEnded, InputTypes, Watches, FreshWatch
<1>. QED  BY <1>2, <1>4, NoneAlive

LEMMA FilesStep ==
    ASSUME InputTypes, RunsInOrder, OneWatcher, LastRunsFiles, kind # "file", [INext]_ivars
    PROVE  LastRunsFiles'
<1>1. ASSUME UNCHANGED <<ffmpeg, files>>, \A l \in Lives : watch'[l].pc = "spawn" => watch[l].pc = "spawn"
      PROVE  LastRunsFiles'
  BY <1>1, FilesStay DEF Spawned, Alive
<1>2. ASSUME Release, UNCHANGED files, \A l \in Lives : watch'[l].pc = "spawn" => watch[l].pc = "spawn"
      PROVE  LastRunsFiles'
  BY <1>2, FilesStay, ReleaseKeeps
<1>3. CASE StartBegin
  <2>1. Release /\ UNCHANGED files /\ watch' = Told(watch)
    BY <1>3 DEF StartBegin
  <2>. QED  BY <1>2, <2>1, ToldTyped DEF InputTypes
<1>4. CASE Start
  <2>0. (\A r \in Runs : ~Alive(r)) /\ \A k \in Lives : watch'[k].pc # "spawn"
    BY <1>4, StartsAlone
  <2>1. \E ws, wd : Started(ws, wd)
    BY <1>4 DEF Start, SrtStart, RtmpStart, FileStart, StartSpawn
  <2>2. CASE CanLaunch /\ files' = Purged(FirstFile) /\ ffmpeg' = Launch(ffmpeg)
    <3>1. FirstFile \in [run : Runs \cup {0}, st : {"absent", "empty", "partial", "done"}]
          /\ FirstFile.run = NextRun /\ Absent.run = 0
      BY <2>2, LaunchTyped, AbsentTyped DEF InputTypes
    <3>2. \A i \in Index : files'[i].run = IF i = 0 THEN NextRun ELSE 0
      BY <2>2, <3>1, PurgedTyped
    <3>. QED  BY <2>0, <2>2, <3>2, FirstFileOnly
  <2>3. CASE files' = Purged(Absent) /\ ffmpeg' = ffmpeg
    BY <2>0, <2>3, NoFiles DEF Alive
  <2>. QED  BY <2>1, <2>2, <2>3 DEF Started
<1>5. CASE StartPaused
  BY <1>5 DEF StartPaused
<1>6. CASE StopBegin
  <2>1. UNCHANGED <<ffmpeg, files>> /\ watch' = Told(watch)
    BY <1>6 DEF StopBegin, fileVars
  <2>. QED  BY <1>1, <2>1, ToldTyped DEF InputTypes
<1>7. CASE StopKill
  BY <1>2, <1>7 DEF StopKill
<1>8. CASE ReconfigureInput \/ UNCHANGED ivars
  BY <1>1, <1>8 DEF ReconfigureInput, ivars, fileVars, watchVars
<1>9. ASSUME NEW r \in Runs, Produce(r) \/ Disturb(r) PROVE LastRunsFiles'
  <2>1. CASE Produce(r)
    BY <2>1, ProducedFiles
  <2>2. CASE Disturb(r)
    <3>1. files' = files /\ watch' = watch
      BY <2>2 DEF Disturb, watchVars
    <3>. QED  BY <2>2, <3>1, DisturbKeeps, FilesStay
  <2>. QED  BY <1>9, <2>1, <2>2
<1>10. ASSUME NEW l \in Lives, MonitorNotes(l) \/ WatchStep(l) PROVE LastRunsFiles'
  <2>1. CASE MonitorNotes(l) \/ WatchLoopEnds(l) \/ WatchSeesCrash(l)
    <3>1. UNCHANGED <<ffmpeg, files>>
      BY <2>1 DEF MonitorNotes, WatchLoopEnds, WatchSeesCrash, fileVars
    <3>. QED  BY <1>1, <2>1, <3>1, NoNewSpawn
  <2>2. CASE WatchSeesHang(l)
    <3>1. files' = files /\ \A k \in Lives : watch'[k].pc = "spawn" => watch[k].pc = "spawn"
      BY <2>2, NoNewSpawn DEF WatchSeesHang
    <3>2. CASE ffmpeg' = ffmpeg
      BY <1>1, <3>1, <3>2
    <3>3. CASE ffmpeg' = Kill(ffmpeg, watch[l].run)
      <4>1. watch[l].run \in Runs /\ watch[l].run \in Spawned
        BY <2>2 DEF WatchSeesHang, Spawned, InputTypes, Watches, Watch
      <4>0. ffmpeg \in Processes /\ watch[l].run \in Runs \cup {0}
        BY <4>1 DEF InputTypes
      <4>2. \A k \in Runs : ffmpeg'[k] = IF k = watch[l].run THEN [st |-> "dead", at |-> 0]
                                                              ELSE ffmpeg[k]
        BY <3>3, <4>0, KilledNow
      <4>3. Spawned' = Spawned /\ \A k \in Runs : Alive(k)' <=> (k # watch[l].run /\ Alive(k))
        BY <4>1, <4>2, KillKeeps
      <4>. QED  BY <3>1, <4>2, <4>3, FilesStay
    <3>. QED  BY <2>2, <3>2, <3>3 DEF WatchSeesHang
  <2>3. CASE WatchWakes(l)
    <3>1. files' = files /\ (ffmpeg' = ffmpeg \/ Release)
      BY <2>3 DEF WatchWakes
    <3>. QED  BY <1>1, <1>2, <2>3, <3>1, NoNewSpawn
  <2>4. CASE WatchPurges(l)
    <3>1. watch[l].pc = "gap" /\ ffmpeg' = ffmpeg
      BY <2>4 DEF WatchPurges
    <3>2. \A r \in Runs : ~Alive(r)'
      <4>1. handle = 0
        BY <3>1 DEF OneWatcher, WatchEnded
      <4>. QED  BY <3>1, <4>1, NoneAlive DEF Alive
    <3>3. CASE files' = Purged(Absent)
      BY <3>2, <3>3, NoFiles
    <3>4. CASE files' = files /\ watch' = [watch EXCEPT ![l] = BackToLoop(@)]
      <4>1. \A k \in Lives : watch'[k].pc = "spawn" => watch[k].pc = "spawn"
        BY <3>4, BackTyped DEF InputTypes, Watches
      <4>. QED  BY <1>1, <3>1, <3>4, <4>1
    <3>. QED  BY <2>4, <3>3, <3>4 DEF WatchPurges
  <2>5. CASE WatchSpawns(l)
    <3>1. (\A r \in Runs : ~Alive(r)) /\ \A k \in Lives : watch'[k].pc # "spawn"
      BY <2>5, SpawnsAlone
    <3>2. OnDisk(files) = {}
      BY <2>5 DEF WatchSpawns, LastRunsFiles
    <3>3. CASE CanLaunch /\ ffmpeg' = Launch(ffmpeg) /\ files' = [files EXCEPT ![0] = FirstFile]
      <4>1. \A i \in Index : files[i].run = 0
        BY <3>2 DEF OnDisk
      <4>2. 0 \in Index /\ NextRun \in Runs /\ NextRun # 0
        BY <3>3, InputNat, LaunchKeeps DEF Index
      <4>3. \A i \in Index : files'[i].run = IF i = 0 THEN NextRun ELSE 0
        BY <3>3, <4>1, <4>2 DEF InputTypes, Directory, FirstFile
      <4>. QED  BY <3>1, <3>3, <4>3, FirstFileOnly
    <3>4. CASE UNCHANGED <<ffmpeg, files>>
      BY <1>1, <3>1, <3>4
    <3>. QED  BY <2>5, <3>3, <3>4 DEF WatchSpawns
  <2>. QED  BY <1>10, <2>1, <2>2, <2>3, <2>4, <2>5 DEF WatchStep
<1>11. ~(Pause \/ Play \/ Seek \/ PlaybackSpawn)
  BY DEF Pause, Play, Seek, PlaybackSpawn, OneWatcher
<1>12. CASE ReaderLists \/ ReaderPicks \/ ReaderDelivers \/ ReaderRepeats
  <2>1. UNCHANGED <<ffmpeg, files>>
    BY <1>12 DEF ReaderLists, ReaderPicks, ReaderDelivers, ReaderRepeats, fileVars
  <2>2. CASE watch' = watch
    BY <1>1, <2>1, <2>2
  <2>3. CASE watchdog # 0 /\ watch' = [watch EXCEPT ![watchdog] = Noted(@, TRUE)]
    <3>1. watchdog \in Lives
      BY <2>3, InputNat DEF Lives, InputTypes
    <3>2. \A k \in Lives : watch'[k].pc = "spawn" => watch[k].pc = "spawn"
      BY <2>3, <3>1, NotedTyped DEF InputTypes, Watches
    <3>. QED  BY <1>1, <2>1, <3>2
  <2>4. watch' = watch \/ (watchdog # 0 /\ watch' = [watch EXCEPT ![watchdog] = Noted(@, TRUE)])
    BY <1>12 DEF ReaderLists, ReaderPicks, ReaderDelivers, ReaderRepeats, watchVars
  <2>. QED  BY <2>2, <2>3, <2>4
<1>. QED  BY <1>3, <1>4, <1>5, <1>6, <1>7, <1>8, <1>9, <1>10, <1>11, <1>12 DEF INext

-----------------------------------------------------------------------------
(* What the input thread reads. *)
LEMMA ReaderStays ==
    ASSUME ReaderSound, UNCHANGED <<kind, files, last_index, got>>, Spawned \subseteq Spawned',
           reader' = reader \/ reader'.pc \in {"off", "idle"}
    PROVE  ReaderSound'
<1>1. OnDisk(files)' = OnDisk(files)
  BY DEF OnDisk
<1>. QED  BY <1>1 DEF ReaderSound, Readable

(* Whoever purges the directory starts the next process on a directory no one is reading. *)
LEMMA ReaderRestarts ==
    ASSUME InputTypes, got.run \in Spawned \cup {0}, got' = got, Spawned \subseteq Spawned',
           reader'.pc \in {"off", "idle"},
           OnDisk(files)' = {} \/ (/\ OnDisk(files)' = {0} /\ files'[0].run \notin Spawned \cup {0})
    PROVE  ReaderSound'
  BY DEF ReaderSound

LEMMA ListedReadable ==
    ASSUME InputTypes, LastRunsFiles, ReaderLists, kind # "file"
    PROVE  reader'.pc = "listed" /\ \A i \in reader'.listed : Readable(i)
<1> DEFINE all == OnDisk(files)
<1>1. \A i \in AllButNewest(all) : Readable(i)
  BY DEF AllButNewest, LastRunsFiles, Readable
<1>2. kind = "srt" => \A i \in SrtTakes(all) : Readable(i)
  <2> SUFFICES ASSUME kind = "srt", Cardinality(all) = 1 PROVE \A i \in all : Readable(i)
    BY <1>1 DEF SrtTakes
  <2>1. IsFiniteSet(Index) /\ all \subseteq Index
    BY InputNat, FS_Interval DEF Index, OnDisk
  <2>2. IsFiniteSet(all)
    BY <2>1, FS_Subset
  <2>3. PICK x : all = {x}
    <3> HIDE DEF all
    <3> QED  BY <2>2, FS_Singleton
  <2>4. 0 \in all
    BY <2>3 DEF LastRunsFiles
  <2>5. \A i \in all : i = 0
    BY <2>3, <2>4
  <2>. QED  BY <2>5 DEF Readable
<1>3. /\ reader' = [reader EXCEPT !.pc = "listed",
                                  !.listed = IF kind = "srt" THEN SrtTakes(all) ELSE AllButNewest(all)]
  BY DEF ReaderLists
<1>4. reader'.pc = "listed" /\ reader'.listed = IF kind = "srt" THEN SrtTakes(all) ELSE AllButNewest(all)
  BY <1>3 DEF InputTypes, Readers
<1>. QED  BY <1>1, <1>2, <1>4

(* The choice never meets a file that is gone, and never goes back. *)
LEMMA PickedSound ==
    ASSUME InputTypes, ReaderSound, ReaderPicks, kind # "file"
    PROVE  ReaderSound'
<1> DEFINE unread == {i \in reader.listed : Unread(i)}
           empty  == IF kind = "srt" THEN {i \in unread : files[i].st = "empty"} ELSE {}
           usable == unread \ empty
<1>0. UNCHANGED <<kind, files, ffmpeg, got>> /\ reader.pc = "listed"
  BY DEF ReaderPicks, apiVars
<1>1. \A i \in reader.listed : Readable(i) /\ i \in OnDisk(files) /\ files[i] # Absent
  BY <1>0, AbsentTyped DEF ReaderSound, Readable, OnDisk
<1>2. unread \in SUBSET Index /\ empty \in SUBSET Index /\ usable \in SUBSET Index
      /\ \A i \in unread : i > last_index
  BY DEF Readers, InputTypes, Unread
<1>3. \/ reader' = IdleReader /\ last_index' = IF empty = {} THEN last_index ELSE Max(empty)
      \/ /\ usable # {} /\ reader' = [reader EXCEPT !.pc = "open", !.pick = Min(usable)]
         /\ last_index' = Min(usable)
  BY <1>1 DEF ReaderPicks
<1>4. empty # {} => Max(empty) \in unread
  <2>1. empty # {} => Max(empty) \in empty
    <3> HIDE DEF empty
    <3> QED  BY <1>2, IndexSets
  <2>. QED  BY <2>1
<1>5. usable # {} => Min(usable) \in unread
  <2>1. usable # {} => Min(usable) \in usable
    <3> HIDE DEF usable
    <3> QED  BY <1>2, IndexSets
  <2>. QED  BY <2>1
<1>6. unread \subseteq reader.listed
  OBVIOUS
<1> HIDE DEF unread, empty, usable
<1>7. last_index' \in Int /\ last_index \in Int /\ last_index <= last_index'
      /\ (reader'.pc = "open" => last_index < last_index')
  <2>1. Index \subseteq Int /\ last_index \in Int
    BY InputNat DEF Index, InputTypes
  <2>2. IdleReader.pc = "idle"
    BY DEF IdleReader
  <2>. QED  BY <1>2, <1>3, <1>4, <1>5, <2>1, <2>2
<1>8. OnDisk(files)' = OnDisk(files) /\ Spawned' = Spawned /\ \A i : Readable(i)' <=> Readable(i)
  BY <1>0 DEF OnDisk, Spawned, Readable
<1>9. \A i \in OnDisk(files) : files[i].run = got.run => got.index <= last_index
  BY DEF ReaderSound
<1>10. got.index \in Int
  BY InputNat DEF InputTypes, Index
<1>11. \A i \in OnDisk(files)' : files'[i].run = got'.run => got'.index <= last_index'
  BY <1>0, <1>7, <1>8, <1>9, <1>10
<1>12. CASE reader' = IdleReader
  BY <1>0, <1>8, <1>11, <1>12 DEF ReaderSound, IdleReader
<1>13. CASE /\ usable # {} /\ reader' = [reader EXCEPT !.pc = "open", !.pick = Min(usable)]
            /\ last_index' = Min(usable)
  <2>1. reader'.pc = "open" /\ reader'.pick = last_index'
    BY <1>13 DEF InputTypes, Readers
  <2>2. Readable(last_index') /\ last_index' \in OnDisk(files)
    BY <1>1, <1>5, <1>6, <1>13
  <2>3. files[last_index'].run = got.run => got.index < last_index'
    BY <1>7, <1>9, <1>10, <2>1, <2>2
  <2>. QED  BY <1>0, <1>8, <1>11, <2>1, <2>2, <2>3 DEF ReaderSound
<1>. QED  BY <1>3, <1>12, <1>13

LEMMA DeliveredSound ==
    ASSUME InputTypes, ReaderSound, LastRunsFiles, ReaderDelivers, kind # "file"
    PROVE  /\ ReaderSound' /\ reader' = IdleReader
           /\ got'.run = files[reader.pick].run /\ got'.index = reader.pick
           /\ got'.st = files[reader.pick].st /\ Readable(reader.pick)
           /\ got'.run \in Spawned /\ (got'.run = got.run => got.index < got'.index)
<1>0. UNCHANGED <<kind, files, ffmpeg, last_index>> /\ reader.pc = "open"
  BY DEF ReaderDelivers, apiVars, fileVars
<1>1. Readable(reader.pick) /\ reader.pick = last_index
      /\ (files[reader.pick].run = got.run => got.index < reader.pick)
  BY <1>0 DEF ReaderSound
<1>2. reader.pick \in OnDisk(files) /\ files[reader.pick] # Absent
  BY <1>1, AbsentTyped DEF Readable, OnDisk
<1>3. /\ reader' = IdleReader
      /\ got'.run = files[reader.pick].run /\ got'.index = reader.pick
      /\ got'.st = files[reader.pick].st
  BY <1>2 DEF ReaderDelivers
<1>4. got'.run \in Spawned
  BY <1>2, <1>3 DEF LastRunsFiles
<1>5. OnDisk(files)' = OnDisk(files) /\ Spawned' = Spawned
  BY <1>0 DEF OnDisk, Spawned
<1>6. reader.pick \in Int
  BY InputNat DEF InputTypes, Readers, Index
<1>7. ReaderSound'
  BY <1>0, <1>1, <1>3, <1>4, <1>5, <1>6 DEF ReaderSound, IdleReader
<1>. QED  BY <1>1, <1>3, <1>4, <1>7

LEMMA ReaderStep ==
    ASSUME InputTypes, RunsInOrder, ReaderOff, OneWatcher, LastRunsFiles, kind # "file",
           got.run \in Spawned \cup {0}, ~raced => ReaderSound, ~raced', [INext]_ivars
    PROVE  ReaderSound'
<1>0. Spawned \subseteq Spawned'
  BY InOrderStep
<1>1. ASSUME ~raced, UNCHANGED <<kind, files, last_index, got>>,
             reader' = reader \/ reader'.pc \in {"off", "idle"}
      PROVE  ReaderSound'
  BY <1>0, <1>1, ReaderStays
<1>2. CASE StartBegin \/ StopBegin \/ StopKill \/ ReconfigureInput \/ UNCHANGED ivars
  BY <1>1, <1>2 DEF StartBegin, StopBegin, StopKill, ReconfigureInput, ivars, apiVars, fileVars,
                    readVars, history, IdleReader
<1>3. CASE Start
  <2>0. (\A r \in Runs : ~Alive(r)) /\ (\A k \in Lives : watch'[k].pc # "spawn") /\ api = "starting"
    BY <1>3, StartsAlone
  <2>1. got' = got /\ \E ws, wd : Started(ws, wd)
    BY <1>3 DEF Start, SrtStart, RtmpStart, FileStart, StartSpawn
  <2>2. CASE CanLaunch /\ files' = Purged(FirstFile) /\ ffmpeg' = Launch(ffmpeg) /\ reader' = IdleReader
    <3>1. FirstFile \in [run : Runs \cup {0}, st : {"absent", "empty", "partial", "done"}]
          /\ FirstFile.run = NextRun /\ Absent.run = 0
      BY <2>2, LaunchTyped, AbsentTyped DEF InputTypes
    <3>2. \A i \in Index : files'[i].run = IF i = 0 THEN NextRun ELSE 0
      BY <2>2, <3>1, PurgedTyped
    <3>3. OnDisk(files)' = {0} /\ files'[0].run = NextRun
      BY <2>0, <2>2, <3>2, FirstFileOnly
    <3>4. NextRun \notin Spawned \cup {0}
      BY <2>2, LaunchKeeps
    <3>. QED  BY <1>0, <2>1, <2>2, <3>3, <3>4, ReaderRestarts DEF IdleReader
  <2>3. CASE files' = Purged(Absent) /\ UNCHANGED <<ffmpeg, reader>>
    <3>1. OnDisk(files)' = {}
      BY <2>0, <2>3, NoFiles DEF Alive
    <3>2. reader'.pc = "off"
      BY <2>0, <2>3 DEF ReaderOff
    <3>. QED  BY <1>0, <2>1, <3>1, <3>2, ReaderRestarts
  <2>. QED  BY <2>1, <2>2, <2>3 DEF Started
<1>4. CASE StartPaused
  BY <1>4 DEF StartPaused
<1>5. ASSUME NEW r \in Runs, Disturb(r) PROVE ReaderSound'
  BY <1>1, <1>5 DEF Disturb, apiVars, readVars, history
<1>6. ASSUME NEW r \in Runs, Produce(r) PROVE ReaderSound'
  <2>1. UNCHANGED <<kind, reader, got, last_index, raced>>
    BY <1>6 DEF Produce, apiVars, readVars, history
  <2>2. /\ \A i \in OnDisk(files) : i \in OnDisk(files)' /\ files'[i].run = files[i].run
        /\ \A i \in OnDisk(files) : files[i].st = "done" => files'[i].st = "done"
        /\ \A i \in OnDisk(files)' : files'[i].run = r \/ i \in OnDisk(files)
        /\ ffmpeg[r].at \in OnDisk(files) /\ files[ffmpeg[r].at].run = r
    BY <1>6, ProducedFiles
  <2>3. ReaderSound
    BY <2>1
  <2>4. \A i : Readable(i) => Readable(i)' /\ files'[i].run = files[i].run
    BY <2>1, <2>2 DEF Readable
  <2>5. \A i \in OnDisk(files)' : files'[i].run = got'.run => got'.index <= last_index'
    BY <2>1, <2>2, <2>3 DEF ReaderSound
  <2>. QED  BY <1>0, <2>1, <2>3, <2>4, <2>5 DEF ReaderSound
<1>7. ASSUME NEW l \in Lives, MonitorNotes(l) \/ WatchStep(l) PROVE ReaderSound'
  <2>1. CASE MonitorNotes(l) \/ WatchLoopEnds(l) \/ WatchSeesCrash(l) \/ WatchSeesHang(l) \/ WatchWakes(l)
    BY <1>1, <2>1 DEF MonitorNotes, WatchLoopEnds, WatchSeesCrash, WatchSeesHang, WatchWakes,
                      apiVars, fileVars, readVars, history
  <2>2. CASE WatchPurges(l)
    <3>1. watch[l].pc = "gap" /\ UNCHANGED <<kind, ffmpeg, reader, got>>
      BY <2>2 DEF WatchPurges, apiVars, readVars
    <3>2. CASE files' = Purged(Absent) /\ raced' = (raced \/ Reading)
      <4>1. ~raced /\ reader.pc \notin {"listed", "open"}
        BY <3>2 DEF Reading
      <4>2. reader'.pc \in {"off", "idle"}
        BY <3>1, <4>1 DEF ReaderSound, InputTypes, Readers
      <4>3. handle = 0
        BY <3>1 DEF OneWatcher, WatchEnded
      <4>4. OnDisk(files)' = {}
        BY <3>1, <3>2, <4>3, NoneAlive, NoFiles DEF Alive
      <4>. QED  BY <1>0, <3>1, <4>2, <4>4, ReaderRestarts
    <3>3. CASE UNCHANGED <<last_index, files, raced>>
      BY <1>1, <3>1, <3>3
    <3>. QED  BY <2>2, <3>2, <3>3 DEF WatchPurges
  <2>3. CASE WatchSpawns(l)
    <3>0. UNCHANGED <<kind, reader, got, last_index, raced>>
      BY <2>3 DEF WatchSpawns, apiVars, readVars, history
    <3>1. OnDisk(files) = {} /\ ~raced
      BY <2>3, <3>0 DEF WatchSpawns, LastRunsFiles
    <3>2. CASE UNCHANGED files
      BY <1>1, <3>0, <3>1, <3>2
    <3>3. CASE CanLaunch /\ ffmpeg' = Launch(ffmpeg) /\ files' = [files EXCEPT ![0] = FirstFile]
      <4>1. \A i \in Index : files[i].run = 0
        BY <3>1 DEF OnDisk
      <4>2. 0 \in Index /\ NextRun \in Runs /\ NextRun # 0 /\ NextRun \notin Spawned
        BY <3>3, InputNat, LaunchKeeps DEF Index
      <4>3. \A i \in Index : files'[i].run = IF i = 0 THEN NextRun ELSE 0
        BY <3>3, <4>1, <4>2 DEF InputTypes, Directory, FirstFile
      <4>4. OnDisk(files)' = {0} /\ files'[0].run = NextRun
        BY <4>2, <4>3 DEF OnDisk
      <4>5. reader.pc # "open" /\ (reader.pc = "listed" => reader.listed = {})
        BY <3>1 DEF ReaderSound, Readable
      <4>6. ReaderSound
        BY <3>1
      <4>. QED  BY <1>0, <3>0, <4>2, <4>4, <4>5, <4>6 DEF ReaderSound
    <3>. QED  BY <2>3, <3>2, <3>3 DEF WatchSpawns
  <2>. QED  BY <1>7, <2>1, <2>2, <2>3 DEF WatchStep
<1>8. ~(Pause \/ Play \/ Seek \/ PlaybackSpawn \/ ReaderRepeats)
  BY DEF Pause, Play, Seek, PlaybackSpawn, OneWatcher, ReaderRepeats
<1>9. CASE ReaderLists
  <2>1. UNCHANGED <<kind, files, ffmpeg, last_index, got, raced>>
    BY <1>9 DEF ReaderLists, apiVars, fileVars, history
  <2>2. OnDisk(files)' = OnDisk(files) /\ \A i : Readable(i)' <=> Readable(i)
    BY <2>1 DEF OnDisk, Readable
  <2>. QED  BY <1>0, <1>9, <2>1, <2>2, ListedReadable DEF ReaderSound
<1>10. CASE ReaderPicks \/ ReaderDelivers
  <2>1. ~raced
    BY <1>10 DEF ReaderPicks, ReaderDelivers, history
  <2>. QED  BY <1>10, <2>1, PickedSound, DeliveredSound
<1>. QED  BY <1>2, <1>3, <1>4, <1>5, <1>6, <1>7, <1>8, <1>9, <1>10 DEF INext

LEMMA GotStep ==
    ASSUME InputTypes, RunsInOrder, LastRunsFiles, kind # "file", got.run \in Spawned \cup {0},
           [INext]_ivars
    PROVE  got'.run \in Spawned' \cup {0}
<1>0. Spawned \subseteq Spawned'
  BY InOrderStep
<1>1. CASE ReaderDelivers
  <2>1. reader.pick \in Index
    BY DEF InputTypes, Readers
  <2>2. got' = got \/ \E d : got' = [run |-> files[reader.pick].run, index |-> reader.pick,
                                     st |-> files[reader.pick].st, offset |-> Snapshot(d)]
    BY <1>1 DEF ReaderDelivers
  <2>3. files[reader.pick].run \in Spawned \cup {0}
    BY <2>1 DEF LastRunsFiles, OnDisk
  <2>. QED  BY <1>0, <2>2, <2>3
<1>2. ~ReaderRepeats
  BY DEF ReaderRepeats
<1>3. CASE ~ReaderDelivers
  <2>1. got' = got
    BY <1>2, <1>3 DEF INext, ivars, StartBegin, Start, SrtStart, RtmpStart, FileStart, StartSpawn,
       StartPaused, StopBegin, StopKill, ReconfigureInput, Produce, Disturb, MonitorNotes, WatchStep,
       WatchLoopEnds, WatchSeesCrash, WatchSeesHang, WatchWakes, WatchPurges, WatchSpawns,
       Pause, Play, Seek, PlaybackSpawn, ReaderLists, ReaderPicks, readVars
  <2>. QED  BY <1>0, <2>1
<1>. QED  BY <1>1, <1>3

-----------------------------------------------------------------------------
LEMMA InputInitHolds == IInit => InputInv /\ ClockAgrees
<1> SUFFICES ASSUME IInit PROVE InputInv /\ ClockAgrees
  OBVIOUS
<1>1. InputTypeOK
  BY InputInitTypes, SameTypes
<1>2. \A r \in Runs \cup {0} : ~Alive(r)
  BY DEF IInit, Alive
<1>3. Spawned = {} /\ OnDisk(files) = {}
  BY AbsentTyped DEF IInit, Spawned, OnDisk
<1>4. \A l \in Lives : WatchEnded(watch[l]) /\ watch[l].pc = "none"
  BY DEF IInit, WatchEnded, FreshWatch
<1>5. reader.pc = "off"
  BY DEF IInit, IdleReader
<1>6. got.run = 0
  BY DEF IInit, Nothing
<1>7. OneWatcher
  BY <1>2, <1>4 DEF IInit, OneWatcher
<1>8. LastRunsFiles
  BY <1>2, <1>3, <1>4 DEF LastRunsFiles
<1>9. ReaderSound
  BY <1>3, <1>5, <1>6 DEF ReaderSound
<1>10. ReaderOff /\ RunsInOrder
  BY <1>3, <1>5 DEF IInit, ReaderOff, RunsInOrder
<1>11. ClockAgrees
  BY DEF IInit, ClockAgrees, NoClock
<1>. QED  BY <1>1, <1>6, <1>7, <1>8, <1>9, <1>10, <1>11 DEF InputInv

LEMMA HistoryGrows == [INext]_ivars => kind' = kind /\ (lingered => lingered')
<1>1. [INext]_ivars => kind' = kind /\ (lingered' = lingered \/ lingered' = TRUE)
  BY DEF INext, ivars, StartBegin, Start, SrtStart, RtmpStart, FileStart, StartSpawn,
       StartPaused, StopBegin, StopKill, ReconfigureInput, Produce, Disturb, MonitorNotes, WatchStep,
       WatchLoopEnds, WatchSeesCrash, WatchSeesHang, WatchWakes, WatchPurges, WatchSpawns,
       Pause, Play, Seek, PlaybackSpawn, ReaderLists, ReaderPicks, ReaderDelivers, ReaderRepeats,
       apiVars, history
<1>. QED  BY <1>1

LEMMA InputStep == InputInv /\ [INext]_ivars => InputInv'
<1> SUFFICES ASSUME InputInv, [INext]_ivars PROVE InputInv'
  OBVIOUS
<1>1. InputTypes /\ RunsInOrder /\ ReaderOff
  BY SameTypes DEF InputInv
<1>2. InputTypeOK'
  BY <1>1, InputStepTypes, SameTypesNext
<1>3. RunsInOrder' /\ ReaderOff'
  BY <1>1, InOrderStep, ReaderOffStep
<1>4. ASSUME ~lingered', kind' # "file"
      PROVE  OneWatcher' /\ LastRunsFiles' /\ got'.run \in Spawned' \cup {0}
             /\ (~raced' => ReaderSound')
  <2>1. ~lingered /\ kind # "file"
    BY <1>4, HistoryGrows
  <2>2. OneWatcher /\ LastRunsFiles /\ got.run \in Spawned \cup {0} /\ (~raced => ReaderSound)
    BY <2>1 DEF InputInv
  <2>. QED  BY <1>1, <1>4, <2>1, <2>2, OneWatcherStep, FilesStep, GotStep, ReaderStep
<1>. QED  BY <1>2, <1>3, <1>4 DEF InputInv

(* The inputs without their fairness, as a composition has them. *)
InputSteps == IInit /\ [][INext]_ivars

LEMMA InputHolds == InputSteps => []InputInv
  BY InputInitHolds, InputStep, PTL DEF InputSteps

LEMMA NoOrphanHolds == InputSteps => []NoOrphan
<1>1. InputInv => NoOrphan
  <2> SUFFICES ASSUME InputInv PROVE NoOrphan
    OBVIOUS
  <2>1. handle \in Runs \cup {0} /\ InputTypeOK
    BY DEF InputInv, InputTypeOK
  <2>2. Alive(handle) => handle \in Runs
    BY <2>1 DEF Alive
  <2>. QED  BY <2>1, <2>2 DEF InputInv, NoOrphan, OneWatcher
<1>. QED  BY <1>1, InputHolds, PTL

(* Whatever the watchdog, the source and the restarts do, at most one FFmpeg runs; the
   input holds it and the watchdog watches it: none is left behind by a stop. *)
THEOREM NoFFmpegIsOrphaned == ISpec => []NoOrphan
  BY NoOrphanHolds, PTL DEF ISpec, InputSteps

LEMMA GotMoves ==
    ASSUME kind # "file", [INext]_ivars, got' # got
    PROVE  ReaderDelivers
  BY DEF INext, ivars, StartBegin, Start, SrtStart, RtmpStart, FileStart, StartSpawn,
       StartPaused, StopBegin, StopKill, ReconfigureInput, Produce, Disturb, MonitorNotes, WatchStep,
       WatchLoopEnds, WatchSeesCrash, WatchSeesHang, WatchWakes, WatchPurges, WatchSpawns,
       Pause, Play, Seek, PlaybackSpawn, ReaderLists, ReaderPicks, ReaderRepeats, readVars

LEMMA ReadsHold == InputSteps => ReadsAreSound
<1> DEFINE Sound == ~raced /\ ~lingered =>
        /\ reader'.pc # "dead"
        /\ got' # got /\ kind # "file" =>
               /\ Newer(got', got)
               /\ got'.st # "done" => kind = "srt" /\ got'.index = 0
<1>1. InputInv /\ InputInv' /\ [INext]_ivars => [Sound]_ivars
  <2> SUFFICES ASSUME InputInv, InputInv', [INext]_ivars, ~raced, ~lingered
               PROVE  /\ reader'.pc # "dead"
                      /\ got' # got /\ kind # "file" =>
                            /\ Newer(got', got)
                            /\ got'.st # "done" => kind = "srt" /\ got'.index = 0
    OBVIOUS
  <2>0. InputTypes /\ kind' = kind
    BY SameTypes, HistoryGrows DEF InputInv
  <2>1. CASE kind = "file"
    BY <2>0, <2>1 DEF InputInv, ReaderOff
  <2>2. CASE kind # "file"
    <3>1. OneWatcher /\ LastRunsFiles /\ ReaderSound /\ got.run \in Spawned \cup {0}
      BY <2>2 DEF InputInv
    <3>2. reader'.pc # "dead"
      <4>1. CASE ReaderPicks
        BY <2>0, <2>2, <3>1, <4>1, PickedSound DEF ReaderSound
      <4>2. CASE ReaderDelivers
        BY <2>0, <2>2, <3>1, <4>2, DeliveredSound DEF IdleReader
      <4>3. CASE ReaderLists
        BY <2>0, <2>2, <3>1, <4>3, ListedReadable
      <4>4. CASE reader' = reader
        BY <3>1, <4>4 DEF ReaderSound
      <4>5. CASE reader'.pc \in {"idle", "off"}
        BY <4>5
      <4>6. reader' = reader \/ reader'.pc \in {"idle", "off"} \/ ReaderLists \/ ReaderPicks \/ ReaderDelivers
        <5>1. IdleReader.pc = "idle" /\ [IdleReader EXCEPT !.pc = "off"].pc = "off"
          BY DEF IdleReader
        <5> QED  BY <5>1 DEF INext, ivars, StartBegin, Start, SrtStart, RtmpStart, FileStart, StartSpawn, Started,
           StartPaused, StopBegin, StopKill, ReconfigureInput, Produce, Disturb, MonitorNotes, WatchStep,
           WatchLoopEnds, WatchSeesCrash, WatchSeesHang, WatchWakes, WatchPurges, WatchSpawns,
           Pause, Play, Seek, PlaybackSpawn, ReaderRepeats, readVars
      <4>. QED  BY <4>1, <4>2, <4>3, <4>4, <4>5, <4>6
    <3>3. ASSUME got' # got
          PROVE  Newer(got', got) /\ (got'.st # "done" => kind = "srt" /\ got'.index = 0)
      <4>1. ReaderDelivers
        BY <2>2, <3>3, GotMoves
      <4>2. /\ got'.run = files[reader.pick].run /\ got'.index = reader.pick
            /\ got'.st = files[reader.pick].st /\ Readable(reader.pick)
            /\ got'.run \in Spawned /\ (got'.run = got.run => got.index < got'.index)
        BY <2>0, <2>2, <3>1, <4>1, DeliveredSound
      <4>3. got.run <= got'.run
        <5>1. reader.pick \in OnDisk(files) /\ \A k \in Spawned : k <= files[reader.pick].run
          BY <3>1, <4>2 DEF Readable, LastRunsFiles
        <5>2. got'.run \in Nat
          BY <4>2 DEF Spawned, Runs
        <5>. QED  BY <3>1, <4>2, <5>1, <5>2
      <4>4. got.run \in Int /\ got'.run \in Int /\ got.index \in Int /\ got'.index \in Int
        BY <2>0, <4>2, InputNat DEF Spawned, Runs, InputTypes, Index, Readers
      <4>5. Newer(got', got)
        BY <4>2, <4>3, <4>4 DEF Newer
      <4>. QED  BY <4>2, <4>5 DEF Readable
    <3>. QED  BY <3>2, <3>3
  <2>. QED  BY <2>1, <2>2
<1>. QED  BY <1>1, InputHolds, PTL DEF InputSteps, ReadsAreSound

(* The chunks of a life come in order, each once and finished, across every restart of
   FFmpeg, and no file vanishes under the reader, unless a purge falls into a read. *)
THEOREM ChunksAreReadInOrder == ISpec => ReadsAreSound
  BY ReadsHold, PTL DEF ISpec, InputSteps

LEMMA ClockMoves ==
    ASSUME [INext]_ivars
    PROVE  \/ clock' = NoClock
           \/ clock' = clock /\ got'.offset = got.offset
           \/ \E d \in Int : /\ clock' = Recorded(d)
                             /\ got' = [run |-> files[reader.pick].run, index |-> reader.pick,
                                        st |-> files[reader.pick].st, offset |-> Snapshot(d)]
<1>1. CASE ReaderDelivers
  <2>1. (IF kind = "file" THEN {ChunkDuration} ELSE Timestamps) \subseteq Int
    BY InputNat
  <2>2. \/ clock' = clock /\ got' = got
        \/ \E d \in IF kind = "file" THEN {ChunkDuration} ELSE Timestamps :
              /\ clock' = Recorded(d)
              /\ got' = [run |-> files[reader.pick].run, index |-> reader.pick,
                         st |-> files[reader.pick].st, offset |-> Snapshot(d)]
    BY <1>1 DEF ReaderDelivers
  <2>. QED  BY <2>1, <2>2
<1>2. CASE ReaderRepeats
  BY <1>2 DEF ReaderRepeats
<1>3. CASE ~ReaderDelivers /\ ~ReaderRepeats
  BY <1>3 DEF INext, ivars, StartBegin, Start, SrtStart, RtmpStart, FileStart, StartSpawn,
       StartPaused, StopBegin, StopKill, ReconfigureInput, Produce, Disturb, MonitorNotes, WatchStep,
       WatchLoopEnds, WatchSeesCrash, WatchSeesHang, WatchWakes, WatchPurges, WatchSpawns,
       Pause, Play, Seek, PlaybackSpawn, ReaderLists, ReaderPicks, readVars
<1>. QED  BY <1>1, <1>2, <1>3

LEMMA ClockStep == InputInv /\ ClockAgrees /\ [INext]_ivars => ClockAgrees'
<1> SUFFICES ASSUME InputInv, ClockAgrees, [INext]_ivars PROVE ClockAgrees'
  OBVIOUS
<1>1. CASE clock' = NoClock
  BY <1>1 DEF ClockAgrees, NoClock
<1>2. CASE clock' = clock /\ got'.offset = got.offset
  BY <1>2 DEF ClockAgrees
<1>3. CASE \E d \in Int : /\ clock' = Recorded(d)
                          /\ got' = [run |-> files[reader.pick].run, index |-> reader.pick,
                                     st |-> files[reader.pick].st, offset |-> Snapshot(d)]
  BY <1>3 DEF Recorded, ClockAgrees
<1>. QED  BY <1>1, <1>2, <1>3, ClockMoves

LEMMA TimelineHolds == InputSteps => TimelineAdvances
<1> DEFINE Advances == clock.started /\ clock' # clock /\ clock' # NoClock
       => LET step == got'.offset - got.offset
          IN  MinDelta <= step /\ step <= ChunkDuration * MaxMultiplier
<1>1. InputInv /\ ClockAgrees /\ [INext]_ivars => [Advances]_ivars
  <2> SUFFICES ASSUME InputInv, ClockAgrees, [INext]_ivars, clock.started, clock' # clock, clock' # NoClock
               PROVE  /\ MinDelta <= got'.offset - got.offset
                      /\ got'.offset - got.offset <= ChunkDuration * MaxMultiplier
    OBVIOUS
  <2>0. InputTypes
    BY SameTypes DEF InputInv
  <2>1. PICK d \in Int : got'.offset = Snapshot(d)
    BY ClockMoves
  <2>2. got'.offset = clock.cumulative + Clamped(d) - ChunkDuration
    BY <2>1 DEF Snapshot
  <2>3. clock.cumulative = got.offset + ChunkDuration
    BY DEF ClockAgrees
  <2>4. got.offset \in Int /\ ChunkDuration \in Int /\ Clamped(d) \in Int
    BY <2>0, InputNat, SnapshotTyped DEF InputTypes
  <2>5. got'.offset - got.offset = Clamped(d)
    BY <2>2, <2>3, <2>4
  <2>. QED  BY <2>0, <2>5, SnapshotTyped
<1>2. IInit => ClockAgrees
  BY InputInitHolds
<1>. QED  BY <1>1, <1>2, ClockStep, InputHolds, PTL DEF InputSteps, TimelineAdvances

(* Whatever the time stamps say, and across the restarts, each chunk of a life starts at
   least MinDelta (0 is allowed) after the one before it and by no more than the clamp of
   the clock allows: stream time never moves backward. *)
THEOREM TimelineMovesOn == ISpec => TimelineAdvances
  BY TimelineHolds, PTL DEF ISpec, InputSteps

-----------------------------------------------------------------------------
(* Streaming outputs. *)

(* Without a stop in the middle of a write: the process held is the one its
   watchdog watches, an SRT output streams exactly while it holds one, and a write
   that goes on after a broken pipe finds no process alive. *)
Attended ==
    /\ \A r \in ORuns : OAlive(r) => r = proc
    /\ sink = "down" => proc = 0 /\ ~streaming /\ guard.pc = "off" /\ writer = "idle"
    /\ proto = "srt" => guard.pc = "off" /\ (streaming <=> proc # 0)
    /\ guard.pc \in {"loop", "delay"} => proc = guard.run
    /\ guard.pc = "delay" => ~OAlive(guard.run)
    /\ writer = "broken" => ~OAlive(proc)
    /\ writer = "asleep" => proto = "srt" /\ proc = 0
    /\ writer = "connected" => proto = "srt" /\ proc # 0

StreamInv == OTypeOK /\ (~overran => Attended)

LEMMA OMaxNat == MaxOutputLives \in Nat /\ MaxRetries \in Nat
  BY OutputAssumption

LEMMA StreamInit == OInit => StreamInv
<1> SUFFICES ASSUME OInit PROVE StreamInv
  OBVIOUS
<1>1. OTypeOK
  <2>2. procs \in [ORuns -> {"none", "alive", "dead"}] /\ proto \in {"rtmp", "srt"}
        /\ streaming \in BOOLEAN /\ error \in BOOLEAN /\ overran \in BOOLEAN
    BY DEF OInit
  <2>3. guard \in [pc : {"off", "loop", "delay", "ended"}, run : ORuns \cup {0}]
    BY DEF OInit, NoGuard
  <2>. QED  BY <2>2, <2>3, OMaxNat DEF OInit, OTypeOK
<1>2. Attended
  BY DEF OInit, Attended, NoGuard, OAlive
<1>. QED  BY <1>1, <1>2 DEF StreamInv

LEMMA StreamTypes == OTypeOK /\ [ONext]_ovars => OTypeOK'
<1> SUFFICES ASSUME OTypeOK, [ONext]_ovars PROVE OTypeOK'
  OBVIOUS
<1> USE OutputAssumption, OMaxNat DEF OTypeOK
<1>1. ASSUME NEW r PROVE Ended(r) \in [ORuns -> {"none", "alive", "dead"}]
  BY DEF Ended
<1>2. CASE UNCHANGED ovars
  BY <1>2 DEF ovars
<1>3. CASE ProcessEnds
  <2>1. PICK r \in ORuns : procs' = Ended(r)
    BY <1>3 DEF ProcessEnds
  <2>. QED  BY <1>1, <1>3, <2>1 DEF ProcessEnds
<1>4. ASSUME NEW ps \in [ORuns -> {"none", "alive", "dead"}],
             \E r \in FreeRuns : Popen(ps, r)
      PROVE  /\ proc' \in ORuns \cup {0} /\ procs' \in [ORuns -> {"none", "alive", "dead"}]
             /\ streaming' \in BOOLEAN
  BY <1>4 DEF Popen, FreeRuns
<1>5. CASE StartRtmp
  <2>1. \E r \in FreeRuns : Popen(Ended(proc), r)
    BY <1>5 DEF StartRtmp
  <2>2. /\ proc' \in ORuns \cup {0} /\ procs' \in [ORuns -> {"none", "alive", "dead"}]
        /\ streaming' \in BOOLEAN
    BY <1>1, <1>4, <2>1
  <2>3. guard' \in [pc : {"off", "loop", "delay", "ended"}, run : ORuns \cup {0}]
    BY <1>5 DEF StartRtmp, Watched, FreeRuns
  <2>4. lives' \in 0 .. MaxOutputLives
    BY <1>5 DEF StartRtmp
  <2>5. sink' = "up" /\ UNCHANGED <<proto, retries, error, writer, overran>>
    BY <1>5 DEF StartRtmp
  <2>. QED  BY <2>2, <2>3, <2>4, <2>5
<1>6. CASE StartSrt
  BY <1>6 DEF StartSrt
<1>7. CASE StopOutput
  <2>1. procs' \in [ORuns -> {"none", "alive", "dead"}] /\ proc' = 0 /\ streaming' = FALSE
    BY <1>1, <1>7 DEF StopOutput, Terminated
  <2>2. guard' \in [pc : {"off", "loop", "delay", "ended"}, run : ORuns \cup {0}]
    BY <1>7 DEF StopOutput, NoGuard
  <2>3. overran' \in BOOLEAN /\ sink' = "down"
    BY <1>7 DEF StopOutput
  <2>4. UNCHANGED <<proto, lives, retries, error, writer>>
    BY <1>7 DEF StopOutput
  <2>. QED  BY <2>1, <2>2, <2>3, <2>4
<1>8. CASE MonitorSeesExit
  BY <1>8 DEF MonitorSeesExit
<1>9. CASE OGuard
  <2>1. guard' \in [pc : {"off", "loop", "delay", "ended"}, run : ORuns \cup {0}]
        /\ proc' \in ORuns \cup {0}
    BY <1>9 DEF OGuard, GuardSeesCrash, GuardRestarts
  <2>2. UNCHANGED <<proto, sink, lives, procs, streaming, retries, error, writer, overran>>
    BY <1>9 DEF OGuard, GuardSeesCrash, GuardRestarts
  <2>. QED  BY <2>1, <2>2
<1>10. CASE RtmpWrites \/ SrtWrites \/ WriteFailsOtherwise
  <2>1. error' \in BOOLEAN /\ writer' \in {"idle", "connected", "broken", "asleep"}
    BY <1>10 DEF RtmpWrites, SrtWrites, WriteFailsOtherwise
  <2>2. retries' \in 0 .. MaxRetries
    BY <1>10, OMaxNat DEF RtmpWrites, SrtWrites, WriteFailsOtherwise
  <2>3. UNCHANGED <<proto, sink, lives, proc, procs, streaming, guard, overran>>
    BY <1>10 DEF RtmpWrites, SrtWrites, WriteFailsOtherwise
  <2>. QED  BY <2>1, <2>2, <2>3
<1>11. CASE RtmpReconnects
  <2>1. \E r \in FreeRuns : Popen(procs, r)
    BY <1>11 DEF RtmpReconnects
  <2>2. /\ proc' \in ORuns \cup {0} /\ procs' \in [ORuns -> {"none", "alive", "dead"}]
        /\ streaming' \in BOOLEAN
    BY <1>4, <2>1
  <2>3. guard' \in [pc : {"off", "loop", "delay", "ended"}, run : ORuns \cup {0}]
    BY <1>11 DEF RtmpReconnects, Watched, FreeRuns
  <2>4. writer' = "idle" /\ UNCHANGED <<proto, sink, lives, retries, error, overran>>
    BY <1>11 DEF RtmpReconnects
  <2>. QED  BY <2>2, <2>3, <2>4
<1>12. CASE SrtConnects \/ SrtWakes
  <2>1. \E r \in FreeRuns : Popen(procs, r)
    BY <1>12 DEF SrtConnects, SrtWakes
  <2>2. /\ proc' \in ORuns \cup {0} /\ procs' \in [ORuns -> {"none", "alive", "dead"}]
        /\ streaming' \in BOOLEAN
    BY <1>4, <2>1
  <2>3. error' \in BOOLEAN /\ writer' \in {"idle", "connected", "broken", "asleep"}
    BY <1>12 DEF SrtConnects, SrtWakes
  <2>4. retries' \in 0 .. MaxRetries
    BY <1>12, OMaxNat DEF SrtConnects, SrtWakes
  <2>5. UNCHANGED <<proto, sink, lives, guard, overran>>
    BY <1>12 DEF SrtConnects, SrtWakes
  <2>. QED  BY <2>2, <2>3, <2>4, <2>5
<1>13. CASE SrtDrops
  <2>1. proc' = 0 /\ procs' \in [ORuns -> {"none", "alive", "dead"}] /\ streaming' = FALSE
    BY <1>1, <1>13 DEF SrtDrops, Dropped
  <2>2. writer' \in {"idle", "asleep"} /\ retries' \in 0 .. MaxRetries
    BY <1>13 DEF SrtDrops, RetriesLeft
  <2>3. UNCHANGED <<proto, sink, lives, guard, error, overran>>
    BY <1>13 DEF SrtDrops
  <2>. QED  BY <2>1, <2>2, <2>3
<1>. QED  BY <1>2, <1>3, <1>5, <1>6, <1>7, <1>8, <1>9, <1>10, <1>11, <1>12, <1>13
           DEF ONext, OWrite

LEMMA StreamStep == StreamInv /\ [ONext]_ovars => StreamInv'
<1> SUFFICES ASSUME StreamInv, [ONext]_ovars, ~overran' PROVE Attended'
  BY StreamTypes DEF StreamInv
<1> USE DEF OTypeOK
<1>1. OTypeOK /\ Attended
  BY DEF StreamInv, ONext, OWrite, OGuard, ProcessEnds, StartRtmp, StartSrt, StopOutput,
         MonitorSeesExit, GuardSeesCrash, GuardRestarts, RtmpWrites, RtmpReconnects,
         SrtConnects, SrtWrites, SrtDrops, SrtWakes, WriteFailsOtherwise, ovars
<1>2. \A r \in ORuns : r # 0
  BY OutputAssumption DEF ORuns
<1>3. CASE UNCHANGED ovars
  BY <1>1, <1>3 DEF ovars, Attended, OAlive
<1>4. CASE ProcessEnds
  <2>1. \A r : OAlive(r)' => OAlive(r) \/ r \notin ORuns \cup {0}
    BY <1>1, <1>4 DEF ProcessEnds, OAlive, Ended
  <2>. QED  BY <1>1, <1>4, <2>1 DEF ProcessEnds, Attended
<1>5. CASE StartRtmp
  <2>1. PICK r \in FreeRuns : Popen(Ended(proc), r) /\ Watched(r)
    BY <1>5 DEF StartRtmp
  <2>2. r \in ORuns /\ proc' = r /\ guard' = [pc |-> "loop", run |-> r]
    BY <2>1 DEF FreeRuns, Popen, Watched
  <2>3. \A k \in ORuns : procs'[k] = "alive" => k = r
    BY <1>1, <1>2, <1>5, <2>1 DEF StartRtmp, Popen, Ended, Attended, OAlive
  <2>. QED  BY <1>1, <1>2, <1>5, <2>2, <2>3 DEF StartRtmp, Attended, OAlive
<1>6. CASE StartSrt
  BY <1>1, <1>6 DEF StartSrt, Attended, OAlive
<1>7. CASE StopOutput
  BY <1>1, <1>7 DEF StopOutput, Terminated, Ended, Attended, OAlive, NoGuard
<1>8. CASE MonitorSeesExit
  BY <1>1, <1>8 DEF MonitorSeesExit, Attended, OAlive
<1>9. CASE GuardSeesCrash
  BY <1>1, <1>9 DEF GuardSeesCrash, Attended, OAlive
<1>10. CASE GuardRestarts
  <2>1. \A r \in ORuns : ~OAlive(r)
    BY <1>1, <1>10 DEF GuardRestarts, Attended
  <2>. QED  BY <1>1, <1>10, <2>1 DEF GuardRestarts, Attended, OAlive
<1>11. CASE RtmpWrites
  BY <1>1, <1>11 DEF RtmpWrites, Attended, OAlive
<1>12. CASE RtmpReconnects
  <2>1. PICK r \in FreeRuns : Popen(procs, r) /\ Watched(r)
    BY <1>12 DEF RtmpReconnects
  <2>2. r \in ORuns /\ proc' = r /\ guard' = [pc |-> "loop", run |-> r]
    BY <2>1 DEF FreeRuns, Popen, Watched
  <2>3. \A k \in ORuns : procs'[k] = "alive" => k = r
    BY <1>1, <1>2, <1>12, <2>1 DEF RtmpReconnects, Popen, Attended, OAlive
  <2>4. sink = "up"
    BY <1>1, <1>12 DEF RtmpReconnects, Attended
  <2>. QED  BY <1>1, <1>2, <1>12, <2>2, <2>3, <2>4 DEF RtmpReconnects, Attended, OAlive
<1>13. CASE SrtConnects \/ SrtWakes
  <2>1. PICK r \in FreeRuns : Popen(procs, r)
    BY <1>13 DEF SrtConnects, SrtWakes
  <2>2. proto = "srt" /\ proc = 0 /\ sink = "up" /\ sink' = "up" /\ guard' = guard
        /\ writer' \in {"idle", "connected"} /\ proto' = proto
    BY <1>1, <1>13 DEF SrtConnects, SrtWakes, Attended
  <2>3. r \in ORuns /\ proc' = r /\ streaming'
    BY <2>1 DEF FreeRuns, Popen
  <2>4. \A k \in ORuns : procs'[k] = "alive" => k = r
    BY <1>1, <1>2, <2>1, <2>2 DEF Popen, Attended, OAlive
  <2>. QED  BY <1>1, <1>2, <2>2, <2>3, <2>4 DEF Attended, OAlive
<1>14. CASE SrtWrites
  BY <1>1, <1>14 DEF SrtWrites, Attended, OAlive
<1>15. CASE SrtDrops
  BY <1>1, <1>15 DEF SrtDrops, Dropped, Ended, RetriesLeft, Attended, OAlive
<1>16. CASE WriteFailsOtherwise
  BY <1>1, <1>16 DEF WriteFailsOtherwise, Attended, OAlive
<1>. QED  BY <1>3, <1>4, <1>5, <1>6, <1>7, <1>8, <1>9, <1>10, <1>11, <1>12, <1>13, <1>14,
             <1>15, <1>16 DEF ONext, OWrite, OGuard

(* The outputs without their fairness. *)
StreamSteps == OInit /\ [][ONext]_ovars

LEMMA NoStrayHolds == StreamSteps => []NoStrayStream
<1>1. StreamInv => NoStrayStream
  BY DEF StreamInv, Attended, NoStrayStream
<1>. QED  BY <1>1, StreamInit, StreamStep, PTL DEF StreamSteps

(* Over any number of lives, connections and retries, an RTMP or SRT output runs
   at most the process it holds and a stopped one runs none, as long as no stop
   comes in the middle of a write. *)
THEOREM NoStreamIsLeft == OSpec => []NoStrayStream
  BY NoStrayHolds, PTL DEF OSpec, StreamSteps

-----------------------------------------------------------------------------
(* The composition of an input, a module and a streaming output, whose fairness is stated
   over the variables of all three: without it, a behaviour of the composition is one of each
   of them.  What it keeps of their fairness serves its liveness, which TLC checks. *)
LEMMA ComponentsAreIndependent ==
    KInit /\ [][KNext]_allvars => InputSteps /\ Spec /\ StreamSteps
<1>1. KInit => IInit /\ Init /\ OInit
  BY DEF KInit
<1>2. [KNext]_allvars => [INext]_ivars
  BY DEF KNext, OfInput, OfModule, OfStream, allvars
<1>3. [KNext]_allvars => [Next]_vars
  BY DEF KNext, OfInput, OfModule, OfStream, allvars
<1>4. [KNext]_allvars => [ONext]_ovars
  BY DEF KNext, OfInput, OfModule, OfStream, allvars
<1>. QED  BY <1>1, <1>2, <1>3, <1>4, PTL DEF InputSteps, StreamSteps, Spec

(* In every behaviour of the composition: no FFmpeg outlives its owner's stop, neither at the
   inputs nor at the outputs; chunks are read in order, once and whole; stream time moves on;
   and the modules use their breaker as its specification allows, whose count stays below the
   threshold, and do not rest in the error state. *)
THEOREM ComponentsKeepTheirPromises ==
    KSpec => /\ []NoOrphan /\ []NoStrayStream
             /\ ReadsAreSound /\ TimelineAdvances
             /\ BreakerSpec /\ []ClosedBelowThreshold /\ []HalfOpenNeverRefuses
             /\ []ErrorNeverRests
  BY ComponentsAreIndependent, NoOrphanHolds, NoStrayHolds, ReadsHold, TimelineHolds,
     ImplementsBreaker, ClosedIsBelowThreshold, HalfOpenAdmitsAll, NeverRestsInError, PTL
  DEF KSpec
=============================================================================
