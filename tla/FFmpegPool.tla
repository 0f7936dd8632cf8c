----------------------------- MODULE FFmpegPool -----------------------------
(***************************************************************************)
(* core/ffmpeg_pool.py: the pool that bounds how many FFmpeg processes run  *)
(* at once.  It is a threading.Semaphore with a table of the active jobs    *)
(* beside it, and the two are changed in separate steps: a caller takes the *)
(* semaphore first and enters the table under the lock afterwards; it       *)
(* leaves the table under the lock and gives the semaphore back after it.   *)
(*                                                                          *)
(* A caller is a thread inside FFmpegWrapper.run_command (the worker        *)
(* threads that run the audio extractor share one wrapper) or inside the    *)
(* HLS output or the video muxer.  It works its job id out before it calls  *)
(* acquire: CallerIds[c] are the ids caller c can come up with.             *)
(* run_command uses "<name>_<milliseconds>", so two workers that enter in   *)
(* the same millisecond use the same id.                                    *)
(***************************************************************************)
EXTENDS Integers, FiniteSets

CONSTANTS Callers,      \* the threads that run FFmpeg
          CallerIds,    \* the job ids each of them can compute
          MaxSize,      \* max_size
          MaxShutdowns  \* bound: how often shutdown() is called

ASSUME PoolAssumption ==
    /\ IsFiniteSet(Callers)
    /\ \A c \in Callers : CallerIds[c] # {}
    /\ MaxSize \in Nat \ {0}
    /\ MaxShutdowns \in Nat

VARIABLES slots,      \* the value of _semaphore
          active,     \* the keys of _active
          at,         \* where each caller is
          jobId,      \* the id it passed to acquire() and will pass to release()
          shutdowns,  \* how many calls of shutdown() have cleared the table
          owed        \* semaphore releases shutdown() still has to make

vars == <<slots, active, at, jobId, shutdowns, owed>>

Ids == UNION {CallerIds[c] : c \in Callers}

(* A key of the table is an id as the caller knows it (suffix 0) or with    *)
(* the suffix uuid4 gives it when it is renamed.  At most MaxSize entries   *)
(* exist, so as many suffixes are enough for a fresh one.                   *)
Own(id) == <<id, 0>>
Renamed(id) == {id} \X (1..MaxSize)
Names == Ids \X (0..MaxSize)

(* "waits": inside _semaphore.acquire; "taken": the semaphore was granted,  *)
(* the table not yet entered; "runs": FFmpeg is running; "leaves": out of   *)
(* the table, the semaphore not yet released.                               *)
Places == {"outside", "waits", "taken", "runs", "leaves"}

In(place) == {c \in Callers : at[c] = place}

Init ==
    /\ slots = MaxSize
    /\ active = {}
    /\ at = [c \in Callers |-> "outside"]
    /\ jobId = [c \in Callers |-> CHOOSE id \in CallerIds[c] : TRUE]
    /\ shutdowns = 0
    /\ owed = 0

(* run_command: the id is computed, then acquire() waits for a slot. *)
Ask(c) ==
    /\ at[c] = "outside"
    /\ at' = [at EXCEPT ![c] = "waits"]
    /\ \E id \in CallerIds[c] : jobId' = [jobId EXCEPT ![c] = id]
    /\ UNCHANGED <<slots, active, shutdowns, owed>>

Granted(c) ==
    /\ at[c] = "waits"
    /\ slots > 0
    /\ slots' = slots - 1
    /\ at' = [at EXCEPT ![c] = "taken"]
    /\ UNCHANGED <<active, jobId, shutdowns, owed>>

(* acquire() returns False after its timeout and the caller gives up: it    *)
(* never reaches the try block whose finally releases the job.              *)
TimesOut(c) ==
    /\ at[c] = "waits"
    /\ slots = 0
    /\ at' = [at EXCEPT ![c] = "outside"]
    /\ UNCHANGED <<slots, active, jobId, shutdowns, owed>>

(* The names a job can be entered under: its own id, or a renamed one when  *)
(* the id is taken.  The caller is not told which.  Mutated form: a second  *)
(* job overwrites the first one's entry.                                    *)
EntryNames_AlwaysOwn(id) == {Own(id)}
EntryNames(id) == IF Own(id) \in active THEN Renamed(id) \ active ELSE {Own(id)}

Enter(c) ==
    /\ at[c] = "taken"
    /\ \E name \in EntryNames(jobId[c]) : active' = active \cup {name}
    /\ at' = [at EXCEPT ![c] = "runs"]
    /\ UNCHANGED <<slots, jobId, shutdowns, owed>>

(* release() by a caller whose FFmpeg has ended, well or not: the table is  *)
(* left only when the id is in it, and otherwise nothing is given back.     *)
Known(id) == Own(id) \in active

AfterRelease(id) == IF Known(id) THEN "leaves" ELSE "outside"

Remaining(id) == active \ {Own(id)}

Leave(c) ==
    /\ at[c] = "runs"
    /\ active' = Remaining(jobId[c])
    /\ at' = [at EXCEPT ![c] = AfterRelease(jobId[c])]
    /\ UNCHANGED <<slots, jobId, shutdowns, owed>>

(* Mutated form: released twice.                                            *)
GivenBack_Twice == slots + 2
GivenBack == slots + 1

GiveBack(c) ==
    /\ at[c] = "leaves"
    /\ slots' = GivenBack
    /\ at' = [at EXCEPT ![c] = "outside"]
    /\ UNCHANGED <<active, jobId, shutdowns, owed>>

(* shutdown(): the table is cleared under the lock, then one semaphore      *)
(* release is made per cleared entry.  _running is set and never read:      *)
(* acquire() goes on granting slots.                                        *)
Clear ==
    /\ shutdowns < MaxShutdowns
    /\ owed = 0
    /\ shutdowns' = shutdowns + 1
    /\ owed' = Cardinality(active)
    /\ active' = {}
    /\ UNCHANGED <<slots, at, jobId>>

Repay ==
    /\ owed > 0
    /\ owed' = owed - 1
    /\ slots' = slots + 1
    /\ UNCHANGED <<active, at, jobId, shutdowns>>

Next ==
    \/ \E c \in Callers :
          \/ Ask(c) \/ Granted(c) \/ TimesOut(c)
          \/ Enter(c) \/ Leave(c) \/ GiveBack(c)
    \/ Clear
    \/ Repay

Spec == Init /\ [][Next]_vars

-----------------------------------------------------------------------------
(* Type invariant.  The semaphore never exceeds max_size, although any      *)
(* release() adds to it: it is a plain Semaphore, which has no upper bound. *)
TypeOK ==
    /\ slots \in 0..MaxSize
    /\ active \subseteq Names
    /\ at \in [Callers -> Places]
    /\ jobId \in [Callers -> Ids]
    /\ shutdowns \in 0..MaxShutdowns
    /\ owed \in 0..MaxSize

(* The semaphore and the table, changed in separate steps, never lose or    *)
(* invent a slot between them: what is free, what is in the table and what  *)
(* is between the two always adds up to max_size, with duplicate ids and    *)
(* across a shutdown().                                                     *)
SlotsConserved ==
    slots + Cardinality(active) + Cardinality(In("taken"))
          + Cardinality(In("leaves")) + owed = MaxSize

(* What the pool is for: until a shutdown() no more than max_size FFmpeg    *)
(* processes run at once, also when release() takes another caller's entry  *)
(* out of the table because the two use the same id.                        *)
AtMostMaxSizeRun ==
    shutdowns = 0 => Cardinality(In("runs")) <= MaxSize

(* An entry under an id of its own always stands for an FFmpeg that runs:   *)
(* whoever releases the id, and in whatever order the holders of one id     *)
(* enter and leave, such an entry is never stranded.  Only an entry that    *)
(* acquire() renamed can outlive its job.                                   *)
OnlyRenamedEntriesLeak ==
    \A id \in Ids :
        Own(id) \in active => \E c \in In("runs") : jobId[c] = id

(* When nobody uses the pool every slot is free again: a leaked slot is     *)
(* lost until the process restarts, and max_size leaks stop all encoding.   *)
AllSlotsReturn ==
    ((\A c \in Callers : at[c] = "outside") /\ owed = 0) => slots = MaxSize
=============================================================================
