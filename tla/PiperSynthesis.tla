--------------------------- MODULE PiperSynthesis ---------------------------
(***************************************************************************)
(* Speech synthesis through a Piper subprocess: TTSEngine                  *)
(* (modules/tts_engine.py) loads the voice lazily, from a warm-up thread   *)
(* or from the first worker that needs it, under a load lock;              *)
(* PiperSubprocessManager (modules/piper_loader.py) owns one subprocess,   *)
(* sends it one command per line and reads one answer per line under       *)
(* _cmd_lock, starts and ends it under _lock, and has a heartbeat thread   *)
(* that pings it and restarts it; the subprocess (modules/piper_worker.py) *)
(* answers its commands in order, and an answer does not say what it       *)
(* answers.  Every voice load makes a new manager and every start of a     *)
(* manager a new process; both are numbered.  Model data, device and the   *)
(* count of restarts (which only chooses the device) are left out, and     *)
(* audio is the number of the text it speaks.                              *)
(***************************************************************************)
EXTENDS Integers, Sequences, FiniteSets

CONSTANTS Workers,         \* pipeline threads that synthesize
          MaxManagers,     \* bound: voice loads
          MaxProcesses,    \* bound: subprocesses started
          MaxStarts,       \* bound: starts of the engine
          MaxChanges,      \* bound: stops and voice changes
          MaxTexts,        \* bound: texts to speak
          MaxPings,        \* bound: heartbeats that ask
          MaxBreakages,      \* bound: subprocesses that die by themselves, and
                           \* commands that time out
          LoadsFail        \* the subprocess may report that it could not load

ASSUME PiperAssumption ==
    {MaxManagers, MaxProcesses, MaxStarts, MaxChanges, MaxTexts, MaxPings, MaxBreakages} \subseteq Nat

Managers  == 1..MaxManagers
Processes == 1..MaxProcesses
Control   == <<"control", 1>>
Work(w)   == <<"work", w>>
Warm(n)   == <<"warm", n>>
Beat(m)   == <<"beat", m>>
Speakers  == {Work(w) : w \in Workers}
Warmups   == {Warm(n) : n \in 1..MaxStarts}
Beats     == {Beat(m) : m \in Managers}
PiperThreads == Speakers \cup Warmups \cup Beats \cup {Control}
Unlocked  == <<"nobody", 0>>

VARIABLES engine,     \* [stopped, loaded, manager (0: None), starts, changes, texts, made, loader]
          mgr,        \* manager -> [proc (0: None), ready, told, handle, lock, talk, voice]
          piper,      \* process -> [up, inbox, outbox]
          does,       \* thread -> [pc, mgr, proc, text]
          budget,     \* [spawned, pings, crashes, late (commands that timed out)]
          spoken      \* <<text asked, text heard>> of every answered synthesis

psvars == <<engine, mgr, piper, does, budget, spoken>>

Shutdown == -1    \* the command that ends the subprocess
NoAudio  == 0     \* load and ping, and every answer without audio

PSTypeOK ==
    /\ engine \in [stopped : BOOLEAN, loaded : BOOLEAN, manager : 0..MaxManagers, starts : 0..MaxStarts,
                   changes : 0..MaxChanges, texts : 0..MaxTexts, made : 0..MaxManagers,
                   loader : PiperThreads \cup {Unlocked}]
    /\ mgr \in [Managers -> [proc : 0..MaxProcesses, ready : BOOLEAN, told : BOOLEAN, handle : BOOLEAN, voice : 0..MaxChanges,
                             lock : PiperThreads \cup {Unlocked}, talk : PiperThreads \cup {Unlocked}]]
    /\ \A p \in Processes : piper[p].up \in BOOLEAN
    /\ spoken \subseteq (1..MaxTexts) \X (0..MaxTexts)

PSInit ==
    /\ engine = [stopped |-> TRUE, loaded |-> FALSE, manager |-> 0, starts |-> 0, changes |-> 0,
                 texts |-> 0, made |-> 0, loader |-> Unlocked]
    /\ mgr = [m \in Managers |-> [proc |-> 0, ready |-> FALSE, told |-> FALSE, handle |-> FALSE, voice |-> 0,
                                  lock |-> Unlocked, talk |-> Unlocked]]
    /\ piper = [p \in Processes |-> [up |-> FALSE, inbox |-> <<>>, outbox |-> <<>>]]
    /\ does = [t \in PiperThreads |-> [pc |-> "idle", mgr |-> 0, proc |-> 0, text |-> 0]]
    /\ budget = [spawned |-> 0, pings |-> 0, crashes |-> 0, late |-> 0]
    /\ spoken = {}

Breaks == budget.crashes + budget.late < MaxBreakages

At(t, pc)      == does[t].pc = pc
Go(t, pc)      == does' = [does EXCEPT ![t].pc = pc]
Breathing(p)   == p # 0 /\ piper[p].up
Owned(t)       == mgr[does[t].mgr]

(***************************************************************************)
(* The subprocess: one line in, one line out, in order.                    *)
(***************************************************************************)
Answers(p) ==
    /\ piper[p].up /\ piper[p].inbox # <<>>
    /\ LET cmd == Head(piper[p].inbox) IN
       piper' = [piper EXCEPT ![p] = [up     |-> cmd # Shutdown,
                                      inbox  |-> Tail(@.inbox),
                                      outbox |-> Append(@.outbox, IF cmd = Shutdown THEN NoAudio ELSE cmd)]]
    /\ UNCHANGED <<engine, mgr, does, budget, spoken>>

Dies(p) ==
    /\ piper[p].up /\ Breaks
    /\ piper' = [piper EXCEPT ![p].up = FALSE]
    /\ budget' = [budget EXCEPT !.crashes = @ + 1]
    /\ UNCHANGED <<engine, mgr, does, spoken>>

(***************************************************************************)
(* _send_command: the command goes to the process the manager has then,    *)
(* the answer is read from the one it has when an answer (or the end of    *)
(* the file) is there.                                                     *)
(***************************************************************************)
\* As if there were no _cmd_lock (before F106).
MayTalk_NoLock(t) == TRUE
MayTalk(t) == Owned(t).talk = Unlocked

\* What follows a command: a load, a ping or a synthesis that got `answer`
\* (an error is <<>>). stop_heartbeat waits five seconds for the thread: one that
\* is still pinging then and the one a later start makes are one thread here.
LoadEnds(t, ok) ==
    LET m == does[t].mgr IN
    /\ mgr' = [mgr EXCEPT ![m].talk = Unlocked, ![m].lock = Unlocked, ![m].ready = ok,
                          ![m].handle = @ \/ ok,
                          ![m].told = IF ok /\ ~mgr[m].handle THEN FALSE ELSE @]
    /\ does' = [[does EXCEPT ![Beat(m)].pc = IF ok /\ @ \in {"idle", "gone"} THEN "wait" ELSE @,
                             ![Beat(m)].mgr = m]
                EXCEPT ![t].pc = IF t \in Beats THEN "wait" ELSE IF ok THEN "loaded" ELSE "failed"]
    /\ UNCHANGED spoken

Pinged(t, ok) ==
    /\ mgr' = [mgr EXCEPT ![does[t].mgr].talk = Unlocked]
    /\ does' = [does EXCEPT ![t].pc = IF ok THEN "wait" ELSE "restart"]
    /\ UNCHANGED spoken

Spoke(t, audio) ==
    /\ mgr' = [mgr EXCEPT ![does[t].mgr].talk = Unlocked]
    /\ does' = [does EXCEPT ![t] = [pc |-> "idle", mgr |-> 0, proc |-> 0, text |-> 0]]
    /\ spoken' = spoken \cup {<<does[t].text, audio>>}

Receives(t, answer) ==
    CASE At(t, "loading")  -> \/ LoadEnds(t, answer # <<>>)
                              \/ LoadsFail /\ LoadEnds(t, FALSE)
      [] At(t, "pinging")  -> Pinged(t, answer # <<>>)
      [] At(t, "speaking") -> Spoke(t, IF answer = <<>> THEN NoAudio ELSE answer[1])

Waiting == [load |-> "loading", ping |-> "pinging", speak |-> "speaking"]

Sends(t) ==
    LET p == Owned(t).proc IN
    /\ does[t].pc \in DOMAIN Waiting
    /\ MayTalk(t)
    /\ Breathing(p)
    /\ piper' = [piper EXCEPT ![p].inbox = Append(@, IF At(t, "speak") THEN does[t].text ELSE NoAudio)]
    /\ mgr' = [mgr EXCEPT ![does[t].mgr].talk = t]
    /\ does' = [does EXCEPT ![t].pc = Waiting[@], ![t].proc = p]
    /\ UNCHANGED <<engine, budget, spoken>>

\* "Subprocess not running", or the pipe is broken.
CannotSend(t) ==
    LET p == Owned(t).proc IN
    /\ does[t].pc \in DOMAIN Waiting
    /\ MayTalk(t)
    /\ ~Breathing(p)
    /\ CASE At(t, "load")  -> LoadEnds(t, FALSE)
         [] At(t, "ping")  -> Pinged(t, FALSE)
         [] At(t, "speak") -> Spoke(t, NoAudio)
    /\ UNCHANGED <<engine, piper, budget>>

Readable(p) == piper[p].outbox # <<>> \/ ~piper[p].up

Reads(t) ==
    LET q == Owned(t).proc IN
    /\ does[t].pc \in {"loading", "pinging", "speaking"}
    /\ Readable(does[t].proc)
    /\ IF q # 0 /\ piper[q].outbox # <<>>
       THEN /\ Receives(t, <<Head(piper[q].outbox)>>)
            /\ piper' = [piper EXCEPT ![q].outbox = Tail(@)]
       ELSE /\ ~Breathing(q)               \* otherwise readline() blocks
            /\ Receives(t, <<>>)
            /\ UNCHANGED piper
    /\ UNCHANGED <<engine, budget>>

\* The answer that comes later stays in the pipe.
AnswerTimesOut(t) ==
    /\ Breaks
    /\ budget' = [budget EXCEPT !.late = @ + 1]
    /\ does[t].pc \in {"loading", "pinging", "speaking"}
    /\ ~Readable(does[t].proc)
    /\ Receives(t, <<>>)
    /\ UNCHANGED <<engine, piper>>

(***************************************************************************)
(* start() and _ensure_stopped of the manager.  _ensure_stopped lets go of *)
(* _lock while the process ends, reads one line of its output, and clears  *)
(* the manager's process, whichever that is by then.                       *)
(***************************************************************************)
Boots(t) ==
    LET m == does[t].mgr
        p == budget.spawned + 1 IN
    /\ At(t, "boot")
    /\ mgr[m].lock = Unlocked
    /\ p \in Processes
    /\ budget' = [budget EXCEPT !.spawned = p]
    /\ piper' = [piper EXCEPT ![p].up = TRUE]
    /\ mgr' = [mgr EXCEPT ![m].proc = p, ![m].lock = t]
    /\ Go(t, "load")
    /\ UNCHANGED <<engine, spoken>>

Hung(p) == [piper[p] EXCEPT !.inbox = IF piper[p].up THEN Append(@, Shutdown) ELSE @]

AfterEnd(t) == IF t \in Beats THEN "boot" ELSE "ended"

BeginsEnd(t) ==
    LET m == does[t].mgr
        p == mgr[m].proc IN
    /\ does[t].pc \in {"halt", "restart"}
    /\ mgr[m].lock = Unlocked
    /\ IF p = 0
       THEN /\ Go(t, AfterEnd(t))
            /\ UNCHANGED piper
       ELSE /\ does' = [does EXCEPT ![t].pc = "ending", ![t].proc = p]
            /\ piper' = [piper EXCEPT ![p] = Hung(p)]
    /\ UNCHANGED <<engine, mgr, budget, spoken>>

Ends(t) ==
    LET m == does[t].mgr
        p == does[t].proc IN
    /\ At(t, "ending")
    /\ mgr[m].lock = Unlocked
    /\ piper' = [piper EXCEPT ![p] = [up |-> FALSE, inbox |-> <<>>, outbox |-> <<>>]]
    /\ mgr' = [mgr EXCEPT ![m].proc = 0, ![m].ready = FALSE]
    /\ Go(t, AfterEnd(t))
    /\ UNCHANGED <<engine, budget, spoken>>

(***************************************************************************)
(* stop() of the manager: the heartbeat is told and joined for at most     *)
(* five seconds, then the process is ended.                                *)
(***************************************************************************)
Joins(t) ==
    LET m == does[t].mgr IN
    /\ At(t, "join")
    /\ does[Beat(m)].pc # "wait"           \* it leaves its wait at once
    /\ mgr' = [mgr EXCEPT ![m].handle = FALSE]
    /\ Go(t, "halt")
    /\ UNCHANGED <<engine, piper, budget, spoken>>

StopManager(t, m) ==
    /\ mgr' = [mgr EXCEPT ![m].told = TRUE]
    /\ does' = [does EXCEPT ![t].pc = "join", ![t].mgr = m]

(***************************************************************************)
(* The heartbeat thread of manager m.                                      *)
(***************************************************************************)
BeatEnds(m) ==
    /\ At(Beat(m), "wait") /\ mgr[m].told
    /\ Go(Beat(m), "gone")
    /\ UNCHANGED <<engine, mgr, piper, budget, spoken>>

BeatAsks(m) ==
    /\ At(Beat(m), "wait") /\ ~mgr[m].told
    /\ budget.pings < MaxPings
    /\ budget' = [budget EXCEPT !.pings = @ + 1]
    /\ does' = [does EXCEPT ![Beat(m)].pc = IF Breathing(mgr[m].proc) THEN "ping" ELSE "restart"]
    /\ UNCHANGED <<engine, mgr, piper, spoken>>

(***************************************************************************)
(* TTSEngine                                                               *)
(***************************************************************************)
EngineStart ==
    /\ At(Control, "idle") /\ engine.stopped /\ engine.starts < MaxStarts
    /\ engine' = [engine EXCEPT !.stopped = FALSE, !.loaded = FALSE, !.starts = @ + 1]
    /\ Go(Warm(engine.starts + 1), "lazy")
    /\ UNCHANGED <<mgr, piper, budget, spoken>>

\* stop(), or configure() with another voice: the manager that is there now is
\* stopped, and when that is done whatever manager is there then is forgotten.
Changes(stopping) ==
    /\ At(Control, "idle") /\ ~engine.stopped /\ engine.changes < MaxChanges
    /\ engine' = [engine EXCEPT !.stopped = stopping, !.changes = @ + 1,
                                !.loaded = @ /\ stopping]
    /\ IF engine.manager = 0 THEN UNCHANGED <<mgr, does>> ELSE StopManager(Control, engine.manager)
    /\ UNCHANGED <<piper, budget, spoken>>

EngineStop  == Changes(TRUE)
VoiceChange == Changes(FALSE)

Forgets(t) ==
    /\ At(t, "ended")
    /\ IF t = Control
       THEN engine' = [engine EXCEPT !.manager = 0]
       ELSE engine' = [engine EXCEPT !.manager = 0, !.loaded = FALSE, !.loader = Unlocked]
    /\ does' = [does EXCEPT ![t].pc = IF t \in Speakers THEN "use" ELSE "idle"]
    /\ UNCHANGED <<mgr, piper, budget, spoken>>

Synthesize(w) ==
    /\ At(Work(w), "idle") /\ ~engine.stopped /\ engine.texts < MaxTexts
    /\ engine' = [engine EXCEPT !.texts = @ + 1]
    /\ does' = [does EXCEPT ![Work(w)].pc = IF engine.loaded THEN "use" ELSE "lazy",
                            ![Work(w)].text = engine.texts + 1]
    /\ UNCHANGED <<mgr, piper, budget, spoken>>

AfterLoad(t) == IF t \in Speakers THEN "use" ELSE "idle"

\* _ensure_piper_loaded, up to the new manager's start().
LazyLoad(t) ==
    /\ At(t, "lazy") /\ engine.loader = Unlocked
    /\ IF engine.loaded \/ engine.stopped
       THEN Go(t, AfterLoad(t)) /\ UNCHANGED <<engine, mgr>>
       ELSE LET m == engine.made + 1 IN
            /\ m \in Managers
            /\ engine' = [engine EXCEPT !.made = m, !.manager = m, !.loader = t]
            /\ mgr' = [mgr EXCEPT ![m].voice = engine.changes]
            /\ does' = [does EXCEPT ![t].pc = "boot", ![t].mgr = m]
    /\ UNCHANGED <<piper, budget, spoken>>

\* Stopped while it loaded: the manager that is there now is stopped again.
LoadDone(t) ==
    /\ At(t, "loaded")
    /\ IF engine.stopped /\ engine.manager # 0
       THEN /\ engine' = [engine EXCEPT !.loaded = TRUE]
            /\ StopManager(t, engine.manager)
       ELSE /\ engine' = [engine EXCEPT !.loaded = ~engine.stopped, !.loader = Unlocked]
            /\ Go(t, AfterLoad(t))
            /\ UNCHANGED mgr
    /\ UNCHANGED <<piper, budget, spoken>>

\* The manager stays where it is, with its process; the warm-up thread notes the
\* failure outside the lock.
LoadFailed(t) ==
    /\ At(t, "failed")
    /\ engine' = [engine EXCEPT !.loader = Unlocked]
    /\ Go(t, IF t \in Warmups THEN "noting" ELSE "idle")
    /\ UNCHANGED <<mgr, piper, budget, spoken>>

WarmupNotes(t) ==
    /\ At(t, "noting")
    /\ engine' = [engine EXCEPT !.loaded = FALSE]
    /\ Go(t, "idle")
    /\ UNCHANGED <<mgr, piper, budget, spoken>>

\* _run_piper_tts after the load, and synthesize() up to its command.
Uses(t) ==
    LET m == engine.manager IN
    /\ At(t, "use")
    /\ does' = [does EXCEPT ![t].pc = IF m # 0 /\ mgr[m].ready /\ Breathing(mgr[m].proc)
                                      THEN "speak" ELSE "idle",
                            ![t].mgr = m]
    /\ UNCHANGED <<engine, mgr, piper, budget, spoken>>

PSNext ==
    \/ EngineStart \/ EngineStop \/ VoiceChange
    \/ \E w \in Workers : Synthesize(w)
    \/ \E t \in PiperThreads :
          \/ LazyLoad(t) \/ LoadDone(t) \/ LoadFailed(t) \/ WarmupNotes(t) \/ Uses(t) \/ Forgets(t)
          \/ Sends(t) \/ CannotSend(t) \/ Reads(t) \/ AnswerTimesOut(t)
          \/ Boots(t) \/ BeginsEnd(t) \/ Ends(t) \/ Joins(t)
    \/ \E m \in Managers : BeatEnds(m) \/ BeatAsks(m)
    \/ \E p \in Processes : Answers(p) \/ Dies(p)

PSSpec == PSInit /\ [][PSNext]_psvars

(***************************************************************************)
(* Properties                                                              *)
(***************************************************************************)
\* As long as no command times out, a text is answered with its own audio or
\* with none, whatever restarts, pings, voice changes and stops happen around
\* it: an answer carries no name, so the order under _cmd_lock is all there is.
AudioIsOwnText == budget.late = 0 => \A s \in spoken : s[2] \in {NoAudio, s[1]}

\* "The lock guarantees exactly one subprocess per voice": two managers made in
\* the same life of the engine, with no stop and no change of the voice between
\* them, never both have a subprocess that is up.
Serves(m) == Breathing(mgr[m].proc)
OneSubprocess ==
    \A m, n \in Managers : Serves(m) /\ Serves(n) /\ mgr[m].voice = mgr[n].voice => m = n
=============================================================================
