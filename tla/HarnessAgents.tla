---------------------------- MODULE HarnessAgents ----------------------------
(***************************************************************************)
(* harness/db.py and harness/commands/agents.py: the tester -> builder ->   *)
(* verifier loop over one feature.                                          *)
(*                                                                          *)
(* Every command is a process of its own on one SQLite file.  A statement   *)
(* or a transaction is atomic, a phase is not: the suite runs for minutes    *)
(* between the row that opens a phase and the one that closes it, and what  *)
(* was read before is written after.  A process may be killed in between.    *)
(* Of the tasks the builder's are kept one by one; those of tester and       *)
(* verifier are only ever listed, and are counted while they are pending.    *)
(***************************************************************************)
EXTENDS Naturals, FiniteSets

CONSTANTS Drivers,       \* processes that run agent commands
          MaxTasks,      \* bound: builder tasks
          MaxIterations, \* AgentTask.max_iterations
          MaxRounds,     \* max_cycles of run_agent_cycle
          MaxCommands    \* bound: commands given, initialisations, deletions and kills

(* A cycle of no rounds would do nothing.                                    *)
ASSUME HarnessAssumption ==
    /\ {MaxTasks, MaxIterations, MaxRounds, MaxCommands} \subseteq Nat
    /\ MaxRounds # 0

BuildTasks == 1..MaxTasks
Phases     == {"tester", "verifier"}

VARIABLES
    feature,  \* whether the feature's row exists
    tasks,    \* agent_tasks: the builder's
    agents,   \* agents.status
    current,  \* current_task_id of the builder, 0 for none
    pending,  \* agent_tasks: how many of each phase are pending
    driver,   \* the agent commands that run
    commands  \* what is left of MaxCommands

avars == <<feature, tasks, agents, current, pending, driver, commands>>

(* AgentTask: rejections are its rows of agent_feedback; byHand is the largest *)
(* count of rounds that `agent task update` has given it.                    *)
Statuses == {"pending", "completed", "feedback_received", "failed"}
NoTask   == [status |-> "none", iterations |-> 0, rejections |-> 0, byHand |-> 0, at |-> 0]
Resting  == [pc |-> "idle", cmd |-> "none", round |-> 1, task |-> 0, seen |-> 0]
Existing == {t \in BuildTasks : tasks[t].status # "none"}

ATypeOK ==
    /\ feature \in BOOLEAN
    /\ tasks \in [BuildTasks -> [status : {"none"} \cup Statuses, iterations : Nat,
                                 rejections : Nat, byHand : Nat, at : 0..MaxTasks]]
    /\ agents \in [Phases \cup {"builder"} -> {"idle", "working"}]
    /\ current \in {0} \cup BuildTasks
    /\ pending \in [Phases -> 0..MaxCommands]
    /\ driver \in [Drivers -> [pc : {"idle", "test", "testing", "open", "reopen", "create", "hook",
                                     "verify", "checking", "approve", "reject", "count"},
                               cmd : {"none", "test", "cycle", "hooked", "verify"},
                               round : 1..MaxRounds, task : {0} \cup BuildTasks, seen : Nat]]
    /\ commands \in 0..MaxCommands

AInit ==
    /\ feature = TRUE
    /\ tasks = [t \in BuildTasks |-> NoTask]
    /\ agents = [a \in Phases \cup {"builder"} |-> "idle"]
    /\ current = 0
    /\ pending = [p \in Phases |-> 0]
    /\ driver = [d \in Drivers |-> Resting]
    /\ commands = MaxCommands

DriverAt(d, pc)        == driver[d].pc = pc
Goto(d, pc)      == driver' = [driver EXCEPT ![d].pc = pc]
Exit(d)          == driver' = [driver EXCEPT ![d] = Resting]
Spend            == commands > 0 /\ commands' = commands - 1
Status(t, s)     == tasks' = [tasks EXCEPT ![t].status = s]
Shown(a, s)      == agents' = [agents EXCEPT ![a] = s]
Row(p, n)        == pending' = [pending EXCEPT ![p] = n]

----------------------------------------------------------------------------
(* A command is given: `agent test`, `agent cycle` with or without a hook,   *)
(* `agent verify` of a task.                                                *)
Command(d) ==
    /\ DriverAt(d, "idle") /\ Spend
    /\ \/ \E c \in {"test", "cycle", "hooked"} :
             driver' = [driver EXCEPT ![d].pc = "test", ![d].cmd = c]
       \/ \E t \in Existing :
             driver' = [driver EXCEPT ![d].pc = "verify", ![d].cmd = "verify", ![d].task = t]
    /\ UNCHANGED <<feature, tasks, agents, current, pending>>

(* run_tester_phase: the agent is shown working and a task row opened.       *)
RunTester(d) ==
    /\ DriverAt(d, "test")
    /\ \/ ~feature /\ Exit(d) /\ UNCHANGED <<agents, pending>>
       \/ feature /\ Shown("tester", "working") /\ Row("tester", pending["tester"] + 1) /\ Goto(d, "testing")
    /\ UNCHANGED <<feature, tasks, current, commands>>

(* The suite has run.  The finally clause shows the agent idle whatever       *)
(* happened; only a result closes the task row.                             *)
TesterEnds(d) ==
    /\ DriverAt(d, "testing") /\ Shown("tester", "idle")
    /\ \/ Exit(d) /\ UNCHANGED pending                           \* the command could not be run
       \/ Row("tester", pending["tester"] - 1) /\ Exit(d)         \* all tests passed
       \/ /\ Row("tester", pending["tester"] - 1)
          /\ IF driver[d].cmd = "test" THEN Exit(d) ELSE Goto(d, "open")
    /\ UNCHANGED <<feature, tasks, current, commands>>

(* open_builder_task: the newest task is looked up.  Times are in seconds,   *)
(* tasks of the same second come in any order.                              *)
Newest   == {t \in Existing : \A u \in Existing : tasks[u].at <= tasks[t].at}
CanRetry(t) == /\ tasks[t].iterations < MaxIterations
               /\ tasks[t].status \in {"failed", "feedback_received"}

FindTask(d) ==
    /\ DriverAt(d, "open")
    /\ \/ \E t \in Newest :
             /\ CanRetry(t)
             /\ driver' = [driver EXCEPT ![d].pc = "reopen", ![d].task = t]
       \/ /\ Newest = {} \/ \E t \in Newest : ~CanRetry(t)
          /\ Goto(d, "create")
    /\ UNCHANGED <<feature, tasks, agents, current, pending, commands>>

(* ... and reopened, or a new one made; the builder is shown working on it.   *)
(* Without a hook the cycle ends here, awaiting a builder.                   *)
Handed(d, t) ==
    /\ Shown("builder", "working") /\ current' = t
    /\ IF driver[d].cmd = "hooked"
         THEN driver' = [driver EXCEPT ![d].pc = "hook", ![d].task = t]
         ELSE Exit(d)

Reopen(d) ==
    /\ DriverAt(d, "reopen")
    /\ Status(driver[d].task, "pending") /\ Handed(d, driver[d].task)
    /\ UNCHANGED <<feature, pending, commands>>

(* create_agent_task, in the second of the newest task or later.             *)
Seconds == IF Existing = {} THEN {1} ELSE {tasks[u].at + k : u \in Newest, k \in {0, 1}}
Made(t) == \E s \in Seconds : tasks' = [tasks EXCEPT ![t] = [NoTask EXCEPT !.status = "pending", !.at = s]]

Create(d) ==
    /\ DriverAt(d, "create")
    /\ \E t \in BuildTasks \ Existing : Made(t) /\ Handed(d, t)
    /\ UNCHANGED <<feature, pending, commands>>

(* run_shell_command(builder_hook) has ended, or timed out; the task is read  *)
(* again.                                                                   *)
HookEnds(d) ==
    /\ DriverAt(d, "hook")
    /\ IF tasks[driver[d].task].status = "completed"
         THEN Shown("builder", "idle") /\ Goto(d, "verify")
         ELSE Exit(d) /\ UNCHANGED agents
    /\ UNCHANGED <<feature, tasks, current, pending, commands>>

----------------------------------------------------------------------------
(* run_verify_phase: the task must be completed.  Its iterations are read     *)
(* here, and written back after the checks.                                 *)
RunVerifier(d) ==
    LET t == driver[d].task IN
    /\ DriverAt(d, "verify")
    /\ IF tasks[t].status # "completed"
         THEN Exit(d) /\ UNCHANGED <<agents, pending>>
         ELSE /\ Shown("verifier", "working") /\ Row("verifier", pending["verifier"] + 1)
              /\ driver' = [driver EXCEPT ![d].pc = "checking", ![d].seen = tasks[t].iterations]
    /\ UNCHANGED <<feature, tasks, current, commands>>

ChecksEnd_CountedFirst(d) ==
    LET t == driver[d].task IN
    /\ DriverAt(d, "checking") /\ Shown("verifier", "idle")
    /\ \/ Exit(d) /\ UNCHANGED <<tasks, pending>>
       \/ /\ Row("verifier", pending["verifier"] - 1)
          /\ \/ Goto(d, "approve") /\ UNCHANGED tasks
             \/ Goto(d, "reject") /\ tasks' = [tasks EXCEPT ![t].iterations = driver[d].seen + 1]
    /\ UNCHANGED <<feature, current, commands>>
ChecksEnd(d) ==
    /\ DriverAt(d, "checking") /\ Shown("verifier", "idle")
    /\ \/ Exit(d) /\ UNCHANGED pending
       \/ Row("verifier", pending["verifier"] - 1) /\ (Goto(d, "approve") \/ Goto(d, "reject"))
    /\ UNCHANGED <<feature, tasks, current, commands>>

(* save_agent_feedback: the feedback and the status in one transaction.      *)
Feedback(t, approved) ==
    tasks' = IF approved
               THEN [tasks EXCEPT ![t].status = "completed"]
               ELSE [tasks EXCEPT ![t].status = "feedback_received", ![t].rejections = @ + 1]

Approve(d) ==
    /\ DriverAt(d, "approve")
    /\ Feedback(driver[d].task, TRUE) /\ Exit(d)
    /\ UNCHANGED <<feature, agents, current, pending, commands>>

Reject(d) ==
    /\ DriverAt(d, "reject")
    /\ Feedback(driver[d].task, FALSE) /\ Goto(d, "count")
    /\ UNCHANGED <<feature, agents, current, pending, commands>>

(* The round is counted, from what was read before the checks.               *)
Count(d) ==
    LET t == driver[d].task
        n == driver[d].seen + 1 IN
    /\ DriverAt(d, "count")
    /\ tasks' = [tasks EXCEPT ![t].iterations = n,
                              ![t].status = IF n >= MaxIterations THEN "failed" ELSE "feedback_received"]
    /\ IF driver[d].cmd = "verify" \/ driver[d].round = MaxRounds
         THEN Exit(d)
         ELSE driver' = [driver EXCEPT ![d].pc = "test", ![d].round = @ + 1]
    /\ UNCHANGED <<feature, agents, current, pending, commands>>

----------------------------------------------------------------------------
(* `agent task complete`, by a builder's session, by the hook or by anyone:   *)
(* whatever the task has become, it is completed.                            *)
Complete ==
    /\ \E t \in Existing : Status(t, "completed")
    /\ UNCHANGED <<feature, agents, current, pending, driver, commands>>

(* `agent task update`: the status, the count of rounds, or both, are set to   *)
(* what was asked for.  A status that no command asks about is like pending,   *)
(* a count beyond the last round like the last.                              *)
SetByHand(t, s, n) ==
    tasks' = [tasks EXCEPT ![t].status = s, ![t].iterations = n,
                           ![t].byHand = IF n > @ THEN n ELSE @]

TaskUpdate ==
    /\ Spend
    /\ \E t \in Existing, s \in Statuses :
          Status(t, s) \/ \E n \in 0..MaxIterations : SetByHand(t, s, n)
    /\ UNCHANGED <<feature, agents, current, pending, driver>>

(* `agent task create`, `agent feedback give`, `agent init`, the deletion of   *)
(* the feature on the web page.                                             *)
TaskCreate ==
    /\ Spend /\ \E t \in BuildTasks \ Existing : Made(t)
    /\ UNCHANGED <<feature, agents, current, pending, driver>>

GiveFeedback ==
    /\ Spend /\ \E t \in Existing, ok \in BOOLEAN : Feedback(t, ok)
    /\ UNCHANGED <<feature, agents, current, pending, driver>>

AgentInit ==
    /\ Spend
    /\ agents' = [a \in DOMAIN agents |-> "idle"] /\ current' = 0
    /\ UNCHANGED <<feature, tasks, pending, driver>>

DeleteFeature ==
    /\ Spend /\ feature /\ feature' = FALSE
    /\ UNCHANGED <<tasks, agents, current, pending, driver>>

(* A process is killed: no finally clause runs.                              *)
Killed(d) ==
    /\ Spend /\ ~DriverAt(d, "idle") /\ Exit(d)
    /\ UNCHANGED <<feature, tasks, agents, current, pending>>

ANext ==
    \/ \E d \in Drivers :
          \/ Command(d) \/ RunTester(d) \/ TesterEnds(d) \/ FindTask(d) \/ Reopen(d) \/ Create(d)
          \/ HookEnds(d) \/ RunVerifier(d) \/ ChecksEnd(d) \/ Approve(d) \/ Reject(d) \/ Count(d)
          \/ Killed(d)
    \/ Complete \/ TaskUpdate \/ TaskCreate \/ GiveFeedback \/ AgentInit \/ DeleteFeature

ASpec == AInit /\ [][ANext]_avars

----------------------------------------------------------------------------
(* A task is never charged with more rounds than the rejections that were      *)
(* recorded against it, counted on from what was set by hand, however many     *)
(* verifications of it overlap, whoever completes it under them, and wherever  *)
(* one is killed: a round is counted after its rejection is saved, and from    *)
(* the count read before the checks (db.py:1141-1215).                        *)
RoundsDue(task) == task.byHand + task.rejections

RoundsAreRejections == \A t \in BuildTasks : tasks[t].iterations <= RoundsDue(tasks[t])
=============================================================================
