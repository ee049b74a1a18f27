---------------------------- MODULE Supervision ----------------------------
(***************************************************************************)
(* Who cycles which basket, and when: the SupervisionController that an    *)
(* operator starts and stops, the Supervisor's loop, one BasketWorker and  *)
(* one task per basket, the configuration they read at every cycle, and    *)
(* what may stop them: the kill switch (here as the atomic switch that     *)
(* Watchdog implements), a halt, a pause, a retirement, a crash.           *)
(*                                                                         *)
(* A step is what a coroutine does between two awaits.  What a cycle does  *)
(* past its gate (snapshot, panel, risk engines, orders) is one stage.     *)
(***************************************************************************)
EXTENDS Integers, FiniteSets

CONSTANTS
  Baskets,
  Loops,        \* the tasks that may run Supervisor.serve
  Requests,     \* the operator's requests to start
  None,
  MaxFailures,  \* max_consecutive_failures
  MaxVersion,   \* bound: versions of a document that get published
  MaxCrashes,   \* bound: how often the process dies
  Overlap       \* whether other requests are served while a start awaits

ASSUME SupervisionAssumption ==
  /\ MaxFailures \in Nat \ {0} /\ MaxVersion \in Nat \ {0} /\ MaxCrashes \in Nat
  /\ Overlap \in BOOLEAN
  /\ None \notin Loops

VARIABLES
  \* in the database
  published,  \* published[b]: the newest version of the basket and its status
  policy,     \* the newest version of the Tier-2 policy
  halted,     \* the baskets with a persisted halt
  tripped,    \* the kill switch
  permitted,  \* the live permission
  \* in the process
  starting,   \* the start requests that wait for the limits to be recorded
  controller, \* the controller's _task
  serving,    \* the supervisor's _serving
  loop,       \* loop[l]: where a serve task stands
  task,       \* task[b]: where the task of b stands
  worker,     \* worker[b]: the worker of b; one that never was is a stopped one
  pinned,     \* pinned[b]: the newest versions when the cycle of b began
  crashes,
  \* history
  wanted,     \* no stop was answered since the last request to start
  streak      \* streak[b]: cycles failed in a row since a human last intervened

requestVars == <<starting, controller, serving, loop, wanted>>
documents == <<published, policy, permitted>>
vars == <<published, policy, halted, tripped, permitted, requestVars, task, worker, pinned,
          crashes, streak>>

Versions == 1..MaxVersion
Statuses == {"active", "paused", "retired"}
Retired == [stopped |-> TRUE, failures |-> 0, runner |-> None]
Fresh == [stopped |-> FALSE, failures |-> 0, runner |-> None]
Newest(b) == [version |-> published[b].version, policy |-> policy]

Init ==
  /\ published \in [Baskets -> [version : {1}, status : {"active"}]]
  /\ policy = 1
  /\ halted = {} /\ tripped = FALSE /\ permitted = TRUE
  /\ starting = {} /\ controller = None /\ serving = FALSE
  /\ loop = [l \in Loops |-> "off"]
  /\ task = [b \in Baskets |-> "none"]
  /\ worker = [b \in Baskets |-> Retired]
  /\ pinned = [b \in Baskets |-> None]
  /\ crashes = 0
  /\ wanted = FALSE
  /\ streak = [b \in Baskets |-> 0]

----------------------------------------------------------------------------
(* The dashboard's requests that write to the database. *)
Publish(b) ==
  /\ published[b].version < MaxVersion
  /\ published[b].status # "retired"
  /\ \E s \in Statuses :
       published' = [published EXCEPT ![b] = [version |-> @.version + 1, status |-> s]]
  /\ streak' = [streak EXCEPT ![b] = 0]
  /\ UNCHANGED <<policy, halted, tripped, permitted, requestVars, task, worker, pinned, crashes>>

PublishPolicy ==
  /\ policy < MaxVersion
  /\ policy' = policy + 1
  /\ UNCHANGED <<published, halted, tripped, permitted, requestVars, task, worker, pinned, crashes,
                 streak>>

Resume(b) ==
  /\ b \in halted
  /\ halted' = halted \ {b}
  /\ streak' = [streak EXCEPT ![b] = 0]
  /\ UNCHANGED <<documents, tripped, requestVars, task, worker, pinned, crashes>>

Switch ==
  /\ tripped' = ~tripped
  /\ UNCHANGED <<documents, halted, requestVars, task, worker, pinned, crashes, streak>>

----------------------------------------------------------------------------
(* The controller.  A start looks at what stands against it, records the   *)
(* limits, an append to the log, and then creates the task.                *)
Alone == Overlap \/ starting = {}
Running == controller # None /\ loop[controller] # "off"
Blocked == tripped \/ ~permitted

RequestStart(r) ==
  /\ r \notin starting /\ Alone
  /\ ~Running /\ ~Blocked
  /\ starting' = starting \cup {r}
  /\ wanted' = TRUE
  /\ UNCHANGED <<documents, halted, tripped, controller, serving, loop, task, worker, pinned,
                 crashes, streak>>

BeginServing(r, l) ==
  /\ r \in starting /\ loop[l] = "off"
  /\ starting' = starting \ {r}
  /\ controller' = l
  /\ serving' = TRUE
  /\ loop' = [loop EXCEPT ![l] = "sweep"]
  /\ UNCHANGED <<documents, halted, tripped, wanted, task, worker, pinned, crashes, streak>>

(* Supervisor.stop, at the end of a serve task: every worker's task is     *)
(* cancelled and waited for, and every worker retired.                     *)
TasksLeft == UNCHANGED <<task, pinned>>
TasksCancelled ==
  /\ task' = [b \in Baskets |-> "none"]
  /\ pinned' = [b \in Baskets |-> None]

StopSupervisor ==
  /\ serving' = FALSE
  /\ TasksCancelled
  /\ worker' = [b \in Baskets |-> Retired]
  /\ streak' = [b \in Baskets |-> 0]

(* Stop, and withdrawing the live permission, which ends in a stop. *)
Stop ==
  /\ Alone
  /\ \/ UNCHANGED permitted
     \/ permitted' = FALSE
  /\ controller' = None
  /\ wanted' = FALSE
  /\ \/ /\ Running
        /\ loop' = [loop EXCEPT ![controller] = "off"]
        /\ StopSupervisor
     \/ /\ ~Running
        /\ UNCHANGED <<serving, loop, task, pinned, worker, streak>>
  /\ UNCHANGED <<published, policy, halted, tripped, starting, crashes>>

Permit ==
  /\ permitted' = TRUE
  /\ UNCHANGED <<published, policy, halted, tripped, requestVars, task, worker, pinned, crashes,
                 streak>>

----------------------------------------------------------------------------
(* The supervisor's loop: the drift check, which may halt a basket, the    *)
(* poll and the valuation; then sync; then sleep.                          *)
DriftHalts(b) ==
  /\ \E l \in Loops : loop[l] = "sweep"
  /\ published[b].status # "retired"
  /\ b \notin halted
  /\ halted' = halted \cup {b}
  /\ UNCHANGED <<documents, tripped, requestVars, task, worker, pinned, crashes, streak>>

NeverForgotten == {b \in Baskets : task[b] = "none"}

Idle == {b \in Baskets : task[b] \in {"none", "done"}}
Startable == {b \in Idle : published[b].status # "retired"}

Sync(l) ==
  /\ loop[l] = "sweep"
  /\ loop' = [loop EXCEPT ![l] = "asleep"]
  /\ task' = [b \in Baskets |->
                IF b \in Startable THEN "due" ELSE IF b \in Idle THEN "none" ELSE task[b]]
  /\ worker' = [b \in Baskets |->
                  IF b \in Startable /\ worker[b].stopped THEN Fresh ELSE worker[b]]
  /\ UNCHANGED <<documents, halted, tripped, starting, controller, serving, wanted, pinned, crashes,
                 streak>>

WakeUp(l) ==
  /\ loop[l] = "asleep"
  /\ \/ /\ serving
        /\ loop' = [loop EXCEPT ![l] = "sweep"]
        /\ UNCHANGED <<serving, task, pinned, worker, streak>>
     \/ /\ ~serving
        /\ loop' = [loop EXCEPT ![l] = "off"]
        /\ StopSupervisor
  /\ UNCHANGED <<documents, halted, tripped, starting, controller, wanted, crashes>>

----------------------------------------------------------------------------
(* A worker's task. *)
unlessWorker == <<documents, tripped, requestVars, crashes>>
At(b, stage) == task[b] = stage
Goto(b, stage) == task' = [task EXCEPT ![b] = stage]

(* _wait_until_due: a retired basket ends its task; a schedule that cannot *)
(* be met halts the basket first.                                          *)
Schedule(b) ==
  /\ At(b, "due")
  /\ \/ /\ published[b].status # "retired"
        /\ Goto(b, "sleeping")
        /\ UNCHANGED <<worker, halted>>
     \/ /\ published[b].status = "retired"
        /\ Goto(b, "done")
        /\ worker' = [worker EXCEPT ![b] = Retired]
        /\ UNCHANGED halted
     \/ /\ published[b].status # "retired"
        /\ Goto(b, "done")
        /\ worker' = [worker EXCEPT ![b] = Retired]
        /\ halted' = halted \cup {b}
  /\ UNCHANGED <<unlessWorker, pinned, streak>>

(* _runnable: the newest version, unless it, or a persisted halt, stops it. *)
RunnableUnlessPaused(b) == published[b].status = "active"
Runnable(b) == published[b].status = "active" /\ b \notin halted

Fire(b) ==
  /\ At(b, "sleeping")
  /\ \/ /\ Runnable(b)
        /\ pinned' = [pinned EXCEPT ![b] = Newest(b)]
        /\ Goto(b, "marks")
        /\ UNCHANGED worker
     \/ /\ ~Runnable(b)
        /\ worker' = [worker EXCEPT ![b].stopped = TRUE]
        /\ Goto(b, "rest")
        /\ UNCHANGED pinned
  /\ UNCHANGED <<unlessWorker, halted, streak>>

(* _runner_for: the runner is kept while the version of the basket stands. *)
KeepsAny(b) == worker[b].runner # None
Keeps(b) == worker[b].runner # None /\ worker[b].runner.version = pinned[b].version
RunnerFor(b) ==
  IF Keeps(b) THEN worker[b].runner ELSE [version |-> pinned[b].version, policy |-> policy]

Build(b) ==
  /\ At(b, "marks")
  /\ worker' = [worker EXCEPT ![b].runner = RunnerFor(b)]
  /\ Goto(b, "gate")
  /\ UNCHANGED <<unlessWorker, halted, pinned, streak>>

Over(b) == pinned' = [pinned EXCEPT ![b] = None]

(* The gate: a tripped switch blocks the cycle, and so does a portfolio    *)
(* that cannot be valued, or has lost enough for the day.  A cycle that    *)
(* was blocked has not failed.                                             *)
Blocks(b) ==
  /\ At(b, "gate")
  /\ Goto(b, "rest") /\ Over(b)
  /\ worker' = [worker EXCEPT ![b].failures = 0]
  /\ streak' = [streak EXCEPT ![b] = 0]
  /\ UNCHANGED <<unlessWorker, halted>>

Passes(b) ==
  /\ At(b, "gate") /\ ~tripped
  /\ Goto(b, "trading")
  /\ UNCHANGED <<unlessWorker, halted, worker, pinned, streak>>

Completes(b) ==
  /\ At(b, "trading")
  /\ Goto(b, "rest") /\ Over(b)
  /\ worker' = [worker EXCEPT ![b].failures = 0]
  /\ streak' = [streak EXCEPT ![b] = 0]
  /\ UNCHANGED <<unlessWorker, halted>>

(* The consecutive-loss rule halts the basket; the cycle goes on.          *)
AutoPauses(b) ==
  /\ At(b, "trading")
  /\ halted' = halted \cup {b}
  /\ UNCHANGED <<unlessWorker, task, worker, pinned, streak>>

(* _failed: a runner that cannot be built, a cycle that raises, and one    *)
(* that fails closed, which halts the basket at once.                      *)
OnlyCyclesCount(stage) == stage \in {"gate", "trading"}
Counted(stage) == stage \in {"marks", "gate", "trading"}
TooMany(n) == n >= MaxFailures

Fails(b) ==
  /\ task[b] \in {"marks", "gate", "trading"}
  /\ \/ UNCHANGED halted
     \/ task[b] # "marks" /\ halted' = halted \cup {b}
  /\ LET failures == IF Counted(task[b]) THEN worker[b].failures + 1 ELSE worker[b].failures IN
     /\ worker' = [worker EXCEPT ![b].failures = failures]
     /\ Goto(b, IF TooMany(failures) THEN "halting" ELSE "rest")
  /\ streak' = [streak EXCEPT ![b] = @ + 1]
  /\ Over(b)
  /\ UNCHANGED unlessWorker

Halt(b) ==
  /\ At(b, "halting")
  /\ halted' = halted \cup {b}
  /\ worker' = [worker EXCEPT ![b] = Retired]
  /\ Goto(b, "rest")
  /\ UNCHANGED <<unlessWorker, pinned, streak>>

(* After the backoff. *)
Rest(b) ==
  /\ At(b, "rest")
  /\ Goto(b, IF worker[b].stopped THEN "done" ELSE "due")
  /\ UNCHANGED <<unlessWorker, halted, worker, pinned, streak>>

Advance(b) ==
  Schedule(b) \/ Fire(b) \/ Build(b) \/ Blocks(b) \/ Passes(b) \/ Completes(b)
  \/ Fails(b) \/ Halt(b) \/ Rest(b)

----------------------------------------------------------------------------
(* After a crash nothing cycles until it is asked for again. *)
Crash ==
  /\ crashes < MaxCrashes
  /\ crashes' = crashes + 1
  /\ starting' = {} /\ controller' = None /\ wanted' = FALSE
  /\ loop' = [l \in Loops |-> "off"]
  /\ StopSupervisor
  /\ UNCHANGED <<documents, halted, tripped>>

Next ==
  \/ \E b \in Baskets : Publish(b) \/ Resume(b) \/ DriftHalts(b) \/ AutoPauses(b) \/ Advance(b)
  \/ PublishPolicy \/ Switch \/ Permit \/ Stop \/ Crash
  \/ \E r \in Requests : RequestStart(r) \/ \E l \in Loops : BeginServing(r, l)
  \/ \E l \in Loops : Sync(l) \/ WakeUp(l)

Spec == Init /\ [][Next]_vars

(* The event loop lets every coroutine go on, and a sleep ends: a task is  *)
(* only kept from its next stage by being cancelled.                       *)
Fairness ==
  /\ \A b \in Baskets : WF_vars(Advance(b))
  /\ \A l \in Loops : WF_vars(Sync(l)) /\ WF_vars(WakeUp(l))

FairSpec == Spec /\ Fairness

----------------------------------------------------------------------------
Runner == [version : Versions, policy : Versions]
Stages == {"none", "due", "sleeping", "marks", "gate", "trading", "halting", "rest", "done"}

TypeOK ==
  /\ published \in [Baskets -> [version : Versions, status : Statuses]]
  /\ policy \in Versions
  /\ halted \subseteq Baskets
  /\ tripped \in BOOLEAN /\ permitted \in BOOLEAN
  /\ starting \subseteq Requests
  /\ controller \in Loops \cup {None}
  /\ serving \in BOOLEAN /\ wanted \in BOOLEAN
  /\ loop \in [Loops -> {"off", "sweep", "asleep"}]
  /\ task \in [Baskets -> Stages]
  /\ worker \in [Baskets -> [stopped : BOOLEAN, failures : 0..MaxFailures,
                             runner : Runner \cup {None}]]
  /\ pinned \in [Baskets -> Runner \cup {None}]
  /\ crashes \in Nat
  /\ streak \in [Baskets -> 0..MaxFailures]

(* Once a stop, or the withdrawal of the live permission, has been         *)
(* answered, nothing cycles until it is asked for again (the opening of    *)
(* control/supervision.py: "is anything cycling right now" has one answer).*)
QuietWhenStopped ==
  ~wanted => /\ \A l \in Loops : loop[l] = "off"
             /\ \A b \in Baskets : task[b] = "none"

(* No basket fails more often in a row than the limit without a human      *)
(* stepping in, wherever its failures come from: a runner that cannot be   *)
(* built counts like a cycle that raises, and no retirement and rebirth of *)
(* the worker in between forgets a count it should have kept (_cycle).     *)
NoRunaway ==
  \A b \in Baskets :
    /\ streak[b] <= MaxFailures
    /\ streak[b] = MaxFailures => task[b] \in {"halting", "rest", "done", "none"} \/ b \in halted

(* A cycle runs on the version of the basket that was the newest when it   *)
(* began: an edit is neither missed at a boundary nor seen in mid-cycle.   *)
EditInForce ==
  \A b \in Baskets :
    task[b] \in {"gate", "trading"} => worker[b].runner.version = pinned[b].version

(* The same of the Tier-2 policy (RunnerFactory in app.py).                *)
PolicyInForce ==
  \A b \in Baskets :
    task[b] \in {"gate", "trading"} => worker[b].runner.policy >= pinned[b].policy

(* A basket that stays halted, paused or retired stops being cycled, and   *)
(* one that stays in service, under a supervisor that is not stopped, goes *)
(* on being cycled, whatever retired its worker before.                    *)
Serviceable(b) == published[b].status = "active" /\ b \notin halted
Served == \E l \in Loops : loop[l] # "off"
HaltedComesToRest ==
  \A b \in Baskets :
    <>[](published[b].status # "active" \/ b \in halted)
      => <>[](task[b] \notin {"marks", "gate", "trading"})
ServedAgain ==
  \A b \in Baskets :
    <>[](wanted /\ Served /\ Serviceable(b)) => []<>(task[b] \in {"marks", "gate"})

=============================================================================
