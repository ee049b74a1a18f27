-------------------------- MODULE Supervision_proofs --------------------------
(***************************************************************************)
(* Proofs about Supervision for any set of baskets, loops and requests,    *)
(* any limit on failures and any number of crashes: its types, that no     *)
(* basket fails more often in a row than its limit, that a cycle runs on   *)
(* the version it was pinned to, and that nothing cycles after a stop when *)
(* requests are served one at a time.                                      *)
(*                                                                         *)
(* The argument of the first three is about one basket (Sound): what its   *)
(* worker has counted is no less than what really failed in a row, unless  *)
(* the basket cannot cycle anyway, and a worker that is born again is born *)
(* only for such a basket or after a human stepped in.  The argument of    *)
(* the last is about the loops: one that is on is the controller's, and    *)
(* tasks exist only under one (Held).                                      *)
(***************************************************************************)
EXTENDS Supervision, TLAPS

Record == [version : Versions, status : Statuses]
Worker == [stopped : BOOLEAN, failures : 0..MaxFailures, runner : Runner \cup {None}]
Cycling == {"marks", "gate", "trading"}
MayCycle(b) == b \notin halted /\ published[b].status = "active"

Sound(b) ==
  /\ MayCycle(b) \/ task[b] \in Cycling => streak[b] <= worker[b].failures
  /\ worker[b].stopped => streak[b] = 0 \/ ~MayCycle(b)
  /\ task[b] \in Cycling \cup {"due", "sleeping", "halting"} => ~worker[b].stopped
  /\ worker[b].failures = MaxFailures => task[b] = "halting"
  /\ streak[b] = MaxFailures => task[b] = "halting" \/ b \in halted
  /\ task[b] \in Cycling => pinned[b] \in Runner
  /\ task[b] \in {"gate", "trading"} =>
       worker[b].runner \in Runner /\ worker[b].runner.version = pinned[b].version

Inv == TypeOK /\ \A b \in Baskets : Sound(b)

USE DEF Stages, Statuses, Versions, Record, Cycling

LEMMA Limits == MaxFailures \in Nat /\ MaxFailures > 0 /\ MaxVersion \in Nat /\ 1 \in Versions
BY SupervisionAssumption

LEMMA Workers == Retired \in Worker /\ Fresh \in Worker
BY Limits DEF Retired, Fresh, Worker

(* The parts of the types that a worker's step disturbs.                   *)
LEMMA TypesOf ==
  ASSUME Inv, NEW b \in Baskets
  PROVE  /\ published \in [Baskets -> Record] /\ published[b] \in Record
         /\ task \in [Baskets -> Stages] /\ task[b] \in Stages
         /\ worker \in [Baskets -> Worker] /\ worker[b] \in Worker
         /\ worker[b].failures \in 0..MaxFailures /\ worker[b].stopped \in BOOLEAN
         /\ worker[b].runner \in Runner \cup {None}
         /\ pinned \in [Baskets -> Runner \cup {None}] /\ pinned[b] \in Runner \cup {None}
         /\ streak \in [Baskets -> 0..MaxFailures] /\ streak[b] \in 0..MaxFailures
         /\ halted \subseteq Baskets /\ policy \in Versions
         /\ Sound(b)
<1>1. worker \in [Baskets -> Worker]
  BY DEF Inv, TypeOK, Worker
<1>2. worker[b] \in Worker
  BY <1>1
<1>3. /\ worker[b].failures \in 0..MaxFailures /\ worker[b].stopped \in BOOLEAN
      /\ worker[b].runner \in Runner \cup {None}
  BY <1>2 DEF Worker
<1>4. Sound(b)
  BY DEF Inv
<1> QED BY <1>1, <1>2, <1>3, <1>4 DEF Inv, TypeOK

(* A step that is about one basket keeps the invariant if that basket is   *)
(* sound after it.                                                         *)
Alike(d) ==
  /\ task'[d] = task[d] /\ worker'[d] = worker[d] /\ pinned'[d] = pinned[d]
  /\ streak'[d] = streak[d] /\ (d \in halted') = (d \in halted)

LEMMA OneBasket ==
  ASSUME Inv, NEW b \in Baskets,
         UNCHANGED <<documents, tripped, requestVars, crashes>>,
         task' \in [Baskets -> Stages], worker' \in [Baskets -> Worker],
         pinned' \in [Baskets -> Runner \cup {None}], streak' \in [Baskets -> 0..MaxFailures],
         halted' \subseteq Baskets,
         \A d \in Baskets : d # b => Alike(d),
         Sound(b)'
  PROVE  Inv'
<1>1. TypeOK'
  BY DEF Inv, TypeOK, Worker, documents, requestVars
<1>2. ASSUME NEW d \in Baskets, d # b PROVE Sound(d)'
  <2>1. Sound(d) /\ Alike(d) /\ published' = published
    BY <1>2 DEF Inv, documents
  <2> QED BY ONLY <2>1 DEF Sound, MayCycle, Alike
<1> QED BY <1>1, <1>2 DEF Inv

-----------------------------------------------------------------------------
LEMMA InvInit == Init => Inv
<1> SUFFICES ASSUME Init PROVE Inv
  OBVIOUS
<1>1. TypeOK
  <2>1. published \in [Baskets -> Record]
    <3>1. ASSUME NEW r \in [version : {1}, status : {"active"}] PROVE r \in Record
      BY Limits
    <3> QED BY <3>1 DEF Init
  <2>2. worker \in [Baskets -> Worker]
    BY Workers DEF Init
  <2>3. /\ policy \in Versions /\ streak \in [Baskets -> 0..MaxFailures]
        /\ pinned \in [Baskets -> Runner \cup {None}]
    BY Limits DEF Init
  <2>4. task \in [Baskets -> Stages] /\ loop \in [Loops -> {"off", "sweep", "asleep"}]
    BY DEF Init
  <2>5. /\ halted \subseteq Baskets /\ tripped \in BOOLEAN /\ permitted \in BOOLEAN
        /\ starting \subseteq Requests /\ controller \in Loops \cup {None}
        /\ serving \in BOOLEAN /\ wanted \in BOOLEAN /\ crashes \in Nat
    BY DEF Init
  <2> QED BY <2>1, <2>2, <2>3, <2>4, <2>5 DEF TypeOK, Worker
<1>2. ASSUME NEW b \in Baskets PROVE Sound(b)
  BY Limits DEF Init, Sound, MayCycle, Retired
<1> QED BY <1>1, <1>2 DEF Inv

(* The dashboard.                                                          *)
LEMMA PublishInv ==
  ASSUME Inv, NEW b \in Baskets, Publish(b)
  PROVE  Inv'
<1>1. PICK s \in Statuses :
        published' = [published EXCEPT ![b] = [version |-> @.version + 1, status |-> s]]
  BY DEF Publish
<1>2. /\ published \in [Baskets -> Record] /\ published[b] \in Record
      /\ streak \in [Baskets -> 0..MaxFailures]
  BY TypesOf
<1>3. [version |-> published[b].version + 1, status |-> s] \in Record
  BY <1>2, Limits DEF Publish
<1>4. TypeOK'
  <2>1. published' \in [Baskets -> Record] /\ streak' \in [Baskets -> 0..MaxFailures]
    BY <1>1, <1>2, <1>3, Limits DEF Publish
  <2> QED BY <2>1 DEF Inv, TypeOK, Publish, requestVars
<1>5. ASSUME NEW d \in Baskets PROVE Sound(d)'
  <2>1. /\ Sound(d) /\ worker[d].failures \in 0..MaxFailures /\ MaxFailures > 0
        /\ MaxFailures \in Nat
    BY TypesOf, Limits
  <2>2. UNCHANGED <<task, worker, pinned, halted>>
    BY DEF Publish
  <2>3. CASE d = b
    <3>1. streak'[d] = 0
      BY <1>2, <2>3 DEF Publish
    <3> QED BY <2>1, <2>2, <3>1 DEF Sound, MayCycle
  <2>4. CASE d # b
    <3>1. streak'[d] = streak[d] /\ published'[d] = published[d]
      BY <1>1, <1>2, <2>4 DEF Publish
    <3> QED BY <2>1, <2>2, <3>1 DEF Sound, MayCycle
  <2> QED BY <2>3, <2>4
<1> QED BY <1>4, <1>5 DEF Inv

LEMMA ResumeInv ==
  ASSUME Inv, NEW b \in Baskets, Resume(b)
  PROVE  Inv'
<1>1. streak \in [Baskets -> 0..MaxFailures]
  BY TypesOf
<1>2. TypeOK'
  <2>1. streak' \in [Baskets -> 0..MaxFailures] /\ halted' \subseteq Baskets
    BY <1>1, Limits DEF Resume, Inv, TypeOK
  <2> QED BY <2>1 DEF Inv, TypeOK, Resume, documents, requestVars
<1>3. ASSUME NEW d \in Baskets PROVE Sound(d)'
  <2>1. /\ Sound(d) /\ worker[d].failures \in 0..MaxFailures /\ MaxFailures > 0
        /\ MaxFailures \in Nat
    BY TypesOf, Limits
  <2>2. UNCHANGED <<task, worker, pinned, published>>
    BY DEF Resume, documents
  <2>3. CASE d = b
    <3>1. streak'[d] = 0
      BY <1>1, <2>3 DEF Resume
    <3> QED BY <2>1, <2>2, <3>1 DEF Sound, MayCycle
  <2>4. CASE d # b
    <3>1. streak'[d] = streak[d] /\ (d \in halted' <=> d \in halted)
      BY <1>1, <2>4 DEF Resume
    <3> QED BY <2>1, <2>2, <3>1 DEF Sound, MayCycle
  <2> QED BY <2>3, <2>4
<1> QED BY <1>2, <1>3 DEF Inv

(* Steps that leave every basket and its worker as they are.               *)
LEMMA Elsewhere ==
  ASSUME Inv, TypeOK', UNCHANGED <<published, halted, task, worker, pinned, streak>>
  PROVE  Inv'
BY DEF Inv, Sound, MayCycle

LEMMA OutsideInv ==
  ASSUME Inv,
         \/ PublishPolicy \/ Switch \/ Permit
         \/ \E r \in Requests : RequestStart(r) \/ \E l \in Loops : BeginServing(r, l)
  PROVE  Inv'
<1>1. CASE PublishPolicy
  <2>1. TypeOK'
    BY <1>1, Limits DEF Inv, TypeOK, PublishPolicy, requestVars
  <2> QED BY <1>1, <2>1, Elsewhere DEF PublishPolicy
<1>2. CASE Switch \/ Permit
  <2>1. TypeOK'
    BY <1>2 DEF Inv, TypeOK, Switch, Permit, documents, requestVars
  <2> QED BY <1>2, <2>1, Elsewhere DEF Switch, Permit, documents
<1>3. CASE \E r \in Requests : RequestStart(r)
  <2>1. TypeOK'
    BY <1>3 DEF Inv, TypeOK, RequestStart, documents
  <2> QED BY <1>3, <2>1, Elsewhere DEF RequestStart, documents
<1>4. CASE \E r \in Requests, l \in Loops : BeginServing(r, l)
  <2>1. TypeOK'
    BY <1>4 DEF Inv, TypeOK, BeginServing, documents
  <2> QED BY <1>4, <2>1, Elsewhere DEF BeginServing, documents
<1> QED BY <1>1, <1>2, <1>3, <1>4

(* The loop.                                                               *)
LEMMA StoppedInv ==
  ASSUME Inv, StopSupervisor, TypeOK', UNCHANGED <<published, halted>>
  PROVE  Inv'
<1>1. ASSUME NEW b \in Baskets PROVE Sound(b)'
  BY Limits DEF StopSupervisor, TasksCancelled, Retired, Sound, MayCycle
<1> QED BY <1>1 DEF Inv

LEMMA StoppedTypes ==
  ASSUME StopSupervisor
  PROVE  /\ serving' \in BOOLEAN
         /\ task' \in [Baskets -> Stages]
         /\ worker' \in [Baskets -> Worker]
         /\ pinned' \in [Baskets -> Runner \cup {None}]
         /\ streak' \in [Baskets -> 0..MaxFailures]
<1>1. serving' = FALSE
  BY DEF StopSupervisor
<1>2. ASSUME NEW b \in Baskets PROVE Retired \in Worker /\ 0 \in 0..MaxFailures
  BY Limits, Workers
<1>3. worker' \in [Baskets -> Worker]
  BY <1>2 DEF StopSupervisor
<1>4. streak' \in [Baskets -> 0..MaxFailures]
  BY <1>2 DEF StopSupervisor
<1>5. task' \in [Baskets -> Stages] /\ pinned' \in [Baskets -> Runner \cup {None}]
  BY DEF StopSupervisor, TasksCancelled
<1> QED BY <1>1, <1>3, <1>4, <1>5

LEMMA LoopInv ==
  ASSUME Inv, Stop \/ Crash \/ \E l \in Loops : WakeUp(l)
  PROVE  Inv'
<1>1. CASE Stop
  <2>1. UNCHANGED <<published, halted>>
    BY <1>1 DEF Stop
  <2>2. CASE StopSupervisor
    <3>1. TypeOK'
      BY <1>1, <2>2, StoppedTypes DEF Inv, TypeOK, Stop, Worker
    <3> QED BY <2>1, <2>2, <3>1, StoppedInv
  <2>3. CASE UNCHANGED <<serving, loop, task, pinned, worker, streak>>
    <3>1. TypeOK'
      BY <1>1, <2>3 DEF Inv, TypeOK, Stop
    <3> QED BY <2>1, <2>3, <3>1, Elsewhere
  <2> QED BY <1>1, <2>2, <2>3 DEF Stop
<1>2. CASE Crash
  <2>1. TypeOK'
    <3>1. /\ crashes' \in Nat /\ loop' \in [Loops -> {"off", "sweep", "asleep"}]
          /\ StopSupervisor /\ UNCHANGED <<documents, halted, tripped>>
          /\ starting' = {} /\ controller' = None /\ wanted' = FALSE
      BY <1>2 DEF Inv, TypeOK, Crash
    <3>2. worker' \in [Baskets -> Worker]
      BY <3>1, StoppedTypes
    <3> QED BY <3>1, <3>2, StoppedTypes DEF Inv, TypeOK, documents, Worker
  <2> QED BY <1>2, <2>1, StoppedInv DEF Crash, documents
<1>3. ASSUME NEW l \in Loops, WakeUp(l) PROVE Inv'
  <2>1. UNCHANGED <<published, halted>>
    BY <1>3 DEF WakeUp, documents
  <2>2. CASE StopSupervisor
    <3>1. TypeOK'
      BY <1>3, <2>2, StoppedTypes DEF Inv, TypeOK, WakeUp, documents, Worker
    <3> QED BY <2>1, <2>2, <3>1, StoppedInv
  <2>3. CASE UNCHANGED <<serving, task, pinned, worker, streak>>
    <3>1. TypeOK'
      BY <1>3, <2>3 DEF Inv, TypeOK, WakeUp, documents
    <3> QED BY <2>1, <2>3, <3>1, Elsewhere
  <2> QED BY <1>3, <2>2, <2>3 DEF WakeUp
<1> QED BY <1>1, <1>2, <1>3

(* The worker that sync creates has counted nothing; it may be born for a  *)
(* basket that failed only because that basket cannot cycle.               *)
LEMMA SyncInv ==
  ASSUME Inv, NEW l \in Loops, Sync(l)
  PROVE  Inv'
<1>1. task' \in [Baskets -> Stages] /\ worker' \in [Baskets -> Worker]
  <2>1. ASSUME NEW b \in Baskets
        PROVE  task[b] \in Stages /\ worker[b] \in Worker
    BY TypesOf
  <2> QED BY <2>1, Workers DEF Sync
<1>2. TypeOK'
  BY <1>1 DEF Inv, TypeOK, Sync, documents, Worker
<1>3. ASSUME NEW b \in Baskets PROVE Sound(b)'
  <2>1. /\ Sound(b) /\ worker[b].failures \in 0..MaxFailures /\ worker[b].stopped \in BOOLEAN
        /\ streak[b] \in 0..MaxFailures
    BY TypesOf
  <2>2. UNCHANGED <<published, halted, pinned, streak>>
    BY DEF Sync, documents
  <2>3. CASE b \in Startable /\ worker[b].stopped
    <3>1. task'[b] = "due" /\ worker'[b] = Fresh /\ task[b] \in {"none", "done"}
      BY <2>3 DEF Sync, Startable, Idle
    <3> QED BY <2>1, <2>2, <2>3, <3>1, Limits DEF Sound, MayCycle, Fresh
  <2>4. CASE b \in Startable /\ ~worker[b].stopped
    <3>1. task'[b] = "due" /\ worker'[b] = worker[b] /\ task[b] \in {"none", "done"}
      BY <2>4 DEF Sync, Startable, Idle
    <3> QED BY <2>1, <2>2, <2>4, <3>1, Limits DEF Sound, MayCycle
  <2>5. CASE b \notin Startable
    <3>1. /\ worker'[b] = worker[b]
          /\ task'[b] = task[b] \/ (task'[b] = "none" /\ task[b] \in {"none", "done"})
      BY <2>5 DEF Sync, Idle
    <3> QED BY <2>1, <2>2, <3>1, Limits DEF Sound, MayCycle
  <2> QED BY <2>3, <2>4, <2>5
<1> QED BY <1>2, <1>3 DEF Inv

LEMMA HaltsInv ==
  ASSUME Inv, NEW b \in Baskets, DriftHalts(b) \/ AutoPauses(b)
  PROVE  Inv'
<1>1. UNCHANGED <<documents, tripped, requestVars, task, worker, pinned, crashes, streak>>
  BY DEF DriftHalts, AutoPauses, unlessWorker
<1>2. halted' = halted \cup {b}
  BY DEF DriftHalts, AutoPauses
<1>3. Sound(b)'
  BY <1>1, <1>2, TypesOf DEF Sound, MayCycle, documents
<1> QED BY <1>1, <1>2, <1>3, TypesOf, OneBasket DEF Alike

-----------------------------------------------------------------------------
(* A worker's task.                                                        *)
LEMMA ScheduleInv ==
  ASSUME Inv, NEW b \in Baskets, Schedule(b)
  PROVE  Inv'
<1>1. UNCHANGED <<documents, tripped, requestVars, crashes, pinned, streak>> /\ task[b] = "due"
  BY DEF Schedule, unlessWorker, At
<1>2. CASE task' = [task EXCEPT ![b] = "sleeping"] /\ UNCHANGED <<worker, halted>>
  <2>1. task' \in [Baskets -> Stages] /\ task'[b] = "sleeping"
    BY <1>2, TypesOf
  <2>2. Sound(b)'
    BY <1>1, <1>2, <2>1, TypesOf DEF Sound, MayCycle, documents
  <2> QED BY <1>1, <1>2, <2>1, <2>2, TypesOf, OneBasket DEF Alike
<1>3. CASE /\ task' = [task EXCEPT ![b] = "done"] /\ worker' = [worker EXCEPT ![b] = Retired]
           /\ \/ halted' = halted /\ published[b].status = "retired"
              \/ halted' = halted \cup {b}
  <2>1. /\ task' \in [Baskets -> Stages] /\ task'[b] = "done"
        /\ worker' \in [Baskets -> Worker] /\ worker'[b] = Retired
        /\ halted' \subseteq Baskets
    BY <1>3, TypesOf, Workers
  <2>2. ~MayCycle(b)'
    BY <1>1, <1>3 DEF MayCycle, documents
  <2>3. Sound(b)'
    BY <1>1, <1>3, <2>1, <2>2, TypesOf, Limits DEF Sound, MayCycle, documents, Retired
  <2> QED BY <1>1, <1>3, <2>1, <2>3, TypesOf, OneBasket DEF Alike
<1> QED BY <1>2, <1>3 DEF Schedule, Goto

LEMMA FireInv ==
  ASSUME Inv, NEW b \in Baskets, Fire(b)
  PROVE  Inv'
<1>1. UNCHANGED <<documents, tripped, requestVars, crashes, halted, streak>> /\ task[b] = "sleeping"
  BY DEF Fire, unlessWorker, At
<1>2. CASE /\ Runnable(b) /\ pinned' = [pinned EXCEPT ![b] = Newest(b)]
           /\ task' = [task EXCEPT ![b] = "marks"] /\ UNCHANGED worker
  <2>1. Newest(b) \in Runner
    BY TypesOf DEF Newest, Runner
  <2>2. /\ task' \in [Baskets -> Stages] /\ task'[b] = "marks"
        /\ pinned' \in [Baskets -> Runner \cup {None}] /\ pinned'[b] \in Runner
    BY <1>2, <2>1, TypesOf
  <2>3. Sound(b)'
    BY <1>1, <1>2, <2>2, TypesOf DEF Sound, MayCycle, Runnable, documents
  <2> QED BY <1>1, <1>2, <2>2, <2>3, TypesOf, OneBasket DEF Alike
<1>3. CASE /\ ~Runnable(b) /\ worker' = [worker EXCEPT ![b].stopped = TRUE]
           /\ task' = [task EXCEPT ![b] = "rest"] /\ UNCHANGED pinned
  <2>1. /\ worker' \in [Baskets -> Worker] /\ worker'[b].stopped
        /\ worker'[b].failures = worker[b].failures
    BY <1>3, TypesOf DEF Worker
  <2>2. task' \in [Baskets -> Stages] /\ task'[b] = "rest"
    BY <1>3, TypesOf
  <2>3. Sound(b)'
    BY <1>1, <1>3, <2>1, <2>2, TypesOf DEF Sound, MayCycle, Runnable, documents
  <2> QED BY <1>1, <1>3, <2>1, <2>2, <2>3, TypesOf, OneBasket DEF Alike
<1> QED BY <1>2, <1>3 DEF Fire, Goto

LEMMA BuildInv ==
  ASSUME Inv, NEW b \in Baskets, Build(b)
  PROVE  Inv'
<1>1. /\ UNCHANGED <<documents, tripped, requestVars, crashes, halted, pinned, streak>>
      /\ task[b] = "marks" /\ pinned[b] \in Runner
  BY TypesOf DEF Build, unlessWorker, At, Sound
<1>2. RunnerFor(b) \in Runner /\ RunnerFor(b).version = pinned[b].version
  BY <1>1, TypesOf DEF RunnerFor, Keeps, Runner
<1>3. /\ worker' \in [Baskets -> Worker] /\ worker'[b].runner = RunnerFor(b)
      /\ worker'[b].failures = worker[b].failures /\ worker'[b].stopped = worker[b].stopped
  BY <1>2, TypesOf DEF Worker, Build
<1>4. task' \in [Baskets -> Stages] /\ task'[b] = "gate"
  BY TypesOf DEF Build, Goto
<1>5. Sound(b)'
  BY <1>1, <1>2, <1>3, <1>4, TypesOf DEF Sound, MayCycle, documents
<1>6. \A d \in Baskets : d # b => Alike(d)
  BY <1>1, TypesOf DEF Build, Goto, Alike
<1> QED BY <1>1, <1>3, <1>4, <1>5, <1>6, TypesOf, OneBasket

LEMMA OverInv ==
  ASSUME Inv, NEW b \in Baskets, Blocks(b) \/ Completes(b)
  PROVE  Inv'
<1>1. /\ UNCHANGED <<documents, tripped, requestVars, crashes, halted>>
      /\ task[b] \in {"gate", "trading"}
      /\ task' = [task EXCEPT ![b] = "rest"] /\ pinned' = [pinned EXCEPT ![b] = None]
      /\ worker' = [worker EXCEPT ![b].failures = 0] /\ streak' = [streak EXCEPT ![b] = 0]
  BY DEF Blocks, Completes, unlessWorker, At, Goto, Over
<1>2. /\ worker' \in [Baskets -> Worker] /\ worker'[b].failures = 0
      /\ worker'[b].stopped = worker[b].stopped
  BY <1>1, TypesOf, Limits DEF Worker
<1>3. /\ task' \in [Baskets -> Stages] /\ task'[b] = "rest"
      /\ pinned' \in [Baskets -> Runner \cup {None}]
      /\ streak' \in [Baskets -> 0..MaxFailures] /\ streak'[b] = 0
  BY <1>1, TypesOf, Limits
<1>4. Sound(b)'
  BY <1>1, <1>2, <1>3, TypesOf, Limits DEF Sound, MayCycle, documents
<1>5. \A d \in Baskets : d # b => Alike(d)
  BY <1>1, TypesOf DEF Alike
<1> QED BY <1>1, <1>2, <1>3, <1>4, <1>5, TypesOf, OneBasket

LEMMA PassesInv ==
  ASSUME Inv, NEW b \in Baskets, Passes(b)
  PROVE  Inv'
<1>1. /\ UNCHANGED <<documents, tripped, requestVars, crashes, halted, worker, pinned, streak>>
      /\ task[b] = "gate" /\ task' = [task EXCEPT ![b] = "trading"]
  BY DEF Passes, unlessWorker, At, Goto
<1>2. task' \in [Baskets -> Stages] /\ task'[b] = "trading"
  BY <1>1, TypesOf
<1>3. Sound(b)'
  BY <1>1, <1>2, TypesOf DEF Sound, MayCycle, documents
<1> QED BY <1>1, <1>2, <1>3, TypesOf, OneBasket DEF Alike

(* What a failure adds to the streak it adds to the worker's count, and    *)
(* the count is below its limit before, since the worker is not halting.   *)
LEMMA FailsInv ==
  ASSUME Inv, NEW b \in Baskets, Fails(b)
  PROVE  Inv'
<1> DEFINE n == worker[b].failures + 1
           stage == IF n >= MaxFailures THEN "halting" ELSE "rest"
<1>1. /\ UNCHANGED <<documents, tripped, requestVars, crashes>>
      /\ task[b] \in Cycling
      /\ halted' = halted \/ halted' = halted \cup {b}
      /\ worker' = [worker EXCEPT ![b].failures = n]
      /\ task' = [task EXCEPT ![b] = stage]
      /\ streak' = [streak EXCEPT ![b] = @ + 1]
      /\ pinned' = [pinned EXCEPT ![b] = None]
  BY DEF Fails, unlessWorker, Counted, TooMany, Goto, Over
<1>2. /\ streak[b] <= worker[b].failures /\ ~worker[b].stopped
      /\ worker[b].failures # MaxFailures
      /\ worker[b].failures \in 0..MaxFailures /\ streak[b] \in 0..MaxFailures
  BY <1>1, TypesOf DEF Sound
<1>3. n \in 0..MaxFailures /\ streak[b] + 1 \in 0..MaxFailures /\ streak[b] + 1 <= n
  BY <1>2, Limits
<1>4. /\ worker' \in [Baskets -> Worker] /\ worker'[b].failures = n
      /\ worker'[b].stopped = worker[b].stopped
  BY <1>1, <1>3, TypesOf DEF Worker
<1>5. /\ task' \in [Baskets -> Stages] /\ task'[b] = stage
      /\ pinned' \in [Baskets -> Runner \cup {None}]
      /\ streak' \in [Baskets -> 0..MaxFailures] /\ streak'[b] = streak[b] + 1
      /\ halted' \subseteq Baskets
  BY <1>1, <1>3, TypesOf
<1>6. Sound(b)'
  BY <1>2, <1>3, <1>4, <1>5, Limits DEF Sound, MayCycle
<1>7. \A d \in Baskets : d # b => Alike(d)
  BY <1>1, TypesOf DEF Alike
<1> QED BY <1>1, <1>4, <1>5, <1>6, <1>7, OneBasket

LEMMA HaltInv ==
  ASSUME Inv, NEW b \in Baskets, Halt(b)
  PROVE  Inv'
<1>1. /\ UNCHANGED <<documents, tripped, requestVars, crashes, pinned, streak>>
      /\ halted' = halted \cup {b} /\ worker' = [worker EXCEPT ![b] = Retired]
      /\ task' = [task EXCEPT ![b] = "rest"]
  BY DEF Halt, unlessWorker, Goto
<1>2. /\ task' \in [Baskets -> Stages] /\ task'[b] = "rest"
      /\ worker' \in [Baskets -> Worker] /\ worker'[b] = Retired
      /\ halted' \subseteq Baskets /\ b \in halted'
  BY <1>1, TypesOf, Workers
<1>3. Sound(b)'
  BY <1>2, Limits DEF Sound, MayCycle, Retired
<1> QED BY <1>1, <1>2, <1>3, TypesOf, OneBasket DEF Alike

LEMMA RestInv ==
  ASSUME Inv, NEW b \in Baskets, Rest(b)
  PROVE  Inv'
<1> DEFINE stage == IF worker[b].stopped THEN "done" ELSE "due"
<1>1. /\ UNCHANGED <<documents, tripped, requestVars, crashes, halted, worker, pinned, streak>>
      /\ task[b] = "rest" /\ task' = [task EXCEPT ![b] = stage]
  BY DEF Rest, unlessWorker, At, Goto
<1>2. task' \in [Baskets -> Stages] /\ task'[b] = stage
  BY <1>1, TypesOf
<1>3. Sound(b)'
  BY <1>1, <1>2, TypesOf DEF Sound, MayCycle, documents
<1> QED BY <1>1, <1>2, <1>3, TypesOf, OneBasket DEF Alike

LEMMA InvStep == Inv /\ [Next]_vars => Inv'
<1> SUFFICES ASSUME Inv, [Next]_vars PROVE Inv'
  OBVIOUS
<1>1. ASSUME NEW b \in Baskets,
             Publish(b) \/ Resume(b) \/ DriftHalts(b) \/ AutoPauses(b) \/ Advance(b)
      PROVE  Inv'
  BY <1>1, PublishInv, ResumeInv, HaltsInv, ScheduleInv, FireInv, BuildInv, OverInv, PassesInv,
     FailsInv, HaltInv, RestInv DEF Advance
<1>2. CASE UNCHANGED vars
  <2>1. TypeOK'
    BY <1>2 DEF Inv, TypeOK, vars, requestVars
  <2> QED BY <1>2, <2>1, Elsewhere DEF vars
<1> QED BY <1>1, <1>2, OutsideInv, LoopInv, SyncInv DEF Next

LEMMA InvHolds == Spec => []Inv
BY InvInit, InvStep, PTL DEF Spec
-----------------------------------------------------------------------------
(* Every value has its type in every reachable state: no count, version or *)
(* runner leaves its range, whatever retires and restarts the workers.     *)
THEOREM TypeCorrect == Spec => []TypeOK
<1>1. Inv => TypeOK
  BY DEF Inv
<1> QED BY <1>1, InvHolds, PTL

(* No basket fails more often in a row than the limit without a human      *)
(* stepping in, for any number of baskets, loops and crashes (_cycle and   *)
(* _failed in control/basket_runner.py).                                   *)
THEOREM FailuresBounded == Spec => []NoRunaway
<1>1. Inv => NoRunaway
  <2> SUFFICES ASSUME Inv, NEW b \in Baskets
               PROVE  /\ streak[b] <= MaxFailures
                      /\ streak[b] = MaxFailures =>
                           task[b] \in {"halting", "rest", "done", "none"} \/ b \in halted
    BY DEF NoRunaway
  <2> QED BY TypesOf, Limits DEF Sound
<1> QED BY <1>1, InvHolds, PTL

(* A cycle runs on the version of its basket that was pinned when it began *)
(* (_runnable and _runner_for in control/basket_runner.py).                *)
THEOREM PinnedVersionRuns == Spec => []EditInForce
<1>1. Inv => EditInForce
  BY DEF Inv, Sound, EditInForce
<1> QED BY <1>1, InvHolds, PTL

-----------------------------------------------------------------------------
(* The loops, when requests are served one at a time.                      *)
Off == \A l \in Loops : loop[l] = "off"

Held ==
  /\ \A r, s \in starting : r = s
  /\ starting # {} => wanted /\ Off
  /\ \A l \in Loops : loop[l] # "off" => controller = l /\ wanted
  /\ Off => \A b \in Baskets : task[b] = "none"

(* A worker's steps are those of a task that exists, so a loop is on.      *)
LEMMA AdvanceHeld ==
  ASSUME Held, Inv, NEW b \in Baskets, Advance(b)
  PROVE  Held'
<1>1. UNCHANGED requestVars
  BY DEF Advance, Schedule, Fire, Build, Blocks, Passes, Completes, Fails, Halt, Rest, unlessWorker
<1>2. task[b] # "none"
  BY DEF Advance, Schedule, Fire, Build, Blocks, Passes, Completes, Fails, Halt, Rest, At
<1>3. ~Off
  BY <1>2 DEF Held
<1> QED BY <1>1, <1>3 DEF Held, Off, requestVars

(* Steps that touch neither a loop nor a task.                             *)
LEMMA StillHeld ==
  ASSUME Held, UNCHANGED <<requestVars, task>>
  PROVE  Held'
BY DEF Held, Off, requestVars

LEMMA RequestHeld ==
  ASSUME Held, Inv, ~Overlap, NEW r \in Requests, RequestStart(r)
  PROVE  Held'
<1>1. starting = {} /\ starting' = {r} /\ wanted' = TRUE
  BY DEF RequestStart, Alone
<1>2. Off
  <2>1. ASSUME NEW l \in Loops, loop[l] # "off" PROVE FALSE
    BY <2>1, SupervisionAssumption DEF Held, RequestStart, Running
  <2> QED BY <2>1 DEF Off
<1> QED BY <1>1, <1>2 DEF Held, Off, RequestStart

LEMMA ServingHeld ==
  ASSUME Held, Inv, NEW r \in Requests, NEW l \in Loops, BeginServing(r, l)
  PROVE  Held'
<1>1. starting' = {} /\ wanted' /\ controller' = l
  BY DEF Held, BeginServing
<1>2. /\ loop'[l] = "sweep"
      /\ \A k \in Loops : loop'[k] # "off" => k = l
  BY DEF Held, Off, BeginServing, Inv, TypeOK
<1> QED BY <1>1, <1>2 DEF Held, Off, BeginServing

(* When the tasks are cancelled the loop that ran is off.                  *)
LEMMA StopHeld ==
  ASSUME Held, Inv, ~Overlap, Stop
  PROVE  Held'
<1>1. starting = {} /\ starting' = {}
  BY DEF Stop, Alone
<1>2. Off'
  <2>1. CASE Running
    BY <2>1 DEF Held, Off, Stop, Running, Inv, TypeOK
  <2>2. CASE ~Running
    <3>1. Off
      <4>1. ASSUME NEW l \in Loops, loop[l] # "off" PROVE FALSE
        BY <2>2, <4>1, SupervisionAssumption DEF Held, Running
      <4> QED BY <4>1 DEF Off
    <3> QED BY <2>2, <3>1 DEF Off, Stop
  <2> QED BY <2>1, <2>2
<1>3. \A b \in Baskets : task'[b] = "none"
  <2>1. CASE Running
    BY <2>1 DEF Stop, StopSupervisor, TasksCancelled
  <2>2. CASE ~Running
    BY <2>2, <1>2 DEF Held, Off, Stop
  <2> QED BY <2>1, <2>2
<1> QED BY <1>1, <1>2, <1>3 DEF Held, Off

LEMMA LoopHeld ==
  ASSUME Held, Inv, NEW l \in Loops, Sync(l) \/ WakeUp(l)
  PROVE  Held'
<1>1. loop[l] # "off" /\ controller = l /\ starting = {} /\ wanted
  BY DEF Held, Off, Sync, WakeUp
<1>2. UNCHANGED <<starting, controller, wanted>>
  BY DEF Sync, WakeUp
<1>3. \A k \in Loops : k # l => loop[k] = "off" /\ loop'[k] = "off"
  BY <1>1 DEF Held, Sync, WakeUp, Inv, TypeOK
<1>4. CASE loop'[l] # "off"
  BY <1>1, <1>2, <1>3, <1>4 DEF Held, Off
<1>5. CASE loop'[l] = "off"
  <2>1. StopSupervisor
    BY <1>5 DEF Sync, WakeUp, Inv, TypeOK
  <2> QED BY <1>1, <1>2, <1>3, <1>5, <2>1 DEF Held, Off, StopSupervisor, TasksCancelled
<1> QED BY <1>4, <1>5

LEMMA HeldStep == ~Overlap /\ Inv /\ Held /\ [Next]_vars => Held'
<1> SUFFICES ASSUME ~Overlap, Inv, Held, [Next]_vars PROVE Held'
  OBVIOUS
<1>1. CASE \E b \in Baskets : Advance(b)
  BY <1>1, AdvanceHeld
<1>2. CASE \/ \E b \in Baskets : Publish(b) \/ Resume(b) \/ DriftHalts(b) \/ AutoPauses(b)
           \/ PublishPolicy \/ Switch \/ Permit \/ UNCHANGED vars
  <2>1. UNCHANGED <<requestVars, task>>
    BY <1>2 DEF Publish, Resume, DriftHalts, AutoPauses, unlessWorker, PublishPolicy, Switch,
                Permit, vars
  <2> QED BY <2>1, StillHeld
<1>3. CASE Crash
  BY <1>3 DEF Crash, StopSupervisor, TasksCancelled, Held, Off
<1> QED BY <1>1, <1>2, <1>3, RequestHeld, ServingHeld, StopHeld, LoopHeld DEF Next

(* When requests are served one at a time, nothing cycles once a stop, or  *)
(* the withdrawal of the live permission, has been answered, until it is   *)
(* asked for again (SupervisionController in control/supervision.py).      *)
THEOREM StoppedIsQuiet ==
  ASSUME ~Overlap
  PROVE  Spec => []QuietWhenStopped
<1>1. Init => Held
  BY DEF Init, Held, Off
<1>2. Inv /\ Held /\ [Next]_vars => Held'
  BY HeldStep
<1>3. Held => QuietWhenStopped
  BY DEF Held, Off, QuietWhenStopped
<1> QED BY <1>1, <1>2, <1>3, InvHolds, PTL DEF Spec
=============================================================================
