-------------------------- MODULE Execution_proofs ---------------------------
(***************************************************************************)
(* Proofs about Execution for any number of orders, any order size, any    *)
(* number of crashes and, unless a theorem says otherwise, any faults.     *)
(*                                                                         *)
(* A step of a task does one of three things with the order it holds: it   *)
(* keeps it, it raises, or it returns it.  One lemma for each (KeepHold,   *)
(* RaiseHold, ReturnHold) says that custody of the orders survives; the    *)
(* proof of the step theorem then only has to say which of them an action  *)
(* is, and what it does to the venue and to the states of the copies.      *)
(***************************************************************************)
EXTENDS ExecutionInv, TLAPS

Core == TypeOK /\ Custody /\ Reach /\ Stages

USE DEF venueVars, logVars, pollVars, processVars

(* A lifecycle state never leads outside the lifecycle. *)
LEMMA LegalType == LegalTransitions \in [OrderState -> SUBSET OrderState]
  BY SMT DEF LegalTransitions, OrderState, OpenStates, TerminalStates

(* What moving an order, or booking a fill of it, makes of it. *)
LEMMA OrderFacts ==
  /\ NoOrder \notin Order
  /\ \A order \in Order, s \in OrderState : MoveTo(order, s) \in Order
  /\ \A order \in Order : \A s : CanMove(order, s) => s \in OrderState
  /\ \A order \in VenueRecord : order.filled < Qty => WithFill(order) \in Order
  /\ Order \subseteq MaybeOrder /\ MaybeOrder \subseteq VenueRecord
  /\ Order \subseteq VenueRecord
BY LegalType, QtyAssumption
DEF NoOrder, Order, MoveTo, CanMove, WithFill, FillTarget, VenueRecord, MaybeOrder,
    OrderState, OpenStates, TerminalStates

(* The names of the tasks are distinct. *)
LEMMA TaskNames ==
  /\ Boot \in Tasks /\ Sweep \in Tasks /\ None \notin Tasks
  /\ Boot \notin Orders /\ Sweep \notin Orders /\ None \notin Orders /\ Boot # Sweep
  /\ Orders \subseteq Tasks
BY TasksAssumption DEF Tasks

(* No two tasks hold the same order. *)
LEMMA Exclusive ==
  ASSUME TypeOK, Custody
  PROVE  ExclusiveOwner
<1> SUFFICES ASSUME NEW t \in Tasks, NEW u \in Tasks, t # u,
                    task[t].at # None, task[t].at = task[u].at
             PROVE FALSE
  BY DEF ExclusiveOwner
<1>1. Holding(t) /\ Holding(u)
  BY DEF Custody
<1>2. task[t].pc \in SubmitPCs \cup SyncPCs /\ task[u].pc \in SubmitPCs \cup SyncPCs
  BY <1>1 DEF TypeOK, Holding, PCs, RestPCs, SubmitPCs, SyncPCs
<1>3. t # Boot /\ u # Boot
  BY <1>1, <1>2 DEF Holding, SubmitPCs, SyncPCs
<1>4. CASE lock # t /\ lock # u
  BY <1>1, <1>2, <1>3, <1>4 DEF Holding
<1>5. CASE lock = t \/ lock = u
  BY <1>1, <1>2, <1>3, <1>5, TaskNames DEF Holding, SubmitPCs, SyncPCs
<1> QED BY <1>4, <1>5

(* What is known of a task that holds an order. *)
LEMMA Held ==
  ASSUME TypeOK, Custody, NEW t \in Tasks, task[t].pc \in SubmitPCs \cup SyncPCs
  PROVE  /\ task[t].at \in Orders /\ task[t].at # None /\ task[t].at \notin todo
         /\ task[t].work \in Order /\ durable[task[t].at] \in Order
         /\ \A u \in Tasks : u # t /\ task[u].at # None =>
              task[u].at \in Orders /\ task[u].at # task[t].at
<1>1. Holding(t)
  BY DEF Custody
<1>2. task[t].at \in Orders /\ task[t].at # None
  BY <1>1, TaskNames DEF Holding, RestPCs, SubmitPCs, SyncPCs, TypeOK
<1>3. task[t].at \notin todo
  BY <1>1, <1>2, TaskNames DEF Holding, Custody, Waiting, SubmitPCs, SyncPCs
<1>4. \A u \in Tasks : u # t /\ task[u].at # None =>
        task[u].at \in Orders /\ task[u].at # task[t].at
  BY <1>2, Exclusive DEF ExclusiveOwner, TypeOK
<1> QED BY <1>1, <1>2, <1>3, <1>4 DEF Holding

(* t keeps the order it holds. *)
LEMMA KeepHold ==
  ASSUME Core,
         NEW t \in Tasks, task[t].pc \in SubmitPCs \cup SyncPCs,
         \A u \in Tasks : u # t => task'[u] = task[u],
         task'[t].at = task[t].at,
         task'[t].work \in Order,
         task'[t].pc \in SubmitPCs => task[t].pc \in SubmitPCs,
         task'[t].pc \in SubmitPCs \cup SyncPCs,
         task'[t].pc \in {"cancel", "expire"} => lock = t,
         durable'[task[t].at] \in Order,
         \A p \in Orders : p # task[t].at => durable'[p] = durable[p],
         \A p \in Orders : venue[p].filled <= venue'[p].filled,
         venue' \in [Orders -> VenueRecord],
         Stage(t)',
         UNCHANGED <<mem, lock, phase, todo>>
  PROVE  Custody' /\ Stages'
<1> USE DEF SubmitPCs, SyncPCs, RestPCs, Core
<1>0. /\ task[t].at \in Orders /\ task[t].at \notin todo /\ task[t].at # None
      /\ \A u \in Tasks : u # t /\ task[u].at # None =>
           task[u].at \in Orders /\ task[u].at # task[t].at
  BY Held
<1>1. Holding(t)'
  BY <1>0 DEF Custody, Holding
<1>2. ASSUME NEW u \in Tasks, u # t PROVE Holding(u)' /\ Stage(u)'
  <2>1. Holding(u) /\ Stage(u) /\ task'[u] = task[u]
    BY <1>2 DEF Custody, Stages
  <2>2. task[u].at # None => task[u].at \in Orders /\ task[u].at # task[t].at
    BY <1>0, <1>2
  <2>3. Holding(u)'
    BY <2>1, <2>2 DEF Holding
  <2>4. Stage(u)'
    <3>1. task[u].pc \in {"apply", "log"} => task[u].at \in Orders
      BY <2>1, <2>2 DEF Holding
    <3> QED BY <2>1, <3>1 DEF Stage, TypeOK, VenueRecord
  <2> QED BY <2>3, <2>4
<1>3. ASSUME NEW p \in Orders PROVE Waiting(p)'
  <2>1. Waiting(p)
    BY DEF Custody
  <2>2. task'[Boot].at = task[Boot].at
    BY TaskNames
  <2> QED BY <2>1, <2>2, <1>0 DEF Waiting
<1> QED BY <1>1, <1>2, <1>3 DEF Custody, Stages

(* An exception leaves t, and the order with it. *)
LEMMA RaiseHold ==
  ASSUME Core,
         NEW t \in Tasks, task[t].pc \in SubmitPCs \cup SyncPCs,
         Raise(t),
         durable'[task[t].at] \in Order,
         \A p \in Orders : p # task[t].at => durable'[p] = durable[p],
         \A p \in Orders : venue[p].filled <= venue'[p].filled,
         venue' \in [Orders -> VenueRecord],
         UNCHANGED mem
  PROVE  Custody' /\ Stages'
<1> USE DEF SubmitPCs, SyncPCs, RestPCs, Core
<1>0. /\ task[t].at \in Orders /\ task[t].at \notin todo
      /\ \A u \in Tasks : u # t /\ task[u].at # None =>
           task[u].at \in Orders /\ task[u].at # task[t].at
  BY Held
<1>1. task'[t] = Idle /\ \A u \in Tasks : u # t => task'[u] = task[u]
  BY DEF Raise, TypeOK
<1>2. lock' # t /\ \A u \in Tasks : u # t => (lock' = u <=> lock = u)
  BY TaskNames DEF Raise, Polling
<1>3. Holding(t)' /\ Stage(t)'
  BY <1>1, <1>2 DEF Holding, Stage, Idle
<1>4. ASSUME NEW u \in Tasks, u # t PROVE Holding(u)' /\ Stage(u)'
  <2>1. Holding(u) /\ Holding(t) /\ Stage(u) /\ task'[u] = task[u]
    BY <1>1, <1>4 DEF Custody, Stages
  <2>2. task[u].at # None => task[u].at \in Orders /\ task[u].at # task[t].at
    BY <1>0, <1>4
  <2>3. phase' = phase \/ task[u].pc = "idle"
    BY <2>1, <1>4 DEF Raise, Holding
  <2>4. Holding(u)'
    BY <2>1, <2>2, <2>3, <1>2, <1>4 DEF Holding
  <2>5. Stage(u)'
    <3>1. task[u].pc \in {"apply", "log"} => task[u].at \in Orders
      BY <2>1, <2>2 DEF Holding
    <3> QED BY <2>1, <3>1, <1>2, <1>4 DEF Stage, TypeOK, VenueRecord
  <2> QED BY <2>4, <2>5
<1>5. ASSUME NEW p \in Orders PROVE Waiting(p)'
  <2>1. Waiting(p)
    BY DEF Custody
  <2>2. t # Boot => task'[Boot] = task[Boot]
    BY <1>1, TaskNames
  <2> QED BY <2>1, <2>2, <1>0 DEF Waiting, Raise
<1> QED BY <1>3, <1>4, <1>5 DEF Custody, Stages

(* t hands its order back to the caller of sync. *)
LEMMA ReturnHold ==
  ASSUME Core,
         NEW t \in Tasks, task[t].pc \in SubmitPCs \cup SyncPCs,
         NEW order \in Order, Return(t, order),
         durable'[task[t].at] \in Order,
         \A p \in Orders : p # task[t].at => durable'[p] = durable[p],
         UNCHANGED <<venue, lock, phase, todo>>
  PROVE  Custody' /\ Stages'
<1> USE DEF SubmitPCs, SyncPCs, RestPCs, Core
<1>0. /\ task[t].at \in Orders /\ task[t].at \notin todo
      /\ \A u \in Tasks : u # t /\ task[u].at # None =>
           task[u].at \in Orders /\ task[u].at # task[t].at
  BY Held
<1>1. \A u \in Tasks : u # t => task'[u] = task[u]
  BY DEF Return, Resume, TypeOK
<1>2. \A p \in Orders : p # task[t].at => mem'[p] = mem[p]
  BY DEF Return, TypeOK
<1>3. Holding(t)' /\ Stage(t)'
  <2>1. Holding(t)
    BY DEF Custody
  <2>2. CASE lock = t
    <3>1. task'[t] = [Idle EXCEPT !.pc = "poll"]
      BY <2>1, <2>2 DEF Return, Resume, Polling, Holding, TypeOK
    <3> QED BY <3>1, <2>1, <2>2 DEF Holding, Stage, Idle
  <2>3. CASE lock # t /\ t = Boot
    <3>1. task'[t] = Idle
      BY <2>3 DEF Return, Resume, Polling, TypeOK
    <3> QED BY <3>1, <2>1, <2>3 DEF Holding, Stage, Idle
  <2>4. CASE lock # t /\ t # Boot
    <3>1. task'[t] = [Idle EXCEPT !.pc = "settle"]
      BY <2>4 DEF Return, Resume, Polling, TypeOK
    <3> QED BY <3>1, <2>1, <2>4, <1>0 DEF Holding, Stage, Idle
  <2> QED BY <2>2, <2>3, <2>4
<1>4. ASSUME NEW u \in Tasks, u # t PROVE Holding(u)' /\ Stage(u)'
  <2>1. Holding(u) /\ Stage(u) /\ task'[u] = task[u]
    BY <1>1, <1>4 DEF Custody, Stages
  <2>2. task[u].at # None => task[u].at \in Orders /\ task[u].at # task[t].at
    BY <1>0, <1>4
  <2> QED BY <2>1, <2>2, <1>2 DEF Holding, Stage
<1>5. ASSUME NEW p \in Orders PROVE Waiting(p)'
  <2>1. Waiting(p)
    BY DEF Custody
  <2>2. task'[Boot].at = task[Boot].at \/ task'[Boot].at = None
    <3>1. CASE t # Boot
      BY <3>1, <1>1, TaskNames
    <3>2. CASE t = Boot
      BY <3>2, <1>3, TaskNames DEF Return, Resume, Polling, Idle, TypeOK
    <3> QED BY <3>1, <3>2
  <2> QED BY <2>1, <2>2, <1>0, <1>2, TaskNames DEF Waiting
<1> QED BY <1>3, <1>4, <1>5 DEF Custody, Stages

(* Nothing happens at the venue or on the way to it. *)
LEMMA KeepReach ==
  ASSUME Reach, UNCHANGED venueVars,
         \A p \in Orders : durable'[p] = NoOrder => durable[p] = NoOrder /\ mem'[p] = mem[p],
         \A p \in Orders : task'[p].pc \in {"check", "call"} => task[p].pc \in {"check", "call"}
  PROVE  Reach'
BY DEF Reach, Reached

LEMMA RecordCore ==
  ASSUME Core, NEW o \in Orders, Record(o)
  PROVE  Core'
<1> USE DEF Core
<1>0. o \in Tasks /\ o # Boot
  BY TaskNames
<1>1. /\ task'[o] = At(o, "check", [state |-> "PENDING_SUBMIT", filled |-> 0])
      /\ \A u \in Tasks : u # o => task'[u] = task[u]
      /\ durable'[o] = [state |-> "PENDING_SUBMIT", filled |-> 0]
      /\ \A p \in Orders : p # o => durable'[p] = durable[p]
      /\ [state |-> "PENDING_SUBMIT", filled |-> 0] \in Order
  <2>1. [state |-> "PENDING_SUBMIT", filled |-> 0] \in Order
    BY QtyAssumption DEF Order, OrderState
  <2>2. durable'[o] = [state |-> "PENDING_SUBMIT", filled |-> 0]
    BY DEF Record, TypeOK, NoOrder
  <2> QED BY <1>0, <2>1, <2>2 DEF Record, TypeOK
<1>2. mem[o] = NoOrder /\ placed[o] = 0 /\ ~inflight[o]
  BY DEF Record, Reach, Reached
<1>3. Holding(o) /\ lock # o /\ phase = "running"
  BY <1>0 DEF Custody, Holding, Record, Idle, SyncPCs
<1>4. TypeOK'
  BY <1>0, <1>1, OrderFacts, TaskNames DEF Record, At, TypeOK, PCs, NoOrder
<1>5. ASSUME NEW u \in Tasks PROVE Holding(u)' /\ Stage(u)'
  <2>1. CASE u = o
    BY <2>1, <1>0, <1>1, <1>2, <1>3, TaskNames
    DEF Record, Holding, Stage, At, RestPCs, SubmitPCs, SyncPCs
  <2>2. CASE u # o
    <3>1. Holding(u) /\ Stage(u) /\ task'[u] = task[u]
      BY <2>2, <1>1 DEF Custody, Stages
    <3>2. task[u].at # None => task[u].at \in Orders /\ task[u].at # o
      BY <3>1, OrderFacts DEF Holding, Record, TypeOK
    <3> QED BY <3>1, <3>2, <1>1 DEF Record, Holding, Stage
  <2> QED BY <2>1, <2>2
<1>6. ASSUME NEW p \in Orders PROVE Waiting(p)' /\ Reached(p)'
  <2>1. Waiting(p) /\ Reached(p)
    BY DEF Custody, Reach
  <2>2. Waiting(p)'
    BY <2>1, <1>1, <1>3, TaskNames DEF Waiting, Record
  <2>3. Reached(p)'
    BY <2>1, <1>1, <1>2, OrderFacts, TaskNames DEF Reached, Record
  <2> QED BY <2>2, <2>3
<1> QED BY <1>4, <1>5, <1>6 DEF Custody, Reach, Stages

(* An order arrives at the venue, which had not seen it. *)
LEMMA Arrival ==
  ASSUME Core, NEW o \in Orders, Arrive(o), durable[o] \in Order, placed[o] = 0
  PROVE  /\ venue' \in [Orders -> VenueRecord] /\ placed' \in [Orders -> Nat]
         /\ \A p \in Orders : venue[p].filled <= venue'[p].filled
         /\ venue'[o].state = "OPEN" /\ venue'[o].filled = 0 /\ placed'[o] = 1
         /\ \A p \in Orders : p # o => venue'[p] = venue[p] /\ placed'[p] = placed[p]
<1>1. venue[o] = NoOrder
  BY DEF Core, Reach, Reached
<1>2. venue'[o] = [state |-> "OPEN", filled |-> 0]
  BY <1>1 DEF Arrive, Core, TypeOK, NoOrder
<1>3. [state |-> "OPEN", filled |-> 0] \in VenueRecord
  BY QtyAssumption DEF VenueRecord, OrderState, OpenStates
<1>4. \A p \in Orders : p # o => venue'[p] = venue[p] /\ placed'[p] = placed[p]
  BY DEF Arrive, Core, TypeOK
<1>5. \A p \in Orders : venue[p].filled \in 0..Qty
  BY DEF Core, TypeOK, VenueRecord
<1>6. venue' \in [Orders -> VenueRecord] /\ placed' \in [Orders -> Nat]
  BY <1>2, <1>3, <1>4 DEF Arrive, Core, TypeOK
<1>7. \A p \in Orders : venue[p].filled <= venue'[p].filled
  BY <1>1, <1>2, <1>4, <1>5, QtyAssumption DEF NoOrder
<1>8. placed'[o] = 1
  BY DEF Arrive, Core, TypeOK
<1> QED BY <1>2, <1>4, <1>6, <1>7, <1>8

(* A cycle on its way to the query that ends its submit. *)
LEMMA SubmitCore ==
  ASSUME Core, NEW o \in Orders, SubmitStep(o)
  PROVE  Core'
<1> USE DEF Core
<1>0. o \in Tasks /\ o # Boot /\ o # None
  BY TaskNames
<1>1. task[o].pc \in SubmitPCs
  BY DEF SubmitStep, PassSelfTrade, RefuseSelfTrade, SelfTradeUnread, Acknowledged, AckLost,
         Rejected, NotPlaced, RecordAck, RecordUnknown, RecordRefusal, RecordRejection, SubmitPCs
<1>2. /\ task[o].at = o /\ task[o].work \in Order /\ durable[o] \in Order
      /\ Holding(o) /\ Stage(o) /\ o \notin todo
  BY <1>0, <1>1, Held DEF Custody, Holding, Stages
<1>3. lock # o
  BY <1>0, <1>1, <1>2 DEF Holding, SubmitPCs, SyncPCs
<1>v. venue \in [Orders -> VenueRecord] /\ \A p \in Orders : venue[p].filled <= venue[p].filled
  BY QtyAssumption DEF TypeOK, VenueRecord
(* The steps that only move pc, and have nothing to tell the log. *)
<1>4. ASSUME NEW pc \in SubmitPCs \ {"rejecting", "check"},
             pc = "call" => task[o].pc = "check",
             task[o].pc # "rejecting",
             task' = [task EXCEPT ![o].pc = pc],
             UNCHANGED <<logVars, ledger, mem, pollVars, ttl, processVars>>,
             venue' \in [Orders -> VenueRecord], placed' \in [Orders -> Nat],
             inflight' \in [Orders -> BOOLEAN],
             \A p \in Orders : venue[p].filled <= venue'[p].filled
      PROVE  TypeOK' /\ Custody' /\ Stages'
  <2>1. /\ task'[o] = [task[o] EXCEPT !.pc = pc]
        /\ \A u \in Tasks : u # o => task'[u] = task[u]
    BY <1>0, <1>4 DEF TypeOK
  <2>2. task'[o].pc = pc /\ task'[o].at = o /\ task'[o].work = task[o].work
    BY <2>1, <1>0, <1>2 DEF TypeOK
  <2>3. Stage(o)'
    BY <1>1, <1>2, <1>4, <2>2 DEF Stage, SubmitPCs
  <2>4. Custody' /\ Stages'
    BY <1>0, <1>1, <1>2, <1>4, <2>1, <2>2, <2>3, KeepHold DEF SubmitPCs
  <2>5. TypeOK'
    BY <1>0, <1>4, <2>1 DEF TypeOK, PCs, SubmitPCs
  <2> QED BY <2>4, <2>5
<1>5. CASE PassSelfTrade(o)
  <2>1. TypeOK' /\ Custody' /\ Stages'
    <3>1. task[o].pc = "check" /\ UNCHANGED venueVars
      BY <1>5 DEF PassSelfTrade
    <3>2. task' = [task EXCEPT ![o].pc = "call"]
      BY <1>5 DEF PassSelfTrade
    <3> QED BY <1>4, <1>5, <1>v, <3>1, <3>2 DEF PassSelfTrade, SubmitPCs, TypeOK
  <2>2. Reach'
    BY <1>0, <1>5, TaskNames, KeepReach DEF PassSelfTrade, TypeOK
  <2> QED BY <2>1, <2>2
<1>6. CASE Acknowledged(o) \/ AckLost(o) \/ Rejected(o)
  <2>0. placed[o] = 0 /\ ~inflight[o] /\ Reached(o)
    BY <1>6 DEF Acknowledged, AckLost, Rejected, Reach, Reached
  <2>1. \/ Arrive(o) /\ UNCHANGED inflight
        \/ UNCHANGED venueVars
        \/ inflight' = [inflight EXCEPT ![o] = TRUE] /\ UNCHANGED <<venue, placed>>
    BY <1>6 DEF Acknowledged, AckLost, Rejected
  <2>2. /\ venue' \in [Orders -> VenueRecord] /\ placed' \in [Orders -> Nat]
        /\ inflight' \in [Orders -> BOOLEAN]
        /\ \A p \in Orders : venue[p].filled <= venue'[p].filled
    <3>1. CASE Arrive(o) /\ UNCHANGED inflight
      BY <1>2, <2>0, <3>1, Arrival DEF TypeOK
    <3>2. CASE UNCHANGED <<venue, placed>>
      <4>1. inflight' \in [Orders -> BOOLEAN]
        BY <1>6, <3>2 DEF Acknowledged, AckLost, Rejected, TypeOK
      <4> QED BY <1>v, <3>2, <4>1 DEF TypeOK
    <3> QED BY <2>1, <3>1, <3>2
  <2>3. TypeOK' /\ Custody' /\ Stages'
    BY <1>4, <1>6, <2>2 DEF Acknowledged, AckLost, Rejected, SubmitPCs
  <2>4. task'[o].pc \notin {"check", "call"} /\ \A p \in Orders : p # o => task'[p] = task[p]
    BY <1>0, <1>6, TaskNames DEF Acknowledged, AckLost, Rejected, TypeOK
  <2>5. UNCHANGED <<durable, mem>>
    BY <1>6 DEF Acknowledged, AckLost, Rejected
  <2>6. ASSUME NEW p \in Orders PROVE Reached(p)'
    <3>1. Reached(p)
      BY DEF Reach
    <3>2. CASE Arrive(o) /\ UNCHANGED inflight
      BY <1>2, <2>0, <2>4, <2>5, <3>1, <3>2, Arrival, OrderFacts, QtyAssumption
      DEF Reached
    <3>3. CASE UNCHANGED venueVars
      BY <2>4, <2>5, <3>1, <3>3 DEF Reached
    <3>4. CASE inflight' = [inflight EXCEPT ![o] = TRUE] /\ UNCHANGED <<venue, placed>>
      BY <1>2, <2>0, <2>4, <2>5, <3>1, <3>4, OrderFacts DEF Reached, TypeOK
    <3> QED BY <2>1, <3>2, <3>3, <3>4
  <2> QED BY <2>3, <2>6 DEF Reach
(* The appends that record an outcome and go on. *)
<1>7. ASSUME NEW s \in {"SUBMITTED", "SUBMIT_UNKNOWN"}, NEW pc \in {"query", "rejecting"},
             pc = "rejecting" => s = "SUBMITTED",
             Advance(o, s),
             task' = [task EXCEPT ![o].pc = pc, ![o].work.state = s],
             UNCHANGED <<fillEvents, venueVars, ledger, mem, pollVars, ttl, processVars>>
      PROVE  Core'
  <2>1. s \in OrderState /\ s \in OpenStates \cup {"SUBMIT_UNKNOWN"}
    BY DEF OrderState, OpenStates
  <2>2. /\ task'[o] = [task[o] EXCEPT !.pc = pc, !.work = MoveTo(task[o].work, s)]
        /\ \A u \in Tasks : u # o => task'[u] = task[u]
        /\ durable'[o] = MoveTo(durable[o], s)
        /\ \A p \in Orders : p # o => durable'[p] = durable[p]
    BY <1>0, <1>2, <1>7 DEF TypeOK, Advance, MoveTo
  <2>3. MoveTo(task[o].work, s) \in Order /\ MoveTo(durable[o], s) \in Order
    BY <1>2, <2>1, OrderFacts
  <2>4. /\ task'[o].pc = pc /\ task'[o].at = o /\ task'[o].work = MoveTo(task[o].work, s)
    BY <2>2, <1>0, <1>2 DEF TypeOK
  <2>5. MoveTo(task[o].work, s).state = s
    BY <1>2 DEF MoveTo, Order
  <2>6. Stage(o)'
    BY <1>3, <1>7, <2>1, <2>4, <2>5 DEF Stage, Askable, SubmitPCs
  <2>7. Custody' /\ Stages'
    BY <1>0, <1>1, <1>2, <1>7, <1>v, <2>2, <2>3, <2>4, <2>6, KeepHold
    DEF SubmitPCs, SyncPCs
  <2>8. TypeOK'
    <3>1. durable' \in [Orders -> MaybeOrder]
      <4>1. durable' = [durable EXCEPT ![o] = MoveTo(durable[o], s)]
        BY <1>2, <1>7 DEF TypeOK, Advance, MoveTo
      <4> QED BY <4>1, <2>3, OrderFacts DEF TypeOK
    <3>2. task' \in [Tasks -> [pc : PCs, at : Orders \cup {None}, work : MaybeOrder,
                              seen : VenueRecord]]
      <4>1. task' = [task EXCEPT ![o] = [task[o] EXCEPT !.pc = pc,
                                                        !.work = MoveTo(task[o].work, s)]]
        BY <1>0, <1>2, <1>7 DEF TypeOK, MoveTo
      <4>2. pc \in PCs /\ MoveTo(task[o].work, s) \in MaybeOrder
        BY <1>7, <2>3, OrderFacts DEF PCs
      <4> QED BY <1>0, <4>1, <4>2 DEF TypeOK
    <3> QED BY <1>7, <3>1, <3>2 DEF TypeOK
  <2>9. Reach'
    BY <1>0, <1>2, <1>7, <2>2, <2>3, <2>4, OrderFacts, TaskNames, KeepReach
  <2> QED BY <2>7, <2>8, <2>9
<1>8. CASE RecordAck(o) \/ RecordUnknown(o) \/ RecordRefusal(o)
  BY <1>7, <1>8 DEF RecordAck, RecordUnknown, RecordRefusal
<1>9. CASE RefuseSelfTrade(o) \/ RecordRejection(o)
  <2>0. /\ Advance(o, "REJECTED") /\ Return(o, MoveTo(task[o].work, "REJECTED"))
        /\ UNCHANGED <<fillEvents, venueVars, ledger, pollVars, ttl, processVars>>
    BY <1>9 DEF RefuseSelfTrade, RecordRejection
  <2>1. "REJECTED" \in OrderState
    BY DEF OrderState, TerminalStates
  <2>2. /\ durable'[o] = MoveTo(durable[o], "REJECTED")
        /\ \A p \in Orders : p # o => durable'[p] = durable[p]
    BY <1>2, <2>0 DEF TypeOK, Advance, MoveTo
  <2>3. MoveTo(task[o].work, "REJECTED") \in Order /\ MoveTo(durable[o], "REJECTED") \in Order
    BY <1>2, <2>1, OrderFacts
  <2>4. Custody' /\ Stages'
    BY <1>0, <1>1, <1>2, <2>0, <2>2, <2>3, ReturnHold DEF SubmitPCs
  <2>5. /\ task'[o] = [Idle EXCEPT !.pc = "settle"]
        /\ task' \in [Tasks -> [pc : PCs, at : Orders \cup {None}, work : MaybeOrder,
                                seen : VenueRecord]]
        /\ \A p \in Orders : p # o => task'[p] = task[p]
    BY <1>0, <1>3, <2>0, OrderFacts, TaskNames
    DEF Return, Resume, Polling, TypeOK, Idle, PCs, MaybeOrder
  <2>6. mem' \in [Orders -> MaybeOrder] /\ \A p \in Orders : p # o => mem'[p] = mem[p]
    BY <1>0, <1>2, <2>0, <2>3, OrderFacts DEF Return, TypeOK
  <2>7. TypeOK'
    <3>1. durable' \in [Orders -> MaybeOrder]
      BY <1>2, <2>0, <2>2, <2>3, OrderFacts DEF TypeOK, Advance
    <3> QED BY <2>0, <2>5, <2>6, <3>1 DEF TypeOK
  <2>8. Reach'
    BY <2>0, <2>2, <2>3, <2>5, <2>6, OrderFacts, KeepReach DEF Idle
  <2> QED BY <2>4, <2>7, <2>8
<1>10. CASE SelfTradeUnread(o) \/ NotPlaced(o)
  <2>0. Raise(o) /\ UNCHANGED <<logVars, venueVars, ledger, mem, ttl>>
    BY <1>10 DEF SelfTradeUnread, NotPlaced
  <2>1. Custody' /\ Stages'
    BY <1>0, <1>1, <1>2, <2>0, RaiseHold DEF TypeOK, VenueRecord
  <2>2. /\ task'[o] = Idle /\ \A p \in Orders : p # o => task'[p] = task[p]
        /\ task' \in [Tasks -> [pc : PCs, at : Orders \cup {None}, work : MaybeOrder,
                                seen : VenueRecord]]
    BY <1>0, <2>0, OrderFacts, TaskNames DEF Raise, TypeOK, Idle, PCs, MaybeOrder
  <2>3. TypeOK'
    BY <1>0, <2>0, <2>2 DEF TypeOK, Raise
  <2>4. Reach'
    BY <2>0, <2>2, KeepReach DEF Idle
  <2> QED BY <2>1, <2>3, <2>4
<1> QED BY <1>5, <1>6, <1>8, <1>9, <1>10 DEF SubmitStep

(* A cancel at the venue, or a venue closing an order by itself. *)
LEMMA Closing ==
  ASSUME Core, NEW o \in Orders, VenueCancels(o), UNCHANGED <<placed, inflight>>
  PROVE  /\ venue' \in [Orders -> VenueRecord]
         /\ \A p \in Orders : venue'[p].filled = venue[p].filled
         /\ \A p \in Orders : venue[p].filled <= venue'[p].filled
         /\ \A p \in Orders : (venue[p] = NoOrder => venue'[p] = NoOrder)
                              /\ (IsOpen(venue'[p]) => venue'[p] = venue[p])
<1> USE DEF Core
<1>1. \A p \in Orders : venue[p].filled \in 0..Qty
  BY DEF TypeOK, VenueRecord
<1>2. CASE IsOpen(venue[o])
  <2>1. "CANCELLED" \in OrderState /\ "CANCELLED" \notin OpenStates
    BY DEF OrderState, TerminalStates, OpenStates
  <2>2. venue' = [venue EXCEPT ![o] = MoveTo(venue[o], "CANCELLED")]
    BY <1>2 DEF VenueCancels, TypeOK, MoveTo
  <2>3. /\ MoveTo(venue[o], "CANCELLED") \in VenueRecord
        /\ MoveTo(venue[o], "CANCELLED").filled = venue[o].filled
        /\ ~IsOpen(MoveTo(venue[o], "CANCELLED"))
    BY <2>1 DEF MoveTo, VenueRecord, TypeOK, IsOpen
  <2>4. venue[o] # NoOrder
    BY <1>2 DEF IsOpen, NoOrder, OpenStates
  <2> QED BY <1>1, <2>2, <2>3, <2>4, QtyAssumption DEF TypeOK
<1>3. CASE ~IsOpen(venue[o])
  BY <1>1, <1>3, QtyAssumption DEF VenueCancels, TypeOK
<1> QED BY <1>2, <1>3

LEMMA SyncCore ==
  ASSUME Core, NEW t \in Tasks, SyncStep(t)
  PROVE  Core'
<1> USE DEF Core
<1> DEFINE o == task[t].at
           TaskRecord == [pc : PCs, at : Orders \cup {None}, work : MaybeOrder,
                          seen : VenueRecord]
<1>1. task[t].pc \in SyncPCs
  BY DEF SyncStep, Query, ReadTrades, QueryFails, Vanish, BookFill, LogFill, Adopt, Cancel,
         CancelFails, Expire, SyncPCs
<1>2. /\ o \in Orders /\ o # None /\ o \notin todo
      /\ task[t].work \in Order /\ durable[o] \in Order
      /\ Holding(t) /\ Stage(t)
  BY <1>1, Held DEF Custody, Stages
<1>3. task[t] \in TaskRecord /\ t # None
  BY TaskNames DEF TypeOK
<1>v. venue \in [Orders -> VenueRecord] /\ \A p \in Orders : venue[p].filled <= venue[p].filled
  BY QtyAssumption DEF TypeOK, VenueRecord
(* t goes on with the order. *)
<1>4. ASSUME NEW new \in TaskRecord, NEW d \in Order,
             task' = [task EXCEPT ![t] = new],
             new.at = o, new.work \in Order, new.pc \in SyncPCs,
             new.pc \in {"cancel", "expire"} => lock = t,
             durable' = [durable EXCEPT ![o] = d],
             venue' \in [Orders -> VenueRecord],
             \A p \in Orders : venue[p].filled <= venue'[p].filled,
             Stage(t)',
             fillEvents' \in [Orders -> Nat], ledger' \in [Orders -> Nat],
             UNCHANGED <<placed, inflight, mem, pollVars, ttl, processVars>>
      PROVE  TypeOK' /\ Custody' /\ Stages' /\ (UNCHANGED venue => Reach')
  <2>1. task'[t] = new /\ \A u \in Tasks : u # t => task'[u] = task[u]
    BY <1>4 DEF TypeOK
  <2>2. durable'[o] = d /\ \A p \in Orders : p # o => durable'[p] = durable[p]
    BY <1>2, <1>4 DEF TypeOK
  <2>3. Custody' /\ Stages'
    BY <1>1, <1>2, <1>4, <2>1, <2>2, KeepHold DEF SubmitPCs, SyncPCs
  <2>4. TypeOK'
    BY <1>2, <1>4, OrderFacts DEF TypeOK
  <2>5. UNCHANGED venue => Reach'
    BY <1>4, <2>1, <2>2, OrderFacts, TaskNames, KeepReach DEF SyncPCs
  <2> QED BY <2>3, <2>4, <2>5
(* An exception leaves t. *)
<1>5. ASSUME NEW d \in Order, Raise(t), durable' = [durable EXCEPT ![o] = d],
             venue' \in [Orders -> VenueRecord],
             \A p \in Orders : venue[p].filled <= venue'[p].filled,
             UNCHANGED <<fillEvents, placed, inflight, ledger, mem, ttl>>
      PROVE  TypeOK' /\ Custody' /\ Stages' /\ (UNCHANGED venue => Reach')
  <2>1. task'[t] = Idle /\ \A u \in Tasks : u # t => task'[u] = task[u]
    BY <1>5 DEF TypeOK, Raise
  <2>2. durable'[o] = d /\ \A p \in Orders : p # o => durable'[p] = durable[p]
    BY <1>2, <1>5 DEF TypeOK
  <2>3. Custody' /\ Stages'
    BY <1>1, <1>2, <1>5, <2>2, RaiseHold
  <2>4. Idle \in TaskRecord
    BY OrderFacts DEF Idle, PCs, MaybeOrder
  <2>5. TypeOK'
    BY <1>2, <1>5, <2>4, OrderFacts DEF TypeOK, Raise
  <2>6. UNCHANGED venue => Reach'
    BY <1>5, <2>1, <2>2, OrderFacts, TaskNames, KeepReach DEF Idle
  <2> QED BY <2>3, <2>5, <2>6
(* t returns the order. *)
<1>6. ASSUME NEW d \in Order, NEW order \in Order, Return(t, order),
             durable' = [durable EXCEPT ![o] = d],
             UNCHANGED <<fillEvents, venueVars, ledger, pollVars, ttl, processVars>>
      PROVE  Core'
  <2>1. durable'[o] = d /\ \A p \in Orders : p # o => durable'[p] = durable[p]
    BY <1>2, <1>6 DEF TypeOK
  <2>2. Custody' /\ Stages'
    BY <1>1, <1>2, <1>6, <2>1, ReturnHold
  <2>3. /\ \A u \in Tasks : u # t => task'[u] = task[u]
        /\ task' \in [Tasks -> TaskRecord] /\ task'[t].pc \in {"idle", "poll", "settle"}
    <3>1. \A pc \in PCs : [Idle EXCEPT !.pc = pc] \in TaskRecord
      BY OrderFacts DEF Idle, MaybeOrder
    <3>2. Idle \in TaskRecord /\ Idle.pc = "idle"
      BY OrderFacts DEF Idle, PCs, MaybeOrder
    <3>3. \/ task' = [task EXCEPT ![t] = [Idle EXCEPT !.pc = "poll"]]
          \/ task' = [task EXCEPT ![t] = Idle]
          \/ task' = [task EXCEPT ![t] = [Idle EXCEPT !.pc = "settle"]]
      BY <1>1, <1>2, <1>6 DEF Return, Resume, Polling, Holding
    <3>4. /\ [Idle EXCEPT !.pc = "poll"].pc = "poll"
          /\ [Idle EXCEPT !.pc = "settle"].pc = "settle"
      BY DEF Idle
    <3>5. PICK rest \in TaskRecord : /\ task' = [task EXCEPT ![t] = rest]
                                     /\ rest.pc \in {"idle", "poll", "settle"}
      <4>1. "poll" \in PCs /\ "settle" \in PCs
        BY DEF PCs
      <4> HIDE DEF TaskRecord
      <4> QED BY <3>1, <3>2, <3>3, <3>4, <4>1
    <3> HIDE DEF TaskRecord
    <3>6. task \in [Tasks -> TaskRecord]
      BY DEF TypeOK, TaskRecord
    <3> QED BY <3>5, <3>6
  <2>4. mem' \in [Orders -> MaybeOrder] /\ \A p \in Orders : p # o => mem'[p] = mem[p]
    BY <1>2, <1>6, OrderFacts DEF Return, TypeOK
  <2>5. TypeOK'
    BY <1>2, <1>6, <2>3, <2>4, OrderFacts DEF TypeOK
  <2>6. Reach'
    BY <1>2, <1>6, <2>1, <2>3, <2>4, OrderFacts, TaskNames, KeepReach
  <2> QED BY <2>2, <2>5, <2>6
<1>7. durable = [durable EXCEPT ![o] = durable[o]]
  BY <1>2 DEF TypeOK
<1>8. ASSUME NEW s \in OrderState, Advance(t, s)
      PROVE  durable' = [durable EXCEPT ![o] = MoveTo(durable[o], s)]
             /\ MoveTo(durable[o], s) \in Order
  BY <1>2, <1>8, OrderFacts DEF Advance, MoveTo, TypeOK
<1>10. CASE Query(t)
  <2> DEFINE answer == Answer(o)
             pc == IF answer = NoOrder THEN "vanished"
                   ELSE IF answer.filled > 0 THEN "trades" ELSE "apply"
             new == [task[t] EXCEPT !.seen = answer, !.pc = pc]
  <2>1. answer \in VenueRecord /\ pc \in {"vanished", "trades", "apply"}
    BY <1>2, QtyAssumption DEF Answer, TypeOK, VenueRecord, NoOrder
  <2>2. new \in TaskRecord /\ new.at = o /\ new.work = task[t].work /\ new.pc = pc
        /\ new.seen = answer
    BY <1>3, <2>1 DEF PCs
  <2>3. task' = [task EXCEPT ![t] = new]
    BY <1>10, <1>3 DEF Query, TypeOK
  <2>4. task'[t] = new
    BY <2>3 DEF TypeOK
  <2>5. task[t].pc = "query" /\ UNCHANGED <<lock, venue>>
    BY <1>10 DEF Query
  <2>6. pc = "apply" => answer.filled <= venue[o].filled
    BY <1>2, QtyAssumption DEF Answer, TypeOK, VenueRecord
  <2>7. Stage(t)'
    BY <1>2, <2>1, <2>2, <2>4, <2>5, <2>6 DEF Stage, SubmitPCs
  <2> HIDE DEF new, pc, answer
  <2> QED
    BY <1>2, <1>4, <1>7, <1>10, <1>v, <2>1, <2>2, <2>3, <2>7 DEF Query, SyncPCs, TypeOK
<1>11. CASE ReadTrades(t)
  <2> DEFINE new == [task[t] EXCEPT !.seen = [task[t].seen EXCEPT !.filled = venue[o].filled],
                                    !.pc = "apply"]
  <2>1. [task[t].seen EXCEPT !.filled = venue[o].filled] \in VenueRecord
    BY <1>2, <1>3 DEF VenueRecord, TypeOK
  <2>2. new \in TaskRecord /\ new.at = o /\ new.work = task[t].work /\ new.pc = "apply"
        /\ new.seen.filled = venue[o].filled
    BY <1>3, <2>1 DEF PCs, VenueRecord
  <2>3. task' = [task EXCEPT ![t] = new]
    BY <1>11, <1>3 DEF ReadTrades, TypeOK
  <2>4. task'[t] = new
    BY <2>3 DEF TypeOK
  <2>5. task[t].pc = "trades" /\ UNCHANGED <<lock, venue>>
    BY <1>11 DEF ReadTrades
  <2> HIDE DEF new
  <2>6. Stage(t)'
    BY <1>2, <1>v, <2>2, <2>4, <2>5 DEF Stage, SubmitPCs
  <2> QED
    BY <1>2, <1>4, <1>7, <1>11, <1>v, <2>2, <2>3, <2>6 DEF ReadTrades, SyncPCs, TypeOK
<1>12. CASE QueryFails(t)
  BY <1>2, <1>5, <1>7, <1>12, <1>v DEF QueryFails
<1>13. CASE Vanish(t)
  <2>1. "FAILED" \in OrderState
    BY DEF OrderState, TerminalStates
  <2>2. \E d \in Order : durable' = [durable EXCEPT ![o] = d]
    BY <1>2, <1>7, <1>8, <1>13, <2>1 DEF Vanish
  <2> QED BY <1>5, <1>13, <1>v, <2>2 DEF Vanish
<1>14. CASE BookFill(t)
  <2> DEFINE new == [task[t] EXCEPT !.pc = "log", !.work = WithFill(task[t].work)]
  <2>0. /\ task[t].pc = "apply" /\ UNCHANGED <<lock, venue>>
        /\ task[t].seen.filled <= venue[o].filled /\ task[t].work.filled < task[t].seen.filled
    BY <1>2, <1>14 DEF BookFill, HasNew, Stage
  <2>1. task[t].work.filled \in 0..Qty /\ task[t].seen.filled \in 0..Qty
    BY <1>2, <1>3 DEF Order, VenueRecord
  <2>2. task[t].work.filled < Qty
    BY <2>0, <2>1, QtyAssumption
  <2>3. WithFill(task[t].work) \in Order
    BY <1>2, <2>2, OrderFacts
  <2>4. Askable(WithFill(task[t].work))
        \/ (WithFill(task[t].work).state = "FILLED" /\ WithFill(task[t].work).filled = Qty)
    BY <2>1, QtyAssumption DEF WithFill, FillTarget, Askable, OpenStates
  <2>5. new \in TaskRecord /\ new.at = o /\ new.work = WithFill(task[t].work) /\ new.pc = "log"
        /\ new.seen = task[t].seen
    BY <1>3, <2>3, OrderFacts DEF PCs
  <2>6. task' = [task EXCEPT ![t] = new]
    BY <1>14, <1>3 DEF BookFill, TypeOK
  <2>7. task'[t] = new
    BY <2>6 DEF TypeOK
  <2> HIDE DEF new
  <2>8. Stage(t)'
    BY <1>2, <2>0, <2>4, <2>5, <2>7 DEF Stage, SubmitPCs
  <2>9. ledger' \in [Orders -> Nat] /\ fillEvents' \in [Orders -> Nat]
    BY <1>2, <1>14 DEF BookFill, TypeOK
  <2>10. UNCHANGED <<logVars, venueVars, mem, pollVars, ttl, processVars>>
    BY <1>14 DEF BookFill
  <2>11. new.work \in Order /\ new.pc \in SyncPCs /\ new.pc \notin {"cancel", "expire"}
    BY <2>3, <2>5 DEF SyncPCs
  <2> QED BY <1>2, <1>4, <1>7, <1>v, <2>5, <2>6, <2>8, <2>9, <2>10, <2>11
<1>15. CASE LogFill(t)
  <2> DEFINE new == [task[t] EXCEPT !.pc = "apply"]
             work == task[t].work
             d == [state  |-> work.state,
                   filled |-> IF work.filled > durable[o].filled
                              THEN work.filled ELSE durable[o].filled]
  <2>0. task[t].pc = "log" /\ UNCHANGED <<lock, venue>>
    BY <1>15 DEF LogFill
  <2>1. d \in Order
    BY <1>2 DEF Order
  <2>2. durable' = [durable EXCEPT ![o] = d]
    BY <1>15, <1>2 DEF LogFill, TypeOK
  <2>3. new \in TaskRecord /\ new.at = o /\ new.work = work /\ new.pc = "apply"
        /\ new.seen = task[t].seen
    BY <1>3 DEF PCs
  <2>4. task' = [task EXCEPT ![t] = new]
    BY <1>15, <1>3 DEF LogFill, TypeOK
  <2>5. task'[t] = new
    BY <2>4 DEF TypeOK
  <2> HIDE DEF new
  <2>6. Stage(t)'
    BY <1>2, <2>0, <2>3, <2>5 DEF Stage, SubmitPCs
  <2>7. ledger' \in [Orders -> Nat] /\ fillEvents' \in [Orders -> Nat]
    BY <1>2, <1>15 DEF LogFill, TypeOK
  <2> HIDE DEF d
  <2> QED
    BY <1>2, <1>4, <1>15, <1>v, <2>1, <2>2, <2>3, <2>4, <2>6, <2>7 DEF LogFill, SyncPCs
<1>16. CASE Adopt(t)
  <2> DEFINE order == Adopted(t)
  <2>0. task[t].pc = "apply"
    BY <1>16 DEF Adopt
  <2>1. order \in Order
    BY <1>2, OrderFacts DEF Adopted, Adoptable
  <2>2. \E d \in Order : durable' = [durable EXCEPT ![o] = d]
    <3>1. order.state \in OrderState
      BY <2>1 DEF Order
    <3> HIDE DEF order
    <3> QED BY <1>2, <1>7, <1>8, <1>16, <3>1 DEF Adopt, order
  <2>3. CASE CancelDue(t, order) /\ task' = [task EXCEPT ![t].pc = "cancel", ![t].work = order]
                                 /\ UNCHANGED mem
    <3> DEFINE new == [task[t] EXCEPT !.pc = "cancel", !.work = order]
    <3>1. IsOpen(order) /\ lock = t
      BY <2>3 DEF CancelDue, Polling
    <3> HIDE DEF order
    <3>2. new \in TaskRecord /\ new.at = o /\ new.work = order /\ new.pc = "cancel"
      BY <1>3, <2>1, OrderFacts DEF PCs
    <3>3. task' = [task EXCEPT ![t] = new]
      BY <2>3, <1>3 DEF TypeOK
    <3>4. task'[t] = new
      BY <3>3 DEF TypeOK
    <3> HIDE DEF new
    <3>5. Stage(t)'
      BY <3>1, <3>2, <3>4 DEF Stage, SubmitPCs
    <3>6. UNCHANGED <<fillEvents, venueVars, ledger, pollVars, ttl, processVars>>
      BY <1>16 DEF Adopt
    <3> QED BY <1>4, <1>v, <2>1, <2>2, <2>3, <3>1, <3>2, <3>3, <3>5, <3>6 DEF SyncPCs, TypeOK
  <2>4. CASE Return(t, order)
    BY <1>6, <1>16, <2>1, <2>2, <2>4 DEF Adopt
  <2> QED BY <1>16, <2>3, <2>4 DEF Adopt
<1>17. ASSUME VenueCancels(o), UNCHANGED <<placed, inflight, mem, durable>>,
              \A u \in Tasks : u # t => task'[u] = task[u],
              task'[t].pc \notin {"check", "call"}
       PROVE  Reach'
  <2>1. ASSUME NEW p \in Orders PROVE Reached(p)'
    BY <1>2, <1>17, Closing, TaskNames DEF Reach, Reached
  <2> QED BY <2>1 DEF Reach
<1>18. CASE Cancel(t)
  <2> DEFINE new == [task[t] EXCEPT !.pc = "expire"]
  <2>1. new \in TaskRecord /\ new.at = o /\ new.work = task[t].work /\ new.pc = "expire"
    BY <1>3 DEF PCs
  <2>2. task' = [task EXCEPT ![t] = new]
    BY <1>18, <1>3 DEF Cancel, TypeOK
  <2>3. task'[t] = new /\ \A u \in Tasks : u # t => task'[u] = task[u]
    BY <2>2 DEF TypeOK
  <2>4. lock = t /\ task[t].pc = "cancel" /\ VenueCancels(o)
    BY <1>2, <1>18 DEF Cancel, Holding
  <2>5. UNCHANGED <<logVars, placed, inflight, ledger, mem, pollVars, ttl, processVars>>
    BY <1>18 DEF Cancel
  <2> HIDE DEF new
  <2>6. Stage(t)'
    BY <1>2, <2>1, <2>3, <2>4 DEF Stage, SubmitPCs
  <2>7. venue' \in [Orders -> VenueRecord] /\ \A p \in Orders : venue[p].filled <= venue'[p].filled
    BY <1>2, <2>4, <2>5, Closing
  <2>8. Reach'
    BY <1>17, <2>1, <2>3, <2>4, <2>5
  <2> QED BY <1>2, <1>4, <1>7, <2>1, <2>2, <2>4, <2>5, <2>6, <2>7, <2>8 DEF SyncPCs, TypeOK
<1>19. CASE CancelFails(t)
  <2>1. Raise(t) /\ UNCHANGED <<logVars, placed, inflight, ledger, mem, ttl>>
    BY <1>19 DEF CancelFails
  <2>2. task'[t] = Idle /\ \A u \in Tasks : u # t => task'[u] = task[u]
    BY <2>1 DEF TypeOK, Raise
  <2>3. CASE VenueCancels(o)
    <3>1. venue' \in [Orders -> VenueRecord]
          /\ \A p \in Orders : venue[p].filled <= venue'[p].filled
      BY <1>2, <2>1, <2>3, Closing
    <3>2. Reach'
      BY <1>17, <2>1, <2>2, <2>3 DEF Idle
    <3> QED BY <1>2, <1>5, <1>7, <2>1, <3>1, <3>2
  <2>4. CASE UNCHANGED venue
    BY <1>2, <1>5, <1>7, <1>v, <2>1, <2>4
  <2> QED BY <1>19, <2>3, <2>4 DEF CancelFails
<1>20. CASE Expire(t)
  <2>1. "EXPIRED" \in OrderState
    BY DEF OrderState, TerminalStates
  <2>2. MoveTo(task[t].work, "EXPIRED") \in Order
    BY <1>2, <2>1, OrderFacts
  <2> QED BY <1>6, <1>8, <1>20, <2>1, <2>2 DEF Expire
<1> QED
  BY <1>10, <1>11, <1>12, <1>13, <1>14, <1>15, <1>16, <1>18, <1>19, <1>20 DEF SyncStep

(* A poll taking the lock, going from group to group, and ending. *)
LEMMA PollCore ==
  ASSUME Core, NEW t \in Tasks, PollStep(t)
  PROVE  Core'
<1> USE DEF Core
<1> DEFINE TaskRecord == [pc : PCs, at : Orders \cup {None}, work : MaybeOrder,
                          seen : VenueRecord]
<1>0. task \in [Tasks -> TaskRecord] /\ Holding(t) /\ t # None
  BY TaskNames DEF TypeOK, Custody
<1>v. UNCHANGED <<logVars, venueVars, ttl, processVars, ledger>>
  BY DEF PollStep, PollBegin, PollVisit, PollEnd
(* What is left to say of the other tasks, and of the orders waiting. *)
<1>1. ASSUME NEW new \in TaskRecord, task' = [task EXCEPT ![t] = new],
             Holding(t)', Stage(t)', lock' \in Tasks \cup {None}, queue' \subseteq Orders,
             mem' \in [Orders -> MaybeOrder],
             \A u \in Tasks : u # t => (lock' = u <=> lock = u),
             \A p \in Orders : mem'[p] # mem[p] => mem'[p] = NoOrder /\ p = t /\ lock = t,
             task[t].at = None, t = Boot => new.at = task[t].at,
             new.pc \notin SubmitPCs
      PROVE  Core'
  <2>1. task'[t] = new /\ \A u \in Tasks : u # t => task'[u] = task[u]
    BY <1>0, <1>1
  <2>2. TypeOK'
    BY <1>0, <1>1, <1>v DEF TypeOK
  <2>3. ASSUME NEW u \in Tasks PROVE Holding(u)' /\ Stage(u)'
    <3>1. CASE u = t
      BY <3>1, <1>1
    <3>2. CASE u # t
      <4>1. Holding(u) /\ Stage(u) /\ task'[u] = task[u] /\ (lock' = u <=> lock = u)
        BY <1>1, <2>1, <3>2 DEF Custody, Stages
      <4>2. task[u].at # None => mem'[task[u].at] # NoOrder <=> mem[task[u].at] # NoOrder
        <5>1. SUFFICES ASSUME task[u].at # None, mem'[task[u].at] # mem[task[u].at]
                       PROVE  mem[task[u].at] = NoOrder /\ mem'[task[u].at] = NoOrder
          OBVIOUS
        <5>2. task[u].at \in Orders
          BY <5>1 DEF TypeOK
        <5>3. lock # u /\ mem'[task[u].at] = NoOrder
          BY <1>1, <3>2, <5>1, <5>2
        <5> QED BY <4>1, <5>1, <5>3 DEF Holding
      <4>3. task[u].at # None => (lock' = u <=> mem'[task[u].at] # NoOrder)
        BY <4>1, <4>2 DEF Holding
      <4> QED BY <4>1, <4>3, <1>v DEF Holding, Stage
    <3> QED BY <3>1, <3>2
  <2>4. ASSUME NEW p \in Orders PROVE Waiting(p)' /\ Reached(p)'
    <3>1. Waiting(p) /\ Reached(p)
      BY DEF Custody, Reach
    <3>2. mem[p] = NoOrder => mem'[p] = NoOrder
      BY <1>1
    <3>3. task'[Boot].at = task[Boot].at
      BY <1>1, <2>1, TaskNames
    <3>4. task'[p].pc \in {"check", "call"} => task[p].pc \in {"check", "call"}
      BY <1>1, <2>1, TaskNames DEF SubmitPCs
    <3> QED BY <3>1, <3>2, <3>3, <3>4, <1>v DEF Waiting, Reached
  <2> QED BY <2>2, <2>3, <2>4 DEF Custody, Reach, Stages
<1>2. CASE PollBegin(t)
  <2> DEFINE new == [task[t] EXCEPT !.pc = "poll"]
  <2>1. /\ t # Boot /\ task[t].at = None /\ task[t].pc \in {"idle", "settle"}
        /\ phase = "running" /\ lock = None /\ lock' = t
        /\ mem' = mem /\ queue' \subseteq Orders /\ task' = [task EXCEPT ![t] = new]
    BY <1>0, <1>2, TaskNames
    DEF PollBegin, MayPoll, LockFree, Idle, Holding, RestPCs
  <2>2. new \in TaskRecord /\ new.pc = "poll" /\ new.at = None
    BY <1>0, <2>1 DEF PCs
  <2>3. task'[t] = new
    BY <1>0, <2>1
  <2>4. Holding(t)' /\ Stage(t)'
    BY <2>1, <2>2, <2>3, <1>v DEF Holding, Stage, RestPCs, SubmitPCs, SyncPCs
  <2> HIDE DEF new
  <2> QED BY <1>0, <1>1, <2>1, <2>2, <2>4, TaskNames DEF SubmitPCs, TypeOK
<1>3. CASE PollVisit(t)
  <2>1. /\ task[t].pc = "poll" /\ lock = t /\ t # Boot /\ task[t].at = None /\ phase = "running"
        /\ UNCHANGED <<lock, mem>>
    BY <1>0, <1>3 DEF PollVisit, Holding, RestPCs
  <2>2. PICK p \in queue :
          /\ queue' = queue \ {p}
          /\ task' = IF IsOpen(mem[p]) THEN [task EXCEPT ![t] = At(p, "query", mem[p])] ELSE task
    BY <1>3 DEF PollVisit
  <2>3. p \in Orders
    BY DEF TypeOK
  <2>4. CASE IsOpen(mem[p])
    <3>1. mem[p] # NoOrder /\ mem[p] \in Order /\ Askable(mem[p])
      BY <2>3, <2>4 DEF IsOpen, NoOrder, OpenStates, Askable, TypeOK, MaybeOrder
    <3>2. At(p, "query", mem[p]) \in TaskRecord
      BY <2>3, <3>1, OrderFacts DEF At, PCs, MaybeOrder
    <3>3. task'[t] = At(p, "query", mem[p]) /\ task' = [task EXCEPT ![t] = At(p, "query", mem[p])]
      BY <1>0, <2>2, <2>4
    <3>4. durable[p] \in Order
      BY <2>3, <3>1 DEF Reach, Reached, TypeOK, MaybeOrder
    <3>5. Holding(t)' /\ Stage(t)'
      BY <2>1, <2>3, <2>4, <3>1, <3>3, <3>4, <1>v, TaskNames
      DEF At, Holding, Stage, RestPCs, SubmitPCs, SyncPCs
    <3>6. At(p, "query", mem[p]).pc \notin SubmitPCs
      BY DEF At, SubmitPCs
    <3>7. lock' \in Tasks \cup {None} /\ queue' \subseteq Orders /\ mem' \in [Orders -> MaybeOrder]
      BY <2>1, <2>2 DEF TypeOK
    <3> QED BY <1>1, <2>1, <3>2, <3>3, <3>5, <3>6, <3>7
  <2>5. CASE ~IsOpen(mem[p])
    <3>1. /\ task' = task /\ lock' = lock /\ mem' = mem /\ queue' \subseteq queue
          /\ UNCHANGED <<logVars, venueVars, ledger, ttl, processVars>>
      BY <1>3, <2>1, <2>2, <2>5 DEF PollVisit
    <3>2. TypeOK'
      BY <3>1 DEF TypeOK
    <3>3. Custody' /\ Reach' /\ Stages'
      BY <3>1 DEF Custody, Reach, Stages, Holding, Waiting, Reached, Stage
    <3> QED BY <3>2, <3>3
  <2> QED BY <2>4, <2>5
<1>4. CASE PollEnd(t)
  <2>1. /\ task[t].pc = "poll" /\ lock = t /\ t # Boot /\ task[t].at = None
        /\ lock' = None /\ queue' = queue /\ task' = [task EXCEPT ![t] = Idle]
    BY <1>0, <1>4 DEF PollEnd, Holding, RestPCs
  <2>2. mem' = [p \in Orders |-> IF p = t /\ ~IsOpen(mem[p]) THEN NoOrder ELSE mem[p]]
    BY <1>4 DEF PollEnd
  <2>3. /\ mem' \in [Orders -> MaybeOrder]
        /\ \A p \in Orders : mem'[p] # mem[p] => mem'[p] = NoOrder /\ p = t /\ lock = t
    BY <2>1, <2>2 DEF TypeOK, MaybeOrder
  <2>4. Idle \in TaskRecord /\ Idle.pc = "idle" /\ Idle.at = None
    BY OrderFacts DEF Idle, PCs, MaybeOrder
  <2>5. task'[t] = Idle
    BY <1>0, <2>1
  <2>6. Holding(t)' /\ Stage(t)'
    BY <1>0, <2>1, <2>5 DEF Idle, Holding, Stage, RestPCs, SubmitPCs, SyncPCs
  <2>7. /\ lock' \in Tasks \cup {None} /\ queue' \subseteq Orders
        /\ \A u \in Tasks : u # t => (lock' = u <=> lock = u)
        /\ Idle.pc \notin SubmitPCs
    BY <2>1, <2>4, TaskNames DEF SubmitPCs, TypeOK
  <2> QED BY <1>1, <2>1, <2>3, <2>4, <2>6, <2>7
<1> QED BY <1>2, <1>3, <1>4 DEF PollStep

(* The process: crashes, stops, recovery. *)
LEMMA ProcessCore ==
  ASSUME Core, Crash \/ Stop \/ Restart \/ Recovered \/ \E p \in Orders : Recover(p)
  PROVE  Core'
<1> USE DEF Core
<1> DEFINE TaskRecord == [pc : PCs, at : Orders \cup {None}, work : MaybeOrder,
                          seen : VenueRecord]
<1>0. task \in [Tasks -> TaskRecord] /\ Idle \in TaskRecord
  BY OrderFacts DEF TypeOK, Idle, PCs, MaybeOrder
<1>1. UNCHANGED <<fillEvents, venueVars, ttl>>
  BY DEF Crash, Stop, Restart, Recovered, Recover
(* No task holds anything, and no order waits. *)
<1>2. ASSUME \A u \in Tasks : task'[u] = Idle, lock' = None
      PROVE  Stages' /\ \A u \in Tasks : Holding(u)'
  BY <1>2, TaskNames DEF Stages, Stage, Holding, Idle, RestPCs, SubmitPCs, SyncPCs
<1>3. CASE Crash \/ Stop
  <2>1. /\ lock' = None /\ queue' = {} /\ task' = [t \in Tasks |-> Idle]
        /\ crashes' \in 0..MaxCrashes /\ UNCHANGED durable
        /\ ledger' \in [Orders -> Nat] /\ mem' \in [Orders -> MaybeOrder]
        /\ phase' \in {"running", "down"} /\ todo' = {}
        /\ \A p \in Orders : mem'[p] = mem[p] \/ mem'[p] = NoOrder
    <3>1. crashes + 1 \in 0..MaxCrashes
      BY <1>3, BoundsAssumption DEF TypeOK, Crash, Stop
    <3>2. Stop => todo = {}
      BY DEF Stop, Custody, Waiting, TypeOK
    <3> QED BY <1>3, <3>1, <3>2 DEF Crash, Stop, Forget, TypeOK, MaybeOrder
  <2>2. \A u \in Tasks : task'[u] = Idle
    BY <2>1
  <2>3. TypeOK'
    BY <1>0, <1>1, <2>1 DEF TypeOK
  <2>4. ASSUME NEW p \in Orders PROVE Waiting(p)' /\ Reached(p)'
    BY <1>1, <2>1, <2>2, TaskNames DEF Reach, Waiting, Reached, Idle
  <2> QED BY <1>2, <2>1, <2>2, <2>3, <2>4 DEF Custody, Reach
<1>4. CASE Restart
  <2>1. \A u \in Tasks : task'[u] = Idle
    BY <1>4, TaskNames DEF Restart, Custody, Holding
  <2>2. lock' = None
    <3>1. \A u \in Tasks : lock # u
      BY <2>1, <1>4 DEF Restart, Custody, Holding, Idle, SyncPCs
    <3> QED BY <1>4, <3>1 DEF Restart, TypeOK
  <2>3. mem' = [p \in Orders |-> NoOrder] /\ UNCHANGED durable /\ ledger' \in [Orders -> Nat]
    BY <1>4 DEF Restart, Replay, TypeOK
  <2>4. TypeOK'
    BY <1>4, <1>1, <2>3 DEF Restart, TypeOK, MaybeOrder
  <2>5. ASSUME NEW p \in Orders PROVE Waiting(p)'
    BY <1>4, <2>1, <2>3, OrderFacts, TaskNames
    DEF Restart, Waiting, Idle, TypeOK, MaybeOrder
  <2>6. ASSUME NEW p \in Orders PROVE Reached(p)'
    BY <1>1, <2>1, <2>3, TaskNames DEF Reach, Reached, Idle
  <2> QED BY <1>2, <2>1, <2>2, <2>4, <2>5, <2>6 DEF Custody, Reach
<1>5. CASE Recovered
  <2>1. task[Boot] = Idle /\ todo = {} /\ phase = "recovering" /\ phase' = "running"
        /\ UNCHANGED <<durable, ledger, mem, lock, queue, task, todo, crashes>>
    BY <1>5 DEF Recovered
  <2>2. \A u \in Tasks : task[u] = Idle
    BY <2>1, TaskNames DEF Custody, Holding
  <2>3. lock = None
    BY <2>2 DEF Custody, Holding, Idle, SyncPCs, TypeOK
  <2>4. TypeOK'
    BY <1>1, <2>1 DEF TypeOK
  <2>5. ASSUME NEW p \in Orders PROVE Waiting(p)' /\ Reached(p)'
    BY <1>1, <2>1 DEF Reach, Waiting, Reached
  <2> QED BY <1>2, <2>1, <2>2, <2>3, <2>4, <2>5 DEF Custody, Reach
<1>6. ASSUME NEW o \in Orders, Recover(o) PROVE Core'
  <2> DEFINE order == Restated(Loaded(o))
             new == At(o, "query", order)
  <2>1. /\ task[Boot] = Idle /\ o \in todo /\ phase = "recovering" /\ mem[o] = NoOrder
        /\ durable[o] \in Order /\ ~IsTerminal(durable[o])
    BY <1>6 DEF Recover, Custody, Waiting
  <2>2. order \in Order /\ Askable(order) /\ order.filled = durable[o].filled
    BY <2>1, OrderFacts
    DEF Restated, Loaded, MoveTo, Askable, IsTerminal, Order, OrderState
  <2>3. durable' = [durable EXCEPT ![o] = order]
    <3>1. order = [durable[o] EXCEPT !.state = order.state]
      BY <2>1 DEF Restated, Loaded, MoveTo, Order
    <3>2. durable' = [durable EXCEPT ![o].state = order.state]
      BY <1>6 DEF Recover
    <3> HIDE DEF order
    <3> QED BY <3>1, <3>2 DEF TypeOK
  <2>4. UNCHANGED <<ledger, mem, lock, queue, phase, crashes>> /\ todo' = todo \ {o}
        /\ task' = [task EXCEPT ![Boot] = new]
    BY <1>6 DEF Recover
  <2> HIDE DEF order
  <2>5. new \in TaskRecord /\ new.at = o /\ new.work = order /\ new.pc = "query"
    BY <2>2, OrderFacts DEF At, PCs, MaybeOrder
  <2> HIDE DEF new
  <2>6. task'[Boot] = new /\ \A u \in Tasks : u # Boot => task'[u] = task[u] /\ task[u] = Idle
    BY <1>0, <2>1, <2>4, TaskNames DEF Custody, Holding
  <2>7. lock = None
    BY <2>1, <2>6, TaskNames DEF Custody, Holding, Idle, SyncPCs, TypeOK
  <2>8. TypeOK'
    BY <1>0, <1>1, <2>2, <2>3, <2>4, <2>5, OrderFacts DEF TypeOK
  <2>9. Stage(Boot)' /\ Holding(Boot)'
    BY <2>1, <2>2, <2>3, <2>4, <2>5, <2>6, <2>7, TaskNames
    DEF Stage, Holding, RestPCs, SubmitPCs, SyncPCs, TypeOK
  <2>10. ASSUME NEW u \in Tasks, u # Boot PROVE Stage(u)' /\ Holding(u)'
    BY <2>4, <2>6, <2>7, <2>10, TaskNames DEF Stage, Holding, Idle, RestPCs, SubmitPCs, SyncPCs
  <2>11. ASSUME NEW p \in Orders PROVE Waiting(p)' /\ Reached(p)'
    <3>1. Waiting(p) /\ Reached(p)
      BY DEF Custody, Reach
    <3>2. p # o => durable'[p] = durable[p]
      BY <2>3 DEF TypeOK
    <3>3. durable'[o] # NoOrder
      BY <2>2, <2>3, OrderFacts DEF TypeOK
    <3>4. task'[p] = Idle
      BY <2>6, TaskNames
    <3> QED BY <1>1, <2>1, <2>4, <2>5, <2>6, <3>1, <3>2, <3>3, <3>4, OrderFacts
        DEF Waiting, Reached, Idle
  <2> QED BY <2>8, <2>9, <2>10, <2>11 DEF Custody, Reach, Stages
<1> QED BY <1>3, <1>4, <1>5, <1>6

(* The venue and the clock move by themselves. *)
LEMMA WorldCore ==
  ASSUME Core, NEW o \in Orders, VenueStep(o) \/ Expiry(o)
  PROVE  Core'
<1> USE DEF Core
<1>0. /\ UNCHANGED <<logVars, ledger, mem, pollVars, task, processVars>>
      /\ \A p \in Orders : venue[p].filled \in 0..Qty
  BY DEF VenueStep, LateArrival, VenueFill, VenueCancel, VenueWipe, Expiry, TypeOK, VenueRecord
<1>1. /\ venue' \in [Orders -> VenueRecord] /\ placed' \in [Orders -> Nat]
      /\ inflight' \in [Orders -> BOOLEAN] /\ ttl' \in [Orders -> BOOLEAN]
      /\ \A p \in Orders : venue[p].filled <= venue'[p].filled
      /\ \A p \in Orders : Reached(p)'
  <2>1. CASE LateArrival(o)
    <3>1. durable[o] \in Order /\ placed[o] = 0 /\ Arrive(o)
      BY <2>1 DEF LateArrival, Reach, Reached, TypeOK, MaybeOrder
    <3>2. /\ inflight' = [inflight EXCEPT ![o] = FALSE] /\ ttl' = ttl
      BY <2>1 DEF LateArrival
    <3>3. ASSUME NEW p \in Orders PROVE Reached(p)'
      <4>1. Reached(p) /\ Reached(o)
        BY DEF Reach
      <4>2. inflight[o]
        BY <2>1 DEF LateArrival
      <4>3. task[o].pc \notin {"check", "call"}
        BY <4>1, <4>2 DEF Reached
      <4>4. CASE p = o
        <5>1. /\ placed'[o] = 1 /\ venue'[o].filled = 0 /\ durable'[o] # NoOrder
              /\ task'[o].pc \notin {"check", "call"}
          BY <1>0, <3>1, <4>3, Arrival, OrderFacts
        <5>2. ~inflight'[o]
          BY <3>2 DEF TypeOK
        <5>3. placed'[o] # 0 /\ venue'[o].filled < Qty
          BY <5>1, QtyAssumption
        <5>4. Reached(o)'
          BY <5>1, <5>2, <5>3 DEF Reached, IsOpen
        <5> QED BY <4>4, <5>4
      <4>5. CASE p # o
        <5>1. /\ venue'[p] = venue[p] /\ placed'[p] = placed[p] /\ inflight'[p] = inflight[p]
              /\ UNCHANGED <<durable, mem, task>>
          BY <1>0, <3>1, <3>2, <4>5, Arrival DEF TypeOK
        <5> QED BY <4>1, <5>1 DEF Reached, IsOpen
      <4> QED BY <4>4, <4>5
    <3> QED BY <3>1, <3>2, <3>3, Arrival DEF TypeOK
  <2>2. CASE VenueFill(o)
    <3>1. venue[o].filled < Qty /\ venue[o] # NoOrder /\ UNCHANGED <<placed, inflight, ttl>>
      BY <2>2 DEF VenueFill, Reach, Reached, IsOpen, OpenStates, NoOrder
    <3>2. /\ venue' = [venue EXCEPT ![o] = WithFill(venue[o])]
          /\ WithFill(venue[o]) \in Order
      BY <2>2, <3>1, OrderFacts DEF VenueFill, TypeOK
    <3>3. /\ WithFill(venue[o]).filled = venue[o].filled + 1
          /\ IsOpen(WithFill(venue[o])) => venue[o].filled + 1 # Qty
      BY DEF WithFill, FillTarget, IsOpen, OpenStates
    <3>4. \A p \in Orders : venue[p].filled <= venue'[p].filled
      BY <1>0, <3>2, <3>3, QtyAssumption DEF TypeOK
    <3>5. ASSUME NEW p \in Orders PROVE Reached(p)'
      <4>1. Reached(p)
        BY DEF Reach
      <4>2. CASE p = o
        <5>1. venue'[o] = WithFill(venue[o]) /\ placed'[o] = placed[o] /\ inflight'[o] = inflight[o]
              /\ UNCHANGED <<durable, mem, task>>
          BY <1>0, <3>1, <3>2 DEF TypeOK
        <5>2. IsOpen(venue'[o]) => venue'[o].filled < Qty
          BY <1>0, <3>1, <3>3, <5>1, QtyAssumption
        <5>3. placed[o] # 0
          BY <3>1, <4>1, <4>2 DEF Reached
        <5>4. Reached(o)'
          BY <4>1, <4>2, <5>1, <5>2, <5>3 DEF Reached
        <5> QED BY <4>2, <5>4
      <4>3. CASE p # o
        BY <1>0, <3>1, <3>2, <4>1, <4>3 DEF Reached, TypeOK
      <4> QED BY <4>2, <4>3
    <3> QED BY <3>1, <3>2, <3>4, <3>5, OrderFacts DEF TypeOK
  <2>3. CASE VenueCancel(o) \/ VenueWipe(o)
    <3>1. PICK s \in OrderState \cup {"NONE"} :
            s \notin OpenStates /\ venue' = [venue EXCEPT ![o] = MoveTo(venue[o], s)]
      <4>1. "CANCELLED" \in OrderState /\ "CANCELLED" \notin OpenStates /\ "NONE" \notin OpenStates
        BY DEF OrderState, TerminalStates, OpenStates
      <4>2. CASE VenueCancel(o)
        BY <4>1, <4>2 DEF VenueCancel, MoveTo, TypeOK
      <4>3. CASE VenueWipe(o)
        BY <4>1, <4>3 DEF VenueWipe, MoveTo, TypeOK
      <4> QED BY <2>3, <4>2, <4>3
    <3>2. /\ MoveTo(venue[o], s) \in VenueRecord /\ MoveTo(venue[o], s).filled = venue[o].filled
          /\ ~IsOpen(MoveTo(venue[o], s))
      BY <3>1 DEF MoveTo, VenueRecord, TypeOK, IsOpen
    <3>3. venue[o] # NoOrder /\ UNCHANGED <<placed, inflight, ttl>>
      BY <2>3 DEF VenueCancel, VenueWipe, IsOpen, NoOrder, OpenStates
    <3>4. \A p \in Orders : venue[p].filled <= venue'[p].filled
      BY <1>0, <3>1, <3>2, QtyAssumption DEF TypeOK
    <3>5. ASSUME NEW p \in Orders PROVE Reached(p)'
      <4>1. Reached(p)
        BY DEF Reach
      <4>2. CASE p = o
        BY <1>0, <3>1, <3>2, <3>3, <4>1, <4>2 DEF Reached, TypeOK
      <4>3. CASE p # o
        BY <1>0, <3>1, <3>3, <4>1, <4>3 DEF Reached, TypeOK
      <4> QED BY <4>2, <4>3
    <3> QED BY <3>1, <3>2, <3>3, <3>4, <3>5 DEF TypeOK
  <2>4. CASE Expiry(o)
    <3>1. \A p \in Orders : venue[p].filled <= venue[p].filled
      BY <1>0, QtyAssumption
    <3> QED BY <1>0, <2>4, <3>1 DEF Expiry, TypeOK, Reach, Reached
  <2> QED BY <2>1, <2>2, <2>3, <2>4 DEF VenueStep
<1>2. TypeOK'
  BY <1>0, <1>1 DEF TypeOK
<1>3. Custody'
  BY <1>0 DEF Custody, Holding, Waiting
<1>4. ASSUME NEW u \in Tasks PROVE Stage(u)'
  <2>1. Stage(u) /\ Holding(u)
    BY DEF Stages, Custody
  <2>2. task[u].pc \in {"apply", "log"} => task[u].at \in Orders
    BY <2>1 DEF Holding, RestPCs, TypeOK
  <2>3. task[u].pc \in {"apply", "log"} =>
          /\ task[u].seen.filled \in 0..Qty
          /\ venue[task[u].at].filled \in 0..Qty /\ venue'[task[u].at].filled \in 0..Qty
    BY <1>1, <2>2 DEF TypeOK, VenueRecord
  <2> QED BY <1>0, <1>1, <2>1, <2>2, <2>3, QtyAssumption DEF Stage
<1> QED BY <1>1, <1>2, <1>3, <1>4 DEF Reach, Stages

LEMMA CoreInit == Init => Core
<1> SUFFICES ASSUME Init PROVE Core
  OBVIOUS
<1>1. TypeOK
  BY OrderFacts, BoundsAssumption, QtyAssumption
  DEF Init, TypeOK, Idle, PCs, MaybeOrder
<1>2. Custody /\ Stages
  BY TaskNames
  DEF Init, Custody, Stages, Holding, Waiting, Stage, Idle, RestPCs, SubmitPCs, SyncPCs
<1>3. Reach
  BY TaskNames DEF Init, Reach, Reached, Idle, IsOpen, NoOrder, OpenStates
<1> QED BY <1>1, <1>2, <1>3 DEF Core

LEMMA CoreStep == Core /\ [Next]_vars => Core'
<1> SUFFICES ASSUME Core, [Next]_vars PROVE Core'
  OBVIOUS
<1>1. CASE Next
  BY <1>1, RecordCore, SubmitCore, SyncCore, PollCore, ProcessCore, WorldCore DEF Next
<1>2. CASE UNCHANGED vars
  BY <1>2
  DEF vars, Core, TypeOK, Custody, Reach, Stages, Holding, Waiting, Reached, Stage
<1> QED BY <1>1, <1>2

(* In every reachable state, whatever the faults, the state has its type   *)
(* and the parts of the invariant on custody, on the venue and on the      *)
(* copies in hand hold.                                                    *)
THEOREM CoreHolds == Spec => []Core
BY CoreInit, CoreStep, PTL DEF Spec

(* The type invariant, for any orders, sizes, faults and crashes.          *)
THEOREM TypeCorrect == Spec => []TypeOK
<1>1. Core => TypeOK
  BY DEF Core
<1> QED BY <1>1, CoreHolds, PTL

(* Whatever reached the venue, or is on its way there, was in the log      *)
(* before (service.submit).                                                *)
THEOREM IntentFirst == Spec => []DurableFirst
<1>1. Core => DurableFirst
  BY DEF Core, Reach, Reached, DurableFirst, TypeOK
<1> QED BY <1>1, CoreHolds, PTL

(* No order is ever placed twice, over lost acknowledgements, late         *)
(* arrivals, crashes and recoveries (service.py: nothing resubmits).       *)
THEOREM PlacedOnce == Spec => []OnePlacement
<1>1. Core => OnePlacement
  BY DEF Core, Reach, Reached, OnePlacement, TypeOK
<1> QED BY <1>1, CoreHolds, PTL

(* No two coroutines ever hold one order: cycles, polls and recovery hand  *)
(* orders over and do not share them (monitor.poll's lock, track).         *)
THEOREM NoSharedOrder == Spec => []ExclusiveOwner
<1>1. Core => ExclusiveOwner
  BY Exclusive DEF Core
<1> QED BY <1>1, CoreHolds, PTL

(* Whatever a poll runs into, the monitor's lock is not left behind.       *)
THEOREM LockNotLost == Spec => []LockIsUsed
<1>1. Core => LockIsUsed
  BY DEF Core, Custody, Holding, LockIsUsed, TypeOK
<1> QED BY <1>1, CoreHolds, PTL

(* Booking a fill the venue reports is always legal: with_fill never       *)
(* raises, whichever stale, restated or half-booked copy it is given.      *)
THEOREM BookingNeverRaises == Spec => []BookingLegal
<1>1. ASSUME Core, NEW t \in Tasks, task[t].pc = "apply", HasNew(t)
      PROVE  FillIsLegal(task[t].work)
  <2>1. Stage(t) /\ Holding(t)
    BY <1>1 DEF Core, Stages, Custody
  <2>2. task[t].work \in Order /\ task[t].seen.filled \in 0..Qty
    BY <1>1, <2>1 DEF Core, Holding, RestPCs, TypeOK, VenueRecord
  <2>3. task[t].work.filled < Qty /\ Askable(task[t].work)
    BY <1>1, <2>1, <2>2, QtyAssumption DEF HasNew, Stage, Order
  <2> QED BY <2>2, <2>3
      DEF FillIsLegal, FillTarget, Askable, LegalTransitions, OrderState, OpenStates,
          TerminalStates
<1>2. Core => BookingLegal
  BY <1>1 DEF BookingLegal
<1> QED BY <1>2, CoreHolds, PTL

-----------------------------------------------------------------------------
(***************************************************************************)
(* What Execution books, for any number of orders, any order size and any  *)
(* number of crashes: the ledger is the log's fills, every fill is booked  *)
(* once, an order that is closed is completely booked, and the whole       *)
(* program does nothing that OrderContract does not allow.                 *)
(*                                                                         *)
(* Core says who holds an order and what its copy may look like.  Books    *)
(* adds what the copies, the monitor, the ledger, the log and the venue    *)
(* have to do with each other.  A step of a task concerns one order        *)
(* (Turn): what is left of it to show for an action is what it does to     *)
(* that order.                                                             *)
(***************************************************************************)

(* A task that is not at rest holds one order and nobody else does.        *)
LEMMA InHandFacts ==
  ASSUME Core, NEW t \in Tasks, task[t].pc \in SubmitPCs \cup SyncPCs
  PROVE  /\ Holding(t) /\ Stage(t) /\ phase # "down"
         /\ task[t].at \in Orders /\ task[t].at # None
         /\ task[t].work \in Order /\ durable[task[t].at] \in Order
         /\ \A u \in Tasks : u # t => task[u].at # task[t].at
<1>1. Holding(t) /\ Stage(t)
  BY DEF Core, Custody, Stages
<1>2. /\ task[t].at \in Orders /\ task[t].at # None
      /\ task[t].work \in Order /\ durable[task[t].at] \in Order
      /\ \A u \in Tasks : u # t /\ task[u].at # None => task[u].at # task[t].at
  BY Held DEF Core
<1>3. phase # "down"
  BY <1>1 DEF Holding, SubmitPCs, SyncPCs
<1> QED BY <1>1, <1>2, <1>3

(* A task at rest holds none. *)
LEMMA AtRest ==
  ASSUME Core, NEW t \in Tasks
  PROVE  /\ task[t].pc \in RestPCs <=> task[t].at = None
         /\ task[t].pc \in RestPCs \/ task[t].pc \in SubmitPCs \cup SyncPCs
         /\ phase \in {"down", "refused"} => task[t] = Idle /\ task[t].at = None
<1>1. Holding(t) /\ task[t].pc \in PCs
  BY DEF Core, Custody, TypeOK
<1> QED BY <1>1 DEF Holding, PCs, RestPCs, SubmitPCs, SyncPCs, Idle

-----------------------------------------------------------------------------
(* The ledger and the log.                                                 *)

(* What a step must leave alone for the ledger to go on matching.          *)
LEMMA LedgerKept ==
  ASSUME Core, LedgerMatchesLog, UNCHANGED <<ledger, fillEvents>>,
         phase' # "down" => phase # "down",
         \A u \in Tasks : \/ task'[u].pc # "log" /\ task[u].pc # "log"
                          \/ task'[u] = task[u]
  PROVE  LedgerMatchesLog'
<1>1. \A o \in Orders : BeingLogged(o)' <=> BeingLogged(o)
  BY DEF BeingLogged
<1> QED BY <1>1 DEF LedgerMatchesLog

(* The steps of a task, but for the two that have to do with a fill. *)
Otherwise(t) ==
  \/ t \in Orders /\ (Record(t) \/ SubmitStep(t))
  \/ SyncStep(t) /\ ~BookFill(t) /\ ~LogFill(t)
  \/ PollStep(t)
  \/ t = Boot /\ \E o \in Orders : Recover(o)

LEMMA NotLogging ==
  ASSUME Core, NEW t \in Tasks, Otherwise(t)
  PROVE  /\ UNCHANGED <<ledger, fillEvents>> /\ phase # "down" /\ phase' # "down"
         /\ task'[t].pc # "log" /\ task[t].pc # "log"
         /\ \A u \in Tasks : u # t => task'[u] = task[u]
<1> USE DEF Core
<1> USE DEF Otherwise
<1>1. Holding(t) /\ task \in [Tasks -> [pc : PCs, at : Orders \cup {None}, work : MaybeOrder,
                                        seen : VenueRecord]]
  BY DEF Custody, TypeOK
<1>2. phase # "down" /\ phase' # "down"
  <2>1. phase # "down"
    BY <1>1, TaskNames
    DEF Record, SubmitStep, SyncStep, PollStep, Recover, PassSelfTrade, RefuseSelfTrade,
        SelfTradeUnread, Acknowledged, AckLost, Rejected, NotPlaced, RecordAck, RecordUnknown,
        RecordRefusal, RecordRejection, Query, ReadTrades, QueryFails, Vanish, Adopt, Cancel,
        CancelFails, Expire, PollBegin, PollVisit, PollEnd, Holding, Custody, Waiting
  <2>2. UNCHANGED phase \/ phase' = "refused"
    BY DEF Record, SubmitStep, SyncStep, PollStep, Recover, PassSelfTrade, RefuseSelfTrade,
        SelfTradeUnread, Acknowledged, AckLost, Rejected, NotPlaced, RecordAck, RecordUnknown,
        RecordRefusal, RecordRejection, Query, ReadTrades, QueryFails, Vanish, Adopt, Cancel,
        CancelFails, Expire, PollBegin, PollVisit, PollEnd, Raise
  <2> QED BY <2>1, <2>2
<1>3. UNCHANGED <<ledger, fillEvents>>
  BY DEF Record, SubmitStep, SyncStep, PollStep, Recover, PassSelfTrade, RefuseSelfTrade,
      SelfTradeUnread, Acknowledged, AckLost, Rejected, NotPlaced, RecordAck, RecordUnknown,
      RecordRefusal, RecordRejection, Query, ReadTrades, QueryFails, Vanish, Adopt, Cancel,
      CancelFails, Expire, PollBegin, PollVisit, PollEnd
<1>4. ASSUME \E new \in [pc : PCs, at : Orders \cup {None}, work : MaybeOrder, seen : VenueRecord] :
               new.pc # "log" /\ task' = [task EXCEPT ![t] = new]
      PROVE  task'[t].pc # "log" /\ \A u \in Tasks : u # t => task'[u] = task[u]
  BY <1>1, <1>4
<1>5. Raise(t) => task'[t].pc # "log" /\ \A u \in Tasks : u # t => task'[u] = task[u]
  BY <1>1 DEF Raise, Idle
<1>6. ASSUME NEW order, Return(t, order)
      PROVE  task'[t].pc # "log" /\ \A u \in Tasks : u # t => task'[u] = task[u]
  BY <1>1, <1>6 DEF Return, Resume, Idle
<1>7. CASE t \in Orders /\ (Record(t) \/ SubmitStep(t))
  <2>1. task[t].pc # "log"
    BY <1>7, <1>1 DEF Record, SubmitStep, PassSelfTrade, RefuseSelfTrade, SelfTradeUnread,
       Acknowledged, AckLost, Rejected, NotPlaced, RecordAck, RecordUnknown,
       RecordRefusal, RecordRejection, Idle
  <2>2. CASE Record(t) \/ PassSelfTrade(t) \/ Acknowledged(t) \/ AckLost(t)
    BY <2>1, <2>2, <1>1, <1>2, <1>3 DEF Record, At, PassSelfTrade, Acknowledged, AckLost
  <2>5. CASE Rejected(t) \/ RecordAck(t) \/ RecordUnknown(t) \/ RecordRefusal(t)
    BY <2>1, <2>5, <1>1, <1>2, <1>3 DEF Rejected, RecordAck, RecordUnknown, RecordRefusal
  <2>3. CASE SelfTradeUnread(t) \/ NotPlaced(t)
    BY <2>1, <2>3, <1>2, <1>3, <1>5 DEF SelfTradeUnread, NotPlaced
  <2>4. CASE RefuseSelfTrade(t) \/ RecordRejection(t)
    BY <2>1, <2>4, <1>2, <1>3, <1>6 DEF RefuseSelfTrade, RecordRejection
  <2> QED BY <1>2, <1>3, <1>7, <2>1, <2>2, <2>3, <2>4, <2>5 DEF SubmitStep
<1>8. CASE SyncStep(t) /\ ~BookFill(t) /\ ~LogFill(t)
  <2>1. task[t].pc # "log"
    BY <1>8 DEF SyncStep, Query, ReadTrades, QueryFails, Vanish, Adopt, Cancel, CancelFails, Expire
  <2>2. CASE Query(t) \/ ReadTrades(t) \/ Cancel(t)
    BY <2>1, <2>2, <1>1, <1>2, <1>3 DEF Query, ReadTrades, Cancel
  <2>3. CASE QueryFails(t) \/ Vanish(t) \/ CancelFails(t)
    BY <2>1, <2>3, <1>2, <1>3, <1>5 DEF QueryFails, Vanish, CancelFails
  <2>4. CASE Adopt(t)
    <3>1. CASE Return(t, Adopted(t))
      BY <2>1, <3>1, <1>2, <1>3, <1>6
    <3>2. CASE task' = [task EXCEPT ![t].pc = "cancel", ![t].work = Adopted(t)]
      BY <2>1, <3>2, <1>1, <1>2, <1>3
    <3> QED BY <2>4, <3>1, <3>2 DEF Adopt
  <2>5. CASE Expire(t)
    BY <2>1, <2>5, <1>2, <1>3, <1>6 DEF Expire
  <2> QED BY <1>8, <2>2, <2>3, <2>4, <2>5 DEF SyncStep
<1>9. CASE PollStep(t)
  <2>1. task[t].pc # "log"
    BY <1>9, <1>1 DEF PollStep, PollBegin, PollVisit, PollEnd, MayPoll, Idle
  <2> QED BY <1>9, <2>1, <1>1, <1>2, <1>3 DEF PollStep, PollBegin, PollVisit, PollEnd, At, Idle
<1>10. CASE t = Boot /\ \E o \in Orders : Recover(o)
  BY <1>10, <1>1, <1>2, <1>3 DEF Recover, At, Idle
<1> QED BY <1>7, <1>8, <1>9, <1>10

(* The fill enters the ledger, and then the log. *)
LEMMA FillLedger ==
  ASSUME Core, LedgerMatchesLog, NEW t \in Tasks, BookFill(t) \/ LogFill(t)
  PROVE  LedgerMatchesLog'
<1> DEFINE o == task[t].at
<1>1. task[t].pc \in SubmitPCs \cup SyncPCs
  BY DEF BookFill, LogFill, SyncPCs
<1>2. o \in Orders /\ \A u \in Tasks : u # t => task[u].at # o
  BY <1>1, InHandFacts
<1>3. /\ task'[t].at = o /\ \A u \in Tasks : u # t => task'[u] = task[u]
      /\ task'[t].pc = IF task[t].pc = "apply" THEN "log" ELSE "apply"
      /\ phase' = phase
  BY DEF BookFill, LogFill, Core, TypeOK
<1>4. /\ \A p \in Orders : p = o => (BeingLogged(p) <=> task[t].pc = "log")
      /\ \A p \in Orders : p = o => (BeingLogged(p)' <=> task'[t].pc = "log")
      /\ \A p \in Orders : p # o => (BeingLogged(p)' <=> BeingLogged(p))
  BY <1>2, <1>3 DEF BeingLogged
<1>5. /\ \A p \in Orders : p # o => ledger'[p] = ledger[p] /\ fillEvents'[p] = fillEvents[p]
      /\ ledger'[o] = ledger[o] + (IF task[t].pc = "apply" THEN 1 ELSE 0)
      /\ fillEvents'[o] = fillEvents[o] + (IF task[t].pc = "log" THEN 1 ELSE 0)
      /\ ledger[o] \in Nat /\ fillEvents[o] \in Nat
  BY <1>2 DEF BookFill, LogFill, Core, TypeOK
<1>6. task[t].pc \in {"apply", "log"}
  BY DEF BookFill, LogFill
<1> HIDE DEF o
<1> SUFFICES ASSUME phase' # "down", NEW p \in Orders
             PROVE  ledger'[p] = fillEvents'[p] + (IF BeingLogged(p)' THEN 1 ELSE 0)
  BY DEF LedgerMatchesLog
<1>7. ledger[p] = fillEvents[p] + (IF BeingLogged(p) THEN 1 ELSE 0)
  BY <1>3 DEF LedgerMatchesLog
<1>8. CASE p = o
  <2>1. CASE task[t].pc = "apply"
    BY <1>3, <1>4, <1>5, <1>7, <1>8, <2>1
  <2>2. CASE task[t].pc = "log"
    BY <1>3, <1>4, <1>5, <1>7, <1>8, <2>2
  <2> QED BY <1>6, <2>1, <2>2
<1>9. CASE p # o
  BY <1>4, <1>5, <1>7, <1>9
<1> QED BY <1>8, <1>9

(* The process goes down, and the ledger is replayed before anything runs. *)
LEMMA ReplayLedger ==
  ASSUME Core, LedgerMatchesLog, Crash \/ Restart \/ Recovered
  PROVE  LedgerMatchesLog'
<1>1. CASE Crash
  BY <1>1 DEF Crash, LedgerMatchesLog
<1>2. CASE Restart
  <2>1. \A u \in Tasks : task[u].pc = "idle"
    BY <1>2, AtRest DEF Restart, Idle
  <2>3. \A o \in Orders : ~BeingLogged(o)'
    BY <1>2, <2>1 DEF Restart, BeingLogged
  <2>2. ledger' = fillEvents /\ fillEvents' = fillEvents /\ fillEvents \in [Orders -> Nat]
    BY <1>2 DEF Restart, Replay, Core, TypeOK
  <2> QED BY <2>2, <2>3 DEF LedgerMatchesLog
<1>3. CASE Recovered
  BY <1>3, LedgerKept DEF Recovered
<1> QED BY <1>1, <1>2, <1>3

LEMMA LedgerStep ==
  ASSUME "stop" \notin Faults, Core, LedgerMatchesLog, [Next]_vars
  PROVE  LedgerMatchesLog'
<1>0. ASSUME NEW t \in Tasks,
             UNCHANGED <<ledger, fillEvents>>, phase' # "down" => phase # "down",
             task'[t].pc # "log", task[t].pc # "log",
             \A u \in Tasks : u # t => task'[u] = task[u]
      PROVE  LedgerMatchesLog'
  <2>1. \A u \in Tasks : \/ task'[u].pc # "log" /\ task[u].pc # "log"
                         \/ task'[u] = task[u]
    BY <1>0
  <2> QED BY <2>1, <1>0, LedgerKept
<1>p. ASSUME NEW t \in Tasks, Otherwise(t)
      PROVE  LedgerMatchesLog'
  <2>1. /\ UNCHANGED <<ledger, fillEvents>> /\ phase # "down"
        /\ task'[t].pc # "log" /\ task[t].pc # "log"
        /\ \A u \in Tasks : u # t => task'[u] = task[u]
    BY <1>p, NotLogging
  <2> QED BY <1>0, <2>1
<1>1. ASSUME NEW t \in Tasks, t \in Orders /\ (Record(t) \/ SubmitStep(t)) PROVE LedgerMatchesLog'
  BY <1>1, <1>p DEF Otherwise
<1>2. ASSUME NEW t \in Tasks, SyncStep(t) \/ PollStep(t) PROVE LedgerMatchesLog'
  <2>1. Otherwise(t) \/ BookFill(t) \/ LogFill(t)
    BY <1>2 DEF Otherwise
  <2> QED BY <2>1, <1>p, FillLedger
<1>3. ASSUME NEW o \in Orders, Recover(o) PROVE LedgerMatchesLog'
  BY <1>3, <1>p, TaskNames DEF Otherwise
<1>4. ASSUME NEW o \in Orders, VenueStep(o) \/ Expiry(o) PROVE LedgerMatchesLog'
  BY <1>4, LedgerKept DEF VenueStep, LateArrival, VenueFill, VenueCancel, VenueWipe, Expiry
<1>5. CASE UNCHANGED vars
  BY <1>5, LedgerKept DEF vars
<1>6. ~Stop
  BY DEF Stop
<1> QED BY <1>1, <1>2, <1>3, <1>4, <1>5, <1>6, ReplayLedger, TaskNames DEF Next

(* In a living process the in-memory ledger is the log's fills, ahead by   *)
(* the one whose append is awaited, over any interleaving of bookings, any *)
(* crashes and replays; a supervision that is never stopped by hand.       *)
THEOREM LedgerIsLog == ASSUME "stop" \notin Faults PROVE Spec => []LedgerMatchesLog
<1>1. Init => LedgerMatchesLog
  BY DEF Init, LedgerMatchesLog, BeingLogged, Idle
<1>2. Core /\ LedgerMatchesLog /\ [Next]_vars => LedgerMatchesLog'
  BY LedgerStep
<1> QED BY <1>1, <1>2, CoreHolds, PTL DEF Spec

-----------------------------------------------------------------------------
(* Copies, monitor, log and venue.                                         *)
Books == Agreement /\ Completion

(* The venue's executions only grow, and not at all once an order is over. *)
VenueMoves ==
  \A p \in Orders : /\ venue[p].filled <= venue'[p].filled
                    /\ Over(p) => Over(p)' /\ venue'[p].filled = venue[p].filled

LEMMA VenueKept ==
  ASSUME Core, UNCHANGED venueVars
  PROVE  VenueMoves
BY QtyAssumption DEF Core, TypeOK, VenueRecord, VenueMoves, Over

(* A step that touches the venue's record of one order only, which had not *)
(* got there before or is cancelled, wiped or filled while it is open.     *)
LEMMA VenueChanges ==
  ASSUME Core, NEW o \in Orders,
         \A p \in Orders : p # o => venue'[p] = venue[p] /\ placed'[p] = placed[p],
         \/ placed[o] = 0 /\ venue'[o].filled = venue[o].filled
         \/ /\ venue'[o].filled = venue[o].filled /\ placed'[o] = placed[o]
            /\ ~IsOpen(venue'[o]) \/ venue'[o] = venue[o]
         \/ IsOpen(venue[o]) /\ venue'[o].filled = venue[o].filled + 1
  PROVE  VenueMoves
<1>1. \A p \in Orders : venue[p].filled \in Nat /\ venue[p].filled <= venue[p].filled
  BY QtyAssumption DEF Core, TypeOK, VenueRecord
<1> SUFFICES ASSUME NEW p \in Orders
             PROVE  /\ venue[p].filled <= venue'[p].filled
                    /\ Over(p) => Over(p)' /\ venue'[p].filled = venue[p].filled
  BY DEF VenueMoves
<1>2. CASE p = o
  BY <1>1, <1>2 DEF Over
<1>3. CASE p # o
  BY <1>1, <1>3 DEF Over
<1> QED BY <1>2, <1>3

LEMMA VenueStepMoves ==
  ASSUME Core, [Next]_vars
  PROVE  VenueMoves
<1> USE DEF Core
<1>0. ASSUME NEW t \in Tasks, task[t].pc \in SubmitPCs \cup SyncPCs
      PROVE  /\ task[t].at \in Orders /\ task[t].at # None
             /\ task[t].pc \in SubmitPCs => task[t].at = t
  BY <1>0, InHandFacts DEF Holding
<1>1. ASSUME NEW o \in Orders, Arrive(o), placed[o] = 0 PROVE VenueMoves
  BY <1>1, VenueChanges DEF Arrive, TypeOK
<1>2. ASSUME NEW o \in Orders, VenueCancels(o), UNCHANGED <<placed, inflight>> PROVE VenueMoves
  <2>1. /\ \A p \in Orders : p # o => venue'[p] = venue[p]
        /\ venue'[o].filled = venue[o].filled
        /\ ~IsOpen(venue'[o]) \/ venue'[o] = venue[o]
    BY <1>2 DEF VenueCancels, TypeOK, VenueRecord, IsOpen, OpenStates
  <2> QED BY <1>2, <2>1, VenueChanges
<1>3. ASSUME NEW o \in Orders, Record(o) \/ SubmitStep(o) PROVE VenueMoves
  <2>1. CASE UNCHANGED venueVars
    BY <2>1, VenueKept
  <2>2. CASE ~UNCHANGED venueVars
    <3>1. Acknowledged(o) \/ AckLost(o)
      BY <1>3, <2>2 DEF Record, SubmitStep, PassSelfTrade, RefuseSelfTrade, SelfTradeUnread,
         Rejected, NotPlaced, RecordAck, RecordUnknown, RecordRefusal, RecordRejection
    <3>2. placed[o] = 0
      BY <3>1 DEF Acknowledged, AckLost, Reach, Reached
    <3>3. Arrive(o) \/ UNCHANGED <<venue, placed>>
      BY <3>1 DEF Acknowledged, AckLost
    <3>4. CASE UNCHANGED <<venue, placed>>
      BY <3>4, QtyAssumption DEF TypeOK, VenueRecord, VenueMoves, Over
    <3> QED BY <1>1, <3>2, <3>3, <3>4
  <2> QED BY <2>1, <2>2
<1>4. ASSUME NEW t \in Tasks, SyncStep(t) PROVE VenueMoves
  <2>1. CASE UNCHANGED venueVars
    BY <2>1, VenueKept
  <2>2. CASE ~UNCHANGED venueVars
    <3>1. Cancel(t) \/ CancelFails(t)
      BY <1>4, <2>2 DEF SyncStep, Query, ReadTrades, QueryFails, Vanish, BookFill, LogFill, Adopt,
         Expire
    <3>2. task[t].at \in Orders
      BY <3>1, <1>0 DEF Cancel, CancelFails, SyncPCs
    <3> QED BY <2>2, <3>1, <3>2, <1>2 DEF Cancel, CancelFails
  <2> QED BY <2>1, <2>2
<1>5. ASSUME NEW o \in Orders, VenueStep(o) PROVE VenueMoves
  <2>1. CASE LateArrival(o)
    BY <2>1, <1>1 DEF LateArrival, Reach, Reached
  <2>2. CASE VenueFill(o)
    BY <2>2, VenueChanges DEF VenueFill, WithFill, TypeOK
  <2>3. CASE VenueCancel(o)
    BY <2>3, <1>2 DEF VenueCancel, VenueCancels
  <2>4. CASE VenueWipe(o)
    <3>1. ~IsOpen(venue'[o]) /\ venue'[o].filled = venue[o].filled
      BY <2>4 DEF VenueWipe, TypeOK, VenueRecord, IsOpen, OpenStates
    <3> QED BY <2>4, <3>1, VenueChanges DEF VenueWipe, TypeOK
  <2> QED BY <1>5, <2>1, <2>2, <2>3, <2>4 DEF VenueStep
<1>6. CASE UNCHANGED vars \/ Crash \/ Stop \/ Restart \/ Recovered
           \/ (\E t \in Tasks : PollStep(t)) \/ (\E o \in Orders : Recover(o) \/ Expiry(o))
  BY <1>6, VenueKept DEF vars, Crash, Stop, Restart, Recovered, PollStep, PollBegin, PollVisit,
     PollEnd, Recover, Expiry
<1> QED BY <1>3, <1>4, <1>5, <1>6 DEF Next

-----------------------------------------------------------------------------
(* Before its step a task and its order agree.                             *)
LEMMA HeldAgrees ==
  ASSUME Core, Books, NEW t \in Tasks, task[t].pc \in SubmitPCs \cup SyncPCs
  PROVE  /\ Copy(t) /\ Answered(t) /\ Complete(task[t].at)
         /\ task[t].pc # "log" => /\ task[t].work = durable[task[t].at]
                                  /\ ledger[task[t].at] = fillEvents[task[t].at]
         /\ task[t].pc = "log" => ledger[task[t].at] = fillEvents[task[t].at] + 1
         /\ fillEvents[task[t].at] = durable[task[t].at].filled
         /\ durable[task[t].at].filled <= venue[task[t].at].filled
         /\ lock # t => mem[task[t].at] = NoOrder
<1>1. /\ Holding(t) /\ task[t].at \in Orders /\ phase # "down" /\ task[t].at # None
      /\ \A u \in Tasks : u # t => task[u].at # task[t].at
  BY InHandFacts
<1>2. BeingLogged(task[t].at) <=> task[t].pc = "log"
  BY <1>1 DEF BeingLogged
<1>3. /\ Copy(t) /\ Answered(t) /\ Complete(task[t].at)
      /\ fillEvents[task[t].at] = durable[task[t].at].filled
      /\ durable[task[t].at].filled <= venue[task[t].at].filled
      /\ fillEvents[task[t].at] \in Nat
  BY <1>1 DEF Books, Agreement, Completion, BookedOnce, Core, TypeOK
<1>4. ledger[task[t].at] = fillEvents[task[t].at] + (IF BeingLogged(task[t].at) THEN 1 ELSE 0)
  BY <1>1 DEF Books, Agreement, LedgerMatchesLog
<1> QED BY <1>1, <1>2, <1>3, <1>4 DEF Copy, Holding

(* A step of task t about order o: what is to show of it is about them.    *)
LEMMA Turn ==
  ASSUME Core, Books, VenueMoves, NEW t \in Tasks, NEW o \in Orders,
         task[t].at \in {o, None}, task'[t].at \in {o, None},
         \A u \in Tasks : u # t => task'[u] = task[u] /\ task[u].at # o,
         \A u \in Tasks : u # t /\ lock' = u => lock = u,
         \A p \in Orders : p # o => /\ durable'[p] = durable[p] /\ fillEvents'[p] = fillEvents[p]
                                    /\ ledger'[p] = ledger[p] /\ mem'[p] = mem[p],
         phase # "down", TypeOK',
         Copy(t)', Complete(o)', Answered(t)',
         ledger'[o] = fillEvents'[o] + (IF task'[t].pc = "log" THEN 1 ELSE 0),
         task'[t].pc = "log" => task'[t].at = o,
         fillEvents'[o] = durable'[o].filled, durable'[o].filled <= venue'[o].filled,
         task'[t].at = None => mem'[o] = NoOrder \/ mem'[o] = durable'[o]
  PROVE  Books'
<1> USE DEF Books, Agreement, Completion
<1>1. ASSUME NEW u \in Tasks, u # t PROVE Copy(u)' /\ Answered(u)'
  <2>1. task'[u] = task[u] /\ task[u].at # o /\ (lock' = u => lock = u) /\ Copy(u) /\ Answered(u)
    BY <1>1
  <2>2. CASE task[u].at = None
    BY <2>1, <2>2, AtRest DEF Copy, Answered, RestPCs
  <2>3. CASE task[u].at # None
    <3>1. task[u].at \in Orders
      BY <2>3 DEF Core, TypeOK
    <3> QED BY <2>1, <2>3, <3>1 DEF Copy, Answered, VenueMoves
  <2> QED BY <2>2, <2>3
<1>2. ASSUME NEW p \in Orders PROVE Complete(p)'
  BY <1>2 DEF Complete, VenueMoves
<1>3. ASSUME NEW p \in Orders, p # o
      PROVE  (BeingLogged(p)' <=> BeingLogged(p)) /\ (InHand(p)' <=> InHand(p))
  BY <1>3, TaskNames DEF BeingLogged, InHand
<1>4. LedgerMatchesLog'
  <2> SUFFICES ASSUME NEW p \in Orders
               PROVE  ledger'[p] = fillEvents'[p] + (IF BeingLogged(p)' THEN 1 ELSE 0)
    BY DEF LedgerMatchesLog
  <2>1. CASE p # o
    BY <2>1, <1>3 DEF LedgerMatchesLog
  <2>2. CASE p = o
    <3>1. BeingLogged(p)' <=> task'[t].pc = "log"
      BY <2>2 DEF BeingLogged
    <3> QED BY <2>2, <3>1
  <2> QED BY <2>1, <2>2
<1>5. BookedOnce'
  <2> SUFFICES ASSUME NEW p \in Orders, p # o
               PROVE  fillEvents'[p] = durable'[p].filled /\ durable'[p].filled <= venue'[p].filled
    BY DEF BookedOnce
  <2>1. /\ fillEvents[p] = durable[p].filled /\ durable[p].filled <= venue[p].filled
        /\ venue[p].filled <= venue'[p].filled /\ fillEvents[p] \in Nat
        /\ venue[p].filled \in Nat /\ venue'[p].filled \in Nat
    BY QtyAssumption DEF BookedOnce, VenueMoves, Core, TypeOK, VenueRecord
  <2> QED BY <2>1
<1>6. MonitorFollowsLog'
  <2> SUFFICES ASSUME NEW p \in Orders, mem'[p] # NoOrder, ~InHand(p)'
               PROVE  mem'[p] = durable'[p]
    BY DEF MonitorFollowsLog
  <2>1. CASE p # o
    BY <2>1, <1>3 DEF MonitorFollowsLog
  <2>2. CASE p = o
    <3>1. task'[t].at # o
      BY <2>2 DEF InHand
    <3> QED BY <2>2, <3>1
  <2> QED BY <2>1, <2>2
<1> QED BY <1>1, <1>2, <1>4, <1>5, <1>6

-----------------------------------------------------------------------------
(* Three things a task does with its order: it goes on with it, an         *)
(* exception takes it away, or it is returned.                             *)
Asking == {"query", "trades", "vanished"}

LEMMA StillComplete ==
  ASSUME Books, VenueMoves, NEW o \in Orders,
         durable'[o] = durable[o] \/ durable'[o].state \notin Closed
  PROVE  Complete(o)'
BY DEF Books, Completion, Complete, VenueMoves

LEMMA GoesOn ==
  ASSUME Core, Books, VenueMoves, TypeOK',
         NEW t \in Tasks, NEW o \in Orders, task[t].at = o,
         task[t].pc \in (SubmitPCs \cup SyncPCs) \ {"log"},
         \A u \in Tasks : u # t => task'[u] = task[u],
         task'[t].at = o, task'[t].pc # "log",
         task'[t].work = durable'[o],
         durable'[o].filled = durable[o].filled,
         \A p \in Orders : p # o => durable'[p] = durable[p],
         task'[t].pc \in Asking /\ lock = t =>
           task[t].pc \in Asking /\ durable'[o] = durable[o],
         Complete(o)', Answered(t)',
         UNCHANGED <<fillEvents, ledger, mem, lock>>
  PROVE  Books'
<1>1. /\ o \in Orders /\ o # None /\ phase # "down"
      /\ \A u \in Tasks : u # t => task[u].at # o
  BY InHandFacts
<1>2. /\ Copy(t) /\ ledger[o] = fillEvents[o] /\ fillEvents[o] = durable[o].filled
      /\ durable[o].filled <= venue[o].filled
  BY HeldAgrees
<1>3. Copy(t)'
  BY <1>2 DEF Copy, Asking
<1>4. /\ fillEvents'[o] = durable'[o].filled
      /\ ledger'[o] = fillEvents'[o] + (IF task'[t].pc = "log" THEN 1 ELSE 0)
  BY <1>1, <1>2 DEF Core, TypeOK
<1>5. durable'[o].filled <= venue'[o].filled
  BY <1>1, <1>2, QtyAssumption DEF Core, TypeOK, VenueRecord, VenueMoves
<1> QED BY <1>1, <1>3, <1>4, <1>5, Turn

LEMMA GivesUp ==
  ASSUME Core, Books, VenueMoves, TypeOK',
         NEW t \in Tasks, NEW o \in Orders, task[t].at = o,
         task[t].pc \in (SubmitPCs \cup SyncPCs) \ {"log"}, Raise(t),
         durable'[o].filled = durable[o].filled,
         \A p \in Orders : p # o => durable'[p] = durable[p],
         mem[o] = NoOrder \/ mem[o] = durable'[o],
         Complete(o)', UNCHANGED <<fillEvents, ledger, mem>>
  PROVE  Books'
<1>1. /\ o \in Orders /\ o # None /\ phase # "down"
      /\ \A u \in Tasks : u # t => task[u].at # o
  BY InHandFacts
<1>2. /\ ledger[o] = fillEvents[o] /\ fillEvents[o] = durable[o].filled
      /\ durable[o].filled <= venue[o].filled
  BY HeldAgrees
<1>3. task'[t] = Idle /\ \A u \in Tasks : u # t => task'[u] = task[u]
  BY DEF Raise, Core, TypeOK
<1>4. Copy(t)' /\ Answered(t)' /\ task'[t].at = None /\ task'[t].pc = "idle"
  BY <1>3 DEF Copy, Answered, Idle
<1>5. /\ fillEvents'[o] = durable'[o].filled
      /\ ledger'[o] = fillEvents'[o] + (IF task'[t].pc = "log" THEN 1 ELSE 0)
  BY <1>1, <1>2, <1>4 DEF Core, TypeOK
<1>6. durable'[o].filled <= venue'[o].filled
  BY <1>1, <1>2, QtyAssumption DEF Core, TypeOK, VenueRecord, VenueMoves
<1>7. \A u \in Tasks : u # t /\ lock' = u => lock = u
  BY TaskNames DEF Raise
<1>8. /\ \A u \in Tasks : u # t => task'[u] = task[u] /\ task[u].at # o
      /\ task[t].at \in {o, None} /\ task'[t].at \in {o, None}
  BY <1>1, <1>3, <1>4
<1>9. \A p \in Orders : p # o => /\ durable'[p] = durable[p] /\ fillEvents'[p] = fillEvents[p]
                                 /\ ledger'[p] = ledger[p] /\ mem'[p] = mem[p]
  BY <1>1
<1> QED BY <1>1, <1>4, <1>5, <1>6, <1>7, <1>8, <1>9, Turn

LEMMA HandsBack ==
  ASSUME Core, Books, VenueMoves, TypeOK',
         NEW t \in Tasks, NEW o \in Orders, task[t].at = o,
         task[t].pc \in (SubmitPCs \cup SyncPCs) \ {"log"},
         Return(t, durable'[o]),
         durable'[o].filled = durable[o].filled,
         \A p \in Orders : p # o => durable'[p] = durable[p],
         Complete(o)', UNCHANGED <<fillEvents, ledger, lock>>
  PROVE  Books'
<1>1. /\ o \in Orders /\ o # None /\ phase # "down" /\ Holding(t)
      /\ \A u \in Tasks : u # t => task[u].at # o
  BY InHandFacts
<1>2. /\ ledger[o] = fillEvents[o] /\ fillEvents[o] = durable[o].filled
      /\ durable[o].filled <= venue[o].filled /\ (lock # t => mem[o] = NoOrder)
  BY HeldAgrees
<1>3. /\ \A u \in Tasks : u # t => task'[u] = task[u]
      /\ task'[t].at = None /\ task'[t].pc \in RestPCs
  BY DEF Return, Resume, Core, TypeOK, Idle, RestPCs
<1>4. Copy(t)' /\ Answered(t)' /\ task'[t].pc # "log"
  BY <1>3 DEF Copy, Answered, RestPCs
<1>5. /\ fillEvents'[o] = durable'[o].filled
      /\ ledger'[o] = fillEvents'[o] + (IF task'[t].pc = "log" THEN 1 ELSE 0)
  BY <1>1, <1>2, <1>4 DEF Core, TypeOK
<1>6. durable'[o].filled <= venue'[o].filled
  BY <1>1, <1>2, QtyAssumption DEF Core, TypeOK, VenueRecord, VenueMoves
<1>7. /\ \A p \in Orders : p # o => mem'[p] = mem[p]
      /\ mem'[o] = NoOrder \/ mem'[o] = durable'[o]
  <2>1. mem' = mem \/ mem' = [mem EXCEPT ![o] = durable'[o]]
    BY DEF Return
  <2>2. mem' = mem => mem[o] = NoOrder \/ mem' = [mem EXCEPT ![o] = durable'[o]]
    BY <1>1, <1>2 DEF Return, Holding
  <2> QED BY <1>1, <2>1, <2>2 DEF Core, TypeOK
<1>8. /\ \A u \in Tasks : u # t => task'[u] = task[u] /\ task[u].at # o
      /\ task[t].at \in {o, None} /\ task'[t].at \in {o, None}
  BY <1>1, <1>3
<1>9. \A p \in Orders : p # o => /\ durable'[p] = durable[p] /\ fillEvents'[p] = fillEvents[p]
                                 /\ ledger'[p] = ledger[p] /\ mem'[p] = mem[p]
  BY <1>1, <1>7
<1> QED BY <1>1, <1>4, <1>5, <1>6, <1>7, <1>8, <1>9, Turn

-----------------------------------------------------------------------------
(* The cycle submits: nothing is booked, and the copy is the log's.        *)
LEMMA SubmitBooks ==
  ASSUME Core, Books, VenueMoves, TypeOK', NEW o \in Orders, SubmitStep(o)
  PROVE  Books'
<1>1. task[o].pc \in SubmitPCs \ {"log"}
  BY DEF SubmitStep, PassSelfTrade, RefuseSelfTrade, SelfTradeUnread, Acknowledged, AckLost,
     Rejected, NotPlaced, RecordAck, RecordUnknown, RecordRefusal, RecordRejection, SubmitPCs
<1>2. /\ o \in Tasks /\ task[o].at = o /\ lock # o /\ task[o].pc \in (SubmitPCs \cup SyncPCs) \ {"log"}
  BY <1>1, TaskNames, InHandFacts DEF Holding, SubmitPCs, SyncPCs
<1>3. task[o].work = durable[o] /\ mem[o] = NoOrder /\ durable[o] \in Order
  BY <1>2, HeldAgrees, InHandFacts
<1>4. CASE PassSelfTrade(o) \/ Acknowledged(o) \/ AckLost(o) \/ Rejected(o)
  <2>1. /\ \A u \in Tasks : u # o => task'[u] = task[u]
        /\ task'[o].at = o /\ task'[o].pc \in {"call", "acked", "unknown", "refused"}
        /\ task'[o].work = task[o].work
        /\ UNCHANGED <<durable, fillEvents, ledger, mem, lock>>
    BY <1>2, <1>4 DEF PassSelfTrade, Acknowledged, AckLost, Rejected, Core, TypeOK
  <2>2. Complete(o)'
    BY <2>1, StillComplete
  <2>3. Answered(o)'
    BY <2>1 DEF Answered
  <2> QED BY <1>2, <1>3, <2>1, <2>2, <2>3, GoesOn DEF Asking
<1>5. ASSUME NEW s \in OrderState \ Closed, Advance(o, s)
      PROVE  /\ durable'[o] = MoveTo(durable[o], s) /\ durable'[o].filled = durable[o].filled
             /\ \A p \in Orders : p # o => durable'[p] = durable[p]
             /\ Complete(o)'
  <2>1. /\ durable'[o] = MoveTo(durable[o], s)
        /\ \A p \in Orders : p # o => durable'[p] = durable[p]
    BY <1>2, <1>5 DEF Advance, MoveTo, Core, TypeOK
  <2>2. durable'[o].filled = durable[o].filled /\ durable'[o].state = s
    BY <1>3, <2>1 DEF MoveTo, Order
  <2> QED BY <2>1, <2>2, StillComplete
<1>6. ASSUME NEW s \in {"SUBMITTED", "SUBMIT_UNKNOWN"}, NEW pc \in {"query", "rejecting"},
             Advance(o, s), task' = [task EXCEPT ![o].pc = pc, ![o].work.state = s],
             UNCHANGED <<fillEvents, ledger, mem, lock>>
      PROVE  Books'
  <2>1. /\ \A u \in Tasks : u # o => task'[u] = task[u]
        /\ task'[o].at = o /\ task'[o].pc = pc /\ task'[o].work = MoveTo(task[o].work, s)
    BY <1>2, <1>6 DEF Core, TypeOK, MoveTo
  <2>2. s \in OrderState \ Closed
    BY DEF OrderState, OpenStates, Closed
  <2>3. Answered(o)'
    BY <2>1 DEF Answered
  <2> QED BY <1>2, <1>3, <1>5, <1>6, <2>1, <2>2, <2>3, GoesOn
<1>7. CASE RecordAck(o) \/ RecordUnknown(o) \/ RecordRefusal(o)
  BY <1>6, <1>7 DEF RecordAck, RecordUnknown, RecordRefusal
<1>8. CASE SelfTradeUnread(o) \/ NotPlaced(o)
  <2>1. Raise(o) /\ UNCHANGED <<durable, fillEvents, ledger, mem>>
    BY <1>8 DEF SelfTradeUnread, NotPlaced
  <2>2. Complete(o)'
    BY <2>1, StillComplete
  <2> QED BY <1>2, <1>3, <2>1, <2>2, GivesUp
<1>9. CASE RefuseSelfTrade(o) \/ RecordRejection(o)
  <2>1. /\ Advance(o, "REJECTED") /\ Return(o, MoveTo(durable[o], "REJECTED"))
        /\ UNCHANGED <<fillEvents, ledger, lock>>
    BY <1>3, <1>9 DEF RefuseSelfTrade, RecordRejection
  <2>2. "REJECTED" \in OrderState \ Closed
    BY DEF OrderState, TerminalStates, Closed
  <2> QED BY <1>2, <1>5, <2>1, <2>2, HandsBack
<1> QED BY <1>4, <1>7, <1>8, <1>9 DEF SubmitStep

(* The venue's answer: what it says of an order that is over is final.     *)
LEMMA QueryBooks ==
  ASSUME Core, Books, VenueMoves, TypeOK', NEW t \in Tasks,
         Query(t) \/ ReadTrades(t) \/ QueryFails(t)
  PROVE  Books'
<1> DEFINE o == task[t].at
<1>1. task[t].pc \in {"query", "trades"}
  BY DEF Query, ReadTrades, QueryFails
<1>2. task[t].pc \in (SubmitPCs \cup SyncPCs) \ {"log"} /\ task[t].pc \in Asking
  BY <1>1 DEF SyncPCs, Asking
<1>3. /\ o \in Orders /\ task[t].work = durable[o] /\ Answered(t) /\ Copy(t)
      /\ lock # t => mem[o] = NoOrder
  BY <1>2, InHandFacts, HeldAgrees
<1>4. UNCHANGED <<durable, fillEvents, ledger, mem>>
  BY DEF Query, ReadTrades, QueryFails
<1>5. ASSUME NEW p \in Orders, p = o PROVE Complete(p)'
  BY <1>4, StillComplete
<1>6. CASE QueryFails(t)
  <2>1. Raise(t) /\ (mem[o] = NoOrder \/ mem[o] = durable[o])
    BY <1>2, <1>3, <1>6 DEF QueryFails, Copy, Asking
  <2> HIDE DEF o
  <2> QED BY <1>2, <1>3, <1>4, <1>5, <2>1, GivesUp DEF o
<1>7. CASE Query(t)
  <2>1. /\ \A u \in Tasks : u # t => task'[u] = task[u]
        /\ task'[t].at = o /\ task'[t].pc \in {"vanished", "trades", "apply"}
        /\ task'[t].work = task[t].work /\ task'[t].seen = Answer(o)
        /\ UNCHANGED <<lock, venue, placed>>
    BY <1>7 DEF Query, Core, TypeOK
  <2>2. Answered(t)'
    <3>1. CASE Answer(o) = venue[o] /\ venue[o].state \in Closed
      <4>1. placed[o] = 1 /\ ~IsOpen(venue[o])
        BY <1>3, <3>1 DEF Core, Reach, Reached, NoOrder, Closed, IsOpen, OpenStates
      <4> QED BY <2>1, <3>1, <4>1 DEF Answered, Over
    <3>2. CASE Answer(o).state \notin Closed
      BY <2>1, <3>2 DEF Answered
    <3> QED BY <3>1, <3>2 DEF Answer, NoOrder, Closed
  <2> HIDE DEF o
  <2> QED BY <1>2, <1>3, <1>4, <1>5, <2>1, <2>2, GoesOn DEF o
<1>8. CASE ReadTrades(t)
  <2>1. /\ \A u \in Tasks : u # t => task'[u] = task[u]
        /\ task'[t].at = o /\ task'[t].pc = "apply"
        /\ task'[t].work = task[t].work /\ task'[t].seen.filled = venue[o].filled
        /\ task'[t].seen.state = task[t].seen.state
        /\ UNCHANGED <<lock, venue, placed>> /\ task[t].pc = "trades"
    BY <1>8 DEF ReadTrades, Core, TypeOK, VenueRecord
  <2>2. Answered(t)'
    BY <1>3, <2>1 DEF Answered, Over
  <2> HIDE DEF o
  <2> QED BY <1>2, <1>3, <1>4, <1>5, <2>1, <2>2, GoesOn DEF o, Asking
<1> QED BY <1>6, <1>7, <1>8

(* An order that vanished from the venue. *)
LEMMA VanishBooks ==
  ASSUME Core, Books, VenueMoves, TypeOK', NEW t \in Tasks, Vanish(t)
  PROVE  Books'
<1> DEFINE o == task[t].at
<1>1. task[t].pc = "vanished" /\ task[t].pc \in (SubmitPCs \cup SyncPCs) \ {"log"}
  BY DEF Vanish, SyncPCs
<1>2. /\ o \in Orders /\ task[t].work = durable[o] /\ Copy(t) /\ Stage(t) /\ durable[o] \in Order
      /\ lock # t => mem[o] = NoOrder
  BY <1>1, InHandFacts, HeldAgrees
<1>3. Raise(t) /\ UNCHANGED <<fillEvents, ledger, mem>>
  BY DEF Vanish
<1>4. CASE ~CanMove(task[t].work, "FAILED")
  <2>1. UNCHANGED durable /\ (mem[o] = NoOrder \/ mem[o] = durable[o])
    BY <1>1, <1>2, <1>4 DEF Vanish, Copy
  <2>2. ASSUME NEW p \in Orders PROVE Complete(p)'
    BY <2>1, StillComplete
  <2> HIDE DEF o
  <2> QED BY <1>1, <1>2, <1>3, <2>1, <2>2, GivesUp DEF o
<1>5. CASE CanMove(task[t].work, "FAILED")
  <2>1. lock # t
    BY <1>1, <1>2, <1>5 DEF Stage, CanMove, LegalTransitions, IsOpen, OpenStates, OrderState
  <2>2. /\ durable'[o].state = "FAILED" /\ durable'[o].filled = durable[o].filled
        /\ \A p \in Orders : p # o => durable'[p] = durable[p]
    BY <1>2, <1>5 DEF Vanish, Advance, Order, Core, TypeOK
  <2>3. ASSUME NEW p \in Orders PROVE Complete(p)'
    <3>1. durable'[p] = durable[p] \/ durable'[p].state \notin Closed
      BY <2>2 DEF Closed
    <3> QED BY <3>1, StillComplete
  <2> HIDE DEF o
  <2> QED BY <1>1, <1>2, <1>3, <2>1, <2>2, <2>3, GivesUp DEF o
<1> QED BY <1>4, <1>5

(* A fill enters the copy in hand and the ledger, which are then one ahead *)
(* of the log, the fill being one the venue has and the log has not.       *)
LEMMA BookFillBooks ==
  ASSUME Core, Books, VenueMoves, TypeOK', NEW t \in Tasks, BookFill(t)
  PROVE  Books'
<1> DEFINE o == task[t].at
<1>1. task[t].pc = "apply" /\ task[t].pc \in SubmitPCs \cup SyncPCs
  BY DEF BookFill, SyncPCs
<1>2. /\ o \in Orders /\ o # None /\ phase # "down" /\ durable[o] \in Order /\ Stage(t)
      /\ task[t].work = durable[o] /\ Answered(t) /\ Complete(o)
      /\ ledger[o] = fillEvents[o] /\ fillEvents[o] = durable[o].filled
      /\ durable[o].filled <= venue[o].filled
      /\ \A u \in Tasks : u # t => task[u].at # o
  BY <1>1, InHandFacts, HeldAgrees
<1>3. task[t].seen.filled \in 0..Qty /\ durable[o].filled \in 0..Qty
  BY <1>2 DEF Core, TypeOK, VenueRecord, Order
<1>4. FillIsLegal(durable[o]) /\ WithFill(durable[o]).filled <= task[t].seen.filled
  <2>1. durable[o].filled < task[t].seen.filled /\ durable[o].filled < Qty
    BY <1>2, <1>3, QtyAssumption DEF BookFill, HasNew
  <2>2. Askable(durable[o])
    BY <1>1, <1>2, <2>1, <1>3 DEF Stage
  <2> QED
    BY <1>3, <2>1, <2>2 DEF FillIsLegal, FillTarget, WithFill, Askable, LegalTransitions,
       OrderState, OpenStates, TerminalStates
<1>5. /\ \A u \in Tasks : u # t => task'[u] = task[u]
      /\ task'[t].at = o /\ task'[t].pc = "log" /\ task'[t].work = WithFill(durable[o])
      /\ task'[t].seen = task[t].seen
      /\ UNCHANGED <<durable, fillEvents, venue, placed, mem, lock>>
      /\ ledger'[o] = ledger[o] + 1 /\ \A p \in Orders : p # o => ledger'[p] = ledger[p]
  BY <1>2 DEF BookFill, Core, TypeOK
<1>6. Copy(t)' /\ Answered(t)'
  BY <1>1, <1>2, <1>4, <1>5 DEF Copy, Answered, Over
<1>7. ASSUME NEW p \in Orders PROVE Complete(p)'
  BY <1>5, StillComplete
<1>8. ledger'[o] = fillEvents'[o] + (IF task'[t].pc = "log" THEN 1 ELSE 0)
  BY <1>2, <1>5
<1> HIDE DEF o
<1> QED BY <1>2, <1>5, <1>6, <1>7, <1>8, Turn DEF o

(* The append: the log takes over the copy. *)
LEMMA LogFillBooks ==
  ASSUME Core, Books, VenueMoves, TypeOK', NEW t \in Tasks, LogFill(t)
  PROVE  /\ Books'
         /\ durable[task[t].at].filled < venue[task[t].at].filled
         /\ FillIsLegal(durable[task[t].at])
         /\ durable' = [durable EXCEPT ![task[t].at] = WithFill(@)]
<1> DEFINE o == task[t].at
<1>1. task[t].pc = "log" /\ task[t].pc \in SubmitPCs \cup SyncPCs
  BY DEF LogFill, SyncPCs
<1>2. /\ o \in Orders /\ o # None /\ phase # "down" /\ durable[o] \in Order /\ Stage(t)
      /\ Copy(t) /\ Answered(t) /\ Complete(o)
      /\ ledger[o] = fillEvents[o] + 1 /\ fillEvents[o] = durable[o].filled
      /\ durable[o].filled <= venue[o].filled
      /\ \A u \in Tasks : u # t => task[u].at # o
  BY <1>1, InHandFacts, HeldAgrees
<1>3. /\ FillIsLegal(durable[o]) /\ task[t].work = WithFill(durable[o])
      /\ task[t].work.filled = durable[o].filled + 1
      /\ task[t].work.filled <= task[t].seen.filled /\ task[t].seen.filled <= venue[o].filled
  BY <1>1, <1>2 DEF Copy, Stage, WithFill
<1>4. /\ task[t].seen.filled \in 0..Qty /\ durable[o].filled \in 0..Qty
      /\ venue[o].filled \in 0..Qty /\ venue'[o] = venue[o] /\ placed'[o] = placed[o]
  BY <1>2 DEF Core, TypeOK, VenueRecord, Order, LogFill
<1>5. /\ durable' = [durable EXCEPT ![o] = task[t].work] /\ durable'[o] = task[t].work
      /\ \A p \in Orders : p # o => durable'[p] = durable[p]
      /\ fillEvents'[o] = fillEvents[o] + 1
      /\ \A p \in Orders : p # o => fillEvents'[p] = fillEvents[p]
      /\ UNCHANGED <<ledger, mem, lock>>
  <2>1. [state |-> task[t].work.state,
         filled |-> IF task[t].work.filled > durable[o].filled
                    THEN task[t].work.filled ELSE durable[o].filled] = task[t].work
    BY <1>3, <1>4 DEF WithFill
  <2> QED BY <1>2, <2>1 DEF LogFill, Core, TypeOK
<1>6. /\ \A u \in Tasks : u # t => task'[u] = task[u]
      /\ task'[t].at = o /\ task'[t].pc = "apply" /\ task'[t].work = task[t].work
      /\ task'[t].seen = task[t].seen
  BY DEF LogFill, Core, TypeOK
<1>7. Copy(t)' /\ Answered(t)'
  BY <1>1, <1>2, <1>4, <1>5, <1>6 DEF Copy, Answered, Over
<1>8. durable'[o].filled <= venue'[o].filled /\ durable[o].filled < venue[o].filled
  BY <1>3, <1>4, <1>5
<1>9. durable'[o].state \in Closed => venue'[o].filled = durable'[o].filled /\ Over(o)
  <2> SUFFICES ASSUME durable'[o].state \in Closed
               PROVE  venue'[o].filled = durable'[o].filled /\ Over(o)
    OBVIOUS
  <2>1. task[t].work.filled = Qty
    BY <1>3, <1>5 DEF Closed, WithFill, FillTarget
  <2>2. venue[o].filled = Qty
    BY <1>3, <1>4, <2>1, QtyAssumption
  <2>3. placed[o] = 1 /\ ~IsOpen(venue[o])
    BY <1>2, <2>2, QtyAssumption DEF Core, Reach, Reached, NoOrder
  <2> QED BY <1>4, <1>5, <2>1, <2>2, <2>3 DEF Over
<1>10. ASSUME NEW p \in Orders, p = o PROVE Complete(p)'
  BY <1>4, <1>9, <1>10 DEF Complete, Over
<1>11. /\ ledger'[o] = fillEvents'[o] + (IF task'[t].pc = "log" THEN 1 ELSE 0)
       /\ fillEvents'[o] = durable'[o].filled
  BY <1>2, <1>3, <1>4, <1>5, <1>6
<1> HIDE DEF o
<1>12. Books'
  BY <1>2, <1>5, <1>6, <1>7, <1>8, <1>10, <1>11, Turn DEF o
<1> QED BY <1>3, <1>5, <1>8, <1>12 DEF o

(* The venue's state is adopted once there is nothing left to book: closed *)
(* there and closed here with the same number of fills.                    *)
LEMMA AdoptBooks ==
  ASSUME Core, Books, VenueMoves, TypeOK', NEW t \in Tasks, Adopt(t)
  PROVE  /\ Books'
         /\ \A p \in Orders : p # task[t].at => durable'[p] = durable[p]
         /\ durable'[task[t].at] = durable[task[t].at]
            \/ durable'[task[t].at].state \in LegalTransitions[durable[task[t].at].state]
<1> DEFINE o == task[t].at
           order == Adopted(t)
<1>1. task[t].pc = "apply" /\ task[t].pc \in (SubmitPCs \cup SyncPCs) \ {"log"} /\ ~HasNew(t)
  BY DEF Adopt, SyncPCs
<1>2. /\ o \in Orders /\ o # None /\ durable[o] \in Order /\ Stage(t)
      /\ task[t].work = durable[o] /\ Answered(t) /\ Complete(o)
      /\ durable[o].filled <= venue[o].filled
  BY <1>1, InHandFacts, HeldAgrees
<1>3. /\ order = durable[o] \/ (CanMove(durable[o], task[t].seen.state)
                                /\ order = MoveTo(durable[o], task[t].seen.state))
      /\ order.filled = durable[o].filled
  BY <1>2 DEF Adopted, Adoptable, MoveTo, Order
<1>4. durable'[o] = order /\ \A p \in Orders : p # o => durable'[p] = durable[p]
  <2>1. CASE order = durable[o]
    BY <1>2, <2>1 DEF Adopt
  <2>2. CASE order # durable[o]
    <3>1. Advance(t, order.state) /\ order = MoveTo(durable[o], order.state)
      BY <1>2, <1>3, <2>2 DEF Adopt, MoveTo, Order
    <3> QED BY <1>2, <3>1 DEF Advance, MoveTo, Core, TypeOK
  <2> QED BY <2>1, <2>2
<1>5. order.state \in Closed => order = durable[o] \/ (Over(o) /\ order.filled = venue[o].filled)
  <2> SUFFICES ASSUME order.state \in Closed, order # durable[o]
               PROVE  Over(o) /\ order.filled = venue[o].filled
    OBVIOUS
  <2>1. order.state = task[t].seen.state
    BY <1>2, <1>3 DEF MoveTo, Order
  <2>2. Over(o) /\ task[t].seen.filled = venue[o].filled
    BY <1>1, <1>2, <2>1 DEF Answered
  <2>3. durable[o].filled \in 0..Qty /\ venue[o].filled \in 0..Qty
    BY <1>2 DEF Order, Core, TypeOK, VenueRecord
  <2>4. durable[o].filled >= venue[o].filled
    BY <1>1, <1>2, <2>2, <2>3, QtyAssumption DEF HasNew
  <2> QED BY <1>2, <1>3, <2>2, <2>3, <2>4
<1>6. /\ UNCHANGED <<fillEvents, venue, placed, ledger, lock>>
      /\ \/ task' = [task EXCEPT ![t].pc = "cancel", ![t].work = order] /\ UNCHANGED mem
         \/ Return(t, order)
  BY DEF Adopt
<1>7. ASSUME NEW p \in Orders, p = o PROVE Complete(p)'
  BY <1>2, <1>4, <1>5, <1>6, <1>7 DEF Complete, Over
<1>8. Books'
  <2>1. CASE task' = [task EXCEPT ![t].pc = "cancel", ![t].work = order] /\ UNCHANGED mem
    <3>1. /\ \A u \in Tasks : u # t => task'[u] = task[u]
          /\ task'[t].at = o /\ task'[t].pc = "cancel" /\ task'[t].work = order
      BY <2>1 DEF Core, TypeOK
    <3>2. Answered(t)'
      BY <3>1 DEF Answered
    <3> HIDE DEF o, order
    <3> QED BY <1>1, <1>2, <1>3, <1>4, <1>6, <1>7, <2>1, <3>1, <3>2, GoesOn DEF o, Asking
  <2>2. CASE Return(t, order)
    <3>1. Return(t, durable'[o])
      BY <1>4, <2>2
    <3> HIDE DEF o, order
    <3> QED BY <1>1, <1>2, <1>3, <1>4, <1>6, <1>7, <3>1, HandsBack DEF o
  <2> QED BY <1>6, <2>1, <2>2
<1>9. durable'[o] = durable[o] \/ durable'[o].state \in LegalTransitions[durable[o].state]
  BY <1>2, <1>3, <1>4 DEF CanMove, MoveTo, Order
<1> QED BY <1>4, <1>8, <1>9

(* The cancel of an expired order, and its record. *)
LEMMA ExpireBooks ==
  ASSUME Core, Books, VenueMoves, TypeOK', NEW t \in Tasks, Cancel(t) \/ Expire(t)
  PROVE  Books'
<1> DEFINE o == task[t].at
<1>1. task[t].pc \in {"cancel", "expire"} /\ task[t].pc \in (SubmitPCs \cup SyncPCs) \ {"log"}
  BY DEF Cancel, Expire, SyncPCs
<1>2. /\ o \in Orders /\ o # None /\ durable[o] \in Order /\ task[t].work = durable[o]
  BY <1>1, InHandFacts, HeldAgrees
<1>3. CASE Cancel(t)
  <2>1. /\ \A u \in Tasks : u # t => task'[u] = task[u]
        /\ task'[t].at = o /\ task'[t].pc = "expire" /\ task'[t].work = durable[o]
        /\ UNCHANGED <<durable, fillEvents, ledger, mem, lock>>
    BY <1>2, <1>3 DEF Cancel, Core, TypeOK
  <2>2. Answered(t)'
    BY <2>1 DEF Answered
  <2>3. ASSUME NEW p \in Orders PROVE Complete(p)'
    BY <2>1, StillComplete
  <2> HIDE DEF o
  <2> QED BY <1>1, <1>2, <2>1, <2>2, <2>3, GoesOn DEF o, Asking
<1>4. CASE Expire(t)
  <2>1. /\ durable'[o] = MoveTo(durable[o], "EXPIRED")
        /\ \A p \in Orders : p # o => durable'[p] = durable[p]
        /\ Return(t, MoveTo(durable[o], "EXPIRED")) /\ UNCHANGED <<fillEvents, ledger, lock>>
    BY <1>2, <1>4 DEF Expire, Advance, MoveTo, Core, TypeOK
  <2>2. durable'[o].filled = durable[o].filled /\ durable'[o].state = "EXPIRED"
    BY <1>2, <2>1 DEF MoveTo, Order
  <2>3. ASSUME NEW p \in Orders PROVE Complete(p)'
    <3>1. durable'[p] = durable[p] \/ durable'[p].state \notin Closed
      BY <2>1, <2>2 DEF Closed
    <3> QED BY <3>1, StillComplete
  <2>4. Return(t, durable'[o])
    BY <2>1
  <2> HIDE DEF o
  <2> QED BY <1>1, <1>2, <2>1, <2>2, <2>3, <2>4, HandsBack DEF o
<1> QED BY <1>3, <1>4

-----------------------------------------------------------------------------
(* A task takes up an order nobody holds.                                  *)
LEMMA TakesUp ==
  ASSUME Core, Books, VenueMoves, TypeOK',
         NEW t \in Tasks, NEW o \in Orders, task[t].at = None, phase # "down",
         \A u \in Tasks : task[u].at # o,
         \A u \in Tasks : u # t => task'[u] = task[u],
         \A u \in Tasks : u # t /\ lock' = u => lock = u,
         task'[t].at = o, task'[t].pc \in {"check", "query"}, task'[t].work = durable'[o],
         durable'[o].filled = durable[o].filled, durable'[o].state \notin Closed,
         \A p \in Orders : p # o => durable'[p] = durable[p],
         lock' = t => mem[o] = durable'[o],
         UNCHANGED <<fillEvents, ledger, mem>>
  PROVE  Books'
<1>1. ~BeingLogged(o)
  BY DEF BeingLogged
<1>2. /\ ledger[o] = fillEvents[o] /\ fillEvents[o] = durable[o].filled
      /\ durable[o].filled <= venue[o].filled /\ fillEvents[o] \in Nat /\ durable[o] \in MaybeOrder
  BY <1>1 DEF Books, Agreement, LedgerMatchesLog, BookedOnce, Core, TypeOK
<1>3. Copy(t)' /\ Answered(t)'
  BY DEF Copy, Answered
<1>4. Complete(o)'
  BY StillComplete
<1>5. /\ ledger'[o] = fillEvents'[o] + (IF task'[t].pc = "log" THEN 1 ELSE 0)
      /\ fillEvents'[o] = durable'[o].filled
  BY <1>2
<1>6. durable'[o].filled <= venue'[o].filled
  BY <1>2, QtyAssumption DEF Core, TypeOK, VenueRecord, VenueMoves
<1>7. /\ \A u \in Tasks : u # t => task'[u] = task[u] /\ task[u].at # o
      /\ task[t].at \in {o, None} /\ task'[t].at \in {o, None} /\ task'[t].at # None
  BY TaskNames
<1> QED BY <1>3, <1>4, <1>5, <1>6, <1>7, Turn

LEMMA RecordBooks ==
  ASSUME Core, Books, VenueMoves, TypeOK', NEW o \in Orders, Record(o)
  PROVE  Books'
<1>1. o \in Tasks /\ task[o] = Idle /\ task[o].at = None /\ phase # "down" /\ lock # o
  BY TaskNames DEF Record, Idle, Core, Custody, Holding, SyncPCs
<1>2. \A u \in Tasks : task[u].at # o
  BY TaskNames, OrderFacts DEF Record, Core, Custody, Holding
<1>3. /\ \A u \in Tasks : u # o => task'[u] = task[u]
      /\ task'[o] = At(o, "check", durable'[o])
      /\ durable'[o] = [state |-> "PENDING_SUBMIT", filled |-> 0]
      /\ \A p \in Orders : p # o => durable'[p] = durable[p]
      /\ durable[o].filled = 0
      /\ UNCHANGED <<fillEvents, ledger, mem, lock>>
  BY <1>1 DEF Record, Core, TypeOK, NoOrder
<1>4. task'[o].at = o /\ task'[o].pc = "check" /\ task'[o].work = durable'[o]
  BY <1>3 DEF At
<1>5. durable'[o].filled = durable[o].filled /\ durable'[o].state \notin Closed
  BY <1>3 DEF Closed
<1> QED BY <1>1, <1>2, <1>3, <1>4, <1>5, TakesUp

LEMMA RecoverBooks ==
  ASSUME Core, Books, VenueMoves, TypeOK', NEW o \in Orders, Recover(o)
  PROVE  /\ Books'
         /\ durable'[o] = Restated(durable[o]) /\ durable[o] \in Order
         /\ \A p \in Orders : p # o => durable'[p] = durable[p]
<1>1. /\ Waiting(o) /\ phase = "recovering" /\ mem[o] = NoOrder
      /\ durable[o] \in Order /\ ~IsTerminal(durable[o])
      /\ task[Boot] = Idle /\ task[Boot].at = None
  BY DEF Recover, Core, Custody, Waiting, Idle
<1>2. lock # Boot /\ \A u \in Tasks : task[u].at # o
  BY <1>1, TaskNames DEF Core, Custody, Holding, Idle
<1>3. /\ Restated(durable[o]) \in Order /\ Restated(durable[o]).filled = durable[o].filled
      /\ Restated(durable[o]).state \notin Closed
  BY <1>1, OrderFacts
  DEF Restated, MoveTo, IsTerminal, TerminalStates, Closed, Order, OrderState
<1>4. /\ durable'[o] = Restated(durable[o])
      /\ \A p \in Orders : p # o => durable'[p] = durable[p]
  <2>1. [durable[o] EXCEPT !.state = Restated(durable[o]).state] = Restated(durable[o])
    BY <1>1 DEF Restated, MoveTo, Order
  <2> QED BY <2>1 DEF Recover, Loaded, Core, TypeOK
<1>5. /\ \A u \in Tasks : u # Boot => task'[u] = task[u]
      /\ task'[Boot].at = o /\ task'[Boot].pc = "query" /\ task'[Boot].work = durable'[o]
      /\ UNCHANGED <<fillEvents, ledger, mem, lock>>
  BY <1>4, TaskNames DEF Recover, Loaded, At, Core, TypeOK
<1> QED BY <1>1, <1>2, <1>3, <1>4, <1>5, TakesUp, TaskNames

(* Steps that concern no order in hand. *)
LEMMA Aside ==
  ASSUME Core, Books, VenueMoves, TypeOK', UNCHANGED <<durable, fillEvents, ledger>>,
         \A u \in Tasks : \/ task'[u] = task[u]
                          \/ task[u].at = None /\ task'[u].at = None /\ task'[u].pc \in RestPCs,
         \A u \in Tasks : lock' = u => lock = u \/ task'[u].at = None,
         phase' # "down" => phase # "down",
         \A p \in Orders : mem'[p] = mem[p] \/ mem'[p] = NoOrder,
         UNCHANGED mem \/ lock' = None
  PROVE  Books'
<1> USE DEF Books, Agreement, Completion
<1>1. ASSUME NEW u \in Tasks PROVE Copy(u)' /\ Answered(u)'
  <2>1. Copy(u) /\ Answered(u) /\ (task[u].at = None => task[u].pc \in RestPCs)
    BY AtRest
  <2>2. CASE task'[u].at = None
    BY <2>1, <2>2, AtRest DEF Copy, Answered, RestPCs
  <2>3. CASE task'[u].at # None
    <3>1. task'[u] = task[u] /\ task[u].at \in Orders /\ (lock' = u => lock = u)
      BY <2>3 DEF Core, TypeOK
    <3>2. lock' = u => UNCHANGED mem
      BY TaskNames
    <3> QED BY <2>1, <3>1, <3>2 DEF Copy, Answered, VenueMoves
  <2> QED BY <2>2, <2>3
<1>2. ASSUME NEW p \in Orders PROVE Complete(p)'
  BY StillComplete
<1>3. ASSUME NEW p \in Orders
      PROVE  (BeingLogged(p)' <=> BeingLogged(p)) /\ (InHand(p)' <=> InHand(p))
  <2>1. ASSUME NEW u \in Tasks PROVE /\ task'[u].at = p <=> task[u].at = p
                                     /\ task'[u].at = p => task'[u].pc = task[u].pc
    BY TaskNames
  <2> QED BY <2>1 DEF BeingLogged, InHand
<1>4. LedgerMatchesLog'
  BY <1>3 DEF LedgerMatchesLog
<1>5. BookedOnce'
  <2> SUFFICES ASSUME NEW p \in Orders PROVE durable'[p].filled <= venue'[p].filled
    BY DEF BookedOnce
  <2> QED BY QtyAssumption DEF BookedOnce, VenueMoves, Core, TypeOK, VenueRecord
<1>6. MonitorFollowsLog'
  BY <1>3 DEF MonitorFollowsLog
<1> QED BY <1>1, <1>2, <1>4, <1>5, <1>6

LEMMA PollBooks ==
  ASSUME Core, Books, VenueMoves, TypeOK', NEW t \in Tasks, PollStep(t)
  PROVE  Books'
<1>0. Holding(t) /\ UNCHANGED <<durable, fillEvents, ledger, phase>> /\ t # None
  BY TaskNames DEF PollStep, PollBegin, PollVisit, PollEnd, Core, Custody
<1>1. CASE PollBegin(t)
  <2>1. /\ task[t].at = None
        /\ task'[t].at = None /\ task'[t].pc = "poll"
        /\ \A u \in Tasks : u # t => task'[u] = task[u]
        /\ lock' = t /\ UNCHANGED mem
    BY <1>0, <1>1 DEF PollBegin, MayPoll, Holding, RestPCs, Idle, Core, TypeOK
  <2> QED BY <1>0, <2>1, Aside DEF RestPCs
<1>2. CASE PollEnd(t)
  <2>1. /\ task[t].at = None /\ task'[t].at = None /\ task'[t].pc = "idle"
        /\ \A u \in Tasks : u # t => task'[u] = task[u]
        /\ lock' = None /\ \A p \in Orders : mem'[p] = mem[p] \/ mem'[p] = NoOrder
    BY <1>0, <1>2 DEF PollEnd, Holding, RestPCs, Idle, Core, TypeOK
  <2> QED BY <1>0, <2>1, Aside, TaskNames DEF RestPCs
<1>3. CASE PollVisit(t)
  <2>0. lock = t /\ lock' = t /\ UNCHANGED mem /\ task[t].at = None
    BY <1>0, <1>3 DEF PollVisit, Holding, RestPCs
  <2>1. CASE UNCHANGED task
    BY <1>0, <2>0, <2>1, Aside
  <2>2. CASE \E o \in queue : IsOpen(mem[o]) /\ task' = [task EXCEPT ![t] = At(o, "query", mem[o])]
    <3>1. PICK o \in Orders : /\ IsOpen(mem[o])
                              /\ task' = [task EXCEPT ![t] = At(o, "query", mem[o])]
      BY <2>2 DEF Core, TypeOK
    <3>2. mem[o] # NoOrder
      BY <3>1 DEF NoOrder, IsOpen, OpenStates
    <3>3. \A u \in Tasks : task[u].at # o
      BY <2>0, <3>2, TaskNames DEF Core, Custody, Holding
    <3>4. mem[o] = durable[o]
      BY <3>2, <3>3 DEF Books, Agreement, MonitorFollowsLog, InHand
    <3>5. /\ \A u \in Tasks : u # t => task'[u] = task[u]
          /\ task'[t].at = o /\ task'[t].pc = "query" /\ task'[t].work = durable[o]
      BY <3>1, <3>4 DEF At, Core, TypeOK
    <3>6. durable[o].state \notin Closed /\ phase # "down"
      BY <1>0, <1>3, <3>1, <3>4, TaskNames
      DEF Closed, IsOpen, OpenStates, PollVisit, Holding
    <3> QED BY <1>0, <2>0, <3>3, <3>4, <3>5, <3>6, TakesUp
  <2> QED BY <1>3, <2>1, <2>2 DEF PollVisit
<1> QED BY <1>1, <1>2, <1>3 DEF PollStep

(* The process dies, is stopped by nobody, and starts again. *)
LEMMA ProcessBooks ==
  ASSUME Core, Books, VenueMoves, TypeOK', Crash \/ Restart \/ Recovered
  PROVE  Books'
<1> USE DEF Books, Agreement, Completion
<1>1. CASE Crash \/ Restart
  <2>1. \A u \in Tasks : task'[u] = Idle
    <3>1. CASE Crash
      BY <3>1 DEF Crash, Forget
    <3>2. CASE Restart
      BY <3>2, AtRest DEF Restart
    <3> QED BY <1>1, <3>1, <3>2
  <2>2. \A p \in Orders : mem'[p] = NoOrder
    BY <1>1 DEF Crash, Restart
  <2>3. UNCHANGED <<durable, fillEvents, venue, placed>>
    BY <1>1 DEF Crash, Restart
  <2>4. \A u \in Tasks : Copy(u)' /\ Answered(u)'
    BY <2>1 DEF Copy, Answered, Idle
  <2>5. LedgerMatchesLog'
    BY <1>1, ReplayLedger
  <2>6. \A p \in Orders : Complete(p)'
    BY <2>3 DEF Complete, Over
  <2> QED BY <2>2, <2>3, <2>4, <2>5, <2>6 DEF BookedOnce, MonitorFollowsLog
<1>2. CASE Recovered
  BY <1>2, Aside DEF Recovered
<1> QED BY <1>1, <1>2

LEMMA WorldBooks ==
  ASSUME Core, Books, VenueMoves, TypeOK',
         UNCHANGED vars \/ \E o \in Orders : VenueStep(o) \/ Expiry(o)
  PROVE  Books'
<1>1. UNCHANGED <<durable, fillEvents, ledger, task, lock, phase, mem>>
  BY DEF vars, VenueStep, LateArrival, VenueFill, VenueCancel, VenueWipe, Expiry
<1> QED BY <1>1, Aside

LEMMA BooksStep ==
  ASSUME ~Interruptible, Core, Books, [Next]_vars
  PROVE  Books'
<1>1. VenueMoves /\ TypeOK'
  BY VenueStepMoves, CoreStep DEF Core
<1>2. ASSUME NEW o \in Orders,
             Record(o) \/ SubmitStep(o) \/ Recover(o) \/ VenueStep(o) \/ Expiry(o)
      PROVE  Books'
  BY <1>1, <1>2, RecordBooks, SubmitBooks, RecoverBooks, WorldBooks
<1>3. ASSUME NEW t \in Tasks, SyncStep(t)
      PROVE  Books'
  <2>1. ~CancelFails(t)
    BY DEF CancelFails, Interruptible
  <2> QED
    BY <1>1, <1>3, <2>1, QueryBooks, VanishBooks, BookFillBooks, LogFillBooks, AdoptBooks,
       ExpireBooks DEF SyncStep
<1>4. ASSUME NEW t \in Tasks, PollStep(t)
      PROVE  Books'
  BY <1>1, <1>4, PollBooks
<1>5. ~Stop
  BY DEF Stop, Interruptible
<1>6. CASE Crash \/ Restart \/ Recovered
  BY <1>1, <1>6, ProcessBooks
<1>7. CASE UNCHANGED vars
  BY <1>1, <1>7, WorldBooks
<1> QED BY <1>2, <1>3, <1>4, <1>5, <1>6, <1>7 DEF Next

LEMMA BooksInit == Init => Books
<1> SUFFICES ASSUME Init PROVE Books
  OBVIOUS
<1>1. \A t \in Tasks : Copy(t) /\ Answered(t)
  BY DEF Init, Idle, Copy, Answered
<1>2. \A o \in Orders : Complete(o)
  BY DEF Init, NoOrder, Complete, Closed
<1>3. LedgerMatchesLog /\ MonitorFollowsLog
  BY DEF Init, LedgerMatchesLog, MonitorFollowsLog, BeingLogged, Idle
<1>4. BookedOnce
  BY DEF Init, BookedOnce, NoOrder
<1> QED BY <1>1, <1>2, <1>3, <1>4 DEF Books, Agreement, Completion

LEMMA BooksHold == ASSUME ~Interruptible PROVE Spec => []Books
BY BooksInit, BooksStep, CoreHolds, PTL DEF Spec

-----------------------------------------------------------------------------
(* A fill is booked at most once and only if the venue executed it: over   *)
(* every re-read of an order, every hand-over between cycle, sweep and     *)
(* recovery, lost acknowledgements, wipes and crashes, as long as no       *)
(* cancel raises and nobody stops the supervision ("booking is idempotent  *)
(* by fill id", execution/service.py).                                     *)
THEOREM FillsOnce == ASSUME ~Interruptible PROVE Spec => []BookedOnce
<1>1. Books => BookedOnce
  BY DEF Books, Agreement
<1> QED BY <1>1, BooksHold, PTL

(* An order that nobody is at work on is, to the monitor, what it is in    *)
(* the log (execution/monitor.py, group.order).                            *)
THEOREM MonitorIsLog == ASSUME ~Interruptible PROVE Spec => []MonitorFollowsLog
<1>1. Books => MonitorFollowsLog
  BY DEF Books, Agreement
<1> QED BY <1>1, BooksHold, PTL

(* An order closed as FILLED or CANCELLED has every execution booked: the  *)
(* status is read before the trades and adopted after they are booked.     *)
THEOREM ClosedIsComplete == ASSUME ~Interruptible PROVE Spec => []ClosedBooksComplete
<1>1. Books => ClosedBooksComplete
  BY DEF Books, Completion, Complete, ClosedBooksComplete, Closed
<1> QED BY <1>1, BooksHold, PTL

-----------------------------------------------------------------------------
(* Every step of the program is a step of the contract, or none.           *)
LEMMA SameTable == Contract!LegalTransitions = LegalTransitions
BY DEF Contract!LegalTransitions, Contract!OrderState, Contract!OpenStates,
       Contract!TerminalStates, LegalTransitions, OrderState, OpenStates, TerminalStates

LEMMA Stutters ==
  ASSUME \A p \in Orders : durable'[p].state = durable[p].state
                           /\ venue'[p].filled = venue[p].filled,
         UNCHANGED <<placed, fillEvents>>
  PROVE  UNCHANGED Contract!contractVars
<1>1. [o \in Orders |-> durable[o].state]' = [o \in Orders |-> durable[o].state]
  OBVIOUS
<1>2. [o \in Orders |-> venue[o].filled]' = [o \in Orders |-> venue[o].filled]
  OBVIOUS
<1> QED BY <1>1, <1>2 DEF Contract!contractVars

LEMMA Commits ==
  ASSUME NEW o \in Orders, durable[o].state = "NONE", durable'[o].state = "PENDING_SUBMIT",
         \A p \in Orders : p # o => durable'[p] = durable[p],
         \A p \in Orders : venue'[p].filled = venue[p].filled,
         UNCHANGED <<placed, fillEvents>>
  PROVE  Contract!Commit(o)
<1>1. [p \in Orders |-> durable[p].state]'
        = [[p \in Orders |-> durable[p].state] EXCEPT ![o] = "PENDING_SUBMIT"]
  OBVIOUS
<1>2. [p \in Orders |-> venue[p].filled]' = [p \in Orders |-> venue[p].filled]
  OBVIOUS
<1> QED BY <1>1, <1>2 DEF Contract!Commit

LEMMA MovesOn ==
  ASSUME NEW o \in Orders, durable[o] \in Order,
         durable'[o].state \in LegalTransitions[durable[o].state],
         \A p \in Orders : p # o => durable'[p] = durable[p],
         \A p \in Orders : venue'[p].filled = venue[p].filled,
         UNCHANGED <<placed, fillEvents>>
  PROVE  Contract!Move(o)
<1>1. [p \in Orders |-> durable[p].state]'
        = [[p \in Orders |-> durable[p].state] EXCEPT ![o] = durable'[o].state]
  OBVIOUS
<1>2. [p \in Orders |-> venue[p].filled]' = [p \in Orders |-> venue[p].filled]
  OBVIOUS
<1>3. durable[o].state # "NONE"
  BY DEF Order, OrderState, OpenStates, TerminalStates
<1> QED BY <1>1, <1>2, <1>3, SameTable DEF Contract!Move

LEMMA Places ==
  ASSUME Core, NEW o \in Orders, placed[o] = 0, durable[o] \in Order, UNCHANGED logVars, Arrive(o)
  PROVE  Contract!Place(o)
<1>1. placed' = [placed EXCEPT ![o] = 1]
  BY DEF Arrive, Core, TypeOK
<1>2. \A p \in Orders : venue'[p].filled = venue[p].filled
  BY DEF Arrive, Core, TypeOK
<1>3. [p \in Orders |-> venue[p].filled]' = [p \in Orders |-> venue[p].filled]
  BY <1>2
<1>4. durable[o].state # "NONE"
  BY DEF Order, OrderState, OpenStates, TerminalStates
<1> QED BY <1>1, <1>3, <1>4 DEF Contract!Place

(* The only step that books is the append of a fill the venue executed.    *)
LEMMA LogFillIsBook ==
  ASSUME Core, Books, VenueMoves, TypeOK', NEW t \in Tasks, LogFill(t)
  PROVE  \E o \in Orders : task[t].at = o /\ Contract!Book(o)
<1>0. task[t].at \in Orders
  BY InHandFacts DEF LogFill, SyncPCs
<1> PICK o \in Orders : task[t].at = o
  BY <1>0
<1> DEFINE s == FillTarget(durable[o])
<1>1. task[t].pc = "log" /\ task[t].pc \in SubmitPCs \cup SyncPCs
  BY DEF LogFill, SyncPCs
<1>2. /\ o \in Orders /\ durable[o] \in Order /\ fillEvents[o] = durable[o].filled
  BY <1>1, InHandFacts, HeldAgrees
<1>3. /\ durable[o].filled < venue[o].filled /\ FillIsLegal(durable[o])
      /\ durable' = [durable EXCEPT ![o] = WithFill(@)]
  BY LogFillBooks
<1>4. /\ durable'[o].state = s /\ \A p \in Orders : p # o => durable'[p] = durable[p]
      /\ fillEvents' = [fillEvents EXCEPT ![o] = @ + 1] /\ UNCHANGED <<venue, placed>>
  BY <1>2, <1>3 DEF LogFill, WithFill, Core, TypeOK
<1>5. /\ s \in {"PARTIALLY_FILLED", "FILLED"}
      /\ s = durable[o].state \/ s \in LegalTransitions[durable[o].state]
  BY <1>3 DEF FillIsLegal, FillTarget
<1>6. durable[o].state # "NONE"
  BY <1>2 DEF Order, OrderState, OpenStates, TerminalStates
<1> HIDE DEF s
<1>7. [p \in Orders |-> durable[p].state]'
        = [[p \in Orders |-> durable[p].state] EXCEPT ![o] = s]
  BY <1>2, <1>4
<1>8. [p \in Orders |-> venue[p].filled]' = [p \in Orders |-> venue[p].filled]
  BY <1>4
<1>9. [p \in Orders |-> durable[p].state][o] = durable[o].state
      /\ [p \in Orders |-> venue[p].filled][o] = venue[o].filled
  BY <1>2
<1>10. Contract!Book(o)
  BY <1>2, <1>3, <1>4, <1>5, <1>6, <1>7, <1>8, <1>9, SameTable DEF Contract!Book
<1> QED BY <1>10

LEMMA SubmitImplements ==
  ASSUME Core, Books, TypeOK', NEW o \in Orders, SubmitStep(o)
  PROVE  Contract!Place(o) \/ Contract!Move(o) \/ UNCHANGED Contract!contractVars
<1>1. task[o].pc \in SubmitPCs \ {"log"}
  BY DEF SubmitStep, PassSelfTrade, RefuseSelfTrade, SelfTradeUnread, Acknowledged, AckLost,
     Rejected, NotPlaced, RecordAck, RecordUnknown, RecordRefusal, RecordRejection, SubmitPCs
<1>2. /\ o \in Tasks /\ task[o].at = o /\ Stage(o) /\ task[o].work = durable[o]
      /\ durable[o] \in Order
  BY <1>1, TaskNames, InHandFacts, HeldAgrees DEF Holding, SubmitPCs, SyncPCs
<1>3. CASE Acknowledged(o) \/ AckLost(o)
  <2>1. placed[o] = 0 /\ UNCHANGED logVars
    BY <1>3 DEF Acknowledged, AckLost, Core, Reach, Reached
  <2>2. Arrive(o) \/ UNCHANGED <<venue, placed>>
    BY <1>3 DEF Acknowledged, AckLost
  <2> QED BY <1>2, <2>1, <2>2, Places, Stutters
<1>4. CASE PassSelfTrade(o) \/ Rejected(o) \/ SelfTradeUnread(o) \/ NotPlaced(o)
  <2>1. UNCHANGED <<durable, fillEvents, venue, placed>>
    BY <1>4 DEF PassSelfTrade, Rejected, SelfTradeUnread, NotPlaced
  <2> QED BY <2>1, Stutters
<1>5. ASSUME NEW s \in LegalTransitions[durable[o].state], Advance(o, s),
             UNCHANGED <<fillEvents, venue, placed>>
      PROVE  Contract!Move(o)
  <2>1. durable'[o].state = s /\ \A p \in Orders : p # o => durable'[p] = durable[p]
    BY <1>2, <1>5 DEF Advance, Order, Core, TypeOK
  <2> QED BY <1>2, <1>5, <2>1, MovesOn
<1>6. CASE RefuseSelfTrade(o) \/ RecordAck(o) \/ RecordUnknown(o) \/ RecordRefusal(o)
  <2>1. durable[o].state = "PENDING_SUBMIT"
    BY <1>2, <1>6 DEF Stage, RefuseSelfTrade, RecordAck, RecordUnknown, RecordRefusal, SubmitPCs
  <2>2. {"SUBMITTED", "SUBMIT_UNKNOWN", "REJECTED"} \subseteq LegalTransitions[durable[o].state]
    BY <2>1 DEF LegalTransitions, OrderState
  <2> QED BY <1>5, <1>6, <2>2 DEF RefuseSelfTrade, RecordAck, RecordUnknown, RecordRefusal
<1>7. CASE RecordRejection(o)
  <2>1. durable[o].state = "SUBMITTED"
    BY <1>2, <1>7 DEF Stage, RecordRejection
  <2>2. "REJECTED" \in LegalTransitions[durable[o].state]
    BY <2>1 DEF LegalTransitions, OrderState, OpenStates
  <2> QED BY <1>5, <1>7, <2>2 DEF RecordRejection
<1> QED BY <1>3, <1>4, <1>6, <1>7 DEF SubmitStep

LEMMA SyncImplements ==
  ASSUME ~Interruptible, Core, Books, VenueMoves, TypeOK', NEW t \in Tasks, SyncStep(t)
  PROVE  (\E o \in Orders : Contract!Book(o) \/ Contract!Move(o)) \/ UNCHANGED Contract!contractVars
<1>1. task[t].pc \in SyncPCs
  BY DEF SyncStep, Query, ReadTrades, QueryFails, Vanish, BookFill, LogFill, Adopt, Cancel,
         CancelFails, Expire, SyncPCs
<1>2. PICK o \in Orders : task[t].at = o
  BY <1>1, InHandFacts
<1>h. /\ Stage(t) /\ durable[o] \in Order
      /\ task[t].pc # "log" => task[t].work = durable[o]
  BY <1>1, <1>2, InHandFacts, HeldAgrees
<1>3. CASE Query(t) \/ ReadTrades(t) \/ QueryFails(t) \/ BookFill(t)
  <2>1. UNCHANGED <<durable, fillEvents, venue, placed>>
    BY <1>3 DEF Query, ReadTrades, QueryFails, BookFill
  <2> QED BY <2>1, Stutters
<1>4. CASE LogFill(t)
  BY <1>4, LogFillIsBook
<1>5. ASSUME NEW s \in LegalTransitions[durable[o].state], Advance(t, s),
             UNCHANGED <<fillEvents, venue, placed>>
      PROVE  Contract!Move(o)
  <2>1. durable'[o].state = s /\ \A p \in Orders : p # o => durable'[p] = durable[p]
    BY <1>2, <1>h, <1>5 DEF Advance, Order, Core, TypeOK
  <2> QED BY <1>2, <1>h, <1>5, <2>1, MovesOn
<1>6. CASE Vanish(t)
  <2>1. task[t].work = durable[o] /\ UNCHANGED <<fillEvents, venue, placed>>
    BY <1>2, <1>h, <1>6 DEF Vanish
  <2>2. CASE Advance(t, "FAILED") /\ CanMove(durable[o], "FAILED")
    <3>1. "FAILED" \in LegalTransitions[durable[o].state]
      BY <2>2 DEF CanMove
    <3> QED BY <1>5, <2>1, <2>2, <3>1
  <2>3. CASE UNCHANGED durable
    BY <2>1, <2>3, Stutters
  <2> QED BY <1>h, <1>6, <2>1, <2>2, <2>3 DEF Vanish
<1>7. CASE Adopt(t)
  <2>1. UNCHANGED <<fillEvents, venue, placed>>
    BY <1>7 DEF Adopt
  <2>2. /\ \A p \in Orders : p # o => durable'[p] = durable[p]
        /\ durable'[o] = durable[o] \/ durable'[o].state \in LegalTransitions[durable[o].state]
    BY <1>2, <1>7, AdoptBooks
  <2>3. CASE durable'[o] = durable[o]
    BY <2>1, <2>2, <2>3, Stutters
  <2>4. CASE durable'[o].state \in LegalTransitions[durable[o].state]
    <3>1. Contract!Move(o)
      BY <1>2, <1>h, <2>1, <2>2, <2>4, MovesOn
    <3> QED BY <3>1
  <2> QED BY <2>2, <2>3, <2>4
<1>8. CASE Cancel(t)
  <2>1. UNCHANGED <<durable, fillEvents, placed>> /\ \A p \in Orders : venue'[p].filled = venue[p].filled
    BY <1>2, <1>h, <1>8 DEF Cancel, VenueCancels, Core, TypeOK
  <2> QED BY <2>1, Stutters
<1>9. CASE Expire(t)
  <2>1. IsOpen(durable[o])
    BY <1>2, <1>h, <1>9 DEF Expire, Stage
  <2>2. "EXPIRED" \in LegalTransitions[durable[o].state]
    BY <2>1 DEF IsOpen, OpenStates, LegalTransitions, OrderState
  <2>3. Contract!Move(o)
    BY <1>5, <1>9, <2>2 DEF Expire
  <2> QED BY <2>3
<1>10. ~CancelFails(t)
  BY DEF CancelFails, Interruptible
<1> QED BY <1>3, <1>4, <1>6, <1>7, <1>8, <1>9, <1>10 DEF SyncStep

LEMMA ContractStep ==
  ASSUME ~Interruptible, Core, Books, [Next]_vars
  PROVE  [Contract!Next]_(Contract!contractVars)
<1>1. VenueMoves /\ TypeOK'
  BY VenueStepMoves, CoreStep DEF Core
<1>2. ASSUME NEW o \in Orders, Record(o) PROVE Contract!Commit(o)
  <2>1. /\ durable[o].state = "NONE" /\ durable'[o].state = "PENDING_SUBMIT"
        /\ \A p \in Orders : p # o => durable'[p] = durable[p]
        /\ UNCHANGED <<fillEvents, venue, placed>>
    BY <1>2 DEF Record, NoOrder, Core, TypeOK
  <2> QED BY <2>1, Commits
<1>3. ASSUME NEW o \in Orders, SubmitStep(o) PROVE Contract!Next \/ UNCHANGED Contract!contractVars
  BY <1>1, <1>3, SubmitImplements DEF Contract!Next
<1>4. ASSUME NEW t \in Tasks, SyncStep(t) PROVE Contract!Next \/ UNCHANGED Contract!contractVars
  BY <1>1, <1>4, SyncImplements DEF Contract!Next
<1>5. ASSUME NEW o \in Orders, Recover(o)
      PROVE  Contract!Move(o) \/ UNCHANGED Contract!contractVars
  <2>1. /\ durable'[o] = Restated(durable[o]) /\ durable[o] \in Order
        /\ \A p \in Orders : p # o => durable'[p] = durable[p]
        /\ UNCHANGED <<fillEvents, venue, placed>>
    BY <1>1, <1>5, RecoverBooks DEF Recover
  <2>2. CASE durable[o].state = "PENDING_SUBMIT"
    <3>1. durable'[o].state \in LegalTransitions[durable[o].state]
      BY <2>1, <2>2 DEF Restated, MoveTo, Order, LegalTransitions, OrderState
    <3> QED BY <2>1, <3>1, MovesOn
  <2>3. CASE durable[o].state # "PENDING_SUBMIT"
    BY <2>1, <2>3, Stutters DEF Restated
  <2> QED BY <2>2, <2>3
<1>6. ASSUME NEW o \in Orders, LateArrival(o)
      PROVE  Contract!Place(o)
  <2>1. placed[o] = 0 /\ durable[o] \in Order /\ UNCHANGED logVars /\ Arrive(o)
    BY <1>6 DEF LateArrival, Core, Reach, Reached, TypeOK, MaybeOrder
  <2> QED BY <2>1, Places
<1>7. ASSUME NEW o \in Orders, VenueFill(o)
      PROVE  Contract!Execute(o)
  <2>1. placed[o] = 1 /\ venue[o].filled < Qty
    BY <1>7 DEF VenueFill, Core, Reach, Reached, NoOrder, IsOpen, OpenStates
  <2>2. /\ venue'[o].filled = venue[o].filled + 1
        /\ \A p \in Orders : p # o => venue'[p] = venue[p]
        /\ UNCHANGED <<durable, fillEvents, placed>>
    BY <1>7 DEF VenueFill, WithFill, Core, TypeOK
  <2>3. [p \in Orders |-> venue[p].filled]'
          = [[p \in Orders |-> venue[p].filled] EXCEPT ![o] = @ + 1]
    BY <2>2
  <2>4. [p \in Orders |-> durable[p].state]' = [p \in Orders |-> durable[p].state]
    BY <2>2
  <2>5. [p \in Orders |-> venue[p].filled][o] = venue[o].filled
    OBVIOUS
  <2> QED BY <2>1, <2>2, <2>3, <2>4, <2>5 DEF Contract!Execute
<1>8. CASE \/ UNCHANGED vars \/ Crash \/ Stop \/ Restart \/ Recovered
           \/ \E t \in Tasks : PollStep(t)
           \/ \E o \in Orders : Expiry(o)
  <2>1. UNCHANGED <<durable, fillEvents, placed, venue>>
    BY <1>8 DEF vars, Crash, Stop, Restart, Recovered, PollStep, PollBegin, PollVisit, PollEnd,
       Expiry
  <2> QED BY <2>1, Stutters
<1>9. ASSUME NEW o \in Orders, VenueCancel(o) \/ VenueWipe(o)
      PROVE  UNCHANGED Contract!contractVars
  <2>1. /\ UNCHANGED <<durable, fillEvents, placed>>
        /\ \A p \in Orders : venue'[p].filled = venue[p].filled
    BY <1>9 DEF VenueCancel, VenueWipe, logVars, Core, TypeOK, VenueRecord
  <2> QED BY <2>1, Stutters
<1> QED BY <1>2, <1>3, <1>4, <1>5, <1>6, <1>7, <1>8, <1>9 DEF Next, VenueStep, Contract!Next

(* The whole program, interleaved, failing, crashing and recovering, does  *)
(* to an order only what the contract of execution/service.py allows: the  *)
(* intent before the venue, one placement, moves along the table, bookings *)
(* of what was executed.  As FillsOnce, for supervision nobody stops by    *)
(* hand and cancels that answer.                                           *)
THEOREM KeepsContract == ASSUME ~Interruptible PROVE Spec => Implements
<1>1. Init => Contract!Init
  BY DEF Init, NoOrder, Contract!Init
<1>2. Core /\ Books /\ [Next]_vars => [Contract!Next]_(Contract!contractVars)
  BY ContractStep
<1> QED BY <1>1, <1>2, CoreHolds, BooksHold, PTL DEF Spec, Implements, Contract!Spec

-----------------------------------------------------------------------------
(* No working order is left to nobody.                                     *)

(* Without a wipe the venue remembers every order that reached it. *)
LEMMA VenueRemembers ==
  ASSUME "wipe" \notin Faults, Core, Tending, [Next]_vars
  PROVE  \A p \in Orders : AtVenue(p)' /\ (placed[p] = 1 => placed'[p] = 1)
<1> USE DEF Core, TypeOK
<1>0. \A p \in Orders : AtVenue(p)
  BY DEF Tending
<1>1. ASSUME UNCHANGED <<venue, placed>>
      PROVE  \A p \in Orders : AtVenue(p)' /\ (placed[p] = 1 => placed'[p] = 1)
  BY <1>0, <1>1 DEF AtVenue
<1>2. ASSUME NEW o \in Orders, Arrive(o), placed[o] = 0
      PROVE  \A p \in Orders : AtVenue(p)' /\ (placed[p] = 1 => placed'[p] = 1)
  BY <1>0, <1>2 DEF Arrive, AtVenue, VenueRecord
<1>3. ASSUME NEW o \in Orders, VenueCancels(o), UNCHANGED placed
      PROVE  \A p \in Orders : AtVenue(p)' /\ (placed[p] = 1 => placed'[p] = 1)
  BY <1>0, <1>3 DEF VenueCancels, AtVenue, VenueRecord
<1>4. ASSUME NEW o \in Orders, SubmitStep(o), ~UNCHANGED <<venue, placed>>
      PROVE  Arrive(o) /\ placed[o] = 0
  BY <1>4 DEF SubmitStep, PassSelfTrade, RefuseSelfTrade, SelfTradeUnread, Acknowledged, AckLost,
     Rejected, NotPlaced, RecordAck, RecordUnknown, RecordRefusal, RecordRejection, Reach, Reached
<1>5. ASSUME NEW t \in Tasks, SyncStep(t), ~UNCHANGED <<venue, placed>>
      PROVE  \E o \in Orders : VenueCancels(o) /\ UNCHANGED placed
  <2>1. Cancel(t) \/ CancelFails(t)
    BY <1>5 DEF SyncStep, Query, ReadTrades, QueryFails, Vanish, BookFill, LogFill, Adopt, Expire
  <2>2. task[t].at \in Orders
    BY <2>1, InHandFacts DEF Cancel, CancelFails, SyncPCs
  <2> QED BY <1>5, <2>1, <2>2 DEF Cancel, CancelFails
<1>6. ASSUME NEW o \in Orders, VenueStep(o)
      PROVE  \A p \in Orders : AtVenue(p)' /\ (placed[p] = 1 => placed'[p] = 1)
  <2>1. CASE LateArrival(o)
    BY <2>1, <1>2 DEF LateArrival, Reach, Reached
  <2>2. CASE VenueFill(o)
    BY <2>2, <1>0 DEF VenueFill, WithFill, FillTarget, AtVenue
  <2>3. CASE VenueCancel(o)
    BY <2>3, <1>3 DEF VenueCancel, VenueCancels
  <2> QED BY <1>6, <2>1, <2>2, <2>3 DEF VenueStep, VenueWipe
<1>7. CASE UNCHANGED vars \/ Crash \/ Stop \/ Restart \/ Recovered
           \/ (\E t \in Tasks : PollStep(t))
           \/ (\E o \in Orders : Record(o) \/ Recover(o) \/ Expiry(o))
  BY <1>7, <1>1 DEF vars, Crash, Stop, Restart, Recovered, PollStep, PollBegin, PollVisit,
     PollEnd, Record, Recover, Expiry
<1> QED BY <1>1, <1>2, <1>3, <1>4, <1>5, <1>6, <1>7 DEF Next

Remembered == \A p \in Orders : AtVenue(p)' /\ (placed[p] = 1 => placed'[p] = 1)

(* A step of task t about order o, seen from whoever owns the orders.      *)
LEMMA OwnTurn ==
  ASSUME Core, Tending, Remembered, NEW t \in Tasks, NEW o \in Orders,
         task[t].at \in {o, None}, task'[t].at \in {o, None},
         \A u \in Tasks : u # t => task'[u] = task[u],
         \A u \in Tasks : u # t => (lock' = u <=> lock = u),
         \A p \in Orders : p # o => durable'[p] = durable[p] /\ mem'[p] = mem[p],
         phase' = "refused" \/ (phase' = phase /\ \A p \in Orders : p # o /\ p \in todo => p \in todo'),
         Found(t)', Minded(o)'
  PROVE  Tending'
<1>1. ASSUME NEW u \in Tasks, u # t PROVE Found(u)'
  <2>1. Found(u) /\ task'[u] = task[u] /\ (lock' = u <=> lock = u)
    BY <1>1 DEF Tending
  <2>2. task[u].pc \in {"acked", "query"} => task[u].at \in Orders
    BY InHandFacts DEF SubmitPCs, SyncPCs
  <2> QED BY <2>1, <2>2 DEF Found, Remembered
<1>2. ASSUME NEW p \in Orders, p # o PROVE Minded(p)'
  <2>1. InHand(p)' <=> InHand(p)
    BY <1>2, TaskNames DEF InHand
  <2>2. Minded(p)
    BY DEF Tending
  <2> QED BY <1>2, <2>1, <2>2 DEF Minded
<1> QED BY <1>1, <1>2 DEF Tending, Remembered

(* As GoesOn, GivesUp and HandsBack. *)
LEMMA OwnKeeps ==
  ASSUME Core, Tending, Remembered, NEW t \in Tasks, NEW o \in Orders,
         task[t].at \in {o, None}, task'[t].at = o,
         \A u \in Tasks : u # t => task'[u] = task[u],
         \A p \in Orders : p # o => durable'[p] = durable[p],
         \A p \in Orders : p # o /\ p \in todo => p \in todo',
         UNCHANGED <<mem, lock, phase>>, Found(t)'
  PROVE  Tending'
<1>1. Minded(o)'
  BY DEF Minded, InHand
<1> QED BY <1>1, OwnTurn

LEMMA OwnRaises ==
  ASSUME Core, Tending, Remembered, NEW t \in Tasks, NEW o \in Orders,
         task[t].at = o, Raise(t), UNCHANGED mem,
         \A p \in Orders : p # o => durable'[p] = durable[p],
         ~IsOpen(durable'[o]) \/ mem[o] # NoOrder \/ t = Boot
  PROVE  Tending'
<1>1. /\ \A u \in Tasks : u # t => task'[u] = task[u]
      /\ task'[t] = Idle
      /\ \A u \in Tasks : u # t => (lock' = u <=> lock = u)
      /\ phase' = "refused" \/ (phase' = phase /\ todo' = todo)
      /\ t = Boot => phase' = "refused"
  BY TaskNames DEF Raise, Polling, Core, TypeOK
<1>2. Found(t)' /\ task'[t].at = None
  BY <1>1 DEF Found, Idle
<1>3. Minded(o)'
  BY <1>1 DEF Minded
<1>4. \A p \in Orders : p # o => durable'[p] = durable[p] /\ mem'[p] = mem[p]
  OBVIOUS
<1> QED BY <1>1, <1>2, <1>3, <1>4, OwnTurn

LEMMA OwnReturns ==
  ASSUME Core, Tending, Remembered, NEW t \in Tasks, NEW o \in Orders,
         task[t].at = o, Return(t, durable'[o]),
         \A p \in Orders : p # o => durable'[p] = durable[p],
         UNCHANGED <<lock, phase, todo>>
  PROVE  Tending'
<1>1. /\ \A u \in Tasks : u # t => task'[u] = task[u]
      /\ task'[t].at = None /\ task'[t].pc \in RestPCs
  BY DEF Return, Resume, Core, TypeOK, Idle, RestPCs
<1>2. Found(t)'
  BY <1>1 DEF Found, RestPCs
<1>3. \A p \in Orders : p # o => durable'[p] = durable[p] /\ mem'[p] = mem[p]
  BY DEF Return, Core, TypeOK
<1>4. ~IsOpen(durable'[o]) \/ mem'[o] = durable'[o]
  BY DEF Return, BootTracks, Core, TypeOK
<1>5. Minded(o)'
  BY <1>4 DEF Minded, IsOpen, NoOrder, OpenStates
<1> QED BY <1>1, <1>2, <1>3, <1>5, OwnTurn

LEMMA SubmitOwned ==
  ASSUME ~Losing, Core, Books, Tending, Remembered, TypeOK', NEW o \in Orders, SubmitStep(o)
  PROVE  Tending'
<1>1. task[o].pc \in SubmitPCs \ {"log"}
  BY DEF SubmitStep, PassSelfTrade, RefuseSelfTrade, SelfTradeUnread, Acknowledged, AckLost,
     Rejected, NotPlaced, RecordAck, RecordUnknown, RecordRefusal, RecordRejection, SubmitPCs
<1>2. /\ o \in Tasks /\ task[o].at = o /\ Stage(o) /\ task[o].work = durable[o]
      /\ durable[o] \in Order /\ Found(o)
  BY <1>1, TaskNames, InHandFacts, HeldAgrees DEF Holding, SubmitPCs, SyncPCs, Tending
<1>3. CASE PassSelfTrade(o) \/ AckLost(o) \/ Rejected(o) \/ RecordRefusal(o)
  <2>1. /\ task'[o].at = o /\ task'[o].pc \in {"call", "unknown", "refused", "rejecting"}
        /\ \A u \in Tasks : u # o => task'[u] = task[u]
        /\ \A p \in Orders : p # o => durable'[p] = durable[p]
        /\ UNCHANGED <<mem, lock, phase, todo>>
    BY <1>2, <1>3 DEF PassSelfTrade, AckLost, Rejected, RecordRefusal, Advance, Core, TypeOK
  <2>2. Found(o)'
    BY <2>1 DEF Found
  <2> QED BY <1>2, <2>1, <2>2, OwnKeeps
<1>4. CASE Acknowledged(o)
  <2>1. /\ task'[o].at = o /\ task'[o].pc = "acked" /\ placed'[o] = 1
        /\ \A u \in Tasks : u # o => task'[u] = task[u]
        /\ UNCHANGED <<durable, mem, lock, phase, todo>>
    BY <1>2, <1>4 DEF Acknowledged, Arrive, Core, TypeOK, Reach, Reached
  <2>2. Found(o)'
    BY <2>1 DEF Found
  <2> QED BY <1>2, <2>1, <2>2, OwnKeeps
<1>5. CASE RecordAck(o) \/ RecordUnknown(o)
  <2>1. /\ task'[o].at = o /\ task'[o].pc = "query"
        /\ task'[o].work.state = "SUBMIT_UNKNOWN" \/ placed'[o] = 1
        /\ \A u \in Tasks : u # o => task'[u] = task[u]
        /\ \A p \in Orders : p # o => durable'[p] = durable[p]
        /\ UNCHANGED <<mem, lock, phase, todo>>
    BY <1>2, <1>5 DEF RecordAck, RecordUnknown, Advance, Found, Core, TypeOK, Order
  <2>2. Found(o)'
    BY <2>1 DEF Found
  <2> QED BY <1>2, <2>1, <2>2, OwnKeeps
<1>6. CASE NotPlaced(o)
  <2>1. Raise(o) /\ UNCHANGED <<mem, durable>> /\ ~IsOpen(durable[o])
    BY <1>2, <1>6 DEF NotPlaced, Stage, SubmitPCs, IsOpen, OpenStates
  <2> QED BY <1>2, <2>1, OwnRaises
<1>7. CASE RefuseSelfTrade(o) \/ RecordRejection(o)
  <2>1. /\ durable'[o] = MoveTo(durable[o], "REJECTED")
        /\ \A p \in Orders : p # o => durable'[p] = durable[p]
        /\ Return(o, MoveTo(durable[o], "REJECTED")) /\ UNCHANGED <<lock, phase, todo>>
    BY <1>2, <1>7 DEF RefuseSelfTrade, RecordRejection, Advance, MoveTo, Core, TypeOK
  <2>2. Return(o, durable'[o])
    BY <2>1
  <2> QED BY <1>2, <2>1, <2>2, OwnReturns
<1>8. ~SelfTradeUnread(o)
  BY DEF SelfTradeUnread, Losing
<1> QED BY <1>3, <1>4, <1>5, <1>6, <1>7, <1>8 DEF SubmitStep

(* The cycle that asks about an acknowledged order finds it, so an order   *)
(* that vanished was never acknowledged, and fails for good.               *)
LEMMA SyncOwned ==
  ASSUME ~Losing, Core, Books, Tending, Remembered, TypeOK', NEW t \in Tasks, SyncStep(t)
  PROVE  Tending'
<1> DEFINE o == task[t].at
<1>1. task[t].pc \in SyncPCs
  BY DEF SyncStep, Query, ReadTrades, QueryFails, Vanish, BookFill, LogFill, Adopt, Cancel,
         CancelFails, Expire, SyncPCs
<1>2. /\ o \in Orders /\ Holding(t) /\ Stage(t) /\ durable[o] \in Order
      /\ task[t].pc # "log" => task[t].work = durable[o]
      /\ Found(t)
  BY <1>1, InHandFacts, HeldAgrees DEF Tending
<1>3. CASE ReadTrades(t) \/ BookFill(t) \/ LogFill(t) \/ Cancel(t)
  <2>1. /\ task'[t].at = o /\ task'[t].pc \in {"apply", "log", "expire"}
        /\ \A u \in Tasks : u # t => task'[u] = task[u]
        /\ \A p \in Orders : p # o => durable'[p] = durable[p]
        /\ UNCHANGED <<mem, lock, phase, todo>>
    BY <1>2, <1>3 DEF ReadTrades, BookFill, LogFill, Cancel, Core, TypeOK
  <2>2. Found(t)'
    BY <2>1 DEF Found
  <2> HIDE DEF o
  <2> QED BY <1>2, <2>1, <2>2, OwnKeeps DEF o
<1>4. CASE Query(t)
  <2>1. /\ task'[t].at = o /\ task'[t].pc \in {"vanished", "trades", "apply"}
        /\ task'[t].work = task[t].work /\ task[t].pc = "query"
        /\ task'[t].pc = "vanished" => venue[o].state = "NONE"
        /\ \A u \in Tasks : u # t => task'[u] = task[u]
        /\ UNCHANGED <<durable, mem, lock, phase, todo>>
    <3>1. Answer(o) = NoOrder => venue[o].state = "NONE"
      BY DEF Answer, NoOrder
    <3> QED BY <1>2, <1>4, <3>1 DEF Query, Core, TypeOK
  <2>2. Found(t)'
    <3>1. AtVenue(o)
      BY <1>2 DEF Tending
    <3> QED BY <1>2, <2>1, <3>1 DEF Found, AtVenue
  <2> HIDE DEF o
  <2> QED BY <1>2, <2>1, <2>2, OwnKeeps DEF o
<1>5. CASE Vanish(t)
  <2>1. /\ Raise(t) /\ UNCHANGED mem /\ task[t].pc = "vanished"
        /\ \A p \in Orders : p # o => durable'[p] = durable[p]
    BY <1>2, <1>5 DEF Vanish, Advance, Core, TypeOK
  <2>2. CASE lock = t
    <3>1. mem[o] # NoOrder
      BY <1>1, <1>2, <2>2, TaskNames DEF Holding, Core, TypeOK
    <3> HIDE DEF o
    <3> QED BY <1>2, <2>1, <3>1, OwnRaises DEF o
  <2>3. CASE t = Boot
    <3> HIDE DEF o
    <3> QED BY <1>2, <2>1, <2>3, OwnRaises DEF o
  <2>4. CASE lock # t /\ t # Boot
    <3>1. durable[o].state = "SUBMIT_UNKNOWN" /\ task[t].work = durable[o]
      BY <1>2, <2>1, <2>4 DEF Found
    <3>2. CanMove(task[t].work, "FAILED")
      BY <3>1 DEF CanMove, LegalTransitions, OrderState
    <3>3. durable'[o].state = "FAILED"
      BY <1>2, <1>5, <3>2 DEF Vanish, Advance, Core, TypeOK, Order
    <3>4. ~IsOpen(durable'[o])
      BY <3>3 DEF IsOpen, OpenStates
    <3> HIDE DEF o
    <3> QED BY <1>2, <2>1, <3>4, OwnRaises DEF o
  <2> QED BY <2>2, <2>3, <2>4
<1>6. CASE Adopt(t)
  <2>0. VenueMoves
    BY <1>6, VenueKept DEF Adopt
  <2>1. /\ \A p \in Orders : p # o => durable'[p] = durable[p]
        /\ UNCHANGED <<lock, phase, todo>>
    BY <1>6, <2>0, AdoptBooks DEF Adopt
  <2>2. CASE task' = [task EXCEPT ![t].pc = "cancel", ![t].work = Adopted(t)] /\ UNCHANGED mem
    <3>1. /\ task'[t].at = o /\ task'[t].pc = "cancel"
          /\ \A u \in Tasks : u # t => task'[u] = task[u]
      BY <2>2 DEF Core, TypeOK
    <3>2. Found(t)'
      BY <3>1 DEF Found
    <3> HIDE DEF o
    <3> QED BY <1>2, <2>1, <2>2, <3>1, <3>2, OwnKeeps DEF o
  <2>3. CASE Return(t, Adopted(t))
    <3>1. durable'[o] = Adopted(t)
      BY <1>2, <1>6 DEF Adopt, Adopted, Advance, MoveTo, Order, Core, TypeOK
    <3> HIDE DEF o
    <3> QED BY <1>2, <2>1, <2>3, <3>1, OwnReturns DEF o
  <2> QED BY <1>6, <2>2, <2>3 DEF Adopt
<1>7. CASE Expire(t)
  <2>1. /\ durable'[o] = MoveTo(durable[o], "EXPIRED") /\ task[t].work = durable[o]
        /\ \A p \in Orders : p # o => durable'[p] = durable[p]
        /\ Return(t, MoveTo(task[t].work, "EXPIRED")) /\ UNCHANGED <<lock, phase, todo>>
    BY <1>2, <1>7 DEF Expire, Advance, MoveTo, Core, TypeOK
  <2>2. Return(t, durable'[o])
    BY <2>1
  <2> HIDE DEF o
  <2> QED BY <1>2, <2>1, <2>2, OwnReturns DEF o
<1>8. ~QueryFails(t) /\ ~CancelFails(t)
  BY DEF QueryFails, CancelFails, Losing, Interruptible
<1> QED BY <1>3, <1>4, <1>5, <1>6, <1>7, <1>8 DEF SyncStep

LEMMA PollOwned ==
  ASSUME Core, Books, Tending, Remembered, NEW t \in Tasks, PollStep(t)
  PROVE  Tending'
<1>0. /\ Holding(t) /\ t # None /\ UNCHANGED <<durable, phase, todo>>
      /\ \A p \in Orders : Minded(p)
      /\ \A u \in Tasks : Found(u)
  BY TaskNames DEF PollStep, PollBegin, PollVisit, PollEnd, Core, Custody, Tending
<1>1. CASE PollBegin(t) \/ PollEnd(t)
  <2>1. /\ task[t].at = None /\ task'[t].at = None /\ task'[t].pc \in {"poll", "idle"}
        /\ \A u \in Tasks : u # t => task'[u] = task[u]
        /\ \A u \in Tasks : u # t => (lock' = u <=> lock = u)
    BY <1>0, <1>1, TaskNames
    DEF PollBegin, PollEnd, MayPoll, LockFree, Holding, RestPCs, Idle, Core, TypeOK
  <2>2. \A u \in Tasks : Found(u)'
    <3>1. Found(t)'
      BY <2>1 DEF Found
    <3>2. ASSUME NEW u \in Tasks, u # t PROVE Found(u)'
      <4>1. task[u].pc \in {"acked", "query"} => task[u].at \in Orders
        BY InHandFacts DEF SubmitPCs, SyncPCs
      <4> QED BY <1>0, <2>1, <3>2, <4>1 DEF Found, Remembered
    <3> QED BY <3>1, <3>2
  <2>3. ASSUME NEW p \in Orders PROVE Minded(p)'
    <3>1. InHand(p)' <=> InHand(p)
      BY <2>1, TaskNames DEF InHand
    <3>2. mem'[p] = mem[p] \/ ~IsOpen(mem[p])
      BY <1>1 DEF PollBegin, PollEnd
    <3>3. mem[p] # NoOrder /\ ~InHand(p) => mem[p] = durable[p]
      BY DEF Books, Agreement, MonitorFollowsLog
    <3> QED BY <1>0, <3>1, <3>2, <3>3 DEF Minded
  <2> QED BY <2>2, <2>3 DEF Tending, Remembered
<1>2. CASE PollVisit(t)
  <2>0. /\ lock = t /\ task[t].at = None /\ UNCHANGED <<lock, mem>>
    BY <1>0, <1>2 DEF PollVisit, Holding, RestPCs
  <2>1. CASE UNCHANGED task
    <3>1. \A u \in Tasks : Found(u)'
      <4> SUFFICES ASSUME NEW u \in Tasks PROVE Found(u)'
        OBVIOUS
      <4>1. task[u].pc \in {"acked", "query"} => task[u].at \in Orders
        BY InHandFacts DEF SubmitPCs, SyncPCs
      <4> QED BY <1>0, <2>0, <2>1, <4>1 DEF Found, Remembered
    <3>2. \A p \in Orders : Minded(p)'
      BY <1>0, <2>0, <2>1 DEF Minded, InHand
    <3> QED BY <3>1, <3>2 DEF Tending, Remembered
  <2>2. CASE \E o \in queue : task' = [task EXCEPT ![t] = At(o, "query", mem[o])]
    <3>1. PICK o \in Orders : task' = [task EXCEPT ![t] = At(o, "query", mem[o])]
      BY <2>2 DEF Core, TypeOK
    <3>2. /\ \A u \in Tasks : u # t => task'[u] = task[u]
          /\ task'[t].at = o /\ task'[t].pc = "query"
      BY <3>1 DEF At, Core, TypeOK
    <3>3. Found(t)'
      BY <2>0, <3>2 DEF Found
    <3> QED BY <1>0, <2>0, <3>2, <3>3, OwnKeeps
  <2> QED BY <1>2, <2>1, <2>2 DEF PollVisit
<1> QED BY <1>1, <1>2 DEF PollStep

LEMMA ProcessOwned ==
  ASSUME Core, Tending, Remembered, Crash \/ Restart \/ Recovered
  PROVE  Tending'
<1>1. CASE Crash \/ Restart
  <2>1. \A u \in Tasks : task'[u] = Idle
    <3>1. CASE Crash
      BY <3>1 DEF Crash, Forget
    <3>2. CASE Restart
      BY <3>2, AtRest DEF Restart
    <3> QED BY <1>1, <3>1, <3>2
  <2>2. \A u \in Tasks : Found(u)'
    BY <2>1 DEF Found, Idle
  <2>3. \A p \in Orders : Minded(p)'
    BY <1>1 DEF Minded, Crash, Restart, IsOpen, IsTerminal, OpenStates, TerminalStates, NoOrder
  <2> QED BY <2>2, <2>3 DEF Tending, Remembered
<1>2. CASE Recovered
  <2>1. \A p \in Orders : Minded(p)'
    BY <1>2 DEF Recovered, Tending, Minded, InHand
  <2>2. \A u \in Tasks : Found(u)'
    BY <1>2 DEF Recovered, Tending, Found
  <2> QED BY <2>1, <2>2 DEF Tending, Remembered
<1> QED BY <1>1, <1>2

LEMMA WorldOwned ==
  ASSUME Core, Tending, Remembered, UNCHANGED vars \/ \E o \in Orders : VenueStep(o) \/ Expiry(o)
  PROVE  Tending'
<1>1. UNCHANGED <<durable, task, lock, phase, mem, todo>>
  BY DEF vars, VenueStep, LateArrival, VenueFill, VenueCancel, VenueWipe, Expiry
<1>2. \A p \in Orders : Minded(p)'
  BY <1>1 DEF Tending, Minded, InHand
<1>3. ASSUME NEW u \in Tasks PROVE Found(u)'
  <2>1. task[u].pc \in {"acked", "query"} => task[u].at \in Orders
    BY InHandFacts DEF SubmitPCs, SyncPCs
  <2> QED BY <1>1, <2>1 DEF Tending, Found, Remembered
<1> QED BY <1>2, <1>3 DEF Tending, Remembered

LEMMA OwnStep ==
  ASSUME ~Losing, Core, Books, Tending, [Next]_vars
  PROVE  Tending'
<1>1. Remembered /\ TypeOK'
  BY VenueRemembers, CoreStep DEF Core, Losing, Remembered
<1>2. ASSUME NEW o \in Orders, Record(o) PROVE Tending'
  <2>1. /\ o \in Tasks /\ task[o].at = None /\ task'[o].at = o /\ task'[o].pc = "check"
        /\ \A u \in Tasks : u # o => task'[u] = task[u]
        /\ \A p \in Orders : p # o => durable'[p] = durable[p]
        /\ UNCHANGED <<mem, lock, phase, todo>>
    BY <1>2, TaskNames DEF Record, Idle, At, Core, TypeOK
  <2>2. Found(o)'
    BY <2>1 DEF Found
  <2> QED BY <1>1, <2>1, <2>2, OwnKeeps
<1>3. ASSUME NEW o \in Orders, Recover(o) PROVE Tending'
  <2>1. /\ Boot \in Tasks /\ task[Boot].at = None /\ task'[Boot].at = o
        /\ task'[Boot].pc = "query"
        /\ \A u \in Tasks : u # Boot => task'[u] = task[u]
        /\ \A p \in Orders : p # o => durable'[p] = durable[p]
        /\ \A p \in Orders : p # o /\ p \in todo => p \in todo'
        /\ UNCHANGED <<mem, lock, phase>>
    BY <1>3, TaskNames DEF Recover, Idle, At, Core, TypeOK
  <2>2. Found(Boot)'
    BY <2>1 DEF Found
  <2> QED BY <1>1, <2>1, <2>2, OwnKeeps
<1>4. ASSUME NEW o \in Orders, SubmitStep(o) PROVE Tending'
  BY <1>1, <1>4, SubmitOwned
<1>5. ASSUME NEW t \in Tasks, SyncStep(t) PROVE Tending'
  BY <1>1, <1>5, SyncOwned
<1>6. ASSUME NEW t \in Tasks, PollStep(t) PROVE Tending'
  BY <1>1, <1>6, PollOwned
<1>7. CASE UNCHANGED vars \/ \E o \in Orders : VenueStep(o) \/ Expiry(o)
  BY <1>1, <1>7, WorldOwned
<1>8. CASE Crash \/ Restart \/ Recovered
  BY <1>1, <1>8, ProcessOwned
<1>9. ~Stop
  BY DEF Stop, Losing, Interruptible
<1> QED BY <1>2, <1>3, <1>4, <1>5, <1>6, <1>7, <1>8, <1>9 DEF Next

(* In a running process every order the log has as working is in some      *)
(* coroutine's hands or tracked by the monitor, over lost                  *)
(* acknowledgements, refusals, rejections and crashes; where every query   *)
(* answers and the venue forgets nothing, since a cycle that cannot read   *)
(* its new order leaves it to the next startup.                            *)
THEOREM NothingUnowned == ASSUME ~Losing PROVE Spec => []Owned
<1>1. Init => Tending
  BY DEF Init, Tending, Minded, AtVenue, Found, Idle, NoOrder, IsOpen, OpenStates
<1>2. Core /\ Books /\ Tending /\ [Next]_vars => Tending'
  BY OwnStep
<1>3. Core /\ Tending => Owned
  BY DEF Core, Custody, Waiting, Tending, Minded, Owned
<1>4. ~Interruptible
  BY DEF Losing
<1>5. Spec => []Books
  BY <1>4, BooksHold
<1> QED BY <1>1, <1>2, <1>3, <1>5, CoreHolds, PTL DEF Spec
=============================================================================
