----------------------------- MODULE Execution -----------------------------
(***************************************************************************)
(* One process placing entry orders at a venue that is not in its control: *)
(* ExecutionService, the ExecutionMonitor's poll, a basket's cycle as far  *)
(* as it places and settles its order, and the startup sequence's replay   *)
(* and open-order resolution.                                              *)
(*                                                                         *)
(* A task is one coroutine: the cycle of each order, the supervisor's      *)
(* sweep, the startup sequence.  A step of a task is what it does between  *)
(* two awaits that other tasks, the venue or a crash can come between: one *)
(* committed append to the log, or one call to the venue.                  *)
(***************************************************************************)
EXTENDS OrderLifecycle, FiniteSets

CONSTANTS
  Orders,      \* the entries the baskets decide on, one basket each
  Sweep,       \* the supervisor's periodic poll
  Boot,        \* the startup sequence
  None,        \* no task, no order
  Faults,      \* what may go wrong outside the program in this instance
  MaxCrashes   \* bound: crashes, and stops of the supervisor, of a behaviour

FaultKinds == {"unknown", "definite", "reject", "query", "cancel", "wipe", "reconcile", "stop"}

ASSUME TasksAssumption ==
  /\ Sweep \notin Orders /\ Boot \notin Orders /\ None \notin Orders
  /\ Sweep # Boot /\ Sweep # None /\ Boot # None
ASSUME BoundsAssumption == Faults \subseteq FaultKinds /\ MaxCrashes \in Nat

Tasks == Orders \cup {Sweep, Boot}

VARIABLES
  durable,     \* durable[o]: the orders projection: state, and distinct fills in the fills table
  fillEvents,  \* fillEvents[o]: FILL_RECEIVED events of o in the log, repeats counted
  venue,       \* venue[o]: the venue's record of o, and what it has executed of it
  placed,      \* placed[o]: requests for o that reached the venue's book
  inflight,    \* inflight[o]: a request given up on that may still arrive
  ledger,      \* ledger[o]: units of o booked in the in-memory ledger
  mem,         \* mem[o]: the monitor's group.order, NoOrder when untracked
  lock,        \* the task inside the monitor's poll
  queue,       \* what that poll has still to visit
  task,        \* task[t]: where t stands
  ttl,         \* ttl[o]: o is past expires_at
  phase,       \* the process: running, down, recovering, refused
  todo,        \* open orders the startup sequence has still to resolve
  crashes

venueVars == <<venue, placed, inflight>>
logVars == <<durable, fillEvents>>
pollVars == <<lock, queue>>
processVars == <<phase, todo, crashes>>
vars == <<durable, fillEvents, venue, placed, inflight, ledger, mem, lock, queue,
          task, ttl, phase, todo, crashes>>

(* Definitions named for a mistake (RecordInMemory, ReplayNothing, ...)    *)
(* are variants of the definition that follows them; no action uses them.  *)
(* They stand in for it when the properties are shown to notice a bug.     *)

(* A task's place: pc, the order at hand, the coroutine's local copy of it *)
(* and the venue's last answer about it.  NoOrder as an answer: not found. *)
Idle == [pc |-> "idle", at |-> None, work |-> NoOrder, seen |-> NoOrder]
At(o, pc, order) == [pc |-> pc, at |-> o, work |-> order, seen |-> NoOrder]

Init ==
  /\ durable = [o \in Orders |-> NoOrder]
  /\ fillEvents = [o \in Orders |-> 0]
  /\ venue = [o \in Orders |-> NoOrder]
  /\ placed = [o \in Orders |-> 0]
  /\ inflight = [o \in Orders |-> FALSE]
  /\ ledger = [o \in Orders |-> 0]
  /\ mem = [o \in Orders |-> NoOrder]
  /\ lock = None
  /\ queue = {}
  /\ task = [t \in Tasks |-> Idle]
  /\ ttl = [o \in Orders |-> FALSE]
  /\ phase = "running"
  /\ todo = {}
  /\ crashes = 0

IsTerminal(order) == order.state \in TerminalStates
Polling(t) == lock = t

(* _advance: one committed append that moves the order of t to state s. *)
Advance(t, s) == durable' = [durable EXCEPT ![task[t].at].state = s]

(* An exception leaves t: a cycle or a sweep gives up, releasing the       *)
(* monitor's lock; the startup sequence refuses to trade.                  *)
Raise(t) ==
  /\ task' = [task EXCEPT ![t] = Idle]
  /\ IF Polling(t) THEN lock' = None /\ queue' = {} ELSE UNCHANGED pollVars
  /\ IF t = Boot THEN phase' = "refused" /\ todo' = {} ELSE UNCHANGED <<phase, todo>>
  /\ UNCHANGED crashes

(* What the caller of sync does with the order it returns: the poll puts   *)
(* it in its group, the cycle tracks it and goes on to settle, the startup *)
(* sequence tracks it if it is still open.                                 *)
BootTracksUntouched(order) == order.state = "OPEN"
BootTracks(order) == IsOpen(order)
Resume(t) ==
  task' = [task EXCEPT ![t] =
    CASE Polling(t) -> [Idle EXCEPT !.pc = "poll"]
      [] t = Boot   -> Idle
      [] OTHER      -> [Idle EXCEPT !.pc = "settle"]]
ReturnUnstored(t, order) ==
  /\ mem' = IF Polling(t) \/ t = Boot THEN mem ELSE [mem EXCEPT ![task[t].at] = order]
  /\ Resume(t)
Return(t, order) ==
  /\ mem' = IF t = Boot /\ ~BootTracks(order) THEN mem ELSE [mem EXCEPT ![task[t].at] = order]
  /\ Resume(t)

----------------------------------------------------------------------------
(* submit, up to the query it ends with.                                   *)

RecordInMemory(o) ==
  /\ phase = "running"
  /\ task[o] = Idle
  /\ durable[o] = NoOrder
  /\ task' = [task EXCEPT ![o] = At(o, "check", [state |-> "PENDING_SUBMIT", filled |-> 0])]
  /\ UNCHANGED <<logVars, venueVars, ledger, mem, pollVars, ttl, processVars>>

(* Durable first, network second. *)
Record(o) ==
  /\ phase = "running"
  /\ task[o] = Idle
  /\ durable[o] = NoOrder
  /\ durable' = [durable EXCEPT ![o].state = "PENDING_SUBMIT"]
  /\ task' = [task EXCEPT ![o] = At(o, "check", [state |-> "PENDING_SUBMIT", filled |-> 0])]
  /\ UNCHANGED <<fillEvents, venueVars, ledger, mem, pollVars, ttl, processVars>>

(* The self-trade check reads the venue's open orders: it passes, refuses, *)
(* or the read itself raises.                                              *)
PassSelfTrade(o) ==
  /\ task[o].pc = "check"
  /\ task' = [task EXCEPT ![o].pc = "call"]
  /\ UNCHANGED <<logVars, venueVars, ledger, mem, pollVars, ttl, processVars>>

RefuseSelfTrade(o) ==
  /\ task[o].pc = "check"
  /\ Advance(o, "REJECTED")
  /\ Return(o, MoveTo(task[o].work, "REJECTED"))
  /\ UNCHANGED <<fillEvents, venueVars, ledger, pollVars, ttl, processVars>>

SelfTradeUnread(o) ==
  /\ task[o].pc = "check"
  /\ "query" \in Faults
  /\ Raise(o)
  /\ UNCHANGED <<logVars, venueVars, ledger, mem, ttl>>

Arrive(o) ==
  /\ venue' = [venue EXCEPT ![o].state = "OPEN"]
  /\ placed' = [placed EXCEPT ![o] = @ + 1]

(* broker.submit: acknowledged; or ambiguous, whether the order arrived,   *)
(* never will, or is still travelling; or rejected; or a failure that      *)
(* says for certain that nothing was placed (a rate limit, a ban).         *)
Acknowledged(o) ==
  /\ task[o].pc = "call"
  /\ Arrive(o)
  /\ task' = [task EXCEPT ![o].pc = "acked"]
  /\ UNCHANGED <<logVars, inflight, ledger, mem, pollVars, ttl, processVars>>

AckLost(o) ==
  /\ task[o].pc = "call"
  /\ "unknown" \in Faults
  /\ task' = [task EXCEPT ![o].pc = "unknown"]
  /\ \/ Arrive(o) /\ UNCHANGED inflight
     \/ UNCHANGED venueVars
     \/ inflight' = [inflight EXCEPT ![o] = TRUE] /\ UNCHANGED <<venue, placed>>
  /\ UNCHANGED <<logVars, ledger, mem, pollVars, ttl, processVars>>

Rejected(o) ==
  /\ task[o].pc = "call"
  /\ "reject" \in Faults
  /\ task' = [task EXCEPT ![o].pc = "refused"]
  /\ UNCHANGED <<logVars, venueVars, ledger, mem, pollVars, ttl, processVars>>

NotPlaced(o) ==
  /\ task[o].pc = "call"
  /\ "definite" \in Faults
  /\ Raise(o)
  /\ UNCHANGED <<logVars, venueVars, ledger, mem, ttl>>

(* The append that records the outcome. *)
RecordAck(o) ==
  /\ task[o].pc = "acked"
  /\ Advance(o, "SUBMITTED")
  /\ task' = [task EXCEPT ![o].pc = "query", ![o].work.state = "SUBMITTED"]
  /\ UNCHANGED <<fillEvents, venueVars, ledger, mem, pollVars, ttl, processVars>>

RecordUnknownThenResubmit(o) ==
  /\ task[o].pc = "unknown"
  /\ task' = [task EXCEPT ![o].pc = "call"]
  /\ UNCHANGED <<logVars, venueVars, ledger, mem, pollVars, ttl, processVars>>

RecordUnknown(o) ==
  /\ task[o].pc = "unknown"
  /\ Advance(o, "SUBMIT_UNKNOWN")
  /\ task' = [task EXCEPT ![o].pc = "query", ![o].work.state = "SUBMIT_UNKNOWN"]
  /\ UNCHANGED <<fillEvents, venueVars, ledger, mem, pollVars, ttl, processVars>>

(* A rejection is two appends: SUBMITTED, then REJECTED. *)
RecordRefusal(o) ==
  /\ task[o].pc = "refused"
  /\ Advance(o, "SUBMITTED")
  /\ task' = [task EXCEPT ![o].pc = "rejecting", ![o].work.state = "SUBMITTED"]
  /\ UNCHANGED <<fillEvents, venueVars, ledger, mem, pollVars, ttl, processVars>>

RecordRejection(o) ==
  /\ task[o].pc = "rejecting"
  /\ Advance(o, "REJECTED")
  /\ Return(o, MoveTo(task[o].work, "REJECTED"))
  /\ UNCHANGED <<fillEvents, venueVars, ledger, pollVars, ttl, processVars>>

----------------------------------------------------------------------------
(* sync and apply, whoever calls them.                                     *)

(* fetch_order reads the order's status, and then, when the status says    *)
(* something executed, its trades: two calls, either of which may raise.   *)
Answer(o) == IF venue[o].state = "NONE" THEN NoOrder ELSE venue[o]

Query(t) ==
  /\ task[t].pc = "query"
  /\ LET answer == Answer(task[t].at) IN
     task' = [task EXCEPT ![t].seen = answer,
                          ![t].pc = IF answer = NoOrder THEN "vanished"
                                    ELSE IF answer.filled > 0 THEN "trades" ELSE "apply"]
  /\ UNCHANGED <<logVars, venueVars, ledger, mem, pollVars, ttl, processVars>>

ReadTrades(t) ==
  /\ task[t].pc = "trades"
  /\ task' = [task EXCEPT ![t].seen.filled = venue[task[t].at].filled, ![t].pc = "apply"]
  /\ UNCHANGED <<logVars, venueVars, ledger, mem, pollVars, ttl, processVars>>

QueryFails(t) ==
  /\ task[t].pc \in {"query", "trades"}
  /\ "query" \in Faults
  /\ Raise(t)
  /\ UNCHANGED <<logVars, venueVars, ledger, mem, ttl>>

(* _resolve_vanished: FAILED and a FailClosedError, where the lifecycle    *)
(* has that move; where it has not, transition_to raises first.            *)
Vanish(t) ==
  /\ task[t].pc = "vanished"
  /\ IF CanMove(task[t].work, "FAILED") THEN Advance(t, "FAILED") ELSE UNCHANGED durable
  /\ Raise(t)
  /\ UNCHANGED <<fillEvents, venueVars, ledger, mem, ttl>>

(* new_fills is not empty; and what a bug in it or in the order would do.  *)
HasNewOffByOne(t) == task[t].work.filled <= task[t].seen.filled
HasNewUnlessClosed(t) ==
  task[t].work.filled < task[t].seen.filled /\ ~IsTerminal(task[t].seen)
HasNew(t) == task[t].work.filled < task[t].seen.filled

(* _book_fill: the fill enters the in-memory order and the ledger; then    *)
(* one append commits it, with the order's new state in the payload.       *)
BookFill(t) ==
  /\ task[t].pc = "apply"
  /\ HasNew(t)
  /\ task' = [task EXCEPT ![t].pc = "log", ![t].work = WithFill(@)]
  /\ ledger' = [ledger EXCEPT ![task[t].at] = @ + 1]
  /\ UNCHANGED <<logVars, venueVars, mem, pollVars, ttl, processVars>>

(* The fills table is keyed by fill id, so a repeated fill leaves it as it *)
(* was; the event log has it twice.                                        *)
LogFill(t) ==
  /\ task[t].pc = "log"
  /\ LET o == task[t].at
         work == task[t].work IN
     /\ fillEvents' = [fillEvents EXCEPT ![o] = @ + 1]
     /\ durable' = [durable EXCEPT ![o] =
          [state  |-> work.state,
           filled |-> IF work.filled > @.filled THEN work.filled ELSE @.filled]]
  /\ task' = [task EXCEPT ![t].pc = "apply"]
  /\ UNCHANGED <<venueVars, ledger, mem, pollVars, ttl, processVars>>

(* _adopt_state: the venue's state where the lifecycle allows it; then the *)
(* monitor's _sync goes on to the cancel of an expired order.              *)
AdoptableByForce(order, state) == state # order.state
Adoptable(order, state) == CanMove(order, state)
Adopted(t) ==
  LET work == task[t].work
      state == task[t].seen.state IN
  IF Adoptable(work, state) THEN MoveTo(work, state) ELSE work

NeverDue(t, order) == FALSE
CancelDue(t, order) == Polling(t) /\ IsOpen(order) /\ ttl[task[t].at]

Adopt(t) ==
  /\ task[t].pc = "apply"
  /\ ~HasNew(t)
  /\ LET order == Adopted(t) IN
     /\ IF order # task[t].work THEN Advance(t, order.state) ELSE UNCHANGED durable
     /\ \/ /\ CancelDue(t, order)
           /\ task' = [task EXCEPT ![t].pc = "cancel", ![t].work = order]
           /\ UNCHANGED mem
        \/ ~CancelDue(t, order) /\ Return(t, order)
  /\ UNCHANGED <<fillEvents, venueVars, ledger, pollVars, ttl, processVars>>

(* cancel: whatever the venue answers, the order is then EXPIRED in the    *)
(* log; an order already gone is an answer, not an error.  The call itself *)
(* may raise, having taken effect or not.                                  *)
VenueCancels(o) ==
  venue' = IF IsOpen(venue[o]) THEN [venue EXCEPT ![o].state = "CANCELLED"] ELSE venue

Cancel(t) ==
  /\ task[t].pc = "cancel"
  /\ VenueCancels(task[t].at)
  /\ task' = [task EXCEPT ![t].pc = "expire"]
  /\ UNCHANGED <<logVars, placed, inflight, ledger, mem, pollVars, ttl, processVars>>

CancelFails(t) ==
  /\ task[t].pc = "cancel"
  /\ "cancel" \in Faults
  /\ VenueCancels(task[t].at) \/ UNCHANGED venue
  /\ Raise(t)
  /\ UNCHANGED <<logVars, placed, inflight, ledger, mem, ttl>>

Expire(t) ==
  /\ task[t].pc = "expire"
  /\ Advance(t, "EXPIRED")
  /\ Return(t, MoveTo(task[t].work, "EXPIRED"))
  /\ UNCHANGED <<fillEvents, venueVars, ledger, pollVars, ttl, processVars>>

----------------------------------------------------------------------------
(* poll, under the monitor's lock, by the sweep or by a cycle settling;    *)
(* the groups are those tracked when it begins.                            *)
MayPoll(t) == (t = Sweep /\ task[t] = Idle) \/ task[t].pc = "settle"
LockIgnored == TRUE
LockFree == lock = None

PollBegin(t) ==
  /\ phase = "running"
  /\ MayPoll(t)
  /\ LockFree
  /\ lock' = t
  /\ queue' = {o \in Orders : mem[o] # NoOrder}
  /\ task' = [task EXCEPT ![t].pc = "poll"]
  /\ UNCHANGED <<logVars, venueVars, ledger, mem, ttl, processVars>>

PollVisit(t) ==
  /\ task[t].pc = "poll"
  /\ \E o \in queue :
       /\ queue' = queue \ {o}
       /\ task' = IF IsOpen(mem[o]) THEN [task EXCEPT ![t] = At(o, "query", mem[o])] ELSE task
  /\ UNCHANGED <<logVars, venueVars, ledger, mem, lock, ttl, processVars>>

(* A cycle then prunes its own order if it has settled. *)
PollEnd(t) ==
  /\ task[t].pc = "poll"
  /\ queue = {}
  /\ lock' = None
  /\ mem' = [o \in Orders |-> IF o = t /\ ~IsOpen(mem[o]) THEN NoOrder ELSE mem[o]]
  /\ task' = [task EXCEPT ![t] = Idle]
  /\ UNCHANGED <<logVars, venueVars, ledger, queue, ttl, processVars>>

----------------------------------------------------------------------------
(* The process dies with everything it held in memory, and starts again.   *)
Forget ==
  /\ task' = [t \in Tasks |-> Idle]
  /\ lock' = None
  /\ queue' = {}

Crash ==
  /\ phase # "down"
  /\ crashes < MaxCrashes
  /\ crashes' = crashes + 1
  /\ phase' = "down"
  /\ todo' = {}
  /\ ledger' = [o \in Orders |-> 0]
  /\ mem' = [o \in Orders |-> NoOrder]
  /\ Forget
  /\ UNCHANGED <<logVars, venueVars, ttl>>

(* An operator stops supervision: its tasks are cancelled wherever they    *)
(* await, the process and the monitor's groups live on, and supervision    *)
(* may start again.                                                        *)
Stop ==
  /\ phase = "running"
  /\ "stop" \in Faults
  /\ crashes < MaxCrashes
  /\ crashes' = crashes + 1
  /\ Forget
  /\ UNCHANGED <<logVars, venueVars, ledger, mem, ttl, phase, todo>>

ReplayNothing == [o \in Orders |-> 0]
Replay == fillEvents

(* recover: the ledger is replayed from the log.  Then the preflight, the  *)
(* reconciliation and the readiness checks, which are outside this module, *)
(* let the open orders be resolved or refuse.                              *)
Restart ==
  /\ phase \in {"down", "refused"}
  /\ ledger' = Replay
  /\ mem' = [o \in Orders |-> NoOrder]
  /\ \/ /\ phase' = "recovering"
        /\ todo' = {o \in Orders : durable[o] # NoOrder /\ ~IsTerminal(durable[o])}
     \/ /\ "reconcile" \in Faults
        /\ phase' = "refused"
        /\ todo' = {}
  /\ UNCHANGED <<logVars, venueVars, pollVars, task, ttl, crashes>>

(* An order loaded from the database, with its fills; recover restates a   *)
(* PENDING_SUBMIT as SUBMIT_UNKNOWN before it asks.                        *)
LoadedWithoutFills(o) == [durable[o] EXCEPT !.filled = 0]
Loaded(o) == durable[o]
NotRestated(order) == order
Restated(order) ==
  IF order.state = "PENDING_SUBMIT" THEN MoveTo(order, "SUBMIT_UNKNOWN") ELSE order

Recover(o) ==
  /\ task[Boot] = Idle
  /\ o \in todo
  /\ todo' = todo \ {o}
  /\ LET order == Restated(Loaded(o)) IN
     /\ durable' = [durable EXCEPT ![o].state = order.state]
     /\ task' = [task EXCEPT ![Boot] = At(o, "query", order)]
  /\ UNCHANGED <<fillEvents, venueVars, ledger, mem, pollVars, ttl, phase, crashes>>

Recovered ==
  /\ phase = "recovering"
  /\ task[Boot] = Idle
  /\ todo = {}
  /\ phase' = "running"
  /\ UNCHANGED <<logVars, venueVars, ledger, mem, pollVars, task, ttl, todo, crashes>>

----------------------------------------------------------------------------
(* The venue and the clock.                                                *)
LateArrival(o) ==
  /\ inflight[o]
  /\ inflight' = [inflight EXCEPT ![o] = FALSE]
  /\ Arrive(o)
  /\ UNCHANGED <<logVars, ledger, mem, pollVars, task, ttl, processVars>>

VenueFill(o) ==
  /\ IsOpen(venue[o])
  /\ venue' = [venue EXCEPT ![o] = WithFill(@)]
  /\ UNCHANGED <<logVars, placed, inflight, ledger, mem, pollVars, task, ttl, processVars>>

VenueCancel(o) ==
  /\ IsOpen(venue[o])
  /\ venue' = [venue EXCEPT ![o].state = "CANCELLED"]
  /\ UNCHANGED <<logVars, placed, inflight, ledger, mem, pollVars, task, ttl, processVars>>

(* The venue's record of o is gone, as after a testnet reset; what it      *)
(* executed has been executed.                                             *)
VenueWipe(o) ==
  /\ "wipe" \in Faults
  /\ venue[o].state # "NONE"
  /\ venue' = [venue EXCEPT ![o].state = "NONE"]
  /\ UNCHANGED <<logVars, placed, inflight, ledger, mem, pollVars, task, ttl, processVars>>

Expiry(o) ==
  /\ durable[o] # NoOrder
  /\ ~ttl[o]
  /\ ttl' = [ttl EXCEPT ![o] = TRUE]
  /\ UNCHANGED <<logVars, venueVars, ledger, mem, pollVars, task, processVars>>

----------------------------------------------------------------------------
SubmitStep(o) ==
  \/ PassSelfTrade(o) \/ RefuseSelfTrade(o) \/ SelfTradeUnread(o)
  \/ Acknowledged(o) \/ AckLost(o) \/ Rejected(o) \/ NotPlaced(o)
  \/ RecordAck(o) \/ RecordUnknown(o) \/ RecordRefusal(o) \/ RecordRejection(o)

SyncStep(t) ==
  \/ Query(t) \/ ReadTrades(t) \/ QueryFails(t) \/ Vanish(t)
  \/ BookFill(t) \/ LogFill(t) \/ Adopt(t)
  \/ Cancel(t) \/ CancelFails(t) \/ Expire(t)

PollStep(t) == PollBegin(t) \/ PollVisit(t) \/ PollEnd(t)

VenueStep(o) == LateArrival(o) \/ VenueFill(o) \/ VenueCancel(o) \/ VenueWipe(o)

Next ==
  \/ \E o \in Orders : Record(o) \/ SubmitStep(o) \/ Recover(o) \/ VenueStep(o) \/ Expiry(o)
  \/ \E t \in Tasks : SyncStep(t) \/ PollStep(t)
  \/ Crash \/ Stop \/ Restart \/ Recovered

Spec == Init /\ [][Next]_vars

(* The event loop runs every task that is ready, and every call to the     *)
(* venue has a timeout, so a task that can step steps; the supervisor's    *)
(* sweep comes round again for ever; expires_at is a time that comes; a    *)
(* process that went down is started again.  Nothing is assumed of the     *)
(* venue, nor of the baskets' decisions.                                   *)
Fairness ==
  /\ \A o \in Orders : WF_vars(SubmitStep(o)) /\ WF_vars(Recover(o)) /\ WF_vars(Expiry(o))
  /\ \A t \in Tasks : WF_vars(SyncStep(t)) /\ SF_vars(PollBegin(t))
                      /\ WF_vars(PollVisit(t) \/ PollEnd(t))
  /\ WF_vars(Restart) /\ WF_vars(Recovered)

FairSpec == Spec /\ Fairness

----------------------------------------------------------------------------
PCs == {"idle", "check", "call", "acked", "unknown", "refused", "rejecting", "settle", "poll",
        "query", "trades", "vanished", "apply", "log", "cancel", "expire"}
SyncPCs == {"query", "trades", "vanished", "apply", "log", "cancel", "expire"}

MaybeOrder == Order \cup {NoOrder}
VenueRecord == [state : OrderState \cup {"NONE"}, filled : 0..Qty]

TypeOK ==
  /\ durable \in [Orders -> MaybeOrder]
  /\ fillEvents \in [Orders -> Nat]
  /\ venue \in [Orders -> VenueRecord]
  /\ placed \in [Orders -> Nat]
  /\ inflight \in [Orders -> BOOLEAN]
  /\ ledger \in [Orders -> Nat]
  /\ mem \in [Orders -> MaybeOrder]
  /\ lock \in Tasks \cup {None}
  /\ queue \subseteq Orders
  /\ task \in [Tasks -> [pc : PCs, at : Orders \cup {None}, work : MaybeOrder, seen : VenueRecord]]
  /\ ttl \in [Orders -> BOOLEAN]
  /\ phase \in {"running", "down", "recovering", "refused"}
  /\ todo \subseteq Orders
  /\ crashes \in 0..MaxCrashes

----------------------------------------------------------------------------
(* The venue, or the network on its way there, has an order only after its *)
(* intent is committed: whatever a crash leaves there, recovery has a row  *)
(* to ask about (service.submit, "durable first, network second").         *)
DurableFirst == \A o \in Orders : placed[o] > 0 \/ inflight[o] => durable[o] # NoOrder

(* One decision is one order: over lost acknowledgements, crashes and      *)
(* recoveries, at most one request for it is ever sent that can be placed  *)
(* ("there is no code path in this module that resubmits").                *)
OnePlacement == \A o \in Orders : placed[o] + (IF inflight[o] THEN 1 ELSE 0) <= 1

(* No two coroutines hold copies of one order between awaits: the cycle,   *)
(* the polls and recovery hand an order to one another, never share it.    *)
ExclusiveOwner ==
  \A t, u \in Tasks : t # u /\ task[t].at # None => task[t].at # task[u].at

(* While the process lives, its ledger is the log's fills, over replays    *)
(* and interleaved bookings; ahead of it by the one fill whose append is   *)
(* being awaited (_book_fill, ledger.replay).                              *)
BeingLogged(o) == \E t \in Tasks : task[t].pc = "log" /\ task[t].at = o
LedgerMatchesLog ==
  phase # "down" =>
    \A o \in Orders : ledger[o] = fillEvents[o] + (IF BeingLogged(o) THEN 1 ELSE 0)

(* A fill is booked at most once, and only if the venue executed it,       *)
(* however often the order is re-read, by whom, and over restarts          *)
(* ("booking is idempotent by fill id").                                   *)
BookedOnce ==
  \A o \in Orders : fillEvents[o] = durable[o].filled /\ durable[o].filled <= venue[o].filled

(* An order the log has closed as FILLED or CANCELLED, and will never ask  *)
(* the venue about again, has every execution booked: apply books before   *)
(* it adopts, and reads the trades after the status.                       *)
ClosedBooksComplete ==
  \A o \in Orders : durable[o].state \in {"FILLED", "CANCELLED"} =>
                      durable[o].filled = venue[o].filled

(* with_fill never raises: no fill the venue reports over-fills the copy   *)
(* in hand or finds it in a state from which booking is not legal.         *)
BookingLegal ==
  \A t \in Tasks : task[t].pc = "apply" /\ HasNew(t) => FillIsLegal(task[t].work)

(* The monitor's group.order is the order as the log has it whenever no    *)
(* coroutine is between reading and returning it: a poll given up half-way *)
(* leaves nothing half-known.                                              *)
InHand(o) == \E t \in Tasks : task[t].at = o
MonitorFollowsLog ==
  \A o \in Orders : mem[o] # NoOrder /\ ~InHand(o) => mem[o] = durable[o]

(* The monitor's lock is held only by a task that is polling, so whatever  *)
(* a poll runs into it is free for the next one.                           *)
LockIsUsed == lock # None => task[lock].pc \in SyncPCs \cup {"poll"}

(* In a running process every order the log has as working is in some      *)
(* coroutine's hands or tracked by the monitor: "an order that nobody owns *)
(* is an order whose partial fill nobody books" (execution/monitor.py).    *)
Owned ==
  phase = "running" =>
    \A o \in Orders : IsOpen(durable[o]) => InHand(o) \/ mem[o] # NoOrder

(* Every recorded order comes to a terminal state, whatever the venue does *)
(* with it and over a crash (the monitor's TTL, the startup sequence).     *)
EventuallyClosed == \A o \in Orders : durable[o] # NoOrder ~> IsTerminal(durable[o])

(* What the venue executed of an order is in time booked.                  *)
FillsBooked == \A o \in Orders : venue[o].filled > 0 ~> fillEvents[o] >= venue[o].filled

(* Every open order found at startup becomes terminal or monitored.        *)
RecoveryResolves == \A o \in Orders : o \in todo ~> IsTerminal(durable[o]) \/ mem[o] # NoOrder

(* The detailed specification implements what OrderContract promises.      *)
Contract == INSTANCE OrderContract WITH
  state    <- [o \in Orders |-> durable[o].state],
  placed   <- placed,
  executed <- [o \in Orders |-> venue[o].filled],
  booked   <- fillEvents

(* The intent before the venue, one placement, moves along the lifecycle   *)
(* table only, and every booking of an execution not booked before: the    *)
(* whole program, interleaved and crashing, takes no other step.           *)
Implements == Contract!Spec

=============================================================================
