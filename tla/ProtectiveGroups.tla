-------------------------- MODULE ProtectiveGroups --------------------------
(***************************************************************************)
(* The protective side of the ExecutionMonitor: the entries of one         *)
(* instrument, the venue-held legs that guard them, and the poll that      *)
(* keeps the legs matched to the holding.                                  *)
(*                                                                         *)
(* The legs of a group (a stop, and a linked take-profit) rest at one size *)
(* and end together, so a group has one guard.  Execution has the appends, *)
(* the crashes and the lifecycle of an order; here an order is what a poll *)
(* can tell of it, and a step is what a poll does between two venue calls. *)
(***************************************************************************)
EXTENDS Integers, SequencesExt

CONSTANTS
  Entries,   \* the groups, numbered by their stops: the smaller, the tighter
  EntryQty,  \* units an entry is for
  ExitQty,   \* units the discretionary sell is for
  MinLeg,    \* fewer units are below the venue's minimums
  Linked,    \* whether the venue links the legs: they go out by submit_group
  Faults,    \* what may go wrong outside the program
  Exit,      \* the discretionary sell: an exit decision, or an operator's close
  None       \* no poll, no refused target

FaultKinds == {"cancel", "definite", "query", "race", "gap", "partial", "operator", "expiry",
               "overlap"}

ASSUME EntriesAssumption == Entries \subseteq Nat /\ IsFiniteSet(Entries) /\ Exit \notin Entries
ASSUME SizesAssumption ==
  EntryQty \in Nat \ {0} /\ ExitQty \in Nat \ {0} /\ MinLeg \in Nat \ {0}
ASSUME FaultsAssumption == Faults \subseteq FaultKinds

ASSUME LinkedAssumption == Linked \in BOOLEAN
ASSUME NoneAssumption == None \notin Nat /\ None \notin {"sweep", "cycle"}

Groups == Entries \cup {Exit}
Entry(g) == <<g, "order">>
Guard(g) == <<g, "guard">>
Ids == (Entries \X {"order", "guard"}) \cup {Entry(Exit)}
IsSell(id) == id = Entry(Exit) \/ id[2] = "guard"

VARIABLES
  submitting, \* the groups whose entry, or sell, is at the venue while its submit still runs
  slipped,    \* units such submits have booked out of the ledger since the targets were computed
  venue,      \* venue[id]: the venue's record of the order, for a guard the last one placed
  stray,      \* stray[g]: units resting for guards placed before that one
  holding,    \* what is held at the venue
  mem,        \* mem[id]: the monitor's copy of the order
  held,       \* what the ledger says is held
  tracked,    \* the groups the monitor tracks, oldest first
  requested,  \* requested[g]: requested_qty, the target the resting guard was placed for
  refused,    \* refused[g]: unprotected_at, the target whose refusal has been reported
  settling,   \* the entry whose cycle has still to settle
  poller,     \* who polls: the sweep, the cycle, or nobody
  stage,      \* where the poll stands
  queue,      \* the orders this stage has still to visit
  targets     \* targets[g]: what the guard of g may cover, as this poll computed it

submitVars == <<submitting, slipped>>
venueVars == <<venue, stray, holding>>
bookVars == <<requested, refused>>
pollVars == <<poller, stage, queue, targets>>
vars == <<submitVars, venueVars, mem, held, tracked, bookVars, settling, pollVars>>

NoOrder == [state |-> "none", qty |-> 0, filled |-> 0]
Placed(qty) == [state |-> "open", qty |-> qty, filled |-> 0]
IsOpen(order) == order.state = "open"
Remaining(order) == IF IsOpen(order) THEN order.qty - order.filled ELSE 0
Ended(order) == IF IsOpen(order) THEN [order EXCEPT !.state = "cancelled"] ELSE order

AtLeastZero(n) == IF n > 0 THEN n ELSE 0
AtMost(n, m) == IF n < m THEN n ELSE m
Total(f, S) == SumFunctionOnSet(f, S)

NoTargets == [g \in Entries |-> 0]

Init ==
  /\ submitting = {}
  /\ slipped = 0
  /\ venue = [id \in Ids |-> NoOrder]
  /\ stray = [g \in Entries |-> 0]
  /\ holding = 0
  /\ mem = [id \in Ids |-> NoOrder]
  /\ held = 0
  /\ tracked = <<>>
  /\ requested = [g \in Entries |-> 0]
  /\ refused = [g \in Entries |-> None]
  /\ settling = None
  /\ poller = None
  /\ stage = "rest"
  /\ queue = {}
  /\ targets = NoTargets

(* An exception leaves the poll: the lock is released, what is in memory   *)
(* stays as it is, and a cycle that was settling is given up.              *)
Raise ==
  /\ poller' = None
  /\ stage' = "rest"
  /\ queue' = {}
  /\ targets' = NoTargets
  /\ settling' = IF poller = "cycle" THEN None ELSE settling
  /\ UNCHANGED <<submitVars, tracked, requested, refused>>

(* A stage visits orders group by group, oldest first, entry before guard. *)
Position(g) == CHOOSE i \in DOMAIN tracked : tracked[i] = g
Rank(id) == 2 * Position(id[1]) + (IF id[2] = "guard" THEN 1 ELSE 0)
Foremost == CHOOSE id \in queue : \A other \in queue : Rank(id) <= Rank(other)

Done ==
  /\ queue' = queue \ {Foremost}
  /\ UNCHANGED <<poller, stage, targets>>

----------------------------------------------------------------------------
Tracked(g) == \E i \in DOMAIN tracked : tracked[i] = g

(* _targets: the holding, less what our own working sells commit, is       *)
(* divided among the groups, tightest stop first.  A group with a filled   *)
(* guard is closing and takes no part.                                     *)
NeverClosing(g) == FALSE
Closing(g) == mem[Guard(g)].state = "filled"

Protectable == {g \in Entries : Tracked(g) /\ ~Closing(g)}

Committed == IF Tracked(Exit) THEN Remaining(mem[Entry(Exit)]) ELSE 0
Budget == AtLeastZero(held - Committed)

(* min(filled, what the tighter groups leave). *)
TargetOfItsEntry(g) == mem[Entry(g)].filled
Tighter(g) == [h \in Entries |-> IF h \in Protectable /\ h < g THEN mem[Entry(h)].filled ELSE 0]
Target(g) == AtMost(mem[Entry(g)].filled, AtLeastZero(Budget - Total(Tighter(g), Entries)))

----------------------------------------------------------------------------
(* The venue: what its resting sells would sell is not free for another.   *)
Free == holding - Total([id \in Ids |-> IF IsSell(id) THEN Remaining(venue[id]) ELSE 0], Ids)
                - Total(stray, Entries)

Executed(order, units) ==
  [order EXCEPT !.filled = @ + units,
                !.state = IF order.filled + units = order.qty THEN "filled" ELSE "open"]

EntryFills(g) ==
  /\ IsOpen(venue[Entry(g)])
  /\ venue' = [venue EXCEPT ![Entry(g)] = Executed(@, 1)]
  /\ holding' = IF g = Exit THEN holding - 1 ELSE holding + 1
  /\ UNCHANGED <<submitVars, stray, mem, held, tracked, bookVars, settling, pollVars>>

(* A stop triggers: during a poll, only with "race"; while its entry still *)
(* fills, or while it rests for more or less than the share of its group,  *)
(* only with "gap"; and it fills in parts only with "partial".             *)
Matched(g) ==
  /\ ~IsOpen(venue[Entry(g)]) /\ mem[Entry(g)] = venue[Entry(g)]
  /\ venue[Guard(g)].qty = Target(g)
GuardFills(g) ==
  /\ IsOpen(venue[Guard(g)])
  /\ poller = None \/ "race" \in Faults
  /\ Matched(g) \/ "gap" \in Faults
  /\ \E units \in 1..Remaining(venue[Guard(g)]) :
       /\ units = Remaining(venue[Guard(g)]) \/ "partial" \in Faults
       /\ venue' = [venue EXCEPT ![Guard(g)] = Executed(@, units)]
       /\ holding' = holding - units
  /\ UNCHANGED <<submitVars, stray, mem, held, tracked, bookVars, settling, pollVars>>

(* The venue, or an operator in its interface, cancels a guard. *)
GuardWithdrawn(g) ==
  /\ "operator" \in Faults
  /\ IsOpen(venue[Guard(g)])
  /\ venue' = [venue EXCEPT ![Guard(g)] = Ended(@)]
  /\ UNCHANGED <<submitVars, stray, holding, mem, held, tracked, bookVars, settling, pollVars>>

----------------------------------------------------------------------------
(* Cycles.  A basket's cycles follow one another, each sending at most one *)
(* order of the instrument.  The submit that sends it ends with a query of *)
(* its own: what that reports is booked and the order is tracked, outside  *)
(* the monitor's lock and wherever a poll stands.  A cycle that has placed *)
(* an entry then settles: it polls, and forgets the group if that is over. *)
(* The poll after a sell is one more sweep, and forgetting changes nothing.*)
Send(g, qty) ==
  /\ venue[Entry(g)] = NoOrder
  /\ venue' = [venue EXCEPT ![Entry(g)] = Placed(qty)]
  /\ submitting' = submitting \cup {g}
  /\ UNCHANGED <<slipped, stray, holding, mem, held, tracked, bookVars, settling, pollVars>>

Undisturbed == Exit \in submitting => "overlap" \in Faults

Enter(g) ==
  /\ settling = None /\ submitting \cap Entries = {}
  /\ Undisturbed
  /\ Send(g, EntryQty)

(* The sell is for what the ledger holds at most, and the venue refuses it *)
(* when the guards leave too little free (docs/KNOWN_GAPS.md, 6).  It does *)
(* not wait for a poll or a cycle, nor they for it: with "overlap" it goes *)
(* out, and its fills are booked, while they are under way.                *)
Sell ==
  /\ (settling = None /\ poller = None /\ submitting = {}) \/ "overlap" \in Faults
  /\ ExitQty <= held
  /\ ExitQty <= Free
  /\ Send(Exit, ExitQty)

Unread(g) == venue[Entry(g)].filled

Submitted(g) ==
  /\ g \in submitting
  /\ IF g = Exit
     THEN /\ Unread(g) <= held
          /\ held' = held - Unread(g)
          /\ slipped' = slipped + Unread(g)
          /\ UNCHANGED settling
     ELSE /\ held' = held + Unread(g)
          /\ settling' = g
          /\ UNCHANGED slipped
  /\ mem' = [mem EXCEPT ![Entry(g)] = venue[Entry(g)]]
  /\ tracked' = Append(tracked, g)
  /\ submitting' = submitting \ {g}
  /\ UNCHANGED <<venueVars, bookVars, pollVars>>

(* The query fails, or the sell is of more than the ledger holds: what     *)
(* fits is booked, the rest raises, and nobody tracks the order.           *)
SubmitFails(g) ==
  /\ g \in submitting
  /\ \/ "query" \in Faults /\ UNCHANGED <<held, slipped>>
     \/ g = Exit /\ Unread(g) > held /\ held' = 0 /\ slipped' = slipped + held
  /\ submitting' = submitting \ {g}
  /\ UNCHANGED <<venueVars, mem, tracked, bookVars, settling, pollVars>>

----------------------------------------------------------------------------
(* The poll: first every working order is read and its fills are booked.   *)
Polled == {id \in Ids : Tracked(id[1])}

LockIgnored == TRUE
LockFree == poller = None

PollBegin(who) ==
  /\ LockFree
  /\ Undisturbed
  /\ who = "cycle" => settling # None
  /\ poller' = who
  /\ stage' = "sync"
  /\ queue' = Polled
  /\ UNCHANGED <<submitVars, venueVars, mem, held, tracked, bookVars, settling, targets>>

SyncSettled ==
  /\ stage = "sync" /\ queue # {}
  /\ ~IsOpen(mem[Foremost])
  /\ Done
  /\ UNCHANGED <<submitVars, venueVars, mem, held, tracked, bookVars, settling>>

(* Only orders with an expires_at end at their time: never a guard, and    *)
(* the sell only where a run says so.                                      *)
MayExpire(id) == id[2] = "order" /\ (id = Entry(Exit) => "expiry" \in Faults)

Unbooked(id) == venue[id].filled - mem[id].filled
Bookable(id) == IsSell(id) => Unbooked(id) <= held

Booked(id) == IF IsSell(id) THEN held - Unbooked(id) ELSE held + Unbooked(id)

(* execution.cancel: an order that is not working is left alone; for one   *)
(* that is, whatever the venue answers, it is over in memory.              *)
Cancel(id) ==
  IF IsOpen(mem[id])
  THEN /\ venue' = [venue EXCEPT ![id] = Ended(@)]
       /\ mem' = [mem EXCEPT ![id] = Ended(@)]
  ELSE UNCHANGED <<venue, mem>>

(* What the venue reports is booked.  Where the order reported is past its *)
(* time, a cancel follows: it leaves alone what fills in between, and its  *)
(* answer is not looked at, so those fills are never read.                 *)
Read ==
  /\ stage = "sync" /\ queue # {}
  /\ IsOpen(mem[Foremost])
  /\ Bookable(Foremost)
  /\ held' = Booked(Foremost)
  /\ mem' = [mem EXCEPT ![Foremost] = venue[Foremost]]
  /\ UNCHANGED <<submitVars, venueVars, tracked, bookVars, settling, poller, targets>>

SyncOrder ==
  /\ Read
  /\ queue' = queue \ {Foremost}
  /\ UNCHANGED stage

SyncExpired ==
  /\ Read
  /\ MayExpire(Foremost) /\ IsOpen(venue[Foremost])
  /\ stage' = "expire"
  /\ UNCHANGED queue

Expire ==
  /\ stage = "expire"
  /\ Cancel(Foremost)
  /\ stage' = "sync"
  /\ queue' = queue \ {Foremost}
  /\ UNCHANGED <<submitVars, stray, holding, held, tracked, bookVars, settling, poller, targets>>

(* The cancel raises, having taken effect or not, after a read that booked *)
(* nothing; after one that did, the fills are booked again (Execution).    *)
ExpireFails ==
  /\ stage = "sync" /\ queue # {}
  /\ "cancel" \in Faults
  /\ MayExpire(Foremost) /\ IsOpen(mem[Foremost])
  /\ venue[Foremost] = mem[Foremost]
  /\ venue' = [venue EXCEPT ![Foremost] = Ended(@)] \/ UNCHANGED venue
  /\ Raise
  /\ UNCHANGED <<stray, holding, mem, held>>

(* A sell of more than the ledger holds: the units that fit are booked,    *)
(* the next raises, and the monitor's copy stays as it was.                *)
SyncOversold ==
  /\ stage = "sync" /\ queue # {}
  /\ IsOpen(mem[Foremost])
  /\ ~Bookable(Foremost)
  /\ held' = 0
  /\ Raise
  /\ UNCHANGED <<venueVars, mem>>

SyncFails ==
  /\ stage = "sync" /\ queue # {}
  /\ IsOpen(mem[Foremost])
  /\ "query" \in Faults
  /\ Raise
  /\ UNCHANGED <<venueVars, mem, held>>

----------------------------------------------------------------------------
ComputeTargets ==
  /\ stage = "sync" /\ queue = {}
  /\ stage' = "maintain"
  /\ targets' = [g \in Entries |-> IF g \in Protectable THEN Target(g) ELSE 0]
  /\ queue' = {id \in Polled : id[2] = "guard"}
  /\ slipped' = 0
  /\ UNCHANGED <<submitting, venueVars, mem, held, tracked, bookVars, settling, poller>>

----------------------------------------------------------------------------
(* _maintain, for the group at the head of the queue.                      *)
Maintaining(g) == stage = "maintain" /\ queue # {} /\ Guard(g) = Foremost

(* The target moved, or the guard vanished while something is to guard. *)
TargetMoved(g) == targets[g] # requested[g]
NeedsNewLegs(g) ==
  targets[g] # requested[g] \/ (targets[g] > 0 /\ Remaining(mem[Guard(g)]) = 0)

Replaces(g) == ~Closing(g) /\ targets[g] # refused[g] /\ NeedsNewLegs(g)

Leave(g) ==
  /\ Maintaining(g)
  /\ ~Closing(g) /\ ~Replaces(g)
  /\ Done
  /\ UNCHANGED <<submitVars, venueVars, mem, held, tracked, bookVars, settling>>

(* _close_group: the guard has filled, what is left of the entry goes. *)
CloseGroup(g) ==
  /\ Maintaining(g)
  /\ Closing(g)
  /\ Cancel(Entry(g))
  /\ Done
  /\ UNCHANGED <<submitVars, stray, holding, held, tracked, bookVars, settling>>

Release(g) ==
  /\ Maintaining(g)
  /\ Replaces(g) /\ targets[g] = 0
  /\ Cancel(Guard(g))
  /\ requested' = [requested EXCEPT ![g] = 0]
  /\ refused' = [refused EXCEPT ![g] = None]
  /\ Done
  /\ UNCHANGED <<submitVars, stray, holding, held, tracked, settling>>

RefuseTarget(g) ==
  /\ Maintaining(g)
  /\ Replaces(g) /\ targets[g] \in 1..(MinLeg - 1)
  /\ Cancel(Guard(g))
  /\ requested' = [requested EXCEPT ![g] = 0]
  /\ refused' = [refused EXCEPT ![g] = targets[g]]
  /\ Done
  /\ UNCHANGED <<submitVars, stray, holding, held, tracked, settling>>

CancelForResize(g) ==
  /\ Maintaining(g)
  /\ Replaces(g) /\ targets[g] >= MinLeg
  /\ Cancel(Guard(g))
  /\ requested' = [requested EXCEPT ![g] = 0]
  /\ stage' = "place"
  /\ UNCHANGED <<submitVars, stray, holding, held, tracked, refused, settling, poller, queue, targets>>

(* The cancel raises, having taken effect or not. *)
CancelFails(g) ==
  /\ Maintaining(g)
  /\ "cancel" \in Faults
  /\ \E id \in {Entry(g), Guard(g)} :
       /\ IsOpen(mem[id])
       /\ IF id = Entry(g) THEN Closing(g) ELSE Replaces(g)
       /\ venue' = [venue EXCEPT ![id] = Ended(@)] \/ UNCHANGED venue
  /\ Raise
  /\ UNCHANGED <<stray, holding, mem, held>>

----------------------------------------------------------------------------
(* submit_group, or submit where the venue links no legs.                  *)
Placing(g) == stage = "place" /\ Guard(g) = Foremost
Accepts(g) == targets[g] <= Free

PlaceGuard(g) ==
  /\ Placing(g)
  /\ Accepts(g)
  /\ stray' = [stray EXCEPT ![g] = @ + Remaining(venue[Guard(g)])]
  /\ venue' = [venue EXCEPT ![Guard(g)] = Placed(targets[g])]
  /\ stage' = "confirm"
  /\ UNCHANGED <<submitVars, holding, mem, held, tracked, bookVars, settling, poller, queue, targets>>

(* Refused by the venue.  submit records the rejection and returns it;     *)
(* submit_group does not look at the answer, records SUBMITTED, and the    *)
(* query that follows finds nothing: from SUBMITTED there is no FAILED, so *)
(* the lifecycle raises.                                                   *)
RejectSingle(g) ==
  /\ Placing(g)
  /\ ~Accepts(g) /\ ~Linked
  /\ mem' = [mem EXCEPT ![Guard(g)] = Ended(Placed(targets[g]))]
  /\ requested' = [requested EXCEPT ![g] = targets[g]]
  /\ refused' = [refused EXCEPT ![g] = None]
  /\ stage' = "maintain"
  /\ queue' = queue \ {Foremost}
  /\ UNCHANGED <<submitVars, venueVars, held, tracked, settling, poller, targets>>

RejectLinked(g) ==
  /\ Placing(g)
  /\ ~Accepts(g) /\ Linked
  /\ Raise
  /\ UNCHANGED <<venueVars, mem, held>>

(* A failure that says for certain that nothing was placed. *)
PlaceFails(g) ==
  /\ Placing(g)
  /\ "definite" \in Faults
  /\ Raise
  /\ UNCHANGED <<venueVars, mem, held>>

(* The query that ends the submit: what it reports is tracked. *)
Confirm(g) ==
  /\ stage = "confirm" /\ Guard(g) = Foremost
  /\ venue[Guard(g)].filled <= held
  /\ mem' = [mem EXCEPT ![Guard(g)] = venue[Guard(g)]]
  /\ held' = held - venue[Guard(g)].filled
  /\ requested' = [requested EXCEPT ![g] = targets[g]]
  /\ refused' = [refused EXCEPT ![g] = None]
  /\ stage' = "maintain"
  /\ queue' = queue \ {Foremost}
  /\ UNCHANGED <<submitVars, venueVars, tracked, settling, poller, targets>>

ConfirmFails(g) ==
  /\ stage = "confirm" /\ Guard(g) = Foremost
  /\ \/ "query" \in Faults /\ UNCHANGED held
     \/ venue[Guard(g)].filled > held /\ held' = 0
  /\ Raise
  /\ UNCHANGED <<venueVars, mem>>

(* A cycle then prunes its own group if neither its entry nor its guard is *)
(* working: whatever the group still had to guard is no longer looked at.  *)
Settled(g) == ~IsOpen(mem[Entry(g)]) /\ ~IsOpen(mem[Guard(g)])

Prune(g) ==
  /\ tracked' = RemoveAt(tracked, Position(g))
  /\ mem' = [id \in Ids |-> IF id[1] = g THEN NoOrder ELSE mem[id]]
  /\ requested' = [requested EXCEPT ![g] = 0]
  /\ refused' = [refused EXCEPT ![g] = None]

PollEnd ==
  /\ stage = "maintain" /\ queue = {}
  /\ poller' = None
  /\ stage' = "rest"
  /\ targets' = NoTargets
  /\ IF poller = "cycle" /\ Settled(settling)
     THEN Prune(settling)
     ELSE UNCHANGED <<tracked, mem, bookVars>>
  /\ settling' = IF poller = "cycle" THEN None ELSE settling
  /\ UNCHANGED <<submitVars, venueVars, held, queue>>

----------------------------------------------------------------------------
MaintainStep(g) ==
  \/ Leave(g) \/ CloseGroup(g) \/ Release(g) \/ RefuseTarget(g) \/ CancelForResize(g)
  \/ CancelFails(g)
  \/ PlaceGuard(g) \/ RejectSingle(g) \/ RejectLinked(g) \/ PlaceFails(g)
  \/ Confirm(g) \/ ConfirmFails(g)

PollStep ==
  \/ SyncSettled \/ SyncOrder \/ SyncExpired \/ Expire \/ ExpireFails
  \/ SyncOversold \/ SyncFails
  \/ ComputeTargets
  \/ \E g \in Entries : MaintainStep(g)
  \/ PollEnd

Next ==
  \/ \E g \in Groups : EntryFills(g)
  \/ \E g \in Entries : GuardFills(g) \/ GuardWithdrawn(g) \/ Enter(g)
  \/ Sell
  \/ \E g \in Groups : Submitted(g) \/ SubmitFails(g)
  \/ \E who \in {"sweep", "cycle"} : PollBegin(who)
  \/ PollStep

Spec == Init /\ [][Next]_vars

(* The supervisor's sweep comes round for ever, the monitor's lock is      *)
(* first come first served, and a poll or a submit that can go on goes on. *)
Fairness ==
  /\ \A g \in Groups : WF_vars(Submitted(g) \/ SubmitFails(g))
  /\ \A who \in {"sweep", "cycle"} : SF_vars(PollBegin(who))
  /\ WF_vars(PollStep)

FairSpec == Spec /\ Fairness

----------------------------------------------------------------------------
Order ==
  {order \in [state : {"none", "open", "filled", "cancelled"}, qty : Nat, filled : Nat] :
     order.filled <= order.qty /\ (IsOpen(order) => order.filled < order.qty)}

TypeOK ==
  /\ submitting \subseteq Groups
  /\ slipped \in Nat
  /\ venue \in [Ids -> Order] /\ mem \in [Ids -> Order]
  /\ stray \in [Entries -> Nat]
  /\ holding \in Int /\ held \in Nat
  /\ tracked \in Seq(Groups) /\ IsInjective(tracked)
  /\ requested \in [Entries -> Nat]
  /\ refused \in [Entries -> Nat \cup {None}]
  /\ settling \in Entries \cup {None}
  /\ poller \in {None, "sweep", "cycle"}
  /\ stage \in {"rest", "sync", "expire", "maintain", "place", "confirm"}
  /\ queue \subseteq Ids
  /\ targets \in [Entries -> Nat]

(* A poll that runs to its end leaves guards, over all the groups of the   *)
(* instrument, for no more than the ledger holds: however the holding was  *)
(* reduced, and whichever groups grew while others shrank (_targets).      *)
(* Only the fills that another task's submit has booked since the targets  *)
(* were computed may be missing from it, and to the unit.                  *)
Guarded == Total([g \in Entries |-> Remaining(mem[Guard(g)])], Entries)
PollFits ==
  [][stage = "maintain" /\ queue = {} => Guarded <= held + slipped]_vars

(* What _targets says of itself, without that exception: the sum over one  *)
(* instrument's groups never exceeds the holding.                          *)
NeverOverHeld == stage = "maintain" /\ queue = {} => Guarded <= held

(* A guard that rests at the venue is one the monitor tracks as working,   *)
(* and the only one of its group: no second set of legs for one entry, and *)
(* none that nobody would resize or cancel (ExecutionMonitor._polling).    *)
GuardsOwned ==
  \A g \in Entries :
    /\ stray[g] = 0
    /\ IsOpen(venue[Guard(g)]) =>
         IsOpen(mem[Guard(g)]) \/ (stage = "confirm" /\ Guard(g) = Foremost)

(* Once its guard has filled at the venue a group is never armed again:    *)
(* what it bought is sold, and a new guard would sell what others bought.  *)
NeverRearmed ==
  [][\A g \in Entries : venue[Guard(g)].state = "filled" => venue'[Guard(g)].state = "filled"]_vars

(* Once withdrawals and failing placings stop, in the end the venue guards    *)
(* all that the ledger holds and that is not up for sale; and the ledger   *)
(* holds what is held, unless fills came between a read and the cancel     *)
(* that followed it (ExecutionMonitor._maintain, _needs_new_legs).  Two    *)
(* findings stay out: a ledger asked to book a sell of more than it holds, *)
(* and a cycle that forgets a group whose guard is gone but was wanted.    *)
FailuresStop == <>[][~ \E g \in Entries : GuardWithdrawn(g) \/ PlaceFails(g)]_vars

Oversells ==
  \/ stage = "sync" /\ queue # {} /\ IsOpen(mem[Foremost]) /\ ~Bookable(Foremost)
  \/ Exit \in submitting /\ Unread(Exit) > held
Abandons ==
  /\ poller = "cycle" /\ stage = "maintain" /\ queue = {} /\ Settled(settling)
  /\ targets[settling] > 0 /\ ~Closing(settling)
Missed(id) == mem[id].state = "cancelled" /\ venue[id].filled > mem[id].filled

Covered ==
  Total([g \in Entries |-> Remaining(venue[Guard(g)])], Entries)
    = AtLeastZero(held - Remaining(venue[Entry(Exit)]))

EventuallyCovered ==
  FailuresStop /\ [](~Oversells /\ ~Abandons) =>
    /\ <>[]Covered
    /\ [](\A id \in Ids : ~Missed(id)) => <>[](held = holding)

=============================================================================
