--------------------------- MODULE Reconciliation ---------------------------
(***************************************************************************)
(* Startup against a real venue: the ledger is rebuilt from the event log, *)
(* compared with what the venue reports, and every difference is           *)
(* classified; the classification decides what is logged, what the ledger  *)
(* adopts, and whether the process trades or stays halted                  *)
(* (ledger/reconciler.py, ledger/portfolio.py, control/startup.py).        *)
(*                                                                         *)
(* One instrument bought with one currency at the price of one unit, so a  *)
(* position and the cash it cost are counted alike.  The venue moves at    *)
(* any time: it executes our one working order, and people outside deposit, *)
(* withdraw and trade by hand.                                             *)
(***************************************************************************)
EXTENDS Integers

CONSTANTS VenueAtFirst,  \* holdings the venue may have when first connected
          DriftPct,      \* the drift tolerance, in percent
          MaxSize,       \* bound: units in one order
          MaxOrders,     \* bound: orders placed
          MaxOutside,    \* bound: changes made by others
          MaxCrashes     \* bound: times the process dies

Holdings == [qty : Nat, cash : Nat]

ASSUME VenueAssumption == VenueAtFirst \subseteq Holdings
ASSUME DriftAssumption == DriftPct \in 0..99
ASSUME BoundsAssumption ==
  /\ MaxSize \in Nat /\ MaxOrders \in Nat /\ MaxOutside \in Nat /\ MaxCrashes \in Nat

VARIABLES
  venue,      \* what the venue holds for the account
  announced,  \* the venue announces a split that has taken effect
  order,      \* the working order: executed at the venue, booked by us
  log,        \* what the events add up to
  ledger,     \* the holdings in memory
  adjusted,   \* external flows the drawdown baselines have been moved by
  phase,      \* where the process is
  snap,       \* the account as startup read it
  verdict,    \* the classification of the report
  flow,       \* cash flow of the report that is not yet in the baselines
  orders, outside, crashes,  \* counters for the bounds
  lost,       \* history: flows logged by a startup that died before recording them
  known,      \* history: at the read every execution was booked; nobody moved funds since
  settled     \* history: a startup came up and nobody moved funds since

process == <<ledger, phase, snap, verdict, flow>>
history == <<lost, known, settled>>
counters == <<orders, outside, crashes>>
vars == <<venue, announced, order, log, adjusted, process, counters, history>>

Sides == {"buy", "sell"}
Phases == {"down", "replayed", "read", "published", "flowing", "deciding",
           "resolving", "up", "halted"}
Classes == {"match", "drift", "external", "corporate", "reset", "mismatch"}

\* A real venue's ledger opens empty; what is there is discovered.
Opening == [qty |-> 0, cash |-> 0, phantom |-> 0]
NoOrder == [side |-> "buy", size |-> 0, done |-> 0, booked |-> 0]

\* What n executed units of a side add to a position, and take from the cash.
Signed(side, n) == IF side = "buy" THEN n ELSE -n
Unbooked == Signed(order.side, order.done - order.booked)

-----------------------------------------------------------------------------
(* The classification of one line of the diff, and of the report. *)

\* The explanations in the order they are tried; the first that fits holds.
Classified(ours, theirs, action) ==
  IF theirs = ours THEN "match"
  ELSE IF action /\ ours > 0 /\ theirs = 2 * ours THEN "corporate"
  ELSE IF theirs < ours /\ ours > 0 /\ 100 * (ours - theirs) <= DriftPct * ours THEN "drift"
  ELSE IF theirs > ours THEN "external"
  ELSE "mismatch"

Severity == [match |-> 0, drift |-> 1, external |-> 2, corporate |-> 3, reset |-> 4,
             mismatch |-> 5]

Position == Classified(ledger.qty, snap.qty, announced)
Cash     == Classified(ledger.cash, snap.cash, FALSE)
Phantom  == Classified(ledger.phantom, 0, FALSE)

\* Holdings under the instrument's own key, all gone at the venue.
VenueReset == /\ ledger.qty > 0 \/ ledger.phantom > 0
              /\ snap.qty = 0

PositionOnly == IF VenueReset THEN "reset" ELSE Position

\* The worst line speaks for the whole report.
Verdict ==
  IF VenueReset THEN "reset"
  ELSE CHOOSE worst \in {Position, Cash, Phantom} :
         \A other \in {Position, Cash, Phantom} : Severity[other] <= Severity[worst]

Clean(class) == class \in {"match", "drift", "external"}

\* The deposit or withdrawal the report finds: an increase of the cash.
FlowFound == IF Cash = "external" THEN snap.cash - ledger.cash ELSE 0

-----------------------------------------------------------------------------
Init ==
  /\ venue \in VenueAtFirst
  /\ announced = FALSE
  /\ order = NoOrder
  /\ log = [qty |-> 0, cash |-> 0, phantom |-> 0, flows |-> 0, broken |-> FALSE]
  /\ ledger = Opening
  /\ adjusted = 0
  /\ phase = "down"
  /\ snap = [qty |-> 0, cash |-> 0]
  /\ verdict = "match"
  /\ flow = 0
  /\ orders = 0 /\ outside = 0 /\ crashes = 0
  /\ lost = 0 /\ known = FALSE /\ settled = FALSE

(***************************************************************************)
(* Startup.                                                                *)
(***************************************************************************)

\* The log is replayed into the ledger.  A sell the replayed position cannot
\* cover stops the replay, and startup with it.
Replay ==
  /\ phase = "down"
  /\ IF log.broken
     THEN phase' = "halted" /\ ledger' = Opening
     ELSE /\ phase' = "replayed"
          /\ ledger' = [qty |-> log.qty, cash |-> log.cash, phantom |-> log.phantom]
  /\ UNCHANGED <<venue, announced, order, log, adjusted, snap, verdict, flow, counters, history>>

\* The venue cannot be read: startup stops there, with a reason.
Unreachable ==
  /\ phase = "replayed"
  /\ phase' = "halted"
  /\ settled' = FALSE
  /\ UNCHANGED <<venue, announced, order, log, adjusted, ledger, snap, verdict, flow,
                 counters, lost, known>>

Read ==
  /\ phase = "replayed"
  /\ phase' = "read"
  /\ snap' = venue
  /\ known' = (Unbooked = 0)
  /\ UNCHANGED <<venue, announced, order, log, adjusted, ledger, verdict, flow, counters,
                 lost, settled>>

\* Every increase is logged as an external change, whatever the verdict on the
\* whole report: the cash under its currency, the position under the
\* instrument's key, which a replay takes for a currency too.
Publish ==
  /\ phase = "read"
  /\ phase' = "published"
  /\ verdict' = Verdict
  /\ flow' = FlowFound
  /\ log' = [log EXCEPT
       !.cash = @ + FlowFound,
       !.flows = @ + FlowFound,
       !.phantom = @ + IF Position = "external" THEN snap.qty - ledger.qty ELSE 0]
  /\ UNCHANGED <<venue, announced, order, adjusted, ledger, snap, counters, history>>

AdoptedIfClean == IF Clean(verdict)
                  THEN [ledger EXCEPT !.qty = snap.qty, !.cash = @ + flow]
                  ELSE ledger

\* A clean report replaces the position by the venue's; the cash moves by the
\* flow, clean or not, and by nothing else.
Adopted == [ledger EXCEPT !.qty = IF Clean(verdict) THEN snap.qty ELSE @,
                          !.cash = @ + flow]

Adopt ==
  /\ phase = "published"
  /\ phase' = "flowing"
  /\ ledger' = Adopted
  /\ UNCHANGED <<venue, announced, order, log, adjusted, snap, verdict, flow, counters, history>>

MovedIfClean == IF Clean(verdict) THEN adjusted + flow ELSE adjusted

\* The drawdown baselines, moved by the flow of any report.
Moved == adjusted + flow

RecordFlow ==
  /\ phase = "flowing"
  /\ phase' = "deciding"
  /\ adjusted' = Moved
  /\ flow' = 0
  /\ UNCHANGED <<venue, announced, order, log, ledger, snap, verdict, counters, history>>

Decide ==
  /\ phase = "deciding"
  /\ phase' = IF Clean(verdict) THEN "resolving" ELSE "halted"
  /\ UNCHANGED <<venue, announced, order, log, adjusted, ledger, snap, verdict, flow,
                 counters, history>>

\* The open orders of the database are resolved: every execution is booked.
Resolved ==
  /\ phase = "resolving"
  /\ Unbooked = 0
  /\ phase' = "up"
  /\ settled' = TRUE
  /\ UNCHANGED <<venue, announced, order, log, adjusted, ledger, snap, verdict, flow,
                 counters, lost, known>>

Unchecked == TRUE

\* The ledger refuses to sell more than it holds.
Covered == order.side = "sell" => ledger.qty >= 1

\* A sell the ledger cannot cover is refused, and startup fails on it.
ResolveFails ==
  /\ phase = "resolving"
  /\ Unbooked # 0 /\ ~Covered
  /\ phase' = "halted"
  /\ UNCHANGED <<venue, announced, order, log, adjusted, ledger, snap, verdict, flow,
                 counters, history>>

(***************************************************************************)
(* Trading, and the venue.                                                 *)
(***************************************************************************)

\* One execution enters the ledger and the log, at startup or from the monitor.
Book ==
  /\ phase \in {"resolving", "up"}
  /\ Unbooked # 0
  /\ Covered
  /\ LET one == Signed(order.side, 1) IN
       /\ ledger' = [ledger EXCEPT !.qty = @ + one, !.cash = @ - one]
       /\ log' = [log EXCEPT !.qty = @ + one, !.cash = @ - one,
                             !.broken = @ \/ (order.side = "sell" /\ log.qty < 1)]
  /\ order' = [order EXCEPT !.booked = @ + 1]
  /\ UNCHANGED <<venue, announced, adjusted, phase, snap, verdict, flow, counters, history>>

\* Only after the last order is over: one working order at a time.
Place(side, size) ==
  /\ phase = "up"
  /\ orders < MaxOrders
  /\ order.booked = order.size
  /\ size <= IF side = "buy" THEN ledger.cash ELSE ledger.qty
  /\ order' = [side |-> side, size |-> size, done |-> 0, booked |-> 0]
  /\ orders' = orders + 1
  /\ UNCHANGED <<venue, announced, log, adjusted, process, outside, crashes, history>>

Execute ==
  /\ order.done < order.size
  /\ LET one == Signed(order.side, 1) IN
       /\ venue.qty + one >= 0 /\ venue.cash - one >= 0
       /\ venue' = [venue EXCEPT !.qty = @ + one, !.cash = @ - one]
  /\ order' = [order EXCEPT !.done = @ + 1]
  /\ UNCHANGED <<announced, log, adjusted, process, counters, history>>

\* A deposit or a withdrawal of cash or coins, a fee, a trade by hand.
Outside(coins, cash) ==
  /\ outside < MaxOutside
  /\ venue.qty + coins >= 0 /\ venue.cash + cash >= 0
  /\ venue' = [qty |-> venue.qty + coins, cash |-> venue.cash + cash]
  /\ outside' = outside + 1
  /\ known' = FALSE /\ settled' = FALSE
  /\ UNCHANGED <<announced, order, log, adjusted, process, orders, crashes, lost>>

\* A two-for-one split, announced; in time the announcement is too old to count.
Split ==
  /\ outside < MaxOutside
  /\ ~announced
  /\ venue' = [venue EXCEPT !.qty = 2 * @]
  /\ announced' = TRUE
  /\ outside' = outside + 1
  /\ known' = FALSE /\ settled' = FALSE
  /\ UNCHANGED <<order, log, adjusted, process, orders, crashes, lost>>

Forget ==
  /\ announced
  /\ announced' = FALSE
  /\ UNCHANGED <<venue, order, log, adjusted, process, counters, history>>

\* The process dies, or an operator stops it: its memory is gone.
Crash ==
  /\ phase # "down"
  /\ crashes < MaxCrashes
  /\ phase' = "down"
  /\ ledger' = Opening
  /\ snap' = [qty |-> 0, cash |-> 0]
  /\ verdict' = "match"
  /\ flow' = 0
  /\ crashes' = crashes + 1
  /\ lost' = lost + flow
  /\ UNCHANGED <<venue, announced, order, log, adjusted, orders, outside, known, settled>>

Startup == Replay \/ Unreachable \/ Read \/ Publish \/ Adopt \/ RecordFlow \/ Decide
           \/ Resolved \/ ResolveFails

Venue == Execute \/ Split \/ Forget \/ \E coins, cash \in {-1, 0, 1} : Outside(coins, cash)

Trading == Book \/ \E side \in Sides, size \in 1..MaxSize : Place(side, size)

Next == Startup \/ Trading \/ Venue \/ Crash

Spec == Init /\ [][Next]_vars

-----------------------------------------------------------------------------
TypeOK ==
  /\ venue \in Holdings
  /\ announced \in BOOLEAN
  /\ order \in [side : Sides, size : Nat, done : Nat, booked : Nat]
  /\ log \in [qty : Int, cash : Int, phantom : Int, flows : Int, broken : BOOLEAN]
  /\ ledger \in [qty : Nat, cash : Int, phantom : Int]
  /\ adjusted \in Int
  /\ phase \in Phases
  /\ snap \in Holdings
  /\ verdict \in Classes
  /\ flow \in Int
  /\ orders \in Nat /\ outside \in Nat /\ crashes \in Nat
  /\ lost \in Int /\ known \in BOOLEAN /\ settled \in BOOLEAN

\* The cash a running process works with is the cash a replay of its log would
\* give, but for the flow of a report that is logged and not yet applied: the
\* reconciler never moves cash without an event that survives a restart, and a
\* report that is not clean leaves no half of a flow behind.
CashFollowsLog ==
  phase # "down" /\ ~log.broken =>
    ledger.cash + (IF phase = "published" THEN flow ELSE 0) = log.cash

\* Every external flow in the log moves the drawdown baselines exactly once,
\* over any number of startups, clean and halted, unless the startup that
\* logged it died before it recorded it.
FlowsOnce == adjusted + flow + lost = log.flows

\* A process that came up, having read the venue with every execution booked and
\* nobody else trading since, holds the venue's position, less the executions it
\* has yet to book, and its cash exceeds the venue's by no more than the drift
\* tolerance: an adopted position is not counted again when its order is booked.
BooksAgree ==
  phase \in {"resolving", "up"} /\ known =>
    LET gap == ledger.cash - (venue.cash + Unbooked) IN
      /\ ledger.qty = venue.qty - Unbooked
      /\ gap >= 0
      /\ 100 * gap <= DriftPct * (ledger.cash + ledger.qty)

\* "`replay` rebuilds the whole ledger from the event log" (ledger/portfolio.py):
\* a process that came up once comes up again, if nobody moved the account's
\* funds in the meantime and the venue can be read.
HaltsOnlyForAReason == phase = "halted" => ~settled
=============================================================================
