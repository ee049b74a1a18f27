----------------------------- MODULE Admission -----------------------------
(***************************************************************************)
(* From a decision to an order.  A basket's cycle takes the panel's        *)
(* decisions one after another, and an operator closes positions by hand;  *)
(* each proposal reads the ledger and the history, passes the rules of     *)
(* both tiers, and is recorded and sent several awaits later.  Baskets     *)
(* cycle concurrently over one portfolio, and an order rests long after    *)
(* its cycle (control/basket_runner.py, control/manual_close.py,           *)
(* risk/tier1.py, risk/tier2.py, ledger/history.py).                       *)
(*                                                                         *)
(* A unit costs one and prices stand still, so equity and every ceiling    *)
(* derived from it are constants, in units.                                *)
(***************************************************************************)
EXTENDS Integers, FiniteSets, FiniteSetsExt, Functions

CONSTANTS
  None,              \* no instrument
  Baskets, Closers,  \* the baskets that cycle; the operator's requests to close
  Listed,            \* Listed[b]: the instruments of b
  Bucket,            \* Bucket[i]: the correlation bucket of i
  Ceiling,           \* position, basket, order, gross, instrument, cluster
  MinQty,            \* the venue's minimum
  MaxPerHour, MaxPerDay, Cooldown, MaxLosses,  \* the metering rules
  MaxHeld,           \* bound: units of an instrument held at first
  MaxPlaced          \* bound: orders placed

Actors == Baskets \cup Closers
Instruments == UNION {Listed[b] : b \in Baskets}

\* An instrument belongs to exactly one basket (ADR 0026, store_basket).
ASSUME ListedAssumption ==
  /\ IsFiniteSet(Baskets) /\ Baskets # {} /\ IsFiniteSet(Closers)
  /\ \A b \in Baskets : IsFiniteSet(Listed[b])
  /\ None \notin Instruments
  /\ Baskets \cap Closers = {}
  /\ \A b, c \in Baskets : b # c => Listed[b] \cap Listed[c] = {}
ASSUME LimitsAssumption ==
  /\ Ceiling \in [{"position", "basket", "order", "gross", "instrument", "cluster"} -> Nat]
  /\ MinQty \in Nat \ {0}
  /\ MaxPerHour \in Nat /\ MaxPerDay \in Nat /\ Cooldown \in Nat /\ MaxLosses \in Nat \ {0}
  /\ MaxHeld \in Nat /\ MaxPlaced \in Nat

VARIABLES
  held,     \* the ledger's positions
  rest,     \* rest[i][side]: units sent and not yet booked or gone
  hour,     \* orders in the trailing hour, of cycles and by hand
  day,      \* day[b]: orders today, of cycles and by hand
  since,    \* since[i]: cycles completed since i last traded, up to Cooldown; -1 when
            \* it traded in the cycle under way, whose completion does not count
  losses,   \* losses[b]: losing round trips in a row, up to MaxLosses
  halted,   \* the baskets with a persisted halt
  stage,    \* where each actor is
  left,     \* left[b]: decisions the cycle has still to act on
  order,    \* order[a]: the order in hand; for a close, what was held when it was asked
  placed    \* counts the orders, for the bound

meters == <<hour, day, since>>
actors == <<stage, left, order>>
vars == <<held, rest, meters, losses, halted, actors, placed>>

Sides == {"buy", "sell"}
BasketOf(i) == CHOOSE b \in Baskets : i \in Listed[b]
NoOrder == [inst |-> None, side |-> "buy", qty |-> 0]
Busy(a) == stage[a] \in {"admitted", "sending"}
InHand == [a \in Actors |-> order[a].qty]

Init ==
  /\ held \in [Instruments -> 0..MaxHeld]
  /\ rest = [i \in Instruments |-> [side \in Sides |-> 0]]
  /\ hour = [cycle |-> 0, hand |-> 0]
  /\ day = [b \in Baskets |-> [cycle |-> 0, hand |-> 0]]
  /\ since = [i \in Instruments |-> Cooldown]
  /\ losses = [b \in Baskets |-> 0]
  /\ halted = {}
  /\ stage = [a \in Actors |-> "idle"]
  /\ left = [b \in Baskets |-> {}]
  /\ order = [a \in Actors |-> NoOrder]
  /\ placed = 0

----------------------------------------------------------------------------
(* The rules.  A proposal is what was read when it was built.              *)

Exposure(instruments) == SumFunctionOnSet(held, instruments)
GrossOfOneBasket(i) == Exposure(Listed[BasketOf(i)])
Gross(i) == Exposure(Instruments)
InBucket(i) == {j \in Instruments : Bucket[j] = Bucket[i]}

Proposal(i, side, want, position, byHand) ==
  [inst |-> i, side |-> side, want |-> want, position |-> position, byHand |-> byHand,
   basket |-> Exposure(Listed[BasketOf(i)]), gross |-> Gross(i),
   cluster |-> Exposure(InBucket(i)),
   placedToday |-> day[BasketOf(i)].cycle + day[BasketOf(i)].hand,
   placedInHour |-> hour.cycle + hour.hand,
   since |-> since[i], losses |-> losses[BasketOf(i)]]

OperatorExit(p) == p.byHand /\ p.side = "sell" /\ p.position > 0

LossesPaused(p) == ~OperatorExit(p) /\ p.losses >= MaxLosses
DayIsSpent(p) == ~OperatorExit(p) /\ p.placedToday >= MaxPerDay
HourJustSpent(p) == ~OperatorExit(p) /\ p.placedInHour > MaxPerHour
HourIsSpent(p) == ~OperatorExit(p) /\ p.placedInHour >= MaxPerHour
CoolingDown(p) == ~OperatorExit(p) /\ Max({p.since, 0}) < Cooldown

Caps(p) ==
  IF p.side = "sell" THEN {p.position, Ceiling.order}
  ELSE {Ceiling.position - p.position, Ceiling.basket - p.basket, Ceiling.order,
        Ceiling.gross - p.gross, Ceiling.instrument - p.position,
        Ceiling.cluster - p.cluster}

\* A size below the venue's minimum is a veto, never a token order.
Size(p) == Min({p.want} \cup Caps(p))
Admitted(p) ==
  /\ ~LossesPaused(p) /\ ~CoolingDown(p) /\ ~DayIsSpent(p) /\ ~HourIsSpent(p)
  /\ Size(p) >= MinQty

----------------------------------------------------------------------------
(* A cycle of a basket.                                                    *)

\* A cycle starts: the gate passes, the snapshot is taken and the panel decides.  One that
\* the gate blocks (the switch, a halt, a portfolio without a value), whose data is stale,
\* or whose basket is quarantined has nothing to act on, and completes.
Start(b) ==
  /\ stage[b] = "idle" /\ b \notin halted
  /\ left' \in {[left EXCEPT ![b] = actionable] : actionable \in SUBSET Listed[b]}
  /\ stage' = [stage EXCEPT ![b] = "deciding"]
  /\ UNCHANGED <<held, rest, meters, losses, halted, order, placed>>

\* A completed cycle counts for every cooldown that began before it did.
Completed(b) ==
  [i \in Instruments |-> IF i \in Listed[b] THEN Min({since[i] + 1, Cooldown}) ELSE since[i]]

Admit(a, p) ==
  /\ Admitted(p)
  /\ placed + Cardinality({c \in Actors : stage[c] = "admitted"}) < MaxPlaced
  /\ order' = [order EXCEPT ![a] = [inst |-> p.inst, side |-> p.side, qty |-> Size(p)]]
  /\ stage' = [stage EXCEPT ![a] = "admitted"]

\* The size is the volatility's or the size hint's: any.
Propose(b) ==
  /\ stage[b] = "deciding"
  /\ \E i \in left[b], side \in Sides :
       \E want \in 1..(IF side = "sell" THEN held[i] ELSE Ceiling.position) :
         Admit(b, Proposal(i, side, want, held[i], FALSE))
  /\ UNCHANGED <<held, rest, meters, losses, halted, left, placed>>

\* Some rule declines it: no trade, and the next decision.
Decline(b) ==
  /\ stage[b] = "deciding"
  /\ \E i \in left[b] : left' = [left EXCEPT ![b] = @ \ {i}]
  /\ UNCHANGED <<held, rest, meters, losses, halted, stage, order, placed>>

\* The rule of the loss streak does, and the basket is halted; the cycle goes on.
AutoPause(b) ==
  /\ stage[b] = "deciding"
  /\ \E i \in left[b], side \in Sides :
       /\ side = "sell" => held[i] > 0
       /\ LossesPaused(Proposal(i, side, held[i], held[i], FALSE))
       /\ left' = [left EXCEPT ![b] = @ \ {i}]
  /\ halted' = halted \cup {b}
  /\ UNCHANGED <<held, rest, meters, losses, stage, order, placed>>

\* Settled: one poll, and what has not filled rests on without the cycle.
Finish(b) ==
  /\ stage[b] = "deciding" /\ left[b] = {}
  /\ stage' = [stage EXCEPT ![b] = "idle"]
  /\ since' = Completed(b)
  /\ UNCHANGED <<held, rest, hour, day, losses, halted, left, order, placed>>

----------------------------------------------------------------------------
(* Closing by hand.  What is held is read before the quote is awaited.     *)

Request(c) ==
  /\ stage[c] = "idle"
  /\ \E i \in Instruments :
       /\ held[i] > 0
       /\ order' = [order EXCEPT ![c] = [inst |-> i, side |-> "sell", qty |-> held[i]]]
  /\ stage' = [stage EXCEPT ![c] = "quoting"]
  /\ UNCHANGED <<held, rest, meters, losses, halted, left, placed>>

Exit(c) == Proposal(order[c].inst, "sell", order[c].qty, order[c].qty, TRUE)

ProposeClose(c) ==
  /\ stage[c] = "quoting"
  /\ Admit(c, Exit(c))
  /\ UNCHANGED <<held, rest, meters, losses, halted, left, placed>>

VetoClose(c) ==
  /\ stage[c] = "quoting"
  /\ ~Admitted(Exit(c))
  /\ stage' = [stage EXCEPT ![c] = "idle"]
  /\ order' = [order EXCEPT ![c] = NoOrder]
  /\ UNCHANGED <<held, rest, meters, losses, halted, left, placed>>

\* The quote is stale, fails, or lies outside the collar.
Unpriced(c) ==
  /\ stage[c] = "quoting"
  /\ stage' = [stage EXCEPT ![c] = "idle"]
  /\ order' = [order EXCEPT ![c] = NoOrder]
  /\ UNCHANGED <<held, rest, meters, losses, halted, left, placed>>

----------------------------------------------------------------------------
(* Submitting, for both.                                                   *)

By(a) == IF a \in Baskets THEN "cycle" ELSE "hand"
Onward(a) == IF a \in Baskets THEN "deciding" ELSE "idle"
Acted(a) == IF a \in Baskets THEN [left EXCEPT ![a] = @ \ {order[a].inst}] ELSE left

\* Durable first: from here the history counts the order.
Record(a) ==
  /\ stage[a] = "admitted"
  /\ LET i == order[a].inst
         b == BasketOf(i)
     IN /\ hour' = [hour EXCEPT ![By(a)] = @ + 1]
        /\ day' = [day EXCEPT ![b][By(a)] = @ + 1]
        /\ since' = [since EXCEPT ![i] = IF stage[b] = "idle" THEN 0 ELSE -1]
  /\ stage' = [stage EXCEPT ![a] = "sending"]
  /\ placed' = placed + 1
  /\ UNCHANGED <<held, rest, losses, halted, left, order>>

Rests(a) == [rest EXCEPT ![order[a].inst][order[a].side] = @ + order[a].qty]

\* The venue has it; or a crossing order or the venue refused it.
Send(a) ==
  /\ stage[a] = "sending"
  /\ rest' \in {rest, Rests(a)}
  /\ stage' = [stage EXCEPT ![a] = Onward(a)]
  /\ left' = Acted(a)
  /\ order' = [order EXCEPT ![a] = NoOrder]
  /\ UNCHANGED <<held, meters, losses, halted, placed>>

Dropped(a) == IF a \in Baskets THEN [left EXCEPT ![a] = {}] ELSE left
\* An abandoned cycle counts for nothing.
Abandoned(gone) ==
  [i \in Instruments |-> IF BasketOf(i) \in gone THEN Max({since[i], 0}) ELSE since[i]]

\* A call raises: the cycle is abandoned and never completed, the request fails.
Raise(a) ==
  /\ stage[a] = "sending"
  /\ rest' \in {rest, Rests(a)}
  /\ stage' = [stage EXCEPT ![a] = "idle"]
  /\ order' = [order EXCEPT ![a] = NoOrder]
  /\ left' = Dropped(a) /\ since' = Abandoned({a})
  /\ UNCHANGED <<held, hour, day, losses, halted, placed>>

\* It raises uncertainty: the basket is halted and the cycle completed.
FailClosed(b) ==
  /\ stage[b] = "sending"
  /\ rest' \in {rest, Rests(b)}
  /\ stage' = [stage EXCEPT ![b] = "idle"]
  /\ order' = [order EXCEPT ![b] = NoOrder]
  /\ left' = Dropped(b)
  /\ since' = Completed(b)
  /\ halted' = halted \cup {b}
  /\ UNCHANGED <<held, hour, day, losses, placed>>

----------------------------------------------------------------------------
(* What becomes of the orders, and everybody else.                         *)

\* A fill is booked.  A sell that empties the position closes a round trip.
Book(i, side) ==
  /\ \E n \in 1..rest[i][side] :
       /\ side = "sell" => n <= held[i]
       /\ rest' = [rest EXCEPT ![i][side] = @ - n]
       /\ held' = [held EXCEPT ![i] = IF side = "sell" THEN @ - n ELSE @ + n]
  /\ \/ ~(side = "sell" /\ held'[i] = 0) /\ UNCHANGED losses
     \/ /\ side = "sell" /\ held'[i] = 0
        /\ losses' \in {[losses EXCEPT ![BasketOf(i)] = 0],
                        [losses EXCEPT ![BasketOf(i)] = Min({@ + 1, MaxLosses})]}
  /\ UNCHANGED <<meters, halted, actors, placed>>

Expire(i, side) ==
  /\ \E n \in 1..rest[i][side] : rest' = [rest EXCEPT ![i][side] = @ - n]
  /\ UNCHANGED <<held, meters, losses, halted, actors, placed>>

\* An order leaves the trailing hour; the day turns.
HourPasses ==
  /\ \E by \in {"cycle", "hand"} : hour[by] > 0 /\ hour' = [hour EXCEPT ![by] = @ - 1]
  /\ UNCHANGED <<held, rest, day, since, losses, halted, actors, placed>>

NewDay ==
  /\ day' = [b \in Baskets |-> [cycle |-> 0, hand |-> 0]]
  /\ UNCHANGED <<held, rest, hour, since, losses, halted, actors, placed>>

\* A human resumes the basket.
Resume(b) ==
  /\ b \in halted
  /\ halted' = halted \ {b}
  /\ UNCHANGED <<held, rest, meters, losses, actors, placed>>

\* What was recorded and not answered turns out at the venue, or not.  A process that dies
\* with nothing under way forgets nothing.
Crash ==
  /\ \E a \in Actors : stage[a] # "idle"
  /\ \E arrived \in SUBSET {a \in Actors : stage[a] = "sending"} :
       rest' = [i \in Instruments |-> [side \in Sides |->
                  rest[i][side] + SumFunctionOnSet(InHand,
                     {a \in arrived : order[a].inst = i /\ order[a].side = side})]]
  /\ stage' = [a \in Actors |-> "idle"]
  /\ left' = [b \in Baskets |-> {}]
  /\ since' = Abandoned(Baskets)
  /\ order' = [a \in Actors |-> NoOrder]
  /\ UNCHANGED <<held, hour, day, losses, halted, placed>>

Next ==
  \/ \E b \in Baskets : \/ Start(b) \/ Propose(b) \/ Decline(b)
                        \/ AutoPause(b) \/ Finish(b) \/ FailClosed(b)
                        \/ Resume(b)
  \/ \E c \in Closers : Request(c) \/ ProposeClose(c) \/ VetoClose(c) \/ Unpriced(c)
  \/ \E a \in Actors : Record(a) \/ Send(a) \/ Raise(a)
  \/ \E i \in Instruments, side \in Sides : Book(i, side) \/ Expire(i, side)
  \/ HourPasses \/ NewDay \/ Crash

Spec == Init /\ [][Next]_vars

----------------------------------------------------------------------------
(* Properties.                                                             *)

Stages == {"idle", "deciding", "quoting", "admitted", "sending"}

\* The shape of the state.
TypeOK ==
  /\ held \in [Instruments -> Nat]
  /\ rest \in [Instruments -> [Sides -> Nat]]
  /\ hour \in [{"cycle", "hand"} -> Nat]
  /\ day \in [Baskets -> [{"cycle", "hand"} -> Nat]]
  /\ since \in [Instruments -> -1..Cooldown]
  /\ losses \in [Baskets -> 0..MaxLosses]
  /\ halted \subseteq Baskets
  /\ stage \in [Actors -> Stages]
  /\ left \in [Baskets -> SUBSET Instruments]
  /\ order \in [Actors -> [inst : Instruments \cup {None}, side : Sides, qty : Nat]]
  /\ placed \in 0..MaxPlaced

\* What is on its way to the ledger: at the venue, or in a coroutine's hands.
Pending(i, side) ==
  rest[i][side] + SumFunctionOnSet(InHand,
                    {a \in Actors : Busy(a) /\ order[a].inst = i /\ order[a].side = side})
Committed(instruments) ==
  SumFunctionOnSet([i \in Instruments |-> held[i] + Pending(i, "buy")], instruments)
Growing(instruments) == \E i \in instruments : Pending(i, "buy") > 0
Fits(instruments, ceiling) == Growing(instruments) => Committed(instruments) <= Ceiling[ceiling]

AllFit ==
  /\ Fits(Instruments, "gross")
  /\ \A b \in Baskets : Fits(Listed[b], "basket")
  /\ \A i \in Instruments : /\ Fits({i}, "position") /\ Fits({i}, "instrument")
                            /\ Fits(InBucket(i), "cluster")

\* What the panel may do is metered, over crashes, abandoned cycles, resumptions and
\* whatever is closed by hand meanwhile.  The hourly cap is read before the order is
\* recorded and every basket may do so at once: the cycles exceed it by what is under way
\* elsewhere and no more.  Within a basket one decision follows another, so that the daily
\* cap is exact (tier2.py, OrderRateRule; rules.py, DailyTradeCapRule; history.py).
PanelMetered ==
  /\ hour.cycle <= MaxPerHour + Cardinality(Baskets) - 1
  /\ \A b \in Baskets : day[b].cycle <= MaxPerDay

Others(a, i, side) ==
  rest[i][side] > 0
  \/ \E c \in Actors \ {a} : Busy(c) /\ order[c].inst = i /\ order[c].side = side

\* A buy admitted while no other is under way anywhere fits, with what is held, every
\* ceiling of both tiers, those of the other baskets and instruments included, although
\* each rule caps by one exposure of its own; a sell admitted while no other of the
\* instrument is under way is for no more than is held, unless what was held has been
\* sold since it was read (tier1.py, tier2.py).
SoloOrdersFit ==
  [][\A a \in Actors :
       ~Busy(a) /\ stage'[a] = "admitted" =>
         LET o == order'[a] IN
         /\ o.side = "buy" /\ (\A i \in Instruments : ~Others(a, i, "buy")) => AllFit'
         /\ o.side = "sell" /\ ~Others(a, o.inst, "sell") /\ order[a].qty <= held[o.inst]
              => o.qty <= held[o.inst]]_vars

\* Two baskets never build together what neither may alone (tier2.py, its docstring).
\* The code does not keep it: a resting or concurrent buy is in no exposure.
WithinCeilings == AllFit

\* Nothing is ever sold that is not held (interfaces/risk.py, is_operator_exit).  The code
\* does not keep it: neither tier knows of the sells that already work.
NeverInverted == \A i \in Instruments : Pending(i, "sell") <= held[i]
=============================================================================
