--------------------------- MODULE OrderLifecycle ---------------------------
(***************************************************************************)
(* The order value of core/orders.py and the states of core/enums.py: the  *)
(* transition table and the pure functions that move one Order.  An order  *)
(* is reduced to its state and to how much of it has filled; a fill is one *)
(* unit, and the fills of an order are numbered in the order the venue     *)
(* executed them, so a set of booked fills is an initial segment and its   *)
(* size identifies it.                                                     *)
(***************************************************************************)
EXTENDS Integers

CONSTANT Qty    \* units of every order
ASSUME QtyAssumption == Qty \in Nat \ {0}

OpenStates == {"SUBMITTED", "OPEN", "PARTIALLY_FILLED"}
TerminalStates == {"FILLED", "CANCELLED", "EXPIRED", "REJECTED", "FAILED"}
OrderState == {"PENDING_SUBMIT", "SUBMIT_UNKNOWN"} \cup OpenStates \cup TerminalStates

LegalTransitions ==
  [s \in OrderState |->
     CASE s = "PENDING_SUBMIT"   -> {"SUBMITTED", "SUBMIT_UNKNOWN", "REJECTED", "FAILED"}
       [] s = "SUBMITTED"        -> {"OPEN", "PARTIALLY_FILLED", "FILLED", "CANCELLED",
                                     "EXPIRED", "REJECTED"}
       [] s = "SUBMIT_UNKNOWN"   -> {"OPEN", "PARTIALLY_FILLED", "FILLED", "CANCELLED",
                                     "EXPIRED", "REJECTED", "FAILED"}
       [] s = "OPEN"             -> {"PARTIALLY_FILLED", "FILLED", "CANCELLED", "EXPIRED"}
       [] s = "PARTIALLY_FILLED" -> {"FILLED", "CANCELLED", "EXPIRED"}
       [] OTHER                  -> {}]

Order == [state : OrderState, filled : 0..Qty]

(* No Order object: nothing recorded, or nothing held in memory. *)
NoOrder == [state |-> "NONE", filled |-> 0]

IsOpen(order) == order.state \in OpenStates

(* with_fill: one more unit booked, and the state that follows from it. *)
FillTarget(order) == IF order.filled + 1 = Qty THEN "FILLED" ELSE "PARTIALLY_FILLED"
WithFill(order) == [state |-> FillTarget(order), filled |-> order.filled + 1]

(* The two checks with_fill makes, either of which raises. *)
FillIsLegal(order) ==
  /\ order.filled < Qty
  /\ FillTarget(order) \in LegalTransitions[order.state] \cup {order.state}

CanMove(order, state) == state \in LegalTransitions[order.state]
MoveTo(order, state) == [order EXCEPT !.state = state]

=============================================================================
