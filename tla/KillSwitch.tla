----------------------------- MODULE KillSwitch -----------------------------
(***************************************************************************)
(* What the kill switch promises (the opening of risk/watchdog.py, and     *)
(* ADR 0027): once a process trades, the switch may trip at any moment,    *)
(* stays tripped until a human has asked for it to be re-armed, and each   *)
(* request re-arms it at most once; the high-water mark that a drawdown is *)
(* measured from then falls only where a human re-arms.  A database nobody *)
(* ever traded with is armed once without being asked, at its first start, *)
(* and money moved from outside moves the mark only while starting up.     *)
(***************************************************************************)
EXTENDS Integers

CONSTANT Requests  \* what a request to re-arm is known by

VARIABLES
  armed,        \* whether trading is permitted at all
  mark,         \* the high-water mark
  asked,        \* the requests to re-arm that have not been honoured
  open,         \* whether the process has started up
  established   \* whether the database has been started with before

switchVars == <<armed, mark, asked, open, established>>

Init ==
  /\ armed = FALSE /\ mark = 0 /\ asked = {}
  /\ open = FALSE /\ established = FALSE

Ask(r) ==
  /\ asked' = asked \cup {r}
  /\ UNCHANGED <<armed, mark, open, established>>

Rearm(r) ==
  /\ r \in asked
  /\ armed' = TRUE
  /\ mark' \in Nat
  /\ asked' = asked \ {r}
  /\ UNCHANGED open
  /\ established => established'

Trip ==
  /\ armed' = FALSE
  /\ UNCHANGED <<mark, asked, open, established>>

Raise ==
  /\ armed
  /\ mark' \in Nat /\ mark' > mark
  /\ UNCHANGED <<armed, asked, open, established>>

ArmFirst ==
  /\ ~open /\ ~established
  /\ armed' = TRUE
  /\ mark' \in Nat
  /\ UNCHANGED <<asked, open, established>>

MoveByFlow ==
  /\ ~open
  /\ mark' \in Nat
  /\ UNCHANGED <<armed, asked, open, established>>

Open ==
  /\ open' = TRUE
  /\ established => established'
  /\ UNCHANGED <<armed, mark, asked>>

(* A request that had not been honoured dies with the process. *)
Restart ==
  /\ open' = FALSE
  /\ asked' = {}
  /\ established => established'
  /\ UNCHANGED <<armed, mark>>

Next ==
  \/ \E r \in Requests : Ask(r) \/ Rearm(r)
  \/ Trip \/ Raise \/ ArmFirst \/ MoveByFlow \/ Open \/ Restart

Spec == Init /\ [][Next]_switchVars

=============================================================================
