------------------------------ MODULE Watchdog ------------------------------
(***************************************************************************)
(* The Watchdog and the RiskStateStore: the one risk row that holds the    *)
(* kill switch and the drawdown baselines, and everybody who reads,        *)
(* compares and writes it.  Every sweep and every cycle checks, operators  *)
(* trip and re-arm through the dashboard, and the startup sequence moves   *)
(* the baselines by external flows and arms a new database.  A call takes  *)
(* the watchdog's lock and then waits several times: for the calendar, for *)
(* the write of the row, and for the append that announces the change.     *)
(*                                                                         *)
(* Money is in small units; the limits are percentages, as in the code.    *)
(***************************************************************************)
EXTENDS Integers

CONSTANTS
  Checkers,      \* the sweep and the cycles' gates
  Operators,     \* the dashboard's requests that trip or re-arm
  Boot,          \* the startup sequence
  None,          \* no holder, no valuation
  MaxEquity,     \* bound: equity, and the mark, in units
  MaxDay,        \* bound: days that pass
  MaxCrashes,    \* bound: how often the process dies
  MaxDrawdown,   \* max_drawdown_pct
  MaxDailyLoss   \* max_daily_loss_pct

ASSUME CallersAssumption ==
  /\ Checkers \cap Operators = {} /\ Boot \notin Checkers \cup Operators
  /\ None \notin Checkers \cup Operators \cup {Boot} \cup Int
ASSUME BoundsAssumption ==
  /\ MaxEquity \in Nat /\ MaxDay \in Nat /\ MaxCrashes \in Nat
  /\ MaxDrawdown \in Nat /\ MaxDailyLoss \in Nat

Callers == Checkers \cup Operators \cup {Boot}
Money == 0..MaxEquity

VARIABLES
  row,      \* the risk_state row
  said,     \* what the last KILL_SWITCH_CHANGED of the log says: armed or not
  job,      \* job[c]: what c has asked of the watchdog, and how far it got
  holder,   \* who holds the watchdog's lock
  phase,    \* "first" and "boot" start up; "up" may trade, "halted" may not
  flowed,   \* whether this startup has adjusted the baselines
  worth,    \* what the portfolio is worth now, None while it cannot be valued
  today,    \* the session day
  crashes,
  cut       \* a crash came between a change and its announcement

vars == <<row, said, job, holder, phase, flowed, worth, today, crashes, cut>>
outside == <<worth, today, crashes>>

Absent == [exists |-> FALSE, armed |-> FALSE, mark |-> 0, dayStart |-> 0, day |-> -1]
NoJob == [op |-> "none", stage |-> "none", amount |-> 0, seen |-> Absent]
Asked(op, amount) == [op |-> op, stage |-> "queued", amount |-> amount, seen |-> Absent]

(* A fall of more than limit percent; a gain, or no baseline, is no fall.  *)
Fell(baseline, equity, limit) == 100 * (baseline - equity) > limit * baseline

Init ==
  /\ row = Absent
  /\ said = FALSE
  /\ job = [c \in Callers |-> NoJob]
  /\ holder = None
  /\ phase = "first"
  /\ flowed = FALSE
  /\ worth \in Money
  /\ today = 0
  /\ crashes = 0
  /\ cut = FALSE

Call(c, op, amount) ==
  /\ job[c] = NoJob
  /\ job' = [job EXCEPT ![c] = Asked(op, amount)]
  /\ UNCHANGED <<row, said, holder, phase, flowed, outside, cut>>

To(c, stage, seen) == job' = [job EXCEPT ![c].stage = stage, ![c].seen = seen]
Unannounced(c, seen) == job' = [job EXCEPT ![c] = NoJob]
Announcing(c, seen) ==
  job' = [job EXCEPT ![c] = [op |-> @.op, stage |-> "announce", amount |-> 0, seen |-> seen]]

Release(c) ==
  /\ job' = [job EXCEPT ![c] = NoJob]
  /\ holder' = None

----------------------------------------------------------------------------
(* The callers.  A portfolio that cannot be valued is checked without the  *)
(* row being written, and stops a human from re-arming.                    *)
Check(c) ==
  /\ phase = "up" /\ worth # None
  /\ Call(c, "check", worth)

AskTrip(c) ==
  /\ phase \in {"up", "halted"}
  /\ Call(c, "trip", 0)

AskRearm(c) ==
  /\ phase \in {"up", "halted"} /\ worth # None
  /\ Call(c, "rearm", worth)

(* Startup: an external flow found by the reconciler, then a large         *)
(* mismatch or the end; a database never written to is armed.              *)
StartingUp == phase \in {"first", "boot"} /\ job[Boot] = NoJob

BootFlow ==
  /\ StartingUp /\ ~flowed
  /\ \E amount \in {-1, 1} :
       /\ row.mark + amount <= MaxEquity
       /\ row.dayStart + amount <= MaxEquity
       /\ job' = [job EXCEPT ![Boot] = Asked("flow", amount)]
  /\ flowed' = TRUE
  /\ UNCHANGED <<row, said, holder, phase, outside, cut>>

BootHalt ==
  /\ StartingUp
  /\ \/ UNCHANGED job
     \/ job' = [job EXCEPT ![Boot] = Asked("trip", 0)]
  /\ phase' = "halted" /\ flowed' = FALSE
  /\ UNCHANGED <<row, said, holder, outside, cut>>

BootArm ==
  /\ phase = "first" /\ ~row.armed
  /\ Call(Boot, "rearm", IF worth = None THEN 0 ELSE worth)

BootDone ==
  /\ StartingUp
  /\ phase = "first" => row.armed
  /\ phase' = "up" /\ flowed' = FALSE
  /\ UNCHANGED <<row, said, job, holder, outside, cut>>

----------------------------------------------------------------------------
(* Inside the lock. *)
LockIgnored == TRUE
LockFree == holder = None

Acquire(c) ==
  /\ job[c].stage = "queued"
  /\ LockFree
  /\ holder' = c
  /\ To(c, IF job[c].op = "check" THEN "roll" ELSE job[c].op, row)
  /\ UNCHANGED <<row, said, phase, flowed, outside, cut>>

(* The calendar has answered which session day it is. *)
RollDay(c) ==
  /\ job[c].stage = "roll"
  /\ LET seen == job[c].seen
         rolled == [seen EXCEPT !.exists = TRUE, !.dayStart = job[c].amount, !.day = today]
     IN \/ seen.day = today /\ To(c, "judge", seen) /\ UNCHANGED row
        \/ seen.day # today /\ To(c, "judge", rolled) /\ row' = rolled
  /\ UNCHANGED <<said, holder, phase, flowed, outside, cut>>

DailyLoss(j) == Fell(j.seen.dayStart, j.amount, MaxDailyLoss)
DrawdownAfterDay(j) == ~DailyLoss(j) /\ Fell(j.seen.mark, j.amount, MaxDrawdown)
Drawdown(j) == Fell(j.seen.mark, j.amount, MaxDrawdown)

(* A drawdown goes on to the trip, which reads the row again; a daily loss *)
(* is recorded in the log and moves no baseline.                           *)
Judge(c) ==
  /\ job[c].stage = "judge"
  /\ LET j == job[c] IN
     \/ /\ j.seen.armed /\ Drawdown(j)
        /\ To(c, "trip", row)
        /\ UNCHANGED <<row, holder>>
     \/ /\ ~j.seen.armed \/ (~Drawdown(j) /\ (DailyLoss(j) \/ j.amount <= j.seen.mark))
        /\ Release(c)
        /\ UNCHANGED row
     \/ /\ j.seen.armed /\ ~Drawdown(j) /\ ~DailyLoss(j) /\ j.amount > j.seen.mark
        /\ row' = [j.seen EXCEPT !.mark = j.amount]
        /\ Release(c)
  /\ UNCHANGED <<said, phase, flowed, outside, cut>>

Trip(c) ==
  /\ job[c].stage = "trip"
  /\ \/ /\ ~job[c].seen.armed
        /\ Release(c)
        /\ UNCHANGED row
     \/ /\ job[c].seen.armed
        /\ row' = [job[c].seen EXCEPT !.armed = FALSE]
        /\ Announcing(c, row')
        /\ UNCHANGED holder
  /\ UNCHANGED <<said, phase, flowed, outside, cut>>

Rearm(c) ==
  /\ job[c].stage = "rearm"
  /\ row' = [exists |-> TRUE, armed |-> TRUE, mark |-> job[c].amount,
             dayStart |-> job[c].amount, day |-> today]
  /\ Announcing(c, row')
  /\ UNCHANGED <<said, holder, phase, flowed, outside, cut>>

Unclamped(n) == n
AtLeastZero(n) == IF n > 0 THEN n ELSE 0
RecordFlow(c) ==
  /\ job[c].stage = "flow"
  /\ row' = [job[c].seen EXCEPT !.exists = TRUE,
                                !.mark = AtLeastZero(@ + job[c].amount),
                                !.dayStart = AtLeastZero(@ + job[c].amount)]
  /\ Release(c)
  /\ UNCHANGED <<said, phase, flowed, outside, cut>>

(* The KILL_SWITCH_CHANGED event, a transaction after the row. *)
Announce(c) ==
  /\ job[c].stage = "announce"
  /\ said' = job[c].seen.armed
  /\ cut' = FALSE
  /\ Release(c)
  /\ UNCHANGED <<row, phase, flowed, outside>>

Inside(c) ==
  RollDay(c) \/ Judge(c) \/ Trip(c) \/ Rearm(c) \/ RecordFlow(c) \/ Announce(c)

----------------------------------------------------------------------------
(* Outside: prices move and go stale, days pass, and the process dies. *)
Market ==
  /\ worth' \in Money \cup {None}
  /\ UNCHANGED <<row, said, job, holder, phase, flowed, today, crashes, cut>>

NewDay ==
  /\ today < MaxDay
  /\ today' = today + 1
  /\ UNCHANGED <<row, said, job, holder, phase, flowed, worth, crashes, cut>>

Crash ==
  /\ crashes < MaxCrashes
  /\ crashes' = crashes + 1
  /\ cut' = (cut \/ \E c \in Callers : job[c].stage = "announce")
  /\ job' = [c \in Callers |-> NoJob]
  /\ holder' = None
  /\ phase' = IF row.exists THEN "boot" ELSE "first"
  /\ flowed' = FALSE
  /\ UNCHANGED <<row, said, worth, today>>

ByOperators == job[Boot] = NoJob /\ \E c \in Operators : AskTrip(c) \/ AskRearm(c)

Next ==
  \/ \E c \in Checkers : Check(c)
  \/ ByOperators
  \/ BootFlow \/ BootHalt \/ BootArm \/ BootDone
  \/ \E c \in Callers : Acquire(c) \/ Inside(c)
  \/ Market \/ NewDay \/ Crash

Spec == Init /\ [][Next]_vars

(* asyncio's lock is first come first served, a call that can go on does,  *)
(* a startup comes to its end, and the sweep comes round for ever.         *)
Fairness ==
  /\ \A c \in Checkers : WF_vars(Check(c))
  /\ \A c \in Callers : SF_vars(Acquire(c)) /\ WF_vars(Inside(c))
  /\ WF_vars(BootArm) /\ WF_vars(BootDone)

FairSpec == Spec /\ Fairness

----------------------------------------------------------------------------
Row == [exists : BOOLEAN, armed : BOOLEAN, mark : Nat, dayStart : Nat, day : Int]
Ops == {"none", "check", "trip", "rearm", "flow"}
Stages == {"none", "queued", "roll", "judge", "trip", "rearm", "flow", "announce"}

TypeOK ==
  /\ row \in Row
  /\ said \in BOOLEAN
  /\ job \in [Callers -> [op : Ops, stage : Stages, amount : Int, seen : Row]]
  /\ holder \in Callers \cup {None}
  /\ phase \in {"first", "boot", "up", "halted"}
  /\ flowed \in BOOLEAN
  /\ worth \in Money \cup {None}
  /\ today \in Nat /\ crashes \in Nat
  /\ cut \in BOOLEAN

(* Whoever reads, compares and writes the row at the same time, the switch *)
(* and the high-water mark keep the promises of KillSwitch: no write of a  *)
(* check re-arms a switch that tripped while it waited, and no raised mark *)
(* is lost (Watchdog.check, "a lost update there is a limit that silently  *)
(* stopped being enforced").                                               *)
AskedToRearm == {c \in Operators : job[c].op = "rearm" /\ job[c].stage \in {"queued", "rearm"}}
Switch == INSTANCE KillSwitch WITH
  Requests <- Operators, armed <- row.armed, mark <- row.mark, asked <- AskedToRearm,
  open <- phase \in {"up", "halted"}, established <- row.exists /\ phase # "first"
KeepsItsPromises == Switch!Spec

(* What the log last said of the switch is what the row says, but while a  *)
(* change is being announced, or after a crash kept it from being: then    *)
(* nothing announces it until the next change (Watchdog._trip saves and    *)
(* appends in two transactions).                                           *)
SwitchAnnounced ==
  said = row.armed \/ cut \/ \E c \in Callers : job[c].stage = "announce"

(* A drawdown that lasts trips the switch, however checks, re-arms on a    *)
(* stale valuation, rolled days and crashes fall between: no check only    *)
(* answers "halted for the day" while the mark is breached (_check).       *)
Breached == phase = "up" /\ worth # None /\ Fell(row.mark, worth, MaxDrawdown)
LastingDrawdownTrips == <>[]Breached => <>[]~row.armed

=============================================================================
