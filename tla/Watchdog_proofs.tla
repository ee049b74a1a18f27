--------------------------- MODULE Watchdog_proofs ---------------------------
(***************************************************************************)
(* Proofs about Watchdog for any sets of checks and operators, any limits  *)
(* and any equity: its types, what the log says of the switch, and that it *)
(* implements KillSwitch.                                                  *)
(*                                                                         *)
(* The argument is the lock: whoever is past it holds it and has seen the  *)
(* row as it is (LockHeld), so what it writes back is the row with one     *)
(* change.  Jobs says who asks for what and when, RowKept that a database  *)
(* once started with keeps its row.                                        *)
(***************************************************************************)
EXTENDS Watchdog, TLAPS

LockHeld ==
  \A c \in Callers : job[c].stage \notin {"none", "queued"} =>
    holder = c /\ job[c].seen = row

Job(c) ==
  /\ c \in Checkers => job[c].op \in {"none", "check"}
  /\ c \in Operators => job[c].op \in {"none", "trip", "rearm"}
  /\ job[c].stage \in {"roll", "judge"} => job[c].op = "check"
  /\ job[c].stage \in {"rearm", "flow"} => job[c].op = job[c].stage
  /\ job[c].op = "check" => phase = "up"
  /\ job[c].op \in {"check", "rearm"} => job[c].amount \in Nat
  /\ job[c].op = "flow" => c = Boot /\ phase \in {"first", "boot"}
  /\ c = Boot /\ job[c].op = "rearm" => phase = "first"

Jobs == \A c \in Callers : Job(c)

RowKept ==
  /\ row.armed => row.exists
  /\ phase \in {"boot", "up"} => row.exists

Inv == TypeOK /\ LockHeld /\ Jobs /\ RowKept /\ SwitchAnnounced

JobRecord == [op : Ops, stage : Stages, amount : Int, seen : Row]
Past(c) == job[c].stage \notin {"none", "queued"}

USE DEF Ops, Stages

LEMMA Types ==
  /\ Absent \in Row /\ NoJob \in JobRecord
  /\ MaxEquity \in Nat /\ Money \subseteq Nat
  /\ Boot \in Callers /\ Checkers \subseteq Callers /\ Operators \subseteq Callers
  /\ None \notin Callers /\ Boot \notin Operators /\ Boot \notin Checkers
BY BoundsAssumption, CallersAssumption
DEF Absent, NoJob, Row, JobRecord, Money, Callers

LEMMA FreshJob ==
  ASSUME NEW op \in Ops, NEW amount \in Int
  PROVE  /\ Asked(op, amount) \in JobRecord
         /\ Asked(op, amount).op = op /\ Asked(op, amount).amount = amount
         /\ Asked(op, amount).stage = "queued"
BY Types DEF Asked, JobRecord

(* To moves the one job on. *)
MovedOn(c, stage, seen) == [job[c] EXCEPT !.stage = stage, !.seen = seen]

LEMMA ToIs ==
  ASSUME TypeOK, NEW c \in Callers, NEW stage \in Stages, NEW seen \in Row, To(c, stage, seen)
  PROVE  /\ MovedOn(c, stage, seen) \in JobRecord
         /\ MovedOn(c, stage, seen).op = job[c].op
         /\ MovedOn(c, stage, seen).amount = job[c].amount
         /\ MovedOn(c, stage, seen).stage = stage
         /\ MovedOn(c, stage, seen).seen = seen
         /\ job' = [job EXCEPT ![c] = MovedOn(c, stage, seen)]
<1>1. job[c] \in JobRecord /\ job \in [Callers -> JobRecord]
  BY DEF TypeOK, JobRecord
<1> QED BY <1>1 DEF JobRecord, MovedOn, To

(* Only one caller is past the lock. *)
LEMMA OneHolder ==
  ASSUME Inv, NEW c \in Callers, Past(c), NEW d \in Callers, Past(d)
  PROVE  d = c
BY DEF Inv, LockHeld, Past
-----------------------------------------------------------------------------
LEMMA InvInit == Init => Inv
<1> SUFFICES ASSUME Init PROVE Inv
  OBVIOUS
<1>1. TypeOK
  <2>1. job \in [Callers -> JobRecord]
    BY Types DEF Init
  <2> QED BY <2>1, Types DEF Init, TypeOK, JobRecord
<1>2. \A c \in Callers : job[c].op = "none" /\ job[c].stage = "none"
  BY DEF Init, NoJob
<1>3. LockHeld /\ Jobs
  BY <1>2 DEF LockHeld, Jobs, Job
<1>4. ~row.armed /\ phase = "first" /\ said = FALSE
  BY DEF Init, Absent
<1>5. RowKept /\ SwitchAnnounced
  <2>1. said = row.armed
    BY DEF Init, Absent
  <2> QED BY <1>4, <2>1 DEF RowKept, SwitchAnnounced
<1> QED BY <1>1, <1>3, <1>5 DEF Inv

(* A call only queues; what it asks for must be the caller's to ask.       *)
Queues(c, op, amount) ==
  /\ job[c] = NoJob
  /\ job' = [job EXCEPT ![c] = Asked(op, amount)]
  /\ UNCHANGED <<row, said, holder, outside, cut>>
  /\ flowed' \in BOOLEAN
  /\ phase' \in {phase, "halted"}
  /\ phase' # phase =>
       \A d \in Callers \ {c} : job[d].op # "check" /\ (d = Boot => job[d].op = "none")

MayAsk(c, op, amount) ==
  /\ c \in Checkers => op = "check"
  /\ c \in Operators => op \in {"trip", "rearm"}
  /\ op = "check" => phase' = "up"
  /\ op \in {"check", "rearm"} => amount \in Nat
  /\ op = "flow" => c = Boot /\ phase' \in {"first", "boot"}
  /\ c = Boot /\ op = "rearm" => phase' = "first"

LEMMA CallInv ==
  ASSUME Inv, NEW c \in Callers, NEW op \in Ops \ {"none"}, NEW amount \in Int,
         Queues(c, op, amount), MayAsk(c, op, amount)
  PROVE  Inv'
<1> USE DEF Queues, MayAsk
<1>1. job \in [Callers -> JobRecord]
  BY DEF Inv, TypeOK, JobRecord
<1>2. /\ job'[c] = Asked(op, amount)
      /\ \A d \in Callers \ {c} : job'[d] = job[d]
  BY <1>1
<1>3. TypeOK'
  <2>1. job' \in [Callers -> JobRecord]
    BY <1>1, FreshJob
  <2> QED BY <2>1 DEF Inv, TypeOK, JobRecord, outside
<1>4. LockHeld'
  <2> SUFFICES ASSUME NEW d \in Callers, job'[d].stage \notin {"none", "queued"}
               PROVE  holder' = d /\ job'[d].seen = row'
    BY DEF LockHeld
  <2>1. d # c
    BY <1>2, FreshJob
  <2> QED BY <1>2, <2>1 DEF Inv, LockHeld
<1>5. Jobs'
  <2> SUFFICES ASSUME NEW d \in Callers PROVE Job(d)'
    BY DEF Jobs
  <2>1. CASE d = c
    <3>1. job'[d].op = op /\ job'[d].stage = "queued" /\ job'[d].amount = amount
      BY <1>2, <2>1, FreshJob
    <3> QED BY <2>1, <3>1 DEF Job
  <2>2. CASE d # c
    <3>1. job'[d] = job[d] /\ Job(d)
      BY <1>2, <2>2 DEF Inv, Jobs
    <3>2. CASE phase' = phase
      BY <3>1, <3>2 DEF Job
    <3>3. CASE phase' # phase
      BY <2>2, <3>1, <3>3 DEF Job
    <3> QED BY <3>2, <3>3
  <2> QED BY <2>1, <2>2
<1>6. RowKept'
  BY DEF Inv, RowKept
<1>7. SwitchAnnounced'
  <2>1. \A d \in Callers : job[d].stage = "announce" => job'[d].stage = "announce"
    BY <1>2 DEF NoJob
  <2> QED BY <2>1 DEF Inv, SwitchAnnounced
<1> QED BY <1>3, <1>4, <1>5, <1>6, <1>7 DEF Inv

(* A step past the lock: the caller goes on with a job j that has seen the *)
(* row as the step leaves it, or is done with it.                          *)
LEMMA LockedStep ==
  ASSUME Inv, NEW c \in Callers, Past(c),
         NEW j \in JobRecord,
         job' = [job EXCEPT ![c] = j],
         \/ j.stage = "none" /\ j.op = "none" /\ holder' = None
         \/ /\ j.op = job[c].op /\ j.amount \in {0, job[c].amount}
            /\ j.stage \in {"roll", "judge"} => j.op = "check"
            /\ j.stage \notin {"rearm", "flow", "none", "queued"}
            /\ j.seen = row' /\ holder' = holder,
         row' \in Row, row'.armed => row'.exists, row.exists => row'.exists,
         said' \in BOOLEAN, cut' \in BOOLEAN,
         UNCHANGED <<phase, flowed, outside>>
  PROVE  TypeOK' /\ LockHeld' /\ Jobs' /\ RowKept'
<1>1. job \in [Callers -> JobRecord] /\ holder = c
  BY DEF Inv, TypeOK, JobRecord, LockHeld, Past
<1>2. /\ job'[c] = j
      /\ \A d \in Callers \ {c} : job'[d] = job[d]
  BY <1>1
<1>3. TypeOK'
  <2>1. job' \in [Callers -> JobRecord]
    BY <1>1
  <2>2. holder' \in Callers \cup {None}
    BY DEF Inv, TypeOK
  <2> QED BY <2>1, <2>2 DEF Inv, TypeOK, JobRecord, outside
<1>4. LockHeld'
  <2> SUFFICES ASSUME NEW d \in Callers, job'[d].stage \notin {"none", "queued"}
               PROVE  holder' = d /\ job'[d].seen = row'
    BY DEF LockHeld
  <2>1. d = c
    BY <1>2, OneHolder DEF Past
  <2> QED BY <1>1, <1>2, <2>1
<1>5. Jobs'
  <2> SUFFICES ASSUME NEW d \in Callers PROVE Job(d)'
    BY DEF Jobs
  <2>1. Job(d)
    BY DEF Inv, Jobs
  <2>2. CASE d = c
    BY <1>2, <2>1, <2>2 DEF Job
  <2>3. CASE d # c
    BY <1>2, <2>1, <2>3 DEF Job
  <2> QED BY <2>2, <2>3
<1>6. RowKept'
  BY DEF Inv, RowKept
<1> QED BY <1>3, <1>4, <1>5, <1>6

(* Nobody but the holder is announcing, so a step that leaves the switch   *)
(* alone leaves the log right about it.                                    *)
LEMMA StillAnnounced ==
  ASSUME Inv, NEW c \in Callers, NEW j,
         job[c].stage # "announce",
         job' = [job EXCEPT ![c] = j],
         said' = said, cut' = cut, row'.armed = row.armed
  PROVE  SwitchAnnounced'
<1>1. job \in [Callers -> JobRecord]
  BY DEF Inv, TypeOK, JobRecord
<1>2. \A d \in Callers : job[d].stage = "announce" => job'[d].stage = "announce"
  BY <1>1
<1> QED BY <1>2 DEF Inv, SwitchAnnounced

LEMMA AcquireInv ==
  ASSUME Inv, NEW c \in Callers, Acquire(c)
  PROVE  Inv'
<1>1. /\ job \in [Callers -> JobRecord] /\ row \in Row
      /\ holder = None /\ holder' = c /\ job[c].stage = "queued"
      /\ UNCHANGED <<row, said, phase, flowed, outside, cut>>
  BY DEF Inv, TypeOK, JobRecord, Acquire, LockFree
<1>2. \A d \in Callers : ~Past(d)
  BY <1>1, Types DEF Inv, LockHeld, Past
<1> DEFINE stage == IF job[c].op = "check" THEN "roll" ELSE job[c].op
           j == MovedOn(c, stage, row)
<1>3. stage \in Stages /\ To(c, stage, row)
  <2>1. job[c].op \in Ops
    BY <1>1 DEF JobRecord
  <2> QED BY <2>1 DEF Acquire
<1>4. /\ j \in JobRecord /\ j.op = job[c].op /\ j.amount = job[c].amount
      /\ j.stage = stage /\ j.seen = row /\ job' = [job EXCEPT ![c] = j]
  <2> HIDE DEF stage
  <2> QED BY <1>1, <1>3, ToIs DEF Inv
<1>5. stage \in {"roll", "judge"} => job[c].op = "check"
  BY <1>1 DEF JobRecord
<1>6. stage \in {"rearm", "flow"} => job[c].op = stage
  BY <1>1 DEF JobRecord
<1> HIDE DEF stage, j
<1>7. /\ job'[c] = j
      /\ \A d \in Callers \ {c} : job'[d] = job[d]
  BY <1>1, <1>4
<1>8. TypeOK'
  <2>1. job' \in [Callers -> JobRecord]
    BY <1>1, <1>4
  <2> QED BY <1>1, <2>1 DEF Inv, TypeOK, JobRecord, outside
<1>9. LockHeld'
  BY <1>1, <1>2, <1>4, <1>7 DEF LockHeld, Past
<1>10. Jobs'
  <2> SUFFICES ASSUME NEW d \in Callers PROVE Job(d)'
    BY DEF Jobs
  <2>1. Job(d) /\ phase' = phase
    BY <1>1 DEF Inv, Jobs
  <2>2. CASE d = c
    BY <1>4, <1>5, <1>6, <1>7, <2>1, <2>2 DEF Job
  <2>3. CASE d # c
    BY <1>7, <2>1, <2>3 DEF Job
  <2> QED BY <2>2, <2>3
<1>11. RowKept' 
  BY <1>1 DEF Inv, RowKept
<1>12. SwitchAnnounced'
  BY <1>1, <1>4, StillAnnounced
<1> QED BY <1>8, <1>9, <1>10, <1>11, <1>12 DEF Inv

LEMMA RollDayInv ==
  ASSUME Inv, NEW c \in Callers, RollDay(c)
  PROVE  Inv'
<1>1. /\ Past(c) /\ job[c] \in JobRecord /\ job[c].seen = row /\ row \in Row
      /\ job[c].op = "check" /\ job[c].amount \in Nat /\ today \in Int
      /\ job[c].stage # "announce"
  BY DEF RollDay, Past, Inv, TypeOK, JobRecord, LockHeld, Jobs, Job
<1> DEFINE rolled == IF row.day = today THEN row
                     ELSE [row EXCEPT !.exists = TRUE, !.dayStart = job[c].amount, !.day = today]
           j == MovedOn(c, "judge", rolled)
<1>2. /\ row' = rolled /\ To(c, "judge", rolled)
      /\ UNCHANGED <<said, holder, phase, flowed, outside, cut>>
  BY <1>1 DEF RollDay
<1>3. /\ rolled \in Row /\ rolled.armed = row.armed
      /\ row.exists => rolled.exists
      /\ rolled.armed => rolled.exists
  <2>1. CASE row.day = today
    BY <1>1, <2>1 DEF Inv, RowKept
  <2>2. CASE row.day # today
    <3>1. rolled = [row EXCEPT !.exists = TRUE, !.dayStart = job[c].amount, !.day = today]
      BY <2>2
    <3> HIDE DEF rolled
    <3>2. rolled \in Row
      BY <1>1, <3>1 DEF Row
    <3>3. rolled.armed = row.armed /\ rolled.exists = TRUE
      BY <1>1, <3>1 DEF Row
    <3> QED BY <3>2, <3>3
  <2> QED BY <2>1, <2>2
<1> HIDE DEF rolled
<1>4. /\ j \in JobRecord /\ j.op = job[c].op /\ j.amount = job[c].amount
      /\ j.stage = "judge" /\ j.seen = rolled /\ job' = [job EXCEPT ![c] = j]
  BY <1>2, <1>3, ToIs DEF Inv
<1> HIDE DEF j
<1>5. said' \in BOOLEAN /\ cut' \in BOOLEAN
  BY <1>2 DEF Inv, TypeOK
<1>6. TypeOK' /\ LockHeld' /\ Jobs' /\ RowKept'
  BY <1>1, <1>2, <1>3, <1>4, <1>5, LockedStep
<1>7. SwitchAnnounced'
  BY <1>1, <1>2, <1>3, <1>4, StillAnnounced
<1> QED BY <1>6, <1>7 DEF Inv

(* Past the lock, what the caller has seen is the row.                     *)
LEMMA PastLock ==
  ASSUME Inv, NEW c \in Callers, Past(c)
  PROVE  /\ job \in [Callers -> JobRecord] /\ job[c] \in JobRecord
         /\ row \in Row /\ job[c].seen = row /\ holder = c
         /\ row.armed => row.exists
         /\ today \in Int /\ said \in BOOLEAN /\ cut \in BOOLEAN
BY DEF Past, Inv, TypeOK, JobRecord, LockHeld, RowKept

(* A caller that is done lets the lock go.                                 *)
LEMMA ReleaseInv ==
  ASSUME Inv, NEW c \in Callers, Past(c), job[c].stage # "announce", Release(c),
         row' \in Row, row'.armed = row.armed,
         row'.armed => row'.exists, row.exists => row'.exists,
         UNCHANGED <<said, cut, phase, flowed, outside>>
  PROVE  Inv'
<1>1. NoJob.stage = "none" /\ NoJob.op = "none" /\ NoJob \in JobRecord
  BY Types DEF NoJob
<1>2. job' = [job EXCEPT ![c] = NoJob] /\ holder' = None
  BY DEF Release
<1>3. said' \in BOOLEAN /\ cut' \in BOOLEAN
  BY PastLock
<1>4. TypeOK' /\ LockHeld' /\ Jobs' /\ RowKept'
  BY <1>1, <1>2, <1>3, LockedStep
<1>5. SwitchAnnounced'
  BY <1>2, StillAnnounced
<1> QED BY <1>4, <1>5 DEF Inv

(* A change of the switch is announced by whoever made it.                 *)
LEMMA AnnouncingInv ==
  ASSUME Inv, NEW c \in Callers, Past(c), Announcing(c, row'),
         row' \in Row, row'.armed => row'.exists, row.exists => row'.exists,
         UNCHANGED <<said, holder, phase, flowed, outside, cut>>
  PROVE  Inv'
<1> DEFINE j == [op |-> job[c].op, stage |-> "announce", amount |-> 0, seen |-> row']
<1>1. /\ j \in JobRecord /\ j.op = job[c].op /\ j.amount = 0
      /\ j.stage = "announce" /\ j.seen = row'
  BY PastLock DEF JobRecord
<1>2. job' = [job EXCEPT ![c] = j]
  BY DEF Announcing
<1> HIDE DEF j
<1>3. said' \in BOOLEAN /\ cut' \in BOOLEAN
  BY PastLock
<1>4. TypeOK' /\ LockHeld' /\ Jobs' /\ RowKept'
  BY <1>1, <1>2, <1>3, LockedStep
<1>5. job'[c].stage = "announce"
  BY <1>1, <1>2, PastLock
<1>6. SwitchAnnounced'
  BY <1>5 DEF SwitchAnnounced
<1> QED BY <1>4, <1>6 DEF Inv

(* The judgement raises the mark, if it writes at all.                     *)
LEMMA JudgeCases ==
  ASSUME Inv, NEW c \in Callers, Judge(c)
  PROVE  /\ Past(c) /\ job[c].stage = "judge"
         /\ UNCHANGED <<said, phase, flowed, outside, cut>>
         /\ \/ row' = row /\ holder' = holder /\ To(c, "trip", row)
            \/ row' = row /\ Release(c)
            \/ /\ row.armed /\ job[c].amount \in Nat /\ job[c].amount > row.mark
               /\ row' = [row EXCEPT !.mark = job[c].amount]
               /\ Release(c)
<1>1. Past(c) /\ job[c].stage = "judge"
  BY DEF Judge, Past
<1>2. job[c].seen = row
  BY <1>1, PastLock
<1>3. job[c].amount \in Nat
  BY <1>1 DEF Inv, Jobs, Job
<1> QED BY <1>1, <1>2, <1>3 DEF Judge

LEMMA JudgeInv ==
  ASSUME Inv, NEW c \in Callers, Judge(c)
  PROVE  Inv'
<1>1. Past(c) /\ job[c].stage # "announce" /\ UNCHANGED <<said, phase, flowed, outside, cut>>
  BY JudgeCases
<1>2. CASE row' = row /\ holder' = holder /\ To(c, "trip", row)
  <2> DEFINE j == MovedOn(c, "trip", row)
  <2>1. /\ j \in JobRecord /\ j.op = job[c].op /\ j.amount = job[c].amount
        /\ j.stage = "trip" /\ j.seen = row /\ job' = [job EXCEPT ![c] = j]
    BY <1>1, <1>2, PastLock, ToIs DEF Inv
  <2> HIDE DEF j
  <2>2. said' \in BOOLEAN /\ cut' \in BOOLEAN
    BY <1>1, PastLock
  <2>3. row' \in Row /\ j.seen = row'
    BY <1>1, <1>2, <2>1, PastLock
  <2>4. row'.armed => row'.exists
    BY <1>1, <1>2, PastLock
  <2>5. TypeOK' /\ LockHeld' /\ Jobs' /\ RowKept'
    BY <1>1, <1>2, <2>1, <2>2, <2>3, <2>4, LockedStep
  <2>6. SwitchAnnounced'
    BY <1>1, <1>2, <2>1, StillAnnounced
  <2> QED BY <2>5, <2>6 DEF Inv
<1>3. CASE row' = row /\ Release(c)
  BY <1>1, <1>3, PastLock, ReleaseInv
<1>4. CASE /\ row.armed /\ job[c].amount \in Nat /\ job[c].amount > row.mark
           /\ row' = [row EXCEPT !.mark = job[c].amount]
           /\ Release(c)
  <2>1. row \in Row
    BY <1>1, PastLock
  <2>2. row' \in Row /\ row'.armed = row.armed /\ row'.exists = row.exists
    BY <1>4, <2>1 DEF Row
  <2>3. row'.armed => row'.exists
    BY <1>1, <2>2, PastLock
  <2> QED BY <1>1, <1>4, <2>2, <2>3, ReleaseInv
<1> QED BY <1>2, <1>3, <1>4, JudgeCases

LEMMA TripInv ==
  ASSUME Inv, NEW c \in Callers, Trip(c)
  PROVE  Inv'
<1>1. Past(c) /\ job[c].stage # "announce" /\ UNCHANGED <<said, phase, flowed, outside, cut>>
  BY DEF Trip, Past
<1>2. row \in Row /\ job[c].seen = row
  BY <1>1, PastLock
<1>3. row.armed => row.exists
  BY <1>1, PastLock
<1>4. CASE ~job[c].seen.armed
  <2>1. row' = row /\ Release(c)
    BY <1>4 DEF Trip
  <2> QED BY <1>1, <1>2, <1>3, <2>1, ReleaseInv
<1>5. CASE job[c].seen.armed
  <2>1. row' = [row EXCEPT !.armed = FALSE] /\ Announcing(c, row') /\ holder' = holder
    BY <1>2, <1>5 DEF Trip
  <2>2. row' \in Row /\ row'.armed = FALSE /\ row'.exists = row.exists
    BY <1>2, <2>1 DEF Row
  <2> QED BY <1>1, <2>1, <2>2, AnnouncingInv
<1> QED BY <1>4, <1>5

LEMMA RearmInv ==
  ASSUME Inv, NEW c \in Callers, Rearm(c)
  PROVE  Inv'
<1>1. Past(c) /\ job[c].op = "rearm" /\ job[c].amount \in Nat
  BY DEF Rearm, Past, Inv, Jobs, Job
<1>2. row' = [exists |-> TRUE, armed |-> TRUE, mark |-> job[c].amount,
              dayStart |-> job[c].amount, day |-> today]
      /\ Announcing(c, row') /\ UNCHANGED <<said, holder, phase, flowed, outside, cut>>
  BY DEF Rearm
<1>3. row' \in Row /\ row'.exists
  BY <1>1, <1>2, PastLock DEF Row
<1> QED BY <1>1, <1>2, <1>3, AnnouncingInv

LEMMA Clamped ==
  ASSUME NEW n \in Int
  PROVE  AtLeastZero(n) \in Nat
BY DEF AtLeastZero

LEMMA RecordFlowInv ==
  ASSUME Inv, NEW c \in Callers, RecordFlow(c)
  PROVE  Inv'
<1>1. Past(c) /\ job[c].stage # "announce" /\ UNCHANGED <<said, phase, flowed, outside, cut>>
      /\ Release(c)
  BY DEF RecordFlow, Past
<1>2. row \in Row /\ job[c].seen = row /\ job[c].amount \in Int
  BY <1>1, PastLock DEF JobRecord
<1> DEFINE mark == AtLeastZero(row.mark + job[c].amount)
           start == AtLeastZero(row.dayStart + job[c].amount)
<1>3. row' = [row EXCEPT !.exists = TRUE, !.mark = mark, !.dayStart = start]
  BY <1>2 DEF RecordFlow
<1>4. mark \in Nat /\ start \in Nat
  <2>1. row.mark + job[c].amount \in Int /\ row.dayStart + job[c].amount \in Int
    BY <1>2 DEF Row
  <2> QED BY <2>1, Clamped
<1> HIDE DEF mark, start
<1>5. row' \in Row /\ row'.armed = row.armed /\ row'.exists
  BY <1>2, <1>3, <1>4 DEF Row
<1> QED BY <1>1, <1>5, ReleaseInv

LEMMA AnnounceInv ==
  ASSUME Inv, NEW c \in Callers, Announce(c)
  PROVE  Inv'
<1>1. Past(c) /\ UNCHANGED <<row, phase, flowed, outside>> /\ Release(c)
      /\ said' = job[c].seen.armed /\ cut' = FALSE
  BY DEF Announce, Past
<1>2. row \in Row /\ job[c].seen = row
  BY <1>1, PastLock
<1>3. row.armed => row.exists
  BY <1>1, PastLock
<1>4. said' \in BOOLEAN /\ said' = row'.armed
  BY <1>1, <1>2 DEF Row
<1>5. NoJob.stage = "none" /\ NoJob.op = "none" /\ NoJob \in JobRecord
  BY Types DEF NoJob
<1>6. TypeOK' /\ LockHeld' /\ Jobs' /\ RowKept'
  BY <1>1, <1>2, <1>3, <1>4, <1>5, LockedStep DEF Release
<1>7. SwitchAnnounced'
  BY <1>4 DEF SwitchAnnounced
<1> QED BY <1>6, <1>7 DEF Inv

LEMMA InsideInv ==
  ASSUME Inv, NEW c \in Callers, Inside(c)
  PROVE  Inv'
BY RollDayInv, JudgeInv, TripInv, RearmInv, RecordFlowInv, AnnounceInv DEF Inside
-----------------------------------------------------------------------------
(* The callers: checks while trading, operators, and the startup sequence. *)
LEMMA CheckInv ==
  ASSUME Inv, NEW c \in Checkers, Check(c)
  PROVE  Inv'
<1>1. c \in Callers /\ c \notin Operators /\ c # Boot
  BY Types, CallersAssumption
<1>2. worth \in Nat
  BY Types DEF Inv, TypeOK, Check
<1>3. phase = "up" /\ phase' = phase /\ flowed' = flowed
  BY DEF Check, Call
<1>4. flowed' \in BOOLEAN
  BY <1>3 DEF Inv, TypeOK
<1>5. Queues(c, "check", worth) /\ MayAsk(c, "check", worth)
  BY <1>1, <1>2, <1>3, <1>4 DEF Check, Call, Queues, MayAsk
<1> QED BY <1>1, <1>2, <1>5, CallInv

LEMMA OperatorInv ==
  ASSUME Inv, NEW c \in Operators, AskTrip(c) \/ AskRearm(c)
  PROVE  Inv'
<1>1. c \in Callers /\ c \notin Checkers /\ c # Boot
  BY Types, CallersAssumption
<1>2. phase' = phase /\ flowed' \in BOOLEAN
  BY DEF AskTrip, AskRearm, Call, Inv, TypeOK
<1>3. CASE AskTrip(c)
  <2>1. Queues(c, "trip", 0) /\ MayAsk(c, "trip", 0)
    BY <1>1, <1>2, <1>3 DEF AskTrip, Call, Queues, MayAsk
  <2> QED BY <1>1, <2>1, CallInv
<1>4. CASE AskRearm(c)
  <2>1. worth \in Nat
    BY <1>4, Types DEF Inv, TypeOK, AskRearm
  <2>2. Queues(c, "rearm", worth) /\ MayAsk(c, "rearm", worth)
    BY <1>1, <1>2, <1>4, <2>1 DEF AskRearm, Call, Queues, MayAsk
  <2> QED BY <1>1, <2>1, <2>2, CallInv
<1> QED BY <1>3, <1>4

(* Nobody checks while the process starts up.                              *)
LEMMA NoCheckYet ==
  ASSUME Inv, phase \in {"first", "boot"}
  PROVE  \A d \in Callers : job[d].op # "check"
BY DEF Inv, Jobs, Job

LEMMA BootFlowInv ==
  ASSUME Inv, BootFlow
  PROVE  Inv'
<1>1. PICK amount \in {-1, 1} : job' = [job EXCEPT ![Boot] = Asked("flow", amount)]
  BY DEF BootFlow
<1>2. /\ job[Boot] = NoJob /\ phase \in {"first", "boot"} /\ phase' = phase
      /\ flowed' \in BOOLEAN
      /\ UNCHANGED <<row, said, holder, outside, cut>>
  BY DEF BootFlow, StartingUp
<1>3. Queues(Boot, "flow", amount) /\ MayAsk(Boot, "flow", amount)
  BY <1>1, <1>2, Types DEF Queues, MayAsk
<1> QED BY <1>3, Types, CallInv

LEMMA BootArmInv ==
  ASSUME Inv, BootArm
  PROVE  Inv'
<1> DEFINE amount == IF worth = None THEN 0 ELSE worth
<1>1. amount \in Nat
  BY Types DEF Inv, TypeOK
<1>2. Call(Boot, "rearm", amount) /\ phase = "first"
  BY DEF BootArm
<1> HIDE DEF amount
<1>3. phase' = phase /\ flowed' \in BOOLEAN
  BY <1>2 DEF Call, Inv, TypeOK
<1>4. Queues(Boot, "rearm", amount) /\ MayAsk(Boot, "rearm", amount)
  BY <1>1, <1>2, <1>3, Types DEF Call, Queues, MayAsk
<1> QED BY <1>1, <1>4, Types, CallInv

(* Startup ends with no request of its own pending, or with a trip.        *)
LEMMA PhaseInv ==
  ASSUME Inv, phase \in {"first", "boot"}, job[Boot] = NoJob,
         phase' \in {"up", "halted"},
         phase' = "up" => row.exists,
         flowed' \in BOOLEAN,
         UNCHANGED <<row, said, job, holder, outside, cut>>
  PROVE  Inv'
<1>1. TypeOK' /\ LockHeld' /\ SwitchAnnounced'
  BY DEF Inv, TypeOK, LockHeld, SwitchAnnounced, outside
<1>2. RowKept'
  BY DEF Inv, RowKept
<1>3. Jobs'
  <2> SUFFICES ASSUME NEW d \in Callers PROVE Job(d)'
    BY DEF Jobs
  <2>1. Job(d) /\ job[d].op # "check" /\ (d = Boot => job[d].op = "none")
    BY NoCheckYet DEF Inv, Jobs, NoJob
  <2> QED BY <2>1 DEF Job
<1> QED BY <1>1, <1>2, <1>3 DEF Inv

LEMMA BootHaltInv ==
  ASSUME Inv, BootHalt
  PROVE  Inv'
<1>1. /\ job[Boot] = NoJob /\ phase \in {"first", "boot"} /\ phase' = "halted"
      /\ flowed' \in BOOLEAN
      /\ UNCHANGED <<row, said, holder, outside, cut>>
  BY DEF BootHalt, StartingUp
<1>2. CASE UNCHANGED job
  BY <1>1, <1>2, PhaseInv
<1>3. CASE job' = [job EXCEPT ![Boot] = Asked("trip", 0)]
  <2>1. \A d \in Callers \ {Boot} : job[d].op # "check" /\ (d = Boot => job[d].op = "none")
    BY <1>1, NoCheckYet
  <2>2. Queues(Boot, "trip", 0) /\ MayAsk(Boot, "trip", 0)
    BY <1>1, <1>3, <2>1, Types DEF Queues, MayAsk
  <2> QED BY <2>2, Types, CallInv
<1> QED BY <1>2, <1>3 DEF BootHalt

LEMMA BootDoneInv ==
  ASSUME Inv, BootDone
  PROVE  Inv'
<1>1. /\ job[Boot] = NoJob /\ phase \in {"first", "boot"} /\ phase' = "up"
      /\ flowed' \in BOOLEAN
      /\ UNCHANGED <<row, said, job, holder, outside, cut>>
  BY DEF BootDone, StartingUp
<1>2. row.exists
  BY <1>1 DEF BootDone, Inv, RowKept
<1> QED BY <1>1, <1>2, PhaseInv

LEMMA WorldInv ==
  ASSUME Inv, Market \/ NewDay
  PROVE  Inv'
<1>1. UNCHANGED <<row, said, job, holder, phase, flowed, crashes, cut>>
  BY DEF Market, NewDay
<1>2. worth' \in Money \cup {None} /\ today' \in Nat
  BY DEF Market, NewDay, Inv, TypeOK
<1>3. TypeOK'
  BY <1>1, <1>2 DEF Inv, TypeOK
<1> QED BY <1>1, <1>3
    DEF Inv, LockHeld, Jobs, Job, RowKept, SwitchAnnounced

(* A crash forgets the requests; one that was announcing is remembered.    *)
LEMMA CrashInv ==
  ASSUME Inv, Crash
  PROVE  Inv'
<1>1. /\ job' = [c \in Callers |-> NoJob]
      /\ \A c \in Callers : job'[c].op = "none" /\ job'[c].stage = "none"
  BY DEF Crash, NoJob
<1>2. job' \in [Callers -> JobRecord]
  BY <1>1, Types
<1>3. cut' = (cut \/ \E c \in Callers : job[c].stage = "announce")
      /\ UNCHANGED <<row, said, worth, today>>
  BY DEF Crash
<1>4. cut' \in BOOLEAN
  BY <1>3 DEF Inv, TypeOK
<1>5. phase' = (IF row.exists THEN "boot" ELSE "first") /\ flowed' = FALSE
      /\ holder' = None /\ crashes' = crashes + 1
  BY DEF Crash
<1>6. TypeOK'
  <2>1. crashes' \in Nat
    BY <1>5 DEF Inv, TypeOK
  <2>2. phase' \in {"first", "boot"}
    BY <1>5
  <2> QED BY <1>2, <1>3, <1>4, <1>5, <2>1, <2>2 DEF Inv, TypeOK, JobRecord
<1>7. LockHeld' /\ Jobs'
  BY <1>1 DEF LockHeld, Jobs, Job
<1>8. RowKept'
  BY <1>3, <1>5 DEF Inv, RowKept
<1>9. SwitchAnnounced'
  BY <1>3 DEF Inv, SwitchAnnounced
<1> QED BY <1>6, <1>7, <1>8, <1>9 DEF Inv

LEMMA InvStep == Inv /\ [Next]_vars => Inv'
<1> SUFFICES ASSUME Inv, [Next]_vars PROVE Inv'
  OBVIOUS
<1>1. CASE \E c \in Checkers : Check(c)
  BY <1>1, CheckInv
<1>2. CASE ByOperators
  BY <1>2, OperatorInv DEF ByOperators
<1>3. CASE BootFlow \/ BootHalt \/ BootArm \/ BootDone
  BY <1>3, BootFlowInv, BootHaltInv, BootArmInv, BootDoneInv
<1>4. CASE \E c \in Callers : Acquire(c) \/ Inside(c)
  BY <1>4, AcquireInv, InsideInv
<1>5. CASE Market \/ NewDay
  BY <1>5, WorldInv
<1>6. CASE Crash
  BY <1>6, CrashInv
<1>7. CASE UNCHANGED vars
  BY <1>7 DEF vars, outside, Inv, TypeOK, LockHeld, Jobs, Job, RowKept, SwitchAnnounced
<1> QED BY <1>1, <1>2, <1>3, <1>4, <1>5, <1>6, <1>7 DEF Next

THEOREM InvHolds == Spec => []Inv
BY InvInit, InvStep, PTL DEF Spec

(* The types: in particular a baseline moved by a withdrawal is never      *)
(* below zero (Watchdog.record_flow clamps it).                            *)
THEOREM TypeCorrect == Spec => []TypeOK
<1>1. Inv => TypeOK
  BY DEF Inv
<1> QED BY <1>1, InvHolds, PTL

(* The log is right about the switch unless a crash cut the announcement   *)
(* off (Watchdog._trip), for any number of checks and operators.           *)
THEOREM LogIsRight == Spec => []SwitchAnnounced
<1>1. Inv => SwitchAnnounced
  BY DEF Inv
<1> QED BY <1>1, InvHolds, PTL
-----------------------------------------------------------------------------
(* What KillSwitch sees of the watchdog.                                   *)
Sees == <<row.armed, row.mark, AskedToRearm, phase \in {"up", "halted"},
          row.exists /\ phase # "first">>

AsksToRearm(j) == j.op = "rearm" /\ j.stage \in {"queued", "rearm"}

LEMMA Stutters ==
  ASSUME row'.armed = row.armed, row'.mark = row.mark, AskedToRearm' = AskedToRearm,
         phase' = phase,
         phase # "first" => row'.exists = row.exists
  PROVE  UNCHANGED Switch!switchVars
<1>1. (row'.exists /\ phase' # "first") = (row.exists /\ phase # "first")
  <2>1. CASE phase = "first"
    BY <2>1
  <2>2. CASE phase # "first"
    BY <2>2
  <2> QED BY <2>1, <2>2
<1>2. (phase' \in {"up", "halted"}) = (phase \in {"up", "halted"})
  OBVIOUS
<1> QED BY <1>1, <1>2 DEF Switch!switchVars

(* A job that neither becomes nor stops being an operator's wish to re-arm.*)
LEMMA SameWishes ==
  ASSUME Inv, NEW c \in Callers, NEW j, job' = [job EXCEPT ![c] = j],
         c \in Operators => (AsksToRearm(j) <=> AsksToRearm(job[c]))
  PROVE  AskedToRearm' = AskedToRearm
<1>1. job \in [Callers -> JobRecord] /\ Operators \subseteq Callers
  BY Types DEF Inv, TypeOK, JobRecord
<1>2. job'[c] = j /\ \A d \in Callers \ {c} : job'[d] = job[d]
  BY <1>1
<1>3. \A d \in Operators : AsksToRearm(job'[d]) <=> AsksToRearm(job[d])
  BY <1>1, <1>2
<1> QED BY <1>3 DEF AskedToRearm, AsksToRearm

LEMMA SwitchInit == Init => Switch!Init
<1> SUFFICES ASSUME Init PROVE Switch!Init
  OBVIOUS
<1>1. row.armed = FALSE /\ row.mark = 0 /\ row.exists = FALSE /\ phase = "first"
  BY DEF Init, Absent
<1>2. AskedToRearm = {}
  BY Types DEF Init, AskedToRearm, NoJob
<1> QED BY <1>1, <1>2 DEF Switch!Init

LEMMA CallsStutter ==
  ASSUME Inv, NEW c \in Callers, NEW op \in Ops, NEW amount \in Int,
         Queues(c, op, amount), phase' = phase, op # "rearm" \/ c \notin Operators
  PROVE  UNCHANGED Switch!switchVars
<1> USE DEF Queues
<1>1. c \in Operators => (AsksToRearm(Asked(op, amount)) <=> AsksToRearm(job[c]))
  BY FreshJob DEF AsksToRearm, NoJob
<1>2. AskedToRearm' = AskedToRearm
  BY <1>1, SameWishes
<1> QED BY <1>2, Stutters

(* An operator asks; nothing else of the switch moves.                     *)
LEMMA WishIsAsk ==
  ASSUME Inv, NEW c \in Operators, AskRearm(c)
  PROVE  Switch!Ask(c)
<1>1. /\ job \in [Callers -> JobRecord] /\ Operators \subseteq Callers
      /\ job' = [job EXCEPT ![c] = Asked("rearm", worth)]
      /\ row' = row /\ phase' = phase
  BY Types DEF Inv, TypeOK, JobRecord, AskRearm, Call
<1>2. worth \in Int
  BY Types DEF Inv, TypeOK, AskRearm
<1>3. job'[c].op = "rearm" /\ job'[c].stage = "queued"
      /\ \A d \in Callers \ {c} : job'[d] = job[d]
  BY <1>1, <1>2, FreshJob
<1>4. AskedToRearm' = AskedToRearm \cup {c}
  BY <1>1, <1>3 DEF AskedToRearm
<1> QED BY <1>1, <1>4 DEF Switch!Ask

LEMMA AcquireStutters ==
  ASSUME Inv, NEW c \in Callers, Acquire(c)
  PROVE  UNCHANGED Switch!switchVars
<1> DEFINE stage == IF job[c].op = "check" THEN "roll" ELSE job[c].op
           j == MovedOn(c, stage, row)
<1>1. job[c] \in JobRecord /\ row \in Row /\ job[c].stage = "queued"
      /\ row' = row /\ phase' = phase
  BY DEF Acquire, Inv, TypeOK, JobRecord
<1>2. stage \in Stages /\ To(c, stage, row)
  <2>1. job[c].op \in Ops
    BY <1>1 DEF JobRecord
  <2> QED BY <2>1 DEF Acquire
<1>3. job[c].op = "rearm" => stage = "rearm"
  OBVIOUS
<1> HIDE DEF stage
<1>4. j.op = job[c].op /\ j.stage = stage /\ job' = [job EXCEPT ![c] = j]
  BY <1>1, <1>2, ToIs DEF Inv
<1> HIDE DEF j
<1>5. AsksToRearm(j) <=> AsksToRearm(job[c])
  BY <1>1, <1>3, <1>4 DEF AsksToRearm
<1>6. AskedToRearm' = AskedToRearm
  BY <1>4, <1>5, SameWishes
<1> QED BY <1>1, <1>6, Stutters

(* A step of the holder that is not a re-arming leaves the wishes alone.   *)
LEMMA MovedKeeps ==
  ASSUME Inv, NEW c \in Callers, job[c].stage # "rearm", Past(c),
         \/ Release(c)
         \/ Announcing(c, row')
         \/ \E stage \in {"judge", "trip"}, seen \in Row : To(c, stage, seen)
  PROVE  AskedToRearm' = AskedToRearm
<1>1. ~AsksToRearm(job[c])
  BY DEF AsksToRearm, Past
<1>2. CASE Release(c)
  <2>1. ~AsksToRearm(NoJob)
    BY DEF AsksToRearm, NoJob
  <2> QED BY <1>1, <1>2, <2>1, SameWishes DEF Release
<1>3. CASE Announcing(c, row')
  <2> DEFINE j == [op |-> job[c].op, stage |-> "announce", amount |-> 0, seen |-> row']
  <2>1. job' = [job EXCEPT ![c] = j] /\ j.stage = "announce"
    BY <1>3 DEF Announcing
  <2> HIDE DEF j
  <2>2. ~AsksToRearm(j)
    BY <2>1 DEF AsksToRearm
  <2> QED BY <1>1, <2>1, <2>2, SameWishes
<1>4. ASSUME NEW stage \in {"judge", "trip"}, NEW seen \in Row, To(c, stage, seen)
      PROVE  AskedToRearm' = AskedToRearm
  <2> DEFINE j == MovedOn(c, stage, seen)
  <2>1. stage \in Stages
    OBVIOUS
  <2>2. job' = [job EXCEPT ![c] = j] /\ j.stage = stage
    BY <1>4, <2>1, ToIs DEF Inv
  <2> HIDE DEF j
  <2>3. ~AsksToRearm(j)
    BY <2>2 DEF AsksToRearm
  <2> QED BY <1>1, <2>2, <2>3, SameWishes
<1> QED BY <1>2, <1>3, <1>4

LEMMA RollDayStutters ==
  ASSUME Inv, NEW c \in Callers, RollDay(c)
  PROVE  UNCHANGED Switch!switchVars
<1>1. Past(c) /\ job[c].stage # "rearm" /\ phase' = phase
  BY DEF RollDay, Past
<1>2. row \in Row /\ job[c].seen = row /\ today \in Int
  BY <1>1, PastLock
<1>3. job[c].amount \in Nat /\ row.exists = TRUE
  BY <1>2 DEF RollDay, Inv, Jobs, Job, RowKept, Row
<1> DEFINE rolled == [row EXCEPT !.exists = TRUE, !.dayStart = job[c].amount, !.day = today]
<1>4. \/ row' = row /\ To(c, "judge", row)
      \/ row' = rolled /\ To(c, "judge", rolled)
  BY <1>2 DEF RollDay
<1>5. rolled \in Row /\ rolled.armed = row.armed /\ rolled.mark = row.mark
      /\ rolled.exists = TRUE
  BY <1>2, <1>3 DEF Row
<1> HIDE DEF rolled
<1>6. row'.armed = row.armed /\ row'.mark = row.mark /\ row'.exists = row.exists
  BY <1>3, <1>4, <1>5
<1>7. AskedToRearm' = AskedToRearm
  BY <1>1, <1>2, <1>4, <1>5, MovedKeeps
<1> QED BY <1>1, <1>6, <1>7, Stutters

LEMMA JudgeImplements ==
  ASSUME Inv, NEW c \in Callers, Judge(c)
  PROVE  Switch!Raise \/ UNCHANGED Switch!switchVars
<1>1. /\ Past(c) /\ job[c].stage # "rearm" /\ phase' = phase
      /\ \/ row' = row /\ To(c, "trip", row)
         \/ row' = row /\ Release(c)
         \/ /\ row.armed /\ job[c].amount \in Nat /\ job[c].amount > row.mark
            /\ row' = [row EXCEPT !.mark = job[c].amount]
            /\ Release(c)
  BY JudgeCases
<1>2. row \in Row
  BY <1>1, PastLock
<1>3. AskedToRearm' = AskedToRearm
  BY <1>1, <1>2, MovedKeeps
<1>4. CASE row' = row
  BY <1>1, <1>3, <1>4, Stutters
<1>5. CASE /\ row.armed /\ job[c].amount \in Nat /\ job[c].amount > row.mark
           /\ row' = [row EXCEPT !.mark = job[c].amount]
  <2>1. row'.armed = row.armed /\ row'.exists = row.exists /\ row'.mark = job[c].amount
    BY <1>2, <1>5 DEF Row
  <2>2. (row'.exists /\ phase' # "first") = (row.exists /\ phase # "first")
        /\ (phase' \in {"up", "halted"}) = (phase \in {"up", "halted"})
    BY <1>1, <2>1
  <2> QED BY <1>3, <1>5, <2>1, <2>2 DEF Switch!Raise
<1> QED BY <1>1, <1>4, <1>5

LEMMA TripImplements ==
  ASSUME Inv, NEW c \in Callers, Trip(c)
  PROVE  Switch!Trip \/ UNCHANGED Switch!switchVars
<1>1. Past(c) /\ job[c].stage # "rearm" /\ phase' = phase
  BY DEF Trip, Past
<1>2. row \in Row /\ job[c].seen = row
  BY <1>1, PastLock
<1>3. CASE ~job[c].seen.armed
  <2>1. row' = row /\ Release(c)
    BY <1>3 DEF Trip
  <2>2. AskedToRearm' = AskedToRearm
    BY <1>1, <2>1, MovedKeeps
  <2> QED BY <1>1, <2>1, <2>2, Stutters
<1>4. CASE job[c].seen.armed
  <2>1. row' = [row EXCEPT !.armed = FALSE] /\ Announcing(c, row')
    BY <1>2, <1>4 DEF Trip
  <2>2. row'.armed = FALSE /\ row'.exists = row.exists /\ row'.mark = row.mark
    BY <1>2, <2>1 DEF Row
  <2>3. AskedToRearm' = AskedToRearm
    BY <1>1, <2>1, MovedKeeps
  <2>4. (row'.exists /\ phase' # "first") = (row.exists /\ phase # "first")
        /\ (phase' \in {"up", "halted"}) = (phase \in {"up", "halted"})
    BY <1>1, <2>2
  <2> QED BY <2>2, <2>3, <2>4 DEF Switch!Trip
<1> QED BY <1>3, <1>4

(* A human's wish is honoured, or startup arms a database of its own.      *)
LEMMA RearmImplements ==
  ASSUME Inv, NEW c \in Callers, Rearm(c)
  PROVE  (c \in Operators /\ Switch!Rearm(c)) \/ Switch!ArmFirst
<1>1. /\ Past(c) /\ job[c].op = "rearm" /\ job[c].stage = "rearm"
      /\ job[c].amount \in Nat /\ phase' = phase
  BY DEF Rearm, Past, Inv, Jobs, Job
<1>2. row'.armed = TRUE /\ row'.exists = TRUE /\ row'.mark \in Nat
  BY <1>1 DEF Rearm
<1> DEFINE j == [op |-> job[c].op, stage |-> "announce", amount |-> 0, seen |-> row']
<1>3. job' = [job EXCEPT ![c] = j] /\ j.stage = "announce"
  BY DEF Rearm, Announcing
<1> HIDE DEF j
<1>4. job \in [Callers -> JobRecord] /\ Operators \subseteq Callers
  BY Types DEF Inv, TypeOK, JobRecord
<1>5. job'[c].stage = "announce" /\ \A d \in Callers \ {c} : job'[d] = job[d]
  BY <1>3, <1>4
<1>6. AskedToRearm' = AskedToRearm \ {c}
  BY <1>4, <1>5 DEF AskedToRearm
<1>7. (phase' \in {"up", "halted"}) = (phase \in {"up", "halted"})
  BY <1>1
<1>8. CASE c \in Operators
  <2>1. c \in AskedToRearm
    BY <1>1, <1>8 DEF AskedToRearm
  <2>2. (row.exists /\ phase # "first") => (row'.exists /\ phase' # "first")
    BY <1>1, <1>2
  <2> QED BY <1>2, <1>6, <1>7, <1>8, <2>1, <2>2 DEF Switch!Rearm
<1>9. CASE c \notin Operators
  <2>1. c = Boot
    BY <1>1, <1>9 DEF Callers, Inv, Jobs, Job
  <2>2. phase = "first"
    BY <1>1, <2>1 DEF Inv, Jobs, Job
  <2>3. AskedToRearm' = AskedToRearm
    BY <1>6, <1>9 DEF AskedToRearm
  <2>4. (row'.exists /\ phase' # "first") = (row.exists /\ phase # "first")
    BY <1>1, <2>2
  <2> QED BY <1>2, <1>7, <2>2, <2>3, <2>4 DEF Switch!ArmFirst
<1> QED BY <1>8, <1>9

LEMMA RecordFlowImplements ==
  ASSUME Inv, NEW c \in Callers, RecordFlow(c)
  PROVE  Switch!MoveByFlow
<1>1. Past(c) /\ job[c].stage = "flow" /\ Release(c) /\ phase' = phase
  BY DEF RecordFlow, Past
<1>2. c = Boot /\ phase \in {"first", "boot"}
  BY <1>1 DEF Inv, Jobs, Job
<1>3. row \in Row /\ job[c].seen = row /\ job[c].amount \in Int
  BY <1>1, PastLock DEF JobRecord
<1> DEFINE mark == AtLeastZero(row.mark + job[c].amount)
           start == AtLeastZero(row.dayStart + job[c].amount)
<1>4. row' = [row EXCEPT !.exists = TRUE, !.mark = mark, !.dayStart = start]
  BY <1>3 DEF RecordFlow
<1>5. mark \in Nat
  <2>1. row.mark + job[c].amount \in Int
    BY <1>3 DEF Row
  <2> QED BY <2>1, Clamped
<1> HIDE DEF mark, start
<1>6. row'.armed = row.armed /\ row'.mark \in Nat /\ row'.exists = TRUE
  BY <1>3, <1>4, <1>5 DEF Row
<1>7. phase = "boot" => row.exists = TRUE
  BY <1>3 DEF Inv, RowKept, Row
<1>8. (row'.exists /\ phase' # "first") = (row.exists /\ phase # "first")
  <2>1. CASE phase = "first"
    BY <1>1, <2>1
  <2>2. CASE phase = "boot"
    BY <1>1, <1>6, <1>7, <2>2
  <2> QED BY <1>2, <2>1, <2>2
<1>9. AskedToRearm' = AskedToRearm
  BY <1>1, MovedKeeps
<1>10. (phase' \in {"up", "halted"}) = (phase \in {"up", "halted"})
       /\ phase \notin {"up", "halted"}
  BY <1>1, <1>2
<1> QED BY <1>6, <1>8, <1>9, <1>10 DEF Switch!MoveByFlow

LEMMA AnnounceStutters ==
  ASSUME Inv, NEW c \in Callers, Announce(c)
  PROVE  UNCHANGED Switch!switchVars
<1>1. Past(c) /\ job[c].stage # "rearm" /\ Release(c) /\ row' = row /\ phase' = phase
  BY DEF Announce, Past
<1> QED BY <1>1, MovedKeeps, Stutters

LEMMA PhaseImplements ==
  ASSUME Inv, BootHalt \/ BootDone
  PROVE  Switch!Open
<1>1. row' = row /\ phase \in {"first", "boot"} /\ phase' \in {"up", "halted"}
  BY DEF BootHalt, BootDone, StartingUp
<1>2. AskedToRearm' = AskedToRearm
  <2>1. CASE job' = job
    BY <2>1 DEF AskedToRearm
  <2>2. CASE job' = [job EXCEPT ![Boot] = Asked("trip", 0)]
    BY <2>2, Types, SameWishes
  <2> QED BY <2>1, <2>2 DEF BootHalt, BootDone
<1>3. (row.exists /\ phase # "first") => (row'.exists /\ phase' # "first")
      /\ (phase' \in {"up", "halted"}) = TRUE
  BY <1>1
<1> QED BY <1>1, <1>2, <1>3 DEF Switch!Open

LEMMA CrashImplements ==
  ASSUME Inv, Crash
  PROVE  Switch!Restart
<1>1. row' = row /\ phase' = (IF row.exists THEN "boot" ELSE "first")
  BY DEF Crash
<1>2. AskedToRearm' = {}
  BY Types DEF Crash, AskedToRearm, NoJob
<1>3. (row.exists /\ phase # "first") => (row'.exists /\ phase' # "first")
  BY <1>1
<1>4. (phase' \in {"up", "halted"}) = FALSE
  BY <1>1
<1> QED BY <1>1, <1>2, <1>3, <1>4 DEF Switch!Restart

LEMMA SwitchStep ==
  ASSUME Inv, [Next]_vars
  PROVE  [Switch!Next]_Switch!switchVars
<1>1. ASSUME NEW c \in Checkers, Check(c)
      PROVE  UNCHANGED Switch!switchVars
  <2>1. c \in Callers /\ worth \in Int
    BY <1>1, Types DEF Check, Inv, TypeOK
  <2>2. Queues(c, "check", worth) /\ phase' = phase
    BY <1>1 DEF Check, Call, Queues, Inv, TypeOK
  <2> QED BY <2>1, <2>2, CallsStutter
<1>2. ASSUME NEW c \in Operators, AskTrip(c)
      PROVE  UNCHANGED Switch!switchVars
  <2>1. Queues(c, "trip", 0) /\ phase' = phase
    BY <1>2 DEF AskTrip, Call, Queues, Inv, TypeOK
  <2> QED BY <2>1, Types, CallsStutter
<1>3. ASSUME NEW c \in Operators, AskRearm(c)
      PROVE  Switch!Next
  BY <1>3, WishIsAsk DEF Switch!Next
<1>4. CASE BootFlow
  <2>1. PICK amount \in {-1, 1} : job' = [job EXCEPT ![Boot] = Asked("flow", amount)]
    BY <1>4 DEF BootFlow
  <2>2. Queues(Boot, "flow", amount) /\ phase' = phase
    BY <1>4, <2>1 DEF BootFlow, StartingUp, Queues
  <2> QED BY <2>2, Types, CallsStutter
<1>5. CASE BootArm
  <2> DEFINE amount == IF worth = None THEN 0 ELSE worth
  <2>1. amount \in Int
    BY Types DEF Inv, TypeOK
  <2>2. Call(Boot, "rearm", amount)
    BY <1>5 DEF BootArm
  <2> HIDE DEF amount
  <2>3. Queues(Boot, "rearm", amount) /\ phase' = phase
    BY <2>2 DEF Call, Queues, Inv, TypeOK
  <2> QED BY <2>1, <2>3, Types, CallsStutter
<1>6. CASE BootHalt \/ BootDone
  BY <1>6, PhaseImplements DEF Switch!Next
<1>7. ASSUME NEW c \in Callers, Acquire(c)
      PROVE  UNCHANGED Switch!switchVars
  BY <1>7, AcquireStutters
<1>8. ASSUME NEW c \in Callers, Inside(c)
      PROVE  Switch!Next \/ UNCHANGED Switch!switchVars
  <2>1. CASE RollDay(c) \/ Announce(c)
    BY <2>1, RollDayStutters, AnnounceStutters
  <2>2. CASE Judge(c)
    BY <2>2, JudgeImplements DEF Switch!Next
  <2>3. CASE Trip(c)
    BY <2>3, TripImplements DEF Switch!Next
  <2>4. CASE Rearm(c)
    BY <2>4, RearmImplements DEF Switch!Next
  <2>5. CASE RecordFlow(c)
    BY <2>5, RecordFlowImplements DEF Switch!Next
  <2> QED BY <1>8, <2>1, <2>2, <2>3, <2>4, <2>5 DEF Inside
<1>9. CASE Market \/ NewDay \/ UNCHANGED vars
  <2>1. row' = row /\ phase' = phase /\ job' = job
    BY <1>9 DEF Market, NewDay, vars
  <2>2. AskedToRearm' = AskedToRearm
    BY <2>1 DEF AskedToRearm
  <2> QED BY <2>1, <2>2, Stutters
<1>10. CASE Crash
  BY <1>10, CrashImplements DEF Switch!Next
<1> QED BY <1>1, <1>2, <1>3, <1>4, <1>5, <1>6, <1>7, <1>8, <1>9, <1>10 DEF Next, ByOperators

(* The watchdog implements the kill switch, whoever checks, trips, re-arms *)
(* and restarts: no write of a check re-arms a switch that has tripped     *)
(* meanwhile, and the mark falls only where a human asked (Watchdog.check, *)
(* and ADR 0027).                                                          *)
THEOREM ImplementsKillSwitch == Spec => KeepsItsPromises
<1>1. Init => Switch!Init
  BY SwitchInit
<1>2. Inv /\ [Next]_vars => [Switch!Next]_Switch!switchVars
  BY SwitchStep
<1> QED BY <1>1, <1>2, InvHolds, PTL DEF Spec, KeepsItsPromises, Switch!Spec
=============================================================================
