--------------------------- MODULE Background_proofs --------------------------
(***************************************************************************)
(* Proofs about the two parts that work beside the trading: Alerts, and    *)
(* Maintenance, which is instantiated as M (its assumption on the passes,  *)
(* M!PassesAssumption, is a hypothesis of its theorems); DayArchive is the *)
(* part of its state that PayloadKept is about.                            *)
(*                                                                         *)
(* Alerts.  The dispatcher never reads the log as a whole; it              *)
(* carries a streak and two positions from poll to poll, and any of them   *)
(* may be lost and taken from the row again.  The invariant says that a    *)
(* row is right (RowRight): its streak is the run of degraded cycles up to *)
(* its position, and everything due up to there has its notice; and that a *)
(* batch leaves nothing out before what it holds (Ahead).                  *)
(***************************************************************************)
EXTENDS Alerts, DayArchive, FiniteSetTheorems, TLAPS

CONSTANTS Tick, Cli, HotDays, KeepDays, MaxRuns, MaxFailed
VARIABLES age, step, rows, handle, trimmed, asof, today, ran, runs, failed

M == INSTANCE Maintenance WITH cursor <- trimmed, faults <- failed, MaxFaults <- MaxFailed

LEMMA Least ==
  ASSUME NEW S, S \subseteq Nat, S # {}
  PROVE  Min(S) \in S /\ \A x \in S : Min(S) <= x
<1> DEFINE R == OpToRel(<, Nat)
<1>1. IsWellFoundedOn(R, Nat)
  BY NatLessThanWellFounded
<1>2. R = {pair \in Nat \X Nat : pair[1] < pair[2]}
  BY DEF OpToRel
<1> HIDE DEF R
<1>3. PICK n \in S : \A m \in S : ~ (<<m, n>> \in R)
  BY <1>1, WFMin
<1>4. \A m \in S : n <= m
  <2> TAKE m \in S
  <2>1. m \in Nat /\ n \in Nat /\ ~ (<<m, n>> \in R)
    BY <1>3
  <2> QED BY ONLY <2>1, <1>2
<1> QED BY <1>4 DEF Min

----------------------------------------------------------------------------
(* The invariant.                                                          *)

\* The degraded cycles since the last sound one.
Run(n) == {j \in anchor + 1..n : /\ log[j].type = "degraded"
                                 /\ \A k \in j..n : log[k].type # "sound"}

RowRight(row) ==
  /\ row.day >= 1
  /\ row.recorded \in anchor..Len(log) /\ row.last \in 0..Len(log)
  /\ row.streak = Cardinality(Run(row.recorded))
  /\ \A i \in anchor + 1..row.recorded : log[i].type \in Sources /\ Due(i) => i \in Notified

HasTold(n) ==
  enabled => \A i \in anchor + 1..n : log[i].type = "notice" => log[i].cause \in told

\* Of what comes after seq, all that precedes an entry of b is in b.
Ahead(b, seq, types) ==
  /\ b \subseteq After(seq, types)
  /\ \A p \in b, j \in After(seq, types) : j < p => j \in b

\* Before alerting has ever run.
Silent ==
  anchor = -1 => /\ pc = "idle" /\ cursor = NoCursor
                 /\ \A i \in DOMAIN log : log[i].type # "notice"

Rightly == \A i \in Notified : i > 0 => i > anchor /\ i \in DOMAIN log /\ Due(i)

Recorder ==
  pc \in {"evaluate", "save", "summarised"} =>
    /\ anchor >= 0 /\ RowRight(local) /\ local.last = cursor.last
    /\ pc # "summarised" => Ahead(batch, local.recorded, Sources)

Messenger ==
  pc \in {"deliver", "sent"} =>
    /\ anchor >= 0 /\ enabled /\ batch # {} /\ Ahead(batch, cursor.last, {"notice"})
    /\ pc = "sent" => log[Min(batch)].cause \in told

Inv ==
  /\ TypeOK /\ Silent /\ Rightly /\ Recorder /\ Messenger
  /\ anchor >= 0 => RowRight(cursor) /\ HasTold(cursor.last)

----------------------------------------------------------------------------
(* The log.                                                                *)

LEMMA LogTyped ==
  ASSUME TypeOK
  PROVE  /\ Len(log) \in Nat /\ DOMAIN log = 1..Len(log)
         /\ \A i \in DOMAIN log : log[i].type \in Sources \cup {"notice", "dismissed"}
                                  /\ log[i].cause \in Int
         /\ anchor \in Nat \cup {-1}
<1> DEFINE E == [type : Sources \cup {"notice", "dismissed"}, cause : Int]
<1>1. log \in Seq(E)
  BY DEF TypeOK
<1> HIDE DEF E
<1>2. Len(log) \in Nat /\ DOMAIN log = 1..Len(log) /\ \A i \in 1..Len(log) : log[i] \in E
  BY <1>1
<1>3. \A i \in DOMAIN log : log[i].type \in Sources \cup {"notice", "dismissed"}
                           /\ log[i].cause \in Int
  BY <1>2 DEF E
<1> QED BY <1>2, <1>3 DEF TypeOK

LEMMA RunFinite ==
  ASSUME TypeOK, anchor \in Nat, NEW n \in Nat
  PROVE  IsFiniteSet(Run(n)) /\ Cardinality(Run(n)) \in Nat
<1>1. IsFiniteSet(anchor + 1..n)
  BY FS_Interval
<1>2. Run(n) \subseteq anchor + 1..n
  BY DEF Run
<1> QED BY <1>1, <1>2, FS_Subset, FS_CardinalityType

(* The streak, event by event: entries the rules do not read leave it.     *)
LEMMA NextRun ==
  ASSUME TypeOK, anchor \in Nat, NEW r \in anchor..Len(log), NEW s \in DOMAIN log, s > r,
         log[s].type \in Sources, \A j \in r + 1..s - 1 : log[j].type \notin Sources
  PROVE  Cardinality(Run(s)) = Advanced(log[s].type, Cardinality(Run(r)))
<1>1. r \in Nat /\ s \in Nat /\ s \notin Run(r)
  BY LogTyped DEF Run
<1>2. \A j \in r + 1..s - 1 : log[j].type # "degraded" /\ log[j].type # "sound"
  BY DEF Sources
<1>3. CASE log[s].type = "degraded"
  <2>1. Run(s) = Run(r) \cup {s}
    BY <1>1, <1>2, <1>3 DEF Run
  <2>2. Cardinality(Run(s)) = Cardinality(Run(r)) + 1
    BY <1>1, <2>1, RunFinite, FS_AddElement
  <2> QED BY <1>3, <2>2 DEF Advanced
<1>4. CASE log[s].type = "sound"
  <2>1. Run(s) = {}
    BY <1>1, <1>4 DEF Run
  <2> QED BY <1>4, <2>1, FS_EmptySet DEF Advanced
<1>5. CASE log[s].type \notin {"degraded", "sound"}
  <2>1. Run(s) = Run(r)
    BY <1>1, <1>2, <1>5 DEF Run
  <2> QED BY <1>5, <2>1 DEF Advanced
<1> QED BY <1>3, <1>4, <1>5

LEMMA ReadAhead ==
  ASSUME TypeOK, NEW seq, NEW types
  PROVE  Ahead(ReadAfter(seq, types), seq, types) /\ ReadAfter(seq, types) \subseteq DOMAIN log
<1> DEFINE all == After(seq, types)
           Before(i) == {j \in all : j < i}
<1>1. all \subseteq DOMAIN log /\ IsFiniteSet(DOMAIN log)
  BY LogTyped, FS_Interval DEF After
<1>2. ReadAfter(seq, types) = {i \in all : Cardinality(Before(i)) < Batch}
  BY DEF ReadAfter
<1>3. ASSUME NEW p \in all, NEW j \in all, Cardinality(Before(p)) < Batch, j < p
      PROVE  Cardinality(Before(j)) < Batch
  <2>1. Before(j) \subseteq Before(p)
    BY <1>1, <1>3, LogTyped
  <2>2. IsFiniteSet(Before(p))
    BY <1>1, FS_Subset
  <2> DEFINE Bj == Before(j)
             Bp == Before(p)
  <2>3. Bj \subseteq Bp /\ IsFiniteSet(Bp) /\ Cardinality(Bp) < Batch
    BY <2>1, <2>2, <1>3
  <2> HIDE DEF Bj, Bp
  <2>4. Cardinality(Bj) <= Cardinality(Bp) /\ Cardinality(Bj) \in Nat /\ Cardinality(Bp) \in Nat
    BY <2>3, FS_Subset, FS_CardinalityType
  <2>5. Cardinality(Bj) < Batch
    BY <2>3, <2>4, AlertsAssumption
  <2> QED BY <2>5 DEF Bj
<1> HIDE DEF Before
<1> QED BY <1>1, <1>2, <1>3 DEF Ahead

----------------------------------------------------------------------------
(* The log grows.                                                          *)

LogGrows ==
  /\ DOMAIN log \subseteq DOMAIN log' /\ Len(log) <= Len(log')
  /\ \A i \in DOMAIN log : log'[i] = log[i]

LEMMA Appending ==
  ASSUME TypeOK, NEW e, log' = Append(log, e)
  PROVE  /\ LogGrows /\ Len(log') = Len(log) + 1 /\ log'[Len(log')] = e
         /\ DOMAIN log' = DOMAIN log \cup {Len(log')} /\ Len(log') \notin DOMAIN log
<1>1. log \in Seq([type : Sources \cup {"notice", "dismissed"}, cause : Int])
  BY DEF TypeOK
<1> QED BY <1>1 DEF LogGrows

LEMMA Carried ==
  ASSUME TypeOK, TypeOK', LogGrows, anchor' = anchor, anchor \in Nat, told \subseteq told',
         enabled' = enabled
  PROVE  /\ \A n \in 0..Len(log) : Run(n)' = Run(n)
         /\ \A i \in DOMAIN log : Due(i)' <=> Due(i)
         /\ Notified \subseteq Notified'
         /\ \A row \in Row : RowRight(row) => RowRight(row)'
         /\ \A n \in 0..Len(log) : HasTold(n) => HasTold(n)'
<1>0. Len(log) \in Nat /\ DOMAIN log = 1..Len(log) /\ Len(log') \in Nat /\ Len(log) <= Len(log')
      /\ \A i \in DOMAIN log : log'[i] = log[i]
  <2>1. Len(log') \in Nat
    BY DEF TypeOK
  <2> QED BY <2>1, LogTyped DEF LogGrows
<1>1. ASSUME NEW n \in 0..Len(log) PROVE Run(n)' = Run(n)
  BY <1>0 DEF Run
<1>2. ASSUME NEW i \in DOMAIN log PROVE Due(i)' <=> Due(i)
  <2>1. Run(i)' = Run(i)
    BY <1>0, <1>1
  <2>2. Due(i) <=> \/ log[i].type \in {"halted", "passed", "unsendable"}
                   \/ log[i].type = "degraded" /\ Cardinality(Run(i)) = StreakLimit
    BY DEF Due, Run
  <2>3. Due(i)' <=> \/ log'[i].type \in {"halted", "passed", "unsendable"}
                    \/ log'[i].type = "degraded" /\ Cardinality(Run(i)') = StreakLimit
    BY DEF Due, Run
  <2> QED BY <1>0, <2>1, <2>2, <2>3
<1>3. Notified \subseteq Notified'
  BY DEF Notified, LogGrows
<1>4. ASSUME NEW row \in Row, RowRight(row) PROVE RowRight(row)'
  <2>1. row.recorded \in anchor..Len(log) /\ row.last \in 0..Len(log) /\ row.recorded \in 0..Len(log)
    BY <1>0, <1>4 DEF RowRight
  <2>2. row.recorded \in anchor..Len(log') /\ row.last \in 0..Len(log')
    BY <1>0, <2>1
  <2>3. row.streak = Cardinality(Run(row.recorded)')
    BY <1>1, <1>4, <2>1 DEF RowRight
  <2>4. ASSUME NEW i \in anchor + 1..row.recorded, log'[i].type \in Sources, Due(i)'
        PROVE  i \in Notified'
    <3>1. i \in DOMAIN log
      BY <1>0, <2>1
    <3>2. log[i].type \in Sources /\ Due(i)
      BY <1>0, <1>2, <2>4, <3>1
    <3> QED BY <1>3, <1>4, <3>2 DEF RowRight
  <2> QED BY <1>4, <2>2, <2>3, <2>4 DEF RowRight
<1>5. ASSUME NEW n \in 0..Len(log), HasTold(n) PROVE HasTold(n)'
  <2>1. \A i \in anchor + 1..n : i \in DOMAIN log
    BY <1>0
  <2> QED BY <1>0, <1>5, <2>1 DEF HasTold
<1> QED BY <1>1, <1>2, <1>3, <1>4, <1>5

LEMMA AheadStays ==
  ASSUME TypeOK, LogGrows, NEW b, NEW seq, NEW types, Ahead(b, seq, types),
         \A j \in DOMAIN log' \ DOMAIN log : j > Len(log)
  PROVE  Ahead(b, seq, types)'
<1>1. \A p \in b : p <= Len(log)
  BY LogTyped DEF Ahead, After
<1>2. \A j \in After(seq, types)' : j \in After(seq, types) \/ j > Len(log)
  BY DEF After, LogGrows
<1>3. After(seq, types) \subseteq After(seq, types)'
  BY DEF After, LogGrows
<1>4. b \subseteq After(seq, types)'
  BY <1>3 DEF Ahead
<1>5. ASSUME NEW p \in b, NEW j \in After(seq, types)', j < p PROVE j \in b
  <2>1. p \in Nat /\ p <= Len(log) /\ j \in Int /\ Len(log) \in Nat
    BY <1>1, <1>2, <1>5, LogTyped DEF Ahead, After
  <2>2. j \in After(seq, types)
    BY <1>2, <1>5, <2>1
  <2> QED BY <1>5, <2>2 DEF Ahead
<1> QED BY <1>4, <1>5 DEF Ahead

(* The next of a batch, and what is left of it.                            *)
LEMMA NextUp == ASSUME TypeOK, batch # {} PROVE Min(batch) \in batch
<1>1. batch \subseteq Nat
  BY LogTyped DEF TypeOK
<1> QED BY <1>1, Least

LEMMA AheadTail ==
  ASSUME TypeOK, NEW b, NEW seq \in Nat, NEW types, Ahead(b, seq, types), b # {}
  PROVE  /\ Min(b) \in After(seq, types) /\ Min(b) \in Nat
         /\ \A j \in After(seq, types) : Min(b) <= j
         /\ Ahead(b \ {Min(b)}, Min(b), types)
<1>1. \A j \in DOMAIN log : j \in Nat
  BY LogTyped
<1>2. b \subseteq Nat
  BY <1>1 DEF Ahead, After
<1> DEFINE least == Min(b)
<1>3. least \in b /\ (\A p \in b : least <= p) /\ least \in Nat
  BY <1>2, Least
<1> HIDE DEF least
<1>4. least \in After(seq, types) /\ \A j \in After(seq, types) : j \in Nat
  BY <1>1, <1>3 DEF Ahead, After
<1>5. \A j \in After(seq, types) : least <= j
  <2> TAKE j \in After(seq, types)
  <2>1. j < least => j \in b
    BY <1>3 DEF Ahead
  <2>2. j \in Nat
    BY <1>4
  <2> QED BY <1>3, <2>1, <2>2
<1>6. After(least, types) = {j \in After(seq, types) : j > least}
  BY <1>1, <1>3, <1>4 DEF After
<1>7. Ahead(b \ {least}, least, types)
  <2>1. b \ {least} \subseteq After(least, types)
    <3>1. ASSUME NEW p \in b \ {least} PROVE p \in After(seq, types) /\ p > least
      <4>1. least <= p /\ p # least /\ p \in Nat /\ p \in After(seq, types)
        BY <1>2, <1>3 DEF Ahead
      <4> QED BY <1>3, <4>1
    <3> QED BY <1>6, <3>1
  <2>2. ASSUME NEW p \in b \ {least}, NEW j \in After(least, types), j < p
        PROVE  j \in b \ {least}
    <3>1. j \in After(seq, types) /\ j > least
      BY <1>6
    <3> QED BY <1>3, <2>2, <3>1 DEF Ahead
  <2> QED BY <2>1, <2>2 DEF Ahead
<1> QED BY <1>3, <1>4, <1>5, <1>7 DEF least

----------------------------------------------------------------------------
(* Types.                                                                  *)

LEMMA LogTypedAfter ==
  ASSUME TypeOK, NEW e \in [type : Sources \cup {"notice", "dismissed"}, cause : Int],
         log' = Append(log, e)
  PROVE  /\ log' \in Seq([type : Sources \cup {"notice", "dismissed"}, cause : Int])
         /\ DOMAIN log \subseteq DOMAIN log'
<1> DEFINE E == [type : Sources \cup {"notice", "dismissed"}, cause : Int]
<1>1. log \in Seq(E) /\ e \in E
  BY DEF TypeOK
<1> HIDE DEF E
<1>2. log' \in Seq(E) /\ DOMAIN log \subseteq DOMAIN log'
  BY <1>1
<1> QED BY <1>2 DEF E

LEMMA NotifyTyped ==
  ASSUME TypeOK, NEW cause \in Int, Notify(cause)
  PROVE  /\ log' \in Seq([type : Sources \cup {"notice", "dismissed"}, cause : Int])
         /\ DOMAIN log \subseteq DOMAIN log'
         /\ bell' \in [DOMAIN bell' -> {"open", "dismissed"}] /\ DOMAIN bell' \subseteq Int
<1>1. Entry("notice", cause) \in [type : Sources \cup {"notice", "dismissed"}, cause : Int]
  BY DEF Entry
<1>2. log' = Append(log, Entry("notice", cause)) /\ bell' = Raised(cause)
  BY DEF Notify
<1>3. DOMAIN bell' = DOMAIN bell \cup {cause}
  BY <1>2 DEF Raised
<1>4. \A c \in DOMAIN bell : bell[c] \in {"open", "dismissed"}
  BY DEF TypeOK
<1>5. bell' \in [DOMAIN bell \cup {cause} -> {"open", "dismissed"}]
  BY <1>2, <1>4 DEF Raised
<1> QED BY <1>1, <1>2, <1>3, <1>5, LogTypedAfter DEF TypeOK

LEMMA RowTyped ==
  ASSUME TypeOK
  PROVE  /\ NoCursor \in Row
         /\ cursor.last \in Nat /\ cursor.recorded \in Nat /\ cursor.streak \in Nat /\ cursor.day \in Nat
         /\ local.last \in Nat /\ local.recorded \in Nat /\ local.streak \in Nat /\ local.day \in Nat
BY DEF TypeOK, Row, NoCursor

LEMMA BeginTyped == ASSUME TypeOK, Begin PROVE TypeOK'
<1>1. cursor' \in Row /\ anchor' \in Nat \cup {-1}
  <2>1. Len(log) \in Nat /\ day \in Nat
    BY LogTyped, AlertsAssumption DEF TypeOK
  <2>2. [NoCursor EXCEPT !.last = Len(log), !.recorded = Len(log), !.day = day] \in Row
    BY <2>1 DEF NoCursor, Row
  <2> QED BY <2>1, <2>2 DEF Begin, TypeOK
<1>2. batch' \subseteq DOMAIN log'
  BY ReadAhead DEF Begin
<1>3. /\ local' = cursor' /\ pc' = "evaluate"
      /\ UNCHANGED <<log, bell, coming, day, enabled, faults, told>>
  BY DEF Begin
<1> QED BY <1>1, <1>2, <1>3 DEF TypeOK

LEMMA EvaluateTyped ==
  ASSUME TypeOK, Evaluate, Min(batch) \in batch
  PROVE  TypeOK'
<1>1. Min(batch) \in Nat /\ Min(batch) \in DOMAIN log
  BY LogTyped DEF TypeOK
<1>2. local' \in Row
  <2> DEFINE streak == Advanced(log[Min(batch)].type, local.streak)
             source == Min(batch)
  <2>1. streak \in Nat /\ source \in Nat
    BY <1>1, RowTyped DEF Advanced
  <2>2. local' = [local EXCEPT !.recorded = source, !.streak = streak]
    BY DEF Evaluate
  <2> HIDE DEF streak, source
  <2> QED BY <2>1, <2>2 DEF TypeOK, Row
<1>3. /\ log' \in Seq([type : Sources \cup {"notice", "dismissed"}, cause : Int])
      /\ DOMAIN log \subseteq DOMAIN log'
      /\ bell' \in [DOMAIN bell' -> {"open", "dismissed"}] /\ DOMAIN bell' \subseteq Int
  <2>1. CASE Notify(Min(batch))
    <3>1. PICK source : source = Min(batch)
      OBVIOUS
    <3>2. source \in Int /\ Notify(source)
      BY <1>1, <2>1, <3>1
    <3> QED BY <3>2, NotifyTyped
  <2>2. CASE UNCHANGED <<log, bell>>
    BY <2>2 DEF TypeOK
  <2> QED BY <2>1, <2>2 DEF Evaluate
<1>4. /\ batch' = batch \ {Min(batch)} /\ pc' = "save"
      /\ UNCHANGED <<coming, day, cursor, enabled, faults, anchor, told>>
  BY DEF Evaluate
<1> QED BY <1>2, <1>3, <1>4 DEF TypeOK

LEMMA SummariseTyped == ASSUME TypeOK, Summarise PROVE TypeOK'
<1>1. day \in Nat /\ -day \in Int
  BY AlertsAssumption DEF TypeOK
<1>2. local' \in Row
  BY <1>1 DEF Summarise, TypeOK, Row
<1>3. /\ log' \in Seq([type : Sources \cup {"notice", "dismissed"}, cause : Int])
      /\ DOMAIN log \subseteq DOMAIN log'
      /\ bell' \in [DOMAIN bell' -> {"open", "dismissed"}] /\ DOMAIN bell' \subseteq Int
  BY <1>1, NotifyTyped DEF Summarise
<1>4. pc' = "summarised" /\ UNCHANGED <<coming, day, cursor, enabled, batch, faults, anchor, told>>
  BY DEF Summarise
<1> QED BY <1>2, <1>3, <1>4 DEF TypeOK

LEMMA PollTyped ==
  ASSUME TypeOK, Save \/ Recorded \/ Refused \/ Chokes \/ CutShort \/ Deliver \/ Sent,
         Deliver \/ Sent => Min(batch) \in DOMAIN log
  PROVE  TypeOK'
<1>1. UNCHANGED <<log, bell, coming, day, enabled, anchor>>
  BY DEF Save, Recorded, Refused, Chokes, CutShort, Deliver, Sent
<1>2. /\ local' \in Row
      /\ pc' \in {"idle", "evaluate", "save", "summarised", "deliver", "sent"}
  BY RowTyped DEF TypeOK, Save, Recorded, Refused, Chokes, CutShort, Deliver, Sent, Drain
<1>3. batch' \subseteq DOMAIN log
  BY ReadAhead DEF TypeOK, Save, Recorded, Refused, Chokes, CutShort, Deliver, Sent, Drain, Undelivered
<1>4. cursor' \in Row
  <2>1. CASE Sent
    <3>1. Min(batch) \in Nat
      BY <2>1, LogTyped
    <3> QED BY <2>1, <3>1 DEF Sent, TypeOK, Row
  <2>2. CASE ~Sent
    BY <2>2 DEF TypeOK, Save, Recorded, Refused, Chokes, CutShort, Deliver
  <2> QED BY <2>1, <2>2
<1>5. faults' \in 0..MaxFaults
  BY AlertsAssumption DEF TypeOK, Save, Recorded, Refused, Chokes, CutShort, Deliver, Sent
<1>6. told' \subseteq Int
  BY LogTyped DEF TypeOK, Save, Recorded, Refused, Chokes, CutShort, Deliver, Sent
<1> QED BY <1>1, <1>2, <1>3, <1>4, <1>5, <1>6 DEF TypeOK

LEMMA WorldTyped ==
  ASSUME TypeOK, Happens \/ NextDay \/ \E cause \in DOMAIN bell : Dismiss(cause)
  PROVE  TypeOK' /\ LogGrows /\ \A j \in DOMAIN log' \ DOMAIN log : j > Len(log) /\ log'[j].type # "notice"
<1>1. CASE Happens
  <2> DEFINE e == Entry(Head(coming), 0)
  <2>1. Head(coming) \in Sources /\ Tail(coming) \in Seq(Sources)
    BY <1>1 DEF Happens, TypeOK
  <2>2. e \in [type : Sources \cup {"notice", "dismissed"}, cause : Int] /\ e.type # "notice"
    BY <2>1 DEF Entry, Sources
  <2>3. log' = Append(log, e) /\ coming' = Tail(coming)
        /\ UNCHANGED <<bell, day, cursor, enabled, poll, faults, anchor, told>>
    BY <1>1 DEF Happens
  <2> HIDE DEF e
  <2>4. TypeOK'
    BY <2>1, <2>2, <2>3, LogTypedAfter DEF TypeOK, poll
  <2> QED BY <2>2, <2>3, <2>4, Appending, LogTyped
<1>2. CASE NextDay
  <2>1. TypeOK'
    BY <1>2, AlertsAssumption DEF NextDay, TypeOK, poll
  <2> QED BY <1>2, <2>1, LogTyped DEF NextDay, LogGrows
<1>3. ASSUME NEW cause \in DOMAIN bell, Dismiss(cause)
      PROVE  TypeOK' /\ LogGrows /\ \A j \in DOMAIN log' \ DOMAIN log : j > Len(log) /\ log'[j].type # "notice"
  <2> DEFINE e == Entry("dismissed", cause)
  <2>1. e \in [type : Sources \cup {"notice", "dismissed"}, cause : Int] /\ e.type # "notice"
    BY DEF Entry, TypeOK
  <2>2. log' = Append(log, e) /\ bell' = [bell EXCEPT ![cause] = "dismissed"]
        /\ UNCHANGED <<coming, day, cursor, enabled, poll, faults, anchor, told>>
    BY <1>3 DEF Dismiss
  <2> HIDE DEF e
  <2>3. bell' \in [DOMAIN bell -> {"open", "dismissed"}] /\ DOMAIN bell' = DOMAIN bell
    BY <2>2 DEF TypeOK
  <2>4. TypeOK'
    BY <2>1, <2>2, <2>3, LogTypedAfter DEF TypeOK, poll
  <2> QED BY <2>1, <2>2, <2>4, Appending, LogTyped
<1> QED BY <1>1, <1>2, <1>3

LEMMA LogTypedNext ==
  ASSUME TypeOK'
  PROVE  /\ Len(log') \in Nat /\ DOMAIN log' = 1..Len(log')
         /\ \A i \in DOMAIN log' : log'[i].cause \in Int
<1> DEFINE E == [type : Sources \cup {"notice", "dismissed"}, cause : Int]
<1>1. log' \in Seq(E)
  BY DEF TypeOK
<1> HIDE DEF E
<1>2. Len(log') \in Nat /\ DOMAIN log' = 1..Len(log') /\ \A i \in 1..Len(log') : log'[i] \in E
  BY <1>1
<1> QED BY <1>2 DEF E

----------------------------------------------------------------------------
(* The steps.                                                              *)

LEMMA AtFirst == Init => Inv
<1> SUFFICES ASSUME Init PROVE Inv
  OBVIOUS
<1>1. TypeOK
  <2>1. coming \in Seq(Sources) /\ day \in 1..MaxDays /\ faults \in 0..MaxFaults
    BY AlertsAssumption DEF Init
  <2>2. log \in Seq([type : Sources \cup {"notice", "dismissed"}, cause : Int])
    BY DEF Init
  <2>3. bell \in [DOMAIN bell -> {"open", "dismissed"}] /\ DOMAIN bell \subseteq Int
    BY DEF Init
  <2>4. cursor \in Row /\ local \in Row
    BY DEF Init, NoCursor, Row
  <2> QED BY <2>1, <2>2, <2>3, <2>4 DEF Init, TypeOK
<1>2. DOMAIN log = {}
  BY DEF Init
<1> QED BY <1>1, <1>2 DEF Init, Inv, Silent, Rightly, Recorder, Messenger, Notified

(* Awake: alerting has run, and goes on from where it is.                  *)
LEMMA RightlyStays ==
  ASSUME TypeOK, Rightly, TypeOK', LogGrows, anchor' = anchor, anchor \in Nat, enabled' = enabled,
         told \subseteq told',
         \A i \in Notified' : i \in Notified \/ i < 0 \/ (i > anchor /\ i \in DOMAIN log /\ Due(i))
  PROVE  Rightly'
<1>1. \A i \in DOMAIN log : i \in DOMAIN log' /\ (Due(i)' <=> Due(i))
  BY Carried DEF LogGrows
<1>2. ASSUME NEW i \in Notified', i > 0 PROVE i > anchor /\ i \in DOMAIN log /\ Due(i)
  <2>1. i \in Notified => i > anchor /\ i \in DOMAIN log /\ Due(i)
    BY <1>2 DEF Rightly
  <2>2. \A j \in DOMAIN log' : log'[j].cause \in Int
    BY LogTypedNext
  <2>3. i \in Int
    BY <2>2 DEF Notified
  <2> QED BY <1>2, <2>1, <2>3
<1> QED BY <1>1, <1>2 DEF Rightly

LEMMA NoticesSame ==
  ASSUME TypeOK, LogGrows, \A j \in DOMAIN log' \ DOMAIN log : log'[j].type # "notice"
  PROVE  Notified' = Notified
BY DEF LogGrows, Notified

LEMMA QuietKeeps ==
  ASSUME Inv, TypeOK', LogGrows,
         \A j \in DOMAIN log' \ DOMAIN log : j > Len(log) /\ log'[j].type # "notice",
         UNCHANGED <<cursor, pc, batch, local, enabled, anchor, told>>
  PROVE  Inv'
<1>1. TypeOK /\ Notified' = Notified
  BY NoticesSame DEF Inv
<1>2. CASE anchor = -1
  <2>1. pc = "idle" /\ cursor = NoCursor /\ \A i \in DOMAIN log : log[i].type # "notice"
    BY <1>2 DEF Inv, Silent
  <2>2. \A i \in DOMAIN log' : log'[i].type # "notice"
    BY <2>1 DEF LogGrows
  <2>3. Notified' = {}
    BY <2>2 DEF Notified
  <2> QED BY <1>2, <2>1, <2>2, <2>3 DEF Inv, Silent, Rightly, Recorder, Messenger
<1>3. CASE anchor \in Nat
  <2>1. cursor \in Row /\ local \in Row /\ cursor.last \in 0..Len(log)
    BY <1>1, <1>3 DEF Inv, TypeOK, RowRight
  <2>2. RowRight(cursor)' /\ HasTold(cursor.last)'
    BY <1>1, <1>3, <2>1, Carried DEF Inv
  <2>3. Rightly'
    BY <1>1, <1>3, RightlyStays DEF Inv
  <2>4. Recorder'
    <3>1. CASE pc \in {"evaluate", "save", "summarised"}
      <4>1. RowRight(local)'
        BY <1>1, <1>3, <2>1, <3>1, Carried DEF Inv, Recorder
      <4>2. pc # "summarised" => Ahead(batch, local.recorded, Sources)'
        BY <1>1, <3>1, AheadStays DEF Inv, Recorder
      <4> QED BY <3>1, <4>1, <4>2 DEF Inv, Recorder
    <3>2. CASE pc \notin {"evaluate", "save", "summarised"}
      BY <3>2 DEF Recorder
    <3> QED BY <3>1, <3>2
  <2>5. Messenger'
    <3>1. CASE pc \in {"deliver", "sent"}
      <4>1. anchor >= 0 /\ enabled /\ batch # {} /\ Ahead(batch, cursor.last, {"notice"})
            /\ (pc = "sent" => log[Min(batch)].cause \in told)
        BY <3>1 DEF Inv, Messenger
      <4>2. Ahead(batch, cursor.last, {"notice"})'
        BY <1>1, <4>1, AheadStays
      <4>3. Min(batch) \in DOMAIN log
        BY <1>1, <4>1, NextUp DEF TypeOK
      <4> QED BY <4>1, <4>2, <4>3 DEF Messenger, LogGrows
    <3>2. CASE pc \notin {"deliver", "sent"}
      BY <3>2 DEF Messenger
    <3> QED BY <3>1, <3>2
  <2> QED BY <1>3, <2>2, <2>3, <2>4, <2>5 DEF Inv, Silent
<1> QED BY <1>1, <1>2, <1>3, LogTyped

LEMMA BeginKeeps == ASSUME Inv, Begin PROVE Inv'
<1>1. TypeOK /\ TypeOK'
  BY BeginTyped DEF Inv
<1>2. /\ pc' = "evaluate" /\ local' = cursor' /\ batch' = ReadAfter(cursor'.recorded, Sources)
      /\ UNCHANGED <<log, bell, coming, day, enabled, faults, told>>
  BY DEF Begin
<1>3. LogGrows /\ Notified' = Notified
  BY <1>1, <1>2, LogTyped DEF LogGrows, Notified
<1>4. Ahead(batch, local.recorded, Sources)'
  <2>1. PICK n : n = cursor'.recorded
    OBVIOUS
  <2>2. Ahead(ReadAfter(n, Sources), n, Sources)
    BY <1>1, ReadAhead
  <2>3. batch' = ReadAfter(n, Sources) /\ local'.recorded = n /\ log' = log
    BY <1>2, <2>1
  <2> QED BY <2>2, <2>3 DEF Ahead, After
<1>5. CASE Started(cursor)
  <2>1. cursor' = cursor /\ anchor' = anchor
    BY <1>5 DEF Begin
  <2>2. anchor \in Nat
    BY <1>1, <1>5, LogTyped DEF Inv, Silent, Started, NoCursor
  <2>3. cursor \in Row /\ cursor.last \in 0..Len(log)
    BY <1>1, <2>2 DEF Inv, TypeOK, RowRight
  <2>4. RowRight(cursor)' /\ HasTold(cursor.last)'
    BY <1>1, <1>2, <1>3, <2>1, <2>2, <2>3, Carried DEF Inv
  <2>5. RowRight(local)'
    BY <1>2, <2>4 DEF RowRight
  <2>6. Rightly'
    BY <1>1, <1>2, <1>3, <2>1, <2>2, RightlyStays DEF Inv
  <2> QED BY <1>1, <1>2, <1>4, <2>1, <2>2, <2>4, <2>5, <2>6 DEF Inv, Silent, Recorder, Messenger
<1>6. CASE ~Started(cursor)
  <2>1. anchor = -1
    <3>1. cursor.day >= 1 => Started(cursor)
      BY <1>1, RowTyped DEF Started
    <3> QED BY <1>1, <1>6, <3>1, LogTyped DEF Inv, RowRight
  <2>2. /\ anchor' = Len(log) /\ Len(log) \in Nat
        /\ cursor' = [NoCursor EXCEPT !.last = Len(log), !.recorded = Len(log), !.day = day]
        /\ day \in Nat /\ day >= 1
    BY <1>1, <1>6, <2>1, AlertsAssumption, LogTyped DEF Begin, TypeOK
  <2>3. /\ cursor'.recorded = Len(log) /\ cursor'.last = Len(log) /\ cursor'.day = day
        /\ cursor'.streak = 0
    BY <2>2 DEF NoCursor
  <2>4. Notified' = {}
    BY <1>3, <2>1 DEF Inv, Silent, Notified
  <2>5. anchor' + 1..cursor'.recorded = {} /\ anchor' + 1..cursor'.last = {}
    BY <2>2, <2>3
  <2>6. Cardinality(Run(cursor.recorded)') = 0
    <3>1. Run(cursor.recorded)' = {}
      BY <2>5 DEF Run
    <3> QED BY <3>1, FS_EmptySet
  <2>7. RowRight(cursor)' /\ HasTold(cursor.last)'
    BY <1>2, <2>2, <2>3, <2>5, <2>6 DEF RowRight, HasTold
  <2>8. RowRight(local)'
    BY <1>2, <2>7 DEF RowRight
  <2> QED BY <1>1, <1>2, <1>4, <2>2, <2>4, <2>7, <2>8 DEF Inv, Silent, Rightly, Recorder, Messenger
<1> QED BY <1>5, <1>6

LEMMA Noticed ==
  ASSUME TypeOK, NEW cause, Notify(cause)
  PROVE  LogGrows /\ Notified' = Notified \cup {cause}
<1>1. log' = Append(log, Entry("notice", cause))
  BY DEF Notify
<1>2. /\ LogGrows /\ log'[Len(log')] = Entry("notice", cause)
      /\ DOMAIN log' = DOMAIN log \cup {Len(log')} /\ Len(log') \notin DOMAIN log
  BY <1>1, Appending
<1>3. Entry("notice", cause).type = "notice" /\ Entry("notice", cause).cause = cause
  BY DEF Entry
<1>4. cause \in Notified'
  BY <1>2, <1>3 DEF Notified
<1>5. Notified \subseteq Notified'
  BY <1>2 DEF Notified, LogGrows
<1>6. \A j \in DOMAIN log' : log'[j].type = "notice" => log'[j].cause \in Notified \cup {cause}
  BY <1>2, <1>3 DEF Notified, LogGrows
<1>7. Notified' \subseteq Notified \cup {cause}
  BY <1>6 DEF Notified
<1> QED BY <1>2, <1>4, <1>5, <1>7

(* The log stays as it is.                                                 *)
LEMMA StillRight ==
  ASSUME TypeOK, TypeOK', anchor \in Nat, UNCHANGED <<log, anchor, enabled>>,
         told \subseteq told', Rightly
  PROVE  /\ Rightly'
         /\ \A row \in Row : RowRight(row) => RowRight(row)'
         /\ \A n \in 0..Len(log) : HasTold(n) => HasTold(n)'
<1>1. LogGrows /\ Notified' = Notified
  BY LogTyped DEF LogGrows, Notified
<1> QED BY <1>1, Carried, RightlyStays

LEMMA EvaluateKeeps == ASSUME Inv, Evaluate PROVE Inv'
<1>1. /\ TypeOK /\ anchor \in Nat /\ RowRight(local) /\ local.last = cursor.last
      /\ Ahead(batch, local.recorded, Sources) /\ batch # {} /\ RowRight(cursor)
      /\ HasTold(cursor.last) /\ Rightly
  BY LogTyped DEF Inv, Recorder, Evaluate
<1>2. TypeOK'
  BY <1>1, NextUp, EvaluateTyped
<1>3. PICK source : source = Min(batch)
  OBVIOUS
<1>4. PICK streak : streak = Advanced(log[source].type, local.streak)
  OBVIOUS
<1>5. /\ local' = [local EXCEPT !.recorded = source, !.streak = streak]
      /\ IF Fires(log[source].type, streak) THEN Notify(source) ELSE UNCHANGED <<log, bell>>
      /\ batch' = batch \ {source} /\ pc' = "save"
      /\ UNCHANGED <<coming, day, cursor, enabled, faults, anchor, told>>
  BY <1>3, <1>4 DEF Evaluate
<1>6. local.recorded \in Nat /\ local \in Row /\ cursor \in Row
  BY <1>1, RowTyped DEF TypeOK
<1>7. /\ source \in After(local.recorded, Sources) /\ source \in Nat
      /\ \A j \in After(local.recorded, Sources) : source <= j
      /\ Ahead(batch \ {source}, source, Sources)
  BY <1>1, <1>3, <1>6, AheadTail
<1>8. /\ source \in DOMAIN log /\ source > local.recorded /\ log[source].type \in Sources
      /\ local.recorded \in anchor..Len(log) /\ local.last \in 0..Len(log) /\ local.day >= 1
      /\ local.streak = Cardinality(Run(local.recorded))
  BY <1>1, <1>7 DEF After, RowRight
<1>9. \A j \in local.recorded + 1..source - 1 : log[j].type \notin Sources
  <2> SUFFICES ASSUME NEW j \in local.recorded + 1..source - 1, log[j].type \in Sources PROVE FALSE
    OBVIOUS
  <2>1. j \in DOMAIN log /\ j > local.recorded /\ j < source
    BY <1>1, <1>6, <1>7, <1>8, LogTyped
  <2> QED BY <1>7, <2>1 DEF After
<1>10. streak = Cardinality(Run(source))
  BY <1>1, <1>4, <1>8, <1>9, NextRun
<1>11. Fires(log[source].type, streak) <=> Due(source)
  BY <1>10 DEF Fires, Due, Run
<1>12. /\ LogGrows /\ Notified \subseteq Notified'
       /\ Due(source) => source \in Notified'
       /\ \A i \in Notified' : i \in Notified \/ (i = source /\ Due(source))
  <2>1. CASE Due(source)
    BY <1>1, <1>5, <1>11, <2>1, Noticed
  <2>2. CASE ~Due(source)
    BY <1>1, <1>5, <1>11, <2>2, LogTyped DEF LogGrows, Notified
  <2> QED BY <2>1, <2>2
<1>13. \A i \in DOMAIN log : log'[i] = log[i] /\ (Due(i)' <=> Due(i))
  BY <1>1, <1>2, <1>5, <1>12, Carried DEF LogGrows
<1>14. RowRight(cursor)' /\ HasTold(cursor.last)'
  <2>1. cursor.last \in 0..Len(log)
    BY <1>1 DEF RowRight
  <2> QED BY <1>1, <1>2, <1>5, <1>6, <1>12, <2>1, Carried
<1>15. RowRight(local)'
  <2>1. /\ local'.recorded = source /\ local'.streak = streak
        /\ local'.day = local.day /\ local'.last = local.last
    BY <1>5, <1>6 DEF Row
  <2>2. source \in anchor..Len(log') /\ local.last \in 0..Len(log')
    BY <1>1, <1>2, <1>6, <1>7, <1>8, <1>12, LogTyped, LogTypedNext DEF LogGrows
  <2>3. Run(source)' = Run(source)
    BY <1>1, <1>2, <1>5, <1>7, <1>8, <1>12, Carried, LogTyped
  <2>4. ASSUME NEW i \in anchor + 1..source, log'[i].type \in Sources, Due(i)'
        PROVE  i \in Notified'
    <3>1. i \in DOMAIN log /\ i \in Nat
      BY <1>1, <1>7, <1>8, LogTyped
    <3>2. log[i].type \in Sources /\ Due(i)
      BY <1>13, <2>4, <3>1
    <3>3. CASE i <= local.recorded
      BY <1>1, <1>6, <1>12, <3>1, <3>2, <3>3 DEF RowRight
    <3>4. CASE i > local.recorded /\ i < source
      BY <1>1, <1>6, <1>7, <1>9, <3>1, <3>2, <3>4
    <3>5. CASE i = source
      BY <1>12, <3>2, <3>5
    <3> QED BY <1>6, <1>7, <3>1, <3>3, <3>4, <3>5
  <2>5. local'.streak = Cardinality(Run(source)')
    BY <1>10, <2>1, <2>3
  <2> QED BY <1>5, <1>8, <2>1, <2>2, <2>4, <2>5 DEF RowRight
<1>16. Rightly'
  <2>1. source > anchor
    BY <1>1, <1>6, <1>7, <1>8
  <2>2. \A i \in Notified' : i \in Notified \/ (i > anchor /\ i \in DOMAIN log /\ Due(i))
    BY <1>8, <1>12, <2>1
  <2> QED BY <1>1, <1>2, <1>5, <1>12, <2>2, RightlyStays
<1>17. Ahead(batch, local.recorded, Sources)'
  <2>1. \A j \in DOMAIN log' \ DOMAIN log : j > Len(log)
    BY <1>1, <1>2, LogTyped, LogTypedNext
  <2>2. PICK rest : rest = batch \ {source}
    OBVIOUS
  <2>3. Ahead(rest, source, Sources)'
    BY <1>1, <1>7, <1>12, <2>1, <2>2, AheadStays
  <2>4. local'.recorded = source /\ batch' = rest
    BY <1>5, <1>6, <2>2 DEF Row
  <2> QED BY <2>3, <2>4 DEF Ahead, After
<1>18. local'.last = cursor'.last
  BY <1>1, <1>5, <1>6 DEF Row
<1> QED BY <1>1, <1>2, <1>5, <1>14, <1>15, <1>16, <1>17, <1>18
        DEF Inv, Silent, Recorder, Messenger

LEMMA SummariseKeeps == ASSUME Inv, Summarise PROVE Inv'
<1>1. /\ TypeOK /\ anchor \in Nat /\ RowRight(local) /\ local.last = cursor.last
      /\ RowRight(cursor) /\ HasTold(cursor.last) /\ Rightly
  BY LogTyped DEF Inv, Recorder, Summarise
<1>2. TypeOK' /\ day \in Nat /\ day >= 1
  BY <1>1, SummariseTyped, AlertsAssumption DEF TypeOK
<1>3. /\ Notify(-day) /\ local' = [local EXCEPT !.day = day] /\ pc' = "summarised"
      /\ UNCHANGED <<coming, day, cursor, enabled, batch, faults, anchor, told>>
  BY DEF Summarise
<1>4. LogGrows /\ \A i \in Notified' : i \in Notified \/ i < 0
  BY <1>1, <1>2, <1>3, Noticed
<1>5. cursor \in Row /\ local \in Row /\ cursor.last \in 0..Len(log)
  BY <1>1 DEF TypeOK, RowRight
<1>6. RowRight(cursor)' /\ HasTold(cursor.last)'
  BY <1>1, <1>2, <1>3, <1>4, <1>5, Carried
<1>7. RowRight(local)' /\ local'.last = cursor'.last
  <2>1. PICK row : row = local
    OBVIOUS
  <2>2. RowRight(row)'
    BY <1>1, <1>2, <1>3, <1>4, <1>5, <2>1, Carried
  <2>3. /\ local'.recorded = row.recorded /\ local'.streak = row.streak
        /\ local'.day = day /\ local'.last = row.last
    BY <1>3, <1>5, <2>1 DEF Row
  <2> QED BY <1>1, <1>2, <1>3, <2>1, <2>2, <2>3 DEF RowRight
<1>8. Rightly'
  BY <1>1, <1>2, <1>3, <1>4, RightlyStays
<1> QED BY <1>1, <1>2, <1>3, <1>6, <1>7, <1>8 DEF Inv, Silent, Recorder, Messenger

(* The poll goes on without appending anything.                            *)
LEMMA SaveKeeps == ASSUME Inv, Save PROVE Inv'
<1>1. /\ TypeOK /\ anchor \in Nat /\ RowRight(local) /\ local.last = cursor.last
      /\ Ahead(batch, local.recorded, Sources) /\ HasTold(cursor.last) /\ Rightly
  BY LogTyped DEF Inv, Recorder, Save
<1>2. TypeOK'
  BY <1>1, PollTyped DEF Save, Deliver, Sent
<1>3. /\ cursor' = local /\ pc' = "evaluate"
      /\ UNCHANGED <<log, bell, coming, day, enabled, batch, local, faults, anchor, told>>
  BY DEF Save
<1>4. RowRight(local)' /\ RowRight(cursor)'
  <2>1. PICK row : row = local /\ row \in Row
    BY <1>1 DEF TypeOK
  <2>2. RowRight(row)'
    BY <1>1, <1>2, <1>3, <2>1, StillRight
  <2> QED BY <1>3, <2>1, <2>2 DEF RowRight
<1>5. HasTold(cursor.last)'
  BY <1>1, <1>3 DEF HasTold
<1>6. Ahead(batch, local.recorded, Sources)'
  BY <1>1, <1>3 DEF Ahead, After
<1>7. Rightly'
  BY <1>1, <1>2, <1>3, StillRight
<1> QED BY <1>1, <1>2, <1>3, <1>4, <1>5, <1>6, <1>7 DEF Inv, Silent, Recorder, Messenger

LEMMA RecordedKeeps == ASSUME Inv, Recorded PROVE Inv'
<1>1. /\ TypeOK /\ anchor \in Nat /\ RowRight(local) /\ local.last = cursor.last
      /\ HasTold(cursor.last) /\ Rightly
  BY LogTyped DEF Inv, Recorder, Recorded
<1>2. TypeOK'
  BY <1>1, PollTyped DEF Recorded, Deliver, Sent
<1>3. /\ cursor' = local /\ batch' = Undelivered
      /\ pc' = (IF batch' = {} THEN "idle" ELSE "deliver")
      /\ UNCHANGED <<log, bell, coming, day, enabled, faults, anchor, told>>
  BY DEF Recorded, Drain
<1>4. RowRight(cursor)'
  <2>1. PICK row : row = local /\ row \in Row
    BY <1>1 DEF TypeOK
  <2>2. RowRight(row)'
    BY <1>1, <1>2, <1>3, <2>1, StillRight
  <2> QED BY <1>3, <2>1, <2>2 DEF RowRight
<1>5. HasTold(cursor.last)'
  BY <1>1, <1>3 DEF HasTold
<1>6. Rightly'
  BY <1>1, <1>2, <1>3, StillRight
<1>7. ASSUME pc' = "deliver"
      PROVE  enabled /\ batch' # {} /\ Ahead(batch, cursor.last, {"notice"})'
  <2>1. batch' # {} /\ enabled /\ batch' = ReadAfter(local.last, {"notice"})
    BY <1>3, <1>7 DEF Undelivered
  <2>2. Ahead(ReadAfter(local.last, {"notice"}), local.last, {"notice"})
    BY <1>1, ReadAhead
  <2> QED BY <1>3, <2>1, <2>2 DEF Ahead, After
<1> QED BY <1>1, <1>2, <1>3, <1>4, <1>5, <1>6, <1>7 DEF Inv, Silent, Recorder, Messenger

LEMMA DeliverKeeps == ASSUME Inv, Deliver PROVE Inv'
<1>1. /\ TypeOK /\ anchor \in Nat /\ enabled /\ batch # {} /\ Ahead(batch, cursor.last, {"notice"})
      /\ RowRight(cursor) /\ HasTold(cursor.last) /\ Rightly
  BY LogTyped DEF Inv, Messenger, Deliver
<1>2. TypeOK'
  BY <1>1, NextUp, PollTyped DEF TypeOK
<1>3. /\ told' = told \cup {log[Min(batch)].cause} /\ pc' = "sent"
      /\ UNCHANGED <<log, bell, coming, day, cursor, enabled, batch, local, faults, anchor>>
  BY DEF Deliver
<1>4. RowRight(cursor)'
  BY <1>1, <1>2, <1>3, StillRight DEF TypeOK
<1>5. HasTold(cursor.last)'
  BY <1>1, <1>3 DEF HasTold
<1>6. Rightly'
  BY <1>1, <1>2, <1>3, StillRight
<1>7. Ahead(batch, cursor.last, {"notice"})'
  BY <1>1, <1>3 DEF Ahead, After
<1>8. log'[Min(batch')].cause \in told'
  BY <1>3
<1> QED BY <1>1, <1>2, <1>3, <1>4, <1>5, <1>6, <1>7, <1>8 DEF Inv, Silent, Recorder, Messenger

LEMMA SentKeeps == ASSUME Inv, Sent PROVE Inv'
<1>1. /\ TypeOK /\ anchor \in Nat /\ enabled /\ batch # {} /\ Ahead(batch, cursor.last, {"notice"})
      /\ log[Min(batch)].cause \in told /\ RowRight(cursor) /\ HasTold(cursor.last) /\ Rightly
  BY LogTyped DEF Inv, Messenger, Sent
<1>2. TypeOK'
  BY <1>1, NextUp, PollTyped DEF TypeOK
<1>3. PICK sent : sent = Min(batch)
  OBVIOUS
<1>4. /\ cursor' = [cursor EXCEPT !.last = sent] /\ batch' = batch \ {sent}
      /\ pc' = (IF batch' = {} THEN "idle" ELSE "deliver")
      /\ UNCHANGED <<log, bell, coming, day, enabled, faults, anchor, told>>
  BY <1>3 DEF Sent, Drain
<1>5. cursor.last \in Nat /\ cursor \in Row
  BY <1>1, RowTyped DEF TypeOK
<1>6. /\ sent \in After(cursor.last, {"notice"}) /\ sent \in Nat
      /\ \A j \in After(cursor.last, {"notice"}) : sent <= j
      /\ Ahead(batch \ {sent}, sent, {"notice"})
  BY <1>1, <1>3, <1>5, AheadTail
<1>7. /\ cursor'.last = sent /\ cursor'.recorded = cursor.recorded
      /\ cursor'.streak = cursor.streak /\ cursor'.day = cursor.day
  BY <1>4, <1>5 DEF Row
<1>8. RowRight(cursor)'
  <2>1. sent \in 0..Len(log)
    BY <1>1, <1>6, LogTyped DEF After
  <2> QED BY <1>1, <1>4, <1>7, <2>1 DEF RowRight, Run, Due, Notified
<1>9. HasTold(cursor.last)'
  <2> SUFFICES ASSUME NEW i \in anchor + 1..sent, log[i].type = "notice"
               PROVE  log[i].cause \in told
    BY <1>4, <1>7 DEF HasTold
  <2>1. i \in Nat /\ i <= sent /\ i \in DOMAIN log
    BY <1>1, <1>6, LogTyped DEF After
  <2>2. CASE i <= cursor.last
    BY <1>1, <1>5, <2>1, <2>2 DEF HasTold
  <2>3. CASE i > cursor.last
    <3>1. i \in After(cursor.last, {"notice"})
      BY <2>1, <2>3 DEF After
    <3>2. i = sent
      BY <1>6, <2>1, <3>1
    <3> QED BY <1>1, <1>3, <3>2
  <2> QED BY <1>5, <2>1, <2>2, <2>3
<1>10. Rightly'
  BY <1>1, <1>2, <1>4, StillRight
<1>11. Ahead(batch, cursor.last, {"notice"})'
  BY <1>4, <1>6, <1>7 DEF Ahead, After
<1> QED BY <1>1, <1>2, <1>4, <1>8, <1>9, <1>10, <1>11 DEF Inv, Silent, Recorder, Messenger

LEMMA GivenUpKeeps == ASSUME Inv, Refused \/ Chokes \/ CutShort PROVE Inv'
<1>1. /\ TypeOK /\ anchor \in Nat /\ RowRight(cursor) /\ HasTold(cursor.last) /\ Rightly
  BY LogTyped DEF Inv, Silent, Recorder, Messenger, Refused, Chokes, CutShort
<1>2. TypeOK'
  <2>1. Deliver \/ Sent => Min(batch) \in DOMAIN log
    BY <1>1, NextUp DEF Inv, Messenger, Deliver, Sent, TypeOK
  <2> QED BY <1>1, <2>1, PollTyped
<1>3. pc' = "idle" /\ UNCHANGED <<log, bell, coming, day, cursor, enabled, anchor, told>>
  BY DEF Refused, Chokes, CutShort, Drain
<1>4. RowRight(cursor)'
  BY <1>1, <1>2, <1>3, StillRight DEF TypeOK
<1>5. HasTold(cursor.last)'
  BY <1>1, <1>3 DEF HasTold
<1>6. Rightly'
  BY <1>1, <1>2, <1>3, StillRight
<1> QED BY <1>1, <1>2, <1>3, <1>4, <1>5, <1>6 DEF Inv, Silent, Recorder, Messenger

LEMMA WorldKeeps ==
  ASSUME Inv, Happens \/ NextDay \/ \E cause \in DOMAIN bell : Dismiss(cause)
  PROVE  Inv'
<1>1. TypeOK' /\ LogGrows /\ \A j \in DOMAIN log' \ DOMAIN log : j > Len(log) /\ log'[j].type # "notice"
  BY WorldTyped DEF Inv
<1>2. UNCHANGED <<cursor, pc, batch, local, enabled, anchor, told>>
  BY DEF Happens, NextDay, Dismiss, poll
<1> QED BY <1>1, <1>2, QuietKeeps

LEMMA Steps == Inv /\ [Next]_vars => Inv'
<1> SUFFICES ASSUME Inv, [Next]_vars PROVE Inv'
  OBVIOUS
<1>1. CASE Begin
  BY <1>1, BeginKeeps
<1>2. CASE Evaluate
  BY <1>2, EvaluateKeeps
<1>3. CASE Save
  BY <1>3, SaveKeeps
<1>4. CASE Summarise
  BY <1>4, SummariseKeeps
<1>5. CASE Recorded
  BY <1>5, RecordedKeeps
<1>6. CASE Refused \/ Chokes \/ CutShort
  BY <1>6, GivenUpKeeps
<1>7. CASE Deliver
  BY <1>7, DeliverKeeps
<1>8. CASE Sent
  BY <1>8, SentKeeps
<1>9. CASE Happens \/ NextDay \/ \E cause \in DOMAIN bell : Dismiss(cause)
  BY <1>9, WorldKeeps
<1>10. CASE UNCHANGED vars
  <2>1. UNCHANGED <<log, bell, coming, day, cursor, enabled, pc, batch, local, faults, anchor, told>>
    BY <1>10 DEF vars, poll
  <2>2. TypeOK'
    BY <2>1 DEF Inv, TypeOK
  <2>3. LogGrows /\ \A j \in DOMAIN log' \ DOMAIN log : j > Len(log) /\ log'[j].type # "notice"
    BY <2>1, LogTyped DEF Inv, LogGrows
  <2> QED BY <2>1, <2>2, <2>3, QuietKeeps
<1> QED BY <1>1, <1>2, <1>3, <1>4, <1>5, <1>6, <1>7, <1>8, <1>9, <1>10 DEF Next, Dispatcher

(***************************************************************************)
(* The invariant holds of every reachable state.                           *)
(***************************************************************************)
THEOREM Invariant == Spec => []Inv
BY AtFirst, Steps, PTL DEF Spec

(***************************************************************************)
(* The shape of the state is what the code keeps it to.                    *)
(***************************************************************************)
THEOREM TypeCorrect == Spec => []TypeOK
<1>1. Inv => TypeOK
  BY DEF Inv
<1> QED BY <1>1, Invariant, PTL

(***************************************************************************)
(* Whatever cuts a poll short, every alert up to the recording cursor has  *)
(* its notice, nothing else has one, and no notice is left untold behind   *)
(* the delivery cursor (ops/dispatcher.py).                                *)
(***************************************************************************)
THEOREM NoAlertLost == Spec => []NothingMissed
<1>1. Inv => NothingMissed
  BY DEF Inv, NothingMissed, Rightly, RowRight, HasTold
<1> QED BY <1>1, Invariant, PTL

(***************************************************************************)
(* A cleared notice stays cleared: recording it again, after a crash lost  *)
(* the cursor, ignores the row that is there (persistence/projections.py). *)
(***************************************************************************)
THEOREM ClearedForGood == Spec => StaysDismissed
<1> DEFINE Kept == \A cause \in DOMAIN bell : bell[cause] = "dismissed" => bell'[cause] = "dismissed"
<1>1. ASSUME [Next]_vars PROVE [Kept]_vars
  <2>1. ASSUME NEW c, Notify(c) PROVE Kept
    BY <2>1 DEF Notify, Raised
  <2>2. ASSUME NEW c \in DOMAIN bell, Dismiss(c) PROVE Kept
    BY <2>2 DEF Dismiss
  <2>3. CASE bell' = bell
    BY <2>3
  <2>4. CASE Evaluate
    BY <2>1, <2>3, <2>4 DEF Evaluate
  <2>5. CASE Summarise
    BY <2>1, <2>5 DEF Summarise
  <2>6. CASE \/ Begin \/ Save \/ Recorded \/ Refused \/ Chokes \/ Sent \/ Deliver
             \/ CutShort \/ NextDay \/ Happens
    BY <2>3, <2>6
    DEF Begin, Save, Recorded, Refused, Chokes, Sent, Deliver, CutShort, NextDay, Happens
  <2> QED BY <1>1, <2>2, <2>4, <2>5, <2>6 DEF Next, Dispatcher
<1> QED BY <1>1, PTL DEF Spec, StaysDismissed

----------------------------------------------------------------------------
(***************************************************************************)
(* Maintenance: no payload is lost, for any day's rows, any windows of the *)
(* two passes, any number of passes from the command line and of failures  *)
(* at any step.                                                            *)
(*                                                                         *)
(* PayloadKept says nothing of the file a pass is about to write, so it is *)
(* not inductive.  A pass that found no day's file is on its way to write  *)
(* one (Zone), whatever happens meanwhile.  Nothing had been trimmed when  *)
(* it looked, so what it has read is all of the day, and either pass may   *)
(* empty, write or rename the one file as long as the day has none.  Once  *)
(* the day has a file nobody starts writing: at most one pass is still on  *)
(* its way (Alone), and the temporary file is that pass's own (OwnFile),   *)
(* so that a whole file is only ever replaced by a whole one.              *)
(***************************************************************************)

(* The two names lead to two files; a handle while writing and only then.  *)
TwoFiles == tmp = M!Nowhere \/ tmp # target
Writing == \A p \in M!Passes : step[p] = "write" <=> handle[p] # M!Nowhere

Zone == {"create", "write", "rename"}

(* Until the archive goes for its age: no trimming before the day's file   *)
(* is intact; what is read while it is not is the whole day; and a file    *)
(* that is whole is complete.                                              *)
Untouched == M!Intact(target) \/ heavy = Rows
ReadInTime ==
  \A p \in M!Passes :
    /\ step[p] \in {"create", "write"} => rows[p] = Rows
    /\ step[p] = "check" /\ ~M!Intact(target) => rows[p] = Rows
WholeIsComplete ==
  \A i \in M!Inodes : inode[i].whole => inode[i].payloads = Rows /\ ~inode[i].garbled
TrimsSafely == \A p \in M!Passes : step[p] = "trim" => M!Intact(target)
Alone ==
  target # M!Nowhere =>
    \A p, q \in M!Passes : step[p] \in Zone /\ step[q] \in Zone => p = q
OwnFile ==
  target # M!Nowhere /\ tmp # M!Nowhere =>
    \A p \in M!Passes :
      /\ step[p] # "create"
      /\ step[p] = "write" => handle[p] = tmp /\ inode[tmp].writer = p
      /\ step[p] = "rename" => inode[tmp].whole
Kept == Untouched /\ ReadInTime /\ WholeIsComplete /\ TrimsSafely /\ Alone /\ OwnFile

Keeping == M!TypeOK /\ TwoFiles /\ Writing /\ (aged \/ Kept)

LEMMA Names ==
  /\ M!Inodes = {1, 2, 3} /\ M!Nowhere = 0 /\ M!Nowhere \notin M!Inodes
  /\ Tick \in M!Passes /\ Cli \in M!Passes /\ M!Passes = {Tick, Cli}
BY DEF M!Inodes, M!Nowhere, M!Passes

LEMMA EmptyFile ==
  \A p \in M!Passes : M!Empty(p) \in M!File /\ ~M!Empty(p).whole /\ M!Empty(p).writer = p
BY DEF M!Empty, M!File

LEMMA KeepingInit == M!PassesAssumption /\ M!Init => Keeping
<1> SUFFICES ASSUME M!PassesAssumption, M!Init PROVE Keeping
  OBVIOUS
<1>1. M!TypeOK
  <2>1. inode \in [M!Inodes -> M!File]
    BY Names, EmptyFile DEF M!Init
  <2>2. /\ step \in [M!Passes -> M!Steps] /\ rows \in [M!Passes -> SUBSET Rows]
        /\ handle \in [M!Passes -> M!Inodes \cup {M!Nowhere}]
    BY DEF M!Init, M!Steps
  <2>3. trimmed \in [M!Passes -> Nat] /\ asof \in [M!Passes -> Nat]
    BY DEF M!Init
  <2>4. /\ age \in Nat /\ heavy \subseteq Rows /\ aged \in BOOLEAN
        /\ today \subseteq M!Passes /\ ran \in BOOLEAN
    BY DEF M!Init
  <2>5. target \in M!Inodes \cup {M!Nowhere} /\ tmp \in M!Inodes \cup {M!Nowhere}
    BY DEF M!Init
  <2>6. runs \in 0..MaxRuns /\ failed \in 0..MaxFailed
    BY DEF M!Init, M!PassesAssumption
  <2> QED BY ONLY <2>1, <2>2, <2>3, <2>4, <2>5, <2>6 DEF M!TypeOK
<1>2. TwoFiles /\ Writing
  BY Names DEF M!Init, TwoFiles, Writing
<1>3. Kept
  BY Names
  DEF M!Init, Kept, Untouched, ReadInTime, WholeIsComplete, TrimsSafely, Alone, OwnFile, Zone,
      M!Empty
<1> QED BY <1>1, <1>2, <1>3 DEF Keeping

-----------------------------------------------------------------------------
(* Steps that change no file, no payload and nothing a pass has read, and  *)
(* take a pass to none of the places where that matters.                   *)
LEMMA QuietStep ==
  ASSUME Keeping, NEW p \in M!Passes,
         UNCHANGED <<heavy, M!files, rows, handle>>, M!TypeOK', aged' = aged,
         \A q \in M!Passes : q # p => step'[q] = step[q],
         step[p] # "write", step'[p] \notin Zone \cup {"check"},
         step'[p] = "trim" => step[p] = "trim" \/ M!Intact(target)
  PROVE  Keeping'
<1>1. TwoFiles'
  BY DEF Keeping, TwoFiles, M!files
<1>2. Writing'
  BY DEF Keeping, Writing, Zone
<1>3. ASSUME Kept PROVE Kept'
  BY <1>3
  DEF Kept, Untouched, ReadInTime, WholeIsComplete, TrimsSafely, Alone, OwnFile, Zone, M!Intact,
      M!files
<1> QED BY <1>1, <1>2, <1>3 DEF Keeping

LEMMA GotoStep ==
  ASSUME M!TypeOK, NEW p \in M!Passes, NEW s \in M!Steps, M!Goto(p, s)
  PROVE  /\ step' \in [M!Passes -> M!Steps] /\ step'[p] = s
         /\ \A q \in M!Passes : q # p => step'[q] = step[q]
BY DEF M!TypeOK, M!Goto

(* Moves from step to step that look at the day and touch nothing.         *)
LEMMA LookInv ==
  ASSUME M!PassesAssumption, Keeping, NEW p \in M!Passes,
         \/ M!Backup(p) \/ M!Scan(p) \/ M!Exists(p) \/ M!Verify(p) \/ M!Trimmed(p)
         \/ M!Stolen(p) \/ M!Unverified(p) \/ M!StepFails(p)
  PROVE  Keeping'
<1>1. PICK s \in {"scan", "read", "delete", "verify", "trim", "unlink"} :
        M!Goto(p, s) /\ (s = "trim" => M!Intact(target))
  BY DEF M!Backup, M!Scan, M!Exists, M!Verify, M!Trimmed, M!Stolen, M!Unverified, M!StepFails, M!Onward
<1>2. /\ UNCHANGED <<age, heavy, M!files, M!memory, today, ran, runs, aged>>
      /\ step[p] # "write"
      /\ failed' = failed \/ M!Fault
  BY DEF M!Backup, M!Scan, M!Exists, M!Verify, M!Trimmed, M!Stolen, M!Unverified, M!StepFails
<1>3. s \in M!Steps
  BY DEF M!Steps
<1>4. /\ step' \in [M!Passes -> M!Steps] /\ step'[p] = s
      /\ \A q \in M!Passes : q # p => step'[q] = step[q]
  BY <1>1, <1>3, GotoStep DEF Keeping
<1>5. M!TypeOK'
  BY <1>2, <1>4, Names DEF Keeping, M!TypeOK, M!files, M!memory, M!Fault, M!PassesAssumption
<1>6. step'[p] \notin Zone \cup {"check"}
  BY <1>4 DEF Zone
<1> QED BY <1>1, <1>2, <1>4, <1>5, <1>6, QuietStep DEF M!memory

LEMMA StartInv ==
  ASSUME M!PassesAssumption, Keeping, NEW p \in M!Passes, M!Start(p)
  PROVE  Keeping'
<1>1. /\ step' \in [M!Passes -> M!Steps] /\ step'[p] = "backup"
      /\ \A q \in M!Passes : q # p => step'[q] = step[q]
  BY GotoStep DEF M!Start, Keeping, M!Steps
<1>2. M!TypeOK'
  BY <1>1, Names DEF Keeping, M!TypeOK, M!Start, M!files, M!PassesAssumption
<1> QED BY <1>1, <1>2, QuietStep DEF M!Start, Zone

LEMMA TrimInv ==
  ASSUME Keeping, NEW p \in M!Passes, M!Trim(p)
  PROVE  Keeping'
<1>1. M!TypeOK'
  BY DEF Keeping, M!TypeOK, M!Trim, M!files
<1>2. TwoFiles' /\ Writing'
  BY DEF Keeping, TwoFiles, Writing, M!Trim, M!files
<1>3. ASSUME Kept PROVE Kept'
  BY <1>3
  DEF Kept, Untouched, ReadInTime, WholeIsComplete, TrimsSafely, Alone, OwnFile, Zone, M!Intact,
      M!Trim, M!files
<1> QED BY <1>1, <1>2, <1>3 DEF Keeping, M!Trim

(* A pass that reads before the day's file is intact reads all of the day. *)
LEMMA ReadInv ==
  ASSUME Keeping, NEW p \in M!Passes, M!Read(p)
  PROVE  Keeping'
<1>1. /\ step' \in [M!Passes -> M!Steps] /\ step'[p] = "check"
      /\ \A q \in M!Passes : q # p => step'[q] = step[q]
  BY GotoStep DEF M!Read, Keeping, M!Steps
<1>2. /\ rows' \in [M!Passes -> SUBSET Rows] /\ rows'[p] = heavy
      /\ \A q \in M!Passes : q # p => rows'[q] = rows[q]
  BY DEF M!Read, Keeping, M!TypeOK
<1>3. UNCHANGED <<age, heavy, M!files, handle, trimmed, asof, today, ran, runs, failed, aged>>
  BY DEF M!Read
<1>4. M!TypeOK'
  BY <1>1, <1>2, <1>3 DEF Keeping, M!TypeOK, M!files
<1>5. TwoFiles' /\ Writing'
  BY <1>1, <1>3 DEF Keeping, TwoFiles, Writing, M!Read, M!files
<1>6. ASSUME Kept PROVE Kept'
  BY <1>1, <1>2, <1>3, <1>6
  DEF Kept, Untouched, ReadInTime, WholeIsComplete, TrimsSafely, Alone, OwnFile, Zone, M!Intact, M!files
<1> QED BY <1>3, <1>4, <1>5, <1>6 DEF Keeping

(* A pass that finds no day's file goes on its way to write one.           *)
LEMMA AbsentInv ==
  ASSUME Keeping, NEW p \in M!Passes, M!Absent(p)
  PROVE  Keeping'
<1>1. /\ step' \in [M!Passes -> M!Steps] /\ step'[p] = "create"
      /\ \A q \in M!Passes : q # p => step'[q] = step[q]
  BY GotoStep DEF M!Absent, Keeping, M!Steps
<1>2. /\ step[p] = "check" /\ target = M!Nowhere
      /\ UNCHANGED <<age, heavy, M!files, M!memory, today, ran, runs, failed, aged>>
  BY DEF M!Absent, M!Present
<1>3. M!TypeOK'
  BY <1>1, <1>2 DEF Keeping, M!TypeOK, M!files, M!memory
<1>4. TwoFiles' /\ Writing'
  BY <1>1, <1>2 DEF Keeping, TwoFiles, Writing, M!files, M!memory
<1>5. ASSUME Kept PROVE Kept'
  BY <1>1, <1>2, <1>5
  DEF Kept, Untouched, ReadInTime, WholeIsComplete, TrimsSafely, Alone, OwnFile, M!Intact,
      M!files, M!memory
<1> QED BY <1>2, <1>3, <1>4, <1>5 DEF Keeping

(* There is an inode to open that is neither the day's nor anybody's.      *)
LEMMA Freed ==
  ASSUME Keeping, NEW p \in M!Passes, handle[p] = M!Nowhere, tmp = M!Nowhere
  PROVE  M!Free \in M!Inodes /\ M!Free # target
<1>1. PICK q \in M!Passes : \A r \in M!Passes : r = p \/ r = q
  BY Names
<1>2. \E i \in M!Inodes : i # target /\ i # tmp /\ \A r \in M!Passes : handle[r] # i
  <2>1. \E i \in {1, 2, 3} : i # target /\ i # handle[q]
    OBVIOUS
  <2> QED BY <1>1, <2>1, Names
<1> QED BY <1>2 DEF M!Free

LEMMA OpenInv ==
  ASSUME Keeping, NEW p \in M!Passes, M!Open(p)
  PROVE  Keeping'
<1> DEFINE i == IF tmp = M!Nowhere THEN M!Free ELSE tmp
<1>1. /\ step[p] = "create" /\ tmp' = i
      /\ inode' = [inode EXCEPT ![i] = M!Empty(p)]
      /\ handle' = [handle EXCEPT ![p] = i]
      /\ UNCHANGED <<age, heavy, target, rows, trimmed, asof, today, ran, runs, failed, aged>>
  BY DEF M!Open
<1>2. i \in M!Inodes /\ i # target
  <2>1. handle[p] = M!Nowhere
    BY <1>1 DEF Keeping, Writing
  <2> QED BY <2>1, Freed DEF Keeping, TwoFiles, M!TypeOK
<1> HIDE DEF i
<1>3. /\ step' \in [M!Passes -> M!Steps] /\ step'[p] = "write"
      /\ \A q \in M!Passes : q # p => step'[q] = step[q]
  BY GotoStep DEF M!Open, Keeping, M!Steps
<1>4. /\ inode' \in [M!Inodes -> M!File] /\ ~inode'[i].whole /\ inode'[i].writer = p
      /\ \A j \in M!Inodes : j # i => inode'[j] = inode[j]
  BY <1>1, <1>2, EmptyFile DEF Keeping, M!TypeOK
<1>5. /\ handle' \in [M!Passes -> M!Inodes \cup {M!Nowhere}] /\ handle'[p] = i
      /\ \A q \in M!Passes : q # p => handle'[q] = handle[q]
  BY <1>1, <1>2 DEF Keeping, M!TypeOK
<1>6. M!TypeOK'
  BY <1>1, <1>2, <1>3, <1>4, <1>5 DEF Keeping, M!TypeOK
<1>7. TwoFiles' /\ Writing'
  BY <1>1, <1>2, <1>3, <1>5, Names DEF Keeping, TwoFiles, Writing
<1>8. ASSUME Kept PROVE Kept'
  <2>1. M!Intact(target)' <=> M!Intact(target)
    BY <1>1, <1>2, <1>4 DEF M!Intact, Keeping, M!TypeOK
  <2>2. Untouched'
    BY <1>1, <1>8, <2>1 DEF Kept, Untouched
  <2>3. ReadInTime'
    BY <1>1, <1>3, <1>8, <2>1 DEF Kept, ReadInTime
  <2>4. WholeIsComplete' /\ TrimsSafely'
    BY <1>1, <1>3, <1>4, <1>8, <2>1 DEF Kept, WholeIsComplete, TrimsSafely
  <2>5. Alone'
    BY <1>1, <1>3, <1>8 DEF Kept, Alone, Zone
  <2>6. OwnFile'
    <3> SUFFICES ASSUME target # M!Nowhere, NEW q \in M!Passes, step'[q] \in Zone
                 PROVE  step'[q] = "write" /\ handle'[q] = i /\ inode'[i].writer = q
      BY <1>1 DEF OwnFile, Zone
    <3>1. q = p
      BY <1>1, <1>3, <1>8 DEF Kept, Alone, Zone
    <3> QED BY <3>1, <1>3, <1>4, <1>5
  <2> QED BY <2>2, <2>3, <2>4, <2>5, <2>6 DEF Kept
<1> QED BY <1>1, <1>6, <1>7, <1>8 DEF Keeping

(* A file that is whole and holds the whole day stays it, whoever writes.  *)
LEMMA WriteInv ==
  ASSUME Keeping, NEW p \in M!Passes, M!Write(p)
  PROVE  Keeping'
<1> DEFINE i == handle[p]
           f == inode[i]
           done == [f EXCEPT !.payloads = rows[p], !.whole = TRUE, !.garbled = FALSE]
<1>1. /\ step[p] = "write" /\ i \in M!Inodes /\ rows[p] \in SUBSET Rows /\ f \in M!File
      /\ UNCHANGED <<age, heavy, target, tmp, rows, trimmed, asof, today, ran, runs, failed, aged>>
  BY DEF Keeping, M!TypeOK, Writing, M!Write
<1>2. /\ step' \in [M!Passes -> M!Steps] /\ step'[p] = "rename"
      /\ \A q \in M!Passes : q # p => step'[q] = step[q]
  BY GotoStep DEF M!Write, Keeping, M!Steps
<1>3. /\ handle' \in [M!Passes -> M!Inodes \cup {M!Nowhere}] /\ handle'[p] = M!Nowhere
      /\ \A q \in M!Passes : q # p => handle'[q] = handle[q]
  BY Names DEF Keeping, M!TypeOK, M!Write
<1>4. done \in M!File /\ done.whole /\ ~done.garbled /\ done.payloads = rows[p]
  BY <1>1 DEF M!File
<1>5. M!Holed(f) \in M!File /\ ~M!Holed(f).whole
  BY <1>1 DEF M!File, M!Holed
<1>6. PICK g \in M!Written(p, f) : inode' = [inode EXCEPT ![i] = g]
  BY DEF M!Write
<1>7. /\ g = done \/ g = f \/ g = M!Holed(f)
      /\ f.writer = p \/ f = done => g = done
  BY <1>6 DEF M!Written
<1>8. ASSUME Kept, f.whole PROVE f = done
  <2>1. rows[p] = Rows /\ f.payloads = Rows /\ f.garbled = FALSE /\ f.whole = TRUE
    BY <1>1, <1>8 DEF Kept, ReadInTime, WholeIsComplete, M!File
  <2> QED BY <1>1, <2>1 DEF M!File
<1> HIDE DEF i, f, done
<1>9. /\ inode' \in [M!Inodes -> M!File] /\ inode'[i] = g
      /\ \A j \in M!Inodes : j # i => inode'[j] = inode[j]
  BY <1>1, <1>4, <1>5, <1>6, <1>7 DEF Keeping, M!TypeOK
<1>10. M!TypeOK'
  BY <1>1, <1>2, <1>3, <1>9 DEF Keeping, M!TypeOK
<1>11. TwoFiles' /\ Writing'
  BY <1>1, <1>2, <1>3 DEF Keeping, TwoFiles, Writing
<1>12. ASSUME Kept PROVE Kept'
  <2>1. rows[p] = Rows
    BY <1>1, <1>12 DEF Kept, ReadInTime
  <2>2. \A j \in M!Inodes : inode[j].whole => inode'[j].whole
    BY <1>4, <1>7, <1>8, <1>9, <1>12 DEF f
  <2>3. M!Intact(target) => M!Intact(target)'
    BY <1>1, <2>2 DEF M!Intact, Keeping, M!TypeOK
  <2>4. WholeIsComplete'
    <3> SUFFICES ASSUME NEW j \in M!Inodes, inode'[j].whole
                 PROVE  inode'[j].payloads = Rows /\ ~inode'[j].garbled
      BY DEF WholeIsComplete
    <3>1. CASE inode'[j] = inode[j]
      BY <3>1, <1>12 DEF Kept, WholeIsComplete
    <3>2. CASE inode'[j] # inode[j]
      <4>1. j = i /\ g # f /\ g # M!Holed(f)
        BY <3>2, <1>5, <1>9 DEF f
      <4> QED BY <4>1, <1>4, <1>7, <1>9, <2>1
    <3> QED BY <3>1, <3>2
  <2>5. Alone'
    BY <1>1, <1>2, <1>12 DEF Kept, Alone, Zone
  <2>6. OwnFile'
    <3> SUFFICES ASSUME target # M!Nowhere, tmp # M!Nowhere, NEW q \in M!Passes, step'[q] \in Zone
                 PROVE  step'[q] = "rename" /\ inode'[tmp].whole
      BY <1>1 DEF OwnFile, Zone
    <3>1. q = p
      BY <1>1, <1>2, <1>12 DEF Kept, Alone, Zone
    <3>2. i = tmp /\ f.writer = p
      BY <1>1, <1>12 DEF Kept, OwnFile, i, f
    <3> QED BY <3>1, <3>2, <1>2, <1>4, <1>7, <1>9
  <2> QED BY <1>1, <1>2, <1>12, <2>3, <2>4, <2>5, <2>6
          DEF Kept, Untouched, ReadInTime, TrimsSafely
<1> QED BY <1>1, <1>10, <1>11, <1>12 DEF Keeping

(* If the day has a file the temporary one is whole; if it has none, then  *)
(* nobody has read less than the day.                                      *)
LEMMA RenameInv ==
  ASSUME Keeping, NEW p \in M!Passes, M!Rename(p)
  PROVE  Keeping'
<1>1. /\ step[p] = "rename" /\ tmp # M!Nowhere
      /\ target' = tmp /\ tmp' = M!Nowhere
      /\ UNCHANGED <<age, heavy, inode, M!memory, today, ran, runs, failed, aged>>
  BY DEF M!Rename
<1>2. /\ step' \in [M!Passes -> M!Steps] /\ step'[p] = "verify"
      /\ \A q \in M!Passes : q # p => step'[q] = step[q]
  BY GotoStep DEF M!Rename, Keeping, M!Steps
<1>3. M!TypeOK'
  BY <1>1, <1>2 DEF Keeping, M!TypeOK, M!memory
<1>4. TwoFiles' /\ Writing'
  BY <1>1, <1>2 DEF Keeping, TwoFiles, Writing, M!memory
<1>5. ASSUME Kept PROVE Kept'
  <2>1. M!Intact(target) => M!Intact(target)'
    BY <1>1, <1>5 DEF M!Intact, Kept, OwnFile
  <2>2. Untouched' /\ ReadInTime' /\ WholeIsComplete' /\ TrimsSafely' /\ OwnFile'
    BY <1>1, <1>2, <1>5, <2>1
    DEF Kept, Untouched, ReadInTime, WholeIsComplete, TrimsSafely, OwnFile, M!memory
  <2>3. Alone'
    BY <1>2, Names DEF Alone, Zone
  <2> QED BY <2>2, <2>3 DEF Kept
<1> QED BY <1>1, <1>3, <1>4, <1>5 DEF Keeping, M!memory

LEMMA UnlinkInv ==
  ASSUME Keeping, NEW p \in M!Passes, M!Unlink(p)
  PROVE  Keeping'
<1>1. /\ step[p] = "unlink" /\ tmp' = M!Nowhere
      /\ UNCHANGED <<age, heavy, target, inode, M!memory, today, ran, runs, failed, aged>>
  BY DEF M!Unlink
<1>2. /\ step' \in [M!Passes -> M!Steps] /\ step'[p] = "delete"
      /\ \A q \in M!Passes : q # p => step'[q] = step[q]
  BY GotoStep DEF M!Unlink, Keeping, M!Steps, M!Onward
<1>3. M!TypeOK'
  BY <1>1, <1>2 DEF Keeping, M!TypeOK, M!memory
<1>4. TwoFiles' /\ Writing'
  BY <1>1, <1>2 DEF Keeping, TwoFiles, Writing, M!memory
<1>5. ASSUME Kept PROVE Kept'
  BY <1>1, <1>2, <1>5
  DEF Kept, Untouched, ReadInTime, WholeIsComplete, TrimsSafely, Alone, OwnFile, Zone,
      M!Intact, M!memory
<1> QED BY <1>1, <1>3, <1>4, <1>5 DEF Keeping, M!memory

-----------------------------------------------------------------------------
(* What a pass that is over leaves behind.                                 *)
LEMMA EndStep ==
  ASSUME M!TypeOK, NEW p \in M!Passes, M!End(p)
  PROVE  /\ step' \in [M!Passes -> M!Steps] /\ step'[p] = "idle"
         /\ \A q \in M!Passes : q # p => step'[q] = step[q] /\ rows'[q] = rows[q]
                                       /\ handle'[q] = handle[q]
         /\ handle' \in [M!Passes -> M!Inodes \cup {M!Nowhere}] /\ handle'[p] = M!Nowhere
         /\ rows' \in [M!Passes -> SUBSET Rows]
         /\ trimmed' \in [M!Passes -> Nat] /\ asof' \in [M!Passes -> Nat] /\ today' \subseteq M!Passes
BY Names DEF M!TypeOK, M!End, M!Goto, M!Steps

(* What a pass that stops in the middle of writing does to a file.         *)
LEMMA Damage ==
  ASSUME Keeping, NEW p \in M!Passes, inode' \in M!Interrupted(p)
  PROVE  /\ inode' \in [M!Inodes -> M!File]
         /\ \A j \in M!Inodes :
              \/ inode'[j] = inode[j]
              \/ ~inode[j].whole /\ ~inode'[j].whole /\ step[p] = "write"
<1>1. CASE inode' = inode
  BY <1>1 DEF Keeping, M!TypeOK
<1>2. CASE inode' # inode
  <2> DEFINE i == handle[p]
  <2>1. /\ step[p] = "write" /\ ~inode[i].whole
        /\ inode' = [inode EXCEPT ![i] = M!Holed(@)]
    BY <1>2 DEF M!Interrupted
  <2>2. i \in M!Inodes
    BY <2>1 DEF Keeping, Writing, M!TypeOK
  <2>3. M!Holed(inode[i]) \in M!File /\ ~M!Holed(inode[i]).whole
    BY <2>2 DEF Keeping, M!TypeOK, M!File, M!Holed
  <2> HIDE DEF i
  <2> QED BY <2>1, <2>2, <2>3 DEF Keeping, M!TypeOK
<1> QED BY <1>1, <1>2

(* A pass leaves, and perhaps a file behind that it has damaged.           *)
LEMMA LeaveKept ==
  ASSUME Keeping, Kept, NEW p \in M!Passes, inode' \in M!Interrupted(p),
         UNCHANGED <<heavy, target, tmp>>, step'[p] \in {"idle", "unlink"},
         \A q \in M!Passes : q # p =>
            step'[q] = step[q] /\ rows'[q] = rows[q] /\ handle'[q] = handle[q]
  PROVE  Kept'
<1>1. \A j \in M!Inodes :
        \/ inode'[j] = inode[j]
        \/ ~inode[j].whole /\ ~inode'[j].whole /\ step[p] = "write"
  BY Damage
<1>2. M!Intact(target)' <=> M!Intact(target)
  BY <1>1 DEF M!Intact, Keeping, M!TypeOK
<1>3. Untouched' /\ ReadInTime' /\ TrimsSafely'
  BY <1>2 DEF Kept, Untouched, ReadInTime, TrimsSafely
<1>4. WholeIsComplete'
  BY <1>1 DEF Kept, WholeIsComplete
<1>5. Alone'
  BY DEF Kept, Alone, Zone
<1>6. OwnFile'
  <2> SUFFICES ASSUME target # M!Nowhere, tmp # M!Nowhere, NEW q \in M!Passes, q # p,
                      step[q] \in Zone
               PROVE  inode'[tmp] = inode[tmp]
    BY DEF Kept, OwnFile, Zone
  <2>1. step[p] # "write"
    BY DEF Kept, Alone, Zone
  <2> QED BY <1>1, <2>1 DEF Keeping, M!TypeOK
<1> QED BY <1>3, <1>4, <1>5, <1>6 DEF Kept

LEMMA OverInv ==
  ASSUME M!PassesAssumption, Keeping, NEW p \in M!Passes,
         M!PassFails(p) \/ M!Dies(p) \/ M!Unreadable(p)
  PROVE  Keeping'
<1>1. /\ M!End(p) /\ (M!Fault \/ failed' = failed) /\ inode' \in M!Interrupted(p)
      /\ UNCHANGED <<age, heavy, target, tmp, runs, aged>>
      /\ ran' = ran \/ M!Record(p)
  BY DEF M!PassFails, M!Dies, M!Unreadable, M!Interrupted, M!files
<1>2. M!TypeOK'
  <2>1. ran' \in BOOLEAN
    <3>1. CASE ran' = ran
      BY <3>1 DEF Keeping, M!TypeOK
    <3>2. CASE M!Record(p)
      BY <3>2 DEF M!Record
    <3> QED BY <1>1, <3>1, <3>2
  <2>2. /\ age' \in Nat /\ aged' \in BOOLEAN /\ heavy' \subseteq Rows
        /\ target' \in M!Inodes \cup {M!Nowhere} /\ tmp' \in M!Inodes \cup {M!Nowhere}
        /\ inode' \in [M!Inodes -> M!File] /\ runs' \in 0..MaxRuns
    BY <1>1, Damage DEF Keeping, M!TypeOK
  <2>3. failed' \in 0..MaxFailed
    BY <1>1 DEF Keeping, M!TypeOK, M!Fault, M!PassesAssumption
  <2>4. /\ step' \in [M!Passes -> M!Steps] /\ rows' \in [M!Passes -> SUBSET Rows]
        /\ handle' \in [M!Passes -> M!Inodes \cup {M!Nowhere}]
        /\ trimmed' \in [M!Passes -> Nat] /\ asof' \in [M!Passes -> Nat] /\ today' \subseteq M!Passes
    BY <1>1, EndStep DEF Keeping
  <2> QED BY ONLY <2>1, <2>2, <2>3, <2>4 DEF M!TypeOK
<1>3. TwoFiles' /\ Writing'
  BY <1>1, EndStep DEF Keeping, TwoFiles, Writing
<1>4. ASSUME Kept PROVE Kept'
  BY <1>1, <1>4, EndStep, LeaveKept DEF Keeping
<1> QED BY <1>1, <1>2, <1>3, <1>4 DEF Keeping

LEMMA DeleteInv ==
  ASSUME Keeping, NEW p \in M!Passes, M!Delete(p)
  PROVE  Keeping'
<1>1. /\ M!End(p) /\ M!Record(p) /\ UNCHANGED <<age, heavy, tmp, inode, runs, failed>>
      /\ (target' = M!Nowhere /\ aged') \/ UNCHANGED <<target, aged>>
      /\ aged' \in BOOLEAN
  BY DEF M!Delete, Keeping, M!TypeOK
<1>2. M!TypeOK'
  BY <1>1, EndStep DEF Keeping, M!TypeOK, M!Record
<1>3. TwoFiles' /\ Writing'
  BY <1>1, EndStep DEF Keeping, TwoFiles, Writing
<1>4. ASSUME Kept, UNCHANGED <<target, aged>> PROVE Kept'
  BY <1>1, <1>4, EndStep
  DEF Keeping, Kept, Untouched, ReadInTime, WholeIsComplete, TrimsSafely, Alone, OwnFile, Zone,
      M!Intact
<1> QED BY <1>1, <1>2, <1>3, <1>4 DEF Keeping

LEMMA WriteFailsInv ==
  ASSUME M!PassesAssumption, Keeping, NEW p \in M!Passes, M!WriteFails(p)
  PROVE  Keeping'
<1>1. /\ step' \in [M!Passes -> M!Steps] /\ step'[p] = "unlink"
      /\ \A q \in M!Passes : q # p => step'[q] = step[q]
  BY GotoStep DEF M!WriteFails, Keeping, M!Steps
<1>2. /\ M!Fault /\ inode' \in M!Interrupted(p)
      /\ UNCHANGED <<age, heavy, target, tmp, rows, trimmed, asof, today, ran, runs, aged>>
  BY DEF M!WriteFails
<1>3. /\ handle' \in [M!Passes -> M!Inodes \cup {M!Nowhere}] /\ handle'[p] = M!Nowhere
      /\ \A q \in M!Passes : q # p => handle'[q] = handle[q]
  BY Names DEF Keeping, M!TypeOK, M!WriteFails
<1>4. M!TypeOK'
  BY <1>1, <1>2, <1>3, Names, Damage DEF Keeping, M!TypeOK, M!Fault, M!PassesAssumption
<1>5. TwoFiles' /\ Writing'
  BY <1>1, <1>2, <1>3 DEF Keeping, TwoFiles, Writing
<1>6. ASSUME Kept PROVE Kept'
  BY <1>1, <1>2, <1>3, <1>6, LeaveKept
<1> QED BY <1>2, <1>4, <1>5, <1>6 DEF Keeping

LEMMA StillInv ==
  ASSUME Keeping, M!Midnight \/ UNCHANGED M!vars
  PROVE  Keeping'
<1>1. UNCHANGED <<heavy, M!files, step, M!memory, aged>>
  BY DEF M!Midnight, M!vars
<1>2. M!TypeOK'
  <2>1. ran' \in BOOLEAN /\ today' \subseteq M!Passes
    BY Zenon DEF Keeping, M!TypeOK, M!Midnight, M!vars
  <2>2. age' \in Nat
    BY DEF Keeping, M!TypeOK, M!Midnight, M!vars
  <2>3. UNCHANGED <<runs, failed>>
    BY DEF M!Midnight, M!vars
  <2> QED BY <1>1, <2>1, <2>2, <2>3 DEF Keeping, M!TypeOK, M!files, M!memory
<1>3. TwoFiles' /\ Writing'
  BY <1>1 DEF Keeping, TwoFiles, Writing, M!files, M!memory
<1>4. ASSUME Kept PROVE Kept'
  BY <1>1, <1>4
  DEF Kept, Untouched, ReadInTime, WholeIsComplete, TrimsSafely, Alone, OwnFile, Zone, M!Intact,
      M!files, M!memory
<1> QED BY <1>1, <1>2, <1>3, <1>4 DEF Keeping

LEMMA KeepingNext == M!PassesAssumption /\ Keeping /\ [M!Next]_(M!vars) => Keeping'
<1> SUFFICES ASSUME M!PassesAssumption, Keeping, [M!Next]_(M!vars) PROVE Keeping'
  OBVIOUS
<1>1. ASSUME NEW p \in M!Passes,
             M!Proceed(p) \/ M!WriteFails(p) \/ M!StepFails(p) \/ M!PassFails(p) \/ M!Dies(p)
      PROVE  Keeping'
  BY <1>1, StartInv, LookInv, ReadInv, AbsentInv, OpenInv, WriteInv, RenameInv, UnlinkInv, TrimInv,
     DeleteInv, OverInv, WriteFailsInv DEF M!Proceed
<1> QED BY <1>1, StillInv DEF M!Next

LEMMA KeepingHolds == ASSUME M!PassesAssumption PROVE M!Spec => []Keeping
BY KeepingInit, KeepingNext, PTL DEF M!Spec

-----------------------------------------------------------------------------
(* Every value has its type in every reachable state.                      *)
THEOREM PassesTyped == ASSUME M!PassesAssumption PROVE M!Spec => []M!TypeOK
<1>1. Keeping => M!TypeOK
  BY DEF Keeping
<1> QED BY <1>1, KeepingHolds, PTL

(* Until its archive is deleted for its age, a payload is in the database  *)
(* or in a day file that is complete, under any interleaving of the two    *)
(* passes, any failures and deaths of either, and any override of the      *)
(* windows (run_pass in maintenance/service.py, archive_day, compaction).  *)
THEOREM NoPayloadLost == ASSUME M!PassesAssumption PROVE M!Spec => []PayloadKept
<1>1. Keeping => PayloadKept
  <2> SUFFICES ASSUME Keeping, ~aged, NEW r \in Rows, r \notin heavy
               PROVE  Intact(target) /\ r \in inode[target].payloads
    BY DEF PayloadKept
  <2>1. M!Intact(target)
    BY DEF Keeping, Kept, Untouched
  <2>2. Intact(target)
    BY <2>1 DEF Intact, Nowhere, M!Intact, M!Nowhere
  <2> QED BY <2>1, <2>2 DEF Keeping, M!TypeOK, Kept, WholeIsComplete, M!Intact
<1> QED BY <1>1, KeepingHolds, PTL
=============================================================================
