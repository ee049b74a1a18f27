------------------------------- MODULE Alerts -------------------------------
(***************************************************************************)
(* Alerting: a task tails the event log with two cursors.  Recording        *)
(* evaluates the rules once per event and appends one notification per      *)
(* alert to the same log; delivering reads those notifications and sends    *)
(* them.  The dashboard's bell is a projection of the same notifications    *)
(* (ops/dispatcher.py, ops/cursor.py, ops/rules.py,                         *)
(* persistence/projections.py).                                             *)
(*                                                                          *)
(* An entry of the log is an event the rules read, a notification of a      *)
(* cause, or the operator's dismissal of one.  A cause is the position of   *)
(* the event, or minus the day for the daily summary.                       *)
(***************************************************************************)
EXTENDS Integers, Sequences, FiniteSets, FiniteSetsExt

CONSTANTS StreakLimit,  \* degraded cycles in a row before a human is told
          Batch,        \* events read per poll
          Histories,    \* bound: the events the rules read, in the order they happen
          MaxCleared,   \* bound: notices the operator clears
          MaxDays,      \* bound: session days
          MaxFaults     \* bound: polls cut short

\* What the rules tell apart: an event that always alerts, a pass that
\* supersedes the notice of the last one, a cycle that came back degraded or
\* sound, and one whose outcome nobody can read.  Two more stop what comes after
\* them: a row whose rule raises on it, as those of the kill switch and of
\* maintenance do on a value they do not know, and an event that always alerts
\* and whose notice no destination will ever take.
Sources == {"halted", "passed", "degraded", "sound", "unreadable", "malformed", "unsendable"}

ASSUME AlertsAssumption ==
  /\ Histories \subseteq Seq(Sources)
  /\ StreakLimit \in Nat \ {0} /\ Batch \in Nat \ {0}
  /\ MaxCleared \in Nat /\ MaxDays \in Nat \ {0} /\ MaxFaults \in Nat

VARIABLES
  log,      \* the event log
  bell,     \* the dashboard's list: cause -> "open" or "dismissed"
  coming,   \* the events that are still to happen
  day,      \* the session day
  cursor,   \* the saved cursor row
  enabled,  \* some destination is configured
  pc,       \* where the poll is
  batch,    \* positions the poll has read and not handled
  local,    \* the poll's copy of the cursor
  faults,   \* counter for the bound
  anchor,   \* history: the end of the log when alerting first ran, -1 before
  told      \* history: causes some destination has taken

poll == <<pc, batch, local>>
vars == <<log, bell, coming, day, cursor, enabled, poll, faults, anchor, told>>

Entry(type, cause) == [type |-> type, cause |-> cause]
NoCursor == [last |-> 0, recorded |-> 0, streak |-> 0, day |-> 0]

Cleared == {i \in DOMAIN log : log[i].type = "dismissed"}

-----------------------------------------------------------------------------
Init ==
  /\ log = <<>>
  /\ bell = <<>>
  /\ coming \in Histories
  /\ day = 1
  /\ cursor = NoCursor
  /\ enabled \in BOOLEAN
  /\ pc = "idle" /\ batch = {} /\ local = NoCursor
  /\ faults = 0
  /\ anchor = -1
  /\ told = {}

(***************************************************************************)
(* The read model: one appended event, projected in its own transaction.   *)
(***************************************************************************)

Superseded(cause) ==
  IF cause > 0 /\ log[cause].type = "passed"
  THEN {c \in DOMAIN bell \ {cause} : c > 0 /\ log[c].type = "passed"}
  ELSE {}

Upserted(cause) ==
  [c \in DOMAIN bell \cup {cause} |->
     IF c = cause THEN "open"
     ELSE IF c \in Superseded(cause) THEN "dismissed" ELSE bell[c]]

\* Insert, ignore on conflict; then a newer pass dismisses the older ones.
Raised(cause) ==
  [c \in DOMAIN bell \cup {cause} |->
     IF c \in Superseded(cause) THEN "dismissed"
     ELSE IF c \in DOMAIN bell THEN bell[c] ELSE "open"]

\* The dispatcher appends a notification.
Notify(cause) ==
  /\ log' = Append(log, Entry("notice", cause))
  /\ bell' = Raised(cause)

\* The drain goes on with what is left to send, and the poll ends with it.
Drain(left) ==
  /\ batch' = left
  /\ local' = NoCursor
  /\ pc' = IF left = {} THEN "idle" ELSE "deliver"

(***************************************************************************)
(* Recording.                                                              *)
(***************************************************************************)

After(seq, types) == {i \in DOMAIN log : i > seq /\ log[i].type \in types}

\* The first entries of those types, no more than a batch, that are handled oldest first.
ReadAfter(seq, types) ==
  LET all == After(seq, types)
  IN  {i \in all : Cardinality({j \in all : j < i}) < Batch}

DeliveredOnce(c) == c.last # 0

\* Whether alerting has ever run here: on an empty log only the day says so.
Started(c) == c.last # 0 \/ c.recorded # 0 \/ c.day # 0

\* A poll positions the cursor, the first one ever at the end of the log, and
\* reads what is new.
Begin ==
  /\ pc = "idle"
  /\ IF Started(cursor)
     THEN UNCHANGED <<cursor, anchor>>
     ELSE /\ cursor' = [NoCursor EXCEPT !.last = Len(log), !.recorded = Len(log), !.day = day]
          /\ anchor' = IF anchor = -1 THEN Len(log) ELSE anchor
  /\ local' = cursor'
  /\ batch' = ReadAfter(cursor'.recorded, Sources)
  /\ pc' = "evaluate"
  /\ UNCHANGED <<log, bell, coming, day, enabled, faults, told>>

\* A readable outcome extends the streak or clears it.
Advanced(kind, streak) ==
  CASE kind = "degraded" -> streak + 1
    [] kind = "sound" -> 0
    [] OTHER -> streak

Fires(kind, streak) ==
  \/ kind \in {"halted", "passed", "unsendable"}
  \/ kind = "degraded" /\ streak = StreakLimit

\* The rules run on one event; its notice is appended before the cursor moves.
Evaluate ==
  /\ pc = "evaluate" /\ batch # {}
  /\ log[Min(batch)].type # "malformed"
  /\ LET source == Min(batch)
         streak == Advanced(log[source].type, local.streak)
     IN /\ local' = [local EXCEPT !.recorded = source, !.streak = streak]
        /\ IF Fires(log[source].type, streak)
           THEN Notify(source)
           ELSE UNCHANGED <<log, bell>>
  /\ batch' = batch \ {Min(batch)}
  /\ pc' = "save"
  /\ UNCHANGED <<coming, day, cursor, enabled, faults, anchor, told>>

\* The rule raises and nobody catches it: the poll is over before it has drained
\* anything, and as the cursor stays the next one ends here again.
Chokes ==
  /\ pc = "evaluate" /\ batch # {}
  /\ log[Min(batch)].type = "malformed"
  /\ Drain({})
  /\ UNCHANGED <<log, bell, coming, day, cursor, enabled, faults, anchor, told>>

Save ==
  /\ pc = "save"
  /\ cursor' = local
  /\ pc' = "evaluate"
  /\ UNCHANGED <<log, bell, coming, day, enabled, batch, local, faults, anchor, told>>

\* Once a session day, a summary of the day that ended.
Summarise ==
  /\ pc = "evaluate" /\ batch = {}
  /\ local.day # day
  /\ Notify(-day)
  /\ local' = [local EXCEPT !.day = day]
  /\ pc' = "summarised"
  /\ UNCHANGED <<coming, day, cursor, enabled, batch, faults, anchor, told>>

OncePerDay == IF enabled /\ pc = "summarised" THEN ReadAfter(local.last, {"notice"}) ELSE {}

\* What is recorded and not yet delivered, if there is a destination.
Undelivered == IF enabled THEN ReadAfter(local.last, {"notice"}) ELSE {}

\* The cursor of the summary is saved, or none was due.  The poll then drains what
\* is recorded.
Recorded ==
  /\ \/ pc = "summarised"
     \/ pc = "evaluate" /\ batch = {} /\ local.day = day
  /\ cursor' = local
  /\ Drain(Undelivered)
  /\ UNCHANGED <<log, bell, coming, day, enabled, faults, anchor, told>>

(***************************************************************************)
(* Delivering.                                                             *)
(***************************************************************************)

\* The daily summary, and any event's notice but the one refused for good.
Sendable(cause) == cause > 0 => log[cause].type # "unsendable"

\* At least one destination takes the notice: that counts as delivered.
Deliver ==
  /\ pc = "deliver"
  /\ Sendable(log[Min(batch)].cause)
  /\ told' = told \cup {log[Min(batch)].cause}
  /\ pc' = "sent"
  /\ UNCHANGED <<log, bell, coming, day, cursor, enabled, batch, local, faults, anchor>>

Sent ==
  /\ pc = "sent"
  /\ cursor' = [cursor EXCEPT !.last = Min(batch)]
  /\ Drain(batch \ {Min(batch)})
  /\ UNCHANGED <<log, bell, coming, day, enabled, faults, anchor, told>>

\* No destination takes it, for now or for good: the drain stops here, and the next
\* poll tries again.
Refused ==
  /\ pc = "deliver"
  /\ Drain({})
  /\ UNCHANGED <<log, bell, coming, day, cursor, enabled, faults, anchor, told>>

(***************************************************************************)
(* The rest of the system.                                                 *)
(***************************************************************************)

\* The process dies and starts again, or a write fails and the poll gives up:
\* what the poll had in memory is gone.
CutShort ==
  /\ pc # "idle"
  /\ faults < MaxFaults
  /\ faults' = faults + 1
  /\ Drain({})
  /\ UNCHANGED <<log, bell, coming, day, cursor, enabled, anchor, told>>

Happens ==
  /\ coming # <<>>
  /\ log' = Append(log, Entry(Head(coming), 0))
  /\ coming' = Tail(coming)
  /\ UNCHANGED <<bell, day, cursor, enabled, poll, faults, anchor, told>>

NextDay ==
  /\ day < MaxDays
  /\ day' = day + 1
  /\ UNCHANGED <<log, bell, coming, cursor, enabled, poll, faults, anchor, told>>

\* The operator clears a notice that is open.
Dismiss(cause) ==
  /\ bell[cause] = "open"
  /\ Cardinality(Cleared) < MaxCleared
  /\ log' = Append(log, Entry("dismissed", cause))
  /\ bell' = [bell EXCEPT ![cause] = "dismissed"]
  /\ UNCHANGED <<coming, day, cursor, enabled, poll, faults, anchor, told>>

Dispatcher ==
  Begin \/ Evaluate \/ Chokes \/ Save \/ Summarise \/ Recorded \/ Refused \/ Sent

Next ==
  \/ Dispatcher \/ Deliver
  \/ CutShort \/ NextDay \/ Happens
  \/ \E cause \in DOMAIN bell : Dismiss(cause)

Spec == Init /\ [][Next]_vars

\* The loop polls for as long as the process runs, and a destination that is
\* tried for ever takes some time what it does not refuse for good.
FairSpec == Spec /\ WF_vars(Dispatcher \/ Deliver) /\ SF_vars(Deliver)

-----------------------------------------------------------------------------
Row == [last : Nat, recorded : Nat, streak : Nat, day : Nat]

\* The shape of the state.
TypeOK ==
  /\ log \in Seq([type : Sources \cup {"notice", "dismissed"}, cause : Int])
  /\ bell \in [DOMAIN bell -> {"open", "dismissed"}] /\ DOMAIN bell \subseteq Int
  /\ coming \in Seq(Sources)
  /\ day \in 1..MaxDays
  /\ cursor \in Row /\ local \in Row
  /\ enabled \in BOOLEAN
  /\ pc \in {"idle", "evaluate", "save", "summarised", "deliver", "sent"}
  /\ batch \subseteq DOMAIN log
  /\ faults \in 0..MaxFaults
  /\ anchor \in Nat \cup {-1}
  /\ told \subseteq Int

\* Which events a reader of the whole log, interrupted by nothing, would tell a
\* human about: everything that always alerts, and a degraded cycle that
\* completes a run of exactly StreakLimit without a sound one in between.
Due(i) ==
  \/ log[i].type \in {"halted", "passed", "unsendable"}
  \/ /\ log[i].type = "degraded"
     /\ LET run == {j \in anchor + 1..i : /\ log[j].type = "degraded"
                                          /\ \A k \in j..i : log[k].type # "sound"}
        IN Cardinality(run) = StreakLimit

Notified == {log[i].cause : i \in {j \in DOMAIN log : log[j].type = "notice"}}

\* Over any interruption, what has been recorded is what one uninterrupted
\* reading gives: every alert up to the recording cursor has its notice, no
\* notice is raised for anything else, and every notice behind the delivery
\* cursor has reached a destination.
NothingMissed ==
  anchor >= 0 =>
    /\ \A i \in anchor + 1..cursor.recorded :
         log[i].type \in Sources /\ Due(i) => i \in Notified
    /\ \A i \in Notified : i > 0 => i > anchor /\ Due(i)
    /\ enabled => \A i \in anchor + 1..cursor.last :
                    log[i].type = "notice" => log[i].cause \in told

\* A notice that was cleared, by the operator or by a newer one of its kind,
\* does not come back when its recording is repeated.
StaysDismissed ==
  [][\A cause \in DOMAIN bell : bell[cause] = "dismissed" => bell'[cause] = "dismissed"]_vars

\* Some row up to n that the tail has to pass is of that kind.
Behind(n, kind) == \E j \in anchor + 1..n : log[j].type = kind

Asked == {i \in DOMAIN log : i > anchor /\ log[i].type \in Sources /\ Due(i)}

\* Once events stop happening, every one that asked for a human and comes before a
\* malformed row has its notice; and with a destination that answers some time and no
\* malformed row at all, it is delivered, unless a notice that no destination takes
\* stands before it: neither a refused notice nor a poll cut short leaves anything
\* behind it unsent for good (dispatcher.py, poll and _drain).
EventuallyTold ==
  <>[](anchor >= 0 /\ \A i \in Asked :
         /\ ~Behind(i, "malformed") => i \in DOMAIN bell
         /\ enabled /\ ~Behind(Len(log), "malformed") /\ ~Behind(i, "unsendable")
              => i \in told)

\* No row and no notice stands in front of every later one for ever (dispatcher.py,
\* _drain; sinks.py, its docstring).  The code does not keep it: a malformed row stops
\* the recording and the delivery, and a notice refused for good the delivery.
NothingBuried ==
  <>[](anchor >= 0 /\ \A i \in Asked :
         log[i].type # "unsendable" => i \in DOMAIN bell /\ (enabled => i \in told))
=============================================================================
