---------------------------- MODULE Maintenance ----------------------------
(***************************************************************************)
(* Retention of one day's heavy payloads.  A pass takes a backup, archives *)
(* the day to a file, verifies the file, trims the payloads out of the     *)
(* database in batches, and deletes the file once it is old enough         *)
(* (maintenance/service.py, archive.py, compaction.py).  The process runs  *)
(* a pass a day; `maintenance compact` runs one at any time in a process    *)
(* of its own, with no lock between the two.                               *)
(*                                                                         *)
(* Both write the same temporary file and rename it over the day's name.   *)
(***************************************************************************)
EXTENDS DayArchive, FiniteSets, FiniteSetsExt

CONSTANTS Tick, Cli,  \* the pass of the process, and of the command line
          HotDays,    \* compact_after_days: a command may override the policy
          KeepDays,   \* archive_keep_days, for each pass
          MaxRuns,    \* bound: passes from the command line
          MaxFaults   \* bound: passes that fail at a step, or die there

Passes == {Tick, Cli}

ASSUME PolicyAssumption ==
  /\ HotDays \in [Passes -> Nat \ {0}] /\ KeepDays \in [Passes -> Nat]
  /\ \A pass \in Passes : HotDays[pass] < KeepDays[pass]
ASSUME RowsAssumption == Rows = 1..Cardinality(Rows) /\ Rows # {}
ASSUME PassesAssumption == Tick # Cli /\ MaxRuns \in Nat /\ MaxFaults \in Nat

VARIABLES
  age,      \* days since the day, up to the one past every window
  step,     \* where each pass is
  rows,     \* the payloads each pass has read
  handle,   \* the inode each pass is writing
  cursor,   \* the last row each pass has trimmed
  asof,     \* the age of the day when each pass began
  today,    \* passes that began today
  ran,      \* the last pass on record began today
  runs, faults   \* counters for the bounds

files == <<target, tmp, inode>>
memory == <<rows, handle, cursor, asof>>
vars == <<age, heavy, files, step, memory, today, ran, runs, faults, aged>>

\* A file holds the payloads of some rows once it is whole; the pass that emptied
\* it last is the one whose writing makes it whole.
Empty(pass) == [payloads |-> {}, whole |-> FALSE, garbled |-> FALSE, writer |-> pass]
Free == CHOOSE i \in Inodes : i # target /\ i # tmp /\ \A p \in Passes : handle[p] # i

Goto(pass, where) == step' = [step EXCEPT ![pass] = where]

Init ==
  /\ age = 0
  /\ heavy = Rows
  /\ target = Nowhere /\ tmp = Nowhere
  /\ inode = [i \in Inodes |-> Empty(Tick)]
  /\ step = [p \in Passes |-> "idle"]
  /\ rows = [p \in Passes |-> {}]
  /\ handle = [p \in Passes |-> Nowhere]
  /\ cursor = [p \in Passes |-> 0]
  /\ asof = [p \in Passes |-> 0]
  /\ today = {} /\ ran = FALSE
  /\ runs = 0 /\ faults = 0
  /\ aged = FALSE

-----------------------------------------------------------------------------
(* One pass. *)

\* The process starts one when none is recorded for today; a command always does.
Start(pass) ==
  /\ step[pass] = "idle"
  /\ IF pass = Tick
     THEN ~ran /\ UNCHANGED runs
     ELSE runs < MaxRuns /\ runs' = runs + 1
  /\ asof' = [asof EXCEPT ![pass] = age]
  /\ today' = today \cup {pass}
  /\ Goto(pass, "backup")
  /\ UNCHANGED <<age, heavy, files, rows, handle, cursor, ran, faults, aged>>

\* The pass is over and recorded; what it had in memory is of no use any more.
End(pass) ==
  /\ Goto(pass, "idle")
  /\ rows' = [rows EXCEPT ![pass] = {}]
  /\ handle' = [handle EXCEPT ![pass] = Nowhere]
  /\ cursor' = [cursor EXCEPT ![pass] = 0]
  /\ asof' = [asof EXCEPT ![pass] = 0]
  /\ today' = today \ {pass}

\* The record carries the time the pass began.
Record(pass) == ran' = (pass \in today)

Backup(pass) ==
  /\ step[pass] = "backup"
  /\ Goto(pass, "scan")
  /\ UNCHANGED <<age, heavy, files, memory, today, ran, runs, faults, aged>>

\* The day is pending when it is past the hot window and has a payload left.
Scan(pass) ==
  /\ step[pass] = "scan"
  /\ Goto(pass, IF asof[pass] > HotDays[pass] /\ heavy # {} THEN "read" ELSE "delete")
  /\ UNCHANGED <<age, heavy, files, memory, today, ran, runs, faults, aged>>

Read(pass) ==
  /\ step[pass] = "read"
  /\ rows' = [rows EXCEPT ![pass] = heavy]
  /\ Goto(pass, "check")
  /\ UNCHANGED <<age, heavy, files, handle, cursor, asof, today, ran, runs, faults, aged>>

\* A day file that exists is verified, never rewritten.
Exists(pass) ==
  /\ step[pass] = "check"
  /\ Present(target)
  /\ Goto(pass, "verify")
  /\ UNCHANGED <<age, heavy, files, memory, today, ran, runs, faults, aged>>

Absent(pass) ==
  /\ step[pass] = "check"
  /\ ~Present(target)
  /\ Goto(pass, "create")
  /\ UNCHANGED <<age, heavy, files, memory, today, ran, runs, faults, aged>>

\* Opening the temporary file empties it, whoever else is writing it, and whether or
\* not the day has a file by now.
Open(pass) ==
  /\ step[pass] = "create"
  /\ LET i == IF tmp = Nowhere THEN Free ELSE tmp IN
       /\ tmp' = i
       /\ inode' = [inode EXCEPT ![i] = Empty(pass)]
       /\ handle' = [handle EXCEPT ![pass] = i]
  /\ Goto(pass, "write")
  /\ UNCHANGED <<age, heavy, target, rows, cursor, asof, today, ran, runs, faults, aged>>

\* What a file may hold when a pass has written all its rows.  One that another pass has
\* emptied in the meantime may have lost the beginning, or have a hole in the middle,
\* until that pass has written it; the same rows are the same bytes at the same places.
Holed(file) == [file EXCEPT !.whole = FALSE, !.garbled = TRUE]
Written(pass, file) ==
  LET mine == [file EXCEPT !.payloads = rows[pass], !.whole = TRUE, !.garbled = FALSE] IN
  IF file.writer = pass \/ file = mine THEN {mine} ELSE {file, Holed(file), mine}

\* And when it has written some of them.
Interrupted(pass) ==
  LET i == handle[pass] IN
  {inode} \cup IF step[pass] = "write" /\ ~inode[i].whole /\ inode[i].writer # pass
               THEN {[inode EXCEPT ![i] = Holed(@)]} ELSE {}

\* Everything is written and synced.
Write(pass) ==
  /\ step[pass] = "write"
  /\ \E file \in Written(pass, inode[handle[pass]]) :
       inode' = [inode EXCEPT ![handle[pass]] = file]
  /\ handle' = [handle EXCEPT ![pass] = Nowhere]
  /\ Goto(pass, "rename")
  /\ UNCHANGED <<age, heavy, target, tmp, rows, cursor, asof, today, ran, runs, faults, aged>>

\* Whatever the temporary name leads to becomes the day's file.
Rename(pass) ==
  /\ step[pass] = "rename"
  /\ tmp # Nowhere
  /\ target' = tmp
  /\ tmp' = Nowhere
  /\ Goto(pass, "verify")
  /\ UNCHANGED <<age, heavy, inode, memory, today, ran, runs, faults, aged>>

Verify(pass) ==
  /\ step[pass] = "verify"
  /\ Intact(target)
  /\ Goto(pass, "trim")
  /\ UNCHANGED <<age, heavy, files, memory, today, ran, runs, faults, aged>>

\* One transaction trims the next row, if it still has anything to trim.
Trim(pass) ==
  /\ step[pass] = "trim"
  /\ cursor[pass] < Cardinality(Rows)
  /\ cursor' = [cursor EXCEPT ![pass] = @ + 1]
  /\ heavy' = heavy \ {cursor[pass] + 1}
  /\ UNCHANGED <<age, files, step, rows, handle, asof, today, ran, runs, faults, aged>>

Trimmed(pass) ==
  /\ step[pass] = "trim"
  /\ cursor[pass] = Cardinality(Rows)
  /\ Goto(pass, "delete")
  /\ UNCHANGED <<age, heavy, files, memory, today, ran, runs, faults, aged>>

\* The archive goes when it is past its window, and the pass is recorded.
Delete(pass) ==
  /\ step[pass] = "delete"
  /\ IF asof[pass] > KeepDays[pass] /\ target # Nowhere
     THEN target' = Nowhere /\ aged' = TRUE
     ELSE UNCHANGED <<target, aged>>
  /\ Record(pass)
  /\ End(pass)
  /\ UNCHANGED <<age, heavy, tmp, inode, runs, faults>>

-----------------------------------------------------------------------------
(* What goes wrong. *)

GiveUp == "idle"

\* Where a pass goes on after a day that could not be archived: to the deletion,
\* which depends on none of it.
Onward == "delete"

\* The rename finds no file, because the other pass has taken it.
Stolen(pass) ==
  /\ step[pass] = "rename"
  /\ tmp = Nowhere
  /\ Goto(pass, "unlink")
  /\ UNCHANGED <<age, heavy, files, memory, today, ran, runs, faults, aged>>

\* After an error the temporary file is removed, whoever wrote it.
Unlink(pass) ==
  /\ step[pass] = "unlink"
  /\ tmp' = Nowhere
  /\ Goto(pass, Onward)
  /\ UNCHANGED <<age, heavy, target, inode, memory, today, ran, runs, faults, aged>>

\* The file is gone, or short: that day, and nothing else.
Unverified(pass) ==
  /\ step[pass] = "verify"
  /\ ~Intact(target) /\ ~Garbled(target)
  /\ Goto(pass, Onward)
  /\ UNCHANGED <<age, heavy, files, memory, today, ran, runs, faults, aged>>

\* Damaged data raises what neither verification nor the loop over the days catches: the
\* pass is abandoned before the deletion, and recorded.
Unreadable(pass) ==
  /\ step[pass] = "verify"
  /\ Garbled(target)
  /\ Record(pass)
  /\ End(pass)
  /\ UNCHANGED <<age, heavy, files, runs, faults, aged>>

Fault == faults < MaxFaults /\ faults' = faults + 1

\* The disk is full.  A file that another pass has written in full takes no more room.
WriteFails(pass) ==
  /\ Fault
  /\ step[pass] \in {"create", "write", "rename"}
  /\ inode' \in Interrupted(pass)
  /\ handle' = [handle EXCEPT ![pass] = Nowhere]
  /\ Goto(pass, "unlink")
  /\ UNCHANGED <<age, heavy, target, tmp, rows, cursor, asof, today, ran, runs, aged>>

\* A row cannot be read, a directory not be made, a file not be opened or removed, a
\* batch not be written.
StepFails(pass) ==
  /\ Fault
  /\ step[pass] \in {"read", "check", "create", "unlink", "verify", "trim"}
  /\ Goto(pass, Onward)
  /\ UNCHANGED <<age, heavy, files, memory, today, ran, runs, aged>>

\* Nothing destructive runs behind a backup or a scan that failed; a file that
\* cannot be removed is left for the next pass.
PassFails(pass) ==
  /\ Fault
  /\ step[pass] \in {"backup", "scan", "delete"}
  /\ Record(pass)
  /\ End(pass)
  /\ UNCHANGED <<age, heavy, files, runs, aged>>

\* The process dies; a file it was writing stays as it is.
Dies(pass) ==
  /\ Fault
  /\ step[pass] # "idle"
  /\ inode' \in Interrupted(pass)
  /\ End(pass)
  /\ UNCHANGED <<age, heavy, target, tmp, ran, runs, aged>>

\* Past every window the age no longer matters.
Oldest == Max({KeepDays[pass] : pass \in Passes})

Midnight ==
  /\ age' = IF age > Oldest THEN age ELSE age + 1
  /\ today' = {} /\ ran' = FALSE
  /\ UNCHANGED <<heavy, files, step, memory, runs, faults, aged>>

Proceed(pass) ==
  \/ Start(pass) \/ Backup(pass) \/ Scan(pass) \/ Read(pass) \/ Exists(pass)
  \/ Absent(pass) \/ Open(pass) \/ Write(pass) \/ Rename(pass) \/ Verify(pass)
  \/ Trim(pass) \/ Trimmed(pass) \/ Delete(pass)
  \/ Stolen(pass) \/ Unlink(pass) \/ Unverified(pass) \/ Unreadable(pass)

Next ==
  \/ \E pass \in Passes :
       Proceed(pass) \/ WriteFails(pass) \/ StepFails(pass) \/ PassFails(pass) \/ Dies(pass)
  \/ Midnight

Spec == Init /\ [][Next]_vars

\* A pass that is under way goes on, days go by, and the process starts its pass.
FairSpec == Spec /\ (\A pass \in Passes : WF_vars(step[pass] # "idle" /\ Proceed(pass)))
                 /\ WF_vars(Start(Tick)) /\ WF_vars(Midnight)

-----------------------------------------------------------------------------
Steps == {"idle", "backup", "scan", "read", "check", "create", "write", "rename", "unlink",
          "verify", "trim", "delete"}
File == [payloads : SUBSET Rows, whole : BOOLEAN, garbled : BOOLEAN, writer : Passes]

TypeOK ==
  /\ age \in Nat /\ aged \in BOOLEAN
  /\ heavy \subseteq Rows
  /\ target \in Inodes \cup {Nowhere} /\ tmp \in Inodes \cup {Nowhere}
  /\ inode \in [Inodes -> File]
  /\ step \in [Passes -> Steps]
  /\ rows \in [Passes -> SUBSET Rows]
  /\ handle \in [Passes -> Inodes \cup {Nowhere}]
  /\ cursor \in [Passes -> Nat] /\ asof \in [Passes -> Nat]
  /\ today \subseteq Passes /\ ran \in BOOLEAN
  /\ runs \in 0..MaxRuns /\ faults \in 0..MaxFaults

\* The day's payloads leave the database, and its archive the disk, for good, whatever
\* the two passes do to one another's files: a file that will not verify stops that day
\* only until it is deleted for its age.  Unless it stays garbled: then no pass gets as
\* far as the deletion (service.py, _pass).
RetentionCompletes == <>[]Garbled(target) \/ <>[](heavy = {} /\ target = Nowhere)

\* One day's corrupt file never stops retention (service.py, the comment in _pass).  The
\* code does not keep it: two passes can leave a garbled file.
RetentionNeverStops == <>[](heavy = {} /\ target = Nowhere)
=============================================================================
