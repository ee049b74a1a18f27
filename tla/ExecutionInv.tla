---------------------------- MODULE ExecutionInv ----------------------------
(***************************************************************************)
(* The inductive invariant behind the safety properties of Execution, in   *)
(* parts: who holds an order, what has reached the venue, which states a   *)
(* copy in hand can be in, and how copies, ledger and log agree.           *)
(***************************************************************************)
EXTENDS Execution

RestPCs == {"idle", "settle", "poll"}
SubmitPCs == {"check", "call", "acked", "unknown", "refused", "rejecting"}

(* A task between awaits either rests or holds one order: its own, which   *)
(* the monitor does not track yet, while submitting; one the monitor       *)
(* tracks, under the lock, while polling; one it does not track, before    *)
(* anything else runs, while recovering.                                   *)
Holding(t) ==
  /\ task[t].at = None <=> task[t].pc \in RestPCs
  /\ task[t].at # None => task[t].work \in Order /\ durable[task[t].at] \in Order
                          /\ (lock = t <=> mem[task[t].at] # NoOrder)
  /\ task[t].pc \in SubmitPCs => task[t].at = t
  /\ task[t].pc \in SyncPCs /\ lock # t => t = Boot \/ task[t].at = t
  /\ task[t].pc = "settle" => t \in Orders
  /\ task[t].pc \in {"poll", "cancel", "expire"} => lock = t
  /\ lock = t => t # Boot /\ task[t].pc \in SyncPCs \cup {"poll"}
  /\ task[t].pc = "idle" => task[t] = Idle
  /\ task[t].pc # "idle" /\ t = Boot => phase = "recovering"
  /\ task[t].pc # "idle" /\ t # Boot => phase = "running"

Waiting(o) ==
  o \in todo => /\ phase = "recovering" /\ task[Boot].at # o
                /\ mem[o] = NoOrder /\ durable[o] \in Order /\ ~IsTerminal(durable[o])

(* What the venue can have, by what is recorded and by where the one       *)
(* request stands.                                                         *)
Reached(o) ==
  /\ placed[o] \in {0, 1}
  /\ placed[o] = 0 => venue[o] = NoOrder
  /\ inflight[o] => placed[o] = 0
  /\ durable[o] = NoOrder => placed[o] = 0 /\ ~inflight[o] /\ mem[o] = NoOrder
  /\ task[o].pc \in {"check", "call"} => placed[o] = 0 /\ ~inflight[o]
  /\ IsOpen(venue[o]) => venue[o].filled < Qty

Custody == (\A t \in Tasks : Holding(t)) /\ (\A o \in Orders : Waiting(o))
Reach == \A o \in Orders : Reached(o)

(* The states the copy in hand can be in, by where its coroutine stands.   *)
Askable(order) == order.state \in OpenStates \cup {"SUBMIT_UNKNOWN"}
Stage(t) ==
  /\ task[t].pc \in SubmitPCs \ {"rejecting"} => task[t].work.state = "PENDING_SUBMIT"
  /\ task[t].pc = "rejecting" => task[t].work.state = "SUBMITTED"
  /\ task[t].pc \in {"query", "trades", "vanished"} => Askable(task[t].work)
  /\ task[t].pc \in {"query", "trades", "vanished"} /\ lock = t => IsOpen(task[t].work)
  /\ task[t].pc \in {"apply", "log"} =>
       Askable(task[t].work) \/ (task[t].work.state = "FILLED" /\ task[t].work.filled = Qty)
  /\ task[t].pc \in {"cancel", "expire"} => IsOpen(task[t].work)
  /\ task[t].pc \in {"apply", "log"} => task[t].seen.filled <= venue[task[t].at].filled

Stages == \A t \in Tasks : Stage(t)

(* The copy in hand is the log's order, but for the fill being logged; the *)
(* monitor's copy is the log's order as long as nothing has been booked.   *)
Copy(t) ==
  LET o == task[t].at IN
  /\ task[t].pc = "log" =>
       /\ FillIsLegal(durable[o]) /\ task[t].work = WithFill(durable[o])
       /\ task[t].work.filled <= task[t].seen.filled
  /\ o # None /\ task[t].pc # "log" => task[t].work = durable[o]
  /\ lock = t /\ task[t].pc \in {"query", "trades", "vanished"} => mem[o] = durable[o]

Agreement ==
  /\ \A t \in Tasks : Copy(t)
  /\ LedgerMatchesLog /\ BookedOnce /\ MonitorFollowsLog

(* An order the log has closed as the venue did is over at the venue too,  *)
(* with nothing left to book; so is one the venue has just said to be over *)
(* to a coroutine that then reads, and books, its trades.                  *)
Closed == {"FILLED", "CANCELLED"}
Over(o) == placed[o] = 1 /\ ~IsOpen(venue[o])
Complete(o) ==
  durable[o].state \in Closed => Over(o) /\ durable[o].filled = venue[o].filled
Answered(t) ==
  task[t].pc \in {"trades", "apply", "log"} /\ task[t].seen.state \in Closed =>
    /\ Over(task[t].at)
    /\ task[t].pc # "trades" => task[t].seen.filled = venue[task[t].at].filled

Completion == (\A o \in Orders : Complete(o)) /\ (\A t \in Tasks : Answered(t))

(* No order is lost between the log and whoever books its fills: a cycle   *)
(* that has its acknowledgement finds its order at the venue, so it never  *)
(* gives up on an order that is working.                                   *)
Minded(o) ==
  phase \in {"running", "recovering"} /\ IsOpen(durable[o]) =>
    InHand(o) \/ mem[o] # NoOrder \/ o \in todo
AtVenue(o) == placed[o] = 1 => venue[o].state # "NONE"
Found(t) ==
  /\ task[t].pc = "acked" => placed[task[t].at] = 1
  /\ task[t].pc \in {"query", "vanished"} /\ lock # t /\ t # Boot =>
       \/ task[t].work.state = "SUBMIT_UNKNOWN"
       \/ task[t].pc = "query" /\ placed[task[t].at] = 1

Tending == (\A o \in Orders : Minded(o) /\ AtVenue(o)) /\ (\A t \in Tasks : Found(t))

Interruptible == "cancel" \in Faults \/ "stop" \in Faults

Losing == Interruptible \/ "query" \in Faults \/ "wipe" \in Faults

IInv == TypeOK /\ Custody /\ Reach /\ Stages /\ (~Interruptible => Agreement /\ Completion)
        /\ (~Losing => Tending)

=============================================================================
