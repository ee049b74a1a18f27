---------------------------- MODULE VenueAccess ----------------------------
(***************************************************************************)
(* The gate in front of every call to a venue: VenueRateLimiter, its       *)
(* sliding windows, the penalty, the circuit breaker and the ban, and      *)
(* _invoke of the transports, which acquires, calls and tells the limiter  *)
(* what came back.  One limiter serves every coroutine of the process;     *)
(* acquire checks, sleeps, and checks again, but not everything again.     *)
(*                                                                         *)
(* Time is in ticks and only ages are kept: what was charged n ticks ago,  *)
(* how long a penalty still lasts, how long the circuit has been open.     *)
(* A sleep lasts at least as long as was asked, and may last longer.       *)
(***************************************************************************)
EXTENDS Integers, FiniteSetsExt

CONSTANTS
  Callers,      \* the coroutines that call the venue
  Kinds,        \* the kinds of call
  Windows,      \* the sliding windows
  Length,       \* Length[w]: window_seconds
  Capacity,     \* Capacity[w]: units per window
  Cost,         \* Cost[k][w]: units a call of kind k takes; 0: w is not consulted
  MaxWait,      \* max_wait_seconds
  Threshold,    \* failure_threshold
  Cooldown,     \* circuit_cooldown_seconds
  MaxPenalty,   \* bound: the longest Retry-After
  Reports       \* the used weights a venue may report

ASSUME WindowsAssumption ==
  /\ IsFiniteSet(Windows) /\ Kinds # {}
  /\ Length \in [Windows -> Nat \ {0}] /\ Capacity \in [Windows -> Nat \ {0}]
  /\ Cost \in [Kinds -> [Windows -> Nat]]
  /\ \A k \in Kinds, w \in Windows : Cost[k][w] <= Capacity[w]
ASSUME LimitsAssumption ==
  /\ MaxWait \in Nat /\ Threshold \in Nat \ {0} /\ Cooldown \in Nat \ {0}
  /\ MaxPenalty \in Nat \ {0} /\ Reports \subseteq Nat

VARIABLES
  charged,  \* charged[w][n]: units the limiter charged n ticks ago
  sent,     \* history: sent[w][n]: units of the calls sent n ticks ago
  penalty,  \* ticks the penalty still lasts
  failures, \* consecutive failures, counted up to Threshold
  opened,   \* ticks since the circuit was opened, up to Cooldown; -1 closed
  banned,
  call      \* call[c]: what c asked for and where it stands

limiter == <<charged, penalty, failures, opened, banned>>
vars == <<limiter, sent, call>>

Ages(w) == 0..(Length[w] - 1)
NoCall == [stage |-> "idle", kind |-> CHOOSE k \in Kinds : TRUE, left |-> 0, waited |-> 0]

Init ==
  /\ charged = [w \in Windows |-> [n \in Ages(w) |-> 0]]
  /\ sent = charged
  /\ penalty = 0 /\ failures = 0 /\ opened = -1 /\ banned = FALSE
  /\ call = [c \in Callers |-> NoCall]

----------------------------------------------------------------------------
(* The windows: the units of a book that are n ticks old, or older. *)
OlderThan(book, n) ==
  LET sum[i \in Nat] == IF i \in DOMAIN book THEN book[i] + sum[i + 1] ELSE 0 IN sum[n]
Total(book) == OlderThan(book, 0)
Used(w) == Total(charged[w])

(* wait_seconds: the oldest charges leave first; the shortest delay after  *)
(* which enough of them have left.                                         *)
Fits(w, units, delay) ==
  Used(w) - OlderThan(charged[w], Length[w] - delay) + units <= Capacity[w]
WaitSeconds(w, units) ==
  CHOOSE delay \in 0..Length[w] :
    Fits(w, units, delay) /\ (delay = 0 \/ ~Fits(w, units, delay - 1))

Consulted(k) == {w \in Windows : Cost[k][w] > 0}
DelayOfTheFirst(k) ==
  LET w == CHOOSE w \in Consulted(k) : TRUE IN WaitSeconds(w, Cost[k][w])
Delay(k) == Max({0} \cup {WaitSeconds(w, Cost[k][w]) : w \in Consulted(k)})

Charge(book, k) == [w \in Windows |-> [book[w] EXCEPT ![0] = @ + Cost[k][w]]]

(* observe_external: the venue's figure wins when it says more. *)
Observe(reported) ==
  charged' = [w \in Windows |->
                IF w = "weight" /\ reported > Used(w)
                THEN [charged[w] EXCEPT ![0] = @ + reported - Used(w)]
                ELSE charged[w]]

----------------------------------------------------------------------------
(* acquire.  One that is refused at once has changed nothing and is no     *)
(* step: a venue that banned us, an open circuit, too long a penalty.      *)
Idle(c) == call[c].stage = "idle"
Open == opened >= 0 /\ opened < Cooldown
BannedOrNot == ~Open /\ penalty <= MaxWait
Admitted == ~banned /\ ~Open /\ penalty <= MaxWait

Sleep(c, stage, k, left, waited) ==
  call' = [call EXCEPT ![c] = [stage |-> stage, kind |-> k, left |-> left, waited |-> waited]]

(* _wait_for, from one sleep to the next, and the charge that follows it   *)
(* without a pause: the call goes out, is given up, or sleeps again.       *)
EverySleepAnew(waited) == 0
Accumulated(waited) == waited
Settle(c, k, waited) ==
  LET delay == Delay(k)
      total == Accumulated(waited) + delay
  IN \/ /\ delay = 0
        /\ charged' = Charge(charged, k)
        /\ sent' = Charge(sent, k)
        /\ Sleep(c, "sent", k, 0, 0)
     \/ /\ delay > 0 /\ total > MaxWait
        /\ call' = [call EXCEPT ![c] = NoCall]
        /\ UNCHANGED <<charged, sent>>
     \/ /\ delay > 0 /\ total <= MaxWait
        /\ Sleep(c, "waiting", k, delay, total)
        /\ UNCHANGED <<charged, sent>>

Ask(c, k) ==
  /\ Idle(c) /\ Admitted
  /\ \/ penalty = 0 /\ Settle(c, k, 0)
     \/ penalty > 0 /\ Sleep(c, "penalised", k, penalty, 0) /\ UNCHANGED <<charged, sent>>
  /\ UNCHANGED <<penalty, failures, opened, banned>>

Wake(c) ==
  /\ call[c].stage \in {"penalised", "waiting"} /\ call[c].left = 0
  /\ Settle(c, call[c].kind, call[c].waited)
  /\ UNCHANGED <<penalty, failures, opened, banned>>

----------------------------------------------------------------------------
(* _invoke, when the venue has answered, or not. *)
Reply(c) ==
  /\ call[c].stage = "sent"
  /\ call' = [call EXCEPT ![c] = NoCall]
  /\ \E reported \in Reports : Observe(reported)
  /\ UNCHANGED sent

Succeeds(c) ==
  /\ Reply(c)
  /\ failures' = 0 /\ opened' = -1
  /\ UNCHANGED <<penalty, banned>>

RecordFailure ==
  /\ failures' = Min({failures + 1, Threshold})
  /\ opened' = IF failures' = Threshold THEN 0 ELSE opened

(* Whatever the failure is; a rate limit and a ban change more. *)
Fails(c) ==
  /\ Reply(c) /\ RecordFailure
  /\ UNCHANGED <<penalty, banned>>

RateLimited(c) ==
  /\ Reply(c) /\ RecordFailure
  /\ \E after \in 1..MaxPenalty : penalty' = Max({penalty, after})
  /\ UNCHANGED banned

Banned(c) ==
  /\ Reply(c) /\ RecordFailure
  /\ banned' = TRUE
  /\ UNCHANGED penalty

Answer(c) == Succeeds(c) \/ Fails(c) \/ RateLimited(c) \/ Banned(c)

(* Stopping supervision cancels a coroutine wherever it waits; what it was *)
(* charged stays charged, and nobody tells the breaker.                    *)
Cancel(c) ==
  /\ ~Idle(c)
  /\ call' = [call EXCEPT ![c] = NoCall]
  /\ UNCHANGED <<limiter, sent>>

----------------------------------------------------------------------------
Less(n) == IF n > 0 THEN n - 1 ELSE 0

(* _evict: an entry leaves once it is as old as the window is long. *)
Older(book) == [w \in Windows |-> [n \in Ages(w) |-> IF n = 0 THEN 0 ELSE book[w][n - 1]]]

Tick ==
  /\ charged' = Older(charged)
  /\ sent' = Older(sent)
  /\ penalty' = Less(penalty)
  /\ opened' = IF opened = -1 THEN -1 ELSE Min({opened + 1, Cooldown})
  /\ call' = [c \in Callers |-> [call[c] EXCEPT !.left = Less(@)]]
  /\ UNCHANGED <<failures, banned>>

Next ==
  \/ \E c \in Callers : Wake(c) \/ Answer(c) \/ Cancel(c) \/ \E k \in Kinds : Ask(c, k)
  \/ Tick

Spec == Init /\ [][Next]_vars

(* Time passes, a sleeper wakes, and a call ends by its own timeout. *)
Fairness ==
  /\ WF_vars(Tick)
  /\ \A c \in Callers : WF_vars(Wake(c)) /\ WF_vars(Answer(c))

FairSpec == Spec /\ Fairness

----------------------------------------------------------------------------
Call == [stage : {"idle", "penalised", "waiting", "sent"}, kind : Kinds,
         left : Nat, waited : 0..MaxWait]

TypeOK ==
  /\ \A book \in {charged, sent} :
       /\ DOMAIN book = Windows
       /\ \A w \in Windows : book[w] \in [Ages(w) -> Nat]
  /\ penalty \in 0..MaxPenalty
  /\ failures \in 0..Threshold /\ opened \in -1..Cooldown
  /\ banned \in BOOLEAN
  /\ call \in [Callers -> Call]

(* Whoever waits for what, and whatever the venue reported meanwhile, no   *)
(* window of time ever sees more than its budget sent (the opening of      *)
(* core/ratelimit.py: a sliding window bounds every interval).             *)
WithinBudget == \A w \in Windows : Total(sent[w]) <= Capacity[w]

(* An acquire ends, in a call or in a refusal, however often others take   *)
(* the budget it slept for (_wait_for adds up what was waited).            *)
EveryCallEnds == \A c \in Callers : ~Idle(c) ~> Idle(c)

(* Once the venue has banned us, what was past the check is all that is    *)
(* still sent, and then nothing (VenueRateLimiter.ban).                    *)
EventuallySilent == <>[](banned => \A c \in Callers : Idle(c))

(* No call goes out while a penalty lasts (penalise: "no further call      *)
(* until the penalty has been served").                                    *)
PenaltyServed ==
  [][penalty > 0 => \A c \in Callers : call'[c].stage = "sent" => call[c].stage = "sent"]_vars

=============================================================================
