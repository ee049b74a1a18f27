--------------------------- MODULE OrderContract ---------------------------
(***************************************************************************)
(* What the execution service promises of every order, whatever the        *)
(* network and the process do (the opening of execution/service.py): the   *)
(* intent is committed before the venue can see it, it is placed at most   *)
(* once, the lifecycle moves only along the table, and a fill is booked    *)
(* only if the venue executed it and only once.                            *)
(***************************************************************************)
EXTENDS OrderLifecycle

CONSTANT Orders

VARIABLES
  state,     \* state[o]: the durable state of o, "NONE" before its intent
  placed,    \* placed[o]: how often a request for o reached the venue's book
  executed,  \* executed[o]: units the venue executed
  booked     \* booked[o]: units the log books

contractVars == <<state, placed, executed, booked>>

Init ==
  /\ state = [o \in Orders |-> "NONE"]
  /\ placed = [o \in Orders |-> 0]
  /\ executed = [o \in Orders |-> 0]
  /\ booked = [o \in Orders |-> 0]

Commit(o) ==
  /\ state[o] = "NONE"
  /\ state' = [state EXCEPT ![o] = "PENDING_SUBMIT"]
  /\ UNCHANGED <<placed, executed, booked>>

Place(o) ==
  /\ state[o] # "NONE"
  /\ placed[o] = 0
  /\ placed' = [placed EXCEPT ![o] = 1]
  /\ UNCHANGED <<state, executed, booked>>

Execute(o) ==
  /\ placed[o] = 1
  /\ executed[o] < Qty
  /\ executed' = [executed EXCEPT ![o] = @ + 1]
  /\ UNCHANGED <<state, placed, booked>>

Book(o) ==
  /\ booked[o] < executed[o]
  /\ booked' = [booked EXCEPT ![o] = @ + 1]
  /\ \E s \in {"PARTIALLY_FILLED", "FILLED"} :
       /\ s = state[o] \/ (state[o] # "NONE" /\ s \in LegalTransitions[state[o]])
       /\ state' = [state EXCEPT ![o] = s]
  /\ UNCHANGED <<placed, executed>>

Move(o) ==
  /\ state[o] # "NONE"
  /\ \E s \in LegalTransitions[state[o]] : state' = [state EXCEPT ![o] = s]
  /\ UNCHANGED <<placed, executed, booked>>

Next == \E o \in Orders : Commit(o) \/ Place(o) \/ Execute(o) \/ Book(o) \/ Move(o)

Spec == Init /\ [][Next]_contractVars

=============================================================================
