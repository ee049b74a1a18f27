--------------------------- MODULE MCVenueAccess ---------------------------
(* A finite instance of VenueAccess: reads that cost weight and orders     *)
(* that cost weight and a unit of a shorter window of their own.           *)
EXTENDS VenueAccess, TLC

TwoWindows == {"weight", "burst"}
Lengths == [weight |-> 3, burst |-> 2]
Capacities == [weight |-> 2, burst |-> 1]
Costs == [read  |-> [weight |-> 1, burst |-> 0],
          order |-> [weight |-> 1, burst |-> 1]]
Symmetry == Permutations(Callers)

=============================================================================
