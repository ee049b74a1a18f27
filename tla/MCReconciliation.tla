-------------------------- MODULE MCReconciliation --------------------------
EXTENDS Reconciliation

\* An account with cash only, and one that already holds coins.
MCVenueAtFirst == {[qty |-> 0, cash |-> 3], [qty |-> 1, cash |-> 2]}
=============================================================================
