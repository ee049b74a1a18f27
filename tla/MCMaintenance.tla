--------------------------- MODULE MCMaintenance ---------------------------
EXTENDS Maintenance

MCHotDays == [pass \in Passes |-> 1]
\* The command overrides the policy with a shorter window.
MCKeepDays == [pass \in Passes |-> IF pass = Tick THEN 3 ELSE 2]
=============================================================================
