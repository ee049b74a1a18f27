----------------------------- MODULE MCWatchdog -----------------------------
(* A finite instance of Watchdog: the sweep, a cycle's gate and an operator. *)
EXTENDS Watchdog, TLC

=============================================================================
