--------------------------- MODULE MCSupervision ---------------------------
(* Finite instances of Supervision. *)
EXTENDS Supervision, TLC

=============================================================================
