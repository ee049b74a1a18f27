------------------------- MODULE MCProtectiveGroups -------------------------
(***************************************************************************)
(* Finite instances of ProtectiveGroups.                                   *)
(***************************************************************************)
EXTENDS ProtectiveGroups

=============================================================================
