---------------------------- MODULE MCConnection ----------------------------
(* Finite instances of Connection for TLC. *)
EXTENDS Connection

=============================================================================
