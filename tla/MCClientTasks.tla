--------------------------- MODULE MCClientTasks ---------------------------
(* Finite instances of ClientTasks for TLC. *)
EXTENDS ClientTasks

=============================================================================
