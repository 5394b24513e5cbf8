--------------------------- MODULE MCSignalState ---------------------------
(* Finite instances of SignalState for TLC. *)
EXTENDS SignalState, TLC

SendSymmetry == Permutations(Sends)

=============================================================================
