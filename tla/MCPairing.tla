----------------------------- MODULE MCPairing -----------------------------
(* Finite instances of Pairing for TLC. *)
EXTENDS Pairing, TLC

\* The pair-code requests are alike; the properties of the run are invariants
\* and action properties, for which the reduction is sound.
Symmetry == Permutations(CodeFlows)

=============================================================================
