--------------------------- MODULE MCNoiseSocket ---------------------------
(* Finite instances of NoiseSocket for TLC. *)
EXTENDS NoiseSocket, TLC

\* Commands are interchangeable, and so are keepalives.
WriteSymmetry == Permutations(Writes \ Keepalives) \cup Permutations(Keepalives)

=============================================================================
