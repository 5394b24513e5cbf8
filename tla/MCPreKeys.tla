----------------------------- MODULE MCPreKeys -----------------------------
(* Finite instances of PreKeys for TLC. *)
EXTENDS PreKeys, TLC

\* Uploads are interchangeable.
UploadSymmetry == Permutations(Uploads)

=============================================================================
