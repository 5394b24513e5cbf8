-------------------------- MODULE MCSessionStores --------------------------
(* A finite instance of SessionStores for TLC. *)
EXTENDS SessionStores, TLC

\* Two keys that share the first part: two macs of one collection, two
\* messages of one chat.
TwoKeys == {<<"a", "x">>, <<"a", "y">>}
FirstKey == <<"a", "x">>

CallerSymmetry == Permutations(Callers)

=============================================================================
