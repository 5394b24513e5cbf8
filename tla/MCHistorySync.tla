--------------------------- MODULE MCHistorySync ---------------------------
(* A finite instance of HistorySync for TLC. *)
EXTENDS HistorySync

=============================================================================
