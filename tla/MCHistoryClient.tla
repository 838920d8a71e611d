--------------------------- MODULE MCHistoryClient ---------------------------
(***************************************************************************)
(* HistoryClient for TLC.  TLC knows the constants as model values.       *)
(***************************************************************************)
EXTENDS HistoryClient

=============================================================================
