-------------------------- MODULE MCReliableDelivery --------------------------
(***************************************************************************)
(* ReliableDelivery for TLC.  Payloads are the numbers of the events.      *)
(***************************************************************************)
EXTENDS ReliableDelivery

Payloads == 1 .. MaxEvents

(* The goroutines are alike, and so are the subscribers.                   *)
Alike == Permutations(Writer) \cup Permutations(Subscriber)

(* The behaviours of Spec in which no two goroutines hand out events at    *)
(* the same time and nothing is dropped.                                   *)
UndisturbedSpec == Init /\ [][Next /\ Undisturbed']_vars

=============================================================================
