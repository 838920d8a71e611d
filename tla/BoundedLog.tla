----------------------------- MODULE BoundedLog -----------------------------
(***************************************************************************)
(* What the history ring promises: a log of the Limit most recent entries, *)
(* oldest first, and the sequence id of the newest entry that fell out.    *)
(***************************************************************************)
EXTENDS Integers, Sequences

CONSTANTS
  Limit,    (* how many entries are retained                               *)
  Entry     (* stored events: records with a field seq                     *)

VARIABLES
  tail,     (* the retained entries                                        *)
  boundary  (* sequence id of the newest entry dropped, 0 if none was      *)

logVars == << tail, boundary >>

LogInit ==
  /\ tail = << >>
  /\ boundary = 0

Push(e) ==
  IF Len(tail) < Limit
  THEN /\ tail' = Append(tail, e)
       /\ UNCHANGED boundary
  ELSE /\ tail' = Append(Tail(tail), e)
       /\ boundary' = Head(tail).seq

LogNext == \E e \in Entry : Push(e)

LogSpec == LogInit /\ [][LogNext]_logVars

=============================================================================
