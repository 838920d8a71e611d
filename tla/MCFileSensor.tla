----------------------------- MODULE MCFileSensor -----------------------------
(***************************************************************************)
(* FileSensor for TLC.                                                     *)
(***************************************************************************)
EXTENDS FileSensor

(* Every write has a token of its own, or the first two fall in the same   *)
(* second, which is what a Last-Modified header tells.                     *)
OwnToken   == [w \in 1 .. MaxWrites |-> w]
SameSecond == [w \in 1 .. MaxWrites |-> (w + 1) \div 2]

=============================================================================
