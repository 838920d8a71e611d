----------------------------- MODULE MCReplication -----------------------------
(***************************************************************************)
(* Replication for TLC.                                                    *)
(***************************************************************************)
EXTENDS Replication

CONSTANTS a, b, c, d, e

(* A chain; two ways to the same server, with and without another below;   *)
(* two servers that subscribe to each other.                               *)
Chain   == {<< a, b >>, << b, c >>}
Diamond == {<< a, b >>, << a, c >>, << b, d >>, << c, d >>}
Below   == Diamond \cup {<< d, e >>}
Mutual  == {<< a, b >>, << b, a >>}

=============================================================================
