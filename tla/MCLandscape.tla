---------------------------- MODULE MCLandscape ----------------------------
(***************************************************************************)
(* Landscape for TLC.                                                      *)
(***************************************************************************)
EXTENDS Landscape

CONSTANTS c1, c2, n1, x1

From(id, f) == [id |-> id, says |-> f]

(* The derived ids, as a sensor that follows the docs sends them.          *)
Derived == {From(f, f) : f \in {<< c1, TypeMissing >>, << n1, NodeTypeMissing >>}}

(* And an id of the sender's own, and the derived id of something else.    *)
OneOfEach ==
  Derived \cup {From(x1, << c1, TypeMissing >>),
                From(<< n1, NodeTypeMissing >>, << c2, ParentNotFound >>)}

NoFindings  == {}
TypeFinding == {From(<< c1, TypeMissing >>, << c1, TypeMissing >>)}
OtherId     == {From(x1, << c1, TypeMissing >>)}

=============================================================================
