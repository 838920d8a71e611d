--------------------------- MODULE MCResolveFindings ---------------------------
(***************************************************************************)
(* ResolveFindings for TLC.                                                *)
(***************************************************************************)
EXTENDS ResolveFindings, TLC

CONSTANTS r1, r2

Own(r)     == [id |-> r, type |-> "own"]
Untyped(r) == [id |-> r, type |-> "unknown"]
Wrong(r)   == [id |-> r, type |-> "other"]

Says(kind, subject, missing) == [kind |-> kind, subject |-> subject, missing |-> missing]

(* Missing resources with the right type, none, and another; a missing     *)
(* reference, also together with a missing resource; one of phase 0.       *)
Contents ==
  { Says("other", Own(r1), {Own(r2)}),
    Says("other", Own(r2), {Untyped(r1), Wrong(r2)}),
    Says("missingReference", Own(r1), {}),
    Says("missingReference", Own(r1), {Own(r2)}),
    Says("phase0", Own(r1), {Own(r2)}) }

NoType == { Says("missingReference", Untyped(r1), {}) }

Symmetry == Permutations(Goroutine) \cup Permutations(FindingId)

=============================================================================
