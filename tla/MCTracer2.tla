------------------------------ MODULE MCTracer2 ------------------------------
(***************************************************************************)
(* An instance of Tracer2: equivalence points out of address order, two    *)
(* pairs of which are calls that follow each other, listed both ways.      *)
(***************************************************************************)
EXTENDS Tracer2

PointsX86 == <<18, 0, 5, 13, 26>>
InsnsX86 == {0, 5, 8, 13, 18, 22, 26, 30}
=============================================================================
