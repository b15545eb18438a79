------------------------------ MODULE MCTracer ------------------------------
(***************************************************************************)
(* Tracer for TLC: a process with a main thread and workers, two call      *)
(* sites of check_migrate.                                                 *)
(***************************************************************************)
EXTENDS TracerInv, TLC

\* Workers are interchangeable; the main thread is not one of them. Sound for
\* the safety runs only.
Symmetry == Permutations(Threads \ {Main}) \cup Permutations(Sites)
=============================================================================
