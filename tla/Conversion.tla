----------------------------- MODULE Conversion -----------------------------
(***************************************************************************)
(* What `crit recode' promises of the output directory, and of the memory  *)
(* of the dumped process, which is in one file only: the output is what an *)
(* earlier dump left, or incomplete, or all of this dump; the memory stays *)
(* in the source, or (when it may be moved) is in one place or gone, with  *)
(* an output thrown away or a run that is cut short while it edits it.     *)
(***************************************************************************)

VARIABLES
    moves,   \* the memory is moved, not copied
    out,     \* "old", "partial" or "new"
    mem      \* where the memory is: "source", "output" or "gone"

vars == <<moves, out, mem>>

Init == moves \in BOOLEAN /\ out = "old" /\ mem = "source"

\* The output is thrown away before anything is written, with what it holds. That
\* may be cut short.
Begin ==
    /\ out' = "partial"
    /\ mem' \in IF mem = "output" THEN {"output", "gone"} ELSE {mem}
    /\ UNCHANGED moves

Move ==
    /\ moves /\ out = "partial" /\ mem = "source"
    /\ mem' = "output"
    /\ UNCHANGED <<moves, out>>

\* The memory that was moved is edited where it is now: a run that is cut short loses it.
Spoil ==
    /\ moves /\ out = "partial" /\ mem = "output"
    /\ mem' = "gone"
    /\ UNCHANGED <<moves, out>>

\* The output is complete at once, and only with the memory.
Finish ==
    /\ out = "partial" /\ mem = IF moves THEN "output" ELSE "source"
    /\ out' = "new"
    /\ UNCHANGED <<moves, mem>>

Next == Begin \/ Move \/ Spoil \/ Finish

Spec == Init /\ [][Next]_vars
=============================================================================
