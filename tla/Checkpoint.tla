----------------------------- MODULE Checkpoint -----------------------------
(***************************************************************************)
(* What a migration promises: the process stays one process. It advances   *)
(* on one host, is saved as it is, and goes on from there, on any host; it *)
(* is never in two places and never goes back.                             *)
(***************************************************************************)
EXTENDS Naturals

CONSTANT Hosts

VARIABLES
    place,   \* the host it is on, or "none", "saved" or "ended"
    ver      \* how far it has come

vars == <<place, ver>>

Init == place = "none" /\ ver = 0

Start == place = "none" /\ place' \in Hosts /\ UNCHANGED ver
Advance == place \in Hosts /\ ver' = ver + 1 /\ UNCHANGED place
Save == place \in Hosts /\ place' = "saved" /\ UNCHANGED ver
Resume == place = "saved" /\ place' \in Hosts /\ UNCHANGED ver
End == place \in Hosts /\ place' = "ended" /\ UNCHANGED ver

Next == Start \/ Advance \/ Save \/ Resume \/ End

Spec == Init /\ [][Next]_vars
=============================================================================
