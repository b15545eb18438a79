------------------------------- MODULE Quiesce -------------------------------
(***************************************************************************)
(* What the tracer promises to the dump that follows it: the threads of a  *)
(* process are brought to migration points one by one, a thread that is    *)
(* there stays there, and the process is suspended only when all of the    *)
(* threads it was asked to bring are there. Threads may go away at any     *)
(* time.                                                                   *)
(***************************************************************************)
CONSTANT Threads

VARIABLES
    members,    \* the threads to be brought to a migration point
    status,     \* "free", "parked" or "gone", for each thread
    suspended   \* may the process be dumped

vars == <<members, status, suspended>>

Init ==
    /\ members = {}
    /\ status = [t \in Threads |-> "free"]
    /\ suspended = FALSE

Choose ==
    /\ members = {}
    /\ members' \in SUBSET Threads
    /\ UNCHANGED <<status, suspended>>

Park(t) ==
    /\ t \in members
    /\ ~suspended
    /\ status[t] = "free"
    /\ status' = [status EXCEPT ![t] = "parked"]
    /\ UNCHANGED <<members, suspended>>

Suspend ==
    /\ ~suspended
    /\ members # {}
    /\ \A t \in members : status[t] = "parked"
    /\ suspended' = TRUE
    /\ UNCHANGED <<members, status>>

Leave ==
    /\ \E gone \in SUBSET Threads :
          status' = [t \in Threads |-> IF t \in gone THEN "gone" ELSE status[t]]
    /\ UNCHANGED <<members, suspended>>

Next == Choose \/ Suspend \/ Leave \/ \E t \in Threads : Park(t)

Spec == Init /\ [][Next]_vars
=============================================================================
