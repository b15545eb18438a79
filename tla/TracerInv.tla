----------------------------- MODULE TracerInv ------------------------------
(***************************************************************************)
(* The inductive invariant of Tracer, and the refinement that shows it to  *)
(* implement Quiesce.                                                      *)
(***************************************************************************)
EXTENDS Tracer

HeldPcs == {"untrap", "restore", "set_flag", "wait_flag", "set_regs", "turn", "set_bp", "cont"}
LatePcs == {"set_regs", "turn"} \cup TurnPcs \cup ParkedPcs

\* Who can be where: some steps are the main thread's, some the others'.
Roles ==
    /\ mainpc = "list" => listed = {}
    /\ mainpc \in {"list", "spawn"} => \A t \in Threads : pc[t] = "none"
    /\ \A t \in Threads :
          /\ pc[t] # "none" => t \in listed
          /\ t \in listed => st[t] # "unborn"
          /\ mainpc = "join" /\ t \in listed => pc[t] # "none"
          /\ pc[t] \in OnlyMainPcs => t = Main
          /\ pc[t] \in {"seize", "wait_suspend"} => t # Main

\* Turns exclude each other.
TurnOwned == \A t \in Threads : pc[t] \in TurnPcs => lock = t

Parked == {t \in Threads : pc[t] \in ParkedPcs}

Counted == trace_done = Cardinality(Parked)

\* Nobody passes the trace_done loop before every listed thread is parked.
Barrier ==
    \A t \in Threads :
        pc[t] \in ParkedPcs \ {"wait_done"} => \A u \in listed : pc[u] \in ParkedPcs

TextShape ==
    /\ \A a \in RetAddrs : text[a] \in {"ORIG", "BRK"}
    /\ text[TrapAddr] \in {"INT3", "NOP"}
    /\ \A t \in Threads : data[t] \in {"ORIG", "BRK"}

\* The trap is gone, and the flag up, before any tracer takes its turn.
Untrapped == text[TrapAddr] = "NOP" /\ indicator = -1

TrapGone ==
    /\ pc[Main] \in {"none", "attach", "wait_attach", "poke"}
          => indicator = -1 /\ \A t \in Threads : at[t] # TrapAddr
    /\ (\/ flag = 1
        \/ \E t \in Threads : pc[t] \in LatePcs
        \/ \E a \in RetAddrs : text[a] = "BRK")
          => Untrapped /\ pc[Main] \in {"wait_flag", "failed"} \cup LatePcs
    /\ pc[Main] = "set_flag" => Untrapped
    /\ pc[Main] = "wait_flag" => flag = 1
    /\ pc[Main] \in {"wait_trap", "untrap"} /\ PtraceOK(Main) => at[Main] = TrapAddr
    /\ pc[Main] = "restore" /\ PtraceOK(Main) => text[TrapAddr] = "NOP"
    /\ \A t \in Threads : pc[t] \in LatePcs => flag = 1 \/ pc[Main] = "returned"

\* The SIGSTOP comes last, and a dead process stays dead.
StopLast ==
    /\ sigstop => pc[Main] \in {"clear_flag", "returned"}
    /\ pc[Main] \in {"clear_flag", "returned"} => sigstop \/ ~Alive
    /\ ~Alive => \A t \in Threads : st[t] \in {"dead", "unborn"}
    /\ st[Main] # "unborn"
    /\ \A t \in Threads : st[t] = "stop" => traced[t] \/ sigstop

\* Who is attached to its tracee, and whose tracee is held: none runs between its
\* trap and its turn, nor once it is parked.
Attached ==
    \A t \in Threads :
        /\ pc[t] \in {"none", "attach", "seize"} => ~traced[t]
        /\ pc[t] \in {"wait_attach", "poke"} => traced[t]
        /\ pc[t] \in HeldPcs \cup ParkedPcs => st[t] # "run"

\* The pc register of each tracee is where the tracer thinks it is.
PcRegister ==
    \A t \in Threads :
        /\ st[t] \in {"run", "unborn"} => off[t] = 0
        /\ pc[t] = "poke" /\ PtraceOK(t) => off[t] = 0
        /\ pc[t] \in {"none", "attach", "wait_attach", "seize"}
              => st[t] # "stop" \/ sigstop
        /\ pc[t] = "wait_trap" /\ PtraceOK(t) => off[t] = TrapLen /\ at[t] # "user"
        /\ pc[t] \in {"untrap", "restore", "set_flag", "wait_flag", "set_regs"}
              /\ PtraceOK(t) => regs[t] = 0
        /\ pc[t] \in {"turn", "set_bp", "cont"} /\ PtraceOK(t) => off[t] = 0
        /\ pc[t] = "wait_brk" /\ PtraceOK(t) => off[t] = TrapLen

\* As long as no tracer thread has given up: a breakpoint is where the owner of
\* the turn put it, saved instructions are original, the tracee of a turn stops
\* nowhere else, and a parked tracee rests at its migration point.
Turns ==
    NoneFailed =>
        /\ \A a \in RetAddrs : text[a] = "BRK" =>
              \E t \in Threads : pc[t] \in {"cont", "wait_brk"} /\ ret_addr[t] = a
        /\ \A t \in Threads :
              /\ data[t] = "ORIG"
              /\ pc[t] = "wait_brk" /\ PtraceOK(t) => at[t] = ret_addr[t]
              /\ pc[t] \in ParkedPcs /\ Alive => AtMigrationPoint(t)

\* The inductive invariant of trace_thread(): turns under the mutex, the barrier
\* at trace_done, the trap removed before the first turn, the SIGSTOP last.
IInv ==
    /\ TypeOK
    /\ Roles
    /\ TurnOwned
    /\ Counted
    /\ Barrier
    /\ TextShape
    /\ TrapGone
    /\ StopLast
    /\ Attached
    /\ PcRegister
    /\ Turns

-----------------------------------------------------------------------------
(***************************************************************************)
(* The tracer implements Quiesce.                                          *)
(***************************************************************************)
Status(t) ==
    IF st[t] = "dead" THEN "gone"
    ELSE IF pc[t] \in ParkedPcs /\ AtMigrationPoint(t) THEN "parked" ELSE "free"

Q == INSTANCE Quiesce WITH
        members <- listed,
        status <- [t \in Threads |-> Status(t)],
        suspended <- sigstop

\* tracer.c implements Quiesce: a tracee that rests at its migration point (its
\* physical state: stopped, at the return address) never leaves it, because no
\* tracer thread detaches before the SIGSTOP, and the SIGSTOP comes only when
\* all listed tracees rest there.
QuiesceSpec == Q!Spec
=============================================================================
