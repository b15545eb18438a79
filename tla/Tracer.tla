------------------------------- MODULE Tracer -------------------------------
(***************************************************************************)
(* tools/tracer.c: one tracer thread per thread of the target process.     *)
(* The tracer threads share a mutex (lock), a flag and a counter           *)
(* (trace_done); each of them drives its own tracee with ptrace until the  *)
(* whole process rests at migration points and can be dumped.              *)
(*                                                                         *)
(* A tracer thread is named by the tracee thread it drives, so pc[t] is    *)
(* the program counter of the trace_thread() call whose thread_id is t.    *)
(* A spin loop "lock; read; unlock" whose read does not end the loop       *)
(* changes nothing, so it is the one step that ends it.                    *)
(*                                                                         *)
(* The target process (the tracees, their text, check_migrate and the      *)
(* ptrace and signal behaviour of the kernel) is external: it is modelled  *)
(* from how tracer.c uses it.                                              *)
(***************************************************************************)
EXTENDS Integers, FiniteSets

CONSTANTS
    Threads,      \* every thread the target process ever has
    Main,         \* the thread whose id is the process id
    None,         \* "the mutex is free", "no value"
    Sites,        \* return addresses of the calls of check_migrate
    Outer,        \* a return address further up the call chain
    TrapAddr,     \* address of the compiler placed trap in check_migrate
    ARCH,         \* "x86_64" or "aarch64" (the #ifdef of the build)
    MAX_THREADS,  \* size of the thread id buffer
    Faults        \* what the environment may do, see FaultKinds

FaultKinds == {"exit", "kill", "perm", "elf", "spawn"}

ASSUME TracerAssumption ==
    /\ IsFiniteSet(Threads)
    /\ Main \in Threads
    /\ None \notin Threads
    /\ Sites # {}
    /\ Outer \notin Sites
    /\ TrapAddr \notin Sites \cup {Outer}
    /\ "user" \notin Sites \cup {Outer, TrapAddr}
    /\ ARCH \in {"x86_64", "aarch64"}
    /\ MAX_THREADS \in Nat \ {0}
    /\ Faults \subseteq FaultKinds

VARIABLES
    mainpc,      \* main(): "list", "spawn", "join", "exit"
    listed,      \* thread_id[0 .. num_threads - 1]
    pc,          \* where each tracer thread is in trace_thread()
    lock,        \* owner of the mutex, or None
    flag,        \* 1 between the removal of the trap and the suspension
    trace_done,  \* tracees brought to their migration point
    ret_addr,    \* local of each tracer thread
    data,        \* local of each tracer thread: the saved instruction
    regs,        \* local of each tracer thread: the saved pc, see off
    at,          \* where each tracee is: an address, or "user"
    off,         \* bytes by which its pc register is past that address
    site,        \* return address of its current call of check_migrate
    st,          \* "unborn", "run", "stop" or "dead"
    traced,      \* is its tracer attached to it
    text,        \* the instruction at each address, shared by the tracees
    indicator,   \* the value of __indicator
    sigstop      \* SIGSTOP has been sent to the process

mainVars == <<mainpc, listed>>
shared == <<lock, flag, trace_done>>
locals == <<ret_addr, data, regs>>
place == <<at, off, site>>
process == <<text, indicator, sigstop>>
tracerVars == <<mainVars, pc, shared, locals>>
traceeVars == <<place, st, traced, process>>
vars == <<tracerVars, traceeVars>>

RetAddrs == Sites \cup {Outer}
Addrs == RetAddrs \cup {TrapAddr}
Instructions == {"INT3", "NOP", "ORIG", "BRK"}

\* An x86-64 trap leaves the pc after its one byte, an aarch64 one on itself.
TrapLen == IF ARCH = "x86_64" THEN 1 ELSE 0

\* Program counters of trace_thread().
OnlyMainPcs == {"attach", "wait_attach", "poke", "untrap", "restore", "set_flag",
                "suspend", "clear_flag"}
TurnPcs == {"set_bp", "cont", "wait_brk"}
ParkedPcs == {"wait_done", "wait_suspend", "suspend", "clear_flag", "returned"}
Pcs == OnlyMainPcs \cup TurnPcs \cup ParkedPcs
         \cup {"none", "seize", "wait_trap", "wait_flag", "set_regs", "turn", "failed"}

Born == {t \in Threads : st[t] # "unborn"}
Alive == st[Main] # "dead"

\* A ptrace request succeeds on a stopped tracee of the caller only.
PtraceOK(t) == traced[t] /\ st[t] = "stop"

\* waitpid() reports a stop or a death, and fails at once for a non-tracee.
WaitReturns(t) == ~traced[t] \/ st[t] \in {"stop", "dead"}

Goto(t, p) == pc' = [pc EXCEPT ![t] = p]

\* The tracer thread ends, which detaches its tracee: unless a SIGSTOP is
\* pending the tracee runs on.
Return(t, p) ==
    /\ Goto(t, p)
    /\ traced' = [traced EXCEPT ![t] = FALSE]
    /\ st' = IF PtraceOK(t) /\ ~sigstop THEN [st EXCEPT ![t] = "run"] ELSE st

-----------------------------------------------------------------------------
(***************************************************************************)
(* The tracer's main(): list the threads, find the symbols, start one      *)
(* tracer thread per listed thread, join them.                             *)
(***************************************************************************)

\* get_thread_ids() reads /proc/<pid>/task until the buffer is full.
ListThreads ==
    /\ mainpc = "list"
    /\ \E L \in SUBSET Born :
          /\ Alive => Main \in L
          /\ IF ~Alive THEN L = {}
             ELSE IF Cardinality(Born) <= MAX_THREADS THEN L = Born
             ELSE Cardinality(L) = MAX_THREADS
          /\ listed' = L
    /\ mainpc' = "spawn"
    /\ UNCHANGED <<pc, shared, locals, traceeVars>>

\* get_symbol_addr() fails, as it does for a file that cannot be opened or is no
\* 64-bit ELF file: main() gives up before it touches the process. For an ELF file
\* without the two symbols it succeeds and leaves their addresses uninitialised;
\* such a program is not among those the model has.
SymbolError ==
    /\ mainpc = "spawn"
    /\ "elf" \in Faults
    /\ mainpc' = "exit"
    /\ UNCHANGED <<listed, pc, shared, locals, traceeVars>>

SpawnTracers ==
    /\ mainpc = "spawn"
    /\ pc' = [t \in Threads |-> IF t \notin listed THEN "none"
                                ELSE IF t = Main THEN "attach" ELSE "seize"]
    /\ mainpc' = "join"
    /\ UNCHANGED <<listed, shared, locals, traceeVars>>

JoinTracers ==
    /\ mainpc = "join"
    /\ \A t \in listed : pc[t] \in {"returned", "failed"}
    /\ mainpc' = "exit"
    /\ UNCHANGED <<listed, pc, shared, locals, traceeVars>>

-----------------------------------------------------------------------------
(***************************************************************************)
(* trace_thread(): bring one tracee to its migration point.                *)
(***************************************************************************)

\* PTRACE_ATTACH of the main thread; a failure ends the tracer thread.
Attach(t) ==
    /\ pc[t] = "attach"
    /\ \/ /\ st[t] # "dead"
          /\ traced' = [traced EXCEPT ![t] = TRUE]
          /\ Goto(t, "wait_attach")
          /\ UNCHANGED st
       \/ /\ st[t] = "dead" \/ "perm" \in Faults
          /\ Return(t, "failed")
    /\ UNCHANGED <<mainVars, shared, locals, place, process>>

\* The tracee stops wherever it is; waitpid() returns.
WaitAttach(t) ==
    /\ pc[t] = "wait_attach"
    /\ st' = IF st[t] = "dead" THEN st ELSE [st EXCEPT ![t] = "stop"]
    /\ Goto(t, "poke")
    /\ UNCHANGED <<mainVars, shared, locals, place, traced, process>>

\* __indicator = 1, then PTRACE_CONT; errors are only logged.
PokeIndicator(t) ==
    /\ pc[t] = "poke"
    /\ IF PtraceOK(t)
       THEN indicator' = 1 /\ st' = [st EXCEPT ![t] = "run"]
       ELSE UNCHANGED <<indicator, st>>
    /\ Goto(t, "wait_trap")
    /\ UNCHANGED <<mainVars, shared, locals, place, traced, text, sigstop>>

\* PTRACE_SEIZE of another thread. "if (ptrace < 0)" compares a function with
\* 0 and never sees the failure, which shows up as a failing get_regs().
Seize(t) ==
    /\ pc[t] = "seize"
    /\ \/ st[t] # "dead" /\ traced' = [traced EXCEPT ![t] = TRUE]
       \/ (st[t] = "dead" \/ "perm" \in Faults) /\ UNCHANGED traced
    /\ Goto(t, "wait_trap")
    /\ UNCHANGED <<mainVars, shared, locals, place, st, process>>

\* The return address of the stopped tracee: the word above the saved frame
\* pointer (x86-64), or the link register (aarch64).
ReturnAddress(t) ==
    IF at[t] = TrapAddr THEN site[t]
    ELSE IF ARCH = "x86_64" THEN Outer ELSE at[t]

\* The tracee has stopped: read its registers, step the pc back over the trap.
WaitTrap(t) ==
    /\ pc[t] = "wait_trap"
    /\ WaitReturns(t)
    /\ IF PtraceOK(t)
       THEN /\ ret_addr' = [ret_addr EXCEPT ![t] = ReturnAddress(t)]
            /\ regs' = [regs EXCEPT ![t] = off[t] - TrapLen]
            /\ Goto(t, IF t = Main THEN "untrap" ELSE "wait_flag")
            /\ UNCHANGED <<traced, st>>
       ELSE Return(t, "failed") /\ UNCHANGED <<ret_addr, regs>>
    /\ UNCHANGED <<mainVars, shared, data, place, process>>

\* Main thread: remove_trap() writes a NOP over the trap it stopped at.
RemoveTrap(t) ==
    /\ pc[t] = "untrap"
    /\ text' = IF PtraceOK(t) THEN [text EXCEPT ![at[t]] = "NOP"] ELSE text
    /\ Goto(t, "restore")
    /\ UNCHANGED <<mainVars, shared, locals, place, st, traced, indicator, sigstop>>

\* Main thread: set __indicator back to v.
RestoreIndicatorTo(t, v) ==
    /\ pc[t] = "restore"
    /\ IF PtraceOK(t)
       THEN indicator' = v /\ Goto(t, "set_flag") /\ UNCHANGED <<traced, st>>
       ELSE Return(t, "failed") /\ UNCHANGED indicator
    /\ UNCHANGED <<mainVars, shared, locals, place, text, sigstop>>

RestoreIndicatorMutant(t) == RestoreIndicatorTo(t, 0)
RestoreIndicator(t) == RestoreIndicatorTo(t, -1)

SetFlag(t) ==
    /\ pc[t] = "set_flag"
    /\ lock = None
    /\ flag' = 1
    /\ Goto(t, "wait_flag")
    /\ UNCHANGED <<mainVars, lock, trace_done, locals, traceeVars>>

\* The last round of the loop that waits for the trap to be removed.
WaitFlag(t) ==
    /\ pc[t] = "wait_flag"
    /\ lock = None
    /\ flag = 1
    /\ Goto(t, "set_regs")
    /\ UNCHANGED <<mainVars, shared, locals, traceeVars>>

SetRegs(t) ==
    /\ pc[t] = "set_regs"
    /\ IF PtraceOK(t)
       THEN off' = [off EXCEPT ![t] = regs[t]] /\ Goto(t, "turn") /\ UNCHANGED <<traced, st>>
       ELSE Return(t, "failed") /\ UNCHANGED off
    /\ UNCHANGED <<mainVars, shared, locals, at, site, process>>

\* Take the turn when free holds, which is: when nobody has the mutex.
TakeTurnWhen(t, free) ==
    /\ pc[t] = "turn"
    /\ free
    /\ lock' = t
    /\ Goto(t, "set_bp")
    /\ UNCHANGED <<mainVars, flag, trace_done, locals, traceeVars>>

TakeTurnMutant(t) == TakeTurnWhen(t, TRUE)
TakeTurn(t) == TakeTurnWhen(t, lock = None)

\* set_breakpoint(): save the instruction, write the trap; errors are ignored.
\* The word that is written has zeros behind the trap (x86-64: after its fourth
\* byte) until FinishTurn writes the saved word back. Meanwhile the other tracees
\* are stopped and this one is inside check_migrate(), so the model has only the
\* instruction at the address.
SetBreakpoint(t) ==
    /\ pc[t] = "set_bp"
    /\ IF PtraceOK(t)
       THEN /\ data' = [data EXCEPT ![t] = text[ret_addr[t]]]
            /\ text' = [text EXCEPT ![ret_addr[t]] = "BRK"]
       ELSE UNCHANGED <<data, text>>
    /\ Goto(t, "cont")
    /\ UNCHANGED <<mainVars, shared, ret_addr, regs, place, st, traced, indicator, sigstop>>

\* PTRACE_CONT; on failure the tracer thread returns with the mutex held.
Cont(t) ==
    /\ pc[t] = "cont"
    /\ IF PtraceOK(t)
       THEN st' = [st EXCEPT ![t] = "run"] /\ Goto(t, "wait_brk") /\ UNCHANGED traced
       ELSE Return(t, "failed")
    /\ UNCHANGED <<mainVars, shared, locals, place, process>>

\* The tracee stopped: write back instruction i and step the pc back n bytes
\* (remove_breakpoint), count it, leave the mutex to owner.
EndTurn(t, i, n, owner) ==
    /\ pc[t] = "wait_brk"
    /\ PtraceOK(t)
    /\ text' = [text EXCEPT ![ret_addr[t]] = i]
    /\ off' = [off EXCEPT ![t] = @ - n]
    /\ trace_done' = trace_done + 1
    /\ lock' = owner
    /\ Goto(t, "wait_done")
    /\ UNCHANGED <<mainVars, flag, locals, at, site, st, traced, indicator, sigstop>>

FinishTurnNoRewind(t) == EndTurn(t, data[t], 0, None)
FinishTurnLeavesTrap(t) == EndTurn(t, "BRK", TrapLen, None)
FinishTurnKeepsLock(t) == EndTurn(t, data[t], TrapLen, t)
FinishTurn(t) == EndTurn(t, data[t], TrapLen, None)

\* The tracee died instead: get_regs() fails; unlock and return.
LoseTurn(t) ==
    /\ pc[t] = "wait_brk"
    /\ WaitReturns(t)
    /\ ~PtraceOK(t)
    /\ lock' = None
    /\ Return(t, "failed")
    /\ UNCHANGED <<mainVars, flag, trace_done, locals, place, process>>

\* The last round of the loop that waits for n tracees to be brought.
WaitDoneFor(t, n) ==
    /\ pc[t] = "wait_done"
    /\ lock = None
    /\ trace_done >= n
    /\ Goto(t, IF t = Main THEN "suspend" ELSE "wait_suspend")
    /\ UNCHANGED <<mainVars, shared, locals, traceeVars>>

WaitDoneMutant(t) == WaitDoneFor(t, Cardinality(listed) - 1)
WaitDone(t) == WaitDoneFor(t, Cardinality(listed))

\* Other threads end once over holds: once the main thread has suspended the
\* process and cleared the flag.
LeaveWhen(t, over) ==
    /\ pc[t] = "wait_suspend"
    /\ lock = None
    /\ over
    /\ Return(t, "returned")
    /\ UNCHANGED <<mainVars, shared, locals, place, process>>

WaitSuspendMutant(t) == LeaveWhen(t, TRUE)
WaitSuspend(t) == LeaveWhen(t, flag = 0)

\* suspend(): kill(pid, SIGSTOP).
Suspend(t) ==
    /\ pc[t] = "suspend"
    /\ sigstop' = Alive
    /\ Goto(t, "clear_flag")
    /\ UNCHANGED <<mainVars, shared, locals, place, st, traced, text, indicator>>

ClearFlag(t) ==
    /\ pc[t] = "clear_flag"
    /\ lock = None
    /\ flag' = 0
    /\ Return(t, "returned")
    /\ UNCHANGED <<mainVars, lock, trace_done, locals, place, process>>

-----------------------------------------------------------------------------
(***************************************************************************)
(* The target process (external).                                          *)
(***************************************************************************)
Runs(t) == st[t] = "run" /\ off[t] = 0

\* A trap stops a traced thread; the SIGTRAP of an untraced one kills the process.
Trap(t) ==
    IF traced[t]
    THEN /\ st' = [st EXCEPT ![t] = "stop"]
         /\ off' = [off EXCEPT ![t] = TrapLen]
    ELSE /\ st' = [u \in Threads |-> IF st[u] = "unborn" THEN "unborn" ELSE "dead"]
         /\ UNCHANGED off

\* The program calls check_migrate, which goes to its trap if __indicator is 1.
CallCheckMigrate(t) ==
    /\ Runs(t)
    /\ at[t] = "user"
    /\ \E s \in Sites :
          /\ site' = [site EXCEPT ![t] = s]
          /\ at' = [at EXCEPT ![t] = IF indicator = 1 THEN TrapAddr ELSE s]
    /\ UNCHANGED <<tracerVars, off, st, traced, process>>

\* The function that calls check_migrate returns.
ReturnToCaller(t) ==
    /\ Runs(t)
    /\ at[t] = "user"
    /\ at' = [at EXCEPT ![t] = Outer]
    /\ UNCHANGED <<tracerVars, off, site, st, traced, process>>

\* The instruction the thread is at: a trap, or the way on.
Execute(t) ==
    /\ Runs(t)
    /\ at[t] # "user"
    /\ IF text[at[t]] \in {"INT3", "BRK"}
       THEN Trap(t) /\ UNCHANGED at
       ELSE /\ at' = [at EXCEPT ![t] = IF at[t] = TrapAddr THEN site[t] ELSE "user"]
            /\ UNCHANGED <<off, st>>
    /\ UNCHANGED <<tracerVars, site, traced, process>>

\* A thread that is not traced, or not stopped, stops with the process.
GroupStop(t) ==
    /\ sigstop
    /\ st[t] = "run"
    /\ st' = [st EXCEPT ![t] = "stop"]
    /\ UNCHANGED <<tracerVars, place, traced, process>>

SpawnThread(t) ==
    /\ "spawn" \in Faults
    /\ Alive
    /\ ~sigstop
    /\ st[t] = "unborn"
    /\ st' = [st EXCEPT ![t] = "run"]
    /\ UNCHANGED <<tracerVars, place, traced, process>>

ExitThread(t) ==
    /\ "exit" \in Faults
    /\ t # Main
    /\ Runs(t)
    /\ at[t] = "user"
    /\ st' = [st EXCEPT ![t] = "dead"]
    /\ UNCHANGED <<tracerVars, place, traced, process>>

\* The process is killed, or ends.
Kill ==
    /\ "kill" \in Faults
    /\ Alive
    /\ st' = [u \in Threads |-> IF st[u] = "unborn" THEN "unborn" ELSE "dead"]
    /\ UNCHANGED <<tracerVars, place, traced, process>>

-----------------------------------------------------------------------------
Init ==
    /\ mainpc = "list"
    /\ listed = {}
    /\ pc = [t \in Threads |-> "none"]
    /\ lock = None
    /\ flag = 0
    /\ trace_done = 0
    /\ ret_addr = [t \in Threads |-> Outer]
    /\ data = [t \in Threads |-> "ORIG"]
    /\ regs = [t \in Threads |-> 0]
    /\ at = [t \in Threads |-> "user"]
    /\ off = [t \in Threads |-> 0]
    /\ site = [t \in Threads |-> Outer]
    /\ st \in {s \in [Threads -> {"run", "unborn"}] :
                  /\ s[Main] = "run"
                  /\ "spawn" \notin Faults => \A t \in Threads : s[t] = "run"}
    /\ traced = [t \in Threads |-> FALSE]
    /\ text = [a \in Addrs |-> IF a = TrapAddr THEN "INT3" ELSE "ORIG"]
    /\ indicator = -1
    /\ sigstop = FALSE

MainSteps == ListThreads \/ SymbolError \/ SpawnTracers \/ JoinTracers

\* Steps a tracer thread takes on its own, and steps that need the mutex.
FreeSteps(t) ==
    \/ Attach(t) \/ WaitAttach(t) \/ PokeIndicator(t) \/ Seize(t) \/ WaitTrap(t)
    \/ RemoveTrap(t) \/ RestoreIndicator(t) \/ SetRegs(t) \/ SetBreakpoint(t)
    \/ Cont(t) \/ FinishTurn(t) \/ LoseTurn(t) \/ Suspend(t)

LockSteps(t) ==
    \/ SetFlag(t) \/ WaitFlag(t) \/ TakeTurn(t) \/ WaitDone(t) \/ WaitSuspend(t)
    \/ ClearFlag(t)

TraceeSteps(t) ==
    \/ CallCheckMigrate(t) \/ ReturnToCaller(t) \/ Execute(t) \/ GroupStop(t)

EnvSteps == Kill \/ \E t \in Threads : SpawnThread(t) \/ ExitThread(t)

Next ==
    \/ MainSteps
    \/ \E t \in Threads : FreeSteps(t) \/ LockSteps(t) \/ TraceeSteps(t)
    \/ EnvSteps

Spec == Init /\ [][Next]_vars

\* Threads are scheduled; a contended mutex is not lost for ever (the waiters
\* yield between attempts); a running tracee executes, and calls check_migrate
\* again and again.
Fairness ==
    /\ WF_vars(MainSteps)
    /\ \A t \in Threads :
          /\ WF_vars(FreeSteps(t))
          /\ SF_vars(LockSteps(t))
          /\ WF_vars(Execute(t))
          /\ WF_vars(GroupStop(t))
          /\ SF_vars(CallCheckMigrate(t))

FairSpec == Spec /\ Fairness

-----------------------------------------------------------------------------
\* Every variable has its type: the pc of a tracee is never more than a byte away
\* from an address that the tracer knows, and __indicator has one of its two values.
TypeOK ==
    /\ mainpc \in {"list", "spawn", "join", "exit"}
    /\ listed \in SUBSET Threads
    /\ pc \in [Threads -> Pcs]
    /\ lock \in Threads \cup {None}
    /\ flag \in {0, 1}
    /\ trace_done \in Nat
    /\ ret_addr \in [Threads -> RetAddrs]
    /\ data \in [Threads -> Instructions]
    /\ regs \in [Threads -> -1..1]
    /\ at \in [Threads -> Addrs \cup {"user"}]
    /\ off \in [Threads -> -1..1]
    /\ site \in [Threads -> RetAddrs]
    /\ st \in [Threads -> {"unborn", "run", "stop", "dead"}]
    /\ traced \in [Threads -> BOOLEAN]
    /\ text \in [Addrs -> Instructions]
    /\ indicator \in {-1, 1}
    /\ sigstop \in BOOLEAN

NoneFailed == \A t \in Threads : pc[t] # "failed"

\* A tracee rests at its migration point: stopped, its pc exactly there.
AtMigrationPoint(t) ==
    /\ st[t] = "stop"
    /\ at[t] = ret_addr[t]
    /\ off[t] = 0

\* When tracer.c suspends a live process, every listed tracee rests exactly at
\* its migration point and the image to be dumped shows no trace of the tracer:
\* every return address holds its original instruction, the compiler placed
\* trap is a NOP and __indicator is -1 again.
SuspendClean ==
    sigstop /\ Alive =>
        /\ \A t \in listed : AtMigrationPoint(t)
        /\ \A a \in RetAddrs : text[a] = "ORIG"
        /\ text[TrapAddr] = "NOP"
        /\ indicator = -1

\* While a breakpoint is placed, what its owner saved is the original
\* instruction and never another thread's breakpoint, even when two tracees
\* share a return address ("Return: Original instruction at the address").
\* A tracee that dies in its turn leaves its breakpoint behind.
SavedIsOriginal ==
    \A t \in Threads : NoneFailed /\ pc[t] = "wait_brk" => data[t] = "ORIG"

\* A tracee that has been brought to its migration point executes nothing more:
\* no tracer thread may end, and so detach its tracee, before the SIGSTOP.
NoEscape ==
    [][\A t \in Threads :
          pc[t] \in ParkedPcs /\ st'[t] # "dead"
             => st'[t] = st[t] /\ at'[t] = at[t] /\ off'[t] = off[t]]_vars

\* Every listed tracee is stopped at the compiler placed trap, its tracer about
\* to read its registers or already past that.
AllTrapped ==
    /\ mainpc = "join"
    /\ Main \in listed
    /\ \A t \in listed : at[t] = TrapAddr /\ PtraceOK(t)

\* Once every tracee has been stopped by the compiler placed trap, the tracer
\* threads take their turns to the end: the process is suspended and all of
\* them return (no lost turn, no wait that never ends).
TrappedIsSuspended ==
    AllTrapped ~> (sigstop /\ mainpc = "exit" /\ \A t \in listed : pc[t] = "returned")

-----------------------------------------------------------------------------
(***************************************************************************)
(* What the comments of tracer.c say and the code does not do.             *)
(***************************************************************************)

\* "Then the main thread suspends the process in that state and exits." In a
\* process whose threads call check_migrate again and again, and that nothing
\* disturbs, tracer.c always ends by suspending it (or the process is gone).
AlwaysSuspends == <>(sigstop \/ ~Alive)
=============================================================================
