------------------------------ MODULE Debugger ------------------------------
(***************************************************************************)
(* tools/debugger.c and tools/attach_pid.c: suspend a process at one       *)
(* address. The first starts the program and traces it from its first      *)
(* instruction, the second attaches to a running process; run_debugger()   *)
(* is the same in both but for continue_running().                         *)
(***************************************************************************)
EXTENDS Breakpoint

CONSTANTS
    TOOL,   \* "debugger" or "attach_pid"
    Addr    \* where to suspend the process

ASSUME DebuggerAssumption ==
    /\ TOOL \in {"debugger", "attach_pid"}
    /\ Addr \in Insns
    /\ Addr + 7 < Size

VARIABLES
    dpc,      \* where the tool is
    data,     \* the word it saved
    regs,     \* the pc get_regs() returned
    sigcont,  \* is a SIGCONT pending for the process
    sigstop   \* the tool has sent its SIGSTOP

toolVars == <<dpc, data, regs, sigcont, sigstop>>
vars == <<processVars, toolVars>>

Attach ==
    /\ dpc = "attach"
    /\ \/ st # "dead" /\ dpc' = "wait_start"
       \/ (st = "dead" \/ "perm" \in Faults) /\ dpc' = "exit"
    /\ UNCHANGED <<processVars, data, regs, sigcont, sigstop>>

\* get_regs(): on aarch64 the request names no register set and fails.
GetRegs == regs' = IF st' = "stop" /\ ARCH = "x86_64" THEN rip ELSE regs

\* wait_child(): the first stop, at an exec or where the process happened to be.
WaitStart ==
    /\ dpc = "wait_start"
    /\ IF st = "run" THEN Stop("STOP") ELSE UNCHANGED <<st, sig>>
    /\ GetRegs
    /\ dpc' = "set_bp"
    /\ UNCHANGED <<text, rip, data, sigcont, sigstop>>

SetBreakpoint ==
    /\ dpc = "set_bp"
    /\ IF st = "stop"
       THEN data' = Peek(Addr) /\ text' = Poke(Addr, TrapWord(Peek(Addr)))
       ELSE UNCHANGED <<data, text>>
    /\ dpc' = IF TOOL = "attach_pid" THEN "sigcont" ELSE "cont"
    /\ UNCHANGED <<rip, st, sig, regs, sigcont, sigstop>>

\* continue_running() of attach_pid.c: kill(SIGCONT) ...
Sigcont ==
    /\ dpc = "sigcont"
    /\ sigcont' = (st # "dead")
    /\ dpc' = "cont"
    /\ UNCHANGED <<processVars, data, regs, sigstop>>

\* ... PTRACE_CONT, which only a stopped process obeys, and in attach_pid.c ...
Cont ==
    /\ dpc = "cont"
    /\ st' = IF st = "stop" THEN "run" ELSE st
    /\ dpc' = IF TOOL = "attach_pid" THEN "cont_again" ELSE "wait_stop"
    /\ UNCHANGED <<text, rip, sig, data, regs, sigcont, sigstop>>

\* ... a second one, for the stop that reports the SIGCONT.
ContAgain ==
    /\ dpc = "cont_again"
    /\ st' = IF st = "stop" THEN "run" ELSE st
    /\ dpc' = "wait_stop"
    /\ UNCHANGED <<text, rip, sig, data, regs, sigcont, sigstop>>

\* wait_child() returns at the next stop, whatever the signal, or at the end.
WaitStop ==
    /\ dpc = "wait_stop"
    /\ st # "run"
    /\ UNCHANGED <<processVars, data, sigcont, sigstop>>
    /\ GetRegs
    /\ dpc' = "remove"

\* remove_breakpoint(): write back the word, step the pc back n bytes (PTRACE_SETREGSET
\* fails on aarch64 as PTRACE_GETREGSET does).
RemoveWith(n) ==
    /\ dpc = "remove"
    /\ IF st = "stop"
       THEN /\ text' = Poke(Addr, data)
            /\ rip' = IF ARCH = "x86_64" THEN regs - n ELSE rip
       ELSE UNCHANGED <<text, rip>>
    /\ dpc' = "suspend"
    /\ UNCHANGED <<st, sig, data, regs, sigcont, sigstop>>

RemoveBreakpointInsnRewind == RemoveWith(4)
RemoveBreakpointNoRewind == RemoveWith(0)
RemoveBreakpoint == RemoveWith(1)

\* suspend(); a SIGSTOP cancels a SIGCONT. The tool detaches as it ends.
Suspend ==
    /\ dpc = "suspend"
    /\ sigstop' = TRUE
    /\ sigcont' = FALSE
    /\ dpc' = "exit"
    /\ UNCHANGED <<processVars, data, regs>>

-----------------------------------------------------------------------------
\* A pending SIGCONT stops the process before it executes anything.
ReportSigcont ==
    /\ st = "run"
    /\ sigcont
    /\ Stop("CONT")
    /\ sigcont' = FALSE
    /\ UNCHANGED <<text, rip, dpc, data, regs, sigstop>>

Traced == dpc \notin {"attach", "exit"}

Process ==
    /\ \/ ~sigcont /\ Execute
       \/ Traced /\ Signal
       \/ Exit
    /\ UNCHANGED toolVars

\* attach_pid finds a running process; the child of debugger traces itself and is
\* stopped by its execl(), at the entry point.
Init ==
    /\ text = Original
    /\ rip \in Insns
    /\ sig = "none"
    /\ IF TOOL = "attach_pid" THEN st = "run" /\ dpc = "attach"
                              ELSE st = "stop" /\ dpc = "wait_start"
    /\ data = [k \in 0 .. 7 |-> ZERO]
    /\ regs = 0
    /\ sigcont = FALSE
    /\ sigstop = FALSE

Next ==
    \/ Attach \/ WaitStart \/ SetBreakpoint \/ Sigcont \/ Cont \/ ContAgain
    \/ WaitStop \/ RemoveBreakpoint \/ Suspend
    \/ ReportSigcont \/ Process

Spec == Init /\ [][Next]_vars

-----------------------------------------------------------------------------
\* Every variable has its type; the pc leaves the text by a byte at most.
TypeOK ==
    /\ ProcessTypeOK
    /\ dpc \in {"attach", "wait_start", "set_bp", "sigcont", "cont", "cont_again", "wait_stop",
                "remove", "suspend", "exit"}
    /\ data \in [0 .. 7 -> Text \cup {TRAP, ZERO}]
    /\ {rip, regs} \subseteq -1 .. Size   \* a byte off the text at most
    /\ sigcont \in BOOLEAN
    /\ sigstop \in BOOLEAN

\* A process that the breakpoint stopped is suspended with its pc on the address
\* and its text restored: the CPU can execute the original instruction.
TrappedAtAddr ==
    sigstop /\ st = "stop" /\ sig = "TRAP" => rip = Addr /\ text = Original

\* "Used to suspend an application at a program point specified by the address":
\* whatever stopped the process, it is suspended at the address.
SuspendsAtAddr == sigstop /\ st = "stop" => rip = Addr
=============================================================================
