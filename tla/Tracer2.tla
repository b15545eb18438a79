------------------------------- MODULE Tracer2 -------------------------------
(***************************************************************************)
(* tools/tracer2.c: place a breakpoint at every equivalence point of the   *)
(* binary, let the process run into one of them, take all breakpoints out  *)
(* again and suspend the process there.                                    *)
(***************************************************************************)
EXTENDS Breakpoint, Sequences

CONSTANT EqPoints   \* the addresses of the call site section, in file order

ASSUME Tracer2Assumption ==
    /\ EqPoints \in Seq(Text)
    /\ \A j \in 1 .. Len(EqPoints) : EqPoints[j] + 7 < Size

VARIABLES
    mpc,        \* where main() is
    i,          \* its loop counter (from 1)
    num_addrs,  \* entries of eq_point_addrs
    original_instructions,
    regs        \* the pc get_regs() returned

toolVars == <<mpc, i, num_addrs, original_instructions, regs>>
vars == <<processVars, toolVars>>

Points == 1 .. Len(EqPoints)

Attach ==
    /\ mpc = "attach"
    /\ \/ st # "dead" /\ mpc' = "wait_attach"
       \/ (st = "dead" \/ "perm" \in Faults) /\ mpc' = "exit"
    /\ UNCHANGED <<processVars, i, num_addrs, original_instructions, regs>>

WaitAttach ==
    /\ mpc = "wait_attach"
    /\ IF st = "run" THEN Stop("STOP") ELSE UNCHANGED <<st, sig>>
    /\ mpc' = "eq_points"
    /\ UNCHANGED <<text, rip, i, num_addrs, original_instructions, regs>>

\* get_eq_point_addresses() finds n entries. Its error is not looked at, and
\* leaves the number uninitialised: main() crashes on them, or sees none.
GetEqPointsOf(n) ==
    /\ mpc = "eq_points"
    /\ \/ num_addrs' = n /\ mpc' = "insert" /\ UNCHANGED st
       \/ "elf" \in Faults /\ num_addrs' = 0 /\ mpc' = "insert" /\ UNCHANGED st
       \/ /\ "elf" \in Faults
          /\ mpc' = "exit"
          /\ st' = IF st = "stop" THEN "run" ELSE st
          /\ UNCHANGED num_addrs
    /\ i' = 1
    /\ UNCHANGED <<text, rip, sig, original_instructions, regs>>

GetEqPointsMutant == GetEqPointsOf(Len(EqPoints) + 1)
GetEqPoints == GetEqPointsOf(Len(EqPoints))

\* One round of the loop of set_breakpoint() calls, on a process that is there.
InsertBreakpoint ==
    /\ mpc = "insert"
    /\ i <= num_addrs
    /\ IF st = "stop"
       THEN /\ original_instructions' = [original_instructions EXCEPT ![i] = Peek(EqPoints[i])]
            /\ text' = Poke(EqPoints[i], TrapWord(Peek(EqPoints[i])))
       ELSE UNCHANGED <<original_instructions, text>>
    /\ i' = i + 1
    /\ UNCHANGED <<rip, st, sig, mpc, num_addrs, regs>>

Cont ==
    /\ mpc = "insert"
    /\ i > num_addrs
    /\ st' = IF st = "stop" THEN "run" ELSE st
    /\ mpc' = "wait_stop"
    /\ UNCHANGED <<text, rip, sig, i, num_addrs, original_instructions, regs>>

\* waitpid(), whatever the signal, and get_regs(), which fails on a dead process;
\* then the loop of removals starts.
WaitStop ==
    /\ mpc = "wait_stop"
    /\ st # "run"
    /\ IF st = "stop" THEN mpc' = "remove" /\ regs' = rip
                      ELSE mpc' = "exit" /\ UNCHANGED regs
    /\ i' = 1
    /\ UNCHANGED <<processVars, num_addrs, original_instructions>>


\* One round of the loop of remove_breakpoint() calls, first to last; a round
\* writes the word it saved for point p.
RemoveBreakpointOf(p) ==
    /\ mpc = "remove"
    /\ i <= num_addrs
    /\ text' = IF st = "stop" THEN Poke(EqPoints[i], original_instructions[p]) ELSE text
    /\ i' = i + 1
    /\ UNCHANGED <<rip, st, sig, mpc, num_addrs, original_instructions, regs>>

RemoveBreakpointMutant == RemoveBreakpointOf(1)
RemoveBreakpoint == RemoveBreakpointOf(i)

\* update_regs(), after the last removal: step the pc back n bytes.
UpdateRegsBy(n, last) ==
    /\ mpc = "remove"
    /\ i > last
    /\ rip' = IF st = "stop" THEN regs - n ELSE rip
    /\ mpc' = "sigstop"
    /\ UNCHANGED <<text, st, sig, i, num_addrs, original_instructions, regs>>

UpdateRegsMutant == UpdateRegsBy(0, num_addrs)
UpdateRegsEarly == UpdateRegsBy(1, num_addrs - 1)
UpdateRegs == UpdateRegsBy(IF ARCH = "x86_64" THEN 1 ELSE 4, num_addrs)

\* kill(pid, SIGSTOP); the exit that follows detaches a process that stays stopped.
Suspend ==
    /\ mpc = "sigstop"
    /\ mpc' = "exit"
    /\ UNCHANGED <<processVars, i, num_addrs, original_instructions, regs>>

-----------------------------------------------------------------------------
Init ==
    /\ text = Original
    /\ rip \in Insns
    /\ st = "run"
    /\ sig = "none"
    /\ mpc = "attach"
    /\ i = 1
    /\ num_addrs = 0
    /\ original_instructions = [p \in Points |-> [k \in 0 .. 7 |-> ZERO]]
    /\ regs = 0

Steps == Attach \/ WaitAttach \/ GetEqPoints \/ InsertBreakpoint \/ Cont \/ WaitStop
           \/ RemoveBreakpoint \/ UpdateRegs \/ Suspend

\* Signals stop a process only while it is traced.
Process == (Execute \/ Exit \/ (mpc \notin {"attach", "exit"} /\ Signal)) /\ UNCHANGED toolVars

Next == Steps \/ Process

Spec == Init /\ [][Next]_vars

-----------------------------------------------------------------------------
\* Every variable has its type; main() works with no equivalence point or with all.
TypeOK ==
    /\ ProcessTypeOK
    /\ mpc \in {"attach", "wait_attach", "eq_points", "insert", "wait_stop", "remove",
                "sigstop", "exit"}
    /\ i \in Nat \ {0}
    /\ num_addrs \in {0, Len(EqPoints)}
    /\ original_instructions \in [Points -> [0 .. 7 -> Text \cup {TRAP, ZERO}]]
    /\ regs \in Int

\* Placing the breakpoint of point p changes byte b: its word is eight bytes wide,
\* of which only bytes 1 to 3 are kept, on x86-64.
Damages(p, b) ==
    b \in Window(EqPoints[p]) /\ (ARCH = "x86_64" => b - EqPoints[p] \notin 1 .. 3)

\* Nothing that was placed at the first n points changed byte b.
Intact(n, b) == \A q \in 1 .. n : ~Damages(q, b)

\* Some of the first n points has byte b in its word.
Covered(n, b) == \E p \in 1 .. n : b \in Window(EqPoints[p])

\* None of the words saved at the first n points has byte b as changed by an
\* earlier breakpoint.
SavedClean(n, b) ==
    \A p \in 1 .. n : b \in Window(EqPoints[p]) => Intact(p - 1, b)

\* After the loop that removes the breakpoints ("Breakpoints removed") exactly
\* those bytes of the process are the program's own again that no breakpoint had
\* changed before a later one saved them: all of them when the points are a word
\* apart, and not when two calls follow each other.
BreakpointsRemoved ==
    (mpc = "sigstop" \/ mpc = "exit") /\ st # "dead"
       => \A b \in Text : text[b] = b <=> SavedClean(num_addrs, b)

\* A process that was stopped by one of the breakpoints is suspended with its pc
\* on that equivalence point, where it can execute the original instruction.
SuspendedAtEqPoint ==
    mpc = "sigstop" /\ st = "stop" /\ sig = "TRAP"
       => \E p \in Points : rip = EqPoints[p]

-----------------------------------------------------------------------------
\* The words of the first n points were saved as the earlier breakpoints left them.
Saved(n) ==
    \A p \in 1 .. n, b \in Text : b \in Window(EqPoints[p])
       => (original_instructions[p][b - EqPoints[p]] = b <=> Intact(p - 1, b))

\* The breakpoints of the first n points are in the text.
Placed(n) == \A b \in Text : text[b] = b <=> Intact(n, b)

\* Of these the first m are removed: the words that were saved are in the text.
Removed(m, n) ==
    \A b \in Text : text[b] = b <=> IF Covered(m, b) THEN SavedClean(m, b) ELSE Intact(n, b)

\* How the two loops of main() transform the text of a process that lives, byte by
\* byte: the inductive invariant behind BreakpointsRemoved.
TextInv ==
    /\ mpc \in {"eq_points", "insert", "remove", "sigstop"} => st # "run"
    /\ mpc \in {"insert", "remove"} => i \in 1 .. num_addrs + 1
    /\ mpc \in {"attach", "wait_attach", "eq_points"} => num_addrs = 0
    /\ st # "dead" =>
          /\ mpc \in {"attach", "wait_attach", "eq_points"} => text = Original
          /\ mpc = "insert" => Saved(i - 1) /\ Placed(i - 1)
          /\ mpc = "wait_stop" => Saved(num_addrs) /\ Placed(num_addrs)
          /\ mpc = "remove" => Saved(num_addrs) /\ Removed(i - 1, num_addrs)
          /\ mpc \in {"sigstop", "exit"} => Removed(num_addrs, num_addrs)
=============================================================================
