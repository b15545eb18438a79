----------------------------- MODULE Breakpoint -----------------------------
(***************************************************************************)
(* Breakpoints byte by byte, and the process they are placed in, as        *)
(* tracer2.c, debugger.c and attach_pid.c use them: PTRACE_PEEKTEXT and    *)
(* PTRACE_POKETEXT move words of eight bytes, so a breakpoint is wider     *)
(* than its trap instruction. The process and the kernel are external.     *)
(*                                                                         *)
(* A byte is named by the address it was loaded at.                        *)
(***************************************************************************)
EXTENDS Integers

CONSTANTS
    ARCH,     \* "x86_64" or "aarch64"
    Size,     \* bytes of program text, at 0 .. Size - 1
    Insns,    \* addresses at which an instruction starts
    Faults    \* "signal": other signals, "exit": the process may end,
              \* "perm", "elf": requests of the tool may fail

ASSUME BreakpointAssumption ==
    /\ ARCH \in {"x86_64", "aarch64"}
    /\ Size \in Nat
    /\ Insns \subseteq 0 .. Size - 1 /\ Insns # {}
    /\ Faults \subseteq {"signal", "exit", "perm", "elf"}

VARIABLES
    text,     \* the byte at each address
    rip,      \* the pc register
    st,       \* "run", "stop" (traced and stopped) or "dead"
    sig       \* the signal of the last stop

processVars == <<text, rip, st, sig>>

Text == 0 .. Size - 1
Original == [a \in Text |-> a]
TRAP == -1
ZERO == -2

Window(a) == a .. a + 7
Peek(a) == [k \in 0 .. 7 |-> text[a + k]]
Poke(a, word) == [b \in Text |-> IF b \in Window(a) THEN word[b - a] ELSE text[b]]

\* x86-64: (data & 0xFFFFFF00) | 0xCC, aarch64: 0xd4200000, both as 8 bytes.
TrapWord(word) ==
    IF ARCH = "x86_64"
    THEN [k \in 0 .. 7 |-> IF k = 0 THEN TRAP ELSE IF k < 4 THEN word[k] ELSE ZERO]
    ELSE [k \in 0 .. 7 |-> IF k < 4 THEN TRAP ELSE ZERO]

\* How far the pc is past the trap that stopped the process.
TrapLen == IF ARCH = "x86_64" THEN 1 ELSE 0

-----------------------------------------------------------------------------
\* The bytes of the instruction that starts at a.
Bytes(a) == {b \in Text : b >= a /\ \A c \in Insns : a < c => b < c}

Stop(s) == st' = "stop" /\ sig' = s

\* A trap stops the process behind it. A damaged instruction is another one: it
\* faults, or it does something else and control goes on.
Execute ==
    /\ st = "run"
    /\ IF text[rip] = TRAP
       THEN Stop("TRAP") /\ rip' = rip + TrapLen
       ELSE \/ rip' \in Insns /\ UNCHANGED <<st, sig>>
            \/ (\E b \in Bytes(rip) : text[b] # b) /\ Stop("FAULT") /\ UNCHANGED rip
    /\ UNCHANGED text

\* Any other signal stops a traced process before it is delivered.
Signal ==
    /\ "signal" \in Faults
    /\ st = "run"
    /\ Stop("OTHER")
    /\ UNCHANGED <<text, rip>>

Exit ==
    /\ "exit" \in Faults
    /\ st # "dead"
    /\ st' = "dead"
    /\ UNCHANGED <<text, rip, sig>>

ProcessTypeOK ==
    /\ text \in [Text -> Text \cup {TRAP, ZERO}]
    /\ rip \in Int
    /\ st \in {"run", "stop", "dead"}
    /\ sig \in {"none", "STOP", "CONT", "TRAP", "FAULT", "OTHER"}
=============================================================================
