--------------------------- MODULE DebuggerProofs ---------------------------
(***************************************************************************)
(* Proofs about debugger.c and attach_pid.c, for any program, address and  *)
(* architecture: a process that the breakpoint stopped is suspended on the *)
(* address with its text restored, although attach_pid may have set it off *)
(* again from a first stop there.                                          *)
(***************************************************************************)
EXTENDS Debugger, TLAPS

USE DEF vars, processVars, toolVars, Text, TRAP, ZERO

\* On aarch64 no instruction starts within the one at the address.
Aligned == ARCH = "aarch64" => \A a \in Insns : a \notin Addr + 1 .. Addr + 3

Bytes8 == [0 .. 7 -> Text \cup {TRAP, ZERO}]

\* The word at the address, the text with the breakpoint, and where control can be.
Word == [k \in 0 .. 7 |-> Addr + k]
Trapped == [b \in Text |-> IF b \in Window(Addr) THEN TrapWord(Word)[b - Addr] ELSE b]
Places == Insns \cup {Addr + TrapLen}

During == {"sigcont", "cont", "cont_again", "wait_stop", "remove"}

\* A process that the tool has not set up yet has its own text; behind that it has the
\* breakpoint in it, and the tool the word that was there. A process stops for a trap
\* only there, and from the wait on it does not run again.
Inv ==
    /\ TypeOK
    /\ dpc \in {"set_bp", "sigcont", "cont", "remove", "suspend"} => st # "run"
    /\ sigstop => dpc = "exit" /\ st # "run"
    /\ st # "dead" =>
          /\ dpc \notin During => text = Original
          /\ dpc \in During => text = Trapped /\ data = Word
          /\ dpc \notin {"suspend", "exit"} \/ st = "run" => rip \in Places
    /\ st = "stop" =>
          /\ dpc = "remove" /\ ARCH = "x86_64" => regs = rip
          /\ Aligned /\ sig = "TRAP" /\ dpc \in {"cont_again", "wait_stop", "remove"} => rip = Addr + TrapLen
          /\ Aligned /\ sig = "TRAP" /\ dpc \in {"suspend", "exit"} /\ sigstop => rip = Addr
          /\ Aligned /\ sig = "TRAP" /\ dpc = "suspend" => rip = Addr

\* The address and the word there are in the text, and so is wherever control can be.
LEMMA Numbers ==
    /\ Addr \in Int /\ Size \in Int /\ 0 <= Addr /\ Addr + 7 < Size /\ TrapLen \in {0, 1}
    /\ \A k \in 0 .. 7 : Addr + k \in Text
    /\ \A b \in Window(Addr) : b - Addr \in 0 .. 7
    /\ Places \subseteq Text /\ Insns \subseteq Places /\ \A p \in Places : p \in 0 .. Size - 1
<1>1. Addr \in Int /\ Size \in Int /\ 0 <= Addr /\ Addr + 7 < Size /\ TrapLen \in {0, 1}
  BY BreakpointAssumption, DebuggerAssumption DEF TrapLen
<1>2. \A k \in 0 .. 7 : Addr + k \in Text  BY <1>1
<1>3. \A b \in Window(Addr) : b - Addr \in 0 .. 7  BY <1>1 DEF Window
<1>4. Places \subseteq Text  BY <1>1, BreakpointAssumption DEF Places
<1> QED  BY <1>1, <1>2, <1>3, <1>4 DEF Places

\* Peeking, trapping and poking the word, in bytes.
LEMMA Words ==
    /\ Word \in Bytes8 /\ TrapWord(Word) \in Bytes8
    /\ Original \in [Text -> Text \cup {TRAP, ZERO}] /\ Trapped \in [Text -> Text \cup {TRAP, ZERO}]
    /\ text = Original => Peek(Addr) = Word /\ Poke(Addr, TrapWord(Word)) = Trapped
    /\ text = Trapped => Poke(Addr, Word) = Original
<1>1. Word \in Bytes8  BY Numbers DEF Word, Bytes8
<1>2. TrapWord(Word) \in Bytes8  BY <1>1 DEF TrapWord, Bytes8
<1>3. Original \in [Text -> Text \cup {TRAP, ZERO}]  BY DEF Original
<1>4. Trapped \in [Text -> Text \cup {TRAP, ZERO}]  BY <1>2, Numbers DEF Trapped, Bytes8
<1>5. ASSUME text = Original PROVE Peek(Addr) = Word /\ Poke(Addr, TrapWord(Word)) = Trapped
  <2>1. \A b \in Text : text[b] = b  BY <1>5 DEF Original
  <2>2. Peek(Addr) = Word  BY <2>1, Numbers DEF Peek, Word
  <2>3. Poke(Addr, TrapWord(Word)) = Trapped  BY <2>1 DEF Poke, Trapped
  <2> QED  BY <2>2, <2>3
<1>6. ASSUME text = Trapped PROVE Poke(Addr, Word) = Original
  <2>1. \A b \in Text : b \notin Window(Addr) => text[b] = b  BY <1>6 DEF Trapped
  <2>2. \A b \in Text : b \in Window(Addr) => Word[b - Addr] = b  BY Numbers DEF Word
  <2> QED  BY <2>1, <2>2 DEF Poke, Original
<1> QED  BY <1>1, <1>2, <1>3, <1>4, <1>5, <1>6

\* Control runs into a trap only at the address.
LEMMA TrapsAt ==
    ASSUME NEW p \in Places
    PROVE  /\ Original[p] # TRAP
           /\ Trapped[p] = TRAP => p + TrapLen \in Places
           /\ Trapped[p] = TRAP /\ Aligned => p = Addr
<1>0. p \in Int /\ p \in Text /\ p >= 0  BY Numbers
<1>1. Original[p] # TRAP  BY <1>0 DEF Original
<1>2. p \notin Window(Addr) => Trapped[p] # TRAP  BY <1>0 DEF Trapped
<1>3. CASE ARCH = "x86_64"
  <2>1. \A k \in 0 .. 7 : TrapWord(Word)[k] = TRAP => k = 0
    <3> TAKE k \in 0 .. 7
    <3>1. TrapWord(Word)[k] = IF k = 0 THEN TRAP ELSE IF k < 4 THEN Word[k] ELSE ZERO
      BY <1>3 DEF TrapWord
    <3>2. Word[k] = Addr + k /\ Addr + k >= 0  BY Numbers DEF Word
    <3> QED  BY <3>1, <3>2
  <2>2. Trapped[p] = TRAP => p = Addr
    <3>1. p \in Window(Addr) => Trapped[p] = TrapWord(Word)[p - Addr] /\ p - Addr \in 0 .. 7
      BY <1>0, Numbers DEF Trapped
    <3> QED  BY <1>0, <1>2, <2>1, <3>1, Numbers
  <2> QED  BY <1>1, <2>2 DEF Places
<1>4. CASE ARCH = "aarch64"
  <2>1. TrapLen = 0 /\ p \in Insns \cup {Addr} /\ p + TrapLen = p
    BY <1>0, <1>4, Numbers DEF TrapLen, Places
  <2>2. Trapped[p] = TRAP => p \in Addr .. Addr + 3
    <3>1. \A k \in 0 .. 7 : TrapWord(Word)[k] = TRAP => k < 4  BY <1>4 DEF TrapWord
    <3>2. p \in Window(Addr) => Trapped[p] = TrapWord(Word)[p - Addr] /\ p - Addr \in 0 .. 7
      BY <1>0, Numbers DEF Trapped
    <3> QED  BY <1>0, <1>2, <3>1, <3>2, Numbers
  <2>3. Trapped[p] = TRAP /\ Aligned => p = Addr
    BY <1>0, <1>4, <2>1, <2>2, Numbers DEF Aligned
  <2> QED  BY <1>1, <2>1, <2>3
<1> QED  BY <1>3, <1>4, BreakpointAssumption

\* The steps of the tool that leave the text and the registers alone.
LEMMA QuietInv ==
    ASSUME Inv, Attach \/ Sigcont \/ Cont \/ ContAgain \/ Suspend \/ ReportSigcont
    PROVE  Inv'
<1> USE DEF Inv, TypeOK, ProcessTypeOK, During
<1>1. CASE Attach  BY <1>1 DEF Attach
<1>2. CASE Sigcont  BY <1>2 DEF Sigcont
<1>3. CASE Cont  BY <1>3 DEF Cont
<1>4. CASE ContAgain  BY <1>4 DEF ContAgain
<1>5. CASE Suspend  BY <1>5 DEF Suspend
<1>6. CASE ReportSigcont  BY <1>6 DEF ReportSigcont, Stop
<1> QED  BY <1>1, <1>2, <1>3, <1>4, <1>5, <1>6

\* wait_child() and get_regs(), twice.
LEMMA WaitInv ==
    ASSUME Inv, WaitStart \/ WaitStop
    PROVE  Inv'
<1>1. regs' = regs \/ (st' = "stop" /\ regs' = rip)
  BY DEF WaitStart, WaitStop, GetRegs
<1>2. regs' \in -1 .. Size
  BY <1>1 DEF Inv, TypeOK
<1>3. CASE WaitStart
  BY <1>2, <1>3 DEF WaitStart, Stop, Inv, TypeOK, ProcessTypeOK, During
<1>4. CASE WaitStop
  BY <1>2, <1>4 DEF WaitStop, GetRegs, Inv, TypeOK, ProcessTypeOK, During
<1> QED  BY <1>3, <1>4

LEMMA SetBreakpointInv ==
    ASSUME Inv, SetBreakpoint
    PROVE  Inv'
<1>1. st # "dead" => st = "stop" /\ text = Original
  BY DEF SetBreakpoint, Inv, TypeOK, ProcessTypeOK, During
<1>2. st # "dead" => text' = Trapped /\ data' = Word  BY <1>1, Words DEF SetBreakpoint
<1>3. st = "dead" => UNCHANGED <<text, data>>  BY DEF SetBreakpoint
<1>4. text' \in [Text -> Text \cup {TRAP, ZERO}] /\ data' \in Bytes8
  BY <1>2, <1>3, Words DEF Inv, TypeOK, ProcessTypeOK, Bytes8
<1> QED
  BY <1>1, <1>2, <1>3, <1>4 DEF SetBreakpoint, Inv, TypeOK, ProcessTypeOK, During, Bytes8

LEMMA RemoveBreakpointInv ==
    ASSUME Inv, RemoveBreakpoint
    PROVE  Inv'
<1>1. /\ dpc = "remove" /\ dpc' = "suspend" /\ st # "run" /\ UNCHANGED <<st, sig, data, regs, sigcont, sigstop>>
      /\ ~sigstop
  BY DEF RemoveBreakpoint, RemoveWith, Inv
<1>2. CASE st = "stop"
  <2>1. text = Trapped /\ data = Word /\ rip \in Places  BY <1>1, <1>2 DEF Inv, During
  <2>2. text' = Original  BY <1>2, <2>1, Words DEF RemoveBreakpoint, RemoveWith
  <2>3. rip' = IF ARCH = "x86_64" THEN rip - 1 ELSE rip
    BY <1>1, <1>2 DEF RemoveBreakpoint, RemoveWith, Inv
  <2>4. rip' \in -1 .. Size /\ rip' \in Int  BY <2>1, <2>3, Numbers
  <2>5. rip = Addr + TrapLen => rip' = Addr  BY <2>3, Numbers DEF TrapLen
  <2> QED
    BY <1>1, <1>2, <2>2, <2>4, <2>5, Words DEF Inv, TypeOK, ProcessTypeOK, During
<1>3. CASE st = "dead"
  BY <1>1, <1>3 DEF RemoveBreakpoint, RemoveWith, Inv, TypeOK, ProcessTypeOK, During
<1> QED  BY <1>1, <1>2, <1>3 DEF Inv, TypeOK, ProcessTypeOK

\* What the process does by itself: it runs into the breakpoint, or goes on.
LEMMA ProcessInv ==
    ASSUME Inv, Process
    PROVE  Inv'
<1>1. UNCHANGED toolVars  BY DEF Process
<1>2. CASE Exit  BY <1>1, <1>2 DEF Exit, Inv, TypeOK, ProcessTypeOK, During
<1>3. CASE Signal  BY <1>1, <1>3 DEF Signal, Stop, Inv, TypeOK, ProcessTypeOK, During
<1>4. CASE Execute
  <2>1. st = "run" /\ rip \in Places /\ text \in {Original, Trapped} /\ text' = text
    BY <1>4 DEF Execute, Inv
  <2>2. ~sigstop /\ dpc \in {"attach", "wait_start", "cont_again", "wait_stop", "exit"}
    BY <2>1 DEF Inv, TypeOK
  <2>3. CASE text[rip] = TRAP
    <3>1. text = Trapped /\ rip' = rip + TrapLen /\ st' = "stop" /\ sig' = "TRAP"
      BY <1>4, <2>1, <2>3, TrapsAt DEF Execute, Stop
    <3>2. rip' \in Places /\ (Aligned => rip' = Addr + TrapLen)
      BY <2>1, <2>3, <3>1, TrapsAt
    <3>3. rip' \in Int /\ rip' \in -1 .. Size  BY <3>2, Numbers
    <3> QED
      BY <1>1, <2>1, <2>2, <3>1, <3>2, <3>3 DEF Inv, TypeOK, ProcessTypeOK, During
  <2>4. CASE text[rip] # TRAP
    <3>1. /\ rip' \in Places
          /\ UNCHANGED <<st, sig>> \/ (st' = "stop" /\ sig' = "FAULT")
      BY <1>4, <2>1, <2>4, Numbers DEF Execute, Stop
    <3>2. rip' \in Int /\ rip' \in -1 .. Size  BY <3>1, Numbers
    <3> QED
      BY <1>1, <2>1, <2>2, <3>1, <3>2 DEF Inv, TypeOK, ProcessTypeOK, During
  <2> QED  BY <2>3, <2>4
<1> QED  BY <1>2, <1>3, <1>4 DEF Process

\* The breakpoint is in the text from set_breakpoint() to remove_breakpoint() and no
\* longer, and the process traps nowhere else.
THEOREM BreakpointInvariant == Spec => []Inv
<1>1. Init => Inv
  <2> SUFFICES ASSUME Init PROVE Inv
    OBVIOUS
  <2>1. rip \in Places /\ rip \in Int /\ rip \in -1 .. Size /\ regs \in -1 .. Size
    BY Numbers DEF Init
  <2> QED
    BY <2>1, Words, DebuggerAssumption DEF Init, Inv, TypeOK, ProcessTypeOK, During
<1>2. Inv /\ [Next]_vars => Inv'
  <2> SUFFICES ASSUME Inv, [Next]_vars PROVE Inv'
    OBVIOUS
  <2>1. CASE UNCHANGED vars  BY <2>1 DEF Inv, TypeOK, ProcessTypeOK, During
  <2> QED
    BY <2>1, QuietInv, WaitInv, SetBreakpointInv, RemoveBreakpointInv, ProcessInv DEF Next
<1> QED  BY <1>1, <1>2, PTL DEF Spec

\* Every variable keeps its type: the pc leaves the text by a byte at most.
THEOREM DebuggerTypes == Spec => []TypeOK
<1>1. Inv => TypeOK  BY DEF Inv
<1> QED  BY <1>1, BreakpointInvariant, PTL

\* A process that the breakpoint stopped is suspended on the address with its own text,
\* on aarch64 if instructions are aligned.
THEOREM StoppedAtAddress == ASSUME Aligned PROVE Spec => []TrappedAtAddr
<1>1. Inv => TrappedAtAddr  BY DEF Inv, TrappedAtAddr, During
<1> QED  BY <1>1, BreakpointInvariant, PTL
=============================================================================
