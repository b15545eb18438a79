---------------------------- MODULE Tracer2Proofs ----------------------------
(***************************************************************************)
(* Which bytes of the process tracer2.c leaves as they were, whatever the  *)
(* number of equivalence points, however far apart they are and in         *)
(* whatever order they are listed; and where it suspends the process.      *)
(***************************************************************************)
EXTENDS Tracer2, TLAPS

USE DEF vars, processVars, toolVars, Text, Points, TRAP, ZERO

\* A process only executes, is signalled or ends: its text stays what it is.
LEMMA ProcessKeepsText ==
    ASSUME Process
    PROVE  /\ UNCHANGED <<text, toolVars>>
           /\ st' # "dead" => st # "dead"
           /\ st' = "run" => st = "run"
BY DEF Process, Execute, Signal, Exit, Stop

\* The window of an equivalence point lies in the text.
LEMMA PointInText ==
    \A p \in Points : EqPoints[p] \in Int /\ \A k \in 0 .. 7 : EqPoints[p] + k \in Text
<1> TAKE p \in Points
<1>1. EqPoints[p] \in Text /\ EqPoints[p] + 7 < Size
  BY Tracer2Assumption, BreakpointAssumption
<1>2. Size \in Int /\ EqPoints[p] \in Int  BY <1>1, BreakpointAssumption
<1>3. ASSUME NEW k \in 0 .. 7 PROVE EqPoints[p] + k \in 0 .. Size - 1
  BY <1>1, <1>2
<1> QED  BY <1>2, <1>3

\* The number of points is a number.
LEMMA LenType == Len(EqPoints) \in Nat
BY Tracer2Assumption

Bytes8 == [0 .. 7 -> Text \cup {TRAP, ZERO}]

\* Words of text are peeked and poked; a trap word is a word.
LEMMA WordType ==
    ASSUME text \in [Text -> Text \cup {TRAP, ZERO}], NEW p \in Points
    PROVE  /\ Peek(EqPoints[p]) \in Bytes8
           /\ \A w \in Bytes8 : TrapWord(w) \in Bytes8
           /\ \A w \in Bytes8 : Poke(EqPoints[p], w) \in [Text -> Text \cup {TRAP, ZERO}]
<1>1. Peek(EqPoints[p]) \in Bytes8  BY PointInText DEF Peek, Bytes8
<1>2. \A w \in Bytes8 : TrapWord(w) \in Bytes8  BY DEF TrapWord, Bytes8
<1>3. ASSUME NEW w \in Bytes8
      PROVE  Poke(EqPoints[p], w) \in [Text -> Text \cup {TRAP, ZERO}]
  <2>1. EqPoints[p] \in Int  BY PointInText
  <2>2. \A b \in Text : b \in Window(EqPoints[p]) => b - EqPoints[p] \in 0 .. 7
    BY <2>1 DEF Window
  <2> QED  BY <2>2 DEF Poke, Bytes8
<1> QED  BY <1>1, <1>2, <1>3

\* Every variable keeps its type.
THEOREM TypeCorrect == Spec => []TypeOK
<1> USE DEF TypeOK, ProcessTypeOK
<1>1. Init => TypeOK
  BY LenType, BreakpointAssumption DEF Init, Original
<1>2. ASSUME TypeOK, [Next]_vars PROVE TypeOK'
  <2>1. CASE Attach  BY <1>2, <2>1 DEF Attach
  <2>2. CASE WaitAttach  BY <1>2, <2>2 DEF WaitAttach, Stop
  <2>3. CASE GetEqPoints  BY <1>2, <2>3 DEF GetEqPoints, GetEqPointsOf
  <2>4. CASE InsertBreakpoint
    <3>1. i \in Points  BY <1>2, LenType, <2>4 DEF InsertBreakpoint
    <3>2. Peek(EqPoints[i]) \in Bytes8  BY <1>2, <3>1, WordType
    <3>3. Poke(EqPoints[i], TrapWord(Peek(EqPoints[i]))) \in [Text -> Text \cup {TRAP, ZERO}]
      BY <1>2, <3>1, <3>2, WordType
    <3>4. text' \in [Text -> Text \cup {TRAP, ZERO}]  BY <1>2, <2>4, <3>3 DEF InsertBreakpoint
    <3>5. original_instructions' \in [Points -> Bytes8]
      BY <1>2, <2>4, <3>1, <3>2 DEF InsertBreakpoint, Bytes8
    <3> QED  BY <1>2, <2>4, <3>4, <3>5 DEF InsertBreakpoint, Bytes8
  <2>5. CASE Cont  BY <1>2, <2>5 DEF Cont
  <2>6. CASE WaitStop  BY <1>2, <2>6 DEF WaitStop
  <2>7. CASE RemoveBreakpoint
    <3>1. i \in Points  BY <1>2, LenType, <2>7 DEF RemoveBreakpoint, RemoveBreakpointOf
    <3>2. original_instructions[i] \in Bytes8  BY <1>2, <3>1 DEF Bytes8
    <3>3. text' \in [Text -> Text \cup {TRAP, ZERO}]
      BY <1>2, <2>7, <3>1, <3>2, WordType DEF RemoveBreakpoint, RemoveBreakpointOf
    <3> QED  BY <1>2, <2>7, <3>3 DEF RemoveBreakpoint, RemoveBreakpointOf
  <2>8. CASE UpdateRegs
    <3>1. rip' \in Int  BY <1>2, <2>8 DEF UpdateRegs, UpdateRegsBy
    <3> QED  BY <1>2, <2>8, <3>1 DEF UpdateRegs, UpdateRegsBy
  <2>9. CASE Suspend  BY <1>2, <2>9 DEF Suspend
  <2>10. CASE Process
    <3>1. rip' \in Int
      <4>1. Insns \subseteq Int  BY BreakpointAssumption
      <4>2. rip' \in Insns \/ rip' = rip \/ rip' = rip + TrapLen
        BY <2>10 DEF Process, Execute, Signal, Exit
      <4>3. rip \in Int /\ TrapLen \in Int  BY <1>2 DEF TrapLen
      <4>4. rip + TrapLen \in Int  BY <4>3
      <4> QED  BY <4>1, <4>2, <4>3, <4>4, Zenon
    <3>2. st' \in {"run", "stop", "dead"}  BY <1>2, <2>10 DEF Process, Execute, Signal, Exit, Stop
    <3>3. sig' \in {"none", "STOP", "CONT", "TRAP", "FAULT", "OTHER"}
      BY <1>2, <2>10 DEF Process, Execute, Signal, Exit, Stop
    <3> QED  BY <1>2, <2>10, <3>1, <3>2, <3>3, ProcessKeepsText
  <2>11. CASE UNCHANGED vars  BY <1>2, <2>11
  <2> QED  BY <1>2, <2>1, <2>2, <2>3, <2>4, <2>5, <2>6, <2>7, <2>8, <2>9, <2>10, <2>11
           DEF Next, Steps
<1> QED  BY <1>1, <1>2, PTL DEF Spec

-----------------------------------------------------------------------------
\* Poking changes the window only, and makes it the word.
LEMMA PokeByte ==
    ASSUME NEW p \in Points, NEW w, NEW b \in Text
    PROVE  /\ b \notin Window(EqPoints[p]) => Poke(EqPoints[p], w)[b] = text[b]
           /\ b \in Window(EqPoints[p]) =>
                 /\ b - EqPoints[p] \in 0 .. 7
                 /\ EqPoints[p] + (b - EqPoints[p]) = b
                 /\ Poke(EqPoints[p], w)[b] = w[b - EqPoints[p]]
<1>1. EqPoints[p] \in Int  BY PointInText
<1>2. b \in Window(EqPoints[p]) => b - EqPoints[p] \in 0 .. 7 /\ EqPoints[p] + (b - EqPoints[p]) = b
  BY <1>1 DEF Window
<1> QED  BY <1>2 DEF Poke

\* A breakpoint leaves those bytes the program's own that were, and that it does
\* not change.
LEMMA TrapByte ==
    ASSUME NEW p \in Points, NEW b \in Text
    PROVE  Poke(EqPoints[p], TrapWord(Peek(EqPoints[p])))[b] = b <=> text[b] = b /\ ~Damages(p, b)
<1> DEFINE e == EqPoints[p]
           k == b - e
<1>0. Size \in Nat /\ b \in Int /\ b # TRAP /\ b # ZERO  BY BreakpointAssumption
<1>1. CASE b \notin Window(e)  BY <1>1, PokeByte DEF Damages
<1>2. CASE b \in Window(e)
  <2>1. k \in 0 .. 7 /\ e + k = b /\ Poke(e, TrapWord(Peek(e)))[b] = TrapWord(Peek(e))[k]
    BY <1>2, PokeByte
  <2>2. Peek(e)[k] = text[b]
    <3> HIDE DEF k, e
    <3>1. Peek(e)[k] = text[e + k]  BY <2>1 DEF Peek
    <3> QED  BY <2>1, <3>1
  <2>3. Damages(p, b) <=> (ARCH = "x86_64" => k \notin 1 .. 3)  BY <1>2 DEF Damages
  <2> HIDE DEF k, e
  <2>4. CASE ARCH = "x86_64"
    <3>1. TrapWord(Peek(e))[k] = IF k = 0 THEN TRAP ELSE IF k < 4 THEN Peek(e)[k] ELSE ZERO
      BY <2>1, <2>4 DEF TrapWord
    <3>2. k = 0 \/ k \in 1 .. 3 \/ k \in 4 .. 7  BY <2>1
    <3> QED  BY <1>0, <2>1, <2>2, <2>3, <2>4, <3>1, <3>2 DEF e
  <2>5. CASE ARCH # "x86_64"
    <3>1. TrapWord(Peek(e))[k] \in {TRAP, ZERO}  BY <2>1, <2>5 DEF TrapWord
    <3> QED  BY <1>0, <2>1, <2>3, <2>5, <3>1 DEF e
  <2> QED  BY <2>4, <2>5
<1> QED  BY <1>1, <1>2

\* What holds of the first n points, and of one more.
LEMMA OneMore ==
    ASSUME NEW n \in Nat \ {0}, NEW b
    PROVE  /\ Intact(n, b) <=> Intact(n - 1, b) /\ ~Damages(n, b)
           /\ b \notin Window(EqPoints[n]) =>
                 /\ Covered(n, b) <=> Covered(n - 1, b)
                 /\ SavedClean(n, b) <=> SavedClean(n - 1, b)
           /\ b \in Window(EqPoints[n]) => Covered(n, b) /\ (SavedClean(n, b) <=> Intact(n - 1, b))
<1>1. \A p : p \in 1 .. n <=> p \in 1 .. n - 1 \/ p = n  OBVIOUS
<1>2. \A p \in 1 .. n : \A q \in 1 .. p - 1 : q \in 1 .. n - 1  OBVIOUS
<1>3. n \in 1 .. n  OBVIOUS
<1>4. Intact(n, b) <=> Intact(n - 1, b) /\ ~Damages(n, b)  BY <1>1, Zenon DEF Intact
<1>5. ASSUME b \notin Window(EqPoints[n])
      PROVE  (Covered(n, b) <=> Covered(n - 1, b)) /\ (SavedClean(n, b) <=> SavedClean(n - 1, b))
  BY <1>1, <1>5, Zenon DEF Covered, SavedClean
<1>6. ASSUME b \in Window(EqPoints[n])
      PROVE  Covered(n, b) /\ (SavedClean(n, b) <=> Intact(n - 1, b))
  BY <1>2, <1>3, <1>6, Zenon DEF Covered, SavedClean, Intact
<1> QED  BY <1>4, <1>5, <1>6

\* Before the first round of either loop nothing is saved, placed or removed.
LEMMA FirstRound ==
    /\ Saved(0)
    /\ text = Original => Placed(0)
    /\ \A n \in Nat : Placed(n) <=> Removed(0, n)
<1>1. \A p : p \notin 1 .. 0  OBVIOUS
<1>2. \A b : ~Covered(0, b) /\ Intact(0, b)  BY <1>1 DEF Covered, Intact
<1> QED  BY <1>1, <1>2 DEF Saved, Placed, Removed, Original

\* A round of the first loop saves what the earlier ones left, and changes the
\* bytes that its breakpoint changes.
LEMMA InsertInv ==
    ASSUME TypeOK, TextInv, InsertBreakpoint
    PROVE  TextInv'
<1> USE DEF InsertBreakpoint
<1>1. i \in Points /\ i \in 1 .. num_addrs /\ i \in Nat \ {0}  BY LenType DEF TypeOK
<1>2. num_addrs \in Nat  BY LenType DEF TypeOK
<1>3. CASE st # "stop"  BY <1>2, <1>3 DEF TypeOK, TextInv, ProcessTypeOK
<1>4. CASE st = "stop"
  <2>1. Saved(i - 1) /\ Placed(i - 1)  BY <1>4 DEF TextInv
  <2>2. \A b \in Text : text'[b] = b <=> Intact(i, b)
    BY <1>1, <1>4, <2>1, TrapByte, OneMore DEF Placed
  <2>3. ASSUME NEW p \in 1 .. i, NEW b \in Text, b \in Window(EqPoints[p])
        PROVE  original_instructions'[p][b - EqPoints[p]] = b <=> Intact(p - 1, b)
    <3>1. CASE p = i
      <4>1. b - EqPoints[i] \in 0 .. 7 /\ EqPoints[i] + (b - EqPoints[i]) = b
        BY <1>1, <2>3, <3>1, PokeByte
      <4>2. Peek(EqPoints[i])[b - EqPoints[i]] = text[b]  BY <4>1 DEF Peek
      <4>3. original_instructions'[i] = Peek(EqPoints[i])  BY <1>1, <1>4 DEF TypeOK
      <4> QED  BY <2>1, <3>1, <4>2, <4>3 DEF Placed
    <3>2. CASE p # i
      <4>1. p \in 1 .. i - 1 /\ p \in Points  BY <1>1, <1>2, <3>2
      <4>2. original_instructions'[p] = original_instructions[p]  BY <1>4, <3>2, <4>1 DEF TypeOK
      <4> QED  BY <2>1, <2>3, <4>1, <4>2 DEF Saved
    <3> QED  BY <3>1, <3>2
  <2>4. i' - 1 = i /\ i' \in 1 .. num_addrs + 1  BY <1>1, <1>2
  <2>5. mpc' = "insert" /\ st' = "stop" /\ num_addrs' = num_addrs  BY <1>4
  <2>6. Saved(i - 1)'  BY <2>3, <2>4 DEF Saved, Intact, Damages
  <2>7. Placed(i - 1)'  BY <2>2, <2>4 DEF Placed, Intact, Damages
  <2> QED  BY <2>4, <2>5, <2>6, <2>7 DEF TextInv
<1> QED  BY <1>3, <1>4

\* A round of the second loop writes its word as it was saved, over what earlier
\* rounds wrote, and leaves all other bytes alone.
LEMMA RemoveInv ==
    ASSUME TypeOK, TextInv, RemoveBreakpoint
    PROVE  TextInv'
<1> USE DEF RemoveBreakpoint, RemoveBreakpointOf
<1>1. i \in Points /\ i \in 1 .. num_addrs /\ i \in Nat \ {0}  BY LenType DEF TypeOK
<1>2. num_addrs \in Nat  BY LenType DEF TypeOK
<1>3. CASE st # "stop"  BY <1>2, <1>3 DEF TypeOK, TextInv, ProcessTypeOK
<1>4. CASE st = "stop"
  <2>1. Saved(num_addrs) /\ Removed(i - 1, num_addrs)  BY <1>4 DEF TextInv
  <2>2. Saved(num_addrs)'  BY <2>1 DEF Saved, Intact, Damages
  <2>3. ASSUME NEW b \in Text
        PROVE  text'[b] = b <=> IF Covered(i, b) THEN SavedClean(i, b) ELSE Intact(num_addrs, b)
    <3> DEFINE w == original_instructions[i]
    <3>1. text' = Poke(EqPoints[i], w)  BY <1>4
    <3> HIDE DEF w
    <3>2. CASE b \in Window(EqPoints[i])
      <4>0. Poke(EqPoints[i], w)[b] = w[b - EqPoints[i]]  BY <1>1, <3>2, PokeByte
      <4>1. text'[b] = original_instructions[i][b - EqPoints[i]]  BY <3>1, <4>0 DEF w
      <4>2. text'[b] = b <=> Intact(i - 1, b)  BY <1>1, <2>1, <3>2, <4>1 DEF Saved
      <4> QED  BY <1>1, <3>2, <4>2, OneMore
    <3>3. CASE b \notin Window(EqPoints[i])
      <4>0. Poke(EqPoints[i], w)[b] = text[b]  BY <1>1, <3>3, PokeByte
      <4>1. text'[b] = text[b]  BY <3>1, <4>0
      <4>2. text[b] = b <=> IF Covered(i - 1, b) THEN SavedClean(i - 1, b) ELSE Intact(num_addrs, b)
        BY <2>1 DEF Removed
      <4> QED  BY <1>1, <3>3, <4>1, <4>2, OneMore
    <3> QED  BY <3>2, <3>3
  <2>4. i' - 1 = i /\ i' \in 1 .. num_addrs + 1  BY <1>1, <1>2
  <2>5. mpc' = "remove" /\ st' = "stop" /\ num_addrs' = num_addrs  BY <1>4
  <2>6. Removed(i - 1, num_addrs)'
    BY <2>3, <2>4, <2>5 DEF Removed, Covered, SavedClean, Intact, Damages
  <2> QED  BY <2>2, <2>4, <2>5, <2>6 DEF TextInv
<1> QED  BY <1>3, <1>4

\* The loops of main() transform the text as TextInv says.
THEOREM TextInvariance == Spec => []TextInv
<1>1. Init => TextInv  BY DEF Init, TextInv
<1>2. ASSUME TypeOK, TextInv, [Next]_vars PROVE TextInv'
  <2> USE <1>2
  <2>0. num_addrs \in Nat /\ i \in Nat  BY LenType DEF TypeOK
  <2>1. CASE Attach
    <3>1. text = Original => Removed(0, 0)  BY FirstRound
    <3>2. Removed(0, 0) => Removed(0, 0)'
      BY <2>1 DEF Attach, Removed, Covered, SavedClean, Intact, Damages
    <3> QED  BY <2>1, <3>1, <3>2 DEF Attach, TextInv, TypeOK, ProcessTypeOK
  <2>2. CASE WaitAttach  BY <2>2 DEF WaitAttach, Stop, TextInv, TypeOK, ProcessTypeOK
  <2>3. CASE GetEqPoints
    <3> USE DEF GetEqPoints, GetEqPointsOf
    <3>1. mpc = "eq_points" /\ num_addrs = 0 /\ (text = Original \/ st = "dead")
      BY <2>3 DEF TextInv
    <3>2. num_addrs' \in Nat /\ i' = 1 /\ text' = text  BY <2>3, <2>0, LenType
    <3>3. st' = "dead" <=> st = "dead"  BY <2>3
    <3>4. CASE mpc' = "insert"
      <4>1. st' # "run"  BY <2>3, <3>4 DEF TextInv
      <4>2. i' \in 1 .. num_addrs' + 1
        <5>1. \A n \in Nat : 1 \in 1 .. n + 1  OBVIOUS
        <5> QED  BY <3>2, <5>1
      <4>3. i' - 1 = 0  BY <3>2
      <4>4. Saved(i - 1)'
        <5>1. \A p : p \notin 1 .. 0  OBVIOUS
        <5> QED  BY <4>3, <5>1 DEF Saved
      <4>5. text = Original => Placed(i - 1)'
        <5>1. \A p : p \notin 1 .. 0  OBVIOUS
        <5> QED  BY <3>2, <4>3, <5>1 DEF Placed, Intact, Original
      <4> QED  BY <3>1, <3>3, <3>4, <4>1, <4>2, <4>4, <4>5 DEF TextInv
    <3>5. CASE mpc' = "exit"
      <4>1. num_addrs' = num_addrs  BY <2>3, <3>5
      <4>2. text = Original => Removed(0, 0)  BY FirstRound
      <4>3. Removed(0, 0) => Removed(num_addrs, num_addrs)'
        BY <3>1, <3>2, <4>1 DEF Removed, Covered, SavedClean, Intact, Damages
      <4> QED  BY <3>1, <3>3, <3>5, <4>2, <4>3 DEF TextInv
    <3> QED  BY <2>3, <3>4, <3>5
  <2>4. CASE InsertBreakpoint  BY <2>4, InsertInv
  <2>5. CASE Cont
    <3>1. i - 1 = num_addrs  BY <2>0, <2>5 DEF Cont, TextInv
    <3>2. st # "dead" => Saved(num_addrs) /\ Placed(num_addrs)  BY <2>5, <3>1 DEF Cont, TextInv
    <3>3. Saved(num_addrs) => Saved(num_addrs)'  BY <2>5 DEF Cont, Saved, Intact, Damages
    <3>4. Placed(num_addrs) => Placed(num_addrs)'  BY <2>5 DEF Cont, Placed, Intact, Damages
    <3> QED  BY <2>5, <3>2, <3>3, <3>4 DEF Cont, TextInv
  <2>6. CASE WaitStop
    <3>1. Saved(num_addrs) => Saved(num_addrs)'  BY <2>6 DEF WaitStop, Saved, Intact, Damages
    <3>2. i' - 1 = 0 /\ i' \in 1 .. num_addrs' + 1  BY <2>0, <2>6 DEF WaitStop
    <3>3. Placed(num_addrs) => Removed(0, num_addrs)  BY <2>0, FirstRound
    <3>4. Removed(0, num_addrs) => Removed(i - 1, num_addrs)'
      BY <2>6, <3>2 DEF WaitStop, Removed, Covered, SavedClean, Intact, Damages
    <3> QED  BY <2>6, <3>1, <3>2, <3>3, <3>4 DEF WaitStop, TextInv, TypeOK, ProcessTypeOK
  <2>7. CASE RemoveBreakpoint  BY <2>7, RemoveInv
  <2>8. CASE UpdateRegs
    <3>1. i - 1 = num_addrs  BY <2>0, <2>8 DEF UpdateRegs, UpdateRegsBy, TextInv
    <3>2. Removed(i - 1, num_addrs) => Removed(num_addrs, num_addrs)'
      BY <2>8, <3>1 DEF UpdateRegs, UpdateRegsBy, Removed, Covered, SavedClean, Intact, Damages
    <3> QED  BY <2>8, <3>2 DEF UpdateRegs, UpdateRegsBy, TextInv
  <2>9. CASE Suspend
    <3>1. Removed(num_addrs, num_addrs) => Removed(num_addrs, num_addrs)'
      BY <2>9 DEF Suspend, Removed, Covered, SavedClean, Intact, Damages
    <3> QED  BY <2>9, <3>1 DEF Suspend, TextInv
  <2>10. CASE Process \/ UNCHANGED vars
    <3>1. /\ UNCHANGED <<text, toolVars>>
          /\ st' # "dead" => st # "dead"
          /\ st' = "run" => st = "run"
      BY <2>10, ProcessKeepsText
    <3>2. /\ Saved(i - 1) => Saved(i - 1)'
          /\ Saved(num_addrs) => Saved(num_addrs)'
      BY <3>1 DEF Saved, Intact, Damages
    <3>3. /\ Placed(i - 1) => Placed(i - 1)'
          /\ Placed(num_addrs) => Placed(num_addrs)'
      BY <3>1 DEF Placed, Intact, Damages
    <3>4. /\ Removed(i - 1, num_addrs) => Removed(i - 1, num_addrs)'
          /\ Removed(num_addrs, num_addrs) => Removed(num_addrs, num_addrs)'
      BY <3>1 DEF Removed, Covered, SavedClean, Intact, Damages
    <3> QED  BY <3>1, <3>2, <3>3, <3>4 DEF TextInv
  <2> QED  BY <2>1, <2>2, <2>3, <2>4, <2>5, <2>6, <2>7, <2>8, <2>9, <2>10
           DEF Next, Steps
<1> QED  BY <1>1, <1>2, TypeCorrect, PTL DEF Spec

\* Whatever the equivalence points, the bytes of the process that tracer2.c
\* suspends are the program's own exactly where no saved word held a breakpoint.
THEOREM TextRestored == Spec => []BreakpointsRemoved
<1>1. ASSUME TypeOK, TextInv PROVE BreakpointsRemoved
  <2> SUFFICES ASSUME mpc = "sigstop" \/ mpc = "exit", st # "dead", NEW b \in Text
               PROVE  text[b] = b <=> SavedClean(num_addrs, b)
    BY DEF BreakpointsRemoved
  <2>1. text[b] = b <=> IF Covered(num_addrs, b) THEN SavedClean(num_addrs, b)
                                                 ELSE Intact(num_addrs, b)
    BY <1>1 DEF TextInv, Removed
  <2>2. ~Covered(num_addrs, b) => SavedClean(num_addrs, b) /\ Intact(num_addrs, b)
    BY DEF Covered, SavedClean, Intact, Damages
  <2> QED  BY <2>1, <2>2
<1> QED  BY <1>1, TextInvariance, TypeCorrect, PTL

-----------------------------------------------------------------------------
\* On x86-64 a trap is only ever where an equivalence point is, in the text and in
\* the words that were saved of it, even if their windows overlap; a process that
\* ran into one is a byte behind it until update_regs().
IsPoint(a) == \E p \in Points : a = EqPoints[p]

TrapInv ==
    /\ \A b \in Text : text[b] = TRAP => IsPoint(b)
    /\ \A p \in Points, k \in 0 .. 7 : original_instructions[p][k] = TRAP => IsPoint(EqPoints[p] + k)
    /\ mpc \in {"attach", "wait_attach"} => text = Original
    /\ mpc \in {"eq_points", "insert", "remove", "sigstop"} => st # "run"
    /\ st = "run" => rip \in Insns
    /\ st = "stop" =>
          /\ mpc \in {"attach", "wait_attach", "eq_points", "insert"} => rip \in Insns
          /\ sig = "TRAP" => mpc \in {"wait_stop", "remove", "sigstop", "exit"}
          /\ sig = "TRAP" /\ mpc \in {"wait_stop", "remove"} => IsPoint(rip - 1)
          /\ mpc = "remove" => regs = rip
          /\ sig = "TRAP" /\ mpc = "sigstop" => IsPoint(rip)

\* Writing a word with no trap but at points leaves traps at points only.
LEMMA PokeTraps ==
    ASSUME NEW q \in Points, NEW w, \A k \in 0 .. 7 : w[k] = TRAP => IsPoint(EqPoints[q] + k),
           \A b \in Text : text[b] = TRAP => IsPoint(b)
    PROVE  \A b \in Text : Poke(EqPoints[q], w)[b] = TRAP => IsPoint(b)
<1> TAKE b \in Text
<1>1. EqPoints[q] \in Int  BY PointInText
<1>2. CASE b \in Window(EqPoints[q])
  <2>1. b - EqPoints[q] \in 0 .. 7 /\ EqPoints[q] + (b - EqPoints[q]) = b  BY <1>1, <1>2 DEF Window
  <2>2. Poke(EqPoints[q], w)[b] = w[b - EqPoints[q]]  BY <1>2 DEF Poke
  <2>3. w[b - EqPoints[q]] = TRAP => IsPoint(EqPoints[q] + (b - EqPoints[q]))  BY <2>1
  <2> QED  BY <2>1, <2>2, <2>3
<1>3. CASE b \notin Window(EqPoints[q])  BY <1>3 DEF Poke
<1> QED  BY <1>2, <1>3

LEMMA TrapInductive ==
    ASSUME ARCH = "x86_64", TypeOK, TrapInv, [Next]_vars
    PROVE  TrapInv'
<1>0. Insns \subseteq Text /\ TrapLen = 1  BY BreakpointAssumption DEF TrapLen
<1>1. CASE Attach  BY <1>1 DEF Attach, TrapInv, IsPoint
<1>2. CASE WaitAttach  BY <1>2 DEF WaitAttach, Stop, TrapInv, IsPoint, TypeOK, ProcessTypeOK
<1>3. CASE GetEqPoints  BY <1>3 DEF GetEqPoints, GetEqPointsOf, TrapInv, IsPoint
<1>4. CASE InsertBreakpoint
  <2>1. i \in Points  BY <1>4, LenType DEF InsertBreakpoint, TypeOK
  <2> DEFINE w == Peek(EqPoints[i])
  <2>2. \A k \in 0 .. 7 : w[k] = TRAP => IsPoint(EqPoints[i] + k)
    BY <2>1, PointInText DEF Peek, TrapInv
  <2>3. \A k \in 0 .. 7 : TrapWord(w)[k] = TRAP => IsPoint(EqPoints[i] + k)
    <3> TAKE k \in 0 .. 7
    <3>0. EqPoints[i] \in Int /\ IsPoint(EqPoints[i])  BY <2>1, PointInText, Zenon DEF IsPoint
    <3>1. EqPoints[i] + 0 = EqPoints[i] /\ IsPoint(EqPoints[i])  BY <3>0
    <3> HIDE DEF w
    <3>2. TrapWord(w)[k] = IF k = 0 THEN TRAP ELSE IF k < 4 THEN w[k] ELSE ZERO  BY DEF TrapWord
    <3>3. CASE k = 0  BY <3>1, <3>3
    <3>4. CASE k # 0  BY <2>2, <3>2, <3>4
    <3> QED  BY <3>3, <3>4
  <2> HIDE DEF w
  <2>4. \A b \in Text : text'[b] = TRAP => IsPoint(b)
    <3>1. \A b \in Text : text[b] = TRAP => IsPoint(b)  BY DEF TrapInv
    <3>2. \A b \in Text : Poke(EqPoints[i], TrapWord(w))[b] = TRAP => IsPoint(b)
      BY <2>1, <2>3, <3>1, PokeTraps
    <3> QED  BY <1>4, <3>1, <3>2 DEF InsertBreakpoint, w
  <2>5. \A p \in Points, k \in 0 .. 7 : original_instructions'[p][k] = TRAP => IsPoint(EqPoints[p] + k)
    <3>1. original_instructions' = [original_instructions EXCEPT ![i] = w]
          \/ original_instructions' = original_instructions
      BY <1>4 DEF InsertBreakpoint, w
    <3> QED  BY <2>1, <2>2, <3>1 DEF TrapInv, TypeOK
  <2> QED  BY <1>4, <2>4, <2>5 DEF InsertBreakpoint, TrapInv, IsPoint
<1>5. CASE Cont  BY <1>5 DEF Cont, TrapInv, IsPoint, TypeOK, ProcessTypeOK
<1>6. CASE WaitStop  BY <1>6 DEF WaitStop, TrapInv, IsPoint, TypeOK, ProcessTypeOK
<1>7. CASE RemoveBreakpoint
  <2>1. i \in Points  BY <1>7, LenType DEF RemoveBreakpoint, RemoveBreakpointOf, TypeOK
  <2>2. \A b \in Text : text'[b] = TRAP => IsPoint(b)
    <3>1. \A b \in Text : text[b] = TRAP => IsPoint(b)  BY DEF TrapInv
    <3>2. \A k \in 0 .. 7 : original_instructions[i][k] = TRAP => IsPoint(EqPoints[i] + k)
      BY <2>1 DEF TrapInv
    <3>3. \A b \in Text : Poke(EqPoints[i], original_instructions[i])[b] = TRAP => IsPoint(b)
      BY <2>1, <3>1, <3>2, PokeTraps
    <3> QED  BY <1>7, <3>1, <3>3 DEF RemoveBreakpoint, RemoveBreakpointOf
  <2> QED  BY <1>7, <2>2 DEF RemoveBreakpoint, RemoveBreakpointOf, TrapInv, IsPoint
<1>8. CASE UpdateRegs
  <2>1. /\ mpc = "remove" /\ mpc' = "sigstop" /\ rip' = IF st = "stop" THEN regs - 1 ELSE rip
        /\ UNCHANGED <<text, st, sig, original_instructions>>
    BY <1>8 DEF UpdateRegs, UpdateRegsBy
  <2>2. st = "stop" /\ sig = "TRAP" => IsPoint(rip')  BY <2>1 DEF TrapInv
  <2> QED  BY <2>1, <2>2 DEF TrapInv, IsPoint
<1>9. CASE Suspend  BY <1>9 DEF Suspend, TrapInv, IsPoint
<1>10. CASE Process
  <2>1. UNCHANGED <<text, toolVars>>  BY <1>10, ProcessKeepsText
  <2>2. CASE Exit  BY <2>1, <2>2 DEF Exit, TrapInv, IsPoint
  <2>3. CASE mpc \notin {"attach", "exit"} /\ Signal  BY <2>1, <2>3 DEF Signal, Stop, TrapInv, IsPoint
  <2>4. CASE Execute
    <3>1. st = "run" /\ rip \in Insns /\ rip \in Int /\ rip \in Text
      BY <1>0, <2>4 DEF Execute, TrapInv, TypeOK, ProcessTypeOK
    <3>2. CASE text[rip] = TRAP
      <4>1. IsPoint(rip) /\ rip' - 1 = rip /\ st' = "stop"
        BY <1>0, <2>4, <3>1, <3>2 DEF Execute, Stop, TrapInv
      <4>2. text # Original
        <5>1. Original[rip] = rip /\ rip >= 0  BY <3>1, BreakpointAssumption DEF Original
        <5> QED  BY <3>1, <3>2, <5>1
      <4>3. mpc \in {"wait_stop", "exit"}  BY <3>1, <4>2 DEF TrapInv, TypeOK
      <4> QED  BY <2>1, <4>1, <4>3 DEF TrapInv, IsPoint
    <3>3. CASE text[rip] # TRAP
      <4>1. \/ rip' \in Insns /\ UNCHANGED <<st, sig>>
            \/ st' = "stop" /\ sig' = "FAULT" /\ rip' = rip
        BY <2>4, <3>3 DEF Execute, Stop
      <4>2. mpc \in {"attach", "wait_attach", "wait_stop", "exit"}  BY <3>1 DEF TrapInv, TypeOK
      <4> QED  BY <2>1, <3>1, <4>1, <4>2 DEF TrapInv, IsPoint
    <3> QED  BY <3>2, <3>3
  <2> QED  BY <1>10, <2>2, <2>3, <2>4 DEF Process
<1>11. CASE UNCHANGED vars  BY <1>11 DEF TrapInv, IsPoint
<1> QED  BY <1>1, <1>2, <1>3, <1>4, <1>5, <1>6, <1>7, <1>8, <1>9, <1>10, <1>11 DEF Next, Steps

\* On x86-64, whatever the equivalence points, a process that one of the breakpoints
\* stopped is suspended with its pc on an equivalence point.
THEOREM StoppedAtPoint == ASSUME ARCH = "x86_64" PROVE Spec => []SuspendedAtEqPoint
<1>1. Init => TrapInv
  <2> SUFFICES ASSUME Init PROVE TrapInv
    OBVIOUS
  <2>1. \A b \in Text : text[b] # TRAP  BY BreakpointAssumption DEF Init, Original
  <2> QED  BY <2>1 DEF Init, TrapInv
<1>2. TypeOK /\ TrapInv /\ [Next]_vars => TrapInv'  BY TrapInductive
<1>3. TrapInv => SuspendedAtEqPoint  BY DEF TrapInv, SuspendedAtEqPoint, IsPoint
<1> QED  BY <1>1, <1>2, <1>3, TypeCorrect, PTL DEF Spec
=============================================================================
