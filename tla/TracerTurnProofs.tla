-------------------------- MODULE TracerTurnProofs --------------------------
(***************************************************************************)
(* The steps of tracer.c from the turn to the end preserve IInv (a turn, the*)
(* trace_done barrier, the SIGSTOP and the end of the tracer threads), and so*)
(* do the steps of the target process.                                     *)
(***************************************************************************)
EXTENDS TracerInv, FiniteSetTheorems, TLAPS

USE TracerAssumption DEF vars, tracerVars, traceeVars, mainVars, shared, locals,
    place, process

\* set_breakpoint() preserves the invariant: only the owner of the turn writes.
LEMMA SetBreakpointInv ==
    ASSUME IInv, NEW t \in Threads, SetBreakpoint(t)
    PROVE  IInv'
<1> USE DEF SetBreakpoint, Goto
<1>1. TypeOK'
  BY DEF IInv, TypeOK, Pcs, RetAddrs, Addrs, Instructions, OnlyMainPcs, TurnPcs,
      ParkedPcs
<1>2. Roles'
  BY DEF IInv, Roles, TypeOK, OnlyMainPcs, Pcs, RetAddrs, Addrs, Instructions,
      TurnPcs, ParkedPcs
<1>3. TurnOwned'
  BY DEF IInv, TurnOwned, TypeOK, TurnPcs, Pcs, RetAddrs, Addrs, Instructions,
      OnlyMainPcs, ParkedPcs
<1>4. Counted'
  BY DEF IInv, Counted, TypeOK, Parked, ParkedPcs, Pcs, RetAddrs, Addrs,
      Instructions, OnlyMainPcs, TurnPcs
<1>5. Barrier'
  BY DEF IInv, Barrier, Roles, TypeOK, ParkedPcs, OnlyMainPcs, Pcs, RetAddrs, Addrs,
      Instructions, TurnPcs
<1>6. TextShape'
  BY DEF IInv, TextShape, TypeOK, TrapGone, Roles, RetAddrs, Addrs, Pcs,
      Instructions, OnlyMainPcs, TurnPcs, ParkedPcs, Untrapped, PtraceOK, LatePcs
<1>7. TrapGone'
  BY DEF IInv, TrapGone, TypeOK, Roles, TextShape, StopLast, Untrapped, PtraceOK,
      LatePcs, TurnPcs, ParkedPcs, RetAddrs, Addrs, Pcs, Instructions, OnlyMainPcs,
      Alive
<1>8. StopLast'
  BY DEF IInv, StopLast, TypeOK, Roles, PcRegister, TrapGone, Alive, Pcs, RetAddrs,
      Addrs, Instructions, OnlyMainPcs, TurnPcs, ParkedPcs, PtraceOK, TrapLen,
      Untrapped, LatePcs
<1>9. Attached'
  BY DEF IInv, Attached, TypeOK, Roles, StopLast, HeldPcs, ParkedPcs, PtraceOK, Pcs,
      RetAddrs, Addrs, Instructions, OnlyMainPcs, TurnPcs, Alive
<1>10. PcRegister'
  BY DEF IInv, PcRegister, TypeOK, Roles, StopLast, TrapGone, PtraceOK, TrapLen,
      Pcs, RetAddrs, Addrs, Instructions, OnlyMainPcs, TurnPcs, ParkedPcs, Alive,
      Untrapped, LatePcs
<1>11. Turns'
  BY DEF IInv, Turns, TypeOK, TurnOwned, TextShape, TrapGone, StopLast, PcRegister,
      NoneFailed, PtraceOK, Alive, AtMigrationPoint, RetAddrs, ParkedPcs, TurnPcs,
      Pcs, Addrs, Instructions, OnlyMainPcs, Untrapped, LatePcs, TrapLen
<1> QED  BY <1>1, <1>2, <1>3, <1>4, <1>5, <1>6, <1>7, <1>8, <1>9, <1>10, <1>11, Zenon DEF IInv

\* PTRACE_CONT preserves the invariant, also when it fails.
LEMMA ContInv ==
    ASSUME IInv, NEW t \in Threads, Cont(t)
    PROVE  IInv'
<1> USE DEF Cont, Goto, Return
<1>1. TextShape'
  BY DEF IInv, TextShape
<1>2. TypeOK'
  BY DEF IInv, TypeOK, Pcs, RetAddrs, Addrs, Instructions, OnlyMainPcs, TurnPcs,
      ParkedPcs
<1>3. Roles'
  BY DEF IInv, Roles, TypeOK, OnlyMainPcs, Pcs, RetAddrs, Addrs, Instructions,
      TurnPcs, ParkedPcs
<1>4. TurnOwned'
  BY DEF IInv, TurnOwned, TypeOK, TurnPcs, Pcs, RetAddrs, Addrs, Instructions,
      OnlyMainPcs, ParkedPcs
<1>5. Counted'
  BY DEF IInv, Counted, TypeOK, Parked, ParkedPcs, Pcs, RetAddrs, Addrs,
      Instructions, OnlyMainPcs, TurnPcs
<1>6. Barrier'
  BY DEF IInv, Barrier, Roles, TypeOK, ParkedPcs, OnlyMainPcs, Pcs, RetAddrs, Addrs,
      Instructions, TurnPcs
<1>7. TrapGone'
  BY DEF IInv, TrapGone, TypeOK, Roles, TextShape, StopLast, Untrapped, PtraceOK,
      LatePcs, TurnPcs, ParkedPcs, RetAddrs, Addrs, Pcs, Instructions, OnlyMainPcs,
      Alive
<1>8. StopLast'
  BY DEF IInv, StopLast, TypeOK, Roles, PcRegister, TrapGone, Alive, Pcs, RetAddrs,
      Addrs, Instructions, OnlyMainPcs, TurnPcs, ParkedPcs, PtraceOK, TrapLen,
      Untrapped, LatePcs
<1>9. Attached'
  BY DEF IInv, Attached, TypeOK, Roles, StopLast, HeldPcs, ParkedPcs, PtraceOK, Pcs,
      RetAddrs, Addrs, Instructions, OnlyMainPcs, TurnPcs, Alive
<1>10. PcRegister'
  BY DEF IInv, PcRegister, TypeOK, Roles, StopLast, TrapGone, PtraceOK, TrapLen,
      Pcs, RetAddrs, Addrs, Instructions, OnlyMainPcs, TurnPcs, ParkedPcs, Alive,
      Untrapped, LatePcs
<1>11. Turns'
  BY DEF IInv, Turns, TypeOK, TurnOwned, TextShape, TrapGone, StopLast, PcRegister,
      NoneFailed, PtraceOK, Alive, AtMigrationPoint, RetAddrs, ParkedPcs, TurnPcs,
      Pcs, Addrs, Instructions, OnlyMainPcs, Untrapped, LatePcs, TrapLen
<1> QED  BY <1>1, <1>2, <1>3, <1>4, <1>5, <1>6, <1>7, <1>8, <1>9, <1>10, <1>11, Zenon DEF IInv

\* remove_breakpoint(), trace_done++ and the unlock preserve the invariant.
LEMMA FinishTurnInv ==
    ASSUME IInv, NEW t \in Threads, FinishTurn(t)
    PROVE  IInv'
<1> USE DEF FinishTurn, EndTurn, Goto
<1>1. TypeOK'
  <2>1. off' \in [Threads -> -1..1]
    <3>1. off[t] - TrapLen = 0  BY DEF IInv, TypeOK, PcRegister, PtraceOK, TrapLen
    <3> QED  BY <3>1 DEF IInv, TypeOK
  <2>2. text' \in [Addrs -> Instructions]  BY DEF IInv, TypeOK, RetAddrs, Addrs
  <2>3. pc' \in [Threads -> Pcs]  BY DEF IInv, TypeOK, Pcs, ParkedPcs
  <2>4. trace_done' \in Nat  BY DEF IInv, TypeOK
  <2> QED  BY <2>1, <2>2, <2>3, <2>4 DEF IInv, TypeOK
<1>2. Roles'
  BY DEF IInv, Roles, TypeOK, OnlyMainPcs, Pcs, RetAddrs, Addrs, Instructions,
      TurnPcs, ParkedPcs
<1>3. TurnOwned'
  BY DEF IInv, TurnOwned, TypeOK, TurnPcs, Pcs, RetAddrs, Addrs, Instructions,
      OnlyMainPcs, ParkedPcs
<1>4. Counted'
  <2>1. Parked' = Parked \cup {t} /\ t \notin Parked  BY DEF IInv, TypeOK, Parked, ParkedPcs
  <2>2. IsFiniteSet(Parked)  BY FS_Subset DEF Parked
  <2>3. Cardinality(Parked') = Cardinality(Parked) + 1  BY <2>1, <2>2, FS_AddElement
  <2> QED  BY <2>3 DEF IInv, Counted
<1>5. Barrier'
  BY DEF IInv, Barrier, Roles, TypeOK, ParkedPcs, OnlyMainPcs, Pcs, RetAddrs, Addrs,
      Instructions, TurnPcs
<1>6. TextShape'
  BY DEF IInv, TextShape, TypeOK, TrapGone, Roles, RetAddrs, Addrs, Pcs,
      Instructions, OnlyMainPcs, TurnPcs, ParkedPcs, Untrapped, PtraceOK, LatePcs
<1>7. TrapGone'
  BY DEF IInv, TrapGone, TypeOK, Roles, TextShape, StopLast, Untrapped, PtraceOK,
      LatePcs, TurnPcs, ParkedPcs, RetAddrs, Addrs, Pcs, Instructions, OnlyMainPcs,
      Alive
<1>8. StopLast'
  BY DEF IInv, StopLast, TypeOK, Roles, PcRegister, TrapGone, Alive, Pcs, RetAddrs,
      Addrs, Instructions, OnlyMainPcs, TurnPcs, ParkedPcs, PtraceOK, TrapLen,
      Untrapped, LatePcs
<1>9. Attached'
  BY DEF IInv, Attached, TypeOK, Roles, StopLast, HeldPcs, ParkedPcs, PtraceOK, Pcs,
      RetAddrs, Addrs, Instructions, OnlyMainPcs, TurnPcs, Alive
<1>10. PcRegister'
  BY DEF IInv, PcRegister, TypeOK, Roles, StopLast, TrapGone, PtraceOK, TrapLen,
      Pcs, RetAddrs, Addrs, Instructions, OnlyMainPcs, TurnPcs, ParkedPcs, Alive,
      Untrapped, LatePcs
<1>11. Turns'
  BY DEF IInv, Turns, TypeOK, TurnOwned, TextShape, TrapGone, StopLast, PcRegister,
      NoneFailed, PtraceOK, Alive, AtMigrationPoint, RetAddrs, ParkedPcs, TurnPcs,
      Pcs, Addrs, Instructions, OnlyMainPcs, Untrapped, LatePcs, TrapLen
<1> QED  BY <1>1, <1>2, <1>3, <1>4, <1>5, <1>6, <1>7, <1>8, <1>9, <1>10, <1>11, Zenon DEF IInv

\* A tracee lost in its turn preserves the invariant.
LEMMA LoseTurnInv ==
    ASSUME IInv, NEW t \in Threads, LoseTurn(t)
    PROVE  IInv'
<1> USE DEF LoseTurn, Goto, Return, WaitReturns
<1>1. TextShape'
  BY DEF IInv, TextShape
<1>2. TypeOK'
  BY DEF IInv, TypeOK, Pcs, RetAddrs, Addrs, Instructions, OnlyMainPcs, TurnPcs,
      ParkedPcs
<1>3. Roles'
  BY DEF IInv, Roles, TypeOK, OnlyMainPcs, Pcs, RetAddrs, Addrs, Instructions,
      TurnPcs, ParkedPcs
<1>4. TurnOwned'
  BY DEF IInv, TurnOwned, TypeOK, TurnPcs, Pcs, RetAddrs, Addrs, Instructions,
      OnlyMainPcs, ParkedPcs
<1>5. Counted'
  BY DEF IInv, Counted, TypeOK, Parked, ParkedPcs, Pcs, RetAddrs, Addrs,
      Instructions, OnlyMainPcs, TurnPcs
<1>6. Barrier'
  BY DEF IInv, Barrier, Roles, TypeOK, ParkedPcs, OnlyMainPcs, Pcs, RetAddrs, Addrs,
      Instructions, TurnPcs
<1>7. TrapGone'
  BY DEF IInv, TrapGone, TypeOK, Roles, TextShape, StopLast, Untrapped, PtraceOK,
      LatePcs, TurnPcs, ParkedPcs, RetAddrs, Addrs, Pcs, Instructions, OnlyMainPcs,
      Alive
<1>8. StopLast'
  BY DEF IInv, StopLast, TypeOK, Roles, PcRegister, TrapGone, Alive, Pcs, RetAddrs,
      Addrs, Instructions, OnlyMainPcs, TurnPcs, ParkedPcs, PtraceOK, TrapLen,
      Untrapped, LatePcs
<1>9. Attached'
  BY DEF IInv, Attached, TypeOK, Roles, StopLast, HeldPcs, ParkedPcs, PtraceOK, Pcs,
      RetAddrs, Addrs, Instructions, OnlyMainPcs, TurnPcs, Alive
<1>10. PcRegister'
  BY DEF IInv, PcRegister, TypeOK, Roles, StopLast, TrapGone, PtraceOK, TrapLen,
      Pcs, RetAddrs, Addrs, Instructions, OnlyMainPcs, TurnPcs, ParkedPcs, Alive,
      Untrapped, LatePcs
<1>11. Turns'
  BY DEF IInv, Turns, TypeOK, TurnOwned, TextShape, TrapGone, StopLast, PcRegister,
      NoneFailed, PtraceOK, Alive, AtMigrationPoint, RetAddrs, ParkedPcs, TurnPcs,
      Pcs, Addrs, Instructions, OnlyMainPcs, Untrapped, LatePcs, TrapLen
<1> QED  BY <1>1, <1>2, <1>3, <1>4, <1>5, <1>6, <1>7, <1>8, <1>9, <1>10, <1>11, Zenon DEF IInv

\* Leaving the trace_done loop preserves the invariant: as many threads are parked
\* as are listed, so all of them are.
LEMMA WaitDoneInv ==
    ASSUME IInv, NEW t \in Threads, WaitDone(t)
    PROVE  IInv'
<1> USE DEF WaitDone, WaitDoneFor, Goto
<1>1. TextShape'
  BY DEF IInv, TextShape
<1>2. TypeOK'
  BY DEF IInv, TypeOK, Pcs, RetAddrs, Addrs, Instructions, OnlyMainPcs, TurnPcs,
      ParkedPcs
<1>3. Roles'
  BY DEF IInv, Roles, TypeOK, OnlyMainPcs, Pcs, RetAddrs, Addrs, Instructions,
      TurnPcs, ParkedPcs
<1>4. TurnOwned'
  BY DEF IInv, TurnOwned, TypeOK, TurnPcs, Pcs, RetAddrs, Addrs, Instructions,
      OnlyMainPcs, ParkedPcs
<1>5. Counted'
  BY DEF IInv, Counted, TypeOK, Parked, ParkedPcs, Pcs, RetAddrs, Addrs,
      Instructions, OnlyMainPcs, TurnPcs
<1>6. Barrier'
  <2>1. Parked \subseteq listed  BY DEF IInv, TypeOK, Parked, Roles, ParkedPcs
  <2>2. IsFiniteSet(listed)  BY FS_Subset DEF IInv, TypeOK
  <2>3. Cardinality(Parked) >= Cardinality(listed)  BY DEF IInv, Counted
  <2>4. Parked = listed
    <3>1. Cardinality(Parked) <= Cardinality(listed)  BY <2>1, <2>2, FS_Subset
    <3>2. Cardinality(Parked) \in Nat /\ Cardinality(listed) \in Nat
      BY <2>1, <2>2, FS_Subset, FS_CardinalityType
    <3>3. Cardinality(Parked) = Cardinality(listed)  BY <2>3, <3>1, <3>2
    <3> QED  BY <2>1, <2>2, <3>3, FS_Subset
  <2>5. \A u \in listed : pc[u] \in ParkedPcs  BY <2>4 DEF Parked
  <2> QED  BY <2>5 DEF IInv, TypeOK, Barrier, ParkedPcs
<1>7. TrapGone'
  BY DEF IInv, TrapGone, TypeOK, Roles, TextShape, StopLast, Untrapped, PtraceOK,
      LatePcs, TurnPcs, ParkedPcs, RetAddrs, Addrs, Pcs, Instructions, OnlyMainPcs,
      Alive
<1>8. StopLast'
  BY DEF IInv, StopLast, TypeOK, Roles, PcRegister, TrapGone, Alive, Pcs, RetAddrs,
      Addrs, Instructions, OnlyMainPcs, TurnPcs, ParkedPcs, PtraceOK, TrapLen,
      Untrapped, LatePcs
<1>9. Attached'
  BY DEF IInv, Attached, TypeOK, Roles, StopLast, HeldPcs, ParkedPcs, PtraceOK, Pcs,
      RetAddrs, Addrs, Instructions, OnlyMainPcs, TurnPcs, Alive
<1>10. PcRegister'
  BY DEF IInv, PcRegister, TypeOK, Roles, StopLast, TrapGone, PtraceOK, TrapLen,
      Pcs, RetAddrs, Addrs, Instructions, OnlyMainPcs, TurnPcs, ParkedPcs, Alive,
      Untrapped, LatePcs
<1>11. Turns'
  BY DEF IInv, Turns, TypeOK, TurnOwned, TextShape, TrapGone, StopLast, PcRegister,
      NoneFailed, PtraceOK, Alive, AtMigrationPoint, RetAddrs, ParkedPcs, TurnPcs,
      Pcs, Addrs, Instructions, OnlyMainPcs, Untrapped, LatePcs, TrapLen
<1> QED  BY <1>1, <1>2, <1>3, <1>4, <1>5, <1>6, <1>7, <1>8, <1>9, <1>10, <1>11, Zenon DEF IInv

\* A worker that leaves after the flag has been cleared preserves the invariant.
LEMMA WaitSuspendInv ==
    ASSUME IInv, NEW t \in Threads, WaitSuspend(t)
    PROVE  IInv'
<1> USE DEF WaitSuspend, LeaveWhen, Goto, Return
<1>1. TextShape'
  BY DEF IInv, TextShape
<1>2. TypeOK'
  BY DEF IInv, TypeOK, Pcs, RetAddrs, Addrs, Instructions, OnlyMainPcs, TurnPcs,
      ParkedPcs
<1>3. Roles'
  BY DEF IInv, Roles, TypeOK, OnlyMainPcs, Pcs, RetAddrs, Addrs, Instructions,
      TurnPcs, ParkedPcs
<1>4. TurnOwned'
  BY DEF IInv, TurnOwned, TypeOK, TurnPcs, Pcs, RetAddrs, Addrs, Instructions,
      OnlyMainPcs, ParkedPcs
<1>5. Counted'
  BY DEF IInv, Counted, TypeOK, Parked, ParkedPcs, Pcs, RetAddrs, Addrs,
      Instructions, OnlyMainPcs, TurnPcs
<1>6. Barrier'
  BY DEF IInv, Barrier, Roles, TypeOK, ParkedPcs, OnlyMainPcs, Pcs, RetAddrs, Addrs,
      Instructions, TurnPcs
<1>7. TrapGone'
  BY DEF IInv, TrapGone, TypeOK, Roles, TextShape, StopLast, Untrapped, PtraceOK,
      LatePcs, TurnPcs, ParkedPcs, RetAddrs, Addrs, Pcs, Instructions, OnlyMainPcs,
      Alive
<1>8. StopLast'
  BY DEF IInv, StopLast, TypeOK, Roles, PcRegister, TrapGone, Alive, Pcs, RetAddrs,
      Addrs, Instructions, OnlyMainPcs, TurnPcs, ParkedPcs, PtraceOK, TrapLen,
      Untrapped, LatePcs
<1>9. Attached'
  BY DEF IInv, Attached, TypeOK, Roles, StopLast, TrapGone, HeldPcs, ParkedPcs,
      PtraceOK, Pcs, RetAddrs, Addrs, Instructions, OnlyMainPcs, TurnPcs, Alive,
      Untrapped, LatePcs
<1>10. PcRegister'
  BY DEF IInv, PcRegister, TypeOK, Roles, StopLast, TrapGone, PtraceOK, TrapLen,
      Pcs, RetAddrs, Addrs, Instructions, OnlyMainPcs, TurnPcs, ParkedPcs, Alive,
      Untrapped, LatePcs
<1>11. Turns'
  BY DEF IInv, Turns, TypeOK, TurnOwned, TextShape, TrapGone, StopLast, PcRegister,
      NoneFailed, PtraceOK, Alive, AtMigrationPoint, RetAddrs, ParkedPcs, TurnPcs,
      Pcs, Addrs, Instructions, OnlyMainPcs, Untrapped, LatePcs, TrapLen
<1> QED  BY <1>1, <1>2, <1>3, <1>4, <1>5, <1>6, <1>7, <1>8, <1>9, <1>10, <1>11, Zenon DEF IInv

\* suspend() preserves the invariant.
LEMMA SuspendInv ==
    ASSUME IInv, NEW t \in Threads, Suspend(t)
    PROVE  IInv'
<1> USE DEF Suspend, Goto
<1>1. TextShape'
  BY DEF IInv, TextShape
<1>2. TypeOK'
  <2>1. sigstop' \in BOOLEAN  BY DEF Alive
  <2>2. pc' \in [Threads -> Pcs]  BY DEF IInv, TypeOK, Pcs, ParkedPcs
  <2> QED  BY <2>1, <2>2 DEF IInv, TypeOK
<1>3. Roles'
  BY DEF IInv, Roles, TypeOK, OnlyMainPcs, Pcs, RetAddrs, Addrs, Instructions,
      TurnPcs, ParkedPcs
<1>4. TurnOwned'
  BY DEF IInv, TurnOwned, TypeOK, TurnPcs, Pcs, RetAddrs, Addrs, Instructions,
      OnlyMainPcs, ParkedPcs
<1>5. Counted'
  <2>1. Parked' = Parked  BY DEF IInv, TypeOK, Parked, Roles, ParkedPcs
  <2> QED  BY <2>1 DEF IInv, Counted
<1>6. Barrier'
  BY DEF IInv, Barrier, Roles, TypeOK, ParkedPcs, OnlyMainPcs, Pcs, RetAddrs, Addrs,
      Instructions, TurnPcs
<1>7. TrapGone'
  BY DEF IInv, TrapGone, TypeOK, Roles, TextShape, StopLast, Untrapped, PtraceOK,
      LatePcs, TurnPcs, ParkedPcs, RetAddrs, Addrs, Pcs, Instructions, OnlyMainPcs,
      Alive
<1>8. StopLast'
  BY DEF IInv, StopLast, TypeOK, Roles, PcRegister, TrapGone, Alive, Pcs, RetAddrs,
      Addrs, Instructions, OnlyMainPcs, TurnPcs, ParkedPcs, PtraceOK, TrapLen,
      Untrapped, LatePcs
<1>9. Attached'
  BY DEF IInv, Attached, TypeOK, Roles, StopLast, HeldPcs, ParkedPcs, PtraceOK, Pcs,
      RetAddrs, Addrs, Instructions, OnlyMainPcs, TurnPcs, Alive
<1>10. PcRegister'
  BY DEF IInv, PcRegister, TypeOK, Roles, StopLast, TrapGone, PtraceOK, TrapLen,
      Pcs, RetAddrs, Addrs, Instructions, OnlyMainPcs, TurnPcs, ParkedPcs, Alive,
      Untrapped, LatePcs
<1>11. Turns'
  BY DEF IInv, Turns, TypeOK, TurnOwned, TextShape, TrapGone, StopLast, PcRegister,
      NoneFailed, PtraceOK, Alive, AtMigrationPoint, RetAddrs, ParkedPcs, TurnPcs,
      Pcs, Addrs, Instructions, OnlyMainPcs, Untrapped, LatePcs, TrapLen
<1> QED  BY <1>1, <1>2, <1>3, <1>4, <1>5, <1>6, <1>7, <1>8, <1>9, <1>10, <1>11, Zenon DEF IInv

\* Clearing the flag preserves the invariant: the SIGSTOP has been sent.
LEMMA ClearFlagInv ==
    ASSUME IInv, NEW t \in Threads, ClearFlag(t)
    PROVE  IInv'
<1> USE DEF ClearFlag, Goto, Return
<1>1. TextShape'
  BY DEF IInv, TextShape
<1>2. TypeOK'
  BY DEF IInv, TypeOK, Pcs, RetAddrs, Addrs, Instructions, OnlyMainPcs, TurnPcs,
      ParkedPcs
<1>3. Roles'
  BY DEF IInv, Roles, TypeOK, OnlyMainPcs, Pcs, RetAddrs, Addrs, Instructions,
      TurnPcs, ParkedPcs
<1>4. TurnOwned'
  BY DEF IInv, TurnOwned, TypeOK, TurnPcs, Pcs, RetAddrs, Addrs, Instructions,
      OnlyMainPcs, ParkedPcs
<1>5. Counted'
  <2>1. Parked' = Parked  BY DEF IInv, TypeOK, Parked, Roles, ParkedPcs
  <2> QED  BY <2>1 DEF IInv, Counted
<1>6. Barrier'
  BY DEF IInv, Barrier, Roles, TypeOK, ParkedPcs, OnlyMainPcs, Pcs, RetAddrs, Addrs,
      Instructions, TurnPcs
<1>7. TrapGone'
  BY DEF IInv, TrapGone, TypeOK, Roles, TextShape, StopLast, Untrapped, PtraceOK,
      LatePcs, TurnPcs, ParkedPcs, RetAddrs, Addrs, Pcs, Instructions, OnlyMainPcs,
      Alive
<1>8. StopLast'
  BY DEF IInv, StopLast, TypeOK, Roles, PcRegister, TrapGone, Alive, Pcs, RetAddrs,
      Addrs, Instructions, OnlyMainPcs, TurnPcs, ParkedPcs, PtraceOK, TrapLen,
      Untrapped, LatePcs
<1>9. Attached'
  BY DEF IInv, Attached, TypeOK, Roles, StopLast, HeldPcs, ParkedPcs, PtraceOK, Pcs,
      RetAddrs, Addrs, Instructions, OnlyMainPcs, TurnPcs, Alive
<1>10. PcRegister'
  BY DEF IInv, PcRegister, TypeOK, Roles, StopLast, TrapGone, PtraceOK, TrapLen,
      Pcs, RetAddrs, Addrs, Instructions, OnlyMainPcs, TurnPcs, ParkedPcs, Alive,
      Untrapped, LatePcs
<1>11. Turns'
  BY DEF IInv, Turns, TypeOK, Roles, StopLast, NoneFailed, PtraceOK, Alive,
      AtMigrationPoint, RetAddrs, ParkedPcs, TurnPcs, Pcs, Addrs, Instructions,
      OnlyMainPcs
<1> QED  BY <1>1, <1>2, <1>3, <1>4, <1>5, <1>6, <1>7, <1>8, <1>9, <1>10, <1>11, Zenon DEF IInv

\* A call of check_migrate preserves the invariant.
LEMMA CallCheckMigrateInv ==
    ASSUME IInv, NEW t \in Threads, CallCheckMigrate(t)
    PROVE  IInv'
<1> USE DEF CallCheckMigrate, Runs
<1>1. Roles' /\ TurnOwned' /\ Counted' /\ Barrier' /\ TextShape' /\ StopLast' /\ Attached'
  BY DEF IInv, Roles, TurnOwned, Counted, Barrier, TextShape, StopLast, Attached,
      Parked, Alive
<1>2. TypeOK'
  BY DEF IInv, TypeOK, Pcs, RetAddrs, Addrs, Instructions, OnlyMainPcs, TurnPcs,
      ParkedPcs
<1>3. TrapGone'
  BY DEF IInv, TrapGone, TypeOK, Roles, TextShape, StopLast, Untrapped, PtraceOK,
      LatePcs, TurnPcs, ParkedPcs, RetAddrs, Addrs, Pcs, Instructions, OnlyMainPcs,
      Alive
<1>4. PcRegister'
  BY DEF IInv, PcRegister, TypeOK, Roles, StopLast, TrapGone, PtraceOK, TrapLen,
      Pcs, RetAddrs, Addrs, Instructions, OnlyMainPcs, TurnPcs, ParkedPcs, Alive,
      Untrapped, LatePcs
<1>5. Turns'
  BY DEF IInv, Turns, TypeOK, TurnOwned, TextShape, TrapGone, StopLast, PcRegister,
      NoneFailed, PtraceOK, Alive, AtMigrationPoint, RetAddrs, ParkedPcs, TurnPcs,
      Pcs, Addrs, Instructions, OnlyMainPcs, Untrapped, LatePcs, TrapLen
<1> QED  BY <1>1, <1>2, <1>3, <1>4, <1>5, Zenon DEF IInv

\* A return past the call of check_migrate preserves the invariant.
LEMMA ReturnToCallerInv ==
    ASSUME IInv, NEW t \in Threads, ReturnToCaller(t)
    PROVE  IInv'
<1> USE DEF ReturnToCaller, Runs
<1>1. Roles' /\ TurnOwned' /\ Counted' /\ Barrier' /\ TextShape' /\ StopLast' /\ Attached'
  BY DEF IInv, Roles, TurnOwned, Counted, Barrier, TextShape, StopLast, Attached,
      Parked, Alive
<1>2. TypeOK'
  BY DEF IInv, TypeOK, Pcs, RetAddrs, Addrs, Instructions, OnlyMainPcs, TurnPcs,
      ParkedPcs
<1>3. TrapGone'
  BY DEF IInv, TrapGone, TypeOK, Roles, TextShape, StopLast, Untrapped, PtraceOK,
      LatePcs, TurnPcs, ParkedPcs, RetAddrs, Addrs, Pcs, Instructions, OnlyMainPcs,
      Alive
<1>4. PcRegister'
  BY DEF IInv, PcRegister, TypeOK, Roles, StopLast, TrapGone, PtraceOK, TrapLen,
      Pcs, RetAddrs, Addrs, Instructions, OnlyMainPcs, TurnPcs, ParkedPcs, Alive,
      Untrapped, LatePcs
<1>5. Turns'
  BY DEF IInv, Turns, TypeOK, TurnOwned, TextShape, TrapGone, StopLast, PcRegister,
      NoneFailed, PtraceOK, Alive, AtMigrationPoint, RetAddrs, ParkedPcs, TurnPcs,
      Pcs, Addrs, Instructions, OnlyMainPcs, Untrapped, LatePcs, TrapLen
<1> QED  BY <1>1, <1>2, <1>3, <1>4, <1>5, Zenon DEF IInv

\* The instruction a tracee executes preserves the invariant, be it a trap.
LEMMA ExecuteInv ==
    ASSUME IInv, NEW t \in Threads, Execute(t)
    PROVE  IInv'
<1> USE DEF Execute, Trap, Runs
<1>1. TurnOwned' /\ Counted' /\ Barrier' /\ TextShape'
  BY DEF IInv, TurnOwned, Counted, Barrier, TextShape, Parked
<1>2. TypeOK'
  <2>1. at' \in [Threads -> Addrs \cup {"user"}]  BY DEF IInv, TypeOK, RetAddrs, Addrs
  <2>2. off' \in [Threads -> -1..1]  BY DEF IInv, TypeOK, TrapLen
  <2>3. st' \in [Threads -> {"unborn", "run", "stop", "dead"}]  BY DEF IInv, TypeOK
  <2> QED  BY <2>1, <2>2, <2>3 DEF IInv, TypeOK
<1>3. Roles'
  BY DEF IInv, Roles, TypeOK, OnlyMainPcs, Pcs, RetAddrs, Addrs, Instructions,
      TurnPcs, ParkedPcs
<1>4. TrapGone'
  <2>1. pc[Main] \in {"wait_trap", "untrap"} /\ PtraceOK(Main)' => at[Main]' = TrapAddr
    BY DEF IInv, TypeOK, TrapGone, PtraceOK, Untrapped, LatePcs, HeldPcs, RetAddrs, Addrs, ParkedPcs, TurnPcs, TextShape, Attached, StopLast
  <2>2. pc[Main] = "restore" /\ PtraceOK(Main)' => text[TrapAddr] = "NOP"
    BY DEF IInv, TypeOK, TrapGone, PtraceOK, Untrapped, LatePcs, HeldPcs, RetAddrs, Addrs, ParkedPcs, TurnPcs, TextShape, Attached, StopLast
  <2>3. pc[Main] \in {"none", "attach", "wait_attach", "poke"} => \A u \in Threads : at[u]' # TrapAddr
    BY DEF IInv, TypeOK, TrapGone, PtraceOK, Untrapped, LatePcs, HeldPcs, RetAddrs, Addrs, ParkedPcs, TurnPcs
  <2> QED  BY <2>1, <2>2, <2>3 DEF IInv, TypeOK, TrapGone, PtraceOK, Untrapped, LatePcs, HeldPcs, RetAddrs, Addrs, ParkedPcs, TurnPcs
<1>5. StopLast'
  BY DEF IInv, StopLast, TypeOK, Roles, PcRegister, TrapGone, Alive, Pcs, RetAddrs,
      Addrs, Instructions, OnlyMainPcs, TurnPcs, ParkedPcs, PtraceOK, TrapLen,
      Untrapped, LatePcs
<1>6. Attached'
  BY DEF IInv, Attached, TypeOK, Roles, StopLast, HeldPcs, ParkedPcs, PtraceOK, Pcs,
      RetAddrs, Addrs, Instructions, OnlyMainPcs, TurnPcs, Alive
<1>7. PcRegister'
  <2>1. CASE text[at[t]] \in {"INT3", "BRK"} /\ traced[t]
    <3>1. pc[t] \notin {"none", "attach", "seize"} \cup HeldPcs
      BY <2>1 DEF IInv, Attached
    <3>2. pc[t] # "wait_attach" /\ pc[t] # "poke"
      BY <2>1 DEF IInv, TypeOK, Roles, OnlyMainPcs, TextShape, TrapGone, LatePcs, TurnPcs,
                  ParkedPcs, RetAddrs, Addrs, PcRegister, StopLast, PtraceOK
    <3> QED  BY <2>1, <3>1, <3>2 DEF IInv, TypeOK, PcRegister, PtraceOK, HeldPcs
  <2>2. CASE text[at[t]] \in {"INT3", "BRK"} /\ ~traced[t]
    BY <2>2 DEF IInv, TypeOK, PcRegister, PtraceOK
  <2>3. CASE text[at[t]] \notin {"INT3", "BRK"}
    BY <2>3 DEF IInv, TypeOK, PcRegister, PtraceOK
  <2> QED  BY <2>1, <2>2, <2>3 DEF IInv, TypeOK
<1>8. Turns'
  BY DEF IInv, Turns, TypeOK, TurnOwned, TextShape, TrapGone, StopLast, PcRegister,
      NoneFailed, PtraceOK, Alive, AtMigrationPoint, RetAddrs, ParkedPcs, TurnPcs,
      Pcs, Addrs, Instructions, OnlyMainPcs, Untrapped, LatePcs, TrapLen
<1> QED  BY <1>1, <1>2, <1>3, <1>4, <1>5, <1>6, <1>7, <1>8, Zenon DEF IInv

\* The stop of the whole process preserves the invariant.
LEMMA GroupStopInv ==
    ASSUME IInv, NEW t \in Threads, GroupStop(t)
    PROVE  IInv'
<1> USE DEF GroupStop
<1>1. TurnOwned' /\ Counted' /\ Barrier' /\ TextShape'
  BY DEF IInv, TurnOwned, Counted, Barrier, TextShape, Parked
<1>2. TypeOK'
  BY DEF IInv, TypeOK, Pcs, RetAddrs, Addrs, Instructions, OnlyMainPcs, TurnPcs,
      ParkedPcs
<1>3. Roles'
  BY DEF IInv, Roles, TypeOK, OnlyMainPcs, Pcs, RetAddrs, Addrs, Instructions,
      TurnPcs, ParkedPcs
<1>4. TrapGone'
  BY DEF IInv, TrapGone, TypeOK, Roles, TextShape, StopLast, Untrapped, PtraceOK,
      LatePcs, TurnPcs, ParkedPcs, RetAddrs, Addrs, Pcs, Instructions, OnlyMainPcs,
      Alive
<1>5. StopLast'
  BY DEF IInv, StopLast, TypeOK, Roles, PcRegister, TrapGone, Alive, Pcs, RetAddrs,
      Addrs, Instructions, OnlyMainPcs, TurnPcs, ParkedPcs, PtraceOK, TrapLen,
      Untrapped, LatePcs
<1>6. Attached'
  BY DEF IInv, Attached, TypeOK, Roles, StopLast, HeldPcs, ParkedPcs, PtraceOK, Pcs,
      RetAddrs, Addrs, Instructions, OnlyMainPcs, TurnPcs, Alive
<1>7. PcRegister'
  BY DEF IInv, PcRegister, TypeOK, Roles, StopLast, Barrier, PtraceOK, TrapLen, Pcs,
      RetAddrs, Addrs, Instructions, OnlyMainPcs, TurnPcs, ParkedPcs, Alive
<1>8. Turns'
  BY DEF IInv, Turns, TypeOK, Roles, StopLast, Barrier, NoneFailed, PtraceOK, Alive,
      AtMigrationPoint, RetAddrs, ParkedPcs, TurnPcs, Pcs, Addrs, Instructions,
      OnlyMainPcs
<1> QED  BY <1>1, <1>2, <1>3, <1>4, <1>5, <1>6, <1>7, <1>8, Zenon DEF IInv

\* A new thread preserves the invariant.
LEMMA SpawnThreadInv ==
    ASSUME IInv, NEW t \in Threads, SpawnThread(t)
    PROVE  IInv'
<1> USE DEF SpawnThread
<1>1. TurnOwned' /\ Counted' /\ Barrier' /\ TextShape'
  BY DEF IInv, TurnOwned, Counted, Barrier, TextShape, Parked
<1>2. TypeOK'
  BY DEF IInv, TypeOK, Pcs, RetAddrs, Addrs, Instructions, OnlyMainPcs, TurnPcs,
      ParkedPcs
<1>3. Roles'
  BY DEF IInv, Roles, TypeOK, OnlyMainPcs, Pcs, RetAddrs, Addrs, Instructions,
      TurnPcs, ParkedPcs
<1>4. TrapGone'
  BY DEF IInv, TrapGone, TypeOK, Roles, TextShape, StopLast, Untrapped, PtraceOK,
      LatePcs, TurnPcs, ParkedPcs, RetAddrs, Addrs, Pcs, Instructions, OnlyMainPcs,
      Alive
<1>5. StopLast'
  BY DEF IInv, StopLast, TypeOK, Roles, PcRegister, TrapGone, Alive, Pcs, RetAddrs,
      Addrs, Instructions, OnlyMainPcs, TurnPcs, ParkedPcs, PtraceOK, TrapLen,
      Untrapped, LatePcs
<1>6. Attached'
  BY DEF IInv, Attached, TypeOK, Roles, StopLast, HeldPcs, ParkedPcs, PtraceOK, Pcs,
      RetAddrs, Addrs, Instructions, OnlyMainPcs, TurnPcs, Alive
<1>7. PcRegister'
  BY DEF IInv, PcRegister, TypeOK, Roles, StopLast, TrapGone, PtraceOK, TrapLen,
      Pcs, RetAddrs, Addrs, Instructions, OnlyMainPcs, TurnPcs, ParkedPcs, Alive,
      Untrapped, LatePcs
<1>8. Turns'
  BY DEF IInv, Turns, TypeOK, TurnOwned, TextShape, TrapGone, StopLast, PcRegister,
      NoneFailed, PtraceOK, Alive, AtMigrationPoint, RetAddrs, ParkedPcs, TurnPcs,
      Pcs, Addrs, Instructions, OnlyMainPcs, Untrapped, LatePcs, TrapLen
<1> QED  BY <1>1, <1>2, <1>3, <1>4, <1>5, <1>6, <1>7, <1>8, Zenon DEF IInv

\* A thread that ends preserves the invariant.
LEMMA ExitThreadInv ==
    ASSUME IInv, NEW t \in Threads, ExitThread(t)
    PROVE  IInv'
<1> USE DEF ExitThread, Runs
<1>1. TurnOwned' /\ Counted' /\ Barrier' /\ TextShape'
  BY DEF IInv, TurnOwned, Counted, Barrier, TextShape, Parked
<1>2. TypeOK'
  BY DEF IInv, TypeOK, Pcs, RetAddrs, Addrs, Instructions, OnlyMainPcs, TurnPcs,
      ParkedPcs
<1>3. Roles'
  BY DEF IInv, Roles, TypeOK, OnlyMainPcs, Pcs, RetAddrs, Addrs, Instructions,
      TurnPcs, ParkedPcs
<1>4. TrapGone'
  BY DEF IInv, TrapGone, TypeOK, Roles, TextShape, StopLast, Untrapped, PtraceOK,
      LatePcs, TurnPcs, ParkedPcs, RetAddrs, Addrs, Pcs, Instructions, OnlyMainPcs,
      Alive
<1>5. StopLast'
  BY DEF IInv, StopLast, TypeOK, Roles, PcRegister, TrapGone, Alive, Pcs, RetAddrs,
      Addrs, Instructions, OnlyMainPcs, TurnPcs, ParkedPcs, PtraceOK, TrapLen,
      Untrapped, LatePcs
<1>6. Attached'
  BY DEF IInv, Attached, TypeOK, Roles, StopLast, HeldPcs, ParkedPcs, PtraceOK, Pcs,
      RetAddrs, Addrs, Instructions, OnlyMainPcs, TurnPcs, Alive
<1>7. PcRegister'
  BY DEF IInv, PcRegister, TypeOK, Roles, StopLast, TrapGone, PtraceOK, TrapLen,
      Pcs, RetAddrs, Addrs, Instructions, OnlyMainPcs, TurnPcs, ParkedPcs, Alive,
      Untrapped, LatePcs
<1>8. Turns'
  BY DEF IInv, Turns, TypeOK, TurnOwned, TextShape, TrapGone, StopLast, PcRegister,
      NoneFailed, PtraceOK, Alive, AtMigrationPoint, RetAddrs, ParkedPcs, TurnPcs,
      Pcs, Addrs, Instructions, OnlyMainPcs, Untrapped, LatePcs, TrapLen
<1> QED  BY <1>1, <1>2, <1>3, <1>4, <1>5, <1>6, <1>7, <1>8, Zenon DEF IInv

\* The end of the process preserves the invariant.
LEMMA KillInv ==
    ASSUME IInv, Kill
    PROVE  IInv'
<1> USE DEF Kill
<1>1. TurnOwned' /\ Counted' /\ Barrier' /\ TextShape'
  BY DEF IInv, TurnOwned, Counted, Barrier, TextShape, Parked
<1>2. TypeOK'
  BY DEF IInv, TypeOK, Pcs, RetAddrs, Addrs, Instructions, OnlyMainPcs, TurnPcs,
      ParkedPcs
<1>3. Roles'
  BY DEF IInv, Roles, TypeOK, OnlyMainPcs, Pcs, RetAddrs, Addrs, Instructions,
      TurnPcs, ParkedPcs
<1>4. TrapGone'
  BY DEF IInv, TrapGone, TypeOK, Roles, TextShape, StopLast, Untrapped, PtraceOK,
      LatePcs, TurnPcs, ParkedPcs, RetAddrs, Addrs, Pcs, Instructions, OnlyMainPcs,
      Alive
<1>5. StopLast'
  BY DEF IInv, StopLast, TypeOK, Roles, PcRegister, TrapGone, Alive, Pcs, RetAddrs,
      Addrs, Instructions, OnlyMainPcs, TurnPcs, ParkedPcs, PtraceOK, TrapLen,
      Untrapped, LatePcs
<1>6. Attached'
  BY DEF IInv, Attached, TypeOK, Roles, StopLast, HeldPcs, ParkedPcs, PtraceOK, Pcs,
      RetAddrs, Addrs, Instructions, OnlyMainPcs, TurnPcs, Alive
<1>7. PcRegister'
  BY DEF IInv, PcRegister, TypeOK, Roles, StopLast, TrapGone, PtraceOK, TrapLen,
      Pcs, RetAddrs, Addrs, Instructions, OnlyMainPcs, TurnPcs, ParkedPcs, Alive,
      Untrapped, LatePcs
<1>8. Turns'
  BY DEF IInv, Turns, TypeOK, TurnOwned, TextShape, TrapGone, StopLast, PcRegister,
      NoneFailed, PtraceOK, Alive, AtMigrationPoint, RetAddrs, ParkedPcs, TurnPcs,
      Pcs, Addrs, Instructions, OnlyMainPcs, Untrapped, LatePcs, TrapLen
<1> QED  BY <1>1, <1>2, <1>3, <1>4, <1>5, <1>6, <1>7, <1>8, Zenon DEF IInv
=============================================================================
