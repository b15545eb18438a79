------------------------- MODULE TracerStartProofs --------------------------
(***************************************************************************)
(* The steps of tracer.c up to the first turn preserve IInv: main(), and   *)
(* trace_thread() until it locks the mutex to take its turn.               *)
(***************************************************************************)
EXTENDS TracerInv, FiniteSetTheorems, TLAPS

USE TracerAssumption DEF vars, tracerVars, traceeVars, mainVars, shared, locals,
    place, process

\* get_thread_ids() preserves the invariant: the list is filled once, with born threads.
LEMMA ListThreadsInv ==
    ASSUME IInv, ListThreads
    PROVE  IInv'
<1> USE DEF ListThreads, Born
<1>1. TurnOwned' /\ Counted' /\ TextShape' /\ TrapGone' /\ StopLast' /\ Attached' /\ PcRegister' /\ Turns'
  BY DEF IInv, TurnOwned, Counted, TextShape, TrapGone, StopLast, Attached,
      PcRegister, Turns, Parked, Untrapped, PtraceOK, Alive, NoneFailed,
      AtMigrationPoint
<1>2. TypeOK'
  BY DEF IInv, TypeOK, Pcs, RetAddrs, Addrs, Instructions, OnlyMainPcs, TurnPcs,
      ParkedPcs
<1>3. Roles'
  BY DEF IInv, Roles, TypeOK, OnlyMainPcs, Pcs, RetAddrs, Addrs, Instructions,
      TurnPcs, ParkedPcs
<1>4. Barrier'
  BY DEF IInv, Barrier, Roles, TypeOK, ParkedPcs, OnlyMainPcs, Pcs, RetAddrs, Addrs,
      Instructions, TurnPcs
<1> QED  BY <1>1, <1>2, <1>3, <1>4, Zenon DEF IInv

\* An early exit of main() preserves the invariant.
LEMMA SymbolErrorInv ==
    ASSUME IInv, SymbolError
    PROVE  IInv'
<1> USE DEF SymbolError
<1>1. TurnOwned' /\ Counted' /\ Barrier' /\ TextShape' /\ TrapGone' /\ StopLast' /\ Attached' /\ PcRegister' /\ Turns'
  BY DEF IInv, TurnOwned, Counted, Barrier, TextShape, TrapGone, StopLast, Attached,
      PcRegister, Turns, Parked, Untrapped, PtraceOK, Alive, NoneFailed,
      AtMigrationPoint
<1>2. TypeOK'
  BY DEF IInv, TypeOK, Pcs, RetAddrs, Addrs, Instructions, OnlyMainPcs, TurnPcs,
      ParkedPcs
<1>3. Roles'
  BY DEF IInv, Roles, TypeOK, OnlyMainPcs, Pcs, RetAddrs, Addrs, Instructions,
      TurnPcs, ParkedPcs
<1> QED  BY <1>1, <1>2, <1>3, Zenon DEF IInv

\* pthread_create() for every listed thread preserves the invariant.
LEMMA SpawnTracersInv ==
    ASSUME IInv, SpawnTracers
    PROVE  IInv'
<1> USE DEF SpawnTracers
<1>1. TextShape'
  BY DEF IInv, TextShape
<1>2. TypeOK'
  BY DEF IInv, TypeOK, Pcs, RetAddrs, Addrs, Instructions, OnlyMainPcs, TurnPcs,
      ParkedPcs
<1>3. Roles'
  BY DEF IInv, Roles, TypeOK, OnlyMainPcs, Pcs, RetAddrs, Addrs, Instructions,
      TurnPcs, ParkedPcs
<1>4. TurnOwned'
  BY DEF IInv, TurnOwned, TypeOK, TurnPcs, Pcs, RetAddrs, Addrs, Instructions,
      OnlyMainPcs, ParkedPcs
<1>5. Counted'
  <2>1. Parked' = Parked  BY DEF IInv, TypeOK, Parked, Roles, ParkedPcs
  <2> QED  BY <2>1 DEF IInv, Counted
<1>6. Barrier'
  BY DEF IInv, Barrier, Roles, TypeOK, ParkedPcs, OnlyMainPcs, Pcs, RetAddrs, Addrs,
      Instructions, TurnPcs
<1>7. TrapGone'
  BY DEF IInv, TrapGone, TypeOK, Roles, TextShape, StopLast, Untrapped, PtraceOK,
      LatePcs, TurnPcs, ParkedPcs, RetAddrs, Addrs, Pcs, Instructions, OnlyMainPcs,
      Alive
<1>8. StopLast'
  BY DEF IInv, StopLast, TypeOK, Roles, PcRegister, TrapGone, Alive, Pcs, RetAddrs,
      Addrs, Instructions, OnlyMainPcs, TurnPcs, ParkedPcs, PtraceOK, TrapLen,
      Untrapped, LatePcs
<1>9. Attached'
  BY DEF IInv, Attached, TypeOK, Roles, StopLast, HeldPcs, ParkedPcs, PtraceOK, Pcs,
      RetAddrs, Addrs, Instructions, OnlyMainPcs, TurnPcs, Alive
<1>10. PcRegister'
  BY DEF IInv, PcRegister, TypeOK, Roles, StopLast, TrapGone, PtraceOK, TrapLen,
      Pcs, RetAddrs, Addrs, Instructions, OnlyMainPcs, TurnPcs, ParkedPcs, Alive,
      Untrapped, LatePcs
<1>11. Turns'
  BY DEF IInv, Turns, TypeOK, Roles, TrapGone, StopLast, NoneFailed, PtraceOK,
      Alive, AtMigrationPoint, RetAddrs, ParkedPcs, TurnPcs, Pcs, Addrs,
      Instructions, OnlyMainPcs, Untrapped, LatePcs
<1> QED  BY <1>1, <1>2, <1>3, <1>4, <1>5, <1>6, <1>7, <1>8, <1>9, <1>10, <1>11, Zenon DEF IInv

\* pthread_join() preserves the invariant.
LEMMA JoinTracersInv ==
    ASSUME IInv, JoinTracers
    PROVE  IInv'
<1> USE DEF JoinTracers
<1>1. TurnOwned' /\ Counted' /\ Barrier' /\ TextShape' /\ TrapGone' /\ StopLast' /\ Attached' /\ PcRegister' /\ Turns'
  BY DEF IInv, TurnOwned, Counted, Barrier, TextShape, TrapGone, StopLast, Attached,
      PcRegister, Turns, Parked, Untrapped, PtraceOK, Alive, NoneFailed,
      AtMigrationPoint
<1>2. TypeOK'
  BY DEF IInv, TypeOK, Pcs, RetAddrs, Addrs, Instructions, OnlyMainPcs, TurnPcs,
      ParkedPcs
<1>3. Roles'
  BY DEF IInv, Roles, TypeOK, OnlyMainPcs, Pcs, RetAddrs, Addrs, Instructions,
      TurnPcs, ParkedPcs
<1> QED  BY <1>1, <1>2, <1>3, Zenon DEF IInv

\* PTRACE_ATTACH preserves the invariant, whether or not it succeeds.
LEMMA AttachInv ==
    ASSUME IInv, NEW t \in Threads, Attach(t)
    PROVE  IInv'
<1> USE DEF Attach, Goto, Return
<1>1. TextShape'
  BY DEF IInv, TextShape
<1>2. TypeOK'
  BY ZenonT(60) DEF IInv, TypeOK, Pcs, RetAddrs, Addrs, Instructions, OnlyMainPcs, TurnPcs,
      ParkedPcs
<1>3. Roles'
  BY DEF IInv, Roles, TypeOK, OnlyMainPcs, Pcs, RetAddrs, Addrs, Instructions,
      TurnPcs, ParkedPcs
<1>4. TurnOwned'
  BY DEF IInv, TurnOwned, TypeOK, TurnPcs, Pcs, RetAddrs, Addrs, Instructions,
      OnlyMainPcs, ParkedPcs
<1>5. Counted'
  BY DEF IInv, Counted, TypeOK, Parked, ParkedPcs, Pcs, RetAddrs, Addrs,
      Instructions, OnlyMainPcs, TurnPcs
<1>6. Barrier'
  BY DEF IInv, Barrier, Roles, TypeOK, ParkedPcs, OnlyMainPcs, Pcs, RetAddrs, Addrs,
      Instructions, TurnPcs
<1>7. TrapGone'
  BY DEF IInv, TrapGone, TypeOK, Roles, TextShape, StopLast, Untrapped, PtraceOK,
      LatePcs, TurnPcs, ParkedPcs, RetAddrs, Addrs, Pcs, Instructions, OnlyMainPcs,
      Alive
<1>8. StopLast'
  BY DEF IInv, StopLast, TypeOK, Roles, PcRegister, TrapGone, Alive, Pcs, RetAddrs,
      Addrs, Instructions, OnlyMainPcs, TurnPcs, ParkedPcs, PtraceOK, TrapLen,
      Untrapped, LatePcs
<1>9. Attached'
  BY DEF IInv, Attached, TypeOK, Roles, StopLast, HeldPcs, ParkedPcs, PtraceOK, Pcs,
      RetAddrs, Addrs, Instructions, OnlyMainPcs, TurnPcs, Alive
<1>10. PcRegister'
  BY DEF IInv, PcRegister, TypeOK, Roles, StopLast, TrapGone, PtraceOK, TrapLen,
      Pcs, RetAddrs, Addrs, Instructions, OnlyMainPcs, TurnPcs, ParkedPcs, Alive,
      Untrapped, LatePcs
<1>11. Turns'
  BY DEF IInv, Turns, TypeOK, TurnOwned, TextShape, TrapGone, StopLast, PcRegister,
      NoneFailed, PtraceOK, Alive, AtMigrationPoint, RetAddrs, ParkedPcs, TurnPcs,
      Pcs, Addrs, Instructions, OnlyMainPcs, Untrapped, LatePcs, TrapLen
<1> QED  BY <1>1, <1>2, <1>3, <1>4, <1>5, <1>6, <1>7, <1>8, <1>9, <1>10, <1>11, Zenon DEF IInv

\* The stop after the attach preserves the invariant.
LEMMA WaitAttachInv ==
    ASSUME IInv, NEW t \in Threads, WaitAttach(t)
    PROVE  IInv'
<1> USE DEF WaitAttach, Goto
<1>1. TextShape'
  BY DEF IInv, TextShape
<1>2. TypeOK'
  BY DEF IInv, TypeOK, Pcs, RetAddrs, Addrs, Instructions, OnlyMainPcs, TurnPcs,
      ParkedPcs
<1>3. Roles'
  BY DEF IInv, Roles, TypeOK, OnlyMainPcs, Pcs, RetAddrs, Addrs, Instructions,
      TurnPcs, ParkedPcs
<1>4. TurnOwned'
  BY DEF IInv, TurnOwned, TypeOK, TurnPcs, Pcs, RetAddrs, Addrs, Instructions,
      OnlyMainPcs, ParkedPcs
<1>5. Counted'
  BY DEF IInv, Counted, TypeOK, Parked, ParkedPcs, Pcs, RetAddrs, Addrs,
      Instructions, OnlyMainPcs, TurnPcs
<1>6. Barrier'
  BY DEF IInv, Barrier, Roles, TypeOK, ParkedPcs, OnlyMainPcs, Pcs, RetAddrs, Addrs,
      Instructions, TurnPcs
<1>7. TrapGone'
  BY DEF IInv, TrapGone, TypeOK, Roles, TextShape, StopLast, Untrapped, PtraceOK,
      LatePcs, TurnPcs, ParkedPcs, RetAddrs, Addrs, Pcs, Instructions, OnlyMainPcs,
      Alive
<1>8. StopLast'
  BY DEF IInv, PcRegister, TypeOK, Roles, StopLast, Attached, PtraceOK, TrapLen,
      Pcs, RetAddrs, Addrs, Instructions, OnlyMainPcs, TurnPcs, ParkedPcs, Alive,
      HeldPcs
<1>9. Attached'
  BY DEF IInv, Attached, TypeOK, Roles, StopLast, HeldPcs, ParkedPcs, PtraceOK, Pcs,
      RetAddrs, Addrs, Instructions, OnlyMainPcs, TurnPcs, Alive
<1>10. PcRegister'
  BY DEF IInv, PcRegister, TypeOK, Roles, StopLast, Barrier, Attached, PtraceOK,
      TrapLen, Pcs, RetAddrs, Addrs, Instructions, OnlyMainPcs, TurnPcs, ParkedPcs,
      Alive, HeldPcs
<1>11. Turns'
  BY DEF IInv, Turns, TypeOK, TurnOwned, TextShape, TrapGone, StopLast, PcRegister,
      NoneFailed, PtraceOK, Alive, AtMigrationPoint, RetAddrs, ParkedPcs, TurnPcs,
      Pcs, Addrs, Instructions, OnlyMainPcs, Untrapped, LatePcs, TrapLen
<1> QED  BY <1>1, <1>2, <1>3, <1>4, <1>5, <1>6, <1>7, <1>8, <1>9, <1>10, <1>11, Zenon DEF IInv

\* Setting __indicator and continuing preserves the invariant.
LEMMA PokeIndicatorInv ==
    ASSUME IInv, NEW t \in Threads, PokeIndicator(t)
    PROVE  IInv'
<1> USE DEF PokeIndicator, Goto
<1>1. TextShape'
  BY DEF IInv, TextShape
<1>2. TypeOK'
  BY DEF IInv, TypeOK, Pcs, RetAddrs, Addrs, Instructions, OnlyMainPcs, TurnPcs,
      ParkedPcs
<1>3. Roles'
  BY DEF IInv, Roles, TypeOK, OnlyMainPcs, Pcs, RetAddrs, Addrs, Instructions,
      TurnPcs, ParkedPcs
<1>4. TurnOwned'
  BY DEF IInv, TurnOwned, TypeOK, TurnPcs, Pcs, RetAddrs, Addrs, Instructions,
      OnlyMainPcs, ParkedPcs
<1>5. Counted'
  BY DEF IInv, Counted, TypeOK, Parked, ParkedPcs, Pcs, RetAddrs, Addrs,
      Instructions, OnlyMainPcs, TurnPcs
<1>6. Barrier'
  BY DEF IInv, Barrier, Roles, TypeOK, ParkedPcs, OnlyMainPcs, Pcs, RetAddrs, Addrs,
      Instructions, TurnPcs
<1>7. TrapGone'
  BY DEF IInv, TrapGone, TypeOK, Roles, TextShape, StopLast, Untrapped, PtraceOK,
      LatePcs, TurnPcs, ParkedPcs, RetAddrs, Addrs, Pcs, Instructions, OnlyMainPcs,
      Alive
<1>8. StopLast'
  BY DEF IInv, StopLast, TypeOK, Roles, PcRegister, TrapGone, Alive, Pcs, RetAddrs,
      Addrs, Instructions, OnlyMainPcs, TurnPcs, ParkedPcs, PtraceOK, TrapLen,
      Untrapped, LatePcs
<1>9. Attached'
  BY DEF IInv, Attached, TypeOK, Roles, StopLast, HeldPcs, ParkedPcs, PtraceOK, Pcs,
      RetAddrs, Addrs, Instructions, OnlyMainPcs, TurnPcs, Alive
<1>10. PcRegister'
  BY DEF IInv, PcRegister, TypeOK, Roles, StopLast, TrapGone, PtraceOK, TrapLen,
      Pcs, RetAddrs, Addrs, Instructions, OnlyMainPcs, TurnPcs, ParkedPcs, Alive,
      Untrapped, LatePcs
<1>11. Turns'
  BY DEF IInv, Turns, TypeOK, TurnOwned, TextShape, TrapGone, StopLast, PcRegister,
      NoneFailed, PtraceOK, Alive, AtMigrationPoint, RetAddrs, ParkedPcs, TurnPcs,
      Pcs, Addrs, Instructions, OnlyMainPcs, Untrapped, LatePcs, TrapLen
<1> QED  BY <1>1, <1>2, <1>3, <1>4, <1>5, <1>6, <1>7, <1>8, <1>9, <1>10, <1>11, Zenon DEF IInv

\* PTRACE_SEIZE preserves the invariant: no SIGSTOP is pending that early.
LEMMA SeizeInv ==
    ASSUME IInv, NEW t \in Threads, Seize(t)
    PROVE  IInv'
<1> USE DEF Seize, Goto
<1>1. TextShape'
  BY DEF IInv, TextShape
<1>2. TypeOK'
  BY DEF IInv, TypeOK, Pcs, RetAddrs, Addrs, Instructions, OnlyMainPcs, TurnPcs,
      ParkedPcs
<1>3. Roles'
  BY DEF IInv, Roles, TypeOK, OnlyMainPcs, Pcs, RetAddrs, Addrs, Instructions,
      TurnPcs, ParkedPcs
<1>4. TurnOwned'
  BY DEF IInv, TurnOwned, TypeOK, TurnPcs, Pcs, RetAddrs, Addrs, Instructions,
      OnlyMainPcs, ParkedPcs
<1>5. Counted'
  BY DEF IInv, Counted, TypeOK, Parked, ParkedPcs, Pcs, RetAddrs, Addrs,
      Instructions, OnlyMainPcs, TurnPcs
<1>6. Barrier'
  BY DEF IInv, Barrier, Roles, TypeOK, ParkedPcs, OnlyMainPcs, Pcs, RetAddrs, Addrs,
      Instructions, TurnPcs
<1>7. TrapGone'
  BY DEF IInv, TrapGone, TypeOK, Roles, TextShape, StopLast, Untrapped, PtraceOK,
      LatePcs, TurnPcs, ParkedPcs, RetAddrs, Addrs, Pcs, Instructions, OnlyMainPcs,
      Alive
<1>8. StopLast'
  BY DEF IInv, StopLast, TypeOK, Roles, PcRegister, TrapGone, Alive, Pcs, RetAddrs,
      Addrs, Instructions, OnlyMainPcs, TurnPcs, ParkedPcs, PtraceOK, TrapLen,
      Untrapped, LatePcs
<1>9. Attached'
  BY DEF IInv, Attached, TypeOK, Roles, StopLast, HeldPcs, ParkedPcs, PtraceOK, Pcs,
      RetAddrs, Addrs, Instructions, OnlyMainPcs, TurnPcs, Alive
<1>10. PcRegister'
  BY DEF IInv, PcRegister, TypeOK, Roles, StopLast, Barrier, PtraceOK, TrapLen, Pcs,
      RetAddrs, Addrs, Instructions, OnlyMainPcs, TurnPcs, ParkedPcs, Alive
<1>11. Turns'
  BY DEF IInv, Turns, TypeOK, TurnOwned, TextShape, TrapGone, StopLast, PcRegister,
      NoneFailed, PtraceOK, Alive, AtMigrationPoint, RetAddrs, ParkedPcs, TurnPcs,
      Pcs, Addrs, Instructions, OnlyMainPcs, Untrapped, LatePcs, TrapLen
<1> QED  BY <1>1, <1>2, <1>3, <1>4, <1>5, <1>6, <1>7, <1>8, <1>9, <1>10, <1>11, Zenon DEF IInv

\* The stop at the trap preserves the invariant: the pc is one trap past it.
LEMMA WaitTrapInv ==
    ASSUME IInv, NEW t \in Threads, WaitTrap(t)
    PROVE  IInv'
<1> USE DEF WaitTrap, Goto, Return, WaitReturns, ReturnAddress
<1>1. TextShape'
  BY DEF IInv, TextShape
<1>2. TypeOK'
  <2>1. PtraceOK(t) => ReturnAddress(t) \in RetAddrs  BY DEF IInv, TypeOK, PcRegister, PtraceOK, TrapLen, RetAddrs, Addrs
  <2>2. PtraceOK(t) => off[t] - TrapLen = 0  BY DEF IInv, TypeOK, PcRegister, PtraceOK, TrapLen, RetAddrs, Addrs
  <2>3. ret_addr' \in [Threads -> RetAddrs]  BY <2>1 DEF IInv, TypeOK, Pcs, ParkedPcs, OnlyMainPcs, TurnPcs, PtraceOK
  <2>4. regs' \in [Threads -> -1..1]  BY <2>2 DEF IInv, TypeOK, Pcs, ParkedPcs, OnlyMainPcs, TurnPcs, PtraceOK
  <2>5. pc' \in [Threads -> Pcs] /\ st' \in [Threads -> {"unborn", "run", "stop", "dead"}]
          /\ traced' \in [Threads -> BOOLEAN]  BY DEF IInv, TypeOK, Pcs, ParkedPcs, OnlyMainPcs, TurnPcs, PtraceOK
  <2> QED  BY <2>3, <2>4, <2>5 DEF IInv, TypeOK
<1>3. Roles'
  BY DEF IInv, Roles, TypeOK, OnlyMainPcs, Pcs, RetAddrs, Addrs, Instructions,
      TurnPcs, ParkedPcs
<1>4. TurnOwned'
  BY DEF IInv, TurnOwned, TypeOK, TurnPcs, Pcs, RetAddrs, Addrs, Instructions,
      OnlyMainPcs, ParkedPcs
<1>5. Counted'
  BY DEF IInv, Counted, TypeOK, Parked, ParkedPcs, Pcs, RetAddrs, Addrs,
      Instructions, OnlyMainPcs, TurnPcs
<1>6. Barrier'
  BY DEF IInv, Barrier, Roles, TypeOK, ParkedPcs, OnlyMainPcs, Pcs, RetAddrs, Addrs,
      Instructions, TurnPcs
<1>7. TrapGone'
  BY DEF IInv, TrapGone, TypeOK, Roles, TextShape, StopLast, Untrapped, PtraceOK,
      LatePcs, TurnPcs, ParkedPcs, RetAddrs, Addrs, Pcs, Instructions, OnlyMainPcs,
      Alive
<1>8. StopLast'
  BY DEF IInv, StopLast, TypeOK, Roles, PcRegister, TrapGone, Alive, Pcs, RetAddrs,
      Addrs, Instructions, OnlyMainPcs, TurnPcs, ParkedPcs, PtraceOK, TrapLen,
      Untrapped, LatePcs
<1>9. Attached'
  BY DEF IInv, Attached, TypeOK, Roles, StopLast, HeldPcs, ParkedPcs, PtraceOK, Pcs,
      RetAddrs, Addrs, Instructions, OnlyMainPcs, TurnPcs, Alive
<1>10. PcRegister'
  BY DEF IInv, PcRegister, TypeOK, Roles, StopLast, TrapGone, PtraceOK, TrapLen,
      Pcs, RetAddrs, Addrs, Instructions, OnlyMainPcs, TurnPcs, ParkedPcs, Alive,
      Untrapped, LatePcs
<1>11. Turns'
  BY DEF IInv, Turns, TypeOK, TurnOwned, TextShape, TrapGone, StopLast, PcRegister,
      NoneFailed, PtraceOK, Alive, AtMigrationPoint, RetAddrs, ParkedPcs, TurnPcs,
      Pcs, Addrs, Instructions, OnlyMainPcs, Untrapped, LatePcs, TrapLen
<1> QED  BY <1>1, <1>2, <1>3, <1>4, <1>5, <1>6, <1>7, <1>8, <1>9, <1>10, <1>11, Zenon DEF IInv

\* remove_trap() preserves the invariant: the main thread is at the trap.
LEMMA RemoveTrapInv ==
    ASSUME IInv, NEW t \in Threads, RemoveTrap(t)
    PROVE  IInv'
<1> USE DEF RemoveTrap, Goto
<1>1. TypeOK'
  BY DEF IInv, TypeOK, Pcs, RetAddrs, Addrs, Instructions, OnlyMainPcs, TurnPcs,
      ParkedPcs
<1>2. Roles'
  BY DEF IInv, Roles, TypeOK, OnlyMainPcs, Pcs, RetAddrs, Addrs, Instructions,
      TurnPcs, ParkedPcs
<1>3. TurnOwned'
  BY DEF IInv, TurnOwned, TypeOK, TurnPcs, Pcs, RetAddrs, Addrs, Instructions,
      OnlyMainPcs, ParkedPcs
<1>4. Counted'
  BY DEF IInv, Counted, TypeOK, Parked, ParkedPcs, Pcs, RetAddrs, Addrs,
      Instructions, OnlyMainPcs, TurnPcs
<1>5. Barrier'
  BY DEF IInv, Barrier, Roles, TypeOK, ParkedPcs, OnlyMainPcs, Pcs, RetAddrs, Addrs,
      Instructions, TurnPcs
<1>6. TextShape'
  BY DEF IInv, TextShape, TypeOK, TrapGone, Roles, RetAddrs, Addrs, Pcs,
      Instructions, OnlyMainPcs, TurnPcs, ParkedPcs, Untrapped, PtraceOK, LatePcs
<1>7. TrapGone'
  BY DEF IInv, TrapGone, TypeOK, Roles, TextShape, StopLast, Untrapped, PtraceOK,
      LatePcs, TurnPcs, ParkedPcs, RetAddrs, Addrs, Pcs, Instructions, OnlyMainPcs,
      Alive
<1>8. StopLast'
  BY DEF IInv, StopLast, TypeOK, Roles, PcRegister, TrapGone, Alive, Pcs, RetAddrs,
      Addrs, Instructions, OnlyMainPcs, TurnPcs, ParkedPcs, PtraceOK, TrapLen,
      Untrapped, LatePcs
<1>9. Attached'
  BY DEF IInv, Attached, TypeOK, Roles, StopLast, HeldPcs, ParkedPcs, PtraceOK, Pcs,
      RetAddrs, Addrs, Instructions, OnlyMainPcs, TurnPcs, Alive
<1>10. PcRegister'
  BY DEF IInv, PcRegister, TypeOK, Roles, StopLast, TrapGone, PtraceOK, TrapLen,
      Pcs, RetAddrs, Addrs, Instructions, OnlyMainPcs, TurnPcs, ParkedPcs, Alive,
      Untrapped, LatePcs
<1>11. Turns'
  BY DEF IInv, Turns, TypeOK, TurnOwned, TextShape, TrapGone, StopLast, PcRegister,
      NoneFailed, PtraceOK, Alive, AtMigrationPoint, RetAddrs, ParkedPcs, TurnPcs,
      Pcs, Addrs, Instructions, OnlyMainPcs, Untrapped, LatePcs, TrapLen
<1> QED  BY <1>1, <1>2, <1>3, <1>4, <1>5, <1>6, <1>7, <1>8, <1>9, <1>10, <1>11, Zenon DEF IInv

\* Resetting __indicator preserves the invariant.
LEMMA RestoreIndicatorInv ==
    ASSUME IInv, NEW t \in Threads, RestoreIndicator(t)
    PROVE  IInv'
<1> USE DEF RestoreIndicator, RestoreIndicatorTo, Goto, Return
<1>1. TextShape'
  BY DEF IInv, TextShape
<1>2. TypeOK'
  BY DEF IInv, TypeOK, Pcs, RetAddrs, Addrs, Instructions, OnlyMainPcs, TurnPcs,
      ParkedPcs
<1>3. Roles'
  BY DEF IInv, Roles, TypeOK, OnlyMainPcs, Pcs, RetAddrs, Addrs, Instructions,
      TurnPcs, ParkedPcs
<1>4. TurnOwned'
  BY DEF IInv, TurnOwned, TypeOK, TurnPcs, Pcs, RetAddrs, Addrs, Instructions,
      OnlyMainPcs, ParkedPcs
<1>5. Counted'
  BY DEF IInv, Counted, TypeOK, Parked, ParkedPcs, Pcs, RetAddrs, Addrs,
      Instructions, OnlyMainPcs, TurnPcs
<1>6. Barrier'
  BY DEF IInv, Barrier, Roles, TypeOK, ParkedPcs, OnlyMainPcs, Pcs, RetAddrs, Addrs,
      Instructions, TurnPcs
<1>7. TrapGone'
  BY DEF IInv, TrapGone, TypeOK, Roles, TextShape, StopLast, Untrapped, PtraceOK,
      LatePcs, TurnPcs, ParkedPcs, RetAddrs, Addrs, Pcs, Instructions, OnlyMainPcs,
      Alive
<1>8. StopLast'
  BY DEF IInv, StopLast, TypeOK, Roles, PcRegister, TrapGone, Alive, Pcs, RetAddrs,
      Addrs, Instructions, OnlyMainPcs, TurnPcs, ParkedPcs, PtraceOK, TrapLen,
      Untrapped, LatePcs
<1>9. Attached'
  BY DEF IInv, Attached, TypeOK, Roles, StopLast, HeldPcs, ParkedPcs, PtraceOK, Pcs,
      RetAddrs, Addrs, Instructions, OnlyMainPcs, TurnPcs, Alive
<1>10. PcRegister'
  BY DEF IInv, PcRegister, TypeOK, Roles, StopLast, TrapGone, PtraceOK, TrapLen,
      Pcs, RetAddrs, Addrs, Instructions, OnlyMainPcs, TurnPcs, ParkedPcs, Alive,
      Untrapped, LatePcs
<1>11. Turns'
  BY DEF IInv, Turns, TypeOK, TurnOwned, TextShape, TrapGone, StopLast, PcRegister,
      NoneFailed, PtraceOK, Alive, AtMigrationPoint, RetAddrs, ParkedPcs, TurnPcs,
      Pcs, Addrs, Instructions, OnlyMainPcs, Untrapped, LatePcs, TrapLen
<1> QED  BY <1>1, <1>2, <1>3, <1>4, <1>5, <1>6, <1>7, <1>8, <1>9, <1>10, <1>11, Zenon DEF IInv

\* Raising the flag preserves the invariant: the trap is gone by then.
LEMMA SetFlagInv ==
    ASSUME IInv, NEW t \in Threads, SetFlag(t)
    PROVE  IInv'
<1> USE DEF SetFlag, Goto
<1>1. TextShape'
  BY DEF IInv, TextShape
<1>2. TypeOK'
  BY DEF IInv, TypeOK, Pcs, RetAddrs, Addrs, Instructions, OnlyMainPcs, TurnPcs,
      ParkedPcs
<1>3. Roles'
  BY DEF IInv, Roles, TypeOK, OnlyMainPcs, Pcs, RetAddrs, Addrs, Instructions,
      TurnPcs, ParkedPcs
<1>4. TurnOwned'
  BY DEF IInv, TurnOwned, TypeOK, TurnPcs, Pcs, RetAddrs, Addrs, Instructions,
      OnlyMainPcs, ParkedPcs
<1>5. Counted'
  BY DEF IInv, Counted, TypeOK, Parked, ParkedPcs, Pcs, RetAddrs, Addrs,
      Instructions, OnlyMainPcs, TurnPcs
<1>6. Barrier'
  BY DEF IInv, Barrier, Roles, TypeOK, ParkedPcs, OnlyMainPcs, Pcs, RetAddrs, Addrs,
      Instructions, TurnPcs
<1>7. TrapGone'
  BY DEF IInv, TrapGone, TypeOK, Roles, TextShape, StopLast, Untrapped, PtraceOK,
      LatePcs, TurnPcs, ParkedPcs, RetAddrs, Addrs, Pcs, Instructions, OnlyMainPcs,
      Alive
<1>8. StopLast'
  BY DEF IInv, StopLast, TypeOK, Roles, PcRegister, TrapGone, Alive, Pcs, RetAddrs,
      Addrs, Instructions, OnlyMainPcs, TurnPcs, ParkedPcs, PtraceOK, TrapLen,
      Untrapped, LatePcs
<1>9. Attached'
  BY DEF IInv, Attached, TypeOK, Roles, StopLast, HeldPcs, ParkedPcs, PtraceOK, Pcs,
      RetAddrs, Addrs, Instructions, OnlyMainPcs, TurnPcs, Alive
<1>10. PcRegister'
  BY DEF IInv, PcRegister, TypeOK, Roles, StopLast, TrapGone, PtraceOK, TrapLen,
      Pcs, RetAddrs, Addrs, Instructions, OnlyMainPcs, TurnPcs, ParkedPcs, Alive,
      Untrapped, LatePcs
<1>11. Turns'
  BY DEF IInv, Turns, TypeOK, TurnOwned, TextShape, TrapGone, StopLast, PcRegister,
      NoneFailed, PtraceOK, Alive, AtMigrationPoint, RetAddrs, ParkedPcs, TurnPcs,
      Pcs, Addrs, Instructions, OnlyMainPcs, Untrapped, LatePcs, TrapLen
<1> QED  BY <1>1, <1>2, <1>3, <1>4, <1>5, <1>6, <1>7, <1>8, <1>9, <1>10, <1>11, Zenon DEF IInv

\* Leaving the flag loop preserves the invariant.
LEMMA WaitFlagInv ==
    ASSUME IInv, NEW t \in Threads, WaitFlag(t)
    PROVE  IInv'
<1> USE DEF WaitFlag, Goto
<1>1. TextShape'
  BY DEF IInv, TextShape
<1>2. TypeOK'
  BY DEF IInv, TypeOK, Pcs, RetAddrs, Addrs, Instructions, OnlyMainPcs, TurnPcs,
      ParkedPcs
<1>3. Roles'
  BY DEF IInv, Roles, TypeOK, OnlyMainPcs, Pcs, RetAddrs, Addrs, Instructions,
      TurnPcs, ParkedPcs
<1>4. TurnOwned'
  BY DEF IInv, TurnOwned, TypeOK, TurnPcs, Pcs, RetAddrs, Addrs, Instructions,
      OnlyMainPcs, ParkedPcs
<1>5. Counted'
  BY DEF IInv, Counted, TypeOK, Parked, ParkedPcs, Pcs, RetAddrs, Addrs,
      Instructions, OnlyMainPcs, TurnPcs
<1>6. Barrier'
  BY DEF IInv, Barrier, Roles, TypeOK, ParkedPcs, OnlyMainPcs, Pcs, RetAddrs, Addrs,
      Instructions, TurnPcs
<1>7. TrapGone'
  BY DEF IInv, TrapGone, TypeOK, Roles, TextShape, StopLast, Untrapped, PtraceOK,
      LatePcs, TurnPcs, ParkedPcs, RetAddrs, Addrs, Pcs, Instructions, OnlyMainPcs,
      Alive
<1>8. StopLast'
  BY DEF IInv, StopLast, TypeOK, Roles, PcRegister, TrapGone, Alive, Pcs, RetAddrs,
      Addrs, Instructions, OnlyMainPcs, TurnPcs, ParkedPcs, PtraceOK, TrapLen,
      Untrapped, LatePcs
<1>9. Attached'
  BY DEF IInv, Attached, TypeOK, Roles, StopLast, HeldPcs, ParkedPcs, PtraceOK, Pcs,
      RetAddrs, Addrs, Instructions, OnlyMainPcs, TurnPcs, Alive
<1>10. PcRegister'
  BY DEF IInv, PcRegister, TypeOK, Roles, StopLast, TrapGone, PtraceOK, TrapLen,
      Pcs, RetAddrs, Addrs, Instructions, OnlyMainPcs, TurnPcs, ParkedPcs, Alive,
      Untrapped, LatePcs
<1>11. Turns'
  BY DEF IInv, Turns, TypeOK, TurnOwned, TextShape, TrapGone, StopLast, PcRegister,
      NoneFailed, PtraceOK, Alive, AtMigrationPoint, RetAddrs, ParkedPcs, TurnPcs,
      Pcs, Addrs, Instructions, OnlyMainPcs, Untrapped, LatePcs, TrapLen
<1> QED  BY <1>1, <1>2, <1>3, <1>4, <1>5, <1>6, <1>7, <1>8, <1>9, <1>10, <1>11, Zenon DEF IInv

\* set_regs() preserves the invariant: the pc is back on the trap.
LEMMA SetRegsInv ==
    ASSUME IInv, NEW t \in Threads, SetRegs(t)
    PROVE  IInv'
<1> USE DEF SetRegs, Goto, Return
<1>1. TextShape'
  BY DEF IInv, TextShape
<1>2. TypeOK'
  <2>1. off' \in [Threads -> -1..1]  BY DEF IInv, TypeOK, Pcs, ParkedPcs, OnlyMainPcs, TurnPcs, PtraceOK
  <2>2. pc' \in [Threads -> Pcs] /\ st' \in [Threads -> {"unborn", "run", "stop", "dead"}]
          /\ traced' \in [Threads -> BOOLEAN]  BY DEF IInv, TypeOK, Pcs, ParkedPcs, OnlyMainPcs, TurnPcs, PtraceOK
  <2> QED  BY <2>1, <2>2 DEF IInv, TypeOK
<1>3. Roles'
  BY DEF IInv, Roles, TypeOK, OnlyMainPcs, Pcs, RetAddrs, Addrs, Instructions,
      TurnPcs, ParkedPcs
<1>4. TurnOwned'
  BY DEF IInv, TurnOwned, TypeOK, TurnPcs, Pcs, RetAddrs, Addrs, Instructions,
      OnlyMainPcs, ParkedPcs
<1>5. Counted'
  BY DEF IInv, Counted, TypeOK, Parked, ParkedPcs, Pcs, RetAddrs, Addrs,
      Instructions, OnlyMainPcs, TurnPcs
<1>6. Barrier'
  BY DEF IInv, Barrier, Roles, TypeOK, ParkedPcs, OnlyMainPcs, Pcs, RetAddrs, Addrs,
      Instructions, TurnPcs
<1>7. TrapGone'
  BY DEF IInv, TrapGone, TypeOK, Roles, TextShape, StopLast, Untrapped, PtraceOK,
      LatePcs, TurnPcs, ParkedPcs, RetAddrs, Addrs, Pcs, Instructions, OnlyMainPcs,
      Alive
<1>8. StopLast'
  BY DEF IInv, StopLast, TypeOK, Roles, PcRegister, TrapGone, Alive, Pcs, RetAddrs,
      Addrs, Instructions, OnlyMainPcs, TurnPcs, ParkedPcs, PtraceOK, TrapLen,
      Untrapped, LatePcs
<1>9. Attached'
  BY DEF IInv, Attached, TypeOK, Roles, StopLast, HeldPcs, ParkedPcs, PtraceOK, Pcs,
      RetAddrs, Addrs, Instructions, OnlyMainPcs, TurnPcs, Alive
<1>10. PcRegister'
  BY DEF IInv, PcRegister, TypeOK, Roles, StopLast, TrapGone, PtraceOK, TrapLen,
      Pcs, RetAddrs, Addrs, Instructions, OnlyMainPcs, TurnPcs, ParkedPcs, Alive,
      Untrapped, LatePcs
<1>11. Turns'
  BY DEF IInv, Turns, TypeOK, TurnOwned, TextShape, TrapGone, StopLast, PcRegister,
      NoneFailed, PtraceOK, Alive, AtMigrationPoint, RetAddrs, ParkedPcs, TurnPcs,
      Pcs, Addrs, Instructions, OnlyMainPcs, Untrapped, LatePcs, TrapLen
<1> QED  BY <1>1, <1>2, <1>3, <1>4, <1>5, <1>6, <1>7, <1>8, <1>9, <1>10, <1>11, Zenon DEF IInv

\* Locking the mutex preserves the invariant.
LEMMA TakeTurnInv ==
    ASSUME IInv, NEW t \in Threads, TakeTurn(t)
    PROVE  IInv'
<1> USE DEF TakeTurn, TakeTurnWhen, Goto
<1>1. TextShape'
  BY DEF IInv, TextShape
<1>2. TypeOK'
  BY DEF IInv, TypeOK, Pcs, RetAddrs, Addrs, Instructions, OnlyMainPcs, TurnPcs,
      ParkedPcs
<1>3. Roles'
  BY DEF IInv, Roles, TypeOK, OnlyMainPcs, Pcs, RetAddrs, Addrs, Instructions,
      TurnPcs, ParkedPcs
<1>4. TurnOwned'
  BY DEF IInv, TurnOwned, TypeOK, TurnPcs, Pcs, RetAddrs, Addrs, Instructions,
      OnlyMainPcs, ParkedPcs
<1>5. Counted'
  BY DEF IInv, Counted, TypeOK, Parked, ParkedPcs, Pcs, RetAddrs, Addrs,
      Instructions, OnlyMainPcs, TurnPcs
<1>6. Barrier'
  BY DEF IInv, Barrier, Roles, TypeOK, ParkedPcs, OnlyMainPcs, Pcs, RetAddrs, Addrs,
      Instructions, TurnPcs
<1>7. TrapGone'
  BY DEF IInv, TrapGone, TypeOK, Roles, TextShape, StopLast, Untrapped, PtraceOK,
      LatePcs, TurnPcs, ParkedPcs, RetAddrs, Addrs, Pcs, Instructions, OnlyMainPcs,
      Alive
<1>8. StopLast'
  BY DEF IInv, StopLast, TypeOK, Roles, PcRegister, TrapGone, Alive, Pcs, RetAddrs,
      Addrs, Instructions, OnlyMainPcs, TurnPcs, ParkedPcs, PtraceOK, TrapLen,
      Untrapped, LatePcs
<1>9. Attached'
  BY DEF IInv, Attached, TypeOK, Roles, StopLast, HeldPcs, ParkedPcs, PtraceOK, Pcs,
      RetAddrs, Addrs, Instructions, OnlyMainPcs, TurnPcs, Alive
<1>10. PcRegister'
  BY DEF IInv, PcRegister, TypeOK, Roles, StopLast, TrapGone, PtraceOK, TrapLen,
      Pcs, RetAddrs, Addrs, Instructions, OnlyMainPcs, TurnPcs, ParkedPcs, Alive,
      Untrapped, LatePcs
<1>11. Turns'
  BY DEF IInv, Turns, TypeOK, TurnOwned, TextShape, TrapGone, StopLast, PcRegister,
      NoneFailed, PtraceOK, Alive, AtMigrationPoint, RetAddrs, ParkedPcs, TurnPcs,
      Pcs, Addrs, Instructions, OnlyMainPcs, Untrapped, LatePcs, TrapLen
<1> QED  BY <1>1, <1>2, <1>3, <1>4, <1>5, <1>6, <1>7, <1>8, <1>9, <1>10, <1>11, Zenon DEF IInv
=============================================================================
