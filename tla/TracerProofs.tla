---------------------------- MODULE TracerProofs ----------------------------
(***************************************************************************)
(* What is proved of tracer.c: IInv is an invariant, what follows from it, and*)
(* that tracer.c implements Quiesce. The constants are arbitrary but for TracerAssumption.*)
(***************************************************************************)
EXTENDS TracerStartProofs, TracerTurnProofs

USE TracerAssumption DEF vars, tracerVars, traceeVars, mainVars, shared, locals,
    place, process


-----------------------------------------------------------------------------
\* The initial state satisfies the invariant.
LEMMA InitInv == Init => IInv
<1> SUFFICES ASSUME Init PROVE IInv  OBVIOUS
<1> USE DEF Init
<1>1. TypeOK
  <2>1. text \in [Addrs -> Instructions]  BY DEF Instructions
  <2>2. pc \in [Threads -> Pcs] /\ data \in [Threads -> Instructions]
    BY DEF Pcs, Instructions
  <2>3. st \in [Threads -> {"unborn", "run", "stop", "dead"}]
    <3>1. st \in [Threads -> {"run", "unborn"}]  OBVIOUS
    <3> QED  BY <3>1
  <2>4. ret_addr \in [Threads -> RetAddrs] /\ site \in [Threads -> RetAddrs]  BY DEF RetAddrs
  <2>5. regs \in [Threads -> -1..1] /\ off \in [Threads -> -1..1]  OBVIOUS
  <2>6. at \in [Threads -> Addrs \cup {"user"}] /\ traced \in [Threads -> BOOLEAN]  OBVIOUS
  <2>7. listed \in SUBSET Threads /\ lock \in Threads \cup {None} /\ sigstop \in BOOLEAN
    OBVIOUS
  <2>8. flag \in {0, 1} /\ trace_done \in Nat /\ indicator \in {-1, 1}
          /\ mainpc \in {"list", "spawn", "join", "exit"}  OBVIOUS
  <2> QED  BY <2>1, <2>2, <2>3, <2>4, <2>5, <2>6, <2>7, <2>8 DEF TypeOK
<1>2. Roles /\ TurnOwned /\ Barrier /\ TextShape
  BY DEF Roles, TurnOwned, Barrier, TextShape, OnlyMainPcs, TurnPcs, ParkedPcs, RetAddrs, Addrs
<1>3. Counted
  <2>1. Parked = {}  BY DEF Parked, ParkedPcs
  <2> QED  BY <2>1, FS_EmptySet DEF Counted
<1>4. TrapGone
  BY DEF TrapGone, LatePcs, TurnPcs, ParkedPcs, RetAddrs, Addrs
<1>5. StopLast /\ Attached /\ PcRegister /\ Turns
  BY DEF StopLast, Attached, PcRegister, Turns, Alive, HeldPcs, ParkedPcs, RetAddrs, Addrs, PtraceOK
<1> QED  BY <1>1, <1>2, <1>3, <1>4, <1>5, Zenon DEF IInv

\* Every step preserves it, one lemma per action.
LEMMA NextInv == IInv /\ [Next]_vars => IInv'
<1> SUFFICES ASSUME IInv, [Next]_vars PROVE IInv'  OBVIOUS
<1>1. CASE MainSteps
  BY <1>1, ListThreadsInv, SymbolErrorInv, SpawnTracersInv, JoinTracersInv, Zenon DEF MainSteps
<1>2. ASSUME NEW t \in Threads, FreeSteps(t) PROVE IInv'
  BY <1>2, AttachInv, WaitAttachInv, PokeIndicatorInv, SeizeInv, WaitTrapInv, RemoveTrapInv,
     RestoreIndicatorInv, SetRegsInv, SetBreakpointInv, ContInv, FinishTurnInv, LoseTurnInv,
     SuspendInv, Zenon DEF FreeSteps
<1>3. ASSUME NEW t \in Threads, LockSteps(t) PROVE IInv'
  BY <1>3, SetFlagInv, WaitFlagInv, TakeTurnInv, WaitDoneInv, WaitSuspendInv, ClearFlagInv,
     Zenon DEF LockSteps
<1>4. ASSUME NEW t \in Threads, TraceeSteps(t) PROVE IInv'
  BY <1>4, CallCheckMigrateInv, ReturnToCallerInv, ExecuteInv, GroupStopInv,
     Zenon DEF TraceeSteps
<1>5. CASE EnvSteps
  BY <1>5, SpawnThreadInv, ExitThreadInv, KillInv, Zenon DEF EnvSteps
<1>6. CASE UNCHANGED vars
  BY <1>6 DEF IInv, TypeOK, Roles, TurnOwned, Counted, Parked, Barrier, TextShape, TrapGone,
     StopLast, Attached, PcRegister, Turns, Untrapped, PtraceOK, Alive, NoneFailed,
     AtMigrationPoint
<1> QED  BY <1>1, <1>2, <1>3, <1>4, <1>5, <1>6, Zenon DEF Next

\* The invariant of trace_thread() holds in every reachable state, for any
\* number of threads, return addresses and faults, on both architectures.
THEOREM Invariance == Spec => []IInv
<1>1. Init => IInv  BY InitInv
<1>2. IInv /\ [Next]_vars => IInv'  BY NextInv
<1> QED  BY <1>1, <1>2, PTL DEF Spec

\* Every variable keeps its type; in particular the pc register of a tracee is
\* never more than one byte away from an address the tracer knows.
THEOREM TypeCorrect == Spec => []TypeOK
<1>1. IInv => TypeOK  BY Zenon DEF IInv
<1> QED  BY <1>1, Invariance, PTL

\* Once the process is suspended every listed thread is parked.
LEMMA SuspendedParked ==
    ASSUME IInv, sigstop
    PROVE  NoneFailed /\ \A t \in listed : pc[t] \in ParkedPcs
<1>1. pc[Main] \in ParkedPcs \ {"wait_done"}  BY DEF IInv, StopLast, ParkedPcs
<1>2. \A t \in listed : pc[t] \in ParkedPcs  BY <1>1 DEF IInv, Barrier
<1>3. NoneFailed  BY <1>2 DEF IInv, Roles, NoneFailed, ParkedPcs
<1> QED  BY <1>2, <1>3

\* The process tracer.c suspends rests at migration points with its code and
\* __indicator as the dump has to see them.
THEOREM SuspendIsClean == Spec => []SuspendClean
<1>1. IInv => SuspendClean
  <2> SUFFICES ASSUME IInv, sigstop, Alive
               PROVE  /\ \A t \in listed : AtMigrationPoint(t)
                      /\ \A a \in RetAddrs : text[a] = "ORIG"
                      /\ text[TrapAddr] = "NOP"
                      /\ indicator = -1
    BY DEF SuspendClean
  <2>1. NoneFailed /\ \A t \in listed : pc[t] \in ParkedPcs  BY SuspendedParked
  <2>2. \A t \in listed : AtMigrationPoint(t)  BY <2>1 DEF IInv, TypeOK, Turns
  <2>3. \A a \in RetAddrs : text[a] # "BRK"
    BY <2>1 DEF IInv, TypeOK, Turns, Roles, ParkedPcs
  <2>4. \A a \in RetAddrs : text[a] = "ORIG"  BY <2>3 DEF IInv, TextShape
  <2>5. pc[Main] \in LatePcs  BY DEF IInv, StopLast, LatePcs, ParkedPcs
  <2>6. Untrapped  BY <2>5 DEF IInv, TrapGone
  <2> QED  BY <2>2, <2>4, <2>6 DEF Untrapped
<1> QED  BY <1>1, Invariance, PTL

\* What a turn saves before it writes its breakpoint is the program's own
\* instruction.
THEOREM SavedOriginal == Spec => []SavedIsOriginal
<1>1. IInv => SavedIsOriginal  BY DEF IInv, Turns, SavedIsOriginal
<1> QED  BY <1>1, Invariance, PTL

-----------------------------------------------------------------------------
\* A thread is dead for good.
LEMMA DeadStays ==
    ASSUME IInv, Next, NEW u \in Threads, st[u] = "dead"
    PROVE  st'[u] = "dead"
<1>1. CASE MainSteps
  BY <1>1 DEF MainSteps, ListThreads, SymbolError, SpawnTracers, JoinTracers
<1>2. ASSUME NEW t \in Threads, FreeSteps(t) PROVE st'[u] = "dead"
  BY <1>2 DEF FreeSteps, Attach, WaitAttach, PokeIndicator, Seize, WaitTrap, RemoveTrap,
     RestoreIndicator, RestoreIndicatorTo, SetRegs, SetBreakpoint, Cont, FinishTurn, EndTurn,
     LoseTurn, Suspend, Return, PtraceOK, IInv, TypeOK
<1>3. ASSUME NEW t \in Threads, LockSteps(t) PROVE st'[u] = "dead"
  BY <1>3 DEF LockSteps, SetFlag, WaitFlag, TakeTurn, TakeTurnWhen, WaitDone, WaitDoneFor,
     WaitSuspend, LeaveWhen, ClearFlag, Return, PtraceOK, IInv, TypeOK
<1>4. ASSUME NEW t \in Threads, TraceeSteps(t) PROVE st'[u] = "dead"
  BY <1>4 DEF TraceeSteps, CallCheckMigrate, ReturnToCaller, Execute, Trap, GroupStop, Runs,
     IInv, TypeOK
<1>5. CASE EnvSteps
  BY <1>5 DEF EnvSteps, Kill, SpawnThread, ExitThread, IInv, TypeOK
<1> QED  BY <1>1, <1>2, <1>3, <1>4, <1>5, Zenon DEF Next

\* What a parked tracee keeps as long as it lives.
Unmoved(u) ==
    /\ pc'[u] \in ParkedPcs
    /\ ret_addr'[u] = ret_addr[u]
    /\ st'[u] # "dead" => st'[u] = st[u] /\ at'[u] = at[u] /\ off'[u] = off[u]

\* A parked tracee keeps its place, whatever step is taken.
LEMMA ParkedStays ==
    ASSUME IInv, Next, NEW u \in Threads, pc[u] \in ParkedPcs
    PROVE  Unmoved(u)
<1> USE DEF Unmoved
<1>1. CASE MainSteps
  BY <1>1 DEF MainSteps, ListThreads, SymbolError, SpawnTracers, JoinTracers, IInv, Roles,
     ParkedPcs
<1>2. ASSUME NEW t \in Threads, FreeSteps(t) PROVE Unmoved(u)
  <2>1. CASE Attach(t) \/ WaitAttach(t) \/ PokeIndicator(t) \/ Seize(t)
    BY <2>1 DEF Attach, WaitAttach, PokeIndicator, Seize, Goto, Return, IInv, TypeOK, ParkedPcs
  <2>2. CASE WaitTrap(t) \/ RemoveTrap(t) \/ RestoreIndicator(t) \/ SetRegs(t)
    BY <2>2 DEF WaitTrap, RemoveTrap, RestoreIndicator, RestoreIndicatorTo, SetRegs, Goto, Return,
       IInv, TypeOK, ParkedPcs
  <2>3. CASE SetBreakpoint(t) \/ Cont(t) \/ FinishTurn(t) \/ LoseTurn(t) \/ Suspend(t)
    BY <2>3 DEF SetBreakpoint, Cont, FinishTurn, EndTurn, LoseTurn, Suspend, Goto, Return,
       IInv, TypeOK, ParkedPcs
  <2> QED  BY <1>2, <2>1, <2>2, <2>3, Zenon DEF FreeSteps
<1>3. ASSUME NEW t \in Threads, LockSteps(t) PROVE Unmoved(u)
  <2>1. CASE SetFlag(t) \/ WaitFlag(t) \/ TakeTurn(t) \/ WaitDone(t)
    BY <2>1 DEF SetFlag, WaitFlag, TakeTurn, TakeTurnWhen, WaitDone, WaitDoneFor, Goto,
       IInv, TypeOK, ParkedPcs
  <2>2. ASSUME WaitSuspend(t) \/ ClearFlag(t) PROVE Unmoved(u)
    <3>1. sigstop \/ ~Alive
      <4>1. CASE ClearFlag(t)
        BY <4>1 DEF ClearFlag, IInv, Roles, StopLast, OnlyMainPcs
      <4>2. CASE WaitSuspend(t)
        <5>1. flag = 0 /\ pc[t] \in LatePcs
          BY <4>2 DEF WaitSuspend, LeaveWhen, LatePcs, ParkedPcs
        <5>2. pc[Main] = "returned"  BY <5>1 DEF IInv, TrapGone
        <5> QED  BY <5>2 DEF IInv, StopLast
      <4> QED  BY <2>2, <4>1, <4>2
    <3>2. ~(PtraceOK(t) /\ ~sigstop)  BY <3>1 DEF IInv, StopLast, PtraceOK
    <3>3. st' = st  BY <2>2, <3>2, Zenon DEF WaitSuspend, LeaveWhen, ClearFlag, Return
    <3>4. pc'[u] \in ParkedPcs
      BY <2>2 DEF WaitSuspend, LeaveWhen, ClearFlag, Return, Goto, IInv, TypeOK, ParkedPcs
    <3> QED  BY <2>2, <3>3, <3>4 DEF WaitSuspend, LeaveWhen, ClearFlag
  <2> QED  BY <1>3, <2>1, <2>2, Zenon DEF LockSteps
<1>4. ASSUME NEW t \in Threads, TraceeSteps(t) PROVE Unmoved(u)
  BY <1>4 DEF TraceeSteps, CallCheckMigrate, ReturnToCaller, Execute, Trap, GroupStop, Runs,
     IInv, TypeOK, Attached
<1>5. CASE EnvSteps
  BY <1>5 DEF EnvSteps, Kill, SpawnThread, ExitThread, Runs, IInv, TypeOK, Attached, Roles,
     ParkedPcs
<1> QED  BY <1>1, <1>2, <1>3, <1>4, <1>5, Zenon DEF Next

\* A tracee at its migration point executes nothing more: the tracer threads
\* wait for the SIGSTOP before they end.
THEOREM NothingEscapes == Spec => NoEscape
<1>1. ASSUME IInv, [Next]_vars, NEW t \in Threads, pc[t] \in ParkedPcs, st'[t] # "dead"
      PROVE  st'[t] = st[t] /\ at'[t] = at[t] /\ off'[t] = off[t]
  <2>1. CASE Next  BY <1>1, <2>1, ParkedStays DEF Unmoved
  <2>2. CASE UNCHANGED vars  BY <2>2
  <2> QED  BY <1>1, <2>1, <2>2
<1>2. IInv /\ [Next]_vars =>
        [\A t \in Threads : pc[t] \in ParkedPcs /\ st'[t] # "dead"
             => st'[t] = st[t] /\ at'[t] = at[t] /\ off'[t] = off[t]]_vars
  BY <1>1
<1> QED  BY <1>2, Invariance, PTL DEF Spec, NoEscape

-----------------------------------------------------------------------------
(***************************************************************************)
(* tracer.c implements Quiesce.                                            *)
(***************************************************************************)

\* Only the end of a turn parks a thread.
LEMMA OnlyTurnsPark ==
    ASSUME IInv, Next, NEW u \in Threads, pc[u] \notin ParkedPcs, ~FinishTurn(u)
    PROVE  pc'[u] \notin ParkedPcs
<1> USE DEF ParkedPcs
<1>1. CASE MainSteps
  BY <1>1 DEF MainSteps, ListThreads, SymbolError, SpawnTracers, JoinTracers
<1>2. ASSUME NEW t \in Threads, FreeSteps(t) PROVE pc'[u] \notin ParkedPcs
  <2>1. CASE FinishTurn(t)
    BY <2>1 DEF FinishTurn, EndTurn, Goto, IInv, TypeOK
  <2>2. CASE Attach(t) \/ WaitAttach(t) \/ PokeIndicator(t) \/ Seize(t) \/ WaitTrap(t)
    BY <2>2 DEF Attach, WaitAttach, PokeIndicator, Seize, WaitTrap, Goto, Return, IInv, TypeOK
  <2>3. CASE RemoveTrap(t) \/ RestoreIndicator(t) \/ SetRegs(t) \/ SetBreakpoint(t)
    BY <2>3 DEF RemoveTrap, RestoreIndicator, RestoreIndicatorTo, SetRegs, SetBreakpoint, Goto,
       Return, IInv, TypeOK
  <2>4. CASE Cont(t) \/ LoseTurn(t) \/ Suspend(t)
    BY <2>4 DEF Cont, LoseTurn, Suspend, Goto, Return, IInv, TypeOK
  <2> QED  BY <1>2, <2>1, <2>2, <2>3, <2>4, Zenon DEF FreeSteps
<1>3. ASSUME NEW t \in Threads, LockSteps(t) PROVE pc'[u] \notin ParkedPcs
  BY <1>3 DEF LockSteps, SetFlag, WaitFlag, TakeTurn, TakeTurnWhen, WaitDone, WaitDoneFor,
     WaitSuspend, LeaveWhen, ClearFlag, Goto, Return, IInv, TypeOK
<1>4. ASSUME NEW t \in Threads, TraceeSteps(t) PROVE pc'[u] \notin ParkedPcs
  BY <1>4 DEF TraceeSteps, CallCheckMigrate, ReturnToCaller, Execute, GroupStop
<1>5. CASE EnvSteps
  BY <1>5 DEF EnvSteps, Kill, SpawnThread, ExitThread
<1> QED  BY <1>1, <1>2, <1>3, <1>4, <1>5, Zenon DEF Next

\* A thread's status changes by its turn or by its death.
LEMMA StatusStep ==
    ASSUME IInv, Next, NEW u \in Threads, ~FinishTurn(u)
    PROVE  Status(u)' \in {Status(u), "gone"}
<1>1. CASE st'[u] = "dead"  BY <1>1 DEF Status
<1>2. CASE st'[u] # "dead"
  <2>1. st[u] # "dead"  BY <1>2, DeadStays
  <2>2. CASE pc[u] \in ParkedPcs
    BY <1>2, <2>1, <2>2, ParkedStays DEF Unmoved, Status, AtMigrationPoint
  <2>3. CASE pc[u] \notin ParkedPcs
    <3>1. pc'[u] \notin ParkedPcs  BY <2>3, OnlyTurnsPark
    <3> QED  BY <1>2, <2>1, <2>3, <3>1 DEF Status
  <2> QED  BY <2>2, <2>3
<1> QED  BY <1>1, <1>2

\* Steps that change neither the listed threads nor the suspension, and end no
\* turn, let some threads go away at most.
LEMMA LeaveStep ==
    ASSUME IInv, Next, UNCHANGED <<listed, sigstop>>, \A u \in Threads : ~FinishTurn(u)
    PROVE  Q!Next
<1> DEFINE gone == {u \in Threads : Status(u)' = "gone"}
<1>1. \A u \in Threads : Status(u)' \in {Status(u), "gone"}  BY StatusStep
<1>2. [t \in Threads |-> Status(t)]'
        = [t \in Threads |-> IF t \in gone THEN "gone" ELSE [u \in Threads |-> Status(u)][t]]
  BY <1>1
<1>3. gone \in SUBSET Threads  OBVIOUS
<1> HIDE DEF gone
<1>4. Q!Leave  BY <1>2, <1>3 DEF Q!Leave
<1> QED  BY <1>4 DEF Q!Next

\* The end of a turn parks its thread, unless a tracer thread has failed.
LEMMA ParkStep ==
    ASSUME IInv, NEW t \in Threads, FinishTurn(t)
    PROVE  Q!Next \/ UNCHANGED Q!vars
<1> DEFINE status == [u \in Threads |-> Status(u)]
<1> USE DEF FinishTurn, EndTurn, Goto
<1>1. UNCHANGED <<listed, sigstop>>  OBVIOUS
<1>2. \A u \in Threads \ {t} : Status(u)' = Status(u)
  BY DEF Status, AtMigrationPoint, IInv, TypeOK
<1>3. Status(t) = "free"  BY DEF Status, ParkedPcs, PtraceOK
<1>4. Status(t)' \in {"free", "parked"}  BY DEF Status, PtraceOK
<1>5. CASE Status(t)' = "free"
  <2>1. status' = status  BY <1>2, <1>3, <1>5
  <2> QED  BY <1>1, <2>1 DEF Q!vars
<1>6. CASE Status(t)' = "parked"
  <2>1. status' = [status EXCEPT ![t] = "parked"]  BY <1>2, <1>6
  <2>2. t \in listed  BY DEF IInv, Roles
  <2>3. ~sigstop  BY <2>2, SuspendedParked DEF ParkedPcs
  <2>4. status[t] = "free"  BY <1>3
  <2>5. Q!Park(t)  BY <1>1, <2>1, <2>2, <2>3, <2>4 DEF Q!Park
  <2> QED  BY <2>5 DEF Q!Next
<1> QED  BY <1>4, <1>5, <1>6

\* The SIGSTOP of a live process is the abstract Suspend.
LEMMA SuspendStep ==
    ASSUME IInv, NEW t \in Threads, Suspend(t)
    PROVE  Q!Next \/ UNCHANGED Q!vars
<1> DEFINE status == [u \in Threads |-> Status(u)]
<1>1. pc[Main] = "suspend"  BY DEF Suspend, IInv, Roles, OnlyMainPcs
<1>2. ~sigstop  BY <1>1 DEF IInv, StopLast
<1>3. UNCHANGED listed  BY DEF Suspend
<1>4. status' = status
  BY DEF Suspend, Goto, Status, AtMigrationPoint, ParkedPcs, IInv, TypeOK
<1>5. CASE ~Alive
  <2>1. sigstop' = sigstop  BY <1>2, <1>5 DEF Suspend, IInv, TypeOK, Alive
  <2> QED  BY <1>3, <1>4, <2>1 DEF Q!vars
<1>6. CASE Alive
  <2>1. \A u \in listed : pc[u] \in ParkedPcs  BY <1>1 DEF IInv, Barrier, ParkedPcs
  <2>2. NoneFailed  BY <2>1 DEF IInv, Roles, NoneFailed, ParkedPcs
  <2>3. \A u \in listed : AtMigrationPoint(u)  BY <1>6, <2>1, <2>2 DEF IInv, TypeOK, Turns
  <2>4. \A u \in listed : status[u] = "parked"
    BY <2>1, <2>3 DEF Status, AtMigrationPoint, IInv, TypeOK
  <2>5. listed # {}  BY <1>1 DEF IInv, Roles
  <2>6. sigstop' = TRUE  BY <1>6 DEF Suspend
  <2> HIDE DEF status
  <2>7. Q!Suspend  BY <1>2, <1>3, <1>4, <2>4, <2>5, <2>6 DEF Q!Suspend, status
  <2> QED  BY <2>7 DEF Q!Next
<1> QED  BY <1>5, <1>6

\* The list of threads is chosen once, while all of them are free.
LEMMA ListStep ==
    ASSUME IInv, ListThreads
    PROVE  Q!Next
<1>1. listed = {}  BY DEF ListThreads, IInv, Roles
<1>2. listed' \in SUBSET Threads  BY DEF ListThreads, Born
<1>3. UNCHANGED <<[u \in Threads |-> Status(u)], sigstop>>
  BY DEF ListThreads, Status, AtMigrationPoint
<1>4. Q!Choose  BY <1>1, <1>2, <1>3 DEF Q!Choose
<1> QED  BY <1>4 DEF Q!Next

\* tracer.c implements Quiesce: initial states are mapped to initial states and
\* every step to a step of the abstract specification or to a stutter.
THEOREM Refinement == Spec => QuiesceSpec
<1>1. Init => Q!Init
  BY DEF Init, Q!Init, Status, AtMigrationPoint, ParkedPcs
<1>2. IInv /\ [Next]_vars => [Q!Next]_(Q!vars)
  <2> SUFFICES ASSUME IInv, [Next]_vars PROVE Q!Next \/ UNCHANGED Q!vars  OBVIOUS
  <2>1. CASE UNCHANGED vars
    BY <2>1 DEF Q!vars, Status, AtMigrationPoint
  <2>2. CASE \E t \in Threads : FinishTurn(t)  BY <2>2, ParkStep
  <2>3. CASE \E t \in Threads : Suspend(t)  BY <2>3, SuspendStep
  <2>4. CASE ListThreads  BY <2>4, ListStep
  <2>5. CASE Next /\ ~ListThreads /\ \A t \in Threads : ~FinishTurn(t) /\ ~Suspend(t)
    <3>1. UNCHANGED <<listed, sigstop>>
      BY <2>5 DEF Next, MainSteps, SymbolError, SpawnTracers, JoinTracers, FreeSteps, Attach,
         WaitAttach, PokeIndicator, Seize, WaitTrap, RemoveTrap, RestoreIndicator,
         RestoreIndicatorTo, SetRegs, SetBreakpoint, Cont, LoseTurn, LockSteps, SetFlag, WaitFlag,
         TakeTurn, TakeTurnWhen, WaitDone, WaitDoneFor, WaitSuspend, LeaveWhen, ClearFlag,
         TraceeSteps, CallCheckMigrate, ReturnToCaller, Execute, GroupStop, EnvSteps, Kill,
         SpawnThread, ExitThread
    <3> QED  BY <2>5, <3>1, LeaveStep
  <2> QED  BY <2>1, <2>2, <2>3, <2>4, <2>5, Zenon
<1> QED  BY <1>1, <1>2, Invariance, PTL DEF Spec, QuiesceSpec, Q!Spec
=============================================================================
