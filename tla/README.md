# A TLA+ model of TransProc

TransProc moves a running native Linux process between x86-64 and aarch64
machines. This directory holds TLA+ models of the programs that do it, the TLC
configurations that check them on small instances, and TLAPS proofs about the
ptrace tools, the conversion of a dump and the shuffling of stack slots.

## The system and its parts

| part | code | model |
|---|---|---|
| tracer: brings every thread of a process to a *migration point* and suspends it | `tools/tracer.c` | `Tracer`, `TracerInv`, `Quiesce` |
| tracer2: breakpoints on all equivalence points of a single-threaded process | `tools/tracer2.c` | `Breakpoint`, `Tracer2` |
| debugger, attach_pid: suspend a process at one address | `tools/debugger.c`, `tools/attach_pid.c` | `Breakpoint`, `Debugger` |
| CRIU dump and restore | `criu-3.15/` (third party) | steps of `Controller`, the dumped pages in `TargetMem` |
| `crit recode`: memory images for the other architecture | `criu-3.15/lib/py/converter.py` | `TargetMem` |
| `crit recode`: files, image cache, core images | `converter.py`, `cli.py` | `Recode`, `Conversion` |
| `crit recode`: stack frames and registers | `st_reg_transform.py`, `definitions.py`, `regops.py`, `reg_*.py` | `StackTransform` |
| `crit ss`: shuffling of stack slots | `stackwalk/`, `codewalk/`, `utils/`, `cli.py` | `StackShuffle` |
| stack maps and ELF sections | `stack_map_utils.py`, `elf_utils.py`, `utils/` | what the others take from them |
| controller client and daemons | `tools/controller_client.py`, `tools/controller_daemon.py` | `Controller`, `Checkpoint` |
| transport to nested hosts, scripts, makefiles | `tools/server_to_qemu.py`, `dump.sh`, ... | no: sequences of I/O commands |

A migration goes through them in this order. A tracer, or the debugger or
attach_pid, suspends the process with SIGSTOP at an address that both binaries
know. CRIU dumps it and kills it. `crit recode` rewrites its images: mappings,
pages, registers and stack. The images are copied to the other host, where CRIU
restores the process, and SIGCONT or attach_pid lets it run. `dump.sh` does
this by hand; the controller client does it by remote calls of a daemon on each
host, working through a list of instructions.

The parts share little state: a suspended process between tracer and CRIU,
image files between CRIU, recode and the copy. So each has a module of its own,
and `Controller` composes them at the level at which the daemon sees them: a
process that is running or stopped, a tool that runs beside it, images that are
whole or not. What `Controller` assumes of a tool is what the tool's module
shows: an attached process is suspended when it reaches the address
(`TrappedAtAddr`). Where the tool does not ensure it (`SuspendsAtAddr`) the
difference is a finding of that module. Likewise `Transform` of `Controller` makes
an output that is whole or not whole and keeps its input, which is what `Recode`
shows (`OutputRight`, `DumpKept`); and `Recode` has one step for what `TargetMem`
does inside the memory images and one per thread for `StackTransform`.

## Modules

### Tracer, TracerInv, Quiesce

`Tracer` models all of `tools/tracer.c`. Each tracee thread has a tracer thread
(`trace_thread()`); `pc[t]` is where the one that drives `t` is. They share
`lock`, `flag` and `trace_done` as in the code; `ret_addr`, `data` and `regs`
are locals. The variables `at`, `off`, `site`, `st`, `traced`, `text`,
`indicator` and `sigstop` are the process and the kernel's view of it, which is
external: where a tracee is, how many bytes its pc is past that address, whether
it runs. Program text is one instruction per address (`ORIG`, `BRK`, `INT3`,
`NOP`), shared by all tracees.

| actions | code |
|---|---|
| `ListThreads`, `SymbolError`, `SpawnTracers`, `JoinTracers` | `main()` |
| `Attach`, `WaitAttach`, `PokeIndicator`, `Seize` | attach; the main thread sets `__indicator` |
| `WaitTrap`, `RemoveTrap`, `RestoreIndicator`, `SetFlag`, `WaitFlag`, `SetRegs` | the compiler placed trap is hit, removed, and left behind |
| `TakeTurn`, `SetBreakpoint`, `Cont`, `FinishTurn`, `LoseTurn` | a turn, under the mutex |
| `WaitDone`, `Suspend`, `ClearFlag`, `WaitSuspend` | the end: SIGSTOP, then the others leave |
| `CallCheckMigrate`, `ReturnToCaller`, `Execute`, `GroupStop` | the tracees |
| `SpawnThread`, `ExitThread`, `Kill` | what the environment does |

A loop "lock; read; unlock; yield" that reads the value it waits for is one
step; its other rounds change nothing. The constant `Faults` says what may go
wrong: a thread exits, the process is killed, ptrace requests are refused, the
executable cannot be read (`SymbolError`), threads are born after the list was made.
A ptrace request for a thread that is not a stopped tracee fails and the code goes
on as it does there. Three things are left out. Signals other than SIGTRAP during a
wait: any stop would be taken for the trap. An executable that lacks `__indicator`
or `check_migrate`: `get_symbol_addr()` then succeeds with uninitialised addresses.
And the bytes behind a breakpoint: `set_breakpoint()` writes a word of eight bytes
that has zeros behind the trap until the turn ends; the other listed threads are
stopped then, so only a thread that the list lacks could run into them.

`Quiesce` is what the tracer promises to the dump: threads are parked one by
one, a parked thread stays where it is, and the process is suspended only when
all of the chosen threads are parked. `TracerInv` has the refinement mapping: a
thread counts as parked by its physical state (stopped, pc exactly on its return
address), not by what its tracer believes.

### Breakpoint, Tracer2, Debugger

`Breakpoint` is program text byte by byte, since PTRACE_POKETEXT writes eight
bytes while a trap instruction has one or four: writing one breakpoint damages
what lies behind it. A damaged instruction faults or does something else.
`Tracer2` follows `main()` of `tools/tracer2.c`: attach, insert a breakpoint at
each equivalence point, continue, wait, remove them first to last, step the pc
back, SIGSTOP. A byte of the program's own is named by its address and differs from
what a breakpoint puts in its place; in a real program the two may be equal. `Debugger` is `run_debugger()` of `debugger.c` and `attach_pid.c`,
which differ in how the process starts and in `continue_running()`. On aarch64
their register requests name no register set and fail; the model has that.

### TargetMem

`transform_target_mem()` step by step: the code mapping takes the target's
bounds, vdso and vvar are removed and added, vsyscall is removed or added, code
pages are overwritten. Addresses are in pages. `vmas`, `pagemap` and `pages` are
the mm, pagemap and pages images; a page's content is the address it had in the
source, so that a displaced page shows. `RemoveRegion`, `AddRegion` are
`remove_region_type()` and `__add_target_region()`, with `orig_size` updated
where the code does (not after a removal). `case` selects the address space that
is converted. `StackEntry`, `StackOffset`, `StackBase` are
`get_stack_page_offset()`. `Init` is the dump as CRIU writes it: any set of pages in use,
adjacent ones merged as CRIU merges them.

### Recode, Conversion

`Recode` is `Converter()` and `recode()`: the images of a dump in one directory are
rewritten into another, step by step in the order of the code (`Plan`, `pc`), the
core images one thread at a time (`todo`). `disk` says of each image which dump it
is of, which architecture it fits, whether its registers are the saved ones or still
zero, its TLS pointer, and, of the pages, whose stacks have been rewritten. `cache`
is `Converter.images` with the objects it refers to: `copy()` of the code is shallow,
so the destination image that is edited *is* the cached source image, and only
`load_image_file(..., fresh=True)` reads the dump again.

| actions | code |
|---|---|
| `Start`, `AssertConditions`, `MakeDest`, `Finish` | `Converter()`, `assert_conditions()`, the beginning of `recode()` |
| `Copy` | the images that are only copied |
| `LoadMem`, `TakePages`, `EditRegions`, `DumpMem` | `transform_target_mem()`, its files |
| `TransformCore`, `TransformFiles`, `StackAndRegs` | the function of that name |
| `Measured` | the steps that the measuring option leaves out |
| `Interrupted` | a kill, a full disk, an exception: the image being written may be torn |

`Conversion` is what a user of `crit recode` relies on: the output is old, partial or
complete, it becomes complete at once, and the memory of the process, which exists
once, is in the source or (when it may be moved) in the output or gone: it goes with an
output that is thrown away (`Begin`), or with a run that is cut short while it edits the
memory it has moved (`Spoil`), which leaves a torn file.

### StackTransform

`transform_stack_and_regs()` for one thread: `unwind_and_size()` walks the source
frames, `rewrite_frame()` fills those of the destination from the innermost on, and
`_fixup_local_pointers()` follows. `src` and `dst` are the stacks byte by byte; a
value is described once, with its place on both sides, and `Layout` is what either
compiler lays out for it, so that the right destination stack has a definition that
does not follow the code.

| actions | code |
|---|---|
| `Unwind`, `UnwindEnds`, `Clear` | `unwind_and_size()` |
| `PutFramePtr`, `RewriteVals`, `PutArchVals` | `rewrite_frame()`: links, live values with their duplicates, values of the destination only |
| `NextFixup`, `FixupVal` | `_fixup_local_pointers()` |
| `NextFrame` | the loop over the frames, and the registers that are copied out |

### StackShuffle

`crit ss` in cells of four bytes. A cell holds the name of the cell its content
came from, so that a value in the wrong place shows. `mem` is the stack in the
dumped pages, `exe` and `criu` are the offsets in the instructions of the executable
and of the dumped code, `maps` those in the stack maps, all edited in place;
`shuffled` is what the code records of the pairs it has exchanged.

| actions | code |
|---|---|
| `NewFunction`, `SwapPair` | `shuffle_frame()`, `get_shuffled_offsets()`, `update_stack_reference()`, `update_code_page()` |
| `UnknownCallee` | `blk_stack_references()` meets a call to a function without a symbol |
| `SeenFunction`, `MoveOne` | `update_frame()`: a function that is on the stack again |
| `NextFrame` | `iterate_frame()` |
| `StackMaps`, `UpdateMap`, `Finish` | `stack_shuffle()` after `shuffle_all()` |

Disassembler and assembler are external: an instruction is the cells it reaches, the
size the code takes it for, the offsets it can be encoded with and whether its page was
dumped. An x86-64 instruction can take an offset that does not make it longer, which
`feasible_code_page()` checks (`Feasible`). For aarch64 that function checks nothing; an
instruction has a set of offsets (`takes`), and the assembler raises for any other.
`SwapPair` then stops where `update_code_page()` stops: the frame and the record are
written, the executable and the dump up to the instruction that was refused (`Rewrite`).

### Controller, Checkpoint

The client (`ci`, `cst`, `pid`) sends one instruction after the other; a call
stays in `calls` until the daemon has done it, also when the client's connection
closes and the client goes on. Subprocesses that nobody waits for
(`make restore`, debugger, attach_pid) are actions of their own. `proc` is the
process on each host with the number of addresses it has come to, `imgs` and
`out` are the working directory and recode's output.

| actions | code |
|---|---|
| `Call`, `Returned`, `Dropped`, `CheckPid` | client: `parse_instruction()` and its calls, `check_pid()` |
| `Run`, `RunAndInfect`, `DumpPoll`, `Dump`, `DumpFails`, `Transform` | daemon: `run`, `run_and_infect`, `dump`, `transform` |
| `CopyStart`, `CopyEnd`, `CopyFails` | daemon: `copy_to_tgt` |
| `RestoreStart`, `RestoreCheck`, `Continue`, `Infect` | daemon: `restore`, `restore_and_infect` |
| `StartProcess`, `CriuRestore`, `SigCont`, `AttachPid`, `ContinueRunning`, `ReachAddr`, `Exit` | subprocesses and the process |

A poll that runs out is a choice to give up, only when there is nothing to find
or, with the fault `slow`, too early. A process starts once. The moment in which
a restored process has its name but CRIU has not stopped it yet is left out.
`Checkpoint` is what a migration promises: one process, in one place, that never
goes back.

## Runs

| run | module, cfg | checks | distinct states |
|---|---|---|---|
| `tracer_safety` | `MCTracer_safety` | `TypeOK`, `SavedIsOriginal`, `SuspendClean`, `IInv`, `NoEscape`, `QuiesceSpec` | 497,956 |
| `tracer_live` | `MCTracer_live` | `TrappedIsSuspended` | 58,518 |
| `tracer_late` | `MCTracer_late` | `AlwaysSuspends`: violated | |
| `tracer2` | `MCTracer2` | `TypeOK`, `BreakpointsRemoved`, `SuspendedAtEqPoint`, `TextInv` | 1,711 |
| `debugger_attach` | `MCDebugger_attach` | `TypeOK`, `TrappedAtAddr` | 1,394 |
| `debugger_race` | `MCDebugger_race` | `SuspendsAtAddr`: violated | |
| `targetmem` | `MCTargetMem` | `TypeOK`, `PagesFollow`, `Mappable`, `SizeCovers`, `StackLocated` | 21,888 |
| `recode` | `MCRecode` | `TypeOK`, `OutputRight`, `DumpKept`, `Completes`, `ConversionSpec` | 11,134 |
| `stack_transform` | `MCStackTransform` | `TypeOK`, `FramesLinked`, `ValuesFollow`, `PointersFollow`, `NothingStale`, `AboveKept`, `Terminates` | 20,125 |
| `stack_shuffle` | `MCStackShuffle` | `TypeOK`, `VariablesKept`, `LiveValuesKept`, `Completes` | 13,627 |
| `controller` | `MCController` | `TypeOK`, `Recoverable`, `CheckpointSpec`, `Arrives` | 96,846 |
| `controller_dump` | `MCController_dump` | `CheckpointSpec`: violated | |

Deadlock is not checked: all of these programs end, and the tracer can wait for
ever (see `tracer_late`). A variable `case`, chosen by `Init`, lets one run check
several instances.

What the passing runs show:

- **Tracer.** When a live process is suspended, all listed threads are exactly
  at their migration points, every breakpoint is gone, the trap is a NOP and
  `__indicator` is -1 (`SuspendClean`), whatever threads do meanwhile. A turn
  never saves another thread's breakpoint as the original instruction although
  tracees share return addresses (`SavedIsOriginal`). A parked tracee never
  moves, because no tracer thread ends before the SIGSTOP (`NoEscape`). Once
  all tracees are trapped the turns come to their end (`TrappedIsSuspended`).
- **Tracer2.** When the breakpoints have been removed, a byte is the program's own
  exactly if no breakpoint had changed it before a later one saved it
  (`BreakpointsRemoved`): all of the text when the equivalence points are a word apart;
  where two calls follow each other, what the first breakpoint put into the word of
  the second stays behind. A process that a breakpoint stopped is suspended on an
  equivalence point in either case.
- **Debugger.** A process that the breakpoint itself stopped is suspended on the
  address with its text restored, also next to instructions that the breakpoint
  word overwrites.
- **TargetMem.** For every set of dumped pages no page changes its address or is
  lost, exactly code and vdso pages are exchanged, CRIU can map the result, and
  the stack pointer is found in the source image and in the shifted target image.
- **Recode.** When a run has ended well, the output is all of this dump and nothing
  of an earlier output, for the target, with the saved registers, TLS pointer and
  stack of every thread, whatever runs came before and wherever they were cut short
  (`OutputRight`). The dump itself stays as it was although its cached objects are
  edited (`DumpKept`); only `--no-transform` takes the pages away, and a second run
  then destroys them, which `Conversion` allows. A run that is not disturbed ends
  well, except for threads other than the leader on the way to aarch64, whose core
  images the code cannot convert (`Completes`).
- **StackTransform.** On the destination the frames are linked, each call returns
  into the destination's code (`FramesLinked`), numbers, arrays and registers have
  their values (`ValuesFollow`), and between them nothing is left of the source frames
  (`NothingStale`). Above the frames no more is lost than the definition `Overlaid`
  describes (`AboveKept`): what larger frames cover, or a second copy of them when nothing
  is transformed. Pointers into the stack lead to the same place
  of the same variable (`PointersFollow`) but for those that the definitions
  `Dropped`, `ToZero` and `Overwritten` describe, which the code gets wrong. It ends
  (`Terminates`) but for `Spins`: a frame that points into itself and has a live
  value that is no alloca.
- **StackShuffle.** In every frame that was passed, each instruction finds what it
  found before, in the executable or in the dumped code, recursion included
  (`VariablesKept`); at the end the stack maps name the new places
  (`LiveValuesKept`), so a shuffled process can still be converted. The command ends with
  everything written (`Completes`) on x86-64 always: what was feasible before the first
  pair was written can still be written when its turn comes. On aarch64 it does if the
  code is `Writable`: callees have symbols and instructions can take every offset that
  they may get. Otherwise an exception leaves the frame at hand half edited, and still
  keeps those that were passed (`VariablesKept`). `Sound` and `Alone` name what a
  function must satisfy for this and no code checks: a name of its own, its code in
  one run of dumped pages, slots that hold one whole variable, and frames that are
  all moved or none; programs that break them are among the instances.
- **Controller.** The process is never lost: there is always a process or a whole
  image of the version it has come to. This holds with failing dumps and closed
  connections, or with failing recodes; a failed recode after a copy that was
  dropped can lose it. Without failing dumps and closed connections a round trip
  is one process that never goes back or splits, and the client comes to an end unless the process ends,
  a recode fails or a restore outlasts the polls.

What the violations show, each against a sentence of the repository
(`findings` in `PROJECT.json`):

- `tracer_late`: the main tracer thread removes the trap as soon as its own
  tracee has hit it. A worker that comes later is never trapped; its tracer waits
  for ever. Hence `TrappedIsSuspended` starts from a state in which all are trapped.
- `debugger_race`: attach_pid's second PTRACE_CONT may come before the stop it is
  meant for; that stop is then taken for the breakpoint.
- `controller_dump`: a process that is restored on x86-64 is still stopped, which the next
  dump takes for the infection; attach_pid attaches meanwhile and criu dump fails. Nobody
  looks at its result: the images with which the process came are sent back, and it runs
  twice.

Also met while modelling and described at their lines in `hazards`: words of
tracer2's breakpoints less than eight bytes apart overlap, and removing them in the
order of insertion writes a part of a breakpoint back; a worker
that hits the trap before it is seized dies with its process; a failing PTRACE_CONT
keeps the mutex; tracer2 steps the pc back four bytes on aarch64, where a brk has
not advanced it; a jump into the word of the debugger's breakpoint suspends the
process elsewhere; a SIGCONT is lost when a
restore outlasts half a second.

## Bounds

- `tracer_safety`: four threads of which MAX_THREADS = 3 are listed. Three tracer
  threads are the main one and two others, which covers what any two of them do to
  each other and a third that waits; all share a return address, the hard case.
  Workers are symmetric. `tracer_live`: three threads, two return addresses, the
  aarch64 build, no symmetry.
- `tracer2`: five points listed out of address order, with neighbours five bytes
  apart in both orders of the list and points that nothing overlaps, which are the ways
  in which two words can meet. `debugger_attach`: short instructions inside the breakpoint's word.
- `targetmem`: mappings of one to three pages in the order in which the two
  architectures have them, any subset of their pages dumped, each optional mapping
  there or not; one case with a mapping where the new vdso should go. A mapping
  that is dumped right behind the vdso, or right below the text, is not among
  them: statically linked binaries have none, and a pagemap entry that spans both
  would be cut as a whole.
- `recode`: one and two threads, both directions and the same architecture, each
  option, an empty and an old output, two runs. Two runs are what it takes for one to
  meet what an interrupted one left; the proofs have any number of both.
- `stack_transform`: two and three frames. Two have, in all six orders, a number that
  may be 0, a pointer to it and a pointer to that pointer, each to its own frame, to
  the outer one or nowhere, with an outer frame as large as the inner one or larger.
  Three have values of every size and kind of location. A third frame adds nothing to
  what one frame does to the next.
- `stack_shuffle`: every stack of up to three frames of four functions or a library,
  which has recursion with something between; near and far offsets, both sizes, one
  variable of two sizes, an array; and programs that break the conditions of `Sound`
  and `Alone`, one by one. Three programs for aarch64: one that can be written, one with an
  instruction that cannot take an offset, one with a callee that has no symbol.
- `controller`, `controller_dump`: the list of `test/config.json`, which dumps, transforms
  and restores on one host, and lists of the instructions that this file defines: one that
  migrates a process to aarch64 and back, and one that then goes to aarch64 again, so that
  images of an older version lie on both hosts.

## Fairness

`tracer_live`: each thread of the tracer is scheduled (weak fairness); a step that
needs the mutex is taken if the mutex is free again and again (strong fairness:
the waiting loops unlock and yield between two attempts); a running tracee
executes, and calls check_migrate again and again, which is what the compiler's
instrumentation is for. `recode`, `stack_transform`, `stack_shuffle`: one sequential
process that waits for nothing goes on (weak fairness of its steps; in `recode` not
of the start of a run nor of interruptions). `controller`: client, daemons and
subprocesses run, and a process comes to the address it is to be stopped at. It is not assumed to end.

## Proofs

TLAPS proves the following for every value of the constants, from named assumptions
that say what constants are: `TracerAssumption`, `BreakpointAssumption`,
`Tracer2Assumption`, `DebuggerAssumption` (finite sets, distinct addresses, words inside
the text), `ThreadsAssumption` (the dump has its leader; a core image has a name of
its own) and `CasesAssumption` (cells of code, stack maps and frames are cells). What a
theorem assumes beyond that stands in its statement.

**tracer.c** (`TracerStartProofs`: actions up to the first turn; `TracerTurnProofs`:
turns, the end and the environment; `TracerProofs`: theorems). `Invariance` shows
`IInv`, from which follow `TypeCorrect`, `SuspendIsClean`, `SavedOriginal`,
`NothingEscapes` and `Refinement` (Tracer implements Quiesce).

`SuspendClean` is not inductive. That all threads rest when SIGSTOP is sent needs
that nobody passes the wait for `trace_done` too early (`Barrier`), which needs
that `trace_done` counts exactly the parked threads (`Counted`). That each rests at
its migration point with the text restored needs that turns exclude each other
(`TurnOwned`) and that only the owner of a turn has a breakpoint in the text
(`Turns`); that a tracee does not run between trap and turn (`Attached`,
`PcRegister`); that the trap is gone before the first turn (`TrapGone`); and that the
SIGSTOP is last (`StopLast`). `Turns` is stated while no tracer thread has given up:
one that loses its tracee leaves its breakpoint behind, and then `trace_done` never
reaches the number of threads, so the process is not suspended.

**tracer2.c** (`Tracer2Proofs`), for any list of points, overlapping or not. `TypeCorrect`,
`TextInvariance` (`TextInv`) and `TextRestored` (`BreakpointsRemoved`). `TextInv` says how
far each loop has come: the word of a point was saved with exactly the changes of the
breakpoints before it (`Saved`), the text has those of all placed so far (`Placed`), and
after some were removed a byte that any of them covers is what the last of these saved,
which is the program's own exactly if every one of them saved it clean (`Removed`).

`StoppedAtPoint` (`SuspendedAtEqPoint`) is for x86-64: `TrapInv` says that traps, in the text and in the words that were saved of it, are only
where an equivalence point is, and a saved word with a neighbour's trap in it keeps
that true. On aarch64 it is false: the pc is stepped back although brk leaves it.

**debugger.c, attach_pid.c** (`DebuggerProofs`). `BreakpointInvariant`, from which follow
`DebuggerTypes` (`TypeOK`) and `StoppedAtAddress` (`TrappedAtAddr`). The invariant says
between which steps the text has the breakpoint, with the original word in `data`, and
that a trapped process is just behind the address until the tool steps it back; it
must cover the second PTRACE_CONT of attach_pid, which may set the process off again.
`Aligned` is assumed for aarch64: no instruction starts inside the one at the address.

**crit recode** (`RecodeProofs`), for any number of threads and of runs.
`RecodeInvariant`, `RecodeTypes`, `RecodeOutput` (`OutputRight`), `RecodeKeepsDump`
(`DumpKept`) and `RecodeImplementsConversion` (`ConversionSpec`). `OutputRight` speaks of
the end only; the invariant says of each step what the output has by then and what it
does not have yet (`PlainOK`, `PagesOK`, `CoresOK`), that the pages are where the options
say (`SourceOK`, `TakenOK`), and of the cached objects until when they are as they were
read (`CoreCache`, `MemCache`, `FilesCache`): the conversion of a core image that was
already edited would go wrong, and it is this part that shallow copies endanger.

**crit ss** (`StackShuffleProofs`), for any program, stack and choice of pairs.
`ShuffleInvariant`, `ShuffleTypes`, `RaisedOnlyUnwritable` (an exception ends the command
only on aarch64, and only if some function is not `Writable`), `ShuffleKeepsVariables`
(`VariablesKept`) and `ShuffleKeepsLiveValues` (`LiveValuesKept`). The invariant is `Inv`
until an exception, and `Halted` after it, which keeps of `Inv` what the properties need:
an instruction that is refused has its offset from the compiler, because the slots of a
pair are in no record yet, and the frames that were passed are of other functions. The pairs recorded for a function are an involution on its slots
(`RecordsOK`), and code, dumped code, each frame and the stack maps have each gone
through a known part of it (`FileOK`, `MemOK` with `Applied`, `MapsOK`). `SteadyOK` is
needed for recursion: the code decides by the recorded pairs whether it has seen a
function, so one for which no pair was feasible is tried again at its next frame.
`Sound` and `Alone` are part of the two properties and are not assumed of the program.

Only model-checked: liveness; `TargetMem`; `Controller`, whose properties depend on the
list of instructions (one that copies old images over the only new ones loses the
process with no fault at all); and `StackTransform`, which needs the bitwise operators
and arithmetic on bytes that these provers do not have.

## Not modelled

- **CRIU** (`criu-3.15/` except what TransProc added under `lib/py/`): third-party code,
  by far the larger part of the repository's 100,000 lines of C and Python. Dump and
  restore are single steps, as far as TransProc relies on them; `TargetMem` has which
  pages a dump holds and how they share entries. The models stand
  for about 3,500 lines of the 6,500 in the files of TransProc that they map; the rest
  of those is parsing, logging, printing and data layout.
- **Layout of stack map and unwinding sections** (`stack_map_utils.py`, `elf_utils.py`):
  reading them changes no state. What their readers get from them is a constant, and
  where `parse_stack_maps()` attributes a value to the wrong function `StackShuffle`
  has it.
- **Commands that only read** (`crit elf`, `sunw`, `examine` and upstream's), **transport**
  to nested hosts (`server_to_qemu.py`), **scripts and makefiles**: sequences of I/O
  without state of their own.
- **Left out of modelled parts**: signals other than SIGTRAP in the waits of `tracer.c`;
  several processes in one dump, for which `converter.py` has a TODO, and several
  threads in `crit ss`; vector registers; a mapping adjacent to the vdso. `hazards` says
  at their lines what could go wrong there.
