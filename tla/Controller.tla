----------------------------- MODULE Controller -----------------------------
(***************************************************************************)
(* Migration by remote control: controller_client.py works through a list  *)
(* of instructions, each a call of controller_daemon.py on one host. The   *)
(* daemons run CRIU, crit recode, the debugger and attach_pid, some of     *)
(* them as subprocesses that nobody waits for.                             *)
(*                                                                         *)
(* A process has come as far as its version says: one step per address it  *)
(* was infected to stop at. An image is [ver, arch, alive, whole]: of which *)
(* version, for which architecture, whether its process is to be restored  *)
(* running or stopped, and whether its files are complete and of one dump. *)
(*                                                                         *)
(* Left out: the moment in which a restored process has its name but CRIU  *)
(* has not stopped it yet, and a SIGCONT that reaches a traced process.    *)
(***************************************************************************)
EXTENDS Naturals, Sequences

CONSTANT Cases   \* what is run, records of
                 \*   program: the instructions, [type, host, tgt]
                 \*   faults: "drop": connections close, "dump", "recode": CRIU, crit fail,
                 \*           "slow": a restore outlasts the polls, "exit": the process ends

ASSUME ControllerAssumption == \A c \in Cases : c.faults \subseteq {"drop", "dump", "recode", "slow", "exit"}

Hosts == {"x86-64", "aarch64"}
NoImage == [ver |-> 0, arch |-> "none", alive |-> FALSE, whole |-> FALSE]

VARIABLES
    case,        \* the member of Cases
    ci, cst,     \* the client: its instruction, and where it is in it
    pid,         \* does it know a pid
    calls,       \* calls that daemons are working on: an instruction, id and pc
    proc,        \* the process on each host: [st, ver]
    tool,        \* debugger or attach_pid, on each host
    restoring,   \* is a criu restore running, on each host
    sigcont,     \* is a kill -SIGCONT on its way, on each host
    imgs,        \* the images in the working directory of each host
    out,         \* the images that recode wrote there
    newest,      \* the version the process has come to
    ended        \* has it ended

Program == case.program
Faults == case.faults

client == <<ci, cst, pid>>
spawned == <<restoring, sigcont>>
files == <<imgs, out>>
fate == <<newest, ended, case>>
vars == <<client, calls, proc, tool, spawned, files, fate>>

Live(h) == proc[h].st # "none"
Gone(h) == [proc EXCEPT ![h].st = "none"]
SetSt(h, s) == [proc EXCEPT ![h].st = s]

-----------------------------------------------------------------------------
(***************************************************************************)
(* The client.                                                             *)
(***************************************************************************)
Instr == Program[ci]
Working == ci <= Len(Program)

\* parse_instruction(): a dump or an infection needs a pid.
Call ==
    /\ cst = "ready"
    /\ Working
    /\ IF Instr.type \in {"dump", "restore_and_infect"} /\ ~pid
       THEN cst' = "error" /\ UNCHANGED calls
       ELSE /\ cst' = "called"
            /\ calls' = calls \cup {[id |-> ci, pc |-> "start", instr |-> Instr]}
    /\ UNCHANGED <<ci, pid, proc, tool, spawned, files, fate>>

NextInstrMutant == ci' = (ci + 1) % Len(Program) /\ cst' = "ready"
NextInstr == ci' = ci + 1 /\ cst' = "ready"

\* What follows a call: some instructions look for the process by its name.
AfterCall ==
    IF Instr.type \in {"run_and_infect", "restore", "restore_and_infect"}
    THEN cst' = "check_pid" /\ UNCHANGED ci
    ELSE NextInstr

Returned ==
    /\ cst = "called"
    /\ \A c \in calls : c.id # ci
    /\ AfterCall
    /\ UNCHANGED <<pid, calls, proc, tool, spawned, files, fate>>

\* ConnectionClosedError: logged in three instructions ("move forward"), the end of
\* the client in the others. The daemon goes on with the call.
Dropped ==
    /\ "drop" \in Faults
    /\ cst = "called"
    /\ IF Instr.type \in {"copy_to_target", "restore", "restore_and_infect"}
       THEN AfterCall
       ELSE cst' = "error" /\ UNCHANGED ci
    /\ UNCHANGED <<pid, calls, proc, tool, spawned, files, fate>>

\* check_pid() polls until the process is there, or gives up; the client's also
\* when its connection closes again and again.
Coming(h) == restoring[h] \/ tool[h] = "start"
GivesUp(h) == ~Live(h) /\ (~Coming(h) \/ "slow" \in Faults)

CheckPid ==
    /\ cst = "check_pid"
    /\ \/ Live(Instr.host) /\ pid' = (pid \/ Instr.type = "run_and_infect")
       \/ (GivesUp(Instr.host) \/ "drop" \in Faults) /\ pid' = (pid /\ Instr.type # "run_and_infect")
    /\ NextInstr
    /\ UNCHANGED <<calls, proc, tool, spawned, files, fate>>

-----------------------------------------------------------------------------
(***************************************************************************)
(* The daemons.                                                            *)
(***************************************************************************)
At(c, type, l) == c.instr.type = type /\ c.pc = l
Return(c) == calls' = calls \ {c}
Raise(c) ==
    /\ Return(c)
    /\ cst' = IF cst = "called" /\ c.id = ci THEN "error" ELSE cst
    /\ UNCHANGED <<ci, pid>>
Step(c, l) == calls' = (calls \ {c}) \cup {[c EXCEPT !.pc = l]}

\* run(): some command.
Run(c) ==
    /\ At(c, "run", "start")
    /\ Return(c)
    /\ UNCHANGED <<client, proc, tool, spawned, files, fate>>

\* run_and_infect(): start the debugger, which nobody waits for.
RunAndInfect(c) ==
    /\ At(c, "run_and_infect", "start")
    /\ tool' = [tool EXCEPT ![c.instr.host] = "start"]
    /\ Return(c)
    /\ UNCHANGED <<client, proc, spawned, files, fate>>

\* dump(): wait for the process to be stopped, for ever ...
DumpPoll(c) ==
    /\ At(c, "dump", "start")
    /\ proc[c.instr.host].st = "stopped"
    /\ Step(c, "criu")
    /\ UNCHANGED <<client, proc, tool, spawned, files, fate>>

\* ... then criu dump, which kills the process when it has saved it. It fails when
\* the process is traced; nobody looks at its result.
DumpSaves(c, after) ==
    LET h == c.instr.host IN
    /\ At(c, "dump", "criu")
    /\ Live(h) /\ tool[h] \notin {"debugger", "attached"}
    /\ imgs' = [imgs EXCEPT ![h] =
                  [ver |-> proc[h].ver, arch |-> h, alive |-> proc[h].st = "running", whole |-> TRUE]]
    /\ proc' = after
    /\ Return(c)
    /\ UNCHANGED <<client, tool, spawned, out, fate>>

DumpMutant(c) == DumpSaves(c, proc)
Dump(c) == DumpSaves(c, Gone(c.instr.host))

DumpFailsWith(c, after) ==
    LET h == c.instr.host IN
    /\ At(c, "dump", "criu")
    /\ "dump" \in Faults \/ ~Live(h) \/ tool[h] \in {"debugger", "attached"}
    /\ imgs' \in {imgs, [imgs EXCEPT ![h].whole = FALSE]}
    /\ proc' = after
    /\ Return(c)
    /\ UNCHANGED <<client, tool, spawned, out, fate>>

DumpFailsMutant(c) == DumpFailsWith(c, Gone(c.instr.host))
DumpFails(c) == DumpFailsWith(c, proc)

\* transform(): crit recode empties its output directory and fills it. Images that
\* are for the target already are refused first, before the directory is touched.
\* A process converted to aarch64 is marked alive.
TransformWith(c, left) ==
    LET h == c.instr.host t == c.instr.tgt new == [imgs[h] EXCEPT !.arch = t] IN
    /\ At(c, "transform", "start")
    /\ \/ /\ imgs[h].whole /\ imgs[h].arch # t
          /\ out' = [out EXCEPT ![h] = IF t = "aarch64" THEN [new EXCEPT !.alive = TRUE] ELSE new]
       \/ /\ "recode" \in Faults \/ ~imgs[h].whole
          /\ out' = [out EXCEPT ![h] = [new EXCEPT !.whole = FALSE]]
       \/ /\ ~imgs[h].whole \/ imgs[h].arch = t
          /\ UNCHANGED out
    /\ Return(c)
    /\ imgs' = left
    /\ UNCHANGED <<client, proc, tool, spawned, fate>>

TransformMutant(c) == TransformWith(c, [imgs EXCEPT ![c.instr.host] = NoImage])
Transform(c) == TransformWith(c, imgs)

\* copy_to_tgt(): file after file into the working directory of the target, over
\* what is there. Its errors reach a client that waits.
CopyStart(c) ==
    /\ At(c, "copy_to_target", "start")
    /\ IF out[c.instr.host] = NoImage
       THEN Raise(c) /\ UNCHANGED imgs
       ELSE /\ Step(c, "copying")
            /\ imgs' = [imgs EXCEPT ![c.instr.tgt].whole = FALSE]
            /\ UNCHANGED client
    /\ UNCHANGED <<proc, tool, spawned, out, fate>>

CopyEnd(c) ==
    /\ At(c, "copy_to_target", "copying")
    /\ imgs' = [imgs EXCEPT ![c.instr.tgt] = out[c.instr.host]]
    /\ Return(c)
    /\ UNCHANGED <<client, proc, tool, spawned, out, fate>>

CopyFails(c) ==
    /\ "drop" \in Faults
    /\ At(c, "copy_to_target", "copying")
    /\ Raise(c)
    /\ UNCHANGED <<proc, tool, spawned, files, fate>>

\* restore() and restore_and_infect(): start make restore, which nobody waits for,
\* then look for the process for half a second.
Restores(c) == c.instr.type \in {"restore", "restore_and_infect"}

RestoreStart(c) ==
    /\ Restores(c) /\ c.pc = "start"
    /\ restoring' = [restoring EXCEPT ![c.instr.host] = TRUE]
    /\ Step(c, "check")
    /\ UNCHANGED <<client, proc, tool, sigcont, files, fate>>

RestoreCheck(c) ==
    /\ Restores(c) /\ c.pc = "check"
    /\ \/ Live(c.instr.host) /\ Step(c, "found")
       \/ GivesUp(c.instr.host) /\ Step(c, "lost")
    /\ UNCHANGED <<client, proc, tool, spawned, files, fate>>

\* kill -SIGCONT, of the pid that was found or of None, which nobody waits for.
Continue(c) ==
    /\ c.instr.type = "restore" /\ c.pc \in {"found", "lost"}
    /\ sigcont' = [sigcont EXCEPT ![c.instr.host] = @ \/ c.pc = "found"]
    /\ Return(c)
    /\ UNCHANGED <<client, proc, tool, restoring, files, fate>>

\* A second later, attach_pid, which nobody waits for.
InfectWhen(c, pcs) ==
    /\ c.instr.type = "restore_and_infect" /\ c.pc \in {"found", "lost"}
    /\ tool' = [tool EXCEPT ![c.instr.host] = IF c.pc \in pcs THEN "attach" ELSE @]
    /\ Return(c)
    /\ UNCHANGED <<client, proc, spawned, files, fate>>

InfectMutant(c) == InfectWhen(c, {"lost"})
Infect(c) == InfectWhen(c, {"found", "lost"})

Daemons == \E c \in calls :
    \/ Run(c) \/ RunAndInfect(c) \/ DumpPoll(c) \/ Dump(c) \/ DumpFails(c) \/ Transform(c)
    \/ CopyStart(c) \/ CopyEnd(c) \/ CopyFails(c) \/ RestoreStart(c) \/ RestoreCheck(c) \/ Continue(c) \/ Infect(c)

-----------------------------------------------------------------------------
(***************************************************************************)
(* Subprocesses and the process itself.                                    *)
(***************************************************************************)
\* The debugger starts the process, which stops for it at its first instruction.
StartProcess(h) ==
    /\ tool[h] = "start"
    /\ proc' = [proc EXCEPT ![h] = [st |-> "traced", ver |-> 0]]
    /\ tool' = [tool EXCEPT ![h] = "debugger"]
    /\ UNCHANGED <<client, calls, spawned, files, fate>>

\* criu restore needs complete images of its architecture and a free pid.
CriuRestore(h) ==
    /\ restoring[h]
    /\ restoring' = [restoring EXCEPT ![h] = FALSE]
    /\ proc' = IF imgs[h].whole /\ imgs[h].arch = h /\ ~Live(h)
               THEN [proc EXCEPT ![h] = [st |-> IF imgs[h].alive THEN "running" ELSE "stopped",
                                         ver |-> imgs[h].ver]]
               ELSE proc
    /\ UNCHANGED <<client, calls, tool, sigcont, files, fate>>

\* SIGCONT reaches the process, if it is there still.
SigCont(h) ==
    /\ sigcont[h]
    /\ sigcont' = [sigcont EXCEPT ![h] = FALSE]
    /\ proc' = IF proc[h].st = "stopped" THEN SetSt(h, "running") ELSE proc
    /\ UNCHANGED <<client, calls, tool, restoring, files, fate>>

\* attach_pid attaches to the process, if it is there, which stops for it.
AttachPid(h) ==
    /\ tool[h] = "attach"
    /\ IF Live(h)
       THEN proc' = SetSt(h, "traced") /\ tool' = [tool EXCEPT ![h] = "attached"]
       ELSE UNCHANGED proc /\ tool' = [tool EXCEPT ![h] = "none"]
    /\ UNCHANGED <<client, calls, spawned, files, fate>>

\* With the breakpoint set, continue_running().
ContinueRunning(h) ==
    /\ proc[h].st = "traced"
    /\ proc' = SetSt(h, "running")
    /\ UNCHANGED <<client, calls, tool, spawned, files, fate>>

\* The process hits the address and is stopped there; the tool ends.
ReachAddr(h) ==
    /\ tool[h] \in {"debugger", "attached"}
    /\ proc[h].st = "running"
    /\ proc' = [proc EXCEPT ![h] = [st |-> "stopped", ver |-> @.ver + 1]]
    /\ tool' = [tool EXCEPT ![h] = "none"]
    /\ newest' = IF proc[h].ver + 1 > newest THEN proc[h].ver + 1 ELSE newest
    /\ UNCHANGED <<client, calls, spawned, files, ended, case>>

\* The process ends: before the client is done only as a fault.
Exit(h) ==
    /\ proc[h].st = "running"
    /\ "exit" \in Faults \/ ~Working
    /\ proc' = Gone(h)
    /\ tool' = [tool EXCEPT ![h] = IF @ = "attach" THEN @ ELSE "none"]
    /\ ended' = TRUE
    /\ UNCHANGED <<client, calls, spawned, files, newest, case>>

Init ==
    /\ case \in Cases
    /\ ci = 1 /\ cst = "ready" /\ pid = FALSE
    /\ calls = {}
    /\ proc = [h \in Hosts |-> [st |-> "none", ver |-> 0]]
    /\ tool = [h \in Hosts |-> "none"]
    /\ restoring = [h \in Hosts |-> FALSE]
    /\ sigcont = [h \in Hosts |-> FALSE]
    /\ imgs = [h \in Hosts |-> NoImage]
    /\ out = [h \in Hosts |-> NoImage]
    /\ newest = 0
    /\ ended = FALSE

Client == Call \/ Returned \/ Dropped \/ CheckPid
Subprocess(h) ==
    \/ StartProcess(h) \/ CriuRestore(h) \/ SigCont(h)
    \/ AttachPid(h) \/ ContinueRunning(h) \/ ReachAddr(h)

Next == Client \/ Daemons \/ \E h \in Hosts : Subprocess(h) \/ Exit(h)

Spec == Init /\ [][Next]_vars

\* The client, the daemons and the subprocesses all run, and a process comes to the
\* address it is to be stopped at. It need not end.
FairSpec ==
    /\ Spec
    /\ WF_vars(Client) /\ WF_vars(Daemons)
    /\ \A h \in Hosts : WF_vars(Subprocess(h))

-----------------------------------------------------------------------------
ImageType == [ver : Nat, arch : Hosts \cup {"none"}, alive : BOOLEAN, whole : BOOLEAN]

\* Every variable has its type; the client's counter stays within its instructions,
\* and a call that a daemon works on is one of them.
TypeOK ==
    /\ ci \in 1 .. Len(Program) + 1
    /\ cst \in {"ready", "called", "check_pid", "error"}
    /\ pid \in BOOLEAN
    /\ \A c \in calls : c.id \in 1 .. Len(Program) /\ c.instr = Program[c.id]
    /\ proc \in [Hosts -> [st : {"none", "traced", "running", "stopped"}, ver : Nat]]
    /\ tool \in [Hosts -> {"none", "start", "debugger", "attach", "attached"}]
    /\ restoring \in [Hosts -> BOOLEAN]
    /\ sigcont \in [Hosts -> BOOLEAN]
    /\ imgs \in [Hosts -> ImageType]
    /\ out \in [Hosts -> ImageType]
    /\ newest \in Nat
    /\ ended \in BOOLEAN

\* The process is not lost when connections close, CRIU fails, polls run out or, with
\* reliable connections, recode fails: dump kills it only when it is saved, and copying
\* and recoding leave what they read. There is a process or a complete image of the
\* version it has come to, though the process may be left stopped. Closed connections
\* together with a recode that fails do lose it: the next trip goes on from an older
\* image, which it copies over the only complete one.
Recoverable ==
    \/ ended \/ newest = 0
    \/ \E h \in Hosts :
          \/ Live(h) /\ proc[h].ver = newest
          \/ imgs[h].whole /\ imgs[h].ver = newest
          \/ out[h].whole /\ out[h].ver = newest

LiveHosts == {h \in Hosts : Live(h)}

\* Nothing more is promised when connections close: the client goes on regardless, while
\* the daemon still works on the last call.
Reliable == "drop" \notin Faults

K == INSTANCE Checkpoint WITH
        place <- IF ~Reliable THEN "none"
                 ELSE IF LiveHosts = Hosts THEN "split"
                 ELSE IF LiveHosts # {} THEN CHOOSE h \in LiveHosts : TRUE
                 ELSE IF ended THEN "ended"
                 ELSE IF newest > 0 THEN "saved" ELSE "none",
        ver <- IF ~Reliable THEN 0
               ELSE IF LiveHosts # {} THEN proc[CHOOSE h \in LiveHosts : TRUE].ver ELSE newest

\* Between reliable hosts the sequence of calls implements Checkpoint: what runs is one
\* process that is saved and goes on where it was saved, never in two places.
CheckpointSpec == K!Spec

\* The client comes to an end, unless the process ends first, recode left its output
\* incomplete or a restore outlasted the daemon's polls: dump waits for ever for a process
\* that is stopped, and the infection before it, or the last dump, has stopped it.
Failed == (\E h \in Hosts : out[h] # NoImage /\ ~out[h].whole) \/ (\E c \in calls : c.pc = "lost")

Arrives == <>(ended \/ cst = "error" \/ ~Working \/ ~Reliable \/ Failed)
=============================================================================
