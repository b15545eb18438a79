-------------------------------- MODULE Recode --------------------------------
(***************************************************************************)
(* `crit recode': the images of a dumped process in one directory ("src")  *)
(* are rewritten for the other architecture in another ("dst"), one kind   *)
(* of image after the other. Parsed images are kept in a cache of objects, *)
(* and the copies the code makes of them are shallow: the image that is    *)
(* written and the one that was read are one object.                       *)
(*                                                                         *)
(* The core image of a thread is named by the thread. What transform_      *)
(* target_mem() does inside mm, pagemap and pages is in TargetMem; what    *)
(* happens on a stack is in StackTransform.                                *)
(***************************************************************************)
EXTENDS Integers, Sequences, FiniteSets

CONSTANTS
    Threads, Leader,   \* threads of the process, the first of them
    Cases,             \* what may be asked for, each a record of
                       \*   arch: of the dump, target: asked for
                       \*   threads: of this dump
                       \*   absent: kinds of Copied that it does not have
                       \*   noTransform, measure: the options
                       \*   sameMode: the modes of both binaries are equal
                       \*   faulty: a run may raise an exception or be killed
    MaxRuns            \* runs of crit on the dump

Archs == {"x86_64", "aarch64"}

VARIABLES
    case,    \* the member of Cases that is converted
    disk,    \* the images on disk, disk[<<side, path>>]
    cache,   \* Converter.images: [images |-> object of each path, heap |-> the objects]
    pc,      \* the step of Plan that is next, 0 when crit does not run
    todo,    \* threads whose core image the loop of the step has not reached
    runs,    \* runs of crit so far
    last,    \* how the last one ended: "none", "refused", "raised", "done"
    out      \* what dst holds (no variable of the code): "old", "partial" or "new"

vars == <<case, disk, cache, pc, todo, runs, last, out>>

Copied == {"cgroup", "fdinfo", "fs", "inventory", "pstree", "tty", "ids", "seccomp", "timens"}
Parsed == {"mm", "pagemap", "files"} \cup Threads
Paths == Copied \cup Parsed \cup {"pages"}
Sides == {"src", "dst"}

\* recode(). "mem" to "pagemap" are the steps of transform_target_mem().
Plan == <<"assert", "mkdir", "cgroup", "fdinfo", "fs", "inventory", "pstree", "tty",
          "mem", "pages", "regions", "mm", "pagemap",
          "core", "files", "ids", "stack", "seccomp", "timens">>

\* The name of a core image is that of no other image.
ASSUME ThreadsAssumption ==
    /\ Leader \in Threads
    /\ Threads \cap {Plan[i] : i \in DOMAIN Plan} = {}
    /\ Cases \subseteq [arch : Archs, target : Archs, threads : SUBSET Threads, absent : SUBSET Copied,
                        noTransform : BOOLEAN, measure : BOOLEAN, sameMode : BOOLEAN, faulty : BOOLEAN]
    /\ \A c \in Cases : Leader \in c.threads
    /\ MaxRuns \in Nat

Step == Plan[pc]
At(steps) == pc \in DOMAIN Plan /\ Plan[pc] \in steps

\* An image: the dump it is of ("none": there is no file; "torn": half written),
\* the architecture it fits, the registers and the TLS pointer in a core image,
\* and the threads whose stacks are laid out for that architecture in pages.
Image(of, arch, regs, tls, stacks) ==
    [of |-> of, arch |-> arch, regs |-> regs, tls |-> tls, stacks |-> stacks]
NoFile == Image("none", "none", "none", 0, {})
Torn == Image("torn", "none", "none", 0, {})

TLS_DELTA == 272   \* the TLS pointer of aarch64 is this far above fs_base
FsBase == 1000
TlsOf(arch) == IF arch = "aarch64" THEN FsBase + TLS_DELTA ELSE FsBase

\* The images of one dump, for one architecture.
ImageOf(c, of, arch, p) ==
    IF p \in Copied THEN IF p \in c.absent THEN NoFile ELSE Image(of, "none", "none", 0, {})
    ELSE IF p \in Threads
         THEN IF p \in c.threads THEN Image(of, arch, "saved", TlsOf(arch), {}) ELSE NoFile
    ELSE IF p = "pages" THEN Image(of, arch, "none", 0, c.threads)
    ELSE Image(of, arch, "none", 0, {})

-----------------------------------------------------------------------------
\* load_image_file() and dump_image_file(), as functions of the cache. An object
\* is named by the path and by how it was loaded. A path may be loaded fresh again:
\* nothing then refers to the object that had the name before.

NoObject == <<"none", FALSE>>
Objects == {<<"src", FALSE>>, <<"src", TRUE>>, <<"dst", TRUE>>}
NoCache == [images |-> [sp \in Sides \X Parsed |-> NoObject],
            heap   |-> [op \in Objects \X Parsed |-> NoFile]]

Load(c, side, p, fresh) ==
    IF ~fresh /\ c.images[<<side, p>>] # NoObject
    THEN c
    ELSE [images |-> [c.images EXCEPT ![<<side, p>>] = <<side, fresh>>],
          heap   |-> [c.heap EXCEPT ![<<<<side, fresh>>, p>>] = disk[<<side, p>>]]]

Object(c, side, p) == <<c.images[<<side, p>>], p>>
Loaded(c, side, p) == c.heap[Object(c, side, p)]
Assign(c, side, p, img) == [c EXCEPT !.heap[Object(c, side, p)] = img]

\* copy() of the image of src, which is kept for dst: they share their entries.
Share(c, p) == [c EXCEPT !.images[<<"dst", p>>] = c.images[<<"src", p>>]]

-----------------------------------------------------------------------------
Init ==
    /\ case \in Cases
    /\ \E old \in BOOLEAN : disk = [sp \in Sides \X Paths |->
           IF sp[1] = "src" THEN ImageOf(case, "dump", case.arch, sp[2])
           ELSE IF old THEN ImageOf([case EXCEPT !.threads = Threads], "old", case.target, sp[2])
           ELSE NoFile]
    /\ cache = NoCache /\ pc = 0 /\ todo = {} /\ runs = 0 /\ last = "none" /\ out = "old"

\* The step behind this one, and what every step leaves alone. A loop over the core
\* images is over those that src had when the converter was made.
GoOver(threads) ==
    /\ pc' = pc + 1
    /\ todo' = threads
    /\ UNCHANGED <<case, runs, last>>

GoMutant == GoOver(Threads)
Go == GoOver(case.threads)

\* Converter() and recode() of cli.py. The core images it lists are those of src.
Start ==
    /\ pc = 0 /\ runs < MaxRuns
    /\ pc' = 1 /\ todo' = case.threads /\ runs' = runs + 1 /\ last' = "none"
    /\ cache' = NoCache
    /\ UNCHANGED <<case, disk, out>>

Stop(how) ==
    /\ pc' = 0 /\ todo' = {} /\ last' = how
    /\ UNCHANGED <<case, runs>>

\* One core image of a loop over all of them: the step ends with the last one.
EachCore(t) ==
    /\ t \in todo
    /\ IF todo = {t} THEN Go ELSE todo' = todo \ {t} /\ UNCHANGED <<case, pc, runs, last>>

\* assert_conditions()
AssertConditions ==
    /\ At({"assert"})
    /\ UNCHANGED <<disk, out>>
    /\ \E t \in todo :
        /\ cache' = Load(cache, "src", t, FALSE)
        /\ IF \/ Loaded(cache', "src", t).arch = case.target
              \/ todo = {t} /\ case.target = "aarch64" /\ ~case.sameMode
           THEN Stop("refused")
           ELSE EachCore(t)

\* rmtree() and makedirs()
MakeDestBut(kept) ==
    /\ At({"mkdir"})
    /\ disk' = [sp \in Sides \X Paths |->
                    IF sp[1] = "dst" /\ sp[2] \notin kept THEN NoFile ELSE disk[sp]]
    /\ out' = "partial"
    /\ Go /\ UNCHANGED cache

MakeDestMutant == MakeDestBut(Threads)
MakeDest == MakeDestBut({})

Write(p, img) == disk' = [disk EXCEPT ![<<"dst", p>>] = img]

\* transform_cgroup_file() and the others that copy, when there is such an image.
Copy ==
    /\ At(Copied)
    /\ IF disk[<<"src", Step>>] = NoFile THEN UNCHANGED disk ELSE Write(Step, disk[<<"src", Step>>])
    /\ Go /\ UNCHANGED <<cache, out>>

\* The steps that measure_transform leaves out.
Measures == {"mem", "pages", "regions", "mm", "pagemap", "core", "stack"}

Measured ==
    /\ At(Measures)
    /\ case.measure
    /\ Go /\ UNCHANGED <<disk, cache, out>>

\* transform_target_mem(): the images must be there when the converter is made.
LoadMem ==
    /\ At({"mem"}) /\ ~case.measure
    /\ UNCHANGED <<disk, out>>
    /\ IF disk[<<"src", "pages">>] = NoFile
       THEN Stop("raised") /\ UNCHANGED cache
       ELSE /\ cache' = Load(Load(cache, "src", "mm", FALSE), "src", "pagemap", FALSE)
            /\ Go

\* copyfile() or move() of the pages.
TakePagesAs(move) ==
    /\ At({"pages"}) /\ ~case.measure
    /\ disk' = [disk EXCEPT ![<<"dst", "pages">>] = disk[<<"src", "pages">>],
                            ![<<"src", "pages">>] = IF move THEN NoFile ELSE @]
    /\ Go /\ UNCHANGED <<cache, out>>

TakePagesMutant == TakePagesAs(~case.measure)
TakePages == TakePagesAs(case.noTransform)

\* Removed, added and copied regions: the pages on disk, mm and pagemap in the cache.
Retarget(img) == [img EXCEPT !.arch = case.target]

EditRegions ==
    /\ At({"regions"}) /\ ~case.measure
    /\ Write("pages", [Retarget(disk[<<"dst", "pages">>]) EXCEPT !.stacks = {}])
    /\ cache' = LET c == Assign(cache, "src", "mm", Retarget(Loaded(cache, "src", "mm")))
                IN  Assign(c, "src", "pagemap", Retarget(Loaded(c, "src", "pagemap")))
    /\ Go /\ UNCHANGED out

\* dump_image_file() of mm and of pagemap.
DumpMemTo(side) ==
    /\ At({"mm", "pagemap"}) /\ ~case.measure
    /\ cache' = Share(cache, Step)
    /\ disk' = [disk EXCEPT ![<<side, Step>>] = Loaded(cache', "dst", Step)]
    /\ Go /\ UNCHANGED out

DumpMemMutant == DumpMemTo("src")
DumpMem == DumpMemTo("dst")

\* transform_core_file(): the registers are zero until the stack is known.
CoreForX86(img) == Image(img.of, "x86_64", "zero", img.tls - TLS_DELTA, img.stacks)
CoreForArm(img) == Image(img.of, "aarch64", "zero", img.tls + TLS_DELTA, img.stacks)

\* For aarch64 the task is marked alive: KeyError when it is not the core image of the
\* leader, which alone has `tc'.
TransformCore ==
    /\ At({"core"}) /\ ~case.measure
    /\ UNCHANGED out
    /\ \E t \in todo :
        LET c == Share(Load(cache, "src", t, FALSE), t)
            img == Loaded(c, "dst", t)
            new == IF case.target = "x86_64" THEN CoreForX86(img) ELSE CoreForArm(img)
        IN  IF img.arch = case.target \/ (case.target = "aarch64" /\ t # Leader)
            THEN Stop("raised") /\ UNCHANGED <<disk, cache>>
            ELSE cache' = Assign(c, "dst", t, new) /\ Write(t, new) /\ EachCore(t)

\* transform_files_file(): the size of the executable.
TransformFiles ==
    /\ At({"files"})
    /\ cache' = LET c == Share(Load(Load(cache, "src", "files", FALSE), "src", "mm", FALSE), "files")
                IN  Assign(c, "dst", "files", Retarget(Loaded(c, "dst", "files")))
    /\ Write("files", Loaded(cache', "dst", "files"))
    /\ Go /\ UNCHANGED out

\* transform_stack_and_regs(): both core images and both pagemaps are read again. The
\* stack is read in the pages of src, or in those of dst when they were moved.
StackAndRegsFrom(fresh) ==
    /\ At({"stack"}) /\ ~case.measure
    /\ UNCHANGED out
    /\ \E t \in todo :
        LET c == Load(Load(cache, "src", t, fresh), "dst", t, TRUE)
            from == Loaded(c, "src", t)
            to == Loaded(c, "dst", t)
            new == [to EXCEPT !.regs = from.regs]
            stack == disk[<<IF case.noTransform THEN "dst" ELSE "src", "pages">>]
        IN  IF from.arch = case.target \/ to.arch # case.target \/ stack = NoFile
            THEN Stop("raised") /\ UNCHANGED <<disk, cache>>
            ELSE /\ cache' = Assign(Load(Load(c, "src", "pagemap", TRUE), "dst", "pagemap", TRUE), "dst", t, new)
                 /\ disk' = [disk EXCEPT ![<<"dst", "pages">>].stacks = @ \cup {t}, ![<<"dst", t>>] = new]
                 /\ EachCore(t)

StackAndRegsMutant == StackAndRegsFrom(FALSE)
StackAndRegs == StackAndRegsFrom(TRUE)

Finish ==
    /\ pc = Len(Plan) + 1
    /\ out' = "new"
    /\ Stop("done") /\ UNCHANGED <<disk, cache>>

\* crit is killed, the disk is full, or the images hold what the code does not expect
\* (no code pages, no call site for a pc): the image being written may be cut short.
Writes ==
    IF case.measure /\ At(Measures) THEN {}
    ELSE IF At({"core"}) THEN todo
    ELSE IF At({"stack"}) THEN todo \cup {"pages"}
    ELSE IF At({"regions"}) \/ (At({"pages"}) /\ ~case.noTransform) THEN {"pages"}
    ELSE {Step} \cap (Paths \ {"pages"})

Interrupted ==
    /\ pc \in DOMAIN Plan /\ case.faulty
    /\ \/ UNCHANGED <<disk, out>>
       \/ \E p \in Writes : Write(p, Torn) /\ UNCHANGED out
       \/ At({"mkdir"}) /\ out' = "partial" /\ \E p \in Paths : Write(p, NoFile)
    /\ Stop("raised") /\ UNCHANGED cache

Work == \/ AssertConditions \/ MakeDest \/ Copy \/ Measured \/ LoadMem \/ TakePages
        \/ EditRegions \/ DumpMem \/ TransformCore \/ TransformFiles \/ StackAndRegs \/ Finish

Next == Start \/ Work \/ Interrupted

Spec == Init /\ [][Next]_vars

\* crit is one process that does not wait for anything: once it runs it goes on.
FairSpec == Spec /\ WF_vars(Work)

-----------------------------------------------------------------------------
Images == [of : {"none", "old", "dump", "torn"}, arch : Archs \cup {"none"},
           regs : {"none", "zero", "saved"}, tls : Int, stacks : SUBSET Threads]

\* The values of the variables: no step of recode() reaches a thread that the dump
\* does not have.
TypeOK ==
    /\ case \in Cases
    /\ disk \in [Sides \X Paths -> Images]
    /\ cache \in [images : [Sides \X Parsed -> Objects \cup {NoObject}],
                  heap   : [Objects \X Parsed -> Images]]
    /\ pc \in 0 .. Len(Plan) + 1
    /\ todo \in SUBSET case.threads
    /\ runs \in 0 .. MaxRuns
    /\ last \in {"none", "refused", "raised", "done"}
    /\ out \in {"old", "partial", "new"}

\* When a run has ended well the output is this dump, and nothing else, for the
\* target: every image that recode() copies or converts is there, the registers,
\* TLS pointer and stack of every thread are the saved ones, and nothing is left of
\* an earlier output, whatever runs came before and wherever they were cut short.
\* It stays so while later runs are refused or have not begun to write.
Converted(p) ==
    IF case.measure /\ p \in Threads \cup {"mm", "pagemap", "pages"} THEN NoFile
    ELSE ImageOf(case, "dump", case.target, p)

OutputRight == out = "new" => \A p \in Paths : disk[<<"dst", p>>] = Converted(p)

\* A run that fails can be repeated: the dump is as it was, although the code edits
\* the objects it read it into. Only --no-transform takes the pages away.
DumpKept ==
    \A p \in Paths : \/ disk[<<"src", p>>] = ImageOf(case, "dump", case.arch, p)
                     \/ p = "pages" /\ case.noTransform /\ disk[<<"src", p>>] = NoFile

\* Every run for the other architecture that is not disturbed ends well, as long as
\* the pages are there and the dump for aarch64 has one thread.
Convertible ==
    /\ ~case.faulty /\ case.arch # case.target
    /\ case.target = "aarch64" => case.sameMode /\ case.threads = {Leader}
    /\ disk[<<"src", "pages">>] # NoFile

Completes == (pc = 1 /\ Convertible) ~> (last = "done")

\* recode() implements Conversion. A half written file of pages is no memory.
Where == IF disk[<<"src", "pages">>] # NoFile THEN "source"
         ELSE IF disk[<<"dst", "pages">>] \notin {NoFile, Torn} THEN "output" ELSE "gone"

Promise == INSTANCE Conversion WITH moves <- case.noTransform /\ ~case.measure, mem <- Where

ConversionSpec == Promise!Spec
=============================================================================
