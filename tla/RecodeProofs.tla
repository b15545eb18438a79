----------------------------- MODULE RecodeProofs -----------------------------
(***************************************************************************)
(* Proofs about Recode, for any number of threads, kinds of request and    *)
(* runs. The inductive invariant says what the output holds at each step   *)
(* of recode(), and which of the cached images are still as they were read.*)
(***************************************************************************)
EXTENDS Recode, TLAPS

-----------------------------------------------------------------------------
(* The inductive invariant *)

\* The step that writes p is behind.
Passed(p) == \E m \in 1 .. pc - 1 : Plan[m] = p

Plain == Copied \cup {"files", "mm", "pagemap"}
Pages(arch, stacks) == Image("dump", arch, "none", 0, stacks)
Zeroed == Image("dump", case.target, "zero", TlsOf(case.target), {})

\* The output from step 3 on: what the steps behind have written, and nothing else.
PlainOK == pc >= 3 => \A p \in Plain : disk[<<"dst", p>>] = IF Passed(p) THEN Converted(p) ELSE NoFile
PagesOK == pc >= 3 =>
    disk[<<"dst", "pages">>] =
        IF case.measure \/ pc <= 10 THEN NoFile
        ELSE IF pc = 11 THEN Pages(case.arch, case.threads)
        ELSE IF pc < 17 THEN Pages(case.target, {})
        ELSE IF pc = 17 THEN Pages(case.target, case.threads \ todo)
        ELSE Pages(case.target, case.threads)
CoreWritten(t) ==
    IF case.measure \/ t \notin case.threads \/ pc < 14 \/ (pc = 14 /\ t \in todo) THEN NoFile
    ELSE IF pc < 17 \/ (pc = 17 /\ t \in todo) THEN Zeroed
    ELSE ImageOf(case, "dump", case.target, t)
CoresOK == pc >= 3 => \A t \in Threads : disk[<<"dst", t>>] = CoreWritten(t)
OutOK == pc >= 3 => out = "partial"

\* The dump. The pages are there when they are needed, and gone when they were moved.
Moves == case.noTransform /\ ~case.measure
SourceOK ==
    /\ \A p \in Paths \ {"pages"} : disk[<<"src", p>>] = ImageOf(case, "dump", case.arch, p)
    /\ \/ disk[<<"src", "pages">>] = Pages(case.arch, case.threads)
       \/ Moves /\ disk[<<"src", "pages">>] = NoFile
TakenOK ==
    /\ pc = 10 /\ ~case.measure => disk[<<"src", "pages">>] # NoFile
    /\ pc >= 11 /\ Moves => disk[<<"src", "pages">>] = NoFile
OtherArch == pc >= 2 => case.arch # case.target

\* The cache: what is in it under the name of p is not loaded, or is img.
Holds(p, img) == /\ cache.images[<<"src", p>>] = <<"src", FALSE>>
                 /\ cache.heap[<<<<"src", FALSE>>, p>>] = img
Unloaded(p) == cache.images[<<"src", p>>] = NoObject
CoreCache ==
    \A t \in case.threads : pc \in 1 .. 13 \/ (pc = 14 /\ t \in todo)
        => Unloaded(t) \/ Holds(t, ImageOf(case, "dump", case.arch, t))
MemCache ==
    \A p \in {"mm", "pagemap"} :
        /\ pc \in 1 .. 9 => Unloaded(p)
        /\ pc \in 10 .. 13 /\ ~case.measure
              => Holds(p, ImageOf(case, "dump", IF pc <= 11 THEN case.arch ELSE case.target, p))
FilesCache == pc \in 1 .. 15 => Unloaded("files")

Inv == /\ TypeOK /\ SourceOK /\ OutputRight
       /\ OutOK /\ PlainOK /\ PagesOK /\ CoresOK /\ TakenOK /\ OtherArch
       /\ CoreCache /\ MemCache /\ FilesCache

-----------------------------------------------------------------------------
(* Facts about the constants, images and steps *)

\* The steps of recode() by number.
LEMMA PlanLemma ==
    /\ DOMAIN Plan = 1 .. 19 /\ Len(Plan) = 19
    /\ Plan[1] = "assert" /\ Plan[2] = "mkdir" /\ Plan[9] = "mem" /\ Plan[10] = "pages"
    /\ Plan[11] = "regions" /\ Plan[12] = "mm" /\ Plan[13] = "pagemap" /\ Plan[14] = "core"
    /\ Plan[15] = "files" /\ Plan[17] = "stack"
    /\ \A n \in 1 .. 19 : Plan[n] \in Copied <=> n \in (3 .. 8) \cup {16, 18, 19}
    /\ \A m, n \in 1 .. 19 : Plan[m] = Plan[n] => m = n
  <1>1. DOMAIN Plan = 1 .. 19 /\ Len(Plan) = 19
    BY DEF Plan
  <1>2. /\ Plan[1] = "assert" /\ Plan[2] = "mkdir" /\ Plan[3] = "cgroup" /\ Plan[4] = "fdinfo"
        /\ Plan[5] = "fs" /\ Plan[6] = "inventory" /\ Plan[7] = "pstree" /\ Plan[8] = "tty"
        /\ Plan[9] = "mem" /\ Plan[10] = "pages" /\ Plan[11] = "regions" /\ Plan[12] = "mm"
        /\ Plan[13] = "pagemap" /\ Plan[14] = "core" /\ Plan[15] = "files" /\ Plan[16] = "ids"
        /\ Plan[17] = "stack" /\ Plan[18] = "seccomp" /\ Plan[19] = "timens"
    BY DEF Plan
  <1>3. \A n \in 1 .. 19 : Plan[n] \in Copied <=> n \in (3 .. 8) \cup {16, 18, 19}
    BY <1>2 DEF Copied
  <1>4. \A m, n \in 1 .. 19 : Plan[m] = Plan[n] => m = n
    BY <1>2
  <1> QED
    BY <1>1, <1>2, <1>3, <1>4

\* Each kind of image that is written at once is so by a step of its own.
LEMMA PlainSteps ==
    /\ \A n \in 1 .. 19 : Plan[n] \in Plain <=> n \in (3 .. 8) \cup {12, 13, 15, 16, 18, 19}
    /\ \A p \in Plain : \E n \in 1 .. 19 : Plan[n] = p
  <1>2. /\ Plan[1] = "assert" /\ Plan[2] = "mkdir" /\ Plan[3] = "cgroup" /\ Plan[4] = "fdinfo"
        /\ Plan[5] = "fs" /\ Plan[6] = "inventory" /\ Plan[7] = "pstree" /\ Plan[8] = "tty"
        /\ Plan[9] = "mem" /\ Plan[10] = "pages" /\ Plan[11] = "regions" /\ Plan[12] = "mm"
        /\ Plan[13] = "pagemap" /\ Plan[14] = "core" /\ Plan[15] = "files" /\ Plan[16] = "ids"
        /\ Plan[17] = "stack" /\ Plan[18] = "seccomp" /\ Plan[19] = "timens"
    BY DEF Plan
  <1>3. \A n \in 1 .. 19 : Plan[n] \in Plain <=> n \in (3 .. 8) \cup {12, 13, 15, 16, 18, 19}
    BY <1>2 DEF Copied, Plain
  <1>4. \A p \in Plain : \E n \in 1 .. 19 : Plan[n] = p
    BY <1>2 DEF Copied, Plain
  <1> QED
    BY <1>3, <1>4

\* No thread has the name of a step or of another image.
LEMMA ThreadNames ==
    /\ \A t \in Threads : t \notin Plain /\ t \notin Copied /\ t \notin {"pages", "mm", "pagemap", "files"}
    /\ \A t \in Threads, n \in 1 .. 19 : Plan[n] # t
    /\ "pages" \notin Plain /\ "pages" \notin Parsed
    /\ Paths = Plain \cup Threads \cup {"pages"}
    /\ Parsed \subseteq Paths
  <1>1. \A t \in Threads, n \in 1 .. 19 : Plan[n] # t
    BY ThreadsAssumption, PlanLemma
  <1>2. \A t \in Threads : t \notin Plain /\ t # "pages"
    BY <1>1, PlainSteps, PlanLemma
  <1>3. "pages" \notin Plain
    BY DEF Plain, Copied
  <1> QED
    BY <1>1, <1>2, <1>3 DEF Parsed, Paths, Plain

\* A request is one of the assumption's.
LEMMA CaseType ==
    ASSUME case \in Cases
    PROVE  /\ case.arch \in Archs /\ case.target \in Archs /\ case.threads \subseteq Threads
           /\ case.measure \in BOOLEAN /\ case.noTransform \in BOOLEAN /\ Leader \in case.threads
           /\ [case EXCEPT !.threads = Threads].threads = Threads
  BY ThreadsAssumption

\* The fields of an image.
LEMMA ImageFields ==
    ASSUME NEW of, NEW arch, NEW regs, NEW tls, NEW stacks
    PROVE  LET i == Image(of, arch, regs, tls, stacks)
           IN  i.of = of /\ i.arch = arch /\ i.regs = regs /\ i.tls = tls /\ i.stacks = stacks
  BY DEF Image

\* The images that a directory may hold.
LEMMA ImageTypes ==
    /\ NoFile \in Images /\ Torn \in Images /\ Torn # NoFile
    /\ \A a \in Archs, s \in SUBSET Threads : Pages(a, s) \in Images /\ Pages(a, s) # NoFile
  BY DEF NoFile, Torn, Image, Images, Pages, Archs

\* What ImageOf() is for each kind of image.
LEMMA ImageOfLemma ==
    ASSUME NEW c, NEW of, NEW arch
    PROVE  /\ \A p \in Copied : ImageOf(c, of, arch, p)
                  = IF p \in c.absent THEN NoFile ELSE Image(of, "none", "none", 0, {})
           /\ \A p \in {"mm", "pagemap", "files"} : ImageOf(c, of, arch, p) = Image(of, arch, "none", 0, {})
           /\ ImageOf(c, of, arch, "pages") = Image(of, arch, "none", 0, c.threads)
           /\ \A t \in Threads : ImageOf(c, of, arch, t)
                  = IF t \in c.threads THEN Image(of, arch, "saved", TlsOf(arch), {}) ELSE NoFile
  <1>1. {"mm", "pagemap", "files", "pages"} \cap Copied = {}
    BY DEF Copied
  <1> QED
    BY <1>1, ThreadNames DEF ImageOf

LEMMA CoreImage ==
    ASSUME NEW t \in Threads, NEW arch, t \in case.threads
    PROVE  ImageOf(case, "dump", arch, t) = Image("dump", arch, "saved", TlsOf(arch), {})
  BY ThreadNames DEF ImageOf

LEMMA ImageOfType ==
    ASSUME NEW c, c.threads \subseteq Threads, NEW of \in {"none", "old", "dump", "torn"}, NEW arch \in Archs,
           NEW p \in Paths
    PROVE  ImageOf(c, of, arch, p) \in Images
  BY ThreadNames, ImageTypes DEF ImageOf, Images, Image, Archs, TlsOf, FsBase, TLS_DELTA, Plain
-----------------------------------------------------------------------------
(* The cache *)

CacheType == [images : [Sides \X Parsed -> Objects \cup {NoObject}], heap : [Objects \X Parsed -> Images]]

\* Of the images other than p the caches c and d hold the same.
SameBut(c, d, p) ==
    \A q \in Parsed \ {p} :
        /\ \A s \in Sides : d.images[<<s, q>>] = c.images[<<s, q>>]
        /\ \A o \in Objects : d.heap[<<o, q>>] = c.heap[<<o, q>>]

LEMMA SameButTrans ==
    ASSUME NEW c, NEW d, NEW e, NEW p, SameBut(c, d, p), SameBut(d, e, p)
    PROVE  SameBut(c, e, p)
  BY DEF SameBut

\* load_image_file(): p is cached, and when it was cached before and may be so nothing
\* changes.
LEMMA LoadLemma ==
    ASSUME NEW c \in CacheType, disk \in [Sides \X Paths -> Images], NEW p \in Parsed,
           NEW side \in Sides, NEW fresh \in BOOLEAN, <<side, fresh>> \in Objects
    PROVE  LET d == Load(c, side, p, fresh)
           IN  /\ d \in CacheType
               /\ SameBut(c, d, p)
               /\ d.images[<<side, p>>] \in Objects
               /\ \A s \in Sides \ {side} : d.images[<<s, p>>] = c.images[<<s, p>>]
               /\ \A o \in Objects \ {<<side, fresh>>} : d.heap[<<o, p>>] = c.heap[<<o, p>>]
               /\ fresh \/ c.images[<<side, p>>] = NoObject
                    => /\ d.images[<<side, p>>] = <<side, fresh>>
                       /\ d.heap[<<<<side, fresh>>, p>>] = disk[<<side, p>>]
               /\ ~fresh /\ c.images[<<side, p>>] # NoObject => d = c
  <1> DEFINE d == Load(c, side, p, fresh)
             new == [images |-> [c.images EXCEPT ![<<side, p>>] = <<side, fresh>>],
                     heap   |-> [c.heap EXCEPT ![<<<<side, fresh>>, p>>] = disk[<<side, p>>]]]
  <1>1. CASE ~fresh /\ c.images[<<side, p>>] # NoObject
    <2>1. d = c
      BY <1>1 DEF Load
    <2>2. c.images[<<side, p>>] \in Objects
      BY <1>1 DEF CacheType
    <2> QED
      BY <1>1, <2>1, <2>2 DEF SameBut
  <1>2. CASE ~(~fresh /\ c.images[<<side, p>>] # NoObject)
    <2>1. d = new
      BY <1>2 DEF Load
    <2>2. disk[<<side, p>>] \in Images
      BY ThreadNames
    <2>3. new.images \in [Sides \X Parsed -> Objects \cup {NoObject}]
      BY DEF CacheType
    <2>4. new.heap \in [Objects \X Parsed -> Images]
      BY <2>2 DEF CacheType
    <2>5. new \in CacheType
      BY <2>3, <2>4 DEF CacheType
    <2>6. /\ new.images[<<side, p>>] = <<side, fresh>>
          /\ new.heap[<<<<side, fresh>>, p>>] = disk[<<side, p>>]
      BY DEF CacheType
    <2>7. /\ \A s \in Sides, q \in Parsed : <<s, q>> # <<side, p>> => new.images[<<s, q>>] = c.images[<<s, q>>]
          /\ \A o \in Objects, q \in Parsed :
                 <<o, q>> # <<<<side, fresh>>, p>> => new.heap[<<o, q>>] = c.heap[<<o, q>>]
      BY DEF CacheType
    <2> HIDE DEF new
    <2> QED
      BY <1>2, <2>1, <2>5, <2>6, <2>7 DEF SameBut
  <1> QED
    BY <1>1, <1>2

\* The cache d is c with img for the object o of p.
Assigned(c, d, p, o, img) ==
    /\ d \in CacheType
    /\ SameBut(c, d, p)
    /\ d.images = c.images
    /\ d.heap[<<o, p>>] = img

\* An assignment to the image that is cached for a side.
LEMMA AssignLemma ==
    ASSUME NEW c \in CacheType, NEW p \in Parsed, NEW side \in Sides, NEW img \in Images,
           c.images[<<side, p>>] \in Objects
    PROVE  Assigned(c, Assign(c, side, p, img), p, c.images[<<side, p>>], img)
  <1> DEFINE o == c.images[<<side, p>>]
             d == Assign(c, side, p, img)
  <1>1. d = [c EXCEPT !.heap = [c.heap EXCEPT ![<<o, p>>] = img]]
    BY DEF Assign, Object, CacheType
  <1>2. d.images = c.images /\ d.heap = [c.heap EXCEPT ![<<o, p>>] = img] /\ d = [images |-> d.images, heap |-> d.heap]
    BY <1>1 DEF CacheType
  <1>3. d.heap \in [Objects \X Parsed -> Images] /\ d.heap[<<o, p>>] = img
    BY <1>2 DEF CacheType
  <1>4. \A a \in Objects, q \in Parsed : <<a, q>> # <<o, p>> => d.heap[<<a, q>>] = c.heap[<<a, q>>]
    BY <1>2 DEF CacheType
  <1> HIDE DEF d
  <1> QED
    BY <1>2, <1>3, <1>4 DEF CacheType, SameBut, Assigned, d

\* copy(): one object for both sides.
LEMMA ShareLemma ==
    ASSUME NEW c \in CacheType, NEW p \in Parsed
    PROVE  LET d == Share(c, p)
           IN  /\ d \in CacheType
               /\ SameBut(c, d, p)
               /\ d.heap = c.heap
               /\ d.images[<<"src", p>>] = c.images[<<"src", p>>]
               /\ d.images[<<"dst", p>>] = c.images[<<"src", p>>]
  <1> DEFINE d == Share(c, p)
  <1>1. d = [c EXCEPT !.images = [c.images EXCEPT ![<<"dst", p>>] = c.images[<<"src", p>>]]]
    BY DEF Share, CacheType
  <1>2. /\ d.heap = c.heap /\ d.images = [c.images EXCEPT ![<<"dst", p>>] = c.images[<<"src", p>>]]
        /\ d = [images |-> d.images, heap |-> d.heap]
    BY <1>1 DEF CacheType
  <1>3. d.images \in [Sides \X Parsed -> Objects \cup {NoObject}] /\ d.images[<<"dst", p>>] = c.images[<<"src", p>>]
    BY <1>2 DEF CacheType, Sides
  <1>4. \A s \in Sides, q \in Parsed : <<s, q>> # <<"dst", p>> => d.images[<<s, q>>] = c.images[<<s, q>>]
    BY <1>2 DEF CacheType
  <1> HIDE DEF d
  <1> QED
    BY <1>2, <1>3, <1>4 DEF CacheType, SameBut, Sides, d
-----------------------------------------------------------------------------
(* Steps, piece by piece *)

DiskType == disk \in [Sides \X Paths -> Images]

\* A step that leaves the dump alone.
DumpUntouched == \A p \in Paths : disk'[<<"src", p>>] = disk[<<"src", p>>]

\* An image that is written to the output changes nothing else.
LEMMA WriteLemma ==
    ASSUME DiskType, NEW p \in Paths, NEW img \in Images, Write(p, img)
    PROVE  /\ DiskType' /\ DumpUntouched
           /\ disk'[<<"dst", p>>] = img
           /\ \A q \in Paths \ {p} : disk'[<<"dst", q>>] = disk[<<"dst", q>>]
  <1>1. /\ DiskType' /\ disk'[<<"dst", p>>] = img
        /\ \A s \in Sides, q \in Paths : <<s, q>> # <<"dst", p>> => disk'[<<s, q>>] = disk[<<s, q>>]
    BY DEF Write, DiskType, Sides
  <1> QED
    BY <1>1 DEF DumpUntouched, Sides

LEMMA SourceKept ==
    ASSUME SourceOK, DumpUntouched, case' = case
    PROVE  SourceOK'
  <1>1. "pages" \in Paths
    BY DEF Paths
  <1> QED
    BY <1>1 DEF SourceOK, DumpUntouched, Moves

\* A run that ends leaves a right output right and the dump as it was.
LEMMA StopLemma ==
    ASSUME TypeOK', SourceOK', OutputRight', pc' = 0
    PROVE  Inv'
  BY DEF Inv, OutOK, PlainOK, PagesOK, CoresOK, TakenOK, OtherArch, CoreCache, MemCache, FilesCache

\* Stop() ends a run.
LEMMA StopType ==
    ASSUME TypeOK, DiskType', cache' \in CacheType, NEW how \in {"refused", "raised", "done"}, Stop(how),
           out' \in {"old", "partial", "new"}
    PROVE  TypeOK' /\ pc' = 0 /\ case' = case
  BY PlanLemma DEF TypeOK, DiskType, CacheType, Stop

\* Go goes to the next step.
LEMMA GoType ==
    ASSUME TypeOK, DiskType', cache' \in CacheType, Go, pc \in 1 .. 19, out' \in {"old", "partial", "new"}
    PROVE  /\ TypeOK' /\ pc' = pc + 1 /\ case' = case /\ todo' = case.threads
           /\ \A p : Passed(p)' <=> Passed(p) \/ Plan[pc] = p
  BY PlanLemma DEF TypeOK, DiskType, CacheType, Go, GoOver, Passed

\* The rounds of a loop over the core images: all but the last stay at the step.
LEMMA RoundType ==
    ASSUME TypeOK, DiskType', cache' \in CacheType, NEW t, EachCore(t), todo # {t}, out' \in {"old", "partial", "new"}
    PROVE  TypeOK' /\ pc' = pc /\ case' = case /\ todo' = todo \ {t} /\ t \in todo
  BY PlanLemma DEF TypeOK, DiskType, CacheType, EachCore

\* What a step writes of the images that are written at once.
LEMMA PlainAdvance ==
    ASSUME Inv, pc \in 3 .. 19, Go,
           \A p \in Plain : p # Plan[pc] => disk'[<<"dst", p>>] = disk[<<"dst", p>>],
           Plan[pc] \in Plain => disk'[<<"dst", Plan[pc]>>] = Converted(Plan[pc])
    PROVE  PlainOK'
  <1>1. /\ pc' = pc + 1 /\ case' = case
        /\ \A p : Passed(p)' <=> Passed(p) \/ Plan[pc] = p
    BY DEF Go, GoOver, Passed
  <1>2. ASSUME NEW p \in Plain
        PROVE  disk'[<<"dst", p>>] = IF Passed(p)' THEN Converted(p) ELSE NoFile
    BY <1>1 DEF Inv, PlainOK
  <1>3. \A p : Converted(p)' = Converted(p)
    BY <1>1 DEF Converted
  <1> QED
    BY <1>2, <1>3 DEF PlainOK

\* The steps that leave the pages of the output alone.
LEMMA PagesAdvance ==
    ASSUME Inv, pc \in 3 .. 19, pc \in {10, 11, 17} => case.measure, Go,
           disk'[<<"dst", "pages">>] = disk[<<"dst", "pages">>]
    PROVE  PagesOK'
  BY DEF Inv, PagesOK, Go, GoOver

\* The steps that leave the core images of the output alone.
LEMMA CoresAdvance ==
    ASSUME Inv, pc \in 3 .. 19, pc \in {14, 17} => case.measure, Go,
           \A t \in Threads : disk'[<<"dst", t>>] = disk[<<"dst", t>>]
    PROVE  CoresOK'
  <1>1. pc' = pc + 1 /\ case' = case /\ todo' = case.threads
    BY DEF Go, GoOver
  <1>2. ASSUME NEW t \in Threads
        PROVE  disk'[<<"dst", t>>] = CoreWritten(t)'
    BY <1>1 DEF Inv, CoresOK, CoreWritten, Zeroed
  <1> QED
    BY <1>2 DEF CoresOK
-----------------------------------------------------------------------------
(* Each action keeps the invariant *)

LEMMA NoCacheLemma ==
    /\ NoCache \in CacheType
    /\ \A p \in Parsed : NoCache.images[<<"src", p>>] = NoObject
  <1>1. NoCache.images \in [Sides \X Parsed -> Objects \cup {NoObject}]
    BY DEF NoCache
  <1>2. NoCache.heap \in [Objects \X Parsed -> Images]
    BY ImageTypes DEF NoCache
  <1> QED
    BY <1>1, <1>2 DEF NoCache, CacheType, Sides

LEMMA InitInv == Init => Inv
  <1> SUFFICES ASSUME Init PROVE Inv
    OBVIOUS
  <1> DEFINE all == [case EXCEPT !.threads = Threads]
  <1>1. case \in Cases /\ all.threads = Threads /\ case.threads \subseteq Threads
        /\ case.arch \in Archs /\ case.target \in Archs
    BY CaseType DEF Init
  <1> HIDE DEF all
  <1>2. PICK old \in BOOLEAN : disk = [sp \in Sides \X Paths |->
           IF sp[1] = "src" THEN ImageOf(case, "dump", case.arch, sp[2])
           ELSE IF old THEN ImageOf(all, "old", case.target, sp[2])
           ELSE NoFile]
    BY DEF Init, all
  <1>3. ASSUME NEW s \in Sides, NEW p \in Paths
        PROVE  disk[<<s, p>>] \in Images
    <2>1. ImageOf(case, "dump", case.arch, p) \in Images
      BY <1>1, ImageOfType
    <2>2. ImageOf(all, "old", case.target, p) \in Images
      BY <1>1, ImageOfType
    <2>3. disk[<<s, p>>] = IF s = "src" THEN ImageOf(case, "dump", case.arch, p)
                           ELSE IF old THEN ImageOf(all, "old", case.target, p) ELSE NoFile
      BY <1>2
    <2> QED
      BY <2>1, <2>2, <2>3, ImageTypes
  <1>4. DiskType
    BY <1>2, <1>3 DEF DiskType
  <1>5. TypeOK
    BY <1>1, <1>4, NoCacheLemma, PlanLemma, ThreadsAssumption DEF TypeOK, Init, DiskType, CacheType
  <1>6. SourceOK
    <2>1. \A p \in Paths : disk[<<"src", p>>] = ImageOf(case, "dump", case.arch, p)
      BY <1>2 DEF Sides
    <2> QED
      BY <2>1, ImageOfLemma DEF SourceOK, Pages, Paths
  <1>7. pc = 0 /\ out = "old"
    BY DEF Init
  <1> QED
    BY <1>5, <1>6, <1>7 DEF Inv, OutOK, PlainOK, PagesOK, CoresOK, TakenOK, OtherArch, CoreCache, MemCache,
       FilesCache, OutputRight

LEMMA StartInv ==
    ASSUME Inv, Start
    PROVE  Inv'
  <1>1. /\ pc = 0 /\ pc' = 1 /\ cache' = NoCache /\ UNCHANGED <<case, disk, out>>
        /\ runs < MaxRuns /\ runs' = runs + 1 /\ todo' = case.threads /\ last' = "none"
    BY DEF Start
  <1>2. TypeOK'
    BY <1>1, NoCacheLemma, PlanLemma, ThreadsAssumption DEF Inv, TypeOK, CacheType
  <1>3. SourceOK' /\ OutputRight'
    BY <1>1 DEF Inv, SourceOK, OutputRight, Moves, Converted
  <1>4. \A p \in Parsed : Unloaded(p)'
    BY <1>1, NoCacheLemma DEF Unloaded
  <1>5. CoreCache' /\ MemCache' /\ FilesCache'
    <2>1. case.threads \subseteq Parsed /\ {"mm", "pagemap", "files"} \subseteq Parsed
      BY CaseType DEF Inv, TypeOK, Parsed
    <2> QED
      BY <1>1, <1>4, <2>1 DEF CoreCache, MemCache, FilesCache
  <1> QED
    BY <1>1, <1>2, <1>3, <1>5 DEF Inv, OutOK, PlainOK, PagesOK, CoresOK, TakenOK, OtherArch

\* A cache that differs in one core image only.
LEMMA OneCore ==
    ASSUME Inv, NEW t \in Threads, SameBut(cache, cache', t), case' = case
    PROVE  /\ \A q \in {"mm", "pagemap", "files"} : (Unloaded(q)' <=> Unloaded(q)) /\ \A i : Holds(q, i)' <=> Holds(q, i)
           /\ \A q \in Threads \ {t} : (Unloaded(q)' <=> Unloaded(q)) /\ \A i : Holds(q, i)' <=> Holds(q, i)
  <1>1. \A q \in Parsed \ {t} : /\ cache'.images[<<"src", q>>] = cache.images[<<"src", q>>]
                               /\ cache'.heap[<<<<"src", FALSE>>, q>>] = cache.heap[<<<<"src", FALSE>>, q>>]
    BY DEF SameBut, Sides, Objects
  <1>2. {"mm", "pagemap", "files"} \subseteq Parsed \ {t} /\ Threads \ {t} \subseteq Parsed \ {t}
    BY ThreadNames DEF Parsed
  <1> QED
    BY <1>1, <1>2 DEF Unloaded, Holds

\* Of the cache, c has read the core image of t.
CoreRead(c, t) ==
    /\ c \in CacheType /\ SameBut(cache, c, t) /\ t \in Threads /\ t \in case.threads /\ t \in Parsed
    /\ c.images[<<"src", t>>] = <<"src", FALSE>>
    /\ c.heap[<<<<"src", FALSE>>, t>>] = Image("dump", case.arch, "saved", TlsOf(case.arch), {})

\* What assert_conditions() and transform_core_file() read of a core image is the dump's.
LEMMA CoreLoaded ==
    ASSUME Inv, NEW t \in todo, pc \in 1 .. 14
    PROVE  CoreRead(Load(cache, "src", t, FALSE), t)
  <1> DEFINE c == Load(cache, "src", t, FALSE)
             img == Image("dump", case.arch, "saved", TlsOf(case.arch), {})
  <1>1. t \in case.threads /\ t \in Threads /\ t \in Parsed /\ cache \in CacheType /\ DiskType
    BY CaseType DEF Inv, TypeOK, CacheType, DiskType, Parsed
  <1>2. ImageOf(case, "dump", case.arch, t) = img
    BY <1>1, CoreImage
  <1>3. disk[<<"src", t>>] = img
    BY <1>1, <1>2, ThreadNames DEF Inv, SourceOK
  <1>4. Unloaded(t) \/ Holds(t, img)
    BY <1>1, <1>2 DEF Inv, CoreCache
  <1>5. <<"src", FALSE>> \in Objects /\ NoObject # <<"src", FALSE>> /\ "src" \in Sides
    BY DEF Objects, NoObject, Sides
  <1>6. /\ c \in CacheType /\ SameBut(cache, c, t)
        /\ Unloaded(t) => /\ c.images[<<"src", t>>] = <<"src", FALSE>>
                          /\ c.heap[<<<<"src", FALSE>>, t>>] = disk[<<"src", t>>]
        /\ ~Unloaded(t) => c = cache
    BY <1>1, <1>5, LoadLemma DEF DiskType, Unloaded
  <1> HIDE DEF c
  <1> QED
    BY <1>1, <1>3, <1>4, <1>5, <1>6 DEF Unloaded, Holds, CoreRead, c

LEMMA AssertInv ==
    ASSUME Inv, AssertConditions
    PROVE  Inv'
  <1>1. pc = 1 /\ UNCHANGED <<disk, out>>
    BY PlanLemma DEF AssertConditions, At
  <1>2. PICK t \in todo : /\ cache' = Load(cache, "src", t, FALSE)
                         /\ IF \/ Loaded(cache', "src", t).arch = case.target
                               \/ todo = {t} /\ case.target = "aarch64" /\ ~case.sameMode
                            THEN Stop("refused") ELSE EachCore(t)
    BY DEF AssertConditions
  <1>3. /\ cache' \in CacheType /\ SameBut(cache, cache', t) /\ t \in Threads /\ t \in case.threads
        /\ cache'.images[<<"src", t>>] = <<"src", FALSE>>
        /\ cache'.heap[<<<<"src", FALSE>>, t>>] = Image("dump", case.arch, "saved", TlsOf(case.arch), {})
    <2>1. pc \in 1 .. 14
      BY <1>1
    <2>2. CoreRead(Load(cache, "src", t, FALSE), t)
      BY <2>1, CoreLoaded, Zenon
    <2> QED
      BY <1>2, <2>2 DEF CoreRead
  <1>4. DiskType' /\ TypeOK /\ out' \in {"old", "partial", "new"}
    BY <1>1 DEF Inv, TypeOK, DiskType
  <1>5. CASE Stop("refused")
    <2>1. TypeOK' /\ pc' = 0 /\ case' = case
      BY <1>3, <1>4, <1>5, StopType
    <2> QED
      BY <1>1, <2>1, StopLemma DEF Inv, SourceOK, OutputRight, Moves, Converted
  <1>6. CASE EachCore(t) /\ Loaded(cache', "src", t).arch # case.target
    <2>1. case.arch # case.target
      BY <1>3, <1>6, ImageFields DEF Loaded, Object
    <2>2. TypeOK' /\ case' = case /\ pc' \in {1, 2}
      <3>1. CASE todo = {t}
        BY <1>1, <1>3, <1>4, <1>6, <3>1, GoType DEF EachCore
      <3>2. CASE todo # {t}
        BY <1>1, <1>3, <1>4, <1>6, <3>2, RoundType
      <3> QED
        BY <3>1, <3>2
    <2>3. Holds(t, ImageOf(case, "dump", case.arch, t))'
      <3>1. ImageOf(case, "dump", case.arch, t) = Image("dump", case.arch, "saved", TlsOf(case.arch), {})
        BY <1>3, CoreImage
      <3> QED
        BY <1>3, <2>2, <3>1 DEF Holds
    <2>4. CoreCache' /\ MemCache' /\ FilesCache'
      <3>1. /\ \A q \in {"mm", "pagemap", "files"} : Unloaded(q)' <=> Unloaded(q)
            /\ \A q \in Threads \ {t} : (Unloaded(q)' <=> Unloaded(q)) /\ \A i : Holds(q, i)' <=> Holds(q, i)
        BY <1>3, <2>2, OneCore
      <3>2. \A q \in case.threads : Unloaded(q) \/ Holds(q, ImageOf(case, "dump", case.arch, q))
        BY <1>1 DEF Inv, CoreCache
      <3>3. case.threads \subseteq Threads
        BY CaseType DEF Inv, TypeOK
      <3>4. \A q \in case.threads : Unloaded(q)' \/ Holds(q, ImageOf(case, "dump", case.arch, q))'
        BY <2>2, <2>3, <3>1, <3>2, <3>3
      <3> QED
        BY <1>1, <2>2, <3>1, <3>4 DEF Inv, CoreCache, MemCache, FilesCache
    <2>5. SourceOK' /\ OutputRight'
      BY <1>1, <2>2 DEF Inv, SourceOK, OutputRight, Moves, Converted
    <2> QED
      BY <2>1, <2>2, <2>4, <2>5 DEF Inv, OutOK, PlainOK, PagesOK, CoresOK, TakenOK, OtherArch
  <1> QED
    BY <1>2, <1>5, <1>6

LEMMA MakeDestInv ==
    ASSUME Inv, MakeDest
    PROVE  Inv'
  <1>1. pc = 2 /\ out' = "partial" /\ Go /\ cache' = cache
    BY PlanLemma DEF MakeDest, MakeDestBut, At
  <1>2. /\ DiskType' /\ DumpUntouched
        /\ \A p \in Paths : disk'[<<"dst", p>>] = NoFile
    <2>1. disk' = [sp \in Sides \X Paths |-> IF sp[1] = "dst" /\ sp[2] \notin {} THEN NoFile ELSE disk[sp]]
      BY DEF MakeDest, MakeDestBut
    <2>2. \A p \in Paths : disk'[<<"dst", p>>] = NoFile /\ disk'[<<"src", p>>] = disk[<<"src", p>>]
      BY <2>1 DEF Sides
    <2> QED
      BY <2>1, <2>2, ImageTypes DEF Inv, TypeOK, DiskType, DumpUntouched, Sides
  <1>3. /\ TypeOK' /\ pc' = 3 /\ case' = case /\ todo' = case.threads
        /\ \A p : Passed(p)' <=> Passed(p) \/ Plan[2] = p
    BY <1>1, <1>2, GoType DEF Inv, TypeOK, CacheType
  <1>4. PlainOK'
    <2>1. \A p \in Plain : ~Passed(p)'
      BY <1>1, <1>3, PlainSteps, PlanLemma DEF Passed
    <2>2. Plain \subseteq Paths
      BY ThreadNames
    <2> QED
      BY <1>2, <2>1, <2>2 DEF PlainOK
  <1>5. PagesOK' /\ CoresOK'
    <2>1. "pages" \in Paths /\ Threads \subseteq Paths
      BY DEF Paths, Parsed
    <2>2. PagesOK'
      BY <1>2, <1>3, <2>1 DEF PagesOK
    <2>3. \A t \in Threads : CoreWritten(t)' = NoFile
      BY <1>3 DEF CoreWritten
    <2> QED
      BY <1>2, <2>1, <2>2, <2>3 DEF CoresOK
  <1>6. SourceOK'
    BY <1>2, <1>3, SourceKept DEF Inv
  <1>7. CoreCache' /\ MemCache' /\ FilesCache'
    <2>1. \A t \in case.threads : Unloaded(t) \/ Holds(t, ImageOf(case, "dump", case.arch, t))
      BY <1>1 DEF Inv, CoreCache
    <2>2. CoreCache'
      BY <1>1, <1>3, <2>1 DEF CoreCache, Unloaded, Holds
    <2>3. Unloaded("mm") /\ Unloaded("pagemap") /\ Unloaded("files")
      BY <1>1 DEF Inv, MemCache, FilesCache
    <2> QED
      BY <1>1, <1>3, <2>2, <2>3 DEF MemCache, FilesCache, Unloaded
  <1> QED
    BY <1>1, <1>3, <1>4, <1>5, <1>6, <1>7 DEF Inv, OutOK, TakenOK, OtherArch, OutputRight

\* A step behind the second that advances and leaves the dump and the cache alone.
LEMMA QuietStep ==
    ASSUME Inv, pc \in 3 .. 19, pc \notin 9 .. 13 \/ case.measure, Go, DiskType', DumpUntouched,
           UNCHANGED <<cache, out>>, PlainOK', PagesOK', CoresOK'
    PROVE  Inv'
  <1>1. TypeOK' /\ pc' = pc + 1 /\ case' = case /\ todo' = case.threads
    BY GoType DEF Inv, TypeOK, CacheType
  <1>2. SourceOK'
    BY <1>1, SourceKept DEF Inv
  <1>3. CoreCache'
    <2>1. ASSUME NEW t \in case.threads, pc' \in 1 .. 13 \/ (pc' = 14 /\ t \in todo')
          PROVE  Unloaded(t) \/ Holds(t, ImageOf(case, "dump", case.arch, t))
      BY <1>1, <2>1 DEF Inv, CoreCache
    <2> QED
      BY <1>1, <2>1 DEF CoreCache, Unloaded, Holds
  <1>4. MemCache' /\ FilesCache'
    <2>1. FilesCache'
      BY <1>1 DEF Inv, FilesCache, Unloaded
    <2>2. ASSUME NEW p \in {"mm", "pagemap"}, pc' \in 1 .. 9
          PROVE  Unloaded(p)'
      BY <1>1, <2>2 DEF Inv, MemCache, Unloaded
    <2>3. ~(pc' \in 10 .. 13 /\ ~case'.measure)
      BY <1>1
    <2> QED
      BY <2>1, <2>2, <2>3 DEF MemCache
  <1>5. TakenOK' /\ OtherArch' /\ OutOK' /\ OutputRight'
    <2>1. disk'[<<"src", "pages">>] = disk[<<"src", "pages">>]
      BY DEF DumpUntouched, Paths
    <2> QED
      BY <1>1, <2>1 DEF Inv, TakenOK, OtherArch, OutOK, OutputRight, Moves
  <1> QED
    BY <1>1, <1>2, <1>3, <1>4, <1>5 DEF Inv

LEMMA CopyInv ==
    ASSUME Inv, Copy
    PROVE  Inv'
  <1>1. /\ pc \in 1 .. 19 /\ Plan[pc] \in Copied /\ Go /\ UNCHANGED <<cache, out>>
        /\ IF disk[<<"src", Plan[pc]>>] = NoFile THEN disk' = disk ELSE Write(Plan[pc], disk[<<"src", Plan[pc]>>])
    BY PlanLemma DEF Copy, At, Step
  <1>2. pc \in (3 .. 8) \cup {16, 18, 19}
    BY <1>1, PlanLemma
  <1> DEFINE p == Plan[pc]
  <1>3. p \in Plain /\ p \in Paths /\ p \notin Threads /\ p # "pages" /\ p \notin {"mm", "pagemap", "pages"}
    BY <1>1, <1>2, ThreadNames, PlanLemma DEF Plain
  <1>4. disk[<<"src", p>>] = Converted(p)
    <2>1. disk[<<"src", p>>] = ImageOf(case, "dump", case.arch, p)
      BY <1>3 DEF Inv, SourceOK
    <2>2. ImageOf(case, "dump", case.arch, p) = ImageOf(case, "dump", case.target, p)
      BY <1>1 DEF ImageOf
    <2>3. Converted(p) = ImageOf(case, "dump", case.target, p)
      BY <1>3 DEF Converted
    <2> QED
      BY <2>1, <2>2, <2>3
  <1>5. /\ DiskType' /\ DumpUntouched
        /\ disk'[<<"dst", p>>] = Converted(p)
        /\ \A q \in Paths \ {p} : disk'[<<"dst", q>>] = disk[<<"dst", q>>]
    <2>1. CASE disk[<<"src", p>>] = NoFile
      <3>1. ~Passed(p)
        BY <1>1, PlanLemma DEF Passed
      <3>2. disk[<<"dst", p>>] = NoFile
        BY <1>2, <1>3, <3>1 DEF Inv, PlainOK
      <3> QED
        BY <1>1, <1>4, <2>1, <3>2 DEF Inv, TypeOK, DiskType, DumpUntouched
    <2>2. CASE disk[<<"src", p>>] # NoFile
      <3>1. disk[<<"src", p>>] \in Images /\ DiskType
        BY <1>3 DEF Inv, TypeOK, DiskType, Sides
      <3>2. Write(p, disk[<<"src", p>>])
        BY <1>1, <2>2
      <3> HIDE DEF p
      <3> QED
        BY <1>3, <1>4, <3>1, <3>2, WriteLemma
    <2> QED
      BY <2>1, <2>2
  <1>6. PlainOK'
    <2>1. \A q \in Plain : q # Plan[pc] => disk'[<<"dst", q>>] = disk[<<"dst", q>>]
      BY <1>5, ThreadNames
    <2> QED
      BY <1>1, <1>2, <1>5, <2>1, PlainAdvance
  <1>7. PagesOK' /\ CoresOK'
    <2>1. "pages" \in Paths \ {p} /\ Threads \subseteq Paths \ {p}
      BY <1>3 DEF Paths, Parsed
    <2> QED
      BY <1>1, <1>2, <1>5, <2>1, PagesAdvance, CoresAdvance
  <1> QED
    BY <1>1, <1>2, <1>5, <1>6, <1>7, QuietStep

LEMMA MeasuredInv ==
    ASSUME Inv, Measured
    PROVE  Inv'
  <1>1. pc \in 1 .. 19 /\ Plan[pc] \in Measures /\ Go /\ UNCHANGED <<disk, cache, out>> /\ case.measure
    BY PlanLemma DEF Measured, At
  <1>2. pc \in 3 .. 19 /\ Plan[pc] \notin Copied \cup {"files"}
    BY <1>1, PlanLemma DEF Measures, Copied
  <1>3. DiskType' /\ DumpUntouched
    BY <1>1 DEF Inv, TypeOK, DiskType, DumpUntouched
  <1>4. PlainOK'
    <2>1. ASSUME Plan[pc] \in Plain
          PROVE  disk'[<<"dst", Plan[pc]>>] = Converted(Plan[pc])
      <3>1. ~Passed(Plan[pc])
        BY <1>1, PlanLemma DEF Passed
      <3>2. Converted(Plan[pc]) = NoFile
        BY <1>1, <1>2, <2>1 DEF Plain, Converted
      <3> QED
        BY <1>1, <1>2, <2>1, <3>1, <3>2 DEF Inv, PlainOK
    <2> QED
      BY <1>1, <1>2, <2>1, PlainAdvance
  <1>5. PagesOK' /\ CoresOK'
    BY <1>1, <1>2, PagesAdvance, CoresAdvance
  <1> QED
    BY <1>1, <1>2, <1>3, <1>4, <1>5, QuietStep

\* The run ends, with the disk and the cache as they are.
LEMMA StopQuiet ==
    ASSUME Inv, NEW how \in {"refused", "raised", "done"}, Stop(how), UNCHANGED <<disk, cache, out>>
    PROVE  Inv'
  <1>1. TypeOK' /\ pc' = 0 /\ case' = case
    BY StopType DEF Inv, TypeOK, DiskType, CacheType
  <1> QED
    BY <1>1, StopLemma DEF Inv, SourceOK, OutputRight, Moves, Converted

\* What the cache holds of q is left alone.
CacheKept(q) ==
    /\ cache'.images[<<"src", q>>] = cache.images[<<"src", q>>]
    /\ cache'.heap[<<<<"src", FALSE>>, q>>] = cache.heap[<<<<"src", FALSE>>, q>>]

\* The next cache holds p, for an architecture.
Held(p, arch) ==
    /\ cache'.images[<<"src", p>>] = <<"src", FALSE>>
    /\ cache'.heap[<<<<"src", FALSE>>, p>>] = ImageOf(case, "dump", arch, p)

\* The steps of transform_target_mem(), which leave cached core images and files alone.
LEMMA MemStep ==
    ASSUME Inv, pc \in 9 .. 13, ~case.measure, Go, DiskType', cache' \in CacheType, out' = out,
           SourceOK', TakenOK', PlainOK', PagesOK', CoresOK',
           \A q \in Threads \cup {"files"} : CacheKept(q),
           \A p \in {"mm", "pagemap"} :
               pc \in 9 .. 12 => Held(p, IF pc <= 10 THEN case.arch ELSE case.target)
    PROVE  Inv'
  <1>1. TypeOK' /\ pc' = pc + 1 /\ case' = case /\ todo' = case.threads
    BY GoType DEF Inv, TypeOK, CacheType
  <1>2. CoreCache'
    <2>1. \A t \in case.threads : Unloaded(t) \/ Holds(t, ImageOf(case, "dump", case.arch, t))
      BY DEF Inv, CoreCache
    <2>2. case.threads \subseteq Threads
      BY CaseType DEF Inv, TypeOK
    <2> QED
      BY <1>1, <2>1, <2>2 DEF CoreCache, Unloaded, Holds, CacheKept
  <1>3. FilesCache'
    <2>1. CacheKept("files") /\ Unloaded("files")
      BY DEF Inv, FilesCache
    <2> QED
      BY <2>1 DEF FilesCache, Unloaded, CacheKept
  <1>4. MemCache'
    <2>1. ASSUME NEW p \in {"mm", "pagemap"}, pc' \in 10 .. 13
          PROVE  Held(p, IF pc' <= 11 THEN case.arch ELSE case.target)
      <3>1. pc \in 9 .. 12 /\ (pc' <= 11 <=> pc <= 10)
        BY <1>1, <2>1
      <3> QED
        BY <3>1
    <2>2. pc' \notin 1 .. 9
      BY <1>1
    <2> QED
      BY <1>1, <2>1, <2>2 DEF MemCache, Holds, Held
  <1>5. OtherArch' /\ OutOK' /\ OutputRight'
    BY <1>1 DEF Inv, OtherArch, OutOK, OutputRight
  <1> QED
    BY <1>1, <1>2, <1>3, <1>4, <1>5 DEF Inv

LEMMA LoadMemInv ==
    ASSUME Inv, LoadMem
    PROVE  Inv'
  <1>1. /\ pc = 9 /\ ~case.measure /\ UNCHANGED <<disk, out>>
        /\ IF disk[<<"src", "pages">>] = NoFile
           THEN Stop("raised") /\ cache' = cache
           ELSE Go /\ cache' = Load(Load(cache, "src", "mm", FALSE), "src", "pagemap", FALSE)
    <2>1. pc = 9
      BY PlanLemma DEF LoadMem, At
    <2> QED
      BY <2>1 DEF LoadMem
  <1>2. CASE disk[<<"src", "pages">>] = NoFile
    BY <1>1, <1>2, StopQuiet
  <1>3. CASE disk[<<"src", "pages">>] # NoFile
    <2> DEFINE c == Load(cache, "src", "mm", FALSE)
               d == Load(c, "src", "pagemap", FALSE)
    <2>1. /\ cache \in CacheType /\ DiskType /\ "src" \in Sides /\ <<"src", FALSE>> \in Objects
          /\ {"mm", "pagemap", "files"} \cup Threads \subseteq Parsed
      BY DEF Inv, TypeOK, CacheType, DiskType, Sides, Objects, Parsed
    <2>2. Unloaded("mm") /\ Unloaded("pagemap")
      BY <1>1 DEF Inv, MemCache
    <2>3. /\ c \in CacheType /\ SameBut(cache, c, "mm")
          /\ c.images[<<"src", "mm">>] = <<"src", FALSE>>
          /\ c.heap[<<<<"src", FALSE>>, "mm">>] = disk[<<"src", "mm">>]
      BY <2>1, <2>2, LoadLemma DEF Unloaded, DiskType
    <2> HIDE DEF c
    <2>4. c.images[<<"src", "pagemap">>] = NoObject
      BY <2>1, <2>2, <2>3 DEF SameBut, Unloaded
    <2>5. /\ d \in CacheType /\ SameBut(c, d, "pagemap")
          /\ d.images[<<"src", "pagemap">>] = <<"src", FALSE>>
          /\ d.heap[<<<<"src", FALSE>>, "pagemap">>] = disk[<<"src", "pagemap">>]
      BY <2>1, <2>3, <2>4, LoadLemma DEF DiskType
    <2>6. cache' = d
      BY <1>1, <1>3 DEF c
    <2> HIDE DEF d
    <2>7. /\ cache'.images[<<"src", "mm">>] = <<"src", FALSE>>
          /\ cache'.heap[<<<<"src", FALSE>>, "mm">>] = disk[<<"src", "mm">>]
      BY <2>1, <2>3, <2>5, <2>6 DEF SameBut
    <2>8. \A q \in Threads \cup {"files"} : CacheKept(q)
      <3>1. \A q \in Threads \cup {"files"} : q \in Parsed \ {"mm"} /\ q \in Parsed \ {"pagemap"}
        BY <2>1, ThreadNames
      <3> QED
        BY <2>1, <2>3, <2>5, <2>6, <3>1 DEF SameBut, CacheKept, Sides, Objects
    <2>9. \A p \in {"mm", "pagemap"} : Held(p, IF pc <= 10 THEN case.arch ELSE case.target)
      <3>1. \A p \in {"mm", "pagemap"} : disk[<<"src", p>>] = ImageOf(case, "dump", case.arch, p)
        BY ThreadNames, <2>1 DEF Inv, SourceOK
      <3>2. pc <= 10
        BY <1>1
      <3> QED
        BY <2>5, <2>6, <2>7, <3>1, <3>2 DEF Held
    <2>10. /\ Go /\ DiskType' /\ cache' \in CacheType /\ DumpUntouched
           /\ pc' = 10 /\ case' = case
      <3>1. Go
        BY <1>1, <1>3
      <3>2. pc' = 10 /\ case' = case
        BY <1>1, <3>1 DEF Go, GoOver
      <3> QED
        BY <1>1, <2>1, <2>5, <2>6, <3>1, <3>2 DEF DiskType, DumpUntouched
    <2>11. PlainOK' /\ PagesOK' /\ CoresOK'
      <3>1. Plan[pc] \notin Plain
        BY <1>1, PlainSteps
      <3> QED
        BY <1>1, <2>10, <3>1, PlainAdvance, PagesAdvance, CoresAdvance
    <2>12. SourceOK' /\ TakenOK'
      <3>1. SourceOK'
        BY <2>10, SourceKept DEF Inv
      <3> QED
        BY <1>1, <1>3, <2>10, <3>1 DEF TakenOK
    <2> QED
      BY <1>1, <2>8, <2>9, <2>10, <2>11, <2>12, MemStep
  <1> QED
    BY <1>2, <1>3

LEMMA TakePagesInv ==
    ASSUME Inv, TakePages
    PROVE  Inv'
  <1>1. /\ pc = 10 /\ ~case.measure /\ Go /\ UNCHANGED <<cache, out>>
        /\ disk' = [disk EXCEPT ![<<"dst", "pages">>] = disk[<<"src", "pages">>],
                                ![<<"src", "pages">>] = IF case.noTransform THEN NoFile ELSE @]
    BY PlanLemma DEF TakePages, TakePagesAs, At
  <1>2. pc' = 11 /\ case' = case /\ todo' = case.threads
    BY <1>1 DEF Go, GoOver
  <1>3. disk[<<"src", "pages">>] = Pages(case.arch, case.threads)
    BY <1>1 DEF Inv, SourceOK, TakenOK
  <1>4. /\ DiskType' /\ disk'[<<"dst", "pages">>] = Pages(case.arch, case.threads)
        /\ disk'[<<"src", "pages">>] = IF case.noTransform THEN NoFile ELSE Pages(case.arch, case.threads)
        /\ \A p \in Paths \ {"pages"}, s \in Sides : disk'[<<s, p>>] = disk[<<s, p>>]
    <2>1. "pages" \in Paths /\ Pages(case.arch, case.threads) \in Images /\ NoFile \in Images
      BY CaseType, ImageTypes DEF Inv, TypeOK, Paths
    <2> QED
      BY <1>1, <1>3, <2>1 DEF Inv, TypeOK, DiskType, Sides
  <1>5. \A p \in Paths \ {"pages"} : /\ disk'[<<"dst", p>>] = disk[<<"dst", p>>]
                                     /\ disk'[<<"src", p>>] = disk[<<"src", p>>]
    BY <1>4 DEF Sides
  <1>6. SourceOK' /\ TakenOK'
    <2>1. SourceOK
      BY DEF Inv
    <2>2. SourceOK'
      BY <1>1, <1>2, <1>4, <1>5, <2>1 DEF SourceOK, Moves
    <2>3. TakenOK'
      BY <1>1, <1>2, <1>4 DEF TakenOK, Moves
    <2> QED
      BY <2>2, <2>3
  <1>7. PlainOK' /\ CoresOK'
    <2>1. Plain \cup Threads \subseteq Paths \ {"pages"} /\ Plan[pc] \notin Plain
      BY <1>1, ThreadNames, PlainSteps
    <2>2. pc \in 3 .. 19 /\ pc \notin {14, 17}
      BY <1>1
    <2>3. \A p \in Plain \cup Threads : disk'[<<"dst", p>>] = disk[<<"dst", p>>]
      BY <1>5, <2>1
    <2>4. PlainOK'
      BY <1>1, <2>1, <2>2, <2>3, PlainAdvance
    <2>5. CoresOK'
      BY <1>1, <2>2, <2>3, CoresAdvance
    <2> QED
      BY <2>4, <2>5
  <1>8. PagesOK'
    BY <1>1, <1>2, <1>4 DEF PagesOK
  <1>9. /\ \A q \in Threads \cup {"files"} : CacheKept(q)
        /\ \A p \in {"mm", "pagemap"} : Held(p, IF pc <= 10 THEN case.arch ELSE case.target)
        /\ cache' \in CacheType
    <2>1. \A p \in {"mm", "pagemap"} : Holds(p, ImageOf(case, "dump", case.arch, p))
      BY <1>1 DEF Inv, MemCache
    <2>2. pc <= 10 /\ cache' = cache
      BY <1>1
    <2> QED
      BY <2>1, <2>2 DEF CacheKept, Inv, TypeOK, CacheType, Holds, Held
  <1> QED
    BY <1>1, <1>4, <1>6, <1>7, <1>8, <1>9, MemStep

\* An image for the other architecture.
LEMMA RetargetLemma ==
    ASSUME NEW p \in {"mm", "pagemap", "files"}, case \in Cases
    PROVE  /\ Retarget(ImageOf(case, "dump", case.arch, p)) = ImageOf(case, "dump", case.target, p)
           /\ ImageOf(case, "dump", case.target, p) \in Images
           /\ p \in Paths /\ p \in Parsed
  <1>1. \A a : ImageOf(case, "dump", a, p) = Image("dump", a, "none", 0, {})
    <2>1. p \notin Copied /\ p \notin Threads /\ p # "pages"
      BY ThreadNames DEF Copied
    <2> QED
      BY <2>1 DEF ImageOf
  <1>2. Retarget(Image("dump", case.arch, "none", 0, {})) = Image("dump", case.target, "none", 0, {})
    BY DEF Retarget, Image
  <1>3. p \in Paths /\ p \in Parsed
    BY DEF Paths, Parsed
  <1> QED
    BY <1>1, <1>2, <1>3, CaseType, ImageOfType

LEMMA EditRegionsInv ==
    ASSUME Inv, EditRegions
    PROVE  Inv'
  <1> DEFINE c == Assign(cache, "src", "mm", Retarget(Loaded(cache, "src", "mm")))
             d == Assign(c, "src", "pagemap", Retarget(Loaded(c, "src", "pagemap")))
             new == [Retarget(disk[<<"dst", "pages">>]) EXCEPT !.stacks = {}]
  <1>1. pc = 11 /\ ~case.measure /\ Go /\ out' = out /\ Write("pages", new) /\ cache' = d
    <2>1. pc = 11
      BY PlanLemma DEF EditRegions, At
    <2> QED
      BY <2>1 DEF EditRegions
  <1> HIDE DEF c, d, new
  <1>2. pc' = 12 /\ case' = case /\ todo' = case.threads
    BY <1>1 DEF Go, GoOver
  <1>3. new = Pages(case.target, {}) /\ new \in Images
    <2>1. disk[<<"dst", "pages">>] = Pages(case.arch, case.threads)
      BY <1>1 DEF Inv, PagesOK
    <2>2. new = Pages(case.target, {})
      <3>1. Retarget(Pages(case.arch, case.threads)) = Pages(case.target, case.threads)
        BY DEF Pages, Image, Retarget
      <3>2. [Pages(case.target, case.threads) EXCEPT !.stacks = {}] = Pages(case.target, {})
        BY DEF Pages, Image
      <3> QED
        BY <2>1, <3>1, <3>2 DEF new
    <2> QED
      BY <2>2, CaseType, ImageTypes DEF Inv, TypeOK
  <1>4. /\ cache \in CacheType /\ case \in Cases /\ DiskType
        /\ {"mm", "pagemap", "files"} \cup Threads \subseteq Parsed /\ "src" \in Sides /\ <<"src", FALSE>> \in Objects
    BY DEF Inv, TypeOK, CacheType, DiskType, Parsed, Sides, Objects
  <1>5. \A p \in {"mm", "pagemap"} : Holds(p, ImageOf(case, "dump", case.arch, p))
    BY <1>1 DEF Inv, MemCache
  <1>6. /\ c \in CacheType /\ SameBut(cache, c, "mm") /\ c.images = cache.images
        /\ c.heap[<<<<"src", FALSE>>, "mm">>] = ImageOf(case, "dump", case.target, "mm")
    <2>1. /\ cache.images[<<"src", "mm">>] = <<"src", FALSE>>
          /\ Loaded(cache, "src", "mm") = ImageOf(case, "dump", case.arch, "mm")
      BY <1>5 DEF Holds, Loaded, Object
    <2>2. Retarget(Loaded(cache, "src", "mm")) = ImageOf(case, "dump", case.target, "mm")
      BY <1>4, <2>1, RetargetLemma
    <2>3. ImageOf(case, "dump", case.target, "mm") \in Images
      BY <1>4, RetargetLemma
    <2>4. c = Assign(cache, "src", "mm", ImageOf(case, "dump", case.target, "mm"))
      BY <2>2 DEF c
    <2>5. Assigned(cache, c, "mm", <<"src", FALSE>>, ImageOf(case, "dump", case.target, "mm"))
      BY <1>4, <2>1, <2>3, <2>4, AssignLemma
    <2> QED
      BY <2>5 DEF Assigned
  <1>7. /\ d \in CacheType /\ SameBut(c, d, "pagemap") /\ d.images = c.images
        /\ d.heap[<<<<"src", FALSE>>, "pagemap">>] = ImageOf(case, "dump", case.target, "pagemap")
    <2>1. /\ c.images[<<"src", "pagemap">>] = <<"src", FALSE>>
          /\ c.heap[<<<<"src", FALSE>>, "pagemap">>] = ImageOf(case, "dump", case.arch, "pagemap")
      BY <1>4, <1>5, <1>6 DEF Holds, SameBut
    <2>2. Retarget(Loaded(c, "src", "pagemap")) = ImageOf(case, "dump", case.target, "pagemap")
      <3>1. Loaded(c, "src", "pagemap") = ImageOf(case, "dump", case.arch, "pagemap")
        BY <2>1 DEF Loaded, Object
      <3> QED
        BY <1>4, <3>1, RetargetLemma
    <2>3. ImageOf(case, "dump", case.target, "pagemap") \in Images
      BY <1>4, RetargetLemma
    <2>4. d = Assign(c, "src", "pagemap", ImageOf(case, "dump", case.target, "pagemap"))
      BY <2>2 DEF d
    <2>5. Assigned(c, d, "pagemap", <<"src", FALSE>>, ImageOf(case, "dump", case.target, "pagemap"))
      BY <1>4, <1>6, <2>1, <2>3, <2>4, AssignLemma
    <2> QED
      BY <2>5 DEF Assigned
  <1>8. Held("mm", case.target) /\ Held("pagemap", case.target)
    <2>1. d.heap[<<<<"src", FALSE>>, "mm">>] = c.heap[<<<<"src", FALSE>>, "mm">>]
      BY <1>4, <1>7 DEF SameBut
    <2>2. \A p \in {"mm", "pagemap"} : d.images[<<"src", p>>] = <<"src", FALSE>>
      BY <1>5, <1>6, <1>7 DEF Holds
    <2> QED
      BY <1>1, <1>6, <1>7, <2>1, <2>2 DEF Held
  <1>9. \A q \in Threads \cup {"files"} : CacheKept(q)
    <2>1. \A q \in Threads \cup {"files"} : q \in Parsed \ {"mm"} /\ q \in Parsed \ {"pagemap"}
      BY <1>4, ThreadNames
    <2> QED
      BY <1>1, <1>4, <1>6, <1>7, <2>1 DEF SameBut, CacheKept, Sides, Objects
  <1>10. /\ DiskType' /\ DumpUntouched /\ disk'[<<"dst", "pages">>] = Pages(case.target, {})
         /\ \A q \in Plain \cup Threads : disk'[<<"dst", q>>] = disk[<<"dst", q>>]
    <2>1. "pages" \in Paths /\ Plain \cup Threads \subseteq Paths \ {"pages"}
      BY ThreadNames DEF Paths
    <2> QED
      BY <1>1, <1>3, <1>4, <2>1, WriteLemma
  <1>11. SourceOK' /\ TakenOK'
    <2>1. SourceOK'
      BY <1>2, <1>10, SourceKept DEF Inv
    <2>2. disk'[<<"src", "pages">>] = disk[<<"src", "pages">>]
      BY <1>10 DEF DumpUntouched, Paths
    <2> QED
      BY <1>1, <1>2, <2>1, <2>2 DEF Inv, TakenOK, Moves
  <1>12. PlainOK' /\ CoresOK' /\ PagesOK'
    <2>1. Plan[pc] \notin Plain /\ pc \in 3 .. 19 /\ pc \notin {14, 17}
      BY <1>1, PlainSteps
    <2>2. PlainOK'
      BY <1>1, <1>10, <2>1, PlainAdvance
    <2>3. CoresOK'
      BY <1>1, <1>10, <2>1, CoresAdvance
    <2>4. PagesOK'
      BY <1>1, <1>2, <1>10 DEF PagesOK
    <2> QED
      BY <2>2, <2>3, <2>4
  <1>13. \A p \in {"mm", "pagemap"} : Held(p, IF pc <= 10 THEN case.arch ELSE case.target)
    BY <1>1, <1>8
  <1> QED
    BY <1>1, <1>7, <1>9, <1>10, <1>11, <1>12, <1>13, MemStep

LEMMA DumpMemInv ==
    ASSUME Inv, DumpMem
    PROVE  Inv'
  <1> DEFINE p == Plan[pc]
             new == Loaded(cache', "dst", p)
  <1>1. /\ pc \in {12, 13} /\ p \in {"mm", "pagemap"} /\ ~case.measure /\ Go /\ out' = out
        /\ cache' = Share(cache, p) /\ Write(p, new)
    <2>1. pc \in {12, 13} /\ p \in {"mm", "pagemap"}
      BY PlanLemma DEF DumpMem, DumpMemTo, At
    <2> QED
      BY <2>1 DEF DumpMem, DumpMemTo, Write, Step
  <1> HIDE DEF p, new
  <1>2. pc' = pc + 1 /\ case' = case /\ todo' = case.threads
    BY <1>1 DEF Go, GoOver
  <1>3. /\ cache \in CacheType /\ case \in Cases /\ DiskType
        /\ {"mm", "pagemap", "files"} \cup Threads \subseteq Parsed
    BY DEF Inv, TypeOK, CacheType, DiskType, Parsed
  <1>4. \A q \in {"mm", "pagemap"} : Holds(q, ImageOf(case, "dump", case.target, q))
    BY <1>1 DEF Inv, MemCache
  <1>5. /\ cache' \in CacheType /\ SameBut(cache, cache', p) /\ cache'.heap = cache.heap
        /\ cache'.images[<<"src", p>>] = cache.images[<<"src", p>>]
        /\ cache'.images[<<"dst", p>>] = cache.images[<<"src", p>>]
    BY <1>1, <1>3, ShareLemma
  <1>6. \A q \in Parsed : CacheKept(q)
    BY <1>5 DEF CacheKept, SameBut, Sides
  <1>7. new = Converted(p) /\ new \in Images
    <2>1. new = ImageOf(case, "dump", case.target, p)
      BY <1>1, <1>4, <1>5 DEF new, Loaded, Object, Holds
    <2> QED
      BY <1>1, <1>3, <2>1, RetargetLemma DEF Converted
  <1>8. /\ DiskType' /\ DumpUntouched /\ disk'[<<"dst", p>>] = Converted(p)
        /\ \A q \in Paths \ {p} : disk'[<<"dst", q>>] = disk[<<"dst", q>>]
    <2>1. p \in Paths
      BY <1>1, <1>3, RetargetLemma
    <2> QED
      BY <1>1, <1>3, <1>7, <2>1, WriteLemma
  <1>9. PlainOK' /\ CoresOK' /\ PagesOK'
    <2>1. pc \in 3 .. 19 /\ pc \notin {10, 11, 14, 17}
      BY <1>1
    <2>2. "pages" \in Paths \ {p} /\ Threads \subseteq Paths \ {p} /\ Plain \subseteq Paths
      BY <1>1, ThreadNames DEF Paths
    <2>3. PlainOK'
      BY <1>1, <1>8, <2>1, <2>2, PlainAdvance DEF p
    <2>4. CoresOK'
      BY <1>1, <1>8, <2>1, <2>2, CoresAdvance
    <2>5. PagesOK'
      BY <1>1, <1>8, <2>1, <2>2, PagesAdvance
    <2> QED
      BY <2>3, <2>4, <2>5
  <1>10. SourceOK' /\ TakenOK'
    <2>1. SourceOK'
      BY <1>2, <1>8, SourceKept DEF Inv
    <2>2. disk'[<<"src", "pages">>] = disk[<<"src", "pages">>]
      BY <1>8 DEF DumpUntouched, Paths
    <2> QED
      BY <1>1, <1>2, <2>1, <2>2 DEF Inv, TakenOK, Moves
  <1>11. \A q \in {"mm", "pagemap"} : Held(q, IF pc <= 10 THEN case.arch ELSE case.target)
    <2>1. ~(pc <= 10)
      BY <1>1
    <2> QED
      BY <1>3, <1>4, <1>6, <2>1 DEF Held, Holds, CacheKept
  <1>12. \A q \in Threads \cup {"files"} : CacheKept(q)
    BY <1>3, <1>6
  <1> QED
    BY <1>1, <1>5, <1>8, <1>9, <1>10, <1>11, <1>12, MemStep

\* A round of a loop over the core images, or its last one.
LEMMA EachCoreType ==
    ASSUME Inv, pc \in {14, 17}, NEW t \in todo, EachCore(t), DiskType', cache' \in CacheType, out' = out
    PROVE  /\ TypeOK' /\ case' = case
           /\ \/ pc' = pc /\ todo' = todo \ {t}
              \/ pc' = pc + 1 /\ todo = {t} /\ Go
  <1>1. TypeOK /\ out' \in {"old", "partial", "new"} /\ pc \in 1 .. 19
    BY DEF Inv, TypeOK
  <1>2. CASE todo = {t}
    <2>1. Go
      BY <1>2 DEF EachCore
    <2> QED
      BY <1>1, <1>2, <2>1, GoType
  <1>3. CASE todo # {t}
    BY <1>1, <1>3, RoundType
  <1> QED
    BY <1>2, <1>3

\* The images that are written at once are left alone by such a round.
LEMMA EachCorePlain ==
    ASSUME Inv, pc \in {14, 17}, NEW t, case' = case,
           \/ pc' = pc
           \/ pc' = pc + 1 /\ Go,
           \A p \in Plain : disk'[<<"dst", p>>] = disk[<<"dst", p>>]
    PROVE  PlainOK'
  <1>1. CASE pc' = pc
    BY <1>1 DEF Inv, PlainOK, Passed, Converted
  <1>2. CASE pc' = pc + 1 /\ Go
    <2>1. pc \in 3 .. 19 /\ Plan[pc] \notin Plain
      BY PlainSteps
    <2> QED
      BY <1>2, <2>1, PlainAdvance
  <1> QED
    BY <1>1, <1>2

\* A core image for the other architecture, with its registers to come.
LEMMA ZeroedLemma ==
    ASSUME case \in Cases, case.arch # case.target
    PROVE  LET img == Image("dump", case.arch, "saved", TlsOf(case.arch), {})
           IN  /\ Zeroed = IF case.target = "x86_64" THEN CoreForX86(img) ELSE CoreForArm(img)
               /\ Zeroed \in Images
               /\ [Zeroed EXCEPT !.regs = img.regs] = Image("dump", case.target, "saved", TlsOf(case.target), {})
               /\ Image("dump", case.target, "saved", TlsOf(case.target), {}) \in Images
  <1>1. \/ case.arch = "x86_64" /\ case.target = "aarch64"
        \/ case.arch = "aarch64" /\ case.target = "x86_64"
    BY CaseType DEF Archs
  <1>2. TlsOf("x86_64") = 1000 /\ TlsOf("aarch64") = 1272
    BY DEF TlsOf, FsBase, TLS_DELTA
  <1>3. /\ CoreForX86(Image("dump", "aarch64", "saved", 1272, {})) = Image("dump", "x86_64", "zero", 1000, {})
        /\ CoreForArm(Image("dump", "x86_64", "saved", 1000, {})) = Image("dump", "aarch64", "zero", 1272, {})
    <2>1. 1272 - TLS_DELTA = 1000 /\ 1000 + TLS_DELTA = 1272
      BY DEF TLS_DELTA
    <2>2. CoreForX86(Image("dump", "aarch64", "saved", 1272, {}))
              = Image("dump", "x86_64", "zero", 1272 - TLS_DELTA, {})
      BY ImageFields DEF CoreForX86
    <2>3. CoreForArm(Image("dump", "x86_64", "saved", 1000, {}))
              = Image("dump", "aarch64", "zero", 1000 + TLS_DELTA, {})
      BY ImageFields DEF CoreForArm
    <2> QED
      BY <2>1, <2>2, <2>3
  <1>4. \A a \in Archs, r \in {"zero", "saved"} : Image("dump", a, r, TlsOf(a), {}) \in Images
    BY <1>2 DEF Images, Image, Archs
  <1>5. ASSUME NEW a, NEW n
        PROVE  [Image("dump", a, "zero", n, {}) EXCEPT !.regs = "saved"] = Image("dump", a, "saved", n, {})
    BY DEF Image
  <1>6. Zeroed = IF case.target = "x86_64" THEN CoreForX86(Image("dump", case.arch, "saved", TlsOf(case.arch), {}))
                 ELSE CoreForArm(Image("dump", case.arch, "saved", TlsOf(case.arch), {}))
    BY <1>1, <1>2, <1>3 DEF Zeroed
  <1> QED
    BY <1>4, <1>5, <1>6, CaseType, ImageFields DEF Zeroed

LEMMA TransformCoreInv ==
    ASSUME Inv, TransformCore
    PROVE  Inv'
  <1>1. pc = 14 /\ ~case.measure /\ out' = out
    <2>1. pc = 14
      BY PlanLemma DEF TransformCore, At
    <2> QED
      BY <2>1 DEF TransformCore
  <1>2. PICK t \in todo :
           LET c == Share(Load(cache, "src", t, FALSE), t)
               img == Loaded(c, "dst", t)
               new == IF case.target = "x86_64" THEN CoreForX86(img) ELSE CoreForArm(img)
           IN  IF img.arch = case.target \/ (case.target = "aarch64" /\ t # Leader)
               THEN Stop("raised") /\ UNCHANGED <<disk, cache>>
               ELSE cache' = Assign(c, "dst", t, new) /\ Write(t, new) /\ EachCore(t)
    BY DEF TransformCore
  <1> DEFINE b == Load(cache, "src", t, FALSE)
             c == Share(b, t)
             img == Loaded(c, "dst", t)
             new == IF case.target = "x86_64" THEN CoreForX86(img) ELSE CoreForArm(img)
  <1>3. CASE Stop("raised") /\ UNCHANGED <<disk, cache>>
    BY <1>1, <1>3, StopQuiet
  <1>4. CASE cache' = Assign(c, "dst", t, new) /\ Write(t, new) /\ EachCore(t)
    <2>1. CoreRead(b, t)
      <3>1. pc \in 1 .. 14
        BY <1>1
      <3> QED
        BY <3>1, CoreLoaded, Zenon
    <2> HIDE DEF b
    <2>2. /\ c \in CacheType /\ SameBut(b, c, t) /\ c.images[<<"dst", t>>] = <<"src", FALSE>>
          /\ img = Image("dump", case.arch, "saved", TlsOf(case.arch), {})
      <3>1. b \in CacheType /\ t \in Parsed
        BY <2>1 DEF CoreRead
      <3>2. /\ c \in CacheType /\ SameBut(b, c, t) /\ c.heap = b.heap
            /\ c.images[<<"dst", t>>] = b.images[<<"src", t>>]
        BY <3>1, ShareLemma
      <3> HIDE DEF c
      <3> QED
        BY <2>1, <3>2 DEF CoreRead, Loaded, Object
    <2> HIDE DEF c, img
    <2>3. new = Zeroed /\ Zeroed \in Images
      <3>1. case \in Cases /\ case.arch # case.target
        BY <1>1 DEF Inv, TypeOK, OtherArch
      <3> QED
        BY <2>2, <3>1, ZeroedLemma
    <2> HIDE DEF new
    <2>4. t \in Threads /\ t \in Parsed /\ t \in Paths /\ t \in case.threads /\ SameBut(cache, b, t)
      BY <2>1 DEF CoreRead, Paths
    <2>5. cache' \in CacheType /\ SameBut(cache, cache', t)
      <3>1. "dst" \in Sides /\ <<"src", FALSE>> \in Objects
        BY DEF Sides, Objects
      <3>2. Assigned(c, cache', t, <<"src", FALSE>>, Zeroed)
        BY <1>4, <2>2, <2>3, <2>4, <3>1, AssignLemma
      <3>3. SameBut(cache, c, t)
        BY <2>2, <2>4, SameButTrans
      <3> QED
        BY <3>2, <3>3, SameButTrans DEF Assigned
    <2>6. /\ DiskType' /\ DumpUntouched /\ disk'[<<"dst", t>>] = Zeroed
          /\ \A q \in Paths \ {t} : disk'[<<"dst", q>>] = disk[<<"dst", q>>]
      <3>1. DiskType /\ Write(t, Zeroed)
        BY <1>4, <2>3 DEF Inv, TypeOK, DiskType
      <3> QED
        BY <2>3, <2>4, <3>1, WriteLemma
    <2>7. /\ TypeOK' /\ case' = case
          /\ \/ pc' = 14 /\ todo' = todo \ {t}
             \/ pc' = 15 /\ todo = {t} /\ Go
      BY <1>1, <1>4, <2>5, <2>6, EachCoreType
    <2>8. PlainOK'
      <3>1. Plain \subseteq Paths \ {t}
        BY <2>4, ThreadNames
      <3> QED
        BY <1>1, <2>6, <2>7, <3>1, EachCorePlain
    <2>9. PagesOK'
      <3>1. disk'[<<"dst", "pages">>] = disk[<<"dst", "pages">>]
        BY <2>4, <2>6, ThreadNames DEF Paths
      <3> QED
        BY <1>1, <2>7, <3>1 DEF Inv, PagesOK
    <2>10. CoresOK'
      <3>1. ASSUME NEW q \in Threads PROVE disk'[<<"dst", q>>] = CoreWritten(q)'
        <4>1. disk[<<"dst", q>>] = CoreWritten(q)
          BY <1>1 DEF Inv, CoresOK
        <4>2. Zeroed' = Zeroed
          BY <2>7 DEF Zeroed
        <4>3. CASE q = t
          BY <1>1, <2>4, <2>6, <2>7, <4>2, <4>3 DEF CoreWritten
        <4>4. CASE q # t
          <5>1. disk'[<<"dst", q>>] = disk[<<"dst", q>>]
            BY <2>6, <4>4 DEF Paths, Parsed
          <5> QED
            BY <1>1, <2>7, <4>1, <4>2, <4>4, <5>1 DEF CoreWritten
        <4> QED
          BY <4>3, <4>4
      <3> QED
        BY <3>1 DEF CoresOK
    <2>11. SourceOK' /\ TakenOK' /\ OtherArch' /\ OutOK' /\ OutputRight'
      <3>1. SourceOK'
        BY <2>6, <2>7, SourceKept DEF Inv
      <3>2. disk'[<<"src", "pages">>] = disk[<<"src", "pages">>]
        BY <2>6 DEF DumpUntouched, Paths
      <3> QED
        BY <1>1, <2>7, <3>1, <3>2 DEF Inv, TakenOK, OtherArch, OutOK, OutputRight, Moves
    <2>12. CoreCache' /\ MemCache' /\ FilesCache'
      <3>1. /\ Unloaded("files")' <=> Unloaded("files")
            /\ \A q \in Threads \ {t} : (Unloaded(q)' <=> Unloaded(q)) /\ \A i : Holds(q, i)' <=> Holds(q, i)
        BY <2>4, <2>5, <2>7, OneCore
      <3>2. FilesCache' /\ MemCache'
        BY <1>1, <2>7, <3>1 DEF Inv, FilesCache, MemCache
      <3>3. ASSUME NEW q \in case.threads, pc' \in 1 .. 13 \/ (pc' = 14 /\ q \in todo')
            PROVE  Unloaded(q)' \/ Holds(q, ImageOf(case, "dump", case.arch, q))'
        <4>1. q \in todo /\ q # t /\ q \in Threads
          BY <2>7, <3>3, CaseType DEF Inv, TypeOK
        <4>2. Unloaded(q) \/ Holds(q, ImageOf(case, "dump", case.arch, q))
          BY <1>1, <4>1 DEF Inv, CoreCache
        <4> QED
          BY <2>7, <3>1, <4>1, <4>2
      <3>4. CoreCache'
        BY <2>7, <3>3 DEF CoreCache
      <3> QED
        BY <3>2, <3>4
    <2> QED
      BY <2>7, <2>8, <2>9, <2>10, <2>11, <2>12 DEF Inv
  <1> QED
    BY <1>2, <1>3, <1>4

LEMMA TransformFilesInv ==
    ASSUME Inv, TransformFiles
    PROVE  Inv'
  <1> DEFINE a == Load(cache, "src", "files", FALSE)
             b == Load(a, "src", "mm", FALSE)
             c == Share(b, "files")
             d == Assign(c, "dst", "files", Retarget(Loaded(c, "dst", "files")))
             new == Loaded(cache', "dst", "files")
  <1>1. pc = 15 /\ Go /\ out' = out /\ cache' = d /\ Write("files", new)
    <2>1. pc = 15
      BY PlanLemma DEF TransformFiles, At
    <2> QED
      BY <2>1 DEF TransformFiles
  <1> HIDE DEF a, b, c, d, new
  <1>2. /\ cache \in CacheType /\ case \in Cases /\ DiskType /\ "files" \in Parsed \ {"mm"} /\ "mm" \in Parsed
        /\ "src" \in Sides /\ "dst" \in Sides /\ <<"src", FALSE>> \in Objects
    BY DEF Inv, TypeOK, CacheType, DiskType, Parsed, Sides, Objects
  <1> DEFINE dump == ImageOf(case, "dump", case.arch, "files")
             conv == ImageOf(case, "dump", case.target, "files")
  <1>3. disk[<<"src", "files">>] = dump /\ Retarget(dump) = conv /\ conv \in Images /\ "files" \in Paths
    <2>1. "files" \in Paths \ {"pages"}
      BY DEF Paths, Parsed
    <2> QED
      BY <1>2, <2>1, RetargetLemma DEF Inv, SourceOK
  <1> HIDE DEF dump, conv
  <1>4. a \in CacheType /\ a.images[<<"src", "files">>] = <<"src", FALSE>> /\ a.heap[<<<<"src", FALSE>>, "files">>] = dump
    <2>1. cache.images[<<"src", "files">>] = NoObject
      BY <1>1 DEF Inv, FilesCache, Unloaded
    <2> QED
      BY <1>2, <1>3, <2>1, LoadLemma DEF a, DiskType
  <1>5. b \in CacheType /\ b.images[<<"src", "files">>] = <<"src", FALSE>> /\ b.heap[<<<<"src", FALSE>>, "files">>] = dump
    <2>1. b \in CacheType /\ SameBut(a, b, "mm")
      BY <1>2, <1>4, LoadLemma DEF b, DiskType
    <2> QED
      BY <1>2, <1>4, <2>1 DEF SameBut
  <1>6. c \in CacheType /\ c.images[<<"dst", "files">>] = <<"src", FALSE>> /\ Loaded(c, "dst", "files") = dump
    <2>1. c \in CacheType /\ c.heap = b.heap /\ c.images[<<"dst", "files">>] = b.images[<<"src", "files">>]
      BY <1>2, <1>5, ShareLemma DEF c
    <2> QED
      BY <1>5, <2>1 DEF Loaded, Object
  <1>7. cache' \in CacheType /\ new = conv
    <2>1. Assigned(c, d, "files", <<"src", FALSE>>, conv)
      <3>1. d = Assign(c, "dst", "files", conv)
        BY <1>3, <1>6 DEF d
      <3> QED
        BY <1>2, <1>3, <1>6, <3>1, AssignLemma
    <2> QED
      BY <1>1, <1>6, <2>1 DEF Assigned, new, Loaded, Object
  <1>8. /\ DiskType' /\ DumpUntouched /\ disk'[<<"dst", "files">>] = conv
        /\ \A q \in Paths \ {"files"} : disk'[<<"dst", q>>] = disk[<<"dst", q>>]
    BY <1>1, <1>2, <1>3, <1>7, WriteLemma
  <1>9. TypeOK' /\ pc' = 16 /\ case' = case /\ todo' = case.threads
    <2>1. TypeOK /\ out' \in {"old", "partial", "new"} /\ pc \in 1 .. 19
      BY <1>1 DEF Inv, TypeOK
    <2> QED
      BY <1>1, <1>7, <1>8, <2>1, GoType
  <1>10. PlainOK' /\ PagesOK' /\ CoresOK'
    <2>1. pc \in 3 .. 19 /\ pc \notin {10, 11, 14, 17} /\ Plan[pc] = "files"
      BY <1>1, PlanLemma
    <2>2. Converted("files") = conv
      BY ThreadNames DEF Converted, conv
    <2>3. "pages" \in Paths \ {"files"} /\ Threads \subseteq Paths \ {"files"} /\ Plain \subseteq Paths
      BY ThreadNames DEF Paths
    <2>4. PlainOK'
      BY <1>1, <1>8, <2>1, <2>2, <2>3, PlainAdvance
    <2>5. PagesOK'
      BY <1>1, <1>8, <2>1, <2>3, PagesAdvance
    <2>6. CoresOK'
      BY <1>1, <1>8, <2>1, <2>3, CoresAdvance
    <2> QED
      BY <2>4, <2>5, <2>6
  <1>11. SourceOK' /\ TakenOK' /\ OtherArch' /\ OutOK' /\ OutputRight'
    <2>1. SourceOK'
      BY <1>8, <1>9, SourceKept DEF Inv
    <2>2. disk'[<<"src", "pages">>] = disk[<<"src", "pages">>]
      BY <1>8 DEF DumpUntouched, Paths
    <2> QED
      BY <1>1, <1>9, <2>1, <2>2 DEF Inv, TakenOK, OtherArch, OutOK, OutputRight, Moves
  <1>12. CoreCache' /\ MemCache' /\ FilesCache'
    BY <1>9 DEF CoreCache, MemCache, FilesCache
  <1> QED
    BY <1>9, <1>10, <1>11, <1>12 DEF Inv

LEMMA StackAndRegsInv ==
    ASSUME Inv, StackAndRegs
    PROVE  Inv'
  <1>1. pc = 17 /\ ~case.measure /\ out' = out
    <2>1. pc = 17
      BY PlanLemma DEF StackAndRegs, StackAndRegsFrom, At
    <2> QED
      BY <2>1 DEF StackAndRegs, StackAndRegsFrom
  <1>2. PICK t \in todo :
           LET c == Load(Load(cache, "src", t, TRUE), "dst", t, TRUE)
               from == Loaded(c, "src", t)
               to == Loaded(c, "dst", t)
               new == [to EXCEPT !.regs = from.regs]
               stack == disk[<<IF case.noTransform THEN "dst" ELSE "src", "pages">>]
           IN  IF from.arch = case.target \/ to.arch # case.target \/ stack = NoFile
               THEN Stop("raised") /\ UNCHANGED <<disk, cache>>
               ELSE /\ cache' = Assign(Load(Load(c, "src", "pagemap", TRUE), "dst", "pagemap", TRUE), "dst", t, new)
                    /\ disk' = [disk EXCEPT ![<<"dst", "pages">>].stacks = @ \cup {t}, ![<<"dst", t>>] = new]
                    /\ EachCore(t)
    BY DEF StackAndRegs, StackAndRegsFrom
  <1> DEFINE b == Load(cache, "src", t, TRUE)
             c == Load(b, "dst", t, TRUE)
             new == [Loaded(c, "dst", t) EXCEPT !.regs = Loaded(c, "src", t).regs]
             e == Load(c, "src", "pagemap", TRUE)
             f == Load(e, "dst", "pagemap", TRUE)
             img == ImageOf(case, "dump", case.target, t)
  <1>3. CASE Stop("raised") /\ UNCHANGED <<disk, cache>>
    BY <1>1, <1>3, StopQuiet
  <1>4. CASE /\ cache' = Assign(f, "dst", t, new)
             /\ disk' = [disk EXCEPT ![<<"dst", "pages">>].stacks = @ \cup {t}, ![<<"dst", t>>] = new]
             /\ EachCore(t)
    <2> HIDE DEF b, c, e, f, new, img
    <2>1. /\ cache \in CacheType /\ case \in Cases /\ DiskType /\ "pagemap" \in Parsed
          /\ t \in case.threads /\ t \in Threads /\ t \in Parsed \ {"pagemap"} /\ t \in Paths \ {"pages"}
          /\ "src" \in Sides /\ "dst" \in Sides /\ <<"src", TRUE>> \in Objects /\ <<"dst", TRUE>> \in Objects
          /\ case.arch # case.target
      <3>1. t \in case.threads /\ t \in Threads
        BY CaseType DEF Inv, TypeOK
      <3>2. t \in Parsed \ {"pagemap"} /\ t \in Paths \ {"pages"}
        BY <3>1, ThreadNames DEF Parsed, Paths
      <3>3. cache \in CacheType /\ case \in Cases /\ DiskType /\ case.arch # case.target
        BY <1>1 DEF Inv, TypeOK, CacheType, DiskType, OtherArch
      <3> QED
        BY <3>1, <3>2, <3>3 DEF Parsed, Sides, Objects
    <2>2. /\ disk[<<"src", t>>] = Image("dump", case.arch, "saved", TlsOf(case.arch), {})
          /\ disk[<<"dst", t>>] = Zeroed
          /\ img = Image("dump", case.target, "saved", TlsOf(case.target), {}) /\ img \in Images
          /\ [Zeroed EXCEPT !.regs = Image("dump", case.arch, "saved", TlsOf(case.arch), {}).regs] = img
      <3>1. /\ ImageOf(case, "dump", case.arch, t) = Image("dump", case.arch, "saved", TlsOf(case.arch), {})
            /\ img = Image("dump", case.target, "saved", TlsOf(case.target), {})
        BY <2>1, CoreImage DEF img
      <3>2. disk[<<"src", t>>] = ImageOf(case, "dump", case.arch, t)
        BY <2>1 DEF Inv, SourceOK
      <3>3. disk[<<"dst", t>>] = Zeroed
        BY <1>1, <2>1 DEF Inv, CoresOK, CoreWritten
      <3> QED
        BY <2>1, <3>1, <3>2, <3>3, ZeroedLemma
    <2>3. /\ b \in CacheType /\ b.images[<<"src", t>>] = <<"src", TRUE>>
          /\ b.heap[<<<<"src", TRUE>>, t>>] = disk[<<"src", t>>]
      BY <2>1, LoadLemma DEF b, DiskType
    <2>4. /\ c \in CacheType /\ c.images[<<"src", t>>] = <<"src", TRUE>> /\ c.images[<<"dst", t>>] = <<"dst", TRUE>>
          /\ c.heap[<<<<"src", TRUE>>, t>>] = disk[<<"src", t>>]
          /\ c.heap[<<<<"dst", TRUE>>, t>>] = disk[<<"dst", t>>]
      <3>1. /\ c \in CacheType /\ c.images[<<"dst", t>>] = <<"dst", TRUE>>
            /\ c.heap[<<<<"dst", TRUE>>, t>>] = disk[<<"dst", t>>]
            /\ \A s \in Sides \ {"dst"} : c.images[<<s, t>>] = b.images[<<s, t>>]
            /\ \A o \in Objects \ {<<"dst", TRUE>>} : c.heap[<<o, t>>] = b.heap[<<o, t>>]
        BY <2>1, <2>3, LoadLemma DEF c, DiskType
      <3>2. "src" \in Sides \ {"dst"} /\ <<"src", TRUE>> \in Objects \ {<<"dst", TRUE>>}
        BY <2>1
      <3> QED
        BY <2>3, <3>1, <3>2
    <2>5. new = img
      BY <2>2, <2>4 DEF new, Loaded, Object
    <2>6. cache' \in CacheType
      <3>1. e \in CacheType /\ e.images[<<"dst", t>>] = <<"dst", TRUE>>
        <4>1. e \in CacheType /\ SameBut(c, e, "pagemap")
          BY <2>1, <2>4, LoadLemma DEF e, DiskType
        <4> QED
          BY <2>1, <2>4, <4>1 DEF SameBut
      <3>2. f \in CacheType /\ f.images[<<"dst", t>>] = <<"dst", TRUE>>
        <4>1. f \in CacheType /\ SameBut(e, f, "pagemap")
          BY <2>1, <3>1, LoadLemma DEF f, DiskType
        <4> QED
          BY <2>1, <3>1, <4>1 DEF SameBut
      <3>3. Assigned(f, cache', t, <<"dst", TRUE>>, img)
        <4>1. cache' = Assign(f, "dst", t, img) /\ t \in Parsed
          BY <1>4, <2>1, <2>5
        <4>2. f.images[<<"dst", t>>] \in Objects /\ img \in Images /\ "dst" \in Sides
          BY <2>1, <2>2, <3>2
        <4>3. Assigned(f, Assign(f, "dst", t, img), t, f.images[<<"dst", t>>], img)
          BY <3>2, <4>1, <4>2, AssignLemma, Zenon
        <4> QED
          BY <3>2, <4>1, <4>3, Zenon
      <3> QED
        BY <3>3 DEF Assigned
    <2>7. /\ DiskType' /\ DumpUntouched /\ disk'[<<"dst", t>>] = img
          /\ disk'[<<"dst", "pages">>] = Pages(case.target, case.threads \ (todo \ {t}))
          /\ \A q \in Paths \ {t, "pages"} : disk'[<<"dst", q>>] = disk[<<"dst", q>>]
      <3>1. disk[<<"dst", "pages">>] = Pages(case.target, case.threads \ todo)
        BY <1>1 DEF Inv, PagesOK
      <3> DEFINE pages == [disk[<<"dst", "pages">>] EXCEPT !.stacks = @ \cup {t}]
      <3>2. pages = Pages(case.target, (case.threads \ todo) \cup {t})
        BY <3>1 DEF Pages, Image
      <3>3. (case.threads \ todo) \cup {t} = case.threads \ (todo \ {t})
        BY <2>1
      <3>4. pages \in Images
        BY <2>1, <3>2, <3>3, CaseType, ImageTypes
      <3>5. disk' = [disk EXCEPT ![<<"dst", "pages">>] = pages, ![<<"dst", t>>] = img]
        BY <1>4, <2>5
      <3> HIDE DEF pages
      <3>6. "pages" \in Paths /\ t # "pages"
        BY <2>1 DEF Paths
      <3>7. /\ DiskType' /\ disk'[<<"dst", t>>] = img /\ disk'[<<"dst", "pages">>] = pages
            /\ \A s \in Sides, q \in Paths : <<s, q>> \notin {<<"dst", t>>, <<"dst", "pages">>}
                                             => disk'[<<s, q>>] = disk[<<s, q>>]
        BY <2>1, <2>2, <3>4, <3>5, <3>6 DEF DiskType
      <3> QED
        BY <2>1, <3>2, <3>3, <3>7 DEF DumpUntouched
    <2>8. /\ TypeOK' /\ case' = case
          /\ \/ pc' = 17 /\ todo' = todo \ {t}
             \/ pc' = 18 /\ todo = {t} /\ Go
      BY <1>1, <1>4, <2>6, <2>7, EachCoreType
    <2>9. PlainOK'
      <3>1. Plain \subseteq Paths \ {t, "pages"}
        BY <2>1, ThreadNames
      <3> QED
        BY <1>1, <2>7, <2>8, <3>1, EachCorePlain
    <2>10. PagesOK'
      <3>1. todo = {t} => todo \ {t} = {} /\ case.threads \ (todo \ {t}) = case.threads
        OBVIOUS
      <3> QED
        BY <1>1, <2>7, <2>8, <3>1 DEF PagesOK
    <2>11. CoresOK'
      <3>1. ASSUME NEW q \in Threads PROVE disk'[<<"dst", q>>] = CoreWritten(q)'
        <4>1. disk[<<"dst", q>>] = CoreWritten(q)
          BY <1>1 DEF Inv, CoresOK
        <4>2. Zeroed' = Zeroed /\ ImageOf(case, "dump", case.target, q)' = ImageOf(case, "dump", case.target, q)
          BY <2>8 DEF Zeroed
        <4>3. CASE q = t
          BY <1>1, <2>1, <2>7, <2>8, <4>2, <4>3 DEF CoreWritten, img
        <4>4. CASE q # t
          <5>1. disk'[<<"dst", q>>] = disk[<<"dst", q>>]
            BY <2>7, <4>4, ThreadNames DEF Paths, Parsed
          <5> QED
            BY <1>1, <2>8, <4>1, <4>2, <4>4, <5>1 DEF CoreWritten
        <4> QED
          BY <4>3, <4>4
      <3> QED
        BY <3>1 DEF CoresOK
    <2>12. SourceOK' /\ TakenOK' /\ OtherArch' /\ OutOK' /\ OutputRight'
      <3>1. SourceOK'
        BY <2>7, <2>8, SourceKept DEF Inv
      <3>2. disk'[<<"src", "pages">>] = disk[<<"src", "pages">>]
        BY <2>7 DEF DumpUntouched, Paths
      <3> QED
        BY <1>1, <2>8, <3>1, <3>2 DEF Inv, TakenOK, OtherArch, OutOK, OutputRight, Moves
    <2>13. CoreCache' /\ MemCache' /\ FilesCache'
      BY <2>8 DEF CoreCache, MemCache, FilesCache
    <2> QED
      BY <2>8, <2>9, <2>10, <2>11, <2>12, <2>13 DEF Inv
  <1> QED
    BY <1>2, <1>3, <1>4

LEMMA FinishInv ==
    ASSUME Inv, Finish
    PROVE  Inv'
  <1>1. pc = 20 /\ out' = "new" /\ Stop("done") /\ UNCHANGED <<disk, cache>>
    BY PlanLemma DEF Finish
  <1>2. TypeOK' /\ pc' = 0 /\ case' = case
    BY <1>1, StopType DEF Inv, TypeOK, DiskType, CacheType
  <1>3. SourceOK'
    BY <1>1, <1>2 DEF Inv, SourceOK, Moves
  <1>4. ASSUME NEW p \in Paths
        PROVE  disk[<<"dst", p>>] = Converted(p)
    <2>1. CASE p \in Plain
      <3>1. Passed(p)
        BY <1>1, <2>1, PlainSteps DEF Passed
      <3> QED
        BY <1>1, <2>1, <3>1 DEF Inv, PlainOK
    <2>2. CASE p = "pages"
      <3>1. ImageOf(case, "dump", case.target, "pages") = Pages(case.target, case.threads)
        BY ImageOfLemma DEF Pages
      <3> QED
        BY <1>1, <2>2, <3>1 DEF Inv, PagesOK, Converted
    <2>3. CASE p \in Threads
      <3>1. p \notin case.threads => ImageOf(case, "dump", case.target, p) = NoFile
        BY <2>3, ThreadNames DEF ImageOf
      <3> QED
        BY <1>1, <2>3, <3>1 DEF Inv, CoresOK, CoreWritten, Converted
    <2> QED
      BY <2>1, <2>2, <2>3, ThreadNames
  <1>5. OutputRight'
    BY <1>1, <1>2, <1>4 DEF OutputRight, Converted
  <1> QED
    BY <1>2, <1>3, <1>5, StopLemma

\* A run that is cut short writes nothing before it has begun to, and then only to the
\* output.
LEMMA WritesLemma ==
    ASSUME Inv, pc \in 1 .. 19
    PROVE  /\ pc \in {1, 2} => Writes = {}
           /\ Writes \subseteq Paths
           /\ "pages" \in Writes => pc \in {10, 11, 17} /\ ~case.measure
  <1>1. todo \subseteq Threads
    BY CaseType DEF Inv, TypeOK
  <1>2. /\ At({"core"}) <=> pc = 14
        /\ At({"stack"}) <=> pc = 17
        /\ At({"regions"}) <=> pc = 11
        /\ At({"pages"}) <=> pc = 10
    BY PlanLemma DEF At
  <1>3. "assert" \notin Paths /\ "mkdir" \notin Paths
    BY PlanLemma, PlainSteps, ThreadNames
  <1>4. "pages" \notin Threads
    BY ThreadNames
  <1>5. pc \in {10, 11, 17} => At(Measures)
    BY PlanLemma DEF At, Measures
  <1> QED
    BY <1>1, <1>2, <1>3, <1>4, <1>5, PlanLemma, ThreadNames DEF Writes, Step

LEMMA InterruptedInv ==
    ASSUME Inv, Interrupted
    PROVE  Inv'
  <1>1. pc \in 1 .. 19 /\ Stop("raised") /\ cache' = cache
    BY PlanLemma DEF Interrupted
  <1>2. CASE UNCHANGED <<disk, out>>
    BY <1>1, <1>2, StopQuiet
  <1>3. ASSUME NEW p \in Paths, NEW img \in {Torn, NoFile}, Write(p, img), out' = "partial"
        PROVE  Inv'
    <2>1. DiskType' /\ DumpUntouched
      <3>1. img \in Images /\ DiskType
        BY ImageTypes DEF Inv, TypeOK, DiskType
      <3> QED
        BY <1>3, <3>1, WriteLemma
    <2>2. TypeOK' /\ pc' = 0 /\ case' = case
      BY <1>1, <1>3, <2>1, StopType DEF Inv, TypeOK, CacheType
    <2>3. SourceOK'
      BY <2>1, <2>2, SourceKept DEF Inv
    <2>4. OutputRight'
      BY <1>3 DEF OutputRight
    <2> QED
      BY <2>2, <2>3, <2>4, StopLemma
  <1>4. CASE \E p \in Writes : Write(p, Torn) /\ UNCHANGED out
    <2>1. PICK p \in Writes : Write(p, Torn) /\ out' = out
      BY <1>4
    <2>2. p \in Paths /\ pc \in 3 .. 19
      BY <1>1, <2>1, WritesLemma
    <2>3. out' = "partial"
      BY <2>1, <2>2 DEF Inv, OutOK
    <2> QED
      BY <1>3, <2>1, <2>2, <2>3
  <1>5. CASE out' = "partial" /\ \E p \in Paths : Write(p, NoFile)
    BY <1>3, <1>5
  <1> QED
    BY <1>2, <1>4, <1>5 DEF Interrupted

LEMMA StutterInv ==
    ASSUME Inv, UNCHANGED vars
    PROVE  Inv'
  <1>1. /\ case' = case /\ disk' = disk /\ cache' = cache /\ pc' = pc /\ todo' = todo /\ runs' = runs
        /\ last' = last /\ out' = out
    BY DEF vars
  <1>2. TypeOK' /\ SourceOK' /\ OutputRight' /\ OutOK' /\ TakenOK' /\ OtherArch'
    BY <1>1 DEF Inv, TypeOK, SourceOK, OutputRight, OutOK, TakenOK, OtherArch, Moves, Converted
  <1>3. PlainOK' /\ PagesOK' /\ CoresOK'
    BY <1>1 DEF Inv, PlainOK, PagesOK, CoresOK, Passed, Converted, CoreWritten, Zeroed
  <1>4. CoreCache' /\ MemCache' /\ FilesCache'
    BY <1>1 DEF Inv, CoreCache, MemCache, FilesCache, Unloaded, Holds
  <1> QED
    BY <1>2, <1>3, <1>4 DEF Inv

-----------------------------------------------------------------------------
(* Theorems *)

\* Before every step of recode() the output is what the steps behind have written, the
\* dump is whole, and what is to be read from the cache is as it was read.
THEOREM RecodeInvariant == Spec => []Inv
  <1>1. Inv /\ [Next]_vars => Inv'
    BY StartInv, AssertInv, MakeDestInv, CopyInv, MeasuredInv, LoadMemInv, TakePagesInv, EditRegionsInv,
       DumpMemInv, TransformCoreInv, TransformFilesInv, StackAndRegsInv, FinishInv, InterruptedInv,
       StutterInv, Zenon DEF Next, Work
  <1> QED
    BY <1>1, InitInv, PTL DEF Spec

\* Every variable of recode() keeps its type.
THEOREM RecodeTypes == Spec => []TypeOK
  <1>1. Inv => TypeOK
    BY DEF Inv
  <1> QED
    BY <1>1, RecodeInvariant, PTL

\* An output that a run of recode() has completed is this dump for the target, however
\* many runs failed before it and whatever is refused after it.
THEOREM RecodeOutput == Spec => []OutputRight
  <1>1. Inv => OutputRight
    BY DEF Inv
  <1> QED
    BY <1>1, RecodeInvariant, PTL

\* recode() does not damage the dump, but for the pages that --no-transform moves.
THEOREM RecodeKeepsDump == Spec => []DumpKept
  <1>1. ASSUME Inv PROVE DumpKept
    <2>1. ImageOf(case, "dump", case.arch, "pages") = Pages(case.arch, case.threads)
      BY ImageOfLemma DEF Pages
    <2> QED
      BY <1>1, <2>1 DEF Inv, SourceOK, DumpKept, Moves
  <1> QED
    BY <1>1, RecodeInvariant, PTL

-----------------------------------------------------------------------------
(* recode() implements Conversion *)

\* A step that moves neither the output nor the memory of the process stutters.
LEMMA RefStutter ==
    ASSUME case' = case, out' = out, Where' = Where
    PROVE  [Promise!Next]_(Promise!vars)
  BY DEF Promise!vars

\* The memory stays where it is when its file in the dump does and the output has one as before.
LEMMA WhereKept ==
    ASSUME disk'[<<"src", "pages">>] = disk[<<"src", "pages">>],
           \/ disk[<<"src", "pages">>] # NoFile
           \/ disk'[<<"dst", "pages">>] = disk[<<"dst", "pages">>]
           \/ /\ disk[<<"dst", "pages">>] \notin {NoFile, Torn}
              /\ disk'[<<"dst", "pages">>] \notin {NoFile, Torn}
           \/ disk[<<"dst", "pages">>] = NoFile /\ disk'[<<"dst", "pages">>] = NoFile
    PROVE  Where' = Where
  BY DEF Where

\* Between two steps that have both begun to write, the file of the output comes only in step 10.
LEMMA WhereSteady ==
    ASSUME Inv, Inv', pc \in 3 .. 19, pc # 10, pc' \in {pc, pc + 1}, case' = case,
           disk'[<<"src", "pages">>] = disk[<<"src", "pages">>]
    PROVE  Where' = Where
  <1> DEFINE old == disk[<<"dst", "pages">>]
             new == disk'[<<"dst", "pages">>]
  <1>1. case.arch \in Archs /\ case.target \in Archs /\ case.threads \subseteq Threads
    BY CaseType DEF Inv, TypeOK
  <1>2. pc' \in 3 .. 20 /\ (pc <= 10 <=> pc' <= 10)
    OBVIOUS
  <1>3. old = NoFile <=> (case.measure \/ pc <= 10)
    BY <1>1, ImageTypes DEF Inv, PagesOK
  <1>4. new = NoFile <=> (case.measure \/ pc' <= 10)
    <2>1. PagesOK'
      BY DEF Inv
    <2>2. \A s \in SUBSET Threads : Pages(case.target, s) # NoFile /\ Pages(case.arch, s) # NoFile
      BY <1>1, ImageTypes
    <2> QED
      BY <1>1, <1>2, <2>1, <2>2 DEF PagesOK, Pages, NoFile
  <1>5. old # Torn /\ new # Torn
    <2>1. PagesOK /\ PagesOK'
      BY DEF Inv
    <2>2. \A s : Pages(case.target, s) # Torn /\ Pages(case.arch, s) # Torn
      BY DEF Pages, Torn, Image
    <2> QED
      BY <1>2, <2>1, <2>2, ImageTypes DEF PagesOK, Pages
  <1> QED
    BY <1>2, <1>3, <1>4, <1>5, WhereKept

LEMMA RefCore ==
    ASSUME NEW t, EachCore(t), pc \in Nat
    PROVE  pc' \in {pc, pc + 1} /\ case' = case
  BY DEF EachCore, Go, GoOver

LEMMA WriteKeepsDump ==
    ASSUME NEW p, NEW img, Write(p, img), DiskType
    PROVE  disk'[<<"src", "pages">>] = disk[<<"src", "pages">>]
  BY DEF Write, DiskType

LEMMA RefQuiet ==
    ASSUME Inv, disk' = disk, out' = out, case' = case
    PROVE  [Promise!Next]_(Promise!vars)
  BY RefStutter DEF Where

LEMMA RefWork ==
    ASSUME Inv, Inv', Work
    PROVE  [Promise!Next]_(Promise!vars)
  <1>1. /\ DiskType /\ pc \in Nat /\ case.measure \in BOOLEAN /\ case.noTransform \in BOOLEAN
        /\ "pages" \in Paths /\ case.arch \in Archs /\ case.target \in Archs /\ case.threads \subseteq Threads
    BY CaseType DEF Inv, TypeOK, DiskType, Paths
  <1>2. ASSUME pc \in 3 .. 19, pc # 10, pc' \in {pc, pc + 1}, case' = case, out' = out,
               \E p, img : Write(p, img)
        PROVE  [Promise!Next]_(Promise!vars)
    BY <1>1, <1>2, WriteKeepsDump, WhereSteady, RefStutter
  <1>3. CASE AssertConditions
    <2>1. disk' = disk /\ out' = out /\ case' = case
      BY <1>3 DEF AssertConditions, Stop, EachCore, Go, GoOver
    <2> QED
      BY <2>1, RefQuiet
  <1>4. CASE MakeDest
    <2>1. /\ out' = "partial" /\ case' = case /\ disk'[<<"src", "pages">>] = disk[<<"src", "pages">>]
          /\ disk'[<<"dst", "pages">>] = NoFile
      BY <1>1, <1>4 DEF MakeDest, MakeDestBut, Go, GoOver, Sides
    <2>2. Where' \in IF Where = "output" THEN {"output", "gone"} ELSE {Where}
      BY <2>1 DEF Where
    <2> QED
      BY <2>1, <2>2 DEF Promise!Next, Promise!Begin
  <1>5. CASE Copy
    <2>1. pc \in (3 .. 8) \cup {16, 18, 19} /\ pc' = pc + 1 /\ case' = case /\ out' = out
      BY <1>5, PlanLemma DEF Copy, At, Go, GoOver
    <2>2. CASE disk' = disk
      BY <2>1, <2>2, RefQuiet
    <2>3. CASE Write(Step, disk[<<"src", Step>>])
      BY <1>2, <2>1, <2>3
    <2> QED
      BY <1>5, <2>2, <2>3 DEF Copy
  <1>6. CASE Measured
    <2>1. disk' = disk /\ out' = out /\ case' = case
      BY <1>6 DEF Measured, Go, GoOver
    <2> QED
      BY <2>1, RefQuiet
  <1>7. CASE LoadMem
    <2>1. disk' = disk /\ out' = out /\ case' = case
      BY <1>7 DEF LoadMem, Stop, Go, GoOver
    <2> QED
      BY <2>1, RefQuiet
  <1>8. CASE TakePages
    <2>1. /\ pc = 10 /\ ~case.measure /\ out' = out /\ case' = case
          /\ disk' = [disk EXCEPT ![<<"dst", "pages">>] = disk[<<"src", "pages">>],
                                  ![<<"src", "pages">>] = IF case.noTransform THEN NoFile ELSE @]
      BY <1>8, PlanLemma DEF TakePages, TakePagesAs, At, Go, GoOver
    <2>2. disk[<<"src", "pages">>] # NoFile /\ out = "partial"
      BY <2>1 DEF Inv, TakenOK, OutOK
    <2>3. /\ disk'[<<"dst", "pages">>] \notin {NoFile, Torn}
          /\ disk'[<<"src", "pages">>] = IF case.noTransform THEN NoFile ELSE disk[<<"src", "pages">>]
      <3>1. disk[<<"src", "pages">>] = Pages(case.arch, case.threads)
        BY <2>2 DEF Inv, SourceOK
      <3>2. disk[<<"src", "pages">>] # Torn
        BY <3>1 DEF Pages, Torn, Image
      <3> QED
        BY <1>1, <2>1, <2>2, <3>2 DEF DiskType, Sides
    <2>4. CASE case.noTransform
      <3>1. Where = "source" /\ Where' = "output"
        BY <2>2, <2>3, <2>4 DEF Where
      <3> QED
        BY <2>1, <2>2, <2>4, <3>1 DEF Promise!Next, Promise!Move
    <2>5. CASE ~case.noTransform
      <3>1. Where' = Where
        BY <2>2, <2>3, <2>5, WhereKept
      <3> QED
        BY <2>1, <3>1, RefStutter
    <2> QED
      BY <2>4, <2>5
  <1>9. CASE EditRegions
    <2>1. /\ pc = 11 /\ pc' = pc + 1 /\ case' = case /\ out' = out
          /\ \E p, img : Write(p, img)
      BY <1>9, PlanLemma DEF EditRegions, At, Go, GoOver
    <2> QED
      BY <1>2, <2>1
  <1>10. CASE DumpMem
    <2>1. pc \in {12, 13} /\ pc' = pc + 1 /\ case' = case /\ out' = out
      BY <1>10, PlanLemma DEF DumpMem, DumpMemTo, At, Go, GoOver
    <2>2. Write(Step, Loaded(cache', "dst", Step))
      BY <1>10 DEF DumpMem, DumpMemTo, Write
    <2> QED
      BY <1>2, <2>1, <2>2
  <1>11. CASE TransformCore
    <2>1. pc = 14 /\ out' = out
      BY <1>11, PlanLemma DEF TransformCore, At
    <2>2. PICK t \in todo : \/ Stop("raised") /\ disk' = disk
                            \/ EachCore(t) /\ \E p, img : Write(p, img)
      BY <1>11 DEF TransformCore
    <2>3. CASE Stop("raised") /\ disk' = disk
      BY <2>1, <2>3, RefQuiet DEF Stop
    <2>4. CASE EachCore(t) /\ \E p, img : Write(p, img)
      BY <1>1, <1>2, <2>1, <2>4, RefCore
    <2> QED
      BY <2>2, <2>3, <2>4
  <1>12. CASE TransformFiles
    <2>1. pc = 15 /\ pc' = pc + 1 /\ case' = case /\ out' = out
      BY <1>12, PlanLemma DEF TransformFiles, At, Go, GoOver
    <2>2. \E p, img : Write(p, img)
      BY <1>12, Zenon DEF TransformFiles
    <2> QED
      BY <1>2, <2>1, <2>2
  <1>13. CASE StackAndRegs
    <2>1. pc = 17 /\ out' = out
      BY <1>13, PlanLemma DEF StackAndRegs, StackAndRegsFrom, At
    <2>2. PICK t \in todo :
              \/ Stop("raised") /\ disk' = disk
              \/ /\ EachCore(t)
                 /\ \E img : disk' = [disk EXCEPT ![<<"dst", "pages">>].stacks = @ \cup {t}, ![<<"dst", t>>] = img]
      BY <1>13 DEF StackAndRegs, StackAndRegsFrom
    <2>3. CASE Stop("raised") /\ disk' = disk
      BY <2>1, <2>3, RefQuiet DEF Stop
    <2>4. CASE /\ EachCore(t)
               /\ \E img : disk' = [disk EXCEPT ![<<"dst", "pages">>].stacks = @ \cup {t}, ![<<"dst", t>>] = img]
      <3>1. disk'[<<"src", "pages">>] = disk[<<"src", "pages">>]
        BY <1>1, <2>4 DEF DiskType, Sides
      <3> QED
        BY <1>1, <2>1, <2>4, <3>1, RefCore, WhereSteady, RefStutter
    <2> QED
      BY <2>2, <2>3, <2>4
  <1>14. CASE Finish
    <2>1. pc = 20 /\ out' = "new" /\ case' = case /\ disk' = disk
      BY <1>14, PlanLemma DEF Finish, Stop
    <2>2. out = "partial"
      BY <2>1 DEF Inv, OutOK
    <2>3. Where = IF case.noTransform /\ ~case.measure THEN "output" ELSE "source"
      <3>1. CASE Moves
        <4>1. disk[<<"src", "pages">>] = NoFile /\ disk[<<"dst", "pages">>] = Pages(case.target, case.threads)
          BY <2>1, <3>1 DEF Inv, TakenOK, PagesOK, Moves
        <4> QED
          BY <1>1, <3>1, <4>1, ImageTypes DEF Where, Moves, Pages, Torn, Image
      <3>2. CASE ~Moves
        BY <1>1, <3>2, ImageTypes DEF Inv, SourceOK, Where, Moves
      <3> QED
        BY <3>1, <3>2
    <2>4. Where' = Where
      BY <2>1 DEF Where
    <2> QED
      BY <2>1, <2>2, <2>3, <2>4 DEF Promise!Next, Promise!Finish
  <1> QED
    BY <1>3, <1>4, <1>5, <1>6, <1>7, <1>8, <1>9, <1>10, <1>11, <1>12, <1>13, <1>14 DEF Work

LEMMA RefInterrupted ==
    ASSUME Inv, Interrupted
    PROVE  [Promise!Next]_(Promise!vars)
  <1>1. pc \in 1 .. 19 /\ case' = case /\ DiskType /\ "pages" \in Paths
    BY PlanLemma DEF Interrupted, Stop, Inv, TypeOK, DiskType, Paths
  <1>2. CASE UNCHANGED <<disk, out>>
    BY <1>1, <1>2, RefQuiet
  <1>3. CASE \E p \in Writes : Write(p, Torn) /\ UNCHANGED out
    <2>1. PICK p \in Writes : Write(p, Torn) /\ out' = out
      BY <1>3
    <2>2. /\ disk'[<<"src", "pages">>] = disk[<<"src", "pages">>]
          /\ disk'[<<"dst", "pages">>] = IF p = "pages" THEN Torn ELSE disk[<<"dst", "pages">>]
      BY <1>1, <2>1 DEF Write, DiskType, Sides
    <2>3. CASE p # "pages"
      BY <1>1, <2>1, <2>2, <2>3, WhereKept, RefStutter
    <2>4. CASE p = "pages"
      <3>1. pc \in {10, 11, 17} /\ ~case.measure
        BY <1>1, <2>1, <2>4, WritesLemma
      <3>2. case.arch \in Archs /\ case.target \in Archs /\ case.threads \subseteq Threads
        BY CaseType DEF Inv, TypeOK
      <3>3. pc = 10 => disk[<<"src", "pages">>] # NoFile
        BY <3>1 DEF Inv, TakenOK
      <3>4. CASE disk[<<"src", "pages">>] # NoFile
        BY <1>1, <2>1, <2>2, <3>4, WhereKept, RefStutter
      <3>5. CASE disk[<<"src", "pages">>] = NoFile
        <4>1. pc \in {11, 17} /\ out = "partial"
          BY <3>1, <3>3, <3>5 DEF Inv, OutOK
        <4>2. disk[<<"dst", "pages">>] \notin {NoFile, Torn}
          <5>1. \E a \in Archs, s \in SUBSET Threads : disk[<<"dst", "pages">>] = Pages(a, s)
            BY <3>1, <3>2, <4>1 DEF Inv, PagesOK
          <5> QED
            BY <5>1 DEF Pages, NoFile, Torn, Image
        <4>3. Where = "output" /\ Where' = "gone"
          BY <2>2, <2>4, <3>5, <4>2 DEF Where
        <4>4. Moves
          <5>1. Pages(case.arch, case.threads) # NoFile
            BY DEF Pages, NoFile, Image
          <5> QED
            BY <3>5, <5>1 DEF Inv, SourceOK
        <4> QED
          BY <1>1, <2>1, <4>1, <4>3, <4>4 DEF Promise!Next, Promise!Spoil, Moves
      <3> QED
        BY <3>4, <3>5
    <2> QED
      BY <2>3, <2>4
  <1>4. CASE out' = "partial" /\ \E p \in Paths : Write(p, NoFile)
    <2>1. /\ disk'[<<"src", "pages">>] = disk[<<"src", "pages">>]
          /\ disk'[<<"dst", "pages">>] \in {NoFile, disk[<<"dst", "pages">>]}
      BY <1>1, <1>4 DEF Write, DiskType, Sides
    <2>2. Where' \in IF Where = "output" THEN {"output", "gone"} ELSE {Where}
      BY <2>1 DEF Where
    <2> QED
      BY <1>1, <1>4, <2>2 DEF Promise!Next, Promise!Begin
  <1> QED
    BY <1>2, <1>3, <1>4 DEF Interrupted

\* recode() implements Conversion: the output is complete at once and only with the
\* memory of the process, which is copied, or moved once and lost only with an output
\* that is thrown away or with a run that is cut short while it edits it.
THEOREM RecodeImplementsConversion == Spec => ConversionSpec
  <1>1. Init => Promise!Init
    <2> SUFFICES ASSUME Init PROVE Promise!Init
      OBVIOUS
    <2>1. /\ case \in Cases /\ out = "old"
          /\ disk[<<"src", "pages">>] = ImageOf(case, "dump", case.arch, "pages")
      BY DEF Init, Sides, Paths
    <2>2. disk[<<"src", "pages">>] # NoFile
      BY <2>1, ImageOfLemma, CaseType, ImageTypes DEF Pages
    <2> QED
      BY <2>1, <2>2, CaseType DEF Promise!Init, Where
  <1>2. Inv /\ Inv' /\ [Next]_vars => [Promise!Next]_(Promise!vars)
    <2> SUFFICES ASSUME Inv, Inv', [Next]_vars PROVE [Promise!Next]_(Promise!vars)
      OBVIOUS
    <2>1. CASE Start
      BY <2>1, RefQuiet DEF Start
    <2>2. CASE UNCHANGED vars
      BY <2>2, RefQuiet DEF vars
    <2> QED
      BY <2>1, <2>2, RefWork, RefInterrupted DEF Next
  <1> QED
    BY <1>1, <1>2, RecodeInvariant, PTL DEF Spec, ConversionSpec, Promise!Spec
=============================================================================
