------------------------------ MODULE TargetMem ------------------------------
(***************************************************************************)
(* transform_target_mem() of pycriu's converter.py: the memory images of a *)
(* dumped process (mm: its mappings, pagemap: the runs of dumped pages,    *)
(* pages: their contents, in the order of pagemap) are edited in place to  *)
(* exchange the pages that belong to the architecture (vdso, vvar,         *)
(* vsyscall and code).                                                     *)
(*                                                                         *)
(* Addresses and sizes are in pages. The content of a page is a number:    *)
(* its address in the source, or CodePage(a), VdsoPage or ZeroPage.        *)
(***************************************************************************)
EXTENDS Integers, Sequences, FiniteSets, SequencesExt

CONSTANT
    Cases   \* what may be converted, each a record of
            \*   arch: the target, "x86_64" or "aarch64"
            \*   vmas: mappings of the source, ascending, each [start, end, type]
            \*   optional: types of mappings that the source may lack
            \*   sp: a page of the stack that is in use
            \*   text: the .text section of the target binary, [start, end]
            \*   vdso, vvar, vsyscall: the templates of the target, [start, end, type]

VARIABLES
    case,       \* the member of Cases that is converted
    pc,         \* the next step of transform_target_mem()
    vmas,       \* mm image
    pagemap,    \* pagemap image: [vaddr, nr]
    pages,      \* pages image
    orig_size,  \* what the code takes for the length of pages
    src         \* the source: its pagemap and pages

vars == <<case, pc, vmas, pagemap, pages, orig_size, src>>

ARCH == case.arch
SrcVmas == case.vmas
Sp == case.sp
TextStart == case.text.start
TextEnd == case.text.end
Vdso == case.vdso
Vvar == case.vvar
Vsyscall == case.vsyscall

CodePage(a) == 1000 + a
VdsoPage == -1
ZeroPage == -2

Pages(v) == v.start .. v.end - 1
AllPages(vs) == UNION {Pages(vs[k]) : k \in DOMAIN vs}

\* The pages in front of entry k of pagemap pm.
Skipped(pm, k) == SumFunctionOnSet([j \in DOMAIN pm |-> pm[j].nr], 1 .. k - 1)
Total(pm) == Skipped(pm, Len(pm) + 1)

\* Operations on a file: write at an offset, and truncate (or extend) it.
WriteAt(file, off, buff) ==
    SubSeq(file, 1, off) \o buff \o SubSeq(file, off + Len(buff) + 1, Len(file))
ReadAt(file, off, n) == SubSeq(file, off + 1, IF off + n < Len(file) THEN off + n ELSE Len(file))
Truncate(file, n) == [k \in 1 .. n |-> IF k <= Len(file) THEN file[k] ELSE ZeroPage]

-----------------------------------------------------------------------------
\* remove_region_type(): the first mapping of the type, and the first pagemap entry
\* that starts inside it or, as the code has it, at its end.
FirstOf(type) == SelectInSeq(vmas, LAMBDA v : v.type = type)
EntryOfMutant(v) == SelectInSeq(pagemap, LAMBDA p : p.vaddr <= v.end)
EntryOf(v) == SelectInSeq(pagemap, LAMBDA p : v.start <= p.vaddr /\ p.vaddr <= v.end)

\* Cut the n pages at off out of the pages file: move what is behind them down.
CutTo(off, n, size) ==
    Truncate(WriteAt(pages, off, ReadAt(pages, off + n, orig_size - (off + n))), size)

CutMutant(off, n) == CutTo(off, n, off)
Cut(off, n) == CutTo(off, n, orig_size - n)

RemoveRegion(type) ==
    LET k == FirstOf(type) e == EntryOf(vmas[k]) IN
    /\ k # 0
    /\ vmas' = RemoveAt(vmas, k)
    /\ IF e = 0
       THEN UNCHANGED <<pagemap, pages>>
       ELSE /\ pagemap' = RemoveAt(pagemap, e)
            /\ pages' = Cut(Skipped(pagemap, e), pagemap[e].nr)

\* __add_target_region(): the mapping goes before the first one behind it. One that
\* would overlap its predecessor is refused; behind the last one nothing is checked.
FirstBehindMutant(t) == 0
FirstBehind(t) == SelectInSeq(vmas, LAMBDA v : v.start >= t.end)
RefusedMutant(t) == FALSE
Refused(t) == LET k == FirstBehind(t) IN k > 1 /\ vmas[k - 1].end > t.start

InsertBefore(s, k, x) == IF k = 0 THEN Append(s, x) ELSE InsertAt(s, k, x)

\* Its pages, when it has any, go into the pages file where its entry goes into pagemap.
AddRegionWhen(t, contents, dumped) ==
    LET e == SelectInSeq(pagemap, LAMBDA p : p.vaddr >= t.start)
        off == Skipped(pagemap, IF e = 0 THEN Len(pagemap) + 1 ELSE e)
        n == Len(contents)
    IN  IF Refused(t)
        THEN UNCHANGED <<vmas, pagemap, pages, orig_size>>
        ELSE /\ vmas' = InsertBefore(vmas, FirstBehind(t), t)
             /\ orig_size' = orig_size + n
             /\ IF ~dumped
                THEN UNCHANGED <<pagemap, pages>>
                ELSE /\ pagemap' = InsertBefore(pagemap, e, [vaddr |-> t.start, nr |-> n])
                     /\ pages' = WriteAt(pages, off, contents \o ReadAt(pages, off, orig_size - off))

AddRegionMutant(t, contents) == AddRegionWhen(t, contents, TRUE)
AddRegion(t, contents) == AddRegionWhen(t, contents, contents # <<>>)

-----------------------------------------------------------------------------
Goto(l) == pc' = l /\ UNCHANGED <<case, src>>

\* The mapping of the code takes the place of the target binary's text.
SetText ==
    /\ pc = "text"
    /\ LET k == SelectInSeq(vmas, LAMBDA v : v.type \in {"code", "vsyscall"})
       IN  vmas' = [vmas EXCEPT ![k].start = TextStart, ![k].end = TextEnd]
    /\ Goto("remove_vdso")
    /\ UNCHANGED <<pagemap, pages, orig_size>>

\* A type that is not there is not added either. The size that remove_region_type()
\* returns is compared with 0 (it is more: the page at Sp remains) and forgotten.
RemoveOr(type, from, there, missing) ==
    /\ pc = from
    /\ IF FirstOf(type) = 0
       THEN Goto(missing) /\ UNCHANGED <<vmas, pagemap, pages>>
       ELSE Goto(there) /\ RemoveRegion(type)
    /\ UNCHANGED orig_size

RemoveVdso == RemoveOr("vdso", "remove_vdso", "add_vdso", "remove_vvar")
AddVdso == pc = "add_vdso" /\ AddRegion(Vdso, <<VdsoPage>>) /\ Goto("remove_vvar")
RemoveVvar == RemoveOr("vvar", "remove_vvar", "add_vvar", "vsyscall")
AddVvar == pc = "add_vvar" /\ AddRegion(Vvar, <<>>) /\ Goto("vsyscall")

RemoveVsyscall == ARCH = "aarch64" /\ RemoveOr("vsyscall", "vsyscall", "code", "code")
AddVsyscall ==
    /\ ARCH = "x86_64"
    /\ pc = "vsyscall"
    /\ AddRegion(Vsyscall, <<>>)
    /\ Goto("code")

\* get_code_pages_offset() and copy_code_pages(): entries that start in the text, or
\* at its end, are overwritten by what the text has at their addresses, if any.
\* There must be one: the code asserts "Code pages not found".
CodeEntries == {k \in DOMAIN pagemap : TextStart <= pagemap[k].vaddr /\ pagemap[k].vaddr <= TextEnd}

CopyCodeAt(k, off) ==
    LET a == pagemap[k].vaddr IN
    [i \in 1 .. pagemap[k].nr |-> IF a + i - 1 < TextEnd THEN CodePage(a + i - 1) ELSE pages[off + i]]

CopyCodeOver(shift) ==
    /\ pc = "code"
    /\ pages' = [j \in DOMAIN pages |->
          LET ks == {k \in CodeEntries : j - shift - Skipped(pagemap, k) \in 1 .. pagemap[k].nr}
          IN  IF ks = {} THEN pages[j]
              ELSE LET k == CHOOSE k \in ks : TRUE off == Skipped(pagemap, k)
                   IN  CopyCodeAt(k, off)[j - shift - off]]
    /\ Goto(IF CodeEntries = {} THEN "failed" ELSE "done")
    /\ UNCHANGED <<vmas, pagemap, orig_size>>

CopyCodeMutant == CopyCodeOver(1)
CopyCode == CopyCodeOver(0)

-----------------------------------------------------------------------------
(***************************************************************************)
(* The dump, by CRIU: the vdso always, the vvar and the vsyscall never,    *)
(* other pages when they are in use and not as in their file. Runs of      *)
(* adjacent pages share an entry, also across mappings, unless the buffer  *)
(* they go through was full in between. (Pages that may be restored        *)
(* lazily, anonymous private ones, go through buffers of their own; no     *)
(* case has them next to dumped pages of the other kind.)                  *)
(***************************************************************************)
DumpedVmas(lacking) == SelectSeq(SrcVmas, LAMBDA v : v.type \notin lacking)

RunStarts(present, split) == {p \in present : p - 1 \notin present \/ p \in split}

\* The elements of a set of numbers, ascending.
Ascending(S) ==
    [i \in 1 .. Cardinality(S) |-> CHOOSE x \in S : Cardinality({y \in S : y < x}) = i - 1]

Pagemap(present, split) ==
    LET starts == RunStarts(present, split)
        Run(s) == {p \in present : p >= s /\ \A q \in s .. p : q \in present /\ (q = s \/ q \notin starts)}
    IN  [k \in 1 .. Cardinality(starts) |->
            [vaddr |-> Ascending(starts)[k], nr |-> Cardinality(Run(Ascending(starts)[k]))]]

PagesOf(vs, types) == UNION {Pages(vs[k]) : k \in {j \in DOMAIN vs : vs[j].type \in types}}

Init ==
    /\ case \in Cases
    /\ pc = "text"
    /\ \E lacking \in SUBSET case.optional :
          /\ vmas = DumpedVmas(lacking)
          /\ \E used \in SUBSET (PagesOf(vmas, {"code", "data", "stack"})), full \in SUBSET {Sp} :
                /\ Sp \in used
                /\ \A p \in used \cap PagesOf(vmas, {"code"}) : p \in TextStart .. TextEnd - 1
                /\ LET present == used \cup PagesOf(vmas, {"vdso"}) IN
                   /\ pagemap = Pagemap(present, full)
                   /\ pages = Ascending(present)
    /\ orig_size = Len(pages)
    /\ src = [pagemap |-> pagemap, pages |-> pages]

Next ==
    \/ SetText \/ RemoveVdso \/ AddVdso \/ RemoveVvar \/ AddVvar
    \/ RemoveVsyscall \/ AddVsyscall \/ CopyCode

Spec == Init /\ [][Next]_vars

-----------------------------------------------------------------------------
\* What an image holds: the content of every page that its pagemap names.
Content(pm, file) ==
    [a \in UNION {pm[k].vaddr .. pm[k].vaddr + pm[k].nr - 1 : k \in DOMAIN pm} |->
        LET k == CHOOSE k \in DOMAIN pm : a \in pm[k].vaddr .. pm[k].vaddr + pm[k].nr - 1
        IN  file[Skipped(pm, k) + a - pm[k].vaddr + 1]]

Source == Content(src.pagemap, src.pages)
Target == Content(pagemap, pages)

Kept == {a \in DOMAIN Source :
            \A k \in DOMAIN SrcVmas : a \in Pages(SrcVmas[k]) => SrcVmas[k].type # "vdso"}
HasVdso == \E k \in DOMAIN vmas : vmas[k] = Vdso

\* Every variable has its type; in particular no edit leaves an entry without pages.
TypeOK ==
    /\ case \in Cases
    /\ pc \in {"text", "remove_vdso", "add_vdso", "remove_vvar", "add_vvar", "vsyscall", "code",
               "done", "failed"}
    /\ \A v \in Range(vmas) : v.start \in Nat /\ v.end \in Nat /\ v.start < v.end
    /\ \A p \in Range(pagemap) : p.vaddr \in Nat /\ p.nr \in Nat \ {0}
    /\ Range(pages) \subseteq Int
    /\ orig_size \in Nat

\* No entry of pagemap and no mapping is out of order or overlaps the next one.
Ordered ==
    /\ \A k \in DOMAIN vmas, l \in DOMAIN vmas : k < l => vmas[k].end <= vmas[l].start
    /\ \A k \in DOMAIN pagemap, l \in DOMAIN pagemap :
          k < l => pagemap[k].vaddr + pagemap[k].nr <= pagemap[l].vaddr

\* The edits move no page away from its address and lose none: transform_target_mem
\* exchanges the code and the vdso and leaves every other page as it was dumped.
PagesFollow ==
    pc = "done" =>
        /\ DOMAIN Target = Kept \cup (IF HasVdso THEN {Vdso.start} ELSE {})
        /\ \A a \in Kept : Target[a] = IF a \in TextStart .. TextEnd - 1 THEN CodePage(a) ELSE a
        /\ HasVdso => Target[Vdso.start] = VdsoPage

\* CRIU can map every page of the image: mappings and entries are in order, and
\* every dumped page lies in a mapping.
Mappable == pc = "done" => Ordered /\ DOMAIN Target \subseteq AllPages(vmas)

\* The size the code works with never falls short of the pages there are, else
\* the tail of the file (the stack) would not be moved with the rest.
SizeCovers == Total(pagemap) <= Len(pages) /\ Len(pages) <= orig_size

-----------------------------------------------------------------------------
(***************************************************************************)
(* get_stack_page_offset() finds the stack pointer, in half pages, in an   *)
(* image: the first entry that does not end before it.                     *)
(***************************************************************************)
StackEntry(pm, sp) == SelectInSeq(pm, LAMBDA p : ~(sp > 2 * (p.vaddr + p.nr)))

StackOffsetMutant(pm, sp) == 2 * Skipped(pm, StackEntry(pm, sp)) + (sp % 2)
StackOffset(pm, sp) ==
    LET k == StackEntry(pm, sp) IN 2 * Skipped(pm, k) + sp - 2 * pm[k].vaddr
StackBase(pm, sp) == LET k == StackEntry(pm, sp) IN 2 * (Skipped(pm, k) + pm[k].nr)

\* rewrite_context_init() finds the frame at the stack pointer in both images: the
\* page at the offset is the one the stack pointer points to, and the base is the
\* end of its run of pages, if that is the run found (the code asserts that a run
\* is in front of it, and takes a run that ends at the stack pointer for its run).
StackLocated ==
    pc = "done" =>
        \A image \in {src, [pagemap |-> pagemap, pages |-> pages]}, sp \in {2 * Sp, 2 * Sp + 1} :
            LET pm == image.pagemap
                k == CHOOSE k \in DOMAIN pm : Sp \in pm[k].vaddr .. pm[k].vaddr + pm[k].nr - 1
            IN  StackEntry(pm, sp) > 1 =>
                    /\ image.pages[StackOffset(pm, sp) \div 2 + 1] = Sp
                    /\ StackEntry(pm, sp) = k => StackBase(pm, sp) = 2 * (Skipped(pm, k + 1))
=============================================================================
