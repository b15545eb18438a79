---------------------------- MODULE StackTransform ----------------------------
(***************************************************************************)
(* Rewriting the stack and the registers of one thread for the other       *)
(* architecture: unwind_and_size() walks the source frames and clears room *)
(* for the destination frames, rewrite_frame() fills them, the innermost   *)
(* first, and _fixup_local_pointers() adjusts pointers into a frame once   *)
(* all of it has been placed.                                              *)
(*                                                                         *)
(* Frame 1 is the innermost. A stack is a function from the offset to the  *)
(* stack pointer, which both stacks share, to the byte there. A live value *)
(* of a call site is described once, with its location on both sides:      *)
(*   alloca, ptr, temp  flags of the stack map                             *)
(*   size, dsize        in bytes, on the two sides                         *)
(*   src, dst           locations: [type |-> "reg", reg |-> r] or          *)
(*                      [type |-> "slot", reg |-> "bp" or "sp", off |-> n] *)
(*   sdups, ddups       duplicate location records that follow it          *)
(*   val                <<"num", 8-byte words>> or, for a pointer into the *)
(*                      stack, <<"at", frame, index of an alloca, offset>> *)
(***************************************************************************)
EXTENDS Integers, Sequences, SequencesExt, Bitwise

CONSTANTS
    Cases,   \* the dumped threads, each a record of
             \*   arch: of the destination
             \*   frames: sequence of [src, dst: frame sizes, vals: live values,
             \*                        archs: values of the destination only]
             \*   ends: "first" when the call site of the last frame says so, or "unknown"
             \*         when there is no call site for the function that called it
             \*   known: there is a call site for the pc of the thread
             \*   missing: frames whose call site the destination binary does not have
             \*   transform: FALSE for --no-transform, of binaries with equal layouts
             \*   moved: how much further the source's image has the stack in its pages file
    Sp,      \* the stack pointer of the thread
    Depth    \* bytes of stack above it

VARIABLES
    case,       \* the member of Cases that is rewritten
    pc,         \* what is next
    src, dst,   \* the stack that was dumped, and the one in the output
    regs,       \* registers of the frames found, regs.src[k] and regs.dst[k]
    walk,       \* of unwind_and_size(): [bp, pc, sp] of the next source frame
    act,        \* the frame that is rewritten
    n,          \* and its live value
    again,      \* duplicate records of that value that are still to be handled
    pointers,   \* stack_pointers: fixups [addr, act, val]
    needs,      \* needs_fixup
    f           \* of _fixup_local_pointers(): the fixup that is looked at

vars == <<case, pc, src, dst, regs, walk, act, n, again, pointers, needs, f>>

Frames == 1 .. Len(case.frames)
Frame(k) == case.frames[k]
Vals(k) == case.frames[k].vals
ARCH == case.arch

Linkage == 16     \* saved base pointer and return address, at the top of a frame
ra_offset == 8

Regs == {"sp", "bp", "pc", "lr", "a", "b", "csr1", "csr2"}
NoRegs == [r \in Regs |-> 0]

\* The bytes of a number, little endian, and back. Numbers are below 256^3.
Byte(v, k) == IF k < 3 THEN (v \div 256 ^ k) % 256 ELSE 0
Unpack(mem, off, size) ==
    mem[off] + (IF size > 1 THEN 256 * mem[off + 1] ELSE 0) + (IF size > 2 THEN 256 ^ 2 * mem[off + 2] ELSE 0)
Pack(mem, off, v, size) ==
    [a \in DOMAIN mem |-> IF a \in off .. off + size - 1 THEN Byte(v, a - off) ELSE mem[a]]

-----------------------------------------------------------------------------
\* What the compilers lay out: the stack of a side, from the program's state.

SizeOf(side, k) == IF side = "src" THEN Frame(k).src ELSE Frame(k).dst
TopOf(side, k) ==
    LET top[j \in 0 .. k] == IF j = 0 THEN 0 ELSE top[j - 1] + SizeOf(side, j) IN top[k]
BpOf(side, k) == TopOf(side, k) - Linkage
LocOf(side, v) == IF side = "src" THEN v.src ELSE v.dst
AddrOf(side, k) == (IF side = "dst" /\ case.transform THEN 700 ELSE 500) + k   \* of the call site
LibcAddr == 900

SlotOf(side, k, v) ==
    LET l == LocOf(side, v) IN IF l.reg = "bp" THEN BpOf(side, k) + l.off ELSE TopOf(side, k - 1) + l.off

\* The words of a value, and a byte of it.
WordsOf(side, v) ==
    IF v.val[1] = "num" THEN v.val[2]
    ELSE <<Sp + SlotOf(side, v.val[2], Vals(v.val[2])[v.val[3]]) + v.val[4]>>
ByteOf(side, v, k) == Byte(WordsOf(side, v)[1 + (k \div 8)], k % 8)

\* A byte of a stack: of a live value, of a frame's links, or none.
Covers(side, k, i, a) ==
    LET v == Vals(k)[i]
    IN  /\ LocOf(side, v).type = "slot"
        /\ a \in SlotOf(side, k, v) .. SlotOf(side, k, v) + (IF side = "src" THEN v.size ELSE v.dsize) - 1

Layout(side, filler, above) ==
    [a \in 0 .. Depth - 1 |->
        LET live == {ki \in UNION {{k} \X DOMAIN Vals(k) : k \in Frames} : Covers(side, ki[1], ki[2], a)}
            links == {k \in Frames : a \in BpOf(side, k) .. BpOf(side, k) + Linkage - 1}
        IN  IF live # {}
            THEN LET ki == CHOOSE ki \in live : TRUE
                     v == Vals(ki[1])[ki[2]]
                 IN  ByteOf(side, v, a - SlotOf(side, ki[1], v))
            ELSE IF links # {}
            THEN LET k == CHOOSE k \in links : TRUE
                     b == a - BpOf(side, k)
                     last == k = Len(case.frames)
                 IN  IF b < 8 THEN Byte(IF last THEN 0 ELSE Sp + BpOf(side, k + 1), b)
                     ELSE Byte(IF last THEN LibcAddr ELSE AddrOf(side, k + 1), b - 8)
            ELSE IF a < TopOf(side, Len(case.frames)) THEN filler ELSE above]

Filler == 170   \* what unused bytes of a frame hold,
Above == 187    \* and bytes above the last frame

\* The registers of the source, which belong to the innermost frame.
Saved ==
    [r \in Regs |->
        LET vs == {i \in DOMAIN Vals(1) : Vals(1)[i].src.type = "reg" /\ Vals(1)[i].src.reg = r}
        IN  IF vs # {} THEN WordsOf("src", Vals(1)[CHOOSE i \in vs : TRUE])[1]
            ELSE IF r = "csr1" THEN 71 ELSE IF r = "csr2" THEN 72 ELSE 79]

-----------------------------------------------------------------------------
Init ==
    /\ case \in Cases
    /\ pc = "unwind"
    /\ src = Layout("src", Filler, Above) /\ dst = src
    /\ regs = [src |-> <<>>, dst |-> <<>>]
    /\ walk = [bp |-> Sp + BpOf("src", 1), pc |-> IF case.known THEN AddrOf("src", 1) ELSE LibcAddr, sp |-> Sp]
    /\ act = 1 /\ n = 1 /\ again = 0 /\ pointers = <<>> /\ needs = FALSE /\ f = 1

Found == Len(regs.src)
Sites(addr) == {k \in Frames : AddrOf("src", k) = addr}
SiteOf(addr) == CHOOSE k \in Sites(addr) : TRUE

\* The stack that the source's context reads. Without a transformation it is the output,
\* at the offset that the source's pagemap gives for the stack.
Source ==
    IF case.transform THEN src
    ELSE [a \in DOMAIN dst |-> IF a + case.moved \in DOMAIN dst THEN dst[a + case.moved] ELSE Above]

\* One round of the loop of unwind_and_size(). The frames of both sides have their base
\* pointer at the same distance from their end.
Unwind ==
    /\ pc = "unwind" /\ Sites(walk.pc) # {} /\ SiteOf(walk.pc) \notin case.missing
    /\ LET c == SiteOf(walk.pc)
           first == Found = 0
           bp == IF first THEN walk.bp + Frame(c).dst - Frame(c).src
                 ELSE regs.dst[Found]["bp"] + Frame(c).dst
           s == [(IF first THEN Saved ELSE NoRegs) EXCEPT !["sp"] = walk.sp, !["bp"] = walk.bp]
           d == [r \in Regs |-> CASE r = "sp" -> Sp
                                  [] r = "bp" -> bp
                                  [] r = "pc" /\ first -> AddrOf("dst", c)
                                  [] r = "lr" /\ first /\ ARCH = "aarch64" -> AddrOf("dst", c)
                                  [] r \in {"csr1", "csr2"} /\ first /\ ~case.transform -> Saved[r]
                                  [] OTHER -> 0]
       IN  /\ regs' = [src |-> Append(regs.src, s), dst |-> Append(regs.dst, d)]
           /\ walk' = [bp |-> Unpack(Source, walk.bp - Sp, 8), pc |-> Unpack(Source, walk.bp - Sp + ra_offset, 8),
                       sp |-> walk.sp + Frame(c).src]
           /\ pc' = IF case.ends = "first" /\ c = Len(case.frames) THEN "clear" ELSE "unwind"
    /\ UNCHANGED <<case, src, dst, act, n, again, pointers, needs, f>>

\* Without a call site in the source the walk is over, and there must be a frame then;
\* without one in the destination its frame_size is asked of None.
UnwindEnds ==
    /\ pc = "unwind" /\ Sites(walk.pc) \subseteq case.missing
    /\ pc' = IF Found = 0 \/ Sites(walk.pc) # {} THEN "raised" ELSE "clear"
    /\ UNCHANGED <<case, src, dst, regs, walk, act, n, again, pointers, needs, f>>

\* The rest of unwind_and_size(): room for the frames is cleared. Without a transformation
\* the frames are read and written, and that is all. Both pages are one file object then,
\* and what is written lands where reading ended, right behind what was read.
StackSize == TopOf("dst", Found)

ClearSize(size) ==
    /\ pc = "clear"
    /\ IF case.transform
       THEN dst' = [a \in DOMAIN dst |-> IF a < size THEN 0 ELSE dst[a]] /\ pc' = "link"
       ELSE LET end == case.moved + size
            IN  /\ dst' = [a \in DOMAIN dst |-> IF a \in end .. end + size - 1 THEN Source[a - end] ELSE dst[a]]
                /\ pc' = "done"
    /\ UNCHANGED <<case, src, regs, walk, act, n, again, pointers, needs, f>>

ClearLess == ClearSize(StackSize - Linkage)
ClearMore == ClearSize(StackSize + Linkage)
Clear == ClearSize(StackSize)

\* _put_frame_ptr(): the links of a frame, except the last. The unwinding information
\* says that the base pointer is saved where it points to.
PutFramePtrTo(fp) ==
    /\ pc = "link"
    /\ IF act = Found THEN UNCHANGED dst
       ELSE LET bp == regs.dst[act]["bp"]
            IN  dst' = Pack(Pack(dst, bp - Sp, fp, 8), bp - Sp + ra_offset, AddrOf("dst", act + 1), 8)
    /\ pc' = "val" /\ n' = 1 /\ again' = 0 /\ needs' = FALSE
    /\ UNCHANGED <<case, src, regs, walk, act, pointers, f>>

PutFramePtrMutant == PutFramePtrTo(regs.dst[act]["bp"] + Frame(act).dst)
PutFramePtr == PutFramePtrTo(regs.dst[act]["bp"] + (IF act = Found THEN 0 ELSE Frame(act + 1).dst))

-----------------------------------------------------------------------------
\* _get_val() and _put_val(). A value is a sequence of words; the code takes one of 1,
\* 2, 4 or 8 bytes for a number and others, which must be allocas, for a list.

Scalar(size) == size \in {1, 2, 4, 8}
SrcOffset(k, v) == regs.src[k][v.src.reg] + v.src.off - Sp
DstOffset(k, v) == regs.dst[k][v.dst.reg] + v.dst.off - Sp

GetValFrom(rs, v) ==
    LET off == rs[v.src.reg] + v.src.off - Sp
    IN  IF v.src.type = "reg" THEN <<rs[v.src.reg]>>
        ELSE IF Scalar(v.size) THEN <<Unpack(src, off, v.size)>>
        ELSE [w \in 1 .. v.size \div 8 |-> Unpack(src, off + 8 * (w - 1), 8)]

GetValMutant(k, v) == GetValFrom(regs.src[1], v)
GetVal(k, v) == GetValFrom(regs.src[k], v)

\* out: the stack and the registers of the destination. Spilled values of 1 and 2 bytes
\* are written as 4.
Out == [mem |-> dst, regs |-> regs.dst]

PutVal(out, k, v, raw) ==
    IF v.dst.type = "reg" THEN [out EXCEPT !.regs[k][v.dst.reg] = raw[1]]
    ELSE IF Scalar(v.dsize)
    THEN [out EXCEPT !.mem = Pack(@, DstOffset(k, v), raw[1], IF v.alloca \/ v.dsize > 4 THEN v.dsize ELSE 4)]
    ELSE [out EXCEPT !.mem = FoldLeft(LAMBDA m, w : Pack(m, DstOffset(k, v) + 8 * (w - 1), raw[w], 8), @,
                                      [w \in 1 .. v.dsize \div 8 |-> w])]

\* _points_to_stack(): the address, or 0. A register is always that of the innermost frame.
NullPtr == 0
PointsToStack(k, v) ==
    LET addr == IF v.src.type = "reg" THEN regs.src[1][v.src.reg] ELSE Unpack(src, SrcOffset(k, v), 8)
    IN  IF ~(v.temp \/ v.ptr) \/ addr - Sp < 0 \/ addr - Sp >= Depth THEN NullPtr ELSE addr

\* _points_to_data(): whether an address is in an alloca.
PointsToData(k, v, addr) == addr - Sp \in SrcOffset(k, v) .. SrcOffset(k, v) + v.size - 1

\* _put_val_data(): the alloca again, and the pointer into it.
PutValData(out, k, v, fix) ==
    LET ptr == Sp + DstOffset(k, v) + (fix.addr - Sp - SrcOffset(k, v))
    IN  PutVal(PutVal(out, k, v, GetVal(k, v)), fix.act, fix.val, <<ptr>>)

\* Sizes of va_list: such allocas are left alone.
Skip(v) == v.alloca /\ {v.size, v.dsize} \in {{24, 32}, {24, 8}}

\* _rewrite_val(), and the loop over duplicate records that calls it: they are given the
\* first record of the destination each time.
Kept(k, addr) == k = 1 \/ addr - regs.src[k]["sp"] >= Frame(k - 1).src
Local(k, addr) == addr - regs.src[k]["sp"] < Frame(k).src

RewriteValOf(v, resolve) ==
    LET addr == PointsToStack(act, v)
        kept == addr # NullPtr /\ Kept(act, addr)
        ptrs == IF kept THEN Append(pointers, [addr |-> addr, act |-> act, val |-> v]) ELSE pointers
        out == IF addr = NullPtr THEN PutVal(Out, act, v, GetVal(act, v)) ELSE Out
        all == IF ~resolve THEN out
               ELSE FoldLeft(LAMBDA o, fix : IF PointsToData(act, v, fix.addr) THEN PutValData(o, act, v, fix) ELSE o,
                             out, ptrs)
    IN  IF v.temp \/ Skip(v) THEN UNCHANGED <<dst, regs, pointers, needs>>
        ELSE /\ pointers' = ptrs
             /\ needs' = (needs \/ (kept /\ Local(act, addr)))
             /\ dst' = all.mem
             /\ regs' = [regs EXCEPT !.dst = all.regs]

RewriteValMutant(v) == RewriteValOf(v, FALSE)
RewriteVal(v) == RewriteValOf(v, v.alloca)

RewriteVals ==
    /\ pc = "val" /\ n \in DOMAIN Vals(act)
    /\ RewriteVal(Vals(act)[n])
    /\ IF again < Vals(act)[n].ddups THEN again' = again + 1 /\ UNCHANGED n
       ELSE again' = 0 /\ n' = n + 1
    /\ UNCHANGED <<case, pc, src, walk, act, f>>

\* _get_arch_val(): what a value that only the destination has is computed from. Every
\* one is [loc, gen, inst, type, reg, off, size], the last four for its operand.
Apply(inst, raw, x) ==
    CASE inst = "Set" -> x
      [] inst = "Add" -> raw + x
      [] inst = "Sub" -> raw - x
      [] inst = "Mult" -> raw * x
      [] inst = "Divide" -> raw \div x
      [] inst = "LShift" -> raw * 2 ^ x
      [] inst \in {"RShiftLog", "RShiftArith"} -> raw \div 2 ^ x
      [] inst = "Mask" -> raw & x

GetArchVal(out, k, a, raw) ==
    LET reg == out.regs[k][a.reg]
    IN  IF a.gen THEN Apply(a.inst, raw, IF a.type = "reg" THEN reg ELSE a.off)
        ELSE CASE a.type = "reg" -> reg
               [] a.type = "direct" -> Unpack(out.mem, reg + a.off - Sp, a.size)
               [] a.type = "indirect" -> reg + a.off
               [] a.type = "constant" -> a.off

PutArchVal(out, k, a) ==
    LET off == out.regs[k][a.loc.reg] + a.loc.off - Sp
    IN  IF a.loc.type = "reg"
        THEN [out EXCEPT !.regs[k][a.loc.reg] = GetArchVal(out, k, a, out.regs[k][a.loc.reg])]
        ELSE [out EXCEPT !.mem = Pack(@, off, GetArchVal(out, k, a, Unpack(@, off, 8)), a.size)]

\* The loop over them in rewrite_frame(), and what follows it.
PutArchVals ==
    /\ pc = "val" /\ n \notin DOMAIN Vals(act)
    /\ LET out == FoldLeft(LAMBDA o, a : PutArchVal(o, act, a), Out, Frame(act).archs)
       IN  dst' = out.mem /\ regs' = [regs EXCEPT !.dst = out.regs]
    /\ pc' = IF needs THEN "fix" ELSE "next"
    /\ n' = 1 /\ f' = 1
    /\ UNCHANGED <<case, src, walk, act, again, pointers, needs>>

\* One round of the loops of _fixup_local_pointers(): a fixup against a live value.
InFrame(fix) ==
    LET bp == regs.src[act]["bp"] IN fix.act = act /\ fix.addr <= bp /\ fix.addr > bp - Frame(act).src

NextFixupBy(step) ==
    /\ pc = "fix"
    /\ f \in DOMAIN pointers => n \notin DOMAIN Vals(act) \/ ~InFrame(pointers[f])
    /\ IF f \in DOMAIN pointers THEN f' = f + step /\ n' = 1 /\ UNCHANGED pc ELSE pc' = "next" /\ UNCHANGED <<f, n>>
    /\ UNCHANGED <<case, src, dst, regs, walk, act, again, pointers, needs>>

NextFixupMutant == NextFixupBy(IF n \in DOMAIN Vals(act) THEN 0 ELSE 1)
NextFixup == NextFixupBy(1)

\* if raw_val: a number that is not 0, or a list that is not empty.
True(v, raw) == IF Scalar(v.size) THEN raw[1] # 0 ELSE raw # <<>>

FixupVal ==
    /\ pc = "fix" /\ f \in DOMAIN pointers /\ InFrame(pointers[f]) /\ n \in DOMAIN Vals(act)
    /\ LET v == Vals(act)[n]
           out == PutValData(Out, act, v, pointers[f])
       IN  IF ~v.alloca
           \* `continue' without a step: the same value again, or the assertion on duplicates.
           THEN pc' = (IF v.sdups + v.ddups > 0 THEN "raised" ELSE pc) /\ UNCHANGED <<dst, regs, n>>
           ELSE /\ IF PointsToData(act, v, pointers[f].addr) /\ True(v, GetVal(act, v))
                   THEN dst' = out.mem /\ regs' = [regs EXCEPT !.dst = out.regs]
                   ELSE UNCHANGED <<dst, regs>>
                /\ n' = n + 1 /\ UNCHANGED pc
    /\ UNCHANGED <<case, src, walk, act, again, pointers, needs, f>>

\* The next activation in transform_stack_and_regs(); after the last the registers of
\* the first are copied to the core image. What the others got is dropped.
CopyOut == regs.dst[1]

NextFrameUpTo(last) ==
    /\ pc = "next"
    /\ IF act < last THEN act' = act + 1 /\ pc' = "link" ELSE pc' = "done" /\ UNCHANGED act
    /\ UNCHANGED <<case, src, dst, regs, walk, n, again, pointers, needs, f>>

NextFrameMutant == NextFrameUpTo(Found + 1)
NextFrame == NextFrameUpTo(Found)

Next == \/ Unwind \/ UnwindEnds \/ Clear \/ PutFramePtr \/ RewriteVals \/ PutArchVals
        \/ NextFixup \/ FixupVal \/ NextFrame

\* Sequential code: it goes on as long as it can.
Spec == Init /\ [][Next]_vars /\ WF_vars(Next)

-----------------------------------------------------------------------------
\* The values of the variables, of which case is constant: every index stays within the
\* list that rewrite_frame() and its callers go through.
TypeOK ==
    /\ pc \in {"unwind", "clear", "link", "val", "fix", "next", "done", "raised"}
    /\ src \in [0 .. Depth - 1 -> 0 .. 255] /\ dst \in [0 .. Depth - 1 -> 0 .. 255]
    /\ act \in Frames /\ Found \in 0 .. Len(case.frames)
    /\ n \in 1 .. Len(Vals(act)) + 1
    /\ again \in 0 .. IF n \in DOMAIN Vals(act) THEN Vals(act)[n].ddups ELSE 0
    /\ needs \in BOOLEAN
    /\ f \in 1 .. Len(pointers) + 1

\* Nothing is said of --no-transform when the pages in front of the stack became more or
\* fewer: the code then takes other bytes for the frames.
Done == pc = "done" /\ (case.transform \/ case.moved = 0)
Values == UNION {{k} \X DOMAIN Vals(k) : k \in Frames}
Val(ki) == Vals(ki[1])[ki[2]]

\* The program finds its way through its frames on the destination: from the registers
\* that are written back and the links, one gets to the base pointer of every frame and
\* to the address in the destination's code where it goes on.
FramesLinked ==
    Done =>
        /\ Found = Len(case.frames)
        /\ CopyOut["sp"] = Sp /\ CopyOut["bp"] = Sp + BpOf("dst", 1) /\ CopyOut["pc"] = AddrOf("dst", 1)
        /\ \A k \in 1 .. Found - 1 : /\ Unpack(dst, BpOf("dst", k), 8) = Sp + BpOf("dst", k + 1)
                                     /\ Unpack(dst, BpOf("dst", k) + ra_offset, 8) = AddrOf("dst", k + 1)

\* What a value is at its place on the destination. Of a list, whole words are copied.
Held(v) == IF Scalar(v.dsize) THEN v.dsize ELSE 8 * (v.dsize \div 8)
IsPlaced(ki) ==
    LET v == Val(ki)
        w == WordsOf("dst", v)
    IN  IF v.dst.type = "reg" THEN ki[1] = 1 /\ CopyOut[v.dst.reg] = w[1]
        ELSE \A b \in 0 .. Held(v) - 1 : dst[SlotOf("dst", ki[1], v) + b] = ByteOf("dst", v, b)

\* Values that the code does not claim to place: temporaries, va_lists, what an outer
\* frame has in a register, and slots of the destination that are relative to the stack
\* pointer of an outer frame.
Unplaced(ki) ==
    LET v == Val(ki) IN v.temp \/ Skip(v) \/ (ki[1] > 1 /\ ("reg" \in {v.src.type, v.dst.type} \/ v.dst.reg = "sp"))

\* Every live value that is no pointer into the stack is the same on the destination,
\* in every frame and wherever the two compilers put it: numbers, arrays, pointers
\* elsewhere, and values in registers of the innermost frame.
ValuesFollow == Done => \A ki \in Values : Val(ki).val[1] = "num" /\ ~Unplaced(ki) => IsPlaced(ki)

\* A pointer that rewrite_frame() drops, or does not get right: one of an outer frame to
\* something nearer to its stack pointer than the size of the frame inside it; one to a
\* number 0 of its own frame that is listed before it; one into its own frame to which
\* another one of the frame points, when that is listed later or the first is to a 0.
Target(ki) == <<Val(ki).val[2], Val(ki).val[3]>>
IsPointer(ki) == Val(ki).val[1] = "at" /\ ~Val(ki).temp
Dropped(ki) ==
    /\ ki[1] > 1
    /\ WordsOf("src", Val(ki))[1] - (Sp + TopOf("src", ki[1] - 1)) < Frame(ki[1] - 1).src
IsZero(ki) == ~True(Val(ki), WordsOf("src", Val(ki)))
ToZero(ki) == Target(ki)[1] = ki[1] /\ Target(ki)[2] < ki[2] /\ IsZero(Target(ki))
Overwritten(ki) ==
    /\ Target(ki)[1] = ki[1]
    /\ \E i \in DOMAIN Vals(ki[1]) :
          LET q == <<ki[1], i>> IN IsPointer(q) /\ Target(q) = ki /\ ~Dropped(q) /\ (i > ki[2] \/ IsZero(Target(ki)))

\* Every other pointer into the stack, to its own frame or to one further out, points to
\* the same place of the same variable on the destination.
PointersFollow ==
    Done /\ case.transform =>
        \A ki \in Values : IsPointer(ki) /\ ~Unplaced(ki) /\ ~Dropped(ki) /\ ~ToZero(ki) /\ ~Overwritten(ki)
                           => IsPlaced(ki)

CoversArch(k, v, a) == v.loc.type = "slot" /\ a - BpOf("dst", k) \in v.loc.off .. v.loc.off + v.size - 1

\* Nothing of the source frames is left between the values and links of the destination:
\* unwind_and_size() clears all of the frames that it found.
NothingStale ==
    Done /\ case.transform =>
        \A a \in 0 .. TopOf("dst", Found) - 1 :
            \/ \E ki \in Values : Covers("dst", ki[1], ki[2], a)
            \/ \E k \in 1 .. Found - 1 : a \in BpOf("dst", k) .. BpOf("dst", k) + Linkage - 1
            \/ \E k \in Frames : \E i \in DOMAIN Frame(k).archs : CoversArch(k, Frame(k).archs[i], a)
            \/ dst[a] = 0

\* What unwind_and_size() writes over above the source frames: as much as the frames of
\* the destination are larger, or, without a transformation, a second copy of the frames.
Overlaid(a) == a < (IF case.transform THEN TopOf("dst", Found) ELSE 2 * TopOf("dst", Found))

\* No more than that is lost of what lies above the frames (the frames of the C library,
\* arguments, environment): no value or link is put there, and the rest is as dumped.
AboveKept == Done => \A a \in DOMAIN dst : a >= TopOf("src", Found) /\ ~Overlaid(a) => dst[a] = src[a]

\* The transformation ends, unless a frame with a pointer into itself has a live value
\* that is not an alloca (_fixup_local_pointers() then never leaves it).
Spins ==
    \E ki \in Values : /\ IsPointer(ki) /\ Target(ki)[1] = ki[1] /\ ~Dropped(ki)
                       /\ \E i \in DOMAIN Vals(ki[1]) : ~Vals(ki[1])[i].alloca

Terminates == ~Spins ~> pc \in {"done", "raised"}
=============================================================================
