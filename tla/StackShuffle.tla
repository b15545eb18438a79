----------------------------- MODULE StackShuffle -----------------------------
(***************************************************************************)
(* `crit ss': the local variables of every function on the stack of        *)
(* a dumped process change places, two at a time. The frame in the dump,   *)
(* the code in the executable, the code in the dumped pages and the stack  *)
(* maps of the executable are all edited in place.                         *)
(*                                                                         *)
(* Memory is counted in cells of 4 bytes, at offsets from rbp (x86-64:     *)
(* locals below 0, saved rbp at 0 and 1) or from sp (aarch64: locals from  *)
(* 0 up). A cell holds the name of the cell its content came from.         *)
(***************************************************************************)
EXTENDS Integers, Sequences, FiniteSets

CONSTANTS
    Cases,   \* programs and stacks, each a record of
             \*   arch:  "X86_64" or "AARCH64"
             \*   funs:  the functions in the order of the symbol table, with
             \*     name, size (of the frame), maps (live values, [off, len]),
             \*     unit and idx: its unit of the stack maps, its number there
             \*     linked: are all functions that it calls in the symbol table
             \*     code: the instructions that reach a local, records of
             \*       off, len: the cells it really reaches
             \*       size:     what get_local_offsets() takes it for: 1 (D-word),
             \*                 2 (Q-word), 4 (pair of Q-words), 0 (not listed)
             \*       blocks:   offsets blk_stack_references() lists for it
             \*       takes:    offsets it can be encoded with, on aarch64
             \*       page:     "file" (not dumped), "dumped", or "cut" (dumped, but
             \*                 not in the pagemap entry that holds the first page)
             \*   stack: frames from the innermost on, records of fun (0: a
             \*          library) and depth (cells from the sp of iterate_frame() to
             \*          rbp, on aarch64 to the end of the frame)
    Cells,   \* offsets of cells
    Reach    \* cells that a one-byte displacement reaches

DWord == 1
QWord == 2

ASSUME CasesAssumption ==
    /\ Cells \subseteq Int /\ Reach \in Nat
    /\ \A c \in Cases :
           /\ c.arch \in {"X86_64", "AARCH64"}
           /\ c.funs \in Seq([name : STRING, size : Nat, unit : Nat, idx : Nat, linked : BOOLEAN,
                              maps : SUBSET [off : Cells, len : Nat \ {0}],
                              code : Seq([off : Cells, len : Nat \ {0}, size : {0, 1, 2, 4},
                                          blocks : SUBSET Int, takes : SUBSET Int, page : {"file", "dumped", "cut"}])])
           /\ c.stack \in Seq([fun : 0..Len(c.funs), depth : Nat])
           /\ \A j \in DOMAIN c.stack : (-c.stack[j].depth)..(c.stack[j].depth - 1) \subseteq Cells
           /\ \A f \in DOMAIN c.funs :
                  /\ \A i \in DOMAIN c.funs[f].code : LET r == c.funs[f].code[i]
                                                      IN r.off..(r.off + r.len - 1) \subseteq Cells
                  /\ \A m \in c.funs[f].maps : m.off..(m.off + m.len - 1) \subseteq Cells

VARIABLES
    case,    \* the member of Cases
    mem,     \* mem[j][c]: the stack in pages-%.img, by frame
    exe,     \* exe[f][i]: the offset in instruction i of the executable
    criu,    \* criu[f][i]: the same in pages-%.img
    maps,    \* maps[f][m]: the offset recorded for live value m
    shuffled,\* shuffled_frames: triples <<offset, new offset, size>> by function
    k,       \* the frame iterate_frame() has reached
    snap,    \* local_info['stack_raw'] of that frame
    todo,    \* pairs, triples or functions that a loop has not reached yet
    pc       \* "frame", "pairs", "moves", "maps", "done" or "raised"

vars == <<case, mem, exe, criu, maps, shuffled, k, snap, todo, pc>>

X86 == case.arch = "X86_64"
Stack == case.stack
Frames == DOMAIN Stack
Funs == DOMAIN case.funs
Code(f) == case.funs[f].code
Values(f) == case.funs[f].maps
Run(o, n) == o..(o + n - 1)
Meet(S, T) == S \cap T # {}

\* The first function of the symbol table with the name of f: all that looks
\* a function up by its name finds this one.
First(f) == CHOOSE g \in Funs : /\ case.funs[g].name = case.funs[f].name
                                /\ \A h \in Funs : case.funs[h].name = case.funs[f].name => g <= h

\* The stack map of aarch64 counts from x29, which is saved 4 cells below the
\* end of the frame.
ToMap(f, o) == IF X86 THEN o ELSE o - (case.funs[f].size - 4)

Known == Stack[k].fun # 0
Fun == First(Stack[k].fun)
-----------------------------------------------------------------------------
Init ==
    /\ case \in Cases
    /\ mem = [j \in Frames |-> [c \in Cells |-> <<j, c>>]]
    /\ exe = [f \in Funs |-> [i \in DOMAIN Code(f) |-> Code(f)[i].off]]
    /\ criu = exe
    /\ maps = [f \in Funs |-> [m \in Values(f) |-> ToMap(f, m.off)]]
    /\ shuffled = [f \in Funs |-> {}]
    /\ k = 1 /\ snap = <<>> /\ todo = {} /\ pc = "frame"

-----------------------------------------------------------------------------
(* Which offsets change places *)

\* get_local_offsets(), without the offsets listed with two sizes.
Listed(f, i) == Code(f)[i].size # 0
RefsOf(f, o) == {i \in DOMAIN Code(f) : Listed(f, i) /\ exe[f][i] = o}
Blocked(f) == UNION {Code(f)[i].blocks : i \in DOMAIN Code(f)}
Local(o) == IF X86 THEN o < 0 ELSE o >= 0
Offsets(f, n) == {o \in {exe[f][i] : i \in DOMAIN Code(f)} :
                      /\ RefsOf(f, o) # {}
                      /\ \A i \in RefsOf(f, o) : Code(f)[i].size = n
                      /\ Local(o) /\ o \notin Blocked(f)}

\* feasible_code_page(), both ways: an x86-64 instruction may not become longer.
\* Of aarch64 nothing is checked.
Near(o) == o >= -Reach
Fits(a, b) == Near(a) => Near(b)
FeasibleMutant(a, b) == X86 => Fits(a, b) \/ Fits(b, a)
Feasible(a, b) == X86 => Fits(a, b) /\ Fits(b, a)

\* What pairing a shuffled list of offsets, first with second, third with
\* fourth, can give; an odd one is left over.
Pairings(S) ==
    {P \in SUBSET {{a, b} : a \in S, b \in S} :
        /\ \A p \in P : Cardinality(p) = 2
        /\ \A p, q \in P : p # q => ~Meet(p, q)
        /\ Cardinality(P) = Cardinality(S) \div 2}
Kept(P, n) == {[offs |-> p, size |-> n] : p \in {q \in P : \A a, b \in q : Feasible(a, b)}}

-----------------------------------------------------------------------------
(* update_stack_reference() *)

\* Cell c of the saved frame. x86-64 indexes a reversed list, in which what
\* lies above rbp is a negative index and counts from the other end.
Saved(c) ==
    LET d == Stack[k].depth
        at == IF X86 /\ c >= 0 THEN c - d ELSE c
        in == IF X86 THEN -d <= at /\ at < 0 ELSE 0 <= at /\ at < d
    IN IF in /\ at \in Cells THEN snap[at] ELSE <<0, 0>>
CopyMutant(frame, a, b, n) == [c \in Cells |-> IF c \in Run(b, n) THEN frame[c - b + a] ELSE frame[c]]
Copy(frame, a, b, n) == [c \in Cells |-> IF c \in Run(b, n) THEN Saved(c - b + a) ELSE frame[c]]

\* The loops of update_code_page() over the instructions T of one file: those with
\* offset a get offset b, in order, up to the first that the assembler refuses,
\* or makes too long.
Encodes(f, i, a, b) == IF X86 THEN Fits(a, b) ELSE b \in Code(f)[i].takes
References(offs, f, a, T) == {i \in T : Listed(f, i) /\ offs[i] = a}
Refused(offs, f, a, b, T) == {i \in References(offs, f, a, T) : ~Encodes(f, i, a, b)}
Reached(offs, f, a, b, T) ==
    {i \in References(offs, f, a, T) : \A r \in Refused(offs, f, a, b, T) : i < r}

\* The first n of its calls for a and b, and for b and a.
Rewrite(offs, f, a, b, T, n) ==
    [i \in DOMAIN offs |->
        CASE n >= 1 /\ i \in Reached(offs, f, a, b, T) -> b
          [] n = 2 /\ i \in Reached(offs, f, b, a, T) -> a
          [] OTHER -> offs[i]]
Dumped(f) == {i \in DOMAIN Code(f) : Code(f)[i].page = "dumped"}

\* shuffle_info[func_name][stack_offset1], and of stack_offset2.
RecordMutant(a, b, n) == {<<a, b, n>>}
Record(a, b, n) == {<<a, b, n>>, <<b, a, n>>}

-----------------------------------------------------------------------------
(* shuffle_all() *)

\* shuffle_frame() up to its loops, for a function no pair is recorded for.
NewFunction ==
    /\ pc = "frame" /\ k \in Frames /\ Known /\ shuffled[Fun] = {}
    /\ X86 \/ case.funs[Fun].linked
    /\ \E Q \in Pairings(Offsets(Fun, QWord)), D \in Pairings(Offsets(Fun, DWord)) :
           todo' = Kept(Q, QWord) \cup Kept(D, DWord)
    /\ snap' = mem[k] /\ pc' = "pairs"
    /\ UNCHANGED <<case, mem, exe, criu, maps, shuffled, k>>

\* blk_stack_references() looks a callee up that is not there.
UnknownCallee ==
    /\ pc = "frame" /\ k \in Frames /\ Known /\ shuffled[Fun] = {}
    /\ ~X86 /\ ~case.funs[Fun].linked
    /\ pc' = "raised"
    /\ UNCHANGED <<case, mem, exe, criu, maps, shuffled, k, snap, todo>>

\* One turn of the loops of shuffle_frame(), Q-words before D-words. The code is
\* written after the frame, for either offset the executable before the dump; an
\* exception ends the command.
SwapPair ==
    /\ pc = "pairs"
    /\ \E p \in todo : \E a \in p.offs : \E b \in p.offs \ {a} :
       LET all == DOMAIN Code(Fun)
           exe1 == Refused(exe[Fun], Fun, a, b, all) # {}
           criu1 == Refused(criu[Fun], Fun, a, b, Dumped(Fun)) # {}
           exe2 == Refused(exe[Fun], Fun, b, a, all) # {}
           criu2 == Refused(criu[Fun], Fun, b, a, Dumped(Fun)) # {}
       IN
        /\ p.size = DWord => \A q \in todo : q.size = DWord
        /\ todo' = todo \ {p}
        /\ shuffled' = [shuffled EXCEPT ![Fun] = @ \cup Record(a, b, p.size)]
        /\ mem' = [mem EXCEPT ![k] = Copy(Copy(@, a, b, p.size), b, a, p.size)]
        /\ exe' = [exe EXCEPT ![Fun] = Rewrite(@, Fun, a, b, all, IF exe1 \/ criu1 THEN 1 ELSE 2)]
        /\ criu' = [criu EXCEPT ![Fun] = Rewrite(@, Fun, a, b, Dumped(Fun),
                                                 IF exe1 THEN 0 ELSE IF criu1 \/ exe2 THEN 1 ELSE 2)]
        /\ pc' = IF exe1 \/ criu1 \/ exe2 \/ criu2 THEN "raised" ELSE "pairs"
    /\ UNCHANGED <<case, maps, k, snap>>

\* update_frame(): only the frame, for a function that was shuffled before.
SeenFunction ==
    /\ pc = "frame" /\ k \in Frames /\ Known /\ shuffled[Fun] # {}
    /\ todo' = shuffled[Fun] /\ snap' = mem[k] /\ pc' = "moves"
    /\ UNCHANGED <<case, mem, exe, criu, maps, shuffled, k>>

MoveOne ==
    /\ pc = "moves"
    /\ \E t \in todo :
        /\ todo' = todo \ {t}
        /\ mem' = [mem EXCEPT ![k] = Copy(@, t[1], t[2], t[3])]
    /\ UNCHANGED <<case, exe, criu, maps, shuffled, k, snap, pc>>

\* The frame of a library, and the step to the next frame.
NextFrame ==
    /\ k \in Frames
    /\ \/ pc = "frame" /\ ~Known
       \/ pc \in {"pairs", "moves"} /\ todo = {}
    /\ k' = k + 1 /\ snap' = <<>> /\ pc' = "frame"
    /\ UNCHANGED <<case, mem, exe, criu, maps, shuffled, todo>>

\* stack_shuffle() after shuffle_all(). The offsets that parse_stack_maps()
\* collects for f are those of the function with the same number in a later
\* unit, for each offset that this one has too.
Owner(f, off) ==
    LET same == {h \in Funs : /\ case.funs[h].idx = case.funs[f].idx
                              /\ case.funs[h].unit >= case.funs[f].unit
                              /\ \E m \in Values(h) : ToMap(h, m.off) = off}
    IN {h \in same : \A g \in same : case.funs[g].unit <= case.funs[h].unit}
StackMaps ==
    /\ pc = "frame" /\ k \notin Frames
    /\ todo' = {f \in Funs : shuffled[f] # {}} /\ pc' = "maps"
    /\ UNCHANGED <<case, mem, exe, criu, maps, shuffled, k, snap>>

\* One function of shuffled_info. Everything was parsed before the first write.
NewPlaceMutant(f, h, m) ==
    LET hits == {t \in shuffled[f] : t[1] = maps[h][m] /\ h = f}
    IN IF hits = {} THEN maps[h][m] ELSE (CHOOSE t \in hits : TRUE)[2]
NewPlace(f, h, m) ==
    LET at == ToMap(h, m.off)
        hits == {t \in shuffled[f] : ToMap(f, t[1]) = at /\ h \in Owner(f, at)}
    IN IF hits = {} THEN maps[h][m] ELSE ToMap(f, (CHOOSE t \in hits : TRUE)[2])
UpdateMap ==
    /\ pc = "maps"
    /\ \E f \in todo :
        /\ todo' = todo \ {f}
        /\ maps' = [h \in Funs |-> [m \in Values(h) |-> NewPlace(f, h, m)]]
    /\ UNCHANGED <<case, mem, exe, criu, shuffled, k, snap, pc>>

Finish ==
    /\ pc = "maps" /\ todo = {}
    /\ pc' = "done"
    /\ UNCHANGED <<case, mem, exe, criu, maps, shuffled, k, snap, todo>>

Next == NewFunction \/ UnknownCallee \/ SwapPair \/ SeenFunction \/ MoveOne \/ NextFrame
        \/ StackMaps \/ UpdateMap \/ Finish
Spec == Init /\ [][Next]_vars
FairSpec == Spec /\ WF_vars(Next)
-----------------------------------------------------------------------------
(* Properties *)

\* The walk stays within the stack and its edits within what was chosen: the
\* recorded places and the pairs to handle are offsets that get_local_offsets()
\* listed for the function, and every recorded move has its reverse or, at the
\* turn of a loop, is about to be made.
TypeOK ==
    /\ k \in 1..(Len(Stack) + 1)
    /\ pc \in {"frame", "pairs", "moves", "maps", "done", "raised"}
    /\ pc \in {"pairs", "moves"} => k \in Frames /\ snap = [c \in Cells |-> snap[c]]
    /\ pc \in {"frame", "done"} => todo = {}
    /\ \A f \in Funs : \A t \in shuffled[f] :
           /\ \E i \in DOMAIN Code(f) : Listed(f, i) /\ Code(f)[i].off = t[1] /\ Code(f)[i].size = t[3]
           /\ <<t[2], t[1], t[3]>> \in shuffled[f]

\* The offsets of the function as it was compiled that may change places.
Origin(f, o) == {i \in DOMAIN Code(f) : Listed(f, i) /\ Code(f)[i].off = o}
Movable(f, n) == {o \in {Code(f)[i].off : i \in DOMAIN Code(f)} :
                      /\ Origin(f, o) # {}
                      /\ \A i \in Origin(f, o) : Code(f)[i].size = n
                      /\ Local(o) /\ o \notin Blocked(f)}
Slots(f) == UNION {{<<o, n>> : o \in Movable(f, n)} : n \in {DWord, QWord}}

\* The frames of f: all of them are moved or none is.
NoPair(f) == \A n \in {DWord, QWord} : \A a, b \in Movable(f, n) : a # b => ~Feasible(a, b)
SomePair(f) == \E n \in {DWord, QWord} : \A P \in Pairings(Movable(f, n)) : Kept(P, n) # {}
Once(f) == \A i, j \in Frames : Stack[i].fun = f /\ Stack[j].fun = f => i = j
Steady(f) == Once(f) \/ NoPair(f) \/ SomePair(f)

\* What a slot takes with it is one variable, all of it in the frame.
Whole(f, o, n) ==
    /\ \A i \in DOMAIN Code(f) : Meet(Run(Code(f)[i].off, Code(f)[i].len), Run(o, n)) =>
           Listed(f, i) /\ Code(f)[i].off = o /\ Code(f)[i].len <= n
    /\ \A m \in Values(f) : Meet(Run(m.off, m.len), Run(o, n)) => m.off = o /\ m.len <= n
    /\ \A j \in Frames : Stack[j].fun = f =>
           Run(o, n) \subseteq IF X86 THEN (-Stack[j].depth)..(-1) ELSE 0..(Stack[j].depth - 1)

\* A function whose frames the command can shuffle. Nothing in the code checks
\* any of these conditions.
Sound(f) ==
    /\ \A g \in Funs : case.funs[g].name = case.funs[f].name => g = f
    /\ \A i \in DOMAIN Code(f) : Code(f)[i].page # "cut"
    /\ \A s \in Slots(f) : Whole(f, s[1], s[2])
    /\ Steady(f)

\* Instruction i of f, in the pages of the process or else in the executable.
Reaches(f, i) == IF Code(f)[i].page = "file" THEN exe[f][i] ELSE criu[f][i]

\* Once shuffle_all() has passed a frame, each instruction of its function finds
\* there what it found before the shuffle, wherever the frame, the executable
\* and the dumped pages now have it, also while other frames of the same
\* function are being moved, and when the command was ended by an exception.
VariablesKept ==
    \A j \in Frames : j < k /\ Stack[j].fun # 0 /\ Sound(Stack[j].fun) =>
        LET f == Stack[j].fun
        IN \A i \in DOMAIN Code(f) : \A d \in 0..(Code(f)[i].len - 1) :
               mem[j][Reaches(f, i) + d] = <<j, Code(f)[i].off + d>>

\* parse_stack_maps() confuses f with no other function.
Alone(f) == \A g \in Funs : case.funs[g].idx = case.funs[f].idx => g = f

\* When stack_shuffle() is done, the live values that the stack maps of the
\* executable name are in the places they name: a shuffled process can still be
\* rewritten for the other architecture.
LiveValuesKept ==
    pc = "done" =>
        \A j \in Frames : Stack[j].fun # 0 /\ Sound(Stack[j].fun) /\ Alone(Stack[j].fun) =>
            LET f == Stack[j].fun
            IN \A m \in Values(f) : \A d \in 0..(m.len - 1) :
                   \E o \in Cells : ToMap(f, o) = maps[f][m] /\ mem[j][o + d] = <<j, m.off + d>>

\* What nothing checks on aarch64: that the functions which f calls have symbols,
\* and that its instructions can take the offsets they may get.
Writable(f) ==
    \/ X86
    \/ /\ case.funs[f].linked
       /\ \A n \in {DWord, QWord} : \A a, b \in Movable(f, n) : \A i \in Origin(f, a) :
              b \in Code(f)[i].takes

\* stack_shuffle() ends with everything written if the code is Writable. On x86-64
\* it always does: what get_shuffled_offsets() found feasible in the executable
\* before the first pair was written, update_code_page() can write to it and to the
\* dump when the turn of the pair comes.
Completes == (\A f \in Funs : Writable(f)) => <>(pc = "done")
=============================================================================
