-------------------------- MODULE StackShuffleProofs --------------------------
(***************************************************************************)
(* Proofs about `crit ss', for every program, stack and choice of          *)
(* pairs. The inductive invariant says of the pairs recorded for a         *)
(* function that they are an involution on its offsets, and of the         *)
(* executable, the dumped pages, each frame and the stack maps how much of *)
(* it each of them has gone through.                                       *)
(***************************************************************************)
EXTENDS StackShuffle, TLAPS, FiniteSetTheorems, SequenceTheorems, WellFoundedInduction

Pages == {"file", "dumped", "cut"}
Sizes == {DWord, QWord}

\* The records of a function: slots of one size change places in pairs.
RecordsOK(sh) ==
    /\ DOMAIN sh = Funs
    /\ \A f \in Funs : \A t \in sh[f] :
           /\ t = <<t[1], t[2], t[3]>> /\ t[3] \in Sizes
           /\ t[1] \in Movable(f, t[3]) /\ t[2] \in Movable(f, t[3]) /\ t[1] # t[2]
           /\ <<t[2], t[1], t[3]>> \in sh[f]
           /\ \A u \in sh[f] : u[1] = t[1] => u = t

\* Where offset off is after the records S.
Sent(S, off, o) == \/ \E t \in S : t[1] = off /\ t[2] = o
                   \/ (\A t \in S : t[1] # off) /\ o = off

\* The instructions of T, which are in function f, after the records S.
CodeOK(offs, f, S, T) ==
    \A i \in T : IF Listed(f, i) THEN Sent(S, Code(f)[i].off, offs[i]) ELSE offs[i] = Code(f)[i].off

\* The instructions of the pages in P, in the executable or in the dump.
FileOK(file, sh, P) ==
    /\ DOMAIN file = Funs
    /\ \A f \in Funs :
           /\ DOMAIN file[f] = DOMAIN Code(f)
           /\ \A i \in DOMAIN Code(f) : Code(f)[i].page \in P =>
                  IF Listed(f, i) THEN Sent(sh[f], Code(f)[i].off, file[f][i])
                                  ELSE file[f][i] = Code(f)[i].off

\* The pairs of the frame at hand are slots that no record has yet.
PairOK(f, q, td, S) ==
    /\ q.size \in Sizes
    /\ \E a, b \in Movable(f, q.size) : a # b /\ q.offs = {a, b} /\ Feasible(a, b) /\ Feasible(b, a)
    /\ \A t \in S : t[1] \notin q.offs
    /\ \A r \in td : r # q => r.offs \cap q.offs = {}
TodoOK(td, p, sh, kk) ==
    /\ p \in {"pairs", "moves"} => kk \in Frames /\ Stack[kk].fun # 0
    /\ p = "pairs" => \A q \in td : PairOK(First(Stack[kk].fun), q, td, sh[First(Stack[kk].fun)])
    /\ p = "moves" => td \subseteq sh[First(Stack[kk].fun)] /\ sh[First(Stack[kk].fun)] # {}
    /\ p \in {"frame", "done"} => td = {}
    /\ p = "maps" => td \subseteq Funs

\* Frame j after the records S.
FrameOK(fr, j, S) ==
    /\ DOMAIN fr = Cells
    /\ \A c \in Cells : (\A t \in S : c \notin Run(t[2], t[3])) => fr[c] = <<j, c>>
    /\ \A t \in S : \A d \in 0..(t[3] - 1) : fr[t[2] + d] = <<j, t[1] + d>>

\* The records that frame j, of function f, has gone through.
Applied(f, j, td, p, sh, kk) ==
    IF j < kk \/ (j = kk /\ p = "pairs") THEN sh[f]
    ELSE IF j = kk /\ p = "moves" THEN sh[f] \ td ELSE {}
MemOK(me, sn, td, p, sh, kk) ==
    /\ DOMAIN me = Frames
    /\ p \in {"pairs", "moves"} => sn = [c \in Cells |-> sn[c]]
    /\ \A j \in Frames : Stack[j].fun # 0 /\ Sound(Stack[j].fun) =>
           /\ FrameOK(me[j], j, Applied(Stack[j].fun, j, td, p, sh, kk))
           /\ p \in {"pairs", "moves"} /\ j = kk => \A c \in Cells : sn[c] = <<j, c>>
    /\ \A j \in Frames : me[j] = [c \in Cells |-> me[j][c]]

\* Frames of one function are all moved, or none is.
SteadyOK(td, p, sh, kk) ==
    /\ \A i, j \in Frames : i < kk /\ kk <= j /\ Stack[i].fun = Stack[j].fun /\ Stack[j].fun # 0
                             /\ Sound(Stack[j].fun) /\ (kk = j => p = "frame")
           => sh[Stack[j].fun] # {} \/ NoPair(Stack[j].fun)
    /\ p = "pairs" /\ Sound(Stack[kk].fun) =>
           /\ td # {} => \A j \in Frames : j < kk => Stack[j].fun # Stack[kk].fun
           /\ SomePair(Stack[kk].fun) => td # {} \/ sh[Stack[kk].fun] # {}
           /\ \A i \in Frames : i < kk /\ Stack[i].fun = Stack[kk].fun => NoPair(Stack[kk].fun)

Updated(f, td, p) == p = "done" \/ (p = "maps" /\ f \notin td)
MapsOK(mp, td, p, sh) ==
    \A f \in Funs : Sound(f) /\ Alone(f) => \A m \in Values(f) :
        IF Updated(f, td, p) THEN \E o \in Cells : Sent(sh[f], m.off, o) /\ mp[f][m] = ToMap(f, o)
                             ELSE mp[f][m] = ToMap(f, m.off)

Inv ==
    /\ case \in Cases /\ k \in 1..(Len(Stack) + 1)
    /\ pc \in {"frame", "pairs", "moves", "maps", "done"}
    /\ pc \in {"maps", "done"} => k = Len(Stack) + 1
    /\ RecordsOK(shuffled)
    /\ FileOK(exe, shuffled, Pages)
    /\ FileOK(criu, shuffled, {"dumped"})
    /\ TodoOK(todo, pc, shuffled, k)
    /\ MemOK(mem, snap, todo, pc, shuffled, k)
    /\ SteadyOK(todo, pc, shuffled, k)
    /\ MapsOK(maps, todo, pc, shuffled)

-----------------------------------------------------------------------------
(* The program and its stack *)

\* What CasesAssumption says of the program at hand.
LEMMA CaseTypes ==
    ASSUME case \in Cases
    PROVE /\ Cells \subseteq Int
          /\ Len(Stack) \in Nat /\ Frames = 1..Len(Stack)
          /\ Len(case.funs) \in Nat /\ Funs = 1..Len(case.funs)
          /\ \A j \in Frames : /\ Stack[j].fun # 0 => Stack[j].fun \in Funs
                               /\ Stack[j].depth \in Nat
                               /\ (-Stack[j].depth)..(Stack[j].depth - 1) \subseteq Cells
          /\ \A f \in Funs : \A i \in DOMAIN Code(f) :
                 /\ Code(f)[i].off \in Cells /\ Code(f)[i].len \in Nat \ {0}
                 /\ Code(f)[i].page \in Pages
                 /\ Run(Code(f)[i].off, Code(f)[i].len) \subseteq Cells
          /\ \A f \in Funs : \A m \in Values(f) :
                 m.off \in Cells /\ m.len \in Nat \ {0} /\ Run(m.off, m.len) \subseteq Cells
          /\ \A f \in Funs : case.funs[f].size \in Nat /\ case.funs[f].unit \in Nat
  <1> DEFINE Instr == [off : Cells, len : Nat \ {0}, size : {0, 1, 2, 4},
                       blocks : SUBSET Int, takes : SUBSET Int, page : {"file", "dumped", "cut"}]
             Fn == [name : STRING, size : Nat, unit : Nat, idx : Nat, linked : BOOLEAN,
                    maps : SUBSET [off : Cells, len : Nat \ {0}], code : Seq(Instr)]
  <1>1. /\ Cells \subseteq Int
        /\ case.funs \in Seq(Fn)
        /\ case.stack \in Seq([fun : 0..Len(case.funs), depth : Nat])
    BY CasesAssumption, ZenonT(30)
  <1> HIDE DEF Fn, Instr
  <1>2. Len(Stack) \in Nat /\ Frames = 1..Len(Stack) /\ Len(case.funs) \in Nat /\ Funs = 1..Len(case.funs)
    BY <1>1 DEF Stack, Frames, Funs
  <1>3. \A f \in Funs : case.funs[f] \in Fn
    BY <1>1, <1>2, ElementOfSeq
  <1>4. \A f \in Funs : Code(f) \in Seq(Instr) /\ Values(f) \in SUBSET [off : Cells, len : Nat \ {0}]
    BY <1>3 DEF Code, Values, Fn
  <1>5. \A f \in Funs : \A i \in DOMAIN Code(f) : Code(f)[i] \in Instr
    BY <1>4, ElementOfSeq
  <1>6. \A j \in Frames : Stack[j] \in [fun : 0..Len(case.funs), depth : Nat]
    BY <1>1, <1>2, ElementOfSeq, ZenonT(30) DEF Stack
  <1>7. \A j \in Frames : (-Stack[j].depth)..(Stack[j].depth - 1) \subseteq Cells
    BY CasesAssumption, ZenonT(30) DEF Stack, Frames
  <1>8. \A f \in Funs : \A i \in DOMAIN Code(f) : Run(Code(f)[i].off, Code(f)[i].len) \subseteq Cells
    BY CasesAssumption, ZenonT(30) DEF Funs, Code, Run
  <1>9. \A f \in Funs : \A m \in Values(f) : Run(m.off, m.len) \subseteq Cells
    BY CasesAssumption, ZenonT(30) DEF Funs, Values, Run
  <1>10. \A j \in Frames : (Stack[j].fun # 0 => Stack[j].fun \in Funs) /\ Stack[j].depth \in Nat
    BY <1>2, <1>6
  <1>11. \A f \in Funs : \A i \in DOMAIN Code(f) :
           Code(f)[i].off \in Cells /\ Code(f)[i].len \in Nat \ {0} /\ Code(f)[i].page \in Pages
    BY <1>5 DEF Pages, Instr
  <1>12. \A f \in Funs : \A m \in Values(f) : m.off \in Cells /\ m.len \in Nat \ {0}
    BY <1>4
  <1>13. \A f \in Funs : case.funs[f].size \in Nat /\ case.funs[f].unit \in Nat
    BY <1>3 DEF Fn
  <1> QED
    BY <1>1, <1>2, <1>7, <1>8, <1>9, <1>10, <1>11, <1>12, <1>13

\* A lookup by name finds a function, and for a function that shares its name
\* with no other, that function.
LEMMA FirstLemma ==
    ASSUME case \in Cases, NEW f \in Funs
    PROVE /\ First(f) \in Funs
          /\ case.funs[First(f)].name = case.funs[f].name
          /\ Sound(f) => First(f) = f
          /\ Sound(First(f)) => First(f) = f
  <1> DEFINE T == {g \in Funs : case.funs[g].name = case.funs[f].name}
  <1>1. T # {} /\ T \subseteq Nat
    BY CaseTypes
  <1>2. PICK g \in T : \A h \in T : ~ <<h, g>> \in OpToRel(<, Nat)
    BY <1>1, NatLessThanWellFounded, WFMin, ZenonT(30)
  <1> DEFINE R == {p \in Nat \X Nat : p[1] < p[2]}
  <1>a. OpToRel(<, Nat) = R
    BY Zenon DEF OpToRel
  <1>b. \A h \in T : ~ <<h, g>> \in R
    BY <1>2, <1>a, Zenon
  <1>3. ASSUME NEW h \in T PROVE g <= h
    <2>1. g \in Nat /\ h \in Nat
      BY <1>1
    <2>2. h < g => <<h, g>> \in R
      BY <2>1
    <2> QED
      BY <1>b, <2>1, <2>2
  <1>4. \E x \in Funs : /\ case.funs[x].name = case.funs[f].name
                       /\ \A h \in Funs : case.funs[h].name = case.funs[f].name => x <= h
    BY <1>2, <1>3, ZenonT(30)
  <1>5. First(f) \in Funs /\ case.funs[First(f)].name = case.funs[f].name
    BY <1>4 DEF First
  <1> QED
    BY <1>5 DEF Sound

\* An offset has one size only.
LEMMA OneSize ==
    ASSUME NEW f, NEW m \in Sizes, NEW n \in Sizes, NEW o \in Movable(f, m), o \in Movable(f, n)
    PROVE m = n
  BY DEF Movable

LEMMA MovableCell ==
    ASSUME case \in Cases, NEW f \in Funs, NEW n, NEW o \in Movable(f, n)
    PROVE o \in Cells /\ o \in Int
  BY CaseTypes DEF Movable

\* In a sound function, every slot lies in each of its frames.
LEMMA SlotInFrame ==
    ASSUME case \in Cases, NEW j \in Frames, Stack[j].fun # 0, Sound(Stack[j].fun),
           NEW n \in Sizes, NEW o \in Movable(Stack[j].fun, n)
    PROVE Run(o, n) \subseteq IF X86 THEN (-Stack[j].depth)..(-1) ELSE 0..(Stack[j].depth - 1)
  <1> DEFINE f == Stack[j].fun
  <1>1. <<o, n>> \in Slots(f)
    BY DEF Slots, Sizes
  <1>2. Whole(f, o, n)
    BY <1>1 DEF Sound
  <1> QED
    BY <1>2 DEF Whole

\* What reaches into a slot of a sound function is all of it and only that.
LEMMA SlotWhole ==
    ASSUME NEW f, Sound(f), NEW n \in Sizes, NEW o \in Movable(f, n)
    PROVE /\ \A i \in DOMAIN Code(f) : Meet(Run(Code(f)[i].off, Code(f)[i].len), Run(o, n)) =>
                 Listed(f, i) /\ Code(f)[i].off = o /\ Code(f)[i].len <= n
          /\ \A m \in Values(f) : Meet(Run(m.off, m.len), Run(o, n)) => m.off = o /\ m.len <= n
  <1>1. <<o, n>> \in Slots(f)
    BY DEF Slots, Sizes
  <1>2. Whole(f, o, n)
    BY <1>1 DEF Sound
  <1> QED
    BY <1>2 DEF Whole

\* Two slots of a sound function have no cell in common.
LEMMA SlotsApart ==
    ASSUME case \in Cases, NEW f \in Funs, Sound(f), NEW m \in Sizes, NEW n \in Sizes,
           NEW o \in Movable(f, m), NEW p \in Movable(f, n), o # p
    PROVE Run(o, m) \cap Run(p, n) = {}
  <1>1. o \in Int /\ p \in Int /\ m \in Nat /\ n \in Nat
    BY MovableCell DEF Sizes, DWord, QWord
  <1>2. PICK i \in DOMAIN Code(f) : Code(f)[i].off = o
    BY DEF Movable, Origin
  <1>3. PICK j \in DOMAIN Code(f) : Code(f)[j].off = p
    BY DEF Movable, Origin
  <1>4. Code(f)[i].len \in Nat \ {0} /\ Code(f)[j].len \in Nat \ {0}
    BY CaseTypes
  <1>5. o \in Run(Code(f)[i].off, Code(f)[i].len) /\ p \in Run(Code(f)[j].off, Code(f)[j].len)
    BY <1>1, <1>2, <1>3, <1>4 DEF Run
  <1>6. o \notin Run(p, n)
    BY <1>2, <1>5, SlotWhole DEF Meet
  <1>7. p \notin Run(o, m)
    BY <1>3, <1>5, SlotWhole DEF Meet
  <1> QED
    BY <1>1, <1>6, <1>7 DEF Run

\* What SeenFunction, SwapPair and MoveOne copy is what was there at first.
LEMMA SavedLemma ==
    ASSUME case \in Cases, k \in Frames, Stack[k].fun # 0, Sound(Stack[k].fun),
           \A c \in Cells : snap[c] = <<k, c>>,
           NEW n \in Sizes, NEW o \in Movable(Stack[k].fun, n), NEW c \in Run(o, n)
    PROVE Saved(c) = <<k, c>>
  <1>1. Stack[k].depth \in Nat /\ (-Stack[k].depth)..(Stack[k].depth - 1) \subseteq Cells
    BY CaseTypes
  <1>2. c \in IF X86 THEN (-Stack[k].depth)..(-1) ELSE 0..(Stack[k].depth - 1)
    BY SlotInFrame
  <1>3. c \in Int /\ c \in Cells
    BY <1>1, <1>2
  <1> QED
    BY <1>1, <1>2, <1>3 DEF Saved

LEMMA CopyLemma ==
    ASSUME case \in Cases, k \in Frames, Stack[k].fun # 0, Sound(Stack[k].fun),
           \A c \in Cells : snap[c] = <<k, c>>,
           NEW S, \A t \in S : t[3] \in Sizes /\ t[2] \in Movable(Stack[k].fun, t[3]),
           NEW fr, FrameOK(fr, k, S),
           NEW n \in Sizes, NEW a \in Movable(Stack[k].fun, n), NEW b \in Movable(Stack[k].fun, n),
           \A t \in S : t[2] # b
    PROVE FrameOK(Copy(fr, a, b, n), k, S \cup {<<a, b, n>>})
  <1> DEFINE f == Stack[k].fun
             new == Copy(fr, a, b, n)
  <1>0. f \in Funs /\ Cells \subseteq Int
    BY CaseTypes
  <1>1. a \in Int /\ b \in Int /\ n \in Nat
    BY <1>0, MovableCell DEF Sizes, DWord, QWord
  <1>2. DOMAIN new = Cells /\ \A c \in Cells : new[c] = IF c \in Run(b, n) THEN Saved(c - b + a) ELSE fr[c]
    BY DEF Copy
  <1>3. ASSUME NEW c \in Cells, \A t \in S \cup {<<a, b, n>>} : c \notin Run(t[2], t[3])
        PROVE new[c] = <<k, c>>
    <2>0. <<a, b, n>> \in S \cup {<<a, b, n>>} /\ <<a, b, n>>[2] = b /\ <<a, b, n>>[3] = n
      OBVIOUS
    <2>1. c \notin Run(b, n)
      BY <1>3, <2>0, Zenon
    <2> QED
      BY <1>2, <1>3, <2>1 DEF FrameOK
  <1>4. Run(b, n) \subseteq Cells
    <2>1. Stack[k].depth \in Nat /\ (-Stack[k].depth)..(Stack[k].depth - 1) \subseteq Cells
      BY CaseTypes
    <2> QED
      BY <2>1, SlotInFrame
  <1>5. ASSUME NEW d \in 0..(n - 1)
        PROVE new[b + d] = <<k, a + d>>
    <2>1. b + d \in Run(b, n) /\ a + d \in Run(a, n) /\ (b + d) - b + a = a + d
      BY <1>1 DEF Run
    <2>2. new[b + d] = Saved(a + d)
      BY <1>2, <1>4, <2>1
    <2> QED
      BY <2>1, <2>2, SavedLemma
  <1>6. ASSUME NEW t \in S, NEW d \in 0..(t[3] - 1)
        PROVE new[t[2] + d] = <<k, t[1] + d>>
    <2>1. t[3] \in Sizes /\ t[2] \in Movable(f, t[3]) /\ t[2] # b
      OBVIOUS
    <2>2. t[2] \in Int /\ t[3] \in Nat
      BY <1>0, <2>1, MovableCell DEF Sizes, DWord, QWord
    <2>3. t[2] + d \in Run(t[2], t[3])
      BY <2>2 DEF Run
    <2>4. t[2] + d \notin Run(b, n)
      BY <1>0, <2>1, <2>3, SlotsApart
    <2>5. Run(t[2], t[3]) \subseteq Cells
      <3>1. Stack[k].depth \in Nat /\ (-Stack[k].depth)..(Stack[k].depth - 1) \subseteq Cells
        BY CaseTypes
      <3> QED
        BY <2>1, <3>1, SlotInFrame
    <2> QED
      BY <1>2, <2>3, <2>4, <2>5 DEF FrameOK
  <1>7. ASSUME NEW t \in S \cup {<<a, b, n>>}, NEW d \in 0..(t[3] - 1)
        PROVE new[t[2] + d] = <<k, t[1] + d>>
    <2>1. CASE t \in S
      BY <1>6, <2>1
    <2>2. CASE t = <<a, b, n>>
      <3>1. t[1] = a /\ t[2] = b /\ t[3] = n
        BY <2>2
      <3> QED
        BY <1>5, <3>1
    <2> QED
      BY <2>1, <2>2
  <1> QED
    BY <1>2, <1>3, <1>7 DEF FrameOK

-----------------------------------------------------------------------------
(* The code and the pairs *)

\* update_code_page(), called both ways round, sends the instructions of T
\* where the two new records say.
LEMMA RewriteLemma ==
    ASSUME NEW f, NEW offs, DOMAIN offs = DOMAIN Code(f), NEW T, T \subseteq DOMAIN Code(f),
           NEW S, NEW a, NEW b, NEW n, a # b,
           Refused(offs, f, a, b, T) = {}, Refused(offs, f, b, a, T) = {},
           \A t \in S : t[1] # a /\ t[1] # b /\ t[2] # a /\ t[2] # b,
           CodeOK(offs, f, S, T)
    PROVE /\ DOMAIN Rewrite(offs, f, a, b, T, 2) = DOMAIN Code(f)
          /\ CodeOK(Rewrite(offs, f, a, b, T, 2), f, S \cup Record(a, b, n), T)
  <1> DEFINE new == Rewrite(offs, f, a, b, T, 2)
  <1>0. new = [i \in DOMAIN offs |-> CASE i \in T /\ Listed(f, i) /\ offs[i] = a -> b
                                       [] i \in T /\ Listed(f, i) /\ offs[i] = b -> a
                                       [] OTHER -> offs[i]]
    <2>1. /\ Reached(offs, f, a, b, T) = {i \in T : Listed(f, i) /\ offs[i] = a}
          /\ Reached(offs, f, b, a, T) = {i \in T : Listed(f, i) /\ offs[i] = b}
      BY DEF Reached, References
    <2>2. 2 >= 1
      OBVIOUS
    <2> QED
      BY <2>1, <2>2 DEF Rewrite
  <1> HIDE DEF new
  <1>1. DOMAIN new = DOMAIN Code(f)
    BY <1>0
  <1>2. ASSUME NEW i \in T, ~Listed(f, i)
        PROVE new[i] = Code(f)[i].off
    BY <1>0, <1>2 DEF CodeOK
  <1>3. ASSUME NEW i \in T, Listed(f, i)
        PROVE Sent(S \cup Record(a, b, n), Code(f)[i].off, new[i])
    <2> DEFINE off == Code(f)[i].off
    <2>0. Sent(S, off, offs[i])
      BY <1>3 DEF CodeOK
    <2>1. /\ <<a, b, n>> \in Record(a, b, n) /\ <<b, a, n>> \in Record(a, b, n)
          /\ <<a, b, n>>[1] = a /\ <<a, b, n>>[2] = b /\ <<b, a, n>>[1] = b /\ <<b, a, n>>[2] = a
          /\ \A t \in Record(a, b, n) : t[1] = a \/ t[1] = b
      BY DEF Record
    <2>2. CASE offs[i] = a
      <3>1. off = a
        BY <2>0, <2>2 DEF Sent
      <3>2. new[i] = b
        BY <1>0, <1>3, <2>2
      <3> QED
        BY <2>1, <3>1, <3>2, Zenon DEF Sent
    <2>3. CASE offs[i] = b
      <3>1. off = b
        BY <2>0, <2>3 DEF Sent
      <3>2. new[i] = a
        BY <1>0, <1>3, <2>3
      <3> QED
        BY <2>1, <3>1, <3>2, Zenon DEF Sent
    <2>4. CASE offs[i] # a /\ offs[i] # b
      <3>1. new[i] = offs[i]
        BY <1>0, <2>4
      <3>2. off # a /\ off # b
        BY <2>0, <2>4 DEF Sent
      <3> QED
        BY <2>0, <2>1, <3>1, <3>2 DEF Sent
    <2> QED
      BY <2>2, <2>3, <2>4
  <1> QED
    BY <1>1, <1>2, <1>3, ZenonT(30) DEF CodeOK, new

\* Until a function has records, its code is as it was compiled.
LEMMA OffsetsLemma ==
    ASSUME case \in Cases, FileOK(exe, shuffled, Pages), NEW f \in Funs, shuffled[f] = {}, NEW n
    PROVE Offsets(f, n) = Movable(f, n)
  <1>1. \A i \in DOMAIN Code(f) : exe[f][i] = Code(f)[i].off
    BY CaseTypes DEF FileOK, Sent
  <1>2. \A o : RefsOf(f, o) = Origin(f, o)
    BY <1>1 DEF RefsOf, Origin
  <1>3. {exe[f][i] : i \in DOMAIN Code(f)} = {Code(f)[i].off : i \in DOMAIN Code(f)}
    BY <1>1
  <1>4. ASSUME NEW o PROVE o \in Offsets(f, n) <=> o \in Movable(f, n)
    <2>1. RefsOf(f, o) = Origin(f, o)
      BY <1>2
    <2> QED
      BY <1>3, <2>1, ZenonT(30) DEF Offsets, Movable
  <1> QED
    BY <1>4, ZenonT(30)

LEMMA PairingLemma ==
    ASSUME NEW S, NEW P \in Pairings(S), NEW p \in P
    PROVE \E a, b \in S : a # b /\ p = {a, b}
  <1>1. Cardinality(p) = 2
    BY DEF Pairings
  <1>2. p \in {{a, b} : a \in S, b \in S}
    BY DEF Pairings
  <1>3. PICK a \in S, b \in S : p = {a, b}
    BY <1>2
  <1>4. a # b
    <2>1. Cardinality({a}) = 1
      BY FS_Singleton, ZenonT(30)
    <2>2. a = b => p = {a}
      BY <1>3
    <2> QED
      BY <1>1, <2>1, <2>2
  <1> QED
    BY <1>3, <1>4

LEMMA KeptPair ==
    ASSUME NEW f, NEW n \in Sizes, NEW P \in Pairings(Movable(f, n)), NEW q \in Kept(P, n)
    PROVE /\ q.size = n /\ q.offs \in P /\ q = [offs |-> q.offs, size |-> n]
          /\ \E a, b \in Movable(f, n) : a # b /\ q.offs = {a, b} /\ Feasible(a, b) /\ Feasible(b, a)
  <1>1. PICK p \in P : q = [offs |-> p, size |-> n] /\ \A a, b \in p : Feasible(a, b)
    BY DEF Kept
  <1>2. PICK a \in Movable(f, n), b \in Movable(f, n) : a # b /\ p = {a, b}
    BY PairingLemma
  <1> QED
    BY <1>1, <1>2

\* The pairs that get_shuffled_offsets() returns for both sizes.
LEMMA KeptLemma ==
    ASSUME NEW f, NEW Q \in Pairings(Movable(f, QWord)), NEW D \in Pairings(Movable(f, DWord)),
           NEW td, td = Kept(Q, QWord) \cup Kept(D, DWord), NEW q \in td
    PROVE PairOK(f, q, td, {})
  <1>0. DWord \in Sizes /\ QWord \in Sizes /\ DWord # QWord
    BY DEF Sizes, DWord, QWord
  <1>1. \A r \in td : \/ r \in Kept(Q, QWord) /\ r.size = QWord /\ r.offs \in Q /\ r = [offs |-> r.offs, size |-> QWord]
                      \/ r \in Kept(D, DWord) /\ r.size = DWord /\ r.offs \in D /\ r = [offs |-> r.offs, size |-> DWord]
    BY <1>0, KeptPair
  <1>2. \A r \in td : /\ r.size \in Sizes
                      /\ \E a, b \in Movable(f, r.size) :
                             a # b /\ r.offs = {a, b} /\ Feasible(a, b) /\ Feasible(b, a)
    BY <1>0, <1>1, KeptPair
  <1>3. ASSUME NEW r \in td, r # q PROVE r.offs \cap q.offs = {}
    <2>1. CASE r.size = q.size
      <3>1. r.offs # q.offs
        BY <1>0, <1>1, <1>3, <2>1
      <3>2. \/ r.offs \in Q /\ q.offs \in Q
            \/ r.offs \in D /\ q.offs \in D
        BY <1>0, <1>1, <2>1
      <3> QED
        BY <3>1, <3>2 DEF Pairings, Meet
    <2>2. CASE r.size # q.size
      <3>1. r.offs \subseteq Movable(f, r.size) /\ q.offs \subseteq Movable(f, q.size)
        BY <1>2
      <3> QED
        BY <1>2, <2>2, <3>1, OneSize
    <2> QED
      BY <2>1, <2>2
  <1> QED
    BY <1>2, <1>3 DEF PairOK

-----------------------------------------------------------------------------
(* The program does not change: the invariant in the next state is a fact   *)
(* about the new values of the other variables.                             *)

LEMMA Static ==
    ASSUME case' = case
    PROVE /\ Stack' = Stack /\ Frames' = Frames /\ Funs' = Funs /\ X86' = X86
          /\ \A f : Code(f)' = Code(f) /\ Values(f)' = Values(f) /\ First(f)' = First(f)
          /\ \A f, i : Listed(f, i)' = Listed(f, i)
          /\ \A f, o : ToMap(f, o)' = ToMap(f, o)
          /\ \A f, n : Movable(f, n)' = Movable(f, n)
          /\ \A a, b : Feasible(a, b)' = Feasible(a, b)
  BY DEF Stack, Frames, Funs, X86, Code, Values, First, Listed, ToMap, Movable, Origin, Blocked, Local,
         Feasible, Fits

LEMMA StaticSound ==
    ASSUME case' = case
    PROVE \A f : /\ Sound(f)' = Sound(f) /\ Alone(f)' = Alone(f)
                 /\ NoPair(f)' = NoPair(f) /\ SomePair(f)' = SomePair(f)
  <1>1. ASSUME NEW f PROVE NoPair(f)' = NoPair(f)
    BY Static DEF NoPair
  <1>2. ASSUME NEW f PROVE SomePair(f)' = SomePair(f)
    BY Static DEF SomePair, Kept
  <1>3. ASSUME NEW f PROVE Alone(f)' = Alone(f)
    BY DEF Alone, Funs
  <1>4. ASSUME NEW f PROVE Steady(f)' = Steady(f)
    <2>1. Once(f)' = Once(f)
      BY DEF Once, Frames, Stack
    <2> QED
      BY <1>1, <1>2, <2>1 DEF Steady
  <1>5. ASSUME NEW f PROVE Slots(f)' = Slots(f)
    BY Static DEF Slots
  <1>6. ASSUME NEW f, NEW o, NEW n PROVE Whole(f, o, n)' = Whole(f, o, n)
    BY DEF Whole, Code, Values, Listed, Frames, Stack, X86
  <1>7. ASSUME NEW f PROVE Sound(f)' = Sound(f)
    <2>1. (\A s \in Slots(f) : Whole(f, s[1], s[2]))' = (\A s \in Slots(f) : Whole(f, s[1], s[2]))
      BY <1>5, <1>6
    <2>2. (\A g \in Funs : case.funs[g].name = case.funs[f].name => g = f)'
            = (\A g \in Funs : case.funs[g].name = case.funs[f].name => g = f)
      BY DEF Funs
    <2>3. (\A i \in DOMAIN Code(f) : Code(f)[i].page # "cut")'
            = (\A i \in DOMAIN Code(f) : Code(f)[i].page # "cut")
      BY DEF Code
    <2> QED
      BY <1>4, <2>1, <2>2, <2>3 DEF Sound
  <1> QED
    BY <1>1, <1>2, <1>3, <1>7

\* Where the loop over the frames is.
LEMMA PlaceLemma ==
    ASSUME Inv
    PROVE  /\ case \in Cases /\ k \in Nat /\ k \in 1..(Len(Stack) + 1)
           /\ Len(Stack) \in Nat /\ Frames = 1..Len(Stack)
           /\ pc \in {"maps", "done"} => k = Len(Stack) + 1 /\ \A j \in Frames : j < k
  <1>1. case \in Cases /\ k \in 1..(Len(Stack) + 1) /\ (pc \in {"maps", "done"} => k = Len(Stack) + 1)
    BY DEF Inv
  <1>2. Len(Stack) \in Nat /\ Frames = 1..Len(Stack)
    BY <1>1, CaseTypes
  <1> QED
    BY <1>1, <1>2

LEMMA Primed ==
    ASSUME case' = case
    PROVE /\ RecordsOK(shuffled') => RecordsOK(shuffled)'
          /\ FileOK(exe', shuffled', Pages) => FileOK(exe, shuffled, Pages)'
          /\ FileOK(criu', shuffled', {"dumped"}) => FileOK(criu, shuffled, {"dumped"})'
          /\ TodoOK(todo', pc', shuffled', k') => TodoOK(todo, pc, shuffled, k)'
          /\ MemOK(mem', snap', todo', pc', shuffled', k') => MemOK(mem, snap, todo, pc, shuffled, k)'
          /\ SteadyOK(todo', pc', shuffled', k') => SteadyOK(todo, pc, shuffled, k)'
          /\ MapsOK(maps', todo', pc', shuffled') => MapsOK(maps, todo, pc, shuffled)'
  <1>1. RecordsOK(shuffled') => RecordsOK(shuffled)'
    BY Static DEF RecordsOK
  <1>2. FileOK(exe', shuffled', Pages) => FileOK(exe, shuffled, Pages)'
    BY Static DEF FileOK, Sent, Pages
  <1>3. FileOK(criu', shuffled', {"dumped"}) => FileOK(criu, shuffled, {"dumped"})'
    BY Static DEF FileOK, Sent
  <1>4. TodoOK(todo', pc', shuffled', k') => TodoOK(todo, pc, shuffled, k)'
    BY Static DEF TodoOK, PairOK
  <1>5. MemOK(mem', snap', todo', pc', shuffled', k') => MemOK(mem, snap, todo, pc, shuffled, k)'
    BY Static, StaticSound, ZenonT(30) DEF MemOK, FrameOK, Applied, Run
  <1>6. SteadyOK(todo', pc', shuffled', k') => SteadyOK(todo, pc, shuffled, k)'
    BY Static, StaticSound DEF SteadyOK
  <1>7. MapsOK(maps', todo', pc', shuffled') => MapsOK(maps, todo, pc, shuffled)'
    <2>1. ASSUME NEW f \in Funs PROVE Values(f)' = Values(f) /\ Sound(f)' = Sound(f) /\ Alone(f)' = Alone(f)
      BY Static, StaticSound
    <2>2. ASSUME NEW f \in Funs, NEW o PROVE ToMap(f, o)' = ToMap(f, o)
      BY Static
    <2>3. Funs' = Funs
      BY Static
    <2> QED
      BY <2>1, <2>2, <2>3 DEF MapsOK, Updated, Sent
  <1> QED
    BY <1>1, <1>2, <1>3, <1>4, <1>5, <1>6, <1>7

LEMMA Assemble ==
    ASSUME case' = case, case \in Cases, k' \in 1..(Len(Stack) + 1),
           pc' \in {"frame", "pairs", "moves", "maps", "done"},
           pc' \in {"maps", "done"} => k' = Len(Stack) + 1,
           RecordsOK(shuffled'), FileOK(exe', shuffled', Pages), FileOK(criu', shuffled', {"dumped"}),
           TodoOK(todo', pc', shuffled', k'), MemOK(mem', snap', todo', pc', shuffled', k'),
           SteadyOK(todo', pc', shuffled', k'), MapsOK(maps', todo', pc', shuffled')
    PROVE Inv'
  <1>1. Len(Stack') = Len(Stack)
    BY Static
  <1> QED
    BY <1>1, Primed DEF Inv

-----------------------------------------------------------------------------
(* One lemma for each action *)

LEMMA InitInv == Init => Inv
  <1> SUFFICES ASSUME Init PROVE Inv
    OBVIOUS
  <1>1. /\ case \in Cases /\ k = 1 /\ pc = "frame" /\ todo = {}
        /\ shuffled = [f \in Funs |-> {}]
    BY DEF Init
  <1>2. Len(Stack) \in Nat /\ Frames = 1..Len(Stack)
    BY <1>1, CaseTypes
  <1>3. RecordsOK(shuffled)
    BY <1>1 DEF RecordsOK
  <1>4. FileOK(exe, shuffled, Pages) /\ FileOK(criu, shuffled, {"dumped"})
    BY <1>1 DEF Init, FileOK, Sent
  <1>5. TodoOK(todo, pc, shuffled, k)
    BY <1>1 DEF TodoOK
  <1>6. MemOK(mem, snap, todo, pc, shuffled, k)
    BY <1>1, <1>2 DEF Init, MemOK, FrameOK, Applied
  <1>7. SteadyOK(todo, pc, shuffled, k)
    BY <1>1, <1>2 DEF SteadyOK
  <1>8. MapsOK(maps, todo, pc, shuffled)
    BY <1>1, SMTT(30) DEF Init, MapsOK, Updated
  <1> QED
    BY <1>1, <1>2, <1>3, <1>4, <1>5, <1>6, <1>7, <1>8 DEF Inv

LEMMA NewFunctionInv == Inv /\ NewFunction => Inv'
  <1> SUFFICES ASSUME Inv, NewFunction PROVE Inv'
    OBVIOUS
  <1> DEFINE g == Stack[k].fun
             f == First(g)
  <1>1. /\ case \in Cases /\ k \in Frames /\ g # 0 /\ pc = "frame" /\ pc' = "pairs" /\ shuffled[f] = {}
        /\ snap' = mem[k] /\ k' = k /\ case' = case /\ mem' = mem /\ exe' = exe /\ criu' = criu
        /\ maps' = maps /\ shuffled' = shuffled
    BY DEF Inv, NewFunction, Known, Fun
  <1>2. g \in Funs /\ f \in Funs /\ (Sound(g) => f = g)
    BY <1>1, CaseTypes, FirstLemma
  <1>3. PICK Q \in Pairings(Movable(f, QWord)), D \in Pairings(Movable(f, DWord)) :
           todo' = Kept(Q, QWord) \cup Kept(D, DWord)
    BY <1>1, <1>2, OffsetsLemma DEF NewFunction, Fun, Inv
  <1>4. TodoOK(todo', pc', shuffled', k')
    <2>1. \A q \in todo' : PairOK(f, q, todo', {})
      BY <1>3, KeptLemma
    <2> QED
      BY <1>1, <2>1 DEF TodoOK
  <1>5. MemOK(mem', snap', todo', pc', shuffled', k')
    <2>1. ASSUME NEW j \in Frames, Stack[j].fun # 0, Sound(Stack[j].fun)
          PROVE /\ FrameOK(mem[j], j, Applied(Stack[j].fun, j, todo', "pairs", shuffled, k))
                /\ j = k => \A c \in Cells : mem[k][c] = <<j, c>>
      <3>1. FrameOK(mem[j], j, Applied(Stack[j].fun, j, todo, "frame", shuffled, k))
        BY <1>1, <2>1 DEF Inv, MemOK
      <3>2. j # k => Applied(Stack[j].fun, j, todo', "pairs", shuffled, k)
                       = Applied(Stack[j].fun, j, todo, "frame", shuffled, k)
        BY DEF Applied
      <3>3. j = k => FrameOK(mem[j], j, {}) /\ Applied(Stack[j].fun, j, todo', "pairs", shuffled, k) = {}
        <4>1. k \in Nat /\ ~(k < k)
          BY <1>1, CaseTypes
        <4> QED
          BY <1>1, <1>2, <2>1, <3>1, <4>1 DEF Applied
      <3> QED
        BY <3>1, <3>2, <3>3 DEF FrameOK
    <2> QED
      BY <1>1, <2>1, SMTT(30) DEF MemOK, Inv
  <1>6. SteadyOK(todo', pc', shuffled', k')
    <2>1. \A i, j \in Frames : i < k /\ k <= j /\ Stack[i].fun = Stack[j].fun /\ Stack[j].fun # 0
                             /\ Sound(Stack[j].fun) => shuffled[Stack[j].fun] # {} \/ NoPair(Stack[j].fun)
      BY <1>1 DEF Inv, SteadyOK
    <2>2. k <= k
      BY <1>1, CaseTypes
    <2>3. ASSUME Sound(g), NEW i \in Frames, i < k, Stack[i].fun = g PROVE NoPair(g) /\ todo' = {}
      <3>1. NoPair(g)
        BY <1>1, <1>2, <2>1, <2>2, <2>3
      <3>2. \A n \in Sizes : \A P \in Pairings(Movable(g, n)) : Kept(P, n) = {}
        BY <3>1, KeptPair DEF NoPair, Sizes
      <3> QED
        BY <1>2, <1>3, <2>3, <3>1, <3>2 DEF Sizes
    <2>4. ASSUME Sound(g), SomePair(g) PROVE todo' # {}
      BY <1>2, <1>3, <2>4, SMTT(30) DEF SomePair
    <2> QED
      BY <1>1, <2>1, <2>3, <2>4 DEF SteadyOK
  <1>7. MapsOK(maps', todo', pc', shuffled')
    BY <1>1 DEF Inv, MapsOK, Updated
  <1> QED
    BY <1>1, <1>4, <1>5, <1>6, <1>7, Assemble DEF Inv

\* The instructions that update_code_page() cannot write when a and b change places.
Refusals(f, a, b) ==
    Refused(exe[f], f, a, b, DOMAIN Code(f)) \cup Refused(criu[f], f, a, b, Dumped(f))
       \cup Refused(exe[f], f, b, a, DOMAIN Code(f)) \cup Refused(criu[f], f, b, a, Dumped(f))

\* One turn of the loops of shuffle_frame(), for pair p.
Swap(p, a, b) ==
    /\ a \in p.offs /\ b \in p.offs /\ a # b
    /\ todo' = todo \ {p}
    /\ shuffled' = [shuffled EXCEPT ![Fun] = @ \cup Record(a, b, p.size)]
    /\ mem' = [mem EXCEPT ![k] = Copy(Copy(@, a, b, p.size), b, a, p.size)]
    /\ \E n : exe' = [exe EXCEPT ![Fun] = Rewrite(@, Fun, a, b, DOMAIN Code(Fun), n)]
    /\ \E n : criu' = [criu EXCEPT ![Fun] = Rewrite(@, Fun, a, b, Dumped(Fun), n)]
    /\ pc' \in {"raised", "pairs"}
    /\ pc' = "raised" <=> Refusals(Fun, a, b) # {}
    /\ Refusals(Fun, a, b) = {} =>
          /\ exe' = [exe EXCEPT ![Fun] = Rewrite(@, Fun, a, b, DOMAIN Code(Fun), 2)]
          /\ criu' = [criu EXCEPT ![Fun] = Rewrite(@, Fun, a, b, Dumped(Fun), 2)]

LEMMA SwapPairLemma ==
    ASSUME SwapPair
    PROVE  \E p \in todo : \E a, b : Swap(p, a, b)
  <1> DEFINE all == DOMAIN Code(Fun)
             exe1(a, b) == Refused(exe[Fun], Fun, a, b, all) # {}
             criu1(a, b) == Refused(criu[Fun], Fun, a, b, Dumped(Fun)) # {}
             Turn(p, a, b) ==
                 /\ todo' = todo \ {p}
                 /\ shuffled' = [shuffled EXCEPT ![Fun] = @ \cup Record(a, b, p.size)]
                 /\ mem' = [mem EXCEPT ![k] = Copy(Copy(@, a, b, p.size), b, a, p.size)]
                 /\ exe' = [exe EXCEPT ![Fun] = Rewrite(@, Fun, a, b, all,
                                                        IF exe1(a, b) \/ criu1(a, b) THEN 1 ELSE 2)]
                 /\ criu' = [criu EXCEPT ![Fun] = Rewrite(@, Fun, a, b, Dumped(Fun),
                                IF exe1(a, b) THEN 0 ELSE IF criu1(a, b) \/ exe1(b, a) THEN 1 ELSE 2)]
                 /\ pc' = IF exe1(a, b) \/ criu1(a, b) \/ exe1(b, a) \/ criu1(b, a) THEN "raised" ELSE "pairs"
  <1>1. \E p \in todo : \E a \in p.offs : \E b \in p.offs \ {a} : Turn(p, a, b)
    BY ZenonT(60) DEF SwapPair
  <1>2. PICK p \in todo : \E a \in p.offs : \E b \in p.offs \ {a} : Turn(p, a, b)
    BY <1>1, Zenon
  <1>2a. PICK a \in p.offs : \E b \in p.offs \ {a} : Turn(p, a, b)
    BY <1>2, Zenon
  <1>2b. PICK b \in p.offs \ {a} : Turn(p, a, b)
    BY <1>2a, Zenon
  <1>3. Refusals(Fun, a, b) # {} <=> exe1(a, b) \/ criu1(a, b) \/ exe1(b, a) \/ criu1(b, a)
    BY DEF Refusals
  <1> HIDE DEF exe1, criu1, all
  <1>4. Swap(p, a, b)
    BY <1>2b, <1>3 DEF Swap, all
  <1> QED
    BY <1>4

LEMMA SwapWritten ==
    ASSUME NEW p, NEW a, NEW b, Swap(p, a, b), pc' # "raised"
    PROVE  /\ Refusals(Fun, a, b) = {} /\ pc' = "pairs"
           /\ exe' = [exe EXCEPT ![Fun] = Rewrite(@, Fun, a, b, DOMAIN Code(Fun), 2)]
           /\ criu' = [criu EXCEPT ![Fun] = Rewrite(@, Fun, a, b, Dumped(Fun), 2)]
  BY DEF Swap

\* What one turn does to the records.
LEMMA SwapFacts ==
    ASSUME Inv, SwapPair, NEW p \in todo, NEW a, NEW b, Swap(p, a, b)
    PROVE  /\ case' = case /\ maps' = maps /\ k' = k /\ snap' = snap /\ pc = "pairs"
           /\ case \in Cases /\ k \in Frames /\ Stack[k].fun # 0
           /\ Stack[k].fun \in Funs /\ Fun \in Funs /\ k \in Nat
           /\ (Sound(Stack[k].fun) => Fun = Stack[k].fun) /\ (Sound(Fun) => Fun = Stack[k].fun)
           /\ \A q \in todo : PairOK(Fun, q, todo, shuffled[Fun])
           /\ p.size \in Sizes /\ a \in Movable(Fun, p.size) /\ b \in Movable(Fun, p.size)
           /\ a # b /\ p.offs = {a, b} /\ Feasible(a, b) /\ Feasible(b, a)
           /\ shuffled'[Fun] = shuffled[Fun] \cup Record(a, b, p.size)
           /\ \A h \in Funs : h # Fun => shuffled'[h] = shuffled[h]
           /\ \A t \in shuffled[Fun] : t[1] # a /\ t[1] # b /\ t[2] # a /\ t[2] # b
           /\ RecordsOK(shuffled')
  <1> DEFINE g == Stack[k].fun
             f == First(g)
             S == shuffled[f]
             n == p.size
             R == Record(a, b, n)
  <1>1. f = Fun
    BY DEF Fun
  <1>2. /\ a \in p.offs /\ b \in p.offs /\ a # b
        /\ shuffled' = [shuffled EXCEPT ![f] = @ \cup Record(a, b, p.size)]
    BY <1>1 DEF Swap
  <1>3. /\ case' = case /\ maps' = maps /\ k' = k /\ snap' = snap /\ pc = "pairs"
        /\ case \in Cases /\ k \in Frames /\ g # 0
    BY DEF SwapPair, Inv, TodoOK
  <1>4. g \in Funs /\ f \in Funs /\ (Sound(g) => f = g) /\ (Sound(f) => f = g) /\ k \in Nat
    BY <1>3, CaseTypes, FirstLemma, SMTT(30)
  <1>5. \A q \in todo : PairOK(f, q, todo, S)
    BY <1>3 DEF Inv, TodoOK
  <1>6. /\ n \in Sizes /\ a \in Movable(f, n) /\ b \in Movable(f, n) /\ a # b /\ p.offs = {a, b}
        /\ Feasible(a, b) /\ Feasible(b, a)
    <2>1. PairOK(f, p, todo, S)
      BY <1>5
    <2>2. PICK x, y \in Movable(f, n) : x # y /\ p.offs = {x, y} /\ Feasible(x, y) /\ Feasible(y, x)
      BY <2>1 DEF PairOK
    <2>3. n \in Sizes
      BY <2>1 DEF PairOK
    <2>4. (a = x /\ b = y) \/ (a = y /\ b = x)
      BY <1>2, <2>2
    <2> QED
      BY <2>2, <2>3, <2>4
  <1>8. /\ shuffled'[f] = S \cup R
        /\ \A h \in Funs : h # f => shuffled'[h] = shuffled[h]
        /\ DOMAIN shuffled' = Funs
    BY <1>2, <1>4 DEF Inv, RecordsOK
  <1>9. /\ R = {<<a, b, n>>, <<b, a, n>>}
        /\ \A t \in R : t[3] = n /\ ((t[1] = a /\ t[2] = b) \/ (t[1] = b /\ t[2] = a))
    BY DEF Record
  <1>10. \A t \in S : t[1] # a /\ t[1] # b /\ t[2] # a /\ t[2] # b
    <2>1. \A t \in S : t[1] # a /\ t[1] # b
      BY <1>5, <1>6 DEF PairOK
    <2>2. \A t \in S : <<t[2], t[1], t[3]>> \in S
      BY <1>4, ZenonT(30) DEF Inv, RecordsOK
    <2> QED
      BY <2>1, <2>2, ZenonT(30)
  <1>11. RecordsOK(shuffled')
    <2>1. ASSUME NEW t \in S \cup R
          PROVE /\ t = <<t[1], t[2], t[3]>> /\ t[3] \in Sizes
                /\ t[1] \in Movable(f, t[3]) /\ t[2] \in Movable(f, t[3]) /\ t[1] # t[2]
                /\ <<t[2], t[1], t[3]>> \in S \cup R
                /\ \A u \in S \cup R : u[1] = t[1] => u = t
      <3>1. CASE t \in S
        BY <1>4, <1>9, <1>10, <3>1, SMTT(20), Z3T(20), ZenonT(40) DEF Inv, RecordsOK
      <3>2. CASE t \in R
        BY <1>6, <1>9, <1>10, <3>2, SMTT(30)
      <3> QED
        BY <3>1, <3>2
    <2> QED
      BY <1>8, <2>1 DEF Inv, RecordsOK
  <1> HIDE DEF f
  <1> QED
    BY <1>1, <1>3, <1>4, <1>5, <1>6, <1>8, <1>10, <1>11

LEMMA SwapPairInv == Inv /\ SwapPair /\ pc' # "raised" => Inv'
  <1> SUFFICES ASSUME Inv, SwapPair, pc' # "raised" PROVE Inv'
    OBVIOUS
  <1> DEFINE g == Stack[k].fun
             f == First(g)
             S == shuffled[f]
  <1>1. PICK p \in todo : \E a, b : Swap(p, a, b)
    BY SwapPairLemma
  <1>1a. PICK a, b : Swap(p, a, b)
    BY <1>1, SMTT(30)
  <1>2. /\ a \in p.offs /\ b \in p.offs /\ a # b
        /\ todo' = todo \ {p}
        /\ shuffled' = [shuffled EXCEPT ![f] = @ \cup Record(a, b, p.size)]
        /\ mem' = [mem EXCEPT ![k] = Copy(Copy(@, a, b, p.size), b, a, p.size)]
        /\ Refusals(f, a, b) = {}
        /\ exe' = [exe EXCEPT ![f] = Rewrite(@, f, a, b, DOMAIN Code(f), 2)]
        /\ criu' = [criu EXCEPT ![f] = Rewrite(@, f, a, b, Dumped(f), 2)]
        /\ pc' = "pairs"
    BY <1>1a, SwapWritten DEF Swap, Fun
  <1> DEFINE n == p.size
             R == Record(a, b, n)
  <1>a. f = Fun
    BY DEF Fun
  <1>3. /\ case' = case /\ maps' = maps /\ k' = k /\ snap' = snap /\ pc = "pairs"
        /\ case \in Cases /\ k \in Frames /\ g # 0
    BY <1>1a, SwapFacts, SMTT(30)
  <1>4. g \in Funs /\ f \in Funs /\ (Sound(g) => f = g) /\ (Sound(f) => f = g) /\ k \in Nat
    BY <1>1a, <1>a, SwapFacts
  <1>5. \A q \in todo : PairOK(f, q, todo, S)
    BY <1>1a, <1>a, SwapFacts, SMTT(30)
  <1>6. n \in Sizes /\ a \in Movable(f, n) /\ b \in Movable(f, n) /\ a # b /\ p.offs = {a, b}
    BY <1>1a, <1>a, SwapFacts
  <1>7. pc' = "pairs"
    BY <1>2
  <1>8. /\ shuffled'[f] = S \cup R
        /\ \A h \in Funs : h # f => shuffled'[h] = shuffled[h]
        /\ DOMAIN shuffled' = Funs
    BY <1>2, <1>4 DEF Inv, RecordsOK
  <1>9. /\ R = {<<a, b, n>>, <<b, a, n>>}
        /\ \A t \in R : t[3] = n /\ ((t[1] = a /\ t[2] = b) \/ (t[1] = b /\ t[2] = a))
    BY DEF Record
  <1>10. \A t \in S : t[1] # a /\ t[1] # b /\ t[2] # a /\ t[2] # b
    BY <1>1a, <1>a, SwapFacts
  <1>11. RecordsOK(shuffled')
    BY <1>1a, SwapFacts
  <1>12. FileOK(exe', shuffled', Pages)
    <2>1. DOMAIN exe = Funs /\ DOMAIN exe[f] = DOMAIN Code(f)
      BY <1>4 DEF Inv, FileOK
    <2>2. CodeOK(exe[f], f, S, DOMAIN Code(f))
      BY <1>3, <1>4, CaseTypes, ZenonT(30) DEF CodeOK, Inv, FileOK
    <2>a. exe'[f] = Rewrite(exe[f], f, a, b, DOMAIN Code(f), 2)
      BY <1>2, <1>4, <2>1, SMTT(30)
    <2>3. DOMAIN exe'[f] = DOMAIN Code(f) /\ CodeOK(exe'[f], f, S \cup R, DOMAIN Code(f))
      <3> DEFINE offs == exe[f]
                 T == DOMAIN Code(f)
      <3>1. /\ DOMAIN offs = DOMAIN Code(f) /\ T \subseteq DOMAIN Code(f) /\ CodeOK(offs, f, S, T)
            /\ Refused(offs, f, a, b, T) = {} /\ Refused(offs, f, b, a, T) = {}
        BY <1>2, <2>1, <2>2 DEF Refusals
      <3> HIDE DEF S, n, f, offs, T
      <3>2. DOMAIN Rewrite(offs, f, a, b, T, 2) = DOMAIN Code(f)
        BY <1>6, <1>10, <3>1, RewriteLemma, ZenonT(30)
      <3>3. CodeOK(Rewrite(offs, f, a, b, T, 2), f, S \cup Record(a, b, n), T)
        BY <1>6, <1>10, <3>1, RewriteLemma
      <3> QED
        BY <2>a, <3>2, <3>3, SMTT(30) DEF offs, T
    <2>4. \A h \in Funs : h # f => exe'[h] = exe[h]
      BY <1>2, <2>1, SMTT(30)
    <2>5. DOMAIN exe' = Funs
      BY <1>2, <2>1
    <2> QED
      <3>1. ASSUME NEW h \in Funs
            PROVE  /\ DOMAIN exe'[h] = DOMAIN Code(h)
                   /\ \A i \in DOMAIN Code(h) : Code(h)[i].page \in Pages =>
                          IF Listed(h, i) THEN Sent(shuffled'[h], Code(h)[i].off, exe'[h][i])
                                          ELSE exe'[h][i] = Code(h)[i].off
        <4>1. CASE h = f
          <5> HIDE DEF S, R, f
          <5> QED
            BY <1>8, <2>3, <4>1, ZenonT(30) DEF CodeOK
        <4>2. CASE h # f
          <5>1. exe'[h] = exe[h] /\ shuffled'[h] = shuffled[h]
            BY <1>8, <2>4, <4>2
          <5>2. FileOK(exe, shuffled, Pages)
            BY SMTT(30) DEF Inv
          <5> QED
            BY <5>1, <5>2 DEF FileOK
        <4> QED
          BY <4>1, <4>2
      <3> QED
        BY <2>5, <3>1 DEF FileOK
  <1>13. FileOK(criu', shuffled', {"dumped"})
    <2>1. DOMAIN criu = Funs /\ DOMAIN criu[f] = DOMAIN Code(f) /\ Dumped(f) \subseteq DOMAIN Code(f)
      BY <1>4, SMTT(30) DEF Inv, FileOK, Dumped
    <2>2. CodeOK(criu[f], f, S, Dumped(f))
      BY <1>4 DEF CodeOK, Inv, FileOK, Dumped
    <2>a. criu'[f] = Rewrite(criu[f], f, a, b, Dumped(f), 2)
      BY <1>2, <1>4, <2>1, SMTT(30)
    <2>3. DOMAIN criu'[f] = DOMAIN Code(f) /\ CodeOK(criu'[f], f, S \cup R, Dumped(f))
      <3> DEFINE offs == criu[f]
                 T == Dumped(f)
      <3>1. /\ DOMAIN offs = DOMAIN Code(f) /\ T \subseteq DOMAIN Code(f) /\ CodeOK(offs, f, S, T)
            /\ Refused(offs, f, a, b, T) = {} /\ Refused(offs, f, b, a, T) = {}
        BY <1>2, <2>1, <2>2 DEF Refusals
      <3> HIDE DEF S, n, f, offs, T
      <3>2. DOMAIN Rewrite(offs, f, a, b, T, 2) = DOMAIN Code(f)
        BY <1>6, <1>10, <3>1, RewriteLemma, ZenonT(30)
      <3>3. CodeOK(Rewrite(offs, f, a, b, T, 2), f, S \cup Record(a, b, n), T)
        BY <1>6, <1>10, <3>1, RewriteLemma
      <3> QED
        BY <2>a, <3>2, <3>3, SMTT(30) DEF offs, T
    <2>4. \A h \in Funs : h # f => criu'[h] = criu[h]
      BY <1>2, <2>1, SMTT(30)
    <2>5. DOMAIN criu' = Funs
      BY <1>2, <2>1
    <2> QED
      <3>1. ASSUME NEW h \in Funs
            PROVE  /\ DOMAIN criu'[h] = DOMAIN Code(h)
                   /\ \A i \in DOMAIN Code(h) : Code(h)[i].page \in {"dumped"} =>
                          IF Listed(h, i) THEN Sent(shuffled'[h], Code(h)[i].off, criu'[h][i])
                                          ELSE criu'[h][i] = Code(h)[i].off
        <4>1. CASE h = f
          <5> HIDE DEF S, R, f
          <5> QED
            BY <1>8, <2>3, <4>1 DEF CodeOK, Dumped
        <4>2. CASE h # f
          <5>1. criu'[h] = criu[h] /\ shuffled'[h] = shuffled[h]
            BY <1>8, <2>4, <4>2
          <5>2. FileOK(criu, shuffled, {"dumped"})
            BY SMTT(30) DEF Inv
          <5> QED
            BY <5>1, <5>2 DEF FileOK
        <4> QED
          BY <4>1, <4>2
      <3> QED
        BY <2>5, <3>1 DEF FileOK
  <1>14. TodoOK(todo', pc', shuffled', k')
    <2>1. ASSUME NEW q \in todo \ {p} PROVE PairOK(f, q, todo \ {p}, S \cup R)
      BY <1>5, <1>6, <1>9 DEF PairOK
    <2> QED
      BY <1>2, <1>3, <1>7, <1>8, <2>1, ZenonT(30) DEF TodoOK
  <1>15. MemOK(mem', snap', todo', pc', shuffled', k')
    <2>1. /\ DOMAIN mem = Frames /\ snap = [c \in Cells |-> snap[c]]
          /\ \A j \in Frames : mem[j] = [c \in Cells |-> mem[j][c]]
      BY <1>3 DEF Inv, MemOK
    <2>2. DOMAIN mem' = Frames /\ (\A j \in Frames : j # k => mem'[j] = mem[j])
          /\ mem'[k] = Copy(Copy(mem[k], a, b, n), b, a, n)
      BY <1>2, <1>3, <2>1
    <2>3. mem'[k] = [c \in Cells |-> mem'[k][c]]
      BY <2>2 DEF Copy
    <2>4. ASSUME NEW j \in Frames, j # k, Stack[j].fun # 0, Sound(Stack[j].fun)
          PROVE FrameOK(mem'[j], j, Applied(Stack[j].fun, j, todo', "pairs", shuffled', k))
      <3> DEFINE h == Stack[j].fun
      <3>1. h \in Funs /\ j \in Nat
        BY <1>3, <2>4, CaseTypes, SMTT(30)
      <3>2. h = f => ~(j < k)
        BY <1>3, <1>4, <2>4 DEF Inv, SteadyOK
      <3>3. Applied(h, j, todo', "pairs", shuffled', k) = Applied(h, j, todo, "pairs", shuffled, k)
        BY <1>8, <2>4, <3>1, <3>2 DEF Applied
      <3>4. FrameOK(mem[j], j, Applied(h, j, todo, "pairs", shuffled, k))
        BY <1>3, <2>4 DEF Inv, MemOK
      <3> QED
        BY <2>2, <2>4, <3>3, <3>4
    <2>5. ASSUME Sound(g) PROVE /\ FrameOK(mem'[k], k, Applied(g, k, todo', "pairs", shuffled', k))
                                /\ \A c \in Cells : snap[c] = <<k, c>>
      <3>1. f = g /\ \A c \in Cells : snap[c] = <<k, c>>
        BY <1>3, <1>4, <2>5 DEF Inv, MemOK
      <3>2. FrameOK(mem[k], k, S)
        BY <1>3, <1>4, <2>5, <3>1 DEF Inv, MemOK, Applied
      <3>3. \A t \in S : t[3] \in Sizes /\ t[2] \in Movable(g, t[3])
        BY <1>4, <3>1, ZenonT(30) DEF Inv, RecordsOK
      <3>4. FrameOK(Copy(mem[k], a, b, n), k, S \cup {<<a, b, n>>})
        BY <1>3, <1>6, <1>10, <2>5, <3>1, <3>2, <3>3, CopyLemma, SMTT(30)
      <3>5. \A t \in S \cup {<<a, b, n>>} : t[3] \in Sizes /\ t[2] \in Movable(g, t[3]) /\ t[2] # a
        BY <1>6, <1>10, <3>1, <3>3
      <3>6. FrameOK(mem'[k], k, (S \cup {<<a, b, n>>}) \cup {<<b, a, n>>})
        <4> DEFINE fr == Copy(mem[k], a, b, n)
                   Z == S \cup {<<a, b, n>>}
        <4>1. FrameOK(fr, k, Z) /\ \A t \in Z : t[3] \in Sizes /\ t[2] \in Movable(Stack[k].fun, t[3])
          BY <3>4, <3>5
        <4>2. \A t \in Z : t[2] # a
          BY <3>5
        <4>3. /\ Stack[k].fun # 0 /\ Sound(Stack[k].fun) /\ n \in Sizes
              /\ a \in Movable(Stack[k].fun, n) /\ b \in Movable(Stack[k].fun, n)
          BY <1>3, <1>6, <2>5, <3>1, SMTT(30)
        <4> HIDE DEF fr, Z, n, f, g, S
        <4>4. FrameOK(Copy(fr, b, a, n), k, Z \cup {<<b, a, n>>})
          BY <1>3, <3>1, <4>1, <4>2, <4>3, CopyLemma, SMTT(30)
        <4> QED
          BY <2>2, <4>4 DEF fr, Z
      <3>7. (S \cup {<<a, b, n>>}) \cup {<<b, a, n>>} = shuffled'[f]
        BY <1>8, <1>9, SMTT(30)
      <3> QED
        BY <1>4, <3>1, <3>6, <3>7, ZenonT(30) DEF Applied
    <2> QED
      BY <1>3, <1>7, <2>1, <2>2, <2>3, <2>4, <2>5 DEF MemOK
  <1>16. SteadyOK(todo', pc', shuffled', k')
    <2>1. R # {}
      BY <1>9, ZenonT(30)
    <2>2. ASSUME NEW i \in Frames, NEW j \in Frames, i < k, k <= j, Stack[i].fun = Stack[j].fun,
                 Stack[j].fun # 0, Sound(Stack[j].fun), k = j => pc' = "frame"
          PROVE shuffled'[Stack[j].fun] # {} \/ NoPair(Stack[j].fun)
      <3>1. Stack[j].fun \in Funs
        BY <1>3, <2>2, CaseTypes, SMTT(30)
      <3>2. shuffled[Stack[j].fun] # {} \/ NoPair(Stack[j].fun)
        <4>1. SteadyOK(todo, "pairs", shuffled, k) /\ k # j
          BY <1>3, <1>7, <2>2, ZenonT(30) DEF Inv
        <4> QED
          BY <2>2, <4>1, ZenonT(30) DEF SteadyOK
      <3> QED
        BY <1>8, <2>1, <3>1, <3>2
    <2>3. Sound(g) => shuffled'[g] # {}
      BY <1>4, <1>8, <2>1, SMTT(30)
    <2> QED
      BY <1>2, <1>3, <1>7, <2>2, <2>3, SMTT(30) DEF Inv, SteadyOK
  <1>17. MapsOK(maps', todo', pc', shuffled')
    BY <1>3, <1>7 DEF Inv, MapsOK, Updated
  <1> QED
    BY <1>3, <1>7, <1>11, <1>12, <1>13, <1>14, <1>15, <1>16, <1>17, Assemble DEF Inv

LEMMA SeenFunctionInv == Inv /\ SeenFunction => Inv'
  <1> SUFFICES ASSUME Inv, SeenFunction PROVE Inv'
    OBVIOUS
  <1> DEFINE g == Stack[k].fun
             f == First(g)
  <1>1. /\ case \in Cases /\ k \in Frames /\ g # 0 /\ pc = "frame" /\ pc' = "moves" /\ shuffled[f] # {}
        /\ snap' = mem[k] /\ k' = k /\ case' = case /\ mem' = mem /\ exe' = exe /\ criu' = criu
        /\ maps' = maps /\ shuffled' = shuffled /\ todo' = shuffled[f]
    BY DEF Inv, SeenFunction, Known, Fun
  <1>2. g \in Funs /\ f \in Funs /\ (Sound(g) => f = g) /\ k \in Nat
    BY <1>1, CaseTypes, FirstLemma, SMTT(30)
  <1>3. TodoOK(todo', pc', shuffled', k')
    BY <1>1 DEF TodoOK
  <1>4. MemOK(mem', snap', todo', pc', shuffled', k')
    <2>1. ASSUME NEW j \in Frames, Stack[j].fun # 0, Sound(Stack[j].fun)
          PROVE /\ FrameOK(mem[j], j, Applied(Stack[j].fun, j, todo', "moves", shuffled, k))
                /\ j = k => \A c \in Cells : mem[k][c] = <<j, c>>
      <3>1. FrameOK(mem[j], j, Applied(Stack[j].fun, j, todo, "frame", shuffled, k))
        BY <1>1, <2>1 DEF Inv, MemOK
      <3>2. j # k => Applied(Stack[j].fun, j, todo', "moves", shuffled, k)
                       = Applied(Stack[j].fun, j, todo, "frame", shuffled, k)
        BY DEF Applied
      <3>3. j = k => FrameOK(mem[j], j, {}) /\ Applied(Stack[j].fun, j, todo', "moves", shuffled, k) = {}
        <4>1. ASSUME j = k PROVE /\ Applied(Stack[j].fun, j, todo', "moves", shuffled, k) = {}
                                 /\ Applied(Stack[j].fun, j, todo, "frame", shuffled, k) = {}
          <5>1. shuffled[Stack[j].fun] \ todo' = {} /\ ~(j < k)
            BY <1>1, <1>2, <2>1, <4>1, SMTT(30)
          <5> QED
            BY <4>1, <5>1 DEF Applied
        <4> QED
          BY <3>1, <4>1
      <3> QED
        BY <3>1, <3>2, <3>3 DEF FrameOK
    <2> QED
      BY <1>1, <2>1, SMTT(30) DEF MemOK, Inv
  <1>5. SteadyOK(todo', pc', shuffled', k')
    BY <1>1, SMTT(30) DEF Inv, SteadyOK
  <1>6. MapsOK(maps', todo', pc', shuffled')
    BY <1>1 DEF Inv, MapsOK, Updated
  <1> QED
    BY <1>1, <1>3, <1>4, <1>5, <1>6, Assemble, ZenonT(30) DEF Inv

LEMMA MoveOneInv == Inv /\ MoveOne => Inv'
  <1> SUFFICES ASSUME Inv, MoveOne PROVE Inv'
    OBVIOUS
  <1> DEFINE g == Stack[k].fun
             f == First(g)
             S == shuffled[f] \ todo
  <1>1. PICK t \in todo : todo' = todo \ {t} /\ mem' = [mem EXCEPT ![k] = Copy(@, t[1], t[2], t[3])]
    BY ZenonT(30) DEF MoveOne
  <1>2. /\ case \in Cases /\ k \in Frames /\ g # 0 /\ pc = "moves" /\ pc' = "moves"
        /\ snap' = snap /\ k' = k /\ case' = case /\ exe' = exe /\ criu' = criu
        /\ maps' = maps /\ shuffled' = shuffled
        /\ todo \subseteq shuffled[f] /\ shuffled[f] # {}
    BY DEF Inv, MoveOne, TodoOK
  <1>3. g \in Funs /\ f \in Funs /\ (Sound(g) => f = g) /\ k \in Nat
    BY <1>2, CaseTypes, FirstLemma
  <1>4. TodoOK(todo', pc', shuffled', k')
    BY <1>1, <1>2 DEF TodoOK
  <1>5. MemOK(mem', snap', todo', pc', shuffled', k')
    <2>1. /\ DOMAIN mem = Frames /\ snap = [c \in Cells |-> snap[c]]
          /\ \A j \in Frames : mem[j] = [c \in Cells |-> mem[j][c]]
      BY <1>2 DEF Inv, MemOK
    <2>2. /\ DOMAIN mem' = Frames /\ (\A j \in Frames : j # k => mem'[j] = mem[j])
          /\ mem'[k] = Copy(mem[k], t[1], t[2], t[3])
      BY <1>1, <1>2, <2>1
    <2>3. mem'[k] = [c \in Cells |-> mem'[k][c]]
      BY <2>2 DEF Copy
    <2>4. ASSUME NEW j \in Frames, j # k, Stack[j].fun # 0, Sound(Stack[j].fun)
          PROVE FrameOK(mem'[j], j, Applied(Stack[j].fun, j, todo', "moves", shuffled', k))
      <3>1. Applied(Stack[j].fun, j, todo', "moves", shuffled', k) = Applied(Stack[j].fun, j, todo, "moves", shuffled, k)
        BY <1>2, <2>4 DEF Applied
      <3>2. FrameOK(mem[j], j, Applied(Stack[j].fun, j, todo, "moves", shuffled, k))
        BY <1>2, <2>4 DEF Inv, MemOK
      <3> QED
        BY <2>2, <2>4, <3>1, <3>2
    <2>5. ASSUME Sound(g) PROVE /\ FrameOK(mem'[k], k, Applied(g, k, todo', "moves", shuffled', k))
                                /\ \A c \in Cells : snap[c] = <<k, c>>
      <3>1. f = g /\ \A c \in Cells : snap[c] = <<k, c>>
        BY <1>2, <1>3, <2>5 DEF Inv, MemOK
      <3>2. FrameOK(mem[k], k, S)
        <4>1. FrameOK(mem[k], k, Applied(g, k, todo, "moves", shuffled, k))
          BY <1>2, <2>5 DEF Inv, MemOK
        <4>2. Applied(g, k, todo, "moves", shuffled, k) = S
          BY <1>3, <3>1 DEF Applied
        <4> QED
          BY <4>1, <4>2
      <3>3. \A u \in shuffled[f] :
              /\ u = <<u[1], u[2], u[3]>> /\ u[3] \in Sizes
              /\ u[1] \in Movable(g, u[3]) /\ u[2] \in Movable(g, u[3])
              /\ <<u[2], u[1], u[3]>> \in shuffled[f]
              /\ \A w \in shuffled[f] : w[1] = u[1] => w = u
        BY <1>3, <3>1, ZenonT(30) DEF Inv, RecordsOK
      <3>4. t \in shuffled[f] /\ t \notin S
        BY <1>2
      <3>5. ASSUME NEW u \in S PROVE u[2] # t[2]
        <4>1. SUFFICES ASSUME u[2] = t[2] PROVE u = t
          BY <3>4
        <4> DEFINE v == <<u[2], u[1], u[3]>>
                   w == <<t[2], t[1], t[3]>>
        <4>2. v \in shuffled[f] /\ w \in shuffled[f] /\ v[1] = w[1]
          BY <3>3, <3>4, <4>1
        <4>3. v = w
          BY <3>3, <4>2
        <4> QED
          BY <3>3, <3>4, <4>1, <4>3, ZenonT(30)
      <3>6. FrameOK(mem'[k], k, S \cup {<<t[1], t[2], t[3]>>})
        <4>1. t[3] \in Sizes /\ t[1] \in Movable(g, t[3]) /\ t[2] \in Movable(g, t[3])
          BY <3>3, <3>4, ZenonT(30)
        <4>2. \A u \in S : u[3] \in Sizes /\ u[2] \in Movable(g, u[3])
          BY <3>3, ZenonT(30)
        <4> HIDE DEF S
        <4> QED
          <5>1. Stack[k].fun # 0 /\ Sound(Stack[k].fun)
            BY <1>2, <2>5
          <5> HIDE DEF g, f
          <5>2. /\ t[1] \in Movable(Stack[k].fun, t[3]) /\ t[2] \in Movable(Stack[k].fun, t[3])
                /\ \A u \in S : u[3] \in Sizes /\ u[2] \in Movable(Stack[k].fun, u[3])
            BY <4>1, <4>2, SMTT(30) DEF g
          <5>3. FrameOK(Copy(mem[k], t[1], t[2], t[3]), k, S \cup {<<t[1], t[2], t[3]>>})
            BY <1>2, <3>1, <3>2, <3>5, <4>1, <5>1, <5>2, CopyLemma
          <5> QED
            BY <2>2, <5>3
      <3>7. S \cup {<<t[1], t[2], t[3]>>} = shuffled'[f] \ todo'
        <4>1. t = <<t[1], t[2], t[3]>>
          BY <3>3, <3>4, ZenonT(30)
        <4>2. (shuffled[f] \ todo) \cup {t} = shuffled[f] \ (todo \ {t})
          BY <3>4, SMTT(30)
        <4> QED
          BY <1>1, <1>2, <4>1, <4>2, Zenon
      <3> QED
        BY <1>3, <3>1, <3>6, <3>7 DEF Applied
    <2> QED
      BY <1>2, <2>1, <2>2, <2>3, <2>4, <2>5 DEF MemOK
  <1>6. SteadyOK(todo', pc', shuffled', k')
    BY <1>2 DEF Inv, SteadyOK
  <1>7. MapsOK(maps', todo', pc', shuffled')
    BY <1>2, ZenonT(30) DEF Inv, MapsOK, Updated
  <1> QED
    BY <1>2, <1>4, <1>5, <1>6, <1>7, Assemble, ZenonT(30) DEF Inv

LEMMA NextFrameInv == Inv /\ NextFrame => Inv'
  <1> SUFFICES ASSUME Inv, NextFrame PROVE Inv'
    OBVIOUS
  <1> DEFINE g == Stack[k].fun
             f == First(g)
  <1>1. /\ case \in Cases /\ k \in Frames /\ k' = k + 1 /\ pc' = "frame"
        /\ case' = case /\ mem' = mem /\ exe' = exe /\ criu' = criu
        /\ maps' = maps /\ shuffled' = shuffled /\ todo' = todo /\ todo = {}
        /\ (pc = "frame" /\ g = 0) \/ pc \in {"pairs", "moves"}
    BY ZenonT(30) DEF Inv, NextFrame, Known, TodoOK
  <1>a. k \in Nat /\ Len(Stack) \in Nat /\ Frames = 1..Len(Stack)
    BY PlaceLemma, SMTT(30)
  <1>2. k \in Nat /\ Len(Stack) \in Nat /\ Frames = 1..Len(Stack) /\ k' \in 1..(Len(Stack) + 1)
    BY <1>1, <1>a, SMTT(30)
  <1>3. g # 0 => g \in Funs /\ (Sound(g) => f = g)
    BY <1>1, CaseTypes, FirstLemma
  <1>4. TodoOK(todo', pc', shuffled', k')
    BY <1>1 DEF TodoOK
  <1>5. MemOK(mem', snap', todo', pc', shuffled', k')
    <2>1. ASSUME NEW j \in Frames, Stack[j].fun # 0, Sound(Stack[j].fun)
          PROVE FrameOK(mem[j], j, Applied(Stack[j].fun, j, {}, "frame", shuffled, k + 1))
      <3>1. FrameOK(mem[j], j, Applied(Stack[j].fun, j, {}, pc, shuffled, k))
        BY <1>1, <2>1 DEF Inv, MemOK
      <3>2. Applied(Stack[j].fun, j, {}, "frame", shuffled, k + 1) = Applied(Stack[j].fun, j, {}, pc, shuffled, k)
        BY <1>1, <1>2, <2>1 DEF Applied
      <3> QED
        BY <3>1, <3>2
    <2> QED
      BY <1>1, <2>1, SMTT(30) DEF MemOK, Inv
  <1>6. SteadyOK(todo', pc', shuffled', k')
    <2>1. ASSUME NEW i \in Frames, NEW j \in Frames, i < k + 1, k + 1 <= j, Stack[i].fun = Stack[j].fun,
                 Stack[j].fun # 0, Sound(Stack[j].fun)
          PROVE shuffled[Stack[j].fun] # {} \/ NoPair(Stack[j].fun)
      <3>1. CASE i < k
        <4>1. SteadyOK(todo, pc, shuffled, k)
          BY DEF Inv
        <4>2. i < k /\ k <= j /\ k # j
          BY <1>2, <2>1, <3>1
        <4> QED
          BY <2>1, <4>1, <4>2 DEF SteadyOK
      <3>2. CASE i = k
        <4>1. g = Stack[j].fun /\ i # j /\ Sound(g) /\ f = g
          BY <1>2, <1>3, <2>1, <3>2, SMTT(30)
        <4>2. NoPair(g) \/ SomePair(g)
          BY <1>1, <2>1, <3>2, <4>1, SMTT(30) DEF Sound, Steady, Once
        <4>3. CASE pc = "pairs"
          BY <1>1, <4>1, <4>2, <4>3, SMTT(30) DEF Inv, SteadyOK
        <4>4. CASE pc = "moves"
          <5>1. TodoOK(todo, "moves", shuffled, k)
            BY <4>4, ZenonT(40) DEF Inv
          <5>2. shuffled[f] # {}
            BY <5>1, ZenonT(40) DEF TodoOK
          <5> QED
            BY <4>1, <5>2, ZenonT(40)
        <4> QED
          BY <1>1, <2>1, <4>1, <4>3, <4>4
      <3> QED
        BY <1>2, <2>1, <3>1, <3>2
    <2> QED
      BY <1>1, <2>1 DEF SteadyOK
  <1>7. MapsOK(maps', todo', pc', shuffled')
    BY <1>1 DEF Inv, MapsOK, Updated
  <1> QED
    BY <1>1, <1>2, <1>4, <1>5, <1>6, <1>7, Assemble, ZenonT(30) DEF Inv

LEMMA StackMapsInv == Inv /\ StackMaps => Inv'
  <1> SUFFICES ASSUME Inv, StackMaps PROVE Inv'
    OBVIOUS
  <1>1. /\ case \in Cases /\ k \notin Frames /\ k' = k /\ pc = "frame" /\ pc' = "maps" /\ snap' = snap
        /\ case' = case /\ mem' = mem /\ exe' = exe /\ criu' = criu
        /\ maps' = maps /\ shuffled' = shuffled /\ todo' = {f \in Funs : shuffled[f] # {}}
    BY DEF Inv, StackMaps
  <1>2. k = Len(Stack) + 1 /\ k \in Nat
    BY <1>1, PlaceLemma
  <1>3. TodoOK(todo', pc', shuffled', k')
    BY <1>1 DEF TodoOK
  <1>4. MemOK(mem', snap', todo', pc', shuffled', k')
    BY <1>1 DEF Inv, MemOK, Applied
  <1>5. SteadyOK(todo', pc', shuffled', k')
    BY <1>1, ZenonT(30) DEF Inv, SteadyOK
  <1>6. MapsOK(maps', todo', pc', shuffled')
    <2>1. ASSUME NEW f \in Funs, Sound(f), Alone(f), NEW m \in Values(f)
          PROVE /\ maps[f][m] = ToMap(f, m.off) /\ m.off \in Cells
                /\ f \notin todo' => Sent(shuffled[f], m.off, m.off)
      BY <1>1, <2>1, CaseTypes, ZenonT(30) DEF Inv, MapsOK, Updated, Sent
    <2> QED
      BY <1>1, <2>1 DEF MapsOK, Updated
  <1> QED
    BY <1>1, <1>2, <1>3, <1>4, <1>5, <1>6, Assemble, ZenonT(30) DEF Inv

\* Only f itself writes the stack maps of a function that is Alone.
LEMMA OwnerLemma ==
    ASSUME case \in Cases, NEW f \in Funs, Alone(f), NEW m \in Values(f)
    PROVE /\ f \in Owner(f, ToMap(f, m.off))
          /\ \A g \in Funs : \A o : f \in Owner(g, o) => g = f
  <1>1. case.funs[f].unit \in Nat
    BY CaseTypes
  <1> QED
    BY <1>1 DEF Owner, Alone

LEMMA UpdateMapInv == Inv /\ UpdateMap => Inv'
  <1> SUFFICES ASSUME Inv, UpdateMap PROVE Inv'
    OBVIOUS
  <1>1. PICK g \in todo : /\ todo' = todo \ {g}
                          /\ maps' = [h \in Funs |-> [m \in Values(h) |-> NewPlace(g, h, m)]]
    BY SMTT(30) DEF UpdateMap
  <1>2. /\ case \in Cases /\ k' = k /\ pc = "maps" /\ pc' = "maps" /\ snap' = snap
        /\ case' = case /\ mem' = mem /\ exe' = exe /\ criu' = criu
        /\ shuffled' = shuffled /\ todo \subseteq Funs
    BY DEF Inv, UpdateMap, TodoOK
  <1>3. TodoOK(todo', pc', shuffled', k')
    BY <1>1, <1>2 DEF TodoOK
  <1>4. k = Len(Stack) + 1 /\ k \in Nat /\ \A j \in Frames : j < k
    BY <1>2, PlaceLemma
  <1>5. MemOK(mem', snap', todo', pc', shuffled', k')
    BY <1>2, <1>4, SMTT(30) DEF Inv, MemOK, Applied
  <1>6. SteadyOK(todo', pc', shuffled', k')
    BY <1>2, SMTT(30) DEF Inv, SteadyOK
  <1>7. MapsOK(maps', todo', pc', shuffled')
    <2> SUFFICES ASSUME NEW f \in Funs, Sound(f), Alone(f), NEW m \in Values(f)
                 PROVE IF Updated(f, todo', "maps")
                       THEN \E o \in Cells : Sent(shuffled[f], m.off, o) /\ maps'[f][m] = ToMap(f, o)
                       ELSE maps'[f][m] = ToMap(f, m.off)
      BY <1>2 DEF MapsOK
    <2>1. maps'[f][m] = NewPlace(g, f, m)
      BY <1>1
    <2>2. CASE g # f
      <3>1. NewPlace(g, f, m) = maps[f][m]
        BY <1>2, <2>2, OwnerLemma DEF NewPlace
      <3>2. Updated(f, todo', "maps") <=> Updated(f, todo, "maps")
        BY <1>1, <2>2, SMTT(30) DEF Updated
      <3> QED
        BY <1>2, <2>1, <3>1, <3>2, ZenonT(30) DEF Inv, MapsOK
    <2>3. CASE g = f
      <3> DEFINE at == ToMap(f, m.off)
                 hits == {t \in shuffled[f] : ToMap(f, t[1]) = at /\ f \in Owner(f, at)}
      <3>1. maps[f][m] = at /\ Updated(f, todo', "maps")
        BY <1>1, <1>2, <2>3, ZenonT(30) DEF Inv, MapsOK, Updated
      <3>2. m.off \in Cells /\ m.off \in Int /\ case.funs[f].size \in Nat
        BY <1>2, CaseTypes, SMTT(30)
      <3>3. \A t \in shuffled[f] : t[1] \in Int /\ t[2] \in Cells
        <4>1. \A t \in shuffled[f] : t[1] \in Movable(f, t[3]) /\ t[2] \in Movable(f, t[3])
          BY ZenonT(30) DEF Inv, RecordsOK
        <4> QED
          BY <1>2, <4>1, MovableCell
      <3>4. hits = {t \in shuffled[f] : t[1] = m.off}
        BY <1>2, <3>2, <3>3, OwnerLemma DEF ToMap
      <3>5. NewPlace(g, f, m) = IF hits = {} THEN at ELSE ToMap(f, (CHOOSE t \in hits : TRUE)[2])
        BY <2>3, <3>1, SMTT(30) DEF NewPlace
      <3> HIDE DEF hits
      <3>6. CASE hits = {}
        BY <2>1, <3>1, <3>2, <3>4, <3>5, <3>6, SMTT(30) DEF Sent
      <3>7. CASE hits # {}
        <4>1. (CHOOSE t \in hits : TRUE) \in hits
          BY <3>7
        <4>2. PICK t \in hits : t = (CHOOSE x \in hits : TRUE)
          BY <4>1
        <4>3. t \in shuffled[f] /\ t[1] = m.off /\ t[2] \in Cells
          BY <3>3, <3>4
        <4>4. maps'[f][m] = ToMap(f, t[2])
          BY <2>1, <3>5, <3>7, <4>2, SMTT(30)
        <4> QED
          BY <3>1, <4>3, <4>4 DEF Sent
      <3> QED
        BY <3>6, <3>7
    <2> QED
      BY <2>2, <2>3, SMTT(30)
  <1> QED
    BY <1>2, <1>3, <1>4, <1>5, <1>6, <1>7, Assemble DEF Inv

LEMMA FinishInv == Inv /\ Finish => Inv'
  <1> SUFFICES ASSUME Inv, Finish PROVE Inv'
    OBVIOUS
  <1>1. /\ case \in Cases /\ k' = k /\ pc = "maps" /\ pc' = "done" /\ snap' = snap
        /\ case' = case /\ mem' = mem /\ exe' = exe /\ criu' = criu
        /\ maps' = maps /\ shuffled' = shuffled /\ todo' = todo /\ todo = {}
    BY DEF Inv, Finish
  <1>2. MemOK(mem', snap', todo', pc', shuffled', k')
    BY <1>1 DEF Inv, MemOK, Applied
  <1>3. SteadyOK(todo', pc', shuffled', k') /\ TodoOK(todo', pc', shuffled', k')
    BY <1>1, ZenonT(30) DEF Inv, SteadyOK, TodoOK
  <1>4. MapsOK(maps', todo', pc', shuffled')
    BY <1>1 DEF Inv, MapsOK, Updated
  <1> QED
    BY <1>1, <1>2, <1>3, <1>4, Assemble DEF Inv

LEMMA StutterInv == Inv /\ UNCHANGED vars => Inv'
  <1> SUFFICES ASSUME Inv, UNCHANGED vars PROVE Inv'
    OBVIOUS
  <1>1. /\ k' = k /\ pc' = pc /\ snap' = snap /\ case' = case /\ mem' = mem /\ exe' = exe /\ criu' = criu
        /\ maps' = maps /\ shuffled' = shuffled /\ todo' = todo
    BY DEF vars
  <1> QED
    BY <1>1, Assemble DEF Inv

-----------------------------------------------------------------------------
(* What the invariant says, and where an exception leaves it *)

LEMMA InvTypes == ASSUME Inv PROVE TypeOK
  <1>1. k \in 1..(Len(Stack) + 1) /\ pc \in {"frame", "pairs", "moves", "maps", "done", "raised"}
    BY DEF Inv
  <1>2. pc \in {"pairs", "moves"} => k \in Frames /\ snap = [c \in Cells |-> snap[c]]
    BY SMTT(30) DEF Inv, TodoOK, MemOK
  <1>3. pc \in {"frame", "done"} => todo = {}
    BY DEF Inv, TodoOK
  <1>4. ASSUME NEW f \in Funs, NEW t \in shuffled[f]
        PROVE /\ \E i \in DOMAIN Code(f) : Listed(f, i) /\ Code(f)[i].off = t[1] /\ Code(f)[i].size = t[3]
              /\ <<t[2], t[1], t[3]>> \in shuffled[f]
    <2>1. t[1] \in Movable(f, t[3]) /\ <<t[2], t[1], t[3]>> \in shuffled[f]
      BY DEF Inv, RecordsOK
    <2> QED
      BY <2>1 DEF Movable, Origin
  <1> QED
    BY <1>1, <1>2, <1>3, <1>4 DEF TypeOK

\* What reaches into a slot is no more than the slot.
Within(f, off, len) == \A n \in Sizes : \A o \in Movable(f, n) :
                           Meet(Run(off, len), Run(o, n)) => off = o /\ len <= n

\* What a reader that knows where a variable of frame j was sent finds there.
LEMMA ReadLemma ==
    ASSUME Inv, NEW j \in Frames, j < k, Stack[j].fun # 0, Sound(Stack[j].fun),
           NEW off \in Cells, NEW len \in Nat, Run(off, len) \subseteq Cells,
           Within(Stack[j].fun, off, len),
           NEW now, Sent(shuffled[Stack[j].fun], off, now), NEW d \in 0..(len - 1)
    PROVE mem[j][now + d] = <<j, off + d>>
  <1> DEFINE f == Stack[j].fun
             S == shuffled[f]
  <1>1. case \in Cases /\ f \in Funs /\ off \in Int
    BY CaseTypes, PlaceLemma
  <1>2. FrameOK(mem[j], j, S)
    BY ZenonT(30) DEF Inv, MemOK, Applied
  <1>3. \A t \in S : /\ t[3] \in Sizes /\ t[1] \in Movable(f, t[3]) /\ t[2] \in Movable(f, t[3])
                     /\ <<t[2], t[1], t[3]>> \in S
    BY <1>1, ZenonT(30) DEF Inv, RecordsOK
  <1>4. off \in Run(off, len) /\ off + d \in Run(off, len)
    BY <1>1 DEF Run
  <1>5. CASE \E t \in S : t[1] = off /\ t[2] = now
    <2>1. PICK t \in S : t[1] = off /\ t[2] = now
      BY <1>5
    <2>a. t[3] \in Sizes /\ t[1] \in Movable(f, t[3])
      BY <1>3, ZenonT(30)
    <2>2. t[3] \in Sizes /\ t[3] \in Nat \ {0} /\ t[1] \in Movable(f, t[3])
      BY <2>a DEF Sizes, DWord, QWord
    <2>3. off \in Run(t[1], t[3])
      BY <1>1, <2>1, <2>2 DEF Run
    <2>4. len <= t[3]
      BY <1>4, <2>1, <2>2, <2>3, SMTT(30) DEF Meet, Within
    <2>5. d \in 0..(t[3] - 1)
      BY <2>2, <2>4, SMTT(30)
    <2> QED
      BY <1>2, <2>1, <2>5, ZenonT(30) DEF FrameOK
  <1>6. CASE (\A t \in S : t[1] # off) /\ now = off
    <2>1. ASSUME NEW t \in S, off + d \in Run(t[2], t[3]) PROVE FALSE
      <3>1. off = t[2]
        BY <1>3, <1>4, <2>1, ZenonT(30) DEF Meet, Within
      <3>2. <<t[2], t[1], t[3]>> \in S /\ <<t[2], t[1], t[3]>>[1] = t[2]
        BY <1>3, SMTT(30)
      <3> QED
        BY <1>6, <3>1, <3>2
    <2> QED
      BY <1>2, <1>4, <1>6, <2>1 DEF FrameOK
  <1> QED
    BY <1>5, <1>6, SMTT(30) DEF Sent

LEMMA InvVariables == Inv => VariablesKept
  <1> SUFFICES ASSUME Inv, NEW j \in Frames, j < k, Stack[j].fun # 0, Sound(Stack[j].fun),
                      NEW i \in DOMAIN Code(Stack[j].fun), NEW d \in 0..(Code(Stack[j].fun)[i].len - 1)
               PROVE mem[j][Reaches(Stack[j].fun, i) + d] = <<j, Code(Stack[j].fun)[i].off + d>>
    BY DEF VariablesKept
  <1> DEFINE f == Stack[j].fun
             c == Code(f)[i]
  <1>1. case \in Cases /\ f \in Funs
    BY CaseTypes, PlaceLemma
  <1>2. c.off \in Cells /\ c.len \in Nat /\ Run(c.off, c.len) \subseteq Cells /\ c.page \in {"file", "dumped"}
    BY <1>1, CaseTypes, ZenonT(30) DEF Pages, Sound
  <1>3. \A n \in Sizes : \A o \in Movable(f, n) :
            Meet(Run(c.off, c.len), Run(o, n)) => Listed(f, i) /\ c.off = o /\ c.len <= n
    BY SlotWhole, ZenonT(30)
  <1>4. IF Listed(f, i) THEN Sent(shuffled[f], c.off, Reaches(f, i)) ELSE Reaches(f, i) = c.off
    BY <1>1, <1>2, ZenonT(30) DEF Inv, FileOK, Reaches, Pages
  <1>5. Sent(shuffled[f], c.off, Reaches(f, i))
    <2>1. CASE Listed(f, i)
      BY <1>4, <2>1, SMTT(30)
    <2>2. CASE ~Listed(f, i)
      <3>1. ASSUME NEW t \in shuffled[f] PROVE t[1] # c.off
        <4>a. t[3] \in Sizes /\ t[1] \in Movable(f, t[3])
          BY <1>1, ZenonT(30) DEF Inv, RecordsOK
        <4>1. t[3] \in Sizes /\ t[3] \in Nat \ {0} /\ t[1] \in Movable(f, t[3])
          BY <4>a DEF Sizes, DWord, QWord
        <4>2. c.off \in Int /\ c.len \in Nat \ {0}
          BY <1>1, CaseTypes
        <4>b. \A o \in Int, l \in Nat \ {0} : o \in Run(o, l)
          BY DEF Run
        <4>3. t[1] = c.off => c.off \in Run(c.off, c.len) /\ c.off \in Run(t[1], t[3])
          BY <4>1, <4>2, <4>b, SMTT(30)
        <4> QED
          BY <1>3, <2>2, <4>1, <4>3 DEF Meet
      <3> QED
        BY <1>4, <2>2, <3>1, SMTT(30) DEF Sent
    <2> QED
      BY <2>1, <2>2, ZenonT(30)
  <1>6. Within(f, c.off, c.len)
    BY <1>3, SMTT(30) DEF Within
  <1> DEFINE off == c.off
             len == c.len
             now == Reaches(f, i)
  <1>7. off \in Cells /\ len \in Nat /\ Run(off, len) \subseteq Cells /\ Within(f, off, len)
        /\ Sent(shuffled[f], off, now)
    BY <1>2, <1>5, <1>6, SMTT(30)
  <1> HIDE DEF off, len, now
  <1>8. \A e \in 0..(len - 1) : mem[j][now + e] = <<j, off + e>>
    BY <1>7, ReadLemma
  <1> QED
    BY <1>8 DEF off, len, now

\* An instruction that cannot be written has its place from the compiler, and is
\* one of those that aarch64 programs may have.
LEMMA RefusedLemma ==
    ASSUME NEW f \in Funs, NEW n \in {DWord, QWord}, NEW a \in Movable(f, n), NEW b \in Movable(f, n),
           Feasible(a, b), NEW S, \A t \in S : t[2] # a,
           NEW offs, NEW T \in SUBSET DOMAIN Code(f), CodeOK(offs, f, S, T),
           Refused(offs, f, a, b, T) # {}
    PROVE  ~Writable(f)
  <1>1. PICK i \in T : Listed(f, i) /\ offs[i] = a /\ ~Encodes(f, i, a, b)
    BY SMTT(30) DEF Refused, References
  <1>2. Sent(S, Code(f)[i].off, a)
    BY <1>1, SMTT(30) DEF CodeOK
  <1>3. i \in Origin(f, a)
    BY <1>1, <1>2, SMTT(30) DEF Sent, Origin
  <1>4. ~X86 /\ b \notin Code(f)[i].takes
    BY <1>1 DEF Encodes, Feasible
  <1> QED
    BY <1>3, <1>4 DEF Writable

\* The state that an exception leaves: what was passed is whole, and there is a
\* function that cannot be written.
Halted ==
    /\ pc = "raised" /\ case \in Cases /\ k \in 1..(Len(Stack) + 1)
    /\ RecordsOK(shuffled) /\ VariablesKept
    /\ \E f \in Funs : ~Writable(f)

\* A step that ends the command.
LEMMA HaltedNext ==
    ASSUME case' = case, case \in Cases, k' = k, k \in 1..(Len(Stack) + 1), pc' = "raised",
           RecordsOK(shuffled'), VariablesKept, NEW f \in Funs, ~Writable(f),
           \A j \in Frames : j < k /\ Stack[j].fun # 0 /\ Sound(Stack[j].fun) =>
               /\ mem'[j] = mem[j] /\ exe'[Stack[j].fun] = exe[Stack[j].fun]
               /\ criu'[Stack[j].fun] = criu[Stack[j].fun]
    PROVE  Halted'
  <1>1. RecordsOK(shuffled)' /\ Stack' = Stack /\ Funs' = Funs /\ Frames' = Frames
    BY Primed, Static
  <1>2. VariablesKept'
    <2> DEFINE Finds(j, g) == \A i \in DOMAIN Code(g) : \A d \in 0..(Code(g)[i].len - 1) :
                                  mem[j][Reaches(g, i) + d] = <<j, Code(g)[i].off + d>>
    <2>a. VariablesKept <=> \A j \in Frames : j < k /\ Stack[j].fun # 0 /\ Sound(Stack[j].fun)
                                               => Finds(j, Stack[j].fun)
      BY Zenon DEF VariablesKept
    <2>b. VariablesKept' <=> \A j \in Frames' : j < k' /\ Stack'[j].fun # 0 /\ Sound(Stack[j].fun)'
                                                 => Finds(j, Stack[j].fun)'
      BY Zenon DEF VariablesKept
    <2>c. ASSUME NEW j \in Frames, j < k, Stack[j].fun # 0, Sound(Stack[j].fun), NEW f1, f1 = Stack[j].fun
          PROVE  Finds(j, f1)'
      <3>1. Finds(j, f1)
        BY <2>a, <2>c
      <3>2. Code(f1)' = Code(f1)
        BY Static
      <3>3. mem'[j] = mem[j] /\ exe'[f1] = exe[f1] /\ criu'[f1] = criu[f1]
        BY <2>c
      <3>4. ASSUME NEW i PROVE Reaches(f1, i)' = Reaches(f1, i)
        BY <3>2, <3>3 DEF Reaches
      <3>5. ASSUME NEW i \in DOMAIN Code(f1), NEW d \in 0..(Code(f1)[i].len - 1)
            PROVE mem'[j][Reaches(f1, i)' + d] = <<j, Code(f1)[i].off + d>>
        <4>1. mem[j][Reaches(f1, i) + d] = <<j, Code(f1)[i].off + d>>
          BY <3>1, Zenon
        <4> QED
          BY <3>3, <3>4, <4>1, Zenon
      <3> QED
        BY <3>2, <3>5, SMTT(30)
    <2> HIDE DEF Finds
    <2>d. ASSUME NEW j \in Frames PROVE Sound(Stack[j].fun)' = Sound(Stack[j].fun)
      BY <1>1, StaticSound
    <2>e. ASSUME NEW j \in Frames, NEW f1, f1 = Stack[j].fun, Finds(j, f1)' PROVE Finds(j, Stack[j].fun)'
      BY <1>1, <2>e, SMTT(30)
    <2> QED
      BY <1>1, <2>b, <2>c, <2>d, <2>e
  <1>3. ~Writable(f)'
    <2>1. /\ X86' = X86 /\ Code(f)' = Code(f) /\ \A i : Listed(f, i)' = Listed(f, i)
          /\ \A n : Movable(f, n)' = Movable(f, n)
      BY Static, Zenon
    <2>2. \A o : Origin(f, o)' = Origin(f, o)
      BY <2>1 DEF Origin
    <2> SUFFICES ASSUME Writable(f)', ~X86 PROVE Writable(f)
      BY Zenon DEF Writable
    <2>3. case.funs[f].linked
      BY <2>1, ZenonT(30) DEF Writable
    <2>4. ASSUME NEW n \in {DWord, QWord}, NEW a \in Movable(f, n), NEW b \in Movable(f, n),
                 NEW i \in Origin(f, a)
          PROVE  b \in Code(f)[i].takes
      <3>1. a \in Movable(f, n)' /\ b \in Movable(f, n)' /\ i \in Origin(f, a)'
        BY <2>1, <2>2, Zenon
      <3>2. b \in Code(f)'[i].takes
        BY <2>1, <3>1, ZenonT(30) DEF Writable, DWord, QWord
      <3> QED
        BY <2>1, <3>2, Zenon
    <2> QED
      BY <2>3, <2>4, ZenonT(30) DEF Writable
  <1> QED
    BY <1>1, <1>2, <1>3, SMTT(30) DEF Halted

LEMMA SwapPairRaises == Inv /\ SwapPair /\ pc' = "raised" => Halted'
  <1> SUFFICES ASSUME Inv, SwapPair, pc' = "raised" PROVE Halted'
    OBVIOUS
  <1>1. PICK p \in todo : \E a, b : Swap(p, a, b)
    BY SwapPairLemma
  <1>2. PICK a, b : Swap(p, a, b)
    BY <1>1, SMTT(30)
  <1>3. /\ case' = case /\ k' = k /\ pc = "pairs" /\ case \in Cases /\ k \in Frames /\ Fun \in Funs
        /\ Sound(Fun) => Fun = Stack[k].fun
        /\ p.size \in Sizes /\ a \in Movable(Fun, p.size) /\ b \in Movable(Fun, p.size)
        /\ Feasible(a, b) /\ Feasible(b, a)
        /\ \A t \in shuffled[Fun] : t[1] # a /\ t[1] # b /\ t[2] # a /\ t[2] # b
        /\ RecordsOK(shuffled')
    BY <1>2, SwapFacts
  <1>4. ~Writable(Fun)
    <2> DEFINE S == shuffled[Fun]
               all == DOMAIN Code(Fun)
    <2>1. CodeOK(exe[Fun], Fun, S, all)
      BY <1>3, CaseTypes, ZenonT(30) DEF CodeOK, Inv, FileOK
    <2>2. CodeOK(criu[Fun], Fun, S, Dumped(Fun)) /\ Dumped(Fun) \in SUBSET all
      BY <1>3, ZenonT(30) DEF CodeOK, Inv, FileOK, Dumped
    <2>3. Refusals(Fun, a, b) # {}
      BY <1>2 DEF Swap
    <2> DEFINE R(offs, x, y, T) == Refused(offs, Fun, x, y, T) # {}
    <2>4. \/ R(exe[Fun], a, b, all) \/ R(criu[Fun], a, b, Dumped(Fun))
          \/ R(exe[Fun], b, a, all) \/ R(criu[Fun], b, a, Dumped(Fun))
      BY <2>3, SMTT(30) DEF Refusals
    <2>a. p.size \in {DWord, QWord} /\ all \in SUBSET DOMAIN Code(Fun)
      BY <1>3, ZenonT(30) DEF Sizes
    <2>b. (\A t \in S : t[2] # a) /\ (\A t \in S : t[2] # b)
      BY <1>3, ZenonT(30)
    <2>5. p.size \in {DWord, QWord} /\ (\A t \in S : t[2] # a) /\ (\A t \in S : t[2] # b)
          /\ all \in SUBSET DOMAIN Code(Fun)
      BY <2>a, <2>b, Zenon
    <2>6. ASSUME NEW offs, NEW T \in SUBSET all, CodeOK(offs, Fun, S, T), R(offs, a, b, T) \/ R(offs, b, a, T)
          PROVE ~Writable(Fun)
      <3> DEFINE f == Fun
                 n == p.size
      <3>1. /\ f \in Funs /\ n \in {DWord, QWord} /\ a \in Movable(f, n) /\ b \in Movable(f, n)
            /\ Feasible(a, b) /\ Feasible(b, a) /\ CodeOK(offs, f, S, T) /\ T \in SUBSET DOMAIN Code(f)
        BY <1>3, <2>5, <2>6, Zenon
      <3>2. Refused(offs, f, a, b, T) # {} \/ Refused(offs, f, b, a, T) # {}
        BY <2>6, Zenon
      <3> HIDE DEF f, n, S, all, R
      <3>3. Refused(offs, f, a, b, T) # {} => ~Writable(f)
        BY <2>b, <3>1, RefusedLemma, SMTT(30), ZenonT(40)
      <3>4. Refused(offs, f, b, a, T) # {} => ~Writable(f)
        BY <2>b, <3>1, RefusedLemma, SMTT(30), ZenonT(40)
      <3> QED
        BY <3>2, <3>3, <3>4, Zenon DEF f
    <2> HIDE DEF S, all, R
    <2> QED
      BY <2>1, <2>2, <2>4, <2>5, <2>6, SMTT(30), ZenonT(40) DEF all
  <1>5. ASSUME NEW j \in Frames, j < k, Stack[j].fun # 0, Sound(Stack[j].fun)
        PROVE /\ mem'[j] = mem[j] /\ exe'[Stack[j].fun] = exe[Stack[j].fun]
              /\ criu'[Stack[j].fun] = criu[Stack[j].fun]
    <2>1. Stack[j].fun # Fun
      <3>1. SteadyOK(todo, pc, shuffled, k) /\ todo # {}
        BY SMTT(30) DEF Inv
      <3> QED
        BY <1>3, <1>5, <3>1 DEF SteadyOK
    <2>2. DOMAIN mem = Frames /\ DOMAIN exe = Funs /\ DOMAIN criu = Funs /\ Stack[j].fun \in Funs /\ j # k
      BY <1>3, <1>5, CaseTypes, PlaceLemma DEF Inv, MemOK, FileOK
    <2> QED
      BY <1>2, <2>1, <2>2, SMTT(30) DEF Swap
  <1>6. VariablesKept /\ k \in 1..(Len(Stack) + 1)
    BY InvVariables, PlaceLemma, SMTT(30)
  <1> QED
    BY <1>3, <1>4, <1>5, <1>6, HaltedNext

LEMMA UnknownCalleeRaises == Inv /\ UnknownCallee => Halted'
  <1> SUFFICES ASSUME Inv, UnknownCallee PROVE Halted'
    BY Zenon
  <1>1. /\ case' = case /\ k' = k /\ k \in Frames /\ pc' = "raised" /\ Stack[k].fun # 0 /\ case \in Cases
        /\ shuffled' = shuffled /\ mem' = mem /\ exe' = exe /\ criu' = criu
    BY SMTT(30) DEF UnknownCallee, Known, Inv
  <1>2. Fun \in Funs
    BY <1>1, CaseTypes, FirstLemma, SMTT(30) DEF Fun
  <1>3. ~Writable(Fun)
    BY SMTT(30) DEF UnknownCallee, Writable
  <1>4. VariablesKept /\ k \in 1..(Len(Stack) + 1) /\ RecordsOK(shuffled')
    BY <1>1, InvVariables, PlaceLemma DEF Inv
  <1> QED
    BY <1>1, <1>2, <1>3, <1>4, HaltedNext

LEMMA HaltedStays == Halted /\ [Next]_vars => Halted'
  <1> SUFFICES ASSUME Halted, [Next]_vars PROVE Halted'
    BY Zenon
  <1>1. ~Next
    BY DEF Halted, Next, NewFunction, UnknownCallee, SwapPair, SeenFunction, MoveOne, NextFrame, StackMaps,
           UpdateMap, Finish
  <1>2. /\ case' = case /\ k' = k /\ pc' = pc /\ shuffled' = shuffled /\ mem' = mem
        /\ exe' = exe /\ criu' = criu
    BY <1>1 DEF vars
  <1>3. PICK f \in Funs : ~Writable(f)
    BY DEF Halted
  <1> QED
    BY <1>2, <1>3, HaltedNext DEF Halted

LEMMA HaltedTypes == Halted => TypeOK
  <1> SUFFICES ASSUME Halted PROVE TypeOK
    OBVIOUS
  <1>1. ASSUME NEW f \in Funs, NEW t \in shuffled[f]
        PROVE /\ \E i \in DOMAIN Code(f) : Listed(f, i) /\ Code(f)[i].off = t[1] /\ Code(f)[i].size = t[3]
              /\ <<t[2], t[1], t[3]>> \in shuffled[f]
    <2>1. t[1] \in Movable(f, t[3]) /\ <<t[2], t[1], t[3]>> \in shuffled[f]
      BY DEF Halted, RecordsOK
    <2> QED
      BY <2>1 DEF Movable, Origin
  <1> QED
    BY <1>1 DEF TypeOK, Halted

-----------------------------------------------------------------------------
(* Theorems *)

\* The invariant of the proofs holds of every run of stack_shuffle(), up to the
\* exception that may end it.
THEOREM ShuffleInvariant == Spec => [](Inv \/ Halted)
  <1>1. Inv /\ Next => Inv' \/ Halted'
    BY NewFunctionInv, SwapPairInv, SeenFunctionInv, MoveOneInv, NextFrameInv, StackMapsInv,
       UpdateMapInv, FinishInv, SwapPairRaises, UnknownCalleeRaises, Zenon DEF Next
  <1>2. Inv /\ [Next]_vars => Inv' \/ Halted'
    BY <1>1, StutterInv, Zenon
  <1> QED
    BY <1>2, HaltedStays, InitInv, PTL DEF Spec

\* The walk stays within the stack and every recorded move has its reverse.
THEOREM ShuffleTypes == Spec => []TypeOK
  <1>1. Inv \/ Halted => TypeOK
    BY InvTypes, HaltedTypes
  <1> QED
    BY <1>1, ShuffleInvariant, PTL

\* An exception ends the command only when some function of the program cannot be
\* written, which on x86-64 none is: the pairs that feasible_code_page() let
\* through, update_code_page() can write when their turn comes.
THEOREM RaisedOnlyUnwritable == Spec => [](pc = "raised" => \E f \in Funs : ~X86 /\ ~Writable(f))
  <1>1. Inv => pc # "raised"
    BY DEF Inv
  <1>2. Halted => \E f \in Funs : ~X86 /\ ~Writable(f)
    BY DEF Halted, Writable
  <1>3. Inv \/ Halted => (pc = "raised" => \E f \in Funs : ~X86 /\ ~Writable(f))
    BY <1>1, <1>2
  <1> QED
    BY <1>3, ShuffleInvariant, PTL

\* Each instruction finds in each frame that shuffle_all() has passed what it
\* found before, whether it is fetched from the dump or from the executable, also
\* when an exception has ended the command half way through a later frame.
THEOREM ShuffleKeepsVariables == Spec => []VariablesKept
  <1>1. Inv \/ Halted => VariablesKept
    BY InvVariables, SMTT(30) DEF Halted
  <1> QED
    BY <1>1, ShuffleInvariant, PTL

\* The live values that the stack maps name are where the maps name them.
THEOREM ShuffleKeepsLiveValues == Spec => []LiveValuesKept
  <1>1. Inv => LiveValuesKept
    <2> SUFFICES ASSUME Inv, pc = "done", NEW j \in Frames, Stack[j].fun # 0, Sound(Stack[j].fun),
                        Alone(Stack[j].fun), NEW m \in Values(Stack[j].fun), NEW d \in 0..(m.len - 1)
                 PROVE \E o \in Cells : /\ ToMap(Stack[j].fun, o) = maps[Stack[j].fun][m]
                                        /\ mem[j][o + d] = <<j, m.off + d>>
      BY ZenonT(30) DEF LiveValuesKept
    <2> DEFINE f == Stack[j].fun
    <2>1. case \in Cases /\ f \in Funs /\ j < k
      BY CaseTypes, PlaceLemma, SMTT(30)
    <2>2. m.off \in Cells /\ m.len \in Nat /\ Run(m.off, m.len) \subseteq Cells
      BY <2>1, CaseTypes, SMTT(30)
    <2>3. Within(f, m.off, m.len)
      BY SlotWhole DEF Within
    <2>4. PICK o \in Cells : Sent(shuffled[f], m.off, o) /\ maps[f][m] = ToMap(f, o)
      BY <2>1, ZenonT(30) DEF Inv, MapsOK, Updated
    <2>5. mem[j][o + d] = <<j, m.off + d>>
      <3> DEFINE off == m.off
                 len == m.len
      <3>1. /\ off \in Cells /\ len \in Nat /\ Run(off, len) \subseteq Cells /\ Within(f, off, len)
            /\ Sent(shuffled[f], off, o) /\ d \in 0..(len - 1)
        BY <2>2, <2>3, <2>4
      <3> HIDE DEF off, len
      <3>2. mem[j][o + d] = <<j, off + d>>
        BY <2>1, <3>1, ReadLemma, ZenonT(30)
      <3> QED
        BY <3>2, SMTT(30) DEF off
    <2> QED
      BY <2>4, <2>5
  <1>2. Halted => LiveValuesKept
    BY DEF Halted, LiveValuesKept
  <1>3. Inv \/ Halted => LiveValuesKept
    BY <1>1, <1>2
  <1> QED
    BY <1>3, ShuffleInvariant, PTL
=============================================================================
