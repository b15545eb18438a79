---------------------------- MODULE MCStackShuffle ----------------------------
(***************************************************************************)
(* Small programs, some of them with what the command does not look for.   *)
(***************************************************************************)
EXTENDS StackShuffle

MCCells == -14..15
Instr(off, len, size, page) ==
    [off |-> off, len |-> len, size |-> size, blocks |-> {}, takes |-> MCCells, page |-> page]
\* The address of an object: listed as a Q-word on x86-64, not listed on aarch64.
Lea(off, len, size) == [Instr(off, len, size, "file") EXCEPT !.blocks = {off}]
Live(off, len) == [off |-> off, len |-> len]
Function(name, idx, size, code, live) ==
    [name |-> name, unit |-> 1, idx |-> idx, size |-> size, linked |-> TRUE, code |-> code, maps |-> live]
Frame(fun, depth) == [fun |-> fun, depth |-> depth]

\* Two D-words, two Q-words, one variable of both sizes, an array whose address
\* is taken, and a library on the stack between two frames.
Mixed == Function("mixed", 1, 12,
    <<Instr(-1, 1, 1, "file"), Instr(-2, 1, 1, "dumped"), Instr(-1, 1, 1, "dumped"),
      Instr(-4, 2, 2, "dumped"), Instr(-6, 2, 2, "file"), Instr(-8, 2, 2, "file"), Instr(-8, 1, 1, "file"),
      Lea(-11, 3, 2)>>,
    {Live(-2, 1), Live(-6, 2), Live(-8, 2), Live(-11, 3)})
\* Near and far D-words: a pair of one of each is not feasible.
Distant == Function("distant", 2, 8,
    <<Instr(-1, 1, 1, "dumped"), Instr(-2, 1, 1, "file"), Instr(-7, 1, 1, "file"), Instr(-8, 1, 1, "dumped")>>,
    {Live(-1, 1), Live(-8, 1)})
\* A D-word near and a D-word far: never a pair.
Stuck == Function("stuck", 3, 8, <<Instr(-1, 1, 1, "file"), Instr(-8, 1, 1, "file")>>, {Live(-8, 1)})
\* Four D-words, all near, and three Q-words of which one is.
Wide == Function("wide", 4, 12,
    <<Instr(-1, 1, 1, "dumped"), Instr(-2, 1, 1, "file"), Instr(-3, 1, 1, "file"), Instr(-4, 1, 1, "dumped"),
      Instr(-6, 2, 2, "file"), Instr(-8, 2, 2, "dumped"), Instr(-10, 2, 2, "file")>>,
    {Live(-3, 1), Live(-4, 1), Live(-10, 2)})
\* A byte next to the saved rbp that is taken for a Q-word.
Byte == Function("byte", 5, 4, <<Instr(-1, 1, 2, "file"), Instr(-4, 2, 2, "file")>>, {})
\* An element of an array that is also accessed by itself.
Element == Function("element", 6, 8,
    <<Lea(-6, 3, 2), Instr(-5, 1, 1, "file"), Instr(-1, 1, 1, "dumped")>>, {})
\* A structure of two D-words with one live value in the stack map.
Struct == Function("struct", 8, 8, <<Instr(-2, 1, 1, "file"), Instr(-1, 1, 1, "file")>>, {Live(-2, 2)})
\* A page of code that get_code_region() does not find.
Cut == Function("cut", 7, 8, <<Instr(-2, 1, 1, "cut"), Instr(-1, 1, 1, "dumped")>>, {})
\* A static function with the name of another.
Twin == Function("mixed", 10, 4, <<Instr(-1, 1, 1, "file"), Instr(-3, 1, 1, "file")>>, {Live(-1, 1)})

\* A function with the number of another in a later unit.
Later == [Function("later", 2, 8, <<Instr(-1, 1, 1, "file"), Instr(-2, 1, 1, "file")>>, {Live(-1, 1)})
              EXCEPT !.unit = 2]

\* aarch64: sp-relative, with a pair of registers saved at the end of the frame.
Arm == Function("arm", 9, 14,
    <<Instr(0, 1, 1, "file"), Instr(1, 1, 1, "dumped"), Instr(2, 2, 2, "dumped"), Instr(4, 2, 2, "file"),
      Instr(10, 4, 4, "file"), Lea(6, 3, 0)>>,
    {Live(1, 1), Live(4, 2), Live(6, 3)})
\* A pair of W registers, which counts as a Q-word and does not reach far, between
\* accesses that do.
Pair == Function("pair", 10, 14,
    <<Instr(0, 2, 2, "dumped"), [Instr(0, 2, 2, "dumped") EXCEPT !.takes = 0..4], Instr(0, 2, 2, "file"),
      Instr(2, 2, 2, "file"), Instr(6, 2, 2, "dumped"), Instr(8, 1, 1, "file"), Instr(9, 1, 1, "dumped")>>,
    {Live(2, 2), Live(9, 1)})
\* A call of a function without a symbol.
Unlinked == [Arm EXCEPT !.name = "unlinked", !.idx = 11, !.linked = FALSE]

Program(arch, funs, stack) == [arch |-> arch, funs |-> funs, stack |-> stack]

\* Every stack of up to three frames of these, a library or one of the four.
Depth == <<12, 8, 8, 12>>
Stacks == UNION {[1..n -> {Frame(0, 2)} \cup {Frame(f, Depth[f]) : f \in 1..4}] : n \in 1..3}

MCCases ==
    {Program("X86_64", <<Mixed, Distant, Stuck, Wide>>, s) : s \in Stacks}
    \cup {Program("X86_64", <<Mixed, Distant>>, <<Frame(1, 4), Frame(2, 8)>>),
          Program("X86_64", <<Distant, Later>>, <<Frame(1, 8), Frame(2, 8)>>),
          Program("X86_64", <<Byte, Element, Cut, Struct>>,
                  <<Frame(3, 4), Frame(1, 4), Frame(2, 8), Frame(4, 8)>>),
          Program("X86_64", <<Mixed, Twin>>, <<Frame(2, 4), Frame(1, 12)>>)}
    \cup {Program("AARCH64", <<Arm>>, <<Frame(1, 14), Frame(1, 14)>>),
          Program("AARCH64", <<Arm, Pair>>, <<Frame(1, 14), Frame(2, 14), Frame(2, 14), Frame(1, 14)>>),
          Program("AARCH64", <<Arm, Unlinked>>, <<Frame(1, 14), Frame(2, 14), Frame(1, 14)>>)}
=============================================================================
