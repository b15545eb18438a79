--------------------------- MODULE MCStackTransform ---------------------------
(***************************************************************************)
(* Threads of two and three frames. Pointers: every frame has a number x,  *)
(* a pointer p to an x or nowhere and a pointer q to a p or nowhere, in    *)
(* every order. Values: numbers of every size, arrays, registers, spills,  *)
(* temporaries, duplicates, values of the destination only.                *)
(***************************************************************************)
EXTENDS StackTransform

Slot(off) == [type |-> "slot", reg |-> "bp", off |-> off]
SpSlot(off) == [type |-> "slot", reg |-> "sp", off |-> off]
InReg(r) == [type |-> "reg", reg |-> r, off |-> 0]
Num(v) == <<"num", <<v>>>>

Value(alloca, ptr, size, s, d, val) ==
    [alloca |-> alloca, ptr |-> ptr, temp |-> FALSE, size |-> size, dsize |-> size, src |-> s, dst |-> d,
     sdups |-> 0, ddups |-> 0, val |-> val]
Variable(size, so, do, val) == Value(TRUE, FALSE, size, Slot(so), Slot(do), val)
Pointer(so, do, val) == Value(TRUE, TRUE, 8, Slot(so), Slot(do), val)
Spilled(size, so, do, val) == Value(FALSE, FALSE, size, Slot(so), Slot(do), val)

Thread(arch, frames, ends) ==
    [arch |-> arch, frames |-> frames, ends |-> ends, known |-> TRUE, missing |-> {}, transform |-> TRUE, moved |-> 0]
OfSize(s, d, vals) == [src |-> s, dst |-> d, vals |-> vals, archs |-> <<>>]

\* The place of x, p and q in an order.
Orders == {<<1, 2, 3>>, <<1, 3, 2>>, <<2, 1, 3>>, <<2, 3, 1>>, <<3, 1, 2>>, <<3, 2, 1>>}
XPQ(o, x, p, q) ==
    LET vs == <<Variable(4, -4, -20, Num(x)), Pointer(-16, -8, p), Pointer(-24, -16, q)>>
    IN  [i \in 1 .. 3 |-> vs[CHOOSE j \in 1 .. 3 : o[j] = i]]

\* The outer frame is larger than the inner one, or as large.
At(k, o, i) == <<"at", k, o[i], 0>>
PointersIn(o) ==
    {Thread("aarch64", <<OfSize(40, 48, XPQ(o, x, p1, q1)), OfSize(s2, 56, XPQ(o, x, p2, q2))>>, "first") :
        s2 \in {40, 72}, x \in {0, 7},
        p1 \in {Num(0), At(1, o, 1), At(2, o, 1)}, p2 \in {Num(5), At(2, o, 1)},
        q1 \in {Num(0), At(1, o, 2), At(2, o, 2)}, q2 \in {Num(5), At(2, o, 2)}}

\* An inner frame with values of every kind; its caller has an array, into which it
\* points from a register; a small frame; a last frame that shrinks or grows.
Arch(loc, gen, inst, type, reg, off, size) ==
    [loc |-> loc, gen |-> gen, inst |-> inst, type |-> type, reg |-> reg, off |-> off, size |-> size]

Kinds(arch, ends, grow, dups) ==
    Thread(arch,
        <<[src |-> 72, dst |-> 64,
           vals |-> <<Value(FALSE, FALSE, 8, InReg("a"), InReg("b"), Num(300)),
                      Value(FALSE, TRUE, 8, InReg("csr1"), InReg("a"), <<"at", 2, 1, 8>>),
                      [Spilled(1, -1, -4, Num(200)) EXCEPT !.ddups = dups, !.sdups = 1],
                      Spilled(2, -4, -8, Num(257)),
                      Spilled(4, -8, -12, Num(70000)),
                      Spilled(8, -16, -24, Num(11)),
                      [Spilled(8, -24, -32, Num(12)) EXCEPT !.temp = TRUE],
                      Value(TRUE, FALSE, 4, SpSlot(4), SpSlot(0), Num(13)),
                      Value(FALSE, FALSE, 8, Slot(-48), InReg("csr2"), Num(14))>>,
           archs |-> <<>>],
          [src |-> 80, dst |-> 80,
           vals |-> <<Variable(16, -16, -32, <<"num", <<21, 22>>>>),
                      Variable(12, -28, -48, <<"num", <<23, 24>>>>),
                      [Variable(24, -56, -64, <<"num", <<25, 26, 27>>>>) EXCEPT !.dsize = 8],
                      [Variable(2, -30, -2, Num(28)) EXCEPT !.ddups = dups],
                      Variable(1, -31, -3, Num(29))>>,
           archs |-> <<>>],
          [src |-> 48, dst |-> 48 + grow,
           vals |-> <<Variable(8, -8, -8, Num(31)), Value(FALSE, FALSE, 8, InReg("csr1"), Slot(-16), Num(32))>>,
           archs |-> <<>>]>>, ends)

WithArchs ==
    [Kinds("x86_64", "first", 0, 0) EXCEPT
        !.frames[2].archs = <<Arch(InReg("a"), TRUE, "Set", "constant", "a", 6, 8),
                              Arch(InReg("a"), TRUE, "Add", "reg", "a", 0, 8),
                              Arch(InReg("b"), FALSE, "Set", "indirect", "bp", -8, 8),
                              Arch(Slot(-12), TRUE, "Set", "constant", "a", 5, 8)>>]

Values3 == {Kinds(a, e, g, d) : a \in {"x86_64", "aarch64"}, e \in {"first", "unknown"}, g \in {-8, 0, 8}, d \in {0, 1}}

\* A pointer to its own frame beside a value that is not an alloca.
Spinning ==
    {Thread("aarch64", <<OfSize(48, 48, <<Variable(4, -4, -4, Num(7)), Pointer(-16, -16, <<"at", 1, 1, 0>>),
                                          [Spilled(8, -24, -24, Num(3)) EXCEPT !.sdups = d]>>)>>, "first") : d \in {0, 1}}

\* Without a transformation: one layout, registers that are saved by the called function.
\* The bytes above the frames are enough for a copy of them.
Common ==
    {[Thread(a, <<OfSize(48, 48, <<Variable(4, -4, -4, Num(7)), Value(FALSE, FALSE, 8, InReg("csr1"), InReg("csr1"), Num(41))>>),
                  OfSize(40, 40, <<Variable(8, -8, -8, Num(9))>>)>>, "unknown") EXCEPT !.transform = FALSE, !.moved = m] :
        a \in {"x86_64", "aarch64"}, m \in {-48, 0, 48}}

MCCases == UNION {PointersIn(o) : o \in Orders} \cup Values3 \cup {WithArchs} \cup Spinning \cup Common
           \cup {[Kinds("x86_64", "first", 0, 0) EXCEPT !.known = FALSE]}
           \cup {[Kinds("x86_64", "first", 0, 0) EXCEPT !.missing = {k}] : k \in {1, 3}}
=============================================================================
