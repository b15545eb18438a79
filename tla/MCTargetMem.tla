----------------------------- MODULE MCTargetMem -----------------------------
(***************************************************************************)
(* Address spaces of an x86-64 and of an aarch64 process, to be converted  *)
(* to the other architecture. On x86-64 the stack comes before vvar and    *)
(* vdso, on aarch64 behind them, with mmap()ed data right below the vvar.  *)
(* The template of an x86-64 vdso lies inside the aarch64 address space.   *)
(***************************************************************************)
EXTENDS TargetMem

V(s, e, t) == [start |-> s, end |-> e, type |-> t]

FromX86 == <<V(1, 3, "code"), V(3, 5, "data"), V(6, 7, "data"), V(8, 11, "stack"),
             V(12, 14, "vvar"), V(14, 16, "vdso"), V(30, 31, "vsyscall")>>

FromArm == <<V(1, 3, "code"), V(3, 5, "data"), V(6, 7, "data"), V(14, 15, "data"),
             V(15, 16, "vvar"), V(16, 17, "vdso"), V(18, 21, "stack")>>

\* The same with a mapping where the x86-64 vdso should go.
FromArmTaken == <<V(1, 3, "code"), V(3, 5, "data"), V(10, 12, "data"), V(14, 15, "data"),
                  V(15, 16, "vvar"), V(16, 17, "vdso"), V(18, 21, "stack")>>

Text == [start |-> 1, end |-> 3]

ToArm(vs, optional) ==
    [arch |-> "aarch64", vmas |-> vs, optional |-> optional, sp |-> 9, text |-> Text,
     vdso |-> V(21, 22, "vdso"), vvar |-> V(20, 21, "vvar"), vsyscall |-> V(30, 31, "vsyscall")]

ToX86(vs, optional) ==
    [arch |-> "x86_64", vmas |-> vs, optional |-> optional, sp |-> 19, text |-> Text,
     vdso |-> V(11, 12, "vdso"), vvar |-> V(8, 11, "vvar"), vsyscall |-> V(30, 31, "vsyscall")]

MCCases == {ToArm(FromX86, {"vvar", "vsyscall"}), ToX86(FromArm, {"vvar", "vdso"}), ToX86(FromArmTaken, {})}
=============================================================================
