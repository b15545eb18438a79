----------------------------- MODULE MCDebugger -----------------------------
(***************************************************************************)
(* Instances of Debugger: an address whose word holds no other instruction *)
(* start (a ten byte instruction), and one in the middle of short ones.    *)
(***************************************************************************)
EXTENDS Debugger

InsnsLong == {0, 2, 5, 8, 18, 21, 23}
InsnsShort == {0, 2, 5, 8, 10, 13, 16, 18}
InsnsArm == {0, 4, 8, 12, 16, 20, 24}
=============================================================================
