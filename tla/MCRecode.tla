------------------------------- MODULE MCRecode -------------------------------
(***************************************************************************)
(* Dumps of a process with one and with two threads, to the other and to   *)
(* the same architecture, with each of the options of crit recode; with    *)
(* faults, and without for what must end well.                             *)
(***************************************************************************)
EXTENDS Recode

Request(arch, target, threads, noTransform, measure, faulty) ==
    [arch |-> arch, target |-> target, threads |-> threads, absent |-> {"timens"},
     noTransform |-> noTransform, measure |-> measure, sameMode |-> TRUE, faulty |-> faulty]

MCCases ==
    {Request(a, b, ts, n, m, f) : a \in {"x86_64", "aarch64"}, b \in {"x86_64", "aarch64"},
                                  ts \in {{Leader}, Threads}, n \in BOOLEAN, m \in BOOLEAN, f \in BOOLEAN}
    \cup {[Request("x86_64", "aarch64", {Leader}, FALSE, FALSE, FALSE) EXCEPT !.sameMode = FALSE]}
=============================================================================
