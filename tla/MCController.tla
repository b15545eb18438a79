---------------------------- MODULE MCController ----------------------------
(***************************************************************************)
(* Lists of instructions of the types of test/config.json: its own list   *)
(* (run_and_infect, dump, transform, restore, all on x86-64), a migration  *)
(* to aarch64 and back, and one that goes to aarch64 again after that. The *)
(* file defines each type for one host; the trips need them for both.      *)
(***************************************************************************)
EXTENDS Controller

I(type, host, tgt) == [type |-> type, host |-> host, tgt |-> tgt]

There == <<I("run", "aarch64", "none"), I("run_and_infect", "x86-64", "none"), I("dump", "x86-64", "none"),
           I("transform", "x86-64", "aarch64"), I("copy_to_target", "x86-64", "aarch64")>>
Back == <<I("restore_and_infect", "aarch64", "none"), I("dump", "aarch64", "none"),
          I("transform", "aarch64", "x86-64"), I("copy_to_target", "aarch64", "x86-64")>>
Again == <<I("restore_and_infect", "x86-64", "none"), I("dump", "x86-64", "none"),
           I("transform", "x86-64", "aarch64"), I("copy_to_target", "x86-64", "aarch64")>>

\* The round trip between reliable hosts, and two trips when everything may fail.
RoundTrip == There \o Back \o <<I("restore", "x86-64", "none")>>
TwoTrips == There \o Back \o Again \o <<I("restore", "aarch64", "none")>>

ConfigList == <<I("run_and_infect", "x86-64", "none"), I("dump", "x86-64", "none"),
                I("transform", "x86-64", "aarch64"), I("restore", "x86-64", "none")>>

MCCases == {[program |-> ConfigList, faults |-> {"dump", "recode", "slow", "exit"}],
            [program |-> RoundTrip, faults |-> {"recode", "slow", "exit"}],
            [program |-> TwoTrips, faults |-> {"drop", "dump", "slow", "exit"}]}
NoFaults == {[program |-> TwoTrips, faults |-> {}]}
=============================================================================
