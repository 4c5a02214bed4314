---------------------------- MODULE MCConsoleView ----------------------------
(* An instance of ConsoleView for TLC: two jobs, which are interchangeable *)
(* (no property is a liveness property).                                   *)
EXTENDS ConsoleView, TLC

CONSTANTS unit, docs

TwoJobs == {unit, docs}
Interchangeable == Permutations(TwoJobs)

==============================================================================
