---------------------------- MODULE MCGithubReport ----------------------------
(* An instance of GithubReport, and with it of JobEngine, for TLC: a pull  *)
(* request with two jobs and an operator's event.                          *)
EXTENDS GithubReport, TLC

CONSTANTS pr, custom, j1, j2, j3, vm, db

TwoEvents == {pr, custom}
Jobs == {j1, j2, j3}
Owner == (j1 :> pr) @@ (j2 :> pr) @@ (j3 :> custom)
Scripts == (j1 :> 2) @@ (j2 :> 1) @@ (j3 :> 0)
OneScript == (j1 :> 1) @@ (j2 :> 1) @@ (j3 :> 0)
OwnVms == (j1 :> {vm}) @@ (j2 :> {db}) @@ (j3 :> {})
SharedVms == (j1 :> {vm}) @@ (j2 :> {vm}) @@ (j3 :> {})

==============================================================================
