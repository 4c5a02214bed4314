------------------------------ MODULE MCVmHosts ------------------------------
(* An instance of VmHosts for TLC: an image and its child, which two jobs  *)
(* want at the same time.                                                  *)
EXTENDS VmHosts, TLC

CONSTANTS h1, h2, base, child, j1, j2

Parents == (base :> NoImage) @@ (child :> base)
Vms == (j1 :> 2) @@ (j2 :> 2)
Images == (<<j1, 1>> :> child) @@ (<<j1, 2>> :> child) @@ (<<j2, 1>> :> base) @@ (<<j2, 2>> :> child)

==============================================================================
