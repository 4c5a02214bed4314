---------------------------- MODULE MCClusterPool ----------------------------
(* Instances of ClusterPool for TLC.                                       *)
EXTENDS ClusterPool, TLC

CONSTANTS r1, r2, r3, a, b, c, d, e, f, n1

ThreeRequests == {r1, r2, r3}
\* The two servers of r1 share a network.
OneNet == {n1}

\* One cluster of two servers, one of one, and one that exceeds two slots.
SixServers == {a, b, c, d, e, f}
LargeOwner == (a :> r1) @@ (b :> r1) @@ (c :> r2) @@ (d :> r3) @@ (e :> r3) @@ (f :> r3)
LargeTurn == (a :> 1) @@ (b :> 2) @@ (c :> 1) @@ (d :> 1) @@ (e :> 2) @@ (f :> 3)
LargeInterfaces ==
    (a :> {n1}) @@ (b :> {n1}) @@ (c :> {}) @@ (d :> {}) @@ (e :> {}) @@ (f :> {})

\* All three clusters fit into two slots.
FourServers == {a, b, c, d}
Owner == [s \in FourServers |-> LargeOwner[s]]
Place == [s \in FourServers |-> LargeTurn[s]]
Interfaces == [s \in FourServers |-> LargeInterfaces[s]]

==============================================================================
