--------------------------- MODULE MCGithubService ---------------------------
(* Instances of GithubService for TLC: one or two matrices, a job that may *)
(* name a provider, cluster, machine or script that does not exist, and    *)
(* another one that may be missing; two users, and an organisation with a  *)
(* stored token.                                                           *)
EXTENDS GithubService, TLC

CONSTANTS p1, p2, j1, j2, os, nocloud, small, large, vm, node, env, noscript,
          ann, ben, org, s1, s2, r1, r2

TwoProjects == {p1, p2}
Owners == p1 :> ann @@ p2 :> org
TwoJobs == {j1, j2}
AllProviders == {os, nocloud}
AllClusters == {small, large}
AllMachines == {vm, node}
AllScripts == {env, noscript}

\* The large cluster has both machines; the small one has one.
OsClusters == [p \in {os} |-> [c \in {small, large} |-> IF c = small THEN {vm} ELSE {vm, node}]]

Entry(p, c, m, s) == [provider |-> p, cluster |-> c, machine |-> m, script |-> s]
Good == Entry(os, large, node, env)
FirstJob == {Good, Entry(nocloud, large, node, env), Entry(os, small, node, env),
             Entry(os, large, node, noscript)}
JobTables == {[j \in {j1} |-> e] : e \in FirstJob}
             \union {[j \in {j1, j2} |-> IF j = j1 THEN e ELSE Good] : e \in FirstJob}

Lists(cr, push, closed) ==
    [t \in EventTypes |-> CASE t = "cr" -> cr [] t = "push" -> push [] OTHER -> closed]
AllLists == {Lists(<<>>, <<j1>>, <<>>), Lists(<<j1>>, <<>>, <<j1>>),
             Lists(<<j1, j2>>, <<>>, <<>>), Lists(<<j2, j2>>, <<j1>>, <<j2>>)}
Matrices == [projects : {<<p1>>, <<p1, p2>>, <<p2, p2>>}, lists : AllLists]

SomeFiles == [jobs : JobTables,
              matrices : {<<m>> : m \in Matrices} \union {<<m, n>> : m, n \in Matrices}]

Alike == Permutations({s1, s2}) \union Permutations({r1, r2})

==============================================================================
