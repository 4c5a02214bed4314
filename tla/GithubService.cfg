\* Files with one or two matrices, right and wrong; two sign-ins.
CONSTANTS
    p1 = p1
    p2 = p2
    j1 = j1
    j2 = j2
    os = os
    nocloud = nocloud
    small = small
    large = large
    vm = vm
    node = node
    env = env
    noscript = noscript
    ann = ann
    ben = ben
    org = org
    s1 = s1
    s2 = s2
    r1 = r1
    r2 = r2
    Project <- TwoProjects
    Owner <- Owners
    OrgsStored = {org}
    Job <- TwoJobs
    Provider <- AllProviders
    Cluster <- AllClusters
    Machine <- AllMachines
    Script <- AllScripts
    Clusters <- OsClusters
    Scripts = {env}
    Files <- SomeFiles
    User = {ann, ben}
    State = {s1, s2}
    Request = {r1, r2}
SPECIFICATION Spec
SYMMETRY Alike
INVARIANTS
    ChangeRequestServed
    JobsRunnable
    ExchangedOnce
\* A file that is refused ends the daemon.
CHECK_DEADLOCK FALSE
