\* Three storages; hosts, commands, scripts, boots and deletions fail, a
\* command may be carried out all the same, and exist may err.
CONSTANTS
    h1 = h1
    h2 = h2
    base = base
    child = child
    j1 = j1
    j2 = j2
    NoHost = NoHost
    NoImage = NoImage
    Backends = {"zfs", "btrfs", "lxc"}
    Host = {h1, h2}
    Image = {base, child}
    Job = {j1, j2}
    Parent <- Parents
    VmImage <- Images
    NumVms <- Vms
    Bridged = {j1, j2}
    MaxContainers = 2
SPECIFICATION FairSpec
INVARIANTS
    ClonesWhatIsBuilt
    BridgesPrivate
    GivenBack
PROPERTIES
    JobsEnd
\* Every job is cleaned up and nobody comes back.
CHECK_DEADLOCK FALSE
