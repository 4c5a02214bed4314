\* Clusters are refused, scripts raise, deletions fail, posts are lost; with logs-url and without.
CONSTANTS
    pr = pr
    custom = custom
    j1 = j1
    j2 = j2
    j3 = j3
    vm = vm
    db = db
    NoJob = NoJob
    Followed = {j1}
    Event <- TwoEvents
    Custom = {custom}
    Job <- Jobs
    EventOf <- Owner
    NumScripts <- Scripts
    VmName = {vm, db}
    ClusterVms <- OwnVms
    Faults = {"get_cluster", "run_script", "delete"}
SPECIFICATION FairReportSpec
INVARIANTS
    CleanupAfterJob
    OrphansFromFailedStartOnly
    FinishedMeansAll
    VerdictEarned
    PageFollowsEvents
    ReportTruthful
    VerdictShown
PROPERTIES
    EnvironmentIsOwn
    ImplementsContract
    EventEnds
    ClusterGivenBack
\* Every event ends and nobody emits another one.
CHECK_DEADLOCK FALSE
