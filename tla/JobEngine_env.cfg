\* Two jobs of one pull request whose clusters both have a machine named vm.
CONSTANTS
    pr = pr
    custom = custom
    db = db
    j1 = j1
    j2 = j2
    j3 = j3
    vm = vm
    NoJob = NoJob
    Event <- TwoEvents
    Custom = {custom}
    Job <- Jobs
    EventOf <- Owner
    NumScripts <- OneScript
    VmName = {vm}
    ClusterVms <- SharedVms
    Faults = {}
    Followed = {}
SPECIFICATION ReportSpec
PROPERTIES
    EnvironmentIsOwn
CHECK_DEADLOCK FALSE
