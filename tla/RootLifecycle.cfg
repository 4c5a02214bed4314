\* Everything may fail; the provider that is stopped may have no method stop.
CONSTANTS
    github = github
    plugin = plugin
    static = static
    openstack = openstack
    Provider <- TwoProviders
    Service <- TwoServices
    HasCleanup = {plugin}
    Orders <- BothOrders
    Stoppable = {openstack}
    Faults = {"load", "start", "service"}
    MaxVersion = 1
SPECIFICATION FairSpec
INVARIANTS
    ExitIsOrderly
    AbandonedOnStartOnly
PROPERTIES
    StopCompletes
\* The process ends.
CHECK_DEADLOCK FALSE
