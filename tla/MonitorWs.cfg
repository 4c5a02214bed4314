\* Two pages that may reconnect; handlers, sends and the run of the event fail.
CONSTANTS
    page1 = page1
    page2 = page2
    event = event
    Browser <- TwoPages
    Event = {event}
    Faults = {"handler", "send", "run"}
    MaxVisits = 2
    MaxInbox = 1
SPECIFICATION FairSpec
INVARIANTS
    Registered
    PageCurrent
PROPERTIES
    ElementsGo
\* All is over.
CHECK_DEADLOCK FALSE
