\* Two machines behind the jump host and one beside it.
CONSTANTS
    web = web
    db = db
    lone = lone
    jump = jump
    Script <- Three
    Jumped <- Two
    MaxConn = 3
    MaxTries = 1
SPECIFICATION FairSpec
INVARIANTS
    FlagMeansLive
    OneConnection
    TunnelUsed
    CommandOnOwn
PROPERTIES
    ScriptEnds
\* Every script has ended.
CHECK_DEADLOCK FALSE
