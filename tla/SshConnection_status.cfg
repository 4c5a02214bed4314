\* One machine behind the jump host.
CONSTANTS
    web = web
    db = db
    lone = lone
    jump = jump
    Script = {web}
    Jumped = {web}
    MaxConn = 4
    MaxTries = 1
SPECIFICATION Spec
INVARIANTS
    OkMeansExited
\* Every script has ended.
CHECK_DEADLOCK FALSE
