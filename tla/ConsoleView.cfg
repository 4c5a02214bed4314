\* One page that looks at two jobs, over two connections.
CONSTANTS
    unit = unit
    docs = docs
    NoJob = NoJob
    Job <- TwoJobs
    Faults = {"handler"}
    MaxVisits = 2
    MaxMessages = 2
SYMMETRY Interchangeable
SPECIFICATION Spec
INVARIANTS
    HearsWhatItShows
    EndedHearsNothing
\* All is over.
CHECK_DEADLOCK FALSE
