\* Comments of two agents on one issue, for one slot.
SPECIFICATION FairSpec
CONSTANTS
    Agent = {a1, a2}
    Issue = {i1}
    NoAgent = NoAgent
    NoIssue = NoIssue
    MaxRuns = 2
    MaxCrashes = 0
    GlobalMax = 1
    AgentMax = 1
    LockMode = "exclusive"
    Disturbance = {"comment", "fail"}
PROPERTY DeferredServed
PROPERTY QueuedLeaves
\* The scheduler rests when nobody wakes it.
CHECK_DEADLOCK FALSE
