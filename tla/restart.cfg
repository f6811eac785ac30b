\* Two crashes between any two steps, the reaper running.
SPECIFICATION FairSpec
CONSTANTS
    Agent = {a1}
    Issue = {i1}
    NoAgent = NoAgent
    NoIssue = NoIssue
    MaxRuns = 3
    MaxCrashes = 2
    GlobalMax = 1
    AgentMax = 1
    LockMode = "exclusive"
    Disturbance = {"crash", "reap"}
INVARIANT OneSuccessor
PROPERTY RunningEnds
\* The scheduler rests when nobody wakes it.
CHECK_DEADLOCK FALSE
