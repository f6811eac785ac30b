\* Cancels and throwing releases racing the reaper around a crash.
SPECIFICATION Spec
CONSTANTS
    Agent = {a1}
    Issue = {i1}
    NoAgent = NoAgent
    NoIssue = NoIssue
    MaxRuns = 2
    MaxCrashes = 1
    GlobalMax = 1
    AgentMax = 1
    LockMode = "exclusive"
    Disturbance = {"cancel", "reap", "crash", "release_error"}
INVARIANT SeenOrphanRuns
PROPERTY ImplementsAdmission
\* The scheduler rests when nobody wakes it.
CHECK_DEADLOCK FALSE
