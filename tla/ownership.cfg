\* Two agents compete for one issue and one slot; pauses, reassignments, failures.
SPECIFICATION Spec
CONSTANTS
    Agent = {a1, a2}
    Issue = {i1}
    NoAgent = NoAgent
    NoIssue = NoIssue
    MaxRuns = 2
    MaxCrashes = 0
    GlobalMax = 1
    AgentMax = 1
    LockMode = "exclusive"
    Disturbance = {"pause", "reassign", "done", "fail", "timer"}
SYMMETRY Symmetry
INVARIANT TypeOK
INVARIANT AdmissionCap
INVARIANT SlotsCovered
INVARIANT LockHasOwner
\* The scheduler rests when nobody wakes it.
CHECK_DEADLOCK FALSE
