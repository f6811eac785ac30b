\* Activations that overtake one another inside the start lock.
SPECIFICATION Spec
CONSTANTS
    Agent = {a1}
    Issue = {i1}
    NoAgent = NoAgent
    NoIssue = NoIssue
    MaxRuns = 2
    MaxCrashes = 0
    GlobalMax = 1
    AgentMax = 1
    LockMode = "takeover"
    Disturbance = {"gate", "timer", "cancel_active"}
PROPERTY SpawnOnce
\* The scheduler rests when nobody wakes it.
CHECK_DEADLOCK FALSE
