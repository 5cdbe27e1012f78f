\* Requests and a timer that trigger at the same time.
CONSTANTS
    Slot = {r1, r2}
    Timer = {t1}
    Job = {j1, j2}
    Run = {w1}
    Modes = {"REALTIME"}
    None = None
    MaxAttempts = 1
    MaxStalled = 0
    MaxStates = 1
    MaxErrors = 1
    MaxCrashes = 0
SPECIFICATION Spec
SYMMETRY Symmetry
INVARIANTS
    TypeOK
PROPERTIES
    ClearsOnlyDeadJobs
\* The bounds on jobs, timers and rows end every behaviour.
CHECK_DEADLOCK FALSE
