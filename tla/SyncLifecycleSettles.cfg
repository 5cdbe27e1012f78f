\* Every job ends and the timers of a stopped configuration die; one request at a time.
CONSTANTS
    Slot = {r1}
    Timer = {t1}
    Job = {j1}
    Run = {w1}
    Modes = {"MANUAL", "REALTIME", "SCHEDULED"}
    None = None
    MaxAttempts = 2
    MaxStalled = 1
    MaxStates = 1
    MaxErrors = 1
    MaxCrashes = 1
SPECIFICATION FairSpec
INVARIANT
    ActiveIffState
PROPERTIES
    JobsSettle
    StoppedTimersDie
\* The bounds on jobs, timers and rows end every behaviour.
CHECK_DEADLOCK FALSE
