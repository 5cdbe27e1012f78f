\* One small instance of each module; `focus' says which one moves.
CONSTANTS
    d1 = "d1"
    d2 = "d2"
    \* Drills, RestoreQueue
    Drill = {"d1", "d2"}
    MaxDrillCrashes = 2
    RestoreJob = {"d1", "d2"}
    MaxRestoreCrashes = 1
    \* Migrations
    MigWorker = {"w1"}
    TableOf <- TwoTables
    RowsOf <- ThreeRows
    Keyed = {"a"}
    Indexed = {}
    OldRow = "o"
    MigKinds <- Selections
    MaxStalls = 2
    \* Monitoring
    Pinged = {"p1"}
    Expecting = {"e1", "e2"}
    Storage = {}
    Users <- TwoUsers
    OwnerOf <- Owners
    CheckThrottle = 1
    ReAlert = 2
    MaxBeatFaults = 1
    \* EngineRuns
    EngineKinds <- AllKinds
    \* Export
    ExportTables <- TwoTables
    ExportRow = {"r1", "r2", "r3"}
    BatchSize = 2
    MaxAppWrites = 1
    \* Progress
    Page = {"p1"}
    Stream = {"s1", "s2"}
    Percents <- Reports
    BackupAttempts = 2
    MaxSseConnections = 1
    MaxReloads = 1
    \* SyncPage
    SyncTab = {"x"}
    SyncConn = {"c1", "c2"}
    MyConn = {"c1", "c2"}
    FormMode = {"MANUAL"}
    MaxCommands = 2
    MaxRunEnds = 1
    \* Schedules
    Cron = {"h", "d"}
    SchedReq = {"q1", "q2"}
    Firing = {"f1"}
    SchedAttempts = 3
    SchedStalls = 1
    MaxSchedEdits = 3
    MaxSchedFaults = 1
SPECIFICATION Spec
INVARIANTS
    TypeOK
    DoneIsWhole
    NothingLeaks
    EndsStand
    RefersToOwn
    TransitionsReported
PROPERTIES
    VerificationAgrees
    EverythingEnds
\* Every module is bounded: its crashes, its requests, its clock.
CHECK_DEADLOCK FALSE
