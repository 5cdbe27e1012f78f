\* One small instance of each module; `focus' says which one moves.
CONSTANTS
    \* Sessions: a tab that makes two requests and one that makes one
    Tab = {1, 2}
    MaxCalls <- TwoAndOne
    MaxToken = 3
    MaxVersion = 2
    \* Passkeys
    Credential = {"k1", "k2"}
    Challenge = {"h1", "h2"}
    \* Lockout
    Ip = {"i1", "i2"}
    Attempts = 2
    LockTime = 2
    Window = 2
    Threshold = 2
    NotifyGap = 2
    MaxFlight = 1
    MaxNow = 6
    \* Mcp
    Caller = {"c1", "c2"}
    Approval = {"a1"}
    DailyCallLimit = 1
    ApprovalRequired = TRUE
    KeyScopes = {"write"}
    MaxDay = 2
    MaxServed = 5
    MaxRotations = 1
    \* Notifications
    SettingsTab = {"x", "y"}
    SecretField = {"smtpPass", "whatsappAccessToken"}
    LoadsEmpty = {"whatsappAccessToken"}
    TransporterTtl = 2
    MaxSecret = 2
    \* KeyRing
    Key = {"k1", "k2", "k3"}
    Row = {"r1", "r2"}
    \* AtRest
    Artifact = {"b1"}
    Saver = {"s1"}
    Use = {"u1"}
    MaxPass = 3
    \* Connections
    Conn = {"c1", "c2", "c3"}
    SshConn = {"c1"}
    Maker = {"m1", "m2"}
    Editor = {"e1"}
    Tunnel = {"t1", "t2"}
    SshHost = {"h1", "h2"}
    HostKey = {"k1", "k2", "k3"}
    KeysOf <- KeysOfHosts
    ConnectionLimit = 2
    BundleSize = 2
    \* ChangeCapture
    TrackConfig = {"g1", "g2"}
    TrackTable = {"a", "b"}
    Keyless = {"b"}
    IncludeTables <- Included
    CaptureLimit = 1
    Hour = 2
    MaxTicks = 2
    MaxChanges = 2
    \* SchemaCheck
    SchemaTable = {"t1"}
    CreateRequest = {"q1", "q2"}
    ColumnTypes <- Types
    \* TableOrder
    Tables <- FourTables
SPECIFICATION Spec
CONSTRAINT SmallEnough
INVARIANTS
    TypeOK
    TabsKeepGoing
    
    NeverLockedOut
    LimitsHold
    SecretsHold
    ArtifactKept
    PinIsOfTarget
    
    CreatedPasses
    ParentsFirst
\* Every module is bounded: its requests, its clock, its writes.
CHECK_DEADLOCK FALSE
