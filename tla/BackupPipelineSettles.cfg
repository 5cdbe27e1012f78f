\* Liveness: one backup, two attempts, two faults.
CONSTANTS
    b1 = b1  b2 = b2  c1 = c1  c2 = c2  u1 = u1  u2 = u2  q1 = q1  q2 = q2
    Backup = {b1}
    Conn = {c1}
    User = {u1}
    Owner <- OneOwner
    Req = {q1}
    Sizes = {1}
    Unlimited = Unlimited
    Quotas = {1}
    None = None
    MaxAttempts = 2
    MaxStalled = 1
    MaxFaults = 2
SPECIFICATION FairSpec
INVARIANTS
    JobRowAgreement
    RunningIsOwned
PROPERTIES
    JobsSettle
CHECK_DEADLOCK FALSE
