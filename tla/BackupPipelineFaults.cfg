\* Two backups, one request at a time, one fault.
CONSTANTS
    b1 = b1  b2 = b2  c1 = c1  c2 = c2  u1 = u1  u2 = u2  q1 = q1  q2 = q2
    Backup = {b1, b2}
    Conn = {c1}
    User = {u1}
    Owner <- OneOwner
    Req = {q1}
    Sizes = {1}
    Unlimited = Unlimited
    Quotas = {1}
    None = None
    MaxAttempts = 2
    MaxStalled = 1
    MaxFaults = 1
SPECIFICATION Spec
SYMMETRY BackupSymmetry
INVARIANTS
    CompletedIsRestorable
PROPERTIES
    ImplementsCatalogue
CHECK_DEADLOCK FALSE
