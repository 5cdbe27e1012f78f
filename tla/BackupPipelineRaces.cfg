\* Two backups of one connection, two requests at a time (a change of the quota among them), nothing fails.
CONSTANTS
    b1 = b1  b2 = b2  c1 = c1  c2 = c2  u1 = u1  u2 = u2  q1 = q1  q2 = q2
    Backup = {b1, b2}
    Conn = {c1}
    User = {u1}
    Owner <- OneOwner
    Req = {q1, q2}
    Sizes = {1, 2}
    Unlimited = Unlimited
    Quotas = {1, 2}
    None = None
    MaxAttempts = 2
    MaxStalled = 1
    MaxFaults = 0
SPECIFICATION Spec
SYMMETRY Symmetry
INVARIANTS
    TypeOK
    UsedWithinQuota
CHECK_DEADLOCK FALSE
