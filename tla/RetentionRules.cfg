\* The daily sweep, an after-backup run or a purge, while schedules, caps and backups change.
CONSTANTS
    c1 = c1  c2 = c2  u1 = u1  u2 = u2
    Backup = {b1,b2}
    Conn = {c1}
    User = {u1}
    Owner <- OneOwner
    Schedule = {s1}
    Slot = {p1}
    Daily = Daily
    Unlimited = Unlimited
    None = None
    Days = {2}
    Counts = {0, 1}
    Caps = {1, Unlimited}
    DefaultDays = 2
    EnvDays = 0
    EnvCount = 0
    MaxDay = 3
    MaxCrashes = 0
SPECIFICATION Spec
SYMMETRY Symmetry
INVARIANTS
    TypeOK
    NeverTooSoon
CHECK_DEADLOCK FALSE
