\* Purge Now of one user meets the detached backups of another.
CONSTANTS
    c1 = c1  c2 = c2  u1 = u1  u2 = u2
    Backup = {b1,b2}
    Conn = {c1, c2}
    User = {u1, u2}
    Owner <- TwoOwners
    Schedule = {s1}
    Slot = {p1}
    Daily = Daily
    Unlimited = Unlimited
    None = None
    Days = {0}
    Counts = {0}
    Caps = {Unlimited}
    DefaultDays = 2
    EnvDays = 0
    EnvCount = 1
    MaxDay = 2
    MaxCrashes = 0
SPECIFICATION Spec
PROPERTIES
    PurgeIsOwn
CHECK_DEADLOCK FALSE
