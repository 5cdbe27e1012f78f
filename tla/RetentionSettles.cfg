\* What the rules select goes, whatever crashes or refuses.
CONSTANTS
    c1 = c1  c2 = c2  u1 = u1  u2 = u2
    Backup = {b1,b2}
    Conn = {c1}
    User = {u1}
    Owner <- OneOwner
    Schedule = {s1}
    Slot = {}
    Daily = Daily
    Unlimited = Unlimited
    None = None
    Days = {0, 1}
    Counts = {0, 1}
    Caps = {1, Unlimited}
    DefaultDays = 1
    EnvDays = 0
    EnvCount = 1
    MaxDay = 3
    MaxCrashes = 1
SPECIFICATION FairSpec
PROPERTIES
    SelectedGo
CHECK_DEADLOCK FALSE
