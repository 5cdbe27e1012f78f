\* Two records, one of them changed in both databases.
CONSTANTS
    t1 = t1
    t2 = t2
    k1 = k1
    k2 = k2
    Table <- ChildFirst
    Key = {k1}
    ForeignKeys <- ParentOfT2
    Bare = {}
    PageSize = 2
    FirstId = 8
    TextOrder <- DecimalOrder
    Configs <- OneAtATime
    Ops = {"upsert"}
    MaxWrites = 3
    MaxFaults = 0
SPECIFICATION FairSpec
PROPERTY PausesOnlyAffected
