\* Two tables, a child of the other, both directions, ids 9, 10 and 11.
CONSTANTS
    t1 = t1
    t2 = t2
    k1 = k1
    k2 = k2
    Table <- ChildFirst
    Key = {k1}
    ForeignKeys <- ParentOfT2
    Bare = {t2}
    PageSize = 2
    FirstId = 8
    TextOrder <- DecimalOrder
    Configs <- BothWays
    Ops = {"upsert", "delete"}
    MaxWrites = 3
    MaxFaults = 1
SPECIFICATION FairSpec
INVARIANTS
    TypeOK
    MarkedIsApplied
    NoExchange
PROPERTIES
    ImplementsDelivery
    OnlyTablesOvertake
    Converges
