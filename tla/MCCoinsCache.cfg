\* Three transactions, two branches of two blocks; the database may refuse a
\* batch.
CONSTANTS
    g = g
    a1 = a1
    a2 = a2
    b1 = b1
    b2 = b2
    x1 = x1
    x2 = x2
    x3 = x3
    u = u
    v = v
    Genesis = g
    NoBlock = NoBlock
    NoView = NoView
    NoEntry = NoEntry
    Pruned = Pruned
    Absent = Absent
    Block <- MCBlock
    Parent <- MCParent
    Height <- MCHeight
    ChainWork <- MCWork
    TxId = {x1, x2, x3}
    Value = {u, v}
    CoinsAt <- MCCoinsAt
    DbErrors = TRUE
SPECIFICATION Spec
INVARIANTS
    TypeOK
    CachesSound
PROPERTIES
    OnlyRefusalCorrupts
    ImplementsStore
