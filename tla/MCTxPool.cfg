\* Two branches of two blocks, six transactions, at most five records.
CONSTANTS
    g = g
    a1 = a1
    a2 = a2
    b1 = b1
    b2 = b2
    k1 = k1
    k2 = k2
    k3 = k3
    t1 = t1
    t2 = t2
    t3 = t3
    t4 = t4
    c = c
    d = d
    Genesis = g
    NoBlock = NoBlock
    Old = Old
    Block <- MCBlock
    Parent <- MCParent
    Height <- MCHeight
    ChainWork <- MCWork
    KeyImage = {k1, k2, k3}
    Spends <- MCSpends
    MaxRecords = 5
    Tx = {t1, t2, t3, t4, c, d}
    Images <- MCImages
    Ring <- MCRing
    Prevout <- MCPrevout
    Txs <- MCTxs
    MaxReorgDepth = 1
SPECIFICATION PoolSpec
INVARIANTS
    
    MainChainAnswerExact
    
    RecordsClean
    PoolFollowsChain
    
