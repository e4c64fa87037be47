\* Three audits on one chain, a fork among the audited blocks.
CONSTANTS
    g = g
    s1 = s1
    s2 = s2
    p1 = p1
    y1 = y1
    s4 = s4
    s5 = s5
    p2 = p2
    x2 = x2
    f5 = f5
    f6 = f6
    s7 = s7
    p3 = p3
    d3 = d3
    Genesis = g
    NoBlock = NoBlock
    Unset = Unset
    Block <- MCBlock
    Parent <- MCParent
    Height <- MCHeight
    ChainWork <- MCWork
    PoA <- MCPoA
    Audits <- MCAudits
    LastPoW = 0
    StartPoA = 2
    MinAudited = 1
SPECIFICATION AuditSpec
INVARIANTS
    DecisionExact
    AuditedOnce
