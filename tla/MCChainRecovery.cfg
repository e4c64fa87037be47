SPECIFICATION Spec
CONSTANTS
    g = g
    a1 = a1
    a2 = a2
    b1 = b1
    b2 = b2
    og = og
    o1 = o1
    o2 = o2
    o3 = o3
    Block <- MCBlock
    Genesis <- g
    Parent <- MCParent
    Height <- MCHeight
    ChainWork <- MCChainWork
    Output <- MCOutput
    Creates <- MCCreates
    Spends <- MCSpends
INVARIANTS
    DiskChainWhole
    CoinsMatchBest
    ViewAtTip
PROPERTY
    ReplayMovesForward
