\* Two peers, none of them preferred; one block in transit from each.
CONSTANTS
    g = g
    a1 = a1
    a2 = a2
    a3 = a3
    b1 = b1
    p1 = p1
    p2 = p2
    Genesis = g
    NoPeer = NoPeer
    NoBlock = NoBlock
    Block <- MCBlock
    Parent <- MCParent
    Height <- MCHeight
    ChainWork <- MCWork
    Peer = {p1, p2}
    Preferred = {}
    Window = 2
    MaxInTransit = 1
    Indexed <- MCIndexed
    StoredAtStart <- MCStored
    Acceptances <- MCAcceptances
    Announced <- MCAnnounced
    MaxConnections = 3
SPECIFICATION FairSpec
INVARIANTS
    TypeOK
    DownloadsConsistent
    StallersOwe
    LastCommonFull
    TransitBounded
PROPERTIES
    SlotReleased
\* All connections may have been made and lost.
CHECK_DEADLOCK FALSE
