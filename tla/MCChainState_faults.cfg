\* Headers without data, a stake seen before, a failed checkpoint, disk errors that
\* end a step or an InvalidateBlock half way, blocks that turn out invalid, or no
\* longer pass CheckBlock when they are read back.
CONSTANTS
    g = g
    a1 = a1
    a2 = a2
    b1 = b1
    b2 = b2
    t1 = t1
    t2 = t2
    t3 = t3
    Genesis = g
    Nobody = Nobody
    NoBlock = NoBlock
    Thread = {t1, t2}
    Block <- MCBlock
    Parent <- MCSiblings
    Height <- MCSiblingsHeight
    ChainWork <- MCSiblingsWork
    Verdicts <- MCVerdicts
    Acceptances <- MCAcceptances
    DoubtfulVerdicts <- Damaged
    Doubtful = {a1, b1}
    HeaderOnly = {b1}
    ProofOfStake = {b2}
    Checkpoint = {a1}
    Invalidatable = {a1}
    Reconsiderable = {}
    SystemErrors = TRUE
    MaxRpc = 1
SPECIFICATION Spec
INVARIANTS
    LinkedIffAllData
    BestReachable
    CandidatesSound
    TargetSound
\* The node may run out of blocks to receive, with every branch failed.
CHECK_DEADLOCK FALSE
