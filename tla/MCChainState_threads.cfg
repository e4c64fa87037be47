\* Two fair threads activate, invalidate and reconsider; a2 and b2 tie, and a2
\* and b1 may turn out to be invalid.
CONSTANTS
    g = g
    a1 = a1
    a2 = a2
    b1 = b1
    b2 = b2
    t1 = t1
    t2 = t2
    t3 = t3
    Genesis = g
    Nobody = Nobody
    NoBlock = NoBlock
    Thread = {t1, t2}
    Block <- MCBlock
    Parent <- MCParent
    Height <- MCHeight
    ChainWork <- MCWork
    Verdicts <- MCVerdicts
    Acceptances <- MCAcceptances
    DoubtfulVerdicts <- Deterministic
    Doubtful = {a2, b1}
    HeaderOnly = {}
    ProofOfStake = {}
    Checkpoint = {}
    Invalidatable = {a1}
    Reconsiderable = {a1}
    SystemErrors = FALSE
    MaxRpc = 2
SPECIFICATION FairSpec
INVARIANTS
    TypeOK
    
    ActiveChainClean
    QuiescentBest
PROPERTIES
    OrderStable
    ActivationTerminates
\* The node may run out of blocks to receive, with every branch failed.
CHECK_DEADLOCK FALSE
