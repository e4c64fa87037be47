\* The stored a1 no longer passes CheckBlock, which calls that a possible
\* corruption.
CONSTANTS
    g = g
    a1 = a1
    a2 = a2
    b1 = b1
    b2 = b2
    t1 = t1
    t2 = t2
    t3 = t3
    Genesis = g
    Nobody = Nobody
    NoBlock = NoBlock
    Thread = {t1}
    Block <- MCBlock
    Parent <- MCParent
    Height <- MCHeight
    ChainWork <- MCWork
    Verdicts <- MCVerdicts
    Acceptances <- MCAcceptances
    DoubtfulVerdicts <- Corrupt
    Doubtful = {a1}
    HeaderOnly = {}
    ProofOfStake = {}
    Checkpoint = {}
    Invalidatable = {}
    Reconsiderable = {}
    SystemErrors = FALSE
    MaxRpc = 0
SPECIFICATION FairSpec
PROPERTIES
    ActivationTerminates
