\* Two workers and the master, three checks, two blocks.
CONSTANTS
    w1 = w1
    w2 = w2
    c1 = c1
    c2 = c2
    c3 = c3
    Master = m
    Worker = {w1, w2}
    Check = {c1, c2, c3}
    nBatchSize = 2
    MaxRounds = 2
SPECIFICATION FairSpec
INVARIANTS
    TypeOK
    IdleBetweenBlocks
    AnswerExact
PROPERTY WaitReturns
\* After the last block the master stays outside.
CHECK_DEADLOCK FALSE
