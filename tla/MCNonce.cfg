SPECIFICATION FairSpec
CONSTANTS
    Threads = {t1, t2}
    Mask <- MCMask
    Counts = {1, 2}
    WordSize = 2
    TopBit = 4
    MaxEpoch = 1
    MaxCounter = 1
INVARIANTS GrantsDisjoint GrantsInMask ExhaustionPauses
PROPERTY CallsReturn
