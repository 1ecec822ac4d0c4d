SPECIFICATION Spec
SYMMETRY Symmetry
CONSTANTS
    Workers = {w1, w2}
    Jobs = {j1, j2, j3, j4}
    j1 = j1
    j2 = j2
    j3 = j3
    j4 = j4
    s1 = s1
    s2 = s2
    Seeds = {s1, s2}
    DonateJobs = {}
    NoJob = NoJob
    NoSeed = NoSeed
    NoThreads = NoThreads
    SeedOf <- MCSeedOf
    L3 <- MCL3
    Configs = {"c1"}
    Commands = {"job", "pause", "enable", "stop", "reload"}
    MaxCommands = 3
INVARIANTS DatasetStable SequenceFresh CurrentJob ScratchpadFits
CHECK_DEADLOCK FALSE
