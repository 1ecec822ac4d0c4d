SPECIFICATION Spec
CONSTANTS
    Workers = {w1}
    Jobs = {j1, j2, j3, j4}
    j1 = j1
    j2 = j2
    j3 = j3
    j4 = j4
    s1 = s1
    s2 = s2
    Seeds = {s1, s2}
    DonateJobs = {j2}
    NoJob = NoJob
    NoSeed = NoSeed
    NoThreads = NoThreads
    SeedOf <- MCSeedOf
    L3 <- MCL3
    Configs = {"c1"}
    Commands = {"job", "pause", "enable", "reload"}
    MaxCommands = 3
INVARIANT QuietUnlessWanted
CHECK_DEADLOCK FALSE
