SPECIFICATION NonceSpec
SYMMETRY Symmetry
CONSTANTS
    Workers = {w1}
    Jobs = {u1, u2, d1}
    u1 = u1
    u2 = u2
    d1 = d1
    s1 = s1
    Seeds = {s1}
    DonateJobs = {d1}
    NoJob = NoJob
    NoSeed = NoSeed
    NoThreads = NoThreads
    SeedOf <- MCSeedOfRandomX
    L3 <- MCL3
    Configs = {"c1"}
    Commands = {"job", "enable", "stop"}
    MaxCommands = 3
    Reserve = 2
    Mask = 3
    MaxNonce = 5
INVARIANTS TwiceOnlyInRaces MaskKept
CHECK_DEADLOCK FALSE
