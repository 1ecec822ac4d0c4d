SPECIFICATION FairSpec
CONSTANTS
    Seeds = {s1, s2, s3}
    MaxRequests = 4
    NoSeed = NoSeed
INVARIANTS ReadyIsLatest PendingHasItem BuilderHasStorage
PROPERTIES NotReadyMeansPending RequestsAnswered ShutdownCompletes ServiceSpec
CHECK_DEADLOCK FALSE
