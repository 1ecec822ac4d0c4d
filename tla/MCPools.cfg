SPECIFICATION FairSpec
CONSTANTS
    Retries = 2
    Last = 1
    Reliable <- MCReliable
    Jobs = {"a", "b", "block", "fee"}
    Sends <- MCSends
    Diardi = {"block"}
INVARIANTS OneSession FirstPoolTried UserJobMined MinesForSomebody
CHECK_DEADLOCK FALSE
PROPERTIES BackupsRetired  DonationEnds
