SPECIFICATION Spec
CONSTANTS
    Retries = 2
    Last = 1
    Reliable <- MCReliable
    Jobs = {"a", "b", "block", "fee"}
    Sends <- MCSends
    Diardi = {"block"}
INVARIANT OneConnection
CHECK_DEADLOCK FALSE
