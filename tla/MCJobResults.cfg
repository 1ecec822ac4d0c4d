SPECIFICATION FairSpec
CONSTANTS
    Workers = {w1, w2}
    MaxShares = 2
INVARIANTS ExactlyOnce WakeUpPending
PROPERTIES SharesDelivered MailboxSpec
CHECK_DEADLOCK FALSE
