SPECIFICATION Spec
CONSTANTS
    Workers = {w1, w2}
    MaxShares = 2
INVARIANT HandlerExists
CHECK_DEADLOCK FALSE
