SPECIFICATION Spec
CONSTANTS
    w1 = w1
    w2 = w2
    w3 = w3
    Writers <- TwoWriters
    Free = free
    MaxRows = 1

INVARIANT ChainIntact
CHECK_DEADLOCK FALSE
