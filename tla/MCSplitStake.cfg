SPECIFICATION Spec
CONSTANTS
    nMaturity = 1
    nFunds = 1
    MaxTx = 4
    MaxBlocks = 4
CHECK_DEADLOCK FALSE
INVARIANT EverySpentCoinKnown
