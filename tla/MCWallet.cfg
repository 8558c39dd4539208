SPECIFICATION Spec
CONSTANTS
    nMaturity = 1
    nFunds = 1
    MaxTx = 3
    MaxBlocks = 4
CHECK_DEADLOCK FALSE
INVARIANT CommitSucceeds
INVARIANT CoinsNotLost
INVARIANT SpentCoinsKnown
