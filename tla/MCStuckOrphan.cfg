SPECIFICATION Spec
CONSTANTS
    Block <- MCBlock
    hashGenesisBlock = "g"
    hashPrevBlock <- MCPrev
    Branch <- MCBranch
    BlockTrust <- MCTrust
    Tx <- MCTx
    vtx <- MCVtx
    vin <- MCVin
    vout <- MCVout
    Kernel = {}
    kernel <- MCKernel
    CoinbaseHeight <- MCCoinbaseHeight
    Malformed = {}
    TooLittleWork = {}
    Misplaced = {}
    Unconnectable = {}
    nCoinbaseMaturity = 1
    LAST_POW_BLOCK = 100
    MODIFIER_INTERVAL_SWITCH = 1
    CheckpointsMode = "STRICT"
    SignedCheckpoint = {}
    CrashPoints = {}
    MaxMasterKey = 1
    NoBlock = NoBlock
    NoTx = NoTx
    NoKernel = NoKernel
CHECK_DEADLOCK FALSE
INVARIANT OrphansHaveNoParent
