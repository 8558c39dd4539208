SPECIFICATION Spec
CONSTANTS
    Block <- StakeBlock
    hashGenesisBlock = "g"
    hashPrevBlock <- MCPrev
    Branch <- MCBranch
    BlockTrust <- MCTrust
    Tx <- MCTx
    vtx <- MCVtx
    vin <- MCVin
    vout <- MCVout
    Kernel = {"k1", "k2", "k3"}
    kernel <- MCKernel
    CoinbaseHeight <- MCCoinbaseHeight
    Malformed = {}
    TooLittleWork = {}
    Misplaced = {"o2"}
    Unconnectable = {}
    nCoinbaseMaturity = 1
    LAST_POW_BLOCK = 2
    MODIFIER_INTERVAL_SWITCH = 2
    CheckpointsMode = "STRICT"
    SignedCheckpoint = {}
    CrashPoints = {}
    MaxMasterKey = 1
    NoBlock = NoBlock
    NoTx = NoTx
    NoKernel = NoKernel
CHECK_DEADLOCK FALSE
INVARIANT DuplicateStakeHasChild
