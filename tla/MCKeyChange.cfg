SPECIFICATION Spec
CONSTANTS
    Block <- ValidBlock
    hashGenesisBlock = "g"
    hashPrevBlock <- MCPrev
    Branch <- MCBranch
    BlockTrust <- MCTrust
    Tx <- MCTx
    vtx <- MCVtx
    vin <- MCVin
    vout <- MCVout
    Kernel = {}
    kernel <- MCKernel
    CoinbaseHeight <- MCCoinbaseHeight
    Malformed = {}
    TooLittleWork = {}
    Misplaced = {}
    Unconnectable = {}
    nCoinbaseMaturity = 1
    LAST_POW_BLOCK = 100
    MODIFIER_INTERVAL_SWITCH = 1
    CheckpointsMode = "STRICT"
    SignedCheckpoint = {"a3"}
    CrashPoints <- PC
    MaxMasterKey = 2
    NoBlock = NoBlock
    NoTx = NoTx
    NoKernel = NoKernel
INVARIANT SyncCheckpointOfThisKey
