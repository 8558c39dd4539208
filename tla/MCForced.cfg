SPECIFICATION MinerSpec
CONSTANTS
    Block <- MCBlock
    hashGenesisBlock = "g"
    hashPrevBlock <- MCPrev
    Branch <- MCBranch
    BlockTrust <- MCTrust
    Tx <- MCTx
    vtx <- MCVtx
    vin <- MCVin
    vout <- MCVout
    Kernel = {"k"}
    kernel <- MCKernel
    CoinbaseHeight <- MCCoinbaseHeight
    Malformed = {}
    TooLittleWork = {}
    Misplaced = {}
    Unconnectable = {}
    nCoinbaseMaturity = 1
    LAST_POW_BLOCK = 100
    MODIFIER_INTERVAL_SWITCH = 1
    NonStandard = {}
    BadInputs = {}
    TooBig = {}
    MAX_ORPHAN_TRANSACTIONS = 0
    nTime <- MCTime
    Times = {1, 2}
    Skippable = {"w"}
    NoBlock = NoBlock
    NoTx = NoTx
    NoKernel = NoKernel
INVARIANT EveryOwnBlockConnects
