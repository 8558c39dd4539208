------------------------------ MODULE BlockData ------------------------------
(***************************************************************************)
(* The blocks and transactions a BeonPush node may be sent, and what       *)
(* connecting or disconnecting one of them does to the transaction index.  *)
(*                                                                         *)
(* A block or a transaction is its hash.  What the code reads out of a     *)
(* deserialised CBlock or CTransaction is a constant function of the hash; *)
(* the checks whose outcome does not depend on the node's chain state      *)
(* (signatures, scripts, targets, timestamps, amounts) are constant sets   *)
(* of the blocks that fail them.                                           *)
(***************************************************************************)
EXTENDS Integers, Sequences, FiniteSets, FiniteSetsExt

CONSTANTS
    Block,              \* every block a peer may send, the genesis block included
    hashGenesisBlock,
    hashPrevBlock,      \* block -> its parent (undefined for genesis)
    Branch,             \* block -> the set of blocks reached through pprev, itself included
    BlockTrust,         \* block -> CBlockIndex::GetBlockTrust()
    Tx,                 \* every transaction
    vtx,                \* block -> sequence of its transactions
    vin,                \* transaction -> set of outpoints <<tx, n>> it spends; {} for a coinbase
    vout,               \* transaction -> number of its outputs
    Kernel,             \* the (prevout, nTime) pairs that name a stake
    kernel,             \* coinstake -> its kernel; NoKernel for any other transaction
    CoinbaseHeight,     \* coinbase -> the height pushed first in its scriptSig
    Malformed,          \* blocks that CheckBlock rejects
    TooLittleWork,      \* blocks whose target exceeds ComputeMinWork / ComputeMinStake
    Misplaced,          \* blocks whose target, time, finality or stake proof AcceptBlock rejects
    Unconnectable,      \* blocks whose scripts, sigops, fees or reward ConnectBlock rejects
    nCoinbaseMaturity,
    LAST_POW_BLOCK,
    MODIFIER_INTERVAL_SWITCH,
    NoBlock, NoTx, NoKernel

(* The blocks form a tree rooted at the genesis block. *)
ASSUME TreeAssumption ==
    /\ IsFiniteSet(Block)
    /\ hashGenesisBlock \in Block
    /\ NoBlock \notin Block
    /\ hashPrevBlock \in [Block \ {hashGenesisBlock} -> Block]
    /\ Branch \in [Block -> SUBSET Block]
    /\ Branch[hashGenesisBlock] = {hashGenesisBlock}
    /\ \A b \in Block \ {hashGenesisBlock} :
          /\ Branch[b] = Branch[hashPrevBlock[b]] \cup {b}
          /\ b \notin Branch[hashPrevBlock[b]]
    /\ \A b \in Block : hashGenesisBlock \in Branch[b]
    /\ \A b \in Block : \A c \in Branch[b] : Branch[c] \subseteq Branch[b]
    /\ \A b \in Block : \A a \in Branch[b] \ {b} :
          \E c \in Branch[b] \ {hashGenesisBlock} : hashPrevBlock[c] = a

ASSUME TxAssumption ==
    /\ NoTx \notin Tx
    /\ vtx \in [Block -> Seq(Tx)]
    /\ vout \in [Tx -> Nat]
    /\ vin \in [Tx -> SUBSET (Tx \X Nat)]
    /\ CoinbaseHeight \in [Tx -> Int]
    /\ NoKernel \notin Kernel
    /\ kernel \in [Tx -> Kernel \cup {NoKernel}]

(* What CheckBlock has verified of every block it lets through. *)
ASSUME WellFormedAssumption ==
    \A b \in Block \ Malformed :
        /\ Len(vtx[b]) > 0
        /\ \A i \in 1..Len(vtx[b]) : vin[vtx[b][i]] = {} <=> i = 1
        /\ \A i, j \in 1..Len(vtx[b]) : vtx[b][i] = vtx[b][j] => i = j

ASSUME ParameterAssumption ==
    /\ BlockTrust \in [Block -> Nat \ {0}]
    /\ Malformed \subseteq Block \ {hashGenesisBlock}
    /\ TooLittleWork \subseteq Block
    /\ Misplaced \subseteq Block
    /\ Unconnectable \subseteq Block
    /\ nCoinbaseMaturity \in Nat
    /\ LAST_POW_BLOCK \in Nat
    /\ MODIFIER_INTERVAL_SWITCH \in Nat

-----------------------------------------------------------------------------
(* The block tree. *)

nHeight == [b \in Block |-> Cardinality(Branch[b]) - 1]

nChainTrust[b \in Block] ==
    IF b = hashGenesisBlock THEN BlockTrust[b] ELSE nChainTrust[hashPrevBlock[b]] + BlockTrust[b]

(* The child of a on the way from a up to b, for a a proper ancestor of b. *)
Towards(a, b) == CHOOSE c \in Branch[b] \ {hashGenesisBlock} : hashPrevBlock[c] = a

TxsOf(b) == {vtx[b][i] : i \in 1..Len(vtx[b])}

IsCoinBase(t) == vin[t] = {}

IsCoinStake(t) == kernel[t] # NoKernel

IsProofOfStake(b) == Len(vtx[b]) > 1 /\ IsCoinStake(vtx[b][2])

GetProofOfStake(b) == IF IsProofOfStake(b) THEN kernel[vtx[b][2]] ELSE NoKernel

OutPoint == UNION {{t} \X (1..vout[t]) : t \in Tx}

-----------------------------------------------------------------------------
(* The transaction index.  A CTxIndex is the position of a transaction     *)
(* (the block that holds it) and, per output, the transaction that spends  *)
(* it.  It is kept flat in two functions:                                  *)
(*   d.pos[t]    the block of t, NoBlock when t has no entry;              *)
(*   d.spent[o]  the spender of output o, NoTx when o is unspent or        *)
(*               its transaction has no entry.                             *)

EmptyPos == [t \in Tx |-> NoBlock]

EmptySpent == [o \in OutPoint |-> NoTx]

(* BIP30: a block may not repeat a transaction that still has an unspent   *)
(* output.                                                                 *)
NoOverwrite(d, b) ==
    \A t \in TxsOf(b) :
        d.pos[t] # NoBlock => \A n \in 1..vout[t] : d.spent[<<t, n>>] # NoTx

(* FetchInputs: the block that holds the transaction of outpoint o, which  *)
(* is an earlier one of b (in mapQueuedChanges) or has an index entry.     *)
FetchInput(d, b, i, o) ==
    IF o[1] \in {vtx[b][j] : j \in 1..(i-1)} THEN b ELSE d.pos[o[1]]

(* Mutant of ConnectInput: the double-spend test is left out. *)
UncheckedConnectInput(d, b, i, o) == FetchInput(d, b, i, o) # NoBlock /\ o \in OutPoint

(* ConnectInputs for input o of the i-th transaction of b: mapQueuedChanges *)
(* shows the spends of the block's earlier transactions on top of the index. *)
ConnectInput(d, b, i, o) ==
    LET earlier == {vtx[b][j] : j \in 1..(i-1)}
        pos     == FetchInput(d, b, i, o)
    IN  /\ pos # NoBlock
        /\ o \in OutPoint
        /\ (IsCoinBase(o[1]) \/ IsCoinStake(o[1])) =>
              ~ (pos \in Branch[b] /\ nHeight[b] - nHeight[pos] < nCoinbaseMaturity)
        /\ \A t \in earlier : o \notin vin[t]
        /\ o[1] \notin earlier => d.spent[o] = NoTx

(* What CheckBlock verifies of the block alone: its size, times, merkle    *)
(* root, signature, proof of work, and the shape of its transactions.      *)
CheckBlock(b) == b \notin Malformed

ConnectBlockOK(d, b) ==
    /\ CheckBlock(b)
    /\ NoOverwrite(d, b)
    /\ \A i \in 1..Len(vtx[b]) : \A o \in vin[vtx[b][i]] : ConnectInput(d, b, i, o)
    /\ b \notin Unconnectable

SpendersIn(T, o) == {t \in T : o \in vin[t]}

ConnectPos(d, b) == [t \in Tx |-> IF t \in TxsOf(b) THEN b ELSE d.pos[t]]

ConnectSpent(d, b) ==
    [o \in OutPoint |->
        CASE SpendersIn(TxsOf(b), o) # {} -> CHOOSE t \in SpendersIn(TxsOf(b), o) : TRUE
          [] SpendersIn(TxsOf(b), o) = {} /\ o[1] \in TxsOf(b) -> NoTx
          [] OTHER -> d.spent[o]]

(* DisconnectInputs goes through vtx backwards: each input's previous      *)
(* transaction must still have an index entry.                             *)
DisconnectBlockOK(d, b) ==
    \A i \in 1..Len(vtx[b]) : \A o \in vin[vtx[b][i]] :
        /\ d.pos[o[1]] # NoBlock
        /\ \A j \in (i+1)..Len(vtx[b]) : vtx[b][j] # o[1]
        /\ o \in OutPoint

DisconnectPos(d, b) == [t \in Tx |-> IF t \in TxsOf(b) THEN NoBlock ELSE d.pos[t]]

(* Mutant of DisconnectSpent: the block's inputs stay marked as spent.     *)
ForgetfulDisconnectSpent(d, b) ==
    [o \in OutPoint |-> IF o[1] \in TxsOf(b) THEN NoTx ELSE d.spent[o]]

DisconnectSpent(d, b) ==
    [o \in OutPoint |->
        IF o[1] \in TxsOf(b) \/ SpendersIn(TxsOf(b), o) # {} THEN NoTx ELSE d.spent[o]]

-----------------------------------------------------------------------------
(* Reference definitions, which the code has no counterpart of. *)

(* The genesis block is never connected: its coinbase has no index entry.  *)
ChainTxs(b) == UNION {TxsOf(c) : c \in Branch[b] \ {hashGenesisBlock}}

(* The index that the chain ending in b must have: every transaction of    *)
(* the chain at its block, every outpoint with its spender in the chain.   *)
ChainPos(b) ==
    [t \in Tx |->
        IF t \in ChainTxs(b)
        THEN CHOOSE c \in Branch[b] \ {hashGenesisBlock} : t \in TxsOf(c)
        ELSE NoBlock]

ChainSpent(b) ==
    [o \in OutPoint |->
        IF SpendersIn(ChainTxs(b), o) # {}
        THEN CHOOSE t \in SpendersIn(ChainTxs(b), o) : TRUE
        ELSE NoTx]

(* The chain ending in b respects the rules of ConnectBlock: every input   *)
(* spends an output created before it in the chain, and matured when it is *)
(* a block reward; no output is spent twice; no transaction is repeated.   *)
Created(c, i, o) ==
    \E e \in Branch[c] \ {hashGenesisBlock} : \E j \in 1..Len(vtx[e]) :
        /\ vtx[e][j] = o[1]
        /\ e = c => j < i
        /\ (IsCoinBase(o[1]) \/ IsCoinStake(o[1])) => nHeight[c] - nHeight[e] >= nCoinbaseMaturity

ValidChain(b) ==
    LET chain == Branch[b] \ {hashGenesisBlock} IN
    /\ chain \cap (Malformed \cup Unconnectable) = {}
    /\ \A c \in chain : \A i \in 1..Len(vtx[c]) : \A o \in vin[vtx[c][i]] :
          /\ o \in OutPoint
          /\ Created(c, i, o)
    /\ \A c, e \in chain : \A i \in 1..Len(vtx[c]), j \in 1..Len(vtx[e]) :
          vin[vtx[c][i]] \cap vin[vtx[e][j]] # {} => c = e /\ i = j
    /\ \A c, e \in chain : TxsOf(c) \cap TxsOf(e) # {} => c = e
=============================================================================
