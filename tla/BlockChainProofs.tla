--------------------------- MODULE BlockChainProofs ---------------------------
(***************************************************************************)
(* Theorems about BlockChain for every tree of blocks, every crash point   *)
(* and every policy.                                                       *)
(***************************************************************************)
EXTENDS BlockChain, BlockDataProofs

(* The steps at which SetBestChain is running, and those after startup. *)
InSetBestChain == {"SetBestChain", "Reorganize", "Secondary", "NewBest"}
Running == Handler \cup {"idle"}
Loaded == Running \cup {"MasterKey", "ResetSync"}

(* What the handler's locals hold while it runs. *)
CallInv ==
    /\ vWorkQueue \in Seq(mapBlockIndex)
    /\ pc \in InSetBestChain \cup {"WriteSync"} =>
          /\ pindexNew \in mapBlockIndex \ {hashGenesisBlock}
          /\ caller # "none"
    /\ pc = "WriteSync" => caller # "AddToBlockIndex"
    /\ pc \in InSetBestChain \cup {"WriteSync"} /\ caller # "ProcessSync" => pblock \in mapBlockIndex
    /\ pc = "AcceptPending" => pblock \in mapBlockIndex
    /\ pc = "Reorganize" => pindexTip \in mapBlockIndex
    /\ pc = "Secondary" => pindexTip \in Branch[pindexNew]

(* Memory and database hold the same index and checkpoint after startup,   *)
(* and the best block and the checkpoint are in it.                        *)
IndexInv ==
    /\ db.index # {} => hashGenesisBlock \in db.index
    /\ db.sync # NoBlock => db.best # NoBlock
    /\ pc \in Loaded =>
          /\ mapBlockIndex = db.index
          /\ hashSyncCheckpoint = db.sync
          /\ db.best # NoBlock
          /\ db.sync # NoBlock
          /\ pindexBest \in mapBlockIndex
    /\ pc \in {"GenesisBest", "GenesisSync"} =>
          mapBlockIndex = {hashGenesisBlock} /\ db.index = {hashGenesisBlock}
    /\ pc \in {"GenesisSync"} =>
          pindexBest = hashGenesisBlock /\ db.best = hashGenesisBlock
    /\ pc \in {"down", "failed", "GenesisIndex"} => mapBlockIndex = {}
    /\ pc = "GenesisIndex" => db.index = {}
    /\ pc # "Reorganize" => txn = db
    /\ txn.index = db.index /\ txn.best = db.best /\ txn.sync = db.sync

(* A checkpoint on its way to become the current one descends from it. *)
CheckpointInv ==
    pc \in InSetBestChain \cup {"WriteSync"} /\ caller # "AddToBlockIndex"
        => hashSyncCheckpoint \in Branch[pindexNew]

(* With a block all its ancestors are indexed: what IndexClosed says of     *)
(* parents, in the form that an induction step needs.                       *)
BranchesIndexed(index) == \A b \in index : Branch[b] \subseteq index

IndInv ==
    /\ TypeOK
    /\ CallInv
    /\ IndexInv
    /\ CheckpointInv
    /\ IndexClosed
    /\ BranchesIndexed(db.index)

-----------------------------------------------------------------------------
(* The block tree. *)

(* The walk back from b in SetBestChain stops on b's branch. *)
LEMMA IntermediateFacts ==
    ASSUME NEW b \in Block
    PROVE  pindexIntermediate(b) \in Branch[b]
  <1> DEFINE ahead == {c \in Branch[b] \ {hashGenesisBlock} :
                          nChainTrust[hashPrevBlock[c]] > nChainTrust[pindexBest]}
             rest  == Branch[b] \ ahead
  <1>1. rest \in SUBSET Block /\ hashGenesisBlock \in rest
    BY TreeAssumption
  <1>2. \E c \in rest : \A e \in rest : nHeight[e] <= nHeight[c]
    <2> HIDE DEF rest
    <2> QED BY <1>1, HighestBlock
  <1>3. pindexIntermediate(b) \in rest
    BY <1>2 DEF pindexIntermediate
  <1>4. QED
    BY <1>3

-----------------------------------------------------------------------------
(* The database records. *)

(* Connecting or disconnecting a block changes the transaction index and   *)
(* hashNext only.                                                          *)
LEMMA ConnectedType ==
    ASSUME NEW d \in Database, NEW b \in Block \ {hashGenesisBlock},
           pnext \in [Block -> Block \cup {NoBlock}]
    PROVE  /\ Connected(d, b) \in Database
           /\ Connected(d, b).index = d.index
           /\ Connected(d, b).best = d.best
           /\ Connected(d, b).sync = d.sync
  <1>1. ConnectPos(d, b) \in [Tx -> Block \cup {NoBlock}]
    BY DEF ConnectPos, Database
  <1>2. ConnectSpent(d, b) \in [OutPoint -> Tx \cup {NoTx}]
    <2>1. d.spent \in [OutPoint -> Tx \cup {NoTx}]
      BY DEF Database
    <2>2. TxsOf(b) \subseteq Tx
      BY TxAssumption DEF TxsOf
    <2>3. \A o \in OutPoint : SpendersIn(TxsOf(b), o) # {} =>
             (CHOOSE t \in SpendersIn(TxsOf(b), o) : TRUE) \in Tx
      BY <2>2 DEF SpendersIn
    <2>4. QED
      BY <2>1, <2>3 DEF ConnectSpent
  <1>3. [d.next EXCEPT ![b] = pnext[b], ![hashPrevBlock[b]] = b] \in [Block -> Block \cup {NoBlock}]
    <2>1. d.next \in [Block -> Block \cup {NoBlock}] /\ pnext[b] \in Block \cup {NoBlock}
      BY DEF Database
    <2>2. QED
      BY <2>1
  <1>4. QED
    BY <1>1, <1>2, <1>3 DEF Connected, Database

LEMMA DisconnectedType ==
    ASSUME NEW d \in Database, NEW b \in Block \ {hashGenesisBlock}
    PROVE  /\ Disconnected(d, b) \in Database
           /\ Disconnected(d, b).index = d.index
           /\ Disconnected(d, b).best = d.best
           /\ Disconnected(d, b).sync = d.sync
  <1>1. DisconnectPos(d, b) \in [Tx -> Block \cup {NoBlock}]
    BY DEF DisconnectPos, Database
  <1>2. DisconnectSpent(d, b) \in [OutPoint -> Tx \cup {NoTx}]
    BY DEF DisconnectSpent, Database
  <1>3. [d.next EXCEPT ![hashPrevBlock[b]] = NoBlock] \in [Block -> Block \cup {NoBlock}]
    BY DEF Database
  <1>4. QED
    BY <1>1, <1>2, <1>3 DEF Disconnected, Database

(* Writing an invalid trust, a best block or a checkpoint keeps the rest. *)
LEMMA InvalidChainFoundType ==
    ASSUME NEW b \in Block, db \in Database, nBestInvalidTrust \in Trust, InvalidChainFound(b)
    PROVE  /\ db' \in Database /\ txn' = db'
           /\ nBestInvalidTrust' \in Trust
           /\ db'.index = db.index /\ db'.best = db.best /\ db'.sync = db.sync
  BY DEF InvalidChainFound, Commit, Database, Trust

(* Adding a block's record, or moving the best block, the checkpoint or    *)
(* the master key, writes the fields it names only.                        *)
LEMMA RecordTypes ==
    ASSUME NEW d \in Database, NEW b \in Block, NEW k \in 1..MaxMasterKey
    PROVE  /\ WriteBlockIndex(d, b) \in Database
           /\ WriteBlockIndex(d, b).index = d.index \cup {b}
           /\ WriteBlockIndex(d, b).best = d.best
           /\ WriteBlockIndex(d, b).sync = d.sync
           /\ [d EXCEPT !.best = b] \in Database
           /\ [d EXCEPT !.sync = b, !.syncKey = k] \in Database
           /\ [d EXCEPT !.key = k] \in Database
  <1>1. k \in 0..MaxMasterKey
    BY PolicyAssumption
  <1>2. /\ WriteBlockIndex(d, b) \in Database
        /\ WriteBlockIndex(d, b).index = d.index \cup {b}
        /\ WriteBlockIndex(d, b).best = d.best
        /\ WriteBlockIndex(d, b).sync = d.sync
    BY DEF WriteBlockIndex, Database
  <1>3. [d EXCEPT !.best = b] \in Database
    BY DEF Database
  <1>4. [d EXCEPT !.sync = b, !.syncKey = k] \in Database
    BY <1>1 DEF Database
  <1>5. [d EXCEPT !.key = k] \in Database
    BY <1>1 DEF Database
  <1>6. QED
    BY <1>2, <1>3, <1>4, <1>5

(* A work queue of indexed blocks stays one when the index grows. *)
LEMMA SeqMonotone ==
    ASSUME NEW S, NEW T, S \subseteq T, NEW q \in Seq(S)
    PROVE  q \in Seq(T)
  OBVIOUS

(* The empty database is a database. *)
LEMMA InitType == Init => db \in Database /\ txn \in Database
  BY PolicyAssumption DEF Init, Database, Trust, EmptyPos, EmptySpent

-----------------------------------------------------------------------------
(* The start and the end of the process. *)

(* The stake a block proves is a kernel, or none. *)
LEMMA StakeType ==
    ASSUME NEW b \in Block
    PROVE  GetProofOfStake(b) \in Kernel \cup {NoKernel}
  <1>1. CASE IsProofOfStake(b)
    <2>1. vtx[b] \in Seq(Tx) /\ Len(vtx[b]) > 1
      BY <1>1, TxAssumption DEF IsProofOfStake
    <2>2. vtx[b][2] \in Tx
      BY <2>1
    <2>3. QED
      BY <2>2, TxAssumption DEF GetProofOfStake
  <1>2. CASE ~ IsProofOfStake(b)
    BY <1>2 DEF GetProofOfStake
  <1>3. QED
    BY <1>1, <1>2

LEMMA InitInd == Init => IndInv
  <1> SUFFICES ASSUME Init PROVE IndInv
    OBVIOUS
  <1> USE DEF Init
  <1>1. TypeOK
    BY InitType, PolicyAssumption DEF TypeOK, Trust, PC
  <1>2. CallInv
    BY DEF CallInv, InSetBestChain
  <1>3. IndexInv
    BY DEF IndexInv, Loaded, Running, Handler
  <1>4. CheckpointInv
    BY DEF CheckpointInv, InSetBestChain
  <1>5. IndexClosed /\ BranchesIndexed(db.index)
    BY DEF IndexClosed, ParentsIndexed, BranchesIndexed, Handler
  <1>6. QED
    BY <1>1, <1>2, <1>3, <1>4, <1>5 DEF IndInv

LEMMA LoadBlockIndexInd == IndInv /\ LoadBlockIndex => IndInv'
  <1> SUFFICES ASSUME IndInv, LoadBlockIndex PROVE IndInv'
    OBVIOUS
  <1> USE DEF IndInv, LoadBlockIndex, indexVars, dbVars, orphanVars, callVars
  <1>1. TypeOK'
    BY StakeType, TreeAssumption, PolicyAssumption DEF TypeOK, Database, PC, Handler, Startup
  <1>2. CallInv'
    <2>1. mapBlockIndex = {}
      BY DEF IndexInv
    <2>2. vWorkQueue' \in Seq(mapBlockIndex')
      BY <2>1, SeqMonotone DEF CallInv
    <2>3. QED
      BY <2>2 DEF CallInv, InSetBestChain
  <1>3. IndexInv'
    BY TreeAssumption DEF TypeOK, Database, IndexInv, Loaded, Running, Handler
  <1>4. CheckpointInv'
    BY DEF CheckpointInv, InSetBestChain
  <1>5. IndexClosed' /\ BranchesIndexed(db.index)'
    BY TreeAssumption DEF TypeOK, Database, IndexClosed, ParentsIndexed, BranchesIndexed, IndexInv, Loaded, Running, Handler
  <1>6. QED
    BY <1>1, <1>2, <1>3, <1>4, <1>5

LEMMA GenesisIndexInd == IndInv /\ GenesisIndex => IndInv'
  <1> SUFFICES ASSUME IndInv, GenesisIndex PROVE IndInv'
    OBVIOUS
  <1> USE DEF IndInv, GenesisIndex, Commit, WriteBlockIndex, orphanVars, checkVars, callVars
  <1>1. TypeOK'
    <2>1. db' \in Database /\ txn' \in Database
      BY RecordTypes, TreeAssumption DEF TypeOK
    <2>2. QED
      BY <2>1, TreeAssumption DEF TypeOK, PC, Handler, Startup
  <1>2. CallInv'
    <2>1. mapBlockIndex = {}
      BY DEF IndexInv
    <2>2. vWorkQueue' \in Seq(mapBlockIndex')
      BY <2>1, SeqMonotone DEF CallInv
    <2>3. QED
      BY <2>2 DEF CallInv, InSetBestChain
  <1>3. IndexInv'
    BY TreeAssumption DEF TypeOK, Database, IndexInv, Loaded, Running, Handler
  <1>4. CheckpointInv'
    BY DEF CheckpointInv, InSetBestChain
  <1>5. IndexClosed' /\ BranchesIndexed(db.index)'
    BY TreeAssumption DEF TypeOK, Database, IndexClosed, ParentsIndexed, BranchesIndexed, IndexInv, Loaded, Running, Handler
  <1>6. QED
    BY <1>1, <1>2, <1>3, <1>4, <1>5

LEMMA GenesisBestInd == IndInv /\ GenesisBest => IndInv'
  <1> SUFFICES ASSUME IndInv, GenesisBest PROVE IndInv'
    OBVIOUS
  <1> USE DEF IndInv, GenesisBest, Commit, orphanVars, checkVars, callVars
  <1>1. TypeOK'
    BY StakeType, TreeAssumption, PolicyAssumption DEF TypeOK, Database, PC, Handler, Startup
  <1>2. CallInv'
    BY DEF CallInv, InSetBestChain
  <1>3. IndexInv'
    BY TreeAssumption DEF TypeOK, Database, IndexInv, Loaded, Running, Handler
  <1>4. CheckpointInv'
    BY DEF CheckpointInv, InSetBestChain
  <1>5. IndexClosed' /\ BranchesIndexed(db.index)'
    BY TreeAssumption DEF TypeOK, Database, IndexClosed, ParentsIndexed, BranchesIndexed, IndexInv, Loaded, Running, Handler
  <1>6. QED
    BY <1>1, <1>2, <1>3, <1>4, <1>5

LEMMA GenesisSyncInd == IndInv /\ GenesisSync => IndInv'
  <1> SUFFICES ASSUME IndInv, GenesisSync PROVE IndInv'
    OBVIOUS
  <1> USE DEF IndInv, GenesisSync, Commit, indexVars, orphanVars, callVars
  <1>1. TypeOK'
    <2>1. db' \in Database /\ txn' \in Database
      BY RecordTypes, TreeAssumption DEF TypeOK
    <2>2. QED
      BY <2>1, TreeAssumption DEF TypeOK, PC, Handler, Startup
  <1>2. CallInv'
    BY DEF CallInv, InSetBestChain
  <1>3. IndexInv'
    BY TreeAssumption DEF TypeOK, Database, IndexInv, Loaded, Running, Handler
  <1>4. CheckpointInv'
    BY DEF CheckpointInv, InSetBestChain
  <1>5. IndexClosed' /\ BranchesIndexed(db.index)'
    BY TreeAssumption DEF TypeOK, Database, IndexClosed, ParentsIndexed, BranchesIndexed, IndexInv, Loaded, Running, Handler
  <1>6. QED
    BY <1>1, <1>2, <1>3, <1>4, <1>5

LEMMA MasterKeyInd == IndInv /\ MasterKey => IndInv'
  <1> SUFFICES ASSUME IndInv, MasterKey PROVE IndInv'
    OBVIOUS
  <1> USE DEF IndInv, MasterKey, Commit, dbVars, indexVars, orphanVars, checkVars, callVars
  <1>1. TypeOK'
    <2>1. db' \in Database /\ txn' \in Database
      <3>1. db \in Database /\ txn \in Database /\ strMasterPubKey \in 1..MaxMasterKey
        BY DEF TypeOK
      <3>2. [db EXCEPT !.key = strMasterPubKey] \in Database
        BY <3>1, RecordTypes, TreeAssumption
      <3>3. QED
        BY <3>1, <3>2
    <2>2. QED
      BY <2>1, TreeAssumption DEF TypeOK, PC, Handler, Startup
  <1>2. CallInv'
    BY DEF CallInv, InSetBestChain
  <1>3. IndexInv'
    <2>1. /\ db'.index = db.index /\ db'.best = db.best /\ db'.sync = db.sync
          /\ txn' = db'
      BY DEF TypeOK, Database, IndexInv
    <2>2. QED
      BY <2>1 DEF IndexInv, Loaded, Running, Handler
  <1>4. CheckpointInv'
    BY DEF CheckpointInv, InSetBestChain
  <1>5. IndexClosed' /\ BranchesIndexed(db.index)'
    BY TreeAssumption DEF TypeOK, Database, IndexClosed, ParentsIndexed, BranchesIndexed, IndexInv, Loaded, Running, Handler
  <1>6. QED
    BY <1>1, <1>2, <1>3, <1>4, <1>5

LEMMA ResetSyncCheckpointInd == IndInv /\ ResetSyncCheckpoint => IndInv'
  <1> SUFFICES ASSUME IndInv, ResetSyncCheckpoint PROVE IndInv'
    OBVIOUS
  <1> USE DEF IndInv, ResetSyncCheckpoint, Commit, indexVars, orphanVars, callVars
  <1>1. TypeOK'
    <2>1. db' \in Database /\ txn' \in Database
      BY RecordTypes, TreeAssumption DEF TypeOK
    <2>2. QED
      BY <2>1, TreeAssumption DEF TypeOK, PC, Handler, Startup
  <1>2. CallInv'
    BY DEF CallInv, InSetBestChain
  <1>3. IndexInv'
    BY TreeAssumption DEF TypeOK, Database, IndexInv, Loaded, Running, Handler
  <1>4. CheckpointInv'
    BY DEF CheckpointInv, InSetBestChain
  <1>5. IndexClosed' /\ BranchesIndexed(db.index)'
    BY TreeAssumption DEF TypeOK, Database, IndexClosed, ParentsIndexed, BranchesIndexed, IndexInv, Loaded, Running, Handler
  <1>6. QED
    BY <1>1, <1>2, <1>3, <1>4, <1>5

LEMMA CrashInd == IndInv /\ Crash => IndInv'
  <1> SUFFICES ASSUME IndInv, Crash PROVE IndInv'
    OBVIOUS
  <1> USE DEF IndInv, Crash, InSetBestChain
  <1>1. TypeOK'
    BY DEF TypeOK, PC, Trust
  <1>2. CallInv'
    BY DEF CallInv, InSetBestChain
  <1>3. IndexInv'
    BY TreeAssumption DEF TypeOK, Database, IndexInv, Loaded, Running, Handler
  <1>4. CheckpointInv'
    BY DEF CheckpointInv, InSetBestChain
  <1>5. IndexClosed' /\ BranchesIndexed(db.index)'
    BY TreeAssumption DEF TypeOK, Database, IndexClosed, ParentsIndexed, BranchesIndexed, IndexInv, Loaded, Running, Handler
  <1>6. QED
    BY <1>1, <1>2, <1>3, <1>4, <1>5

LEMMA UpgradeInd == IndInv /\ Upgrade => IndInv'
  <1> SUFFICES ASSUME IndInv, Upgrade PROVE IndInv'
    OBVIOUS
  <1> USE DEF IndInv, Upgrade, dbVars, indexVars, orphanVars, checkVars, callVars
  <1>1. TypeOK'
    BY StakeType, TreeAssumption, PolicyAssumption DEF TypeOK, Database, PC, Handler, Startup
  <1>2. CallInv'
    BY DEF CallInv, InSetBestChain
  <1>3. IndexInv'
    BY TreeAssumption DEF TypeOK, Database, IndexInv, Loaded, Running, Handler
  <1>4. CheckpointInv'
    BY DEF CheckpointInv, InSetBestChain
  <1>5. IndexClosed' /\ BranchesIndexed(db.index)'
    BY TreeAssumption DEF TypeOK, Database, IndexClosed, ParentsIndexed, BranchesIndexed, IndexInv, Loaded, Running, Handler
  <1>6. QED
    BY <1>1, <1>2, <1>3, <1>4, <1>5

-----------------------------------------------------------------------------
(* ProcessBlock. *)

(* Adding a block whose parent is indexed, in whatever handler. *)
LEMMA AddToBlockIndexInd ==
    ASSUME IndInv, NEW b \in Block \ {hashGenesisBlock}, AddToBlockIndex(b),
           pc \in {"idle", "Orphans"},
           hashPrevBlock[b] \in mapBlockIndex,
           mapOrphanBlocks' \subseteq mapOrphanBlocks,
           setStakeSeenOrphan' \subseteq Kernel \cup {NoKernel},
           UNCHANGED <<nBestInvalidTrust, checkVars, strMasterPubKey, vWorkQueue>>
    PROVE  IndInv'
  <1> USE DEF IndInv, AddToBlockIndex, Commit, checkVars
  <1>0. pc \in Loaded /\ mapBlockIndex = db.index /\ db \in Database /\ strMasterPubKey \in 1..MaxMasterKey
    BY DEF Loaded, Running, Handler, IndexInv, TypeOK
  <1>1. /\ db' \in Database
        /\ txn' = db'
        /\ db'.index = db.index \cup {b}
        /\ db'.best = db.best
        /\ db'.sync = db.sync
    BY <1>0, RecordTypes
  <1>2. TypeOK'
    BY <1>0, <1>1, StakeType DEF TypeOK, PC, Handler
  <1>3. CallInv'
    <2>1. vWorkQueue' \in Seq(mapBlockIndex')
      BY SeqMonotone DEF CallInv
    <2>2. QED
      BY <2>1 DEF CallInv, InSetBestChain
  <1>4. IndexInv'
    BY <1>0, <1>1 DEF IndexInv, Loaded, Running, Handler
  <1>5. CheckpointInv'
    BY DEF CheckpointInv, InSetBestChain
  <1>6. BranchesIndexed(db.index)'
    <2>1. Branch[b] = Branch[hashPrevBlock[b]] \cup {b}
      BY TreeAssumption
    <2>2. QED
      BY <1>0, <1>1, <2>1 DEF BranchesIndexed
  <1>7. IndexClosed'
    BY <1>0, <1>1 DEF IndexClosed, ParentsIndexed, IndexInv, Handler
  <1>8. QED
    BY <1>2, <1>3, <1>4, <1>5, <1>6, <1>7

LEMMA ProcessBlockInd ==
    ASSUME IndInv, NEW b \in Block \ {hashGenesisBlock}, ProcessBlock(b)
    PROVE  IndInv'
  BY AddToBlockIndexInd DEF ProcessBlock, orphanVars, IndInv, TypeOK

LEMMA ProcessOrphanBlockInd ==
    ASSUME IndInv, NEW b \in Block \ {hashGenesisBlock}, ProcessOrphanBlock(b)
    PROVE  IndInv'
  <1> USE DEF IndInv, ProcessOrphanBlock, dbVars, indexVars, checkVars, callVars
  <1>1. TypeOK'
    BY StakeType DEF TypeOK
  <1>2. CallInv' /\ IndexInv' /\ CheckpointInv'
    BY DEF CallInv, IndexInv, CheckpointInv
  <1>3. IndexClosed' /\ BranchesIndexed(db.index)'
    BY DEF IndexClosed, ParentsIndexed, BranchesIndexed
  <1>4. QED
    BY <1>1, <1>2, <1>3

LEMMA AcceptOrphanInd ==
    ASSUME IndInv, NEW o \in Block, AcceptOrphan(o)
    PROVE  IndInv'
  <1>1. /\ o \in Block \ {hashGenesisBlock}
        /\ pc = "Orphans"
        /\ mapOrphanBlocks' \subseteq mapOrphanBlocks
        /\ setStakeSeenOrphan' \subseteq Kernel \cup {NoKernel}
    BY DEF IndInv, TypeOK, AcceptOrphan, LeaveHoldingArea, OrphansOf
  <1>2. CASE AcceptBlockOK(o)
    BY <1>1, <1>2, AddToBlockIndexInd DEF AcceptOrphan, AcceptBlockOK
  <1>3. CASE ~ AcceptBlockOK(o)
    <2> USE <1>3 DEF IndInv, AcceptOrphan, dbVars, indexVars, checkVars
    <2>1. TypeOK'
      BY <1>1 DEF TypeOK
    <2>2. CallInv' /\ IndexInv' /\ CheckpointInv'
      BY DEF CallInv, IndexInv, CheckpointInv
    <2>3. IndexClosed' /\ BranchesIndexed(db.index)'
      BY DEF IndexClosed, ParentsIndexed, BranchesIndexed
    <2>4. QED
      BY <2>1, <2>2, <2>3
  <1>4. QED
    BY <1>2, <1>3

-----------------------------------------------------------------------------
(* The ends of a handler, in a state of the invariant in which the         *)
(* database keeps its index, best block and checkpoint.                    *)
Returns ==
    \/ pc' = "idle" /\ vWorkQueue' = <<>>
    \/ pc' = "Orphans" /\ vWorkQueue' \in Seq(mapBlockIndex)

LEMMA ReturnInd ==
    ASSUME IndInv, TypeOK', Returns, pc \in Handler,
           UNCHANGED <<mapBlockIndex, pindexBest, hashSyncCheckpoint>>,
           db'.index = db.index, db'.best = db.best, db'.sync = db.sync, txn' = db'
    PROVE  IndInv'
  <1> USE DEF IndInv, Returns
  <1>1. CallInv' /\ CheckpointInv'
    <2>1. <<>> \in Seq(mapBlockIndex)
      OBVIOUS
    <2>2. vWorkQueue' \in Seq(mapBlockIndex')
      BY <2>1
    <2>3. QED
      BY <2>2 DEF CallInv, CheckpointInv, InSetBestChain
  <1>2. IndexInv'
    BY DEF IndexInv, Loaded, Running, Handler
  <1>3. IndexClosed' /\ BranchesIndexed(db.index)'
    BY DEF IndexClosed, ParentsIndexed, BranchesIndexed, Handler
  <1>4. QED
    BY <1>1, <1>2, <1>3

LEMMA NextInWorkQueueInd == IndInv /\ NextInWorkQueue => IndInv'
  <1> SUFFICES ASSUME IndInv, NextInWorkQueue PROVE IndInv'
    OBVIOUS
  <1> USE DEF NextInWorkQueue, Idle, dbVars, indexVars, orphanVars, checkVars
  <1>1. Returns
    BY DEF Returns, IndInv, CallInv
  <1>2. TypeOK'
    <2>1. vWorkQueue' \in Seq(Block)
      <3>1. vWorkQueue \in Seq(Block) /\ vWorkQueue # <<>>
        BY DEF IndInv, TypeOK
      <3>2. Tail(vWorkQueue) \in Seq(Block) /\ <<>> \in Seq(Block)
        BY <3>1
      <3>3. QED
        BY <3>2
    <2>2. QED
      BY <2>1 DEF IndInv, TypeOK, PC
  <1>3. txn = db
    BY DEF IndInv, IndexInv
  <1>4. QED
    BY <1>1, <1>2, <1>3, ReturnInd DEF Handler

(* Queueing the accepted block keeps the work queue one of indexed blocks. *)
LEMMA QueueBlock ==
    ASSUME IndInv, pblock \in mapBlockIndex, AcceptBlockReturns
    PROVE  /\ Returns
           /\ vWorkQueue' \in Seq(Block)
           /\ pc' \in PC /\ caller' = "none"
           /\ pblock' = NoBlock /\ pindexNew' = NoBlock /\ pindexTip' = NoBlock
  <1>1. vWorkQueue \in Seq(mapBlockIndex) /\ mapBlockIndex \subseteq Block
    BY DEF IndInv, CallInv, TypeOK
  <1>2. Append(vWorkQueue, pblock) \in Seq(mapBlockIndex)
    BY <1>1
  <1>3. Append(vWorkQueue, pblock) \in Seq(Block)
    BY <1>1, <1>2, SeqMonotone
  <1>4. QED
    BY <1>2, <1>3 DEF AcceptBlockReturns, ToOrphanLoop, Returns, PC, Handler

(* SetBestChain fails, for whichever of its three callers. *)
LEMMA SetBestChainFailsInd ==
    ASSUME IndInv, pc \in InSetBestChain, SetBestChainFails(pindexNew),
           UNCHANGED <<indexVars, orphanVars, strMasterPubKey, hashSyncCheckpoint,
                       hashPendingCheckpoint>>
    PROVE  IndInv'
  <1> USE DEF indexVars, orphanVars
  <1>1. /\ pindexNew \in Block /\ pindexNew \in mapBlockIndex
        /\ caller # "ProcessSync" => pblock \in mapBlockIndex
        /\ db \in Database /\ nBestInvalidTrust \in Trust
        /\ vWorkQueue \in Seq(mapBlockIndex)
        /\ vWorkQueue \in Seq(Block)
    BY DEF IndInv, CallInv, TypeOK
  <1>2. /\ db' \in Database /\ txn' = db'
        /\ nBestInvalidTrust' \in Trust
        /\ db'.index = db.index /\ db'.best = db.best /\ db'.sync = db.sync
    BY <1>1, InvalidChainFoundType DEF SetBestChainFails
  <1>3. /\ Returns
        /\ vWorkQueue' \in Seq(Block)
        /\ pc' \in PC /\ caller' = "none"
        /\ pblock' = NoBlock /\ pindexNew' = NoBlock /\ pindexTip' = NoBlock
        /\ hashInvalidCheckpoint' \in Block \cup {NoBlock}
    <2>1. CASE caller = "AddToBlockIndex" /\ AcceptBlockFails /\ UNCHANGED hashInvalidCheckpoint
      <3>1. hashInvalidCheckpoint' \in Block \cup {NoBlock}
        BY <2>1 DEF IndInv, TypeOK
      <3>2. CASE vWorkQueue = <<>>
        BY <2>1, <3>1, <3>2 DEF AcceptBlockFails, Idle, Returns, PC
      <3>3. CASE vWorkQueue # <<>>
        BY <1>1, <2>1, <3>1, <3>3 DEF AcceptBlockFails, ToOrphanLoop, Returns, PC, Handler
      <3>4. QED
        BY <3>2, <3>3
    <2>2. CASE caller = "AcceptPending" /\ hashInvalidCheckpoint' = hashPendingCheckpoint
               /\ AcceptBlockReturns
      BY <1>1, <2>2, QueueBlock DEF IndInv, TypeOK
    <2>3. CASE caller = "ProcessSync" /\ hashInvalidCheckpoint' = pindexNew /\ Idle
      BY <1>1, <2>3 DEF Idle, Returns, PC
    <2>4. QED
      BY <2>1, <2>2, <2>3 DEF SetBestChainFails
  <1>4. TypeOK'
    BY <1>2, <1>3 DEF IndInv, TypeOK
  <1>5. pc \in Handler
    BY DEF InSetBestChain, Handler
  <1>6. QED
    BY <1>2, <1>3, <1>4, <1>5, ReturnInd

-----------------------------------------------------------------------------
(* SetBestChain. *)

(* What the invariant says of SetBestChain's argument. *)
LEMMA NewFacts ==
    ASSUME IndInv, pc \in InSetBestChain
    PROVE  /\ pindexNew \in Block \ {hashGenesisBlock}
           /\ Branch[pindexNew] \subseteq mapBlockIndex
           /\ pindexBest \in mapBlockIndex
           /\ mapBlockIndex = db.index
           /\ mapBlockIndex \subseteq Block
           /\ db \in Database /\ txn \in Database
           /\ pnext \in [Block -> Block \cup {NoBlock}]
           /\ strMasterPubKey \in 1..MaxMasterKey
  BY DEF IndInv, TypeOK, CallInv, IndexInv, BranchesIndexed, InSetBestChain, Loaded, Running, Handler

(* A step of SetBestChain that stays inside it and moves the database's    *)
(* best block to an indexed one at most.                                   *)
LEMMA SetBestChainStepInd ==
    ASSUME IndInv, pc \in InSetBestChain, pc' \in InSetBestChain,
           UNCHANGED <<mapBlockIndex, setStakeSeen, pindexBest, orphanVars, checkVars,
                       strMasterPubKey, caller, pblock, pindexNew, vWorkQueue>>,
           nBestInvalidTrust' \in Trust,
           pnext' \in [Block -> Block \cup {NoBlock}],
           db' \in Database, txn' \in Database,
           db'.index = db.index, db'.sync = db.sync, db'.best \in db.index,
           txn'.index = db.index, txn'.sync = db.sync, txn'.best = db'.best,
           pc' # "Reorganize" => txn' = db',
           pindexTip' \in Block \cup {NoBlock},
           pc' = "Reorganize" => pindexTip' \in mapBlockIndex,
           pc' = "Secondary" => pindexTip' \in Branch[pindexNew]
    PROVE  IndInv'
  <1> USE DEF IndInv, orphanVars, checkVars
  <1>1. TypeOK'
    BY DEF TypeOK, PC, Handler, InSetBestChain
  <1>2. CallInv'
    BY DEF CallInv, InSetBestChain
  <1>3. CheckpointInv'
    BY DEF CheckpointInv, InSetBestChain
  <1>4. NoBlock \notin db.index
    BY TreeAssumption DEF TypeOK, Database
  <1>5. IndexInv'
    BY <1>4 DEF IndexInv, InSetBestChain, Loaded, Running, Handler
  <1>6. IndexClosed' /\ BranchesIndexed(db.index)'
    BY DEF IndexClosed, ParentsIndexed, BranchesIndexed, IndexInv, InSetBestChain, Handler
  <1>7. QED
    BY <1>1, <1>2, <1>3, <1>5, <1>6

(* Connecting one block on top of the committed chain. *)
LEMMA ConnectTipFacts ==
    ASSUME IndInv, pc \in InSetBestChain, NEW b \in mapBlockIndex \ {hashGenesisBlock},
           ConnectTip(b)
    PROVE  /\ db' \in Database /\ txn' = db'
           /\ db'.index = db.index /\ db'.sync = db.sync /\ db'.best = b
           /\ pnext' \in [Block -> Block \cup {NoBlock}]
  <1>1. /\ b \in Block \ {hashGenesisBlock} /\ db \in Database
        /\ pnext \in [Block -> Block \cup {NoBlock}]
    BY NewFacts
  <1> DEFINE d == Connected(db, b)
  <1>2. d \in Database /\ d.index = db.index /\ d.sync = db.sync
    BY <1>1, ConnectedType
  <1>3. db' = [d EXCEPT !.best = b] /\ txn' = db'
    BY DEF ConnectTip, Commit
  <1>4. pnext' \in [Block -> Block \cup {NoBlock}]
    BY <1>1 DEF ConnectTip
  <1> HIDE DEF d
  <1>5. db' \in Database /\ db'.index = d.index /\ db'.sync = d.sync /\ db'.best = b
    BY <1>1, <1>2, <1>3 DEF Database
  <1>6. QED
    BY <1>2, <1>3, <1>4, <1>5

LEMMA ExtendBestChainInd == IndInv /\ ExtendBestChain => IndInv'
  <1> SUFFICES ASSUME IndInv, ExtendBestChain PROVE IndInv'
    OBVIOUS
  <1>1. pc \in InSetBestChain
    BY DEF ExtendBestChain, InSetBestChain
  <1>2. pindexNew \in mapBlockIndex \ {hashGenesisBlock}
    BY <1>1 DEF IndInv, CallInv
  <1>3. CASE ConnectBlockOK(db, pindexNew)
    <2>1. /\ ConnectTip(pindexNew) /\ pc' = "NewBest"
          /\ UNCHANGED <<nBestInvalidTrust, checkVars, callVars, mapBlockIndex, pindexBest,
                          setStakeSeen, orphanVars, strMasterPubKey>>
      BY <1>3 DEF ExtendBestChain
    <2>2. pindexTip' \in Block \cup {NoBlock} /\ nBestInvalidTrust' \in Trust
      BY <2>1 DEF IndInv, TypeOK, callVars
    <2>3. QED
      BY <1>1, <1>2, <2>1, <2>2, ConnectTipFacts, NewFacts, SetBestChainStepInd
         DEF callVars, InSetBestChain
  <1>4. CASE ~ ConnectBlockOK(db, pindexNew)
    BY <1>1, <1>4, SetBestChainFailsInd DEF ExtendBestChain, indexVars
  <1>5. QED
    BY <1>3, <1>4

LEMMA BeginReorganizeInd == IndInv /\ BeginReorganize => IndInv'
  <1> SUFFICES ASSUME IndInv, BeginReorganize PROVE IndInv'
    OBVIOUS
  <1> USE DEF BeginReorganize, dbVars, indexVars
  <1>1. pc \in InSetBestChain /\ pc' \in InSetBestChain
    BY DEF InSetBestChain
  <1>2. /\ nBestInvalidTrust' \in Trust
        /\ txn.index = db.index /\ txn.best = db.best /\ txn.sync = db.sync
        /\ db.best \in db.index
    BY <1>1 DEF IndInv, TypeOK, IndexInv, IndexClosed, InSetBestChain, Loaded, Running, Handler
  <1>3. QED
    BY <1>1, <1>2, NewFacts, SetBestChainStepInd

LEMMA DisconnectBlockInd == IndInv /\ DisconnectBlock => IndInv'
  <1> SUFFICES ASSUME IndInv, DisconnectBlock PROVE IndInv'
    OBVIOUS
  <1>1. pc \in InSetBestChain /\ pc = "Reorganize"
    BY DEF DisconnectBlock, InSetBestChain
  <1>2. pindexTip \in mapBlockIndex \ {hashGenesisBlock}
    <2>1. pindexTip \in mapBlockIndex
      BY <1>1 DEF IndInv, CallInv
    <2>2. pindexIntermediate(pindexNew) \in Block
      BY <1>1, NewFacts, IntermediateFacts
    <2>3. hashGenesisBlock \in Branch[pindexIntermediate(pindexNew)]
      BY <2>2, TreeAssumption
    <2>4. QED
      BY <2>1, <2>3 DEF DisconnectBlock
  <1>3. hashPrevBlock[pindexTip] \in mapBlockIndex
    BY <1>2 DEF IndInv, IndexClosed, ParentsIndexed
  <1>4. CASE DisconnectBlockOK(txn, pindexTip)
    <2>1. /\ txn' = Disconnected(txn, pindexTip)
          /\ pindexTip' = hashPrevBlock[pindexTip]
          /\ UNCHANGED <<db, nBestInvalidTrust, checkVars, pc, caller, pblock, pindexNew,
                          vWorkQueue, indexVars, orphanVars, strMasterPubKey>>
      BY <1>4 DEF DisconnectBlock
    <2>2. txn' \in Database /\ txn'.index = txn.index /\ txn'.best = txn.best /\ txn'.sync = txn.sync
      BY <1>1, <1>2, <2>1, NewFacts, DisconnectedType
    <2>3. /\ nBestInvalidTrust \in Trust
          /\ txn.index = db.index /\ txn.best = db.best /\ txn.sync = db.sync
          /\ db.best \in db.index
      BY <1>1 DEF IndInv, TypeOK, IndexInv, IndexClosed, InSetBestChain, Loaded, Running, Handler
    <2>4. QED
      BY <1>1, <1>3, <2>1, <2>2, <2>3, NewFacts, SetBestChainStepInd DEF indexVars
  <1>5. CASE ~ DisconnectBlockOK(txn, pindexTip)
    BY <1>1, <1>5, SetBestChainFailsInd DEF DisconnectBlock
  <1>6. QED
    BY <1>4, <1>5

LEMMA ConnectBlockInd == IndInv /\ ConnectBlock => IndInv'
  <1> SUFFICES ASSUME IndInv, ConnectBlock PROVE IndInv'
    OBVIOUS
  <1> DEFINE pindex == Towards(pindexTip, pindexIntermediate(pindexNew))
  <1>1. pc \in InSetBestChain /\ pc = "Reorganize"
    BY DEF ConnectBlock, InSetBestChain
  <1>2. pindex \in mapBlockIndex \ {hashGenesisBlock}
    <2>1. pindexIntermediate(pindexNew) \in Branch[pindexNew] /\ pindexNew \in Block
      BY <1>1, NewFacts, IntermediateFacts
    <2>2. /\ pindexIntermediate(pindexNew) \in Block
          /\ Branch[pindexIntermediate(pindexNew)] \subseteq Branch[pindexNew]
      BY <2>1, TreeAssumption
    <2>3. pindex \in Branch[pindexIntermediate(pindexNew)] \ {hashGenesisBlock}
      BY <2>2, TowardsFacts DEF ConnectBlock
    <2>4. QED
      BY <1>1, <2>2, <2>3, NewFacts
  <1> HIDE DEF pindex
  <1>3. CASE ConnectBlockOK(txn, pindex)
    <2>1. /\ txn' = Connected(txn, pindex)
          /\ pindexTip' = pindex
          /\ UNCHANGED <<db, nBestInvalidTrust, checkVars, pc, caller, pblock, pindexNew,
                          vWorkQueue, indexVars, orphanVars, strMasterPubKey>>
      BY <1>3 DEF ConnectBlock, pindex
    <2>2. txn' \in Database /\ txn'.index = txn.index /\ txn'.best = txn.best /\ txn'.sync = txn.sync
      BY <1>1, <1>2, <2>1, NewFacts, ConnectedType
    <2>3. /\ nBestInvalidTrust \in Trust
          /\ txn.index = db.index /\ txn.best = db.best /\ txn.sync = db.sync
          /\ db.best \in db.index
      BY <1>1 DEF IndInv, TypeOK, IndexInv, IndexClosed, InSetBestChain, Loaded, Running, Handler
    <2>4. QED
      BY <1>1, <1>2, <2>1, <2>2, <2>3, NewFacts, SetBestChainStepInd DEF indexVars
  <1>4. CASE ~ ConnectBlockOK(txn, pindex)
    BY <1>1, <1>4, SetBestChainFailsInd DEF ConnectBlock, pindex
  <1>5. QED
    BY <1>3, <1>4

LEMMA CommitReorganizeInd == IndInv /\ CommitReorganize => IndInv'
  <1> SUFFICES ASSUME IndInv, CommitReorganize PROVE IndInv'
    OBVIOUS
  <1>1. pc \in InSetBestChain /\ pc = "Reorganize" /\ pc' = "Secondary"
    BY DEF CommitReorganize, InSetBestChain
  <1>2. pindexTip \in Branch[pindexNew] /\ pindexTip \in mapBlockIndex /\ pindexTip \in Block
    BY <1>1, NewFacts, IntermediateFacts DEF CommitReorganize
  <1>3. pnext' \in [Block -> Block \cup {NoBlock}]
    <2> DEFINE vDisconnect == Branch[pindexBest] \ Branch[pindexTip]
               vConnect    == Branch[pindexTip] \ Branch[pindexBest]
    <2>1. vConnect \subseteq Block /\ pnext \in [Block -> Block \cup {NoBlock}]
      BY <1>1, <1>2, NewFacts, BranchFacts
    <2>2. \A b \in Block : (\E c \in vConnect : hashPrevBlock[c] = b) =>
             (CHOOSE c \in vConnect : hashPrevBlock[c] = b) \in Block
      BY <2>1
    <2>3. pnext' = [b \in Block |->
                       IF \E c \in vConnect : hashPrevBlock[c] = b
                       THEN CHOOSE c \in vConnect : hashPrevBlock[c] = b
                       ELSE IF \E c \in vDisconnect : hashPrevBlock[c] = b
                       THEN NoBlock
                       ELSE pnext[b]]
      BY DEF CommitReorganize
    <2> HIDE DEF vConnect, vDisconnect
    <2>4. QED
      BY <2>1, <2>2, <2>3
  <1>4. txn \in Database /\ txn.index = db.index /\ txn.sync = db.sync /\ nBestInvalidTrust \in Trust
    BY DEF IndInv, TypeOK, IndexInv
  <1>5. /\ db' \in Database /\ txn' = db'
        /\ db'.index = db.index /\ db'.sync = db.sync /\ db'.best = pindexTip
    BY <1>2, <1>4 DEF CommitReorganize, Commit, Database
  <1>6. mapBlockIndex = db.index /\ pc' \in InSetBestChain
    BY <1>1, NewFacts DEF InSetBestChain
  <1>7. QED
    BY <1>1, <1>2, <1>3, <1>4, <1>5, <1>6, SetBestChainStepInd DEF CommitReorganize, callVars

LEMMA ConnectSecondaryInd == IndInv /\ ConnectSecondary => IndInv'
  <1> SUFFICES ASSUME IndInv, ConnectSecondary PROVE IndInv'
    OBVIOUS
  <1> DEFINE pindex == Towards(pindexTip, pindexNew)
  <1>1. pc \in InSetBestChain /\ pc = "Secondary"
    BY DEF ConnectSecondary, InSetBestChain
  <1>2. /\ pindex \in mapBlockIndex \ {hashGenesisBlock}
        /\ pindex \in Branch[pindexNew]
        /\ pindex \in Block
    <2>1. pindexTip \in Branch[pindexNew] /\ pindexTip # pindexNew
      BY <1>1 DEF ConnectSecondary, IndInv, CallInv
    <2>2. QED
      BY <1>1, <2>1, NewFacts, TowardsFacts
  <1>3. /\ db \in Database /\ nBestInvalidTrust \in Trust /\ mapBlockIndex = db.index
        /\ pnext \in [Block -> Block \cup {NoBlock}]
        /\ db.best \in db.index
        /\ pindexTip \in Block \cup {NoBlock}
    BY <1>1 DEF IndInv, TypeOK, IndexInv, IndexClosed, Loaded, Running, Handler
  <1> HIDE DEF pindex
  <1>4. CASE ConnectBlockOK(db, pindex)
    <2>1. /\ ConnectTip(pindex) /\ pindexTip' = pindex
          /\ UNCHANGED <<nBestInvalidTrust, pc, mapBlockIndex, pindexBest, setStakeSeen,
                          orphanVars, checkVars, strMasterPubKey, caller, pblock, pindexNew,
                          vWorkQueue>>
      BY <1>4 DEF ConnectSecondary, pindex
    <2>2. QED
      BY <1>1, <1>2, <1>3, <2>1, ConnectTipFacts, SetBestChainStepInd
  <1>5. CASE ~ ConnectBlockOK(db, pindex)
    <2>1. /\ InvalidChainFound(pindex) /\ pc' = "NewBest"
          /\ UNCHANGED <<pnext, pindexTip, mapBlockIndex, pindexBest, setStakeSeen, orphanVars,
                          checkVars, strMasterPubKey, caller, pblock, pindexNew, vWorkQueue>>
      BY <1>5 DEF ConnectSecondary, pindex
    <2>2. /\ db' \in Database /\ txn' = db' /\ nBestInvalidTrust' \in Trust
          /\ db'.index = db.index /\ db'.best = db.best /\ db'.sync = db.sync
      BY <1>2, <1>3, <2>1, InvalidChainFoundType
    <2>3. QED
      BY <1>1, <1>3, <2>1, <2>2, SetBestChainStepInd DEF InSetBestChain
  <1>6. QED
    BY <1>4, <1>5

LEMMA NewBestInd == IndInv /\ NewBest => IndInv'
  <1> SUFFICES ASSUME IndInv, NewBest PROVE IndInv'
    OBVIOUS
  <1> USE DEF NewBest, dbVars, orphanVars, checkVars, callVars
  <1>1. pc \in InSetBestChain /\ pindexNew \in mapBlockIndex
    BY DEF InSetBestChain, IndInv, CallInv
  <1>2. TypeOK'
    BY <1>1 DEF IndInv, TypeOK, PC, Handler
  <1>3. CallInv' /\ CheckpointInv'
    BY <1>1 DEF IndInv, CallInv, CheckpointInv, TypeOK, InSetBestChain
  <1>4. IndexInv'
    BY <1>1 DEF IndInv, IndexInv, InSetBestChain, Loaded, Running, Handler
  <1>5. IndexClosed' /\ BranchesIndexed(db.index)'
    BY <1>1 DEF IndInv, IndexClosed, ParentsIndexed, BranchesIndexed, InSetBestChain, Handler
  <1>6. QED
    BY <1>2, <1>3, <1>4, <1>5 DEF IndInv

-----------------------------------------------------------------------------
(* Synchronized checkpoints. *)

(* A checkpoint that ValidateSyncCheckpoint lets through descends from the *)
(* current one and is not the genesis block.                               *)
LEMMA ValidatedCheckpoint ==
    ASSUME NEW h \in Block, hashSyncCheckpoint \in Block, ValidateSyncCheckpoint(h) = "yes"
    PROVE  hashSyncCheckpoint \in Branch[h] /\ h # hashGenesisBlock
  <1>1. hashSyncCheckpoint \in Branch[h] /\ ~ (nHeight[h] <= nHeight[hashSyncCheckpoint])
    BY DEF ValidateSyncCheckpoint
  <1>2. nHeight[hashSyncCheckpoint] \in Nat /\ nHeight[h] \in Nat
    BY HeightFacts
  <1>3. QED
    BY <1>1, <1>2, GenesisHeight

(* A step that begins to move to such a checkpoint. *)
LEMMA MoveToCheckpointInd ==
    ASSUME IndInv, NEW h \in mapBlockIndex, NEW from \in {"ProcessSync", "AcceptPending"},
           pc \in {"idle", "AcceptPending"},
           from = "AcceptPending" => pc = "AcceptPending",
           ValidateSyncCheckpoint(h) = "yes",
           MoveToCheckpoint(h, from),
           UNCHANGED <<dbVars, indexVars, nBestInvalidTrust, orphanVars, checkVars,
                       strMasterPubKey, pblock, vWorkQueue>>
    PROVE  IndInv'
  <1> USE DEF MoveToCheckpoint, dbVars, indexVars, orphanVars, checkVars
  <1>1. h \in Block /\ hashSyncCheckpoint \in Block
    BY TreeAssumption DEF IndInv, TypeOK, IndexInv, Loaded, Running, Handler
  <1>2. hashSyncCheckpoint \in Branch[h] /\ h # hashGenesisBlock
    BY <1>1, ValidatedCheckpoint
  <1>3. pc' \in {"WriteSync", "SetBestChain"}
    OBVIOUS
  <1>4. TypeOK'
    BY <1>1, <1>3 DEF IndInv, TypeOK, PC, Handler
  <1>5. CallInv'
    BY <1>2, <1>3 DEF IndInv, CallInv, InSetBestChain
  <1>6. CheckpointInv'
    BY <1>2 DEF CheckpointInv
  <1>7. IndexInv'
    BY <1>3 DEF IndInv, IndexInv, Loaded, Running, Handler
  <1>8. IndexClosed' /\ BranchesIndexed(db.index)'
    BY <1>3 DEF IndInv, IndexClosed, ParentsIndexed, BranchesIndexed, Handler
  <1>9. QED
    BY <1>4, <1>5, <1>6, <1>7, <1>8 DEF IndInv

LEMMA ProcessSyncCheckpointInd ==
    ASSUME IndInv, NEW h \in SignedCheckpoint, ProcessSyncCheckpoint(h)
    PROVE  IndInv'
  <1>1. h \in Block
    BY PolicyAssumption
  <1>2. CASE UNCHANGED <<pc, callVars>>
    <2> USE <1>2 DEF ProcessSyncCheckpoint, dbVars, indexVars, orphanVars, callVars
    <2>1. TypeOK'
      BY <1>1 DEF IndInv, TypeOK
    <2>2. CallInv' /\ IndexInv' /\ CheckpointInv'
      BY DEF IndInv, CallInv, IndexInv, CheckpointInv, InSetBestChain
    <2>3. IndexClosed' /\ BranchesIndexed(db.index)'
      BY DEF IndInv, IndexClosed, ParentsIndexed, BranchesIndexed
    <2>4. QED
      BY <2>1, <2>2, <2>3 DEF IndInv
  <1>3. CASE /\ h \in mapBlockIndex
             /\ ValidateSyncCheckpoint(h) = "yes"
             /\ MoveToCheckpoint(h, "ProcessSync")
             /\ UNCHANGED <<hashPendingCheckpoint, hashInvalidCheckpoint, pblock, vWorkQueue>>
    BY <1>3, MoveToCheckpointInd DEF ProcessSyncCheckpoint, checkVars
  <1>4. QED
    BY <1>2, <1>3 DEF ProcessSyncCheckpoint

LEMMA AcceptPendingSyncCheckpointInd == IndInv /\ AcceptPendingSyncCheckpoint => IndInv'
  <1> SUFFICES ASSUME IndInv, AcceptPendingSyncCheckpoint PROVE IndInv'
    OBVIOUS
  <1>1. pc = "AcceptPending" /\ pblock \in mapBlockIndex /\ txn = db
    BY DEF AcceptPendingSyncCheckpoint, IndInv, CallInv, IndexInv
  <1>2. CASE AcceptBlockReturns
    <2> USE DEF AcceptPendingSyncCheckpoint, dbVars, indexVars, orphanVars
    <2>1. hashPendingCheckpoint' \in Block \cup {NoBlock} /\ hashInvalidCheckpoint' \in Block \cup {NoBlock}
      BY DEF IndInv, TypeOK
    <2>2. TypeOK'
      BY <1>1, <1>2, <2>1, QueueBlock DEF IndInv, TypeOK
    <2>3. QED
      BY <1>1, <1>2, <2>2, QueueBlock, ReturnInd DEF Handler
  <1>3. CASE /\ hashPendingCheckpoint \in mapBlockIndex
             /\ ValidateSyncCheckpoint(hashPendingCheckpoint) = "yes"
             /\ MoveToCheckpoint(hashPendingCheckpoint, "AcceptPending")
             /\ UNCHANGED <<hashPendingCheckpoint, hashInvalidCheckpoint, pblock, vWorkQueue>>
    BY <1>1, <1>3, MoveToCheckpointInd DEF AcceptPendingSyncCheckpoint, checkVars
  <1>4. QED
    BY <1>2, <1>3 DEF AcceptPendingSyncCheckpoint

LEMMA WriteSyncCheckpointInd == IndInv /\ WriteSyncCheckpoint => IndInv'
  <1> SUFFICES ASSUME IndInv, WriteSyncCheckpoint PROVE IndInv'
    OBVIOUS
  <1> USE DEF WriteSyncCheckpoint, indexVars, orphanVars
  <1>1. /\ pindexNew \in mapBlockIndex /\ pindexNew \in Block
        /\ caller # "ProcessSync" => pblock \in mapBlockIndex
        /\ db \in Database /\ strMasterPubKey \in 1..MaxMasterKey
        /\ db.best # NoBlock /\ mapBlockIndex = db.index /\ pindexBest \in mapBlockIndex
        /\ NoBlock \notin Block
    BY TreeAssumption DEF IndInv, CallInv, TypeOK, IndexInv, Loaded, Running, Handler
  <1>2. /\ db' \in Database /\ txn' = db'
        /\ db'.index = db.index /\ db'.best = db.best /\ db'.sync = pindexNew
    BY <1>1, RecordTypes DEF Commit, Database
  <1>3. /\ pc' \in {"idle", "Orphans"} /\ pc' \in PC /\ caller' = "none"
        /\ pblock' = NoBlock /\ pindexNew' = NoBlock /\ pindexTip' = NoBlock
        /\ vWorkQueue' \in Seq(Block) /\ vWorkQueue' \in Seq(mapBlockIndex)
    <2>1. CASE caller = "AcceptPending"
      BY <1>1, <2>1, QueueBlock DEF Returns
    <2>2. CASE caller # "AcceptPending"
      BY <2>2 DEF Idle, PC
    <2>3. QED
      BY <2>1, <2>2
  <1>4. TypeOK'
    BY <1>1, <1>2, <1>3 DEF IndInv, TypeOK
  <1>5. CallInv' /\ CheckpointInv'
    BY <1>3 DEF CallInv, CheckpointInv, InSetBestChain
  <1>6. IndexInv'
    BY <1>1, <1>2, <1>3 DEF IndInv, IndexInv, Loaded, Running, Handler
  <1>7. IndexClosed' /\ BranchesIndexed(db.index)'
    BY <1>1, <1>2, <1>3 DEF IndInv, IndexClosed, ParentsIndexed, BranchesIndexed, Handler
  <1>8. QED
    BY <1>4, <1>5, <1>6, <1>7 DEF IndInv

-----------------------------------------------------------------------------
(* The theorems. *)

(* The invariant is inductive. *)
LEMMA NextInd == IndInv /\ [Next]_vars => IndInv'
  <1> SUFFICES ASSUME IndInv, [Next]_vars PROVE IndInv'
    OBVIOUS
  <1>1. CASE HandlerStep
    <2>1. ASSUME NEW o \in Block, AcceptOrphan(o) PROVE IndInv'
      BY <2>1, AcceptOrphanInd
    <2>2. QED
      BY <1>1, <2>1, NextInWorkQueueInd, ExtendBestChainInd, BeginReorganizeInd,
         DisconnectBlockInd, ConnectBlockInd, CommitReorganizeInd, ConnectSecondaryInd,
         NewBestInd, AcceptPendingSyncCheckpointInd, WriteSyncCheckpointInd
         DEF HandlerStep
  <1>2. CASE StartupStep
    BY <1>2, LoadBlockIndexInd, GenesisIndexInd, GenesisBestInd, GenesisSyncInd, MasterKeyInd,
       ResetSyncCheckpointInd
       DEF StartupStep
  <1>3. CASE Upgrade \/ Crash
    BY <1>3, UpgradeInd, CrashInd
  <1>4. ASSUME NEW b \in Block \ {hashGenesisBlock}, ProcessBlock(b) \/ ProcessOrphanBlock(b)
        PROVE  IndInv'
    BY <1>4, ProcessBlockInd, ProcessOrphanBlockInd
  <1>5. ASSUME NEW h \in SignedCheckpoint, ProcessSyncCheckpoint(h) PROVE IndInv'
    BY <1>5, ProcessSyncCheckpointInd
  <1>6. CASE UNCHANGED vars
    <2> USE <1>6 DEF vars, dbVars, indexVars, orphanVars, checkVars, callVars
    <2>1. TypeOK'
      BY DEF IndInv, TypeOK
    <2>2. CallInv' /\ IndexInv' /\ CheckpointInv'
      BY DEF IndInv, CallInv, IndexInv, CheckpointInv
    <2>3. IndexClosed' /\ BranchesIndexed(db.index)'
      BY DEF IndInv, IndexClosed, ParentsIndexed, BranchesIndexed
    <2>4. QED
      BY <2>1, <2>2, <2>3 DEF IndInv
  <1>7. QED
    BY <1>1, <1>2, <1>3, <1>4, <1>5, <1>6 DEF Next

(* In every reachable state the inductive invariant holds. *)
THEOREM Invariance == Spec => []IndInv
  BY InitInd, NextInd, PTL DEF Spec

(* Every variable keeps its type, for every set of blocks, every policy    *)
(* and every crash point: no handler leaves a null hash where a block is   *)
(* expected.                                                               *)
THEOREM TypeCorrect == Spec => []TypeOK
  <1>1. IndInv => TypeOK
    BY DEF IndInv
  <1>2. QED
    BY <1>1, Invariance, PTL

(* A block is indexed after its parent, in memory and on disk, and the     *)
(* best block and the checkpoint are indexed, whatever blocks are invalid  *)
(* and wherever the process stops.                                         *)
THEOREM IndexAlwaysClosed == Spec => []IndexClosed
  <1>1. IndInv => IndexClosed
    BY DEF IndInv
  <1>2. QED
    BY <1>1, Invariance, PTL

(* The steps that leave the recorded checkpoint alone. *)
LEMMA SyncKept ==
    ASSUME IndInv, Next
    PROVE  \/ db'.sync = db.sync
           \/ GenesisSync \/ ResetSyncCheckpoint \/ WriteSyncCheckpoint
  <1>1. db \in Database /\ txn \in Database /\ nBestInvalidTrust \in Trust /\ txn.sync = db.sync
    BY DEF IndInv, TypeOK, IndexInv
  <1>2. ASSUME NEW b \in Block, InvalidChainFound(b) PROVE db'.sync = db.sync
    BY <1>1, <1>2, InvalidChainFoundType
  <1>3. ASSUME NEW b \in Block, AddToBlockIndex(b) PROVE db'.sync = db.sync
    BY <1>1, <1>3 DEF AddToBlockIndex, Commit, WriteBlockIndex, Database
  <1>4. ASSUME NEW b, ConnectTip(b) PROVE db'.sync = db.sync
    BY <1>1, <1>4 DEF ConnectTip, Commit, Connected, Database
  <1>5. CASE StartupStep
    BY <1>1, <1>5 DEF StartupStep, LoadBlockIndex, GenesisIndex, GenesisBest, MasterKey, Commit,
       WriteBlockIndex, dbVars, Database
  <1>6. CASE HandlerStep
    <2>1. pc \in InSetBestChain => pindexNew \in Block
      BY NewFacts
    <2>2. ASSUME NEW o \in Block, AcceptOrphan(o) PROVE db'.sync = db.sync
      BY <1>3, <2>2 DEF AcceptOrphan, dbVars
    <2>3. CASE NextInWorkQueue \/ BeginReorganize \/ NewBest \/ AcceptPendingSyncCheckpoint
      BY <2>3 DEF NextInWorkQueue, BeginReorganize, NewBest, AcceptPendingSyncCheckpoint, dbVars
    <2>4. CASE ExtendBestChain
      BY <1>2, <1>4, <2>1, <2>4 DEF ExtendBestChain, SetBestChainFails, InSetBestChain
    <2>5. CASE DisconnectBlock
      BY <1>2, <2>1, <2>5 DEF DisconnectBlock, SetBestChainFails, InSetBestChain
    <2>6. CASE ConnectBlock
      BY <1>2, <2>1, <2>6 DEF ConnectBlock, SetBestChainFails, InSetBestChain
    <2>7. CASE CommitReorganize
      BY <1>1, <2>7 DEF CommitReorganize, Commit, Database
    <2>8. CASE ConnectSecondary
      <3> DEFINE pindex == Towards(pindexTip, pindexNew)
      <3>1. pindex \in Block
        <4>1. pc \in InSetBestChain /\ pindexTip \in Branch[pindexNew] /\ pindexTip # pindexNew
          BY <2>8 DEF ConnectSecondary, InSetBestChain, IndInv, CallInv
        <4>2. QED
          BY <4>1, NewFacts, TowardsFacts, BranchFacts
      <3>2. ConnectTip(pindex) \/ InvalidChainFound(pindex)
        BY <2>8 DEF ConnectSecondary
      <3>3. QED
        BY <1>2, <1>4, <3>1, <3>2
    <2>9. QED
      BY <1>6, <2>2, <2>3, <2>4, <2>5, <2>6, <2>7, <2>8 DEF HandlerStep
  <1>7. CASE Upgrade \/ Crash
    BY <1>7 DEF Upgrade, Crash, dbVars
  <1>8. ASSUME NEW b \in Block \ {hashGenesisBlock}, ProcessBlock(b) \/ ProcessOrphanBlock(b)
        PROVE  db'.sync = db.sync
    BY <1>3, <1>8 DEF ProcessBlock, ProcessOrphanBlock, dbVars
  <1>9. ASSUME NEW h \in SignedCheckpoint, ProcessSyncCheckpoint(h) PROVE db'.sync = db.sync
    BY <1>9 DEF ProcessSyncCheckpoint, dbVars
  <1>10. QED
    BY <1>5, <1>6, <1>7, <1>8, <1>9 DEF Next

(* The recorded checkpoint is only ever replaced by a descendant, or reset *)
(* at startup after a change of the master key: no order of checkpoint     *)
(* messages, blocks and crashes moves it to another branch.                *)
THEOREM CheckpointAdvances == Spec => SyncCheckpointAdvances
  <1> DEFINE Advance == db.sync' # db.sync =>
                            \/ db.sync = NoBlock
                            \/ db.sync \in Branch[db.sync']
                            \/ pc = "ResetSync"
  <1>1. IndInv /\ [Next]_vars => [Advance]_vars
    <2> SUFFICES ASSUME IndInv, Next PROVE Advance
      OBVIOUS
    <2>1. CASE db'.sync = db.sync
      BY <2>1
    <2>2. CASE GenesisSync
      <3>1. db.sync \in {hashGenesisBlock, NoBlock} /\ db \in Database
        BY <2>2 DEF GenesisSync, IndInv, IndexInv, IndexClosed, TypeOK
      <3>2. db'.sync = hashGenesisBlock
        BY <2>2, <3>1 DEF GenesisSync, Commit, Database
      <3>3. QED
        BY <3>1, <3>2
    <2>3. CASE ResetSyncCheckpoint
      BY <2>3 DEF ResetSyncCheckpoint
    <2>4. CASE WriteSyncCheckpoint
      <3>1. hashSyncCheckpoint = db.sync /\ hashSyncCheckpoint \in Branch[pindexNew] /\ db \in Database
        BY <2>4 DEF WriteSyncCheckpoint, IndInv, IndexInv, CallInv, CheckpointInv, TypeOK,
           InSetBestChain, Loaded, Running, Handler
      <3>2. db'.sync = pindexNew
        BY <2>4, <3>1 DEF WriteSyncCheckpoint, Commit, Database
      <3>3. QED
        BY <3>1, <3>2
    <2>5. QED
      BY <2>1, <2>2, <2>3, <2>4, SyncKept
  <1>2. QED
    BY <1>1, Invariance, PTL DEF Spec, SyncCheckpointAdvances

(* Once a checkpoint has been recorded, LoadBlockIndex accepts the         *)
(* database whatever the process was doing when it stopped.                *)
THEOREM LoadAlwaysSucceeds == Spec => []LoadFailsOnlyInFirstRun
  <1>1. Init => LoadFailsOnlyInFirstRun
    BY DEF Init, LoadFailsOnlyInFirstRun
  <1>2. IndInv /\ LoadFailsOnlyInFirstRun /\ [Next]_vars => LoadFailsOnlyInFirstRun'
    <2> SUFFICES ASSUME IndInv, LoadFailsOnlyInFirstRun, [Next]_vars, pc' = "failed"
                 PROVE  db'.sync = NoBlock
      BY DEF LoadFailsOnlyInFirstRun
    <2>1. CASE UNCHANGED vars
      BY <2>1 DEF vars, dbVars, LoadFailsOnlyInFirstRun
    <2>2. CASE LoadBlockIndex
      <3>1. db' = db /\ (db.best \notin db.index \/ db.sync = NoBlock)
        BY <2>2 DEF LoadBlockIndex, dbVars
      <3>2. db.sync # NoBlock => db.best \in db.index
        BY DEF IndInv, IndexInv, IndexClosed
      <3>3. QED
        BY <3>1, <3>2
    <2>3. CASE StartupStep /\ ~ LoadBlockIndex
      BY <2>3 DEF StartupStep, GenesisIndex, GenesisBest, GenesisSync, MasterKey,
         ResetSyncCheckpoint
    <2>4. CASE HandlerStep
      BY <2>4 DEF HandlerStep, AcceptOrphan, AddToBlockIndex, NextInWorkQueue, ExtendBestChain,
         BeginReorganize, DisconnectBlock, ConnectBlock, CommitReorganize, ConnectSecondary,
         NewBest, AcceptPendingSyncCheckpoint, MoveToCheckpoint, WriteSyncCheckpoint,
         SetBestChainFails, AcceptBlockFails, AcceptBlockReturns, ToOrphanLoop, Idle
    <2>5. CASE Upgrade \/ Crash
      BY <2>5 DEF Upgrade, Crash
    <2>6. ASSUME NEW b \in Block, ProcessBlock(b) \/ ProcessOrphanBlock(b) PROVE FALSE
      BY <2>6 DEF ProcessBlock, ProcessOrphanBlock, AddToBlockIndex
    <2>7. ASSUME NEW h \in SignedCheckpoint, ProcessSyncCheckpoint(h) PROVE FALSE
      BY <2>7 DEF ProcessSyncCheckpoint, MoveToCheckpoint
    <2>8. QED
      BY <2>1, <2>2, <2>3, <2>4, <2>5, <2>6, <2>7 DEF Next
  <1>3. QED
    BY <1>1, <1>2, Invariance, PTL DEF Spec

(* A stake is marked in setStakeSeenOrphan only while an orphan with it is *)
(* held: a dropped or accepted orphan blocks nobody.                       *)
THEOREM OrphanStakesAreHeld == Spec => []OrphanStakeReleased
  <1>1. Init => OrphanStakeReleased
    BY DEF Init, OrphanStakeReleased
  <1>2. OrphanStakeReleased /\ [Next]_vars => OrphanStakeReleased'
    <2> SUFFICES ASSUME OrphanStakeReleased, [Next]_vars PROVE OrphanStakeReleased'
      OBVIOUS
    <2>1. CASE UNCHANGED orphanVars
      BY <2>1 DEF orphanVars, OrphanStakeReleased
    <2>2. ASSUME NEW o \in Block, AcceptOrphan(o) PROVE OrphanStakeReleased'
      BY <2>2 DEF AcceptOrphan, LeaveHoldingArea, OrphanStakeReleased
    <2>3. ASSUME NEW b \in Block, ProcessOrphanBlock(b) PROVE OrphanStakeReleased'
      BY <2>3 DEF ProcessOrphanBlock, OrphanStakeReleased
    <2>4. CASE Crash
      BY <2>4 DEF Crash, OrphanStakeReleased
    <2>5. CASE StartupStep \/ Upgrade
      BY <2>1, <2>5 DEF StartupStep, LoadBlockIndex, GenesisIndex, GenesisBest, GenesisSync,
         MasterKey, ResetSyncCheckpoint, Upgrade
    <2>6. CASE HandlerStep
      BY <2>1, <2>2, <2>6 DEF HandlerStep, NextInWorkQueue, ExtendBestChain, BeginReorganize,
         DisconnectBlock, ConnectBlock, CommitReorganize, ConnectSecondary, NewBest,
         AcceptPendingSyncCheckpoint, WriteSyncCheckpoint
    <2>7. ASSUME NEW b \in Block, ProcessBlock(b) PROVE OrphanStakeReleased'
      BY <2>1, <2>7 DEF ProcessBlock
    <2>8. ASSUME NEW h \in SignedCheckpoint, ProcessSyncCheckpoint(h) PROVE OrphanStakeReleased'
      BY <2>1, <2>8 DEF ProcessSyncCheckpoint
    <2>9. CASE UNCHANGED vars
      BY <2>1, <2>9 DEF vars
    <2>10. QED
      BY <2>2, <2>3, <2>4, <2>5, <2>6, <2>7, <2>8, <2>9 DEF Next
  <1>3. QED
    BY <1>1, <1>2, PTL DEF Spec

-----------------------------------------------------------------------------
(* The main chain.  SetBestChain connects all of a branch above            *)
(* pindexIntermediate after the commit of Reorganize, and goes on as if    *)
(* it had when one of those blocks does not connect.  What follows holds   *)
(* of the behaviours in which they do.                                     *)
PostponedConnect ==
    pc = "Secondary" /\ pindexTip # pindexNew => ConnectBlockOK(db, Towards(pindexTip, pindexNew))

(* The database holds a valid chain: index, hashNext and best block agree. *)
CommittedInv ==
    /\ \A b \in db.index \ {hashGenesisBlock} : PlacementOK(b)
    /\ db.best = NoBlock => db.pos = EmptyPos /\ db.spent = EmptySpent /\ db.next = NoLinks
    /\ db.best # NoBlock => Matches(db, db.best) /\ db.next = Links(db.best)

(* How far memory lags behind the database. *)
MemoryInv ==
    /\ pc \in Loaded \ {"Secondary", "NewBest"} => pindexBest = db.best
    /\ pc = "Secondary" => db.best = pindexTip
    /\ pc = "NewBest" => db.best = pindexNew
    /\ pc \in Loaded => pnext = Links(db.best)
    /\ pc \notin Loaded => pnext = NoLinks

(* The open transaction of Reorganize holds the chain of pindexTip, which  *)
(* has not gone below the fork.                                            *)
ReorganizeInv ==
    /\ pc \in {"SetBestChain", "Reorganize"} => pindexNew \notin Branch[pindexBest]
    /\ pc = "Reorganize" =>
          /\ Matches(txn, pindexTip)
          /\ txn.next = Links(pindexTip)
          /\ (Branch[pindexBest] \ Branch[pindexTip]) \cap Branch[pindexIntermediate(pindexNew)] = {}

ChainInv ==
    /\ CommittedInv
    /\ MemoryInv
    /\ ReorganizeInv

LEMMA ChainFacts ==
    ASSUME IndInv, ChainInv, pc \in Loaded
    PROVE  /\ db.best \in Block /\ db.best \in db.index /\ db.best # NoBlock
           /\ db \in Database /\ txn \in Database
           /\ mapBlockIndex = db.index /\ db.index \subseteq Block
           /\ \A b \in db.index : Branch[b] \subseteq db.index
           /\ Matches(db, db.best) /\ db.next = Links(db.best) /\ pnext = Links(db.best)
  BY DEF IndInv, TypeOK, Database, IndexInv, IndexClosed, BranchesIndexed, ChainInv, CommittedInv, MemoryInv

(* AcceptBlock has checked the height in the coinbase of every block of an *)
(* indexed branch.                                                         *)
LEMMA CoinbaseHeights ==
    ASSUME IndInv, ChainInv, NEW b \in db.index
    PROVE  HeightInCoinbase(b)
  <1>1. Branch[b] \subseteq db.index
    BY DEF IndInv, BranchesIndexed
  <1>2. \A c \in db.index \ {hashGenesisBlock} : CoinbaseHeight[vtx[c][1]] = nHeight[hashPrevBlock[c]] + 1
    BY DEF ChainInv, CommittedInv, PlacementOK
  <1> QED
    BY <1>1, <1>2 DEF HeightInCoinbase

(* The genesis block links nothing. *)
LEMMA GenesisLinks == Links(hashGenesisBlock) = NoLinks
  BY TreeAssumption DEF Links, NoLinks

(* A step that leaves the chain alone. *)
LEMMA ChainKept ==
    ASSUME ChainInv, db'.index = db.index, db'.pos = db.pos, db'.spent = db.spent,
           db'.next = db.next, db'.best = db.best, pnext' = pnext, pindexBest' = pindexBest,
           pc \in Loaded \ {"Secondary", "NewBest"},
           pc' \in Loaded \ {"Secondary", "NewBest", "Reorganize"},
           pc' = "SetBestChain" => pindexNew' \notin Branch[pindexBest]
    PROVE  ChainInv'
  <1>1. CommittedInv'
    BY DEF ChainInv, CommittedInv, Matches, PlacementOK
  <1>2. MemoryInv'
    BY DEF ChainInv, MemoryInv
  <1>3. ReorganizeInv'
    BY DEF ChainInv, ReorganizeInv
  <1> QED
    BY <1>1, <1>2, <1>3 DEF ChainInv

LEMMA InvalidChainFoundKept ==
    ASSUME NEW b \in Block, db \in Database, InvalidChainFound(b)
    PROVE  /\ db'.index = db.index /\ db'.pos = db.pos /\ db'.spent = db.spent
           /\ db'.next = db.next /\ db'.best = db.best
  BY DEF InvalidChainFound, Commit, Database

LEMMA SetBestChainFailsKept ==
    ASSUME IndInv, ChainInv, pc \in {"SetBestChain", "Reorganize"}, SetBestChainFails(pindexNew),
           UNCHANGED <<pnext, pindexBest>>
    PROVE  ChainInv'
  <1>1. pindexNew \in Block /\ db \in Database
    BY NewFacts DEF InSetBestChain
  <1>2. pc' \in {"idle", "Orphans"}
    BY DEF SetBestChainFails, AcceptBlockFails, AcceptBlockReturns, ToOrphanLoop, Idle
  <1>3. InvalidChainFound(pindexNew)
    BY DEF SetBestChainFails
  <1> QED
    BY <1>1, <1>2, <1>3, InvalidChainFoundKept, ChainKept DEF Loaded, Running, Handler

LEMMA InitChain == Init => ChainInv
  <1> SUFFICES ASSUME Init PROVE ChainInv
    OBVIOUS
  <1>1. CommittedInv /\ MemoryInv /\ ReorganizeInv
    BY DEF Init, CommittedInv, MemoryInv, ReorganizeInv, NoLinks, Loaded, Running, Handler
  <1> QED
    BY <1>1 DEF ChainInv

LEMMA StartupChain == IndInv /\ ChainInv /\ StartupStep => ChainInv'
  <1> SUFFICES ASSUME IndInv, ChainInv, StartupStep PROVE ChainInv'
    OBVIOUS
  <1>0. db \in Database /\ db.best \in db.index \cup {NoBlock} /\ db.index \subseteq Block /\ NoBlock \notin Block
    BY TreeAssumption DEF IndInv, TypeOK, IndexClosed, Database
  <1> USE DEF Loaded, Running, Handler
  <1>1. CASE LoadBlockIndex
    <2> USE <1>1 DEF LoadBlockIndex, dbVars, indexVars
    <2>1. db' = db /\ pc = "down" /\ pnext = NoLinks
      BY DEF ChainInv, MemoryInv
    <2>2. CommittedInv'
      BY <2>1 DEF ChainInv, CommittedInv, Matches, PlacementOK
    <2>3. MemoryInv'
      BY <1>0, <2>1 DEF ChainInv, CommittedInv, MemoryInv
    <2>4. ReorganizeInv'
      BY DEF ReorganizeInv
    <2> QED
      BY <2>2, <2>3, <2>4 DEF ChainInv
  <1>2. CASE GenesisIndex
    <2> USE <1>2 DEF GenesisIndex
    <2>1. db.index = {} /\ db.best = NoBlock
      BY <1>0 DEF IndInv, IndexInv
    <2>2. /\ db'.index = {hashGenesisBlock} /\ db'.best = NoBlock
          /\ db'.pos = EmptyPos /\ db'.spent = EmptySpent /\ db'.next = NoLinks
      <3>1. /\ db'.index = {hashGenesisBlock} /\ db'.best = NoBlock
            /\ db'.pos = db.pos /\ db'.spent = db.spent
            /\ db'.next = [db.next EXCEPT ![hashGenesisBlock] = NoBlock]
        BY <1>0, <2>1 DEF Commit, WriteBlockIndex, Database
      <3> QED
        BY <2>1, <3>1 DEF ChainInv, CommittedInv, NoLinks
    <2>3. CommittedInv'
      BY <2>2 DEF CommittedInv
    <2>4. MemoryInv' /\ ReorganizeInv'
      BY DEF ChainInv, MemoryInv, ReorganizeInv
    <2> QED
      BY <2>3, <2>4 DEF ChainInv
  <1>3. CASE GenesisBest
    <2> USE <1>3 DEF GenesisBest
    <2>1. db.index = {hashGenesisBlock}
      BY DEF IndInv, IndexInv
    <2>2. db.pos = EmptyPos /\ db.spent = EmptySpent /\ db.next = NoLinks
      BY <1>0, <2>1, GenesisMatches, GenesisLinks DEF ChainInv, CommittedInv, Matches
    <2>3. /\ db'.index = {hashGenesisBlock} /\ db'.best = hashGenesisBlock
          /\ db'.pos = EmptyPos /\ db'.spent = EmptySpent /\ db'.next = NoLinks
      BY <1>0, <2>1, <2>2 DEF Commit, Database
    <2>4. CommittedInv'
      BY <1>0, <2>1, <2>3, GenesisMatches, GenesisLinks, GenesisValid DEF CommittedInv, Matches
    <2>5. MemoryInv' /\ ReorganizeInv'
      BY DEF ChainInv, MemoryInv, ReorganizeInv
    <2> QED
      BY <2>4, <2>5 DEF ChainInv
  <1>4. CASE GenesisSync
    <2> USE <1>4 DEF GenesisSync, indexVars
    <2>1. pindexBest = hashGenesisBlock /\ db.best = hashGenesisBlock
      BY DEF IndInv, IndexInv
    <2>2. /\ db'.index = db.index /\ db'.best = db.best
          /\ db'.pos = db.pos /\ db'.spent = db.spent /\ db'.next = db.next
      BY <1>0 DEF Commit, Database
    <2>3. CommittedInv'
      BY <2>2 DEF ChainInv, CommittedInv, Matches, PlacementOK
    <2>4. MemoryInv' /\ ReorganizeInv'
      BY <2>1, <2>2, GenesisLinks DEF ChainInv, MemoryInv, ReorganizeInv
    <2> QED
      BY <2>3, <2>4 DEF ChainInv
  <1>5. CASE MasterKey \/ ResetSyncCheckpoint
    <2>1. /\ db'.index = db.index /\ db'.best = db.best
          /\ db'.pos = db.pos /\ db'.spent = db.spent /\ db'.next = db.next
      BY <1>0, <1>5 DEF MasterKey, ResetSyncCheckpoint, Commit, Database, dbVars
    <2> QED
      BY <1>5, <2>1, ChainKept DEF MasterKey, ResetSyncCheckpoint, indexVars
  <1> QED
    BY <1>1, <1>2, <1>3, <1>4, <1>5 DEF StartupStep

LEMMA StopChain == ChainInv /\ (Crash \/ Upgrade \/ UNCHANGED vars) => ChainInv'
  <1> SUFFICES ASSUME ChainInv, Crash \/ Upgrade \/ UNCHANGED vars PROVE ChainInv'
    OBVIOUS
  <1>1. db' = db
    BY DEF Crash, Upgrade, vars, dbVars
  <1>2. CommittedInv'
    BY <1>1 DEF ChainInv, CommittedInv, Matches, PlacementOK
  <1>3. CASE Crash
    BY <1>2, <1>3 DEF Crash, ChainInv, MemoryInv, ReorganizeInv, NoLinks, Loaded, Running, Handler
  <1>4. CASE Upgrade \/ UNCHANGED vars
    <2> USE <1>4 DEF Upgrade, vars, dbVars, indexVars, callVars
    <2>1. MemoryInv'
      BY DEF ChainInv, MemoryInv
    <2>2. pindexIntermediate(pindexNew)' = pindexIntermediate(pindexNew)
      BY DEF pindexIntermediate
    <2>3. ReorganizeInv'
      BY <2>2 DEF ChainInv, ReorganizeInv, Matches
    <2> QED
      BY <1>2, <2>1, <2>3 DEF ChainInv
  <1> QED
    BY <1>3, <1>4

(* The block that is added is on no indexed branch, so its record replaces *)
(* no link.                                                                *)
LEMMA AddToBlockIndexChain ==
    ASSUME IndInv, ChainInv, NEW b \in Block \ {hashGenesisBlock}, AddToBlockIndex(b),
           AcceptBlockOK(b), pc \in {"idle", "Orphans"}
    PROVE  ChainInv'
  <1>1. pc \in Loaded
    BY DEF Loaded, Running, Handler
  <1>2. /\ db.best \in Block /\ db.best \in db.index /\ db \in Database
        /\ mapBlockIndex = db.index /\ db.next = Links(db.best) /\ db.best # NoBlock
        /\ Branch[db.best] \subseteq db.index
    BY <1>1, ChainFacts
  <1>3. b \notin Branch[db.best]
    BY <1>2 DEF AcceptBlockOK
  <1>4. /\ db'.index = db.index \cup {b} /\ db'.best = db.best /\ db'.pos = db.pos
        /\ db'.spent = db.spent /\ db'.next = [db.next EXCEPT ![b] = NoBlock]
    BY <1>2 DEF AddToBlockIndex, Commit, WriteBlockIndex, Database
  <1>5. db'.next = db.next
    <2>1. db.next[b] = NoBlock /\ db.next \in [Block -> Block \cup {NoBlock}]
      BY <1>2, <1>3, LinksFacts
    <2> QED
      BY <1>4, <2>1
  <1>6. CommittedInv'
    <2>1. PlacementOK(b)
      BY DEF AcceptBlockOK
    <2> QED
      BY <1>2, <1>4, <1>5, <2>1 DEF ChainInv, CommittedInv, Matches, PlacementOK
  <1>7. pindexBest = db.best /\ UNCHANGED <<pnext, pindexBest>>
    BY <1>1 DEF ChainInv, MemoryInv, AddToBlockIndex
  <1>8. MemoryInv'
    BY <1>1, <1>4, <1>7 DEF ChainInv, MemoryInv, AddToBlockIndex, Loaded, Running, Handler
  <1>9. ReorganizeInv'
    BY <1>3, <1>7 DEF ReorganizeInv, AddToBlockIndex
  <1> QED
    BY <1>6, <1>8, <1>9 DEF ChainInv

LEMMA ProcessBlockChain ==
    ASSUME IndInv, ChainInv, NEW b \in Block \ {hashGenesisBlock}, ProcessBlock(b) \/ ProcessOrphanBlock(b)
    PROVE  ChainInv'
  <1>1. CASE ProcessBlock(b)
    BY <1>1, AddToBlockIndexChain DEF ProcessBlock
  <1>2. CASE ProcessOrphanBlock(b)
    BY <1>2, ChainKept DEF ProcessOrphanBlock, dbVars, indexVars, Loaded, Running, Handler
  <1> QED
    BY <1>1, <1>2

LEMMA OrphanLoopChain ==
    ASSUME IndInv, ChainInv, NextInWorkQueue \/ \E o \in Block : AcceptOrphan(o)
    PROVE  ChainInv'
  <1>1. ASSUME NEW o \in Block, AcceptOrphan(o) PROVE ChainInv'
    <2>1. o \in Block \ {hashGenesisBlock} /\ pc = "Orphans"
      BY <1>1 DEF IndInv, TypeOK, AcceptOrphan, OrphansOf
    <2>2. CASE AcceptBlockOK(o)
      BY <1>1, <2>1, <2>2, AddToBlockIndexChain DEF AcceptOrphan
    <2>3. CASE ~ AcceptBlockOK(o)
      BY <1>1, <2>1, <2>3, ChainKept DEF AcceptOrphan, dbVars, indexVars, Loaded, Running, Handler
    <2> QED
      BY <2>2, <2>3
  <1>2. CASE NextInWorkQueue
    BY <1>2, ChainKept DEF NextInWorkQueue, Idle, dbVars, indexVars, Loaded, Running, Handler
  <1> QED
    BY <1>1, <1>2

(* Connecting a child of the committed best block. *)
LEMMA ConnectTipChain ==
    ASSUME IndInv, ChainInv, pc \in InSetBestChain, NEW b \in db.index \ {hashGenesisBlock},
           hashPrevBlock[b] = db.best, ConnectBlockOK(db, b), ConnectTip(b)
    PROVE  /\ db'.index = db.index /\ db'.best = b
           /\ Matches(db', b) /\ db'.next = Links(b) /\ pnext' = Links(b)
  <1>1. pc \in Loaded
    BY DEF InSetBestChain, Loaded, Running, Handler
  <1>2. /\ db.best \in Block /\ db \in Database /\ b \in Block \ {hashGenesisBlock}
        /\ Matches(db, db.best) /\ db.next = Links(db.best) /\ pnext = Links(db.best)
    BY <1>1, ChainFacts
  <1>3. HeightInCoinbase(b)
    BY CoinbaseHeights
  <1>4. /\ ConnectPos(db, b) = ChainPos(b)
        /\ ConnectSpent(db, b) = ChainSpent(b)
        /\ ValidChain(b)
    BY <1>2, <1>3, ConnectMatches
  <1>5. /\ db'.index = db.index /\ db'.best = b
        /\ db'.pos = ConnectPos(db, b) /\ db'.spent = ConnectSpent(db, b)
        /\ db'.next = [db.next EXCEPT ![b] = pnext[b], ![hashPrevBlock[b]] = b]
        /\ pnext' = [pnext EXCEPT ![hashPrevBlock[b]] = b]
    <2> DEFINE c == [Connected(db, b) EXCEPT !.best = b]
    <2>1. /\ c.index = db.index /\ c.best = b
          /\ c.pos = ConnectPos(db, b) /\ c.spent = ConnectSpent(db, b)
          /\ c.next = [db.next EXCEPT ![b] = pnext[b], ![hashPrevBlock[b]] = b]
      BY <1>2 DEF Connected, Database
    <2>2. db' = c
      BY DEF ConnectTip, Commit
    <2>3. pnext' = [pnext EXCEPT ![hashPrevBlock[b]] = b]
      BY DEF ConnectTip
    <2> HIDE DEF c
    <2> QED
      BY <2>1, <2>2, <2>3
  <1>6. pnext[b] = NoBlock
    BY <1>2, LinksStep
  <1>7. db'.next = Links(b) /\ pnext' = Links(b)
    <2>1. /\ Links(b) = [Links(hashPrevBlock[b]) EXCEPT ![b] = NoBlock, ![hashPrevBlock[b]] = b]
          /\ Links(b) = [Links(hashPrevBlock[b]) EXCEPT ![hashPrevBlock[b]] = b]
      BY <1>2, LinksStep
    <2>2. db.next = Links(hashPrevBlock[b]) /\ pnext = Links(hashPrevBlock[b])
      BY <1>2
    <2> QED
      BY <1>5, <1>6, <2>1, <2>2
  <1>8. Matches(db', b)
    BY <1>4, <1>5 DEF Matches
  <1> QED
    BY <1>5, <1>7, <1>8

LEMMA ExtendBestChainChain == IndInv /\ ChainInv /\ ExtendBestChain => ChainInv'
  <1> SUFFICES ASSUME IndInv, ChainInv, ExtendBestChain PROVE ChainInv'
    OBVIOUS
  <1>1. pc = "SetBestChain" /\ pc \in InSetBestChain /\ pc \in Loaded
    BY DEF ExtendBestChain, InSetBestChain, Loaded, Running, Handler
  <1>2. /\ pindexNew \in db.index \ {hashGenesisBlock} /\ hashPrevBlock[pindexNew] = db.best
        /\ NoBlock \notin db.index
    BY <1>1, ChainFacts, TreeAssumption DEF IndInv, CallInv, ChainInv, MemoryInv, ExtendBestChain
  <1>3. CASE ConnectBlockOK(db, pindexNew)
    <2>1. ConnectTip(pindexNew) /\ pc' = "NewBest" /\ pindexNew' = pindexNew
      BY <1>3 DEF ExtendBestChain, callVars
    <2>2. /\ db'.index = db.index /\ db'.best = pindexNew
          /\ Matches(db', pindexNew) /\ db'.next = Links(pindexNew) /\ pnext' = Links(pindexNew)
      BY <1>1, <1>2, <1>3, <2>1, ConnectTipChain
    <2>3. CommittedInv'
      BY <1>2, <2>2 DEF ChainInv, CommittedInv, PlacementOK
    <2>4. MemoryInv' /\ ReorganizeInv'
      BY <2>1, <2>2 DEF MemoryInv, ReorganizeInv, Loaded, Running, Handler
    <2> QED
      BY <2>3, <2>4 DEF ChainInv
  <1>4. CASE ~ ConnectBlockOK(db, pindexNew)
    BY <1>1, <1>4, SetBestChainFailsKept DEF ExtendBestChain
  <1> QED
    BY <1>3, <1>4

LEMMA BeginReorganizeChain == IndInv /\ ChainInv /\ BeginReorganize => ChainInv'
  <1> SUFFICES ASSUME IndInv, ChainInv, BeginReorganize PROVE ChainInv'
    OBVIOUS
  <1> USE DEF BeginReorganize, dbVars, indexVars
  <1>1. pc = "SetBestChain" /\ pc \in Loaded /\ pc' = "Reorganize" /\ pc' \in Loaded /\ txn = db
    BY DEF Loaded, Running, Handler, IndInv, IndexInv
  <1>2. CommittedInv'
    BY DEF ChainInv, CommittedInv, Matches, PlacementOK
  <1>3. MemoryInv'
    BY <1>1 DEF ChainInv, MemoryInv
  <1>4. ReorganizeInv'
    <2>1. Matches(db, pindexBest) /\ db.next = Links(pindexBest)
      BY <1>1, ChainFacts DEF ChainInv, MemoryInv
    <2> QED
      BY <1>1, <2>1 DEF ChainInv, ReorganizeInv, Matches
  <1> QED
    BY <1>2, <1>3, <1>4 DEF ChainInv

(* A step inside the transaction of Reorganize. *)
LEMMA ReorganizeStepChain ==
    ASSUME ChainInv, pc = "Reorganize", UNCHANGED <<db, pc, pindexNew, pnext, pindexBest>>,
           Matches(txn', pindexTip'), txn'.next = Links(pindexTip'),
           (Branch[pindexBest] \ Branch[pindexTip']) \cap Branch[pindexIntermediate(pindexNew)] = {}
    PROVE  ChainInv'
  <1>1. CommittedInv'
    BY DEF ChainInv, CommittedInv, Matches, PlacementOK
  <1>2. MemoryInv'
    BY DEF ChainInv, MemoryInv
  <1>3. pindexIntermediate(pindexNew)' = pindexIntermediate(pindexNew)
    BY DEF pindexIntermediate
  <1>4. ReorganizeInv'
    BY <1>3 DEF ChainInv, ReorganizeInv, Matches
  <1> QED
    BY <1>1, <1>2, <1>4 DEF ChainInv

LEMMA DisconnectBlockChain == IndInv /\ ChainInv /\ DisconnectBlock => ChainInv'
  <1> SUFFICES ASSUME IndInv, ChainInv, DisconnectBlock PROVE ChainInv'
    OBVIOUS
  <1> DEFINE new == pindexIntermediate(pindexNew)
             p   == hashPrevBlock[pindexTip]
  <1>1. pc = "Reorganize" /\ pc \in InSetBestChain
    BY DEF DisconnectBlock, InSetBestChain
  <1>2. /\ Matches(txn, pindexTip) /\ txn.next = Links(pindexTip)
        /\ (Branch[pindexBest] \ Branch[pindexTip]) \cap Branch[new] = {}
    BY <1>1 DEF ChainInv, ReorganizeInv
  <1>3. pindexTip \in Block \ {hashGenesisBlock} /\ pindexTip \notin Branch[new] /\ txn \in Database
    <2>1. pindexTip \in Block /\ new \in Block /\ txn \in Database
      BY <1>1, NewFacts, IntermediateFacts, BranchFacts DEF IndInv, CallInv
    <2>2. hashGenesisBlock \in Branch[new]
      BY <2>1, TreeAssumption
    <2> QED
      BY <2>1, <2>2 DEF DisconnectBlock
  <1>4. CASE DisconnectBlockOK(txn, pindexTip)
    <2>1. /\ txn' = Disconnected(txn, pindexTip) /\ pindexTip' = p
          /\ UNCHANGED <<db, pc, pindexNew, pnext, pindexBest>>
      BY <1>4 DEF DisconnectBlock, indexVars
    <2>2. /\ txn'.pos = DisconnectPos(txn, pindexTip) /\ txn'.spent = DisconnectSpent(txn, pindexTip)
          /\ txn'.next = [txn.next EXCEPT ![p] = NoBlock]
      BY <1>3, <2>1 DEF Disconnected, Database
    <2>3. Matches(txn', p)
      BY <1>2, <1>3, <2>2, DisconnectMatches DEF Matches
    <2>4. txn'.next = Links(p)
      BY <1>2, <1>3, <2>2, LinksStep
    <2>5. Branch[pindexTip] = Branch[p] \cup {pindexTip}
      BY <1>3, TreeAssumption
    <2>6. (Branch[pindexBest] \ Branch[p]) \cap Branch[new] = {}
      BY <1>2, <1>3, <2>5
    <2> HIDE DEF new, p
    <2>7. Matches(txn', pindexTip') /\ txn'.next = Links(pindexTip')
      BY <2>1, <2>3, <2>4
    <2> QED
      BY <1>1, <2>1, <2>6, <2>7, ReorganizeStepChain DEF new
  <1>5. CASE ~ DisconnectBlockOK(txn, pindexTip)
    BY <1>1, <1>5, SetBestChainFailsKept DEF DisconnectBlock, indexVars
  <1> QED
    BY <1>4, <1>5

LEMMA ConnectBlockChain == IndInv /\ ChainInv /\ ConnectBlock => ChainInv'
  <1> SUFFICES ASSUME IndInv, ChainInv, ConnectBlock PROVE ChainInv'
    OBVIOUS
  <1> DEFINE new    == pindexIntermediate(pindexNew)
             pindex == Towards(pindexTip, new)
  <1>1. pc = "Reorganize" /\ pc \in InSetBestChain /\ pc \in Loaded
    BY DEF ConnectBlock, InSetBestChain, Loaded, Running, Handler
  <1>2. /\ Matches(txn, pindexTip) /\ txn.next = Links(pindexTip)
        /\ (Branch[pindexBest] \ Branch[pindexTip]) \cap Branch[new] = {}
        /\ pindexBest = db.best
    BY <1>1 DEF ChainInv, ReorganizeInv, MemoryInv
  <1>3. /\ pindex \in db.index \ {hashGenesisBlock} /\ hashPrevBlock[pindex] = pindexTip
        /\ txn \in Database /\ pindex \in Block /\ pindex \in Branch[new]
    <2>1. new \in Branch[pindexNew] /\ pindexNew \in Block /\ txn \in Database
          /\ Branch[pindexNew] \subseteq db.index
      BY <1>1, NewFacts, IntermediateFacts
    <2>2. new \in Block /\ Branch[new] \subseteq Branch[pindexNew]
      BY <2>1, TreeAssumption
    <2>3. pindex \in Branch[new] \ {hashGenesisBlock} /\ hashPrevBlock[pindex] = pindexTip
      BY <2>2, TowardsFacts DEF ConnectBlock
    <2> QED
      BY <2>1, <2>2, <2>3, BranchFacts
  <1> HIDE DEF pindex
  <1>4. Branch[pindex] = Branch[pindexTip] \cup {pindex} /\ pindex \notin Branch[pindexTip]
    BY <1>3, TreeAssumption
  <1>5. pindex \notin Branch[pindexBest]
    BY <1>2, <1>3, <1>4
  <1>6. CASE ConnectBlockOK(txn, pindex)
    <2>1. /\ txn' = Connected(txn, pindex) /\ pindexTip' = pindex
          /\ UNCHANGED <<db, pc, pindexNew, pnext, pindexBest>>
      BY <1>6 DEF ConnectBlock, indexVars, pindex
    <2>2. /\ txn'.pos = ConnectPos(txn, pindex) /\ txn'.spent = ConnectSpent(txn, pindex)
          /\ txn'.next = [txn.next EXCEPT ![pindex] = pnext[pindex], ![hashPrevBlock[pindex]] = pindex]
      BY <1>3, <2>1 DEF Connected, Database
    <2>3. HeightInCoinbase(pindex)
      BY <1>3, CoinbaseHeights
    <2>4. Matches(txn', pindex)
      <3>1. Matches(txn, hashPrevBlock[pindex])
        BY <1>2, <1>3
      <3>2. /\ ConnectPos(txn, pindex) = ChainPos(pindex)
            /\ ConnectSpent(txn, pindex) = ChainSpent(pindex)
            /\ ValidChain(pindex)
        BY <1>3, <1>6, <2>3, <3>1, ConnectMatches
      <3> QED
        BY <2>2, <3>2 DEF Matches
    <2>5. pnext[pindex] = NoBlock
      BY <1>1, <1>2, <1>3, <1>5, ChainFacts, LinksFacts
    <2>6. txn'.next = Links(pindex)
      BY <1>2, <1>3, <2>2, <2>5, LinksStep
    <2>7. (Branch[pindexBest] \ Branch[pindex]) \cap Branch[new] = {}
      BY <1>2, <1>4
    <2> HIDE DEF new
    <2> QED
      BY <1>1, <2>1, <2>4, <2>6, <2>7, ReorganizeStepChain DEF new
  <1>7. CASE ~ ConnectBlockOK(txn, pindex)
    BY <1>1, <1>7, SetBestChainFailsKept DEF ConnectBlock, indexVars, pindex
  <1> QED
    BY <1>6, <1>7

(* pindexIntermediate takes the lead over the best block, or is the block  *)
(* that SetBestChain was called for.                                       *)
LEMMA IntermediateLeads ==
    ASSUME NEW b \in Block, pindexBest \in Block
    PROVE  /\ pindexIntermediate(b) \in Branch[b]
           /\ pindexIntermediate(b) # b => nChainTrust[pindexIntermediate(b)] > nChainTrust[pindexBest]
           /\ b \notin Branch[pindexBest] => pindexIntermediate(b) \notin Branch[pindexBest]
  <1> DEFINE ahead == {c \in Branch[b] \ {hashGenesisBlock} :
                          nChainTrust[hashPrevBlock[c]] > nChainTrust[pindexBest]}
             rest  == Branch[b] \ ahead
             i     == pindexIntermediate(b)
  <1>1. rest \in SUBSET Block /\ hashGenesisBlock \in rest
    BY TreeAssumption
  <1>2. \E c \in rest : \A e \in rest : nHeight[e] <= nHeight[c]
    <2> HIDE DEF rest
    <2> QED BY <1>1, HighestBlock
  <1>3. i \in rest /\ \A e \in rest : nHeight[e] <= nHeight[i]
    BY <1>2 DEF pindexIntermediate
  <1>4. i \in Branch[b] /\ i \in Block
    BY <1>1, <1>3
  <1> HIDE DEF i
  <1>5. ASSUME i # b PROVE nChainTrust[i] > nChainTrust[pindexBest]
    <2> DEFINE c == Towards(i, b)
    <2>1. c \in Branch[b] \ {hashGenesisBlock} /\ hashPrevBlock[c] = i /\ c \in Block
      BY <1>4, <1>5, TowardsFacts, BranchFacts
    <2> HIDE DEF c
    <2>2. nHeight[c] = nHeight[i] + 1 /\ nHeight[i] \in Nat
      BY <1>4, <2>1, HeightStep, HeightFacts
    <2>3. c \notin rest
      BY <1>3, <2>2
    <2> QED
      BY <2>1, <2>3
  <1>6. ASSUME b \notin Branch[pindexBest], i \in Branch[pindexBest] PROVE FALSE
    <2>1. i # b
      BY <1>6
    <2>2. nChainTrust[i] > nChainTrust[pindexBest]
      BY <1>5, <2>1
    <2>3. nChainTrust[i] <= nChainTrust[pindexBest]
      BY <1>6, TrustMonotone
    <2>4. nChainTrust[i] \in Nat /\ nChainTrust[pindexBest] \in Nat
      BY <1>4, TrustFacts
    <2> QED
      BY <2>2, <2>3, <2>4
  <1> QED
    BY <1>4, <1>5, <1>6 DEF i

(* After the commit of Reorganize pnext is changed block by block; the     *)
(* result links the new chain.                                             *)
LEMMA ReorganizedLinks ==
    ASSUME NEW best \in Block, NEW tip \in Block
    PROVE  [b \in Block |->
               IF \E c \in Branch[tip] \ Branch[best] : hashPrevBlock[c] = b
               THEN CHOOSE c \in Branch[tip] \ Branch[best] : hashPrevBlock[c] = b
               ELSE IF \E c \in Branch[best] \ Branch[tip] : hashPrevBlock[c] = b
               THEN NoBlock
               ELSE Links(best)[b]] = Links(tip)
  <1> DEFINE vConnect    == Branch[tip] \ Branch[best]
             vDisconnect == Branch[best] \ Branch[tip]
             f == [b \in Block |->
                      IF \E c \in vConnect : hashPrevBlock[c] = b
                      THEN CHOOSE c \in vConnect : hashPrevBlock[c] = b
                      ELSE IF \E c \in vDisconnect : hashPrevBlock[c] = b
                      THEN NoBlock
                      ELSE Links(best)[b]]
  <1>1. /\ hashGenesisBlock \notin vConnect /\ hashGenesisBlock \notin vDisconnect
        /\ Branch[tip] \subseteq Block /\ Branch[best] \subseteq Block
    BY TreeAssumption
  <1>2. f \in [Block -> Block \cup {NoBlock}]
    <2>1. Links(best) \in [Block -> Block \cup {NoBlock}]
      BY LinksFacts
    <2>2. \A b \in Block : (\E c \in vConnect : hashPrevBlock[c] = b) =>
             (CHOOSE c \in vConnect : hashPrevBlock[c] = b) \in Block
      BY <1>1
    <2> HIDE DEF vConnect, vDisconnect
    <2> QED
      BY <2>1, <2>2
  <1>3. ASSUME NEW c \in Branch[tip] \ {hashGenesisBlock} PROVE f[hashPrevBlock[c]] = c
    <2> DEFINE p == hashPrevBlock[c]
    <2>0. p \in Block
      BY <1>1, BranchFacts
    <2>1. \A e \in vConnect : hashPrevBlock[e] = p => e = c
      BY <1>1, OneChild
    <2>2. CASE c \in vConnect
      <3>1. f[p] = CHOOSE e \in vConnect : hashPrevBlock[e] = p
        BY <2>0, <2>2
      <3> QED
        BY <2>1, <2>2, <3>1
    <2>3. CASE c \notin vConnect
      <3>1. c \in Branch[best] \ {hashGenesisBlock}
        BY <2>3
      <3>2. ~ \E e \in vConnect : hashPrevBlock[e] = p
        BY <2>1, <2>3
      <3>3. ~ \E e \in vDisconnect : hashPrevBlock[e] = p
        BY <1>1, <3>1, OneChild
      <3>4. f[p] = Links(best)[p]
        BY <2>0, <3>2, <3>3
      <3> QED
        BY <3>1, <3>4, LinksFacts
    <2> QED
      BY <2>2, <2>3
  <1>4. ASSUME NEW a \in Block, \A c \in Branch[tip] \ {hashGenesisBlock} : hashPrevBlock[c] # a
        PROVE  f[a] = NoBlock
    <2>1. ~ \E e \in vConnect : hashPrevBlock[e] = a
      BY <1>1, <1>4
    <2>2. CASE \E c \in vDisconnect : hashPrevBlock[c] = a
      BY <2>1, <2>2
    <2>3. CASE ~ \E c \in vDisconnect : hashPrevBlock[c] = a
      <3>1. f[a] = Links(best)[a]
        BY <2>1, <2>3
      <3>2. \A c \in Branch[best] \ {hashGenesisBlock} : hashPrevBlock[c] # a
        BY <1>4, <2>3
      <3> QED
        BY <3>1, <3>2, LinksFacts
    <2> QED
      BY <2>2, <2>3
  <1>5. f = Links(tip)
    <2> HIDE DEF f
    <2> QED
      BY <1>2, <1>3, <1>4, LinksUnique
  <1> QED
    BY <1>5

LEMMA CommitReorganizeChain == IndInv /\ ChainInv /\ CommitReorganize => ChainInv'
  <1> SUFFICES ASSUME IndInv, ChainInv, CommitReorganize PROVE ChainInv'
    OBVIOUS
  <1>1. pc = "Reorganize" /\ pc \in InSetBestChain /\ pc \in Loaded /\ pc' = "Secondary"
    BY DEF CommitReorganize, InSetBestChain, Loaded, Running, Handler
  <1>2. /\ Matches(txn, pindexTip) /\ txn.next = Links(pindexTip)
        /\ pnext = Links(pindexBest) /\ txn.index = db.index
    BY <1>1 DEF ChainInv, ReorganizeInv, MemoryInv, IndInv, IndexInv
  <1>3. /\ pindexTip \in Block /\ pindexBest \in Block /\ txn \in Database /\ NoBlock \notin Block
    BY <1>1, NewFacts, TreeAssumption DEF IndInv, CallInv
  <1>4. /\ db'.index = db.index /\ db'.best = pindexTip
        /\ db'.pos = txn.pos /\ db'.spent = txn.spent /\ db'.next = txn.next
        /\ pindexTip' = pindexTip
    BY <1>2, <1>3 DEF CommitReorganize, Commit, Database, callVars
  <1>5. pnext' = Links(pindexTip)
    BY <1>2, <1>3, ReorganizedLinks DEF CommitReorganize
  <1>6. CommittedInv'
    BY <1>2, <1>3, <1>4 DEF ChainInv, CommittedInv, Matches, PlacementOK
  <1>7. MemoryInv' /\ ReorganizeInv'
    BY <1>1, <1>4, <1>5 DEF MemoryInv, ReorganizeInv, Loaded, Running, Handler
  <1> QED
    BY <1>6, <1>7 DEF ChainInv

LEMMA SecondaryFacts ==
    ASSUME IndInv, ChainInv, ConnectSecondary
    PROVE  /\ Towards(pindexTip, pindexNew) \in db.index \ {hashGenesisBlock}
           /\ hashPrevBlock[Towards(pindexTip, pindexNew)] = db.best
           /\ pc = "Secondary" /\ pc \in InSetBestChain
  <1>1. pc = "Secondary" /\ pc \in InSetBestChain
    BY DEF ConnectSecondary, InSetBestChain
  <1>2. /\ pindexTip \in Branch[pindexNew] /\ pindexTip # pindexNew /\ db.best = pindexTip
        /\ pindexNew \in Block /\ Branch[pindexNew] \subseteq db.index
    BY <1>1, NewFacts DEF IndInv, CallInv, ChainInv, MemoryInv, ConnectSecondary
  <1> QED
    BY <1>1, <1>2, TowardsFacts

LEMMA ConnectSecondaryChain == IndInv /\ ChainInv /\ PostponedConnect /\ ConnectSecondary => ChainInv'
  <1> SUFFICES ASSUME IndInv, ChainInv, PostponedConnect, ConnectSecondary PROVE ChainInv'
    OBVIOUS
  <1> DEFINE pindex == Towards(pindexTip, pindexNew)
  <1>1. /\ pindex \in db.index \ {hashGenesisBlock} /\ hashPrevBlock[pindex] = db.best
        /\ pc = "Secondary" /\ pc \in InSetBestChain
    BY SecondaryFacts
  <1>2. /\ ConnectBlockOK(db, pindex) /\ ConnectTip(pindex)
        /\ pindexTip' = pindex /\ pc' = "Secondary"
    BY <1>1 DEF PostponedConnect, ConnectSecondary
  <1> HIDE DEF pindex
  <1>3. /\ db'.index = db.index /\ db'.best = pindex
        /\ Matches(db', pindex) /\ db'.next = Links(pindex) /\ pnext' = Links(pindex)
    BY <1>1, <1>2, ConnectTipChain
  <1>4. pindex # NoBlock
    BY <1>1, TreeAssumption DEF IndInv, TypeOK, Database
  <1>5. CommittedInv'
    BY <1>3, <1>4 DEF ChainInv, CommittedInv, PlacementOK
  <1>6. MemoryInv' /\ ReorganizeInv'
    BY <1>2, <1>3 DEF MemoryInv, ReorganizeInv, Loaded, Running, Handler
  <1> QED
    BY <1>5, <1>6 DEF ChainInv

LEMMA NewBestChain == IndInv /\ ChainInv /\ NewBest => ChainInv'
  <1> SUFFICES ASSUME IndInv, ChainInv, NewBest PROVE ChainInv'
    OBVIOUS
  <1> USE DEF NewBest, dbVars
  <1>1. db.best = pindexNew /\ pc \in Loaded /\ pc' \in {"AcceptPending", "WriteSync"}
    BY DEF ChainInv, MemoryInv, Loaded, Running, Handler
  <1>2. CommittedInv'
    BY DEF ChainInv, CommittedInv, Matches, PlacementOK
  <1>3. MemoryInv' /\ ReorganizeInv'
    BY <1>1 DEF ChainInv, MemoryInv, ReorganizeInv, Loaded, Running, Handler
  <1> QED
    BY <1>2, <1>3 DEF ChainInv

(* IsInMainChain is what its name says whenever it is asked. *)
LEMMA MainChainBlocks ==
    ASSUME IndInv, ChainInv, pc \in Loaded \ {"Secondary", "NewBest"}, NEW b \in Block
    PROVE  IsInMainChain(b) <=> b \in Branch[pindexBest]
  <1>1. pindexBest = db.best /\ pnext = Links(pindexBest) /\ pindexBest \in Block
    BY ChainFacts DEF ChainInv, MemoryInv
  <1>2. b \in Branch[pindexBest] \ {pindexBest} <=> pnext[b] # NoBlock
    <2>1. CASE b \in Branch[pindexBest] \ {pindexBest}
      <3>1. pnext[b] = Towards(b, pindexBest)
        BY <1>1, <2>1 DEF Links
      <3>2. pnext[b] \in Block
        BY <1>1, <2>1, <3>1, TowardsFacts, BranchFacts
      <3> QED
        BY <2>1, <3>2, TreeAssumption
    <2>2. CASE b \notin Branch[pindexBest] \ {pindexBest}
      BY <1>1, <2>2, LinksFacts
    <2> QED
      BY <2>1, <2>2
  <1>3. pindexBest \in Branch[pindexBest]
    BY <1>1, BranchFacts
  <1> QED
    BY <1>2, <1>3 DEF IsInMainChain

LEMMA CheckpointChain ==
    ASSUME IndInv, ChainInv,
           \/ \E h \in SignedCheckpoint : ProcessSyncCheckpoint(h)
           \/ AcceptPendingSyncCheckpoint
           \/ WriteSyncCheckpoint
    PROVE  ChainInv'
  <1>0. db \in Database
    BY DEF IndInv, TypeOK
  <1> USE DEF Loaded, Running, Handler
  <1>1. ASSUME NEW h \in Block, NEW from, MoveToCheckpoint(h, from), pc \in {"idle", "AcceptPending"}
        PROVE  /\ pc' \in {"WriteSync", "SetBestChain"}
               /\ pc' = "SetBestChain" => pindexNew' \notin Branch[pindexBest]
    BY <1>1, MainChainBlocks DEF MoveToCheckpoint
  <1>2. ASSUME NEW h \in SignedCheckpoint, ProcessSyncCheckpoint(h) PROVE ChainInv'
    <2>1. h \in Block
      BY PolicyAssumption
    <2>2. pc = "idle" /\ UNCHANGED <<db, pnext, pindexBest>>
      BY <1>2 DEF ProcessSyncCheckpoint, dbVars, indexVars
    <2>3. pc' \in {"idle", "WriteSync", "SetBestChain"} /\ (pc' = "SetBestChain" => pindexNew' \notin Branch[pindexBest])
      BY <1>1, <1>2, <2>1, <2>2 DEF ProcessSyncCheckpoint
    <2> QED
      BY <2>2, <2>3, ChainKept
  <1>3. CASE AcceptPendingSyncCheckpoint
    <2>1. hashPendingCheckpoint \in mapBlockIndex => hashPendingCheckpoint \in Block
      BY DEF IndInv, TypeOK
    <2>2. pc = "AcceptPending" /\ UNCHANGED <<db, pnext, pindexBest>>
      BY <1>3 DEF AcceptPendingSyncCheckpoint, dbVars, indexVars
    <2>3. pc' \in {"Orphans", "WriteSync", "SetBestChain"} /\ (pc' = "SetBestChain" => pindexNew' \notin Branch[pindexBest])
      BY <1>1, <1>3, <2>1, <2>2 DEF AcceptPendingSyncCheckpoint, AcceptBlockReturns, ToOrphanLoop
    <2> QED
      BY <2>2, <2>3, ChainKept
  <1>4. CASE WriteSyncCheckpoint
    <2>1. pc = "WriteSync" /\ UNCHANGED <<pnext, pindexBest>> /\ pc' \in {"idle", "Orphans"}
      BY <1>4 DEF WriteSyncCheckpoint, indexVars, AcceptBlockReturns, ToOrphanLoop, Idle
    <2>2. /\ db'.index = db.index /\ db'.best = db.best
          /\ db'.pos = db.pos /\ db'.spent = db.spent /\ db'.next = db.next
      BY <1>0, <1>4 DEF WriteSyncCheckpoint, Commit, Database
    <2> QED
      BY <2>1, <2>2, ChainKept
  <1> QED
    BY <1>2, <1>3, <1>4

LEMMA NextChain == IndInv /\ ChainInv /\ PostponedConnect /\ [Next]_vars => ChainInv'
  <1> SUFFICES ASSUME IndInv, ChainInv, PostponedConnect, [Next]_vars PROVE ChainInv'
    OBVIOUS
  <1>1. CASE HandlerStep
    BY <1>1, OrphanLoopChain, ExtendBestChainChain, BeginReorganizeChain, DisconnectBlockChain,
       ConnectBlockChain, CommitReorganizeChain, ConnectSecondaryChain, NewBestChain, CheckpointChain
       DEF HandlerStep
  <1>2. CASE StartupStep
    BY <1>2, StartupChain
  <1>3. CASE Upgrade \/ Crash \/ UNCHANGED vars
    BY <1>3, StopChain
  <1>4. ASSUME NEW b \in Block \ {hashGenesisBlock}, ProcessBlock(b) \/ ProcessOrphanBlock(b)
        PROVE  ChainInv'
    BY <1>4, ProcessBlockChain
  <1>5. ASSUME NEW h \in SignedCheckpoint, ProcessSyncCheckpoint(h) PROVE ChainInv'
    BY <1>5, CheckpointChain
  <1> QED
    BY <1>1, <1>2, <1>3, <1>4, <1>5 DEF Next

(* The chain invariant holds as long as no postponed block fails. *)
THEOREM ChainInvariance == Spec /\ []PostponedConnect => []ChainInv
  BY InitChain, NextChain, Invariance, PTL DEF Spec

(* At every moment, and so after a crash at any moment, the transaction    *)
(* index on disk is that of the best chain on disk, for every tree of      *)
(* blocks and every content of them, as long as no postponed block fails   *)
(* to connect.                                                             *)
THEOREM TxIndexMatches == Spec /\ []PostponedConnect => []TxIndexMatchesBestChain
  <1>1. ChainInv => TxIndexMatchesBestChain
    BY DEF ChainInv, CommittedInv, Matches, TxIndexMatchesBestChain
  <1> QED
    BY <1>1, ChainInvariance, PTL

(* Under the same condition memory and database agree between two          *)
(* handlers, also after a restart.                                         *)
THEOREM MemoryMatchesDatabase == Spec /\ []PostponedConnect => []BestChainCommitted
  <1>1. IndInv /\ ChainInv => BestChainCommitted
    <2> SUFFICES ASSUME IndInv, ChainInv, pc = "idle"
                 PROVE  /\ pindexBest = db.best /\ hashSyncCheckpoint = db.sync
                        /\ mapBlockIndex = db.index /\ pnext = db.next
      BY DEF BestChainCommitted
    <2>1. pc \in Loaded
      BY DEF Loaded, Running
    <2>2. pindexBest = db.best /\ pnext = Links(db.best)
      BY <2>1 DEF ChainInv, MemoryInv
    <2>3. hashSyncCheckpoint = db.sync
      BY <2>1 DEF IndInv, IndexInv
    <2> QED
      BY <2>1, <2>2, <2>3, ChainFacts
  <1> QED
    BY <1>1, Invariance, ChainInvariance, PTL

(* Under the same condition pnext links the chain of the best block and    *)
(* nothing else, after any number of reorganisations and restarts.         *)
THEOREM ChainIsLinked == Spec /\ []PostponedConnect => []MainChainLinked
  <1>1. IndInv /\ ChainInv => MainChainLinked
    <2> SUFFICES ASSUME IndInv, ChainInv, pc = "idle", NEW b \in mapBlockIndex
                 PROVE  /\ IsInMainChain(b) <=> b \in Branch[pindexBest]
                        /\ pnext[b] # NoBlock => pnext[b] \in Branch[pindexBest] /\ hashPrevBlock[pnext[b]] = b
      BY DEF MainChainLinked
    <2>1. pc \in Loaded \ {"Secondary", "NewBest"} /\ b \in Block
      BY DEF Loaded, Running, IndInv, TypeOK
    <2>2. pindexBest = db.best /\ pnext = Links(pindexBest) /\ pindexBest \in Block
      BY <2>1, ChainFacts DEF ChainInv, MemoryInv
    <2> QED
      BY <2>1, <2>2, MainChainBlocks, LinksFacts
  <1> QED
    BY <1>1, Invariance, ChainInvariance, PTL

-----------------------------------------------------------------------------
(* The refinement of MainChain. *)

(* The steps that leave the committed best block alone. *)
LEMMA BestKept ==
    ASSUME IndInv, Next
    PROVE  \/ db'.best = db.best
           \/ GenesisBest \/ ExtendBestChain \/ CommitReorganize \/ ConnectSecondary
  <1>1. db \in Database /\ txn \in Database
    BY DEF IndInv, TypeOK
  <1>2. ASSUME NEW b \in Block, InvalidChainFound(b) PROVE db'.best = db.best
    BY <1>1, <1>2, InvalidChainFoundKept
  <1>3. ASSUME NEW b \in Block, AddToBlockIndex(b) PROVE db'.best = db.best
    BY <1>1, <1>3 DEF AddToBlockIndex, Commit, WriteBlockIndex, Database
  <1>4. CASE StartupStep
    BY <1>1, <1>4 DEF StartupStep, LoadBlockIndex, GenesisIndex, GenesisSync, MasterKey,
       ResetSyncCheckpoint, Commit, WriteBlockIndex, dbVars, Database
  <1>5. CASE HandlerStep
    <2>1. pc \in InSetBestChain => pindexNew \in Block
      BY NewFacts
    <2>2. ASSUME NEW o \in Block, AcceptOrphan(o) PROVE db'.best = db.best
      BY <1>3, <2>2 DEF AcceptOrphan, dbVars
    <2>3. CASE NextInWorkQueue \/ BeginReorganize \/ NewBest \/ AcceptPendingSyncCheckpoint
      BY <2>3 DEF NextInWorkQueue, BeginReorganize, NewBest, AcceptPendingSyncCheckpoint, dbVars
    <2>4. CASE DisconnectBlock
      BY <1>2, <2>1, <2>4 DEF DisconnectBlock, SetBestChainFails, InSetBestChain
    <2>5. CASE ConnectBlock
      BY <1>2, <2>1, <2>5 DEF ConnectBlock, SetBestChainFails, InSetBestChain
    <2>6. CASE WriteSyncCheckpoint
      BY <1>1, <2>6 DEF WriteSyncCheckpoint, Commit, Database
    <2> QED
      BY <1>5, <2>2, <2>3, <2>4, <2>5, <2>6 DEF HandlerStep
  <1>6. CASE Upgrade \/ Crash
    BY <1>6 DEF Upgrade, Crash, dbVars
  <1>7. ASSUME NEW b \in Block \ {hashGenesisBlock}, ProcessBlock(b) \/ ProcessOrphanBlock(b)
        PROVE  db'.best = db.best
    BY <1>3, <1>7 DEF ProcessBlock, ProcessOrphanBlock, dbVars
  <1>8. ASSUME NEW h \in SignedCheckpoint, ProcessSyncCheckpoint(h) PROVE db'.best = db.best
    BY <1>8 DEF ProcessSyncCheckpoint, dbVars
  <1> QED
    BY <1>4, <1>5, <1>6, <1>7, <1>8 DEF Next

(* How a step may move the committed best block. *)
LEMMA BestMoves ==
    ASSUME IndInv, ChainInv, PostponedConnect, Next, db'.best # db.best
    PROVE  \/ db.best \in {NoBlock, hashGenesisBlock} /\ db'.best = hashGenesisBlock
           \/ /\ db.best \in Block /\ db'.best \in Block /\ ValidChain(db'.best)
              /\ \/ db'.best # hashGenesisBlock /\ hashPrevBlock[db'.best] = db.best
                 \/ db'.best \notin Branch[db.best]
  <1>1. CASE GenesisBest
    <2>1. db.best \in {NoBlock, hashGenesisBlock} /\ db \in Database
      BY <1>1 DEF GenesisBest, IndInv, IndexInv, IndexClosed, TypeOK
    <2> QED
      BY <1>1, <2>1 DEF GenesisBest, Commit, Database
  <1>2. CASE ExtendBestChain
    <2>1. pc = "SetBestChain" /\ pc \in InSetBestChain /\ pc \in Loaded
      BY <1>2 DEF ExtendBestChain, InSetBestChain, Loaded, Running, Handler
    <2>2. /\ pindexNew \in db.index \ {hashGenesisBlock} /\ hashPrevBlock[pindexNew] = db.best
          /\ db.best \in Block /\ pindexNew \in Block /\ db \in Database
      BY <1>2, <2>1, ChainFacts DEF IndInv, CallInv, ChainInv, MemoryInv, ExtendBestChain
    <2>3. ConnectBlockOK(db, pindexNew) /\ ConnectTip(pindexNew)
      <3>1. ~ InvalidChainFound(pindexNew)
        BY <2>2, InvalidChainFoundKept
      <3> QED
        BY <1>2, <3>1 DEF ExtendBestChain, SetBestChainFails
    <2>4. db'.best = pindexNew /\ ValidChain(pindexNew)
      BY <2>1, <2>2, <2>3, ConnectTipChain DEF Matches
    <2> QED
      BY <2>2, <2>4
  <1>3. CASE CommitReorganize
    <2>1. pc = "Reorganize" /\ pc \in InSetBestChain /\ pc \in Loaded
      BY <1>3 DEF CommitReorganize, InSetBestChain, Loaded, Running, Handler
    <2>2. /\ Matches(txn, pindexTip) /\ pindexBest = db.best /\ pindexNew \notin Branch[pindexBest]
          /\ pindexTip = pindexIntermediate(pindexNew) /\ pindexNew \in Block /\ pindexBest \in Block
          /\ txn \in Database
      BY <1>3, <2>1, NewFacts DEF ChainInv, ReorganizeInv, MemoryInv, CommitReorganize
    <2>3. pindexTip \in Block /\ pindexTip \notin Branch[db.best]
      BY <2>2, IntermediateLeads, BranchFacts
    <2>4. db'.best = pindexTip
      BY <1>3, <2>2 DEF CommitReorganize, Commit, Database
    <2> QED
      BY <2>2, <2>3, <2>4 DEF Matches
  <1>4. CASE ConnectSecondary
    <2> DEFINE pindex == Towards(pindexTip, pindexNew)
    <2>1. /\ pindex \in db.index \ {hashGenesisBlock} /\ hashPrevBlock[pindex] = db.best
          /\ pc = "Secondary" /\ pc \in InSetBestChain /\ pc \in Loaded
      BY <1>4, SecondaryFacts DEF Loaded, Running, Handler
    <2>2. ConnectBlockOK(db, pindex) /\ ConnectTip(pindex)
      BY <1>4, <2>1 DEF PostponedConnect, ConnectSecondary
    <2> HIDE DEF pindex
    <2>3. db'.best = pindex /\ ValidChain(pindex)
      BY <2>1, <2>2, ConnectTipChain DEF Matches
    <2>4. db.best \in Block /\ pindex \in Block
      BY <2>1, ChainFacts
    <2> QED
      BY <2>1, <2>3, <2>4
  <1> QED
    BY <1>1, <1>2, <1>3, <1>4, BestKept

(* MainChain means the same by a valid chain. *)
LEMMA SameValidChain == \A b \in Block : ValidChain(b) => Chain!ValidChain(b)
  <1>1. nHeight = Chain!nHeight
    BY DEF nHeight, Chain!nHeight, Cardinality, Chain!Cardinality
  <1>2. OutPoint = Chain!OutPoint
    BY DEF OutPoint, Chain!OutPoint
  <1>3. \A b : TxsOf(b) = Chain!TxsOf(b)
    BY DEF TxsOf, Chain!TxsOf
  <1>4. \A t : (IsCoinBase(t) <=> Chain!IsCoinBase(t)) /\ (IsCoinStake(t) <=> Chain!IsCoinStake(t))
    BY DEF IsCoinBase, Chain!IsCoinBase, IsCoinStake, Chain!IsCoinStake
  <1>5. \A c, i, o : Created(c, i, o) => Chain!Created(c, i, o)
    BY <1>1, <1>4, Zenon DEF Created, Chain!Created
  <1> QED
    BY <1>2, <1>3, <1>5 DEF ValidChain, Chain!ValidChain

(* BlockChain implements MainChain: as long as no postponed block fails,   *)
(* one commit moves the best block to a child or to a block it does not    *)
(* descend from, and to a valid chain.                                     *)
THEOREM MainChainImplemented == Spec /\ []PostponedConnect => ImplementsMainChain
  <1> DEFINE best == IF db.best = NoBlock THEN hashGenesisBlock ELSE db.best
  <1>1. Init => Chain!ChainInit
    BY DEF Init, Chain!ChainInit
  <1>2. IndInv /\ ChainInv /\ PostponedConnect /\ [Next]_vars =>
           [\E b \in Block : Chain!Extend(b) \/ Chain!Reorganize(b)]_best
    <2> SUFFICES ASSUME IndInv, ChainInv, PostponedConnect, [Next]_vars, best' # best
                 PROVE  \E b \in Block : Chain!Extend(b) \/ Chain!Reorganize(b)
      OBVIOUS
    <2>1. Next /\ db'.best # db.best
      BY DEF vars, dbVars
    <2>2. /\ db.best \in Block /\ db'.best \in Block /\ ValidChain(db'.best)
          /\ \/ db'.best # hashGenesisBlock /\ hashPrevBlock[db'.best] = db.best
             \/ db'.best \notin Branch[db.best]
      BY <2>1, BestMoves
    <2>3. best = db.best /\ best' = db'.best
      BY <2>2, TreeAssumption
    <2>4. Chain!ValidChain(db'.best)
      BY <2>2, SameValidChain
    <2> QED
      BY <2>2, <2>3, <2>4 DEF Chain!Extend, Chain!Reorganize
  <1> QED
    BY <1>1, <1>2, Invariance, ChainInvariance, PTL DEF Spec, ImplementsMainChain, Chain!ChainSpec

-----------------------------------------------------------------------------
(* Synchronized checkpoints under the strict policy. *)

(* The checkpoint is in the committed chain, and every chain on its way to *)
(* become the best one holds it.                                           *)
SyncInv ==
    /\ db.sync # NoBlock => db.sync \in Branch[db.best]
    /\ pc = "WriteSync" => pindexNew \in Branch[db.best]
    /\ pc \in InSetBestChain => db.sync \in Branch[pindexNew]

LEMMA InitSync == Init => SyncInv
  BY DEF Init, SyncInv, InSetBestChain

(* A step that moves neither and ends outside SetBestChain. *)
LEMMA SyncStays ==
    ASSUME SyncInv, db'.sync = db.sync, db'.best = db.best,
           pc' \notin InSetBestChain \cup {"WriteSync"}
    PROVE  SyncInv'
  BY DEF SyncInv

(* CheckSync lets in only descendants of the checkpoint. *)
LEMMA AddToBlockIndexSync ==
    ASSUME IndInv, SyncInv, CheckpointsMode = "STRICT", NEW b \in Block \ {hashGenesisBlock},
           AddToBlockIndex(b), AcceptBlockOK(b), pc \in {"idle", "Orphans"}
    PROVE  SyncInv'
  <1>1. /\ hashSyncCheckpoint = db.sync /\ db.sync # NoBlock /\ hashSyncCheckpoint \in mapBlockIndex
        /\ db \in Database /\ mapBlockIndex \subseteq Block
    BY DEF IndInv, IndexInv, IndexClosed, TypeOK, Loaded, Running, Handler
  <1>2. db'.sync = db.sync /\ db'.best = db.best
    BY <1>1 DEF AddToBlockIndex, Commit, WriteBlockIndex, Database
  <1>3. b \notin mapBlockIndex /\ CheckSync(b)
    BY DEF AcceptBlockOK
  <1>4. hashPrevBlock[b] \in Block /\ Branch[b] = Branch[hashPrevBlock[b]] \cup {b}
    BY TreeAssumption
  <1>5. nHeight[hashPrevBlock[b]] + 1 > nHeight[hashSyncCheckpoint]
    <2>1. nHeight[hashPrevBlock[b]] \in Nat /\ nHeight[hashSyncCheckpoint] \in Nat
      BY <1>1, <1>4, HeightFacts
    <2> QED
      BY <1>1, <1>3, <2>1 DEF CheckSync
  <1>6. db.sync \in Branch[b]
    BY <1>1, <1>3, <1>4, <1>5 DEF CheckSync
  <1>7. \/ pc' = "SetBestChain" /\ pindexNew' = b
        \/ pc' = "AcceptPending"
    BY DEF AddToBlockIndex
  <1> QED
    BY <1>2, <1>6, <1>7 DEF SyncInv, InSetBestChain

LEMMA StartupSync == IndInv /\ SyncInv /\ (StartupStep \/ Crash \/ Upgrade) => SyncInv'
  <1> SUFFICES ASSUME IndInv, SyncInv, StartupStep \/ Crash \/ Upgrade PROVE SyncInv'
    OBVIOUS
  <1>0. db \in Database /\ {db.best, db.sync} \subseteq db.index \cup {NoBlock} /\ db.index \subseteq Block
    BY DEF IndInv, TypeOK, IndexClosed, Database
  <1>1. CASE LoadBlockIndex \/ GenesisIndex \/ MasterKey \/ Crash \/ Upgrade
    <2>1. db'.sync = db.sync /\ db'.best = db.best
      BY <1>0, <1>1 DEF LoadBlockIndex, GenesisIndex, MasterKey, Crash, Upgrade, Commit,
         WriteBlockIndex, Database, dbVars
    <2>2. pc' \notin InSetBestChain \cup {"WriteSync"}
      BY <1>1 DEF LoadBlockIndex, GenesisIndex, MasterKey, Crash, Upgrade, InSetBestChain
    <2> QED
      BY <2>1, <2>2, SyncStays
  <1>2. CASE GenesisBest
    <2>1. db'.sync = db.sync /\ db'.best = hashGenesisBlock /\ db.sync \in {NoBlock, hashGenesisBlock}
      BY <1>0, <1>2 DEF GenesisBest, Commit, Database, IndInv, IndexInv
    <2> QED
      BY <1>2, <2>1, TreeAssumption DEF GenesisBest, SyncInv, InSetBestChain
  <1>3. CASE GenesisSync \/ ResetSyncCheckpoint
    <2>1. db'.sync = hashGenesisBlock /\ db'.best = db.best
      BY <1>0, <1>3 DEF GenesisSync, ResetSyncCheckpoint, Commit, Database
    <2>2. db.best \in Block
      BY <1>0, <1>3, TreeAssumption DEF GenesisSync, ResetSyncCheckpoint, IndInv, IndexInv, Loaded
    <2> QED
      BY <1>3, <2>1, <2>2, TreeAssumption
         DEF GenesisSync, ResetSyncCheckpoint, SyncInv, InSetBestChain
  <1> QED
    BY <1>1, <1>2, <1>3 DEF StartupStep

LEMMA SetBestChainFailsSync ==
    ASSUME IndInv, SyncInv, pc \in InSetBestChain, SetBestChainFails(pindexNew)
    PROVE  SyncInv'
  <1>1. pindexNew \in Block /\ db \in Database /\ nBestInvalidTrust \in Trust
    BY NewFacts DEF IndInv, TypeOK
  <1>2. db'.sync = db.sync /\ db'.best = db.best
    BY <1>1, InvalidChainFoundType DEF SetBestChainFails
  <1>3. pc' \in {"idle", "Orphans"}
    BY DEF SetBestChainFails, AcceptBlockFails, AcceptBlockReturns, ToOrphanLoop, Idle
  <1> QED
    BY <1>2, <1>3, SyncStays DEF InSetBestChain

LEMMA SetBestChainSync ==
    ASSUME IndInv, ChainInv, PostponedConnect, SyncInv,
           ExtendBestChain \/ BeginReorganize \/ DisconnectBlock \/ ConnectBlock \/ CommitReorganize
               \/ ConnectSecondary \/ NewBest
    PROVE  SyncInv'
  <1>1. pc \in InSetBestChain /\ pc \in Loaded
    BY DEF ExtendBestChain, BeginReorganize, DisconnectBlock, ConnectBlock, CommitReorganize,
       ConnectSecondary, NewBest, InSetBestChain, Loaded, Running, Handler
  <1>2. /\ db.sync # NoBlock /\ db.sync \in Branch[db.best] /\ db.sync \in Branch[pindexNew]
        /\ pindexNew \in Block /\ db \in Database /\ txn \in Database /\ txn.sync = db.sync
        /\ db.best \in Block
    BY <1>1, NewFacts, ChainFacts DEF SyncInv, IndInv, IndexInv
  <1>3. CASE SetBestChainFails(pindexNew)
    BY <1>1, <1>3, SetBestChainFailsSync
  <1>4. CASE ExtendBestChain /\ ConnectBlockOK(db, pindexNew)
    <2>1. db' = [Connected(db, pindexNew) EXCEPT !.best = pindexNew] /\ pc' = "NewBest" /\ pindexNew' = pindexNew
      BY <1>4 DEF ExtendBestChain, ConnectTip, Commit, callVars
    <2>2. db'.best = pindexNew /\ db'.sync = db.sync
      BY <1>2, <2>1 DEF Connected, Database
    <2> QED
      BY <1>2, <2>1, <2>2 DEF SyncInv
  <1>5. CASE UNCHANGED <<db, pindexNew>> /\ pc' \in InSetBestChain
    BY <1>1, <1>5 DEF SyncInv, InSetBestChain
  <1>6. CASE CommitReorganize
    <2>1. /\ pc = "Reorganize" /\ pc' = "Secondary" /\ pindexNew' = pindexNew
          /\ pindexTip = pindexIntermediate(pindexNew)
      BY <1>6 DEF CommitReorganize, callVars
    <2>2. pindexBest = db.best /\ pindexNew \notin Branch[pindexBest]
      BY <1>1, <2>1 DEF ChainInv, MemoryInv, ReorganizeInv
    <2>3. pindexTip \in Branch[pindexNew] /\ pindexTip \notin Branch[db.best]
      BY <1>2, <2>1, <2>2, IntermediateLeads
    <2>4. db.sync \in Branch[pindexTip]
      <3>1. db.sync \in Branch[pindexTip] \/ pindexTip \in Branch[db.sync]
        BY <1>2, <2>3, Comparable
      <3>2. Branch[db.sync] \subseteq Branch[db.best]
        BY <1>2, TreeAssumption
      <3> QED
        BY <2>3, <3>1, <3>2
    <2>5. db'.best = pindexTip /\ db'.sync = db.sync
      BY <1>2, <1>6 DEF CommitReorganize, Commit, Database
    <2> QED
      BY <1>2, <2>1, <2>4, <2>5 DEF SyncInv
  <1>7. CASE ConnectSecondary
    <2> DEFINE pindex == Towards(pindexTip, pindexNew)
    <2>1. /\ pindex \in db.index \ {hashGenesisBlock} /\ hashPrevBlock[pindex] = db.best
          /\ pc = "Secondary"
      BY <1>7, SecondaryFacts
    <2>2. /\ ConnectTip(pindex) /\ pc' = "Secondary" /\ pindexNew' = pindexNew
      BY <1>7, <2>1 DEF PostponedConnect, ConnectSecondary
    <2> HIDE DEF pindex
    <2>3. db'.best = pindex /\ db'.sync = db.sync
      BY <1>2, <2>2 DEF ConnectTip, Commit, Connected, Database
    <2>4. Branch[pindex] = Branch[db.best] \cup {pindex}
      BY <1>2, <2>1, TreeAssumption DEF Database
    <2> QED
      BY <1>2, <2>2, <2>3, <2>4 DEF SyncInv
  <1>8. CASE NewBest
    <2>1. db' = db /\ pindexNew' = pindexNew /\ db.best = pindexNew /\ pc' \in {"AcceptPending", "WriteSync"}
      BY <1>8 DEF NewBest, dbVars, callVars, ChainInv, MemoryInv
    <2> QED
      BY <1>2, <2>1, BranchFacts DEF SyncInv, InSetBestChain
  <1>9. CASE ExtendBestChain /\ ~ ConnectBlockOK(db, pindexNew)
    BY <1>3, <1>9 DEF ExtendBestChain
  <1>10. CASE BeginReorganize \/ DisconnectBlock \/ ConnectBlock
    BY <1>1, <1>3, <1>5, <1>10 DEF BeginReorganize, DisconnectBlock, ConnectBlock, dbVars, InSetBestChain
  <1> QED
    BY <1>4, <1>6, <1>7, <1>8, <1>9, <1>10

LEMMA CheckpointSync ==
    ASSUME IndInv, IndInv', ChainInv, SyncInv,
           \/ \E h \in SignedCheckpoint : ProcessSyncCheckpoint(h)
           \/ AcceptPendingSyncCheckpoint
           \/ WriteSyncCheckpoint
    PROVE  SyncInv'
  <1>0. db \in Database
    BY DEF IndInv, TypeOK
  <1>1. ASSUME NEW h \in Block, NEW from, from # "AddToBlockIndex", MoveToCheckpoint(h, from),
               pc \in {"idle", "AcceptPending"}, UNCHANGED <<db, hashSyncCheckpoint>>
        PROVE  SyncInv'
    <2>1. pc \in Loaded \ {"Secondary", "NewBest"}
      BY <1>1 DEF Loaded, Running, Handler
    <2>2. pindexBest = db.best /\ hashSyncCheckpoint = db.sync
      BY <2>1 DEF ChainInv, MemoryInv, IndInv, IndexInv
    <2>3. caller' = from /\ pindexNew' = h /\ pc' \in {"WriteSync", "SetBestChain"}
      BY <1>1 DEF MoveToCheckpoint
    <2>4. pc' = "WriteSync" => h \in Branch[db.best]
      BY <1>1, <2>1, <2>2, MainChainBlocks DEF MoveToCheckpoint
    <2>5. hashSyncCheckpoint' \in Branch[pindexNew']
      BY <1>1, <2>3 DEF IndInv, CheckpointInv, InSetBestChain
    <2> QED
      BY <1>1, <2>2, <2>3, <2>4, <2>5 DEF SyncInv, InSetBestChain
  <1>2. ASSUME NEW h \in SignedCheckpoint, ProcessSyncCheckpoint(h) PROVE SyncInv'
    <2>1. h \in Block /\ db' = db /\ pc = "idle" /\ hashSyncCheckpoint' = hashSyncCheckpoint
      BY <1>2, PolicyAssumption DEF ProcessSyncCheckpoint, dbVars
    <2>2. CASE MoveToCheckpoint(h, "ProcessSync")
      BY <1>1, <2>1, <2>2
    <2>3. CASE pc' = pc
      BY <2>1, <2>3, SyncStays DEF InSetBestChain
    <2> QED
      BY <1>2, <2>2, <2>3 DEF ProcessSyncCheckpoint
  <1>3. CASE AcceptPendingSyncCheckpoint
    <2>1. db' = db /\ pc = "AcceptPending" /\ hashSyncCheckpoint' = hashSyncCheckpoint
      BY <1>3 DEF AcceptPendingSyncCheckpoint, dbVars
    <2>2. CASE MoveToCheckpoint(hashPendingCheckpoint, "AcceptPending") /\ hashPendingCheckpoint \in mapBlockIndex
      <3>1. hashPendingCheckpoint \in Block
        BY <2>2 DEF IndInv, TypeOK
      <3> QED
        BY <1>1, <2>1, <2>2, <3>1
    <2>3. CASE AcceptBlockReturns
      BY <2>1, <2>3, SyncStays DEF AcceptBlockReturns, ToOrphanLoop, InSetBestChain
    <2> QED
      BY <1>3, <2>2, <2>3 DEF AcceptPendingSyncCheckpoint
  <1>4. CASE WriteSyncCheckpoint
    <2>1. pc = "WriteSync" /\ pc' \in {"idle", "Orphans"}
      BY <1>4 DEF WriteSyncCheckpoint, AcceptBlockReturns, ToOrphanLoop, Idle
    <2>2. db'.sync = pindexNew /\ db'.best = db.best
      BY <1>0, <1>4 DEF WriteSyncCheckpoint, Commit, Database
    <2> QED
      BY <2>1, <2>2 DEF SyncInv, InSetBestChain
  <1> QED
    BY <1>2, <1>3, <1>4

LEMMA NextSync ==
    ASSUME CheckpointsMode = "STRICT"
    PROVE  IndInv /\ IndInv' /\ ChainInv /\ PostponedConnect /\ SyncInv /\ [Next]_vars => SyncInv'
  <1> SUFFICES ASSUME IndInv, IndInv', ChainInv, PostponedConnect, SyncInv, [Next]_vars PROVE SyncInv'
    OBVIOUS
  <1>1. ASSUME NEW o \in Block, AcceptOrphan(o) PROVE SyncInv'
    <2>1. o \in Block \ {hashGenesisBlock} /\ pc = "Orphans"
      BY <1>1 DEF IndInv, TypeOK, AcceptOrphan, OrphansOf
    <2>2. CASE AcceptBlockOK(o)
      BY <1>1, <2>1, <2>2, AddToBlockIndexSync DEF AcceptOrphan
    <2>3. CASE ~ AcceptBlockOK(o)
      BY <1>1, <2>1, <2>3, SyncStays DEF AcceptOrphan, dbVars, InSetBestChain
    <2> QED
      BY <2>2, <2>3
  <1>2. CASE NextInWorkQueue
    BY <1>2, SyncStays DEF NextInWorkQueue, Idle, dbVars, InSetBestChain
  <1>3. CASE HandlerStep
    BY <1>1, <1>2, <1>3, SetBestChainSync, CheckpointSync DEF HandlerStep
  <1>4. ASSUME NEW b \in Block \ {hashGenesisBlock}, ProcessBlock(b) \/ ProcessOrphanBlock(b)
        PROVE  SyncInv'
    <2>1. CASE ProcessBlock(b)
      BY <2>1, AddToBlockIndexSync DEF ProcessBlock
    <2>2. CASE ProcessOrphanBlock(b)
      BY <2>2, SyncStays DEF ProcessOrphanBlock, dbVars, InSetBestChain
    <2> QED
      BY <1>4, <2>1, <2>2
  <1>5. ASSUME NEW h \in SignedCheckpoint, ProcessSyncCheckpoint(h) PROVE SyncInv'
    BY <1>5, CheckpointSync
  <1>6. CASE UNCHANGED vars
    BY <1>6 DEF vars, dbVars, callVars, SyncInv
  <1> QED
    BY <1>3, <1>4, <1>5, <1>6, StartupSync DEF Next

(* Under the strict policy the checkpoint is in the main chain, on disk at *)
(* every moment and in memory between two handlers, as long as no          *)
(* postponed block fails: CheckSync keeps the other branches out, and the  *)
(* branch that a reorganisation stops at is never below the checkpoint.    *)
THEOREM SyncCheckpointKept ==
    ASSUME CheckpointsMode = "STRICT"
    PROVE  Spec /\ []PostponedConnect => []SyncCheckpointInMainChain
  <1>1. IndInv /\ ChainInv /\ SyncInv => SyncCheckpointInMainChain
    <2> SUFFICES ASSUME IndInv, ChainInv, SyncInv, pc = "idle"
                 PROVE  hashSyncCheckpoint \in Branch[pindexBest]
      BY DEF SyncInv, SyncCheckpointInMainChain
    <2> QED
      BY DEF IndInv, IndexInv, ChainInv, MemoryInv, SyncInv, Loaded, Running
  <1>2. IndInv /\ IndInv' /\ ChainInv /\ PostponedConnect /\ SyncInv /\ [Next]_vars => SyncInv'
    BY NextSync
  <1> QED
    BY <1>1, <1>2, InitSync, Invariance, ChainInvariance, PTL DEF Spec

-----------------------------------------------------------------------------
(* The holding area. *)

(* AcceptBlock is at work on pblock. *)
InAcceptBlock ==
    \/ pc \in InSetBestChain \cup {"WriteSync"} /\ caller # "ProcessSync"
    \/ pc = "AcceptPending"

(* The orphans of block b are still to be looked at. *)
Expected(b) ==
    \/ \E i \in 1..Len(vWorkQueue) : vWorkQueue[i] = b
    \/ InAcceptBlock /\ pblock = b

OrphanInv ==
    /\ pc \notin Handler => vWorkQueue = <<>>
    /\ pc \notin Running => mapOrphanBlocks = {}
    /\ pc \in InSetBestChain \cup {"WriteSync"} /\ caller = "ProcessSync" => vWorkQueue = <<>>
    /\ pc \in InSetBestChain /\ caller = "AddToBlockIndex" => pindexNew = pblock
    /\ \A o \in mapOrphanBlocks :
          hashPrevBlock[o] \in mapBlockIndex =>
              ~ ValidChain(hashPrevBlock[o]) \/ Expected(hashPrevBlock[o])

(* A queue shows what it showed, and the block appended to it. *)
LEMMA AppendShows ==
    ASSUME NEW S, NEW q \in Seq(S), NEW b \in S
    PROVE  /\ \A a : (\E i \in 1..Len(q) : q[i] = a) => \E i \in 1..Len(Append(q, b)) : Append(q, b)[i] = a
           /\ \E i \in 1..Len(Append(q, b)) : Append(q, b)[i] = b
  <1>1. /\ Len(Append(q, b)) = Len(q) + 1 /\ Len(q) \in Nat
        /\ \A i \in 1..Len(q) : Append(q, b)[i] = q[i]
        /\ Append(q, b)[Len(q) + 1] = b
    OBVIOUS
  <1>2. ASSUME NEW i \in 1..Len(q) PROVE i \in 1..Len(Append(q, b)) /\ Append(q, b)[i] = q[i]
    BY <1>1
  <1>3. Len(q) + 1 \in 1..Len(Append(q, b))
    BY <1>1
  <1> QED
    BY <1>1, <1>2, <1>3

LEMMA TailShows ==
    ASSUME NEW S, NEW q \in Seq(S), q # <<>>, NEW a, a # Head(q), NEW i \in 1..Len(q), q[i] = a
    PROVE  \E j \in 1..Len(Tail(q)) : Tail(q)[j] = a
  <1>1. Len(q) \in Nat /\ Len(Tail(q)) = Len(q) - 1 /\ Head(q) = q[1]
    OBVIOUS
  <1>2. i # 1
    BY <1>1
  <1>3. i - 1 \in 1..Len(Tail(q))
    BY <1>1, <1>2
  <1>4. Tail(q)[i - 1] = q[i]
    BY <1>1, <1>3
  <1> QED
    BY <1>3, <1>4

LEMMA InitOrphan == Init => OrphanInv
  BY DEF Init, OrphanInv, InSetBestChain, Handler

(* A step that leaves blocks and handler alone, or only drops orphans. *)
LEMMA OrphanKept ==
    ASSUME OrphanInv, mapOrphanBlocks' \subseteq mapOrphanBlocks,
           UNCHANGED <<mapBlockIndex, pc, caller, pblock, pindexNew, vWorkQueue>>
    PROVE  OrphanInv'
  BY DEF OrphanInv, Expected, InAcceptBlock

LEMMA StartupOrphan == IndInv /\ OrphanInv /\ (StartupStep \/ Crash \/ Upgrade) => OrphanInv'
  <1> SUFFICES ASSUME IndInv, OrphanInv, StartupStep \/ Crash \/ Upgrade PROVE OrphanInv'
    OBVIOUS
  <1>1. CASE Crash
    BY <1>1 DEF Crash, OrphanInv, InSetBestChain, Handler
  <1>2. CASE Upgrade
    BY <1>2, OrphanKept DEF Upgrade, indexVars, orphanVars, callVars
  <1>3. CASE StartupStep
    <2>1. /\ pc \in {"down"} \cup Startup /\ pc' \in {"idle", "failed"} \cup Startup
          /\ UNCHANGED <<orphanVars, callVars>>
      BY <1>3 DEF StartupStep, LoadBlockIndex, GenesisIndex, GenesisBest, GenesisSync, MasterKey,
         ResetSyncCheckpoint, Startup
    <2>2. vWorkQueue' = <<>> /\ mapOrphanBlocks' = {}
      BY <2>1 DEF OrphanInv, Handler, Running, Startup, callVars, orphanVars
    <2> QED
      BY <2>1, <2>2 DEF OrphanInv, InSetBestChain, Startup
  <1> QED
    BY <1>1, <1>2, <1>3

(* What AcceptBlock may do when it is done with pblock. *)
LEMMA ReturnOrphan ==
    ASSUME IndInv, OrphanInv, pc \in InSetBestChain \cup {"WriteSync", "AcceptPending"},
           UNCHANGED <<mapBlockIndex, mapOrphanBlocks>>,
           \/ pc \in InSetBestChain /\ caller = "AddToBlockIndex" /\ AcceptBlockFails /\ ~ ValidChain(pindexNew)
           \/ InAcceptBlock /\ AcceptBlockReturns
           \/ pc \in InSetBestChain \cup {"WriteSync"} /\ caller = "ProcessSync" /\ Idle
    PROVE  OrphanInv'
  <1>1. vWorkQueue \in Seq(Block) /\ (InAcceptBlock => pblock \in Block)
    BY DEF IndInv, TypeOK, CallInv, InAcceptBlock
  <1>2. CASE pc \in InSetBestChain /\ caller = "AddToBlockIndex" /\ AcceptBlockFails /\ ~ ValidChain(pindexNew)
    <2>1. pc' \in {"idle", "Orphans"} /\ vWorkQueue' = vWorkQueue /\ (pc' = "idle" => vWorkQueue' = <<>>)
      BY <1>2 DEF AcceptBlockFails, Idle, ToOrphanLoop
    <2>2. pindexNew = pblock
      BY <1>2 DEF OrphanInv
    <2>3. \A b : Expected(b) => (\E i \in 1..Len(vWorkQueue') : vWorkQueue'[i] = b) \/ b = pblock
      BY <2>1 DEF Expected
    <2>4. \A b : (\E i \in 1..Len(vWorkQueue') : vWorkQueue'[i] = b) => Expected(b)'
      BY DEF Expected
    <2>5. ASSUME NEW o \in mapOrphanBlocks, hashPrevBlock[o] \in mapBlockIndex, ValidChain(hashPrevBlock[o])
          PROVE  Expected(hashPrevBlock[o])'
      <3>1. Expected(hashPrevBlock[o])
        BY <2>5 DEF OrphanInv
      <3>2. hashPrevBlock[o] # pblock
        BY <1>2, <2>2, <2>5
      <3> DEFINE b == hashPrevBlock[o]
      <3> HIDE DEF b
      <3>3. b' = b
        BY DEF b
      <3>4. \E i \in 1..Len(vWorkQueue') : vWorkQueue'[i] = b
        BY <2>3, <3>1, <3>2 DEF b
      <3> QED
        BY <3>4 DEF Expected, b
    <2> QED
      BY <2>1, <2>5 DEF OrphanInv, InSetBestChain, Handler, Running
  <1>3. CASE InAcceptBlock /\ AcceptBlockReturns
    <2>1. pc' = "Orphans" /\ vWorkQueue' = Append(vWorkQueue, pblock)
      BY <1>3 DEF AcceptBlockReturns, ToOrphanLoop
    <2>2. ASSUME NEW b, Expected(b) PROVE \E i \in 1..Len(vWorkQueue') : vWorkQueue'[i] = b
      BY <1>1, <1>3, <2>1, <2>2, AppendShows DEF Expected
    <2>3. ASSUME NEW o \in mapOrphanBlocks, hashPrevBlock[o] \in mapBlockIndex, ValidChain(hashPrevBlock[o])
          PROVE  Expected(hashPrevBlock[o])'
      <3>1. Expected(hashPrevBlock[o])
        BY <2>3 DEF OrphanInv
      <3> QED
        BY <2>2, <3>1 DEF Expected
    <2> QED
      BY <2>1, <2>3 DEF OrphanInv, InSetBestChain, Handler, Running
  <1>4. CASE pc \in InSetBestChain \cup {"WriteSync"} /\ caller = "ProcessSync" /\ Idle
    <2>1. vWorkQueue = <<>> /\ ~ InAcceptBlock
      BY <1>4 DEF OrphanInv, InAcceptBlock, InSetBestChain
    <2>2. \A b : ~ Expected(b)
      BY <2>1 DEF Expected
    <2> QED
      BY <1>4, <2>2 DEF OrphanInv, Idle, InSetBestChain, Running
  <1> QED
    BY <1>2, <1>3, <1>4

(* A step inside SetBestChain, or to the checkpoint code after it. *)
LEMMA SetBestChainOrphan ==
    ASSUME OrphanInv, pc \in InSetBestChain,
           pc' \in InSetBestChain \/ (pc' = "AcceptPending" /\ caller = "AddToBlockIndex")
               \/ (pc' = "WriteSync" /\ caller # "AddToBlockIndex"),
           UNCHANGED <<mapBlockIndex, mapOrphanBlocks, caller, pblock, pindexNew, vWorkQueue>>
    PROVE  OrphanInv'
  <1>1. InAcceptBlock => InAcceptBlock'
    BY DEF InAcceptBlock, InSetBestChain
  <1>2. ASSUME NEW o \in mapOrphanBlocks, hashPrevBlock[o] \in mapBlockIndex, ValidChain(hashPrevBlock[o])
        PROVE  Expected(hashPrevBlock[o])'
    <2>1. Expected(hashPrevBlock[o])
      BY <1>2 DEF OrphanInv
    <2> QED
      BY <1>1, <2>1 DEF Expected
  <1> QED
    BY <1>2 DEF OrphanInv, InSetBestChain, Handler, Running

(* SetBestChain fails on invalid chains only. *)
LEMMA FailsInvalid ==
    ASSUME IndInv, ChainInv,
           \/ ExtendBestChain /\ ~ ConnectBlockOK(db, pindexNew)
           \/ DisconnectBlock /\ ~ DisconnectBlockOK(txn, pindexTip)
           \/ ConnectBlock /\ ~ ConnectBlockOK(txn, Towards(pindexTip, pindexIntermediate(pindexNew)))
    PROVE  ~ ValidChain(pindexNew)
  <1> DEFINE new == pindexIntermediate(pindexNew)
  <1>0. pc \in InSetBestChain /\ pc \in Loaded /\ pc \in {"SetBestChain", "Reorganize"}
    BY DEF ExtendBestChain, DisconnectBlock, ConnectBlock, InSetBestChain, Loaded, Running, Handler
  <1>1. /\ pindexNew \in Block \ {hashGenesisBlock} /\ new \in Branch[pindexNew] /\ new \in Block
        /\ Branch[new] \subseteq Branch[pindexNew]
    BY <1>0, NewFacts, IntermediateFacts, TreeAssumption
  <1>2. CASE ExtendBestChain /\ ~ ConnectBlockOK(db, pindexNew)
    <2>1. hashPrevBlock[pindexNew] = db.best /\ Matches(db, db.best)
      BY <1>0, <1>2, ChainFacts DEF ExtendBestChain, ChainInv, MemoryInv
    <2> QED
      BY <1>1, <1>2, <2>1, ValidConnects
  <1>3. CASE DisconnectBlock /\ ~ DisconnectBlockOK(txn, pindexTip)
    <2>1. pc = "Reorganize" /\ Matches(txn, pindexTip) /\ pindexTip \notin Branch[new]
      BY <1>3 DEF DisconnectBlock, ChainInv, ReorganizeInv
    <2>2. pindexTip \in Block /\ hashGenesisBlock \in Branch[new]
      BY <1>0, <1>1, <2>1, NewFacts, TreeAssumption DEF IndInv, CallInv
    <2> QED
      BY <1>3, <2>1, <2>2, ValidDisconnects
  <1>4. CASE ConnectBlock /\ ~ ConnectBlockOK(txn, Towards(pindexTip, new))
    <2> DEFINE pindex == Towards(pindexTip, new)
    <2>1. pc = "Reorganize" /\ Matches(txn, pindexTip) /\ pindexTip \in Branch[new] /\ pindexTip # new
      BY <1>4 DEF ConnectBlock, ChainInv, ReorganizeInv
    <2>2. pindex \in Branch[new] \ {hashGenesisBlock} /\ hashPrevBlock[pindex] = pindexTip
      BY <1>1, <2>1, TowardsFacts
    <2>3. pindex \in Block /\ pindex \in Branch[pindexNew]
      BY <1>1, <2>2, BranchFacts
    <2> HIDE DEF pindex, new
    <2>4. ~ ValidChain(pindex)
      BY <1>4, <2>1, <2>2, <2>3, ValidConnects DEF pindex
    <2> QED
      BY <1>1, <2>3, <2>4, ValidBranch
  <1> QED
    BY <1>2, <1>3, <1>4

LEMMA SetBestChainStepsOrphan ==
    ASSUME IndInv, ChainInv, PostponedConnect, OrphanInv,
           ExtendBestChain \/ BeginReorganize \/ DisconnectBlock \/ ConnectBlock \/ CommitReorganize
               \/ ConnectSecondary \/ NewBest
    PROVE  OrphanInv'
  <1>1. pc \in InSetBestChain /\ UNCHANGED <<mapBlockIndex, mapOrphanBlocks>>
    BY DEF ExtendBestChain, BeginReorganize, DisconnectBlock, ConnectBlock, CommitReorganize,
       ConnectSecondary, NewBest, InSetBestChain, indexVars, orphanVars
  <1>2. CASE SetBestChainFails(pindexNew) /\ ~ ValidChain(pindexNew)
    BY <1>1, <1>2, ReturnOrphan DEF SetBestChainFails, InAcceptBlock
  <1>3. CASE pc' \in InSetBestChain /\ UNCHANGED <<caller, pblock, pindexNew, vWorkQueue>>
    BY <1>1, <1>3, SetBestChainOrphan
  <1>4. CASE NewBest
    <2>1. UNCHANGED <<caller, pblock, pindexNew, vWorkQueue>>
      BY <1>4 DEF NewBest, callVars
    <2>2. \/ pc' = "AcceptPending" /\ caller = "AddToBlockIndex"
          \/ pc' = "WriteSync" /\ caller # "AddToBlockIndex"
      BY <1>4 DEF NewBest
    <2> QED
      BY <1>1, <2>1, <2>2, SetBestChainOrphan
  <1>5. CASE ExtendBestChain
    BY <1>2, <1>3, <1>5, FailsInvalid DEF ExtendBestChain, callVars, InSetBestChain
  <1>6. CASE DisconnectBlock
    BY <1>1, <1>2, <1>3, <1>6, FailsInvalid DEF DisconnectBlock
  <1>7. CASE ConnectBlock
    BY <1>1, <1>2, <1>3, <1>7, FailsInvalid DEF ConnectBlock
  <1>8. CASE BeginReorganize \/ CommitReorganize \/ ConnectSecondary
    BY <1>1, <1>3, <1>8 DEF BeginReorganize, CommitReorganize, ConnectSecondary, callVars, InSetBestChain
  <1> QED
    BY <1>4, <1>5, <1>6, <1>7, <1>8

LEMMA AddToBlockIndexOrphan ==
    ASSUME OrphanInv, NEW b \in Block, AddToBlockIndex(b), pc \in {"idle", "Orphans"},
           mapOrphanBlocks' \subseteq mapOrphanBlocks, vWorkQueue' = vWorkQueue
    PROVE  OrphanInv'
  <1>1. /\ mapBlockIndex' = mapBlockIndex \cup {b} /\ pblock' = b
        /\ \/ pc' = "SetBestChain" /\ caller' = "AddToBlockIndex" /\ pindexNew' = b
           \/ pc' = "AcceptPending"
    BY DEF AddToBlockIndex
  <1>2. InAcceptBlock' /\ ~ InAcceptBlock
    BY <1>1 DEF InAcceptBlock, InSetBestChain
  <1>3. ASSUME NEW o \in mapOrphanBlocks', hashPrevBlock[o] \in mapBlockIndex', ValidChain(hashPrevBlock[o])
        PROVE  Expected(hashPrevBlock[o])'
    <2>1. CASE hashPrevBlock[o] = b
      BY <1>1, <1>2, <2>1 DEF Expected
    <2>2. CASE hashPrevBlock[o] # b
      <3>1. Expected(hashPrevBlock[o])
        BY <1>1, <1>3, <2>2 DEF OrphanInv
      <3> QED
        BY <1>2, <3>1 DEF Expected
    <2> QED
      BY <2>1, <2>2
  <1> QED
    BY <1>1, <1>3 DEF OrphanInv, InSetBestChain, Handler, Running

LEMMA OrphanLoopOrphan ==
    ASSUME IndInv, OrphanInv, NextInWorkQueue \/ \E o \in Block : AcceptOrphan(o)
    PROVE  OrphanInv'
  <1>1. ASSUME NEW o \in Block, AcceptOrphan(o) PROVE OrphanInv'
    <2>1. pc = "Orphans" /\ mapOrphanBlocks' \subseteq mapOrphanBlocks /\ vWorkQueue' = vWorkQueue
      BY <1>1 DEF AcceptOrphan, LeaveHoldingArea
    <2>2. CASE AcceptBlockOK(o)
      BY <1>1, <2>1, <2>2, AddToBlockIndexOrphan DEF AcceptOrphan
    <2>3. CASE ~ AcceptBlockOK(o)
      BY <1>1, <2>1, <2>3, OrphanKept DEF AcceptOrphan, indexVars
    <2> QED
      BY <2>2, <2>3
  <1>2. CASE NextInWorkQueue
    <2>1. /\ pc = "Orphans" /\ vWorkQueue # <<>> /\ OrphansOf(Head(vWorkQueue)) = {}
          /\ UNCHANGED <<mapBlockIndex, mapOrphanBlocks>>
          /\ vWorkQueue' = Tail(vWorkQueue) /\ pc' \in {"idle", "Orphans"}
          /\ pc' = "idle" => vWorkQueue' = <<>>
      BY <1>2 DEF NextInWorkQueue, Idle, indexVars, orphanVars
    <2>2. vWorkQueue \in Seq(Block)
      BY DEF IndInv, TypeOK
    <2>3. ASSUME NEW o \in mapOrphanBlocks, hashPrevBlock[o] \in mapBlockIndex, ValidChain(hashPrevBlock[o])
          PROVE  Expected(hashPrevBlock[o])'
      <3>1. Expected(hashPrevBlock[o])
        BY <2>3 DEF OrphanInv
      <3>2. PICK i \in 1..Len(vWorkQueue) : vWorkQueue[i] = hashPrevBlock[o]
        BY <2>1, <3>1 DEF Expected, InAcceptBlock, InSetBestChain
      <3>3. hashPrevBlock[o] # Head(vWorkQueue)
        BY <2>1 DEF OrphansOf
      <3>4. \E j \in 1..Len(Tail(vWorkQueue)) : Tail(vWorkQueue)[j] = hashPrevBlock[o]
        BY <2>1, <2>2, <3>2, <3>3, TailShows
      <3> QED
        BY <2>1, <3>4 DEF Expected
    <2> QED
      BY <2>1, <2>3 DEF OrphanInv, InSetBestChain, Handler, Running
  <1> QED
    BY <1>1, <1>2

LEMMA CheckpointOrphan ==
    ASSUME IndInv, OrphanInv,
           \/ \E h \in SignedCheckpoint : ProcessSyncCheckpoint(h)
           \/ AcceptPendingSyncCheckpoint
           \/ WriteSyncCheckpoint
    PROVE  OrphanInv'
  <1>1. UNCHANGED <<mapBlockIndex, mapOrphanBlocks>>
    BY DEF ProcessSyncCheckpoint, AcceptPendingSyncCheckpoint, WriteSyncCheckpoint, indexVars, orphanVars
  <1>2. ASSUME NEW h \in SignedCheckpoint, ProcessSyncCheckpoint(h) PROVE OrphanInv'
    <2>1. CASE UNCHANGED <<pc, callVars>>
      BY <1>1, <2>1, OrphanKept DEF callVars
    <2>2. CASE MoveToCheckpoint(h, "ProcessSync") /\ UNCHANGED <<pblock, vWorkQueue>>
      <3>1. pc = "idle" /\ pc' \in {"WriteSync", "SetBestChain"} /\ caller' = "ProcessSync"
        BY <1>2, <2>2 DEF ProcessSyncCheckpoint, MoveToCheckpoint
      <3>2. vWorkQueue' = <<>> /\ vWorkQueue = <<>>
        BY <2>2, <3>1 DEF OrphanInv, Handler
      <3>3. \A b : ~ Expected(b)
        BY <3>1, <3>2 DEF Expected, InAcceptBlock, InSetBestChain
      <3> QED
        BY <1>1, <3>1, <3>2, <3>3 DEF OrphanInv, InSetBestChain, Handler, Running
    <2> QED
      BY <1>2, <2>1, <2>2 DEF ProcessSyncCheckpoint
  <1>3. CASE AcceptPendingSyncCheckpoint
    <2>1. pc = "AcceptPending" /\ InAcceptBlock
      BY <1>3 DEF AcceptPendingSyncCheckpoint, InAcceptBlock
    <2>2. CASE AcceptBlockReturns
      BY <1>1, <2>1, <2>2, ReturnOrphan
    <2>3. CASE MoveToCheckpoint(hashPendingCheckpoint, "AcceptPending") /\ UNCHANGED <<pblock, vWorkQueue>>
      <3>1. pc' \in {"WriteSync", "SetBestChain"} /\ caller' = "AcceptPending"
        BY <2>3 DEF MoveToCheckpoint
      <3>2. InAcceptBlock'
        BY <3>1 DEF InAcceptBlock, InSetBestChain
      <3>3. ASSUME NEW o \in mapOrphanBlocks, hashPrevBlock[o] \in mapBlockIndex, ValidChain(hashPrevBlock[o])
            PROVE  Expected(hashPrevBlock[o])'
        <4>1. Expected(hashPrevBlock[o])
          BY <3>3 DEF OrphanInv
        <4> QED
          BY <2>3, <3>2, <4>1 DEF Expected
      <3> QED
        BY <1>1, <3>1, <3>3 DEF OrphanInv, InSetBestChain, Handler, Running
    <2> QED
      BY <1>3, <2>2, <2>3 DEF AcceptPendingSyncCheckpoint
  <1>4. CASE WriteSyncCheckpoint
    <2>1. /\ pc = "WriteSync" /\ caller \in {"AcceptPending", "ProcessSync"}
      BY <1>4 DEF WriteSyncCheckpoint, IndInv, TypeOK, CallInv, InSetBestChain
    <2>2. \/ InAcceptBlock /\ AcceptBlockReturns
          \/ caller = "ProcessSync" /\ Idle
      BY <1>4, <2>1 DEF WriteSyncCheckpoint, InAcceptBlock
    <2> QED
      BY <1>1, <2>1, <2>2, ReturnOrphan
  <1> QED
    BY <1>2, <1>3, <1>4

LEMMA ProcessBlockOrphan ==
    ASSUME OrphanInv, NEW b \in Block, ProcessBlock(b) \/ ProcessOrphanBlock(b)
    PROVE  OrphanInv'
  <1>1. CASE ProcessBlock(b)
    BY <1>1, AddToBlockIndexOrphan DEF ProcessBlock, orphanVars
  <1>2. CASE ProcessOrphanBlock(b)
    <2>1. /\ pc = "idle" /\ hashPrevBlock[b] \notin mapBlockIndex /\ mapOrphanBlocks' = mapOrphanBlocks \cup {b}
          /\ UNCHANGED <<mapBlockIndex, pc, caller, pblock, pindexNew, vWorkQueue>>
      BY <1>2 DEF ProcessOrphanBlock, indexVars, callVars
    <2> QED
      BY <2>1 DEF OrphanInv, Expected, InAcceptBlock, Running
  <1> QED
    BY <1>1, <1>2

LEMMA NextOrphan == IndInv /\ ChainInv /\ PostponedConnect /\ OrphanInv /\ [Next]_vars => OrphanInv'
  <1> SUFFICES ASSUME IndInv, ChainInv, PostponedConnect, OrphanInv, [Next]_vars PROVE OrphanInv'
    OBVIOUS
  <1>1. CASE HandlerStep
    BY <1>1, OrphanLoopOrphan, SetBestChainStepsOrphan, CheckpointOrphan DEF HandlerStep
  <1>2. ASSUME NEW b \in Block \ {hashGenesisBlock}, ProcessBlock(b) \/ ProcessOrphanBlock(b)
        PROVE  OrphanInv'
    BY <1>2, ProcessBlockOrphan
  <1>3. ASSUME NEW h \in SignedCheckpoint, ProcessSyncCheckpoint(h) PROVE OrphanInv'
    BY <1>3, CheckpointOrphan
  <1>4. CASE UNCHANGED vars
    BY <1>4, OrphanKept DEF vars, indexVars, orphanVars, callVars
  <1> QED
    BY <1>1, <1>2, <1>3, <1>4, StartupOrphan DEF Next

(* An orphan whose parent has been indexed and ends a valid chain does not *)
(* stay in the holding area: the work queue reaches it before the handler  *)
(* ends, whatever checkpoints and failures come in between.                *)
THEOREM OrphansAreReleased == Spec /\ []PostponedConnect => []OrphansWait
  <1>1. OrphanInv => OrphansWait
    BY DEF OrphanInv, OrphansWait, Expected, InAcceptBlock, InSetBestChain, Handler
  <1> QED
    BY <1>1, InitOrphan, NextOrphan, Invariance, ChainInvariance, PTL DEF Spec

-----------------------------------------------------------------------------
(* The chain with the most trust.  MostTrustWins says of a node whose      *)
(* checkpoint master forces no valid chain on it, and which stops between  *)
(* two handlers (or in one, but not inside SetBestChain), that it is on a  *)
(* chain of the greatest trust.                                            *)
NoForcedChain ==
    /\ CrashPoints \cap InSetBestChain = {}
    /\ \A h \in SignedCheckpoint : ~ ValidChain(h)

(* No valid chain on disk leads the best one; while SetBestChain runs, the *)
(* one it was called for may.  A checkpoint's SetBestChain comes to        *)
(* nothing, and Reorganize postpones no block.                             *)
QuietInv ==
    /\ hashPendingCheckpoint \in SignedCheckpoint \cup {NoBlock}
    /\ pc # "WriteSync"
    /\ pc \in InSetBestChain =>
          /\ IF caller = "AddToBlockIndex" THEN MoreTrust(pindexNew)
             ELSE pc \in {"SetBestChain", "Reorganize"} /\ ~ ValidChain(pindexNew)
          /\ \A b \in db.index :
                ValidChain(b) => nChainTrust[b] <= nChainTrust[pindexBest] \/ b = pindexNew
    /\ pc \notin InSetBestChain /\ db.best # NoBlock =>
          \A b \in db.index : ValidChain(b) => nChainTrust[b] <= nChainTrust[db.best]
    /\ pc = "Secondary" => pindexTip = pindexNew

LEMMA QuietPostpones == QuietInv => PostponedConnect
  BY DEF QuietInv, PostponedConnect

LEMMA InitQuiet == Init => QuietInv
  BY DEF Init, QuietInv, InSetBestChain

(* A step outside SetBestChain that leaves the chain on disk alone. *)
LEMMA QuietKept ==
    ASSUME QuietInv, pc \notin InSetBestChain, pc' \notin InSetBestChain \cup {"WriteSync"},
           db'.index = db.index, db'.best = db.best,
           hashPendingCheckpoint' \in SignedCheckpoint \cup {NoBlock}
    PROVE  QuietInv'
  BY DEF QuietInv, InSetBestChain

LEMMA StartupQuiet ==
    ASSUME NoForcedChain, IndInv, QuietInv, StartupStep \/ Crash \/ Upgrade
    PROVE  QuietInv'
  <1>0. db \in Database /\ hashPendingCheckpoint \in SignedCheckpoint \cup {NoBlock}
    BY DEF IndInv, TypeOK, QuietInv
  <1>1. CASE LoadBlockIndex \/ GenesisSync \/ MasterKey \/ ResetSyncCheckpoint
    <2>1. /\ pc \in {"down"} \cup Startup /\ pc' \in {"idle", "failed"} \cup Startup
          /\ hashPendingCheckpoint' = hashPendingCheckpoint
      BY <1>1 DEF LoadBlockIndex, GenesisSync, MasterKey, ResetSyncCheckpoint, Startup, checkVars
    <2>2. db'.index = db.index /\ db'.best = db.best
      BY <1>0, <1>1 DEF LoadBlockIndex, GenesisSync, MasterKey, ResetSyncCheckpoint, Commit, dbVars, Database
    <2> QED
      BY <1>0, <2>1, <2>2, QuietKept DEF InSetBestChain, Startup
  <1>2. CASE GenesisIndex
    <2>1. db.best = NoBlock
      BY <1>2 DEF GenesisIndex, IndInv, IndexInv, IndexClosed
    <2>2. db'.best = NoBlock /\ pc' = "GenesisBest" /\ hashPendingCheckpoint' = hashPendingCheckpoint
      BY <1>0, <1>2, <2>1 DEF GenesisIndex, Commit, WriteBlockIndex, Database, checkVars
    <2> QED
      BY <1>0, <2>2 DEF QuietInv, InSetBestChain
  <1>3. CASE GenesisBest
    <2>1. db.index = {hashGenesisBlock}
      BY <1>3 DEF GenesisBest, IndInv, IndexInv
    <2>2. /\ db'.best = hashGenesisBlock /\ db'.index = {hashGenesisBlock} /\ pc' = "GenesisSync"
          /\ hashPendingCheckpoint' = hashPendingCheckpoint
      BY <1>0, <1>3, <2>1 DEF GenesisBest, Commit, Database, checkVars
    <2>3. nChainTrust[hashGenesisBlock] <= nChainTrust[hashGenesisBlock]
      BY TrustFacts, TreeAssumption
    <2> QED
      BY <1>0, <2>2, <2>3 DEF QuietInv, InSetBestChain
  <1>4. CASE Crash
    BY <1>4 DEF Crash, NoForcedChain, QuietInv, InSetBestChain
  <1>5. CASE Upgrade
    BY <1>0, <1>5, QuietKept DEF Upgrade, InSetBestChain, dbVars, checkVars
  <1> QED
    BY <1>1, <1>2, <1>3, <1>4, <1>5 DEF StartupStep

LEMMA AddToBlockIndexQuiet ==
    ASSUME IndInv, ChainInv, QuietInv, NEW b \in Block, AddToBlockIndex(b), pc \in {"idle", "Orphans"},
           UNCHANGED hashPendingCheckpoint
    PROVE  QuietInv'
  <1>1. /\ pindexBest = db.best /\ db.best \in Block /\ db.best # NoBlock /\ db \in Database
        /\ pc \notin InSetBestChain
    BY ChainFacts DEF ChainInv, MemoryInv, Loaded, Running, Handler, InSetBestChain
  <1>2. db'.index = db.index \cup {b} /\ db'.best = db.best /\ pindexBest' = pindexBest
    BY <1>1 DEF AddToBlockIndex, Commit, WriteBlockIndex, Database
  <1>3. \A c \in db.index : ValidChain(c) => nChainTrust[c] <= nChainTrust[pindexBest]
    BY <1>1 DEF QuietInv
  <1>4. CASE MoreTrust(b)
    <2>1. pc' = "SetBestChain" /\ caller' = "AddToBlockIndex" /\ pindexNew' = b
      BY <1>4 DEF AddToBlockIndex
    <2>2. MoreTrust(pindexNew)'
      BY <1>2, <1>4, <2>1 DEF MoreTrust
    <2> QED
      BY <1>2, <1>3, <2>1, <2>2 DEF QuietInv, InSetBestChain
  <1>5. CASE ~ MoreTrust(b)
    <2>1. pc' = "AcceptPending"
      BY <1>5 DEF AddToBlockIndex
    <2>2. nChainTrust[b] <= nChainTrust[pindexBest]
      BY <1>1, <1>5, TrustFacts DEF MoreTrust
    <2> QED
      BY <1>1, <1>2, <1>3, <2>1, <2>2 DEF QuietInv, InSetBestChain
  <1> QED
    BY <1>4, <1>5

(* SetBestChain fails: the block that led the best one ends no valid chain. *)
LEMMA SetBestChainFailsQuiet ==
    ASSUME IndInv, ChainInv, QuietInv, pc \in {"SetBestChain", "Reorganize"},
           SetBestChainFails(pindexNew), ~ ValidChain(pindexNew),
           UNCHANGED <<pindexBest, hashPendingCheckpoint>>
    PROVE  QuietInv'
  <1>1. pc \in InSetBestChain /\ pindexNew \in Block /\ db \in Database
    BY NewFacts DEF InSetBestChain
  <1>2. db'.index = db.index /\ db'.best = db.best
    BY <1>1, InvalidChainFoundKept DEF SetBestChainFails
  <1>3. pc' \in {"idle", "Orphans"}
    BY DEF SetBestChainFails, AcceptBlockFails, AcceptBlockReturns, ToOrphanLoop, Idle
  <1>4. pindexBest = db.best
    BY DEF ChainInv, MemoryInv, Loaded, Running, Handler
  <1>5. \A b \in db.index : ValidChain(b) => nChainTrust[b] <= nChainTrust[db.best]
    BY <1>1, <1>4 DEF QuietInv
  <1> QED
    BY <1>2, <1>3, <1>5 DEF QuietInv, InSetBestChain

(* A step inside SetBestChain; past the commit only a valid chain gets.    *)
LEMMA SetBestChainQuiet ==
    ASSUME QuietInv, pc \in InSetBestChain, pc' \in InSetBestChain,
           UNCHANGED <<pindexBest, pindexNew, caller, hashPendingCheckpoint>>,
           db'.index = db.index,
           pc' \in {"Secondary", "NewBest"} => ValidChain(pindexNew),
           pc' = "Secondary" => pindexTip' = pindexNew
    PROVE  QuietInv'
  BY DEF QuietInv, InSetBestChain, MoreTrust

LEMMA CommitReorganizeQuiet ==
    ASSUME IndInv, ChainInv, QuietInv, CommitReorganize
    PROVE  QuietInv'
  <1>1. /\ pc = "Reorganize" /\ pindexTip = pindexIntermediate(pindexNew) /\ pc' = "Secondary"
        /\ UNCHANGED <<pindexBest, pindexNew, pindexTip, caller, hashPendingCheckpoint>>
    BY DEF CommitReorganize, callVars, checkVars
  <1>2. /\ pc \in InSetBestChain /\ pindexNew \in Block /\ Branch[pindexNew] \subseteq db.index
        /\ pindexBest \in Block /\ txn \in Database
    BY <1>1, NewFacts DEF InSetBestChain
  <1>3. ValidChain(pindexTip)
    BY <1>1 DEF ChainInv, ReorganizeInv, Matches
  <1>4. pindexTip \in Branch[pindexNew] /\ (pindexTip # pindexNew => nChainTrust[pindexTip] > nChainTrust[pindexBest])
    BY <1>1, <1>2, IntermediateLeads
  <1>5. pindexTip = pindexNew
    <2>1. pindexTip # pindexNew => nChainTrust[pindexTip] <= nChainTrust[pindexBest]
      BY <1>2, <1>3, <1>4 DEF QuietInv
    <2>2. nChainTrust[pindexTip] \in Nat /\ nChainTrust[pindexBest] \in Nat
      BY <1>2, <1>4, TrustFacts, BranchFacts
    <2> QED
      BY <1>4, <2>1, <2>2
  <1>6. db'.index = db.index
    BY <1>2 DEF CommitReorganize, Commit, Database, IndInv, IndexInv
  <1> QED
    BY <1>1, <1>2, <1>3, <1>5, <1>6, SetBestChainQuiet DEF InSetBestChain

LEMMA SetBestChainStepsQuiet ==
    ASSUME IndInv, ChainInv, QuietInv,
           ExtendBestChain \/ BeginReorganize \/ DisconnectBlock \/ ConnectBlock \/ CommitReorganize
               \/ ConnectSecondary \/ NewBest
    PROVE  QuietInv'
  <1>1. CASE ExtendBestChain
    <2>1. /\ pc \in {"SetBestChain"} /\ pc \in InSetBestChain /\ hashPrevBlock[pindexNew] = db.best
          /\ UNCHANGED <<pindexBest, hashPendingCheckpoint>>
      BY <1>1 DEF ExtendBestChain, InSetBestChain, ChainInv, MemoryInv, Loaded, Running, Handler, checkVars
    <2>2. pindexNew \in db.index \ {hashGenesisBlock}
      BY <2>1, NewFacts, BranchFacts
    <2>3. CASE ConnectBlockOK(db, pindexNew)
      <3>1. /\ ConnectTip(pindexNew) /\ pc' = "NewBest" /\ UNCHANGED <<pindexNew, caller>>
        BY <1>1, <2>3 DEF ExtendBestChain, callVars
      <3>2. db'.index = db.index /\ ValidChain(pindexNew)
        BY <2>1, <2>2, <2>3, <3>1, ConnectTipChain DEF Matches
      <3> QED
        BY <2>1, <3>1, <3>2, SetBestChainQuiet DEF InSetBestChain
    <2>4. CASE ~ ConnectBlockOK(db, pindexNew)
      <3>1. SetBestChainFails(pindexNew) /\ ~ ValidChain(pindexNew)
        BY <1>1, <2>4, FailsInvalid DEF ExtendBestChain
      <3> QED
        BY <2>1, <3>1, SetBestChainFailsQuiet
    <2> QED
      BY <2>3, <2>4
  <1>2. CASE BeginReorganize
    BY <1>2, SetBestChainQuiet DEF BeginReorganize, InSetBestChain, dbVars, indexVars, checkVars
  <1>3. CASE DisconnectBlock \/ ConnectBlock
    <2>1. pc = "Reorganize" /\ pc \in InSetBestChain /\ UNCHANGED <<pindexBest, hashPendingCheckpoint>>
      BY <1>3 DEF DisconnectBlock, ConnectBlock, InSetBestChain, indexVars, checkVars
    <2>2. \/ UNCHANGED <<db, pc, caller, pindexNew>>
          \/ SetBestChainFails(pindexNew) /\ ~ ValidChain(pindexNew)
      BY <1>3, FailsInvalid DEF DisconnectBlock, ConnectBlock
    <2> QED
      BY <2>1, <2>2, SetBestChainQuiet, SetBestChainFailsQuiet
  <1>4. CASE CommitReorganize
    BY <1>4, CommitReorganizeQuiet
  <1>5. CASE ConnectSecondary
    BY <1>5 DEF ConnectSecondary, QuietInv
  <1>6. CASE NewBest
    <2>1. /\ pc \in {"Secondary", "NewBest"} /\ pc \in InSetBestChain
          /\ UNCHANGED <<db, hashPendingCheckpoint>>
      BY <1>6 DEF NewBest, InSetBestChain, dbVars, checkVars
    <2>2. caller = "AddToBlockIndex" /\ MoreTrust(pindexNew) /\ pc' = "AcceptPending"
      BY <1>6, <2>1 DEF NewBest, QuietInv, InSetBestChain
    <2>3. db.best = pindexNew
      BY <1>6, <2>1 DEF NewBest, ChainInv, MemoryInv
    <2>4. ASSUME NEW b \in db.index, ValidChain(b) PROVE nChainTrust[b] <= nChainTrust[db.best]
      <3>1. nChainTrust[b] <= nChainTrust[pindexBest] \/ b = db.best
        BY <2>1, <2>3, <2>4 DEF QuietInv
      <3>2. nChainTrust[b] \in Nat /\ nChainTrust[pindexBest] \in Nat /\ nChainTrust[db.best] \in Nat
        BY <2>1, <2>3, NewFacts, TrustFacts
      <3> QED
        BY <2>2, <2>3, <3>1, <3>2 DEF MoreTrust
    <2> QED
      BY <2>1, <2>2, <2>4 DEF QuietInv, InSetBestChain
  <1> QED
    BY <1>1, <1>2, <1>3, <1>4, <1>5, <1>6

(* A checkpoint on an invalid block is not in the main chain, and starts a *)
(* SetBestChain that will fail.                                            *)
LEMMA CheckpointQuiet ==
    ASSUME NoForcedChain, IndInv, ChainInv, QuietInv,
           \/ \E h \in SignedCheckpoint : ProcessSyncCheckpoint(h)
           \/ AcceptPendingSyncCheckpoint
    PROVE  QuietInv'
  <1>1. /\ pc \in {"idle", "AcceptPending"} /\ UNCHANGED <<db, pindexBest>>
    BY DEF ProcessSyncCheckpoint, AcceptPendingSyncCheckpoint, dbVars, indexVars
  <1>2. pindexBest = db.best /\ db.best # NoBlock /\ ValidChain(pindexBest) /\ pindexBest \in Block
    BY <1>1, ChainFacts DEF ChainInv, MemoryInv, Matches, Loaded, Running, Handler
  <1>3. ASSUME NEW h \in SignedCheckpoint, NEW from, from # "AddToBlockIndex", MoveToCheckpoint(h, from),
               UNCHANGED hashPendingCheckpoint
        PROVE  QuietInv'
    <2>1. ~ ValidChain(h) /\ h \in Block
      BY PolicyAssumption DEF NoForcedChain
    <2>2. ~ IsInMainChain(h)
      BY <1>1, <1>2, <2>1, MainChainBlocks, ValidBranch DEF Loaded, Running, Handler
    <2>3. pc' = "SetBestChain" /\ caller' = from /\ pindexNew' = h
      BY <1>3, <2>2 DEF MoveToCheckpoint
    <2>4. \A b \in db.index : ValidChain(b) => nChainTrust[b] <= nChainTrust[pindexBest]
      BY <1>1, <1>2 DEF QuietInv, InSetBestChain
    <2> QED
      BY <1>1, <1>3, <2>1, <2>3, <2>4 DEF QuietInv, InSetBestChain
  <1>4. ASSUME NEW h \in SignedCheckpoint, ProcessSyncCheckpoint(h) PROVE QuietInv'
    <2>1. CASE MoveToCheckpoint(h, "ProcessSync") /\ UNCHANGED hashPendingCheckpoint
      BY <1>3, <2>1
    <2>2. CASE UNCHANGED pc /\ hashPendingCheckpoint' \in {h, hashPendingCheckpoint}
      BY <1>1, <1>4, <2>2, QuietKept DEF QuietInv, InSetBestChain
    <2> QED
      BY <1>4, <2>1, <2>2 DEF ProcessSyncCheckpoint
  <1>5. CASE AcceptPendingSyncCheckpoint
    <2>1. CASE AcceptBlockReturns /\ hashPendingCheckpoint' \in {NoBlock, hashPendingCheckpoint}
      BY <1>1, <2>1, QuietKept DEF AcceptBlockReturns, ToOrphanLoop, QuietInv, InSetBestChain
    <2>2. CASE /\ hashPendingCheckpoint \in mapBlockIndex
               /\ MoveToCheckpoint(hashPendingCheckpoint, "AcceptPending")
               /\ UNCHANGED hashPendingCheckpoint
      <3>1. hashPendingCheckpoint \in SignedCheckpoint
        BY <2>2, TreeAssumption DEF QuietInv, IndInv, TypeOK
      <3> QED
        BY <1>3, <2>2, <3>1
    <2> QED
      BY <1>5, <2>1, <2>2 DEF AcceptPendingSyncCheckpoint
  <1> QED
    BY <1>4, <1>5

LEMMA NextQuiet ==
    ASSUME NoForcedChain, IndInv, ChainInv, QuietInv, [Next]_vars
    PROVE  QuietInv'
  <1>1. ASSUME NEW o \in Block, AcceptOrphan(o) PROVE QuietInv'
    <2>1. pc = "Orphans" /\ UNCHANGED hashPendingCheckpoint
      BY <1>1 DEF AcceptOrphan, checkVars
    <2>2. CASE AcceptBlockOK(o)
      BY <1>1, <2>1, <2>2, AddToBlockIndexQuiet DEF AcceptOrphan
    <2>3. CASE ~ AcceptBlockOK(o)
      BY <1>1, <2>1, <2>3, QuietKept DEF AcceptOrphan, QuietInv, dbVars, InSetBestChain
    <2> QED
      BY <2>2, <2>3
  <1>2. CASE NextInWorkQueue
    BY <1>2, QuietKept DEF NextInWorkQueue, Idle, QuietInv, dbVars, checkVars, InSetBestChain
  <1>3. CASE WriteSyncCheckpoint
    BY <1>3 DEF WriteSyncCheckpoint, QuietInv
  <1>4. CASE HandlerStep
    BY <1>1, <1>2, <1>3, <1>4, SetBestChainStepsQuiet, CheckpointQuiet DEF HandlerStep
  <1>5. ASSUME NEW b \in Block, ProcessBlock(b) PROVE QuietInv'
    BY <1>5, AddToBlockIndexQuiet DEF ProcessBlock, checkVars
  <1>6. ASSUME NEW b \in Block, ProcessOrphanBlock(b) PROVE QuietInv'
    BY <1>6, QuietKept DEF ProcessOrphanBlock, QuietInv, dbVars, checkVars, InSetBestChain
  <1>7. CASE UNCHANGED vars
    BY <1>7 DEF vars, dbVars, indexVars, checkVars, callVars, QuietInv, MoreTrust
  <1>8. ASSUME NEW h \in SignedCheckpoint, ProcessSyncCheckpoint(h) PROVE QuietInv'
    BY <1>8, CheckpointQuiet
  <1> QED
    BY <1>4, <1>5, <1>6, <1>7, <1>8, StartupQuiet DEF Next

(* Where no valid chain is forced on the node, Reorganize postpones no     *)
(* block: the theorems above hold of every behaviour.                      *)
THEOREM NothingPostponed ==
    ASSUME NoForcedChain
    PROVE  Spec => [](ChainInv /\ QuietInv /\ PostponedConnect)
  <1>1. ChainInv /\ QuietInv /\ IndInv /\ [Next]_vars => ChainInv' /\ QuietInv'
    BY NextChain, NextQuiet, QuietPostpones
  <1> QED
    BY <1>1, InitChain, InitQuiet, QuietPostpones, Invariance, PTL DEF Spec

(* Whatever the order in which blocks arrive, whichever of them turn out   *)
(* invalid only when they are connected, and whenever the node is stopped  *)
(* outside SetBestChain: between two handlers no valid indexed chain has   *)
(* more trust than the best one.                                           *)
THEOREM MostTrustIsBest ==
    ASSUME NoForcedChain
    PROVE  Spec => []MostTrustWins
  <1>1. IndInv /\ ChainInv /\ QuietInv => MostTrustWins
    BY ChainFacts DEF ChainInv, MemoryInv, QuietInv, MostTrustWins, Loaded, Running, Handler, InSetBestChain
  <1> QED
    BY <1>1, NothingPostponed, Invariance, PTL
=============================================================================
