------------------------------ MODULE BlockChain ------------------------------
(***************************************************************************)
(* How a node keeps its block chain: ProcessBlock with orphan blocks,      *)
(* AcceptBlock, AddToBlockIndex, SetBestChain and Reorganize (main.cpp),   *)
(* synchronized checkpoints (checkpoints.cpp), the LevelDB transactions    *)
(* they write (txdb-leveldb.cpp), and the start of the process, which      *)
(* reads everything back.                                                  *)
(*                                                                         *)
(* Handlers run one at a time under cs_main, but a handler commits to the  *)
(* database several times and the process may stop between two commits.    *)
(* A handler is therefore a sequence of steps, one per commit; pc says     *)
(* where it stands, and only Crash can come in between.                    *)
(***************************************************************************)
EXTENDS BlockData

CONSTANTS
    CheckpointsMode,    \* "STRICT", "ADVISORY" or "PERMISSIVE" (-cppolicy)
    SignedCheckpoint,   \* blocks the checkpoint master may sign a checkpoint for
    CrashPoints,        \* values of pc at which the process may stop
    MaxMasterKey        \* bound on the checkpoint master keys 1, 2, ... of later releases

ASSUME PolicyAssumption ==
    /\ CheckpointsMode \in {"STRICT", "ADVISORY", "PERMISSIVE"}
    /\ SignedCheckpoint \subseteq Block
    /\ MaxMasterKey \in Nat \ {0}

VARIABLES
    \* The database, and what a reader inside the open transaction sees of it.
    db, txn,
    \* The block index in memory.
    mapBlockIndex, pnext, pindexBest, nBestInvalidTrust, setStakeSeen,
    \* Blocks whose parent is not known.
    mapOrphanBlocks, setStakeSeenOrphan,
    \* Synchronized checkpoints, and the master key of the running release.
    hashSyncCheckpoint, hashPendingCheckpoint, hashInvalidCheckpoint, strMasterPubKey,
    \* The handler that is running: its step, who called SetBestChain, the
    \* block AcceptBlock is working on, the argument of SetBestChain, the
    \* last block (dis)connected by it, and the orphan loop's work queue.
    pc, caller, pblock, pindexNew, pindexTip, vWorkQueue

dbVars     == <<db, txn>>
indexVars  == <<mapBlockIndex, pnext, pindexBest, setStakeSeen>>
orphanVars == <<mapOrphanBlocks, setStakeSeenOrphan>>
checkVars  == <<hashSyncCheckpoint, hashPendingCheckpoint, hashInvalidCheckpoint>>
callVars   == <<caller, pblock, pindexNew, pindexTip, vWorkQueue>>
vars == <<dbVars, indexVars, nBestInvalidTrust, orphanVars, checkVars,
          strMasterPubKey, pc, callVars>>

Handler == {"SetBestChain", "Reorganize", "Secondary", "NewBest",
            "AcceptPending", "WriteSync", "Orphans"}

Startup == {"GenesisIndex", "GenesisBest", "GenesisSync", "MasterKey", "ResetSync"}

PC == {"down", "failed", "idle"} \cup Handler \cup Startup

-----------------------------------------------------------------------------
(* Helpers. *)

(* CBlockIndex::IsInMainChain *)
IsInMainChain(b) == pnext[b] # NoBlock \/ b = pindexBest

(* The first block of b's orphan chain has this parent. *)
WantedByOrphan(b) ==
    CHOOSE h \in Branch[b] \ mapOrphanBlocks :
        \A c \in Branch[b] \ Branch[h] : c \in mapOrphanBlocks

WantedByPendingSyncCheckpoint(b) ==
    /\ hashPendingCheckpoint # NoBlock
    /\ \/ b = hashPendingCheckpoint
       \/ /\ hashPendingCheckpoint \in mapOrphanBlocks
          /\ b = WantedByOrphan(hashPendingCheckpoint)

OrphansOf(h) == {o \in mapOrphanBlocks : hashPrevBlock[o] = h}

(* Mutant of DuplicateStake: no exception for the parent of an orphan.     *)
StrictDuplicateStake(b, seen) ==
    /\ IsProofOfStake(b)
    /\ GetProofOfStake(b) \in seen
    /\ ~ WantedByPendingSyncCheckpoint(b)

(* Duplicate stake is let through for the parent of an orphan and for the  *)
(* block a pending checkpoint waits for.                                   *)
DuplicateStake(b, seen) ==
    /\ IsProofOfStake(b)
    /\ GetProofOfStake(b) \in seen
    /\ OrphansOf(b) = {}
    /\ ~ WantedByPendingSyncCheckpoint(b)

(* Checkpoints::CheckSync for block b, whose parent is indexed. *)
CheckSync(b) ==
    LET h == nHeight[hashPrevBlock[b]] + 1
        s == nHeight[hashSyncCheckpoint]
    IN  /\ h > s => hashSyncCheckpoint \in Branch[hashPrevBlock[b]]
        /\ h = s => b = hashSyncCheckpoint
        /\ h < s => b \in mapBlockIndex

(* What AcceptBlock checks of a block at its place in the block tree. *)
PlacementOK(b) ==
    LET h == nHeight[hashPrevBlock[b]] + 1
    IN  /\ ~ IsProofOfStake(b) => h <= LAST_POW_BLOCK
        /\ IsProofOfStake(b) => h >= MODIFIER_INTERVAL_SWITCH
        /\ b \notin Misplaced
        /\ CoinbaseHeight[vtx[b][1]] = h

(* Everything AcceptBlock checks before it writes the block. *)
AcceptBlockOK(b) ==
    /\ b \notin mapBlockIndex
    /\ hashPrevBlock[b] \in mapBlockIndex
    /\ PlacementOK(b)
    /\ CheckpointsMode = "STRICT" => CheckSync(b)

(* Mutant of ValidateSyncCheckpoint: the higher checkpoint is taken. *)
HigherSyncCheckpoint(h) ==
    IF nHeight[h] <= nHeight[hashSyncCheckpoint] THEN "older" ELSE "yes"

(* Checkpoints::ValidateSyncCheckpoint: "yes" for a descendant of the      *)
(* current checkpoint, "older" for an ancestor, else "conflict".           *)
ValidateSyncCheckpoint(h) ==
    IF nHeight[h] <= nHeight[hashSyncCheckpoint]
    THEN IF h \in Branch[hashSyncCheckpoint] THEN "older" ELSE "conflict"
    ELSE IF hashSyncCheckpoint \in Branch[h] THEN "yes" ELSE "conflict"

(* The first block of the branch to b that takes the lead over the current *)
(* best block: all of the branch above it is connected afterwards.         *)
pindexIntermediate(b) ==
    LET ahead == {c \in Branch[b] \ {hashGenesisBlock} :
                      nChainTrust[hashPrevBlock[c]] > nChainTrust[pindexBest]}
        rest  == Branch[b] \ ahead
    IN  CHOOSE c \in rest : \A e \in rest : nHeight[e] <= nHeight[c]

-----------------------------------------------------------------------------
(* The database. *)

Connected(d, b) ==
    [d EXCEPT !.pos   = ConnectPos(d, b),
              !.spent = ConnectSpent(d, b),
              !.next  = [@ EXCEPT ![b] = pnext[b], ![hashPrevBlock[b]] = b]]

(* Mutant of Disconnected: hashNext of the parent is left as it was. *)
LinkedDisconnected(d, b) ==
    [d EXCEPT !.pos = DisconnectPos(d, b), !.spent = DisconnectSpent(d, b)]

Disconnected(d, b) ==
    [d EXCEPT !.pos   = DisconnectPos(d, b),
              !.spent = DisconnectSpent(d, b),
              !.next  = [@ EXCEPT ![hashPrevBlock[b]] = NoBlock]]

(* Mutant of WriteBlockIndex: blocks of side chains are not recorded. *)
WriteBestBlockIndex(d, b) ==
    IF d.best = NoBlock \/ nChainTrust[b] > nChainTrust[d.best]
    THEN [d EXCEPT !.index = @ \cup {b}, !.next[b] = NoBlock] ELSE d

(* The record of a block that has just been added to the index. *)
WriteBlockIndex(d, b) == [d EXCEPT !.index = @ \cup {b}, !.next[b] = NoBlock]

(* A transaction of one step: what it writes is committed at once. *)
Commit(d) == db' = d /\ txn' = d

InvalidChainFound(b) ==
    IF nChainTrust[b] > nBestInvalidTrust
    THEN /\ nBestInvalidTrust' = nChainTrust[b]
         /\ Commit([db EXCEPT !.invalidTrust = nChainTrust[b]])
    ELSE /\ UNCHANGED nBestInvalidTrust
         /\ Commit(db)

-----------------------------------------------------------------------------
(* A new node: an empty database, the process not started. *)

Init ==
    /\ db = [index |-> {}, next |-> [b \in Block |-> NoBlock],
             pos |-> EmptyPos, spent |-> EmptySpent, best |-> NoBlock,
             invalidTrust |-> 0, sync |-> NoBlock, syncKey |-> 0, key |-> 0]
    /\ txn = db
    /\ mapBlockIndex = {}
    /\ pnext = [b \in Block |-> NoBlock]
    /\ pindexBest = NoBlock
    /\ nBestInvalidTrust = 0
    /\ setStakeSeen = {}
    /\ mapOrphanBlocks = {}
    /\ setStakeSeenOrphan = {}
    /\ hashSyncCheckpoint = NoBlock
    /\ hashPendingCheckpoint = NoBlock
    /\ hashInvalidCheckpoint = NoBlock
    /\ strMasterPubKey = 1
    /\ pc = "down"
    /\ caller = "none"
    /\ pblock = NoBlock
    /\ pindexNew = NoBlock
    /\ pindexTip = NoBlock
    /\ vWorkQueue = <<>>

(* Between two handlers nothing is left of the last one's locals. *)
Idle ==
    /\ pc' = "idle"
    /\ caller' = "none" /\ pblock' = NoBlock /\ pindexNew' = NoBlock /\ pindexTip' = NoBlock
    /\ vWorkQueue' = <<>>

-----------------------------------------------------------------------------
(* Start of the process: LoadBlockIndex. *)

(* CTxDB::LoadBlockIndex; an empty database goes on with the genesis block. *)
LoadBlockIndex ==
    /\ pc = "down"
    /\ IF db.index = {}
       THEN /\ pc' = "GenesisIndex"
            /\ UNCHANGED <<indexVars, nBestInvalidTrust, hashSyncCheckpoint>>
       ELSE IF db.best \notin db.index \/ db.sync = NoBlock
       THEN /\ pc' = "failed"
            /\ UNCHANGED <<indexVars, nBestInvalidTrust, hashSyncCheckpoint>>
       ELSE /\ pc' = "MasterKey"
            /\ mapBlockIndex' = db.index
            /\ pnext' = db.next
            /\ pindexBest' = db.best
            /\ setStakeSeen' = {GetProofOfStake(b) : b \in {c \in db.index : IsProofOfStake(c)}}
            /\ nBestInvalidTrust' = db.invalidTrust
            /\ hashSyncCheckpoint' = db.sync
    /\ UNCHANGED <<dbVars, orphanVars, hashPendingCheckpoint, hashInvalidCheckpoint,
                   strMasterPubKey, callVars>>

(* AddToBlockIndex of the genesis block... *)
GenesisIndex ==
    /\ pc = "GenesisIndex"
    /\ mapBlockIndex' = {hashGenesisBlock}
    /\ Commit(WriteBlockIndex(db, hashGenesisBlock))
    /\ pc' = "GenesisBest"
    /\ UNCHANGED <<pnext, pindexBest, setStakeSeen, nBestInvalidTrust, orphanVars, checkVars,
                   strMasterPubKey, callVars>>

(* Mutant of GenesisBest: the best chain pointer is not written. *)
GenesisBestInMemory ==
    /\ pc = "GenesisBest"
    /\ pindexBest' = hashGenesisBlock
    /\ pc' = "GenesisSync"
    /\ UNCHANGED <<dbVars, mapBlockIndex, pnext, setStakeSeen, nBestInvalidTrust, orphanVars,
                   checkVars, strMasterPubKey, callVars>>

(* ... its SetBestChain, which connects nothing... *)
GenesisBest ==
    /\ pc = "GenesisBest"
    /\ Commit([db EXCEPT !.best = hashGenesisBlock])
    /\ pindexBest' = hashGenesisBlock
    /\ pc' = "GenesisSync"
    /\ UNCHANGED <<mapBlockIndex, pnext, setStakeSeen, nBestInvalidTrust, orphanVars, checkVars,
                   strMasterPubKey, callVars>>

(* ... and the first synchronized checkpoint. *)
GenesisSync ==
    /\ pc = "GenesisSync"
    /\ Commit([db EXCEPT !.sync = hashGenesisBlock, !.syncKey = strMasterPubKey])
    /\ hashSyncCheckpoint' = hashGenesisBlock
    /\ pc' = "MasterKey"
    /\ UNCHANGED <<indexVars, nBestInvalidTrust, orphanVars, hashPendingCheckpoint,
                   hashInvalidCheckpoint, strMasterPubKey, callVars>>

(* The master key of this release is recorded when the database has no or  *)
(* another one, and the checkpoint is then reset.                          *)
MasterKey ==
    /\ pc = "MasterKey"
    /\ IF db.key # strMasterPubKey
       THEN /\ Commit([db EXCEPT !.key = strMasterPubKey])
            /\ pc' = "ResetSync"
       ELSE /\ pc' = "idle"
            /\ UNCHANGED dbVars
    /\ UNCHANGED <<indexVars, nBestInvalidTrust, orphanVars, checkVars, strMasterPubKey, callVars>>

(* ResetSyncCheckpoint: the only hardened checkpoint is the genesis block, *)
(* which is in every main chain.                                           *)
ResetSyncCheckpoint ==
    /\ pc = "ResetSync"
    /\ Commit([db EXCEPT !.sync = hashGenesisBlock, !.syncKey = strMasterPubKey])
    /\ hashSyncCheckpoint' = hashGenesisBlock
    /\ pc' = "idle"
    /\ UNCHANGED <<indexVars, nBestInvalidTrust, orphanVars, hashPendingCheckpoint,
                   hashInvalidCheckpoint, strMasterPubKey, callVars>>

(* The process stops; what was not committed is lost. *)
Crash ==
    /\ pc \in CrashPoints \ {"down"}
    /\ txn' = db
    /\ mapBlockIndex' = {}
    /\ pnext' = [b \in Block |-> NoBlock]
    /\ pindexBest' = NoBlock
    /\ nBestInvalidTrust' = 0
    /\ setStakeSeen' = {}
    /\ mapOrphanBlocks' = {}
    /\ setStakeSeenOrphan' = {}
    /\ hashSyncCheckpoint' = NoBlock
    /\ hashPendingCheckpoint' = NoBlock
    /\ hashInvalidCheckpoint' = NoBlock
    /\ pc' = "down"
    /\ caller' = "none" /\ pblock' = NoBlock /\ pindexNew' = NoBlock /\ pindexTip' = NoBlock
    /\ vWorkQueue' = <<>>
    /\ UNCHANGED <<db, strMasterPubKey>>

(* A later release with another checkpoint master key is installed. *)
Upgrade ==
    /\ pc = "down"
    /\ strMasterPubKey < MaxMasterKey
    /\ strMasterPubKey' = strMasterPubKey + 1
    /\ UNCHANGED <<dbVars, indexVars, nBestInvalidTrust, orphanVars, checkVars, pc, callVars>>

-----------------------------------------------------------------------------
(* AcceptBlock and SetBestChain return. *)

ToOrphanLoop ==
    /\ pc' = "Orphans"
    /\ caller' = "none" /\ pblock' = NoBlock /\ pindexNew' = NoBlock /\ pindexTip' = NoBlock

(* Mutants of AcceptBlockReturns: the wrong block is queued; only the      *)
(* orphans of the block received are looked at.                            *)
AcceptBlockReturnsNew ==
    /\ vWorkQueue' = Append(vWorkQueue, pindexNew)
    /\ ToOrphanLoop

AcceptBlockReturnsOnce ==
    /\ vWorkQueue' = IF vWorkQueue = <<>> THEN <<pblock>> ELSE vWorkQueue
    /\ ToOrphanLoop

(* AcceptBlock has succeeded: the orphans of its block are looked at next. *)
AcceptBlockReturns ==
    /\ vWorkQueue' = Append(vWorkQueue, pblock)
    /\ ToOrphanLoop

(* AddToBlockIndex, and with it AcceptBlock, fails: ProcessBlock gives up  *)
(* when this was the block received, and goes on when it was an orphan.    *)
AcceptBlockFails ==
    IF vWorkQueue = <<>> THEN Idle ELSE ToOrphanLoop /\ UNCHANGED vWorkQueue

SetBestChainFails(b) ==
    /\ InvalidChainFound(b)
    /\ \/ /\ caller = "AddToBlockIndex"
          /\ AcceptBlockFails
          /\ UNCHANGED hashInvalidCheckpoint
       \/ /\ caller = "AcceptPending"
          /\ hashInvalidCheckpoint' = hashPendingCheckpoint
          /\ AcceptBlockReturns
       \/ /\ caller = "ProcessSync"
          /\ hashInvalidCheckpoint' = pindexNew
          /\ Idle

-----------------------------------------------------------------------------
(* ProcessBlock. *)

(* Mutant of MoreTrust: the longest chain wins. *)
MoreHeight(b) == nHeight[b] > nHeight[pindexBest]

MoreTrust(b) == nChainTrust[b] > nChainTrust[pindexBest]

(* AddToBlockIndex up to its commit; a block with more trust than the best *)
(* one goes on to SetBestChain.                                            *)
AddToBlockIndex(b) ==
    /\ mapBlockIndex' = mapBlockIndex \cup {b}
    /\ setStakeSeen' = IF IsProofOfStake(b) THEN setStakeSeen \cup {GetProofOfStake(b)}
                                            ELSE setStakeSeen
    /\ Commit(WriteBlockIndex(db, b))
    /\ pblock' = b
    /\ pindexTip' = NoBlock
    /\ IF MoreTrust(b)
       THEN pc' = "SetBestChain" /\ caller' = "AddToBlockIndex" /\ pindexNew' = b
       ELSE pc' = "AcceptPending" /\ caller' = "none" /\ pindexNew' = NoBlock
    /\ UNCHANGED <<pnext, pindexBest>>

(* ProcessBlock's checks before the orphan test. *)
Admissible(b) ==
    /\ b \notin mapBlockIndex
    /\ b \notin mapOrphanBlocks
    /\ ~ DuplicateStake(b, setStakeSeen)
    /\ CheckBlock(b)
    /\ (/\ hashSyncCheckpoint \in mapBlockIndex
        /\ hashPrevBlock[b] # pindexBest
        /\ ~ WantedByPendingSyncCheckpoint(b)) => b \notin TooLittleWork

(* The block's parent is not known: it is kept until the parent comes. *)
ProcessOrphanBlock(b) ==
    /\ pc = "idle"
    /\ Admissible(b)
    /\ hashPrevBlock[b] \notin mapBlockIndex
    /\ ~ DuplicateStake(b, setStakeSeenOrphan)
    /\ mapOrphanBlocks' = mapOrphanBlocks \cup {b}
    /\ setStakeSeenOrphan' = IF IsProofOfStake(b)
                             THEN setStakeSeenOrphan \cup {GetProofOfStake(b)}
                             ELSE setStakeSeenOrphan
    /\ UNCHANGED <<dbVars, indexVars, nBestInvalidTrust, checkVars, strMasterPubKey, pc, callVars>>

ProcessBlock(b) ==
    /\ pc = "idle"
    /\ Admissible(b)
    /\ hashPrevBlock[b] \in mapBlockIndex
    /\ AcceptBlockOK(b)
    /\ AddToBlockIndex(b)
    /\ UNCHANGED <<nBestInvalidTrust, orphanVars, checkVars, strMasterPubKey, vWorkQueue>>

(* Mutant of LeaveHoldingArea: an orphan that is refused stays. *)
KeepRefusedOrphan(o) ==
    /\ mapOrphanBlocks' = IF AcceptBlockOK(o) THEN mapOrphanBlocks \ {o} ELSE mapOrphanBlocks
    /\ setStakeSeenOrphan' = setStakeSeenOrphan \ {GetProofOfStake(o)}

(* Mutant of LeaveHoldingArea: its stake stays marked. *)
KeepOrphanStake(o) ==
    /\ mapOrphanBlocks' = mapOrphanBlocks \ {o}
    /\ UNCHANGED setStakeSeenOrphan

LeaveHoldingArea(o) ==
    /\ mapOrphanBlocks' = mapOrphanBlocks \ {o}
    /\ setStakeSeenOrphan' = setStakeSeenOrphan \ {GetProofOfStake(o)}

(* The loop over the orphans of the blocks just accepted.  An orphan       *)
(* leaves the holding area whether AcceptBlock takes it or not.            *)
AcceptOrphan(o) ==
    /\ pc = "Orphans"
    /\ vWorkQueue # <<>>
    /\ o \in OrphansOf(Head(vWorkQueue))
    /\ LeaveHoldingArea(o)
    /\ IF AcceptBlockOK(o)
       THEN AddToBlockIndex(o)
       ELSE UNCHANGED <<dbVars, indexVars, pc, caller, pblock, pindexNew, pindexTip>>
    /\ UNCHANGED <<nBestInvalidTrust, checkVars, strMasterPubKey, vWorkQueue>>

NextInWorkQueue ==
    /\ pc = "Orphans"
    /\ vWorkQueue # <<>>
    /\ OrphansOf(Head(vWorkQueue)) = {}
    /\ IF Tail(vWorkQueue) = <<>>
       THEN Idle
       ELSE vWorkQueue' = Tail(vWorkQueue)
            /\ UNCHANGED <<pc, caller, pblock, pindexNew, pindexTip>>
    /\ UNCHANGED <<dbVars, indexVars, nBestInvalidTrust, orphanVars, checkVars, strMasterPubKey>>

-----------------------------------------------------------------------------
(* SetBestChain(pindexNew). *)

(* Mutant of ConnectTip: WriteHashBestChain is left out. *)
ConnectTipOnly(b) ==
    /\ Commit(Connected(db, b))
    /\ pnext' = [pnext EXCEPT ![hashPrevBlock[b]] = b]

(* SetBestChainInner: connect b on top of the chain in the database. *)
ConnectTip(b) ==
    /\ Commit([Connected(db, b) EXCEPT !.best = b])
    /\ pnext' = [pnext EXCEPT ![hashPrevBlock[b]] = b]

(* The new block's parent is the best block. *)
ExtendBestChain ==
    /\ pc = "SetBestChain"
    /\ hashPrevBlock[pindexNew] = pindexBest
    /\ IF ConnectBlockOK(db, pindexNew)
       THEN /\ ConnectTip(pindexNew)
            /\ pc' = "NewBest"
            /\ UNCHANGED <<nBestInvalidTrust, checkVars, callVars>>
       ELSE /\ SetBestChainFails(pindexNew)
            /\ UNCHANGED <<pnext, hashSyncCheckpoint, hashPendingCheckpoint>>
    /\ UNCHANGED <<mapBlockIndex, pindexBest, setStakeSeen, orphanVars, strMasterPubKey>>

(* It is not: the database transaction of Reorganize is begun. *)
BeginReorganize ==
    /\ pc = "SetBestChain"
    /\ hashPrevBlock[pindexNew] # pindexBest
    /\ pindexTip' = pindexBest
    /\ pc' = "Reorganize"
    /\ UNCHANGED <<dbVars, indexVars, nBestInvalidTrust, orphanVars, checkVars, strMasterPubKey,
                   caller, pblock, pindexNew, vWorkQueue>>

(* Disconnect the current branch down to the fork, *)
DisconnectBlock ==
    /\ pc = "Reorganize"
    /\ pindexTip \notin Branch[pindexIntermediate(pindexNew)]
    /\ IF DisconnectBlockOK(txn, pindexTip)
       THEN /\ txn' = Disconnected(txn, pindexTip)
            /\ pindexTip' = hashPrevBlock[pindexTip]
            /\ UNCHANGED <<db, nBestInvalidTrust, checkVars, pc, caller, pblock, pindexNew,
                           vWorkQueue>>
       ELSE /\ SetBestChainFails(pindexNew)
            /\ UNCHANGED <<hashSyncCheckpoint, hashPendingCheckpoint>>
    /\ UNCHANGED <<indexVars, orphanVars, strMasterPubKey>>

(* connect the new one up to pindexIntermediate, *)
ConnectBlock ==
    LET pindex == Towards(pindexTip, pindexIntermediate(pindexNew)) IN
    /\ pc = "Reorganize"
    /\ pindexTip \in Branch[pindexIntermediate(pindexNew)]
    /\ pindexTip # pindexIntermediate(pindexNew)
    /\ IF ConnectBlockOK(txn, pindex)
       THEN /\ txn' = Connected(txn, pindex)
            /\ pindexTip' = pindex
            /\ UNCHANGED <<db, nBestInvalidTrust, checkVars, pc, caller, pblock, pindexNew,
                           vWorkQueue>>
       ELSE /\ SetBestChainFails(pindexNew)
            /\ UNCHANGED <<hashSyncCheckpoint, hashPendingCheckpoint>>
    /\ UNCHANGED <<indexVars, orphanVars, strMasterPubKey>>

(* commit, and only then change the index in memory. *)
CommitReorganize ==
    LET vDisconnect == Branch[pindexBest] \ Branch[pindexTip]
        vConnect    == Branch[pindexTip] \ Branch[pindexBest]
    IN  /\ pc = "Reorganize"
        /\ pindexTip = pindexIntermediate(pindexNew)
        /\ Commit([txn EXCEPT !.best = pindexTip])
        /\ pnext' = [b \in Block |->
                        IF \E c \in vConnect : hashPrevBlock[c] = b
                        THEN CHOOSE c \in vConnect : hashPrevBlock[c] = b
                        ELSE IF \E c \in vDisconnect : hashPrevBlock[c] = b
                        THEN NoBlock
                        ELSE pnext[b]]
        /\ pc' = "Secondary"
        /\ UNCHANGED <<mapBlockIndex, pindexBest, setStakeSeen, nBestInvalidTrust, orphanVars,
                       checkVars, strMasterPubKey, callVars>>

(* The postponed blocks are connected one transaction each; the first that *)
(* does not connect ends the loop and no more.                             *)
ConnectSecondary ==
    LET pindex == Towards(pindexTip, pindexNew) IN
    /\ pc = "Secondary"
    /\ pindexTip # pindexNew
    /\ IF ConnectBlockOK(db, pindex)
       THEN /\ ConnectTip(pindex)
            /\ pindexTip' = pindex
            /\ UNCHANGED <<nBestInvalidTrust, pc>>
       ELSE /\ InvalidChainFound(pindex)
            /\ pc' = "NewBest"
            /\ UNCHANGED <<pnext, pindexTip>>
    /\ UNCHANGED <<mapBlockIndex, pindexBest, setStakeSeen, orphanVars, checkVars, strMasterPubKey,
                   caller, pblock, pindexNew, vWorkQueue>>

(* The end of SetBestChain: pindexNew becomes the best block. *)
NewBest ==
    /\ pc = "NewBest" \/ (pc = "Secondary" /\ pindexTip = pindexNew)
    /\ pindexBest' = pindexNew
    /\ pc' = IF caller = "AddToBlockIndex" THEN "AcceptPending" ELSE "WriteSync"
    /\ UNCHANGED <<dbVars, mapBlockIndex, pnext, setStakeSeen, nBestInvalidTrust, orphanVars,
                   checkVars, strMasterPubKey, callVars>>

-----------------------------------------------------------------------------
(* Synchronized checkpoints. *)

(* Mutant of MoveToCheckpoint: the checkpoint is recorded in any case. *)
RecordCheckpoint(h, from) ==
    caller' = from /\ pindexNew' = h /\ pindexTip' = NoBlock /\ pc' = "WriteSync"

(* A validated checkpoint h: SetBestChain first unless it is in the main chain. *)
MoveToCheckpoint(h, from) ==
    /\ caller' = from
    /\ pindexNew' = h
    /\ pindexTip' = NoBlock
    /\ pc' = IF IsInMainChain(h) THEN "WriteSync" ELSE "SetBestChain"

(* A checkpoint signed by the master arrives. *)
ProcessSyncCheckpoint(h) ==
    /\ pc = "idle"
    /\ \/ /\ h \notin mapBlockIndex
          /\ hashPendingCheckpoint' = h
          /\ UNCHANGED <<hashInvalidCheckpoint, pc, callVars>>
       \/ /\ h \in mapBlockIndex
          /\ ValidateSyncCheckpoint(h) = "conflict"
          /\ hashInvalidCheckpoint' = h
          /\ UNCHANGED <<hashPendingCheckpoint, pc, callVars>>
       \/ /\ h \in mapBlockIndex
          /\ ValidateSyncCheckpoint(h) = "yes"
          /\ MoveToCheckpoint(h, "ProcessSync")
          /\ UNCHANGED <<hashPendingCheckpoint, hashInvalidCheckpoint, pblock, vWorkQueue>>
    /\ UNCHANGED <<dbVars, indexVars, nBestInvalidTrust, orphanVars, hashSyncCheckpoint,
                   strMasterPubKey>>

(* AcceptPendingSyncCheckpoint, called at the end of AcceptBlock. *)
AcceptPendingSyncCheckpoint ==
    /\ pc = "AcceptPending"
    /\ \/ /\ hashPendingCheckpoint \notin mapBlockIndex
          /\ AcceptBlockReturns
          /\ UNCHANGED <<hashPendingCheckpoint, hashInvalidCheckpoint>>
       \/ /\ hashPendingCheckpoint \in mapBlockIndex
          /\ ValidateSyncCheckpoint(hashPendingCheckpoint) # "yes"
          /\ hashInvalidCheckpoint' =
                IF ValidateSyncCheckpoint(hashPendingCheckpoint) = "conflict"
                THEN hashPendingCheckpoint ELSE hashInvalidCheckpoint
          /\ hashPendingCheckpoint' = NoBlock
          /\ AcceptBlockReturns
       \/ /\ hashPendingCheckpoint \in mapBlockIndex
          /\ ValidateSyncCheckpoint(hashPendingCheckpoint) = "yes"
          /\ MoveToCheckpoint(hashPendingCheckpoint, "AcceptPending")
          /\ UNCHANGED <<hashPendingCheckpoint, hashInvalidCheckpoint, pblock, vWorkQueue>>
    /\ UNCHANGED <<dbVars, indexVars, nBestInvalidTrust, orphanVars, hashSyncCheckpoint,
                   strMasterPubKey>>

WriteSyncCheckpoint ==
    /\ pc = "WriteSync"
    /\ Commit([db EXCEPT !.sync = pindexNew, !.syncKey = strMasterPubKey])
    /\ hashSyncCheckpoint' = pindexNew
    /\ hashPendingCheckpoint' = NoBlock
    /\ IF caller = "AcceptPending" THEN AcceptBlockReturns ELSE Idle
    /\ UNCHANGED <<indexVars, nBestInvalidTrust, orphanVars, hashInvalidCheckpoint,
                   strMasterPubKey>>

-----------------------------------------------------------------------------
HandlerStep ==
    \/ \E o \in Block : AcceptOrphan(o)
    \/ NextInWorkQueue
    \/ ExtendBestChain
    \/ BeginReorganize
    \/ DisconnectBlock
    \/ ConnectBlock
    \/ CommitReorganize
    \/ ConnectSecondary
    \/ NewBest
    \/ AcceptPendingSyncCheckpoint
    \/ WriteSyncCheckpoint

StartupStep ==
    \/ LoadBlockIndex
    \/ GenesisIndex
    \/ GenesisBest
    \/ GenesisSync
    \/ MasterKey
    \/ ResetSyncCheckpoint

Next ==
    \/ HandlerStep
    \/ StartupStep
    \/ Upgrade
    \/ Crash
    \/ \E b \in Block \ {hashGenesisBlock} : ProcessBlock(b) \/ ProcessOrphanBlock(b)
    \/ \E h \in SignedCheckpoint : ProcessSyncCheckpoint(h)

Spec == Init /\ [][Next]_vars

-----------------------------------------------------------------------------
(* Fairness: a handler that has begun and a process that has been started  *)
(* go on (ThreadMessageHandler never stops between two steps of a          *)
(* handler), and peers keep offering every block, since the node asks for  *)
(* it again until it has it.                                               *)
Fairness ==
    /\ WF_vars(HandlerStep)
    /\ WF_vars(StartupStep)
    /\ \A b \in Block \ {hashGenesisBlock} : WF_vars(ProcessBlock(b) \/ ProcessOrphanBlock(b))

FairSpec == Spec /\ Fairness

-----------------------------------------------------------------------------
(* Properties. *)

Trust == {nChainTrust[b] : b \in Block} \cup {0}

Database ==
    [index : SUBSET Block, next : [Block -> Block \cup {NoBlock}],
     pos : [Tx -> Block \cup {NoBlock}], spent : [OutPoint -> Tx \cup {NoTx}],
     best : Block \cup {NoBlock}, invalidTrust : Trust,
     sync : Block \cup {NoBlock}, syncKey : 0..MaxMasterKey, key : 0..MaxMasterKey]

(* Every variable has the type its C++ declaration gives it, with NoBlock  *)
(* for a null hash or pointer.                                             *)
TypeOK ==
    /\ db \in Database
    /\ txn \in Database
    /\ mapBlockIndex \subseteq Block
    /\ pnext \in [Block -> Block \cup {NoBlock}]
    /\ pindexBest \in Block \cup {NoBlock}
    /\ nBestInvalidTrust \in Trust
    /\ setStakeSeen \subseteq Kernel \cup {NoKernel}
    /\ mapOrphanBlocks \subseteq Block \ {hashGenesisBlock}
    /\ setStakeSeenOrphan \subseteq Kernel \cup {NoKernel}
    /\ hashSyncCheckpoint \in Block \cup {NoBlock}
    /\ hashPendingCheckpoint \in Block \cup {NoBlock}
    /\ hashInvalidCheckpoint \in Block \cup {NoBlock}
    /\ strMasterPubKey \in 1..MaxMasterKey
    /\ pc \in PC
    /\ caller \in {"none", "AddToBlockIndex", "AcceptPending", "ProcessSync"}
    /\ pblock \in Block \cup {NoBlock}
    /\ pindexNew \in Block \cup {NoBlock}
    /\ pindexTip \in Block \cup {NoBlock}
    /\ vWorkQueue \in Seq(Block)

(* At every moment, and so after a crash at any moment, the committed      *)
(* transaction index is exactly the one of the committed best chain: all   *)
(* its transactions, each at its block, each outpoint with its spender     *)
(* (ConnectBlock, DisconnectBlock and the transactions of Reorganize).     *)
TxIndexMatchesBestChain ==
    db.best # NoBlock =>
        /\ db.pos = ChainPos(db.best)
        /\ db.spent = ChainSpent(db.best)

(* The committed best block behaves as MainChain promises: SetBestChain    *)
(* moves it in one commit to a child or to a block of another branch, and  *)
(* always to a chain that is valid from the genesis block on; no order of  *)
(* arrival, reorganisation or restart lets a block in whose inputs are not *)
(* there or already spent, or steps back along the chain.                  *)
Chain == INSTANCE MainChain WITH
             best <- IF db.best = NoBlock THEN hashGenesisBlock ELSE db.best

ImplementsMainChain == Chain!ChainSpec

(* Between two handlers memory and database agree, as "Make sure it's      *)
(* successfully written to disk before changing memory structure" intends: *)
(* the best block is the one whose chain is connected in the database.     *)
BestChainCommitted ==
    pc = "idle" =>
        /\ pindexBest = db.best
        /\ hashSyncCheckpoint = db.sync
        /\ mapBlockIndex = db.index
        /\ pnext = db.next

(* Between two handlers the pnext pointers, by which getblocks, getheaders *)
(* and IsInMainChain walk the chain, link the chain of the best block and  *)
(* nothing else.                                                           *)
MainChainLinked ==
    pc = "idle" =>
        \A b \in mapBlockIndex :
            /\ IsInMainChain(b) <=> b \in Branch[pindexBest]
            /\ pnext[b] # NoBlock => pnext[b] \in Branch[pindexBest] /\ hashPrevBlock[pnext[b]] = b

(* A block is indexed only after its parent, in memory and in the database, *)
(* so that every pprev walk ends in the genesis block, also after a crash;  *)
(* the best block and the checkpoint are indexed, as CheckSync asserts and  *)
(* LoadBlockIndex demands.                                                  *)
ParentsIndexed(index) ==
    \A b \in index \ {hashGenesisBlock} : hashPrevBlock[b] \in index

IndexClosed ==
    /\ ParentsIndexed(mapBlockIndex)
    /\ ParentsIndexed(db.index)
    /\ {db.best, db.sync} \subseteq db.index \cup {NoBlock}
    /\ pc \in Handler \cup {"idle"} => {pindexBest, hashSyncCheckpoint} \subseteq mapBlockIndex

(* Without crashes and checkpoints, between two handlers no valid chain in *)
(* the index has more trust than the best one, whatever the order in which *)
(* its blocks arrived.                                                     *)
MostTrustWins ==
    pc = "idle" =>
        \A b \in mapBlockIndex : ValidChain(b) => nChainTrust[b] <= nChainTrust[pindexBest]

(* A block stays in the holding area only while its parent is not indexed  *)
(* or was found not to connect.                                            *)
OrphansWait ==
    pc = "idle" =>
        \A o \in mapOrphanBlocks :
            hashPrevBlock[o] \in mapBlockIndex => ~ ValidChain(hashPrevBlock[o])

(* "If don't already have its previous block, shunt it off to holding area *)
(* until we get it": no orphan's parent is in the index.                   *)
OrphansHaveNoParent ==
    pc = "idle" => \A o \in mapOrphanBlocks : hashPrevBlock[o] \notin mapBlockIndex

(* Under the strict policy the synchronized checkpoint is in the main      *)
(* chain, in memory between two handlers and in the database always.       *)
SyncCheckpointInMainChain ==
    /\ db.sync # NoBlock => db.sync \in Branch[db.best]
    /\ pc = "idle" => hashSyncCheckpoint \in Branch[pindexBest]

(* The recorded checkpoint moves to a descendant or back to the genesis    *)
(* block when the master key changes ("only descendant of current          *)
(* sync-checkpoint is allowed"), whatever messages arrive or are pending.  *)
SyncCheckpointAdvances ==
    [][db.sync' # db.sync =>
          \/ db.sync = NoBlock
          \/ db.sync \in Branch[db.sync']
          \/ pc = "ResetSync"]_vars

(* "if checkpoint master key changed must reset sync-checkpoint": a node   *)
(* that runs follows no checkpoint of another release's master key.        *)
SyncCheckpointOfThisKey ==
    pc = "idle" => db.syncKey = strMasterPubKey

(* Once the first start has recorded a checkpoint no crash leaves a        *)
(* database that LoadBlockIndex refuses.                                   *)
LoadFailsOnlyInFirstRun == pc = "failed" => db.sync = NoBlock

(* No stake stays blocked by setStakeSeenOrphan after its orphan is gone.  *)
OrphanStakeReleased ==
    setStakeSeenOrphan \subseteq {GetProofOfStake(o) : o \in mapOrphanBlocks}

(* "Duplicate stake allowed only when there is orphan child block": of two *)
(* orphans with one stake, one has an orphan child, or was asked for by a  *)
(* pending checkpoint.                                                     *)
DuplicateStakeHasChild ==
    \A o, q \in mapOrphanBlocks :
        (o # q /\ IsProofOfStake(o) /\ IsProofOfStake(q) /\ GetProofOfStake(o) = GetProofOfStake(q))
            => OrphansOf(o) \cup OrphansOf(q) # {}

(* Every handler comes to its end. *)
HandlerTerminates == (pc \in Handler) ~> (pc \notin Handler)

(* The blocks that no rule of the node keeps out of its chain. *)
Acceptable(b) ==
    /\ ValidChain(b)
    /\ \A c \in Branch[b] \ {hashGenesisBlock} :
          PlacementOK(c) /\ c \notin Malformed \cup TooLittleWork

(* Whatever the order of arrival, the node ends on a chain of the greatest *)
(* trust among the acceptable ones its peers have, also when it must first *)
(* take a block that repeats the stake of one it has.                      *)
Converges ==
    <>[](/\ pindexBest # NoBlock
         /\ \A b \in Block : Acceptable(b) => nChainTrust[b] <= nChainTrust[pindexBest])
=============================================================================
