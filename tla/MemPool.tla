------------------------------- MODULE MemPool -------------------------------
(***************************************************************************)
(* The memory pool (CTxMemPool) and the orphan transactions of main.cpp,   *)
(* on top of a main chain that grows and reorganises.                      *)
(*                                                                         *)
(* Everything here runs under cs_main.  What the code does in a loop (the  *)
(* orphans that a new transaction releases, the transactions that a        *)
(* reorganisation puts back and takes out) is one step per element; a      *)
(* handler is running while one of its queues is not empty.                *)
(*                                                                         *)
(* The transaction index is that of the best chain: an entry for every     *)
(* transaction in ChainTxs(best), and ChainSpent(best) for its vSpent.     *)
(***************************************************************************)
EXTENDS MainChain

CONSTANTS
    NonStandard,    \* fail CheckTransaction, the lock-time limit or IsStandard
    BadInputs,      \* fail on what they spend: standard inputs, fee, time, amounts, scripts
    TooBig,         \* larger than 5000 bytes
    MAX_ORPHAN_TRANSACTIONS

ASSUME PoolAssumption ==
    /\ IsFiniteSet(Tx)
    /\ MAX_ORPHAN_TRANSACTIONS \in Nat

VARIABLES
    mapTx,          \* the transactions of the pool
    mapNextTx,      \* outpoint -> the pool's transaction that spends it
    mapOrphanTransactions,
    mapOrphanTransactionsByPrev,    \* transaction -> the orphans that spend it
    \* Reorganize: positions <<block, i>> of transactions to put back, to take out.
    vResurrect, vDelete,
    \* The orphan loop of a "tx" message: the accepted transactions, which of them
    \* is current, its orphans that have not been tried yet, the orphans to erase.
    vWorkQueue, i, mi, vEraseQueue

poolVars   == <<mapTx, mapNextTx>>
orphanVars == <<mapOrphanTransactions, mapOrphanTransactionsByPrev>>
reorgVars  == <<vResurrect, vDelete>>
loopVars   == <<vWorkQueue, i, mi, vEraseQueue>>
vars       == <<best, poolVars, orphanVars, reorgVars, loopVars>>

(* No handler is running. *)
Idle == vResurrect = {} /\ vDelete = {} /\ vWorkQueue = <<>>

Prevout == OutPoint \cup UNION {vin[t] : t \in Tx}

Prev(t) == {o[1] : o \in vin[t]}

-----------------------------------------------------------------------------
(* CTxMemPool::accept *)

(* CheckTransaction, the limit on the lock time, and IsStandard. *)
CheckTransaction(t) == t \notin NonStandard

(* The checks made with and without fCheckInputs. *)
Standalone(t) ==
    /\ CheckTransaction(t)
    /\ ~ IsCoinBase(t)
    /\ ~ IsCoinStake(t)
    /\ t \notin mapTx

(* Replacement is disabled: an input that the pool spends is a refusal.    *)
NoConflict(t) == \A o \in vin[t] : mapNextTx[o] = NoTx

(* FetchInputs with fInvalid = FALSE: an input is neither in the chain nor *)
(* in the pool.                                                            *)
MissingInput(t) == \E o \in vin[t] : o[1] \notin ChainTxs(best) \cup mapTx

(* FetchInputs' test of prevout.n and ConnectInputs against the best chain *)
ConnectInputs(t) ==
    /\ t \notin BadInputs
    /\ \A o \in vin[t] :
          /\ o \in OutPoint
          /\ (IsCoinBase(o[1]) \/ IsCoinStake(o[1])) =>
                nHeight[best] - nHeight[ChainPos(best)[o[1]]] >= nCoinbaseMaturity
          /\ ChainSpent(best)[o] = NoTx

(* Everything up to FetchInputs, with fCheckInputs. *)
Considered(t) == Standalone(t) /\ t \notin ChainTxs(best) /\ NoConflict(t)

(* accept returns true. *)
Accepts(t) == Considered(t) /\ ~ MissingInput(t) /\ ConnectInputs(t)

(* accept returns false and sets *pfMissingInputs. *)
LacksInputs(t) == Considered(t) /\ MissingInput(t)

addUnchecked(t) ==
    /\ mapTx' = mapTx \cup {t}
    /\ mapNextTx' = [o \in Prevout |-> IF o \in vin[t] THEN t ELSE mapNextTx[o]]

(* Mutant of remove: the spent outpoints stay in mapNextTx. *)
removeFromMapTx(S) ==
    /\ mapTx' = mapTx \ S
    /\ UNCHANGED mapNextTx

(* CTxMemPool::remove, not recursive, for each transaction of S. *)
remove(S) ==
    /\ mapTx' = mapTx \ S
    /\ mapNextTx' =
          [o \in Prevout |-> IF \E t \in S \cap mapTx : o \in vin[t] THEN NoTx ELSE mapNextTx[o]]

(* What remove(t, true) takes out: t and, through mapNextTx, everything    *)
(* that spends an output of what is taken out.                             *)
SpendersTaken(D) ==
    \A t \in D : \A n \in 1..vout[t] : mapNextTx[<<t, n>>] \in D \cup {NoTx}

(* Mutant of WithDescendants: fRecursive is not passed on. *)
WithoutDescendants(t) == {t} \cap mapTx

WithDescendants(t) ==
    {u \in mapTx : \A D \in SUBSET mapTx : t \in D /\ SpendersTaken(D) => u \in D}

(* What removeConflicts(t) takes out. *)
Conflicting(t) ==
    UNION {WithDescendants(u) : u \in {mapNextTx[o] : o \in vin[t]} \ {NoTx, t}}

-----------------------------------------------------------------------------
(* The main chain moves. *)

(* Mutant of ConnectedTxs: the removal is recursive. *)
ConnectedTxsAndSpenders(b) == UNION {WithDescendants(t) : t \in TxsOf(b)}

(* The pool's share of SetBestChainInner. *)
ConnectedTxs(b) == TxsOf(b)

SetBestChainInner(b) ==
    /\ Idle
    /\ Extend(b)
    /\ remove(ConnectedTxs(b))
    /\ UNCHANGED <<orphanVars, reorgVars, loopVars>>

Positions(B) == UNION {{c} \X (1..Len(vtx[c])) : c \in B}

TxAt(p) == vtx[p[1]][p[2]]

(* vResurrect of a reorganisation to b: the loose transactions of the      *)
(* blocks that it disconnects.                                             *)
Resurrected(b) ==
    {p \in Positions(Branch[best] \ Branch[b]) : ~ IsCoinBase(TxAt(p)) /\ ~ IsCoinStake(TxAt(p))}

(* Mutant of Deleted: only the tip of the connected branch is considered. *)
DeletedTip(b) == Positions({b})

(* vDelete: all transactions of the blocks that it connects. *)
Deleted(b) == Positions(Branch[b] \ Branch[best])

ReorganizeTo(b) ==
    /\ Idle
    /\ Reorganize(b)
    /\ vResurrect' = Resurrected(b)
    /\ vDelete' = Deleted(b)
    /\ UNCHANGED <<poolVars, orphanVars, loopVars>>

(* Blocks are disconnected from the tip down; within a block vtx is gone   *)
(* through forwards.                                                       *)
Resurrecting(p) ==
    \A q \in vResurrect : nHeight[q[1]] < nHeight[p[1]] \/ (q[1] = p[1] /\ p[2] <= q[2])

(* AcceptToMemoryPool(txdb, false) for the next transaction of vResurrect. *)
ResurrectTx(p) ==
    /\ p \in vResurrect
    /\ Resurrecting(p)
    /\ vResurrect' = vResurrect \ {p}
    /\ IF Standalone(TxAt(p)) /\ NoConflict(TxAt(p))
       THEN addUnchecked(TxAt(p))
       ELSE UNCHANGED poolVars
    /\ UNCHANGED <<best, vDelete, orphanVars, loopVars>>

Deleting(p) ==
    /\ vResurrect = {}
    /\ \A q \in vDelete : nHeight[q[1]] > nHeight[p[1]] \/ (q[1] = p[1] /\ p[2] <= q[2])

(* remove and removeConflicts for the next transaction of vDelete. *)
DeleteTx(p) ==
    /\ p \in vDelete
    /\ Deleting(p)
    /\ vDelete' = vDelete \ {p}
    /\ remove({TxAt(p)} \cup Conflicting(TxAt(p)))
    /\ UNCHANGED <<best, vResurrect, orphanVars, loopVars>>

-----------------------------------------------------------------------------
(* Transactions arrive. *)

(* The wallet or an RPC call submits t. *)
AcceptWalletTransaction(t) ==
    /\ Idle
    /\ Accepts(t)
    /\ addUnchecked(t)
    /\ UNCHANGED <<best, orphanVars, reorgVars, loopVars>>

(* A "tx" message whose transaction is accepted; its orphans are next. *)
ReceiveTx(t) ==
    /\ Idle
    /\ Accepts(t)
    /\ addUnchecked(t)
    /\ vWorkQueue' = <<t>>
    /\ i' = 1
    /\ mi' = mapOrphanTransactionsByPrev[t]
    /\ vEraseQueue' = {t}
    /\ UNCHANGED <<best, orphanVars, reorgVars>>

(* mapOrphanTransactionsByPrev without the transactions of S, which        *)
(* EraseOrphanTx leaves alone when they are not orphans.                   *)
ByPrevWithout(byPrev, S) ==
    [h \in Tx |-> byPrev[h] \ {t \in S : h \in Prev(t)}]

(* Random orphans are evicted until the limit is met. *)
LimitOrphanTxSize(orphans, evicted) ==
    /\ evicted \subseteq orphans
    /\ Cardinality(evicted) = Max({0, Cardinality(orphans) - MAX_ORPHAN_TRANSACTIONS})

(* AddOrphanTx stores t. *)
AddOrphanTxOK(t) == t \notin mapOrphanTransactions /\ t \notin TooBig

(* mapOrphanTransactionsByPrev with t. *)
ByPrevWith(t) ==
    [h \in Tx |-> IF h \in Prev(t) THEN mapOrphanTransactionsByPrev[h] \cup {t}
                                    ELSE mapOrphanTransactionsByPrev[h]]

(* A "tx" message whose transaction lacks inputs: AddOrphanTx, then the    *)
(* limit, which may evict the newcomer.                                    *)
ReceiveOrphanTx(t) ==
    LET orphans == mapOrphanTransactions \cup {t}
    IN  /\ Idle
        /\ LacksInputs(t)
        /\ AddOrphanTxOK(t)
        /\ \E evicted \in SUBSET orphans :
              /\ LimitOrphanTxSize(orphans, evicted)
              /\ mapOrphanTransactions' = orphans \ evicted
              /\ mapOrphanTransactionsByPrev' = ByPrevWithout(ByPrevWith(t), evicted)
        /\ UNCHANGED <<best, poolVars, reorgVars, loopVars>>

(* Mutant of Released: the accepted orphan is queued in front. *)
ReleasedFirst(o) == <<o>> \o vWorkQueue

(* vWorkQueue after orphan o was accepted. *)
Released(o) == Append(vWorkQueue, o)

(* The orphan loop tries the orphans of the current transaction of the     *)
(* queue; the code takes them in the order of their hashes, which is any.  *)
TryOrphan(o) ==
    /\ o \in mi
    /\ mi' = mi \ {o}
    /\ IF Accepts(o)
       THEN addUnchecked(o) /\ vWorkQueue' = Released(o)
       ELSE UNCHANGED <<poolVars, vWorkQueue>>
    /\ vEraseQueue' = IF LacksInputs(o) THEN vEraseQueue ELSE vEraseQueue \cup {o}
    /\ UNCHANGED <<best, i, orphanVars, reorgVars>>

(* Mutant of EraseOrphans: the orphan stays under its other parents. *)
EraseOrphansOfParent(S) ==
    /\ mapOrphanTransactions' = mapOrphanTransactions \ S
    /\ mapOrphanTransactionsByPrev' =
          [mapOrphanTransactionsByPrev EXCEPT ![vWorkQueue[i]] = @ \ S]

EraseOrphans(S) ==
    /\ mapOrphanTransactions' = mapOrphanTransactions \ S
    /\ mapOrphanTransactionsByPrev' =
          ByPrevWithout(mapOrphanTransactionsByPrev, S \cap mapOrphanTransactions)

(* The next transaction of the work queue, or the end of the handler.      *)
NextInWorkQueue ==
    /\ vWorkQueue # <<>>
    /\ mi = {}
    /\ IF i < Len(vWorkQueue)
       THEN /\ i' = i + 1
            /\ mi' = mapOrphanTransactionsByPrev[vWorkQueue[i + 1]]
            /\ UNCHANGED <<vWorkQueue, vEraseQueue, orphanVars>>
       ELSE /\ EraseOrphans(vEraseQueue)
            /\ vWorkQueue' = <<>>
            /\ i' = 0
            /\ vEraseQueue' = {}
            /\ UNCHANGED mi
    /\ UNCHANGED <<best, poolVars, reorgVars>>

-----------------------------------------------------------------------------

Init ==
    /\ ChainInit
    /\ mapTx = {}
    /\ mapNextTx = [o \in Prevout |-> NoTx]
    /\ mapOrphanTransactions = {}
    /\ mapOrphanTransactionsByPrev = [h \in Tx |-> {}]
    /\ vResurrect = {}
    /\ vDelete = {}
    /\ vWorkQueue = <<>>
    /\ i = 0
    /\ mi = {}
    /\ vEraseQueue = {}

Next ==
    \/ \E b \in Block : SetBestChainInner(b) \/ ReorganizeTo(b)
    \/ \E p \in vResurrect : ResurrectTx(p)
    \/ \E p \in vDelete : DeleteTx(p)
    \/ \E t \in Tx : AcceptWalletTransaction(t) \/ ReceiveTx(t) \/ ReceiveOrphanTx(t)
    \/ \E o \in mi : TryOrphan(o)
    \/ NextInWorkQueue

Spec == Init /\ [][Next]_vars

-----------------------------------------------------------------------------
(* Properties. *)

(* The types of the maps, and of the queues of the loops. *)
TypeOK ==
    /\ best \in Block
    /\ mapTx \subseteq Tx
    /\ mapNextTx \in [Prevout -> Tx \cup {NoTx}]
    /\ mapOrphanTransactions \subseteq Tx
    /\ mapOrphanTransactionsByPrev \in [Tx -> SUBSET Tx]
    /\ vResurrect \subseteq {p \in Positions(Block) : ~ IsCoinBase(TxAt(p)) /\ ~ IsCoinStake(TxAt(p))}
    /\ vDelete \subseteq Positions(Block)
    /\ vWorkQueue \in Seq(Tx)
    /\ i \in 0..Len(vWorkQueue)
    /\ mi \subseteq Tx
    /\ vEraseQueue \subseteq Tx

(* mapNextTx is exactly the inputs of the pool's transactions: accept      *)
(* relies on it to keep the pool free of double spends, remove to find     *)
(* what depends on a transaction (and it holds pointers into mapTx).       *)
NextTxMirrorsPool ==
    \A o \in Prevout : \A t \in Tx :
        mapNextTx[o] = t <=> t \in mapTx /\ o \in vin[t]

(* Between handlers no transaction of the pool is in the best chain as     *)
(* well, whatever was disconnected, put back without looking at the index, *)
(* and connected.                                                          *)
PoolNotConfirmed == Idle => mapTx \cap ChainTxs(best) = {}

(* CreateNewBlock: "all transactions in the memory pool should connect to  *)
(* either transactions in the chain or other transactions in the memory    *)
(* pool".                                                                  *)
PoolConnects == Idle => \A t \in mapTx : ~ MissingInput(t)

(* Transactions that the node has, or is about to put back in the pool. *)
Known == mapTx \cup ChainTxs(best) \cup {TxAt(p) : p \in vResurrect}

Contested(t, T) == \E u \in T \ {t} : vin[u] \cap vin[t] # {}

(* Whatever this step loses may not be loose at all, or a transaction of   *)
(* the chain or the pool spends the same output, or what it spends is lost *)
(* in the same step.                                                       *)
LostForCause ==
    LET lost == Known \ Known'
    IN  \A t \in lost :
           \/ IsCoinBase(t) \/ IsCoinStake(t) \/ t \in NonStandard
           \/ Contested(t, mapTx \cup ChainTxs(best'))
           \/ Prev(t) \cap lost # {}

(* Connecting a block, every step of a reorganisation, and accept lose a   *)
(* transaction only because of a conflict: what is disconnected comes back *)
(* to the pool, and what spends a confirmed transaction stays in it.       *)
NothingLost == [][LostForCause]_vars

(* The two orphan maps describe the same orphans: EraseOrphanTx and the    *)
(* orphan loop find in one what the other names.                           *)
OrphanIndexExact ==
    \A h \in Tx : mapOrphanTransactionsByPrev[h] = {t \in mapOrphanTransactions : h \in Prev(t)}

(* LimitOrphanTxSize bounds the orphans in every state. *)
OrphansBounded == Cardinality(mapOrphanTransactions) <= MAX_ORPHAN_TRANSACTIONS

(* When the handler of a "tx" message ends, every orphan that spends one   *)
(* of the transactions it accepted, and is still an orphan, lacks another  *)
(* input, through any number of generations of orphans.                    *)
OrphansRetried ==
    [][ vWorkQueue # <<>> /\ vWorkQueue' = <<>> =>
          \A o \in mapOrphanTransactions' :
              Prev(o) \cap {vWorkQueue[k] : k \in DOMAIN vWorkQueue} # {} => MissingInput(o)' ]_vars
=============================================================================
