---------------------------- MODULE MemPoolProofs ----------------------------
(***************************************************************************)
(* Theorems about MemPool, and about Miner on top of it, for every tree of *)
(* blocks and every set of transactions.                                   *)
(***************************************************************************)
EXTENDS Miner, BlockDataProofs

ToDelete == {TxAt(p) : p \in vDelete}

(* While a reorganisation is under way, what is both in the pool and in    *)
(* the chain, or will be, is still to be deleted.                          *)
ReorgInv ==
    /\ vDelete \subseteq Positions(Branch[best] \ {hashGenesisBlock})
    /\ mapTx \cap ChainTxs(best) \subseteq ToDelete
    /\ \A p \in vResurrect : TxAt(p) \in ChainTxs(best) => TxAt(p) \in ToDelete

IndInv ==
    /\ TypeOK
    /\ ValidChain(best)
    /\ NextTxMirrorsPool
    /\ OrphanIndexExact
    /\ ReorgInv

-----------------------------------------------------------------------------
(* Blocks, positions and the transactions of a chain. *)

(* A position is a block and an index into its vtx. *)
LEMMA PositionFacts ==
    ASSUME NEW B \in SUBSET Block, NEW p \in Positions(B)
    PROVE  /\ p = <<p[1], p[2]>>
           /\ p[1] \in B
           /\ p[2] \in 1..Len(vtx[p[1]])
           /\ TxAt(p) \in TxsOf(p[1])
           /\ TxAt(p) \in Tx
  <1>1. PICK c \in B : p \in {c} \X (1..Len(vtx[c]))
    BY DEF Positions
  <1>2. p = <<p[1], p[2]>> /\ p[1] = c /\ p[2] \in 1..Len(vtx[c])
    BY <1>1
  <1>3. vtx[c] \in Seq(Tx)
    BY TxAssumption
  <1>4. vtx[c][p[2]] \in Tx
    BY <1>2, <1>3
  <1> QED
    BY <1>2, <1>4 DEF TxAt, TxsOf

(* Every transaction of a block has a position. *)
LEMMA TxHasPosition ==
    ASSUME NEW B \in SUBSET Block, NEW c \in B, NEW t \in TxsOf(c)
    PROVE  \E p \in Positions(B) : p[1] = c /\ TxAt(p) = t
  <1>1. PICK k \in 1..Len(vtx[c]) : t = vtx[c][k]
    BY DEF TxsOf
  <1>2. <<c, k>> \in {c} \X (1..Len(vtx[c]))
    OBVIOUS
  <1>3. <<c, k>> \in Positions(B)
    BY <1>2 DEF Positions
  <1> QED
    BY <1>1, <1>3 DEF TxAt

(* In a valid chain a transaction is in one block, two transactions spend  *)
(* no common output, and what a transaction spends is in the chain.        *)
LEMMA ValidChainFacts ==
    ASSUME NEW b \in Block, ValidChain(b)
    PROVE  /\ \A c, e \in Branch[b] \ {hashGenesisBlock} : TxsOf(c) \cap TxsOf(e) # {} => c = e
           /\ \A t, u \in ChainTxs(b) : vin[t] \cap vin[u] # {} => t = u
           /\ \A t \in ChainTxs(b) : Prev(t) \subseteq ChainTxs(b)
  BY ValidChainTxs DEF Prev

-----------------------------------------------------------------------------
(* What the operations of the pool do to mapTx and mapNextTx. *)

(* The inputs of a transaction are entries of mapNextTx. *)
LEMMA InputIsPrevout ==
    ASSUME NEW t \in Tx
    PROVE  vin[t] \subseteq Prevout
  BY DEF Prevout

LEMMA AddUncheckedFacts ==
    ASSUME TypeOK, NextTxMirrorsPool, NEW t \in Tx, NoConflict(t), addUnchecked(t)
    PROVE  /\ mapTx' \subseteq Tx
           /\ mapNextTx' \in [Prevout -> Tx \cup {NoTx}]
           /\ NextTxMirrorsPool'
  <1>1. mapTx' \subseteq Tx /\ mapNextTx' \in [Prevout -> Tx \cup {NoTx}]
    BY DEF TypeOK, addUnchecked
  <1>2. ASSUME NEW o \in Prevout, NEW u \in Tx
        PROVE  mapNextTx'[o] = u <=> u \in mapTx' /\ o \in vin[u]
    <2>1. u # NoTx
      BY TxAssumption
    <2>2. mapNextTx[o] = u <=> u \in mapTx /\ o \in vin[u]
      BY DEF NextTxMirrorsPool
    <2>3. CASE o \in vin[t]
      BY <2>1, <2>2, <2>3 DEF addUnchecked, NoConflict
    <2>4. CASE o \notin vin[t]
      BY <2>2, <2>4 DEF addUnchecked
    <2> QED
      BY <2>3, <2>4
  <1> QED
    BY <1>1, <1>2 DEF NextTxMirrorsPool

LEMMA RemoveFacts ==
    ASSUME TypeOK, NextTxMirrorsPool, NEW S, remove(S)
    PROVE  /\ mapTx' \subseteq mapTx
           /\ mapTx' \subseteq Tx
           /\ mapNextTx' \in [Prevout -> Tx \cup {NoTx}]
           /\ NextTxMirrorsPool'
  <1>1. /\ mapTx' \subseteq mapTx
        /\ mapTx' \subseteq Tx
        /\ mapNextTx' \in [Prevout -> Tx \cup {NoTx}]
    BY DEF TypeOK, remove
  <1>2. ASSUME NEW o \in Prevout, NEW u \in Tx
        PROVE  mapNextTx'[o] = u <=> u \in mapTx' /\ o \in vin[u]
    <2>1. u # NoTx
      BY TxAssumption
    <2>2. \A v \in Tx : mapNextTx[o] = v <=> v \in mapTx /\ o \in vin[v]
      BY DEF NextTxMirrorsPool
    <2>3. CASE \E v \in S \cap mapTx : o \in vin[v]
      <3>1. PICK v \in S \cap mapTx : o \in vin[v]
        BY <2>3
      <3>2. mapNextTx[o] = v
        BY <2>2, <3>1 DEF TypeOK
      <3>3. mapNextTx'[o] = NoTx
        BY <2>3 DEF remove
      <3> QED
        BY <2>1, <2>2, <3>1, <3>2, <3>3 DEF remove
    <2>4. CASE ~ \E v \in S \cap mapTx : o \in vin[v]
      <3>1. mapNextTx'[o] = mapNextTx[o]
        BY <2>4 DEF remove
      <3> QED
        BY <2>2, <2>4, <3>1 DEF remove
    <2> QED
      BY <2>3, <2>4
  <1> QED
    BY <1>1, <1>2 DEF NextTxMirrorsPool

(* The orphan maps stay exact when orphans are erased. *)
LEMMA EraseFacts ==
    ASSUME TypeOK, OrphanIndexExact, NEW S \in SUBSET Tx, EraseOrphans(S)
    PROVE  /\ mapOrphanTransactions' \subseteq mapOrphanTransactions
           /\ mapOrphanTransactionsByPrev' \in [Tx -> SUBSET Tx]
           /\ OrphanIndexExact'
  <1>1. mapOrphanTransactions' = mapOrphanTransactions \ S
    BY DEF EraseOrphans
  <1>2. ASSUME NEW h \in Tx
        PROVE  mapOrphanTransactionsByPrev'[h] = {t \in mapOrphanTransactions' : h \in Prev(t)}
    <2>1. mapOrphanTransactionsByPrev[h] = {t \in mapOrphanTransactions : h \in Prev(t)}
      BY DEF OrphanIndexExact
    <2>2. mapOrphanTransactionsByPrev'[h] =
            mapOrphanTransactionsByPrev[h] \ {t \in S \cap mapOrphanTransactions : h \in Prev(t)}
      BY DEF EraseOrphans, ByPrevWithout
    <2> QED
      BY <1>1, <2>1, <2>2
  <1>3. mapOrphanTransactionsByPrev' \in [Tx -> SUBSET Tx]
    BY DEF EraseOrphans, ByPrevWithout, TypeOK
  <1> QED
    BY <1>1, <1>2, <1>3 DEF OrphanIndexExact

-----------------------------------------------------------------------------
(* Each action preserves the invariant. *)

LEMMA InitIndInv == Init => IndInv
  <1> SUFFICES ASSUME Init PROVE IndInv
    OBVIOUS
  <1>1. TypeOK
    <2>1. hashGenesisBlock \in Block
      BY TreeAssumption
    <2> QED
      BY <2>1 DEF Init, ChainInit, TypeOK
  <1>2. ValidChain(best)
    BY GenesisValid DEF Init, ChainInit
  <1>3. NextTxMirrorsPool
    BY TxAssumption DEF Init, NextTxMirrorsPool
  <1>4. OrphanIndexExact
    BY DEF Init, OrphanIndexExact
  <1>5. ReorgInv
    BY DEF Init, ReorgInv
  <1> QED
    BY <1>1, <1>2, <1>3, <1>4, <1>5 DEF IndInv

LEMMA ExtendInv ==
    ASSUME IndInv, NEW b \in Block, SetBestChainInner(b)
    PROVE  IndInv'
  <1>1. /\ Idle /\ b # hashGenesisBlock /\ hashPrevBlock[b] = best /\ best' = b
        /\ ValidChain(b) /\ remove(TxsOf(b))
        /\ UNCHANGED <<orphanVars, reorgVars, loopVars>>
    BY DEF SetBestChainInner, Extend, ConnectedTxs
  <1>2. /\ mapTx' \subseteq Tx
        /\ mapNextTx' \in [Prevout -> Tx \cup {NoTx}]
        /\ NextTxMirrorsPool'
    BY <1>1, RemoveFacts DEF IndInv
  <1>3. TypeOK'
    BY <1>1, <1>2 DEF IndInv, TypeOK, orphanVars, reorgVars, loopVars
  <1>4. OrphanIndexExact'
    BY <1>1 DEF IndInv, OrphanIndexExact, orphanVars
  <1>5. vDelete = {} /\ vResurrect = {} /\ vDelete' = {} /\ vResurrect' = {}
    BY <1>1 DEF Idle, reorgVars
  <1>6. ReorgInv'
    <2>1. ChainTxs(b) = ChainTxs(best) \cup TxsOf(b)
      BY <1>1, ChildTxs
    <2>2. mapTx \cap ChainTxs(best) = {}
      BY <1>5 DEF IndInv, ReorgInv, ToDelete
    <2>3. mapTx' \cap ChainTxs(b) = {}
      BY <1>1, <2>1, <2>2 DEF remove
    <2> QED
      BY <1>1, <1>5, <2>3 DEF ReorgInv
  <1> QED
    BY <1>1, <1>2, <1>3, <1>4, <1>6 DEF IndInv

LEMMA ReorganizeInv ==
    ASSUME IndInv, NEW b \in Block, ReorganizeTo(b)
    PROVE  IndInv'
  <1>1. /\ Idle /\ best' = b /\ ValidChain(b)
        /\ vResurrect' = Resurrected(b) /\ vDelete' = Deleted(b)
        /\ UNCHANGED <<poolVars, orphanVars, loopVars>>
    BY DEF ReorganizeTo, Reorganize
  <1>2. best \in Block /\ Branch[best] \subseteq Block /\ Branch[b] \subseteq Block
    BY ChainTxsFacts DEF IndInv, TypeOK
  <1>3. \A B \in SUBSET Block : Positions(B) \subseteq Positions(Block)
    BY DEF Positions
  <1>4. TypeOK'
    <2>1. vResurrect' \subseteq {p \in Positions(Block) : ~ IsCoinBase(TxAt(p)) /\ ~ IsCoinStake(TxAt(p))}
      BY <1>1, <1>2, <1>3 DEF Resurrected
    <2>2. vDelete' \subseteq Positions(Block)
      BY <1>1, <1>2, <1>3 DEF Deleted
    <2> QED
      BY <1>1, <2>1, <2>2 DEF IndInv, TypeOK, poolVars, orphanVars, loopVars
  <1>5. NextTxMirrorsPool' /\ OrphanIndexExact'
    BY <1>1 DEF IndInv, NextTxMirrorsPool, OrphanIndexExact, poolVars, orphanVars
  <1>6. mapTx \cap ChainTxs(best) = {}
    BY <1>1 DEF IndInv, ReorgInv, ToDelete, Idle
  <1>7. hashGenesisBlock \in Branch[best]
    BY <1>2, TreeAssumption
  <1>8. ASSUME NEW e \in Branch[b] \ Branch[best], NEW t \in TxsOf(e)
        PROVE  t \in ToDelete'
    <2>1. \E p \in Positions(Branch[b] \ Branch[best]) : TxAt(p) = t
      BY <1>2, <1>8, TxHasPosition
    <2> QED
      BY <1>1, <2>1 DEF ToDelete, Deleted
  <1>9. vDelete' \subseteq Positions(Branch[b] \ {hashGenesisBlock})
    BY <1>1, <1>7 DEF Deleted, Positions
  <1>10. mapTx \cap ChainTxs(b) \subseteq ToDelete'
    <2> SUFFICES ASSUME NEW t \in mapTx \cap ChainTxs(b) PROVE t \in ToDelete'
      OBVIOUS
    <2>1. PICK e \in Branch[b] \ {hashGenesisBlock} : t \in TxsOf(e)
      BY ChainTxsFacts
    <2>2. e \notin Branch[best]
      BY <1>2, <1>6, <2>1, ChainTxsFacts
    <2> QED
      BY <1>8, <2>1, <2>2
  <1>11. ASSUME NEW p \in Resurrected(b), TxAt(p) \in ChainTxs(b)
         PROVE  TxAt(p) \in ToDelete'
    <2>1. p \in Positions(Branch[best] \ Branch[b])
      BY DEF Resurrected
    <2>2. p[1] \in Branch[best] \ Branch[b] /\ TxAt(p) \in TxsOf(p[1])
      BY <1>2, <2>1, PositionFacts
    <2>3. PICK e \in Branch[b] \ {hashGenesisBlock} : TxAt(p) \in TxsOf(e)
      BY <1>11, ChainTxsFacts
    <2>4. e \notin Branch[best]
      <3>1. hashGenesisBlock \in Branch[b]
        BY TreeAssumption
      <3>2. p[1] \in Branch[best] \ {hashGenesisBlock} /\ e # p[1]
        BY <2>2, <2>3, <3>1
      <3> QED
        BY <1>2, <2>2, <2>3, <3>2, ValidChainFacts DEF IndInv
    <2> QED
      BY <1>8, <2>3, <2>4
  <1>12. ReorgInv'
    BY <1>1, <1>9, <1>10, <1>11 DEF ReorgInv, poolVars
  <1> QED
    BY <1>1, <1>4, <1>5, <1>12 DEF IndInv

LEMMA ResurrectInv ==
    ASSUME IndInv, NEW p \in vResurrect, ResurrectTx(p)
    PROVE  IndInv'
  <1> DEFINE t == TxAt(p)
  <1>1. /\ vResurrect' = vResurrect \ {p}
        /\ UNCHANGED <<best, vDelete, orphanVars, loopVars>>
    BY DEF ResurrectTx
  <1>2. t \in Tx
    BY PositionFacts DEF IndInv, TypeOK
  <1>3. /\ mapTx' \subseteq mapTx \cup {t}
        /\ mapTx' \subseteq Tx
        /\ mapNextTx' \in [Prevout -> Tx \cup {NoTx}]
        /\ NextTxMirrorsPool'
    <2>1. CASE Standalone(t) /\ NoConflict(t)
      <3>1. addUnchecked(t)
        BY <2>1 DEF ResurrectTx
      <3> QED
        BY <1>2, <2>1, <3>1, AddUncheckedFacts DEF IndInv, addUnchecked
    <2>2. CASE ~ (Standalone(t) /\ NoConflict(t))
      <3>1. UNCHANGED poolVars
        BY <2>2 DEF ResurrectTx
      <3> QED
        BY <3>1 DEF IndInv, TypeOK, NextTxMirrorsPool, poolVars
    <2> QED
      BY <2>1, <2>2
  <1>4. TypeOK'
    BY <1>1, <1>3 DEF IndInv, TypeOK, orphanVars, loopVars
  <1>5. OrphanIndexExact'
    BY <1>1 DEF IndInv, OrphanIndexExact, orphanVars
  <1>6. ReorgInv'
    BY <1>1, <1>3 DEF IndInv, ReorgInv, ToDelete
  <1> QED
    BY <1>1, <1>3, <1>4, <1>5, <1>6 DEF IndInv

LEMMA DeleteInv ==
    ASSUME IndInv, NEW p \in vDelete, DeleteTx(p)
    PROVE  IndInv'
  <1> DEFINE S == {TxAt(p)} \cup Conflicting(TxAt(p))
  <1>1. /\ vResurrect = {} /\ vDelete' = vDelete \ {p} /\ remove(S)
        /\ UNCHANGED <<best, vResurrect, orphanVars, loopVars>>
    BY DEF DeleteTx, Deleting
  <1>2. /\ mapTx' \subseteq mapTx
        /\ mapTx' \subseteq Tx
        /\ mapNextTx' \in [Prevout -> Tx \cup {NoTx}]
        /\ NextTxMirrorsPool'
    BY <1>1, RemoveFacts DEF IndInv
  <1>3. TypeOK'
    BY <1>1, <1>2 DEF IndInv, TypeOK, orphanVars, loopVars
  <1>4. OrphanIndexExact'
    BY <1>1 DEF IndInv, OrphanIndexExact, orphanVars
  <1>5. ReorgInv'
    <2>1. TxAt(p) \notin mapTx'
      BY <1>1 DEF remove
    <2>2. mapTx' \cap ChainTxs(best) \subseteq ToDelete'
      BY <1>1, <1>2, <2>1 DEF IndInv, ReorgInv, ToDelete
    <2> QED
      BY <1>1, <2>2 DEF IndInv, ReorgInv
  <1> QED
    BY <1>1, <1>2, <1>3, <1>4, <1>5 DEF IndInv

(* Adding a transaction that is not in the chain disturbs nothing. *)
LEMMA AcceptInv ==
    ASSUME IndInv, NEW t \in Tx, Accepts(t), addUnchecked(t), UNCHANGED <<best, orphanVars, reorgVars>>
    PROVE  /\ mapTx' \subseteq Tx
           /\ mapNextTx' \in [Prevout -> Tx \cup {NoTx}]
           /\ NextTxMirrorsPool'
           /\ OrphanIndexExact'
           /\ ReorgInv'
  <1>1. NoConflict(t) /\ t \notin ChainTxs(best)
    BY DEF Accepts, Considered
  <1>2. /\ mapTx' \subseteq Tx
        /\ mapNextTx' \in [Prevout -> Tx \cup {NoTx}]
        /\ NextTxMirrorsPool'
    BY <1>1, AddUncheckedFacts DEF IndInv
  <1>3. OrphanIndexExact'
    BY DEF IndInv, OrphanIndexExact, orphanVars
  <1>4. ReorgInv'
    BY <1>1 DEF IndInv, ReorgInv, ToDelete, addUnchecked, reorgVars
  <1> QED
    BY <1>2, <1>3, <1>4

LEMMA WalletInv ==
    ASSUME IndInv, NEW t \in Tx, AcceptWalletTransaction(t)
    PROVE  IndInv'
  <1>1. /\ Accepts(t) /\ addUnchecked(t)
        /\ UNCHANGED <<best, orphanVars, reorgVars, loopVars>>
    BY DEF AcceptWalletTransaction
  <1>2. /\ mapTx' \subseteq Tx
        /\ mapNextTx' \in [Prevout -> Tx \cup {NoTx}]
        /\ NextTxMirrorsPool' /\ OrphanIndexExact' /\ ReorgInv'
    BY <1>1, AcceptInv
  <1>3. TypeOK'
    BY <1>1, <1>2 DEF IndInv, TypeOK, orphanVars, reorgVars, loopVars
  <1> QED
    BY <1>1, <1>2, <1>3 DEF IndInv

LEMMA ReceiveInv ==
    ASSUME IndInv, NEW t \in Tx, ReceiveTx(t)
    PROVE  IndInv'
  <1>1. /\ Accepts(t) /\ addUnchecked(t)
        /\ UNCHANGED <<best, orphanVars, reorgVars>>
    BY DEF ReceiveTx
  <1>2. /\ mapTx' \subseteq Tx
        /\ mapNextTx' \in [Prevout -> Tx \cup {NoTx}]
        /\ NextTxMirrorsPool' /\ OrphanIndexExact' /\ ReorgInv'
    BY <1>1, AcceptInv
  <1>3. vWorkQueue' \in Seq(Tx) /\ i' \in 0..Len(vWorkQueue') /\ mi' \subseteq Tx /\ vEraseQueue' \subseteq Tx
    BY DEF ReceiveTx, IndInv, TypeOK
  <1>4. TypeOK'
    BY <1>1, <1>2, <1>3 DEF IndInv, TypeOK, orphanVars, reorgVars
  <1> QED
    BY <1>1, <1>2, <1>4 DEF IndInv

LEMMA ReceiveOrphanInv ==
    ASSUME IndInv, NEW t \in Tx, ReceiveOrphanTx(t)
    PROVE  IndInv'
  <1> DEFINE orphans == mapOrphanTransactions \cup {t}
  <1>1. PICK evicted \in SUBSET orphans :
           /\ mapOrphanTransactions' = orphans \ evicted
           /\ mapOrphanTransactionsByPrev' = ByPrevWithout(ByPrevWith(t), evicted)
    BY DEF ReceiveOrphanTx
  <1>2. UNCHANGED <<best, poolVars, reorgVars, loopVars>>
    BY DEF ReceiveOrphanTx
  <1>3. ASSUME NEW h \in Tx
        PROVE  mapOrphanTransactionsByPrev'[h] = {u \in mapOrphanTransactions' : h \in Prev(u)}
    <2>1. mapOrphanTransactionsByPrev[h] = {u \in mapOrphanTransactions : h \in Prev(u)}
      BY DEF IndInv, OrphanIndexExact
    <2>2. ByPrevWith(t)[h] = {u \in orphans : h \in Prev(u)}
      BY <2>1 DEF ByPrevWith
    <2>3. mapOrphanTransactionsByPrev'[h] = ByPrevWith(t)[h] \ {u \in evicted : h \in Prev(u)}
      BY <1>1 DEF ByPrevWithout
    <2> QED
      BY <1>1, <2>2, <2>3
  <1>4. mapOrphanTransactions' \subseteq Tx /\ mapOrphanTransactionsByPrev' \in [Tx -> SUBSET Tx]
    <2>1. mapOrphanTransactions' \subseteq Tx
      BY <1>1 DEF IndInv, TypeOK
    <2>2. \A h \in Tx : mapOrphanTransactionsByPrev'[h] \subseteq Tx
      BY <1>3, <2>1
    <2>3. mapOrphanTransactionsByPrev' = [h \in Tx |-> mapOrphanTransactionsByPrev'[h]]
      BY <1>1 DEF ByPrevWithout
    <2> QED
      BY <2>1, <2>2, <2>3
  <1>5. TypeOK'
    BY <1>2, <1>4 DEF IndInv, TypeOK, poolVars, reorgVars, loopVars
  <1>6. NextTxMirrorsPool' /\ ReorgInv' /\ ValidChain(best)'
    BY <1>2 DEF IndInv, NextTxMirrorsPool, ReorgInv, ToDelete, poolVars, reorgVars
  <1>7. OrphanIndexExact'
    BY <1>3 DEF OrphanIndexExact
  <1> QED
    BY <1>5, <1>6, <1>7 DEF IndInv

LEMMA TryOrphanInv ==
    ASSUME IndInv, NEW o \in mi, TryOrphan(o)
    PROVE  IndInv'
  <1>1. o \in Tx /\ mi' \subseteq Tx /\ vEraseQueue' \subseteq Tx /\ UNCHANGED <<best, i, orphanVars, reorgVars>>
    BY DEF TryOrphan, IndInv, TypeOK
  <1>2. /\ mapTx' \subseteq Tx
        /\ mapNextTx' \in [Prevout -> Tx \cup {NoTx}]
        /\ NextTxMirrorsPool' /\ OrphanIndexExact' /\ ReorgInv'
        /\ vWorkQueue' \in Seq(Tx) /\ i' \in 0..Len(vWorkQueue')
    <2>1. CASE Accepts(o)
      <3>1. addUnchecked(o) /\ vWorkQueue' = Append(vWorkQueue, o)
        BY <2>1 DEF TryOrphan, Released
      <3>2. vWorkQueue \in Seq(Tx) /\ i \in 0..Len(vWorkQueue)
        BY DEF IndInv, TypeOK
      <3>3. vWorkQueue' \in Seq(Tx) /\ Len(vWorkQueue') = Len(vWorkQueue) + 1
        BY <1>1, <3>1, <3>2
      <3>4. i' \in 0..Len(vWorkQueue')
        BY <1>1, <3>2, <3>3
      <3> QED
        BY <1>1, <2>1, <3>1, <3>3, <3>4, AcceptInv
    <2>2. CASE ~ Accepts(o)
      <3>1. UNCHANGED <<poolVars, vWorkQueue>>
        BY <2>2 DEF TryOrphan
      <3> QED
        BY <1>1, <3>1 DEF IndInv, TypeOK, NextTxMirrorsPool, OrphanIndexExact, ReorgInv, ToDelete,
                          poolVars, orphanVars, reorgVars
    <2> QED
      BY <2>1, <2>2
  <1>3. TypeOK'
    BY <1>1, <1>2 DEF IndInv, TypeOK, orphanVars, reorgVars
  <1> QED
    BY <1>1, <1>2, <1>3 DEF IndInv

LEMMA WorkQueueInv ==
    ASSUME IndInv, NextInWorkQueue
    PROVE  IndInv'
  <1>1. UNCHANGED <<best, poolVars, reorgVars>>
    BY DEF NextInWorkQueue
  <1>2. /\ mapOrphanTransactions' \subseteq Tx
        /\ mapOrphanTransactionsByPrev' \in [Tx -> SUBSET Tx]
        /\ vWorkQueue' \in Seq(Tx) /\ i' \in 0..Len(vWorkQueue')
        /\ mi' \subseteq Tx /\ vEraseQueue' \subseteq Tx
        /\ OrphanIndexExact'
    <2>1. CASE i < Len(vWorkQueue)
      <3>1. /\ i' = i + 1 /\ mi' = mapOrphanTransactionsByPrev[vWorkQueue[i + 1]]
            /\ UNCHANGED <<vWorkQueue, vEraseQueue, orphanVars>>
        BY <2>1 DEF NextInWorkQueue
      <3>2. vWorkQueue \in Seq(Tx) /\ i \in 0..Len(vWorkQueue)
        BY DEF IndInv, TypeOK
      <3>3. i + 1 \in 1..Len(vWorkQueue)
        BY <2>1, <3>2
      <3>4. vWorkQueue[i + 1] \in Tx
        BY <3>2, <3>3
      <3> QED
        BY <3>1, <3>2, <3>3, <3>4 DEF IndInv, TypeOK, OrphanIndexExact, orphanVars
    <2>2. CASE ~ (i < Len(vWorkQueue))
      <3>1. /\ EraseOrphans(vEraseQueue) /\ vWorkQueue' = <<>> /\ i' = 0
            /\ vEraseQueue' = {} /\ mi' = mi
        BY <2>2 DEF NextInWorkQueue
      <3>2. /\ mapOrphanTransactions' \subseteq mapOrphanTransactions
            /\ mapOrphanTransactionsByPrev' \in [Tx -> SUBSET Tx]
            /\ OrphanIndexExact'
        BY <3>1, EraseFacts DEF IndInv, TypeOK
      <3> QED
        BY <3>1, <3>2 DEF IndInv, TypeOK
    <2> QED
      BY <2>1, <2>2
  <1>3. TypeOK'
    BY <1>1, <1>2 DEF IndInv, TypeOK, poolVars, reorgVars
  <1>4. NextTxMirrorsPool' /\ ReorgInv' /\ ValidChain(best)'
    BY <1>1 DEF IndInv, NextTxMirrorsPool, ReorgInv, ToDelete, poolVars, reorgVars
  <1> QED
    BY <1>2, <1>3, <1>4 DEF IndInv

LEMMA StutterInv ==
    ASSUME IndInv, UNCHANGED vars
    PROVE  IndInv'
  BY DEF IndInv, TypeOK, NextTxMirrorsPool, OrphanIndexExact, ReorgInv, ToDelete,
         vars, poolVars, orphanVars, reorgVars, loopVars

LEMMA StepInv == IndInv /\ [Next]_vars => IndInv'
  <1> SUFFICES ASSUME IndInv, [Next]_vars PROVE IndInv'
    OBVIOUS
  <1>1. ASSUME NEW b \in Block, SetBestChainInner(b) PROVE IndInv'
    BY <1>1, ExtendInv
  <1>2. ASSUME NEW b \in Block, ReorganizeTo(b) PROVE IndInv'
    BY <1>2, ReorganizeInv
  <1>3. ASSUME NEW p \in vResurrect, ResurrectTx(p) PROVE IndInv'
    BY <1>3, ResurrectInv
  <1>4. ASSUME NEW p \in vDelete, DeleteTx(p) PROVE IndInv'
    BY <1>4, DeleteInv
  <1>5. ASSUME NEW t \in Tx, AcceptWalletTransaction(t) PROVE IndInv'
    BY <1>5, WalletInv
  <1>6. ASSUME NEW t \in Tx, ReceiveTx(t) PROVE IndInv'
    BY <1>6, ReceiveInv
  <1>7. ASSUME NEW t \in Tx, ReceiveOrphanTx(t) PROVE IndInv'
    BY <1>7, ReceiveOrphanInv
  <1>8. ASSUME NEW o \in mi, TryOrphan(o) PROVE IndInv'
    BY <1>8, TryOrphanInv
  <1>9. CASE NextInWorkQueue
    BY <1>9, WorkQueueInv
  <1>10. CASE UNCHANGED vars
    BY <1>10, StutterInv
  <1> QED
    BY <1>1, <1>2, <1>3, <1>4, <1>5, <1>6, <1>7, <1>8, <1>9, <1>10 DEF Next

-----------------------------------------------------------------------------
(* Theorems. *)

(* The pool's types, the exactness of its two indexes and the bookkeeping  *)
(* of a reorganisation hold in every reachable state.                      *)
THEOREM PoolInvariance == Spec => []IndInv
  <1>1. Init => IndInv
    BY InitIndInv
  <1>2. IndInv /\ [Next]_vars => IndInv'
    BY StepInv
  <1> QED
    BY <1>1, <1>2, PTL DEF Spec

(* TypeOK: the types of the pool's maps and of the queues of its loops. *)
THEOREM PoolTypeCorrect == Spec => []TypeOK
  <1>1. IndInv => TypeOK
    BY DEF IndInv
  <1> QED
    BY <1>1, PoolInvariance, PTL

(* NextTxMirrorsPool: addUnchecked, remove and removeConflicts keep        *)
(* mapNextTx equal to the inputs of mapTx, so the pool never holds a       *)
(* double spend and no entry outlives its transaction.                     *)
THEOREM NextTxAlwaysMirrors == Spec => []NextTxMirrorsPool
  <1>1. IndInv => NextTxMirrorsPool
    BY DEF IndInv
  <1> QED
    BY <1>1, PoolInvariance, PTL

(* PoolNotConfirmed: after any reorganisation, however it interleaves      *)
(* resurrected and deleted transactions, no transaction is both loose and  *)
(* in the best chain.                                                      *)
THEOREM PoolNeverConfirmed == Spec => []PoolNotConfirmed
  <1>1. IndInv => PoolNotConfirmed
    BY DEF IndInv, ReorgInv, ToDelete, PoolNotConfirmed, Idle
  <1> QED
    BY <1>1, PoolInvariance, PTL

(* OrphanIndexExact: AddOrphanTx, LimitOrphanTxSize and EraseOrphanTx keep *)
(* the orphans and their index by parent equal.                            *)
THEOREM OrphanIndexAlwaysExact == Spec => []OrphanIndexExact
  <1>1. IndInv => OrphanIndexExact
    BY DEF IndInv
  <1> QED
    BY <1>1, PoolInvariance, PTL

-----------------------------------------------------------------------------
(* The bound on the orphans. *)

(* Evicting the surplus brings a set down to the limit. *)
LEMMA EvictedEnough ==
    ASSUME NEW orphans \in SUBSET Tx, NEW evicted, LimitOrphanTxSize(orphans, evicted)
    PROVE  Cardinality(orphans \ evicted) <= MAX_ORPHAN_TRANSACTIONS
  <1> DEFINE n == Cardinality(orphans)
             k == n - MAX_ORPHAN_TRANSACTIONS
  <1>1. IsFiniteSet(orphans) /\ n \in Nat /\ MAX_ORPHAN_TRANSACTIONS \in Nat
    BY PoolAssumption, FS_Subset, FS_CardinalityType
  <1>2. evicted \subseteq orphans /\ Cardinality(evicted) = Max({0, k})
    BY DEF LimitOrphanTxSize
  <1>3. k <= Max({0, k}) /\ Max({0, k}) \in Int
    <2>1. \E x \in {0, k} : \A y \in {0, k} : x >= y
      BY <1>1
    <2> QED
      BY <1>1, <2>1 DEF Max
  <1>4. Cardinality(orphans \ evicted) = n - Cardinality(orphans \cap evicted)
    BY <1>1, FS_Difference
  <1>5. orphans \cap evicted = evicted
    BY <1>2
  <1>6. Cardinality(orphans \ evicted) = n - Max({0, k})
    BY <1>2, <1>4, <1>5
  <1> HIDE DEF n
  <1> QED
    BY <1>1, <1>3, <1>6

(* OrphansBounded: a flood of transactions without known inputs leaves at  *)
(* most MAX_ORPHAN_TRANSACTIONS of them in memory.                         *)
THEOREM OrphansAlwaysBounded == Spec => []OrphansBounded
  <1>1. Init => OrphansBounded
    BY PoolAssumption, FS_EmptySet DEF Init, OrphansBounded
  <1>2. ASSUME TypeOK, OrphansBounded, [Next]_vars
        PROVE  OrphansBounded'
    <2>1. CASE mapOrphanTransactions' \subseteq mapOrphanTransactions
      <3>1. IsFiniteSet(mapOrphanTransactions)
        BY <1>2, PoolAssumption, FS_Subset DEF TypeOK
      <3>2. /\ Cardinality(mapOrphanTransactions') <= Cardinality(mapOrphanTransactions)
            /\ Cardinality(mapOrphanTransactions') \in Nat
            /\ Cardinality(mapOrphanTransactions) \in Nat
        BY <2>1, <3>1, FS_Subset, FS_CardinalityType
      <3> QED
        BY <1>2, <3>2, PoolAssumption DEF OrphansBounded
    <2>2. ASSUME NEW t \in Tx, ReceiveOrphanTx(t)
          PROVE  OrphansBounded'
      <3>1. PICK evicted : /\ LimitOrphanTxSize(mapOrphanTransactions \cup {t}, evicted)
                           /\ mapOrphanTransactions' = (mapOrphanTransactions \cup {t}) \ evicted
        BY <2>2 DEF ReceiveOrphanTx
      <3>2. mapOrphanTransactions \cup {t} \subseteq Tx
        BY <1>2 DEF TypeOK
      <3> QED
        BY <3>1, <3>2, EvictedEnough DEF OrphansBounded
    <2>3. \/ mapOrphanTransactions' \subseteq mapOrphanTransactions
          \/ \E t \in Tx : ReceiveOrphanTx(t)
      BY <1>2 DEF Next, vars, orphanVars, SetBestChainInner, ReorganizeTo, ResurrectTx, DeleteTx,
                  AcceptWalletTransaction, ReceiveTx, TryOrphan, NextInWorkQueue, EraseOrphans
    <2> QED
      BY <2>1, <2>2, <2>3
  <1> QED
    BY <1>1, <1>2, PoolTypeCorrect, PTL DEF Spec

-----------------------------------------------------------------------------
(* What leaves the pool. *)

(* What remove(u, true) takes out holds u and is closed under spending. *)
LEMMA DescendantsClosed ==
    ASSUME TypeOK, NextTxMirrorsPool, NEW u \in mapTx
    PROVE  u \in WithDescendants(u) /\ SpendersTaken(WithDescendants(u))
  <1> DEFINE W == WithDescendants(u)
  <1>1. W \subseteq mapTx /\ mapTx \subseteq Tx
    BY DEF WithDescendants, TypeOK
  <1>2. \A D \in SUBSET mapTx : u \in D /\ SpendersTaken(D) => W \subseteq D
    BY DEF WithDescendants
  <1>3. u \in W
    BY DEF WithDescendants
  <1>4. ASSUME NEW v \in W, NEW n \in 1..vout[v]
        PROVE  mapNextTx[<<v, n>>] \in W \cup {NoTx}
    <2> DEFINE s == mapNextTx[<<v, n>>]
    <2> SUFFICES ASSUME s # NoTx PROVE s \in W
      OBVIOUS
    <2>1. v \in Tx
      BY <1>1
    <2>2. <<v, n>> \in Prevout
      BY <2>1 DEF Prevout, OutPoint
    <2>3. s \in Tx
      BY <2>2 DEF TypeOK
    <2>4. s \in mapTx
      BY <2>2, <2>3 DEF NextTxMirrorsPool
    <2>5. ASSUME NEW D \in SUBSET mapTx, u \in D, SpendersTaken(D)
          PROVE  s \in D
      <3>1. v \in D
        BY <1>2, <2>5
      <3> QED
        BY <3>1, <2>5 DEF SpendersTaken
    <2> QED
      BY <2>4, <2>5 DEF WithDescendants
  <1> QED
    BY <1>3, <1>4 DEF SpendersTaken

(* Everything in it but u spends something in it, and it is the least such *)
(* set.                                                                    *)
LEMMA DescendantFacts ==
    ASSUME TypeOK, NextTxMirrorsPool, NEW u \in mapTx
    PROVE  /\ WithDescendants(u) \subseteq mapTx
           /\ \A t \in WithDescendants(u) \ {u} : Prev(t) \cap WithDescendants(u) # {}
           /\ \A D \in SUBSET mapTx : u \in D /\ SpendersTaken(D) => WithDescendants(u) \subseteq D
  <1> DEFINE W == WithDescendants(u)
  <1>1. W \subseteq mapTx /\ mapTx \subseteq Tx
    BY DEF WithDescendants, TypeOK
  <1>2. \A D \in SUBSET mapTx : u \in D /\ SpendersTaken(D) => W \subseteq D
    BY DEF WithDescendants
  <1>3. u \in W
    BY DEF WithDescendants
  <1>4. \A v \in W : \A n \in 1..vout[v] : mapNextTx[<<v, n>>] \in W \cup {NoTx}
    BY DescendantsClosed DEF SpendersTaken
  <1>5. ASSUME NEW t \in W \ {u}
        PROVE  Prev(t) \cap W # {}
    <2> DEFINE D == W \ {t}
    <2>1. D \in SUBSET mapTx /\ u \in D /\ ~ (W \subseteq D)
      BY <1>1, <1>3
    <2>2. ~ SpendersTaken(D)
      BY <1>2, <2>1
    <2>3. PICK v \in D : \E n \in 1..vout[v] : mapNextTx[<<v, n>>] \notin D \cup {NoTx}
      BY <2>2 DEF SpendersTaken
    <2>4. PICK n \in 1..vout[v] : mapNextTx[<<v, n>>] \notin D \cup {NoTx}
      BY <2>3
    <2>5. mapNextTx[<<v, n>>] = t
      BY <1>4, <2>4
    <2>6. v \in Tx /\ t \in Tx
      BY <1>1
    <2>7. <<v, n>> \in Prevout
      BY <2>4, <2>6 DEF Prevout, OutPoint
    <2>8. <<v, n>> \in vin[t]
      BY <2>5, <2>6, <2>7 DEF NextTxMirrorsPool
    <2>9. v \in Prev(t)
      <3>1. <<v, n>>[1] = v
        OBVIOUS
      <3> QED
        BY <2>8, <3>1 DEF Prev
    <2> QED
      BY <2>4, <2>9
  <1> QED
    BY <1>1, <1>2, <1>5

(* A transaction of the pool that conflicts with the chain has no          *)
(* descendant in the chain.                                                *)
LEMMA ConflictNotInChain ==
    ASSUME IndInv, NEW t \in ChainTxs(best), NEW u \in mapTx, u # t, vin[u] \cap vin[t] # {}
    PROVE  WithDescendants(u) \cap ChainTxs(best) = {}
  <1> DEFINE C == ChainTxs(best)
             D == WithDescendants(u) \ C
  <1>1. best \in Block /\ ValidChain(best) /\ TypeOK /\ NextTxMirrorsPool
    BY DEF IndInv, TypeOK
  <1>2. \A v, w \in C : vin[v] \cap vin[w] # {} => v = w
    BY <1>1, ValidChainFacts
  <1>3. \A w \in C : Prev(w) \subseteq C
    BY <1>1, ValidChainFacts
  <1>4. u \notin C
    BY <1>2
  <1>5. SpendersTaken(WithDescendants(u)) /\ u \in WithDescendants(u)
    BY <1>1, DescendantsClosed
  <1>6. SpendersTaken(D)
    <2> SUFFICES ASSUME NEW v \in D, NEW n \in 1..vout[v], mapNextTx[<<v, n>>] # NoTx
                 PROVE  mapNextTx[<<v, n>>] \in D
      BY DEF SpendersTaken
    <2> DEFINE s == mapNextTx[<<v, n>>]
    <2>1. s \in WithDescendants(u)
      BY <1>5 DEF SpendersTaken
    <2>2. v \in Tx /\ s \in Tx /\ s \in mapTx
      BY <1>1, <2>1 DEF WithDescendants, TypeOK
    <2>3. <<v, n>> \in Prevout
      BY <2>2 DEF Prevout, OutPoint
    <2>4. <<v, n>> \in vin[s]
      BY <1>1, <2>2, <2>3 DEF NextTxMirrorsPool
    <2>5. v \in Prev(s)
      <3>1. <<v, n>>[1] = v
        OBVIOUS
      <3> QED
        BY <2>4, <3>1 DEF Prev
    <2>6. s \notin C
      BY <1>3, <2>5
    <2> QED
      BY <2>1, <2>6
  <1>7. D \in SUBSET mapTx
    BY DEF WithDescendants
  <1> QED
    BY <1>1, <1>4, <1>5, <1>6, <1>7, DescendantFacts

(* A reorganisation's own steps: disconnecting puts every loose            *)
(* transaction of the old branch on vResurrect.                            *)
LEMMA ReorganizeKeeps ==
    ASSUME IndInv, NEW b \in Block, ReorganizeTo(b)
    PROVE  LostForCause
  <1>1. Idle /\ best' = b /\ vResurrect' = Resurrected(b) /\ mapTx' = mapTx
    BY DEF ReorganizeTo, Reorganize, poolVars
  <1>2. best \in Block /\ Branch[best] \subseteq Block
    BY ChainTxsFacts DEF IndInv, TypeOK
  <1> SUFFICES ASSUME NEW t \in Known \ Known', ~ IsCoinBase(t), ~ IsCoinStake(t)
               PROVE  FALSE
    BY DEF LostForCause
  <1>3. t \in ChainTxs(best) /\ t \notin ChainTxs(b) /\ \A p \in Resurrected(b) : TxAt(p) # t
    BY <1>1 DEF Known, Idle
  <1>4. PICK c \in Branch[best] \ {hashGenesisBlock} : t \in TxsOf(c)
    BY <1>2, <1>3, ChainTxsFacts
  <1>5. c \notin Branch[b]
    BY <1>3, <1>4, ChainTxsFacts
  <1>6. \E p \in Positions(Branch[best] \ Branch[b]) : TxAt(p) = t
    BY <1>2, <1>4, <1>5, TxHasPosition
  <1> QED
    BY <1>3, <1>6 DEF Resurrected

(* A transaction that is not resurrected conflicts with one of the pool.   *)
LEMMA ResurrectKeeps ==
    ASSUME IndInv, NEW p \in vResurrect, ResurrectTx(p)
    PROVE  LostForCause
  <1> DEFINE r == TxAt(p)
  <1>1. vResurrect' = vResurrect \ {p} /\ best' = best
    BY DEF ResurrectTx
  <1>2. r \in Tx
    BY PositionFacts DEF IndInv, TypeOK
  <1> SUFFICES ASSUME NEW t \in Known \ Known', ~ IsCoinBase(t), ~ IsCoinStake(t), t \notin NonStandard
               PROVE  Contested(t, mapTx \cup ChainTxs(best'))
    BY DEF LostForCause
  <1>3. mapTx \subseteq mapTx'
    BY DEF ResurrectTx, addUnchecked, poolVars
  <1>4. t = r /\ t \notin mapTx'
    BY <1>1, <1>3 DEF Known
  <1>5. Standalone(r) /\ ~ NoConflict(r)
    <2>1. Standalone(r)
      BY <1>3, <1>4 DEF Standalone, CheckTransaction
    <2>2. ~ NoConflict(r)
      BY <1>4, <2>1 DEF ResurrectTx, addUnchecked
    <2> QED
      BY <2>1, <2>2
  <1>6. PICK o \in vin[r] : mapNextTx[o] # NoTx
    BY <1>5 DEF NoConflict
  <1>7. o \in Prevout
    BY <1>2, InputIsPrevout
  <1>8. mapNextTx[o] \in Tx
    BY <1>6, <1>7 DEF IndInv, TypeOK
  <1>9. mapNextTx[o] \in mapTx /\ o \in vin[mapNextTx[o]]
    BY <1>7, <1>8 DEF IndInv, NextTxMirrorsPool
  <1> QED
    BY <1>3, <1>4, <1>6, <1>9 DEF Contested

(* What removeConflicts takes out conflicts with the chain, or spends what *)
(* is taken out with it.                                                   *)
LEMMA DeleteKeeps ==
    ASSUME IndInv, NEW p \in vDelete, DeleteTx(p)
    PROVE  LostForCause
  <1> DEFINE r == TxAt(p)
             lost == Known \ Known'
  <1>1. /\ vResurrect = {} /\ vResurrect' = {} /\ best' = best
        /\ mapTx' = mapTx \ ({r} \cup Conflicting(r))
    BY DEF DeleteTx, Deleting, remove
  <1>2. best \in Block /\ Branch[best] \subseteq Block /\ TypeOK /\ NextTxMirrorsPool
    BY ChainTxsFacts DEF IndInv, TypeOK
  <1>3. r \in ChainTxs(best) /\ r \in Tx
    <2>1. p \in Positions(Branch[best] \ {hashGenesisBlock})
      BY DEF IndInv, ReorgInv
    <2>2. p[1] \in Branch[best] \ {hashGenesisBlock} /\ r \in TxsOf(p[1]) /\ r \in Tx
      BY <1>2, <2>1, PositionFacts
    <2> QED
      BY <1>2, <2>2, ChainTxsFacts
  <1>4. lost = mapTx \ (mapTx' \cup ChainTxs(best))
    BY <1>1 DEF Known
  <1> SUFFICES ASSUME NEW t \in lost
               PROVE  Contested(t, mapTx \cup ChainTxs(best')) \/ Prev(t) \cap lost # {}
    BY DEF LostForCause
  <1>5. t \in Conflicting(r)
    BY <1>1, <1>3, <1>4
  <1>6. PICK u \in {mapNextTx[o] : o \in vin[r]} \ {NoTx, r} : t \in WithDescendants(u)
    BY <1>5 DEF Conflicting
  <1>7. PICK o \in vin[r] : u = mapNextTx[o]
    BY <1>6
  <1>8. o \in Prevout
    BY <1>3, InputIsPrevout
  <1>9. u \in Tx
    BY <1>2, <1>6, <1>7, <1>8 DEF TypeOK
  <1>10. u \in mapTx /\ o \in vin[u] /\ u # r
    BY <1>2, <1>6, <1>7, <1>8, <1>9 DEF NextTxMirrorsPool
  <1>11. CASE t = u
    BY <1>1, <1>3, <1>7, <1>10, <1>11 DEF Contested
  <1>12. CASE t # u
    <2>1. PICK v \in WithDescendants(u) : v \in Prev(t)
      BY <1>2, <1>6, <1>10, <1>12, DescendantFacts
    <2>2. v \in mapTx /\ v \notin ChainTxs(best)
      BY <1>3, <1>7, <1>10, ConflictNotInChain DEF WithDescendants
    <2>3. v \in Conflicting(r)
      BY <1>6 DEF Conflicting
    <2> QED
      BY <1>1, <1>4, <2>1, <2>2, <2>3
  <1> QED
    BY <1>11, <1>12

(* The other steps lose nothing: a block that is connected takes its own   *)
(* transactions out of the pool, and accepted transactions only add to it. *)
LEMMA ExtendKeeps ==
    ASSUME IndInv, NEW b \in Block, SetBestChainInner(b)
    PROVE  LostForCause
  <1>1. /\ Idle /\ vResurrect' = vResurrect
        /\ b # hashGenesisBlock /\ hashPrevBlock[b] = best /\ best' = b
        /\ mapTx' = mapTx \ TxsOf(b)
    BY DEF SetBestChainInner, Extend, ConnectedTxs, remove, reorgVars
  <1>2. ChainTxs(b) = ChainTxs(best) \cup TxsOf(b)
    BY <1>1, ChildTxs
  <1>3. Known \ Known' = {}
    BY <1>1, <1>2 DEF Known, Idle
  <1> QED
    BY <1>3 DEF LostForCause

LEMMA GrowthKeeps ==
    ASSUME mapTx \subseteq mapTx', best' = best, vResurrect' = vResurrect
    PROVE  LostForCause
  <1>1. Known \ Known' = {}
    BY DEF Known
  <1> QED
    BY <1>1 DEF LostForCause

(* NothingLost: whatever blocks and transactions arrive, SetBestChain,     *)
(* Reorganize and the pool drop a transaction only because of a conflict.  *)
THEOREM NothingEverLost == Spec => NothingLost
  <1>1. ASSUME IndInv, [Next]_vars
        PROVE  [LostForCause]_vars
    <2>1. ASSUME NEW b \in Block, SetBestChainInner(b) PROVE LostForCause
      BY <1>1, <2>1, ExtendKeeps
    <2>2. ASSUME NEW b \in Block, ReorganizeTo(b) PROVE LostForCause
      BY <1>1, <2>2, ReorganizeKeeps
    <2>3. ASSUME NEW p \in vResurrect, ResurrectTx(p) PROVE LostForCause
      BY <1>1, <2>3, ResurrectKeeps
    <2>4. ASSUME NEW p \in vDelete, DeleteTx(p) PROVE LostForCause
      BY <1>1, <2>4, DeleteKeeps
    <2>5. ASSUME NEW t \in Tx, AcceptWalletTransaction(t) \/ ReceiveTx(t) \/ ReceiveOrphanTx(t)
          PROVE  LostForCause
      BY <2>5, GrowthKeeps DEF AcceptWalletTransaction, ReceiveTx, ReceiveOrphanTx, addUnchecked,
                               poolVars, reorgVars
    <2>6. ASSUME NEW o \in mi, TryOrphan(o) PROVE LostForCause
      BY <2>6, GrowthKeeps DEF TryOrphan, addUnchecked, poolVars, reorgVars
    <2>7. CASE NextInWorkQueue
      BY <2>7, GrowthKeeps DEF NextInWorkQueue, poolVars, reorgVars
    <2> QED
      BY <1>1, <2>1, <2>2, <2>3, <2>4, <2>5, <2>6, <2>7 DEF Next
  <1> QED
    BY <1>1, PoolInvariance, PTL DEF Spec, NothingLost

-----------------------------------------------------------------------------
(* The loop over released orphans. *)

(* A transaction of the queue from position k on is spent by o. *)
SpendsQueued(o, k) == \E j \in k..Len(vWorkQueue) : vWorkQueue[j] \in Prev(o)

(* While the loop runs no reorganisation does.  An orphan that spends a    *)
(* transaction of the queue lacks an input, or is about to be erased, or   *)
(* its turn is still to come: that it lacks an input is not enough to      *)
(* know, since the loop itself may provide it.                             *)
RetryInv ==
    /\ vWorkQueue = <<>> => mi = {}
    /\ vWorkQueue # <<>> =>
          /\ vResurrect = {} /\ vDelete = {}
          /\ i \in 1..Len(vWorkQueue)
          /\ \A o \in mapOrphanTransactions :
                SpendsQueued(o, 1) => \/ MissingInput(o) \/ o \in vEraseQueue \/ o \in mi
                                      \/ SpendsQueued(o, i + 1)

(* A step that neither begins, continues nor ends the loop. *)
LEMMA NoLoopRetry ==
    ASSUME RetryInv, vWorkQueue = <<>>, UNCHANGED loopVars
    PROVE  RetryInv'
  BY DEF RetryInv, loopVars

LEMMA ReceiveRetry ==
    ASSUME IndInv, NEW t \in Tx, ReceiveTx(t)
    PROVE  RetryInv'
  <1>1. /\ vWorkQueue' = <<t>> /\ i' = 1 /\ mi' = mapOrphanTransactionsByPrev[t]
        /\ UNCHANGED <<mapOrphanTransactions, vResurrect, vDelete>>
        /\ vResurrect = {} /\ vDelete = {}
    BY DEF ReceiveTx, Idle, orphanVars, reorgVars
  <1>2. vWorkQueue' # <<>> /\ Len(vWorkQueue') = 1 /\ vWorkQueue'[1] = t
    BY <1>1
  <1>3. ASSUME NEW o \in mapOrphanTransactions, \E j \in 1..Len(vWorkQueue') : vWorkQueue'[j] \in Prev(o)
        PROVE  o \in mi'
    BY <1>1, <1>2, <1>3 DEF IndInv, OrphanIndexExact
  <1> QED
    BY <1>1, <1>2, <1>3 DEF RetryInv, SpendsQueued

LEMMA TryOrphanRetry ==
    ASSUME IndInv, RetryInv, NEW o \in mi, TryOrphan(o)
    PROVE  RetryInv'
  <1>1. /\ vWorkQueue # <<>> /\ i \in 1..Len(vWorkQueue) /\ vResurrect = {} /\ vDelete = {}
        /\ vWorkQueue \in Seq(Tx) /\ o \in Tx
    BY DEF RetryInv, IndInv, TypeOK
  <1>2. /\ mi' = mi \ {o} /\ UNCHANGED <<best, i, mapOrphanTransactions, vResurrect, vDelete>>
        /\ vEraseQueue' = IF LacksInputs(o) THEN vEraseQueue ELSE vEraseQueue \cup {o}
    BY DEF TryOrphan, orphanVars, reorgVars
  <1>3. CASE ~ Accepts(o)
    <2>1. UNCHANGED <<mapTx, vWorkQueue>>
      BY <1>3 DEF TryOrphan, poolVars
    <2>2. \A p : MissingInput(p)' <=> MissingInput(p)
      BY <1>2, <2>1 DEF MissingInput
    <2>3. o \in vEraseQueue' \/ MissingInput(o)
      BY <1>2 DEF LacksInputs
    <2> QED
      BY <1>1, <1>2, <2>1, <2>2, <2>3 DEF RetryInv, SpendsQueued
  <1>4. CASE Accepts(o)
    <2>1. vWorkQueue' = Append(vWorkQueue, o) /\ mapTx' = mapTx \cup {o}
      BY <1>4 DEF TryOrphan, Released, addUnchecked
    <2>2. /\ Len(vWorkQueue) \in Nat /\ Len(vWorkQueue') = Len(vWorkQueue) + 1
          /\ \A j \in 1..Len(vWorkQueue) : vWorkQueue'[j] = vWorkQueue[j]
          /\ vWorkQueue'[Len(vWorkQueue) + 1] = o /\ vWorkQueue' # <<>>
      BY <1>1, <2>1
    <2>3. o \in vEraseQueue'
      BY <1>2, <1>4 DEF Accepts, LacksInputs
    <2>4. ASSUME NEW p \in mapOrphanTransactions, SpendsQueued(p, 1)', ~ MissingInput(p)',
                 p \notin vEraseQueue', p \notin mi'
          PROVE  SpendsQueued(p, i + 1)'
      <3>1. CASE o \in Prev(p)
        <4>1. Len(vWorkQueue) + 1 \in (i + 1)..Len(vWorkQueue')
          BY <1>1, <2>2
        <4> QED
          BY <1>2, <2>2, <3>1, <4>1 DEF SpendsQueued
      <3>2. CASE o \notin Prev(p)
        <4>1. SpendsQueued(p, 1)
          <5>1. PICK j \in 1..Len(vWorkQueue') : vWorkQueue'[j] \in Prev(p)
            BY <2>4 DEF SpendsQueued
          <5>2. j \in 1..Len(vWorkQueue)
            BY <2>2, <3>2, <5>1
          <5> QED
            BY <2>2, <5>1, <5>2 DEF SpendsQueued
        <4>2. ~ MissingInput(p)
          BY <1>2, <2>1, <2>4, <3>2 DEF MissingInput, Prev
        <4>3. p \notin vEraseQueue /\ p \notin mi
          BY <1>2, <2>3, <2>4
        <4>4. SpendsQueued(p, i + 1)
          BY <1>1, <4>1, <4>2, <4>3 DEF RetryInv
        <4>5. PICK j \in (i + 1)..Len(vWorkQueue) : vWorkQueue[j] \in Prev(p)
          BY <4>4 DEF SpendsQueued
        <4>6. j \in (i + 1)..Len(vWorkQueue') /\ j \in 1..Len(vWorkQueue)
          BY <1>1, <2>2, <4>5
        <4> QED
          BY <1>2, <2>2, <4>5, <4>6 DEF SpendsQueued
      <3> QED
        BY <3>1, <3>2
    <2>5. i' \in 1..Len(vWorkQueue')
      BY <1>1, <1>2, <2>2
    <2> QED
      BY <1>1, <1>2, <2>2, <2>4, <2>5 DEF RetryInv
  <1> QED
    BY <1>3, <1>4

LEMMA WorkQueueRetry ==
    ASSUME IndInv, RetryInv, NextInWorkQueue
    PROVE  RetryInv'
  <1>1. /\ vWorkQueue # <<>> /\ i \in 1..Len(vWorkQueue) /\ vResurrect = {} /\ vDelete = {} /\ mi = {}
        /\ vWorkQueue \in Seq(Tx) /\ UNCHANGED <<best, mapTx, vResurrect, vDelete>>
    BY DEF RetryInv, IndInv, TypeOK, NextInWorkQueue, poolVars, reorgVars
  <1>2. CASE i < Len(vWorkQueue)
    <2>1. /\ i' = i + 1 /\ mi' = mapOrphanTransactionsByPrev[vWorkQueue[i + 1]]
          /\ UNCHANGED <<vWorkQueue, vEraseQueue, mapOrphanTransactions>>
      BY <1>2 DEF NextInWorkQueue, orphanVars
    <2>2. i' \in 1..Len(vWorkQueue) /\ vWorkQueue[i + 1] \in Tx /\ Len(vWorkQueue) \in Nat
      BY <1>1, <1>2, <2>1
    <2>3. ASSUME NEW p \in mapOrphanTransactions, SpendsQueued(p, i + 1), p \notin mi'
          PROVE  SpendsQueued(p, i + 2)
      <3>1. PICK j \in (i + 1)..Len(vWorkQueue) : vWorkQueue[j] \in Prev(p)
        BY <2>3 DEF SpendsQueued
      <3>2. j # i + 1
        BY <2>1, <2>2, <2>3, <3>1 DEF IndInv, OrphanIndexExact
      <3>3. j \in (i + 2)..Len(vWorkQueue)
        BY <1>1, <2>2, <3>1, <3>2
      <3> QED
        BY <3>1, <3>3 DEF SpendsQueued
    <2>4. ASSUME NEW p \in mapOrphanTransactions, SpendsQueued(p, 1)', ~ MissingInput(p)',
                 p \notin vEraseQueue', p \notin mi'
          PROVE  SpendsQueued(p, i + 1)'
      <3>1. SpendsQueued(p, 1) /\ ~ MissingInput(p)
        BY <1>1, <2>1, <2>4 DEF SpendsQueued, MissingInput
      <3>2. SpendsQueued(p, i + 1)
        BY <1>1, <2>1, <2>4, <3>1 DEF RetryInv
      <3>3. SpendsQueued(p, i + 2)
        BY <2>3, <2>4, <3>2
      <3>4. i' + 1 = i + 2
        BY <1>1, <2>1, <2>2
      <3> QED
        BY <2>1, <3>3, <3>4 DEF SpendsQueued
    <2> QED
      BY <1>1, <2>1, <2>2, <2>4 DEF RetryInv
  <1>3. CASE ~ (i < Len(vWorkQueue))
    BY <1>1, <1>3 DEF NextInWorkQueue, RetryInv
  <1> QED
    BY <1>2, <1>3

(* What is left when the queue is done. *)
LEMMA LoopDone ==
    ASSUME IndInv, RetryInv, NextInWorkQueue, vWorkQueue' = <<>>,
           NEW o \in mapOrphanTransactions',
           Prev(o) \cap {vWorkQueue[k] : k \in DOMAIN vWorkQueue} # {}
    PROVE  MissingInput(o)'
  <1>1. /\ vWorkQueue # <<>> /\ i \in 1..Len(vWorkQueue) /\ mi = {} /\ vWorkQueue \in Seq(Tx)
        /\ UNCHANGED <<best, mapTx>>
    BY DEF RetryInv, IndInv, TypeOK, NextInWorkQueue, poolVars
  <1>2. ~ (i < Len(vWorkQueue)) /\ o \in mapOrphanTransactions /\ o \notin vEraseQueue
    BY <1>1 DEF NextInWorkQueue, EraseOrphans, orphanVars
  <1>3. SpendsQueued(o, 1)
    BY <1>1 DEF SpendsQueued
  <1>4. ~ SpendsQueued(o, i + 1)
    BY <1>1, <1>2 DEF SpendsQueued
  <1>5. MissingInput(o)
    BY <1>1, <1>2, <1>3, <1>4 DEF RetryInv
  <1> QED
    BY <1>1, <1>5 DEF MissingInput

LEMMA RetryStep == IndInv /\ RetryInv /\ [Next]_vars => RetryInv'
  <1> SUFFICES ASSUME IndInv, RetryInv, [Next]_vars PROVE RetryInv'
    OBVIOUS
  <1>1. ASSUME NEW b \in Block, SetBestChainInner(b) \/ ReorganizeTo(b) PROVE RetryInv'
    BY <1>1, NoLoopRetry DEF SetBestChainInner, ReorganizeTo, Idle
  <1>2. ASSUME NEW p \in vResurrect, ResurrectTx(p) PROVE RetryInv'
    BY <1>2, NoLoopRetry DEF ResurrectTx, RetryInv
  <1>3. ASSUME NEW p \in vDelete, DeleteTx(p) PROVE RetryInv'
    BY <1>3, NoLoopRetry DEF DeleteTx, RetryInv
  <1>4. ASSUME NEW t \in Tx, AcceptWalletTransaction(t) \/ ReceiveOrphanTx(t) PROVE RetryInv'
    BY <1>4, NoLoopRetry DEF AcceptWalletTransaction, ReceiveOrphanTx, Idle
  <1>5. CASE UNCHANGED vars
    BY <1>5 DEF vars, poolVars, orphanVars, reorgVars, loopVars, RetryInv, SpendsQueued, MissingInput
  <1> QED
    BY <1>1, <1>2, <1>3, <1>4, <1>5, ReceiveRetry, TryOrphanRetry, WorkQueueRetry DEF Next

(* OrphansRetried: the loop over released orphans leaves none behind that  *)
(* could have been accepted, through any number of generations of orphans  *)
(* and in whatever order it takes them.                                    *)
THEOREM OrphansAlwaysRetried == Spec => OrphansRetried
  <1> DEFINE Retried ==
        vWorkQueue # <<>> /\ vWorkQueue' = <<>> =>
            \A o \in mapOrphanTransactions' :
                Prev(o) \cap {vWorkQueue[k] : k \in DOMAIN vWorkQueue} # {} => MissingInput(o)'
  <1>1. Init => RetryInv
    BY DEF Init, RetryInv
  <1>2. ASSUME IndInv, RetryInv, [Next]_vars PROVE [Retried]_vars
    <2>1. CASE NextInWorkQueue
      BY <1>2, <2>1, LoopDone
    <2>2. CASE vWorkQueue' = vWorkQueue
      BY <2>2
    <2>3. ASSUME NEW o \in mi, TryOrphan(o) PROVE vWorkQueue' # <<>> \/ vWorkQueue' = vWorkQueue
      <3>1. vWorkQueue \in Seq(Tx) /\ o \in Tx
        BY <1>2 DEF IndInv, TypeOK
      <3>2. Append(vWorkQueue, o) # <<>>
        <4>1. Len(Append(vWorkQueue, o)) = Len(vWorkQueue) + 1 /\ Len(vWorkQueue) \in Nat /\ Len(<<>>) = 0
          BY <3>1
        <4> QED
          BY <4>1
      <3> QED
        BY <2>3, <3>2 DEF TryOrphan, Released
    <2>4. ASSUME NEW t \in Tx, ReceiveTx(t) PROVE vWorkQueue' # <<>>
      BY <2>4 DEF ReceiveTx
    <2>5. CASE \E b \in Block : SetBestChainInner(b) \/ ReorganizeTo(b)
      BY <2>2, <2>5 DEF SetBestChainInner, ReorganizeTo, loopVars
    <2>6. CASE (\E p \in vResurrect : ResurrectTx(p)) \/ (\E p \in vDelete : DeleteTx(p))
      BY <2>2, <2>6 DEF ResurrectTx, DeleteTx, loopVars
    <2>7. CASE \E t \in Tx : AcceptWalletTransaction(t) \/ ReceiveOrphanTx(t)
      BY <2>2, <2>7 DEF AcceptWalletTransaction, ReceiveOrphanTx, loopVars
    <2> QED
      BY <1>2, <2>1, <2>2, <2>3, <2>4, <2>5, <2>6, <2>7 DEF Next
  <1> QED
    BY <1>1, <1>2, RetryStep, PoolInvariance, PTL DEF Spec, OrphansRetried

-----------------------------------------------------------------------------
(* Miner: sequences of transactions, and the largest of a finite set. *)

LEMMA ToSetFacts ==
    ASSUME NEW s \in Seq(Tx)
    PROVE  /\ ToSet(s) \subseteq Tx
           /\ ToSet(s) = {s[k] : k \in 1..Len(s)}
           /\ \A t \in Tx : ToSet(Append(s, t)) = ToSet(s) \cup {t}
  <1>1. DOMAIN s = 1..Len(s) /\ Len(s) \in Nat /\ \A k \in 1..Len(s) : s[k] \in Tx
    OBVIOUS
  <1>2. ToSet(s) = {s[k] : k \in 1..Len(s)}
    BY <1>1 DEF ToSet
  <1>3. ASSUME NEW t \in Tx PROVE ToSet(Append(s, t)) = ToSet(s) \cup {t}
    <2> DEFINE a == Append(s, t)
    <2>1. /\ a \in Seq(Tx) /\ Len(a) = Len(s) + 1 /\ a[Len(s) + 1] = t
          /\ \A k \in 1..Len(s) : a[k] = s[k]
      OBVIOUS
    <2>2. ToSet(a) = {a[k] : k \in 1..Len(a)}
      BY <2>1 DEF ToSet
    <2> HIDE DEF a
    <2>3. 1..(Len(s) + 1) = 1..Len(s) \cup {Len(s) + 1}
      BY <1>1
    <2>4. ToSet(a) = {a[k] : k \in 1..Len(s)} \cup {t}
      BY <2>1, <2>2, <2>3
    <2>5. {a[k] : k \in 1..Len(s)} = {s[k] : k \in 1..Len(s)}
      BY <2>1
    <2> QED
      BY <1>2, <2>4, <2>5 DEF a
  <1> QED
    BY <1>1, <1>2, <1>3

(* Max of a finite set of numbers is its largest element. *)
LEMMA MaxFacts ==
    ASSUME NEW S \in SUBSET Nat, IsFiniteSet(S), S # {}
    PROVE  Max(S) \in S /\ \A x \in S : x <= Max(S)
  <1> DEFINE Above(x) == {y \in S : y > x}
             T == {Cardinality(Above(x)) : x \in S}
  <1>1. \A x \in S : IsFiniteSet(Above(x)) /\ Cardinality(Above(x)) \in Nat
    <2> TAKE x \in S
    <2>1. Above(x) \in SUBSET S
      OBVIOUS
    <2>2. IsFiniteSet(Above(x))
      BY <2>1, FS_Subset
    <2> QED
      BY <2>2, FS_CardinalityType
  <1>2. T \subseteq Nat /\ T # {}
    BY <1>1
  <1>3. PICK c \in T : \A d \in T : ~ (<<d, c>> \in OpToRel(<, Nat))
    BY <1>2, NatLessThanWellFounded, WFMin
  <1>4. \A d \in T : ~ (d < c)
    BY <1>2, <1>3 DEF OpToRel
  <1>5. PICK m \in S : c = Cardinality(Above(m))
    BY <1>3
  <1>6. \A x \in S : m >= x
    <2> SUFFICES ASSUME NEW x \in S, x > m PROVE FALSE
      BY <1>5
    <2>1. Above(x) \in SUBSET Above(m)
      <3>1. \A y \in S : y > x => y > m
        OBVIOUS
      <3> QED
        BY <3>1
    <2>2. x \in Above(m) /\ x \notin Above(x)
      OBVIOUS
    <2>3. Cardinality(Above(x)) \in T
      OBVIOUS
    <2> HIDE DEF T, Above
    <2>4. /\ Cardinality(Above(x)) <= Cardinality(Above(m))
          /\ Cardinality(Above(x)) = Cardinality(Above(m)) => Above(m) = Above(x)
      BY <1>1, <1>5, <2>1, FS_Subset
    <2>5. Cardinality(Above(x)) < Cardinality(Above(m))
      BY <1>1, <1>5, <2>2, <2>4
    <2> QED
      BY <1>4, <1>5, <2>3, <2>5
  <1>7. Max(S) \in S /\ \A x \in S : Max(S) >= x
    BY <1>5, <1>6 DEF Max
  <1> QED
    BY <1>7

(* Nothing later than the last transaction: the loop of SignBlock keeps    *)
(* the whole sequence.                                                     *)
LEMMA UpToAll ==
    ASSUME NEW s \in Seq(Tx), NEW time, \A t \in ToSet(s) : nTime[t] <= time
    PROVE  UpTo(s, time) = s
  <1> DEFINE L == Len(s)
             K == {k \in DOMAIN s : nTime[s[k]] <= time}
             At(n) == s[CHOOSE k \in 1..L : Cardinality((1..L) \cap (1..k)) = n]
  <1>1. L \in Nat /\ DOMAIN s = 1..L /\ s = [n \in 1..L |-> s[n]]
    OBVIOUS
  <1>2. K = 1..L
    BY <1>1, ToSetFacts
  <1>3. Cardinality(1..L) = L
    BY <1>1, FS_Interval
  <1>4. UpTo(s, time) = [n \in 1..L |-> At(n)]
    <2>1. UpTo(s, time) =
             [n \in 1..Cardinality(K) |-> s[CHOOSE k \in K : Cardinality(K \cap (1..k)) = n]]
      BY DEF UpTo
    <2> HIDE DEF K, L
    <2> QED
      BY <1>2, <1>3, <2>1
  <1>5. \A k \in 1..L : Cardinality((1..L) \cap (1..k)) = k
    <2> TAKE k \in 1..L
    <2>1. (1..L) \cap (1..k) = 1..k
      BY <1>1
    <2>2. k \in Int /\ 1 \in Int /\ ~ (1 > k) /\ k - 1 + 1 = k
      BY <1>1
    <2>3. Cardinality(1..k) = k
      BY <2>2, FS_Interval
    <2> QED
      BY <2>1, <2>3
  <1>6. \A n \in 1..L : At(n) = s[n]
    BY <1>5
  <1> QED
    BY <1>1, <1>4, <1>6

-----------------------------------------------------------------------------
(* Miner: nothing is forgotten. *)

Fields == {"pc", "pindexPrev", "fProofOfStake", "vtx", "coinbaseTime", "nBlockTime",
           "stakeTime", "vecPriority", "setDependsOn", "skipped", "fOnPrev", "fForced"}

(* No block is in the making, or one that has all the fields of a block.   *)
WorkShape ==
    \/ work = Off
    \/ /\ DOMAIN work = Fields
       /\ work = [f \in Fields |-> work[f]]
       /\ work.pc \in {"started", "select", "unsigned", "found"}
       /\ work.pindexPrev \in Block
       /\ work.vtx \in Seq(Tx)
       /\ work.coinbaseTime \in Nat
       /\ {work.fOnPrev, work.fForced} \subseteq BOOLEAN
       /\ work.pc = "started" => work.vtx = <<>> /\ work.skipped = {}

Whole == {t \in mapTx : ~MissingInput(t)}

(* While transactions are selected, setDependsOn holds the parents that    *)
(* are still missing from the block, and what neither is in the block or   *)
(* in the queue nor was left out because of a limit does not connect.      *)
SelectInv ==
    work.pc = "select" =>
        /\ ToSet(work.vtx) \subseteq mapTx
        /\ work.vecPriority \subseteq mapTx
        /\ DOMAIN work.setDependsOn = {u \in Whole : DependsOn(u) # {}}
        /\ \A d \in DOMAIN work.setDependsOn :
              work.setDependsOn[d] = DependsOn(d) \ ToSet(work.vtx)
        /\ \A t \in mapTx \ (ToSet(work.vtx) \cup work.skipped \cup work.vecPriority) :
              ~ConnectsTo(t, ToSet(work.vtx))

(* What connects has all its parents in the chain or in the block.         *)
LEMMA ConnectsParents ==
    ASSUME NEW t, NEW B, ConnectsTo(t, B)
    PROVE  DependsOn(t) \subseteq B
  BY DEF ConnectsTo, DependsOn, Prev

(* What connects only once u is in the block waits for u alone.            *)
LEMMA ReleasedConnects ==
    ASSUME NEW t \in mapTx, NEW B \in SUBSET mapTx, NEW u \in mapTx,
           ConnectsTo(t, B \cup {u}), ~ConnectsTo(t, B)
    PROVE  /\ t \in Whole
           /\ DependsOn(t) # {}
           /\ DependsOn(t) \ B = {u}
  <1>1. \A o \in vin[t] : o[1] \in ChainTxs(best) \cup B \cup {u}
    BY DEF ConnectsTo
  <1>2. PICK o \in vin[t] : o[1] \notin ChainTxs(best) \cup B
    BY DEF ConnectsTo
  <1>3. o[1] = u /\ u \notin ChainTxs(best) \cup B
    BY <1>1, <1>2
  <1>4. u \in DependsOn(t)
    BY <1>3, <1>2 DEF DependsOn, Prev
  <1>5. DependsOn(t) \subseteq B \cup {u}
    BY ConnectsParents
  <1>6. ~MissingInput(t)
    BY <1>1 DEF MissingInput
  <1> QED
    BY <1>3, <1>4, <1>5, <1>6 DEF Whole

(* The steps of the selection read the chain and the pool, and pindexPrev, *)
(* which none of them changes.                                             *)
LEMMA SameReads ==
    ASSUME UNCHANGED vars, work'.pindexPrev = work.pindexPrev
    PROVE  /\ mapTx' = mapTx /\ best' = best
           /\ Whole' = Whole
           /\ \A t : DependsOn(t)' = DependsOn(t)
           /\ \A t, B : ConnectsTo(t, B)' <=> ConnectsTo(t, B)
  <1>1. mapTx' = mapTx /\ best' = best
    BY DEF vars, poolVars
  <1> QED
    BY <1>1 DEF Whole, MissingInput, DependsOn, ConnectsTo

LEMMA CreateShape ==
    ASSUME IndInv, CreateNewBlock
    PROVE  /\ WorkShape' /\ UNCHANGED vars
           /\ work' # Off /\ work'.pc = "started"
           /\ work'.pindexPrev = best /\ best \in Block
           /\ work'.fOnPrev = FALSE /\ work'.fForced = FALSE
  <1>1. PICK fProofOfStake \in BOOLEAN, now \in Times :
           work' = [pc |-> "started", pindexPrev |-> best, fProofOfStake |-> fProofOfStake,
                    vtx |-> <<>>, coinbaseTime |-> now, nBlockTime |-> now, stakeTime |-> now,
                    vecPriority |-> {}, setDependsOn |-> <<>>, skipped |-> {},
                    fOnPrev |-> FALSE, fForced |-> FALSE]
    BY DEF CreateNewBlock
  <1>2. best \in Block /\ now \in Nat
    BY MinerAssumption DEF IndInv, TypeOK
  <1>3. /\ DOMAIN work' = Fields /\ work' = [f \in Fields |-> work'[f]]
        /\ work'.pc = "started" /\ work'.pindexPrev = best /\ work'.vtx = <<>>
        /\ work'.coinbaseTime = now /\ work'.skipped = {}
        /\ work'.fOnPrev = FALSE /\ work'.fForced = FALSE
    BY <1>1 DEF Fields
  <1>4. work' # Off
    <2>1. DOMAIN Off = {"pc"} /\ "vtx" \in Fields
      BY DEF Off, Fields
    <2> QED
      BY <1>3, <2>1
  <1>5. UNCHANGED vars
    BY DEF CreateNewBlock
  <1> QED
    <2>1. {work'.fOnPrev, work'.fForced} \subseteq BOOLEAN
      BY <1>3
    <2>2. <<>> \in Seq(Tx)
      OBVIOUS
    <2>3. work'.vtx \in Seq(Tx)
      BY <1>3, <2>2
    <2>4. WorkShape'
      BY <1>2, <1>3, <2>1, <2>3 DEF WorkShape
    <2> QED
      BY <1>2, <1>3, <1>4, <1>5, <2>4

LEMMA CollectShape ==
    ASSUME WorkShape, CollectPool
    PROVE  /\ WorkShape' /\ UNCHANGED vars
           /\ work # Off /\ work' # Off /\ work'.pc = "select"
           /\ work'.pindexPrev = work.pindexPrev /\ work'.fForced = work.fForced
           /\ work'.fOnPrev = (best = work.pindexPrev)
           /\ work'.vtx = <<>> /\ work'.skipped = {}
           /\ work'.vecPriority = {t \in Whole : DependsOn(t) = {}}
           /\ work'.setDependsOn = [t \in {u \in Whole : DependsOn(u) # {}} |-> DependsOn(t)]
  <1>1. work' = [work EXCEPT
             !.pc = "select",
             !.fOnPrev = (best = work.pindexPrev),
             !.vecPriority = {t \in Whole : DependsOn(t) = {}},
             !.setDependsOn = [t \in {u \in Whole : DependsOn(u) # {}} |-> DependsOn(t)]]
    BY DEF CollectPool, Whole
  <1>2. work.pc = "started" /\ UNCHANGED vars
    BY DEF CollectPool
  <1>3. Off.pc = "off"
    BY DEF Off
  <1>4. work # Off /\ DOMAIN work = Fields
    BY <1>2, <1>3 DEF WorkShape
  <1>5. /\ DOMAIN work' = Fields /\ work' = [f \in Fields |-> work'[f]]
        /\ work'.pc = "select" /\ work'.pindexPrev = work.pindexPrev
        /\ work'.fForced = work.fForced /\ work'.fOnPrev = (best = work.pindexPrev)
        /\ work'.vtx = work.vtx /\ work'.skipped = work.skipped
        /\ work'.coinbaseTime = work.coinbaseTime
        /\ work'.vecPriority = {t \in Whole : DependsOn(t) = {}}
        /\ work'.setDependsOn = [t \in {u \in Whole : DependsOn(u) # {}} |-> DependsOn(t)]
    BY <1>1, <1>4 DEF Fields
  <1>6. work' # Off
    BY <1>3, <1>5
  <1>7. work.fForced \in BOOLEAN
    BY <1>4 DEF WorkShape
  <1> QED
    BY <1>2, <1>4, <1>5, <1>6, <1>7 DEF WorkShape

LEMMA AddShape ==
    ASSUME WorkShape, NEW t \in Tx, AddToBlock(t)
    PROVE  /\ WorkShape' /\ UNCHANGED vars
           /\ work # Off /\ work' # Off /\ work.pc = "select" /\ work'.pc = "select"
           /\ work'.fOnPrev = work.fOnPrev /\ work'.fForced = work.fForced
           /\ work'.pindexPrev = work.pindexPrev
           /\ work.vtx \in Seq(Tx) /\ work'.vtx = Append(work.vtx, t)
           /\ work'.skipped = work.skipped
           /\ work'.vecPriority = (work.vecPriority \ {t}) \cup Releases(t)
           /\ work'.setDependsOn = [d \in DOMAIN work.setDependsOn |-> work.setDependsOn[d] \ {t}]
  <1>1. work' = [work EXCEPT
          !.vtx = Append(work.vtx, t),
          !.vecPriority = (work.vecPriority \ {t}) \cup Releases(t),
          !.setDependsOn = [d \in DOMAIN work.setDependsOn |-> work.setDependsOn[d] \ {t}]]
    BY DEF AddToBlock
  <1>2. work.pc = "select" /\ UNCHANGED vars
    BY DEF AddToBlock
  <1>3. Off.pc = "off"
    BY DEF Off
  <1>4. work # Off /\ DOMAIN work = Fields /\ work.vtx \in Seq(Tx)
    BY <1>2, <1>3 DEF WorkShape
  <1>5. /\ DOMAIN work' = Fields /\ work' = [f \in Fields |-> work'[f]]
        /\ work'.pc = "select" /\ work'.pindexPrev = work.pindexPrev
        /\ work'.vtx = Append(work.vtx, t) /\ work'.skipped = work.skipped
        /\ work'.coinbaseTime = work.coinbaseTime
        /\ work'.fOnPrev = work.fOnPrev /\ work'.fForced = work.fForced
        /\ work'.vecPriority = (work.vecPriority \ {t}) \cup Releases(t)
        /\ work'.setDependsOn = [d \in DOMAIN work.setDependsOn |-> work.setDependsOn[d] \ {t}]
    BY <1>1, <1>2, <1>4 DEF Fields
  <1>6. work' # Off
    BY <1>3, <1>5
  <1>7. Append(work.vtx, t) \in Seq(Tx)
    BY <1>4
  <1> QED
    BY <1>2, <1>4, <1>5, <1>6, <1>7 DEF WorkShape

LEMMA PassShape ==
    ASSUME WorkShape, NEW t \in Tx, PassOver(t)
    PROVE  /\ WorkShape' /\ UNCHANGED vars
           /\ work # Off /\ work' # Off /\ work.pc = "select" /\ work'.pc = "select"
           /\ work'.fOnPrev = work.fOnPrev /\ work'.fForced = work.fForced
           /\ work'.pindexPrev = work.pindexPrev
           /\ work.vtx \in Seq(Tx) /\ work'.vtx = work.vtx
           /\ work'.setDependsOn = work.setDependsOn
           /\ work'.vecPriority = work.vecPriority \ {t}
           /\ work'.skipped = IF MaySkip(t) THEN work.skipped \cup {t} ELSE work.skipped
  <1>1. work' = [work EXCEPT
          !.vecPriority = work.vecPriority \ {t},
          !.skipped = IF MaySkip(t) THEN work.skipped \cup {t} ELSE work.skipped]
    BY DEF PassOver
  <1>2. work.pc = "select" /\ UNCHANGED vars
    BY DEF PassOver
  <1>3. Off.pc = "off"
    BY DEF Off
  <1>4. work # Off /\ DOMAIN work = Fields
    BY <1>2, <1>3 DEF WorkShape
  <1>5. /\ DOMAIN work' = Fields /\ work' = [f \in Fields |-> work'[f]]
        /\ work'.pc = "select" /\ work'.pindexPrev = work.pindexPrev
        /\ work'.vtx = work.vtx /\ work'.setDependsOn = work.setDependsOn
        /\ work'.coinbaseTime = work.coinbaseTime
        /\ work'.fOnPrev = work.fOnPrev /\ work'.fForced = work.fForced
        /\ work'.vecPriority = work.vecPriority \ {t}
        /\ work'.skipped = IF MaySkip(t) THEN work.skipped \cup {t} ELSE work.skipped
    BY <1>1, <1>2, <1>4 DEF Fields
  <1>6. work' # Off
    BY <1>3, <1>5
  <1> QED
    BY <1>2, <1>4, <1>5, <1>6 DEF WorkShape

(* The times of finitely many transactions are finitely many.              *)
LEMMA TimesFinite ==
    ASSUME NEW S \in SUBSET Tx, IsFiniteSet(S)
    PROVE  IsFiniteSet({nTime[t] : t \in S})
  <1> DEFINE T == {nTime[t] : t \in S}
             f == [t \in S |-> nTime[t]]
  <1>1. f \in Surjection(S, T)
    BY DEF Surjection
  <1> HIDE DEF T, f
  <1>2. IsFiniteSet(T)
    BY <1>1, FS_Surjection
  <1> QED
    BY <1>2 DEF T

LEMMA AssembledShape ==
    ASSUME WorkShape, Assembled
    PROVE  /\ WorkShape' /\ UNCHANGED vars
           /\ work # Off /\ work' # Off /\ work.pc = "select"
           /\ work'.pc \in {"unsigned", "found"}
           /\ work'.fOnPrev = work.fOnPrev /\ work'.fForced = work.fForced
           /\ work'.pindexPrev = work.pindexPrev /\ work'.vtx = work.vtx
  <1>1. work' = [work EXCEPT !.pc = IF work.fProofOfStake THEN "unsigned" ELSE "found",
                             !.nBlockTime = MaxTime(ToSet(work.vtx))]
    BY DEF Assembled
  <1>2. work.pc = "select" /\ UNCHANGED vars
    BY DEF Assembled
  <1>3. Off.pc = "off"
    BY DEF Off
  <1>4. work # Off /\ DOMAIN work = Fields
    BY <1>2, <1>3 DEF WorkShape
  <1>5. /\ DOMAIN work' = Fields /\ work' = [f \in Fields |-> work'[f]]
        /\ work'.pc \in {"unsigned", "found"}
        /\ work'.pindexPrev = work.pindexPrev /\ work'.vtx = work.vtx
        /\ work'.coinbaseTime = work.coinbaseTime
        /\ work'.fOnPrev = work.fOnPrev /\ work'.fForced = work.fForced
    BY <1>1, <1>4 DEF Fields
  <1>6. work' # Off
    BY <1>3, <1>5
  <1> QED
    BY <1>2, <1>4, <1>5, <1>6 DEF WorkShape

(* The time of the block is that of its latest transaction or later, so    *)
(* that SignBlock erases none.                                             *)
LEMMA SignShape ==
    ASSUME WorkShape, SignBlock
    PROVE  /\ WorkShape' /\ UNCHANGED vars
           /\ work # Off /\ work' # Off /\ work.pc = "unsigned" /\ work'.pc = "found"
           /\ work'.fOnPrev = work.fOnPrev /\ work'.fForced = work.fForced
           /\ work'.pindexPrev = work.pindexPrev /\ work'.vtx = work.vtx
  <1> DEFINE S(T) == {nTime[t] : t \in ToSet(work.vtx)} \cup {T}
  <1>1. PICK T \in Times :
           work' = [work EXCEPT
                      !.pc = "found", !.stakeTime = T, !.nBlockTime = Max(S(T)),
                      !.vtx = UpTo(work.vtx, Max(S(T)))]
    BY DEF SignBlock
  <1>2. work.pc = "unsigned" /\ UNCHANGED vars
    BY DEF SignBlock
  <1>3. Off.pc = "off"
    BY DEF Off
  <1>4. work # Off /\ DOMAIN work = Fields /\ work.vtx \in Seq(Tx)
    BY <1>2, <1>3 DEF WorkShape
  <1>5. S(T) \subseteq Nat /\ IsFiniteSet(S(T)) /\ S(T) # {}
    <2>1. ToSet(work.vtx) \subseteq Tx
      BY <1>4, ToSetFacts
    <2>2. IsFiniteSet(ToSet(work.vtx))
      BY <2>1, PoolAssumption, FS_Subset
    <2>3. IsFiniteSet({nTime[t] : t \in ToSet(work.vtx)})
      BY <2>1, <2>2, TimesFinite
    <2>4. IsFiniteSet(S(T))
      BY <2>3, FS_AddElement
    <2>5. \A t \in Tx : nTime[t] \in Nat
      BY MinerAssumption
    <2>6. T \in Nat
      BY MinerAssumption
    <2> QED
      BY <2>1, <2>4, <2>5, <2>6
  <1>6. \A t \in ToSet(work.vtx) : nTime[t] <= Max(S(T))
    BY <1>5, MaxFacts
  <1> HIDE DEF S
  <1>7. UpTo(work.vtx, Max(S(T))) = work.vtx
    BY <1>4, <1>6, UpToAll
  <1>8. work' = [work EXCEPT
                      !.pc = "found", !.stakeTime = T, !.nBlockTime = Max(S(T)),
                      !.vtx = work.vtx]
    BY <1>1, <1>7
  <1>9. /\ DOMAIN work' = Fields /\ work' = [f \in Fields |-> work'[f]]
        /\ work'.pc = "found"
        /\ work'.pindexPrev = work.pindexPrev /\ work'.vtx = work.vtx
        /\ work'.coinbaseTime = work.coinbaseTime
        /\ work'.fOnPrev = work.fOnPrev /\ work'.fForced = work.fForced
    BY <1>4, <1>8 DEF Fields
  <1>10. work' # Off
    BY <1>3, <1>9
  <1> QED
    BY <1>2, <1>4, <1>9, <1>10 DEF WorkShape

LEMMA CollectSelect ==
    ASSUME IndInv, WorkShape, CollectPool
    PROVE  SelectInv'
  <1>1. /\ UNCHANGED vars /\ work'.pindexPrev = work.pindexPrev
        /\ work'.vtx = <<>> /\ work'.skipped = {}
        /\ work'.vecPriority = {t \in Whole : DependsOn(t) = {}}
        /\ work'.setDependsOn = [t \in {u \in Whole : DependsOn(u) # {}} |-> DependsOn(t)]
    BY CollectShape
  <1>2. /\ mapTx' = mapTx /\ Whole' = Whole
        /\ \A t : DependsOn(t)' = DependsOn(t)
        /\ \A t, B : ConnectsTo(t, B)' <=> ConnectsTo(t, B)
    BY <1>1, SameReads
  <1>3. ToSet(work'.vtx) = {}
    BY <1>1 DEF ToSet
  <1>4. \A d \in DOMAIN work'.setDependsOn :
              work'.setDependsOn[d] = DependsOn(d) \ ToSet(work'.vtx)
    BY <1>1, <1>3
  <1>5. ASSUME NEW t \in mapTx, t \notin work'.vecPriority, ConnectsTo(t, {})
        PROVE  FALSE
    <2>1. DependsOn(t) = {}
      BY <1>5, ConnectsParents
    <2>2. ~MissingInput(t)
      BY <1>5 DEF ConnectsTo, MissingInput
    <2> QED
      BY <1>1, <1>5, <2>1, <2>2 DEF Whole
  <1> QED
    BY <1>1, <1>2, <1>3, <1>4, <1>5 DEF SelectInv, Whole

LEMMA AddSelect ==
    ASSUME WorkShape, SelectInv, NEW u \in Tx, AddToBlock(u)
    PROVE  SelectInv'
  <1> DEFINE B == ToSet(work.vtx)
  <1>1. /\ UNCHANGED vars /\ work'.pindexPrev = work.pindexPrev
        /\ work.pc = "select" /\ work.vtx \in Seq(Tx)
        /\ work'.vtx = Append(work.vtx, u)
        /\ work'.skipped = work.skipped
        /\ work'.vecPriority = (work.vecPriority \ {u}) \cup Releases(u)
        /\ work'.setDependsOn = [d \in DOMAIN work.setDependsOn |-> work.setDependsOn[d] \ {u}]
    BY AddShape
  <1>2. /\ mapTx' = mapTx /\ Whole' = Whole
        /\ \A t : DependsOn(t)' = DependsOn(t)
        /\ \A t, D : ConnectsTo(t, D)' <=> ConnectsTo(t, D)
    BY <1>1, SameReads
  <1>3. ToSet(work'.vtx) = B \cup {u}
    BY <1>1, ToSetFacts
  <1>4. u \in work.vecPriority
    BY DEF AddToBlock
  <1>5. /\ B \subseteq mapTx /\ work.vecPriority \subseteq mapTx /\ u \in mapTx
        /\ DOMAIN work.setDependsOn = {v \in Whole : DependsOn(v) # {}}
        /\ \A d \in DOMAIN work.setDependsOn : work.setDependsOn[d] = DependsOn(d) \ B
        /\ \A t \in mapTx \ (B \cup work.skipped \cup work.vecPriority) : ~ConnectsTo(t, B)
    BY <1>1, <1>4 DEF SelectInv
  <1> HIDE DEF B
  <1>6. Releases(u) = {d \in DOMAIN work.setDependsOn : work.setDependsOn[d] = {u}}
    BY DEF Releases
  <1>7. work'.vecPriority \subseteq mapTx
    BY <1>1, <1>5, <1>6 DEF Whole
  <1>8. /\ DOMAIN work'.setDependsOn = {v \in Whole : DependsOn(v) # {}}
        /\ \A d \in DOMAIN work'.setDependsOn : work'.setDependsOn[d] = DependsOn(d) \ (B \cup {u})
    BY <1>1, <1>5
  <1>9. ASSUME NEW t \in mapTx, t \notin B \cup {u}, t \notin work.skipped,
               t \notin work'.vecPriority, ConnectsTo(t, B \cup {u})
        PROVE  FALSE
    <2>1. t \notin work.vecPriority /\ t \notin Releases(u)
      BY <1>1, <1>9
    <2>2. ~ConnectsTo(t, B)
      BY <1>5, <1>9, <2>1
    <2>3. t \in Whole /\ DependsOn(t) # {} /\ DependsOn(t) \ B = {u}
      BY <1>5, <1>9, <2>2, ReleasedConnects
    <2>4. t \in Releases(u)
      BY <1>5, <1>6, <2>3
    <2> QED
      BY <2>1, <2>4
  <1> QED
    BY <1>1, <1>2, <1>3, <1>5, <1>7, <1>8, <1>9 DEF SelectInv

LEMMA PassSelect ==
    ASSUME WorkShape, SelectInv, NEW u \in Tx, PassOver(u)
    PROVE  SelectInv'
  <1>1. /\ UNCHANGED vars /\ work'.pindexPrev = work.pindexPrev
        /\ work.pc = "select" /\ work'.vtx = work.vtx
        /\ work'.setDependsOn = work.setDependsOn
        /\ work'.vecPriority = work.vecPriority \ {u}
        /\ work'.skipped = IF MaySkip(u) THEN work.skipped \cup {u} ELSE work.skipped
    BY PassShape
  <1>2. /\ mapTx' = mapTx /\ Whole' = Whole
        /\ \A t : DependsOn(t)' = DependsOn(t)
        /\ \A t, D : ConnectsTo(t, D)' <=> ConnectsTo(t, D)
    BY <1>1, SameReads
  <1>3. MaySkip(u) \/ ~ConnectsTo(u, ToSet(work.vtx))
    BY DEF PassOver
  <1> QED
    BY <1>1, <1>2, <1>3 DEF SelectInv

(* Unless a checkpoint moved the chain, the block that was read without    *)
(* the lock is the best block until the trust of the best chain grows past *)
(* its own.                                                                *)
PrevTrust ==
    work # Off /\ ~work.fForced =>
        \/ best = work.pindexPrev
        \/ nChainTrust[best] > nChainTrust[work.pindexPrev]

PoolLoose == \A t \in mapTx : ~IsCoinBase(t)

(* The transactions of sequence s connect in this order to the chain that  *)
(* ends in b.                                                              *)
ConnectsInOrder(s, b) ==
    \A k \in DOMAIN s :
        /\ s[k] \notin ChainTxs(b)
        /\ \A o \in vin[s[k]] :
              /\ o[1] \in ChainTxs(b) \cup {s[j] : j \in 1..(k-1)}
              /\ IsCoinBase(o[1]) =>
                    nHeight[b] + 1 - nHeight[ChainPos(b)[o[1]]] >= nCoinbaseMaturity
              /\ ChainSpent(b)[o] = NoTx
              /\ \A j \in DOMAIN s : o \in vin[s[j]] => j = k

(* From the moment the transactions are collected: if they were collected  *)
(* on pindexPrev, the block connects to it, wherever the chain is by now;  *)
(* if not, the chain had left pindexPrev and has not come back, unless a   *)
(* checkpoint moved it.                                                    *)
OwnInv ==
    /\ work.pc = "select" =>
          mapTx \cap ChainTxs(best) = {} /\ work.fOnPrev = (best = work.pindexPrev)
    /\ work.pc \in {"select", "unsigned", "found"} =>
          \/ work.fOnPrev /\ ConnectsInOrder(work.vtx, work.pindexPrev)
          \/ /\ ~work.fOnPrev
             /\ work.fForced \/ nChainTrust[best] > nChainTrust[work.pindexPrev]

MinerInv == IndInv /\ WorkShape /\ SelectInv /\ PrevTrust /\ PoolLoose /\ OwnInv

(* One more transaction that ConnectInputs accepts keeps the order.        *)
LEMMA ConnectOneMore ==
    ASSUME IndInv, NEW s \in Seq(Tx), NEW t \in mapTx, ToSet(s) \subseteq mapTx,
           PoolLoose, mapTx \cap ChainTxs(best) = {}, work.pindexPrev = best,
           ConnectsInOrder(s, best), ConnectsTo(t, ToSet(s))
    PROVE  ConnectsInOrder(Append(s, t), best)
  <1> DEFINE a == Append(s, t)
             n == Len(s) + 1
  <1>1. /\ Len(s) \in Nat /\ DOMAIN s = 1..Len(s) /\ \A k \in 1..Len(s) : s[k] \in Tx
        /\ best \in Block /\ t \in Tx /\ mapTx \subseteq Tx /\ ValidChain(best)
    BY DEF IndInv, TypeOK
  <1>2. /\ DOMAIN a = 1..n /\ a[n] = t /\ \A k \in 1..Len(s) : a[k] = s[k]
    BY <1>1
  <1>3. ToSet(s) = {s[k] : k \in 1..Len(s)}
    BY ToSetFacts
  <1>4. \A k \in 1..n : k = n \/ (k \in 1..Len(s) /\ 1..(k-1) \subseteq 1..Len(s))
    BY <1>1
  <1>5. 1..(n - 1) = 1..Len(s) /\ n \in 1..n
    BY <1>1
  <1> HIDE DEF a, n
  <1>6. ASSUME NEW o \in vin[t]
        PROVE  /\ o[1] \in ChainTxs(best) \cup {a[j] : j \in 1..(n-1)}
               /\ ChainSpent(best)[o] = NoTx
               /\ \A j \in 1..Len(s) : o \notin vin[s[j]]
               /\ IsCoinBase(o[1]) =>
                    nHeight[best] + 1 - nHeight[ChainPos(best)[o[1]]] >= nCoinbaseMaturity
    <2>1. /\ o \in OutPoint /\ o[1] \in ChainTxs(best) \cup ToSet(s)
          /\ ChainSpent(best)[o] = NoTx /\ \A u \in ToSet(s) : o \notin vin[u]
      BY <1>6 DEF ConnectsTo
    <2>2. {a[j] : j \in 1..(n-1)} = ToSet(s)
      BY <1>2, <1>3, <1>5
    <2>3. ASSUME IsCoinBase(o[1])
          PROVE  nHeight[best] + 1 - nHeight[ChainPos(best)[o[1]]] >= nCoinbaseMaturity
      <3>1. o[1] \in ChainTxs(best)
        BY <2>1, <2>3 DEF PoolLoose
      <3> DEFINE pos == ChainPos(best)[o[1]]
      <3>2. ~(pos \in Branch[best] /\ nHeight[best] - nHeight[pos] < nCoinbaseMaturity)
        BY <1>6, <2>3, <3>1 DEF ConnectsTo
      <3>3. PICK c \in Branch[best] \ {hashGenesisBlock} : o[1] \in TxsOf(c)
        BY <3>1 DEF ChainTxs
      <3>4. o[1] \in Tx
        BY <1>1, <3>1, ChainTxsFacts
      <3>5. pos = c
        BY <1>1, <3>3, <3>4, ChainPosFacts
      <3>6. pos \in Block /\ pos \in Branch[best]
        BY <1>1, <3>3, <3>5, BranchFacts
      <3> HIDE DEF pos
      <3>7. nHeight[best] \in Nat /\ nHeight[pos] \in Nat
        BY <1>1, <3>6, HeightFacts
      <3>8. nHeight[best] + 1 - nHeight[pos] >= nCoinbaseMaturity
        BY <3>2, <3>6, <3>7, ParameterAssumption
      <3> QED
        BY <3>8 DEF pos
    <2> QED
      BY <1>3, <2>1, <2>2, <2>3
  <1>7. ASSUME NEW k \in 1..Len(s), NEW o \in vin[s[k]]
        PROVE  /\ o[1] \in ChainTxs(best) \cup {a[j] : j \in 1..(k-1)}
               /\ IsCoinBase(o[1]) =>
                    nHeight[best] + 1 - nHeight[ChainPos(best)[o[1]]] >= nCoinbaseMaturity
               /\ ChainSpent(best)[o] = NoTx
               /\ \A j \in 1..n : o \in vin[a[j]] => j = k
    <2>1. /\ o[1] \in ChainTxs(best) \cup {s[j] : j \in 1..(k-1)}
          /\ IsCoinBase(o[1]) =>
                    nHeight[best] + 1 - nHeight[ChainPos(best)[o[1]]] >= nCoinbaseMaturity
          /\ ChainSpent(best)[o] = NoTx
          /\ \A j \in 1..Len(s) : o \in vin[s[j]] => j = k
      BY <1>1 DEF ConnectsInOrder
    <2>2. {a[j] : j \in 1..(k-1)} = {s[j] : j \in 1..(k-1)}
      <3>1. 1..(k-1) \subseteq 1..Len(s)
        BY <1>1
      <3> QED
        BY <1>2, <3>1
    <2>3. o \notin vin[a[n]]
      BY <1>2, <1>6
    <2>4. \A j \in 1..n : o \in vin[a[j]] => j = k
      BY <1>2, <1>4, <2>1, <2>3
    <2> QED
      BY <2>1, <2>2, <2>4
  <1>8. \A k \in 1..n : a[k] \notin ChainTxs(best)
    BY <1>1, <1>2, <1>4 DEF ConnectsInOrder
  <1>9. \A o \in vin[t] : \A j \in 1..n : o \in vin[a[j]] => j = n
    BY <1>2, <1>4, <1>6
  <1>10. ConnectsInOrder(a, best)
    <2> SUFFICES ASSUME NEW k \in 1..n
                 PROVE  \A o \in vin[a[k]] :
                          /\ o[1] \in ChainTxs(best) \cup {a[j] : j \in 1..(k-1)}
                          /\ IsCoinBase(o[1]) =>
                                nHeight[best] + 1 - nHeight[ChainPos(best)[o[1]]] >= nCoinbaseMaturity
                          /\ ChainSpent(best)[o] = NoTx
                          /\ \A j \in 1..n : o \in vin[a[j]] => j = k
      BY <1>2, <1>8 DEF ConnectsInOrder
    <2>1. CASE k = n
      BY <1>2, <1>6, <1>9, <2>1
    <2>2. CASE k \in 1..Len(s)
      BY <1>2, <1>7, <2>2
    <2> QED
      BY <1>4, <2>1, <2>2
  <1> QED
    BY <1>10 DEF a

(* Steps that leave the chain, the pool, pindexPrev and vtx as they are.   *)
LEMMA SameOwn ==
    ASSUME OwnInv, UNCHANGED vars, work'.pindexPrev = work.pindexPrev, work'.vtx = work.vtx,
           work'.fOnPrev = work.fOnPrev, work'.fForced = work.fForced,
           work.pc \in {"select", "unsigned", "found"},
           work'.pc = "select" => work.pc = "select"
    PROVE  OwnInv'
  <1>1. mapTx' = mapTx /\ best' = best
    BY DEF vars, poolVars
  <1>2. ConnectsInOrder(work.vtx, work.pindexPrev)' <=> ConnectsInOrder(work.vtx, work.pindexPrev)
    BY DEF ConnectsInOrder
  <1> QED
    BY <1>1, <1>2 DEF OwnInv

(* The pool gains nothing but loose transactions.                          *)
LEMMA LooseStep ==
    ASSUME IndInv, PoolLoose, [Next]_vars
    PROVE  PoolLoose'
  <1>1. ASSUME NEW t, Standalone(t) \/ Accepts(t), addUnchecked(t) PROVE PoolLoose'
    BY <1>1 DEF PoolLoose, addUnchecked, Accepts, Considered, Standalone
  <1>2. ASSUME mapTx' \subseteq mapTx PROVE PoolLoose'
    BY <1>2 DEF PoolLoose
  <1>3. ASSUME NEW b \in Block, SetBestChainInner(b) \/ ReorganizeTo(b) PROVE PoolLoose'
    BY <1>2, <1>3 DEF SetBestChainInner, ReorganizeTo, remove, poolVars
  <1>4. ASSUME NEW p \in vResurrect, ResurrectTx(p) PROVE PoolLoose'
    BY <1>1, <1>2, <1>4 DEF ResurrectTx, poolVars
  <1>5. ASSUME NEW p \in vDelete, DeleteTx(p) PROVE PoolLoose'
    BY <1>2, <1>5 DEF DeleteTx, remove
  <1>6. ASSUME NEW t \in Tx, AcceptWalletTransaction(t) \/ ReceiveTx(t) \/ ReceiveOrphanTx(t)
        PROVE  PoolLoose'
    BY <1>1, <1>2, <1>6 DEF AcceptWalletTransaction, ReceiveTx, ReceiveOrphanTx, poolVars
  <1>7. ASSUME NEW o \in mi, TryOrphan(o) PROVE PoolLoose'
    BY <1>1, <1>2, <1>7 DEF TryOrphan, poolVars
  <1>8. CASE NextInWorkQueue
    BY <1>2, <1>8 DEF NextInWorkQueue, poolVars
  <1>9. CASE UNCHANGED vars
    BY <1>2, <1>9 DEF vars, poolVars
  <1> QED
    BY <1>3, <1>4, <1>5, <1>6, <1>7, <1>8, <1>9 DEF Next

(* To the chain and the pool, every step is one of MemPool.                *)
LEMMA MinerStepsPool ==
    ASSUME WorkShape, IndInv, [MinerNext]_minerVars
    PROVE  [Next]_vars
  <1>1. CASE PoolStep
    BY <1>1 DEF PoolStep
  <1>2. CASE CreateNewBlock
    BY <1>2 DEF CreateNewBlock
  <1>3. CASE CollectPool
    BY <1>3 DEF CollectPool
  <1>4. ASSUME NEW t \in Tx, AddToBlock(t) \/ PassOver(t) PROVE UNCHANGED vars
    BY <1>4 DEF AddToBlock, PassOver
  <1>5. CASE Assembled
    BY <1>5 DEF Assembled
  <1>6. CASE SignBlock
    BY <1>6 DEF SignBlock
  <1>7. CASE ProcessOwnBlock
    BY <1>7 DEF ProcessOwnBlock, Next
  <1>8. CASE Abandon
    BY <1>8 DEF Abandon
  <1>9. CASE UNCHANGED minerVars
    BY <1>9 DEF minerVars
  <1> QED
    BY <1>1, <1>2, <1>3, <1>4, <1>5, <1>6, <1>7, <1>8, <1>9 DEF MinerNext

(* What the invariant says of the block in the making.                     *)
WorkInv == WorkShape /\ SelectInv /\ PrevTrust /\ OwnInv

LEMMA OffInv ==
    ASSUME work' = Off
    PROVE  WorkInv'
  <1>1. Off.pc = "off"
    BY DEF Off
  <1> QED
    BY <1>1 DEF WorkInv, WorkShape, SelectInv, PrevTrust, OwnInv

(* A step of the rest of the node changes fForced at most. *)
LEMMA PoolStepShape ==
    ASSUME WorkShape, PoolStep, work # Off
    PROVE  /\ WorkShape' /\ work' # Off
           /\ work'.pc = work.pc /\ work.pc # "select"
           /\ work'.pindexPrev = work.pindexPrev /\ work'.vtx = work.vtx
           /\ work'.fOnPrev = work.fOnPrev
           /\ work'.fForced =
                (work.fForced \/ (best' # best /\ ~(nChainTrust[best'] > nChainTrust[best])))
  <1> DEFINE forced == work.fForced \/ (best' # best /\ ~(nChainTrust[best'] > nChainTrust[best]))
  <1>1. work' = [work EXCEPT !.fForced = forced] /\ work.pc # "select"
    BY DEF PoolStep
  <1>2. DOMAIN work = Fields /\ forced \in BOOLEAN
    BY DEF WorkShape
  <1> HIDE DEF forced
  <1>3. /\ DOMAIN work' = Fields /\ work' = [f \in Fields |-> work'[f]]
        /\ work'.pc = work.pc
        /\ work'.pindexPrev = work.pindexPrev /\ work'.vtx = work.vtx
        /\ work'.coinbaseTime = work.coinbaseTime /\ work'.skipped = work.skipped
        /\ work'.fOnPrev = work.fOnPrev /\ work'.fForced = forced
    BY <1>1, <1>2 DEF Fields
  <1>4. work' # Off
    <2>1. Off.pc = "off" /\ work.pc # "off"
      BY DEF Off, WorkShape
    <2> QED
      BY <1>3, <2>1
  <1>5. WorkShape'
    BY <1>2, <1>3, <1>4 DEF WorkShape
  <1> QED
    BY <1>1, <1>3, <1>4, <1>5 DEF forced

LEMMA PoolStepWork ==
    ASSUME IndInv, IndInv', WorkInv, PoolStep
    PROVE  WorkInv'
  <1>1. best \in Block /\ best' \in Block
    BY DEF IndInv, TypeOK
  <1>2. CASE work = Off
    BY <1>2, OffInv DEF PoolStep
  <1>3. CASE work # Off
    <2> DEFINE prev == work.pindexPrev
               grows == nChainTrust[best'] > nChainTrust[best]
    <2>1. /\ WorkShape' /\ work' # Off
          /\ work'.pc = work.pc /\ work.pc # "select"
          /\ work'.pindexPrev = prev /\ work'.vtx = work.vtx
          /\ work'.fOnPrev = work.fOnPrev
          /\ work'.fForced = (work.fForced \/ (best' # best /\ ~grows))
      BY <1>3, PoolStepShape DEF WorkInv
    <2>2. prev \in Block /\ work.fForced \in BOOLEAN /\ work.fOnPrev \in BOOLEAN
      BY <1>3 DEF WorkInv, WorkShape
    <2>3. /\ nChainTrust[best] \in Nat /\ nChainTrust[best'] \in Nat
          /\ nChainTrust[prev] \in Nat
      BY <1>1, <2>2, TrustFacts
    <2>4. work'.fForced \/ (~work.fForced /\ (best' = best \/ grows))
      BY <2>1, <2>2
    <2>5. ~work.fForced => best = prev \/ nChainTrust[best] > nChainTrust[prev]
      BY <1>3 DEF WorkInv, PrevTrust
    <2>6. (best' = best \/ grows) /\ nChainTrust[best] > nChainTrust[prev]
            => nChainTrust[best'] > nChainTrust[prev]
      BY <2>3
    <2>7. PrevTrust'
      BY <2>1, <2>4, <2>5, <2>6 DEF PrevTrust
    <2>8. ConnectsInOrder(work.vtx, work.pindexPrev)' <=> ConnectsInOrder(work.vtx, work.pindexPrev)
      BY <2>1 DEF ConnectsInOrder
    <2>9. OwnInv'
      BY <2>1, <2>4, <2>6, <2>8 DEF WorkInv, OwnInv
    <2> QED
      BY <2>1, <2>7, <2>9 DEF WorkInv, SelectInv
  <1> QED
    BY <1>2, <1>3

LEMMA SamePrevTrust ==
    ASSUME PrevTrust, work # Off, UNCHANGED vars, work'.pindexPrev = work.pindexPrev,
           work'.fForced = work.fForced
    PROVE  PrevTrust'
  <1>1. best' = best
    BY DEF vars
  <1> QED
    BY <1>1 DEF PrevTrust

LEMMA CreateWork ==
    ASSUME IndInv, WorkInv, CreateNewBlock
    PROVE  WorkInv'
  <1>1. /\ WorkShape' /\ UNCHANGED vars /\ work'.pc = "started"
        /\ work'.pindexPrev = best
    BY CreateShape
  <1>2. best' = best
    BY <1>1 DEF vars
  <1> QED
    BY <1>1, <1>2 DEF WorkInv, SelectInv, PrevTrust, OwnInv

LEMMA CollectWork ==
    ASSUME IndInv, WorkInv, CollectPool
    PROVE  WorkInv'
  <1>1. /\ WorkShape' /\ UNCHANGED vars /\ work # Off /\ work'.pc = "select"
        /\ work'.pindexPrev = work.pindexPrev /\ work'.vtx = <<>>
        /\ work'.fForced = work.fForced /\ work'.fOnPrev = (best = work.pindexPrev)
    BY CollectShape DEF WorkInv
  <1>2. mapTx' = mapTx /\ best' = best
    BY <1>1 DEF vars, poolVars
  <1>3. mapTx \cap ChainTxs(best) = {}
    BY DEF IndInv, ReorgInv, ToDelete, CollectPool, Idle
  <1>4. ConnectsInOrder(work.vtx, work.pindexPrev)'
    BY <1>1 DEF ConnectsInOrder
  <1>5. work.fForced \/ best = work.pindexPrev \/ nChainTrust[best] > nChainTrust[work.pindexPrev]
    BY <1>1 DEF WorkInv, PrevTrust
  <1>6. OwnInv'
    BY <1>1, <1>2, <1>3, <1>4, <1>5 DEF OwnInv
  <1> QED
    BY <1>1, <1>6, CollectSelect, SamePrevTrust DEF WorkInv

LEMMA AddWork ==
    ASSUME IndInv, PoolLoose, WorkInv, NEW t \in Tx, AddToBlock(t)
    PROVE  WorkInv'
  <1>1. /\ WorkShape' /\ UNCHANGED vars /\ work # Off
        /\ work.pc = "select" /\ work'.pc = "select"
        /\ work'.pindexPrev = work.pindexPrev
        /\ work'.fOnPrev = work.fOnPrev /\ work'.fForced = work.fForced
        /\ work.vtx \in Seq(Tx) /\ work'.vtx = Append(work.vtx, t)
    BY AddShape DEF WorkInv
  <1>2. mapTx' = mapTx /\ best' = best
    BY <1>1 DEF vars, poolVars
  <1>3. /\ mapTx \cap ChainTxs(best) = {} /\ t \in mapTx /\ ToSet(work.vtx) \subseteq mapTx
        /\ ConnectsTo(t, ToSet(work.vtx)) /\ work.fOnPrev = (best = work.pindexPrev)
    BY <1>1 DEF WorkInv, OwnInv, SelectInv, AddToBlock
  <1>4. ASSUME work.fOnPrev
        PROVE  ConnectsInOrder(work.vtx, work.pindexPrev)'
    <2>1. work.pindexPrev = best /\ ConnectsInOrder(work.vtx, best)
      BY <1>1, <1>3, <1>4 DEF WorkInv, OwnInv
    <2>2. ConnectsInOrder(Append(work.vtx, t), best)
      BY <1>1, <1>3, <2>1, ConnectOneMore
    <2>3. ConnectsInOrder(work.vtx, work.pindexPrev)' <=> ConnectsInOrder(Append(work.vtx, t), best)
      BY <1>1, <2>1 DEF ConnectsInOrder
    <2> QED
      BY <2>2, <2>3
  <1>5. OwnInv'
    BY <1>1, <1>2, <1>3, <1>4 DEF WorkInv, OwnInv
  <1> QED
    BY <1>1, <1>5, AddSelect, SamePrevTrust DEF WorkInv

LEMMA PassWork ==
    ASSUME WorkInv, NEW t \in Tx, PassOver(t)
    PROVE  WorkInv'
  <1>1. /\ WorkShape' /\ UNCHANGED vars /\ work # Off /\ work.pc = "select"
        /\ work'.pindexPrev = work.pindexPrev /\ work'.vtx = work.vtx
        /\ work'.fOnPrev = work.fOnPrev /\ work'.fForced = work.fForced
    BY PassShape DEF WorkInv
  <1>2. OwnInv'
    BY <1>1, SameOwn DEF WorkInv
  <1> QED
    BY <1>1, <1>2, PassSelect, SamePrevTrust DEF WorkInv

LEMMA HeaderWork ==
    ASSUME WorkInv, Assembled \/ SignBlock
    PROVE  WorkInv'
  <1>1. /\ WorkShape' /\ UNCHANGED vars /\ work # Off /\ work.pc \in {"select", "unsigned"}
        /\ work'.pc \in {"unsigned", "found"}
        /\ work'.pindexPrev = work.pindexPrev /\ work'.vtx = work.vtx
        /\ work'.fOnPrev = work.fOnPrev /\ work'.fForced = work.fForced
    BY AssembledShape, SignShape DEF WorkInv
  <1>2. OwnInv'
    BY <1>1, SameOwn DEF WorkInv
  <1>3. SelectInv'
    BY <1>1 DEF SelectInv
  <1> QED
    BY <1>1, <1>2, <1>3, SamePrevTrust DEF WorkInv

LEMMA SameWork ==
    ASSUME WorkInv, UNCHANGED minerVars
    PROVE  WorkInv'
  <1>1. work' = work /\ UNCHANGED vars /\ best' = best /\ mapTx' = mapTx
    BY DEF minerVars, vars, poolVars
  <1>2. /\ Whole' = Whole
        /\ \A t : DependsOn(t)' = DependsOn(t)
        /\ \A t, B : ConnectsTo(t, B)' <=> ConnectsTo(t, B)
    BY <1>1, SameReads
  <1>3. ConnectsInOrder(work.vtx, work.pindexPrev)' <=> ConnectsInOrder(work.vtx, work.pindexPrev)
    BY <1>1 DEF ConnectsInOrder
  <1>4. WorkShape' /\ PrevTrust'
    BY <1>1 DEF WorkInv, WorkShape, PrevTrust, Off
  <1>5. OwnInv'
    BY <1>1, <1>3 DEF WorkInv, OwnInv
  <1>6. SelectInv'
    BY <1>1, <1>2 DEF WorkInv, SelectInv
  <1> QED
    BY <1>4, <1>5, <1>6 DEF WorkInv

LEMMA MinerStep == MinerInv /\ [MinerNext]_minerVars => MinerInv'
  <1> SUFFICES ASSUME MinerInv, [MinerNext]_minerVars PROVE MinerInv'
    OBVIOUS
  <1>1. IndInv /\ WorkInv /\ PoolLoose
    BY DEF MinerInv, WorkInv
  <1>2. [Next]_vars
    BY <1>1, MinerStepsPool DEF WorkInv
  <1>3. IndInv'
    BY <1>1, <1>2, StepInv
  <1>4. PoolLoose'
    BY <1>1, <1>2, LooseStep
  <1>5. WorkInv'
    <2>1. CASE PoolStep
      BY <1>1, <1>3, <2>1, PoolStepWork
    <2>2. CASE CreateNewBlock
      BY <1>1, <2>2, CreateWork
    <2>3. CASE CollectPool
      BY <1>1, <2>3, CollectWork
    <2>4. ASSUME NEW t \in Tx, AddToBlock(t) PROVE WorkInv'
      BY <1>1, <2>4, AddWork
    <2>5. ASSUME NEW t \in Tx, PassOver(t) PROVE WorkInv'
      BY <1>1, <2>5, PassWork
    <2>6. CASE Assembled \/ SignBlock
      BY <1>1, <2>6, HeaderWork
    <2>7. CASE ProcessOwnBlock \/ Abandon
      BY <2>7, OffInv DEF ProcessOwnBlock, Abandon
    <2>8. CASE UNCHANGED minerVars
      BY <1>1, <2>8, SameWork
    <2> QED
      BY <2>1, <2>2, <2>3, <2>4, <2>5, <2>6, <2>7, <2>8 DEF MinerNext
  <1> QED
    BY <1>3, <1>4, <1>5 DEF MinerInv, WorkInv

(* The inductive invariant of the node that mines: that of the pool, and   *)
(* what holds of the block in the making.                                  *)
THEOREM MinerInvariance == MinerSpec => []MinerInv
  <1>1. MinerInit => MinerInv
    <2> SUFFICES ASSUME MinerInit PROVE MinerInv
      OBVIOUS
    <2>1. Off.pc = "off"
      BY DEF Off
    <2> QED
      BY <2>1, InitIndInv DEF MinerInit, Init, MinerInv, WorkShape, SelectInv, PrevTrust,
         PoolLoose, OwnInv
  <1> QED
    BY <1>1, MinerStep, PTL DEF MinerSpec

(* OwnBlockConnects: a block that passes the test of CheckWork and         *)
(* CheckStake connects to the best chain.  If its transactions were        *)
(* collected on pindexPrev, the chain may have gone anywhere and come back *)
(* since, by a checkpoint too; if they were collected on another block,    *)
(* only a checkpoint brings pindexPrev back, and that case is left out.    *)
THEOREM OwnBlockAlwaysConnects == MinerSpec => []OwnBlockConnects
  <1>1. MinerInv => OwnBlockConnects
    <2> SUFFICES ASSUME MinerInv, work.pc = "found", ~Stale, work.fOnPrev \/ ~work.fForced
                 PROVE  ConnectsInOrder(work.vtx, best)
      BY DEF ConnectsInOrder, OwnBlockConnects, WorkConnects
    <2>1. best = work.pindexPrev /\ best \in Block
      BY DEF Stale, MinerInv, IndInv, TypeOK
    <2>2. ~(nChainTrust[best] > nChainTrust[work.pindexPrev])
      BY <2>1, TrustFacts
    <2> QED
      BY <2>1, <2>2 DEF MinerInv, OwnInv
  <1> QED
    BY <1>1, MinerInvariance, PTL

(* NothingForgotten: the queue by priority and the transactions that wait  *)
(* for parents lose none that could still go into the block, in whatever   *)
(* order the parents were added.                                           *)
THEOREM NothingEverForgotten == MinerSpec => []NothingForgotten
  <1>1. MinerInv => NothingForgotten
    BY DEF MinerInv, SelectInv, NothingForgotten
  <1> QED
    BY <1>1, MinerInvariance, PTL

-----------------------------------------------------------------------------
(* While the best chain only grows, the pool connects. *)

Growing == [][(best \in Branch[best'])]_vars

(* No transaction waits to be put back, and each one of the pool spends    *)
(* outputs that exist, of the chain or of the pool.                        *)
ConnectInv ==
    /\ vResurrect = {}
    /\ \A t \in mapTx : ~ MissingInput(t) /\ vin[t] \subseteq OutPoint

(* On a longer chain the inputs that were there still are.                 *)
LEMMA GrowthInputs ==
    ASSUME IndInv, IndInv', ConnectInv, best \in Branch[best'],
           mapTx \ mapTx' \subseteq ChainTxs(best'), mapTx' \subseteq mapTx, vResurrect' = {}
    PROVE  ConnectInv'
  <1>1. best \in Block /\ best' \in Block
    BY DEF IndInv, TypeOK
  <1>2. Branch[best] \subseteq Branch[best']
    BY <1>1, TreeAssumption
  <1>3. ChainTxs(best) \subseteq ChainTxs(best')
    BY <1>2 DEF ChainTxs
  <1> QED
    BY <1>3 DEF ConnectInv, MissingInput

(* A transaction that accept lets in connects.                             *)
LEMMA AcceptConnects ==
    ASSUME ConnectInv, NEW t \in Tx, Accepts(t), addUnchecked(t), best' = best, vResurrect' = vResurrect
    PROVE  ConnectInv'
  BY DEF ConnectInv, Accepts, ConnectInputs, addUnchecked, MissingInput

(* removeConflicts takes out everything that spends what it takes out.     *)
LEMMA DeleteConnects ==
    ASSUME IndInv, ConnectInv, NEW p \in vDelete, DeleteTx(p)
    PROVE  ConnectInv'
  <1> DEFINE r == TxAt(p)
  <1>1. /\ best' = best /\ vResurrect' = vResurrect
        /\ mapTx' = mapTx \ ({r} \cup Conflicting(r))
    BY DEF DeleteTx, remove
  <1>2. r \in ChainTxs(best) /\ best \in Block
    <2>1. best \in Block /\ p \in Positions(Branch[best] \ {hashGenesisBlock})
      BY DEF IndInv, TypeOK, ReorgInv
    <2>2. Branch[best] \ {hashGenesisBlock} \in SUBSET Block
      BY <2>1, BranchFacts
    <2>3. p[1] \in Branch[best] \ {hashGenesisBlock} /\ r \in TxsOf(p[1])
      BY <2>1, <2>2, PositionFacts
    <2> QED
      BY <2>1, <2>3, ChainTxsFacts
  <1> HIDE DEF r
  <1>3. ASSUME NEW t \in mapTx, t \notin {r} \cup Conflicting(r), NEW o \in vin[t],
               o[1] \notin ChainTxs(best)
        PROVE  o[1] \in mapTx /\ o[1] \notin {r} \cup Conflicting(r)
    <2>1. o[1] \in mapTx /\ o \in OutPoint
      BY <1>3 DEF ConnectInv, MissingInput
    <2>2. o[1] # r
      BY <1>2, <1>3
    <2>3. ASSUME o[1] \in Conflicting(r) PROVE FALSE
      <3>1. PICK u \in {mapNextTx[q] : q \in vin[r]} \ {NoTx, r} : o[1] \in WithDescendants(u)
        BY <2>3 DEF Conflicting
      <3>2. t \notin WithDescendants(u)
        BY <1>3, <3>1 DEF Conflicting
      <3>3. PICK v \in Tx : o \in {v} \X (1..vout[v])
        BY <2>1 DEF OutPoint
      <3>4. PICK n \in 1..vout[v] : o = <<v, n>>
        BY <3>3
      <3>5. o[1] = v
        BY <3>4
      <3>6. mapNextTx[<<v, n>>] = t
        <4>1. t \in Tx /\ o \in Prevout
          BY <2>1 DEF IndInv, TypeOK, Prevout
        <4> QED
          BY <1>3, <3>4, <4>1 DEF IndInv, NextTxMirrorsPool
      <3>7. t # NoTx
        BY TxAssumption DEF IndInv, TypeOK
      <3>8. PICK D \in SUBSET mapTx : u \in D /\ SpendersTaken(D) /\ t \notin D
        BY <3>2 DEF WithDescendants
      <3>9. v \in D
        BY <3>1, <3>5, <3>8 DEF WithDescendants
      <3>10. mapNextTx[<<v, n>>] \in D \cup {NoTx}
        BY <3>8, <3>9 DEF SpendersTaken
      <3> QED
        BY <3>6, <3>7, <3>8, <3>10
    <2> QED
      BY <2>1, <2>2, <2>3
  <1>4. \A t \in mapTx' : ~ MissingInput(t)'
    BY <1>1, <1>3 DEF MissingInput
  <1> QED
    BY <1>1, <1>4 DEF ConnectInv

LEMMA ConnectStep ==
    ASSUME IndInv, IndInv', ConnectInv, [Next]_vars, [(best \in Branch[best'])]_vars
    PROVE  ConnectInv'
  <1>1. best \in Block /\ best' \in Block
    BY DEF IndInv, TypeOK
  <1>2. best \in Branch[best']
    <2>1. best' = best \/ best \in Branch[best']
      BY DEF vars
    <2> QED
      BY <1>1, <2>1, BranchFacts
  <1>3. ASSUME mapTx' = mapTx, vResurrect' = vResurrect PROVE ConnectInv'
    BY <1>2, <1>3, GrowthInputs DEF ConnectInv
  <1>4. ASSUME NEW b \in Block, SetBestChainInner(b) PROVE ConnectInv'
    <2>1. /\ best' = b /\ b # hashGenesisBlock /\ vResurrect' = vResurrect
          /\ mapTx' = mapTx \ TxsOf(b)
      BY <1>4 DEF SetBestChainInner, Extend, remove, ConnectedTxs, reorgVars
    <2>2. TxsOf(b) \subseteq ChainTxs(b)
      BY <2>1, ChildTxs
    <2> QED
      BY <1>2, <2>1, <2>2, GrowthInputs DEF ConnectInv
  <1>5. ASSUME NEW b \in Block, ReorganizeTo(b) PROVE ConnectInv'
    <2>1. best' = b /\ mapTx' = mapTx /\ vResurrect' = Resurrected(b)
      BY <1>5 DEF ReorganizeTo, Reorganize, poolVars
    <2>2. Branch[best] \ Branch[b] = {}
      BY <1>1, <1>2, <2>1, TreeAssumption
    <2>3. vResurrect' = {}
      BY <2>1, <2>2 DEF Resurrected, Positions
    <2> QED
      BY <1>2, <2>1, <2>3, GrowthInputs
  <1>6. ASSUME NEW p \in vResurrect, ResurrectTx(p) PROVE ConnectInv'
    BY <1>6 DEF ConnectInv
  <1>7. ASSUME NEW p \in vDelete, DeleteTx(p) PROVE ConnectInv'
    BY <1>7, DeleteConnects
  <1>8. ASSUME NEW t \in Tx, AcceptWalletTransaction(t) \/ ReceiveTx(t) PROVE ConnectInv'
    BY <1>8, AcceptConnects DEF AcceptWalletTransaction, ReceiveTx, reorgVars
  <1>9. ASSUME NEW t \in Tx, ReceiveOrphanTx(t) PROVE ConnectInv'
    BY <1>3, <1>9 DEF ReceiveOrphanTx, poolVars, reorgVars
  <1>10. ASSUME NEW o \in mi, TryOrphan(o) PROVE ConnectInv'
    <2>1. o \in Tx
      BY DEF IndInv, TypeOK
    <2> QED
      BY <1>3, <1>10, <2>1, AcceptConnects DEF TryOrphan, poolVars, reorgVars
  <1>11. CASE NextInWorkQueue
    BY <1>3, <1>11 DEF NextInWorkQueue, poolVars, reorgVars
  <1>12. CASE UNCHANGED vars
    BY <1>3, <1>12 DEF vars, poolVars, reorgVars
  <1> QED
    BY <1>4, <1>5, <1>6, <1>7, <1>8, <1>9, <1>10, <1>11, <1>12 DEF Next

(* PoolConnects: as long as no block is disconnected, every input of the   *)
(* pool is in the chain or in the pool.  Blocks are connected one by one   *)
(* or several at a time, with whatever they conflict with; only a          *)
(* disconnected block can open a gap (which it does: run PoolGap).         *)
THEOREM PoolConnectsWhileGrowing == Spec /\ Growing => []PoolConnects
  <1>1. Init => ConnectInv
    BY DEF Init, ConnectInv
  <1>2. IndInv /\ IndInv' /\ ConnectInv /\ [Next]_vars /\ [(best \in Branch[best'])]_vars => ConnectInv'
    BY ConnectStep
  <1>3. ConnectInv => PoolConnects
    BY DEF ConnectInv, PoolConnects
  <1> QED
    BY <1>1, <1>2, <1>3, PoolInvariance, PTL DEF Spec, Growing
=============================================================================
