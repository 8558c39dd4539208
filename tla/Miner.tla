-------------------------------- MODULE Miner --------------------------------
(***************************************************************************)
(* How a node makes blocks of its own (CreateNewBlock, SignBlock, CheckWork *)
(* and CheckStake), on top of a memory pool and a chain that move while it *)
(* does.                                                                   *)
(*                                                                         *)
(* CreateNewBlock reads the best block, takes cs_main, and assembles the   *)
(* block under the lock; a proof is then searched for without it.  The     *)
(* order of priorities and fees may be any: the queue is a set.            *)
(***************************************************************************)
EXTENDS MemPool, SequencesExt

CONSTANTS
    nTime,          \* transaction -> its time stamp
    Times,          \* what the clock may show while a block is made
    Skippable       \* transactions that a limit (size, sigops, fee) may keep out of a block

ASSUME MinerAssumption ==
    /\ Times \subseteq Nat /\ Times # {}
    /\ nTime \in [Tx -> Nat]
    /\ Skippable \subseteq Tx

VARIABLE work       \* the block in the making

minerVars == <<vars, work>>

Off == [pc |-> "off"]

(* CreateNewBlock before it takes the lock: pindexPrev, and the coinbase. *)
CreateNewBlock ==
    /\ work = Off
    /\ \E fProofOfStake \in BOOLEAN, now \in Times :
          work' = [pc |-> "started", pindexPrev |-> best, fProofOfStake |-> fProofOfStake,
                   vtx |-> <<>>, coinbaseTime |-> now, nBlockTime |-> now, stakeTime |-> now,
                   vecPriority |-> {}, setDependsOn |-> <<>>, skipped |-> {},
                   fOnPrev |-> FALSE, fForced |-> FALSE]
    /\ UNCHANGED vars

(* Parents in the pool *)
DependsOn(t) == Prev(t) \ ChainTxs(best)

(* The pool is sorted into transactions that can be taken and those that   *)
(* wait for others of the pool.  One that lacks an input is left out.      *)
(* fOnPrev remembers whether pindexPrev, read before the lock, was still   *)
(* the best block.                                                         *)
CollectPool ==
    /\ work.pc = "started" /\ Idle
    /\ LET whole == {t \in mapTx : ~MissingInput(t)}
       IN work' = [work EXCEPT
             !.pc = "select",
             !.fOnPrev = best = work.pindexPrev,
             !.vecPriority = {t \in whole : DependsOn(t) = {}},
             !.setDependsOn = [t \in {u \in whole : DependsOn(u) # {}} |-> DependsOn(t)]]
    /\ UNCHANGED vars

(* FetchInputs and ConnectInputs of t, with the transactions B of the      *)
(* block in mapTestPool.                                                   *)
ConnectsTo(t, B) ==
    /\ t \notin BadInputs
    /\ \A o \in vin[t] :
          /\ o \in OutPoint
          /\ o[1] \in ChainTxs(best) \cup B
          /\ o[1] \in ChainTxs(best) /\ (IsCoinBase(o[1]) \/ IsCoinStake(o[1])) =>
                LET pos == ChainPos(best)[o[1]]
                    prev == work.pindexPrev
                IN ~(pos \in Branch[prev] /\ nHeight[prev] - nHeight[pos] < nCoinbaseMaturity)
          /\ ChainSpent(best)[o] = NoTx
          /\ \A u \in B : o \notin vin[u]

(* The limits, and the time stamps that a block may hold *)
MaySkip(t) == t \in Skippable \/ nTime[t] > work.coinbaseTime
MayTake(t) == work.fProofOfStake => nTime[t] <= work.coinbaseTime

(* Mutant of Releases: only what waits for t alone from the start. *)
ReleasesChildren(t) == {d \in DOMAIN work.setDependsOn : DependsOn(d) = {t}}

(* What becomes free to be taken with t: no parent is left to wait for. *)
Releases(t) == {d \in DOMAIN work.setDependsOn : work.setDependsOn[d] = {t}}

(* A transaction of the queue goes into the block, *)
AddToBlock(t) ==
    /\ work.pc = "select" /\ t \in work.vecPriority
    /\ MayTake(t)
    /\ ConnectsTo(t, ToSet(work.vtx))
    /\ work' = [work EXCEPT
          !.vtx = Append(@, t),
          !.vecPriority = (@ \ {t}) \cup Releases(t),
          !.setDependsOn = [d \in DOMAIN @ |-> @[d] \ {t}]]
    /\ UNCHANGED vars

(* or not: the block is full, the fee too low, an input spent. *)
PassOver(t) ==
    /\ work.pc = "select" /\ t \in work.vecPriority
    /\ MaySkip(t) \/ ~ConnectsTo(t, ToSet(work.vtx))
    /\ work' = [work EXCEPT
          !.vecPriority = @ \ {t},
          !.skipped = IF MaySkip(t) THEN @ \cup {t} ELSE @]
    /\ UNCHANGED vars

MaxTime(S) == Max({nTime[t] : t \in S} \cup {work.coinbaseTime})

(* The header; the search for a proof of work starts. *)
Assembled ==
    /\ work.pc = "select" /\ work.vecPriority = {}
    /\ work' = [work EXCEPT !.pc = IF work.fProofOfStake THEN "unsigned" ELSE "found",
                            !.nBlockTime = MaxTime(ToSet(work.vtx))]
    /\ UNCHANGED vars

(* The loop of SignBlock that erases the transactions later than time.     *)
UpTo(s, time) ==
    LET kept == {k \in DOMAIN s : nTime[s[k]] <= time}
    IN [n \in 1..Cardinality(kept) |-> s[CHOOSE k \in kept : Cardinality(kept \cap (1..k)) = n]]

(* SignBlock: a kernel is found, at a time up to now.  The block gets that *)
(* time or the latest of its transactions, and loses what is later.        *)
SignBlock ==
    /\ work.pc = "unsigned"
    /\ \E T \in Times :
          LET time == Max({nTime[t] : t \in ToSet(work.vtx)} \cup {T})
          IN work' = [work EXCEPT
                !.pc = "found", !.stakeTime = T, !.nBlockTime = time,
                !.vtx = UpTo(@, time)]
    /\ UNCHANGED vars

(* Mutant of Stale: the best block is not looked at again. *)
NeverStale == FALSE

(* The best block has changed. *)
Stale == work.pindexPrev # best

(* CheckBlock compares the time of the coinstake with that of the block. *)
CheckCoinStakeTimestamp == work.fProofOfStake => work.nBlockTime = work.stakeTime

(* The transactions of b without its coinbase and coinstake *)
Body(b) == SelectSeq(vtx[b], LAMBDA t : ~IsCoinBase(t) /\ ~IsCoinStake(t))

(* CheckWork or CheckStake hand the block to ProcessBlock, which connects  *)
(* it.                                                                     *)
ProcessOwnBlock ==
    /\ work.pc = "found" /\ Idle
    /\ ~Stale /\ CheckCoinStakeTimestamp
    /\ \E b \in Block \ {hashGenesisBlock} :
          /\ hashPrevBlock[b] = work.pindexPrev
          /\ IsProofOfStake(b) = work.fProofOfStake
          /\ Body(b) = work.vtx
          /\ SetBestChainInner(b)
    /\ work' = Off

(* The block is stale, ProcessBlock refuses it, or no proof is found. *)
Abandon ==
    /\ work.pc \in {"unsigned", "found"}
    /\ work' = Off
    /\ UNCHANGED vars

(* The rest of the node.  AddToBlockIndex changes to another branch only   *)
(* when it has more trust; a synchronised checkpoint moves the chain to    *)
(* its block whatever the trust, and fForced remembers that it did.        *)
PoolStep ==
    /\ work.pc # "select"
    /\ Next
    /\ work' = IF work = Off THEN Off ELSE
           [work EXCEPT !.fForced =
               @ \/ (best' # best /\ ~(nChainTrust[best'] > nChainTrust[best]))]

MinerInit == Init /\ work = Off

MinerNext ==
    \/ PoolStep
    \/ CreateNewBlock \/ CollectPool
    \/ \E t \in Tx : AddToBlock(t) \/ PassOver(t)
    \/ Assembled \/ SignBlock \/ ProcessOwnBlock \/ Abandon

MinerSpec == MinerInit /\ [][MinerNext]_minerVars

-----------------------------------------------------------------------------
(* Properties *)

(* The transactions of the block connect to the best chain in their order: *)
(* each input was made in the chain or earlier in the block, has matured,  *)
(* and is spent nowhere else.                                              *)
WorkConnects ==
    \A k \in DOMAIN work.vtx :
        /\ work.vtx[k] \notin ChainTxs(best)
        /\ \A o \in vin[work.vtx[k]] :
              /\ o[1] \in ChainTxs(best) \cup {work.vtx[j] : j \in 1..(k-1)}
              /\ IsCoinBase(o[1]) =>
                    nHeight[best] + 1 - nHeight[ChainPos(best)[o[1]]] >= nCoinbaseMaturity
              /\ ChainSpent(best)[o] = NoTx
              /\ \A j \in DOMAIN work.vtx : o \in vin[work.vtx[j]] => j = k

(* A block that passes the test of CheckWork and CheckStake connects.  The *)
(* chain may have left pindexPrev and come back to it after the            *)
(* transactions were collected, by a checkpoint too; before, it may have   *)
(* left it, and the block is stale for good unless a checkpoint moves the  *)
(* chain back (which is left out here: see MCForced.cfg).                  *)
OwnBlockConnects ==
    work.pc = "found" /\ ~Stale /\ (work.fOnPrev \/ ~work.fForced) => WorkConnects

(* Nothing is forgotten in the order of dependency: when the queue is      *)
(* empty, what stays in the pool was passed over because of a limit, or    *)
(* does not connect to the block.                                          *)
NothingForgotten ==
    work.pc = "select" /\ work.vecPriority = {} =>
        \A t \in mapTx \ (ToSet(work.vtx) \cup work.skipped) :
            ~ConnectsTo(t, ToSet(work.vtx))
=============================================================================
