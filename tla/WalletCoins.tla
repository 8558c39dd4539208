----------------------------- MODULE WalletCoins -----------------------------
(***************************************************************************)
(* Which of its coins the wallet takes for spent (the spent flags of       *)
(* CWalletTx in wallet.cpp), while payments and stakes are made, enter     *)
(* blocks and leave them again (SyncWithWallets in main.cpp).              *)
(*                                                                         *)
(* A transaction spends one coin and makes one, its change or its stake; a *)
(* stake may be split in two.  The calls of the wallet hold cs_main and    *)
(* cs_wallet, and so does ProcessBlock; the wallet is told of each block   *)
(* as it is connected or disconnected, and the database transaction is     *)
(* committed or aborted after the last one.                                *)
(***************************************************************************)
EXTENDS Integers, Sequences, SequencesExt, FiniteSets

CONSTANTS
    nMaturity,          \* blocks until a stake can be spent (nCoinbaseMaturity + 10)
    nFunds,             \* coins that the wallet starts with
    MaxTx, MaxBlocks    \* bounds on the transactions and on the blocks ever made

ASSUME WalletAssumption == {nMaturity, nFunds} \subseteq Nat \ {0} /\ {MaxTx, MaxBlocks} \subseteq Nat

VARIABLES
    tx,                 \* the transactions made: sequence of [kind, spends, vout]
    mapBlockIndex,      \* the blocks: see below
    chain,              \* the best one
    mempool,
    mapWallet,          \* transaction -> the hashBlock of its wallet record
    vfSpent,            \* coins with the spent flag
    op,                 \* the call in progress
    stake,              \* what the staking thread works on: [coin, prev]
    fConfChange,        \* -confchange: change is not spent before it is confirmed
    faults,             \* history: "reorg", "badreorg", "crash" and "repair" that happened
    phantom             \* history: stakes of branches that were connected and given up

vars == <<tx, mapBlockIndex, chain, mempool, mapWallet, vfSpent, op, stake, fConfChange, faults, phantom>>
blocks == <<mapBlockIndex, chain>>
history == <<fConfChange, faults, phantom>>

Tx == 1..Len(tx)
Funds == 1..nFunds
Pays == {t \in Tx : tx[t].kind = "pay"}
None == <<0, 0>>
NoBlock == << >>
Idle == [pc |-> "idle"]
NoStake == [coin |-> None, prev |-> NoBlock]

(* The coins that transactions make, each with its number, and those that  *)
(* they spend.                                                             *)
CoinsOf(S) == UNION {{t} \X (1..tx[t].vout) : t \in S}
Spends(S) == {tx[t].spends : t \in S} \ {None}
Coins == CoinsOf(Tx)

(* A block is the sequence of all blocks from the first one to itself, as  *)
(* its hash names them, each with its transactions and a nonce that tells  *)
(* it from its twins; hashPrevBlock is Front.                              *)
Init ==
    /\ tx = [t \in Funds |-> [kind |-> "fund", spends |-> None, vout |-> 1]]
    /\ chain = <<[vtx |-> Funds, nonce |-> 0]>> /\ mapBlockIndex = {chain}
    /\ mempool = {}
    /\ mapWallet = [t \in Funds |-> chain]
    /\ vfSpent = {}
    /\ op = Idle
    /\ stake = NoStake
    /\ fConfChange \in BOOLEAN
    /\ faults = {} /\ phantom = {}

-----------------------------------------------------------------------------
(* The chain and the memory pool *)

Confirmed(c) == UNION {c[i].vtx : i \in DOMAIN c}

(* S can go into a block on c: what it spends is there and unspent. *)
Connects(S, c) ==
    /\ \A t \in S : /\ tx[t].spends[1] \in Confirmed(c) \cup S
                    /\ tx[t].spends \notin Spends(Confirmed(c))
    /\ \A t, u \in S : tx[t].spends = tx[u].spends => t = u

(* AcceptToMemoryPool, with the pool M *)
Acceptable(t, M) ==
    /\ tx[t].spends[1] \in Confirmed(chain) \cup M
    /\ tx[t].spends \notin Spends(Confirmed(chain) \cup M)

-----------------------------------------------------------------------------
(* The wallet *)

Depth(t) ==
    IF mapWallet[t] # NoBlock /\ IsPrefix(mapWallet[t], chain)
    THEN Len(chain) + 1 - Len(mapWallet[t])
    ELSE IF t \in mempool THEN 0 ELSE -1

(* IsTrusted: confirmed, or our own and built on such transactions *)
IsTrusted[t \in Tx] ==
    \/ Depth(t) >= 1
    \/ /\ Depth(t) = 0 /\ ~fConfChange
       /\ tx[t].spends # None /\ IsTrusted[tx[t].spends[1]]

AvailableCoins ==
    {c \in Coins \ vfSpent :
        /\ IsTrusted[c[1]]
        /\ tx[c[1]].kind = "stake" => Depth(c[1]) >= nMaturity}

(* CreateTransaction, and CommitTransaction to the record of the payment *)
CommitTransaction(c) ==
    /\ op = Idle /\ Len(tx) < MaxTx
    /\ tx' = Append(tx, [kind |-> "pay", spends |-> c, vout |-> 1])
    /\ mapWallet' = Append(mapWallet, NoBlock)
    /\ op' = [pc |-> "recorded", t |-> Len(tx')]
    /\ UNCHANGED <<blocks, mempool, vfSpent, stake, history>>

Pay == \E c \in AvailableCoins : CommitTransaction(c)

(* Mutant of MarkSpent: nothing is marked. *)
MarkNothing ==
    /\ op.pc = "recorded"
    /\ op' = [op EXCEPT !.pc = "marked"]
    /\ UNCHANGED <<tx, blocks, mempool, mapWallet, vfSpent, stake, history>>

(* The coin is marked (by AddToWallet, and once more after it), *)
MarkSpent ==
    /\ op.pc = "recorded"
    /\ vfSpent' = vfSpent \cup {tx[op.t].spends}
    /\ op' = [op EXCEPT !.pc = "marked"]
    /\ UNCHANGED <<tx, blocks, mempool, mapWallet, stake, history>>

(* and the payment accepted.  It stays in the wallet if it is not. *)
Broadcast ==
    /\ op.pc = "marked"
    /\ mempool' = IF Acceptable(op.t, mempool) THEN mempool \cup {op.t} ELSE mempool
    /\ op' = Idle
    /\ UNCHANGED <<tx, blocks, mapWallet, vfSpent, stake, history>>

(* SyncWithWallets for a block with the transactions S that is connected:  *)
(* the coins that they make are marked as unspent, and those that they     *)
(* spend as spent,                                                         *)
Connected(S, spent) == (spent \ CoinsOf(S)) \cup Spends(S)

(* and each of them is recorded with the block. *)
Synced(b) == [t \in Tx |-> IF t \in Last(b).vtx THEN b ELSE mapWallet[t]]

(* Mutant of Disconnected: nothing is refunded. *)
DisconnectedKept(S, spent) == spent

(* SyncWithWallets for a block that is disconnected: DisableTransaction    *)
(* refunds what its coinstake spent.                                       *)
Disconnected(S, spent) == spent \ Spends({t \in S : tx[t].kind = "stake"})

-----------------------------------------------------------------------------
(* Blocks *)

(* A new block on c, which is in the index for the first time *)
NewBlock(c, S) ==
    LET twins == {b \in mapBlockIndex : Len(b) = Len(c) + 1 /\ Front(b) = c /\ Last(b).vtx = S}
    IN Append(c, [vtx |-> S, nonce |-> Cardinality(twins)])

AddToBlockIndex(b) ==
    /\ Cardinality(mapBlockIndex) < MaxBlocks
    /\ mapBlockIndex' = mapBlockIndex \cup {b}

(* SetBestChain, for b: at is the block that the database transaction has  *)
(* come to.                                                                *)
SetBestChain(b) == op' = [pc |-> "linking", at |-> chain, to |-> b]

(* A block of others, with payments of the wallet, on any block.  It       *)
(* becomes the best one if it has the trust.                               *)
ReceiveBlock ==
    /\ op = Idle
    /\ \E c \in mapBlockIndex, S \in SUBSET Pays :
          /\ Connects(S, c)
          /\ AddToBlockIndex(NewBlock(c, S))
          /\ \/ SetBestChain(NewBlock(c, S))
             \/ c # chain /\ UNCHANGED op
    /\ UNCHANGED <<tx, chain, mempool, mapWallet, vfSpent, stake, history>>

(* AcceptPendingSyncCheckpoint and ProcessSyncCheckpoint: the checkpoint   *)
(* becomes the best block, whatever its trust.                             *)
SyncCheckpoint ==
    /\ op = Idle
    /\ \E b \in mapBlockIndex : ~IsPrefix(b, chain) /\ SetBestChain(b)
    /\ UNCHANGED <<tx, blocks, mempool, mapWallet, vfSpent, stake, history>>

(* CreateNewBlock and SignBlock: the staking thread chooses a coin that is *)
(* deep enough.  It holds no lock from then until its block is complete,   *)
(* and cs_wallet only for the choice.                                      *)
SignBlock ==
    /\ stake = NoStake /\ op.pc \notin {"recorded", "marked"}
    /\ \E c \in Coins \ vfSpent :
          /\ Depth(c[1]) >= nMaturity
          /\ stake' = [coin |-> c, prev |-> chain]
    /\ UNCHANGED <<tx, blocks, mempool, mapWallet, vfSpent, op, history>>

(* CheckStake: the block is processed if the best chain is still the one   *)
(* that it was made for, and refused if its coin is spent there by now.    *)
Stakeable(c) == c[1] \in Confirmed(chain) /\ c \notin Spends(Confirmed(chain))

CheckStake ==
    /\ op = Idle /\ stake # NoStake /\ stake.prev = chain /\ Stakeable(stake.coin)
    /\ Len(tx) < MaxTx
    /\ \E S \in SUBSET Pays, n \in 1..2 :
          /\ Connects(S, chain) /\ stake.coin \notin Spends(S)
          /\ tx' = Append(tx, [kind |-> "stake", spends |-> stake.coin, vout |-> n])
          /\ AddToBlockIndex(NewBlock(chain, S \cup {Len(tx')}))
          /\ SetBestChain(NewBlock(chain, S \cup {Len(tx')}))
    /\ mapWallet' = Append(mapWallet, NoBlock)
    /\ stake' = NoStake
    /\ UNCHANGED <<chain, mempool, vfSpent, history>>

StakeRejected ==
    /\ op = Idle /\ stake # NoStake
    /\ stake.prev # chain \/ ~Stakeable(stake.coin)
    /\ stake' = NoStake
    /\ UNCHANGED <<tx, blocks, mempool, mapWallet, vfSpent, op, history>>

(* The blocks that op.to does not have are disconnected, *)
DisconnectBlock ==
    /\ op.pc = "linking" /\ ~IsPrefix(op.at, op.to)
    /\ vfSpent' = Disconnected(Last(op.at).vtx, vfSpent)
    /\ op' = [op EXCEPT !.at = Front(op.at)]
    /\ UNCHANGED <<tx, blocks, mempool, mapWallet, stake, history>>

(* and then its own connected, one by one. *)
ConnectBlock ==
    /\ op.pc = "linking" /\ op.at # op.to /\ IsPrefix(op.at, op.to)
    /\ LET b == SubSeq(op.to, 1, Len(op.at) + 1)
       IN /\ vfSpent' = Connected(Last(b).vtx, vfSpent)
          /\ mapWallet' = Synced(b)
          /\ op' = [op EXCEPT !.at = b]
    /\ UNCHANGED <<tx, blocks, mempool, stake, history>>

(* The commit of a block on the best one: its transactions leave the pool. *)
CommitBlock ==
    /\ op.pc = "linking" /\ op.at = op.to /\ Front(op.to) = chain
    /\ chain' = op.to
    /\ mempool' = mempool \ Last(op.to).vtx
    /\ op' = Idle
    /\ phantom' = phantom \ Confirmed(op.to)
    /\ UNCHANGED <<tx, mapBlockIndex, mapWallet, vfSpent, stake, fConfChange, faults>>

(* The transactions of the blocks of c that d does not have *)
Above(c, d) == UNION {c[i].vtx : i \in {j \in DOMAIN c : ~IsPrefix(SubSeq(c, 1, j), d)}}

(* The pool after a branch took over: what the old blocks had is put back, *)
(* without a look at the chain, if the pool does not spend its coins; what *)
(* the branch has leaves the pool, with all that it conflicts with.        *)
Resurrected ==
    LET back == {t \in Above(chain, op.to) \cap Pays : tx[t].spends \notin Spends(mempool)}
        deleted == Above(op.to, chain)
        M == (mempool \cup back) \ deleted
        conflicts[t \in Tx] ==
            \/ tx[t].spends \in Spends(deleted)
            \/ tx[t].spends[1] \in M /\ conflicts[tx[t].spends[1]]
    IN {t \in M : ~conflicts[t]}

(* The commit of Reorganize *)
CommitReorganize ==
    /\ op.pc = "linking" /\ op.at = op.to /\ Front(op.to) # chain
    /\ chain' = op.to
    /\ mempool' = Resurrected
    /\ op' = Idle
    /\ faults' = faults \cup {"reorg"}
    /\ phantom' = phantom \ Confirmed(op.to)
    /\ UNCHANGED <<tx, mapBlockIndex, mapWallet, vfSpent, stake, fConfChange>>

(* The stakes that the wallet was told of, in blocks that are given up *)
GivenUp ==
    IF op.pc = "linking" THEN {t \in Confirmed(op.at) \ Confirmed(chain) : tx[t].kind = "stake"} ELSE {}

(* A block cannot be read or does not connect, or the database fails: the  *)
(* transaction is aborted, and the old chain stays.  The wallet is told    *)
(* nothing.                                                                *)
AbortReorganize ==
    /\ op.pc = "linking"
    /\ op' = Idle
    /\ faults' = IF op.at = chain THEN faults ELSE faults \cup {"badreorg"}
    /\ phantom' = phantom \cup GivenUp
    /\ UNCHANGED <<tx, blocks, mempool, mapWallet, vfSpent, stake, fConfChange>>

-----------------------------------------------------------------------------
(* Restart and repair *)

(* Mutant of Reaccepted: coins spent in the chain stay unspent. *)
ReacceptedOnly == vfSpent

(* The flags after ReacceptWalletTransactions: coins that are spent in the *)
(* chain are marked.  A coinstake with a first coin that is marked is      *)
(* skipped, with the other half of a split stake.                          *)
Reaccepted ==
    LET skipped == {t \in Tx : tx[t].kind = "stake" /\ <<t, 1>> \in vfSpent}
    IN vfSpent \cup (Spends(Confirmed(chain)) \ CoinsOf(skipped))

(* The process ends between two writes.  The next one accepts the payments *)
(* of the wallet again that are in no block.                               *)
Crash ==
    /\ LET open == Pays \ Confirmed(chain)
           Pools == {M \in SUBSET open :
                        /\ \A t \in M : Acceptable(t, M \ {t})
                        /\ \A t \in open \ M : ~Acceptable(t, M)}
       IN mempool' \in Pools
    /\ vfSpent' = Reaccepted
    /\ op' = Idle /\ stake' = NoStake
    /\ faults' = (faults \ {"badreorg"}) \cup {"crash"}
    /\ phantom' = phantom \cup GivenUp
    /\ UNCHANGED <<tx, blocks, mapWallet, fConfChange>>

(* FixSpentCoins (repairwallet): the flags of confirmed coins are set to   *)
(* what the chain says.                                                    *)
Repair ==
    /\ op = Idle
    /\ vfSpent' = (vfSpent \ CoinsOf(Confirmed(chain))) \cup Spends(Confirmed(chain))
    /\ faults' = {"repair"}
    /\ phantom' = {t \in phantom : tx[t].spends[1] \notin Confirmed(chain)}
    /\ UNCHANGED <<tx, blocks, mempool, mapWallet, op, stake, fConfChange>>

Next ==
    \/ Pay \/ MarkSpent \/ Broadcast
    \/ ReceiveBlock \/ SyncCheckpoint \/ SignBlock \/ CheckStake \/ StakeRejected
    \/ DisconnectBlock \/ ConnectBlock \/ CommitBlock \/ CommitReorganize \/ AbortReorganize
    \/ Crash \/ Repair

Spec == Init /\ [][Next]_vars

-----------------------------------------------------------------------------
(* Properties *)

(* The wallet has a record of every transaction, of a block that has it. *)
TypeOK ==
    /\ \A t \in Tx : tx[t].kind \in {"fund", "pay", "stake"} /\ tx[t].spends[1] \in 0..t - 1
    /\ chain \in mapBlockIndex /\ mempool \subseteq Pays /\ vfSpent \subseteq Coins
    /\ DOMAIN mapWallet = Tx
    /\ \A t \in Tx : mapWallet[t] # NoBlock => mapWallet[t] \in mapBlockIndex /\ t \in Last(mapWallet[t]).vtx

(* "This must not fail. The transaction has already been signed and        *)
(* recorded": with -confchange, and as long as nothing went wrong, a       *)
(* payment of the wallet is accepted by the node's own memory pool.        *)
CommitSucceeds ==
    fConfChange /\ faults = {} /\ op.pc = "marked" => Acceptable(op.t, mempool)

(* No coin is lost but to one cause: through reorganisations of any depth, *)
(* in and out of branches with stakes of the wallet, one that is marked is *)
(* spent in the best chain or by a payment that the wallet keeps, or its   *)
(* stake was told to the wallet in a branch that was then given up, and is *)
(* in no best chain since.                                                 *)
CoinsNotLost ==
    op = Idle => vfSpent \subseteq Spends(Pays \cup Confirmed(chain) \cup phantom)

(* The wallet knows which of its coins the chain spends, unless a branch   *)
(* failed since the last restart or repair: none is offered again, after   *)
(* any exchange of blocks.  Of a split stake that is skipped at a restart  *)
(* it may not learn the other half.                                        *)
SpentCoinsKnown ==
    op = Idle /\ "badreorg" \notin faults =>
        \A c \in Spends(Confirmed(chain)) : c \in vfSpent \/ (c[2] = 2 /\ "crash" \in faults)
=============================================================================
