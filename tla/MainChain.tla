------------------------------ MODULE MainChain ------------------------------
(***************************************************************************)
(* What the block chain promises to everything built on top of it (the     *)
(* memory pool, the wallet, the miner): there is one committed best block, *)
(* its chain is valid, and one commit moves it either to a child or, in a  *)
(* reorganisation, to a block that it does not descend from.  It never     *)
(* moves back along its own chain, and nobody sees a half-finished move.   *)
(* BlockChain implements this specification; MemPool builds on it.         *)
(***************************************************************************)
EXTENDS BlockData

VARIABLE best       \* the committed best block

(* SetBestChainInner: block b is connected on top of the best block. *)
Extend(b) ==
    /\ b # hashGenesisBlock
    /\ hashPrevBlock[b] = best
    /\ ValidChain(b)
    /\ best' = b

(* Reorganize: the blocks down to the fork are disconnected and those up   *)
(* to b connected, in one commit.                                          *)
Reorganize(b) ==
    /\ b \notin Branch[best]
    /\ ValidChain(b)
    /\ best' = b

ChainInit == best = hashGenesisBlock

ChainSpec == ChainInit /\ [][\E b \in Block : Extend(b) \/ Reorganize(b)]_best
=============================================================================
