----------------------------- MODULE MCBlockChain -----------------------------
(***************************************************************************)
(* BlockChain on a small tree of blocks.                                   *)
(*                                                                         *)
(*   g --- r1 --- a2 --- a3                                                *)
(*           \                                                             *)
(*             b2 --- b3 --- b4                                            *)
(*                      \                                                  *)
(*                        x4 --- y5                                        *)
(*                                                                         *)
(* The coinbase of r1, below the fork, is spent by t1 in a2 and by t2 in   *)
(* b3, so x4, which holds t1 again, cannot be connected on top of b3.  The *)
(* two branches begin with the same coinbase c2, which t0 spends in a3.    *)
(* b4 spends t2 and, within the block, its own transaction t3.             *)
(***************************************************************************)
EXTENDS BlockChain, TLC

AllPrev ==
    "r1" :> "g"  @@
    "a2" :> "r1" @@ "a3" :> "a2" @@
    "b2" :> "r1" @@ "b3" :> "b2" @@ "b4" :> "b3" @@
    "x4" :> "b3" @@ "y5" :> "x4"

MCPrev == [b \in Block \ {"g"} |-> AllPrev[b]]

MCBranch[b \in Block] ==
    IF b = hashGenesisBlock THEN {b} ELSE MCBranch[MCPrev[b]] \cup {b}

MCBlock == {"g"} \cup DOMAIN AllPrev

ValidBlock == MCBlock \ {"x4", "y5"}

MCTrust == [b \in Block |-> CASE b \in {"a3", "b2"} -> 2 [] b \in {"b4", "x4"} -> 3 [] OTHER -> 1]

AllVtx ==
    "g"  :> <<"c0">> @@ "r1" :> <<"c1">> @@
    "a2" :> <<"c2", "t1">> @@ "a3" :> <<"c3a", "t0">> @@
    "b2" :> <<"c2">> @@ "b3" :> <<"c3", "t2">> @@ "b4" :> <<"c4", "t3", "t4">> @@
    "x4" :> <<"c4x", "t1">> @@ "y5" :> <<"c5">>

MCVtx == [b \in Block |-> AllVtx[b]]

MCCoinbaseHeight ==
    "c0" :> 0 @@ "c1" :> 1 @@ "c2" :> 2 @@ "c3a" :> 3 @@ "c3" :> 3 @@ "c4" :> 4 @@ "c4x" :> 4 @@
    "c5" :> 5 @@ "t0" :> -1 @@ "t1" :> -1 @@ "t2" :> -1 @@ "t3" :> -1 @@ "t4" :> -1

MCTx == DOMAIN MCCoinbaseHeight

MCVin ==
    "t0" :> {<<"c2", 1>>} @@ "t1" :> {<<"c1", 1>>} @@ "t2" :> {<<"c1", 1>>} @@
    "t3" :> {<<"t2", 1>>} @@ "t4" :> {<<"t3", 1>>} @@
    [t \in MCTx |-> {}]

MCVout == [t \in MCTx |-> 1]

MCKernel == [t \in MCTx |-> NoKernel]
=============================================================================
