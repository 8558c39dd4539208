------------------------------- MODULE MCMiner -------------------------------
(***************************************************************************)
(* Miner on a small tree of blocks.                                        *)
(*                                                                         *)
(*   g --- r1 --- r2 --- a3                                                *)
(*                 | \                                                     *)
(*                 |   b3 --- b4                                           *)
(*                 s3                                                      *)
(*                                                                         *)
(* f, in r2, has three outputs.  t1 (in a3) and the loose t2 spend the     *)
(* first, u1 the second, the coinstake k1 of s3 the third.  v spends t1    *)
(* and u1, y spends t2 and u1, w (in b4) the coinbase of r2, which has     *)
(* matured on the children of r2.  u1, v and y are later than the others.  *)
(***************************************************************************)
EXTENDS Miner

MCPrev ==
    "r1" :> "g" @@ "r2" :> "r1" @@ "a3" :> "r2" @@ "b3" :> "r2" @@ "b4" :> "b3" @@ "s3" :> "r2"

MCBlock == {"g"} \cup DOMAIN MCPrev

MCBranch[b \in Block] ==
    IF b = hashGenesisBlock THEN {b} ELSE MCBranch[MCPrev[b]] \cup {b}

MCTrust == [b \in Block |-> 1]

MCVtx ==
    "g" :> <<"c0">> @@ "r1" :> <<"c1">> @@ "r2" :> <<"c2", "f">> @@
    "a3" :> <<"c3", "t1">> @@ "b3" :> <<"c4">> @@ "b4" :> <<"c5", "w">> @@
    "s3" :> <<"c6", "k1", "t1">>

LooseVin ==
    "f"  :> {<<"c1", 1>>} @@ "t1" :> {<<"f", 1>>} @@ "t2" :> {<<"f", 1>>} @@
    "u1" :> {<<"f", 2>>} @@ "k1" :> {<<"f", 3>>} @@
    "v"  :> {<<"t1", 1>>, <<"u1", 1>>} @@ "y" :> {<<"t2", 1>>, <<"u1", 1>>} @@ "w" :> {<<"c2", 1>>}

MCTx == {"c0", "c1", "c2", "c3", "c4", "c5", "c6"} \cup DOMAIN LooseVin

MCVin == [t \in Tx |-> (LooseVin @@ [u \in MCTx |-> {}])[t]]

MCVout == [t \in Tx |-> IF t = "f" THEN 3 ELSE 1]

MCKernel == [t \in Tx |-> IF t = "k1" THEN "k" ELSE NoKernel]

MCCoinbaseHeight == [t \in Tx |-> 0]

MCTime == [t \in Tx |-> IF t \in {"u1", "v", "y"} THEN 2 ELSE 1]

(* OwnBlockConnects without its exception: whatever the test of CheckWork  *)
(* and CheckStake lets through connects.                                   *)
EveryOwnBlockConnects == work.pc = "found" /\ ~Stale => WorkConnects
=============================================================================
