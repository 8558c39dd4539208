------------------------------ MODULE MCMemPool ------------------------------
(***************************************************************************)
(* MemPool on a small tree of blocks.                                      *)
(*                                                                         *)
(*   g --- r1 --- r2 --- a3 --- a4                                         *)
(*                  \                                                      *)
(*                    b3 --- b4                                            *)
(*                                                                         *)
(* f, in r2, has three outputs.  t1 (in a3) and the loose t2 spend the     *)
(* first; w spends t2.  u1 (in a3 and in b4) spends the second, u2 (in a4) *)
(* spends u1, and the loose u3 spends u2 and the third, which n1, a        *)
(* transaction that only a block may hold, spends in b3.  q spends u1 with *)
(* a wrong signature, s a coinbase that has matured when a3 or b3 is the   *)
(* best block, z an output that does not exist.  d spends t1.              *)
(***************************************************************************)
EXTENDS MemPool, TLC

AllPrev ==
    "r1" :> "g" @@ "r2" :> "r1" @@ "a3" :> "r2" @@ "a4" :> "a3" @@
    "b3" :> "r2" @@ "b4" :> "b3"

MCBlock == {"g"} \cup DOMAIN AllPrev

MCPrev == [b \in Block \ {"g"} |-> AllPrev[b]]

MCBranch[b \in Block] ==
    IF b = hashGenesisBlock THEN {b} ELSE MCBranch[MCPrev[b]] \cup {b}

MCTrust == [b \in Block |-> 1]

AllVtx ==
    "g" :> <<"c0">> @@ "r1" :> <<"c1">> @@ "r2" :> <<"c2", "f">> @@
    "a3" :> <<"c3", "t1", "u1">> @@ "a4" :> <<"c4", "u2">> @@
    "b3" :> <<"c6", "n1">> @@ "b4" :> <<"c7", "u1">>

MCVtx == [b \in Block |-> AllVtx[b]]

LooseVin ==
    "f"  :> {<<"c1", 1>>} @@
    "t1" :> {<<"f", 1>>} @@ "t2" :> {<<"f", 1>>} @@ "w" :> {<<"t2", 1>>} @@
    "u1" :> {<<"f", 2>>} @@ "u2" :> {<<"u1", 1>>} @@ "u3" :> {<<"u2", 1>>, <<"f", 3>>} @@
    "n1" :> {<<"f", 3>>} @@ "s" :> {<<"c2", 1>>} @@ "z" :> {<<"f", 9>>} @@
    "q"  :> {<<"u1", 1>>} @@ "d" :> {<<"t1", 1>>}

MCTx == {"c0", "c1", "c2", "c3", "c4", "c6", "c7"} \cup DOMAIN LooseVin

TxWithoutD == MCTx \ {"d"}

MCVin == [t \in Tx |-> (LooseVin @@ [u \in MCTx |-> {}])[t]]

MCVout == [t \in Tx |-> IF t = "f" THEN 3 ELSE 1]

MCKernel == [t \in Tx |-> NoKernel]

MCCoinbaseHeight == [t \in Tx |-> 0]
=============================================================================
