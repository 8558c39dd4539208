------------------------------- MODULE MCStake -------------------------------
(***************************************************************************)
(* BlockChain on a tree with proof-of-stake blocks and with blocks that    *)
(* one of the node's checks refuses.                                       *)
(*                                                                         *)
(*   g --- p1 --- o2 --- o3        o2, o1 and o4 repeat one stake, o3 has  *)
(*     \      \-- z2   \-- w3      another.  z2 and h2 are misplaced, w3   *)
(*      \      \- h2               is proof-of-work above LAST_POW_BLOCK,  *)
(*       q1 --- o1                 e1 proof-of-stake below the switch, l1  *)
(*     \    \-- o4                 has too little work, m1 is malformed.   *)
(*      l1, e1, m1                                                         *)
(***************************************************************************)
EXTENDS BlockChain, TLC

AllPrev ==
    "p1" :> "g"  @@ "o2" :> "p1" @@ "o3" :> "o2" @@
    "q1" :> "g"  @@ "o1" :> "q1" @@ "o4" :> "q1" @@
    "z2" :> "p1" @@ "h2" :> "p1" @@ "w3" :> "o2" @@
    "l1" :> "g"  @@ "e1" :> "g" @@ "m1" :> "g"

MCBlock == {"g"} \cup DOMAIN AllPrev

(* The blocks around the repeated stake only. *)
StakeBlock == {"g", "p1", "o2", "o3", "q1", "o1", "o4"}

MCPrev == [b \in Block \ {"g"} |-> AllPrev[b]]

MCBranch[b \in Block] ==
    IF b = hashGenesisBlock THEN {b} ELSE MCBranch[MCPrev[b]] \cup {b}

MCTrust == [b \in Block |-> 1]

AllVtx ==
    "g"  :> <<"c0">> @@
    "p1" :> <<"c1">> @@ "o2" :> <<"c2", "s1">> @@ "o3" :> <<"c3", "s2">> @@
    "q1" :> <<"c1">> @@ "o1" :> <<"c2", "s1">> @@ "o4" :> <<"c2b", "s1">> @@
    "z2" :> <<"c2">> @@ "h2" :> <<"c3">> @@ "w3" :> <<"c3">> @@
    "l1" :> <<"c1">> @@ "e1" :> <<"c1", "s3">> @@ "m1" :> <<>>

MCVtx == [b \in Block |-> AllVtx[b]]

MCCoinbaseHeight ==
    "c0" :> 0 @@ "c1" :> 1 @@ "c2" :> 2 @@ "c2b" :> 2 @@ "c3" :> 3 @@
    "s1" :> -1 @@ "s2" :> -1 @@ "s3" :> -1

MCTx == DOMAIN MCCoinbaseHeight

MCVin ==
    "s1" :> {<<"c1", 1>>} @@ "s2" :> {<<"s1", 1>>} @@ "s3" :> {<<"c0", 1>>} @@
    [t \in MCTx |-> {}]

MCVout == [t \in MCTx |-> 1]

MCKernel == "s1" :> "k1" @@ "s2" :> "k2" @@ "s3" :> "k3" @@ [t \in MCTx |-> NoKernel]
=============================================================================
