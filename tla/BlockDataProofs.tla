--------------------------- MODULE BlockDataProofs ---------------------------
(***************************************************************************)
(* Lemmas about the tree of blocks and the transactions of its chains, and *)
(* what connecting and disconnecting a block does to the index of          *)
(* transactions, for every tree of blocks and every set of transactions.   *)
(***************************************************************************)
EXTENDS BlockData, FiniteSetTheorems, WellFoundedInduction, NaturalsInduction, TLAPS

-----------------------------------------------------------------------------
(* The block tree. *)

(* Every block is on its own branch, and its parent is too. *)
LEMMA BranchFacts ==
    ASSUME NEW b \in Block
    PROVE  /\ b \in Branch[b]
           /\ Branch[b] \subseteq Block
           /\ b # hashGenesisBlock => hashPrevBlock[b] \in Branch[b] /\ hashPrevBlock[b] \in Block
  <1>1. CASE b = hashGenesisBlock
    BY <1>1, TreeAssumption
  <1>2. CASE b # hashGenesisBlock
    <2>1. hashPrevBlock[b] \in Block /\ Branch[b] = Branch[hashPrevBlock[b]] \cup {b}
      BY <1>2, TreeAssumption
    <2>2. hashPrevBlock[b] \in Branch[hashPrevBlock[b]]
      <3>1. CASE hashPrevBlock[b] = hashGenesisBlock
        BY <3>1, TreeAssumption
      <3>2. CASE hashPrevBlock[b] # hashGenesisBlock
        <4> DEFINE p == hashPrevBlock[b]
        <4>1. p \in Block \ {hashGenesisBlock}
          BY <2>1, <3>2
        <4>2. Branch[p] = Branch[hashPrevBlock[p]] \cup {p}
          BY <4>1, TreeAssumption
        <4>3. QED
          BY <4>2
      <3>3. QED
        BY <3>1, <3>2
    <2>3. Branch[b] \subseteq Block
      BY TreeAssumption
    <2>4. QED
      BY <2>1, <2>2, <2>3
  <1>3. QED
    BY <1>1, <1>2

(* The child that leads from a proper ancestor a to b is a block of b's branch. *)
LEMMA TowardsFacts ==
    ASSUME NEW b \in Block, NEW a \in Branch[b], a # b
    PROVE  /\ Towards(a, b) \in Branch[b] \ {hashGenesisBlock}
           /\ hashPrevBlock[Towards(a, b)] = a
  <1>1. \E c \in Branch[b] \ {hashGenesisBlock} : hashPrevBlock[c] = a
    BY TreeAssumption
  <1>2. QED
    BY <1>1 DEF Towards

(* Branches are finite, so heights are natural numbers bounded by the      *)
(* number of blocks.                                                       *)
LEMMA HeightFacts ==
    \A b \in Block : nHeight[b] \in Nat /\ nHeight[b] <= Cardinality(Block)
  <1> SUFFICES ASSUME NEW b \in Block
               PROVE  nHeight[b] \in Nat /\ nHeight[b] <= Cardinality(Block)
    OBVIOUS
  <1>1. IsFiniteSet(Block) /\ Branch[b] \subseteq Block /\ b \in Branch[b]
    BY TreeAssumption, BranchFacts
  <1>2. /\ IsFiniteSet(Branch[b])
        /\ Cardinality(Branch[b]) <= Cardinality(Block)
    BY <1>1, FS_Subset
  <1>3. Cardinality(Branch[b]) \in Nat /\ Cardinality(Block) \in Nat
    BY <1>1, <1>2, FS_CardinalityType
  <1>4. Cardinality(Branch[b]) # 0
    BY <1>1, <1>2, FS_EmptySet
  <1>5. QED
    BY <1>2, <1>3, <1>4 DEF nHeight

(* The genesis block is the only one of height 0. *)
LEMMA GenesisHeight == nHeight[hashGenesisBlock] = 0
  <1>1. Branch[hashGenesisBlock] = {hashGenesisBlock} /\ hashGenesisBlock \in Block
    BY TreeAssumption
  <1>2. Cardinality({hashGenesisBlock}) = 1
    BY FS_Singleton
  <1>3. QED
    BY <1>1, <1>2 DEF nHeight

(* A nonempty set of blocks has a highest one. *)
LEMMA HighestBlock ==
    ASSUME NEW S \in SUBSET Block, S # {}
    PROVE  \E c \in S : \A e \in S : nHeight[e] <= nHeight[c]
  <1> DEFINE N == Cardinality(Block)
             T == {N - nHeight[c] : c \in S}
  <1>1. N \in Nat
    BY TreeAssumption, FS_CardinalityType
  <1>2. \A c \in S : nHeight[c] \in Nat /\ nHeight[c] <= N
    BY HeightFacts
  <1>3. T \subseteq Nat /\ T # {}
    BY <1>1, <1>2
  <1>4. PICK x \in T : \A y \in T : ~ (<<y, x>> \in OpToRel(<, Nat))
    BY <1>3, NatLessThanWellFounded, WFMin
  <1>5. \A y \in T : ~ (y < x)
    BY <1>3, <1>4 DEF OpToRel
  <1>6. PICK c \in S : x = N - nHeight[c]
    BY <1>4
  <1>7. \A e \in S : nHeight[e] <= nHeight[c]
    <2> TAKE e \in S
    <2>1. N - nHeight[e] \in T
      OBVIOUS
    <2>2. ~ (N - nHeight[e] < N - nHeight[c])
      BY <2>1, <1>5, <1>6
    <2>3. QED
      BY <2>2, <1>1, <1>2
  <1>8. QED
    BY <1>7

-----------------------------------------------------------------------------
(* The transactions of a chain. *)

(* The transactions of a chain are those of its blocks. *)
LEMMA ChainTxsFacts ==
    ASSUME NEW b \in Block
    PROVE  /\ \A t : t \in ChainTxs(b) <=> \E c \in Branch[b] \ {hashGenesisBlock} : t \in TxsOf(c)
           /\ ChainTxs(b) \subseteq Tx
           /\ Branch[b] \subseteq Block
  <1>1. \A t : t \in ChainTxs(b) <=> \E c \in Branch[b] \ {hashGenesisBlock} : t \in TxsOf(c)
    BY DEF ChainTxs
  <1>2. Branch[b] \subseteq Block
    BY TreeAssumption
  <1>3. \A c \in Block : TxsOf(c) \subseteq Tx
    BY TxAssumption DEF TxsOf
  <1> QED
    BY <1>1, <1>2, <1>3

(* A child adds its transactions to those of the chain. *)
LEMMA ChildTxs ==
    ASSUME NEW b \in Block, b # hashGenesisBlock
    PROVE  ChainTxs(b) = ChainTxs(hashPrevBlock[b]) \cup TxsOf(b)
  <1>1. hashPrevBlock[b] \in Block /\ Branch[b] = Branch[hashPrevBlock[b]] \cup {b}
    BY TreeAssumption
  <1> QED
    BY <1>1, ChainTxsFacts

(* The genesis block alone is a valid chain. *)
LEMMA GenesisValid == ValidChain(hashGenesisBlock)
  <1>1. Branch[hashGenesisBlock] \ {hashGenesisBlock} = {}
    BY TreeAssumption
  <1> QED
    BY <1>1 DEF ValidChain

(* In a valid chain a transaction is in one block, two transactions spend  *)
(* no common output, and what a transaction spends is in the chain.        *)
LEMMA ValidChainTxs ==
    ASSUME NEW b \in Block, ValidChain(b)
    PROVE  /\ \A c, e \in Branch[b] \ {hashGenesisBlock} : TxsOf(c) \cap TxsOf(e) # {} => c = e
           /\ \A t, u \in ChainTxs(b) : vin[t] \cap vin[u] # {} => t = u
           /\ \A t \in ChainTxs(b) : \A o \in vin[t] : o[1] \in ChainTxs(b)
  <1> DEFINE chain == Branch[b] \ {hashGenesisBlock}
  <1>1. \A c, e \in chain : TxsOf(c) \cap TxsOf(e) # {} => c = e
    BY DEF ValidChain
  <1>2. ASSUME NEW t \in ChainTxs(b), NEW u \in ChainTxs(b), vin[t] \cap vin[u] # {}
        PROVE  t = u
    <2>1. PICK c \in chain : t \in TxsOf(c)
      BY ChainTxsFacts
    <2>2. PICK k \in 1..Len(vtx[c]) : t = vtx[c][k]
      BY <2>1 DEF TxsOf
    <2>3. PICK e \in chain : u \in TxsOf(e)
      BY ChainTxsFacts
    <2>4. PICK j \in 1..Len(vtx[e]) : u = vtx[e][j]
      BY <2>3 DEF TxsOf
    <2>5. vin[vtx[c][k]] \cap vin[vtx[e][j]] # {}
      BY <1>2, <2>2, <2>4
    <2>6. c = e /\ k = j
      BY <2>5 DEF ValidChain
    <2> QED
      BY <2>2, <2>4, <2>6
  <1>3. ASSUME NEW t \in ChainTxs(b), NEW o \in vin[t]
        PROVE  o[1] \in ChainTxs(b)
    <2>1. PICK c \in chain : t \in TxsOf(c)
      BY ChainTxsFacts
    <2>2. PICK k \in 1..Len(vtx[c]) : t = vtx[c][k]
      BY <2>1 DEF TxsOf
    <2>3. Created(c, k, o)
      BY <1>3, <2>2 DEF ValidChain
    <2>4. PICK e \in Branch[c] \ {hashGenesisBlock} : \E j \in 1..Len(vtx[e]) : vtx[e][j] = o[1]
      BY <2>3 DEF Created
    <2>5. e \in chain
      BY <2>4, TreeAssumption
    <2>6. o[1] \in TxsOf(e)
      BY <2>4 DEF TxsOf
    <2> QED
      BY <2>5, <2>6, ChainTxsFacts
  <1> QED
    BY <1>1, <1>2, <1>3

(* A block is one higher than its parent, and its ancestors are not        *)
(* higher.                                                                 *)
LEMMA HeightStep ==
    ASSUME NEW b \in Block \ {hashGenesisBlock}
    PROVE  nHeight[b] = nHeight[hashPrevBlock[b]] + 1
  <1> DEFINE p == hashPrevBlock[b]
  <1>1. p \in Block /\ Branch[b] = Branch[p] \cup {b} /\ b \notin Branch[p] /\ Branch[p] \subseteq Block
    BY TreeAssumption
  <1>2. IsFiniteSet(Branch[p])
    BY <1>1, TreeAssumption, FS_Subset
  <1>3. Cardinality(Branch[b]) = Cardinality(Branch[p]) + 1 /\ Cardinality(Branch[p]) \in Nat
    BY <1>1, <1>2, FS_AddElement, FS_CardinalityType
  <1>4. nHeight[b] = Cardinality(Branch[b]) - 1 /\ nHeight[p] = Cardinality(Branch[p]) - 1
    BY <1>1 DEF nHeight
  <1> QED
    BY <1>3, <1>4

LEMMA HeightMonotone ==
    ASSUME NEW b \in Block, NEW c \in Branch[b]
    PROVE  nHeight[c] <= nHeight[b]
  <1>1. c \in Block /\ Branch[c] \subseteq Branch[b] /\ Branch[b] \subseteq Block
    BY TreeAssumption
  <1>2. IsFiniteSet(Branch[b]) /\ IsFiniteSet(Branch[c])
    BY <1>1, TreeAssumption, FS_Subset
  <1>3. Cardinality(Branch[c]) <= Cardinality(Branch[b])
    BY <1>1, <1>2, FS_Subset
  <1>4. Cardinality(Branch[b]) \in Nat /\ Cardinality(Branch[c]) \in Nat
    BY <1>2, FS_CardinalityType
  <1> QED
    BY <1>1, <1>3, <1>4 DEF nHeight

(* The parent of a valid chain's last block ends a valid chain. *)
LEMMA ValidParent ==
    ASSUME NEW b \in Block \ {hashGenesisBlock}, ValidChain(b)
    PROVE  ValidChain(hashPrevBlock[b])
  <1>1. Branch[hashPrevBlock[b]] \subseteq Branch[b]
    BY TreeAssumption
  <1> QED
    BY <1>1 DEF ValidChain
-----------------------------------------------------------------------------
(* The index of the transactions of a valid chain. *)

LEMMA ChainPosFacts ==
    ASSUME NEW b \in Block, ValidChain(b)
    PROVE  /\ ChainPos(b) = [t \in Tx |-> ChainPos(b)[t]]
           /\ \A t \in Tx : t \notin ChainTxs(b) => ChainPos(b)[t] = NoBlock
           /\ \A c \in Branch[b] \ {hashGenesisBlock}, t \in Tx :
                 t \in TxsOf(c) => ChainPos(b)[t] = c
  <1>1. /\ ChainPos(b) = [t \in Tx |-> ChainPos(b)[t]]
        /\ \A t \in Tx : t \notin ChainTxs(b) => ChainPos(b)[t] = NoBlock
    BY DEF ChainPos
  <1>2. ASSUME NEW c \in Branch[b] \ {hashGenesisBlock}, NEW t \in Tx, t \in TxsOf(c)
        PROVE  ChainPos(b)[t] = c
    <2>1. t \in ChainTxs(b)
      BY <1>2, ChainTxsFacts
    <2>2. \A e \in Branch[b] \ {hashGenesisBlock} : t \in TxsOf(e) => e = c
      BY <1>2, ValidChainTxs
    <2>3. ChainPos(b)[t] = CHOOSE e \in Branch[b] \ {hashGenesisBlock} : t \in TxsOf(e)
      BY <2>1 DEF ChainPos
    <2> QED
      BY <1>2, <2>2, <2>3
  <1> QED
    BY <1>1, <1>2

LEMMA ChainSpentFacts ==
    ASSUME NEW b \in Block, ValidChain(b)
    PROVE  /\ ChainSpent(b) = [o \in OutPoint |-> ChainSpent(b)[o]]
           /\ \A o \in OutPoint : (\A t \in ChainTxs(b) : o \notin vin[t]) => ChainSpent(b)[o] = NoTx
           /\ \A t \in ChainTxs(b), o \in OutPoint : o \in vin[t] => ChainSpent(b)[o] = t /\ t # NoTx
  <1>1. ChainSpent(b) = [o \in OutPoint |-> ChainSpent(b)[o]]
    BY DEF ChainSpent
  <1>2. \A o \in OutPoint : (\A t \in ChainTxs(b) : o \notin vin[t]) => ChainSpent(b)[o] = NoTx
    BY DEF ChainSpent, SpendersIn
  <1>3. ASSUME NEW t \in ChainTxs(b), NEW o \in OutPoint, o \in vin[t]
        PROVE  ChainSpent(b)[o] = t /\ t # NoTx
    <2>1. t \in SpendersIn(ChainTxs(b), o)
      BY <1>3 DEF SpendersIn
    <2>2. \A u \in SpendersIn(ChainTxs(b), o) : u = t
      BY <1>3, ValidChainTxs DEF SpendersIn
    <2>3. ChainSpent(b)[o] = CHOOSE u \in SpendersIn(ChainTxs(b), o) : TRUE
      BY <2>1 DEF ChainSpent
    <2>4. t # NoTx
      BY ChainTxsFacts, TxAssumption
    <2> QED
      BY <2>1, <2>2, <2>3, <2>4
  <1> QED
    BY <1>1, <1>2, <1>3

(* The index d is that of the chain that ends in b, and the chain is valid. *)
Matches(d, b) ==
    /\ d.pos = ChainPos(b)
    /\ d.spent = ChainSpent(b)
    /\ ValidChain(b)

(* AcceptBlock has compared the height in the coinbase with that of the    *)
(* block.                                                                  *)
HeightInCoinbase(b) ==
    \A c \in Branch[b] \ {hashGenesisBlock} : CoinbaseHeight[vtx[c][1]] = nHeight[hashPrevBlock[c]] + 1

(* No transaction of a block that connects is in the chain already: its    *)
(* coinbase has another height, and what any other spends would be spent,  *)
(* or be a repeated transaction itself.                                    *)
LEMMA NothingRepeated ==
    ASSUME NEW b \in Block \ {hashGenesisBlock}, NEW d, Matches(d, hashPrevBlock[b]),
           ConnectBlockOK(d, b), HeightInCoinbase(b)
    PROVE  TxsOf(b) \cap ChainTxs(hashPrevBlock[b]) = {}
  <1> DEFINE p == hashPrevBlock[b]
             R == {i \in 1..Len(vtx[b]) : vtx[b][i] \in ChainTxs(p)}
  <1>1. /\ p \in Block /\ Branch[b] = Branch[p] \cup {b} /\ Branch[p] \subseteq Block /\ b \in Block
        /\ p \in Branch[p]
    BY TreeAssumption, BranchFacts
  <1>2. b \notin Malformed /\ ValidChain(p) /\ d.spent = ChainSpent(p)
    BY DEF ConnectBlockOK, CheckBlock, Matches
  <1>3. vtx[b] \in Seq(Tx) /\ Len(vtx[b]) \in Nat /\ R \subseteq Nat
    BY <1>1, TxAssumption
  <1>4. SUFFICES ASSUME R # {} PROVE FALSE
    BY DEF TxsOf
  <1>5. PICK i \in R : \A j \in R : ~ (<<j, i>> \in OpToRel(<, Nat))
    BY <1>3, <1>4, NatLessThanWellFounded, WFMin
  <1>6. \A j \in R : ~ (j < i)
    BY <1>3, <1>5 DEF OpToRel
  <1>7. i \in 1..Len(vtx[b]) /\ vtx[b][i] \in ChainTxs(p)
    BY <1>5
  <1>8. PICK c \in Branch[p] \ {hashGenesisBlock} : vtx[b][i] \in TxsOf(c)
    BY <1>1, <1>7, ChainTxsFacts
  <1>9. PICK k \in 1..Len(vtx[c]) : vtx[b][i] = vtx[c][k]
    BY <1>8 DEF TxsOf
  <1>10. CASE i = 1
    <2>1. vin[vtx[b][i]] = {}
      BY <1>2, <1>7, <1>10, WellFormedAssumption
    <2>2. c \in Block /\ c \notin Malformed
      BY <1>1, <1>2, <1>8 DEF ValidChain
    <2>3. k = 1
      BY <1>9, <2>1, <2>2, WellFormedAssumption
    <2>4. nHeight[hashPrevBlock[c]] + 1 = nHeight[p] + 1
      BY <1>1, <1>8, <1>9, <1>10, <2>3 DEF HeightInCoinbase
    <2>5. nHeight[c] <= nHeight[p]
      BY <1>1, <1>8, HeightMonotone
    <2>6. nHeight[c] = nHeight[hashPrevBlock[c]] + 1 /\ hashPrevBlock[c] \in Block
      BY <1>8, <2>2, HeightStep, BranchFacts
    <2>7. nHeight[c] \in Nat /\ nHeight[p] \in Nat /\ nHeight[hashPrevBlock[c]] \in Nat
      BY <1>1, <2>2, <2>6, HeightFacts
    <2> QED
      BY <2>4, <2>5, <2>6, <2>7
  <1>11. CASE i # 1
    <2>1. vin[vtx[b][i]] # {}
      BY <1>1, <1>2, <1>7, <1>11, WellFormedAssumption
    <2>2. PICK o \in vin[vtx[b][i]] : TRUE
      BY <2>1
    <2>3. ConnectInput(d, b, i, o)
      BY <1>7, <2>2 DEF ConnectBlockOK
    <2>4. o \in OutPoint /\ (o[1] \notin {vtx[b][j] : j \in 1..(i-1)} => d.spent[o] = NoTx)
      BY <2>3 DEF ConnectInput
    <2>5. d.spent[o] # NoTx
      BY <1>1, <1>2, <1>7, <2>2, <2>4, ChainSpentFacts
    <2>6. PICK j \in 1..(i-1) : o[1] = vtx[b][j]
      BY <2>4, <2>5
    <2>7. o[1] \in ChainTxs(p)
      BY <1>1, <1>2, <1>7, <2>2, ValidChainTxs
    <2>8. j \in R /\ j < i
      BY <1>3, <1>7, <2>6, <2>7
    <2> QED
      BY <1>6, <2>8
  <1> QED
    BY <1>10, <1>11

(* What a block that connects spends was made in the chain or in the block *)
(* before it, and nothing in the chain has spent it.                       *)
LEMMA InputUnspent ==
    ASSUME NEW b \in Block \ {hashGenesisBlock}, NEW d, Matches(d, hashPrevBlock[b]),
           ConnectBlockOK(d, b), HeightInCoinbase(b),
           NEW i \in 1..Len(vtx[b]), NEW o \in vin[vtx[b][i]]
    PROVE  /\ o \in OutPoint
           /\ Created(b, i, o)
           /\ \A t \in ChainTxs(hashPrevBlock[b]) : o \notin vin[t]
           /\ \A j \in 1..(i-1) : o \notin vin[vtx[b][j]]
  <1> DEFINE p == hashPrevBlock[b]
             earlier == {vtx[b][j] : j \in 1..(i-1)}
             pos == FetchInput(d, b, i, o)
  <1>1. /\ p \in Block /\ Branch[b] = Branch[p] \cup {b} /\ b \in Block /\ b # hashGenesisBlock
        /\ b \in Branch[b]
    BY TreeAssumption, BranchFacts
  <1>2. ValidChain(p) /\ d.spent = ChainSpent(p) /\ d.pos = ChainPos(p)
    BY DEF Matches
  <1>3. /\ pos # NoBlock /\ o \in OutPoint
        /\ (IsCoinBase(o[1]) \/ IsCoinStake(o[1])) =>
              ~ (pos \in Branch[b] /\ nHeight[b] - nHeight[pos] < nCoinbaseMaturity)
        /\ \A t \in earlier : o \notin vin[t]
        /\ o[1] \notin earlier => d.spent[o] = NoTx
    BY DEF ConnectBlockOK, ConnectInput
  <1>4. \A t \in ChainTxs(p) : o \notin vin[t]
    <2>1. CASE o[1] \in earlier
      <3>1. Len(vtx[b]) \in Nat
        BY <1>1, TxAssumption
      <3>2. o[1] \in TxsOf(b)
        BY <2>1, <3>1 DEF TxsOf
      <3>3. o[1] \notin ChainTxs(p)
        BY <3>2, NothingRepeated
      <3> QED
        BY <1>1, <1>2, <3>3, ValidChainTxs
    <2>2. CASE o[1] \notin earlier
      BY <1>1, <1>2, <1>3, <2>2, ChainSpentFacts
    <2> QED
      BY <2>1, <2>2
  <1>5. PICK e \in Branch[b] \ {hashGenesisBlock} :
           /\ pos = e
           /\ \E j \in 1..Len(vtx[e]) : vtx[e][j] = o[1] /\ (e = b => j < i)
    <2>1. CASE o[1] \in earlier
      <3>1. pos = b
        BY <2>1 DEF FetchInput
      <3>2. PICK j \in 1..(i-1) : vtx[b][j] = o[1]
        BY <2>1
      <3>3. j \in 1..Len(vtx[b]) /\ j < i
        BY <1>1, TxAssumption
      <3> QED
        BY <1>1, <3>1, <3>2, <3>3
    <2>2. CASE o[1] \notin earlier
      <3>1. pos = ChainPos(p)[o[1]]
        BY <1>2, <2>2 DEF FetchInput
      <3>2. o[1] \in Tx
        BY <1>3 DEF OutPoint
      <3>3. o[1] \in ChainTxs(p)
        BY <1>1, <1>2, <1>3, <3>1, <3>2, ChainPosFacts
      <3>4. PICK e \in Branch[p] \ {hashGenesisBlock} : o[1] \in TxsOf(e)
        BY <1>1, <3>3, ChainTxsFacts
      <3>5. pos = e
        BY <1>1, <1>2, <3>1, <3>2, <3>4, ChainPosFacts
      <3>6. e # b
        BY <1>1, <3>4, TreeAssumption
      <3>7. PICK j \in 1..Len(vtx[e]) : vtx[e][j] = o[1]
        BY <3>4 DEF TxsOf
      <3> QED
        BY <1>1, <3>4, <3>5, <3>6, <3>7
    <2> QED
      BY <2>1, <2>2
  <1>6. nHeight[b] \in Nat /\ nHeight[e] \in Nat /\ nCoinbaseMaturity \in Nat
    BY <1>1, <1>5, BranchFacts, HeightFacts, ParameterAssumption
  <1>7. Created(b, i, o)
    <2>1. (IsCoinBase(o[1]) \/ IsCoinStake(o[1])) => nHeight[b] - nHeight[e] >= nCoinbaseMaturity
      BY <1>3, <1>5, <1>6
    <2> QED
      BY <1>5, <2>1 DEF Created
  <1> QED
    BY <1>3, <1>4, <1>7

(* A block that connects to a valid chain makes a valid chain. *)
LEMMA ConnectValid ==
    ASSUME NEW b \in Block \ {hashGenesisBlock}, NEW d, Matches(d, hashPrevBlock[b]),
           ConnectBlockOK(d, b), HeightInCoinbase(b)
    PROVE  ValidChain(b)
  <1> DEFINE p == hashPrevBlock[b]
             old == Branch[p] \ {hashGenesisBlock}
             chain == Branch[b] \ {hashGenesisBlock}
  <1>1. /\ p \in Block /\ Branch[b] = Branch[p] \cup {b} /\ b \notin Branch[p] /\ Branch[p] \subseteq Block
        /\ chain = old \cup {b}
    BY TreeAssumption
  <1>2. ValidChain(p) /\ b \notin Malformed \cup Unconnectable
    BY DEF Matches, ConnectBlockOK, CheckBlock
  <1>3. chain \cap (Malformed \cup Unconnectable) = {}
    BY <1>1, <1>2 DEF ValidChain
  <1>4. ASSUME NEW c \in chain, NEW i \in 1..Len(vtx[c]), NEW o \in vin[vtx[c][i]]
        PROVE  o \in OutPoint /\ Created(c, i, o)
    <2>1. CASE c = b
      BY <1>4, <2>1, InputUnspent
    <2>2. CASE c \in old
      BY <1>2, <1>4, <2>2 DEF ValidChain
    <2> QED
      BY <1>1, <2>1, <2>2
  <1>5. ASSUME NEW c \in old, NEW i \in 1..Len(vtx[c]), NEW j \in 1..Len(vtx[b]),
               vin[vtx[c][i]] \cap vin[vtx[b][j]] # {}
        PROVE  FALSE
    <2>1. PICK o \in vin[vtx[b][j]] : o \in vin[vtx[c][i]]
      BY <1>5
    <2>2. vtx[c][i] \in ChainTxs(p)
      BY <1>1, ChainTxsFacts DEF TxsOf
    <2> QED
      BY <2>1, <2>2, InputUnspent
  <1>6. ASSUME NEW i \in 1..Len(vtx[b]), NEW j \in 1..Len(vtx[b]), i < j,
               vin[vtx[b][i]] \cap vin[vtx[b][j]] # {}
        PROVE  FALSE
    <2>1. PICK o \in vin[vtx[b][j]] : o \in vin[vtx[b][i]]
      BY <1>6
    <2>2. i \in 1..(j-1)
      BY <1>1, <1>6, TxAssumption
    <2> QED
      BY <2>1, <2>2, InputUnspent
  <1>7. ASSUME NEW c \in chain, NEW e \in chain, NEW i \in 1..Len(vtx[c]), NEW j \in 1..Len(vtx[e]),
               vin[vtx[c][i]] \cap vin[vtx[e][j]] # {}
        PROVE  c = e /\ i = j
    <2>1. CASE c \in old /\ e \in old
      BY <1>2, <1>7, <2>1 DEF ValidChain
    <2>2. CASE c = b /\ e = b
      <3>1. i \in Int /\ j \in Int
        OBVIOUS
      <3>2. ~(i < j)
        BY <1>6, <1>7, <2>2
      <3>3. vin[vtx[e][j]] \cap vin[vtx[c][i]] # {}
        BY <1>7
      <3>4. ~(j < i)
        BY <1>6, <2>2, <3>3
      <3> QED
        BY <2>2, <3>1, <3>2, <3>4
    <2>3. ~(c \in old /\ e = b)
      BY <1>5, <1>7
    <2>4. ~(c = b /\ e \in old)
      <3>1. vin[vtx[e][j]] \cap vin[vtx[c][i]] # {}
        BY <1>7
      <3> QED
        BY <1>5, <3>1
    <2> QED
      BY <1>1, <2>1, <2>2, <2>3, <2>4
  <1>8. ASSUME NEW c \in chain, NEW e \in chain, TxsOf(c) \cap TxsOf(e) # {}
        PROVE  c = e
    <2>1. \A f \in old : TxsOf(f) \cap TxsOf(b) = {}
      BY <1>1, NothingRepeated, ChainTxsFacts
    <2> QED
      BY <1>1, <1>2, <1>8, <2>1 DEF ValidChain
  <1> QED
    BY <1>3, <1>4, <1>7, <1>8 DEF ValidChain

(* The last block of a valid chain, and the rest of the chain: they share  *)
(* no transaction and spend no common output, and what the rest spends is  *)
(* not made by the last block.                                             *)
LEMMA LastBlock ==
    ASSUME NEW b \in Block \ {hashGenesisBlock}, ValidChain(b)
    PROVE  /\ TxsOf(b) \cap ChainTxs(hashPrevBlock[b]) = {}
           /\ \A t \in TxsOf(b), u \in ChainTxs(hashPrevBlock[b]) : vin[t] \cap vin[u] = {}
           /\ \A u \in ChainTxs(hashPrevBlock[b]) : \A o \in vin[u] : o[1] \notin TxsOf(b)
  <1> DEFINE p == hashPrevBlock[b]
  <1>1. /\ p \in Block /\ Branch[b] = Branch[p] \cup {b} /\ b \notin Branch[p] /\ b \in Block
        /\ b # hashGenesisBlock
    BY TreeAssumption
  <1>2. ValidChain(p) /\ ChainTxs(b) = ChainTxs(p) \cup TxsOf(b)
    BY <1>1, ValidParent, ChildTxs
  <1>3. TxsOf(b) \cap ChainTxs(p) = {}
    BY <1>1, ChainTxsFacts, ValidChainTxs
  <1>4. \A t \in TxsOf(b), u \in ChainTxs(p) : vin[t] \cap vin[u] = {}
    BY <1>1, <1>2, <1>3, ValidChainTxs
  <1>5. \A u \in ChainTxs(p) : \A o \in vin[u] : o[1] \notin TxsOf(b)
    BY <1>1, <1>2, <1>3, ValidChainTxs
  <1> QED
    BY <1>3, <1>4, <1>5

(* How the indexes of a chain and of its parent differ. *)
LEMMA IndexStep ==
    ASSUME NEW b \in Block \ {hashGenesisBlock}, ValidChain(b)
    PROVE  /\ \A t \in TxsOf(b) : ChainPos(b)[t] = b /\ ChainPos(hashPrevBlock[b])[t] = NoBlock
           /\ \A t \in Tx \ TxsOf(b) : ChainPos(b)[t] = ChainPos(hashPrevBlock[b])[t]
           /\ \A o \in OutPoint :
                 /\ \A t \in TxsOf(b) : o \in vin[t] =>
                        ChainSpent(b)[o] = t /\ ChainSpent(hashPrevBlock[b])[o] = NoTx
                 /\ o[1] \in TxsOf(b) => ChainSpent(hashPrevBlock[b])[o] = NoTx
                 /\ (\A t \in TxsOf(b) : o \notin vin[t]) =>
                        ChainSpent(b)[o] = ChainSpent(hashPrevBlock[b])[o]
  <1> DEFINE p == hashPrevBlock[b]
  <1>1. /\ p \in Block /\ Branch[b] = Branch[p] \cup {b} /\ b \in Block
        /\ b # hashGenesisBlock /\ b \in Branch[b] /\ TxsOf(b) \subseteq Tx
    BY TreeAssumption, BranchFacts, TxAssumption DEF TxsOf
  <1>2. ValidChain(p) /\ ChainTxs(b) = ChainTxs(p) \cup TxsOf(b)
    BY <1>1, ValidParent, ChildTxs
  <1>3. \A t \in TxsOf(b) : ChainPos(b)[t] = b
    BY <1>1, ChainPosFacts
  <1>4. \A t \in TxsOf(b) : ChainPos(p)[t] = NoBlock
    BY <1>1, <1>2, LastBlock, ChainPosFacts
  <1>5. ASSUME NEW t \in Tx \ TxsOf(b) PROVE ChainPos(b)[t] = ChainPos(p)[t]
    <2>1. CASE t \in ChainTxs(p)
      <3>1. PICK c \in Branch[p] \ {hashGenesisBlock} : t \in TxsOf(c)
        BY <1>1, <2>1, ChainTxsFacts
      <3>2. ChainPos(p)[t] = c
        BY <1>1, <1>2, <3>1, ChainPosFacts
      <3>3. ChainPos(b)[t] = c
        BY <1>1, <3>1, ChainPosFacts
      <3> QED
        BY <3>2, <3>3
    <2>2. CASE t \notin ChainTxs(p)
      <3>1. ChainPos(p)[t] = NoBlock
        BY <1>1, <1>2, <2>2, ChainPosFacts
      <3>2. ChainPos(b)[t] = NoBlock
        BY <1>1, <1>2, <1>5, <2>2, ChainPosFacts
      <3> QED
        BY <3>1, <3>2
    <2> QED
      BY <2>1, <2>2
  <1>6. ASSUME NEW o \in OutPoint, NEW t \in TxsOf(b), o \in vin[t]
        PROVE  ChainSpent(b)[o] = t /\ ChainSpent(p)[o] = NoTx
    <2>1. ChainSpent(b)[o] = t
      BY <1>1, <1>2, <1>6, ChainSpentFacts
    <2>2. \A u \in ChainTxs(p) : o \notin vin[u]
      BY <1>6, LastBlock
    <2> QED
      BY <1>1, <1>2, <2>1, <2>2, ChainSpentFacts
  <1>7. ASSUME NEW o \in OutPoint, o[1] \in TxsOf(b)
        PROVE  ChainSpent(p)[o] = NoTx
    <2>1. \A u \in ChainTxs(p) : o \notin vin[u]
      BY <1>7, LastBlock
    <2> QED
      BY <1>1, <1>2, <2>1, ChainSpentFacts
  <1>8. ASSUME NEW o \in OutPoint, \A t \in TxsOf(b) : o \notin vin[t]
        PROVE  ChainSpent(b)[o] = ChainSpent(p)[o]
    <2>1. CASE \E t \in ChainTxs(p) : o \in vin[t]
      <3>1. PICK t \in ChainTxs(p) : o \in vin[t]
        BY <2>1
      <3>2. ChainSpent(p)[o] = t
        BY <1>1, <1>2, <3>1, ChainSpentFacts
      <3>3. ChainSpent(b)[o] = t
        BY <1>1, <1>2, <3>1, ChainSpentFacts
      <3> QED
        BY <3>2, <3>3
    <2>2. CASE \A t \in ChainTxs(p) : o \notin vin[t]
      <3>1. ChainSpent(p)[o] = NoTx
        BY <1>1, <1>2, <2>2, ChainSpentFacts
      <3>2. \A t \in ChainTxs(b) : o \notin vin[t]
        BY <1>2, <1>8, <2>2
      <3>3. ChainSpent(b)[o] = NoTx
        BY <1>1, <3>2, ChainSpentFacts
      <3> QED
        BY <3>1, <3>3
    <2> QED
      BY <2>1, <2>2
  <1> QED
    BY <1>3, <1>4, <1>5, <1>6, <1>7, <1>8

(* ConnectBlock turns the index of a valid chain into that of the chain    *)
(* with the block, which is valid too.                                     *)
LEMMA ConnectMatches ==
    ASSUME NEW b \in Block \ {hashGenesisBlock}, NEW d, Matches(d, hashPrevBlock[b]),
           ConnectBlockOK(d, b), HeightInCoinbase(b)
    PROVE  /\ ConnectPos(d, b) = ChainPos(b)
           /\ ConnectSpent(d, b) = ChainSpent(b)
           /\ ValidChain(b)
  <1> DEFINE p == hashPrevBlock[b]
  <1>1. ValidChain(b) /\ b \in Block
    BY ConnectValid
  <1>2. d.pos = ChainPos(p) /\ d.spent = ChainSpent(p)
    BY DEF Matches
  <1>3. \A t \in Tx : ConnectPos(d, b)[t] = ChainPos(b)[t]
    BY <1>1, <1>2, IndexStep DEF ConnectPos
  <1>4. ASSUME NEW o \in OutPoint PROVE ConnectSpent(d, b)[o] = ChainSpent(b)[o]
    <2> DEFINE S == SpendersIn(TxsOf(b), o)
    <2>1. CASE S # {}
      <3>1. ConnectSpent(d, b)[o] \in S
        BY <2>1 DEF ConnectSpent
      <3>2. \A t \in S : ChainSpent(b)[o] = t
        BY <1>1, IndexStep DEF SpendersIn
      <3> QED
        BY <3>1, <3>2
    <2>2. CASE S = {}
      <3>1. \A t \in TxsOf(b) : o \notin vin[t]
        BY <2>2 DEF SpendersIn
      <3>2. ChainSpent(b)[o] = ChainSpent(p)[o]
        BY <1>1, <3>1, IndexStep
      <3>3. CASE o[1] \in TxsOf(b)
        <4>1. ConnectSpent(d, b)[o] = NoTx
          BY <2>2, <3>3 DEF ConnectSpent
        <4> QED
          BY <1>1, <3>2, <3>3, <4>1, IndexStep
      <3>4. CASE o[1] \notin TxsOf(b)
        <4>1. ConnectSpent(d, b)[o] = d.spent[o]
          BY <2>2, <3>4 DEF ConnectSpent
        <4> QED
          BY <1>2, <3>2, <4>1
      <3> QED
        BY <3>3, <3>4
    <2> QED
      BY <2>1, <2>2
  <1>5. ConnectPos(d, b) = ChainPos(b)
    BY <1>3 DEF ConnectPos, ChainPos
  <1>6. ConnectSpent(d, b) = ChainSpent(b)
    BY <1>4 DEF ConnectSpent, ChainSpent
  <1> QED
    BY <1>1, <1>5, <1>6

(* DisconnectBlock undoes it. *)
LEMMA DisconnectMatches ==
    ASSUME NEW b \in Block \ {hashGenesisBlock}, NEW d, Matches(d, b)
    PROVE  /\ DisconnectPos(d, b) = ChainPos(hashPrevBlock[b])
           /\ DisconnectSpent(d, b) = ChainSpent(hashPrevBlock[b])
           /\ ValidChain(hashPrevBlock[b])
  <1> DEFINE p == hashPrevBlock[b]
  <1>1. ValidChain(b) /\ ValidChain(p) /\ d.pos = ChainPos(b) /\ d.spent = ChainSpent(b)
    BY ValidParent DEF Matches
  <1>2. \A t \in Tx : DisconnectPos(d, b)[t] = ChainPos(p)[t]
    BY <1>1, IndexStep DEF DisconnectPos
  <1>3. \A o \in OutPoint : DisconnectSpent(d, b)[o] = ChainSpent(p)[o]
    BY <1>1, IndexStep DEF DisconnectSpent, SpendersIn
  <1>4. DisconnectPos(d, b) = ChainPos(p)
    BY <1>2 DEF DisconnectPos, ChainPos
  <1>5. DisconnectSpent(d, b) = ChainSpent(p)
    BY <1>3 DEF DisconnectSpent, ChainSpent
  <1> QED
    BY <1>1, <1>4, <1>5

(* The genesis block is in no index. *)
LEMMA GenesisMatches ==
    ChainPos(hashGenesisBlock) = EmptyPos /\ ChainSpent(hashGenesisBlock) = EmptySpent
  <1>1. ChainTxs(hashGenesisBlock) = {}
    BY TreeAssumption DEF ChainTxs
  <1>2. \A o : SpendersIn(ChainTxs(hashGenesisBlock), o) = {}
    BY <1>1 DEF SpendersIn
  <1> QED
    BY <1>1, <1>2 DEF ChainPos, ChainSpent, EmptyPos, EmptySpent

-----------------------------------------------------------------------------
(* Ancestors, links and trust. *)

(* Of two blocks on one branch, one is an ancestor of the other. *)
LEMMA Comparable ==
    ASSUME NEW b \in Block, NEW c \in Branch[b], NEW e \in Branch[b]
    PROVE  c \in Branch[e] \/ e \in Branch[c]
  <1> DEFINE Bad == {x \in Block : \E y, z \in Branch[x] : y \notin Branch[z] /\ z \notin Branch[y]}
             T   == {nHeight[x] : x \in Bad}
  <1>1. SUFFICES Bad = {}
    OBVIOUS
  <1>2. SUFFICES ASSUME Bad # {} PROVE FALSE
    OBVIOUS
  <1>3. T \subseteq Nat /\ T # {}
    BY <1>2, HeightFacts
  <1>4. PICK n \in T : \A k \in T : ~ (<<k, n>> \in OpToRel(<, Nat))
    BY <1>3, NatLessThanWellFounded, WFMin
  <1>5. \A k \in T : ~ (k < n)
    BY <1>3, <1>4 DEF OpToRel
  <1>6. PICK x \in Bad : n = nHeight[x]
    BY <1>4
  <1>7. PICK y \in Branch[x], z \in Branch[x] : y \notin Branch[z] /\ z \notin Branch[y]
    BY <1>6
  <1>8. x # hashGenesisBlock
    BY <1>7, TreeAssumption
  <1> DEFINE p == hashPrevBlock[x]
  <1>9. p \in Block /\ Branch[x] = Branch[p] \cup {x} /\ x \in Block
    BY <1>6, <1>8, TreeAssumption
  <1>10. y # x /\ z # x
    BY <1>7
  <1>11. p \in Bad
    BY <1>7, <1>9, <1>10
  <1>12. nHeight[p] \in T /\ nHeight[x] = nHeight[p] + 1 /\ nHeight[p] \in Nat
    BY <1>8, <1>9, <1>11, HeightStep, HeightFacts
  <1> HIDE DEF T, p
  <1> QED
    BY <1>5, <1>6, <1>12

(* A block has one child on a branch. *)
LEMMA OneChild ==
    ASSUME NEW b \in Block, NEW c \in Branch[b] \ {hashGenesisBlock},
           NEW e \in Branch[b] \ {hashGenesisBlock}, hashPrevBlock[c] = hashPrevBlock[e]
    PROVE  c = e
  <1>1. c \in Block \ {hashGenesisBlock} /\ e \in Block \ {hashGenesisBlock}
    BY BranchFacts
  <1>2. /\ Branch[c] = Branch[hashPrevBlock[c]] \cup {c} /\ c \notin Branch[hashPrevBlock[c]]
        /\ Branch[e] = Branch[hashPrevBlock[e]] \cup {e} /\ e \notin Branch[hashPrevBlock[e]]
    BY <1>1, TreeAssumption
  <1>3. c \in Branch[e] \/ e \in Branch[c]
    BY Comparable
  <1> QED
    BY <1>2, <1>3

(* A block that is not its own parent's ancestor: two blocks, each an      *)
(* ancestor of the other, are equal.                                       *)
LEMMA AncestorsOrdered ==
    ASSUME NEW b \in Block, NEW c \in Branch[b], b \in Branch[c]
    PROVE  b = c
  <1>1. c \in Block /\ b \in Block
    BY BranchFacts
  <1>2. CASE b = hashGenesisBlock
    BY <1>2, TreeAssumption
  <1>3. CASE b # hashGenesisBlock
    <2>1. Branch[b] = Branch[hashPrevBlock[b]] \cup {b} /\ b \notin Branch[hashPrevBlock[b]] /\ hashPrevBlock[b] \in Block
      BY <1>3, TreeAssumption
    <2>2. c \in Branch[hashPrevBlock[b]] => Branch[c] \subseteq Branch[hashPrevBlock[b]]
      BY <2>1, TreeAssumption
    <2> QED
      BY <2>1, <2>2
  <1> QED
    BY <1>2, <1>3

(* The pnext pointers that link the chain that ends in b and nothing else. *)
Links(b) == [c \in Block |-> IF c \in Branch[b] \ {b} THEN Towards(c, b) ELSE NoBlock]

NoLinks == [c \in Block |-> NoBlock]

LEMMA LinksFacts ==
    ASSUME NEW b \in Block
    PROVE  /\ Links(b) \in [Block -> Block \cup {NoBlock}]
           /\ \A c \in Branch[b] \ {hashGenesisBlock} : Links(b)[hashPrevBlock[c]] = c
           /\ \A a \in Block : (\A c \in Branch[b] \ {hashGenesisBlock} : hashPrevBlock[c] # a)
                                  => Links(b)[a] = NoBlock
           /\ \A a \in Block : a \notin Branch[b] \ {b} => Links(b)[a] = NoBlock
           /\ \A a \in Block : Links(b)[a] # NoBlock =>
                 /\ a \in Branch[b] \ {b}
                 /\ Links(b)[a] \in Branch[b] \ {hashGenesisBlock}
                 /\ hashPrevBlock[Links(b)[a]] = a
  <1>1. Branch[b] \subseteq Block
    BY BranchFacts
  <1>2. \A a \in Branch[b] \ {b} : /\ Links(b)[a] = Towards(a, b)
                                   /\ Towards(a, b) \in Branch[b] \ {hashGenesisBlock}
                                   /\ hashPrevBlock[Towards(a, b)] = a
    BY <1>1, TowardsFacts DEF Links
  <1>3. \A a \in Block : a \notin Branch[b] \ {b} => Links(b)[a] = NoBlock
    BY DEF Links
  <1>4. ASSUME NEW c \in Branch[b] \ {hashGenesisBlock} PROVE Links(b)[hashPrevBlock[c]] = c
    <2> DEFINE p == hashPrevBlock[c]
    <2>1. /\ p \in Block /\ Branch[c] = Branch[p] \cup {c} /\ c \notin Branch[p]
          /\ Branch[c] \subseteq Branch[b] /\ p \in Branch[p]
      BY <1>1, TreeAssumption, BranchFacts
    <2>2. p \in Branch[b] \ {b}
      BY <2>1
    <2> QED
      BY <1>2, <2>2, OneChild
  <1>5. Links(b) \in [Block -> Block \cup {NoBlock}]
    BY <1>1, <1>2 DEF Links
  <1> QED
    BY <1>2, <1>3, <1>4, <1>5

(* A function that links every block of the chain to its child, and no     *)
(* other block, is Links.                                                  *)
LEMMA LinksUnique ==
    ASSUME NEW b \in Block, NEW f \in [Block -> Block \cup {NoBlock}],
           \A c \in Branch[b] \ {hashGenesisBlock} : f[hashPrevBlock[c]] = c,
           \A a \in Block : (\A c \in Branch[b] \ {hashGenesisBlock} : hashPrevBlock[c] # a)
                               => f[a] = NoBlock
    PROVE  f = Links(b)
  <1>1. \A a \in Block : f[a] = Links(b)[a]
    BY LinksFacts
  <1> QED
    BY <1>1, LinksFacts

(* The links of a chain and of its parent. *)
LEMMA LinksStep ==
    ASSUME NEW b \in Block \ {hashGenesisBlock}
    PROVE  /\ Links(b) = [Links(hashPrevBlock[b]) EXCEPT ![b] = NoBlock, ![hashPrevBlock[b]] = b]
           /\ Links(b) = [Links(hashPrevBlock[b]) EXCEPT ![hashPrevBlock[b]] = b]
           /\ Links(hashPrevBlock[b]) = [Links(b) EXCEPT ![hashPrevBlock[b]] = NoBlock]
           /\ Links(hashPrevBlock[b])[b] = NoBlock
  <1> DEFINE p == hashPrevBlock[b]
             f == Links(p)
             g == Links(b)
  <1>1. /\ p \in Block /\ Branch[b] = Branch[p] \cup {b} /\ b \notin Branch[p] /\ b \in Block /\ b # p
        /\ p \in Branch[p]
    BY TreeAssumption, BranchFacts
  <1>2. f \in [Block -> Block \cup {NoBlock}] /\ g \in [Block -> Block \cup {NoBlock}]
    BY <1>1, LinksFacts
  <1>3. g[p] = b /\ g[b] = NoBlock /\ f[b] = NoBlock /\ f[p] = NoBlock
    BY <1>1, BranchFacts, LinksFacts
  <1>4. ASSUME NEW a \in Block, a # p PROVE g[a] = f[a]
    <2>1. CASE \E c \in Branch[p] \ {hashGenesisBlock} : hashPrevBlock[c] = a
      BY <1>1, <2>1, LinksFacts
    <2>2. CASE ~ \E c \in Branch[p] \ {hashGenesisBlock} : hashPrevBlock[c] = a
      BY <1>1, <1>4, <2>2, LinksFacts
    <2> QED
      BY <2>1, <2>2
  <1> HIDE DEF f, g
  <1>5. g = [f EXCEPT ![p] = b]
    BY <1>1, <1>2, <1>3, <1>4
  <1>6. f = [g EXCEPT ![p] = NoBlock]
    BY <1>1, <1>2, <1>3, <1>4
  <1>7. g = [f EXCEPT ![b] = NoBlock, ![p] = b]
    BY <1>1, <1>2, <1>3, <1>4
  <1> QED
    BY <1>3, <1>5, <1>6, <1>7 DEF f, g

(* The trust of a chain is that of its parent plus the last block's: the   *)
(* recursion has a solution, found height by height.                       *)
LEMMA TrustExists ==
    \E f \in [Block -> Nat] :
        \A b \in Block : f[b] = IF b = hashGenesisBlock THEN BlockTrust[b]
                                ELSE f[hashPrevBlock[b]] + BlockTrust[b]
  <1> DEFINE Upto(f, n) ==
                 \A b \in Block : nHeight[b] <= n =>
                     f[b] = IF b = hashGenesisBlock THEN BlockTrust[b]
                            ELSE f[hashPrevBlock[b]] + BlockTrust[b]
             Bad == {n \in Nat : \A f \in [Block -> Nat] : ~ Upto(f, n)}
  <1>0. BlockTrust \in [Block -> Nat]
    BY ParameterAssumption
  <1>1. Bad = {}
    <2> SUFFICES ASSUME Bad # {} PROVE FALSE
      OBVIOUS
    <2>1. PICK n \in Bad : \A k \in Bad : ~ (<<k, n>> \in OpToRel(<, Nat))
      BY NatLessThanWellFounded, WFMin
    <2>2. n \in Nat /\ \A k \in Bad : ~ (k < n)
      BY <2>1 DEF OpToRel
    <2>3. CASE n = 0
      <3>1. \A b \in Block : nHeight[b] <= 0 => b = hashGenesisBlock
        BY HeightStep, HeightFacts, BranchFacts
      <3>2. Upto(BlockTrust, 0)
        BY <3>1
      <3> QED
        BY <1>0, <2>1, <2>3, <3>2
    <2>4. CASE n # 0
      <3>1. n - 1 \in Nat /\ n - 1 < n
        BY <2>2, <2>4
      <3>2. n - 1 \notin Bad
        BY <2>2, <3>1
      <3>3. PICK f \in [Block -> Nat] : Upto(f, n - 1)
        BY <3>1, <3>2
      <3> DEFINE g == [b \in Block |-> IF b = hashGenesisBlock THEN BlockTrust[b]
                                       ELSE f[hashPrevBlock[b]] + BlockTrust[b]]
      <3>4. g \in [Block -> Nat]
        BY <1>0, TreeAssumption
      <3>5. \A b \in Block : nHeight[b] <= n - 1 => g[b] = f[b]
        BY <3>3
      <3>6. ASSUME NEW b \in Block, nHeight[b] <= n
            PROVE  g[b] = IF b = hashGenesisBlock THEN BlockTrust[b]
                          ELSE g[hashPrevBlock[b]] + BlockTrust[b]
        <4>1. CASE b = hashGenesisBlock
          BY <4>1
        <4>2. CASE b # hashGenesisBlock
          <5>1. hashPrevBlock[b] \in Block /\ nHeight[b] = nHeight[hashPrevBlock[b]] + 1
            BY <4>2, HeightStep, BranchFacts
          <5>2. nHeight[hashPrevBlock[b]] <= n - 1
            BY <2>2, <3>6, <5>1, HeightFacts
          <5>3. g[hashPrevBlock[b]] = f[hashPrevBlock[b]]
            BY <3>5, <5>1, <5>2
          <5>4. g[b] = f[hashPrevBlock[b]] + BlockTrust[b]
            BY <4>2
          <5> QED
            BY <4>2, <5>3, <5>4
        <4> QED
          BY <4>1, <4>2
      <3> HIDE DEF g
      <3>7. Upto(g, n)
        BY <3>6
      <3> QED
        BY <2>1, <3>4, <3>7
    <2> QED
      BY <2>3, <2>4
  <1>2. Cardinality(Block) \in Nat
    BY TreeAssumption, FS_CardinalityType
  <1>3. PICK f \in [Block -> Nat] : Upto(f, Cardinality(Block))
    BY <1>1, <1>2
  <1> QED
    BY <1>3, HeightFacts

LEMMA TrustFacts ==
    /\ nChainTrust \in [Block -> Nat]
    /\ \A b \in Block \ {hashGenesisBlock} :
          nChainTrust[b] = nChainTrust[hashPrevBlock[b]] + BlockTrust[b]
  <1> DEFINE E(f) == [b \in Block |-> IF b = hashGenesisBlock THEN BlockTrust[b]
                                      ELSE f[hashPrevBlock[b]] + BlockTrust[b]]
  <1>1. \E f : f = E(f)
    <2>1. PICK f \in [Block -> Nat] :
             \A b \in Block : f[b] = IF b = hashGenesisBlock THEN BlockTrust[b]
                                     ELSE f[hashPrevBlock[b]] + BlockTrust[b]
      BY TrustExists
    <2>2. f = E(f)
      BY <2>1
    <2> QED
      BY <2>2
  <1>2. nChainTrust = CHOOSE f : f = E(f)
    BY DEF nChainTrust
  <1>3. nChainTrust = E(nChainTrust)
    <2> HIDE DEF E
    <2> QED
      BY <1>1, <1>2
  <1>4. /\ nChainTrust = [b \in Block |-> nChainTrust[b]]
        /\ \A b \in Block : nChainTrust[b] = IF b = hashGenesisBlock THEN BlockTrust[b]
                               ELSE nChainTrust[hashPrevBlock[b]] + BlockTrust[b]
    BY <1>3
  <1> DEFINE Bad == {b \in Block : nChainTrust[b] \notin Nat}
             T   == {nHeight[b] : b \in Bad}
  <1>5. Bad = {}
    <2> SUFFICES ASSUME Bad # {} PROVE FALSE
      OBVIOUS
    <2>1. T \subseteq Nat /\ T # {}
      BY HeightFacts
    <2>2. PICK n \in T : \A k \in T : ~ (<<k, n>> \in OpToRel(<, Nat))
      BY <2>1, NatLessThanWellFounded, WFMin
    <2>3. \A k \in T : ~ (k < n)
      BY <2>1, <2>2 DEF OpToRel
    <2>4. PICK b \in Bad : n = nHeight[b]
      BY <2>2
    <2>5. BlockTrust[b] \in Nat
      BY ParameterAssumption
    <2>6. b \in Block \ {hashGenesisBlock}
      BY <1>4, <2>4, <2>5
    <2> DEFINE p == hashPrevBlock[b]
    <2>7. p \in Block /\ nHeight[b] = nHeight[p] + 1 /\ nHeight[p] \in Nat
      BY <2>6, HeightStep, HeightFacts, BranchFacts
    <2>8. nHeight[p] \notin T
      <3> HIDE DEF T, p
      <3> QED
        BY <2>3, <2>4, <2>7
    <2>9. nChainTrust[p] \in Nat
      BY <2>7, <2>8
    <2>10. nChainTrust[b] = nChainTrust[p] + BlockTrust[b]
      BY <1>4, <2>6
    <2> QED
      BY <2>4, <2>5, <2>9, <2>10
  <1> QED
    BY <1>4, <1>5

(* No ancestor of a block has more trust than the block. *)
LEMMA TrustMonotone ==
    ASSUME NEW b \in Block, NEW c \in Branch[b]
    PROVE  nChainTrust[c] <= nChainTrust[b]
  <1> DEFINE Bad == {x \in Block : \E y \in Branch[x] : ~ (nChainTrust[y] <= nChainTrust[x])}
             T   == {nHeight[x] : x \in Bad}
  <1>1. SUFFICES ASSUME Bad # {} PROVE FALSE
    OBVIOUS
  <1>2. T \subseteq Nat /\ T # {}
    BY <1>1, HeightFacts
  <1>3. PICK n \in T : \A k \in T : ~ (<<k, n>> \in OpToRel(<, Nat))
    BY <1>2, NatLessThanWellFounded, WFMin
  <1>4. \A k \in T : ~ (k < n)
    BY <1>2, <1>3 DEF OpToRel
  <1>5. PICK x \in Bad : n = nHeight[x]
    BY <1>3
  <1>6. PICK y \in Branch[x] : ~ (nChainTrust[y] <= nChainTrust[x])
    BY <1>5
  <1>7. x \in Block /\ y \in Block /\ nChainTrust[x] \in Nat /\ nChainTrust[y] \in Nat
    BY <1>5, <1>6, TrustFacts, BranchFacts
  <1>8. y # x
    BY <1>6, <1>7
  <1>9. x # hashGenesisBlock
    BY <1>6, <1>8, TreeAssumption
  <1> DEFINE p == hashPrevBlock[x]
  <1>10. p \in Block /\ Branch[x] = Branch[p] \cup {x} /\ y \in Branch[p]
    BY <1>6, <1>7, <1>8, <1>9, TreeAssumption
  <1>11. nHeight[x] = nHeight[p] + 1 /\ nHeight[p] \in Nat
    BY <1>7, <1>9, <1>10, HeightStep, HeightFacts
  <1>12. p \notin Bad
    <2>1. nHeight[p] \notin T
      <3> HIDE DEF T, p
      <3> QED
        BY <1>4, <1>5, <1>11
    <2> QED
      BY <2>1
  <1>13. nChainTrust[y] <= nChainTrust[p]
    BY <1>10, <1>12
  <1>14. /\ nChainTrust[x] = nChainTrust[p] + BlockTrust[x]
         /\ nChainTrust[p] \in Nat /\ BlockTrust[x] \in Nat
    BY <1>7, <1>9, <1>10, TrustFacts, ParameterAssumption
  <1> HIDE DEF p
  <1> QED
    BY <1>6, <1>7, <1>13, <1>14

-----------------------------------------------------------------------------
(* What ConnectBlock and DisconnectBlock refuse. *)

(* The ancestors of a valid chain's last block end valid chains. *)
LEMMA ValidBranch ==
    ASSUME NEW b \in Block, NEW c \in Branch[b], ValidChain(b)
    PROVE  ValidChain(c)
  <1>1. Branch[c] \subseteq Branch[b]
    BY TreeAssumption
  <1> QED
    BY <1>1 DEF ValidChain

(* ConnectBlock refuses no block that makes a valid chain. *)
LEMMA ValidConnects ==
    ASSUME NEW b \in Block \ {hashGenesisBlock}, NEW d, Matches(d, hashPrevBlock[b]), ValidChain(b)
    PROVE  ConnectBlockOK(d, b)
  <1> DEFINE p == hashPrevBlock[b]
  <1>1. /\ p \in Block /\ Branch[b] = Branch[p] \cup {b} /\ b \in Block /\ b # hashGenesisBlock
        /\ b \in Branch[b] /\ b \notin Branch[p] /\ NoBlock \notin Block /\ Branch[p] \subseteq Block
        /\ TxsOf(b) \subseteq Tx
    BY TreeAssumption, BranchFacts, TxAssumption DEF TxsOf
  <1>2. d.pos = ChainPos(p) /\ d.spent = ChainSpent(p) /\ ValidChain(p)
    BY DEF Matches
  <1>3. CheckBlock(b) /\ b \notin Unconnectable
    BY <1>1 DEF ValidChain, CheckBlock
  <1>4. NoOverwrite(d, b)
    BY <1>1, <1>2, IndexStep DEF NoOverwrite
  <1>5. ASSUME NEW i \in 1..Len(vtx[b]), NEW o \in vin[vtx[b][i]]
        PROVE  ConnectInput(d, b, i, o)
    <2> DEFINE earlier == {vtx[b][j] : j \in 1..(i-1)}
               pos == FetchInput(d, b, i, o)
    <2>0. Len(vtx[b]) \in Nat /\ earlier \subseteq TxsOf(b) /\ i \in Int
      <3>1. Len(vtx[b]) \in Nat /\ i \in Int
        BY <1>1, TxAssumption
      <3>2. 1..(i-1) \subseteq 1..Len(vtx[b])
        BY <3>1
      <3> QED
        BY <3>1, <3>2 DEF TxsOf
    <2>1. o \in OutPoint /\ Created(b, i, o)
      BY <1>1 DEF ValidChain
    <2>2. PICK e \in Branch[b] \ {hashGenesisBlock} : \E j \in 1..Len(vtx[e]) :
             /\ vtx[e][j] = o[1]
             /\ e = b => j < i
             /\ (IsCoinBase(o[1]) \/ IsCoinStake(o[1])) => nHeight[b] - nHeight[e] >= nCoinbaseMaturity
      BY <2>1 DEF Created
    <2>3. PICK j \in 1..Len(vtx[e]) :
             /\ vtx[e][j] = o[1]
             /\ e = b => j < i
             /\ (IsCoinBase(o[1]) \/ IsCoinStake(o[1])) => nHeight[b] - nHeight[e] >= nCoinbaseMaturity
      BY <2>2
    <2>4. pos = e /\ (e # b => o[1] \notin TxsOf(b))
      <3>1. CASE e = b
        <4>1. j \in 1..(i-1)
          BY <2>0, <2>3, <3>1
        <4> QED
          BY <2>3, <3>1, <4>1 DEF FetchInput
      <3>2. CASE e # b
        <4>1. e \in Branch[p] \ {hashGenesisBlock} /\ o[1] \in TxsOf(e)
          BY <1>1, <2>2, <2>3, <3>2 DEF TxsOf
        <4>2. o[1] \in Tx
          BY <2>1 DEF OutPoint
        <4>3. o[1] \notin TxsOf(b)
          BY <1>1, <2>2, <3>2, <4>1, ValidChainTxs
        <4>4. ChainPos(p)[o[1]] = e
          BY <1>1, <1>2, <4>1, <4>2, ChainPosFacts
        <4> QED
          BY <1>2, <2>0, <4>3, <4>4 DEF FetchInput
      <3> QED
        BY <3>1, <3>2
    <2>5. pos # NoBlock
      BY <1>1, <2>2, <2>4
    <2>6. (IsCoinBase(o[1]) \/ IsCoinStake(o[1])) =>
              ~ (pos \in Branch[b] /\ nHeight[b] - nHeight[pos] < nCoinbaseMaturity)
      <3>1. nHeight[b] \in Nat /\ nHeight[e] \in Nat /\ nCoinbaseMaturity \in Nat
        BY <1>1, <2>2, HeightFacts, ParameterAssumption
      <3> QED
        BY <2>3, <2>4, <3>1
    <2>7. \A t \in earlier : o \notin vin[t]
      <3> SUFFICES ASSUME NEW k \in 1..(i-1), o \in vin[vtx[b][k]] PROVE FALSE
        OBVIOUS
      <3>1. k \in 1..Len(vtx[b]) /\ k # i
        BY <2>0
      <3>2. vin[vtx[b][i]] \cap vin[vtx[b][k]] # {}
        OBVIOUS
      <3>3. \A m, n \in 1..Len(vtx[b]) : vin[vtx[b][m]] \cap vin[vtx[b][n]] # {} => m = n
        BY <1>1 DEF ValidChain
      <3> QED
        BY <3>1, <3>2, <3>3
    <2>8. o[1] \notin earlier => d.spent[o] = NoTx
      <3>1. vtx[b][i] \in TxsOf(b)
        BY DEF TxsOf
      <3> QED
        BY <1>2, <2>1, <3>1, IndexStep
    <2> QED
      BY <2>1, <2>5, <2>6, <2>7, <2>8 DEF ConnectInput
  <1> QED
    BY <1>3, <1>4, <1>5 DEF ConnectBlockOK

(* DisconnectBlock never fails on the last block of the chain. *)
LEMMA ValidDisconnects ==
    ASSUME NEW b \in Block \ {hashGenesisBlock}, NEW d, Matches(d, b)
    PROVE  DisconnectBlockOK(d, b)
  <1>1. /\ b \in Branch[b] \ {hashGenesisBlock} /\ NoBlock \notin Block /\ Branch[b] \subseteq Block
        /\ ValidChain(b) /\ d.pos = ChainPos(b) /\ b \in Block
    BY TreeAssumption, BranchFacts DEF Matches
  <1> SUFFICES ASSUME NEW i \in 1..Len(vtx[b]), NEW o \in vin[vtx[b][i]]
               PROVE  /\ d.pos[o[1]] # NoBlock
                      /\ \A k \in (i+1)..Len(vtx[b]) : vtx[b][k] # o[1]
                      /\ o \in OutPoint
    BY DEF DisconnectBlockOK
  <1>2. o \in OutPoint /\ Created(b, i, o) /\ b \notin Malformed
    BY <1>1 DEF ValidChain
  <1> PICK e \in Branch[b] \ {hashGenesisBlock} : \E j \in 1..Len(vtx[e]) :
           vtx[e][j] = o[1] /\ (e = b => j < i)
    BY <1>2 DEF Created
  <1>3. PICK j \in 1..Len(vtx[e]) : vtx[e][j] = o[1] /\ (e = b => j < i)
    OBVIOUS
  <1>4. o[1] \in Tx /\ o[1] \in TxsOf(e)
    BY <1>2, <1>3 DEF OutPoint, TxsOf
  <1>5. d.pos[o[1]] = e
    BY <1>1, <1>3, <1>4, ChainPosFacts
  <1>6. ASSUME NEW k \in (i+1)..Len(vtx[b]), vtx[b][k] = o[1] PROVE FALSE
    <2>1. Len(vtx[b]) \in Nat
      BY <1>1, TxAssumption
    <2>2. k \in 1..Len(vtx[b]) /\ k > i
      BY <2>1
    <2>3. o[1] \in TxsOf(b)
      BY <1>6, <2>2 DEF TxsOf
    <2>4. e = b
      BY <1>1, <1>3, <1>4, <2>3, ValidChainTxs
    <2>5. vtx[b][k] = vtx[b][j] /\ j < i
      BY <1>3, <1>6, <2>4
    <2>6. k = j
      BY <1>1, <1>2, <1>3, <2>2, <2>4, <2>5, WellFormedAssumption
    <2> QED
      BY <2>2, <2>5, <2>6
  <1> QED
    BY <1>1, <1>2, <1>3, <1>5, <1>6
=============================================================================
