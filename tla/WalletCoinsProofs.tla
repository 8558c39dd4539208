-------------------------- MODULE WalletCoinsProofs --------------------------
(***************************************************************************)
(* Theorems about WalletCoins, for any maturity, any number of coins,      *)
(* transactions and blocks, and reorganisations of any depth.              *)
(***************************************************************************)
EXTENDS WalletCoins, FiniteSetTheorems, SequenceTheorems, TLAPS

TxType == [kind : {"fund", "pay", "stake"}, spends : Nat \X Nat, vout : 1..2]
BlockType == [vtx : SUBSET Nat, nonce : Nat]
Genesis == [vtx |-> Funds, nonce |-> 0]

(* A transaction spends a coin of an earlier one, or it is one the wallet  *)
(* started with.                                                           *)
TxInv ==
    /\ tx \in Seq(TxType) /\ Funds \subseteq Tx
    /\ \A t \in Tx : /\ tx[t].kind = "fund" <=> t \in Funds
                     /\ tx[t].kind = "fund" => tx[t].spends = None
                     /\ tx[t].kind # "fund" => tx[t].spends \in Coins /\ tx[t].spends[1] \in 1..t - 1

(* A valid block: what its transactions spend was made on it or below, and *)
(* no coin is spent twice.                                                 *)
Valid(c) ==
    /\ c \in Seq(BlockType) /\ c # << >> /\ c[1] = Genesis
    /\ \A i \in DOMAIN c : c[i].vtx \subseteq Tx
    /\ \A i \in DOMAIN c \ {1} : \A t \in c[i].vtx :
          /\ tx[t].kind # "fund"
          /\ \E j \in 1..i : tx[t].spends[1] \in c[j].vtx
          /\ \A j \in DOMAIN c : \A u \in c[j].vtx :
                tx[u].spends = tx[t].spends => j = i /\ u = t

(* The index holds valid blocks, and all that they are built on. *)
IndexInv ==
    /\ IsFiniteSet(mapBlockIndex) /\ chain \in mapBlockIndex
    /\ \A c \in mapBlockIndex : Valid(c) /\ \A n \in 1..Len(c) : SubSeq(c, 1, n) \in mapBlockIndex

WalletInv ==
    /\ mempool \subseteq Pays
    /\ vfSpent \subseteq Coins
    /\ phantom \subseteq Tx
    /\ mapWallet \in Seq(mapBlockIndex \cup {NoBlock}) /\ Len(mapWallet) = Len(tx)
    /\ \A t \in Tx : mapWallet[t] # NoBlock => t \in Last(mapWallet[t]).vtx
    /\ stake # NoStake => stake.coin \in Coins

(* The call in progress *)
OpInv ==
    \/ op = Idle
    \/ op \in [pc : {"recorded", "marked"}, t : Pays]
    \/ op \in [pc : {"linking"}, at : mapBlockIndex, to : mapBlockIndex]

TypeInv == TxInv /\ IndexInv /\ WalletInv /\ OpInv

(* The transactions of the best chain, as the wallet has been told of it. *)
Where == IF op.pc = "linking" THEN Confirmed(op.at) ELSE Confirmed(chain)

(* Where the coins that are marked went. *)
MarkedInv == \A c \in vfSpent : \E t \in Pays \cup Where \cup phantom : tx[t].spends = c

(* The coins that the wallet knows to be spent. *)
KnownInv ==
    "badreorg" \notin faults =>
        \A t \in Where : tx[t].spends = None \/ tx[t].spends \in vfSpent
                            \/ (tx[t].spends[2] = 2 /\ "crash" \in faults)

(* The database transaction goes down from the best block and up again,    *)
(* and comes to no block twice.                                            *)
PathInv ==
    op.pc = "linking" =>
        /\ IsPrefix(op.at, op.to) \/ IsPrefix(op.at, chain)
        /\ IsPrefix(chain, op.to) => IsPrefix(chain, op.at)

(* With -confchange, and until something goes wrong: payments spend        *)
(* confirmed coins, which are marked, and the one in work a coin that      *)
(* nothing else spends.                                                    *)
Undisturbed == fConfChange /\ faults = {} /\ (op.pc = "linking" => chain \in {Front(op.to), op.at})

ConfInv ==
    Undisturbed =>
        /\ \A t \in Pays : tx[t].spends[1] \in Confirmed(chain)
        /\ \A t \in Pays \cup Where :
              tx[t].spends = None \/ tx[t].spends \in vfSpent \/ (op.pc = "recorded" /\ t = op.t)
        /\ op.pc \in {"recorded", "marked"} =>
              /\ op.t \notin mempool \cup Confirmed(chain)
              /\ \A u \in Pays \cup Confirmed(chain) : tx[u].spends = tx[op.t].spends => u = op.t
        /\ op.pc = "linking" => op.at \in {chain, op.to}

IndInv == TypeInv /\ MarkedInv /\ KnownInv /\ PathInv /\ ConfInv
-----------------------------------------------------------------------------
(* Sequences of blocks *)

LEMMA ConfirmedMember ==
    ASSUME NEW c, NEW t
    PROVE  t \in Confirmed(c) <=> \E i \in DOMAIN c : t \in c[i].vtx
  BY DEF Confirmed

LEMMA ConfirmedAppend ==
    ASSUME NEW c \in Seq(BlockType), NEW b \in BlockType
    PROVE  /\ Append(c, b) \in Seq(BlockType) /\ Append(c, b) # << >>
           /\ Confirmed(Append(c, b)) = Confirmed(c) \cup b.vtx
  <1>1. /\ Append(c, b) \in Seq(BlockType) /\ Append(c, b) # << >>
        /\ DOMAIN Append(c, b) = 1..Len(c) + 1 /\ DOMAIN c = 1..Len(c) /\ Len(c) \in Nat
        /\ Append(c, b)[Len(c) + 1] = b
        /\ \A i \in 1..Len(c) : Append(c, b)[i] = c[i]
    OBVIOUS
  <1>2. ASSUME NEW t
        PROVE  t \in Confirmed(Append(c, b)) <=> t \in Confirmed(c) \/ t \in b.vtx
    <2>1. ASSUME t \in Confirmed(Append(c, b)) PROVE t \in Confirmed(c) \/ t \in b.vtx
      <3>1. PICK i \in 1..Len(c) + 1 : t \in Append(c, b)[i].vtx
        BY <1>1, <2>1, ConfirmedMember
      <3>2. CASE i = Len(c) + 1
        BY <1>1, <3>1, <3>2
      <3>3. CASE i \in 1..Len(c)
        BY <1>1, <3>1, <3>3, ConfirmedMember
      <3> QED
        BY <1>1, <3>2, <3>3
    <2>2. ASSUME t \in Confirmed(c) PROVE t \in Confirmed(Append(c, b))
      <3>1. PICK i \in 1..Len(c) : t \in c[i].vtx
        BY <1>1, <2>2, ConfirmedMember
      <3>2. i \in DOMAIN Append(c, b) /\ t \in Append(c, b)[i].vtx
        BY <1>1, <3>1
      <3> QED
        BY <3>2, ConfirmedMember
    <2>3. ASSUME t \in b.vtx PROVE t \in Confirmed(Append(c, b))
      <3>1. Len(c) + 1 \in DOMAIN Append(c, b)
        BY <1>1
      <3> QED
        BY <1>1, <2>3, <3>1, ConfirmedMember
    <2> QED
      BY <2>1, <2>2, <2>3
  <1> QED
    BY <1>1, <1>2

(* A block, and the one it is built on *)
LEMMA FrontFacts ==
    ASSUME NEW c \in Seq(BlockType), c # << >>
    PROVE  /\ Front(c) \in Seq(BlockType) /\ Last(c) \in BlockType
           /\ c = Append(Front(c), Last(c)) /\ Front(c) # c
           /\ Len(Front(c)) = Len(c) - 1 /\ Last(c) = c[Len(c)]
           /\ \A i \in 1..Len(c) - 1 : Front(c)[i] = c[i]
           /\ Confirmed(c) = Confirmed(Front(c)) \cup Last(c).vtx
  <1>1. /\ Front(c) \in Seq(BlockType) /\ Last(c) \in BlockType
        /\ c = Append(Front(c), Last(c)) /\ Front(c) # c
        /\ Len(Front(c)) = Len(c) - 1 /\ Last(c) = c[Len(c)]
        /\ \A i \in 1..Len(c) - 1 : Front(c)[i] = c[i]
    <2>1. Len(c) \in Nat \ {0} /\ Last(c) = c[Len(c)] /\ Last(c) \in BlockType
      BY DEF Last
    <2>2. /\ Front(c) \in Seq(BlockType) /\ Len(Front(c)) = Len(c) - 1
          /\ \A i \in 1..Len(c) - 1 : Front(c)[i] = c[i]
      <3> DEFINE k == Len(c) - 1
      <3>1. k \in Nat /\ Front(c) = SubSeq(c, 1, k) /\ \A i \in 1..k : c[i] \in BlockType
        BY <2>1 DEF Front
      <3> HIDE DEF k
      <3>2. /\ SubSeq(c, 1, k) \in Seq(BlockType)
            /\ Len(SubSeq(c, 1, k)) = IF 1 <= k THEN k - 1 + 1 ELSE 0
            /\ \A i \in 1..k - 1 + 1 : SubSeq(c, 1, k)[i] = c[1 + i - 1]
        BY <3>1, SubSeqProperties
      <3>3. /\ SubSeq(c, 1, k) \in Seq(BlockType) /\ Len(SubSeq(c, 1, k)) = k
            /\ \A i \in 1..k : SubSeq(c, 1, k)[i] = c[i]
        BY <3>1, <3>2
      <3> QED
        BY <3>1, <3>3 DEF k
    <2>3. c = Append(Front(c), Last(c))
      BY <2>1, <2>2
    <2> QED
      BY <2>1, <2>2, <2>3
  <1> QED
    BY <1>1, ConfirmedAppend

(* The next block on the way from a block to one that is built on it *)
LEMMA NextFacts ==
    ASSUME NEW c \in Seq(BlockType), NEW d \in Seq(BlockType), c # << >>, IsPrefix(c, d), c # d,
           NEW b, b = SubSeq(d, 1, Len(c) + 1)
    PROVE  /\ Len(c) + 1 \in 1..Len(d)
           /\ b \in Seq(BlockType) /\ b # << >> /\ Front(b) = c
           /\ Len(b) = Len(c) + 1 /\ Last(b) = b[Len(b)]
           /\ Confirmed(b) = Confirmed(c) \cup Last(b).vtx
  <1>1. /\ Len(c) \in Nat /\ Len(d) \in Nat /\ Len(c) <= Len(d)
        /\ c = SubSeq(c, 1, Len(c)) /\ d = SubSeq(d, 1, Len(d))
        /\ c = SubSeq(d, 1, Len(c))
    BY DEF IsPrefix
  <1>2. Len(c) + 1 \in 1..Len(d)
    BY <1>1
  <1>3. /\ b \in Seq(BlockType) /\ Len(b) = Len(c) + 1
        /\ \A i \in 1..Len(c) + 1 : b[i] = d[i]
    BY <1>1, <1>2
  <1>4. b # << >> /\ Front(b) = c
    <2>1. Front(b) \in Seq(BlockType) /\ Len(Front(b)) = Len(c) /\ \A i \in 1..Len(c) : Front(b)[i] = b[i]
      BY <1>1, <1>3 DEF Front
    <2>2. \A i \in 1..Len(c) : c[i] = d[i]
      BY <1>1
    <2> QED
      BY <1>1, <1>3, <2>1, <2>2
  <1> QED
    BY <1>2, <1>3, <1>4, FrontFacts
-----------------------------------------------------------------------------
(* Coins and transactions *)

LEMMA SpendsMember ==
    ASSUME NEW S, NEW c
    PROVE  c \in Spends(S) <=> c # None /\ \E t \in S : tx[t].spends = c
  BY DEF Spends

LEMMA CoinsMember ==
    ASSUME NEW S, NEW c
    PROVE  c \in CoinsOf(S) <=> \E t \in S : \E n \in 1..tx[t].vout : c = <<t, n>>
  BY DEF CoinsOf

(* What the transactions of the wallet are. *)
LEMMA TxFacts ==
    ASSUME TxInv
    PROVE  /\ Len(tx) \in Nat /\ Tx = 1..Len(tx) /\ Pays \subseteq Tx /\ None \notin Coins
           /\ \A t \in Tx : /\ tx[t].kind \in {"fund", "pay", "stake"} /\ tx[t].vout \in 1..2
                            /\ tx[t].kind # "fund" => tx[t].spends \in Coins /\ tx[t].spends # None
           /\ \A c \in Coins : c[1] \in Tx /\ c[2] \in 1..2
           /\ \A S \in SUBSET Tx : CoinsOf(S) \subseteq Coins /\ Spends(S) \subseteq Coins
           /\ \A S \in SUBSET Tx : \A c \in CoinsOf(S) : c[1] \in S
           /\ \A S \in SUBSET Tx, c \in Coins : c[1] \in S => c \in CoinsOf(S)
  <1>1. /\ Len(tx) \in Nat /\ Tx = 1..Len(tx) /\ 0 \notin Tx
    BY DEF TxInv, Tx
  <1>2. \A t \in Tx : tx[t].kind \in {"fund", "pay", "stake"} /\ tx[t].vout \in 1..2
    <2>1. \A t \in Tx : tx[t] \in TxType
      BY DEF TxInv, Tx
    <2> QED
      BY <2>1 DEF TxType
  <1>3. \A S \in SUBSET Tx : \A c \in CoinsOf(S) : \E t \in S : \E n \in 1..2 : c = <<t, n>> /\ n \in 1..tx[t].vout
    <2> SUFFICES ASSUME NEW S \in SUBSET Tx, NEW c \in CoinsOf(S)
                 PROVE  \E t \in S : \E n \in 1..2 : c = <<t, n>> /\ n \in 1..tx[t].vout
      OBVIOUS
    <2>1. PICK t \in S : \E n \in 1..tx[t].vout : c = <<t, n>>
      BY CoinsMember
    <2>2. PICK n \in 1..tx[t].vout : c = <<t, n>>
      BY <2>1
    <2>3. n \in 1..2
      BY <1>2, <2>2
    <2> QED
      BY <2>2, <2>3
  <1>4. \A c \in Coins : c[1] \in Tx /\ c[2] \in 1..2 /\ c[2] \in 1..tx[c[1]].vout /\ c = <<c[1], c[2]>>
    BY <1>3 DEF Coins
  <1>5. None \notin Coins
    BY <1>1, <1>4 DEF None
  <1>6. \A S \in SUBSET Tx : \A c \in CoinsOf(S) : c[1] \in S
    BY <1>3
  <1>7. \A S \in SUBSET Tx, c \in Coins : c[1] \in S => c \in CoinsOf(S)
    BY <1>4, CoinsMember
  <1>8. \A t \in Tx : tx[t].kind # "fund" => tx[t].spends \in Coins /\ tx[t].spends # None
    BY <1>5 DEF TxInv
  <1>9. \A S \in SUBSET Tx : CoinsOf(S) \subseteq Coins /\ Spends(S) \subseteq Coins
    <2>1. \A S \in SUBSET Tx : CoinsOf(S) \subseteq Coins
      BY CoinsMember DEF Coins
    <2>2. \A S \in SUBSET Tx : Spends(S) \subseteq Coins
      BY SpendsMember, <1>8 DEF TxInv
    <2> QED
      BY <2>1, <2>2
  <1>10. Pays \subseteq Tx
    BY DEF Pays
  <1> QED
    BY <1>1, <1>2, <1>4, <1>5, <1>6, <1>7, <1>8, <1>9, <1>10

(* A new transaction. *)
LEMMA TxAppend ==
    ASSUME TxInv, NEW k \in {"pay", "stake"}, NEW c \in Coins, NEW m \in 1..2,
           tx' = Append(tx, [kind |-> k, spends |-> c, vout |-> m])
    PROVE  /\ Len(tx') = Len(tx) + 1
           /\ Tx' = Tx \cup {Len(tx')} /\ Len(tx') \notin Tx
           /\ \A t \in Tx : tx'[t] = tx[t]
           /\ tx'[Len(tx')].kind = k /\ tx'[Len(tx')].spends = c
           /\ TxInv' /\ Coins \subseteq Coins'
           /\ Pays' = IF k = "pay" THEN Pays \cup {Len(tx')} ELSE Pays
  <1> DEFINE r == [kind |-> k, spends |-> c, vout |-> m]
             n == Len(tx')
  <1>1. c[1] \in Tx /\ c[2] \in 1..2 /\ Len(tx) \in Nat /\ Tx = 1..Len(tx)
    BY TxFacts
  <1>2. c \in Nat \X Nat
    <2>1. PICK t \in Tx : \E j \in 1..tx[t].vout : c = <<t, j>>
      BY CoinsMember DEF Coins
    <2>2. tx[t].vout \in 1..2
      BY TxFacts
    <2> QED
      BY <1>1, <2>1, <2>2
  <1>3. /\ r \in TxType /\ r.kind = k /\ r.spends = c
    BY <1>2 DEF TxType
  <1> HIDE DEF r
  <1>4. tx' = Append(tx, r)
    BY DEF r
  <1>5. /\ tx' \in Seq(TxType) /\ n = Len(tx) + 1
        /\ \A t \in 1..Len(tx) : tx'[t] = tx[t]
        /\ tx'[n] = r
    BY <1>1, <1>3, <1>4 DEF TxInv
  <1> HIDE DEF n
  <1>6. /\ Tx' = Tx \cup {n} /\ n \notin Tx
    BY <1>1, <1>5 DEF Tx, n
  <1>7. Coins \subseteq Coins'
    <2> SUFFICES ASSUME NEW d \in Coins PROVE d \in Coins'
      OBVIOUS
    <2>1. PICK t \in Tx : \E j \in 1..tx[t].vout : d = <<t, j>>
      BY CoinsMember DEF Coins
    <2>2. t \in Tx' /\ tx'[t] = tx[t]
      BY <1>1, <1>5, <1>6
    <2>3. PICK j \in 1..tx[t].vout : d = <<t, j>>
      BY <2>1
    <2>4. d \in {t} \X (1..tx'[t].vout)
      BY <2>2, <2>3
    <2> QED
      BY <2>2, <2>4 DEF Coins, CoinsOf
  <1>8. TxInv'
    <2>1. Funds \subseteq Tx' /\ n \notin Funds
      BY <1>6 DEF TxInv
    <2> SUFFICES ASSUME NEW t \in Tx'
                 PROVE  /\ tx'[t].kind = "fund" <=> t \in Funds
                        /\ tx'[t].kind = "fund" => tx'[t].spends = None
                        /\ tx'[t].kind # "fund" => tx'[t].spends \in Coins' /\ tx'[t].spends[1] \in 1..t - 1
      BY <1>5, <2>1 DEF TxInv, Funds, None
    <2>2. CASE t \in Tx
      BY <1>1, <1>5, <1>7, <2>2 DEF TxInv
    <2>3. CASE t = n
      <3>1. tx'[t].kind # "fund" /\ t \notin Funds
        BY <1>3, <1>5, <2>1, <2>3
      <3>2. c[1] \in 1..t - 1
        BY <1>1, <1>5, <2>3
      <3>3. tx'[t].spends = c
        BY <1>3, <1>5, <2>3
      <3> QED
        BY <1>7, <3>1, <3>2, <3>3
    <2> QED
      BY <1>6, <2>2, <2>3
  <1>9. Pays' = IF k = "pay" THEN Pays \cup {n} ELSE Pays
    BY <1>1, <1>3, <1>5, <1>6 DEF Pays
  <1> QED
    BY <1>1, <1>3, <1>5, <1>6, <1>7, <1>8, <1>9 DEF n
-----------------------------------------------------------------------------
(* Valid blocks *)

(* The transactions of a block are the wallet's, and those of the branch   *)
(* are not among those below it.                                           *)
LEMMA ValidFacts ==
    ASSUME TxInv, NEW c, Valid(c)
    PROVE  /\ c \in Seq(BlockType) /\ c # << >> /\ Len(c) \in Nat \ {0} /\ DOMAIN c = 1..Len(c)
           /\ Confirmed(c) \subseteq Tx
           /\ Funds \subseteq Confirmed(c)
           /\ Last(c).vtx \subseteq Tx
           /\ \A t \in Confirmed(c) : tx[t].kind = "fund" <=> t \in Funds
           /\ \A t \in Confirmed(c) : tx[t].kind # "fund" => tx[t].spends[1] \in Confirmed(c)
  <1>1. /\ c \in Seq(BlockType) /\ c # << >> /\ Len(c) \in Nat \ {0} /\ DOMAIN c = 1..Len(c)
        /\ c[1].vtx = Funds
    BY DEF Valid, Genesis
  <1>2. Confirmed(c) \subseteq Tx
    BY ConfirmedMember DEF Valid
  <1>3. Funds \subseteq Confirmed(c)
    BY <1>1, ConfirmedMember
  <1>4. Last(c).vtx \subseteq Tx
    BY <1>1 DEF Valid, Last
  <1>5. \A t \in Confirmed(c) : tx[t].kind = "fund" <=> t \in Funds
    BY <1>2 DEF TxInv
  <1>6. ASSUME NEW t \in Confirmed(c), tx[t].kind # "fund" PROVE tx[t].spends[1] \in Confirmed(c)
    <2>1. PICK i \in 1..Len(c) : t \in c[i].vtx
      BY <1>1, ConfirmedMember
    <2>2. i # 1
      BY <1>1, <1>5, <1>6, <2>1
    <2>3. PICK j \in 1..i : tx[t].spends[1] \in c[j].vtx
      BY <1>1, <2>1, <2>2 DEF Valid
    <2>4. j \in DOMAIN c
      BY <1>1
    <2> QED
      BY <2>3, <2>4, ConfirmedMember
  <1> QED
    BY <1>1, <1>2, <1>3, <1>4, <1>5, <1>6

(* The last block of a branch: what it has and what it spends is not below *)
(* it, and what is spent below it was made there.                          *)
LEMMA LastFacts ==
    ASSUME TxInv, NEW c, Valid(c), Len(c) > 1
    PROVE  /\ \A t \in Last(c).vtx : tx[t].kind # "fund" /\ t \notin Confirmed(Front(c))
           /\ \A t \in Last(c).vtx, u \in Confirmed(Front(c)) : tx[t].spends # tx[u].spends
           /\ \A u \in Confirmed(Front(c)) : tx[u].kind # "fund" => tx[u].spends[1] \in Confirmed(Front(c))
           /\ Front(c) # << >>
  <1> DEFINE n == Len(c)
  <1>1. /\ c \in Seq(BlockType) /\ n \in Nat /\ n > 1 /\ DOMAIN c = 1..n
        /\ DOMAIN Front(c) = 1..n - 1 /\ \A i \in 1..n - 1 : Front(c)[i] = c[i]
        /\ Last(c) = c[n] /\ Front(c) # << >>
    BY ValidFacts, FrontFacts
  <1> HIDE DEF n
  <1>2. ASSUME NEW t \in Last(c).vtx
        PROVE  /\ tx[t].kind # "fund"
               /\ \A u \in Confirmed(Front(c)) : tx[t].spends # tx[u].spends
    <2>1. n \in DOMAIN c \ {1} /\ t \in c[n].vtx
      BY <1>1, <1>2
    <2>2. \A j \in DOMAIN c : \A u \in c[j].vtx : tx[u].spends = tx[t].spends => j = n /\ u = t
      BY <2>1 DEF Valid
    <2>3. ASSUME NEW u \in Confirmed(Front(c)) PROVE tx[t].spends # tx[u].spends
      <3>1. PICK j \in 1..n - 1 : u \in c[j].vtx
        BY <1>1, ConfirmedMember
      <3>2. j \in DOMAIN c /\ j # n
        BY <1>1
      <3> QED
        BY <2>2, <3>1, <3>2
    <2> QED
      BY <2>1, <2>3 DEF Valid
  <1>3. ASSUME NEW u \in Confirmed(Front(c)), tx[u].kind # "fund"
        PROVE  tx[u].spends[1] \in Confirmed(Front(c))
    <2>1. PICK i \in 1..n - 1 : u \in c[i].vtx
      BY <1>1, ConfirmedMember
    <2>2. i # 1
      <3>1. c[1].vtx = Funds /\ Funds \subseteq Tx
        BY DEF Valid, Genesis, TxInv
      <3> QED
        BY <1>3, <2>1, <3>1 DEF TxInv
    <2>3. PICK j \in 1..i : tx[u].spends[1] \in c[j].vtx
      BY <1>1, <2>1, <2>2 DEF Valid
    <2>4. j \in DOMAIN Front(c) /\ Front(c)[j] = c[j]
      BY <1>1
    <2> QED
      BY <2>3, <2>4, ConfirmedMember
  <1> QED
    BY <1>1, <1>2, <1>3

(* A block stays valid when transactions are made. *)
LEMMA ValidKept ==
    ASSUME \A t \in Tx : tx'[t] = tx[t], Tx \subseteq Tx', NEW c, Valid(c)
    PROVE  Valid(c)'
  <1>1. /\ c \in Seq(BlockType) /\ c # << >> /\ c[1] = Genesis
        /\ \A i \in DOMAIN c : c[i].vtx \subseteq Tx
    BY DEF Valid
  <1>2. ASSUME NEW i \in DOMAIN c \ {1}, NEW t \in c[i].vtx
        PROVE  /\ tx'[t].kind # "fund"
               /\ \E j \in 1..i : tx'[t].spends[1] \in c[j].vtx
               /\ \A j \in DOMAIN c : \A u \in c[j].vtx :
                     tx'[u].spends = tx'[t].spends => j = i /\ u = t
    <2>1. \A j \in DOMAIN c : \A u \in c[j].vtx : tx'[u] = tx[u]
      BY <1>1
    <2> QED
      BY <1>2, <2>1 DEF Valid
  <1>3. Genesis' = Genesis
    BY DEF Genesis, Funds
  <1> QED
    BY <1>1, <1>2, <1>3 DEF Valid

(* A block with the transactions S on c *)
LEMMA ValidNew ==
    ASSUME \A t \in Tx : tx'[t] = tx[t], Tx \subseteq Tx', Tx' \subseteq Nat, NEW c, Valid(c),
           NEW S \in SUBSET Tx', NEW k \in Nat,
           \A t \in S : /\ tx'[t].kind # "fund"
                        /\ tx'[t].spends[1] \in Confirmed(c) \cup S
                        /\ \A u \in Confirmed(c) : tx[u].spends # tx'[t].spends,
           \A t, u \in S : tx'[t].spends = tx'[u].spends => t = u
    PROVE  Valid(Append(c, [vtx |-> S, nonce |-> k]))'
  <1> DEFINE b == [vtx |-> S, nonce |-> k]
             d == Append(c, b)
             n == Len(c) + 1
  <1>1. b \in BlockType /\ b.vtx = S
    BY DEF BlockType
  <1> HIDE DEF b
  <1>2. Valid(c)'
    BY ValidKept
  <1>3. /\ c \in Seq(BlockType) /\ Len(c) \in Nat /\ Len(c) >= 1 /\ DOMAIN c = 1..Len(c)
        /\ c[1] = Genesis' /\ \A i \in DOMAIN c : c[i].vtx \subseteq Tx
    BY <1>2 DEF Valid
  <1>4. /\ d \in Seq(BlockType) /\ d # << >> /\ DOMAIN d = 1..n /\ d[n] = b
        /\ \A i \in 1..Len(c) : d[i] = c[i]
    BY <1>1, <1>3
  <1> HIDE DEF d
  <1>5. n \in Nat /\ n > 1 /\ 1..n = 1..Len(c) \cup {n} /\ n \notin 1..Len(c) /\ 1 \in 1..Len(c)
    BY <1>3
  <1> HIDE DEF n
  <1>6. \A i \in DOMAIN d : d[i].vtx \subseteq Tx'
    BY <1>1, <1>3, <1>4, <1>5
  <1>7. \A j \in 1..Len(c) : \A u \in c[j].vtx : u \in Confirmed(c) /\ u \in Tx /\ tx'[u] = tx[u]
    BY <1>3, ConfirmedMember
  <1>8. ASSUME NEW i \in DOMAIN d \ {1}, NEW t \in d[i].vtx
        PROVE  /\ tx'[t].kind # "fund"
               /\ \E j \in 1..i : tx'[t].spends[1] \in d[j].vtx
               /\ \A j \in DOMAIN d : \A u \in d[j].vtx :
                     tx'[u].spends = tx'[t].spends => j = i /\ u = t
    <2>1. CASE i = n
      <3>1. t \in S
        BY <1>1, <1>4, <1>8, <2>1
      <3>2. \E j \in 1..i : tx'[t].spends[1] \in d[j].vtx
        <4>1. CASE tx'[t].spends[1] \in S
          BY <1>1, <1>4, <1>5, <2>1, <4>1
        <4>2. CASE tx'[t].spends[1] \in Confirmed(c)
          <5>1. PICK j \in 1..Len(c) : tx'[t].spends[1] \in c[j].vtx
            BY <1>3, <4>2, ConfirmedMember
          <5> QED
            BY <1>4, <1>5, <2>1, <5>1
        <4> QED
          BY <3>1, <4>1, <4>2
      <3>3. ASSUME NEW j \in DOMAIN d, NEW u \in d[j].vtx, tx'[u].spends = tx'[t].spends
            PROVE  j = i /\ u = t
        <4>1. CASE j = n
          BY <1>1, <1>4, <2>1, <3>1, <3>3, <4>1
        <4>2. CASE j \in 1..Len(c)
          BY <1>4, <1>7, <3>1, <3>3, <4>2
        <4> QED
          BY <1>4, <1>5, <4>1, <4>2
      <3> QED
        BY <3>1, <3>2, <3>3
    <2>2. CASE i \in 1..Len(c)
      <3>1. i \in DOMAIN c \ {1} /\ t \in c[i].vtx
        BY <1>3, <1>4, <1>8, <2>2
      <3>2. /\ tx'[t].kind # "fund"
            /\ \E j \in 1..i : tx'[t].spends[1] \in c[j].vtx
            /\ \A j \in DOMAIN c : \A u \in c[j].vtx :
                  tx'[u].spends = tx'[t].spends => j = i /\ u = t
        BY <1>2, <3>1 DEF Valid
      <3>3. \E j \in 1..i : tx'[t].spends[1] \in d[j].vtx
        <4>1. PICK j \in 1..i : tx'[t].spends[1] \in c[j].vtx
          BY <3>2
        <4>2. j \in 1..Len(c)
          BY <1>3, <2>2
        <4> QED
          BY <1>4, <4>1, <4>2
      <3>4. ASSUME NEW j \in DOMAIN d, NEW u \in d[j].vtx, tx'[u].spends = tx'[t].spends
            PROVE  j = i /\ u = t
        <4>1. CASE j = n
          <5>1. u \in S /\ t \in Confirmed(c) /\ tx'[t] = tx[t]
            BY <1>1, <1>4, <1>7, <2>2, <3>1, <3>4, <4>1
          <5> QED
            BY <3>4, <5>1
        <4>2. CASE j \in 1..Len(c)
          BY <1>3, <1>4, <3>2, <3>4, <4>2
        <4> QED
          BY <1>4, <1>5, <4>1, <4>2
      <3> QED
        BY <3>2, <3>3, <3>4
    <2> QED
      BY <1>4, <1>5, <2>1, <2>2
  <1>9. d[1] = Genesis'
    BY <1>3, <1>4, <1>5
  <1> QED
    BY <1>4, <1>6, <1>8, <1>9 DEF Valid, d, b

(* The index with such a block *)
LEMMA IndexNew ==
    ASSUME TxInv, IndexInv, NEW c \in mapBlockIndex, NEW b \in BlockType,
           mapBlockIndex' = mapBlockIndex \cup {Append(c, b)}, chain' = chain,
           \A t \in Tx : tx'[t] = tx[t], Tx \subseteq Tx', Valid(Append(c, b))'
    PROVE  IndexInv'
  <1> DEFINE d == Append(c, b)
  <1>1. c \in Seq(BlockType) /\ d \in Seq(BlockType) /\ Len(d) = Len(c) + 1 /\ Len(c) \in Nat
    BY DEF IndexInv, Valid
  <1>2. IsFiniteSet(mapBlockIndex')
    BY FS_AddElement DEF IndexInv
  <1>3. ASSUME NEW e \in mapBlockIndex PROVE Valid(e)' /\ \A n \in 1..Len(e) : SubSeq(e, 1, n) \in mapBlockIndex'
    BY ValidKept DEF IndexInv
  <1>4. \A n \in 1..Len(d) : SubSeq(d, 1, n) \in mapBlockIndex'
    <2> SUFFICES ASSUME NEW n \in 1..Len(d) PROVE SubSeq(d, 1, n) \in mapBlockIndex'
      OBVIOUS
    <2>1. CASE n = Len(c) + 1
      <3>1. SubSeq(d, 1, n) = d
        BY <1>1, <2>1
      <3> QED
        BY <3>1
    <2>2. CASE n \in 1..Len(c)
      <3>1. SubSeq(d, 1, n) = SubSeq(c, 1, n)
        BY <1>1, <2>2
      <3> QED
        BY <1>3, <2>2, <3>1
    <2> QED
      BY <1>1, <2>1, <2>2
  <1> HIDE DEF d
  <1>5. mapBlockIndex' = mapBlockIndex \cup {d} /\ Valid(d)' /\ chain' \in mapBlockIndex'
    BY DEF d, IndexInv
  <1> QED
    BY <1>2, <1>3, <1>4, <1>5 DEF IndexInv
-----------------------------------------------------------------------------
(* The types of the variables *)

LEMMA OpFacts ==
    ASSUME OpInv
    PROVE  /\ op.pc \in {"idle", "recorded", "marked", "linking"}
           /\ op.pc = "idle" <=> op = Idle
           /\ op.pc \in {"recorded", "marked"} =>
                  op \in [pc : {"recorded", "marked"}, t : Pays] /\ op.t \in Pays
           /\ op.pc = "linking" =>
                  /\ op \in [pc : {"linking"}, at : mapBlockIndex, to : mapBlockIndex]
                  /\ op.at \in mapBlockIndex /\ op.to \in mapBlockIndex
  BY DEF OpInv, Idle

LEMMA WhereFacts ==
    ASSUME TypeInv
    PROVE  Where \subseteq Tx /\ Confirmed(chain) \subseteq Tx
  <1>1. \A c \in mapBlockIndex : Confirmed(c) \subseteq Tx
    BY ValidFacts DEF TypeInv, IndexInv
  <1> QED
    BY <1>1, OpFacts DEF TypeInv, IndexInv, Where

(* A step that makes no transaction and no block *)
LEMMA TypeSame ==
    ASSUME TypeInv, UNCHANGED <<tx, mapBlockIndex>>, chain' \in mapBlockIndex,
           mempool' \subseteq Pays, vfSpent' \subseteq Coins, phantom' \subseteq Tx,
           mapWallet' \in Seq(mapBlockIndex \cup {NoBlock}), Len(mapWallet') = Len(tx),
           \A t \in Tx : mapWallet'[t] # NoBlock => t \in Last(mapWallet'[t]).vtx,
           stake' # NoStake => stake'.coin \in Coins,
           \/ op' = Idle
           \/ op' \in [pc : {"recorded", "marked"}, t : Pays]
           \/ op' \in [pc : {"linking"}, at : mapBlockIndex, to : mapBlockIndex]
    PROVE  TypeInv'
  <1>1. Tx' = Tx /\ Pays' = Pays /\ Coins' = Coins /\ Funds' = Funds /\ None' = None
        /\ NoBlock' = NoBlock /\ NoStake' = NoStake /\ Idle' = Idle
    BY DEF Tx, Pays, Coins, CoinsOf, Funds, None, NoBlock, NoStake, Idle
  <1>2. TxInv'
    BY <1>1 DEF TypeInv, TxInv
  <1>3. \A c \in mapBlockIndex : Valid(c)'
    BY <1>1, ValidKept DEF TypeInv, IndexInv
  <1>4. IndexInv'
    BY <1>3 DEF TypeInv, IndexInv
  <1>5. WalletInv'
    BY <1>1 DEF WalletInv
  <1>6. OpInv'
    BY <1>1 DEF OpInv
  <1> QED
    BY <1>2, <1>4, <1>5, <1>6 DEF TypeInv

LEMMA TypeInit == Init => TypeInv
  <1> SUFFICES ASSUME Init PROVE TypeInv
    OBVIOUS
  <1> DEFINE r == [kind |-> "fund", spends |-> None, vout |-> 1]
  <1>1. r \in TxType /\ r.kind = "fund" /\ r.spends = None
    BY DEF TxType, None
  <1> HIDE DEF r
  <1>2. nFunds \in Nat \ {0} /\ Funds = 1..nFunds /\ tx = [t \in 1..nFunds |-> r]
    BY WalletAssumption DEF Init, Funds, r
  <1>3. tx \in Seq(TxType) /\ Len(tx) = nFunds /\ \A t \in Funds : tx[t] = r
    BY <1>1, <1>2
  <1>4. Tx = Funds
    BY <1>2, <1>3 DEF Tx
  <1>5. TxInv
    BY <1>1, <1>3, <1>4 DEF TxInv
  <1>6. chain = <<Genesis>> /\ mapBlockIndex = {chain} /\ Genesis \in BlockType /\ Genesis.vtx = Funds
    BY <1>2 DEF Init, Genesis, BlockType
  <1>7. /\ chain \in Seq(BlockType) /\ chain # << >> /\ Len(chain) = 1 /\ chain[1] = Genesis
        /\ DOMAIN chain = {1} /\ Last(chain) = Genesis
    BY <1>6 DEF Last
  <1>8. Valid(chain)
    BY <1>4, <1>6, <1>7 DEF Valid
  <1>9. IndexInv
    <2>1. SubSeq(chain, 1, 1) = chain
      BY <1>7
    <2>2. \A n \in 1..Len(chain) : SubSeq(chain, 1, n) = chain
      BY <1>7, <2>1
    <2> QED
      BY <1>6, <1>8, <2>2, FS_Singleton DEF IndexInv
  <1>10. WalletInv
    <2>1. mapWallet = [t \in 1..nFunds |-> chain] /\ mempool = {} /\ vfSpent = {} /\ phantom = {} /\ stake = NoStake
      BY DEF Init, Funds
    <2>2. mapWallet \in Seq(mapBlockIndex \cup {NoBlock}) /\ Len(mapWallet) = nFunds
      BY <1>2, <1>6, <2>1
    <2> QED
      BY <1>2, <1>3, <1>4, <1>6, <1>7, <2>1, <2>2 DEF WalletInv
  <1>11. OpInv
    BY DEF Init, OpInv
  <1> QED
    BY <1>5, <1>9, <1>10, <1>11 DEF TypeInv

LEMMA TypePay ==
    ASSUME TypeInv, NEW c \in Coins, CommitTransaction(c)
    PROVE  TypeInv'
  <1> DEFINE n == Len(tx')
  <1>1. tx' = Append(tx, [kind |-> "pay", spends |-> c, vout |-> 1])
    BY DEF CommitTransaction
  <1>2. /\ Tx' = Tx \cup {n} /\ TxInv' /\ Pays' = Pays \cup {n} /\ n \notin Tx /\ n = Len(tx) + 1
        /\ (\A t \in Tx : tx'[t] = tx[t]) /\ Coins \subseteq Coins'
    <2>1. TxInv /\ 1 \in 1..2
      BY DEF TypeInv
    <2> QED
      BY <1>1, <2>1, TxAppend
  <1> HIDE DEF n
  <1>3. /\ UNCHANGED <<chain, mapBlockIndex, mempool, vfSpent, stake, phantom>>
        /\ mapWallet' = Append(mapWallet, NoBlock)
    BY DEF CommitTransaction, blocks, history
  <1>4. IndexInv'
    <2>1. \A e \in mapBlockIndex : Valid(e)'
      BY <1>2, ValidKept DEF TypeInv, IndexInv
    <2> QED
      BY <1>3, <2>1 DEF TypeInv, IndexInv
  <1>5. WalletInv'
    <2>1. /\ mapWallet \in Seq(mapBlockIndex \cup {NoBlock}) /\ Len(mapWallet) = Len(tx)
          /\ Tx = 1..Len(tx) /\ Len(tx) \in Nat
      BY TxFacts DEF TypeInv, WalletInv
    <2>2. /\ mapWallet' \in Seq(mapBlockIndex \cup {NoBlock}) /\ Len(mapWallet') = n
          /\ mapWallet'[n] = NoBlock /\ \A t \in Tx : mapWallet'[t] = mapWallet[t]
      BY <1>2, <1>3, <2>1
    <2>3. \A t \in Tx' : mapWallet'[t] # NoBlock => t \in Last(mapWallet'[t]).vtx
      BY <1>2, <2>2 DEF TypeInv, WalletInv
    <2>4. NoStake' = NoStake /\ NoBlock' = NoBlock
      BY DEF NoStake, NoBlock
    <2> QED
      BY <1>2, <1>3, <2>2, <2>3, <2>4 DEF TypeInv, WalletInv, n
  <1>6. OpInv'
    <2>1. op' = [pc |-> "recorded", t |-> n]
      BY DEF CommitTransaction, n
    <2> QED
      BY <1>2, <2>1 DEF OpInv
  <1> QED
    BY <1>2, <1>4, <1>5, <1>6 DEF TypeInv

(* The name of a new block *)
LEMMA NewBlockFacts ==
    ASSUME TypeInv, NEW c, NEW S
    PROVE  \E k \in Nat : NewBlock(c, S) = Append(c, [vtx |-> S, nonce |-> k])
  <1> DEFINE twins == {b \in mapBlockIndex : Len(b) = Len(c) + 1 /\ Front(b) = c /\ Last(b).vtx = S}
  <1>1. IsFiniteSet(twins)
    BY FS_Subset DEF TypeInv, IndexInv
  <1>2. Cardinality(twins) \in Nat
    BY <1>1, FS_CardinalityType
  <1> QED
    BY <1>2 DEF NewBlock

LEMMA TypeReceiveBlock ==
    ASSUME TypeInv, ReceiveBlock PROVE TypeInv'
  <1>1. PICK c \in mapBlockIndex, S \in SUBSET Pays :
          /\ Connects(S, c)
          /\ AddToBlockIndex(NewBlock(c, S))
          /\ SetBestChain(NewBlock(c, S)) \/ (c # chain /\ UNCHANGED op)
    BY DEF ReceiveBlock
  <1>2. UNCHANGED <<tx, chain, mempool, mapWallet, vfSpent, stake, phantom>> /\ op = Idle
    BY DEF ReceiveBlock, history
  <1>3. PICK k \in Nat : NewBlock(c, S) = Append(c, [vtx |-> S, nonce |-> k])
    BY NewBlockFacts
  <1>4. mapBlockIndex' = mapBlockIndex \cup {Append(c, [vtx |-> S, nonce |-> k])}
    BY <1>1, <1>3 DEF AddToBlockIndex
  <1>5. /\ Tx' = Tx /\ Pays' = Pays /\ Coins' = Coins /\ Pays \subseteq Tx /\ Tx \subseteq Nat /\ TxInv'
        /\ \A t \in S : tx[t].kind # "fund" /\ tx[t].spends # None
    <2>1. Tx' = Tx /\ Pays' = Pays /\ Coins' = Coins
      BY <1>2 DEF Tx, Pays, Coins, CoinsOf
    <2>2. TxInv'
      BY <1>2, <2>1 DEF TypeInv, TxInv, Funds, None
    <2>3. Pays \subseteq Tx /\ Tx \subseteq Nat
      BY TxFacts DEF TypeInv
    <2>4. \A t \in S : tx[t].kind # "fund" /\ tx[t].spends # None
      BY <2>3, TxFacts DEF TypeInv, Pays
    <2> QED
      BY <2>1, <2>2, <2>3, <2>4
  <1>6. \A t \in S : /\ tx[t].spends[1] \in Confirmed(c) \cup S
                     /\ \A u \in Confirmed(c) : tx[u].spends # tx[t].spends
    BY <1>1, <1>5 DEF Connects, Spends
  <1>7. \A t, u \in S : tx[t].spends = tx[u].spends => t = u
    BY <1>1 DEF Connects
  <1>8. Valid(Append(c, [vtx |-> S, nonce |-> k]))'
    <2>1. Valid(c) /\ S \in SUBSET Tx'
      BY <1>5 DEF TypeInv, IndexInv
    <2> QED
      BY <1>2, <1>5, <1>6, <1>7, <2>1, ValidNew
  <1>9. [vtx |-> S, nonce |-> k] \in BlockType
    BY <1>5 DEF BlockType
  <1>10. IndexInv'
    BY <1>2, <1>4, <1>5, <1>8, <1>9, IndexNew DEF TypeInv
  <1>11. WalletInv'
    <2>1. NoStake' = NoStake /\ NoBlock' = NoBlock
      BY DEF NoStake, NoBlock
    <2>2. mapWallet \in Seq(mapBlockIndex' \cup {NoBlock})
      BY <1>4 DEF TypeInv, WalletInv
    <2> QED
      BY <1>2, <1>5, <2>1, <2>2 DEF TypeInv, WalletInv
  <1>12. OpInv'
    <2>1. op' = op \/ op' = [pc |-> "linking", at |-> chain, to |-> NewBlock(c, S)]
      BY <1>1 DEF SetBestChain
    <2>2. chain \in mapBlockIndex' /\ NewBlock(c, S) \in mapBlockIndex'
      BY <1>3, <1>4 DEF TypeInv, IndexInv
    <2> QED
      BY <1>2, <2>1, <2>2 DEF OpInv, Idle
  <1> QED
    BY <1>5, <1>10, <1>11, <1>12 DEF TypeInv

LEMMA TypeCheckStake ==
    ASSUME TypeInv, CheckStake
    PROVE  /\ TypeInv' /\ op = Idle /\ op'.pc = "linking" /\ op'.at = chain /\ Front(op'.to) = chain
           /\ Tx \subseteq Tx' /\ Pays' = Pays /\ \A t \in Tx : tx'[t] = tx[t]
           /\ UNCHANGED <<chain, mempool, vfSpent, fConfChange, faults, phantom>>
  <1>n. PICK n : n = Len(tx')
    OBVIOUS
  <1>a. PICK S \in SUBSET Pays, m \in 1..2 :
          /\ Connects(S, chain) /\ stake.coin \notin Spends(S)
          /\ tx' = Append(tx, [kind |-> "stake", spends |-> stake.coin, vout |-> m])
          /\ AddToBlockIndex(NewBlock(chain, S \cup {n}))
          /\ SetBestChain(NewBlock(chain, S \cup {n}))
    BY <1>n DEF CheckStake
  <1>b. PICK B : B = S \cup {n}
    OBVIOUS
  <1>1. /\ Connects(S, chain) /\ stake.coin \notin Spends(S)
        /\ tx' = Append(tx, [kind |-> "stake", spends |-> stake.coin, vout |-> m])
        /\ AddToBlockIndex(NewBlock(chain, B))
        /\ SetBestChain(NewBlock(chain, B))
    BY <1>a, <1>b
  <1>2. /\ UNCHANGED <<chain, mempool, vfSpent, fConfChange, faults, phantom>> /\ op = Idle
        /\ stake # NoStake /\ stake' = NoStake /\ Stakeable(stake.coin)
        /\ mapWallet' = Append(mapWallet, NoBlock)
    BY DEF CheckStake, history
  <1>3. stake.coin \in Coins /\ TxInv
    BY <1>2 DEF TypeInv, WalletInv
  <1>4. /\ Tx' = Tx \cup {n} /\ TxInv' /\ Pays' = Pays /\ n \notin Tx /\ n = Len(tx) + 1
        /\ (\A t \in Tx : tx'[t] = tx[t]) /\ Coins \subseteq Coins'
        /\ tx'[n].kind = "stake" /\ tx'[n].spends = stake.coin
    BY <1>n, <1>1, <1>3, TxAppend
  <1>5. PICK k \in Nat : NewBlock(chain, B) = Append(chain, [vtx |-> B, nonce |-> k])
    BY NewBlockFacts
  <1> DEFINE b == [vtx |-> B, nonce |-> k]
  <1>6. /\ mapBlockIndex' = mapBlockIndex \cup {Append(chain, b)}
        /\ op' = [pc |-> "linking", at |-> chain, to |-> Append(chain, b)]
    BY <1>1, <1>5 DEF AddToBlockIndex, SetBestChain
  <1>7. /\ Pays \subseteq Tx /\ Tx' \subseteq Nat /\ Tx \subseteq Nat
        /\ \A t \in Pays : tx[t].kind # "fund" /\ tx[t].spends # None
        /\ \A t \in Tx : tx[t].spends = stake.coin => tx[t].spends # None
    <2>1. Pays \subseteq Tx /\ Tx' \subseteq Nat /\ Tx \subseteq Nat
      BY <1>3, <1>4, TxFacts DEF Tx
    <2>2. \A t \in Pays : tx[t].kind # "fund" /\ tx[t].spends # None
      BY <1>3, <2>1, TxFacts DEF Pays
    <2>3. stake.coin # None
      BY <1>3, TxFacts
    <2> QED
      BY <2>1, <2>2, <2>3
  <1>8. Valid(Append(chain, b))'
    <2>1. Valid(chain) /\ Confirmed(chain) \subseteq Tx /\ B \in SUBSET Tx'
      BY <1>b, <1>3, <1>4, <1>7, ValidFacts DEF TypeInv, IndexInv
    <2>2. ASSUME NEW t \in B
          PROVE  /\ tx'[t].kind # "fund"
                 /\ tx'[t].spends[1] \in Confirmed(chain) \cup B
                 /\ \A u \in Confirmed(chain) : tx[u].spends # tx'[t].spends
      <3>1. CASE t = n
        BY <1>2, <1>4, <1>7, <2>1, <3>1 DEF Stakeable, Spends
      <3>2. CASE t \in S
        <4>1. /\ t \in Pays /\ t \in Tx /\ tx'[t] = tx[t] /\ tx[t].kind # "fund" /\ tx[t].spends # None
          BY <1>4, <1>7, <3>2
        <4>2. /\ tx[t].spends[1] \in Confirmed(chain) \cup S
              /\ tx[t].spends \notin Spends(Confirmed(chain))
          BY <1>1, <3>2 DEF Connects
        <4> QED
          BY <1>b, <4>1, <4>2 DEF Spends
      <3> QED
        BY <1>b, <3>1, <3>2
    <2>3. ASSUME NEW t \in B, NEW u \in B, tx'[t].spends = tx'[u].spends
          PROVE  t = u
      <3>1. \A v \in S : tx'[v].spends # stake.coin
        BY <1>1, <1>4, <1>7 DEF Spends
      <3>2. CASE t \in S /\ u \in S
        BY <1>1, <1>4, <1>7, <2>3, <3>2 DEF Connects
      <3> QED
        BY <1>b, <1>4, <1>7, <2>3, <3>1, <3>2
    <2>4. PICK c : c = chain
      OBVIOUS
    <2>5. /\ \A t \in Tx : tx'[t] = tx[t]
          /\ Tx \subseteq Tx' /\ Tx' \subseteq Nat /\ Valid(c) /\ B \in SUBSET Tx'
      BY <1>4, <1>7, <2>1, <2>4
    <2>6. /\ \A t \in B : /\ tx'[t].kind # "fund"
                           /\ tx'[t].spends[1] \in Confirmed(c) \cup B
                           /\ \A u \in Confirmed(c) : tx[u].spends # tx'[t].spends
          /\ \A t, u \in B : tx'[t].spends = tx'[u].spends => t = u
      BY <2>2, <2>3, <2>4
    <2>7. Valid(Append(c, [vtx |-> B, nonce |-> k]))'
      BY <2>5, <2>6, ValidNew
    <2>8. chain' = c
      BY <1>2, <2>4
    <2> QED
      BY <2>7, <2>8
  <1>9. b \in BlockType /\ b.vtx = B
    BY <1>b, <1>4, <1>7 DEF BlockType
  <1> HIDE DEF b
  <1>10. IndexInv'
    BY <1>2, <1>3, <1>4, <1>6, <1>8, <1>9, IndexNew DEF TypeInv, IndexInv
  <1>11. WalletInv'
    <2>1. /\ mapWallet \in Seq(mapBlockIndex \cup {NoBlock}) /\ Len(mapWallet) = Len(tx)
          /\ Tx = 1..Len(tx) /\ Len(tx) \in Nat
      BY <1>3, TxFacts DEF TypeInv, WalletInv
    <2>2. /\ mapWallet' \in Seq(mapBlockIndex \cup {NoBlock}) /\ Len(mapWallet') = n
          /\ mapWallet'[n] = NoBlock /\ \A t \in Tx : mapWallet'[t] = mapWallet[t]
      BY <1>2, <1>4, <2>1
    <2>3. \A t \in Tx' : mapWallet'[t] # NoBlock => t \in Last(mapWallet'[t]).vtx
      BY <1>4, <2>2 DEF TypeInv, WalletInv
    <2>4. NoStake' = NoStake /\ NoBlock' = NoBlock
      BY DEF NoStake, NoBlock
    <2>5. mapWallet' \in Seq(mapBlockIndex' \cup {NoBlock})
      BY <1>6, <2>2
    <2> QED
      BY <1>n, <1>2, <1>4, <2>2, <2>3, <2>4, <2>5 DEF TypeInv, WalletInv
  <1>12. OpInv'
    <2>1. chain \in mapBlockIndex' /\ Append(chain, b) \in mapBlockIndex'
      BY <1>6 DEF TypeInv, IndexInv
    <2> QED
      BY <1>6, <2>1 DEF OpInv
  <1>13. Front(Append(chain, b)) = chain
    <2>1. chain \in Seq(BlockType)
      BY DEF TypeInv, IndexInv, Valid
    <2>2. Append(chain, b) \in Seq(BlockType) /\ Append(chain, b) # << >>
      BY <1>9, <2>1, ConfirmedAppend
    <2>3. /\ Front(Append(chain, b)) \in Seq(BlockType)
          /\ Len(Front(Append(chain, b))) = Len(Append(chain, b)) - 1
          /\ \A i \in 1..Len(Append(chain, b)) - 1 : Front(Append(chain, b))[i] = Append(chain, b)[i]
      BY <2>2, FrontFacts
    <2> QED
      BY <1>9, <2>1, <2>3
  <1> QED
    BY <1>2, <1>4, <1>6, <1>10, <1>11, <1>12, <1>13 DEF TypeInv

LEMMA TypeSignBlock ==
    ASSUME TypeInv, SignBlock PROVE TypeInv'
  <1>1. PICK c \in Coins \ vfSpent : stake' = [coin |-> c, prev |-> chain]
    BY DEF SignBlock
  <1>2. UNCHANGED <<tx, mapBlockIndex, chain, mempool, mapWallet, vfSpent, op, phantom>>
    BY DEF SignBlock, blocks, history
  <1>3. stake'.coin \in Coins
    BY <1>1
  <1> QED
    BY <1>2, <1>3, TypeSame DEF TypeInv, IndexInv, WalletInv, OpInv

(* The block that the database transaction comes to *)
LEMMA LinkFacts ==
    ASSUME TypeInv, op.pc = "linking"
    PROVE  /\ op.at \in mapBlockIndex /\ op.to \in mapBlockIndex /\ chain \in mapBlockIndex
           /\ Valid(op.at) /\ Valid(op.to) /\ Valid(chain)
           /\ op.at \in Seq(BlockType) /\ op.at # << >> /\ op.to \in Seq(BlockType) /\ op.to # << >>
           /\ op.at[1] = op.to[1]
           /\ Where = Confirmed(op.at)
  BY OpFacts DEF TypeInv, IndexInv, Valid, Where

LEMMA DisconnectFacts ==
    ASSUME TypeInv, DisconnectBlock
    PROVE  /\ op.pc = "linking" /\ Len(op.at) > 1
           /\ op' \in [pc : {"linking"}, at : mapBlockIndex, to : mapBlockIndex]
           /\ op'.at = Front(op.at) /\ op'.to = op.to
           /\ Where = Where' \cup Last(op.at).vtx /\ Where' = Confirmed(Front(op.at))
           /\ vfSpent' = Disconnected(Last(op.at).vtx, vfSpent)
           /\ UNCHANGED <<tx, mapBlockIndex, chain, mempool, mapWallet, stake, fConfChange, faults, phantom>>
  <1>1. /\ op.pc = "linking" /\ ~IsPrefix(op.at, op.to)
        /\ vfSpent' = Disconnected(Last(op.at).vtx, vfSpent)
        /\ op' = [op EXCEPT !.at = Front(op.at)]
        /\ UNCHANGED <<tx, mapBlockIndex, chain, mempool, mapWallet, stake, fConfChange, faults, phantom>>
    BY DEF DisconnectBlock, blocks, history
  <1>2. /\ op \in [pc : {"linking"}, at : mapBlockIndex, to : mapBlockIndex]
        /\ op.at \in Seq(BlockType) /\ op.at # << >> /\ op.to \in Seq(BlockType) /\ op.to # << >>
        /\ op.at[1] = op.to[1]
    BY <1>1, LinkFacts, OpFacts DEF TypeInv
  <1>3. Len(op.at) > 1
    <2> DEFINE a == op.at
               d == op.to
    <2>1. /\ a \in Seq(BlockType) /\ d \in Seq(BlockType) /\ a[1] = d[1]
          /\ Len(a) \in Nat /\ Len(a) > 0 /\ Len(d) \in Nat /\ Len(d) > 0
      BY <1>2
    <2> HIDE DEF a, d
    <2>2. ASSUME Len(a) = 1 PROVE IsPrefix(a, d)
      <3>1. /\ \A i \in 1..1 : a[i] \in BlockType /\ d[i] \in BlockType
            /\ 1 \in Int /\ Len(a) <= Len(d)
        BY <2>1, <2>2
      <3>2. /\ SubSeq(a, 1, 1) \in Seq(BlockType) /\ SubSeq(d, 1, 1) \in Seq(BlockType)
            /\ Len(SubSeq(a, 1, 1)) = 1 /\ Len(SubSeq(d, 1, 1)) = 1
            /\ SubSeq(a, 1, 1)[1] = a[1] /\ SubSeq(d, 1, 1)[1] = d[1]
        BY <3>1, SubSeqProperties
      <3>3. SubSeq(a, 1, 1) = SubSeq(d, 1, 1)
        BY <2>1, <3>2
      <3> QED
        BY <2>2, <3>1, <3>3 DEF IsPrefix
    <2>3. Len(a) # 1
      BY <1>1, <2>2 DEF a, d
    <2>4. Len(a) > 1
      BY <2>1, <2>3
    <2> QED
      BY <2>4 DEF a
  <1>4. Front(op.at) \in mapBlockIndex
    <2>1. Len(op.at) \in Nat /\ Len(op.at) - 1 \in 1..Len(op.at)
      BY <1>2, <1>3
    <2> QED
      BY <1>2, <2>1 DEF TypeInv, IndexInv, Front
  <1>5. /\ op' \in [pc : {"linking"}, at : mapBlockIndex, to : mapBlockIndex]
        /\ op'.at = Front(op.at) /\ op'.to = op.to /\ op'.pc = "linking"
    BY <1>1, <1>2, <1>4
  <1>6. Where = Confirmed(op.at) /\ Where' = Confirmed(Front(op.at))
    BY <1>1, <1>5 DEF Where, Confirmed
  <1>7. Confirmed(op.at) = Confirmed(Front(op.at)) \cup Last(op.at).vtx
    BY <1>2, FrontFacts
  <1> QED
    BY <1>1, <1>3, <1>5, <1>6, <1>7

LEMMA ConnectFacts ==
    ASSUME TypeInv, ConnectBlock
    PROVE  /\ op.pc = "linking" /\ op'.at \in mapBlockIndex /\ op'.to = op.to /\ Len(op'.at) > 1
           /\ op' \in [pc : {"linking"}, at : mapBlockIndex, to : mapBlockIndex]
           /\ Front(op'.at) = op.at /\ op.at # op.to
           /\ Where = Confirmed(op.at)
           /\ Where' = Where \cup Last(op'.at).vtx
           /\ vfSpent' = Connected(Last(op'.at).vtx, vfSpent)
           /\ mapWallet' = Synced(op'.at)
           /\ UNCHANGED <<tx, mapBlockIndex, chain, mempool, stake, fConfChange, faults, phantom>>
  <1> DEFINE b == SubSeq(op.to, 1, Len(op.at) + 1)
  <1>1. /\ op.pc = "linking" /\ op.at # op.to /\ IsPrefix(op.at, op.to)
        /\ vfSpent' = Connected(Last(b).vtx, vfSpent)
        /\ mapWallet' = Synced(b)
        /\ op' = [op EXCEPT !.at = b]
        /\ UNCHANGED <<tx, mapBlockIndex, chain, mempool, stake, fConfChange, faults, phantom>>
    BY DEF ConnectBlock, blocks, history
  <1>2. /\ op \in [pc : {"linking"}, at : mapBlockIndex, to : mapBlockIndex]
        /\ op.at \in Seq(BlockType) /\ op.at # << >> /\ op.to \in Seq(BlockType) /\ op.to # << >>
    BY <1>1, LinkFacts, OpFacts DEF TypeInv
  <1>3. /\ Len(op.at) + 1 \in 1..Len(op.to)
        /\ b \in Seq(BlockType) /\ b # << >> /\ Front(b) = op.at
        /\ Len(b) = Len(op.at) + 1 /\ Len(op.at) \in Nat /\ Len(op.at) > 0
        /\ Confirmed(b) = Confirmed(op.at) \cup Last(b).vtx
    <2>1. Len(op.at) \in Nat /\ Len(op.at) > 0
      BY <1>2
    <2>2. b = SubSeq(op.to, 1, Len(op.at) + 1)
      OBVIOUS
    <2> HIDE DEF b
    <2>3. /\ Len(op.at) + 1 \in 1..Len(op.to)
          /\ b \in Seq(BlockType) /\ b # << >> /\ Front(b) = op.at
          /\ Len(b) = Len(op.at) + 1
          /\ Confirmed(b) = Confirmed(op.at) \cup Last(b).vtx
      BY <1>1, <1>2, <2>2, NextFacts
    <2> QED
      BY <2>1, <2>3
  <1>4. b \in mapBlockIndex
    BY <1>2, <1>3 DEF TypeInv, IndexInv
  <1> HIDE DEF b
  <1>5. /\ op' \in [pc : {"linking"}, at : mapBlockIndex, to : mapBlockIndex]
        /\ op'.at = b /\ op'.to = op.to /\ op'.pc = "linking"
    BY <1>1, <1>2, <1>4
  <1>6. Where = Confirmed(op.at) /\ Where' = Confirmed(b)
    BY <1>1, <1>5 DEF Where, Confirmed
  <1> QED
    BY <1>1, <1>3, <1>4, <1>5, <1>6

(* A step of the call in progress that leaves the wallet's records alone *)
LEMMA TypeStep ==
    ASSUME TypeInv, UNCHANGED <<tx, mapBlockIndex, mapWallet, stake>>, chain' \in mapBlockIndex,
           mempool' \subseteq Pays, vfSpent' \subseteq Coins, phantom' \subseteq Tx,
           \/ op' = Idle
           \/ op' \in [pc : {"recorded", "marked"}, t : Pays]
           \/ op' \in [pc : {"linking"}, at : mapBlockIndex, to : mapBlockIndex]
    PROVE  TypeInv'
  <1>1. /\ mapWallet \in Seq(mapBlockIndex \cup {NoBlock}) /\ Len(mapWallet) = Len(tx)
        /\ \A t \in Tx : mapWallet[t] # NoBlock => t \in Last(mapWallet[t]).vtx
        /\ stake # NoStake => stake.coin \in Coins
    BY DEF TypeInv, WalletInv
  <1>2. /\ mapWallet' \in Seq(mapBlockIndex \cup {NoBlock}) /\ Len(mapWallet') = Len(tx)
        /\ \A t \in Tx : mapWallet'[t] # NoBlock => t \in Last(mapWallet'[t]).vtx
        /\ stake' # NoStake => stake'.coin \in Coins
    BY <1>1
  <1> QED
    BY <1>2, TypeSame

LEMMA TypeMarkSpent ==
    ASSUME TypeInv, MarkSpent PROVE TypeInv'
  <1>1. /\ op \in [pc : {"recorded", "marked"}, t : Pays] /\ op.t \in Pays
        /\ UNCHANGED <<tx, mapBlockIndex, chain, mempool, mapWallet, stake, phantom>>
        /\ vfSpent' = vfSpent \cup {tx[op.t].spends}
        /\ op' = [op EXCEPT !.pc = "marked"]
    BY OpFacts DEF MarkSpent, TypeInv, blocks, history
  <1>2. tx[op.t].spends \in Coins
    BY <1>1, TxFacts DEF Pays, TypeInv
  <1>3. op' \in [pc : {"recorded", "marked"}, t : Pays]
    BY <1>1
  <1>4. chain' \in mapBlockIndex /\ mempool' \subseteq Pays /\ vfSpent' \subseteq Coins /\ phantom' \subseteq Tx
    BY <1>1, <1>2 DEF TypeInv, IndexInv, WalletInv
  <1> QED
    BY <1>1, <1>3, <1>4, TypeStep

LEMMA TypeBroadcast ==
    ASSUME TypeInv, Broadcast PROVE TypeInv'
  <1>1. /\ op.t \in Pays /\ op' = Idle /\ mempool' \subseteq mempool \cup {op.t}
        /\ UNCHANGED <<tx, mapBlockIndex, chain, mapWallet, vfSpent, stake, phantom>>
    BY OpFacts DEF Broadcast, TypeInv, blocks, history
  <1>2. chain' \in mapBlockIndex /\ mempool' \subseteq Pays /\ vfSpent' \subseteq Coins /\ phantom' \subseteq Tx
    BY <1>1 DEF TypeInv, IndexInv, WalletInv
  <1> QED
    BY <1>1, <1>2, TypeStep

LEMMA TypeSyncCheckpoint ==
    ASSUME TypeInv, SyncCheckpoint PROVE TypeInv'
  <1>1. PICK b \in mapBlockIndex : op' = [pc |-> "linking", at |-> chain, to |-> b]
    BY DEF SyncCheckpoint, SetBestChain
  <1>2. UNCHANGED <<tx, mapBlockIndex, chain, mempool, mapWallet, vfSpent, stake, phantom>>
    BY DEF SyncCheckpoint, blocks, history
  <1>3. chain' \in mapBlockIndex /\ mempool' \subseteq Pays /\ vfSpent' \subseteq Coins /\ phantom' \subseteq Tx
    BY <1>2 DEF TypeInv, IndexInv, WalletInv
  <1>4. op' \in [pc : {"linking"}, at : mapBlockIndex, to : mapBlockIndex]
    BY <1>1 DEF TypeInv, IndexInv
  <1> QED
    BY <1>2, <1>3, <1>4, TypeStep

LEMMA TypeStakeRejected ==
    ASSUME TypeInv, StakeRejected PROVE TypeInv'
  <1>1. stake' = NoStake /\ op' = Idle
    BY DEF StakeRejected
  <1>2. UNCHANGED <<tx, mapBlockIndex, chain, mempool, mapWallet, vfSpent, op, phantom>>
    BY DEF StakeRejected, blocks, history
  <1> QED
    BY <1>1, <1>2, TypeSame DEF TypeInv, IndexInv, WalletInv

LEMMA TypeDisconnectBlock ==
    ASSUME TypeInv, DisconnectBlock PROVE TypeInv'
  <1>1. /\ op' \in [pc : {"linking"}, at : mapBlockIndex, to : mapBlockIndex]
        /\ vfSpent' \subseteq vfSpent
        /\ UNCHANGED <<tx, mapBlockIndex, chain, mempool, mapWallet, stake, phantom>>
    BY DisconnectFacts DEF Disconnected
  <1>2. chain' \in mapBlockIndex /\ mempool' \subseteq Pays /\ vfSpent' \subseteq Coins /\ phantom' \subseteq Tx
    BY <1>1 DEF TypeInv, IndexInv, WalletInv
  <1> QED
    BY <1>1, <1>2, TypeStep

LEMMA TypeConnectBlock ==
    ASSUME TypeInv, ConnectBlock PROVE TypeInv'
  <1> DEFINE b == op'.at
  <1>1. /\ op' \in [pc : {"linking"}, at : mapBlockIndex, to : mapBlockIndex] /\ b \in mapBlockIndex
        /\ vfSpent' = Connected(Last(b).vtx, vfSpent) /\ mapWallet' = Synced(b)
        /\ UNCHANGED <<tx, mapBlockIndex, chain, mempool, stake, phantom>>
    BY ConnectFacts
  <1> HIDE DEF b
  <1>2. Last(b).vtx \subseteq Tx
    BY <1>1, ValidFacts DEF TypeInv, IndexInv
  <1>3. vfSpent' \subseteq Coins
    BY <1>1, <1>2, TxFacts DEF TypeInv, WalletInv, Connected
  <1>4. /\ mapWallet \in Seq(mapBlockIndex \cup {NoBlock}) /\ Len(mapWallet) = Len(tx)
        /\ Tx = 1..Len(tx) /\ Len(tx) \in Nat
    BY TxFacts DEF TypeInv, WalletInv
  <1>5. \A t \in Tx : mapWallet'[t] = IF t \in Last(b).vtx THEN b ELSE mapWallet[t]
    BY <1>1 DEF Synced
  <1>6. mapWallet' \in Seq(mapBlockIndex \cup {NoBlock}) /\ Len(mapWallet') = Len(tx)
    <2> DEFINE f == [t \in 1..Len(tx) |-> IF t \in Last(b).vtx THEN b ELSE mapWallet[t]]
    <2>1. \A t \in 1..Len(tx) : mapWallet[t] \in mapBlockIndex \cup {NoBlock}
      BY <1>4
    <2>2. f \in [1..Len(tx) -> mapBlockIndex \cup {NoBlock}]
      BY <1>1, <2>1
    <2>3. mapWallet' = f
      BY <1>1, <1>4 DEF Synced
    <2> HIDE DEF f
    <2> QED
      BY <1>4, <2>2, <2>3
  <1>7. \A t \in Tx : mapWallet'[t] # NoBlock => t \in Last(mapWallet'[t]).vtx
    BY <1>5 DEF TypeInv, WalletInv
  <1>8. /\ chain' \in mapBlockIndex /\ mempool' \subseteq Pays /\ phantom' \subseteq Tx
        /\ stake' # NoStake => stake'.coin \in Coins
    BY <1>1 DEF TypeInv, IndexInv, WalletInv
  <1> QED
    BY <1>1, <1>3, <1>6, <1>7, <1>8, TypeSame

LEMMA TypeCommitBlock ==
    ASSUME TypeInv, CommitBlock PROVE TypeInv'
  <1>1. /\ op.pc = "linking" /\ chain' = op.to /\ op' = Idle
        /\ mempool' \subseteq mempool /\ phantom' \subseteq phantom
        /\ UNCHANGED <<tx, mapBlockIndex, mapWallet, vfSpent, stake>>
    BY DEF CommitBlock
  <1>2. chain' \in mapBlockIndex /\ mempool' \subseteq Pays /\ vfSpent' \subseteq Coins /\ phantom' \subseteq Tx
    BY <1>1, LinkFacts DEF TypeInv, WalletInv
  <1> QED
    BY <1>1, <1>2, TypeStep

LEMMA TypeCommitReorganize ==
    ASSUME TypeInv, CommitReorganize PROVE TypeInv'
  <1>1. /\ op.pc = "linking" /\ chain' = op.to /\ op' = Idle
        /\ mempool' = Resurrected /\ phantom' \subseteq phantom
        /\ UNCHANGED <<tx, mapBlockIndex, mapWallet, vfSpent, stake>>
    BY DEF CommitReorganize
  <1>2. Resurrected \subseteq mempool \cup Pays
    BY DEF Resurrected
  <1>3. chain' \in mapBlockIndex /\ mempool' \subseteq Pays /\ vfSpent' \subseteq Coins /\ phantom' \subseteq Tx
    BY <1>1, <1>2, LinkFacts DEF TypeInv, WalletInv
  <1> QED
    BY <1>1, <1>3, TypeStep

(* What is given up are stakes that the wallet has a record of. *)
LEMMA GivenUpFacts ==
    ASSUME TypeInv
    PROVE  /\ GivenUp \subseteq Tx
           /\ \A t \in Where \ Confirmed(chain) : tx[t].kind = "stake" => t \in GivenUp
  <1>1. Where \subseteq Tx
    BY WhereFacts
  <1> QED
    BY <1>1 DEF GivenUp, Where

LEMMA TypeAbortReorganize ==
    ASSUME TypeInv, AbortReorganize PROVE TypeInv'
  <1>1. /\ op' = Idle /\ phantom' = phantom \cup GivenUp
        /\ UNCHANGED <<tx, mapBlockIndex, chain, mempool, mapWallet, vfSpent, stake>>
    BY DEF AbortReorganize, blocks
  <1>2. chain' \in mapBlockIndex /\ mempool' \subseteq Pays /\ vfSpent' \subseteq Coins /\ phantom' \subseteq Tx
    BY <1>1, GivenUpFacts DEF TypeInv, IndexInv, WalletInv
  <1> QED
    BY <1>1, <1>2, TypeStep

LEMMA TypeCrash ==
    ASSUME TypeInv, Crash PROVE TypeInv'
  <1>1. /\ op' = Idle /\ stake' = NoStake /\ phantom' = phantom \cup GivenUp
        /\ mempool' \subseteq Pays /\ vfSpent' = Reaccepted
        /\ UNCHANGED <<tx, mapBlockIndex, chain, mapWallet>>
    BY DEF Crash, blocks
  <1>2. Reaccepted \subseteq Coins
    <2>1. Spends(Confirmed(chain)) \subseteq Coins
      BY WhereFacts, TxFacts DEF TypeInv
    <2> QED
      BY <2>1 DEF Reaccepted, TypeInv, WalletInv
  <1> QED
    BY <1>1, <1>2, GivenUpFacts, TypeSame DEF TypeInv, IndexInv, WalletInv

LEMMA TypeRepair ==
    ASSUME TypeInv, Repair PROVE TypeInv'
  <1>1. /\ op = Idle /\ phantom' \subseteq phantom
        /\ vfSpent' \subseteq vfSpent \cup Spends(Confirmed(chain))
        /\ UNCHANGED <<tx, mapBlockIndex, chain, mempool, mapWallet, op, stake>>
    BY DEF Repair, blocks
  <1>2. Spends(Confirmed(chain)) \subseteq Coins
    BY WhereFacts, TxFacts DEF TypeInv
  <1>3. chain' \in mapBlockIndex /\ mempool' \subseteq Pays /\ vfSpent' \subseteq Coins /\ phantom' \subseteq Tx
    BY <1>1, <1>2 DEF TypeInv, IndexInv, WalletInv
  <1> QED
    BY <1>1, <1>3, TypeStep

LEMMA AvailableFacts ==
    ASSUME TypeInv, Pay PROVE \E c \in AvailableCoins : c \in Coins /\ CommitTransaction(c)
  BY DEF Pay, AvailableCoins

LEMMA TypeNext == TypeInv /\ [Next]_vars => TypeInv'
  <1> SUFFICES ASSUME TypeInv, [Next]_vars PROVE TypeInv'
    OBVIOUS
  <1>1. CASE Pay
    BY <1>1, AvailableFacts, TypePay
  <1>2. CASE MarkSpent
    BY <1>2, TypeMarkSpent
  <1>3. CASE Broadcast
    BY <1>3, TypeBroadcast
  <1>4. CASE ReceiveBlock
    BY <1>4, TypeReceiveBlock
  <1>5. CASE SyncCheckpoint
    BY <1>5, TypeSyncCheckpoint
  <1>6. CASE SignBlock
    BY <1>6, TypeSignBlock
  <1>7. CASE CheckStake
    BY <1>7, TypeCheckStake
  <1>8. CASE StakeRejected
    BY <1>8, TypeStakeRejected
  <1>9. CASE DisconnectBlock
    BY <1>9, TypeDisconnectBlock
  <1>10. CASE ConnectBlock
    BY <1>10, TypeConnectBlock
  <1>11. CASE CommitBlock
    BY <1>11, TypeCommitBlock
  <1>12. CASE CommitReorganize
    BY <1>12, TypeCommitReorganize
  <1>13. CASE AbortReorganize
    BY <1>13, TypeAbortReorganize
  <1>14. CASE Crash
    BY <1>14, TypeCrash
  <1>15. CASE Repair
    BY <1>15, TypeRepair
  <1>16. CASE UNCHANGED vars
    BY <1>16, TypeSame DEF vars, blocks, history, TypeInv, IndexInv, WalletInv, OpInv
  <1> QED
    BY <1>1, <1>2, <1>3, <1>4, <1>5, <1>6, <1>7, <1>8, <1>9, <1>10, <1>11, <1>12, <1>13, <1>14, <1>15, <1>16 DEF Next
-----------------------------------------------------------------------------
(* The flags of the coins *)

(* A step that tells the wallet of no block, and marks only what payments  *)
(* spend *)
LEMMA FlagsKept ==
    ASSUME TypeInv, MarkedInv, KnownInv,
           \A t \in Tx : tx'[t] = tx[t], Pays \subseteq Pays', Where' = Where,
           vfSpent \subseteq vfSpent', phantom \subseteq phantom' \cup Where,
           \A c \in vfSpent' \ vfSpent : \E t \in Pays : tx[t].spends = c,
           "badreorg" \in faults => "badreorg" \in faults', "crash" \in faults => "crash" \in faults'
    PROVE  MarkedInv' /\ KnownInv'
  <1>1. Where \subseteq Tx /\ Pays \subseteq Tx /\ phantom \subseteq Tx /\ None' = None
    BY WhereFacts DEF TypeInv, WalletInv, Pays, None
  <1>2. MarkedInv'
    <2> SUFFICES ASSUME NEW c \in vfSpent' PROVE \E t \in Pays' \cup Where' \cup phantom' : tx'[t].spends = c
      BY DEF MarkedInv
    <2>1. PICK t \in Pays \cup Where \cup phantom : tx[t].spends = c
      BY DEF MarkedInv
    <2>2. t \in Pays' \cup Where' \cup phantom' /\ tx'[t] = tx[t]
      BY <1>1, <2>1
    <2> QED
      BY <2>1, <2>2
  <1>3. KnownInv'
    BY <1>1 DEF KnownInv
  <1> QED
    BY <1>2, <1>3

(* What was marked is spent, or its stake is given up. *)
LEMMA MarkedGivenUp ==
    ASSUME TypeInv, MarkedInv, NEW c \in vfSpent
    PROVE  \E t \in Pays \cup Confirmed(chain) \cup phantom \cup GivenUp : tx[t].spends = c
  <1>1. PICK t \in Pays \cup Where \cup phantom : tx[t].spends = c
    BY DEF MarkedInv
  <1>2. CASE t \in Where \ Confirmed(chain)
    <2>1. t \in Tx /\ c # None
      BY <1>2, WhereFacts, TxFacts DEF TypeInv, WalletInv
    <2>2. tx[t].kind = "pay" \/ tx[t].kind = "stake"
      BY <1>1, <2>1, TxFacts DEF TypeInv, TxInv
    <2> QED
      BY <1>1, <1>2, <2>1, <2>2, GivenUpFacts DEF Pays
  <1> QED
    BY <1>1, <1>2

LEMMA FlagsDisconnectBlock ==
    ASSUME TypeInv, MarkedInv, KnownInv, DisconnectBlock
    PROVE  MarkedInv' /\ KnownInv'
  <1> DEFINE S == Last(op.at).vtx
  <1>1. /\ Where = Where' \cup S /\ Where' = Confirmed(Front(op.at))
        /\ vfSpent' = Disconnected(S, vfSpent)
        /\ UNCHANGED <<tx, faults, phantom>>
        /\ Valid(op.at) /\ Len(op.at) > 1
    BY DisconnectFacts, LinkFacts
  <1>2. /\ \A t \in S : t \in Tx /\ tx[t].kind # "fund"
        /\ \A t \in S, u \in Where' : tx[t].spends # tx[u].spends
    BY <1>1, LastFacts, ValidFacts DEF TypeInv
  <1>3. Pays' = Pays /\ None' = None
    BY <1>1 DEF Pays, Tx, None
  <1> HIDE DEF S
  <1>4. MarkedInv'
    <2> SUFFICES ASSUME NEW c \in vfSpent' PROVE \E t \in Pays \cup Where' \cup phantom : tx[t].spends = c
      BY <1>1, <1>3 DEF MarkedInv
    <2>1. c \in vfSpent /\ c \notin Spends({t \in S : tx[t].kind = "stake"}) /\ c # None
      BY <1>1, TxFacts DEF Disconnected, TypeInv, WalletInv
    <2>2. PICK t \in Pays \cup Where \cup phantom : tx[t].spends = c
      BY <2>1 DEF MarkedInv
    <2>3. CASE t \in S
      <3>1. tx[t].kind # "stake"
        BY <2>1, <2>2, <2>3, SpendsMember
      <3>2. t \in Pays
        BY <1>2, <2>3, <3>1, TxFacts DEF TypeInv, Pays
      <3> QED
        BY <2>2, <3>2
    <2> QED
      BY <1>1, <2>2, <2>3
  <1>5. KnownInv'
    <2> SUFFICES ASSUME "badreorg" \notin faults, NEW u \in Where'
                 PROVE  tx[u].spends = None \/ tx[u].spends \in vfSpent'
                            \/ (tx[u].spends[2] = 2 /\ "crash" \in faults)
      BY <1>1, <1>3 DEF KnownInv
    <2>1. \A t \in S : tx[t].spends # tx[u].spends
      BY <1>2
    <2>2. tx[u].spends \notin Spends({t \in S : tx[t].kind = "stake"})
      BY <2>1, SpendsMember
    <2> QED
      BY <1>1, <2>2 DEF KnownInv, Disconnected
  <1> QED
    BY <1>4, <1>5

LEMMA FlagsConnectBlock ==
    ASSUME TypeInv, MarkedInv, KnownInv, ConnectBlock
    PROVE  MarkedInv' /\ KnownInv'
  <1> DEFINE S == Last(op'.at).vtx
  <1>1. /\ Where' = Where \cup S /\ Where = Confirmed(op.at) /\ Front(op'.at) = op.at
        /\ vfSpent' = Connected(S, vfSpent)
        /\ UNCHANGED <<tx, faults, phantom>>
        /\ op'.at \in mapBlockIndex /\ Len(op'.at) > 1
    BY ConnectFacts
  <1>2. Valid(op'.at)
    BY <1>1 DEF TypeInv, IndexInv
  <1>3. /\ S \subseteq Tx
        /\ \A t \in S : tx[t].kind # "fund" /\ t \notin Where
        /\ \A u \in Where : tx[u].kind # "fund" => tx[u].spends[1] \in Where
    BY <1>1, <1>2, LastFacts, ValidFacts DEF TypeInv
  <1>4. Pays' = Pays /\ None' = None
    BY <1>1 DEF Pays, Tx, None
  <1> HIDE DEF S
  <1>5. MarkedInv'
    <2> SUFFICES ASSUME NEW c \in vfSpent' PROVE \E t \in Pays \cup Where' \cup phantom : tx[t].spends = c
      BY <1>1, <1>4 DEF MarkedInv
    <2>1. CASE c \in Spends(S)
      BY <1>1, <2>1, SpendsMember
    <2>2. CASE c \in vfSpent
      BY <1>1, <2>2 DEF MarkedInv
    <2> QED
      BY <1>1, <2>1, <2>2 DEF Connected
  <1>6. KnownInv'
    <2> SUFFICES ASSUME "badreorg" \notin faults, NEW t \in Where'
                 PROVE  tx[t].spends = None \/ tx[t].spends \in vfSpent'
                            \/ (tx[t].spends[2] = 2 /\ "crash" \in faults)
      BY <1>1, <1>4 DEF KnownInv
    <2>1. CASE t \in S
      <3>1. tx[t].spends # None => tx[t].spends \in Spends(S)
        BY <2>1, SpendsMember
      <3> QED
        BY <1>1, <3>1 DEF Connected
    <2>2. CASE t \in Where /\ tx[t].spends # None
      <3>1. t \in Tx /\ tx[t].kind # "fund"
        BY <2>2, WhereFacts DEF TypeInv, TxInv
      <3>2. tx[t].spends[1] \in Where
        BY <1>3, <2>2, <3>1
      <3>3. tx[t].spends \notin CoinsOf(S)
        BY <1>3, <3>2, TxFacts DEF TypeInv
      <3> QED
        BY <1>1, <2>2, <3>3 DEF Connected, KnownInv
    <2> QED
      BY <1>1, <2>1, <2>2
  <1> QED
    BY <1>5, <1>6

LEMMA FlagsAbortReorganize ==
    ASSUME TypeInv, MarkedInv, KnownInv, AbortReorganize
    PROVE  MarkedInv' /\ KnownInv'
  <1>1. /\ op.pc = "linking" /\ op' = Idle /\ phantom' = phantom \cup GivenUp
        /\ faults' = IF op.at = chain THEN faults ELSE faults \cup {"badreorg"}
        /\ UNCHANGED <<tx, chain, vfSpent>>
    BY DEF AbortReorganize, blocks
  <1>2. /\ Pays' = Pays /\ Where' = Confirmed(chain)
        /\ op.at = chain => Where = Confirmed(chain)
    BY <1>1 DEF Pays, Tx, Where, Idle, Confirmed
  <1>3. MarkedInv'
    BY <1>1, <1>2, MarkedGivenUp DEF MarkedInv
  <1>4. KnownInv'
    <2>1. CASE op.at = chain
      BY <1>1, <1>2, <2>1 DEF KnownInv, None
    <2>2. CASE op.at # chain
      BY <1>1, <2>2 DEF KnownInv
    <2> QED
      BY <2>1, <2>2
  <1> QED
    BY <1>3, <1>4

LEMMA FlagsCrash ==
    ASSUME TypeInv, MarkedInv, Crash
    PROVE  MarkedInv' /\ KnownInv'
  <1>1. /\ op' = Idle /\ phantom' = phantom \cup GivenUp
        /\ vfSpent' = Reaccepted /\ "crash" \in faults'
        /\ UNCHANGED <<tx, chain>>
    BY DEF Crash, blocks
  <1>2. Pays' = Pays /\ Where' = Confirmed(chain) /\ None' = None
    BY <1>1 DEF Pays, Tx, Where, Idle, Confirmed, None
  <1> DEFINE skipped == {t \in Tx : tx[t].kind = "stake" /\ <<t, 1>> \in vfSpent}
  <1>3. vfSpent' = vfSpent \cup (Spends(Confirmed(chain)) \ CoinsOf(skipped))
    BY <1>1 DEF Reaccepted
  <1> HIDE DEF skipped
  <1>4. MarkedInv'
    <2> SUFFICES ASSUME NEW c \in vfSpent'
                 PROVE  \E t \in Pays \cup Confirmed(chain) \cup phantom \cup GivenUp : tx[t].spends = c
      BY <1>1, <1>2 DEF MarkedInv
    <2>1. CASE c \in vfSpent
      BY <2>1, MarkedGivenUp
    <2>2. CASE c \in Spends(Confirmed(chain))
      BY <2>2, SpendsMember
    <2> QED
      BY <1>3, <2>1, <2>2
  <1>5. KnownInv'
    <2> SUFFICES ASSUME NEW t \in Confirmed(chain), tx[t].spends # None, tx[t].spends \notin vfSpent'
                 PROVE  tx[t].spends[2] = 2
      BY <1>1, <1>2 DEF KnownInv
    <2>1. tx[t].spends \in Spends(Confirmed(chain))
      BY SpendsMember
    <2>2. tx[t].spends \in CoinsOf(skipped) /\ tx[t].spends \notin vfSpent
      BY <1>3, <2>1
    <2>3. PICK u \in skipped : \E n \in 1..tx[u].vout : tx[t].spends = <<u, n>>
      BY <2>2, CoinsMember
    <2>4. <<u, 1>> \in vfSpent /\ tx[u].vout \in 1..2
      BY TxFacts DEF skipped, TypeInv
    <2>5. PICK n \in 1..tx[u].vout : tx[t].spends = <<u, n>>
      BY <2>3
    <2>6. n \in 1..2 /\ n # 1
      BY <2>2, <2>4, <2>5
    <2> QED
      BY <2>5, <2>6
  <1> QED
    BY <1>4, <1>5

LEMMA FlagsRepair ==
    ASSUME TypeInv, MarkedInv, Repair
    PROVE  MarkedInv' /\ KnownInv'
  <1> DEFINE C == Confirmed(chain)
  <1>1. /\ op = Idle /\ op' = Idle
        /\ phantom' = {t \in phantom : tx[t].spends[1] \notin C}
        /\ vfSpent' = (vfSpent \ CoinsOf(C)) \cup Spends(C)
        /\ UNCHANGED <<tx, chain>>
    BY DEF Repair, blocks
  <1>2. Pays' = Pays /\ Where' = C /\ Where = C /\ None' = None
    BY <1>1 DEF Pays, Tx, Where, Idle, Confirmed, None
  <1>3. C \subseteq Tx
    BY WhereFacts
  <1> HIDE DEF C
  <1>4. MarkedInv'
    <2> SUFFICES ASSUME NEW c \in vfSpent' PROVE \E t \in Pays \cup C \cup phantom' : tx[t].spends = c
      BY <1>1, <1>2 DEF MarkedInv
    <2>1. CASE c \in Spends(C)
      BY <2>1, SpendsMember
    <2>2. CASE c \in vfSpent \ CoinsOf(C)
      <3>1. PICK t \in Pays \cup C \cup phantom : tx[t].spends = c
        BY <1>2, <2>2 DEF MarkedInv
      <3>2. c \in Coins
        BY <2>2 DEF TypeInv, WalletInv
      <3>3. c[1] \notin C
        BY <1>3, <2>2, <3>2, TxFacts DEF TypeInv
      <3> QED
        BY <1>1, <3>1, <3>3
    <2> QED
      BY <1>1, <2>1, <2>2
  <1>5. KnownInv'
    <2>1. \A t \in C : tx[t].spends = None \/ tx[t].spends \in Spends(C)
      BY SpendsMember
    <2> QED
      BY <1>1, <1>2, <2>1 DEF KnownInv
  <1> QED
    BY <1>4, <1>5

(* The quiet steps *)
LEMMA PayFacts ==
    ASSUME TypeInv, Pay
    PROVE  \E c \in AvailableCoins :
              /\ c \in Coins \ vfSpent /\ IsTrusted[c[1]] /\ c[1] \in Tx /\ c # None
              /\ op = Idle /\ op'.pc = "recorded" /\ op'.t \notin Tx
              /\ Tx' = Tx \cup {op'.t} /\ Pays' = Pays \cup {op'.t} /\ tx'[op'.t].spends = c
              /\ \A t \in Tx : tx'[t] = tx[t]
              /\ UNCHANGED <<chain, mempool, vfSpent, fConfChange, faults, phantom>>
  <1>1. PICK c \in AvailableCoins : c \in Coins /\ CommitTransaction(c)
    BY AvailableFacts
  <1>2. c \in Coins \ vfSpent /\ IsTrusted[c[1]] /\ c[1] \in Tx /\ c # None
    BY <1>1, TxFacts DEF AvailableCoins, TypeInv
  <1>3. /\ tx' = Append(tx, [kind |-> "pay", spends |-> c, vout |-> 1])
        /\ op = Idle /\ op' = [pc |-> "recorded", t |-> Len(tx')]
        /\ UNCHANGED <<chain, mempool, vfSpent, fConfChange, faults, phantom>>
    BY <1>1 DEF CommitTransaction, blocks, history
  <1>4. TxInv /\ 1 \in 1..2
    BY DEF TypeInv
  <1>5. /\ Tx' = Tx \cup {Len(tx')} /\ Pays' = Pays \cup {Len(tx')} /\ Len(tx') \notin Tx
        /\ tx'[Len(tx')].spends = c
        /\ \A t \in Tx : tx'[t] = tx[t]
    BY <1>1, <1>3, <1>4, TxAppend
  <1>6. op'.pc = "recorded" /\ op'.t = Len(tx')
    BY <1>3
  <1> QED
    BY <1>1, <1>2, <1>3, <1>5, <1>6

LEMMA ReceiveFacts ==
    ASSUME TypeInv, ReceiveBlock \/ SyncCheckpoint
    PROVE  /\ op = Idle
           /\ op' # op => op'.pc = "linking" /\ op'.at = chain
           /\ UNCHANGED <<tx, chain, mempool, vfSpent, fConfChange, faults, phantom>>
  BY DEF ReceiveBlock, SyncCheckpoint, SetBestChain, blocks, history

LEMMA FlagsNext == TypeInv /\ MarkedInv /\ KnownInv /\ [Next]_vars => MarkedInv' /\ KnownInv'
  <1> SUFFICES ASSUME TypeInv, MarkedInv, KnownInv, [Next]_vars PROVE MarkedInv' /\ KnownInv'
    OBVIOUS
  <1> USE DEF Where
  <1>c. Confirmed(chain') = Confirmed(chain)'
    BY DEF Confirmed
  <1>s. UNCHANGED tx => Tx' = Tx /\ Pays' = Pays
    BY DEF Tx, Pays
  <1>1. CASE Pay
    <2>1. /\ op.pc = "idle" /\ op'.pc = "recorded" /\ Pays \subseteq Pays'
          /\ \A t \in Tx : tx'[t] = tx[t]
          /\ UNCHANGED <<chain, vfSpent, faults, phantom>>
      BY <1>1, PayFacts DEF Idle
    <2>2. Where' = Where
      BY <1>c, <2>1
    <2> QED
      BY <2>1, <2>2, FlagsKept
  <1>2. CASE MarkSpent
    <2>1. /\ op.pc = "recorded" /\ op'.pc = "marked" /\ op.t \in Pays
          /\ UNCHANGED <<tx, chain, faults, phantom>>
          /\ vfSpent' = vfSpent \cup {tx[op.t].spends}
      BY <1>2, OpFacts DEF MarkSpent, blocks, history, TypeInv
    <2>2. Where' = Where
      BY <1>c, <2>1
    <2> QED
      BY <1>s, <2>1, <2>2, FlagsKept
  <1>3. CASE Broadcast
    <2>1. op.pc = "marked" /\ op'.pc = "idle" /\ UNCHANGED <<tx, chain, vfSpent, faults, phantom>>
      BY <1>3 DEF Broadcast, blocks, history, Idle
    <2>2. Where' = Where
      BY <1>c, <2>1
    <2> QED
      BY <1>s, <2>1, <2>2, FlagsKept
  <1>4. CASE ReceiveBlock \/ SyncCheckpoint
    <2>1. /\ op.pc = "idle"
          /\ op' # op => op'.pc = "linking" /\ op'.at = chain
          /\ UNCHANGED <<tx, chain, vfSpent, faults, phantom>>
      BY <1>4, ReceiveFacts DEF Idle
    <2>2. Where' = Where
      BY <1>c, <2>1
    <2> QED
      BY <1>s, <2>1, <2>2, FlagsKept
  <1>5. CASE SignBlock \/ StakeRejected
    <2>1. UNCHANGED <<tx, chain, op, vfSpent, faults, phantom>>
      BY <1>5 DEF SignBlock, StakeRejected, blocks, history
    <2>2. Where' = Where
      BY <1>c, <2>1
    <2> QED
      BY <1>s, <2>1, <2>2, FlagsKept
  <1>6. CASE CheckStake
    <2>1. /\ op.pc = "idle" /\ op'.pc = "linking" /\ op'.at = chain
          /\ Pays' = Pays /\ \A t \in Tx : tx'[t] = tx[t]
          /\ UNCHANGED <<chain, vfSpent, faults, phantom>>
      BY <1>6, TypeCheckStake DEF Idle
    <2>2. Where' = Where
      BY <1>c, <2>1
    <2> QED
      BY <2>1, <2>2, FlagsKept
  <1>7. CASE CommitBlock \/ CommitReorganize
    <2>1. /\ op.pc = "linking" /\ op.at = op.to /\ op'.pc = "idle" /\ chain' = op.to
          /\ phantom' = phantom \ Confirmed(op.to) /\ faults \subseteq faults'
          /\ UNCHANGED <<tx, vfSpent>>
      BY <1>7 DEF CommitBlock, CommitReorganize, Idle
    <2>2. Where' = Where /\ Where = Confirmed(op.to)
      BY <1>c, <2>1
    <2> QED
      BY <1>s, <2>1, <2>2, FlagsKept
  <1>8. CASE DisconnectBlock
    BY <1>8, FlagsDisconnectBlock
  <1>9. CASE ConnectBlock
    BY <1>9, FlagsConnectBlock
  <1>10. CASE AbortReorganize
    BY <1>10, FlagsAbortReorganize
  <1>11. CASE Crash
    BY <1>11, FlagsCrash
  <1>12. CASE Repair
    BY <1>12, FlagsRepair
  <1>13. CASE UNCHANGED vars
    <2>1. UNCHANGED <<tx, chain, op, vfSpent, faults, phantom>>
      BY <1>13 DEF vars
    <2>2. Where' = Where
      BY <1>c, <2>1
    <2> QED
      BY <1>s, <2>1, <2>2, FlagsKept
  <1> QED
    BY <1>1, <1>2, <1>3, <1>4, <1>5, <1>6, <1>7, <1>8, <1>9, <1>10, <1>11, <1>12, <1>13 DEF Next
-----------------------------------------------------------------------------
(* The path of the database transaction *)

LEMMA PrefixMember ==
    ASSUME NEW s \in Seq(BlockType), NEW t \in Seq(BlockType)
    PROVE  IsPrefix(s, t) <=> Len(s) <= Len(t) /\ \A i \in 1..Len(s) : s[i] = t[i]
  <1> DEFINE k == Len(s)
  <1>1. k \in Nat /\ Len(t) \in Nat
    OBVIOUS
  <1> SUFFICES ASSUME k <= Len(t)
               PROVE  SubSeq(s, 1, k) = SubSeq(t, 1, k) <=> \A i \in 1..k : s[i] = t[i]
    BY <1>1 DEF IsPrefix
  <1>2. \A i \in 1..k : s[i] \in BlockType /\ t[i] \in BlockType
    BY <1>1
  <1> HIDE DEF k
  <1>3. /\ SubSeq(s, 1, k) \in Seq(BlockType) /\ SubSeq(t, 1, k) \in Seq(BlockType)
        /\ Len(SubSeq(s, 1, k)) = k /\ Len(SubSeq(t, 1, k)) = k
        /\ \A i \in 1..k : SubSeq(s, 1, k)[i] = s[i] /\ SubSeq(t, 1, k)[i] = t[i]
    <2>1. /\ SubSeq(s, 1, k) \in Seq(BlockType) /\ SubSeq(t, 1, k) \in Seq(BlockType)
          /\ Len(SubSeq(s, 1, k)) = IF 1 <= k THEN k - 1 + 1 ELSE 0
          /\ Len(SubSeq(t, 1, k)) = IF 1 <= k THEN k - 1 + 1 ELSE 0
          /\ \A i \in 1..k - 1 + 1 : SubSeq(s, 1, k)[i] = s[1 + i - 1] /\ SubSeq(t, 1, k)[i] = t[1 + i - 1]
      BY <1>1, <1>2, SubSeqProperties
    <2> QED
      BY <1>1, <2>1
  <1> QED
    BY <1>1, <1>3

LEMMA PrefixFacts ==
    ASSUME NEW s \in Seq(BlockType), NEW t \in Seq(BlockType)
    PROVE  /\ IsPrefix(s, s)
           /\ s # << >> => /\ IsPrefix(Front(s), s) /\ ~IsPrefix(s, Front(s))
                           /\ IsPrefix(s, t) => IsPrefix(Front(s), t)
           /\ s # << >> /\ IsPrefix(t, s) => t = s \/ IsPrefix(t, Front(s))
  <1>1. Len(s) \in Nat /\ Len(t) \in Nat
    OBVIOUS
  <1>2. IsPrefix(s, s)
    BY <1>1, PrefixMember
  <1>3. ASSUME s # << >>
        PROVE  /\ Front(s) \in Seq(BlockType) /\ Len(Front(s)) = Len(s) - 1 /\ Len(s) > 0
               /\ \A i \in 1..Len(s) - 1 : Front(s)[i] = s[i]
    BY <1>1, <1>3, FrontFacts
  <1>4. ASSUME s # << >> PROVE IsPrefix(Front(s), s) /\ ~IsPrefix(s, Front(s))
    BY <1>1, <1>3, <1>4, PrefixMember
  <1>5. ASSUME s # << >>, IsPrefix(s, t) PROVE IsPrefix(Front(s), t)
    <2>1. Len(s) <= Len(t) /\ \A i \in 1..Len(s) : s[i] = t[i]
      BY <1>5, PrefixMember
    <2>2. Len(Front(s)) <= Len(t) /\ \A i \in 1..Len(Front(s)) : Front(s)[i] = t[i]
      BY <1>1, <1>3, <1>5, <2>1
    <2> QED
      BY <1>3, <1>5, <2>2, PrefixMember
  <1>6. ASSUME s # << >>, IsPrefix(t, s), t # s PROVE IsPrefix(t, Front(s))
    <2>1. Len(t) <= Len(s) /\ \A i \in 1..Len(t) : t[i] = s[i]
      BY <1>6, PrefixMember
    <2>2. Len(t) # Len(s)
      BY <1>1, <1>6, <2>1
    <2>3. Len(t) <= Len(Front(s)) /\ \A i \in 1..Len(t) : t[i] = Front(s)[i]
      BY <1>1, <1>3, <1>6, <2>1, <2>2
    <2> QED
      BY <1>3, <1>6, <2>3, PrefixMember
  <1> QED
    BY <1>2, <1>4, <1>5, <1>6

LEMMA PrefixTransitive ==
    ASSUME NEW s \in Seq(BlockType), NEW t \in Seq(BlockType), NEW u \in Seq(BlockType),
           IsPrefix(s, t), IsPrefix(t, u)
    PROVE  IsPrefix(s, u)
  <1>1. /\ Len(s) <= Len(t) /\ \A i \in 1..Len(s) : s[i] = t[i]
        /\ Len(t) <= Len(u) /\ \A i \in 1..Len(t) : t[i] = u[i]
        /\ Len(s) \in Nat /\ Len(t) \in Nat /\ Len(u) \in Nat
    BY PrefixMember
  <1>2. Len(s) <= Len(u) /\ \A i \in 1..Len(s) : s[i] = u[i]
    BY <1>1
  <1> QED
    BY <1>2, PrefixMember

(* Once it has left the best block, it does not come back. *)
LEMMA PathDisconnectBlock ==
    ASSUME TypeInv, PathInv, DisconnectBlock
    PROVE  PathInv' /\ op'.at # chain /\ op'.to = op.to
  <1> DEFINE a == op.at
             d == op.to
  <1>1. /\ op.pc = "linking" /\ ~IsPrefix(a, d)
        /\ op'.pc = "linking" /\ op'.at = Front(a) /\ op'.to = d /\ chain' = chain
    BY DisconnectFacts DEF DisconnectBlock
  <1>2. /\ chain \in Seq(BlockType) /\ chain # << >>
        /\ a \in Seq(BlockType) /\ a # << >> /\ d \in Seq(BlockType)
    BY <1>1, LinkFacts DEF Valid
  <1>3. IsPrefix(a, chain)
    BY <1>1 DEF PathInv
  <1> HIDE DEF a, d
  <1>4. ~IsPrefix(chain, d)
    BY <1>1, <1>2, <1>3, PrefixTransitive
  <1>5. Front(a) # chain /\ IsPrefix(Front(a), chain)
    BY <1>2, <1>3, PrefixFacts
  <1> QED
    BY <1>1, <1>4, <1>5 DEF PathInv, d

LEMMA PathConnectBlock ==
    ASSUME TypeInv, PathInv, ConnectBlock
    PROVE  /\ PathInv' /\ op'.at # chain /\ op'.to = op.to
           /\ op.at = Front(op.to) => op'.at = op.to
  <1> DEFINE a == op.at
             d == op.to
             b == op'.at
  <1>1. /\ op.pc = "linking" /\ IsPrefix(a, d) /\ a # d
        /\ op'.pc = "linking" /\ Front(b) = a /\ op'.to = d /\ chain' = chain
        /\ op' = [op EXCEPT !.at = SubSeq(d, 1, Len(a) + 1)]
    BY ConnectFacts DEF ConnectBlock, blocks
  <1>2. /\ chain \in Seq(BlockType) /\ chain # << >>
        /\ a \in Seq(BlockType) /\ a # << >> /\ d \in Seq(BlockType) /\ d # << >>
        /\ op \in [pc : {"linking"}, at : mapBlockIndex, to : mapBlockIndex]
    BY <1>1, LinkFacts, OpFacts DEF Valid, TypeInv
  <1>3. b = SubSeq(d, 1, Len(a) + 1)
    BY <1>1, <1>2
  <1>4. IsPrefix(chain, d) => IsPrefix(chain, a)
    BY <1>1 DEF PathInv
  <1> HIDE DEF a, d, b
  <1>5. b \in Seq(BlockType) /\ b # << >> /\ Len(b) = Len(a) + 1 /\ Len(a) + 1 \in 1..Len(d)
    BY <1>1, <1>2, <1>3, NextFacts
  <1>6. IsPrefix(b, d)
    <2>1. Len(a) \in Nat /\ Len(d) \in Nat /\ Len(b) <= Len(d)
      BY <1>2, <1>5
    <2>2. \A i \in 1..Len(a) + 1 : b[i] = d[i]
      BY <1>2, <1>3, <1>5, <2>1
    <2> QED
      BY <1>2, <1>5, <2>1, <2>2, PrefixMember
  <1>7. IsPrefix(a, b)
    BY <1>1, <1>5, PrefixFacts
  <1>8. b # chain
    <2>1. ASSUME b = chain PROVE FALSE
      <3>1. IsPrefix(b, a)
        BY <1>4, <1>6, <2>1
      <3>2. ~IsPrefix(b, Front(b))
        BY <1>5, PrefixFacts
      <3> QED
        BY <1>1, <3>1, <3>2
    <2> QED
      BY <2>1
  <1>9. IsPrefix(chain, d) => IsPrefix(chain, b)
    BY <1>2, <1>4, <1>5, <1>7, PrefixTransitive
  <1>10. a = Front(d) => b = d
    <2> SUFFICES ASSUME a = Front(d) PROVE b = d
      OBVIOUS
    <2>1. Len(a) = Len(d) - 1 /\ Len(d) \in Nat
      BY <1>2, FrontFacts
    <2>2. b = SubSeq(d, 1, Len(d))
      BY <1>3, <2>1
    <2> QED
      BY <1>2, <2>2
  <1> QED
    BY <1>1, <1>6, <1>8, <1>9, <1>10 DEF PathInv, a, b, d

LEMMA PathNext == TypeInv /\ PathInv /\ [Next]_vars => PathInv'
  <1> SUFFICES ASSUME TypeInv, PathInv, [Next]_vars PROVE PathInv'
    OBVIOUS
  <1>1. CASE op'.pc # "linking"
    BY <1>1 DEF PathInv
  <1>2. CASE op'.at = chain /\ chain' = chain
    <2>1. IsPrefix(chain, chain)
      BY PrefixFacts DEF TypeInv, IndexInv, Valid
    <2> QED
      BY <1>2, <2>1 DEF PathInv
  <1>3. CASE UNCHANGED <<op, chain>>
    BY <1>3 DEF PathInv
  <1>4. CASE Pay \/ MarkSpent \/ Broadcast
    <2>1. op'.pc # "linking"
      <3>1. CASE Pay
        BY <3>1, PayFacts
      <3>2. CASE MarkSpent
        BY <3>2, OpFacts DEF MarkSpent, TypeInv
      <3>3. CASE Broadcast
        BY <3>3 DEF Broadcast, Idle
      <3> QED
        BY <1>4, <3>1, <3>2, <3>3
    <2> QED
      BY <1>1, <2>1
  <1>5. CASE ReceiveBlock \/ SyncCheckpoint
    <2>1. (op'.at = chain \/ op' = op) /\ chain' = chain
      BY <1>5, ReceiveFacts
    <2> QED
      BY <1>2, <1>3, <2>1
  <1>6. CASE SignBlock \/ StakeRejected \/ UNCHANGED vars
    BY <1>3, <1>6 DEF SignBlock, StakeRejected, vars, blocks
  <1>7. CASE CheckStake
    BY <1>2, <1>7, TypeCheckStake
  <1>8. CASE DisconnectBlock
    BY <1>8, PathDisconnectBlock
  <1>9. CASE ConnectBlock
    BY <1>9, PathConnectBlock
  <1>10. CASE CommitBlock \/ CommitReorganize \/ AbortReorganize \/ Crash
    BY <1>1, <1>10 DEF CommitBlock, CommitReorganize, AbortReorganize, Crash, Idle
  <1>11. CASE Repair
    BY <1>3, <1>11 DEF Repair, blocks
  <1> QED
    BY <1>4, <1>5, <1>6, <1>7, <1>8, <1>9, <1>10, <1>11 DEF Next
-----------------------------------------------------------------------------
(* Payments with -confchange *)

LEMMA DeepConfirmed ==
    ASSUME TypeInv, NEW t \in Tx, Depth(t) >= 1
    PROVE  t \in Confirmed(chain)
  <1>1. mapWallet[t] # NoBlock /\ IsPrefix(mapWallet[t], chain)
    <2>1. ASSUME ~(mapWallet[t] # NoBlock /\ IsPrefix(mapWallet[t], chain)) PROVE FALSE
      <3>1. Depth(t) \in {0, -1}
        BY <2>1 DEF Depth
      <3> QED
        BY <3>1
    <2> QED
      BY <2>1
  <1>2. /\ mapWallet \in Seq(mapBlockIndex \cup {NoBlock}) /\ t \in 1..Len(mapWallet)
        /\ t \in Last(mapWallet[t]).vtx
    BY <1>1, TxFacts DEF TypeInv, WalletInv
  <1>3. PICK c : c = mapWallet[t]
    OBVIOUS
  <1>4. c \in mapBlockIndex /\ t \in Last(c).vtx /\ IsPrefix(c, chain)
    BY <1>1, <1>2, <1>3
  <1>5. c \in Seq(BlockType) /\ c # << >> /\ chain \in Seq(BlockType)
    BY <1>4 DEF TypeInv, IndexInv, Valid
  <1>6. Len(c) <= Len(chain) /\ chain[Len(c)] = c[Len(c)] /\ Len(c) \in DOMAIN chain
    <2>1. Len(c) <= Len(chain) /\ \A i \in 1..Len(c) : c[i] = chain[i]
      BY <1>4, <1>5, PrefixMember
    <2>2. Len(c) \in Nat \ {0} /\ Len(chain) \in Nat
      BY <1>5
    <2> QED
      BY <1>5, <2>1, <2>2
  <1> QED
    BY <1>4, <1>6, ConfirmedMember DEF Last

(* Only confirmed transactions are trusted. *)
LEMMA TrustedDeep ==
    ASSUME fConfChange, NEW c \in Tx, IsTrusted[c]
    PROVE  Depth(c) >= 1
  <1> DEFINE E(f) == [t \in Tx |-> \/ Depth(t) >= 1
                                   \/ /\ Depth(t) = 0 /\ ~fConfChange
                                      /\ tx[t].spends # None /\ f[tx[t].spends[1]]]
             g == [t \in Tx |-> Depth(t) >= 1]
  <1>1. g = E(g)
    <2> DEFINE D(t) == Depth(t) >= 1
               F(t) == \/ Depth(t) >= 1
                       \/ /\ Depth(t) = 0 /\ ~fConfChange
                          /\ tx[t].spends # None /\ g[tx[t].spends[1]]
    <2>1. \A t \in Tx : D(t) = F(t)
      <3> SUFFICES ASSUME NEW t \in Tx PROVE D(t) = F(t)
        OBVIOUS
      <3>1. CASE Depth(t) >= 1
        BY <3>1, Zenon
      <3>2. CASE ~(Depth(t) >= 1)
        <4>1. D(t) = FALSE
          BY <3>2, SMT
        <4>2. ~F(t)
          BY <3>2, Zenon
        <4>3. F(t) = FALSE
          BY <4>2, Zenon
        <4> QED
          BY <4>1, <4>3, Zenon
      <3> QED
        BY <3>1, <3>2, Zenon
    <2>2. [t \in Tx |-> D(t)] = [t \in Tx |-> F(t)]
      <3> HIDE DEF D, F
      <3> QED
        BY <2>1
    <2> QED
      BY <2>2, Zenon
  <1>2. IsTrusted = CHOOSE f : f = E(f)
    BY DEF IsTrusted
  <1>3. IsTrusted = E(IsTrusted)
    <2> HIDE DEF E, g
    <2> QED
      BY <1>1, <1>2
  <1> QED
    BY <1>3

LEMMA ConfPay ==
    ASSUME TypeInv, ConfInv, Pay, Undisturbed'
    PROVE  ConfInv'
  <1>1. PICK c \in AvailableCoins :
              /\ c \in Coins \ vfSpent /\ IsTrusted[c[1]] /\ c[1] \in Tx /\ c # None
              /\ op = Idle /\ op'.pc = "recorded" /\ op'.t \notin Tx
              /\ Tx' = Tx \cup {op'.t} /\ Pays' = Pays \cup {op'.t} /\ tx'[op'.t].spends = c
              /\ \A t \in Tx : tx'[t] = tx[t]
              /\ UNCHANGED <<chain, mempool, vfSpent, fConfChange, faults, phantom>>
    BY PayFacts
  <1>2. fConfChange /\ faults = {} /\ op.pc = "idle"
    BY <1>1 DEF Undisturbed, Idle
  <1>3. /\ \A t \in Pays : tx[t].spends[1] \in Confirmed(chain)
        /\ \A t \in Pays \cup Where : tx[t].spends = None \/ tx[t].spends \in vfSpent
    BY <1>2 DEF ConfInv, Undisturbed
  <1>4. c[1] \in Confirmed(chain)
    BY <1>1, <1>2, TrustedDeep, DeepConfirmed
  <1>5. /\ Pays \subseteq Tx /\ Confirmed(chain) \subseteq Tx /\ mempool \subseteq Tx
        /\ Where = Confirmed(chain) /\ Where' = Confirmed(chain)
        /\ Confirmed(chain)' = Confirmed(chain) /\ None' = None
    BY <1>1, <1>2, WhereFacts DEF Pays, TypeInv, WalletInv, Where, Confirmed, None
  <1>6. \A t \in Pays' : tx'[t].spends[1] \in Confirmed(chain)
    BY <1>1, <1>3, <1>4, <1>5
  <1>7. \A t \in Pays' \cup Confirmed(chain) :
              tx'[t].spends = None \/ tx'[t].spends \in vfSpent \/ t = op'.t
    BY <1>1, <1>3, <1>5
  <1>8. \A u \in Pays' \cup Confirmed(chain) : tx'[u].spends = c => u = op'.t
    BY <1>1, <1>7
  <1>9. op'.t \notin mempool \cup Confirmed(chain)
    BY <1>1, <1>5
  <1> QED
    BY <1>1, <1>5, <1>6, <1>7, <1>8, <1>9 DEF ConfInv

(* A step after which no payment is in work, and no more is spent *)
LEMMA ConfKept ==
    ASSUME TypeInv, ConfInv, Undisturbed, Pays' = Pays, \A t \in Tx : tx'[t] = tx[t],
           Where' = Where, vfSpent' = vfSpent, Confirmed(chain) \subseteq Confirmed(chain'),
           op.pc # "recorded", op'.pc \notin {"recorded", "marked"},
           op'.pc = "linking" => op'.at \in {chain', op'.to}
    PROVE  ConfInv'
  <1>1. /\ \A t \in Pays : tx[t].spends[1] \in Confirmed(chain)
        /\ \A t \in Pays \cup Where : tx[t].spends = None \/ tx[t].spends \in vfSpent
    BY DEF ConfInv
  <1>2. Pays \subseteq Tx /\ Where \subseteq Tx /\ Confirmed(chain)' = Confirmed(chain') /\ None' = None
    BY WhereFacts DEF Pays, Confirmed, None
  <1> QED
    BY <1>1, <1>2 DEF ConfInv

LEMMA ConfMarkSpent ==
    ASSUME TypeInv, ConfInv, MarkSpent, Undisturbed'
    PROVE  ConfInv'
  <1>1. /\ op.pc = "recorded" /\ op'.pc = "marked" /\ op'.t = op.t
        /\ vfSpent' = vfSpent \cup {tx[op.t].spends}
        /\ UNCHANGED <<tx, chain, mempool, fConfChange, faults>>
    BY OpFacts DEF MarkSpent, TypeInv, blocks, history
  <1>2. Undisturbed
    BY <1>1 DEF Undisturbed
  <1>3. Tx' = Tx /\ Pays' = Pays /\ Confirmed(chain)' = Confirmed(chain) /\ Where' = Where /\ None' = None
    BY <1>1 DEF Tx, Pays, Confirmed, Where, None
  <1> QED
    BY <1>1, <1>2, <1>3 DEF ConfInv

LEMMA ConfConnectBlock ==
    ASSUME TypeInv, PathInv, ConfInv, ConnectBlock, Undisturbed'
    PROVE  ConfInv'
  <1> DEFINE S == Last(op'.at).vtx
  <1>1. /\ op.pc = "linking" /\ op'.pc = "linking" /\ op'.to = op.to /\ op.at # op.to
        /\ op'.at \in mapBlockIndex /\ Len(op'.at) > 1 /\ Front(op'.at) = op.at
        /\ Where = Confirmed(op.at) /\ Where' = Where \cup S
        /\ vfSpent' = Connected(S, vfSpent)
        /\ UNCHANGED <<tx, chain, mempool, fConfChange, faults>>
    BY ConnectFacts
  <1>2. fConfChange /\ faults = {} /\ Front(op.to) = chain
    BY <1>1, PathConnectBlock DEF Undisturbed
  <1>3. op.at = chain /\ op'.at = op.to
    BY <1>1, <1>2, PathConnectBlock DEF ConfInv, Undisturbed
  <1>4. /\ \A t \in Pays : tx[t].spends[1] \in Where
        /\ \A t \in Pays \cup Where : tx[t].spends = None \/ tx[t].spends \in vfSpent
    BY <1>1, <1>2, <1>3 DEF ConfInv, Undisturbed
  <1>5. /\ Pays \subseteq Tx /\ Where \subseteq Tx /\ S \subseteq Tx
        /\ \A t \in S : t \notin Where
        /\ \A t \in Where : tx[t].kind # "fund" => tx[t].spends[1] \in Where
    BY <1>1, WhereFacts, LastFacts, ValidFacts DEF Pays, TypeInv, IndexInv
  <1>6. Tx' = Tx /\ Pays' = Pays /\ Confirmed(chain)' = Confirmed(chain) /\ None' = None
    BY <1>1 DEF Tx, Pays, Confirmed, None
  <1> HIDE DEF S
  <1>7. ASSUME NEW t \in Pays \cup Where' PROVE tx[t].spends = None \/ tx[t].spends \in vfSpent'
    <2>1. CASE t \in S
      <3>1. tx[t].spends = None \/ tx[t].spends \in Spends(S)
        BY <2>1, SpendsMember
      <3> QED
        BY <1>1, <3>1 DEF Connected
    <2>2. CASE t \in Pays \cup Where /\ tx[t].spends # None
      <3>1. tx[t].kind # "fund" /\ t \in Tx
        BY <1>5, <2>2 DEF TypeInv, TxInv
      <3>2. tx[t].spends[1] \notin S
        BY <1>4, <1>5, <2>2, <3>1
      <3>3. tx[t].spends \notin CoinsOf(S)
        BY <1>5, <3>2, TxFacts DEF TypeInv
      <3> QED
        BY <1>1, <1>4, <2>2, <3>3 DEF Connected
    <2> QED
      BY <1>1, <2>1, <2>2
  <1> QED
    BY <1>1, <1>3, <1>4, <1>6, <1>7 DEF ConfInv

LEMMA ConfCommitBlock ==
    ASSUME TypeInv, ConfInv, CommitBlock, Undisturbed'
    PROVE  ConfInv'
  <1>1. /\ op.pc = "linking" /\ op.at = op.to /\ Front(op.to) = chain
        /\ chain' = op.to /\ op'.pc = "idle"
        /\ UNCHANGED <<tx, vfSpent, fConfChange, faults>>
    BY DEF CommitBlock, Idle
  <1>2. Undisturbed
    BY <1>1 DEF Undisturbed
  <1>3. Confirmed(chain) \subseteq Confirmed(chain')
    BY <1>1, LinkFacts, FrontFacts
  <1>4. Pays' = Pays /\ Where' = Where
    BY <1>1 DEF Tx, Pays, Where, Confirmed
  <1> QED
    BY <1>1, <1>2, <1>3, <1>4, ConfKept

LEMMA ConfNext == TypeInv /\ PathInv /\ ConfInv /\ [Next]_vars => ConfInv'
  <1> SUFFICES ASSUME TypeInv, PathInv, ConfInv, [Next]_vars, Undisturbed' PROVE ConfInv'
    BY DEF ConfInv
  <1>c. Confirmed(chain)' = Confirmed(chain')
    BY DEF Confirmed
  <1>s. UNCHANGED tx => Pays' = Pays /\ Tx' = Tx
    BY DEF Pays, Tx
  <1>1. CASE Pay
    BY <1>1, ConfPay
  <1>2. CASE MarkSpent
    BY <1>2, ConfMarkSpent
  <1>3. CASE Broadcast
    <2>1. /\ op.pc = "marked" /\ op'.pc = "idle"
          /\ UNCHANGED <<tx, chain, vfSpent, fConfChange, faults>>
      BY <1>3 DEF Broadcast, blocks, history, Idle
    <2>2. Undisturbed /\ Where' = Where
      BY <1>c, <2>1 DEF Undisturbed, Where
    <2> QED
      BY <1>s, <2>1, <2>2, ConfKept
  <1>4. CASE ReceiveBlock \/ SyncCheckpoint
    <2>1. /\ op.pc = "idle"
          /\ op' # op => op'.pc = "linking" /\ op'.at = chain
          /\ UNCHANGED <<tx, chain, vfSpent, fConfChange, faults>>
      BY <1>4, ReceiveFacts DEF Idle
    <2>2. Undisturbed /\ Where' = Where
      BY <1>c, <2>1 DEF Undisturbed, Where
    <2> QED
      BY <1>s, <2>1, <2>2, ConfKept
  <1>5. CASE SignBlock \/ StakeRejected \/ UNCHANGED vars
    <2>1. UNCHANGED <<tx, chain, op, vfSpent, fConfChange, faults>>
      BY <1>5 DEF SignBlock, StakeRejected, vars, blocks, history
    <2>2. UNCHANGED mempool
      BY <1>5 DEF SignBlock, StakeRejected, vars
    <2>3. Undisturbed /\ Where' = Where /\ None' = None
      BY <1>c, <2>1 DEF Undisturbed, Where, None
    <2> QED
      BY <1>c, <1>s, <2>1, <2>2, <2>3 DEF ConfInv
  <1>6. CASE CheckStake
    <2>1. /\ op.pc = "idle" /\ op'.pc = "linking" /\ op'.at = chain
          /\ Pays' = Pays /\ \A t \in Tx : tx'[t] = tx[t]
          /\ UNCHANGED <<chain, vfSpent, fConfChange, faults>>
      BY <1>6, TypeCheckStake DEF Idle
    <2>2. Undisturbed /\ Where' = Where
      BY <1>c, <2>1 DEF Undisturbed, Where
    <2> QED
      BY <2>1, <2>2, ConfKept
  <1>7. CASE DisconnectBlock
    <2>1. /\ op.pc = "linking" /\ op'.pc = "linking" /\ op'.to = op.to /\ op'.at # chain
          /\ ~IsPrefix(op.at, op.to)
          /\ UNCHANGED <<chain, fConfChange, faults>>
      BY <1>7, DisconnectFacts, PathDisconnectBlock DEF DisconnectBlock
    <2>2. Front(op.to) = chain
      BY <2>1 DEF Undisturbed
    <2>3. op.at \in {chain, op.to}
      BY <2>1, <2>2 DEF Undisturbed, ConfInv
    <2>4. IsPrefix(chain, op.to) /\ IsPrefix(op.to, op.to)
      BY <2>1, <2>2, LinkFacts, PrefixFacts
    <2> QED
      BY <2>1, <2>3, <2>4
  <1>8. CASE ConnectBlock
    BY <1>8, ConfConnectBlock
  <1>9. CASE CommitBlock
    BY <1>9, ConfCommitBlock
  <1>10. CASE CommitReorganize \/ Crash \/ Repair
    BY <1>10 DEF CommitReorganize, Crash, Repair, Undisturbed
  <1>11. CASE AbortReorganize
    <2>1. /\ op.pc = "linking" /\ op'.pc = "idle" /\ op.at = chain
          /\ UNCHANGED <<tx, chain, vfSpent, fConfChange, faults>>
      BY <1>11 DEF AbortReorganize, Undisturbed, blocks, Idle
    <2>2. Undisturbed /\ Where' = Where
      BY <1>c, <2>1 DEF Undisturbed, Where
    <2> QED
      BY <1>s, <2>1, <2>2, ConfKept
  <1> QED
    BY <1>1, <1>2, <1>3, <1>4, <1>5, <1>6, <1>7, <1>8, <1>9, <1>10, <1>11 DEF Next
-----------------------------------------------------------------------------
LEMMA InitInv == Init => IndInv
  <1> SUFFICES ASSUME Init PROVE IndInv
    OBVIOUS
  <1>1. TypeInv
    BY TypeInit
  <1>2. op.pc = "idle" /\ vfSpent = {} /\ tx = [t \in Funds |-> [kind |-> "fund", spends |-> None, vout |-> 1]]
    BY DEF Init, Idle
  <1>3. MarkedInv
    BY <1>2 DEF MarkedInv
  <1>4. Len(tx) = nFunds /\ Tx = Funds
    <2>1. nFunds \in Nat
      BY WalletAssumption
    <2> QED
      BY <1>2, <2>1 DEF Tx, Funds
  <1>5. /\ \A t \in Tx : tx[t].kind = "fund" /\ tx[t].spends = None
        /\ Pays = {} /\ Where \subseteq Tx
    BY <1>1, <1>2, <1>4, WhereFacts DEF Pays
  <1>6. KnownInv /\ PathInv
    BY <1>2, <1>5 DEF KnownInv, PathInv
  <1>7. ConfInv
    BY <1>2, <1>5 DEF ConfInv
  <1> QED
    BY <1>1, <1>3, <1>6, <1>7 DEF IndInv

(* The index holds valid blocks, and the wallet's flags and records stay   *)
(* those of the chain, the payments and the stakes that were given up, in  *)
(* every reachable state.                                                  *)
THEOREM Invariance == Spec => []IndInv
  <1>1. Init => IndInv
    BY InitInv
  <1>2. IndInv /\ [Next]_vars => IndInv'
    BY TypeNext, FlagsNext, PathNext, ConfNext DEF IndInv
  <1> QED
    BY <1>1, <1>2, PTL DEF Spec

(* The wallet has a record of every transaction that it made or that a     *)
(* block brought it, and each that names a block names one that has it.    *)
THEOREM TypeCorrect == Spec => []TypeOK
  <1>1. IndInv => TypeOK
    <2> SUFFICES ASSUME IndInv PROVE TypeOK
      OBVIOUS
    <2>1. TypeInv
      BY DEF IndInv
    <2>2. \A t \in Tx : tx[t].kind \in {"fund", "pay", "stake"} /\ tx[t].spends[1] \in 0..t - 1
      <3> SUFFICES ASSUME NEW t \in Tx
                   PROVE  tx[t].kind \in {"fund", "pay", "stake"} /\ tx[t].spends[1] \in 0..t - 1
        OBVIOUS
      <3>1. t \in 1..Len(tx) /\ Len(tx) \in Nat /\ tx[t].kind \in {"fund", "pay", "stake"}
        BY <2>1, TxFacts DEF TypeInv
      <3>2. tx[t].kind = "fund" => tx[t].spends[1] = 0
        BY <2>1 DEF TypeInv, TxInv, None
      <3>3. tx[t].kind # "fund" => tx[t].spends[1] \in 1..t - 1
        BY <2>1 DEF TypeInv, TxInv
      <3> QED
        BY <3>1, <3>2, <3>3
    <2>3. chain \in mapBlockIndex /\ mempool \subseteq Pays /\ vfSpent \subseteq Coins
      BY <2>1 DEF TypeInv, IndexInv, WalletInv
    <2>4. /\ DOMAIN mapWallet = Tx
          /\ \A t \in Tx : mapWallet[t] # NoBlock => mapWallet[t] \in mapBlockIndex /\ t \in Last(mapWallet[t]).vtx
      <3>1. /\ mapWallet \in Seq(mapBlockIndex \cup {NoBlock}) /\ Len(mapWallet) = Len(tx)
            /\ \A t \in Tx : mapWallet[t] # NoBlock => t \in Last(mapWallet[t]).vtx
        BY <2>1 DEF TypeInv, WalletInv
      <3> QED
        BY <3>1 DEF Tx
    <2> QED
      BY <2>2, <2>3, <2>4 DEF TypeOK
  <1> QED
    BY <1>1, Invariance, PTL

(* No coin is lost to reorganisations, in and out of branches with stakes  *)
(* of the wallet, through aborts, crashes and repairs, but the coin of a   *)
(* stake that the wallet was told of in a branch that was given up.        *)
THEOREM MarkedCoinsAreSpent == Spec => []CoinsNotLost
  <1>1. IndInv => CoinsNotLost
    <2> SUFFICES ASSUME IndInv, op = Idle, NEW c \in vfSpent
                 PROVE  c \in Spends(Pays \cup Confirmed(chain) \cup phantom)
      BY DEF CoinsNotLost
    <2>1. Where = Confirmed(chain)
      BY DEF Where, Idle
    <2>2. c # None
      BY TxFacts DEF IndInv, TypeInv, WalletInv
    <2> QED
      BY <2>1, <2>2, SpendsMember DEF IndInv, MarkedInv
  <1> QED
    BY <1>1, Invariance, PTL

(* Whatever blocks come and go, the wallet knows its coins that the chain  *)
(* spends, as long as no branch failed; after a restart, all but the       *)
(* second halves of split stakes.                                          *)
THEOREM SpentCoinsAreMarked == Spec => []SpentCoinsKnown
  <1>1. IndInv => SpentCoinsKnown
    <2> SUFFICES ASSUME IndInv, op = Idle, "badreorg" \notin faults, NEW c \in Spends(Confirmed(chain))
                 PROVE  c \in vfSpent \/ (c[2] = 2 /\ "crash" \in faults)
      BY DEF SpentCoinsKnown
    <2>1. Where = Confirmed(chain)
      BY DEF Where, Idle
    <2>2. c # None /\ \E t \in Where : tx[t].spends = c
      BY <2>1, SpendsMember
    <2> QED
      BY <2>2 DEF IndInv, KnownInv
  <1> QED
    BY <1>1, Invariance, PTL

(* CommitTransaction "must not fail", and with -confchange it does not     *)
(* while there is no reorganization, crash or repair: the memory pool      *)
(* takes every payment that the wallet makes.                              *)
THEOREM OwnPaymentsAccepted == Spec => []CommitSucceeds
  <1>1. IndInv => CommitSucceeds
    <2> SUFFICES ASSUME IndInv, fConfChange, faults = {}, op.pc = "marked"
                 PROVE  Acceptable(op.t, mempool)
      BY DEF CommitSucceeds
    <2>1. /\ op.t \in Pays /\ op.t \notin mempool \cup Confirmed(chain)
          /\ mempool \subseteq Pays
          /\ tx[op.t].spends[1] \in Confirmed(chain)
          /\ \A u \in Pays \cup Confirmed(chain) : tx[u].spends = tx[op.t].spends => u = op.t
      BY OpFacts DEF IndInv, ConfInv, Undisturbed, TypeInv, WalletInv
    <2>2. tx[op.t].spends \notin Spends(Confirmed(chain) \cup mempool)
      BY <2>1, SpendsMember
    <2> QED
      BY <2>1, <2>2 DEF Acceptable
  <1> QED
    BY <1>1, Invariance, PTL
=============================================================================
