---------------------------- MODULE AddrManProofs ----------------------------
(***************************************************************************)
(* Theorems about AddrMan and AddrDB, for any addresses, buckets, bucket   *)
(* sizes and keyed hashes.                                                 *)
(***************************************************************************)
EXTENDS AddrDB, FiniteSetTheorems, TLAPS

Entries(m) == DOMAIN m.mapInfo
Untried(m) == {id \in Entries(m) : ~ m.mapInfo[id].fInTried}
Tried(m) == {id \in Entries(m) : m.mapInfo[id].fInTried}
BucketsOf(m, id) == {b \in NewBucket : id \in m.vvNew[b]}
TriedBucketOf(m, id) == GetTriedBucket[m.mapInfo[id].addr]

InfoType ==
    [addr : Service, source : Source, nLastSuccess : Time \cup {0},
     nRefCount : Int, fInTried : BOOLEAN, nRandomPos : Nat]

InfoMaps == UNION {[D -> InfoType] : D \in SUBSET Nat}
HostMaps == [NetAddr -> Nat \cup {NoId}]
IdLists == Seq(Nat)
TriedTables == [TriedBucket -> Seq(Nat)]
NewTables == [NewBucket -> SUBSET Nat]

Table ==
    [nIdCount : Nat, mapInfo : InfoMaps, mapAddr : HostMaps, vRandom : IdLists,
     nTried : Int, vvTried : TriedTables, nNew : Int, vvNew : NewTables]

TableType(m) == m \in Table /\ Entries(m) \subseteq 0..(m.nIdCount - 1)

(* vRandom and the positions of the entries are inverses of each other. *)
RandomInv(m) ==
    /\ Len(m.vRandom) = Cardinality(Entries(m))
    /\ \A p \in 1..Len(m.vRandom) :
          m.vRandom[p] \in Entries(m) /\ m.mapInfo[m.vRandom[p]].nRandomPos = p
    /\ \A id \in Entries(m) :
          /\ m.mapInfo[id].nRandomPos \in 1..Len(m.vRandom)
          /\ m.vRandom[m.mapInfo[id].nRandomPos] = id

AddrInv(m) ==
    /\ \A id \in Entries(m) : m.mapAddr[addrOf[m.mapInfo[id].addr]] = id
    /\ \A a \in NetAddr : m.mapAddr[a] # NoId =>
          m.mapAddr[a] \in Entries(m) /\ addrOf[m.mapInfo[m.mapAddr[a]].addr] = a

(* The new buckets and the counts of references.  The entries of X are on  *)
(* their way from one table to the other and in neither.                   *)
NewInv(m, X) ==
    /\ X \subseteq Untried(m)
    /\ \A b \in NewBucket : m.vvNew[b] \subseteq Untried(m)
    /\ \A id \in Entries(m) : m.mapInfo[id].nRefCount = Cardinality(BucketsOf(m, id))
    /\ \A id \in Untried(m) \ X : m.mapInfo[id].nRefCount \in 1..NEW_BUCKETS_PER_ADDRESS
    /\ \A id \in X : m.mapInfo[id].nRefCount = 0

(* A tried entry is once in the bucket of its hash and in no other. *)
TriedInv(m) ==
    /\ \A k \in TriedBucket : \A p \in 1..Len(m.vvTried[k]) :
          /\ m.vvTried[k][p] \in Tried(m)
          /\ TriedBucketOf(m, m.vvTried[k][p]) = k
          /\ \A q \in 1..Len(m.vvTried[k]) : m.vvTried[k][p] = m.vvTried[k][q] => p = q
    /\ \A id \in Tried(m) :
          /\ \E p \in 1..Len(m.vvTried[TriedBucketOf(m, id)]) :
                m.vvTried[TriedBucketOf(m, id)][p] = id
          /\ m.mapInfo[id].nLastSuccess # 0

NewSizes(m) == \A b \in NewBucket : Cardinality(m.vvNew[b]) <= NEW_BUCKET_SIZE

TriedSizes(m) == \A k \in TriedBucket : Len(m.vvTried[k]) <= TRIED_BUCKET_SIZE

CountsInv(m, X) ==
    /\ m.nTried = Cardinality(Tried(m))
    /\ m.nNew = Cardinality(Untried(m) \ X)

TablesInv(m, X) ==
    /\ TableType(m) /\ RandomInv(m) /\ AddrInv(m) /\ NewInv(m, X) /\ TriedInv(m)
    /\ NewSizes(m) /\ TriedSizes(m) /\ CountsInv(m, X)

Moving == IF Selecting THEN {busy.nId} ELSE {}

(* The shuffle in progress: the entry that moves has a bucket to go to,    *)
(* which has one to evict, and the bucket it left has room for that.       *)
BusyInv ==
    /\ busy \in Shuffle \cup {None}
    /\ Answering => busy.n > 0
    /\ Selecting =>
          /\ busy.nId \in Entries(am)
          /\ busy.nKBucket = TriedBucketOf(am, busy.nId)
          /\ am.mapInfo[busy.nId].nLastSuccess # 0
          /\ Cardinality(am.vvNew[busy.nOrigin]) < NEW_BUCKET_SIZE
          /\ Len(am.vvTried[busy.nKBucket]) > 0
          /\ busy.i > 0
          /\ busy.i = 1 => busy.nOldest = NoId
          /\ busy.i > 1 => busy.nOldestPos \in 1..Len(am.vvTried[busy.nKBucket])

AddrManInv == am.nIdCount <= MaxId /\ TablesInv(am, Moving) /\ BusyInv

-----------------------------------------------------------------------------
(* The constants. *)

LEMMA ConstantTypes ==
    /\ NEW_BUCKET_SIZE \in Nat \ {0} /\ TRIED_BUCKET_SIZE \in Nat \ {0}
    /\ NEW_BUCKETS_PER_ADDRESS \in Nat \ {0} /\ TRIED_ENTRIES_INSPECT_ON_EVICT \in Nat \ {0}
    /\ MaxId \in Nat
    /\ \A s \in Service : addrOf[s] \in NetAddr /\ GetTriedBucket[s] \in TriedBucket
    /\ \A a \in NetAddr, src \in Source : GetNewBucket[<<a, src>>] \in NewBucket
    /\ NoId \notin Nat
    /\ \A t \in Time : t \in Nat \ {0}
    /\ IsFiniteSet(NewBucket)
  <1>1. {NEW_BUCKET_SIZE, TRIED_BUCKET_SIZE, NEW_BUCKETS_PER_ADDRESS,
         TRIED_ENTRIES_INSPECT_ON_EVICT} \subseteq Nat \ {0}
    BY AddrAssumption
  <1>2. \A a \in NetAddr, src \in Source : GetNewBucket[<<a, src>>] \in NewBucket
    BY AddrAssumption
  <1> QED BY <1>1, <1>2, AddrAssumption

LEMMA InfoMapsType ==
    ASSUME NEW f
    PROVE  f \in InfoMaps <=> f \in [DOMAIN f -> InfoType] /\ DOMAIN f \subseteq Nat
  BY DEF InfoMaps

LEMMA TableFields ==
    ASSUME NEW m, TableType(m)
    PROVE  /\ m \in Table
           /\ m.nIdCount \in Nat /\ m.nIdCount \notin Entries(m)
           /\ m.mapInfo \in [Entries(m) -> InfoType] /\ m.mapInfo \in InfoMaps
           /\ Entries(m) \subseteq Nat
           /\ \A id \in Entries(m) : 0 <= id /\ id < m.nIdCount
           /\ m.mapAddr \in [NetAddr -> Nat \cup {NoId}]
           /\ m.vRandom \in Seq(Nat) /\ Len(m.vRandom) \in Nat
           /\ m.nTried \in Int /\ m.nNew \in Int
           /\ m.vvTried \in [TriedBucket -> Seq(Nat)]
           /\ m.vvNew \in [NewBucket -> SUBSET Nat]
  <1>1. /\ m.nIdCount \in Nat /\ m.mapInfo \in InfoMaps /\ m.mapAddr \in HostMaps
        /\ m.vRandom \in IdLists /\ m.nTried \in Int /\ m.nNew \in Int
        /\ m.vvTried \in TriedTables /\ m.vvNew \in NewTables
    BY DEF TableType, Table
  <1>2. m.mapInfo \in [Entries(m) -> InfoType] /\ Entries(m) \subseteq Nat
    BY <1>1, InfoMapsType DEF Entries
  <1>3. \A id \in Entries(m) : 0 <= id /\ id < m.nIdCount
    BY <1>1, <1>2 DEF TableType
  <1>4. m.nIdCount \notin Entries(m)
    BY <1>1, <1>3
  <1>5. m.vRandom \in Seq(Nat) /\ Len(m.vRandom) \in Nat
    BY <1>1 DEF IdLists
  <1> QED
    BY <1>1, <1>2, <1>3, <1>4, <1>5 DEF TableType, HostMaps, TriedTables, NewTables

LEMMA PeerTypes ==
    ASSUME NEW m, TableType(m), NEW id \in Entries(m)
    PROVE  /\ m.mapInfo[id].addr \in Service /\ m.mapInfo[id].source \in Source
           /\ addrOf[m.mapInfo[id].addr] \in NetAddr
           /\ TriedBucketOf(m, id) \in TriedBucket
           /\ m.mapInfo[id].nLastSuccess \in Time \cup {0}
           /\ m.mapInfo[id].fInTried \in BOOLEAN
  <1>1. m.mapInfo[id] \in InfoType
    BY TableFields
  <1> QED BY <1>1, ConstantTypes DEF InfoType, TriedBucketOf

LEMMA EntriesFinite ==
    ASSUME NEW m, TableType(m)
    PROVE  /\ IsFiniteSet(Entries(m)) /\ IsFiniteSet(Tried(m)) /\ IsFiniteSet(Untried(m))
           /\ \A S : S \subseteq Entries(m) => IsFiniteSet(S)
           /\ \A id : IsFiniteSet(BucketsOf(m, id))
           /\ Entries(m) = Tried(m) \cup Untried(m) /\ Tried(m) \cap Untried(m) = {}
  <1>1. IsFiniteSet(0..(m.nIdCount - 1))
    BY TableFields, m.nIdCount - 1 \in Int, FS_Interval
  <1>2. IsFiniteSet(Entries(m))
    BY <1>1, FS_Subset DEF TableType
  <1>3. Entries(m) = Tried(m) \cup Untried(m) /\ Tried(m) \cap Untried(m) = {}
    BY DEF Tried, Untried
  <1>4. \A S : S \subseteq Entries(m) => IsFiniteSet(S)
    BY <1>2, FS_Subset
  <1>5. \A id : IsFiniteSet(BucketsOf(m, id))
    BY ConstantTypes, FS_Subset DEF BucketsOf
  <1> QED BY <1>2, <1>3, <1>4, <1>5

-----------------------------------------------------------------------------
(* What the operators do to the fields. *)

(* The same peer, *)
SamePeer(e, f) == e.addr = f.addr /\ e.source = f.source /\ e.nLastSuccess = f.nLastSuccess

(* in the same tables. *)
SamePlaces(e, f) == e.nRefCount = f.nRefCount /\ e.fInTried = f.fInTried

LEMMA InfoPos ==
    ASSUME NEW e \in InfoType, NEW n \in Nat
    PROVE  LET f == [e EXCEPT !.nRandomPos = n] IN
           f \in InfoType /\ SamePeer(f, e) /\ SamePlaces(f, e) /\ f.nRandomPos = n
  BY DEF InfoType, SamePeer, SamePlaces

LEMMA InfoRefCount ==
    ASSUME NEW e \in InfoType, NEW n \in Int
    PROVE  LET f == [e EXCEPT !.nRefCount = n] IN
           /\ f \in InfoType /\ SamePeer(f, e) /\ f.nRefCount = n
           /\ f.fInTried = e.fInTried /\ f.nRandomPos = e.nRandomPos
  BY DEF InfoType, SamePeer

LEMMA InfoTried ==
    ASSUME NEW e \in InfoType, NEW t \in BOOLEAN
    PROVE  LET f == [e EXCEPT !.fInTried = t] IN
           /\ f \in InfoType /\ SamePeer(f, e) /\ f.fInTried = t
           /\ f.nRefCount = e.nRefCount /\ f.nRandomPos = e.nRandomPos
  BY DEF InfoType, SamePeer

LEMMA InfoSuccess ==
    ASSUME NEW e \in InfoType, NEW t \in Time
    PROVE  LET f == [e EXCEPT !.nLastSuccess = t] IN
           /\ f \in InfoType /\ SamePlaces(f, e) /\ f.nLastSuccess = t
           /\ f.addr = e.addr /\ f.source = e.source /\ f.nRandomPos = e.nRandomPos
  BY DEF InfoType, SamePlaces

LEMMA Prefix ==
    ASSUME NEW S, NEW q \in Seq(S), NEW n \in Nat, n <= Len(q)
    PROVE  LET p == SubSeq(q, 1, n) IN
           p \in Seq(S) /\ Len(p) = n /\ \A i \in 1..n : p[i] = q[i]
  OBVIOUS

LEMMA InfoUpdate ==
    ASSUME NEW D, NEW f \in [D -> InfoType], NEW x \in D, NEW e \in InfoType
    PROVE  LET g == [f EXCEPT ![x] = e] IN
           /\ g \in [D -> InfoType]
           /\ \A id \in D : g[id] = IF id = x THEN e ELSE f[id]
  OBVIOUS

LEMMA CreateFields ==
    ASSUME NEW m, TableType(m), NEW s \in Service, NEW src \in Source
    PROVE  LET r == [Create(m, s, src) EXCEPT !.nNew = @ + 1] IN
           /\ TableType(r)
           /\ Entries(r) = Entries(m) \cup {m.nIdCount}
           /\ r.nIdCount = m.nIdCount + 1
           /\ r.mapInfo[m.nIdCount] = Info(s, src, Len(m.vRandom) + 1)
           /\ \A id \in Entries(m) : r.mapInfo[id] = m.mapInfo[id]
           /\ r.mapAddr = [m.mapAddr EXCEPT ![addrOf[s]] = m.nIdCount]
           /\ r.vRandom = Append(m.vRandom, m.nIdCount)
           /\ r.nTried = m.nTried /\ r.vvTried = m.vvTried
           /\ r.nNew = m.nNew + 1 /\ r.vvNew = m.vvNew
  <1> DEFINE new == m.nIdCount
             r == [Create(m, s, src) EXCEPT !.nNew = @ + 1]
             infos == [id \in Entries(m) \cup {new} |->
                            IF id = new THEN Info(s, src, Len(m.vRandom) + 1) ELSE m.mapInfo[id]]
             hosts == [m.mapAddr EXCEPT ![addrOf[s]] = new]
             list == Append(m.vRandom, new)
  <1>1. r = [m EXCEPT !.nIdCount = m.nIdCount + 1, !.mapInfo = infos, !.mapAddr = hosts,
                      !.vRandom = list, !.nNew = m.nNew + 1]
    BY TableFields DEF Table, Create, Entries
  <1>2. infos \in [Entries(m) \cup {new} -> InfoType]
    <2>1. Info(s, src, Len(m.vRandom) + 1) \in InfoType
      BY TableFields DEF Info, InfoType
    <2> QED BY <2>1, TableFields
  <1>3. infos \in InfoMaps /\ DOMAIN infos = Entries(m) \cup {new}
    BY <1>2, TableFields, InfoMapsType
  <1>4. hosts \in HostMaps /\ list \in IdLists
    BY TableFields, ConstantTypes DEF HostMaps, IdLists
  <1>5. infos[new] = Info(s, src, Len(m.vRandom) + 1)
        /\ \A id \in Entries(m) : infos[id] = m.mapInfo[id]
    BY TableFields
  <1> HIDE DEF r, infos, hosts, list
  <1>6. r \in Table
    <2>1. m \in Table /\ m.nIdCount + 1 \in Nat /\ m.nNew + 1 \in Int
      BY TableFields
    <2> QED BY <1>1, <1>3, <1>4, <2>1 DEF Table
  <1>7. /\ r.nIdCount = m.nIdCount + 1 /\ r.mapInfo = infos /\ r.mapAddr = hosts
        /\ r.vRandom = list /\ r.nTried = m.nTried /\ r.vvTried = m.vvTried
        /\ r.nNew = m.nNew + 1 /\ r.vvNew = m.vvNew
    BY <1>1, TableFields DEF Table
  <1>8. Entries(r) = Entries(m) \cup {new}
    BY <1>3, <1>7 DEF Entries
  <1>9. Entries(r) \subseteq 0..(r.nIdCount - 1)
    BY <1>7, <1>8, TableFields
  <1> QED BY <1>5, <1>6, <1>7, <1>8, <1>9 DEF TableType, r, hosts, list

(* The entries at p and q of vRandom have changed places. *)
SwapRel(m, r, p, q) ==
    /\ TableType(r)
    /\ Entries(r) = Entries(m) /\ r.nIdCount = m.nIdCount
    /\ \A id \in Entries(m) :
          /\ SamePeer(r.mapInfo[id], m.mapInfo[id])
          /\ SamePlaces(r.mapInfo[id], m.mapInfo[id])
          /\ r.mapInfo[id].nRandomPos = IF id = m.vRandom[q] THEN p
                                        ELSE IF id = m.vRandom[p] THEN q
                                        ELSE m.mapInfo[id].nRandomPos
    /\ r.vRandom = [m.vRandom EXCEPT ![p] = m.vRandom[q], ![q] = m.vRandom[p]]
    /\ r.mapAddr = m.mapAddr /\ r.nTried = m.nTried /\ r.vvTried = m.vvTried
    /\ r.nNew = m.nNew /\ r.vvNew = m.vvNew

LEMMA SwapFields ==
    ASSUME NEW m, TableType(m), RandomInv(m),
           NEW p \in 1..Len(m.vRandom), NEW q \in 1..Len(m.vRandom)
    PROVE  SwapRel(m, SwapRandom(m, p, q), p, q)
  <1> DEFINE x == m.vRandom[p]
             y == m.vRandom[q]
             r == SwapRandom(m, p, q)
             infos1 == [m.mapInfo EXCEPT ![x].nRandomPos = q]
             infos == [infos1 EXCEPT ![y].nRandomPos = p]
             list1 == [m.vRandom EXCEPT ![p] = y]
             list == [list1 EXCEPT ![q] = x]
  <1>1. r = [[[[m EXCEPT !.mapInfo = infos1] EXCEPT !.mapInfo = infos]
                  EXCEPT !.vRandom = list1] EXCEPT !.vRandom = list]
    BY TableFields DEF Table, SwapRandom
  <1>2. x \in Entries(m) /\ y \in Entries(m)
    BY DEF RandomInv
  <1>3. /\ infos1 \in [Entries(m) -> InfoType]
        /\ \A id \in Entries(m) :
              /\ SamePeer(infos1[id], m.mapInfo[id]) /\ SamePlaces(infos1[id], m.mapInfo[id])
              /\ infos1[id].nRandomPos = IF id = x THEN q ELSE m.mapInfo[id].nRandomPos
    <2> DEFINE e == [m.mapInfo[x] EXCEPT !.nRandomPos = q]
    <2>1. /\ e \in InfoType /\ SamePeer(e, m.mapInfo[x]) /\ SamePlaces(e, m.mapInfo[x])
          /\ e.nRandomPos = q
      <3>1. m.mapInfo[x] \in InfoType /\ q \in Nat
        BY <1>2, TableFields
      <3> QED BY <3>1, InfoPos
    <2>2. infos1 = [m.mapInfo EXCEPT ![x] = e]
      OBVIOUS
    <2> HIDE DEF infos1, e
    <2> QED BY <2>1, <2>2, TableFields DEF SamePeer, SamePlaces
  <1>4. /\ infos \in [Entries(m) -> InfoType]
        /\ \A id \in Entries(m) :
              /\ SamePeer(infos[id], m.mapInfo[id]) /\ SamePlaces(infos[id], m.mapInfo[id])
              /\ infos[id].nRandomPos = IF id = y THEN p ELSE infos1[id].nRandomPos
    <2> DEFINE e == [infos1[y] EXCEPT !.nRandomPos = p]
    <2>1. /\ e \in InfoType /\ SamePeer(e, infos1[y]) /\ SamePlaces(e, infos1[y])
          /\ e.nRandomPos = p
      <3>1. infos1[y] \in InfoType /\ p \in Nat
        BY <1>2, <1>3, TableFields
      <3> QED BY <3>1, InfoPos
    <2>2. infos = [infos1 EXCEPT ![y] = e]
      OBVIOUS
    <2> HIDE DEF infos1, infos, e
    <2>3. /\ infos \in [Entries(m) -> InfoType]
          /\ \A id \in Entries(m) : infos[id] = IF id = y THEN e ELSE infos1[id]
      BY <1>3, <2>1, <2>2
    <2> QED BY <1>3, <2>1, <2>3 DEF SamePeer, SamePlaces
  <1>5. /\ infos \in InfoMaps /\ infos1 \in InfoMaps /\ DOMAIN infos = Entries(m)
    BY <1>3, <1>4, TableFields, InfoMapsType
  <1>6. list1 \in IdLists /\ list \in IdLists
    BY TableFields DEF IdLists
  <1> HIDE DEF r, infos, list, infos1, list1
  <1>7. r \in Table
    BY <1>1, <1>5, <1>6, TableFields DEF Table
  <1>8. /\ r.nIdCount = m.nIdCount /\ r.mapInfo = infos /\ r.mapAddr = m.mapAddr
        /\ r.vRandom = list /\ r.nTried = m.nTried /\ r.vvTried = m.vvTried
        /\ r.nNew = m.nNew /\ r.vvNew = m.vvNew
    BY <1>1, TableFields DEF Table
  <1>9. Entries(r) = Entries(m)
    BY <1>5, <1>8 DEF Entries
  <1>10. SwapRel(m, r, p, q)
    BY <1>3, <1>4, <1>7, <1>8, <1>9 DEF TableType, SwapRel, list, list1
  <1> QED BY <1>10 DEF r

LEMMA SwapRandomInv ==
    ASSUME NEW m, TableType(m), RandomInv(m),
           NEW p \in 1..Len(m.vRandom), NEW q \in 1..Len(m.vRandom)
    PROVE  RandomInv(SwapRandom(m, p, q))
  <1> DEFINE r == SwapRandom(m, p, q)
  <1>1. /\ Entries(r) = Entries(m)
        /\ \A id \in Entries(m) :
              r.mapInfo[id].nRandomPos = IF id = m.vRandom[q] THEN p
                                         ELSE IF id = m.vRandom[p] THEN q
                                         ELSE m.mapInfo[id].nRandomPos
        /\ r.vRandom = [m.vRandom EXCEPT ![p] = m.vRandom[q], ![q] = m.vRandom[p]]
    <2>1. SwapRel(m, r, p, q)
      BY SwapFields
    <2> QED BY <2>1 DEF SwapRel
  <1> HIDE DEF r
  <1>2. Len(r.vRandom) = Len(m.vRandom)
    BY <1>1, TableFields
  <1>3. \A i \in 1..Len(m.vRandom) :
           r.vRandom[i] = IF i = q THEN m.vRandom[p] ELSE IF i = p THEN m.vRandom[q] ELSE m.vRandom[i]
    BY <1>1, TableFields
  <1>4. \A i \in 1..Len(r.vRandom) :
           r.vRandom[i] \in Entries(r) /\ r.mapInfo[r.vRandom[i]].nRandomPos = i
    <2> TAKE i \in 1..Len(r.vRandom)
    <2>1. \A j \in 1..Len(m.vRandom) :
             m.vRandom[j] \in Entries(m) /\ m.mapInfo[m.vRandom[j]].nRandomPos = j
      BY DEF RandomInv
    <2>2. \A j, l \in 1..Len(m.vRandom) : m.vRandom[j] = m.vRandom[l] => j = l
      BY <2>1
    <2>3. i \in 1..Len(m.vRandom)
      BY <1>2
    <2>4. CASE i = q
      BY <1>1, <1>3, <2>1, <2>2, <2>3, <2>4
    <2>5. CASE i = p /\ i # q
      BY <1>1, <1>3, <2>1, <2>2, <2>3, <2>5
    <2>6. CASE i # p /\ i # q
      BY <1>1, <1>3, <2>1, <2>2, <2>3, <2>6
    <2> QED BY <2>4, <2>5, <2>6
  <1>5. \A id \in Entries(r) : /\ r.mapInfo[id].nRandomPos \in 1..Len(r.vRandom)
                               /\ r.vRandom[r.mapInfo[id].nRandomPos] = id
    BY <1>1, <1>2, <1>3 DEF RandomInv
  <1> QED BY <1>1, <1>2, <1>4, <1>5 DEF RandomInv, r

(* Entry id is gone, and nothing else has changed but positions in vRandom. *)
Forgotten(m, r, id) ==
    /\ Entries(r) = Entries(m) \ {id}
    /\ \A j \in Entries(r) : SamePeer(r.mapInfo[j], m.mapInfo[j]) /\ SamePlaces(r.mapInfo[j], m.mapInfo[j])
    /\ r.mapAddr = [m.mapAddr EXCEPT ![addrOf[m.mapInfo[id].addr]] = NoId]
    /\ r.nNew = m.nNew - 1
    /\ r.nIdCount = m.nIdCount /\ r.nTried = m.nTried /\ r.vvTried = m.vvTried

LEMMA ForgetFields ==
    ASSUME NEW m, TableType(m), RandomInv(m), NEW id \in Entries(m)
    PROVE  LET r == Forget(m, id) IN
           TableType(r) /\ RandomInv(r) /\ Forgotten(m, r, id) /\ r.vvNew = m.vvNew
  <1> DEFINE last == Len(m.vRandom)
             pos == m.mapInfo[id].nRandomPos
             w == SwapRandom(m, pos, last)
             r == Forget(m, id)
             a == addrOf[m.mapInfo[id].addr]
             infos == [j \in Entries(w) \ {id} |-> w.mapInfo[j]]
             hosts == [w.mapAddr EXCEPT ![a] = NoId]
             list == SubSeq(w.vRandom, 1, last - 1)
  <1>1. pos \in 1..last /\ last \in 1..last /\ m.vRandom[pos] = id
    BY TableFields DEF RandomInv
  <1>2. /\ TableType(w) /\ RandomInv(w)
        /\ Entries(w) = Entries(m) /\ w.nIdCount = m.nIdCount
        /\ \A j \in Entries(m) : SamePeer(w.mapInfo[j], m.mapInfo[j]) /\ SamePlaces(w.mapInfo[j], m.mapInfo[j])
        /\ w.vRandom = [m.vRandom EXCEPT ![pos] = m.vRandom[last], ![last] = m.vRandom[pos]]
        /\ w.mapAddr = m.mapAddr /\ w.nTried = m.nTried /\ w.vvTried = m.vvTried
        /\ w.nNew = m.nNew /\ w.vvNew = m.vvNew
    <2>1. SwapRel(m, w, pos, last) /\ RandomInv(w)
      BY <1>1, SwapFields, SwapRandomInv
    <2> QED BY <2>1 DEF SwapRel
  <1>3. w.vRandom[last] = id /\ Len(w.vRandom) = last
    BY <1>1, <1>2, TableFields
  <1>4. r = [w EXCEPT !.vRandom = list, !.mapAddr = hosts, !.mapInfo = infos, !.nNew = w.nNew - 1]
    <2> HIDE DEF w
    <2>1. w \in Table
      BY <1>2, TableFields
    <2> QED BY <2>1 DEF Forget, w, Entries, Table
  <1> HIDE DEF w
  <1>5. infos \in InfoMaps /\ DOMAIN infos = Entries(m) \ {id}
    <2>1. infos \in [Entries(m) \ {id} -> InfoType]
      BY <1>2, TableFields
    <2> QED BY <2>1, InfoMapsType, TableFields
  <1>6. \A j \in Entries(m) \ {id} : infos[j] = w.mapInfo[j]
    BY <1>2
  <1>7. hosts \in HostMaps
    BY <1>2, TableFields DEF HostMaps
  <1>8. /\ list \in IdLists /\ Len(list) = last - 1
        /\ \A i \in 1..last - 1 : list[i] = w.vRandom[i]
    <2>1. w.vRandom \in Seq(Nat) /\ last - 1 \in Nat /\ last - 1 <= Len(w.vRandom)
      BY <1>1, <1>2, <1>3, TableFields
    <2> QED BY <2>1, Prefix DEF IdLists
  <1> HIDE DEF infos, hosts, list, r, pos, last
  <1>9. r \in Table
    <2>1. w \in Table /\ w.nNew - 1 \in Int
      BY <1>2, TableFields
    <2> QED BY <1>4, <1>5, <1>7, <1>8, <2>1 DEF Table
  <1>10. /\ r.nIdCount = m.nIdCount /\ r.mapInfo = infos /\ r.mapAddr = hosts
         /\ r.vRandom = list /\ r.nTried = m.nTried /\ r.vvTried = m.vvTried
         /\ r.nNew = m.nNew - 1 /\ r.vvNew = m.vvNew
    <2>1. w \in Table
      BY <1>2, TableFields
    <2> QED BY <1>2, <1>4, <2>1 DEF Table
  <1>11. Entries(r) = Entries(m) \ {id}
    BY <1>5, <1>10 DEF Entries
  <1>12. TableType(r)
    BY <1>9, <1>10, <1>11 DEF TableType
  <1>13. RandomInv(r)
    <2>1. Cardinality(Entries(r)) = last - 1
      <3>1. Cardinality(Entries(m)) = last
        BY DEF RandomInv, last
      <3>2. IsFiniteSet(Entries(m))
        BY EntriesFinite
      <3> QED BY <1>11, <3>1, <3>2, FS_RemoveElement
    <2>2. \A i \in 1..last - 1 : w.vRandom[i] # id /\ w.vRandom[i] \in Entries(m)
                                 /\ w.mapInfo[w.vRandom[i]].nRandomPos = i
      <3>1. \A i \in 1..last : w.vRandom[i] \in Entries(m) /\ w.mapInfo[w.vRandom[i]].nRandomPos = i
        BY <1>2, <1>3 DEF RandomInv
      <3> QED BY <1>1, <1>3, <3>1
    <2>3. \A j \in Entries(m) \ {id} : w.mapInfo[j].nRandomPos \in 1..last - 1
                                       /\ w.vRandom[w.mapInfo[j].nRandomPos] = j
      <3> TAKE j \in Entries(m) \ {id}
      <3>1. w.mapInfo[j].nRandomPos \in 1..last /\ w.vRandom[w.mapInfo[j].nRandomPos] = j
        BY <1>2, <1>3 DEF RandomInv
      <3> QED BY <1>1, <1>3, <3>1
    <2> QED BY <1>6, <1>8, <1>10, <1>11, <2>1, <2>2, <2>3 DEF RandomInv
  <1>14. Forgotten(m, r, id)
    BY <1>2, <1>6, <1>10, <1>11 DEF Forgotten, hosts
  <1> QED BY <1>10, <1>12, <1>13, <1>14 DEF r

(* The entries with the same peers at the same positions. *)
SameEntries(m, r) ==
    /\ Entries(r) = Entries(m)
    /\ \A j \in Entries(m) : SamePeer(r.mapInfo[j], m.mapInfo[j])
                             /\ r.mapInfo[j].nRandomPos = m.mapInfo[j].nRandomPos
    /\ r.mapAddr = m.mapAddr /\ r.vRandom = m.vRandom /\ r.nIdCount = m.nIdCount

LEMMA SameEntriesInv ==
    ASSUME NEW m, NEW r, SameEntries(m, r)
    PROVE  /\ RandomInv(m) => RandomInv(r)
           /\ AddrInv(m) => AddrInv(r)
  BY DEF SameEntries, SamePeer, RandomInv, AddrInv

LEMMA RefCountFields ==
    ASSUME NEW m, TableType(m), NEW id \in Entries(m), NEW n \in Int
    PROVE  LET r == [m EXCEPT !.mapInfo[id].nRefCount = n] IN
           /\ TableType(r) /\ SameEntries(m, r)
           /\ \A j \in Entries(m) :
                 /\ r.mapInfo[j].fInTried = m.mapInfo[j].fInTried
                 /\ r.mapInfo[j].nRefCount = IF j = id THEN n ELSE m.mapInfo[j].nRefCount
           /\ r.nTried = m.nTried /\ r.vvTried = m.vvTried
           /\ r.nNew = m.nNew /\ r.vvNew = m.vvNew
  <1> DEFINE e == [m.mapInfo[id] EXCEPT !.nRefCount = n]
             infos == [m.mapInfo EXCEPT ![id] = e]
             r == [m EXCEPT !.mapInfo[id].nRefCount = n]
  <1>1. r = [m EXCEPT !.mapInfo = infos]
    BY TableFields DEF Table
  <1>2. m.mapInfo[id] \in InfoType
    BY TableFields
  <1>3. /\ e \in InfoType /\ SamePeer(e, m.mapInfo[id]) /\ e.nRefCount = n
        /\ e.fInTried = m.mapInfo[id].fInTried /\ e.nRandomPos = m.mapInfo[id].nRandomPos
    BY <1>2, InfoRefCount
  <1> HIDE DEF e
  <1>4. /\ infos \in [Entries(m) -> InfoType]
        /\ \A j \in Entries(m) : infos[j] = IF j = id THEN e ELSE m.mapInfo[j]
    BY <1>3, InfoUpdate, TableFields
  <1> HIDE DEF r, infos
  <1>5. infos \in InfoMaps /\ DOMAIN infos = Entries(m)
    BY <1>4, InfoMapsType, TableFields
  <1>6. /\ r \in Table
        /\ r.nIdCount = m.nIdCount /\ r.mapInfo = infos /\ r.mapAddr = m.mapAddr
        /\ r.vRandom = m.vRandom /\ r.nTried = m.nTried /\ r.vvTried = m.vvTried
        /\ r.nNew = m.nNew /\ r.vvNew = m.vvNew
    <2>1. m \in Table
      BY TableFields
    <2> QED BY <1>1, <1>5, <2>1 DEF Table
  <1>7. Entries(r) = Entries(m)
    BY <1>5, <1>6 DEF Entries
  <1>8. TableType(r)
    BY <1>6, <1>7 DEF TableType
  <1>9. SameEntries(m, r)
    BY <1>3, <1>4, <1>6, <1>7 DEF SameEntries, SamePeer
  <1> QED BY <1>3, <1>4, <1>6, <1>7, <1>8, <1>9 DEF r

LEMMA BucketFields ==
    ASSUME NEW m, TableType(m), NEW b \in NewBucket, NEW S \in SUBSET Nat
    PROVE  LET r == [m EXCEPT !.vvNew[b] = S] IN
           /\ TableType(r)
           /\ Entries(r) = Entries(m) /\ r.mapInfo = m.mapInfo
           /\ r.nIdCount = m.nIdCount /\ r.mapAddr = m.mapAddr /\ r.vRandom = m.vRandom
           /\ r.nTried = m.nTried /\ r.vvTried = m.vvTried
           /\ r.nNew = m.nNew /\ r.vvNew = [m.vvNew EXCEPT ![b] = S]
  <1> DEFINE buckets == [m.vvNew EXCEPT ![b] = S]
             r == [m EXCEPT !.vvNew[b] = S]
  <1>1. r = [m EXCEPT !.vvNew = buckets]
    BY TableFields DEF Table
  <1>2. buckets \in NewTables
    BY TableFields DEF NewTables
  <1> HIDE DEF r, buckets
  <1>3. /\ r \in Table
        /\ r.nIdCount = m.nIdCount /\ r.mapInfo = m.mapInfo /\ r.mapAddr = m.mapAddr
        /\ r.vRandom = m.vRandom /\ r.nTried = m.nTried /\ r.vvTried = m.vvTried
        /\ r.nNew = m.nNew /\ r.vvNew = buckets
    <2>1. m \in Table
      BY TableFields
    <2> QED BY <1>1, <1>2, <2>1 DEF Table
  <1>4. Entries(r) = Entries(m)
    BY <1>3 DEF Entries
  <1> QED BY <1>3, <1>4 DEF TableType, r, buckets

(* Entry v has lost a reference and with the last one its place. *)
Shrunk(m, r, v) ==
    /\ TableType(r) /\ RandomInv(r)
    /\ r.nIdCount = m.nIdCount /\ r.nTried = m.nTried /\ r.vvTried = m.vvTried
    /\ \A j \in Entries(r) :
          /\ SamePeer(r.mapInfo[j], m.mapInfo[j])
          /\ r.mapInfo[j].fInTried = m.mapInfo[j].fInTried
          /\ r.mapInfo[j].nRefCount = IF j = v THEN m.mapInfo[j].nRefCount - 1
                                               ELSE m.mapInfo[j].nRefCount
    /\ IF m.mapInfo[v].nRefCount = 1
       THEN /\ Entries(r) = Entries(m) \ {v}
            /\ r.mapAddr = [m.mapAddr EXCEPT ![addrOf[m.mapInfo[v].addr]] = NoId]
            /\ r.nNew = m.nNew - 1
       ELSE Entries(r) = Entries(m) /\ r.mapAddr = m.mapAddr /\ r.nNew = m.nNew

LEMMA ShrinkFields ==
    ASSUME NEW m, TableType(m), RandomInv(m), NEW b \in NewBucket, NEW v \in Entries(m)
    PROVE  LET r == ShrinkNew(m, b, v) IN
           Shrunk(m, r, v) /\ r.vvNew = [m.vvNew EXCEPT ![b] = @ \ {v}]
  <1> DEFINE n == m.mapInfo[v].nRefCount - 1
             less == [m EXCEPT !.mapInfo[v].nRefCount = n]
             room == IF less.mapInfo[v].nRefCount = 0 THEN Forget(less, v) ELSE less
             r == ShrinkNew(m, b, v)
  <1>1. n \in Int
    <2>1. m.mapInfo[v] \in InfoType
      BY TableFields
    <2> QED BY <2>1 DEF InfoType
  <1>2. r = [room EXCEPT !.vvNew[b] = room.vvNew[b] \ {v}]
    BY DEF ShrinkNew
  <1>3. /\ TableType(less) /\ RandomInv(less) /\ SameEntries(m, less)
        /\ \A j \in Entries(m) :
              /\ less.mapInfo[j].fInTried = m.mapInfo[j].fInTried
              /\ less.mapInfo[j].nRefCount = IF j = v THEN n ELSE m.mapInfo[j].nRefCount
        /\ less.nTried = m.nTried /\ less.vvTried = m.vvTried
        /\ less.nNew = m.nNew /\ less.vvNew = m.vvNew
    BY <1>1, RefCountFields, SameEntriesInv
  <1> HIDE DEF less, r
  <1>4. Shrunk(m, room, v) /\ room.vvNew = m.vvNew
    <2>1. less.mapInfo[v].nRefCount = m.mapInfo[v].nRefCount - 1 /\ m.mapInfo[v].nRefCount \in Int
      BY <1>1, <1>3, TableFields DEF InfoType
    <2>2. CASE n = 0
      <3> DEFINE f == Forget(less, v)
      <3>1. room = f /\ m.mapInfo[v].nRefCount = 1
        BY <2>1, <2>2
      <3>2. TableType(f) /\ RandomInv(f) /\ Forgotten(less, f, v) /\ f.vvNew = less.vvNew
        BY <1>3, ForgetFields DEF SameEntries
      <3> HIDE DEF f, room
      <3> QED BY <1>3, <3>1, <3>2 DEF Shrunk, Forgotten, SameEntries, SamePeer, SamePlaces
    <2>3. CASE n # 0
      <3>1. room = less /\ m.mapInfo[v].nRefCount # 1
        BY <2>1, <2>3
      <3> HIDE DEF room
      <3> QED BY <1>3, <3>1 DEF Shrunk, SameEntries, SamePeer
    <2> QED BY <2>2, <2>3
  <1> HIDE DEF room
  <1> DEFINE S == room.vvNew[b] \ {v}
  <1>5. S \in SUBSET Nat
    BY <1>4, TableFields DEF Shrunk
  <1> HIDE DEF S
  <1>6. /\ TableType(r)
        /\ Entries(r) = Entries(room) /\ r.mapInfo = room.mapInfo
        /\ r.nIdCount = room.nIdCount /\ r.mapAddr = room.mapAddr /\ r.vRandom = room.vRandom
        /\ r.nTried = room.nTried /\ r.vvTried = room.vvTried
        /\ r.nNew = room.nNew /\ r.vvNew = [room.vvNew EXCEPT ![b] = S]
    <2>1. TableType(room)
      BY <1>4 DEF Shrunk
    <2>2. r = [room EXCEPT !.vvNew[b] = S]
      BY <1>2 DEF S
    <2> QED BY <1>5, <2>1, <2>2, BucketFields
  <1>7. RandomInv(r)
    BY <1>4, <1>6 DEF Shrunk, RandomInv
  <1>8. Shrunk(m, r, v)
    BY <1>4, <1>6, <1>7 DEF Shrunk
  <1> QED BY <1>4, <1>6, <1>8 DEF r, S

(* The two halves of InsertNew: entry id has one more reference, *)
Referred(m, id) == [m EXCEPT !.mapInfo[id].nRefCount = @ + 1]

(* and is in bucket b. *)
Added(m, id, b) == [Referred(m, id) EXCEPT !.vvNew[b] = @ \cup {id}]

LEMMA ReferredFields ==
    ASSUME NEW m, TableType(m), NEW id \in Entries(m)
    PROVE  LET r == Referred(m, id) IN
           /\ TableType(r) /\ SameEntries(m, r)
           /\ \A j \in Entries(m) :
                 /\ r.mapInfo[j].fInTried = m.mapInfo[j].fInTried
                 /\ r.mapInfo[j].nRefCount = IF j = id THEN m.mapInfo[j].nRefCount + 1
                                                       ELSE m.mapInfo[j].nRefCount
           /\ r.nTried = m.nTried /\ r.vvTried = m.vvTried
           /\ r.nNew = m.nNew /\ r.vvNew = m.vvNew
  <1>1. m.mapInfo[id].nRefCount + 1 \in Int
    BY TableFields DEF InfoType
  <1> DEFINE r == [m EXCEPT !.mapInfo[id].nRefCount = m.mapInfo[id].nRefCount + 1]
  <1>2. Referred(m, id) = r
    BY DEF Referred
  <1>3. /\ TableType(r) /\ SameEntries(m, r)
        /\ \A j \in Entries(m) :
              /\ r.mapInfo[j].fInTried = m.mapInfo[j].fInTried
              /\ r.mapInfo[j].nRefCount = IF j = id THEN m.mapInfo[id].nRefCount + 1
                                                    ELSE m.mapInfo[j].nRefCount
        /\ r.nTried = m.nTried /\ r.vvTried = m.vvTried
        /\ r.nNew = m.nNew /\ r.vvNew = m.vvNew
    BY <1>1, RefCountFields
  <1> HIDE DEF r
  <1> QED BY <1>2, <1>3

LEMMA AddedFields ==
    ASSUME NEW m, TableType(m), NEW id \in Entries(m), NEW b \in NewBucket
    PROVE  LET w == Added(m, id, b) IN
           /\ TableType(w) /\ SameEntries(m, w)
           /\ \A j \in Entries(m) :
                 /\ w.mapInfo[j].fInTried = m.mapInfo[j].fInTried
                 /\ w.mapInfo[j].nRefCount = IF j = id THEN m.mapInfo[j].nRefCount + 1
                                                       ELSE m.mapInfo[j].nRefCount
           /\ w.nTried = m.nTried /\ w.vvTried = m.vvTried
           /\ w.nNew = m.nNew /\ w.vvNew = [m.vvNew EXCEPT ![b] = @ \cup {id}]
           /\ w.mapInfo = Referred(m, id).mapInfo
  <1> DEFINE r == Referred(m, id)
             w == Added(m, id, b)
  <1>1. /\ TableType(r) /\ SameEntries(m, r)
        /\ \A j \in Entries(m) :
              /\ r.mapInfo[j].fInTried = m.mapInfo[j].fInTried
              /\ r.mapInfo[j].nRefCount = IF j = id THEN m.mapInfo[j].nRefCount + 1
                                                    ELSE m.mapInfo[j].nRefCount
        /\ r.nTried = m.nTried /\ r.vvTried = m.vvTried
        /\ r.nNew = m.nNew /\ r.vvNew = m.vvNew
    BY ReferredFields
  <1>2. w = [r EXCEPT !.vvNew[b] = r.vvNew[b] \cup {id}]
    BY DEF Added
  <1> HIDE DEF r, w
  <1>3. r.vvNew[b] \cup {id} \in SUBSET Nat
    BY <1>1, TableFields
  <1>4. /\ TableType(w)
        /\ Entries(w) = Entries(r) /\ w.mapInfo = r.mapInfo
        /\ w.nIdCount = r.nIdCount /\ w.mapAddr = r.mapAddr /\ w.vRandom = r.vRandom
        /\ w.nTried = r.nTried /\ w.vvTried = r.vvTried
        /\ w.nNew = r.nNew /\ w.vvNew = [r.vvNew EXCEPT ![b] = r.vvNew[b] \cup {id}]
    <2>1. TableType(r)
      BY <1>1
    <2> QED BY <1>2, <1>3, <2>1, BucketFields
  <1>5. SameEntries(m, w)
    BY <1>1, <1>4 DEF SameEntries
  <1> QED BY <1>1, <1>4, <1>5 DEF r, w

LEMMA InsertFields ==
    ASSUME NEW m, TableType(m), RandomInv(m), NEW id \in Entries(m), NEW b \in NewBucket,
           id \notin m.vvNew[b], NEW v \in Evictable(m, b), m.vvNew[b] \subseteq Entries(m)
    PROVE  LET r == InsertNew(m, id, b, v)
               w == Added(m, id, b)
           IN  /\ Cardinality(m.vvNew[b]) # NEW_BUCKET_SIZE => r = w
               /\ Cardinality(m.vvNew[b]) = NEW_BUCKET_SIZE =>
                     /\ v \in w.vvNew[b] /\ v # id
                     /\ Shrunk(w, r, v) /\ r.vvNew = [w.vvNew EXCEPT ![b] = @ \ {v}]
  <1> DEFINE full == Cardinality(m.vvNew[b]) = NEW_BUCKET_SIZE
             more == Referred(m, id)
             w == Added(m, id, b)
             r == InsertNew(m, id, b, v)
  <1>1. CASE ~ full
    BY <1>1 DEF InsertNew, Added, Referred
  <1>2. CASE full
    <2> DEFINE room == ShrinkNew(more, b, v)
    <2>1. r = [room EXCEPT !.vvNew[b] = room.vvNew[b] \cup {id}]
      BY <1>2 DEF InsertNew, Referred
    <2>2. v \in m.vvNew[b] /\ v \in Entries(m) /\ v # id
      BY <1>2 DEF Evictable
    <2>3. /\ TableType(more) /\ SameEntries(m, more) /\ more.vvNew = m.vvNew
          /\ more.nTried = m.nTried /\ more.vvTried = m.vvTried /\ more.nNew = m.nNew
      BY ReferredFields
    <2>4. RandomInv(more) /\ v \in Entries(more)
      BY <2>2, <2>3, SameEntriesInv DEF SameEntries
    <2>5. Shrunk(more, room, v) /\ room.vvNew = [more.vvNew EXCEPT ![b] = @ \ {v}]
      <3> HIDE DEF more
      <3> QED BY <2>3, <2>4, ShrinkFields
    <2>6. /\ TableType(w) /\ SameEntries(m, w)
          /\ w.nTried = m.nTried /\ w.vvTried = m.vvTried
          /\ w.nNew = m.nNew /\ w.vvNew = [m.vvNew EXCEPT ![b] = @ \cup {id}]
          /\ w.mapInfo = more.mapInfo
      BY AddedFields
    <2> HIDE DEF room, r, more, w
    <2>7. TableType(room)
      BY <2>5 DEF Shrunk
    <2>8. room.vvNew[b] \cup {id} \in SUBSET Nat
      BY <2>7, TableFields
    <2>9. /\ TableType(r)
          /\ Entries(r) = Entries(room) /\ r.mapInfo = room.mapInfo
          /\ r.nIdCount = room.nIdCount /\ r.mapAddr = room.mapAddr /\ r.vRandom = room.vRandom
          /\ r.nTried = room.nTried /\ r.vvTried = room.vvTried
          /\ r.nNew = room.nNew /\ r.vvNew = [room.vvNew EXCEPT ![b] = room.vvNew[b] \cup {id}]
      BY <2>1, <2>7, <2>8, BucketFields
    <2>10. RandomInv(r)
      BY <2>5, <2>9 DEF Shrunk, RandomInv
    <2>11. Entries(w) = Entries(more) /\ w.mapAddr = more.mapAddr /\ w.nIdCount = more.nIdCount
      BY <2>3, <2>6 DEF SameEntries
    <2>12. Shrunk(w, r, v)
      BY <2>3, <2>5, <2>6, <2>9, <2>10, <2>11 DEF Shrunk
    <2>13. r.vvNew = [w.vvNew EXCEPT ![b] = @ \ {v}]
      BY <2>2, <2>3, <2>5, <2>6, <2>9, TableFields
    <2>14. v \in w.vvNew[b]
      BY <2>2, <2>6, TableFields
    <2> QED BY <1>2, <2>2, <2>12, <2>13, <2>14 DEF r, w
  <1> QED BY <1>1, <1>2

-----------------------------------------------------------------------------
(* What they preserve. *)

(* All but the sizes of the buckets and the two counts. *)
CoreInv(m, X) == TableType(m) /\ RandomInv(m) /\ AddrInv(m) /\ NewInv(m, X) /\ TriedInv(m)

LEMMA TriedFrame ==
    ASSUME NEW m, NEW r, TableType(m), TriedInv(m), r.vvTried = m.vvTried, Tried(r) = Tried(m),
           \A id \in Tried(m) : SamePeer(r.mapInfo[id], m.mapInfo[id])
    PROVE  TriedInv(r)
  <1>1. \A id \in Tried(m) : TriedBucketOf(r, id) = TriedBucketOf(m, id)
                             /\ r.mapInfo[id].nLastSuccess = m.mapInfo[id].nLastSuccess
    BY DEF SamePeer, TriedBucketOf
  <1>2. \A k \in TriedBucket : \A p \in 1..Len(r.vvTried[k]) :
           /\ r.vvTried[k][p] \in Tried(r)
           /\ TriedBucketOf(r, r.vvTried[k][p]) = k
           /\ \A q \in 1..Len(r.vvTried[k]) : r.vvTried[k][p] = r.vvTried[k][q] => p = q
    BY <1>1 DEF TriedInv
  <1>3. \A id \in Tried(r) :
           /\ \E p \in 1..Len(r.vvTried[TriedBucketOf(r, id)]) :
                 r.vvTried[TriedBucketOf(r, id)][p] = id
           /\ r.mapInfo[id].nLastSuccess # 0
    BY <1>1 DEF TriedInv
  <1> QED BY <1>2, <1>3 DEF TriedInv

LEMMA NewBucketsTyped ==
    ASSUME NEW m, NEW X, TableType(m), NewInv(m, X)
    PROVE  /\ \A b \in NewBucket : IsFiniteSet(m.vvNew[b]) /\ Cardinality(m.vvNew[b]) \in Nat
                                   /\ m.vvNew[b] \subseteq Entries(m)
           /\ \A id \in Entries(m) : m.mapInfo[id].nRefCount \in Nat
           /\ \A b \in NewBucket : m.vvNew[b] \cap X = {}
  <1>1. \A b \in NewBucket : m.vvNew[b] \subseteq Entries(m)
    BY DEF NewInv, Untried
  <1>2. \A b \in NewBucket : IsFiniteSet(m.vvNew[b]) /\ Cardinality(m.vvNew[b]) \in Nat
    BY <1>1, EntriesFinite, FS_CardinalityType
  <1>3. \A id \in Entries(m) : m.mapInfo[id].nRefCount \in Nat
    BY EntriesFinite, FS_CardinalityType DEF NewInv
  <1>4. \A id \in X : BucketsOf(m, id) = {}
    BY EntriesFinite, FS_EmptySet DEF NewInv, Untried
  <1> QED BY <1>1, <1>2, <1>3, <1>4 DEF BucketsOf

LEMMA AddedInv ==
    ASSUME NEW m, NEW X, CoreInv(m, X), NEW id \in Untried(m), NEW b \in NewBucket,
           id \notin m.vvNew[b], m.mapInfo[id].nRefCount + 1 <= NEW_BUCKETS_PER_ADDRESS
    PROVE  LET w == Added(m, id, b) IN
           CoreInv(w, X \ {id}) /\ Tried(w) = Tried(m) /\ Untried(w) = Untried(m)
  <1> DEFINE w == Added(m, id, b)
  <1>1. id \in Entries(m) /\ TableType(m)
    BY DEF Untried, CoreInv
  <1>2. /\ TableType(w) /\ SameEntries(m, w)
        /\ \A j \in Entries(m) :
              /\ w.mapInfo[j].fInTried = m.mapInfo[j].fInTried
              /\ w.mapInfo[j].nRefCount = IF j = id THEN m.mapInfo[j].nRefCount + 1
                                                    ELSE m.mapInfo[j].nRefCount
        /\ w.vvTried = m.vvTried
        /\ w.vvNew = [m.vvNew EXCEPT ![b] = @ \cup {id}]
    BY <1>1, AddedFields
  <1> HIDE DEF w
  <1>3. Entries(w) = Entries(m) /\ Tried(w) = Tried(m) /\ Untried(w) = Untried(m)
    BY <1>2 DEF SameEntries, Tried, Untried
  <1>4. RandomInv(w) /\ AddrInv(w)
    BY <1>2, SameEntriesInv DEF CoreInv
  <1>5. TriedInv(w)
    BY <1>1, <1>2, <1>3, TriedFrame DEF CoreInv, SameEntries, Tried
  <1>6. NewInv(w, X \ {id})
    <2>1. \A c \in NewBucket : w.vvNew[c] = IF c = b THEN m.vvNew[c] \cup {id} ELSE m.vvNew[c]
      BY <1>1, <1>2, TableFields
    <2>2. \A j \in Entries(m) : BucketsOf(w, j) = IF j = id THEN BucketsOf(m, j) \cup {b} ELSE BucketsOf(m, j)
      BY <2>1 DEF BucketsOf
    <2>3. b \notin BucketsOf(m, id)
      BY DEF BucketsOf
    <2>4. Cardinality(BucketsOf(w, id)) = Cardinality(BucketsOf(m, id)) + 1
      BY <1>1, <2>2, <2>3, EntriesFinite, FS_AddElement
    <2>5. \A j \in Entries(w) : w.mapInfo[j].nRefCount = Cardinality(BucketsOf(w, j))
      BY <1>2, <1>3, <2>2, <2>4 DEF CoreInv, NewInv
    <2>6. w.mapInfo[id].nRefCount \in 1..NEW_BUCKETS_PER_ADDRESS
      BY <1>1, <1>2, NewBucketsTyped, ConstantTypes DEF CoreInv
    <2> QED BY <1>1, <1>2, <1>3, <2>1, <2>5, <2>6 DEF CoreInv, NewInv, Untried
  <1> QED BY <1>2, <1>3, <1>4, <1>5, <1>6 DEF CoreInv, w

LEMMA ShrunkInv ==
    ASSUME NEW m, NEW X, CoreInv(m, X), NEW b \in NewBucket, NEW v \in m.vvNew[b],
           NEW r, Shrunk(m, r, v), r.vvNew = [m.vvNew EXCEPT ![b] = @ \ {v}]
    PROVE  /\ CoreInv(r, X)
           /\ Tried(r) = Tried(m)
           /\ Untried(r) = IF m.mapInfo[v].nRefCount = 1 THEN Untried(m) \ {v} ELSE Untried(m)
           /\ v \in Untried(m) \ X
  <1>1. TableType(m) /\ NewInv(m, X)
    BY DEF CoreInv
  <1>2. v \in Untried(m) /\ v \notin X
    BY <1>1, NewBucketsTyped DEF NewInv
  <1>3. Entries(r) = IF m.mapInfo[v].nRefCount = 1 THEN Entries(m) \ {v} ELSE Entries(m)
    BY DEF Shrunk
  <1>4. /\ Tried(r) = Tried(m)
        /\ Untried(r) = IF m.mapInfo[v].nRefCount = 1 THEN Untried(m) \ {v} ELSE Untried(m)
    BY <1>2, <1>3 DEF Shrunk, Tried, Untried
  <1>5. TriedInv(r)
    <2>1. \A id \in Tried(m) : SamePeer(r.mapInfo[id], m.mapInfo[id])
      BY <1>4 DEF Shrunk, Tried
    <2> QED BY <1>1, <1>4, <2>1, TriedFrame DEF Shrunk, CoreInv
  <1>6. \A c \in NewBucket : r.vvNew[c] = IF c = b THEN m.vvNew[c] \ {v} ELSE m.vvNew[c]
    BY <1>1, TableFields
  <1>7. \A j : BucketsOf(r, j) = IF j = v THEN BucketsOf(m, j) \ {b} ELSE BucketsOf(m, j)
    BY <1>6 DEF BucketsOf
  <1>8. Cardinality(BucketsOf(r, v)) = Cardinality(BucketsOf(m, v)) - 1
    <2>1. b \in BucketsOf(m, v)
      BY DEF BucketsOf
    <2> QED BY <1>1, <1>7, <2>1, EntriesFinite, FS_RemoveElement
  <1>9. m.mapInfo[v].nRefCount = Cardinality(BucketsOf(m, v)) /\ v \in Entries(m)
    BY <1>1, <1>2 DEF NewInv, Untried
  <1>10. m.mapInfo[v].nRefCount = 1 => BucketsOf(r, v) = {}
    <2>1. IsFiniteSet(BucketsOf(r, v))
      BY <1>1, <1>7, EntriesFinite, FS_Subset
    <2> QED BY <1>8, <1>9, <2>1, FS_EmptySet
  <1>11. NewInv(r, X)
    <2>1. X \subseteq Untried(r)
      BY <1>1, <1>2, <1>4 DEF NewInv
    <2>2. \A c \in NewBucket : r.vvNew[c] \subseteq Untried(r)
      BY <1>1, <1>4, <1>6, <1>10 DEF NewInv, BucketsOf
    <2>3. \A j \in Entries(r) : r.mapInfo[j].nRefCount = Cardinality(BucketsOf(r, j))
      BY <1>1, <1>3, <1>7, <1>8, <1>9 DEF NewInv, Shrunk
    <2>4. \A j \in Untried(r) : j # v => r.mapInfo[j].nRefCount = m.mapInfo[j].nRefCount
      BY DEF Shrunk, Untried
    <2>5. v \in Untried(r) => r.mapInfo[v].nRefCount \in 1..NEW_BUCKETS_PER_ADDRESS
      <3> SUFFICES ASSUME v \in Untried(r) PROVE r.mapInfo[v].nRefCount \in 1..NEW_BUCKETS_PER_ADDRESS
        OBVIOUS
      <3>1. m.mapInfo[v].nRefCount # 1 /\ v \in Entries(r)
        BY <1>3 DEF Untried
      <3>2. m.mapInfo[v].nRefCount \in 1..NEW_BUCKETS_PER_ADDRESS
        BY <1>1, <1>2 DEF NewInv
      <3>3. r.mapInfo[v].nRefCount = m.mapInfo[v].nRefCount - 1
        BY <3>1 DEF Shrunk
      <3> QED BY <3>1, <3>2, <3>3, ConstantTypes
    <2>6. \A j \in Untried(r) \ X : r.mapInfo[j].nRefCount \in 1..NEW_BUCKETS_PER_ADDRESS
      BY <1>1, <1>4, <2>4, <2>5 DEF NewInv
    <2>7. \A j \in X : r.mapInfo[j].nRefCount = 0
      BY <1>1, <1>2, <2>1, <2>4 DEF NewInv
    <2> QED BY <2>1, <2>2, <2>3, <2>6, <2>7 DEF NewInv
  <1>12. AddrInv(r)
    <2>1. \A j \in Entries(r) : j \in Entries(m) /\ r.mapInfo[j].addr = m.mapInfo[j].addr
      BY <1>3 DEF Shrunk, SamePeer
    <2>2. CASE m.mapInfo[v].nRefCount # 1
      BY <1>3, <2>1, <2>2 DEF Shrunk, AddrInv, CoreInv
    <2>3. CASE m.mapInfo[v].nRefCount = 1
      <3> DEFINE a == addrOf[m.mapInfo[v].addr]
      <3>1. r.mapAddr = [m.mapAddr EXCEPT ![a] = NoId]
        BY <2>3 DEF Shrunk
      <3>2. \A j \in Entries(m) : addrOf[m.mapInfo[j].addr] \in NetAddr
        BY <1>1, TableFields, ConstantTypes DEF InfoType
      <3>3. \A j \in Entries(m) \ {v} : addrOf[m.mapInfo[j].addr] # a
        BY <1>9 DEF CoreInv, AddrInv
      <3>4. \A h \in NetAddr : r.mapAddr[h] = IF h = a THEN NoId ELSE m.mapAddr[h]
        BY <1>1, <3>1, TableFields
      <3> HIDE DEF a
      <3>5. \A j \in Entries(r) : r.mapAddr[addrOf[r.mapInfo[j].addr]] = j
        BY <1>3, <2>1, <2>3, <3>2, <3>3, <3>4 DEF CoreInv, AddrInv
      <3>6. \A h \in NetAddr : r.mapAddr[h] # NoId =>
               r.mapAddr[h] \in Entries(r) /\ addrOf[r.mapInfo[r.mapAddr[h]].addr] = h
        <4> TAKE h \in NetAddr
        <4> HAVE r.mapAddr[h] # NoId
        <4>1. h # a /\ r.mapAddr[h] = m.mapAddr[h]
          BY <3>4
        <4>2. m.mapAddr[h] \in Entries(m) /\ addrOf[m.mapInfo[m.mapAddr[h]].addr] = h
          BY <4>1 DEF CoreInv, AddrInv
        <4>3. m.mapAddr[h] # v
          BY <4>1, <4>2 DEF a
        <4> QED BY <1>3, <2>1, <2>3, <4>1, <4>2, <4>3
      <3> QED BY <3>5, <3>6 DEF AddrInv
    <2> QED BY <2>2, <2>3
  <1> QED BY <1>2, <1>4, <1>5, <1>11, <1>12 DEF CoreInv, Shrunk

LEMMA InsertInv ==
    ASSUME NEW m, NEW X, CoreInv(m, X), NewSizes(m), TriedSizes(m), CountsInv(m, {}),
           NEW id \in Untried(m), X \subseteq {id}, NEW b \in NewBucket,
           id \notin m.vvNew[b], m.mapInfo[id].nRefCount + 1 <= NEW_BUCKETS_PER_ADDRESS,
           NEW v \in Evictable(m, b)
    PROVE  TablesInv(InsertNew(m, id, b, v), {}) /\ InsertNew(m, id, b, v).nIdCount = m.nIdCount
  <1> DEFINE w == Added(m, id, b)
             r == InsertNew(m, id, b, v)
  <1>1. TableType(m) /\ RandomInv(m) /\ NewInv(m, X) /\ id \in Entries(m)
    BY DEF CoreInv, Untried
  <1>2. /\ TableType(w) /\ w.nTried = m.nTried /\ w.vvTried = m.vvTried
        /\ w.nNew = m.nNew /\ w.vvNew = [m.vvNew EXCEPT ![b] = @ \cup {id}]
        /\ w.nIdCount = m.nIdCount
    BY <1>1, AddedFields DEF SameEntries
  <1>3. CoreInv(w, {}) /\ Tried(w) = Tried(m) /\ Untried(w) = Untried(m)
    <2>1. X \ {id} = {}
      OBVIOUS
    <2>2. CoreInv(w, X \ {id}) /\ Tried(w) = Tried(m) /\ Untried(w) = Untried(m)
      BY AddedInv
    <2> HIDE DEF w
    <2> QED BY <2>1, <2>2
  <1>4. /\ Cardinality(m.vvNew[b]) # NEW_BUCKET_SIZE => r = w
        /\ Cardinality(m.vvNew[b]) = NEW_BUCKET_SIZE =>
              /\ v \in w.vvNew[b] /\ v # id
              /\ Shrunk(w, r, v) /\ r.vvNew = [w.vvNew EXCEPT ![b] = @ \ {v}]
    BY <1>1, InsertFields, NewBucketsTyped
  <1> HIDE DEF w, r
  <1>5. /\ IsFiniteSet(m.vvNew[b]) /\ Cardinality(m.vvNew[b]) \in Nat
        /\ Cardinality(m.vvNew[b]) <= NEW_BUCKET_SIZE
    BY <1>1, NewBucketsTyped DEF NewSizes
  <1>6. \A c \in NewBucket : w.vvNew[c] = IF c = b THEN m.vvNew[c] \cup {id} ELSE m.vvNew[c]
    BY <1>1, <1>2, TableFields
  <1>7. IsFiniteSet(w.vvNew[b]) /\ Cardinality(w.vvNew[b]) = Cardinality(m.vvNew[b]) + 1
    <2> DEFINE S == m.vvNew[b]
    <2>1. w.vvNew[b] = S \cup {id}
      BY <1>6
    <2>2. IsFiniteSet(S) /\ id \notin S
      BY <1>5
    <2> HIDE DEF S
    <2>3. IsFiniteSet(S \cup {id}) /\ Cardinality(S \cup {id}) = Cardinality(S) + 1
      BY <2>2, FS_AddElement
    <2> QED BY <2>1, <2>3 DEF S
  <1>8. CASE Cardinality(m.vvNew[b]) # NEW_BUCKET_SIZE
    <2>1. NewSizes(w)
      <3>1. Cardinality(w.vvNew[b]) <= NEW_BUCKET_SIZE
        BY <1>5, <1>7, <1>8, ConstantTypes
      <3> QED BY <1>6, <3>1 DEF NewSizes
    <2>2. TriedSizes(w) /\ CountsInv(w, {})
      BY <1>2, <1>3 DEF TriedSizes, CountsInv
    <2> QED BY <1>2, <1>3, <1>4, <1>8, <2>1, <2>2 DEF TablesInv, CoreInv, r
  <1>9. CASE Cardinality(m.vvNew[b]) = NEW_BUCKET_SIZE
    <2>1. /\ v \in w.vvNew[b] /\ v # id
          /\ Shrunk(w, r, v) /\ r.vvNew = [w.vvNew EXCEPT ![b] = @ \ {v}]
      BY <1>4, <1>9
    <2>2. /\ CoreInv(r, {})
          /\ Tried(r) = Tried(w)
          /\ Untried(r) = IF w.mapInfo[v].nRefCount = 1 THEN Untried(w) \ {v} ELSE Untried(w)
          /\ v \in Untried(w)
      BY <1>3, <2>1, ShrunkInv
    <2>3. \A c \in NewBucket : r.vvNew[c] = IF c = b THEN w.vvNew[c] \ {v} ELSE w.vvNew[c]
      BY <1>2, <2>1, TableFields
    <2>4. Cardinality(r.vvNew[b]) = NEW_BUCKET_SIZE
      <3>1. r.vvNew[b] = w.vvNew[b] \ {v}
        BY <2>3
      <3>2. Cardinality(r.vvNew[b]) = Cardinality(w.vvNew[b]) - 1
        <4> DEFINE S == w.vvNew[b]
        <4>1. IsFiniteSet(S) /\ v \in S
          BY <1>7, <2>1
        <4> HIDE DEF S
        <4>2. Cardinality(S \ {v}) = Cardinality(S) - 1
          BY <4>1, FS_RemoveElement
        <4> QED BY <3>1, <4>2 DEF S
      <3> QED BY <1>5, <1>7, <1>9, <3>2
    <2>5. NewSizes(r)
      <3>1. Cardinality(r.vvNew[b]) <= NEW_BUCKET_SIZE
        BY <2>4, ConstantTypes
      <3> QED BY <1>6, <2>3, <3>1 DEF NewSizes
    <2>6. TriedSizes(r)
      BY <1>2, <2>1 DEF TriedSizes, Shrunk
    <2>7. Cardinality(Untried(w) \ {v}) = Cardinality(Untried(w)) - 1
      BY <1>2, <2>2, EntriesFinite, FS_RemoveElement
    <2>8. r.nNew = IF w.mapInfo[v].nRefCount = 1 THEN m.nNew - 1 ELSE m.nNew
      BY <1>2, <2>1 DEF Shrunk
    <2>9. m.nNew = Cardinality(Untried(m)) /\ m.nTried = Cardinality(Tried(m))
      BY DEF CountsInv
    <2>10. r.nNew = Cardinality(Untried(r)) /\ r.nTried = Cardinality(Tried(r))
      BY <1>2, <1>3, <2>1, <2>2, <2>7, <2>8, <2>9 DEF Shrunk
    <2>11. CountsInv(r, {})
      BY <2>10 DEF CountsInv
    <2>12. r.nIdCount = m.nIdCount
      BY <1>2, <2>1 DEF Shrunk
    <2> QED BY <2>2, <2>5, <2>6, <2>11, <2>12 DEF TablesInv, CoreInv, r
  <1> QED BY <1>8, <1>9

LEMMA CreateInv ==
    ASSUME NEW m, TablesInv(m, {}), NEW s \in Service, NEW src \in Source,
           Find(m, s) = NoId
    PROVE  LET r == [Create(m, s, src) EXCEPT !.nNew = @ + 1] IN
           /\ CoreInv(r, {m.nIdCount}) /\ NewSizes(r) /\ TriedSizes(r) /\ CountsInv(r, {})
           /\ m.nIdCount \in Untried(r) /\ r.mapInfo[m.nIdCount].nRefCount = 0
           /\ r.vvNew = m.vvNew /\ \A b \in NewBucket : m.nIdCount \notin r.vvNew[b]
           /\ r.nIdCount = m.nIdCount + 1
  <1> DEFINE r == [Create(m, s, src) EXCEPT !.nNew = @ + 1]
             new == m.nIdCount
             a == addrOf[s]
  <1>1. TableType(m) /\ RandomInv(m) /\ AddrInv(m) /\ NewInv(m, {}) /\ TriedInv(m)
    BY DEF TablesInv
  <1>2. /\ TableType(r)
        /\ Entries(r) = Entries(m) \cup {new}
        /\ r.nIdCount = m.nIdCount + 1
        /\ r.mapInfo[new] = Info(s, src, Len(m.vRandom) + 1)
        /\ \A id \in Entries(m) : r.mapInfo[id] = m.mapInfo[id]
        /\ r.mapAddr = [m.mapAddr EXCEPT ![a] = new]
        /\ r.vRandom = Append(m.vRandom, new)
        /\ r.nTried = m.nTried /\ r.vvTried = m.vvTried
        /\ r.nNew = m.nNew + 1 /\ r.vvNew = m.vvNew
    BY <1>1, CreateFields
  <1> HIDE DEF r
  <1>3. /\ r.mapInfo[new].addr = s /\ r.mapInfo[new].nRefCount = 0 /\ ~ r.mapInfo[new].fInTried
        /\ r.mapInfo[new].nRandomPos = Len(m.vRandom) + 1
    BY <1>2 DEF Info
  <1>4. new \notin Entries(m) /\ new \in Nat
    BY <1>1, TableFields
  <1> HIDE DEF new
  <1>5. Tried(r) = Tried(m) /\ Untried(r) = Untried(m) \cup {new}
    BY <1>2, <1>3, <1>4 DEF Tried, Untried
  <1>6. RandomInv(r)
    <2>1. Cardinality(Entries(r)) = Cardinality(Entries(m)) + 1
      BY <1>1, <1>2, <1>4, EntriesFinite, FS_AddElement
    <2>2. /\ Len(r.vRandom) = Len(m.vRandom) + 1 /\ Len(m.vRandom) \in Nat
          /\ \A p \in 1..Len(m.vRandom) : r.vRandom[p] = m.vRandom[p]
          /\ r.vRandom[Len(m.vRandom) + 1] = new
      BY <1>1, <1>2, <1>4, TableFields
    <2>3. \A p \in 1..Len(r.vRandom) :
             r.vRandom[p] \in Entries(r) /\ r.mapInfo[r.vRandom[p]].nRandomPos = p
      <3> TAKE p \in 1..Len(r.vRandom)
      <3>1. CASE p \in 1..Len(m.vRandom)
        BY <1>1, <1>2, <2>2, <3>1 DEF RandomInv
      <3>2. CASE p = Len(m.vRandom) + 1
        BY <1>2, <1>3, <2>2, <3>2
      <3> QED BY <2>2, <3>1, <3>2
    <2>4. \A id \in Entries(r) : /\ r.mapInfo[id].nRandomPos \in 1..Len(r.vRandom)
                                 /\ r.vRandom[r.mapInfo[id].nRandomPos] = id
      <3> TAKE id \in Entries(r)
      <3>1. CASE id = new
        BY <1>3, <2>2, <3>1
      <3>2. CASE id \in Entries(m)
        BY <1>1, <1>2, <2>2, <3>2 DEF RandomInv
      <3> QED BY <1>2, <3>1, <3>2
    <2>5. Len(r.vRandom) = Cardinality(Entries(r))
      BY <1>1, <2>1, <2>2 DEF RandomInv
    <2> QED BY <2>3, <2>4, <2>5 DEF RandomInv
  <1>7. AddrInv(r)
    <2>1. a \in NetAddr /\ \A id \in Entries(m) : addrOf[m.mapInfo[id].addr] \in NetAddr
      BY <1>1, TableFields, ConstantTypes DEF InfoType
    <2>2. \A id \in Entries(m) : addrOf[m.mapInfo[id].addr] # a
      BY <1>1, <1>4, TableFields, ConstantTypes DEF AddrInv, Find
    <2>3. \A h \in NetAddr : r.mapAddr[h] = IF h = a THEN new ELSE m.mapAddr[h]
      BY <1>1, <1>2, TableFields
    <2>4. \A id \in Entries(r) : r.mapAddr[addrOf[r.mapInfo[id].addr]] = id
      BY <1>1, <1>2, <1>3, <2>1, <2>2, <2>3 DEF AddrInv
    <2>5. \A h \in NetAddr : r.mapAddr[h] # NoId =>
             r.mapAddr[h] \in Entries(r) /\ addrOf[r.mapInfo[r.mapAddr[h]].addr] = h
      BY <1>1, <1>2, <1>3, <2>3 DEF AddrInv
    <2> QED BY <2>4, <2>5 DEF AddrInv
  <1>8. \A b \in NewBucket : new \notin m.vvNew[b]
    BY <1>1, <1>4 DEF NewInv, Untried
  <1>9. NewInv(r, {new})
    <2>1. \A j : BucketsOf(r, j) = BucketsOf(m, j)
      BY <1>2 DEF BucketsOf
    <2>2. Cardinality(BucketsOf(m, new)) = 0
      BY <1>8, FS_EmptySet DEF BucketsOf
    <2>3. \A j \in Entries(r) : r.mapInfo[j].nRefCount = Cardinality(BucketsOf(r, j))
      BY <1>1, <1>2, <1>3, <2>1, <2>2 DEF NewInv
    <2>4. \A j \in Untried(r) \ {new} : r.mapInfo[j].nRefCount \in 1..NEW_BUCKETS_PER_ADDRESS
      BY <1>1, <1>2, <1>5 DEF NewInv, Untried
    <2> QED BY <1>1, <1>2, <1>3, <1>5, <2>3, <2>4 DEF NewInv
  <1>10. TriedInv(r)
    <2>1. \A id \in Tried(m) : SamePeer(r.mapInfo[id], m.mapInfo[id])
      BY <1>2 DEF Tried, SamePeer
    <2> QED BY <1>1, <1>2, <1>5, <2>1, TriedFrame
  <1>11. NewSizes(r) /\ TriedSizes(r)
    BY <1>2 DEF TablesInv, NewSizes, TriedSizes
  <1>12. CountsInv(r, {})
    <2>1. new \notin Untried(m) /\ IsFiniteSet(Untried(m))
      BY <1>1, <1>4, EntriesFinite DEF Untried
    <2>2. Cardinality(Untried(r)) = Cardinality(Untried(m)) + 1
      BY <1>5, <2>1, FS_AddElement
    <2>3. m.nNew = Cardinality(Untried(m)) /\ m.nTried = Cardinality(Tried(m))
      BY DEF TablesInv, CountsInv
    <2> QED BY <1>2, <1>5, <2>2, <2>3 DEF CountsInv
  <1> QED BY <1>2, <1>3, <1>5, <1>6, <1>7, <1>8, <1>9, <1>10, <1>11, <1>12 DEF CoreInv, r, new

-----------------------------------------------------------------------------
(* Good_ and MakeTried. *)

LEMMA TouchInv ==
    ASSUME NEW m, NEW X, TablesInv(m, X), NEW id \in Entries(m), NEW t \in Time
    PROVE  LET r == [m EXCEPT !.mapInfo[id].nLastSuccess = t] IN
           /\ TablesInv(r, X) /\ Entries(r) = Entries(m) /\ r.nIdCount = m.nIdCount
           /\ \A j \in Entries(m) : SamePlaces(r.mapInfo[j], m.mapInfo[j])
                                    /\ r.mapInfo[j].addr = m.mapInfo[j].addr
           /\ r.mapInfo[id].nLastSuccess # 0
           /\ r.vvNew = m.vvNew /\ r.vvTried = m.vvTried
  <1> DEFINE e == [m.mapInfo[id] EXCEPT !.nLastSuccess = t]
             infos == [m.mapInfo EXCEPT ![id] = e]
             r == [m EXCEPT !.mapInfo[id].nLastSuccess = t]
  <1>0. TableType(m) /\ RandomInv(m) /\ AddrInv(m) /\ NewInv(m, X) /\ TriedInv(m)
    BY DEF TablesInv
  <1>1. r = [m EXCEPT !.mapInfo = infos]
    BY <1>0, TableFields DEF Table
  <1>2. m.mapInfo[id] \in InfoType
    BY <1>0, TableFields
  <1>3. /\ e \in InfoType /\ SamePlaces(e, m.mapInfo[id]) /\ e.nLastSuccess = t
        /\ e.addr = m.mapInfo[id].addr /\ e.nRandomPos = m.mapInfo[id].nRandomPos
    BY <1>2, InfoSuccess
  <1> HIDE DEF e
  <1>4. /\ infos \in [Entries(m) -> InfoType]
        /\ \A j \in Entries(m) : infos[j] = IF j = id THEN e ELSE m.mapInfo[j]
    BY <1>0, <1>3, InfoUpdate, TableFields
  <1> HIDE DEF r, infos
  <1>5. infos \in InfoMaps /\ DOMAIN infos = Entries(m)
    BY <1>0, <1>4, InfoMapsType, TableFields
  <1>6. /\ r \in Table
        /\ r.nIdCount = m.nIdCount /\ r.mapInfo = infos /\ r.mapAddr = m.mapAddr
        /\ r.vRandom = m.vRandom /\ r.nTried = m.nTried /\ r.vvTried = m.vvTried
        /\ r.nNew = m.nNew /\ r.vvNew = m.vvNew
    <2>1. m \in Table
      BY <1>0, TableFields
    <2> QED BY <1>1, <1>5, <2>1 DEF Table
  <1>7. Entries(r) = Entries(m)
    BY <1>5, <1>6 DEF Entries
  <1>8. TableType(r)
    BY <1>0, <1>6, <1>7 DEF TableType
  <1>9. \A j \in Entries(m) :
           /\ SamePlaces(r.mapInfo[j], m.mapInfo[j])
           /\ r.mapInfo[j].addr = m.mapInfo[j].addr
           /\ r.mapInfo[j].nRandomPos = m.mapInfo[j].nRandomPos
           /\ r.mapInfo[j].nLastSuccess = IF j = id THEN t ELSE m.mapInfo[j].nLastSuccess
    BY <1>3, <1>4, <1>6 DEF SamePlaces
  <1>10. Tried(r) = Tried(m) /\ Untried(r) = Untried(m)
    BY <1>7, <1>9 DEF Tried, Untried, SamePlaces
  <1>11. RandomInv(r)
    BY <1>0, <1>6, <1>7, <1>9 DEF RandomInv
  <1>12. AddrInv(r)
    BY <1>0, <1>6, <1>7, <1>9 DEF AddrInv
  <1>13. NewInv(r, X)
    <2>1. \A j : BucketsOf(r, j) = BucketsOf(m, j)
      BY <1>6 DEF BucketsOf
    <2>2. \A j \in Entries(m) : r.mapInfo[j].nRefCount = m.mapInfo[j].nRefCount
      BY <1>9 DEF SamePlaces
    <2>3. \A j \in Entries(r) : r.mapInfo[j].nRefCount = Cardinality(BucketsOf(r, j))
      BY <1>0, <1>7, <2>1, <2>2 DEF NewInv
    <2>4. \A j \in Untried(r) \ X : r.mapInfo[j].nRefCount \in 1..NEW_BUCKETS_PER_ADDRESS
      BY <1>0, <1>10, <2>2 DEF NewInv, Untried
    <2>5. \A b \in NewBucket : r.vvNew[b] \subseteq Untried(r)
      BY <1>0, <1>6, <1>10 DEF NewInv
    <2> QED BY <1>0, <1>7, <1>10, <2>1, <2>2, <2>3, <2>4, <2>5 DEF NewInv, Untried
  <1>14. TriedInv(r)
    <2>1. \A j \in Tried(m) : TriedBucketOf(r, j) = TriedBucketOf(m, j)
                              /\ r.mapInfo[j].nLastSuccess # 0
      <3> TAKE j \in Tried(m)
      <3>1. j \in Entries(m) /\ m.mapInfo[j].nLastSuccess # 0
        BY <1>0 DEF TriedInv, Tried
      <3>2. r.mapInfo[j].addr = m.mapInfo[j].addr /\ r.mapInfo[j].nLastSuccess # 0
        BY <1>9, <3>1, ConstantTypes
      <3> QED BY <3>2 DEF TriedBucketOf
    <2>2. \A k \in TriedBucket : \A p \in 1..Len(r.vvTried[k]) :
             /\ r.vvTried[k][p] \in Tried(r)
             /\ TriedBucketOf(r, r.vvTried[k][p]) = k
             /\ \A q \in 1..Len(r.vvTried[k]) : r.vvTried[k][p] = r.vvTried[k][q] => p = q
      BY <1>0, <1>6, <1>10, <2>1 DEF TriedInv
    <2>3. \A j \in Tried(r) :
             /\ \E p \in 1..Len(r.vvTried[TriedBucketOf(r, j)]) :
                   r.vvTried[TriedBucketOf(r, j)][p] = j
             /\ r.mapInfo[j].nLastSuccess # 0
      BY <1>0, <1>6, <1>10, <2>1 DEF TriedInv
    <2> QED BY <2>2, <2>3 DEF TriedInv
  <1>15. NewSizes(r) /\ TriedSizes(r) /\ CountsInv(r, X)
    BY <1>6, <1>10 DEF TablesInv, NewSizes, TriedSizes, CountsInv
  <1> QED BY <1>6, <1>7, <1>8, <1>9, <1>11, <1>12, <1>13, <1>14, <1>15, ConstantTypes DEF TablesInv, r

LEMMA LeaveNewFields ==
    ASSUME NEW m, TableType(m), NEW id \in Entries(m)
    PROVE  LET r == LeaveNew(m, id) IN
           /\ TableType(r) /\ SameEntries(m, r)
           /\ \A j \in Entries(m) :
                 /\ r.mapInfo[j].fInTried = m.mapInfo[j].fInTried
                 /\ r.mapInfo[j].nRefCount =
                       IF j = id THEN m.mapInfo[j].nRefCount - Cardinality(BucketsOf(m, id))
                                 ELSE m.mapInfo[j].nRefCount
           /\ r.nTried = m.nTried /\ r.vvTried = m.vvTried
           /\ r.nNew = m.nNew - 1
           /\ \A b \in NewBucket : r.vvNew[b] = m.vvNew[b] \ {id}
  <1> DEFINE n == m.mapInfo[id].nRefCount - Cardinality(BucketsOf(m, id))
             e == [m.mapInfo[id] EXCEPT !.nRefCount = n]
             infos == [m.mapInfo EXCEPT ![id] = e]
             buckets == [b \in NewBucket |-> m.vvNew[b] \ {id}]
             r == LeaveNew(m, id)
  <1>1. r = [[[m EXCEPT !.vvNew = buckets] EXCEPT !.mapInfo = infos] EXCEPT !.nNew = m.nNew - 1]
    BY TableFields DEF Table, LeaveNew, BucketsOf
  <1>2. m.mapInfo[id] \in InfoType /\ n \in Int
    BY TableFields, EntriesFinite, FS_CardinalityType DEF InfoType
  <1> HIDE DEF n
  <1>3. /\ e \in InfoType /\ SamePeer(e, m.mapInfo[id]) /\ e.nRefCount = n
        /\ e.fInTried = m.mapInfo[id].fInTried /\ e.nRandomPos = m.mapInfo[id].nRandomPos
    BY <1>2, InfoRefCount
  <1> HIDE DEF e
  <1>4. /\ infos \in [Entries(m) -> InfoType]
        /\ \A j \in Entries(m) : infos[j] = IF j = id THEN e ELSE m.mapInfo[j]
    BY <1>3, InfoUpdate, TableFields
  <1>5. buckets \in NewTables /\ \A b \in NewBucket : buckets[b] = m.vvNew[b] \ {id}
    BY TableFields DEF NewTables
  <1> HIDE DEF r, infos, buckets
  <1>6. infos \in InfoMaps /\ DOMAIN infos = Entries(m)
    BY <1>4, InfoMapsType, TableFields
  <1>7. /\ r \in Table
        /\ r.nIdCount = m.nIdCount /\ r.mapInfo = infos /\ r.mapAddr = m.mapAddr
        /\ r.vRandom = m.vRandom /\ r.nTried = m.nTried /\ r.vvTried = m.vvTried
        /\ r.nNew = m.nNew - 1 /\ r.vvNew = buckets
    <2>1. m \in Table /\ m.nNew - 1 \in Int
      BY TableFields
    <2> QED BY <1>1, <1>5, <1>6, <2>1 DEF Table
  <1>8. Entries(r) = Entries(m)
    BY <1>6, <1>7 DEF Entries
  <1>9. TableType(r)
    BY <1>7, <1>8 DEF TableType
  <1>10. SameEntries(m, r)
    BY <1>3, <1>4, <1>7, <1>8 DEF SameEntries, SamePeer
  <1> QED BY <1>3, <1>4, <1>5, <1>7, <1>9, <1>10 DEF r, n

LEMMA LeaveNewInv ==
    ASSUME NEW m, TablesInv(m, {}), NEW id \in Untried(m)
    PROVE  LET r == LeaveNew(m, id) IN
           /\ TablesInv(r, {id}) /\ SameEntries(m, r) /\ r.vvTried = m.vvTried
           /\ \A b \in BucketsOf(m, id) : Cardinality(r.vvNew[b]) < NEW_BUCKET_SIZE
           /\ \A j \in Entries(m) : r.mapInfo[j].fInTried = m.mapInfo[j].fInTried
           /\ \A b \in NewBucket : r.vvNew[b] = m.vvNew[b] \ {id}
  <1> DEFINE r == LeaveNew(m, id)
  <1>1. /\ TableType(m) /\ RandomInv(m) /\ AddrInv(m) /\ NewInv(m, {}) /\ TriedInv(m)
        /\ NewSizes(m) /\ TriedSizes(m) /\ CountsInv(m, {}) /\ id \in Entries(m)
    BY DEF TablesInv, Untried
  <1>2. /\ TableType(r) /\ SameEntries(m, r)
        /\ \A j \in Entries(m) :
              /\ r.mapInfo[j].fInTried = m.mapInfo[j].fInTried
              /\ r.mapInfo[j].nRefCount =
                    IF j = id THEN m.mapInfo[j].nRefCount - Cardinality(BucketsOf(m, id))
                              ELSE m.mapInfo[j].nRefCount
        /\ r.nTried = m.nTried /\ r.vvTried = m.vvTried
        /\ r.nNew = m.nNew - 1
        /\ \A b \in NewBucket : r.vvNew[b] = m.vvNew[b] \ {id}
    BY <1>1, LeaveNewFields
  <1> HIDE DEF r
  <1>3. Entries(r) = Entries(m) /\ Tried(r) = Tried(m) /\ Untried(r) = Untried(m)
    BY <1>2 DEF SameEntries, Tried, Untried
  <1>4. RandomInv(r) /\ AddrInv(r)
    BY <1>1, <1>2, SameEntriesInv
  <1>5. TriedInv(r)
    BY <1>1, <1>2, <1>3, TriedFrame DEF SameEntries, Tried
  <1>6. NewInv(r, {id})
    <2>1. \A j : j # id => BucketsOf(r, j) = BucketsOf(m, j)
      BY <1>2 DEF BucketsOf
    <2>2. BucketsOf(r, id) = {}
      BY <1>2 DEF BucketsOf
    <2>3. r.mapInfo[id].nRefCount = 0
      <3>1. m.mapInfo[id].nRefCount = Cardinality(BucketsOf(m, id))
        BY <1>1 DEF NewInv
      <3>2. Cardinality(BucketsOf(m, id)) \in Nat
        BY <1>1, EntriesFinite, FS_CardinalityType
      <3> QED BY <1>1, <1>2, <3>1, <3>2
    <2>4. \A j \in Entries(r) : r.mapInfo[j].nRefCount = Cardinality(BucketsOf(r, j))
      BY <1>1, <1>2, <1>3, <2>1, <2>2, <2>3, FS_EmptySet DEF NewInv
    <2>5. \A b \in NewBucket : r.vvNew[b] \subseteq Untried(r)
      BY <1>1, <1>2, <1>3 DEF NewInv
    <2>6. \A j \in Untried(r) \ {id} : r.mapInfo[j].nRefCount \in 1..NEW_BUCKETS_PER_ADDRESS
      BY <1>1, <1>2, <1>3 DEF NewInv, Untried
    <2> QED BY <1>3, <2>3, <2>4, <2>5, <2>6 DEF NewInv
  <1>7. \A b \in NewBucket :
           Cardinality(r.vvNew[b]) = IF id \in m.vvNew[b] THEN Cardinality(m.vvNew[b]) - 1
                                                          ELSE Cardinality(m.vvNew[b])
    BY <1>1, <1>2, NewBucketsTyped, FS_RemoveElement
  <1>8. \A b \in NewBucket : Cardinality(m.vvNew[b]) \in Nat /\ Cardinality(m.vvNew[b]) <= NEW_BUCKET_SIZE
    BY <1>1, NewBucketsTyped DEF NewSizes
  <1>9. NewSizes(r)
    BY <1>7, <1>8, ConstantTypes DEF NewSizes
  <1>10. \A b \in BucketsOf(m, id) : Cardinality(r.vvNew[b]) < NEW_BUCKET_SIZE
    BY <1>7, <1>8, ConstantTypes DEF BucketsOf
  <1>11. TriedSizes(r)
    BY <1>1, <1>2 DEF TriedSizes
  <1>12. CountsInv(r, {id})
    <2>1. Cardinality(Untried(m) \ {id}) = Cardinality(Untried(m)) - 1
      BY <1>1, EntriesFinite, FS_RemoveElement
    <2>2. m.nNew = Cardinality(Untried(m)) /\ m.nTried = Cardinality(Tried(m))
      BY <1>1 DEF CountsInv
    <2> QED BY <1>2, <1>3, <2>1, <2>2 DEF CountsInv
  <1> QED BY <1>2, <1>4, <1>5, <1>6, <1>9, <1>10, <1>11, <1>12 DEF TablesInv, r

(* Entry id, which is in no new bucket any more, goes to tried bucket k. *)
PlaceTried(m, id, k) ==
    [m EXCEPT !.vvTried[k] = Append(@, id), !.nTried = @ + 1, !.mapInfo[id].fInTried = TRUE]

Placed(m, r, id) ==
    /\ TablesInv(r, {}) /\ SameEntries(m, r)
    /\ Tried(r) = Tried(m) \cup {id} /\ r.vvNew = m.vvNew

LEMMA PlaceTriedInv ==
    ASSUME NEW m, NEW id, TablesInv(m, {id}), NEW k \in TriedBucket, k = TriedBucketOf(m, id),
           Len(m.vvTried[k]) < TRIED_BUCKET_SIZE, m.mapInfo[id].nLastSuccess # 0
    PROVE  Placed(m, PlaceTried(m, id, k), id)
  <1> DEFINE e == [m.mapInfo[id] EXCEPT !.fInTried = TRUE]
             infos == [m.mapInfo EXCEPT ![id] = e]
             list == Append(m.vvTried[k], id)
             tables == [m.vvTried EXCEPT ![k] = list]
             len == Len(m.vvTried[k])
             r == PlaceTried(m, id, k)
  <1>0. /\ TableType(m) /\ RandomInv(m) /\ AddrInv(m) /\ NewInv(m, {id}) /\ TriedInv(m)
        /\ NewSizes(m) /\ TriedSizes(m) /\ CountsInv(m, {id})
        /\ id \in Entries(m) /\ id \in Nat /\ id \in Untried(m) /\ id \notin Tried(m)
    BY TableFields DEF TablesInv, NewInv, Untried, Tried
  <1>1. r = [[[m EXCEPT !.vvTried = tables] EXCEPT !.nTried = m.nTried + 1] EXCEPT !.mapInfo = infos]
    BY <1>0, TableFields DEF Table, PlaceTried
  <1>2. m.mapInfo[id] \in InfoType
    BY <1>0, TableFields
  <1>3. /\ e \in InfoType /\ SamePeer(e, m.mapInfo[id]) /\ e.fInTried = TRUE
        /\ e.nRefCount = m.mapInfo[id].nRefCount /\ e.nRandomPos = m.mapInfo[id].nRandomPos
    BY <1>2, InfoTried
  <1> HIDE DEF e
  <1>4. /\ infos \in [Entries(m) -> InfoType]
        /\ \A j \in Entries(m) : infos[j] = IF j = id THEN e ELSE m.mapInfo[j]
    BY <1>0, <1>3, InfoUpdate, TableFields
  <1>5. /\ list \in Seq(Nat) /\ Len(list) = len + 1 /\ list[len + 1] = id /\ len \in Nat
        /\ \A p \in 1..len : list[p] = m.vvTried[k][p]
    BY <1>0, TableFields
  <1>6. tables \in TriedTables
        /\ \A c \in TriedBucket : tables[c] = IF c = k THEN list ELSE m.vvTried[c]
    BY <1>0, <1>5, TableFields DEF TriedTables
  <1> HIDE DEF r, infos, tables, list
  <1>7. infos \in InfoMaps /\ DOMAIN infos = Entries(m)
    BY <1>0, <1>4, InfoMapsType, TableFields
  <1>8. /\ r \in Table
        /\ r.nIdCount = m.nIdCount /\ r.mapInfo = infos /\ r.mapAddr = m.mapAddr
        /\ r.vRandom = m.vRandom /\ r.nTried = m.nTried + 1 /\ r.vvTried = tables
        /\ r.nNew = m.nNew /\ r.vvNew = m.vvNew
    <2>1. m \in Table /\ m.nTried + 1 \in Int
      BY <1>0, TableFields
    <2> QED BY <1>1, <1>6, <1>7, <2>1 DEF Table
  <1>9. Entries(r) = Entries(m)
    BY <1>7, <1>8 DEF Entries
  <1>10. TableType(r)
    BY <1>0, <1>8, <1>9 DEF TableType
  <1>11. SameEntries(m, r)
    BY <1>3, <1>4, <1>8, <1>9 DEF SameEntries, SamePeer
  <1>12. \A j \in Entries(m) :
            /\ r.mapInfo[j].nRefCount = m.mapInfo[j].nRefCount
            /\ r.mapInfo[j].fInTried = IF j = id THEN TRUE ELSE m.mapInfo[j].fInTried
            /\ TriedBucketOf(r, j) = TriedBucketOf(m, j)
            /\ r.mapInfo[j].nLastSuccess = m.mapInfo[j].nLastSuccess
    BY <1>3, <1>4, <1>8 DEF SamePeer, TriedBucketOf
  <1>13. Tried(r) = Tried(m) \cup {id} /\ Untried(r) = Untried(m) \ {id}
    BY <1>0, <1>9, <1>12 DEF Tried, Untried
  <1>14. RandomInv(r) /\ AddrInv(r)
    BY <1>0, <1>11, SameEntriesInv
  <1>15. NewInv(r, {})
    <2>1. \A j : BucketsOf(r, j) = BucketsOf(m, j)
      BY <1>8 DEF BucketsOf
    <2>2. \A b \in NewBucket : r.vvNew[b] \subseteq Untried(r)
      BY <1>0, <1>8, <1>13, NewBucketsTyped DEF NewInv
    <2>3. \A j \in Entries(r) : r.mapInfo[j].nRefCount = Cardinality(BucketsOf(r, j))
      BY <1>0, <1>9, <1>12, <2>1 DEF NewInv
    <2>4. \A j \in Untried(r) : r.mapInfo[j].nRefCount \in 1..NEW_BUCKETS_PER_ADDRESS
      <3>1. Untried(m) \subseteq Entries(m)
        BY DEF Untried
      <3> QED BY <1>0, <1>12, <1>13, <3>1 DEF NewInv
    <2> QED BY <2>2, <2>3, <2>4 DEF NewInv
  <1>16. \A c \in TriedBucket : c # k => r.vvTried[c] = m.vvTried[c]
    BY <1>6, <1>8
  <1>17. r.vvTried[k] = list
    BY <1>6, <1>8
  <1>18. TriedInv(r)
    <2>1. \A c \in TriedBucket : \A p \in 1..Len(r.vvTried[c]) :
             /\ r.vvTried[c][p] \in Tried(r)
             /\ TriedBucketOf(r, r.vvTried[c][p]) = c
             /\ \A q \in 1..Len(r.vvTried[c]) : r.vvTried[c][p] = r.vvTried[c][q] => p = q
      <3> TAKE c \in TriedBucket
      <3> TAKE p \in 1..Len(r.vvTried[c])
      <3>1. CASE c # k
        <4>1. r.vvTried[c] = m.vvTried[c]
          BY <1>16, <3>1
        <4>2. \A q \in 1..Len(m.vvTried[c]) :
                 /\ m.vvTried[c][q] \in Tried(m) /\ TriedBucketOf(m, m.vvTried[c][q]) = c
                 /\ \A j \in 1..Len(m.vvTried[c]) : m.vvTried[c][q] = m.vvTried[c][j] => q = j
          BY <1>0 DEF TriedInv
        <4>3. \A j \in Tried(m) : TriedBucketOf(r, j) = TriedBucketOf(m, j)
          BY <1>12 DEF Tried
        <4> QED BY <1>13, <4>1, <4>2, <4>3
      <3>2. CASE c = k
        <4>1. \A q \in 1..len : /\ m.vvTried[k][q] \in Tried(m)
                                /\ TriedBucketOf(r, m.vvTried[k][q]) = k
                                /\ m.vvTried[k][q] # id
          <5>1. \A q \in 1..len : m.vvTried[k][q] \in Tried(m) /\ TriedBucketOf(m, m.vvTried[k][q]) = k
            BY <1>0 DEF TriedInv
          <5>2. \A j \in Tried(m) : TriedBucketOf(r, j) = TriedBucketOf(m, j)
            BY <1>12 DEF Tried
          <5> QED BY <1>0, <5>1, <5>2
        <4>2. \A q \in 1..len + 1 : r.vvTried[k][q] = IF q = len + 1 THEN id ELSE m.vvTried[k][q]
          BY <1>5, <1>17
        <4>3. TriedBucketOf(r, id) = k
          BY <1>0, <1>12
        <4>4. \A i, j \in 1..len : m.vvTried[k][i] = m.vvTried[k][j] => i = j
          BY <1>0 DEF TriedInv
        <4>5. Len(r.vvTried[c]) = len + 1
          BY <1>5, <1>17, <3>2
        <4> HIDE DEF len
        <4>6. len \in Nat /\ p \in 1..len + 1
          BY <1>5, <4>5
        <4>7. r.vvTried[k][p] \in Tried(r) /\ TriedBucketOf(r, r.vvTried[k][p]) = k
          BY <1>13, <4>1, <4>2, <4>3, <4>6
        <4>8. \A q \in 1..len + 1 : r.vvTried[k][p] = r.vvTried[k][q] => p = q
          BY <4>1, <4>2, <4>4, <4>6
        <4> QED BY <3>2, <4>5, <4>7, <4>8
      <3> QED BY <3>1, <3>2
    <2>2. \A j \in Tried(r) :
             /\ \E p \in 1..Len(r.vvTried[TriedBucketOf(r, j)]) :
                   r.vvTried[TriedBucketOf(r, j)][p] = j
             /\ r.mapInfo[j].nLastSuccess # 0
      <3> TAKE j \in Tried(r)
      <3>1. CASE j = id
        <4>1. TriedBucketOf(r, j) = k /\ r.mapInfo[j].nLastSuccess # 0
          BY <1>0, <1>12, <3>1
        <4> QED BY <1>5, <1>17, <3>1, <4>1
      <3>2. CASE j \in Tried(m)
        <4>1. PICK p \in 1..Len(m.vvTried[TriedBucketOf(m, j)]) :
                      m.vvTried[TriedBucketOf(m, j)][p] = j
          BY <1>0, <3>2 DEF TriedInv
        <4>2. TriedBucketOf(r, j) = TriedBucketOf(m, j) /\ TriedBucketOf(m, j) \in TriedBucket
              /\ r.mapInfo[j].nLastSuccess # 0
          <5>1. j \in Entries(m) /\ m.mapInfo[j].nLastSuccess # 0
            BY <1>0, <3>2 DEF TriedInv, Tried
          <5> QED BY <1>0, <1>12, <5>1, PeerTypes
        <4>3. CASE TriedBucketOf(m, j) = k
          <5>1. p \in 1..len /\ m.vvTried[k][p] = j
            BY <4>1, <4>3
          <5> HIDE DEF len
          <5>2. list[p] = j /\ p \in 1..Len(list)
            BY <1>5, <5>1
          <5> QED BY <1>17, <4>2, <4>3, <5>2
        <4>4. CASE TriedBucketOf(m, j) # k
          BY <1>16, <4>1, <4>2, <4>4
        <4> QED BY <4>3, <4>4
      <3> QED BY <1>13, <3>1, <3>2
    <2> QED BY <2>1, <2>2 DEF TriedInv
  <1>19. NewSizes(r)
    BY <1>0, <1>8 DEF NewSizes
  <1>20. TriedSizes(r)
    <2>1. Len(r.vvTried[k]) <= TRIED_BUCKET_SIZE
      BY <1>5, <1>17, ConstantTypes
    <2> QED BY <1>0, <1>16, <2>1 DEF TriedSizes
  <1>21. CountsInv(r, {})
    <2>1. Cardinality(Tried(r)) = Cardinality(Tried(m)) + 1
      BY <1>0, <1>13, EntriesFinite, FS_AddElement
    <2> QED BY <1>0, <1>8, <1>13, <2>1 DEF CountsInv
  <1> QED BY <1>8, <1>10, <1>11, <1>13, <1>14, <1>15, <1>18, <1>19, <1>20, <1>21
     DEF TablesInv, Placed, r

SwapTried(m, k, i, n) ==
    [m EXCEPT !.vvTried[k] = [@ EXCEPT ![n] = m.vvTried[k][i], ![i] = m.vvTried[k][n]]]

(* r differs from m in the order of the lists of tried entries only. *)
Reordered(m, r, X) ==
    /\ TablesInv(r, X) /\ Entries(r) = Entries(m) /\ r.nIdCount = m.nIdCount
    /\ r.mapInfo = m.mapInfo /\ r.vvNew = m.vvNew
    /\ \A c \in TriedBucket : Len(r.vvTried[c]) = Len(m.vvTried[c])

LEMMA ShuffleTriedInv ==
    ASSUME NEW m, NEW X, TablesInv(m, X), NEW k \in TriedBucket,
           NEW i \in 1..Len(m.vvTried[k]), NEW n \in 1..Len(m.vvTried[k])
    PROVE  Reordered(m, SwapTried(m, k, i, n), X)
  <1> DEFINE old == m.vvTried[k]
             list == [old EXCEPT ![n] = old[i], ![i] = old[n]]
             tables == [m.vvTried EXCEPT ![k] = list]
             r == SwapTried(m, k, i, n)
  <1>0. /\ TableType(m) /\ RandomInv(m) /\ AddrInv(m) /\ NewInv(m, X) /\ TriedInv(m)
        /\ NewSizes(m) /\ TriedSizes(m) /\ CountsInv(m, X)
    BY DEF TablesInv
  <1>1. r = [m EXCEPT !.vvTried = tables]
    BY <1>0, TableFields DEF Table, SwapTried
  <1>2. old \in Seq(Nat) /\ Len(old) \in Nat /\ i \in 1..Len(old) /\ n \in 1..Len(old)
    BY <1>0, TableFields
  <1>3. /\ list \in Seq(Nat) /\ Len(list) = Len(old)
        /\ \A p \in 1..Len(old) : list[p] = IF p = i THEN old[n] ELSE IF p = n THEN old[i] ELSE old[p]
    <2> HIDE DEF old
    <2>1. list \in Seq(Nat) /\ Len(list) = Len(old)
      BY <1>2
    <2> QED BY <1>2, <2>1
  <1>4. tables \in TriedTables
        /\ \A c \in TriedBucket : tables[c] = IF c = k THEN list ELSE m.vvTried[c]
    BY <1>0, <1>3, TableFields DEF TriedTables
  <1> HIDE DEF r, tables, list
  <1>5. /\ r \in Table
        /\ r.nIdCount = m.nIdCount /\ r.mapInfo = m.mapInfo /\ r.mapAddr = m.mapAddr
        /\ r.vRandom = m.vRandom /\ r.nTried = m.nTried /\ r.vvTried = tables
        /\ r.nNew = m.nNew /\ r.vvNew = m.vvNew
    <2>1. m \in Table
      BY <1>0, TableFields
    <2> QED BY <1>1, <1>4, <2>1 DEF Table
  <1>6. Entries(r) = Entries(m) /\ Tried(r) = Tried(m) /\ Untried(r) = Untried(m)
    BY <1>5 DEF Entries, Tried, Untried
  <1>7. TableType(r) /\ RandomInv(r) /\ AddrInv(r)
    BY <1>0, <1>5, <1>6 DEF TableType, RandomInv, AddrInv
  <1>8. NewInv(r, X)
    <2>1. \A j : BucketsOf(r, j) = BucketsOf(m, j)
      BY <1>5 DEF BucketsOf
    <2> QED BY <1>0, <1>5, <1>6, <2>1 DEF NewInv
  <1>9. \A c \in TriedBucket : Len(r.vvTried[c]) = Len(m.vvTried[c])
    BY <1>3, <1>4, <1>5
  <1>10. TriedInv(r)
    <2>1. \A j : TriedBucketOf(r, j) = TriedBucketOf(m, j)
      BY <1>5 DEF TriedBucketOf
    <2>2. \A c \in TriedBucket : \A p \in 1..Len(r.vvTried[c]) :
             /\ r.vvTried[c][p] \in Tried(r)
             /\ TriedBucketOf(r, r.vvTried[c][p]) = c
             /\ \A q \in 1..Len(r.vvTried[c]) : r.vvTried[c][p] = r.vvTried[c][q] => p = q
      <3> TAKE c \in TriedBucket
      <3> TAKE p \in 1..Len(r.vvTried[c])
      <3>1. CASE c # k
        <4>1. r.vvTried[c] = m.vvTried[c]
          BY <1>4, <1>5, <3>1
        <4> QED BY <1>0, <1>6, <2>1, <4>1 DEF TriedInv
      <3>2. CASE c = k
        <4>1. r.vvTried[c] = list
          BY <1>4, <1>5, <3>2
        <4>2. \A j \in 1..Len(old) : /\ old[j] \in Tried(m) /\ TriedBucketOf(m, old[j]) = k
                                     /\ \A q \in 1..Len(old) : old[j] = old[q] => j = q
          BY <1>0 DEF TriedInv
        <4> HIDE DEF old
        <4> DEFINE from(j) == IF j = i THEN n ELSE IF j = n THEN i ELSE j
        <4>3. \A j \in 1..Len(old) : from(j) \in 1..Len(old) /\ list[j] = old[from(j)]
          BY <1>2, <1>3
        <4>4. \A j, q \in 1..Len(old) : from(j) = from(q) => j = q
          BY <1>2
        <4>5. Len(r.vvTried[c]) = Len(old) /\ p \in 1..Len(old)
          BY <1>3, <4>1
        <4> HIDE DEF from
        <4> QED BY <1>6, <2>1, <3>2, <4>1, <4>2, <4>3, <4>4, <4>5
      <3> QED BY <3>1, <3>2
    <2>3. \A j \in Tried(r) :
             /\ \E p \in 1..Len(r.vvTried[TriedBucketOf(r, j)]) :
                   r.vvTried[TriedBucketOf(r, j)][p] = j
             /\ r.mapInfo[j].nLastSuccess # 0
      <3> TAKE j \in Tried(r)
      <3>1. PICK p \in 1..Len(m.vvTried[TriedBucketOf(m, j)]) :
                    m.vvTried[TriedBucketOf(m, j)][p] = j
        BY <1>0, <1>6 DEF TriedInv
      <3>2. TriedBucketOf(m, j) \in TriedBucket /\ r.mapInfo[j].nLastSuccess # 0
        <4>1. j \in Entries(m) /\ m.mapInfo[j].nLastSuccess # 0
          BY <1>0, <1>6 DEF TriedInv, Tried
        <4> QED BY <1>0, <1>5, <4>1, PeerTypes
      <3>3. CASE TriedBucketOf(m, j) # k
        <4>1. r.vvTried[TriedBucketOf(m, j)] = m.vvTried[TriedBucketOf(m, j)]
          BY <1>4, <1>5, <3>2, <3>3
        <4> QED BY <2>1, <3>1, <3>2, <4>1
      <3>4. CASE TriedBucketOf(m, j) = k
        <4>1. r.vvTried[k] = list /\ p \in 1..Len(old) /\ old[p] = j
          BY <1>4, <1>5, <3>1, <3>4
        <4>2. \E q \in 1..Len(list) : list[q] = j
          <5> HIDE DEF old
          <5>1. CASE p = i
            BY <1>2, <1>3, <4>1, <5>1
          <5>2. CASE p = n
            BY <1>2, <1>3, <4>1, <5>2
          <5>3. CASE p # i /\ p # n
            BY <1>2, <1>3, <4>1, <5>3
          <5> QED BY <5>1, <5>2, <5>3
        <4> QED BY <2>1, <3>2, <3>4, <4>1, <4>2
      <3> QED BY <3>3, <3>4
    <2> QED BY <2>2, <2>3 DEF TriedInv
  <1>11. NewSizes(r) /\ TriedSizes(r) /\ CountsInv(r, X)
    BY <1>0, <1>5, <1>6, <1>9 DEF NewSizes, TriedSizes, CountsInv
  <1>12. TablesInv(r, X)
    BY <1>7, <1>8, <1>10, <1>11 DEF TablesInv
  <1> QED BY <1>5, <1>6, <1>9, <1>12 DEF Reordered, r

(* The end of MakeTried: entry id takes position p of its tried bucket k   *)
(* and the entry there goes to new bucket b.                               *)
Evicted(m, id, k, p, b) ==
    LET old == m.vvTried[k][p] IN
    [m EXCEPT !.mapInfo[old].fInTried = FALSE,
              !.mapInfo[old].nRefCount = 1,
              !.vvNew[b] = @ \cup {old},
              !.nNew = @ + 1,
              !.vvTried[k][p] = id,
              !.mapInfo[id].fInTried = TRUE]

EvictedRel(m, r, id, k, p, b) ==
    LET old == m.vvTried[k][p] IN
    /\ TableType(r) /\ SameEntries(m, r)
    /\ \A j \in Entries(m) :
          /\ r.mapInfo[j].nRefCount = IF j = old THEN 1 ELSE m.mapInfo[j].nRefCount
          /\ r.mapInfo[j].fInTried = IF j = old THEN FALSE
                                     ELSE IF j = id THEN TRUE
                                     ELSE m.mapInfo[j].fInTried
    /\ r.nTried = m.nTried /\ r.nNew = m.nNew + 1
    /\ \A c \in TriedBucket :
          r.vvTried[c] = IF c = k THEN [m.vvTried[c] EXCEPT ![p] = id] ELSE m.vvTried[c]
    /\ \A c \in NewBucket :
          r.vvNew[c] = IF c = b THEN m.vvNew[c] \cup {old} ELSE m.vvNew[c]

LEMMA EvictedFields ==
    ASSUME NEW m, TableType(m), NEW id \in Entries(m), NEW k \in TriedBucket,
           NEW p \in 1..Len(m.vvTried[k]), NEW b \in NewBucket,
           m.vvTried[k][p] \in Entries(m), m.vvTried[k][p] # id
    PROVE  EvictedRel(m, Evicted(m, id, k, p, b), id, k, p, b)
  <1> DEFINE old == m.vvTried[k][p]
             e1 == [m.mapInfo[old] EXCEPT !.fInTried = FALSE]
             infos1 == [m.mapInfo EXCEPT ![old] = e1]
             e2 == [infos1[old] EXCEPT !.nRefCount = 1]
             infos2 == [infos1 EXCEPT ![old] = e2]
             e3 == [infos2[id] EXCEPT !.fInTried = TRUE]
             infos3 == [infos2 EXCEPT ![id] = e3]
             list == [m.vvTried[k] EXCEPT ![p] = id]
             tables == [m.vvTried EXCEPT ![k] = list]
             buckets == [m.vvNew EXCEPT ![b] = m.vvNew[b] \cup {old}]
             r == Evicted(m, id, k, p, b)
  <1>1. r = [[[[[[m EXCEPT !.mapInfo = infos1] EXCEPT !.mapInfo = infos2]
                   EXCEPT !.vvNew = buckets] EXCEPT !.nNew = m.nNew + 1]
                   EXCEPT !.vvTried = tables] EXCEPT !.mapInfo = infos3]
    BY TableFields DEF Table, Evicted
  <1>2. id \in Nat /\ old \in Entries(m) /\ old # id /\ old \in Nat
    BY TableFields
  <1>3. list \in Seq(Nat)
    BY <1>2, TableFields
  <1>4. tables \in TriedTables
        /\ \A c \in TriedBucket : tables[c] = IF c = k THEN [m.vvTried[c] EXCEPT ![p] = id]
                                                       ELSE m.vvTried[c]
    BY <1>3, TableFields DEF TriedTables
  <1>5. buckets \in NewTables
        /\ \A c \in NewBucket : buckets[c] = IF c = b THEN m.vvNew[c] \cup {old} ELSE m.vvNew[c]
    BY <1>2, TableFields DEF NewTables
  <1> HIDE DEF r, tables, buckets, list, old
  <1>6. /\ e1 \in InfoType /\ SamePeer(e1, m.mapInfo[old]) /\ e1.fInTried = FALSE
        /\ e1.nRefCount = m.mapInfo[old].nRefCount /\ e1.nRandomPos = m.mapInfo[old].nRandomPos
    <2>1. m.mapInfo[old] \in InfoType
      BY <1>2, TableFields
    <2> QED BY <2>1, InfoTried
  <1> HIDE DEF e1
  <1>7. /\ infos1 \in [Entries(m) -> InfoType]
        /\ \A j \in Entries(m) : infos1[j] = IF j = old THEN e1 ELSE m.mapInfo[j]
    BY <1>2, <1>6, InfoUpdate, TableFields
  <1> HIDE DEF infos1
  <1>8. /\ e2 \in InfoType /\ SamePeer(e2, e1) /\ e2.nRefCount = 1
        /\ e2.fInTried = e1.fInTried /\ e2.nRandomPos = e1.nRandomPos
    <2>1. infos1[old] \in InfoType /\ infos1[old] = e1
      BY <1>2, <1>7
    <2> QED BY <2>1, InfoRefCount
  <1> HIDE DEF e2
  <1>9. /\ infos2 \in [Entries(m) -> InfoType]
        /\ \A j \in Entries(m) : infos2[j] = IF j = old THEN e2 ELSE m.mapInfo[j]
    <2>1. /\ infos2 \in [Entries(m) -> InfoType]
          /\ \A j \in Entries(m) : infos2[j] = IF j = old THEN e2 ELSE infos1[j]
      BY <1>2, <1>7, <1>8, InfoUpdate
    <2> QED BY <1>7, <2>1
  <1> HIDE DEF infos2
  <1>10. /\ e3 \in InfoType /\ SamePeer(e3, m.mapInfo[id]) /\ e3.fInTried = TRUE
         /\ e3.nRefCount = m.mapInfo[id].nRefCount /\ e3.nRandomPos = m.mapInfo[id].nRandomPos
    <2>1. infos2[id] \in InfoType /\ infos2[id] = m.mapInfo[id]
      BY <1>2, <1>9
    <2> QED BY <2>1, InfoTried
  <1> HIDE DEF e3
  <1>11. /\ infos3 \in [Entries(m) -> InfoType]
         /\ \A j \in Entries(m) : infos3[j] = IF j = old THEN e2 ELSE IF j = id THEN e3 ELSE m.mapInfo[j]
    <2>1. /\ infos3 \in [Entries(m) -> InfoType]
          /\ \A j \in Entries(m) : infos3[j] = IF j = id THEN e3 ELSE infos2[j]
      BY <1>9, <1>10, InfoUpdate
    <2> QED BY <1>2, <1>9, <2>1
  <1> HIDE DEF infos3
  <1>12. /\ infos1 \in InfoMaps /\ infos2 \in InfoMaps /\ infos3 \in InfoMaps
         /\ DOMAIN infos3 = Entries(m)
    BY <1>7, <1>9, <1>11, InfoMapsType, TableFields
  <1>13. /\ r \in Table
         /\ r.nIdCount = m.nIdCount /\ r.mapInfo = infos3 /\ r.mapAddr = m.mapAddr
         /\ r.vRandom = m.vRandom /\ r.nTried = m.nTried /\ r.vvTried = tables
         /\ r.nNew = m.nNew + 1 /\ r.vvNew = buckets
    <2>1. m \in Table /\ m.nNew + 1 \in Int
      BY TableFields
    <2> QED BY <1>1, <1>4, <1>5, <1>12, <2>1 DEF Table
  <1>14. Entries(r) = Entries(m)
    BY <1>12, <1>13 DEF Entries
  <1>15. TableType(r)
    BY <1>13, <1>14 DEF TableType
  <1>16. \A j \in Entries(m) :
            /\ SamePeer(r.mapInfo[j], m.mapInfo[j])
            /\ r.mapInfo[j].nRandomPos = m.mapInfo[j].nRandomPos
            /\ r.mapInfo[j].nRefCount = IF j = old THEN 1 ELSE m.mapInfo[j].nRefCount
            /\ r.mapInfo[j].fInTried = IF j = old THEN FALSE
                                       ELSE IF j = id THEN TRUE
                                       ELSE m.mapInfo[j].fInTried
    <2> TAKE j \in Entries(m)
    <2>1. CASE j = old
      BY <1>2, <1>6, <1>8, <1>11, <1>13, <2>1 DEF SamePeer
    <2>2. CASE j # old /\ j = id
      BY <1>10, <1>11, <1>13, <2>2 DEF SamePeer
    <2>3. CASE j # old /\ j # id
      BY <1>11, <1>13, <2>3 DEF SamePeer
    <2> QED BY <2>1, <2>2, <2>3
  <1>17. SameEntries(m, r)
    BY <1>13, <1>14, <1>16 DEF SameEntries
  <1> QED BY <1>4, <1>5, <1>13, <1>15, <1>16, <1>17 DEF EvictedRel, r, old

(* The entry at p has made room in the tried table for id. *)
Exchanged(m, r, id, old, b) ==
    /\ TablesInv(r, {}) /\ SameEntries(m, r)
    /\ old \in Tried(m) /\ Tried(r) = (Tried(m) \ {old}) \cup {id}
    /\ \A c \in NewBucket :
          r.vvNew[c] = IF c = b THEN m.vvNew[c] \cup {old} ELSE m.vvNew[c]
    /\ \A c \in NewBucket : old \notin m.vvNew[c]

LEMMA EvictedInv ==
    ASSUME NEW m, NEW id, TablesInv(m, {id}), NEW k \in TriedBucket, k = TriedBucketOf(m, id),
           NEW p \in 1..Len(m.vvTried[k]), NEW b \in NewBucket,
           Cardinality(m.vvNew[b]) < NEW_BUCKET_SIZE, m.mapInfo[id].nLastSuccess # 0
    PROVE  Exchanged(m, Evicted(m, id, k, p, b), id, m.vvTried[k][p], b)
  <1> DEFINE old == m.vvTried[k][p]
             r == Evicted(m, id, k, p, b)
  <1>0. /\ TableType(m) /\ RandomInv(m) /\ AddrInv(m) /\ NewInv(m, {id}) /\ TriedInv(m)
        /\ NewSizes(m) /\ TriedSizes(m) /\ CountsInv(m, {id})
        /\ id \in Entries(m) /\ id \in Nat /\ id \in Untried(m) /\ id \notin Tried(m)
    BY TableFields DEF TablesInv, NewInv, Untried, Tried
  <1>1. old \in Tried(m) /\ old \in Entries(m) /\ old # id /\ TriedBucketOf(m, old) = k
    BY <1>0 DEF TriedInv, Tried
  <1>2. /\ TableType(r) /\ SameEntries(m, r)
        /\ \A j \in Entries(m) :
              /\ r.mapInfo[j].nRefCount = IF j = old THEN 1 ELSE m.mapInfo[j].nRefCount
              /\ r.mapInfo[j].fInTried = IF j = old THEN FALSE
                                         ELSE IF j = id THEN TRUE
                                         ELSE m.mapInfo[j].fInTried
        /\ r.nTried = m.nTried /\ r.nNew = m.nNew + 1
        /\ \A c \in TriedBucket :
              r.vvTried[c] = IF c = k THEN [m.vvTried[c] EXCEPT ![p] = id] ELSE m.vvTried[c]
        /\ \A c \in NewBucket :
              r.vvNew[c] = IF c = b THEN m.vvNew[c] \cup {old} ELSE m.vvNew[c]
    <2>1. TableType(m) /\ id \in Entries(m)
      BY <1>0
    <2>2. m.vvTried[k][p] \in Entries(m) /\ m.vvTried[k][p] # id
      BY <1>1
    <2>3. EvictedRel(m, r, id, k, p, b)
      BY <2>1, <2>2, EvictedFields
    <2> QED BY <2>3 DEF EvictedRel
  <1> DEFINE len == Len(m.vvTried[k])
  <1>3. p \in 1..len /\ len \in Nat /\ m.vvTried[k] \in Seq(Nat) /\ m.vvTried[k][p] = old
    BY <1>0, TableFields
  <1> HIDE DEF r, old
  <1>4. /\ Entries(r) = Entries(m)
        /\ Tried(r) = (Tried(m) \ {old}) \cup {id}
        /\ Untried(r) = (Untried(m) \ {id}) \cup {old}
    <2>1. Entries(r) = Entries(m)
      BY <1>2 DEF SameEntries
    <2>2. Tried(r) = (Tried(m) \ {old}) \cup {id}
      BY <1>0, <1>1, <1>2, <2>1 DEF Tried
    <2>3. Untried(r) = (Untried(m) \ {id}) \cup {old}
      BY <1>0, <1>1, <1>2, <2>1 DEF Untried
    <2> QED BY <2>1, <2>2, <2>3
  <1>5. RandomInv(r) /\ AddrInv(r)
    BY <1>0, <1>2, SameEntriesInv
  <1>6. \A c \in NewBucket : old \notin m.vvNew[c]
    BY <1>0, <1>1 DEF NewInv, Untried, Tried
  <1>7. NewInv(r, {})
    <2>1. \A j : j # old => BucketsOf(r, j) = BucketsOf(m, j)
      BY <1>2 DEF BucketsOf
    <2>2. BucketsOf(r, old) = {b}
      BY <1>2, <1>6 DEF BucketsOf
    <2>3. Cardinality({b}) = 1
      BY FS_Singleton
    <2>4. \A j \in Entries(r) : r.mapInfo[j].nRefCount = Cardinality(BucketsOf(r, j))
      BY <1>0, <1>2, <1>4, <2>1, <2>2, <2>3 DEF NewInv
    <2>5. \A c \in NewBucket : m.vvNew[c] \subseteq Untried(m) \ {id}
      BY <1>0, NewBucketsTyped DEF NewInv
    <2>6. \A c \in NewBucket : r.vvNew[c] \subseteq Untried(r)
      BY <1>2, <1>4, <2>5
    <2>7. \A j \in Untried(r) : r.mapInfo[j].nRefCount \in 1..NEW_BUCKETS_PER_ADDRESS
      <3> TAKE j \in Untried(r)
      <3>1. CASE j = old
        <4>1. r.mapInfo[old].nRefCount = 1
          BY <1>1, <1>2
        <4> QED BY <3>1, <4>1, ConstantTypes
      <3>2. CASE j # old
        BY <1>0, <1>2, <1>4, <3>2 DEF NewInv, Untried
      <3> QED BY <3>1, <3>2
    <2> QED BY <2>4, <2>6, <2>7 DEF NewInv
  <1>8. \A j \in Entries(m) : TriedBucketOf(r, j) = TriedBucketOf(m, j)
                              /\ r.mapInfo[j].nLastSuccess = m.mapInfo[j].nLastSuccess
    BY <1>2 DEF SameEntries, SamePeer, TriedBucketOf
  <1>9. /\ Len(r.vvTried[k]) = len
        /\ \A q \in 1..len : r.vvTried[k][q] = IF q = p THEN id ELSE m.vvTried[k][q]
        /\ \A c \in TriedBucket : c # k => r.vvTried[c] = m.vvTried[c]
    <2> DEFINE list == [m.vvTried[k] EXCEPT ![p] = id]
    <2>1. r.vvTried[k] = list /\ \A c \in TriedBucket : c # k => r.vvTried[c] = m.vvTried[c]
      BY <1>2
    <2>2. Len(list) = len /\ \A q \in 1..len : list[q] = IF q = p THEN id ELSE m.vvTried[k][q]
      BY <1>0, <1>3
    <2> HIDE DEF list
    <2> QED BY <2>1, <2>2
  <1>10. \A q \in 1..len : /\ m.vvTried[k][q] \in Tried(m) /\ TriedBucketOf(m, m.vvTried[k][q]) = k
                           /\ \A j \in 1..len : m.vvTried[k][q] = m.vvTried[k][j] => q = j
    BY <1>0 DEF TriedInv
  <1>11. Tried(m) \subseteq Entries(m)
    BY DEF Tried
  <1>12. TriedInv(r)
    <2>1. \A c \in TriedBucket : \A i \in 1..Len(r.vvTried[c]) :
             /\ r.vvTried[c][i] \in Tried(r)
             /\ TriedBucketOf(r, r.vvTried[c][i]) = c
             /\ \A q \in 1..Len(r.vvTried[c]) : r.vvTried[c][i] = r.vvTried[c][q] => i = q
      <3> TAKE c \in TriedBucket
      <3> TAKE i \in 1..Len(r.vvTried[c])
      <3>1. CASE c # k
        <4>1. r.vvTried[c] = m.vvTried[c]
          BY <1>9, <3>1
        <4>2. \A q \in 1..Len(m.vvTried[c]) :
                 /\ m.vvTried[c][q] \in Tried(m) /\ TriedBucketOf(m, m.vvTried[c][q]) = c
                 /\ \A j \in 1..Len(m.vvTried[c]) : m.vvTried[c][q] = m.vvTried[c][j] => q = j
          BY <1>0 DEF TriedInv
        <4>3. m.vvTried[c][i] # old
          BY <1>1, <3>1, <4>1, <4>2
        <4> QED BY <1>4, <1>8, <1>11, <4>1, <4>2, <4>3
      <3>2. CASE c = k
        <4>1. i \in 1..len
          BY <1>9, <3>2
        <4>2. r.vvTried[k][i] \in Tried(r) /\ TriedBucketOf(r, r.vvTried[k][i]) = k
          <5>1. CASE i = p
            BY <1>0, <1>4, <1>8, <1>9, <4>1, <5>1
          <5>2. CASE i # p
            <6> DEFINE j == m.vvTried[k][i]
            <6>1. r.vvTried[k][i] = j
              BY <1>9, <4>1, <5>2
            <6>2. j \in Tried(m) /\ TriedBucketOf(m, j) = k
              BY <1>10, <4>1
            <6>3. j # old
              BY <1>3, <1>10, <4>1, <5>2
            <6> HIDE DEF j
            <6> QED BY <1>4, <1>8, <1>11, <6>1, <6>2, <6>3
          <5> QED BY <5>1, <5>2
        <4>3. \A q \in 1..len : r.vvTried[k][i] = r.vvTried[k][q] => i = q
          BY <1>0, <1>9, <1>10, <4>1
        <4> QED BY <1>9, <3>2, <4>2, <4>3
      <3> QED BY <3>1, <3>2
    <2>2. \A j \in Tried(r) :
             /\ \E q \in 1..Len(r.vvTried[TriedBucketOf(r, j)]) :
                   r.vvTried[TriedBucketOf(r, j)][q] = j
             /\ r.mapInfo[j].nLastSuccess # 0
      <3> TAKE j \in Tried(r)
      <3>1. CASE j = id
        <4>1. TriedBucketOf(r, j) = k /\ r.mapInfo[j].nLastSuccess # 0
          BY <1>0, <1>8, <3>1
        <4> QED BY <1>3, <1>9, <3>1, <4>1
      <3>2. CASE j \in Tried(m) /\ j # old
        <4>1. PICK q \in 1..Len(m.vvTried[TriedBucketOf(m, j)]) :
                      m.vvTried[TriedBucketOf(m, j)][q] = j
          BY <1>0, <3>2 DEF TriedInv
        <4>2. TriedBucketOf(r, j) = TriedBucketOf(m, j) /\ TriedBucketOf(m, j) \in TriedBucket
              /\ r.mapInfo[j].nLastSuccess # 0
          <5>1. j \in Entries(m) /\ m.mapInfo[j].nLastSuccess # 0
            BY <1>0, <3>2 DEF TriedInv, Tried
          <5> QED BY <1>0, <1>8, <5>1, PeerTypes
        <4>3. CASE TriedBucketOf(m, j) = k
          BY <1>3, <1>9, <3>2, <4>1, <4>2, <4>3
        <4>4. CASE TriedBucketOf(m, j) # k
          BY <1>9, <4>1, <4>2, <4>4
        <4> QED BY <4>3, <4>4
      <3> QED BY <1>4, <3>1, <3>2
    <2> QED BY <2>1, <2>2 DEF TriedInv
  <1>13. NewSizes(r)
    <2>1. IsFiniteSet(m.vvNew[b]) /\ Cardinality(m.vvNew[b]) \in Nat
      BY <1>0, NewBucketsTyped
    <2>2. r.vvNew[b] = m.vvNew[b] \cup {old}
      BY <1>2
    <2>3. Cardinality(r.vvNew[b]) = Cardinality(m.vvNew[b]) + 1
      BY <1>6, <2>1, <2>2, FS_AddElement
    <2>4. Cardinality(r.vvNew[b]) <= NEW_BUCKET_SIZE
      BY <2>1, <2>3, ConstantTypes
    <2> QED BY <1>0, <1>2, <2>4 DEF NewSizes
  <1>14. TriedSizes(r)
    BY <1>0, <1>9 DEF TriedSizes
  <1>15. CountsInv(r, {})
    <2>1. Cardinality(Tried(r)) = Cardinality(Tried(m))
      <3>1. IsFiniteSet(Tried(m))
        BY <1>0, EntriesFinite
      <3>2. IsFiniteSet(Tried(m) \ {old}) /\ Cardinality(Tried(m) \ {old}) = Cardinality(Tried(m)) - 1
        BY <1>1, <3>1, FS_RemoveElement
      <3>3. Cardinality(Tried(r)) = Cardinality(Tried(m) \ {old}) + 1
        BY <1>0, <1>4, <3>2, FS_AddElement
      <3> QED BY <3>1, <3>2, <3>3, FS_CardinalityType
    <2>2. Cardinality(Untried(r)) = Cardinality(Untried(m) \ {id}) + 1
      <3>1. IsFiniteSet(Untried(m) \ {id}) /\ old \notin Untried(m)
        BY <1>0, <1>1, EntriesFinite, FS_Subset DEF Tried, Untried
      <3> QED BY <1>4, <3>1, FS_AddElement
    <2>3. Untried(r) \ {} = Untried(r)
      OBVIOUS
    <2> QED BY <1>0, <1>2, <2>1, <2>2, <2>3 DEF CountsInv
  <1> QED
    BY <1>1, <1>2, <1>4, <1>5, <1>6, <1>7, <1>12, <1>13, <1>14, <1>15 DEF Exchanged, TablesInv, r, old

LEMMA SwapInv ==
    ASSUME NEW m, NEW X, TablesInv(m, X),
           NEW p \in 1..Len(m.vRandom), NEW q \in 1..Len(m.vRandom)
    PROVE  LET r == SwapRandom(m, p, q) IN
           /\ TablesInv(r, X) /\ Entries(r) = Entries(m) /\ r.nIdCount = m.nIdCount
           /\ \A j \in Entries(m) : SamePeer(r.mapInfo[j], m.mapInfo[j])
                                    /\ SamePlaces(r.mapInfo[j], m.mapInfo[j])
           /\ r.vvNew = m.vvNew /\ r.vvTried = m.vvTried
  <1> DEFINE r == SwapRandom(m, p, q)
  <1>0. /\ TableType(m) /\ RandomInv(m) /\ AddrInv(m) /\ NewInv(m, X) /\ TriedInv(m)
        /\ NewSizes(m) /\ TriedSizes(m) /\ CountsInv(m, X)
    BY DEF TablesInv
  <1>1. /\ TableType(r) /\ RandomInv(r)
        /\ Entries(r) = Entries(m) /\ r.nIdCount = m.nIdCount
        /\ \A j \in Entries(m) : SamePeer(r.mapInfo[j], m.mapInfo[j])
                                 /\ SamePlaces(r.mapInfo[j], m.mapInfo[j])
        /\ r.mapAddr = m.mapAddr /\ r.nTried = m.nTried /\ r.vvTried = m.vvTried
        /\ r.nNew = m.nNew /\ r.vvNew = m.vvNew
    <2>1. RandomInv(r)
      BY <1>0, SwapRandomInv
    <2>2. /\ TableType(r)
          /\ Entries(r) = Entries(m) /\ r.nIdCount = m.nIdCount
          /\ \A j \in Entries(m) : SamePeer(r.mapInfo[j], m.mapInfo[j])
                                   /\ SamePlaces(r.mapInfo[j], m.mapInfo[j])
          /\ r.mapAddr = m.mapAddr /\ r.nTried = m.nTried /\ r.vvTried = m.vvTried
          /\ r.nNew = m.nNew /\ r.vvNew = m.vvNew
      <3>1. SwapRel(m, r, p, q)
        BY <1>0, SwapFields
      <3> HIDE DEF r
      <3> QED BY <3>1 DEF SwapRel
    <2> QED BY <2>1, <2>2
  <1> HIDE DEF r
  <1>2. Tried(r) = Tried(m) /\ Untried(r) = Untried(m)
    BY <1>1 DEF Tried, Untried, SamePlaces
  <1>3. AddrInv(r)
    BY <1>0, <1>1 DEF AddrInv, SamePeer
  <1>4. NewInv(r, X)
    <2>1. \A j : BucketsOf(r, j) = BucketsOf(m, j)
      BY <1>1 DEF BucketsOf
    <2>2. \A j \in Entries(m) : r.mapInfo[j].nRefCount = m.mapInfo[j].nRefCount
      BY <1>1 DEF SamePlaces
    <2> QED BY <1>0, <1>1, <1>2, <2>1, <2>2 DEF NewInv, Untried
  <1>5. TriedInv(r)
    BY <1>0, <1>1, <1>2, TriedFrame DEF Tried
  <1>6. NewSizes(r) /\ TriedSizes(r) /\ CountsInv(r, X)
    BY <1>0, <1>1, <1>2 DEF NewSizes, TriedSizes, CountsInv
  <1> QED BY <1>1, <1>3, <1>4, <1>5, <1>6 DEF TablesInv, r

-----------------------------------------------------------------------------
(* Every operation preserves the invariant. *)

LEMMA Idle ==
    ASSUME busy = None
    PROVE  Moving = {} /\ ~ Selecting /\ ~ Answering /\ (AddrManInv => TablesInv(am, {}))
  BY DEF Moving, Selecting, Answering, AddrManInv

LEMMA IdleNext ==
    ASSUME busy' = None, TablesInv(am', {}), am'.nIdCount <= MaxId
    PROVE  AddrManInv'
  <1>1. Moving' = {} /\ ~ Selecting' /\ ~ Answering'
    BY DEF Moving, Selecting, Answering
  <1>2. BusyInv'
    BY <1>1 DEF BusyInv
  <1>3. TablesInv(am, Moving)'
    BY <1>1
  <1> QED BY <1>2, <1>3 DEF AddrManInv

(* GetNewBucket of the address of a service. *)
LEMMA NewBucketOf ==
    ASSUME NEW s \in Service, NEW src \in Source
    PROVE  GetNewBucket[<<addrOf[s], src>>] \in NewBucket
  BY ConstantTypes

LEMMA AddUnknownInv ==
    ASSUME AddrManInv, NEW s \in Service, NEW src \in Source, AddUnknown(s, src)
    PROVE  AddrManInv'
  <1> DEFINE b == GetNewBucket[<<addrOf[s], src>>]
             m == [Create(am, s, src) EXCEPT !.nNew = @ + 1]
             new == am.nIdCount
  <1>1. PICK v \in Evictable(am, b) : am' = InsertNew(m, new, b, v)
    BY DEF AddUnknown
  <1>2. busy = None /\ busy' = None /\ Find(am, s) = NoId /\ new < MaxId
    BY DEF AddUnknown
  <1>3. TablesInv(am, {})
    BY <1>2, Idle
  <1>4. b \in NewBucket
    BY NewBucketOf
  <1>5. /\ CoreInv(m, {new}) /\ NewSizes(m) /\ TriedSizes(m) /\ CountsInv(m, {})
        /\ new \in Untried(m) /\ m.mapInfo[new].nRefCount = 0
        /\ m.vvNew = am.vvNew /\ \A c \in NewBucket : new \notin m.vvNew[c]
        /\ m.nIdCount = new + 1
    BY <1>2, <1>3, CreateInv
  <1> HIDE DEF m, b, new
  <1>6. v \in Evictable(m, b) /\ m.mapInfo[new].nRefCount + 1 <= NEW_BUCKETS_PER_ADDRESS
        /\ new \notin m.vvNew[b]
    BY <1>1, <1>4, <1>5, ConstantTypes DEF Evictable
  <1>7. TablesInv(am', {}) /\ am'.nIdCount = new + 1
    <2>1. TablesInv(InsertNew(m, new, b, v), {}) /\ InsertNew(m, new, b, v).nIdCount = m.nIdCount
      BY <1>4, <1>5, <1>6, InsertInv
    <2> QED BY <1>1, <1>5, <2>1
  <1>8. am'.nIdCount <= MaxId
    <2>1. new \in Nat
      BY <1>3, TableFields DEF TablesInv, new
    <2> QED BY <1>2, <1>7, <2>1, ConstantTypes
  <1> QED BY <1>2, <1>7, <1>8, IdleNext

(* The entry that is found for a service. *)
LEMMA Found ==
    ASSUME NEW m, NEW X, TablesInv(m, X), NEW s \in Service, Find(m, s) # NoId
    PROVE  Find(m, s) \in Entries(m) /\ addrOf[m.mapInfo[Find(m, s)].addr] = addrOf[s]
  BY ConstantTypes DEF TablesInv, AddrInv, Find

LEMMA AddKnownInv ==
    ASSUME AddrManInv, NEW s \in Service, NEW src \in Source, AddKnown(s, src)
    PROVE  AddrManInv'
  <1> DEFINE b == GetNewBucket[<<addrOf[s], src>>]
             id == Find(am, s)
  <1>1. PICK v \in Evictable(am, b) : am' = InsertNew(am, id, b, v)
    BY DEF AddKnown
  <1>2. busy = None /\ busy' = None /\ id # NoId /\ MayMultiply(id) /\ id \notin am.vvNew[b]
    BY DEF AddKnown
  <1>3. TablesInv(am, {}) /\ am.nIdCount <= MaxId
    BY <1>2, Idle DEF AddrManInv
  <1>4. b \in NewBucket
    BY NewBucketOf
  <1>5. id \in Untried(am)
    BY <1>2, <1>3, Found DEF Untried, MayMultiply
  <1> HIDE DEF b, id
  <1>6. CoreInv(am, {}) /\ NewSizes(am) /\ TriedSizes(am) /\ CountsInv(am, {})
    BY <1>3 DEF TablesInv, CoreInv
  <1>7. am.mapInfo[id].nRefCount + 1 <= NEW_BUCKETS_PER_ADDRESS
    <2>1. am.mapInfo[id].nRefCount \in 1..NEW_BUCKETS_PER_ADDRESS
      BY <1>5, <1>6 DEF CoreInv, NewInv
    <2> QED BY <1>2, <2>1, ConstantTypes DEF MayMultiply
  <1>8. TablesInv(am', {}) /\ am'.nIdCount = am.nIdCount
    <2>1. TablesInv(InsertNew(am, id, b, v), {}) /\ InsertNew(am, id, b, v).nIdCount = am.nIdCount
      BY <1>2, <1>4, <1>5, <1>6, <1>7, InsertInv
    <2> QED BY <1>1, <2>1
  <1> QED BY <1>2, <1>3, <1>8, IdleNext

LEMMA GoodTriedInv ==
    ASSUME AddrManInv, NEW s \in Service, NEW t \in Time, GoodTried(s, t)
    PROVE  AddrManInv'
  <1> DEFINE id == Find(am, s)
  <1>1. busy = None /\ busy' = None /\ id # NoId
        /\ am' = [am EXCEPT !.mapInfo[id].nLastSuccess = t]
    BY DEF GoodTried, IsKnown, Touched
  <1>2. TablesInv(am, {}) /\ am.nIdCount <= MaxId
    BY <1>1, Idle DEF AddrManInv
  <1>3. id \in Entries(am)
    BY <1>1, <1>2, Found
  <1> HIDE DEF id
  <1>4. TablesInv(am', {}) /\ am'.nIdCount = am.nIdCount
    <2> DEFINE u == [am EXCEPT !.mapInfo[id].nLastSuccess = t]
    <2>1. am' = u
      BY <1>1
    <2>2. u = [am EXCEPT !.mapInfo[id].nLastSuccess = t]
      OBVIOUS
    <2> HIDE DEF u
    <2>3. /\ TablesInv(u, {}) /\ Entries(u) = Entries(am) /\ u.nIdCount = am.nIdCount
          /\ \A j \in Entries(am) : SamePlaces(u.mapInfo[j], am.mapInfo[j])
                                   /\ u.mapInfo[j].addr = am.mapInfo[j].addr
          /\ u.mapInfo[id].nLastSuccess # 0
          /\ u.vvNew = am.vvNew /\ u.vvTried = am.vvTried
      BY <1>2, <1>3, <2>2, TouchInv
    <2> QED BY <2>1, <2>3
  <1> QED BY <1>1, <1>2, <1>4, IdleNext

(* What GoodRoom and GoodFull have in common: the entry has the new time   *)
(* and has left its new buckets.                                           *)
LEMMA GoodLeaves ==
    ASSUME AddrManInv, NEW s \in Service, NEW t \in Time, busy = None, IsKnown(s),
           ~ am.mapInfo[Find(am, s)].fInTried
    PROVE  LET id == Find(am, s)
               m == LeaveNew(Touched(s, t), id)
           IN  /\ TablesInv(m, {id}) /\ id \in Untried(am)
               /\ Entries(m) = Entries(am) /\ m.nIdCount = am.nIdCount
               /\ \A j \in Entries(am) : m.mapInfo[j].addr = am.mapInfo[j].addr
                                         /\ m.mapInfo[j].fInTried = am.mapInfo[j].fInTried
               /\ m.mapInfo[id].nLastSuccess # 0
               /\ TriedBucketOf(m, id) = GetTriedBucket[s]
               /\ m.vvTried = am.vvTried
               /\ \A b \in BucketsOf(am, id) : Cardinality(m.vvNew[b]) < NEW_BUCKET_SIZE
               /\ \A b \in NewBucket : m.vvNew[b] = am.vvNew[b] \ {id}
  <1> DEFINE id == Find(am, s)
             u == Touched(s, t)
             m == LeaveNew(u, id)
  <1>1. TablesInv(am, {}) /\ id # NoId /\ am.mapInfo[id].addr = s
    BY Idle DEF IsKnown
  <1>2. id \in Entries(am)
    BY <1>1, Found
  <1>3. u = [am EXCEPT !.mapInfo[id].nLastSuccess = t]
    BY DEF Touched
  <1> HIDE DEF id, u, m
  <1>4. /\ TablesInv(u, {}) /\ Entries(u) = Entries(am) /\ u.nIdCount = am.nIdCount
        /\ \A j \in Entries(am) : SamePlaces(u.mapInfo[j], am.mapInfo[j])
                                  /\ u.mapInfo[j].addr = am.mapInfo[j].addr
        /\ u.mapInfo[id].nLastSuccess # 0
        /\ u.vvNew = am.vvNew /\ u.vvTried = am.vvTried
    BY <1>1, <1>2, <1>3, TouchInv
  <1>5. id \in Untried(u) /\ id \in Untried(am)
    BY <1>2, <1>4 DEF Untried, SamePlaces, id
  <1>6. /\ TablesInv(m, {id}) /\ SameEntries(u, m) /\ m.vvTried = u.vvTried
        /\ \A b \in BucketsOf(u, id) : Cardinality(m.vvNew[b]) < NEW_BUCKET_SIZE
        /\ \A j \in Entries(u) : m.mapInfo[j].fInTried = u.mapInfo[j].fInTried
        /\ \A b \in NewBucket : m.vvNew[b] = u.vvNew[b] \ {id}
    <2>1. TablesInv(u, {})
      BY <1>4
    <2> QED BY <1>5, <2>1, LeaveNewInv DEF m
  <1>7. BucketsOf(u, id) = BucketsOf(am, id)
    BY <1>4 DEF BucketsOf
  <1>8. /\ Entries(m) = Entries(am) /\ m.nIdCount = am.nIdCount
        /\ \A j \in Entries(am) : m.mapInfo[j].addr = am.mapInfo[j].addr
                                  /\ m.mapInfo[j].fInTried = am.mapInfo[j].fInTried
        /\ m.mapInfo[id].nLastSuccess # 0
    BY <1>2, <1>4, <1>6 DEF SameEntries, SamePeer, SamePlaces
  <1>9. TriedBucketOf(m, id) = GetTriedBucket[s]
    BY <1>1, <1>2, <1>8 DEF TriedBucketOf
  <1> QED BY <1>4, <1>5, <1>6, <1>7, <1>8, <1>9 DEF id, u, m

LEMMA GoodRoomInv ==
    ASSUME AddrManInv, NEW s \in Service, NEW t \in Time, GoodRoom(s, t)
    PROVE  AddrManInv'
  <1> DEFINE id == Find(am, s)
             k == GetTriedBucket[s]
             m == LeaveNew(Touched(s, t), id)
  <1>1. /\ busy = None /\ busy' = None /\ IsKnown(s) /\ ~ am.mapInfo[id].fInTried
        /\ Len(am.vvTried[k]) < TRIED_BUCKET_SIZE
        /\ am' = [m EXCEPT !.vvTried[k] = Append(@, id), !.nTried = @ + 1,
                           !.mapInfo[id].fInTried = TRUE]
    BY DEF GoodRoom
  <1>2. /\ TablesInv(m, {id}) /\ m.mapInfo[id].nLastSuccess # 0 /\ m.nIdCount = am.nIdCount
        /\ TriedBucketOf(m, id) = k /\ m.vvTried = am.vvTried
    BY <1>1, GoodLeaves
  <1>3. k \in TriedBucket
    BY ConstantTypes
  <1> HIDE DEF id, k, m
  <1>4. TablesInv(am', {}) /\ SameEntries(m, am')
    <2>1. am' = PlaceTried(m, id, k)
      BY <1>1 DEF PlaceTried
    <2>2. TablesInv(m, {id}) /\ k = TriedBucketOf(m, id) /\ m.mapInfo[id].nLastSuccess # 0
          /\ Len(m.vvTried[k]) < TRIED_BUCKET_SIZE
      BY <1>1, <1>2
    <2>3. Placed(m, PlaceTried(m, id, k), id)
      BY <1>3, <2>2, PlaceTriedInv
    <2> QED BY <2>1, <2>3 DEF Placed
  <1>5. am'.nIdCount <= MaxId
    BY <1>2, <1>4 DEF SameEntries, AddrManInv
  <1> QED BY <1>1, <1>4, <1>5, IdleNext

LEMMA GoodFullInv ==
    ASSUME AddrManInv, NEW s \in Service, NEW t \in Time, GoodFull(s, t)
    PROVE  AddrManInv' /\ Selecting'
  <1> DEFINE id == Find(am, s)
             k == GetTriedBucket[s]
             m == LeaveNew(Touched(s, t), id)
  <1>1. /\ busy = None /\ IsKnown(s) /\ ~ am.mapInfo[id].fInTried
        /\ Len(am.vvTried[k]) >= TRIED_BUCKET_SIZE
        /\ am' = m
    BY DEF GoodFull
  <1>2. PICK o \in BucketsOf(am, id) :
           busy' = [op |-> "SelectTried", nId |-> id, nOrigin |-> o, nKBucket |-> k,
                    i |-> 1, nOldest |-> NoId, nOldestPos |-> 0]
    BY DEF GoodFull, BucketsOf
  <1>3. /\ TablesInv(m, {id}) /\ id \in Untried(am) /\ Entries(m) = Entries(am)
        /\ m.nIdCount = am.nIdCount /\ m.mapInfo[id].nLastSuccess # 0
        /\ TriedBucketOf(m, id) = k /\ m.vvTried = am.vvTried
        /\ \A b \in BucketsOf(am, id) : Cardinality(m.vvNew[b]) < NEW_BUCKET_SIZE
    BY <1>1, GoodLeaves
  <1>4. k \in TriedBucket /\ o \in NewBucket
    BY <1>2, ConstantTypes DEF BucketsOf
  <1>5. id \in Nat /\ id \in Entries(m) /\ Len(am.vvTried[k]) > 0
    <2>1. TableType(m) /\ Len(m.vvTried[k]) \in Nat
      BY <1>3, <1>4, TableFields DEF TablesInv
    <2>2. id \in Entries(m) /\ id \in Nat
      BY <1>3, <2>1, TableFields DEF Untried
    <2> QED BY <1>1, <1>3, <2>1, <2>2, ConstantTypes
  <1> HIDE DEF id, k, m
  <1>6. busy' \in Shuffle
    BY <1>2, <1>4, <1>5 DEF Shuffle
  <1>7. busy' # None
    BY <1>6, AddrAssumption
  <1>8. Selecting' /\ ~ Answering' /\ Moving' = {id}
    BY <1>2, <1>7 DEF Selecting, Answering, Moving
  <1>9. /\ busy'.nId = id /\ busy'.nKBucket = k /\ busy'.nOrigin = o /\ busy'.i = 1
    BY <1>2
  <1>10. BusyInv'
    BY <1>1, <1>2, <1>3, <1>5, <1>6, <1>8, <1>9 DEF BusyInv
  <1>11. TablesInv(am, Moving)' /\ am'.nIdCount <= MaxId
    BY <1>1, <1>3, <1>8 DEF AddrManInv
  <1> QED BY <1>8, <1>10, <1>11 DEF AddrManInv

(* The local variables of SelectTried. *)
SelectType ==
    [op : {"SelectTried"}, nId : Nat, nOrigin : NewBucket, nKBucket : TriedBucket,
     i : Nat, nOldest : Nat \cup {NoId}, nOldestPos : Nat]

Turned(x, n, o, q) == [x EXCEPT !.i = n, !.nOldest = o, !.nOldestPos = q]

TurnRel(x, y, n, o, q) ==
    /\ y \in SelectType /\ y.op = "SelectTried" /\ y.nId = x.nId
    /\ y.nOrigin = x.nOrigin /\ y.nKBucket = x.nKBucket
    /\ y.i = n /\ y.nOldest = o /\ y.nOldestPos = q

LEMMA SelectTurn ==
    ASSUME NEW x \in SelectType, NEW n \in Nat, NEW o \in Nat \cup {NoId}, NEW q \in Nat,
           NEW y, y = Turned(x, n, o, q)
    PROVE  TurnRel(x, y, n, o, q)
  BY DEF SelectType, Turned, TurnRel

(* What is known while MakeTried looks for the entry to evict. *)
LEMMA SelectingFacts ==
    ASSUME AddrManInv, Selecting
    PROVE  LET k == busy.nKBucket IN
           /\ busy \in SelectType
           /\ TablesInv(am, {busy.nId}) /\ am.nIdCount <= MaxId
           /\ busy.nId \in Entries(am) /\ k \in TriedBucket /\ k = TriedBucketOf(am, busy.nId)
           /\ busy.nOrigin \in NewBucket
           /\ am.mapInfo[busy.nId].nLastSuccess # 0
           /\ Cardinality(am.vvNew[busy.nOrigin]) < NEW_BUCKET_SIZE
           /\ Len(am.vvTried[k]) \in Nat \ {0}
           /\ \A p \in 1..Len(am.vvTried[k]) : am.vvTried[k][p] \in Nat
           /\ busy.i \in Nat \ {0}
           /\ busy.i = 1 => busy.nOldest = NoId
           /\ busy.i > 1 => busy.nOldestPos \in 1..Len(am.vvTried[k])
  <1>1. busy \in SelectType
    <2>1. busy \in Shuffle /\ busy.op = "SelectTried"
      BY DEF AddrManInv, BusyInv, Selecting
    <2>2. busy \notin [op : {"GetAddr"}, n : Nat]
      BY <2>1
    <2> QED BY <2>1, <2>2 DEF Shuffle, SelectType
  <1>2. busy.nKBucket \in TriedBucket /\ busy.nOrigin \in NewBucket /\ busy.i \in Nat
    BY <1>1 DEF SelectType
  <1>3. TablesInv(am, {busy.nId})
    BY DEF AddrManInv, Moving
  <1>4. am.vvTried[busy.nKBucket] \in Seq(Nat)
    <2>1. TableType(am)
      BY <1>3 DEF TablesInv
    <2> QED BY <1>2, <2>1, TableFields
  <1> HIDE DEF Selecting
  <1>5. /\ busy.nId \in Entries(am) /\ busy.nKBucket = TriedBucketOf(am, busy.nId)
        /\ am.mapInfo[busy.nId].nLastSuccess # 0
        /\ Cardinality(am.vvNew[busy.nOrigin]) < NEW_BUCKET_SIZE
        /\ Len(am.vvTried[busy.nKBucket]) > 0
        /\ busy.i > 0
        /\ busy.i = 1 => busy.nOldest = NoId
        /\ busy.i > 1 => busy.nOldestPos \in 1..Len(am.vvTried[busy.nKBucket])
        /\ am.nIdCount <= MaxId
    BY DEF AddrManInv, BusyInv
  <1> QED BY <1>1, <1>2, <1>3, <1>4, <1>5

LEMMA InspectTriedInv ==
    ASSUME AddrManInv, InspectTried
    PROVE  AddrManInv' /\ Selecting' /\ busy'.nId = busy.nId
  <1> DEFINE k == busy.nKBucket
             i == busy.i
             len == Len(am.vvTried[k])
  <1>1. Selecting /\ ~ InspectionDone
    BY DEF InspectTried
  <1>2. PICK n \in i..len : SelectTried(n)
    BY DEF InspectTried
  <1>3. /\ TablesInv(am, {busy.nId}) /\ am.nIdCount <= MaxId
        /\ busy.nId \in Entries(am) /\ k \in TriedBucket /\ k = TriedBucketOf(am, busy.nId)
        /\ am.mapInfo[busy.nId].nLastSuccess # 0
        /\ Cardinality(am.vvNew[busy.nOrigin]) < NEW_BUCKET_SIZE
        /\ len \in Nat \ {0} /\ i \in Nat \ {0}
        /\ \A p \in 1..len : am.vvTried[k][p] \in Nat
        /\ i = 1 => busy.nOldest = NoId
        /\ i > 1 => busy.nOldestPos \in 1..len
    BY <1>1, SelectingFacts
  <1>4. i \in 1..len /\ n \in 1..len
    BY <1>1, <1>2, <1>3, ConstantTypes DEF InspectionDone
  <1>5. am' = [am EXCEPT !.vvTried[k] = [@ EXCEPT ![n] = am.vvTried[k][i],
                                                  ![i] = am.vvTried[k][n]]]
    BY <1>2 DEF SelectTried
  <1>6. /\ busy'.nId = busy.nId /\ busy'.nOrigin = busy.nOrigin /\ busy'.nKBucket = k
        /\ busy'.i = i + 1 /\ busy'.nOldestPos \in 1..len
        /\ busy'.op = "SelectTried" /\ busy' \in Shuffle
    <2> DEFINE older == \/ busy.nOldest = NoId
                        \/ am.mapInfo[am.vvTried[k][n]].nLastSuccess
                             < am.mapInfo[busy.nOldest].nLastSuccess
               o == IF older THEN am.vvTried[k][n] ELSE busy.nOldest
               q == IF older THEN n ELSE busy.nOldestPos
    <2>1. busy' = [busy EXCEPT !.i = @ + 1, !.nOldest = o, !.nOldestPos = q]
      BY <1>2 DEF SelectTried
    <2>2. busy \in SelectType
      BY <1>1, SelectingFacts
    <2>3. q \in 1..len
      <3>1. CASE older
        BY <1>4, <3>1
      <3>2. CASE ~ older
        <4>1. i > 1
          BY <1>3, <3>2
        <4> QED BY <1>3, <3>2, <4>1
      <3> QED BY <3>1, <3>2
    <2>4. o \in Nat \cup {NoId} /\ q \in Nat
      BY <1>3, <1>4, <2>2, <2>3 DEF SelectType
    <2> HIDE DEF o, q, older, len
    <2>5. /\ busy' \in SelectType /\ busy'.nId = busy.nId /\ busy'.nOrigin = busy.nOrigin
          /\ busy'.nKBucket = k /\ busy'.i = i + 1 /\ busy'.nOldestPos = q
          /\ busy'.op = "SelectTried"
      <3> DEFINE j == i + 1
      <3>1. j \in Nat /\ busy' = Turned(busy, j, o, q)
        BY <1>3, <2>1 DEF Turned
      <3> HIDE DEF j
      <3>2. /\ busy' \in SelectType /\ busy'.op = "SelectTried" /\ busy'.nId = busy.nId
            /\ busy'.nOrigin = busy.nOrigin /\ busy'.nKBucket = busy.nKBucket
            /\ busy'.i = j /\ busy'.nOldestPos = q
        <4>1. TurnRel(busy, busy', j, o, q)
          BY <2>2, <2>4, <3>1, SelectTurn
        <4> QED BY <4>1 DEF TurnRel
      <3> QED BY <3>2 DEF j
    <2>6. busy' \in Shuffle
      BY <2>5 DEF Shuffle, SelectType
    <2> QED BY <2>3, <2>5, <2>6
  <1>7. /\ TablesInv(am', {busy.nId}) /\ am'.nIdCount = am.nIdCount
        /\ Entries(am') = Entries(am) /\ am'.mapInfo = am.mapInfo /\ am'.vvNew = am.vvNew
        /\ Len(am'.vvTried[k]) = len
    <2> DEFINE r == SwapTried(am, k, i, n)
    <2>1. Reordered(am, r, {busy.nId})
      <3>1. TablesInv(am, {busy.nId}) /\ k \in TriedBucket
        BY <1>3
      <3>2. i \in 1..Len(am.vvTried[k]) /\ n \in 1..Len(am.vvTried[k])
        BY <1>4
      <3> HIDE DEF k, i
      <3> QED BY <3>1, <3>2, ShuffleTriedInv
    <2> HIDE DEF r
    <2>2. am' = r
      BY <1>5 DEF r, SwapTried
    <2> QED BY <1>3, <2>1, <2>2 DEF Reordered
  <1>8. busy' # None
    BY <1>6, AddrAssumption
  <1> HIDE DEF len
  <1>9. Selecting' /\ ~ Answering' /\ Moving' = {busy.nId}
    BY <1>6, <1>8 DEF Selecting, Answering, Moving
  <1>10. TriedBucketOf(am', busy.nId) = k
    BY <1>3, <1>7 DEF TriedBucketOf
  <1>11. i + 1 > 0 /\ i + 1 # 1
    BY <1>3
  <1>12. BusyInv'
    BY <1>3, <1>6, <1>7, <1>9, <1>10, <1>11 DEF BusyInv
  <1>13. TablesInv(am, Moving)' /\ (am.nIdCount <= MaxId)'
    BY <1>3, <1>7, <1>9
  <1> QED BY <1>6, <1>9, <1>12, <1>13 DEF AddrManInv

(* The evicted entry finds room. *)
LEMMA ReturnedRoom ==
    ASSUME AddrManInv, Selecting, NEW p \in 1..Len(am.vvTried[busy.nKBucket])
    PROVE  LET b == Returned(am.vvTried[busy.nKBucket][p]) IN
           b \in NewBucket /\ Cardinality(am.vvNew[b]) < NEW_BUCKET_SIZE
  <1> DEFINE k == busy.nKBucket
             old == am.vvTried[k][p]
  <1>1. /\ TablesInv(am, {busy.nId}) /\ k \in TriedBucket /\ busy.nOrigin \in NewBucket
        /\ Cardinality(am.vvNew[busy.nOrigin]) < NEW_BUCKET_SIZE
    BY SelectingFacts
  <1>2. old \in Entries(am)
    BY <1>1 DEF TablesInv, TriedInv, Tried
  <1>3. am.mapInfo[old].addr \in Service /\ am.mapInfo[old].source \in Source
    BY <1>1, <1>2, PeerTypes DEF TablesInv
  <1>4. GetNewBucket[<<addrOf[am.mapInfo[old].addr], am.mapInfo[old].source>>] \in NewBucket
    BY <1>3, NewBucketOf
  <1> HIDE DEF old
  <1> QED BY <1>1, <1>4 DEF Returned, old

LEMMA EvictInv ==
    ASSUME AddrManInv, Evict
    PROVE  AddrManInv'
  <1> DEFINE k == busy.nKBucket
             id == busy.nId
             p == busy.nOldestPos
             old == am.vvTried[k][p]
             b == Returned(old)
  <1>1. Selecting /\ InspectionDone /\ busy' = None
    BY DEF Evict
  <1>2. am' = Evicted(am, id, k, p, b)
    BY DEF Evict, Evicted
  <1>3. /\ TablesInv(am, {id}) /\ am.nIdCount <= MaxId
        /\ k \in TriedBucket /\ k = TriedBucketOf(am, id) /\ busy.nOrigin \in NewBucket
        /\ am.mapInfo[id].nLastSuccess # 0
        /\ Cardinality(am.vvNew[busy.nOrigin]) < NEW_BUCKET_SIZE
        /\ Len(am.vvTried[k]) \in Nat \ {0} /\ busy.i \in Nat \ {0}
        /\ busy.i > 1 => p \in 1..Len(am.vvTried[k])
    BY <1>1, SelectingFacts
  <1>4. p \in 1..Len(am.vvTried[k])
    BY <1>1, <1>3, ConstantTypes DEF InspectionDone
  <1>5. b \in NewBucket /\ Cardinality(am.vvNew[b]) < NEW_BUCKET_SIZE
    BY <1>1, <1>4, ReturnedRoom
  <1> HIDE DEF k, id, p, b
  <1>6. TablesInv(am', {}) /\ SameEntries(am, am')
    <2>1. Exchanged(am, am', id, am.vvTried[k][p], b)
      BY <1>2, <1>3, <1>4, <1>5, EvictedInv
    <2> QED BY <2>1 DEF Exchanged
  <1>7. am'.nIdCount <= MaxId
    BY <1>3, <1>6 DEF SameEntries
  <1> QED BY <1>1, <1>6, <1>7, IdleNext

LEMMA GetAddrInv ==
    ASSUME AddrManInv, GetAddr
    PROVE  AddrManInv'
  <1>1. busy = None /\ busy' = [op |-> "GetAddr", n |-> 1] /\ am' = am
    BY DEF GetAddr
  <1>2. busy' \in Shuffle /\ busy' # None
    BY <1>1, AddrAssumption DEF Shuffle
  <1>3. ~ Selecting' /\ Moving' = {} /\ Moving = {} /\ busy'.n > 0
    BY <1>1, <1>2 DEF Selecting, Moving
  <1>4. BusyInv'
    BY <1>2, <1>3 DEF BusyInv
  <1>5. TablesInv(am, Moving)' /\ (am.nIdCount <= MaxId)'
    BY <1>1, <1>3 DEF AddrManInv
  <1> QED BY <1>4, <1>5 DEF AddrManInv

(* While an answer to getaddr is put together. *)
LEMMA AnsweringFacts ==
    ASSUME AddrManInv, Answering
    PROVE  /\ busy \in [op : {"GetAddr"}, n : Nat] /\ busy.n \in Nat \ {0}
           /\ Moving = {} /\ TablesInv(am, {}) /\ am.nIdCount <= MaxId
           /\ Len(am.vRandom) \in Nat
  <1>1. busy \in [op : {"GetAddr"}, n : Nat]
    <2>1. busy \in Shuffle /\ busy.op = "GetAddr"
      BY DEF AddrManInv, BusyInv, Answering
    <2>2. busy \notin SelectType
      BY <2>1 DEF SelectType
    <2> QED BY <2>1, <2>2 DEF Shuffle, SelectType
  <1>2. Moving = {}
    BY DEF Answering, Moving, Selecting
  <1>3. TablesInv(am, {}) /\ am.nIdCount <= MaxId
    BY <1>2 DEF AddrManInv
  <1>4. busy.n \in Nat \ {0}
    BY <1>1 DEF AddrManInv, BusyInv
  <1>5. Len(am.vRandom) \in Nat
    BY <1>3, TableFields DEF TablesInv
  <1> QED BY <1>1, <1>2, <1>3, <1>4, <1>5

LEMMA GetAddrStepInv ==
    ASSUME AddrManInv, GetAddrStep
    PROVE  AddrManInv'
  <1>1. PICK q \in ShuffleRange :
           am' = SwapRandom(am, busy.n, q) /\ busy' = [busy EXCEPT !.n = @ + 1]
    BY DEF GetAddrStep
  <1>2. /\ busy \in [op : {"GetAddr"}, n : Nat] /\ busy.n \in Nat \ {0}
        /\ Moving = {} /\ TablesInv(am, {}) /\ am.nIdCount <= MaxId
        /\ Len(am.vRandom) \in Nat
    BY AnsweringFacts DEF GetAddrStep
  <1>3. busy.n \in 1..Len(am.vRandom) /\ q \in 1..Len(am.vRandom)
    BY <1>1, <1>2 DEF ShuffleRange
  <1>4. TablesInv(am', {}) /\ am'.nIdCount = am.nIdCount
    <2>1. /\ TablesInv(SwapRandom(am, busy.n, q), {})
          /\ SwapRandom(am, busy.n, q).nIdCount = am.nIdCount
      BY <1>2, <1>3, SwapInv
    <2> QED BY <1>1, <2>1
  <1>5. busy' \in [op : {"GetAddr"}, n : Nat] /\ busy'.n > 0
    <2>1. busy' = [op |-> "GetAddr", n |-> busy.n + 1]
      BY <1>1, <1>2
    <2> QED BY <1>2, <2>1
  <1>6. busy' \in Shuffle /\ busy' # None /\ busy'.op = "GetAddr"
    BY <1>5, AddrAssumption DEF Shuffle
  <1>7. ~ Selecting' /\ Moving' = {}
    BY <1>6 DEF Selecting, Moving
  <1>8. BusyInv'
    BY <1>5, <1>6, <1>7 DEF BusyInv
  <1>9. TablesInv(am, Moving)' /\ (am.nIdCount <= MaxId)'
    BY <1>2, <1>4, <1>7
  <1> QED BY <1>8, <1>9 DEF AddrManInv

LEMMA GetAddrDoneInv ==
    ASSUME AddrManInv, GetAddrDone
    PROVE  AddrManInv'
  <1>1. busy' = None /\ am' = am
    BY DEF GetAddrDone
  <1>2. TablesInv(am, {}) /\ am.nIdCount <= MaxId
    BY AnsweringFacts DEF GetAddrDone
  <1> QED BY <1>1, <1>2, IdleNext

(* The empty tables. *)
LEMMA EmptyInv == TablesInv(Empty, {}) /\ Empty.nIdCount = 0
  <1> DEFINE infos == [id \in {} |-> None]
             hosts == [a \in NetAddr |-> NoId]
             tables == [b \in TriedBucket |-> <<>>]
             buckets == [b \in NewBucket |-> {}]
  <1>1. /\ infos \in InfoMaps /\ DOMAIN infos = {}
    BY InfoMapsType
  <1>2. hosts \in HostMaps /\ \A a \in NetAddr : hosts[a] = NoId
    BY DEF HostMaps
  <1>3. tables \in TriedTables /\ \A k \in TriedBucket : tables[k] = <<>>
    BY DEF TriedTables
  <1>4. buckets \in NewTables /\ \A b \in NewBucket : buckets[b] = {}
    BY DEF NewTables
  <1>5. <<>> \in IdLists /\ Len(<<>>) = 0
    BY DEF IdLists
  <1>6. /\ Empty.nIdCount = 0 /\ Empty.mapInfo = infos /\ Empty.mapAddr = hosts
        /\ Empty.vRandom = <<>> /\ Empty.nTried = 0 /\ Empty.vvTried = tables
        /\ Empty.nNew = 0 /\ Empty.vvNew = buckets
    BY DEF Empty
  <1>7. Empty = [nIdCount |-> 0, mapInfo |-> infos, mapAddr |-> hosts, vRandom |-> <<>>,
                 nTried |-> 0, vvTried |-> tables, nNew |-> 0, vvNew |-> buckets]
    BY DEF Empty
  <1> HIDE DEF infos, hosts, tables, buckets
  <1>8. Empty \in Table
    BY <1>1, <1>2, <1>3, <1>4, <1>5, <1>7 DEF Table
  <1>9. Entries(Empty) = {} /\ Tried(Empty) = {} /\ Untried(Empty) = {}
    BY <1>1, <1>6 DEF Entries, Tried, Untried
  <1>10. Cardinality({}) = 0
    BY FS_EmptySet
  <1>11. TableType(Empty)
    BY <1>8, <1>9 DEF TableType
  <1>12. RandomInv(Empty) /\ AddrInv(Empty)
    BY <1>2, <1>5, <1>6, <1>9, <1>10 DEF RandomInv, AddrInv
  <1>13. NewInv(Empty, {}) /\ NewSizes(Empty)
    <2>1. \A b \in NewBucket : Empty.vvNew[b] = {}
      BY <1>4, <1>6
    <2>2. NewInv(Empty, {})
      BY <1>9, <2>1 DEF NewInv
    <2>3. NewSizes(Empty)
      BY <1>10, <2>1, ConstantTypes DEF NewSizes
    <2> QED BY <2>2, <2>3
  <1>14. TriedInv(Empty) /\ TriedSizes(Empty)
    BY <1>3, <1>5, <1>6, <1>9, ConstantTypes DEF TriedInv, TriedSizes
  <1>15. CountsInv(Empty, {})
    BY <1>6, <1>9, <1>10 DEF CountsInv
  <1> QED BY <1>6, <1>11, <1>12, <1>13, <1>14, <1>15 DEF TablesInv

LEMMA InitInv == Init => AddrManInv
  <1> SUFFICES ASSUME Init PROVE AddrManInv
    OBVIOUS
  <1>1. am = Empty /\ busy = None
    BY DEF Init
  <1>2. Moving = {} /\ ~ Selecting /\ ~ Answering
    BY <1>1, Idle
  <1>3. BusyInv
    BY <1>1, <1>2 DEF BusyInv
  <1>4. am.nIdCount <= MaxId /\ TablesInv(am, Moving)
    BY <1>1, <1>2, EmptyInv, ConstantTypes
  <1> QED BY <1>3, <1>4 DEF AddrManInv

LEMMA StutterInv ==
    ASSUME AddrManInv, UNCHANGED vars
    PROVE  AddrManInv'
  <1>1. am' = am /\ busy' = busy
    BY DEF vars
  <1> QED
    BY <1>1 DEF AddrManInv, BusyInv, Moving, Selecting, Answering

(* The invariant is inductive: Add_, Good_ with MakeTried and SelectTried, *)
(* and GetAddr_ with every turn of its shuffle keep it.                    *)
THEOREM AddrManInductive == AddrManInv /\ [Next]_vars => AddrManInv'
  <1> SUFFICES ASSUME AddrManInv, [Next]_vars PROVE AddrManInv'
    OBVIOUS
  <1>1. ASSUME NEW s \in Service, NEW src \in Source, AddUnknown(s, src) \/ AddKnown(s, src)
        PROVE  AddrManInv'
    BY <1>1, AddUnknownInv, AddKnownInv
  <1>2. ASSUME NEW s \in Service, NEW t \in Time,
               GoodTried(s, t) \/ GoodRoom(s, t) \/ GoodFull(s, t)
        PROVE  AddrManInv'
    BY <1>2, GoodTriedInv, GoodRoomInv, GoodFullInv
  <1>3. CASE InspectTried
    BY <1>3, InspectTriedInv
  <1>4. CASE Evict
    BY <1>4, EvictInv
  <1>5. CASE GetAddr
    BY <1>5, GetAddrInv
  <1>6. CASE GetAddrStep
    BY <1>6, GetAddrStepInv
  <1>7. CASE GetAddrDone
    BY <1>7, GetAddrDoneInv
  <1>8. CASE UNCHANGED vars
    BY <1>8, StutterInv
  <1> QED BY <1>1, <1>2, <1>3, <1>4, <1>5, <1>6, <1>7, <1>8 DEF Next

(* It holds from the empty address manager of the constructor onwards.     *)
THEOREM AddrManInvariant == Spec => []AddrManInv
  BY InitInv, AddrManInductive, PTL DEF Spec

-----------------------------------------------------------------------------
(* What the invariant gives. *)

LEMMA TypeOKHolds == AddrManInv => TypeOK
  <1> SUFFICES ASSUME AddrManInv PROVE TypeOK
    OBVIOUS
  <1>1. /\ TableType(am) /\ RandomInv(am) /\ AddrInv(am) /\ NewInv(am, Moving) /\ TriedInv(am)
        /\ am.nIdCount <= MaxId /\ Ids = Entries(am)
    BY DEF AddrManInv, TablesInv, Ids, Entries
  <1>2. am.nIdCount \in 0..MaxId /\ Ids \subseteq 0..(am.nIdCount - 1)
    BY <1>1, TableFields, ConstantTypes DEF TableType
  <1>3. am.mapAddr \in [NetAddr -> Ids \cup {NoId}]
    BY <1>1, TableFields DEF AddrInv
  <1>4. am.vRandom \in Seq(Ids)
    <2>1. am.vRandom \in Seq(Nat) /\ \A p \in 1..Len(am.vRandom) : am.vRandom[p] \in Ids
      BY <1>1, TableFields DEF RandomInv
    <2> QED BY <2>1
  <1>5. am.vvTried \in [TriedBucket -> Seq(Ids)]
    <2>1. am.vvTried \in [TriedBucket -> Seq(Nat)]
      BY <1>1, TableFields
    <2>2. \A k \in TriedBucket : \A p \in 1..Len(am.vvTried[k]) : am.vvTried[k][p] \in Ids
      BY <1>1 DEF TriedInv, Tried
    <2>3. \A k \in TriedBucket : am.vvTried[k] \in Seq(Ids)
      <3> TAKE k \in TriedBucket
      <3> DEFINE list == am.vvTried[k]
      <3>1. list \in Seq(Nat) /\ \A p \in 1..Len(list) : list[p] \in Ids
        BY <2>1, <2>2
      <3> HIDE DEF list
      <3>2. list \in Seq(Ids)
        BY <3>1
      <3> QED BY <3>2 DEF list
    <2> QED BY <2>1, <2>3
  <1>6. am.vvNew \in [NewBucket -> SUBSET Ids]
    <2>1. am.vvNew \in [NewBucket -> SUBSET Nat]
      BY <1>1, TableFields
    <2>2. \A b \in NewBucket : am.vvNew[b] \subseteq Ids
      BY <1>1 DEF NewInv, Untried
    <2> QED BY <2>1, <2>2
  <1>7. ASSUME NEW id \in Ids
        PROVE  /\ am.mapInfo[id].addr \in Service
               /\ am.mapInfo[id].source \in Source
               /\ am.mapInfo[id].nLastSuccess \in Time \cup {0}
               /\ am.mapInfo[id].fInTried \in BOOLEAN
               /\ am.mapInfo[id].nRefCount \in 0..Cardinality(NewBucket)
               /\ am.mapInfo[id].nRandomPos \in 1..Len(am.vRandom)
    <2>1. am.mapInfo[id].nRandomPos \in 1..Len(am.vRandom)
      BY <1>1 DEF RandomInv
    <2>2. am.mapInfo[id].nRefCount = Cardinality(BucketsOf(am, id))
      BY <1>1 DEF NewInv
    <2>3. /\ BucketsOf(am, id) \subseteq NewBucket
          /\ Cardinality(BucketsOf(am, id)) \in Nat /\ Cardinality(NewBucket) \in Nat
          /\ Cardinality(BucketsOf(am, id)) <= Cardinality(NewBucket)
      BY ConstantTypes, FS_Subset, FS_CardinalityType DEF BucketsOf
    <2>4. am.mapInfo[id].nRefCount \in 0..Cardinality(NewBucket)
      BY <2>2, <2>3
    <2> QED BY <1>1, <2>1, <2>4, PeerTypes
  <1> QED BY <1>2, <1>3, <1>4, <1>5, <1>6, <1>7 DEF TypeOK

LEMMA TablesExactHolds == AddrManInv => TablesExact
  <1> SUFFICES ASSUME AddrManInv PROVE TablesExact
    OBVIOUS
  <1>1. /\ TableType(am) /\ NewInv(am, Moving) /\ TriedInv(am) /\ TriedSizes(am)
        /\ Ids = Entries(am)
    BY DEF AddrManInv, TablesInv, Ids, Entries
  <1> SUFFICES ASSUME NEW id \in Ids, ~ (Selecting /\ busy.nId = id)
               PROVE  IF am.mapInfo[id].fInTried
                      THEN /\ am.mapInfo[id].nRefCount = 0
                           /\ am.mapInfo[id].nLastSuccess # 0
                           /\ Cardinality(InTriedBuckets(id)) = 1
                           /\ InNewBuckets(id) = {}
                           /\ \A p \in InTriedBuckets(id) :
                                 p[1] = GetTriedBucket[am.mapInfo[id].addr]
                      ELSE /\ am.mapInfo[id].nRefCount = Cardinality(InNewBuckets(id))
                           /\ am.mapInfo[id].nRefCount \in 1..NEW_BUCKETS_PER_ADDRESS
                           /\ InTriedBuckets(id) = {}
    BY DEF TablesExact
  <1>2. id \notin Moving
    BY DEF Moving
  <1>3. InNewBuckets(id) = BucketsOf(am, id)
        /\ am.mapInfo[id].nRefCount = Cardinality(InNewBuckets(id))
    <2>1. InNewBuckets(id) = BucketsOf(am, id)
      BY DEF InNewBuckets, BucketsOf
    <2> QED BY <1>1, <2>1 DEF NewInv
  <1>4. ASSUME NEW k \in TriedBucket, NEW p \in 1..Len(am.vvTried[k]), am.vvTried[k][p] = id
        PROVE  am.mapInfo[id].fInTried /\ k = TriedBucketOf(am, id)
    BY <1>1, <1>4 DEF TriedInv, Tried
  <1>5. \A k \in TriedBucket : Len(am.vvTried[k]) \in Nat
    BY <1>1, TableFields
  <1>6. CASE am.mapInfo[id].fInTried
    <2> DEFINE k == TriedBucketOf(am, id)
    <2>1. id \in Tried(am) /\ id \notin Untried(am)
      BY <1>1, <1>6 DEF Tried, Untried
    <2>2. InNewBuckets(id) = {} /\ am.mapInfo[id].nRefCount = 0
      <3>1. InNewBuckets(id) = {}
        BY <1>1, <2>1 DEF NewInv, InNewBuckets
      <3> QED BY <1>3, <3>1, FS_EmptySet
    <2>3. PICK p \in 1..Len(am.vvTried[k]) : am.vvTried[k][p] = id
      BY <1>1, <2>1 DEF TriedInv
    <2>4. k \in TriedBucket /\ am.mapInfo[id].nLastSuccess # 0
      BY <1>1, <2>1, PeerTypes DEF TriedInv
    <2>5. \A q \in 1..Len(am.vvTried[k]) : am.vvTried[k][q] = id => q = p
      BY <1>1, <2>3, <2>4 DEF TriedInv
    <2>6. InTriedBuckets(id) = {<<k, p>>}
      <3>1. p \in 1..TRIED_BUCKET_SIZE /\ p <= Len(am.vvTried[k])
        BY <1>1, <1>5, <2>4, ConstantTypes DEF TriedSizes
      <3>2. <<k, p>> \in InTriedBuckets(id)
        BY <2>3, <2>4, <3>1 DEF InTriedBuckets
      <3>3. ASSUME NEW x \in InTriedBuckets(id)
            PROVE  x = <<k, p>>
        <4>1. /\ x \in TriedBucket \X (1..TRIED_BUCKET_SIZE)
              /\ x[2] <= Len(am.vvTried[x[1]]) /\ am.vvTried[x[1]][x[2]] = id
          BY <3>3 DEF InTriedBuckets
        <4>2. x = <<x[1], x[2]>> /\ x[1] \in TriedBucket /\ x[2] \in 1..Len(am.vvTried[x[1]])
          BY <1>5, <4>1, ConstantTypes
        <4>3. x[1] = k
          BY <1>4, <4>1, <4>2
        <4>4. x[2] = p
          BY <2>5, <4>1, <4>2, <4>3
        <4> QED BY <4>2, <4>3, <4>4
      <3> QED BY <3>2, <3>3
    <2>7. Cardinality(InTriedBuckets(id)) = 1
      BY <2>6, FS_Singleton
    <2>8. \A x \in InTriedBuckets(id) : x[1] = GetTriedBucket[am.mapInfo[id].addr]
      BY <2>6 DEF TriedBucketOf
    <2> QED BY <1>6, <2>2, <2>4, <2>7, <2>8
  <1>7. CASE ~ am.mapInfo[id].fInTried
    <2>1. am.mapInfo[id].nRefCount \in 1..NEW_BUCKETS_PER_ADDRESS
      BY <1>1, <1>2, <1>7 DEF NewInv, Untried
    <2>2. InTriedBuckets(id) = {}
      <3> SUFFICES ASSUME NEW x \in InTriedBuckets(id) PROVE FALSE
        OBVIOUS
      <3>1. /\ x \in TriedBucket \X (1..TRIED_BUCKET_SIZE)
            /\ x[2] <= Len(am.vvTried[x[1]]) /\ am.vvTried[x[1]][x[2]] = id
        BY DEF InTriedBuckets
      <3>2. x[1] \in TriedBucket /\ x[2] \in 1..Len(am.vvTried[x[1]])
        BY <1>5, <3>1, ConstantTypes
      <3> QED BY <1>4, <1>7, <3>1, <3>2
    <2> QED BY <1>3, <1>7, <2>1, <2>2
  <1> QED BY <1>6, <1>7

LEMMA CheckHolds == AddrManInv => Check
  <1> SUFFICES ASSUME AddrManInv PROVE Check
    OBVIOUS
  <1>1. /\ TableType(am) /\ RandomInv(am) /\ AddrInv(am) /\ Ids = Entries(am)
        /\ CountsInv(am, Moving)
    BY DEF AddrManInv, TablesInv, Ids, Entries
  <1>2. RandomExact
    <2>1. DOMAIN am.vRandom = 1..Len(am.vRandom)
      BY <1>1, TableFields
    <2> QED BY <1>1, <2>1 DEF RandomInv, RandomExact
  <1>3. AddrExact
    BY <1>1 DEF AddrInv, AddrExact
  <1>4. CountsExact
    <2> SUFFICES ASSUME busy = None
                 PROVE  /\ am.nTried = Cardinality({id \in Ids : am.mapInfo[id].fInTried})
                        /\ am.nNew = Cardinality({id \in Ids : ~ am.mapInfo[id].fInTried})
      BY DEF CountsExact
    <2>1. Moving = {} /\ Untried(am) \ Moving = Untried(am)
      BY Idle
    <2>2. /\ Tried(am) = {id \in Ids : am.mapInfo[id].fInTried}
          /\ Untried(am) = {id \in Ids : ~ am.mapInfo[id].fInTried}
      BY <1>1 DEF Tried, Untried
    <2> QED BY <1>1, <2>1, <2>2 DEF CountsInv
  <1> QED BY <1>2, <1>3, <1>4, TablesExactHolds DEF Check

LEMMA BucketsBoundedHolds == AddrManInv => BucketsBounded
  BY DEF AddrManInv, TablesInv, NewSizes, TriedSizes, BucketsBounded

(* Every structure of the address manager holds ids of entries that exist. *)
THEOREM AddrManTypeCorrect == Spec => []TypeOK
  BY AddrManInvariant, TypeOKHolds, PTL

(* Check_ succeeds after every operation and in the middle of a shuffle:   *)
(* the tables, the indexes into them and the counts agree.                 *)
THEOREM AddrManCheck == Spec => []Check
  BY AddrManInvariant, CheckHolds, PTL

(* No bucket outgrows its size: InsertNew makes room first, and MakeTried  *)
(* sends what it evicts to a bucket that has room.                         *)
THEOREM AddrManBounded == Spec => []BucketsBounded
  BY AddrManInvariant, BucketsBoundedHolds, PTL

-----------------------------------------------------------------------------
(* peers.dat.  Counting by one-to-one functions. *)

OneToOne(f, S, T) == f \in [S -> T] /\ \A x, y \in S : f[x] = f[y] => x = y

Onto(f, S, T) == \A y \in T : \E x \in S : f[x] = y

LEMMA Injective ==
    ASSUME NEW S, NEW T, NEW f, OneToOne(f, S, T), IsFiniteSet(T)
    PROVE  IsFiniteSet(S) /\ Cardinality(S) <= Cardinality(T)
           /\ (Cardinality(S) = Cardinality(T) => Onto(f, S, T))
  <1>1. f \in Injection(S, T)
    BY DEF Injection, IsInjective, OneToOne
  <1>2. /\ IsFiniteSet(S) /\ Cardinality(S) <= Cardinality(T)
        /\ (Cardinality(S) = Cardinality(T)) <=> f \in Surjection(S, T)
    BY <1>1, FS_Injection
  <1> QED BY <1>2 DEF Surjection, Onto

LEMMA Bijective ==
    ASSUME NEW S, NEW T, NEW f, OneToOne(f, S, T), Onto(f, S, T), IsFiniteSet(S)
    PROVE  IsFiniteSet(T) /\ Cardinality(T) = Cardinality(S)
  <1>1. f \in Bijection(S, T)
    BY DEF Bijection, Injection, Surjection, IsInjective, OneToOne, Onto
  <1>2. ExistsBijection(S, T)
    BY <1>1 DEF ExistsBijection
  <1> QED BY <1>2, FS_Bijection

LEMMA Intervals ==
    ASSUME NEW n \in Nat
    PROVE  /\ IsFiniteSet(1..n) /\ Cardinality(1..n) = n
           /\ IsFiniteSet(0..(n - 1)) /\ Cardinality(0..(n - 1)) = n
  <1>1. IsFiniteSet(1..n) /\ Cardinality(1..n) = IF 1 > n THEN 0 ELSE n - 1 + 1
    BY FS_Interval
  <1> DEFINE k == n - 1
  <1>2. k \in Int
    OBVIOUS
  <1> HIDE DEF k
  <1>3. IsFiniteSet(0..k) /\ Cardinality(0..k) = IF 0 > k THEN 0 ELSE k - 0 + 1
    BY <1>2, FS_Interval
  <1>4. Cardinality(1..n) = n
    BY <1>1
  <1>5. Cardinality(0..k) = n
    BY <1>3 DEF k
  <1> QED BY <1>1, <1>3, <1>4, <1>5 DEF k

(* list names every element of S once. *)
Lists(list, S) ==
    /\ list \in Seq(Nat) /\ Len(list) = Cardinality(S) /\ Cardinality(S) \in Nat
    /\ \A n \in 1..Len(list) : list[n] \in S
    /\ \A n, p \in 1..Len(list) : list[n] = list[p] => n = p
    /\ \A x \in S : \E n \in 1..Len(list) : list[n] = x

(* The order of a map lists all its keys. *)
LEMMA InOrderLists ==
    ASSUME NEW S \in SUBSET Nat, IsFiniteSet(S)
    PROVE  Lists(InOrder(S), S)
  <1> DEFINE n == Cardinality(S)
             below(x) == {j \in S : j <= x}
             rank == [x \in S |-> Cardinality(below(x))]
             list == InOrder(S)
  <1>1. n \in Nat /\ IsFiniteSet(1..n) /\ Cardinality(1..n) = n
    <2>1. n \in Nat
      BY FS_CardinalityType
    <2>2. IsFiniteSet(1..n) /\ Cardinality(1..n) = IF 1 > n THEN 0 ELSE n - 1 + 1
      BY <2>1, FS_Interval
    <2> QED BY <2>1, <2>2
  <1> HIDE DEF n
  <1>2. \A x \in S : IsFiniteSet(below(x)) /\ Cardinality(below(x)) \in 1..n
    <2> TAKE x \in S
    <2> DEFINE b == below(x)
    <2>1. b \in SUBSET S /\ x \in b
      OBVIOUS
    <2> HIDE DEF b
    <2>2. IsFiniteSet(b) /\ Cardinality(b) <= n
      BY <2>1, FS_Subset DEF n
    <2>3. Cardinality(b) \in Nat /\ Cardinality(b) # 0
      BY <2>1, <2>2, FS_CardinalityType, FS_EmptySet
    <2>4. IsFiniteSet(b) /\ Cardinality(b) \in 1..n
      BY <1>1, <2>2, <2>3
    <2> QED BY <2>4 DEF b
  <1>3. \A x, y \in S : x < y => Cardinality(below(x)) # Cardinality(below(y))
    <2> SUFFICES ASSUME NEW x \in S, NEW y \in S, x < y
                 PROVE  Cardinality(below(x)) # Cardinality(below(y))
      OBVIOUS
    <2> DEFINE b == below(x)
               c == below(y)
    <2>1. b \in SUBSET c /\ y \in c /\ y \notin b
      <3>1. x \in Nat /\ y \in Nat /\ \A j \in S : j \in Nat
        OBVIOUS
      <3>2. \A j \in S : j <= x => j <= y
        BY <3>1
      <3>3. ~ (y <= x) /\ y <= y
        BY <3>1
      <3> QED BY <3>2, <3>3
    <2>2. IsFiniteSet(c)
      BY <1>2
    <2> HIDE DEF b, c
    <2>3. Cardinality(b) # Cardinality(c)
      BY <2>1, <2>2, FS_Subset
    <2> QED BY <2>3 DEF b, c
  <1>4. rank \in [S -> 1..n] /\ \A x \in S : rank[x] = Cardinality(below(x))
    BY <1>2
  <1>5. \A x, y \in S : rank[x] = rank[y] => x = y
    <2> SUFFICES ASSUME NEW x \in S, NEW y \in S, rank[x] = rank[y], x # y
                 PROVE  FALSE
      OBVIOUS
    <2>1. Cardinality(below(x)) = Cardinality(below(y))
      BY <1>4
    <2>2. x < y \/ y < x
      OBVIOUS
    <2> HIDE DEF below
    <2> QED BY <1>3, <2>1, <2>2
  <1> HIDE DEF rank
  <1>6. \A k \in 1..n : \E x \in S : rank[x] = k
    <2> DEFINE T == 1..n
    <2>1. rank \in [S -> T] /\ IsFiniteSet(T) /\ Cardinality(S) = Cardinality(T)
      BY <1>1, <1>4 DEF n
    <2> HIDE DEF T
    <2>2. OneToOne(rank, S, T)
      BY <1>5, <2>1 DEF OneToOne
    <2>3. Onto(rank, S, T)
      BY <2>1, <2>2, Injective
    <2> QED BY <2>3 DEF T, Onto
  <1>7. \A k \in 1..n : list[k] = CHOOSE x \in S : Cardinality(below(x)) = k
    BY DEF InOrder, n
  <1>8. DOMAIN list = 1..n
    BY DEF InOrder, n
  <1> HIDE DEF list
  <1>9. \A k \in 1..n : list[k] \in S /\ rank[list[k]] = k
    <2> TAKE k \in 1..n
    <2>1. \E x \in S : Cardinality(below(x)) = k
      BY <1>4, <1>6
    <2> HIDE DEF below
    <2>2. list[k] \in S /\ Cardinality(below(list[k])) = k
      BY <1>7, <2>1
    <2> QED BY <1>4, <2>2
  <1>10. list \in Seq(Nat) /\ Len(list) = n
    <2>1. list \in [1..n -> Nat]
      <3>1. list = [k \in 1..n |-> list[k]]
        <4> DEFINE g(k) == CHOOSE x \in S : Cardinality(below(x)) = k
        <4>1. list = [k \in 1..n |-> g(k)]
          BY DEF list, InOrder, n
        <4> HIDE DEF g, n
        <4> QED BY <4>1
      <3> QED BY <1>9, <3>1
    <2> QED BY <1>1, <2>1
  <1>11. \A x \in S : \E k \in 1..n : list[k] = x
    <2> TAKE x \in S
    <2>1. rank[x] \in 1..n /\ rank[list[rank[x]]] = rank[x]
      BY <1>4, <1>9
    <2> QED BY <1>5, <1>9, <2>1
  <1> QED BY <1>1, <1>9, <1>10, <1>11 DEF Lists, list, n

(* The contents of peers.dat after a dump: distinct hosts, each with a     *)
(* place in a bucket of its table.                                         *)
FileType(f) == f \in File /\ \A b \in NewBucket : f.vvNew[b] \subseteq 1..Len(f.new)

FileHosts(f) ==
    /\ \A n, p \in 1..Len(f.new) : addrOf[f.new[n].addr] = addrOf[f.new[p].addr] => n = p
    /\ \A n, p \in 1..Len(f.tried) : addrOf[f.tried[n].addr] = addrOf[f.tried[p].addr] => n = p
    /\ \A n \in 1..Len(f.new), p \in 1..Len(f.tried) :
          addrOf[f.new[n].addr] # addrOf[f.tried[p].addr]

TriedIn(f, k) == {n \in 1..Len(f.tried) : GetTriedBucket[f.tried[n].addr] = k}

FileInv(f) ==
    /\ FileType(f) /\ FileHosts(f)
    /\ Len(f.new) + Len(f.tried) <= MaxId
    /\ \A n \in 1..Len(f.new) : RefsOf(f, n) \in 1..NEW_BUCKETS_PER_ADDRESS
    /\ \A n \in 1..Len(f.tried) : f.tried[n].nLastSuccess # 0
    /\ \A b \in NewBucket : Cardinality(f.vvNew[b]) <= NEW_BUCKET_SIZE
    /\ \A k \in TriedBucket : Cardinality(TriedIn(f, k)) <= TRIED_BUCKET_SIZE

(* f stands for the tables of m, whose untried and tried entries it lists  *)
(* in the orders u and t.                                                  *)
Saves(f, m, u, t) ==
    /\ FileType(f) /\ Len(f.new) = Len(u) /\ Len(f.tried) = Len(t)
    /\ \A n \in 1..Len(u) : f.new[n] = Stored(m.mapInfo[u[n]])
    /\ \A n \in 1..Len(t) : f.tried[n] = Stored(m.mapInfo[t[n]])
    /\ \A b \in NewBucket : f.vvNew[b] = {n \in 1..Len(u) : u[n] \in m.vvNew[b]}

LEMMA StoredFields ==
    ASSUME NEW e \in InfoType
    PROVE  /\ Stored(e) \in StoredType /\ Stored(e).addr = e.addr
           /\ Stored(e).source = e.source /\ Stored(e).nLastSuccess = e.nLastSuccess
  BY DEF Stored, StoredType, InfoType

LEMMA FileFields ==
    ASSUME NEW f, f \in File
    PROVE  /\ f.new \in Seq(StoredType) /\ f.tried \in Seq(StoredType)
           /\ f.vvNew \in [NewBucket -> SUBSET Nat]
           /\ Len(f.new) \in Nat /\ Len(f.tried) \in Nat
           /\ \A n \in 1..Len(f.new) : f.new[n] \in StoredType
           /\ \A n \in 1..Len(f.tried) : f.tried[n] \in StoredType
  <1>1. /\ f.new \in Seq(StoredType) /\ f.tried \in Seq(StoredType)
        /\ f.vvNew \in [NewBucket -> SUBSET Nat]
    BY DEF File
  <1> QED BY <1>1

(* New entries are referenced, tried entries are not. *)
LEMMA ReferencedUntried ==
    ASSUME NEW m, TablesInv(m, {})
    PROVE  /\ {id \in DOMAIN m.mapInfo : m.mapInfo[id].nRefCount # 0} = Untried(m)
           /\ {id \in DOMAIN m.mapInfo : m.mapInfo[id].fInTried} = Tried(m)
           /\ m.nNew = Cardinality(Untried(m)) /\ m.nTried = Cardinality(Tried(m))
  <1>1. NewInv(m, {}) /\ CountsInv(m, {}) /\ TableType(m)
    BY DEF TablesInv
  <1>2. \A id \in Tried(m) : m.mapInfo[id].nRefCount = 0
    <2> TAKE id \in Tried(m)
    <2>1. BucketsOf(m, id) = {} /\ id \in Entries(m)
      BY <1>1 DEF NewInv, BucketsOf, Tried, Untried
    <2>2. m.mapInfo[id].nRefCount = Cardinality(BucketsOf(m, id))
      BY <1>1, <2>1 DEF NewInv
    <2> QED BY <2>1, <2>2, FS_EmptySet
  <1>3. \A id \in Untried(m) : m.mapInfo[id].nRefCount # 0
    <2>1. \A id \in Untried(m) : m.mapInfo[id].nRefCount \in 1..NEW_BUCKETS_PER_ADDRESS
      BY <1>1 DEF NewInv
    <2> QED BY <2>1, ConstantTypes
  <1>4. {id \in DOMAIN m.mapInfo : m.mapInfo[id].nRefCount # 0} = Untried(m)
    BY <1>2, <1>3 DEF Untried, Tried, Entries
  <1>5. {id \in DOMAIN m.mapInfo : m.mapInfo[id].fInTried} = Tried(m)
    BY DEF Tried, Entries
  <1>6. Untried(m) \ {} = Untried(m)
    OBVIOUS
  <1> QED BY <1>1, <1>4, <1>5, <1>6 DEF CountsInv

LEMMA SerializeSaves ==
    ASSUME NEW m, TablesInv(m, {})
    PROVE  /\ Lists(InOrder(Untried(m)), Untried(m)) /\ Lists(InOrder(Tried(m)), Tried(m))
           /\ Saves(Serialize(m), m, InOrder(Untried(m)), InOrder(Tried(m)))
  <1> DEFINE u == InOrder(Untried(m))
             t == InOrder(Tried(m))
             f == Serialize(m)
             news == [n \in 1..Len(u) |-> Stored(m.mapInfo[u[n]])]
             trieds == [n \in 1..Len(t) |-> Stored(m.mapInfo[t[n]])]
             buckets == [b \in NewBucket |-> {n \in 1..Len(u) : u[n] \in m.vvNew[b]}]
  <1>1. TableType(m)
    BY DEF TablesInv
  <1>2. Lists(u, Untried(m)) /\ Lists(t, Tried(m))
    <2>1. /\ Untried(m) \in SUBSET Nat /\ Tried(m) \in SUBSET Nat
          /\ IsFiniteSet(Untried(m)) /\ IsFiniteSet(Tried(m))
      BY <1>1, EntriesFinite, TableFields DEF Untried, Tried
    <2> QED BY <2>1, InOrderLists
  <1>3. f = [new |-> news, tried |-> trieds, vvNew |-> buckets]
    <2>1. /\ {id \in DOMAIN m.mapInfo : m.mapInfo[id].nRefCount # 0} = Untried(m)
          /\ {id \in DOMAIN m.mapInfo : m.mapInfo[id].fInTried} = Tried(m)
      BY ReferencedUntried
    <2>2. m.nNew = Len(u) /\ m.nTried = Len(t)
      BY <1>2, ReferencedUntried DEF Lists
    <2>3. Len(u) \in Nat /\ Len(t) \in Nat
      BY <1>2 DEF Lists
    <2>4. Min2(m.nNew, Len(u)) = Len(u) /\ Min2(m.nTried, Len(t)) = Len(t)
      BY <2>2, <2>3 DEF Min2
    <2> QED BY <2>1, <2>4 DEF Serialize, UnkIndexes
  <1> HIDE DEF u, t, f
  <1>4. /\ Len(u) \in Nat /\ Len(t) \in Nat
        /\ \A n \in 1..Len(u) : u[n] \in Entries(m)
        /\ \A n \in 1..Len(t) : t[n] \in Entries(m)
    BY <1>2 DEF Lists, Untried, Tried
  <1>5. /\ news \in Seq(StoredType) /\ Len(news) = Len(u)
        /\ \A n \in 1..Len(u) : news[n] = Stored(m.mapInfo[u[n]])
    <2>1. \A n \in 1..Len(u) : Stored(m.mapInfo[u[n]]) \in StoredType
      BY <1>1, <1>4, TableFields, StoredFields
    <2> QED BY <1>4, <2>1
  <1>6. /\ trieds \in Seq(StoredType) /\ Len(trieds) = Len(t)
        /\ \A n \in 1..Len(t) : trieds[n] = Stored(m.mapInfo[t[n]])
    <2>1. \A n \in 1..Len(t) : Stored(m.mapInfo[t[n]]) \in StoredType
      BY <1>1, <1>4, TableFields, StoredFields
    <2> QED BY <1>4, <2>1
  <1>7. /\ buckets \in [NewBucket -> SUBSET Nat]
        /\ \A b \in NewBucket : buckets[b] = {n \in 1..Len(u) : u[n] \in m.vvNew[b]}
        /\ \A b \in NewBucket : buckets[b] \subseteq 1..Len(u)
    BY <1>4
  <1> HIDE DEF news, trieds, buckets
  <1>8. f \in File /\ f.new = news /\ f.tried = trieds /\ f.vvNew = buckets
    BY <1>3, <1>5, <1>6, <1>7 DEF File
  <1>9. FileType(f)
    BY <1>5, <1>7, <1>8 DEF FileType
  <1> QED BY <1>2, <1>5, <1>6, <1>7, <1>8, <1>9 DEF Saves, u, t, f

LEMMA SavesInv ==
    ASSUME NEW m, TablesInv(m, {}), m.nIdCount <= MaxId, NEW f, NEW u, NEW t,
           Saves(f, m, u, t), Lists(u, Untried(m)), Lists(t, Tried(m))
    PROVE  FileInv(f)
  <1>1. /\ TableType(m) /\ AddrInv(m) /\ NewInv(m, {}) /\ TriedInv(m)
        /\ NewSizes(m) /\ TriedSizes(m)
    BY DEF TablesInv
  <1>2. /\ FileType(f) /\ Len(f.new) = Len(u) /\ Len(f.tried) = Len(t)
        /\ Len(u) \in Nat /\ Len(t) \in Nat
        /\ \A b \in NewBucket : f.vvNew[b] = {n \in 1..Len(u) : u[n] \in m.vvNew[b]}
    BY DEF Saves, Lists
  <1>3. /\ \A n \in 1..Len(u) : /\ u[n] \in Untried(m) /\ u[n] \in Entries(m)
                                /\ f.new[n].addr = m.mapInfo[u[n]].addr
        /\ \A n \in 1..Len(t) : /\ t[n] \in Tried(m) /\ t[n] \in Entries(m)
                                /\ f.tried[n].addr = m.mapInfo[t[n]].addr
                                /\ f.tried[n].nLastSuccess = m.mapInfo[t[n]].nLastSuccess
    <2>1. /\ \A n \in 1..Len(u) : u[n] \in Untried(m) /\ u[n] \in Entries(m)
          /\ \A n \in 1..Len(t) : t[n] \in Tried(m) /\ t[n] \in Entries(m)
      BY DEF Lists, Untried, Tried
    <2>2. \A id \in Entries(m) : m.mapInfo[id] \in InfoType
      BY <1>1, TableFields
    <2>3. \A id \in Entries(m) : /\ Stored(m.mapInfo[id]).addr = m.mapInfo[id].addr
                                 /\ Stored(m.mapInfo[id]).nLastSuccess = m.mapInfo[id].nLastSuccess
      BY <2>2, StoredFields
    <2> QED BY <2>1, <2>3 DEF Saves
  <1>4. FileHosts(f)
    <2>1. \A i, j \in Entries(m) :
             addrOf[m.mapInfo[i].addr] = addrOf[m.mapInfo[j].addr] => i = j
      BY <1>1 DEF AddrInv
    <2>2. \A n, p \in 1..Len(f.new) :
             addrOf[f.new[n].addr] = addrOf[f.new[p].addr] => n = p
      <3> SUFFICES ASSUME NEW n \in 1..Len(f.new), NEW p \in 1..Len(f.new),
                          addrOf[f.new[n].addr] = addrOf[f.new[p].addr]
                   PROVE  n = p
        OBVIOUS
      <3>1. n \in 1..Len(u) /\ p \in 1..Len(u)
        BY <1>2
      <3>2. u[n] = u[p]
        <4>1. addrOf[m.mapInfo[u[n]].addr] = addrOf[m.mapInfo[u[p]].addr]
          BY <1>3, <3>1
        <4>2. u[n] \in Entries(m) /\ u[p] \in Entries(m)
          BY <1>3, <3>1
        <4> QED BY <2>1, <4>1, <4>2
      <3>3. \A i, j \in 1..Len(u) : u[i] = u[j] => i = j
        BY DEF Lists
      <3> QED BY <3>1, <3>2, <3>3
    <2>3. \A n, p \in 1..Len(f.tried) :
             addrOf[f.tried[n].addr] = addrOf[f.tried[p].addr] => n = p
      <3> SUFFICES ASSUME NEW n \in 1..Len(f.tried), NEW p \in 1..Len(f.tried),
                          addrOf[f.tried[n].addr] = addrOf[f.tried[p].addr]
                   PROVE  n = p
        OBVIOUS
      <3>1. n \in 1..Len(t) /\ p \in 1..Len(t)
        BY <1>2
      <3>2. t[n] = t[p]
        <4>1. addrOf[m.mapInfo[t[n]].addr] = addrOf[m.mapInfo[t[p]].addr]
          BY <1>3, <3>1
        <4>2. t[n] \in Entries(m) /\ t[p] \in Entries(m)
          BY <1>3, <3>1
        <4> QED BY <2>1, <4>1, <4>2
      <3>3. \A i, j \in 1..Len(t) : t[i] = t[j] => i = j
        BY DEF Lists
      <3> QED BY <3>1, <3>2, <3>3
    <2>4. \A n \in 1..Len(f.new), p \in 1..Len(f.tried) :
             addrOf[f.new[n].addr] # addrOf[f.tried[p].addr]
      <3> SUFFICES ASSUME NEW n \in 1..Len(f.new), NEW p \in 1..Len(f.tried),
                          addrOf[f.new[n].addr] = addrOf[f.tried[p].addr]
                   PROVE  FALSE
        OBVIOUS
      <3>1. n \in 1..Len(u) /\ p \in 1..Len(t)
        BY <1>2
      <3>2. u[n] = t[p]
        <4>1. addrOf[m.mapInfo[u[n]].addr] = addrOf[m.mapInfo[t[p]].addr]
          BY <1>3, <3>1
        <4>2. u[n] \in Entries(m) /\ t[p] \in Entries(m)
          BY <1>3, <3>1
        <4> QED BY <2>1, <4>1, <4>2
      <3>3. u[n] \in Untried(m) /\ t[p] \in Tried(m)
        BY <1>3, <3>1
      <3> QED BY <3>2, <3>3 DEF Untried, Tried
    <2> QED BY <2>2, <2>3, <2>4 DEF FileHosts
  <1>5. Len(f.new) + Len(f.tried) <= MaxId
    <2>1. Cardinality(Entries(m)) = Len(u) + Len(t)
      <3>1. /\ IsFiniteSet(Tried(m)) /\ IsFiniteSet(Untried(m))
            /\ Entries(m) = Tried(m) \cup Untried(m) /\ Tried(m) \cap Untried(m) = {}
        BY <1>1, EntriesFinite
      <3>2. Cardinality(Entries(m)) = Cardinality(Tried(m)) + Cardinality(Untried(m)) - 0
        BY <3>1, FS_Union, FS_EmptySet
      <3>3. Cardinality(Untried(m)) = Len(u) /\ Cardinality(Tried(m)) = Len(t)
        BY DEF Lists
      <3> QED BY <1>2, <3>2, <3>3
    <2>2. Cardinality(Entries(m)) <= m.nIdCount
      <3> DEFINE ids == 0..(m.nIdCount - 1)
      <3>1. m.nIdCount \in Nat /\ Entries(m) \subseteq ids
        BY <1>1, TableFields DEF TableType
      <3>2. IsFiniteSet(ids) /\ Cardinality(ids) = m.nIdCount
        BY <3>1, Intervals
      <3> HIDE DEF ids
      <3>3. Cardinality(Entries(m)) <= Cardinality(ids)
        BY <3>1, <3>2, FS_Subset
      <3> QED BY <3>2, <3>3
    <2>3. m.nIdCount \in Nat
      BY <1>1, TableFields
    <2> QED BY <1>2, <2>1, <2>2, <2>3, ConstantTypes
  <1>6. \A n \in 1..Len(f.new) : RefsOf(f, n) \in 1..NEW_BUCKETS_PER_ADDRESS
    <2> TAKE n \in 1..Len(f.new)
    <2>1. {b \in NewBucket : n \in f.vvNew[b]} = BucketsOf(m, u[n])
      BY <1>2 DEF BucketsOf
    <2>2. RefsOf(f, n) = m.mapInfo[u[n]].nRefCount
      BY <1>1, <1>2, <1>3, <2>1 DEF RefsOf, NewInv
    <2> QED BY <1>1, <1>2, <1>3, <2>2 DEF NewInv
  <1>7. \A n \in 1..Len(f.tried) : f.tried[n].nLastSuccess # 0
    BY <1>1, <1>2, <1>3 DEF TriedInv
  <1>8. \A b \in NewBucket : Cardinality(f.vvNew[b]) <= NEW_BUCKET_SIZE
    <2> TAKE b \in NewBucket
    <2> DEFINE S == {n \in 1..Len(u) : u[n] \in m.vvNew[b]}
               g == [n \in S |-> u[n]]
    <2>1. OneToOne(g, S, m.vvNew[b])
      BY DEF OneToOne, Lists
    <2>2. f.vvNew[b] = S
      BY <1>2
    <2> HIDE DEF S, g
    <2>3. IsFiniteSet(m.vvNew[b]) /\ Cardinality(m.vvNew[b]) \in Nat
      BY <1>1, NewBucketsTyped
    <2>4. IsFiniteSet(S) /\ Cardinality(S) <= Cardinality(m.vvNew[b])
      BY <2>1, <2>3, Injective
    <2>5. Cardinality(S) \in Nat /\ Cardinality(m.vvNew[b]) <= NEW_BUCKET_SIZE
      BY <1>1, <2>4, FS_CardinalityType DEF NewSizes
    <2> QED BY <2>2, <2>3, <2>4, <2>5, ConstantTypes
  <1>9. \A k \in TriedBucket : Cardinality(TriedIn(f, k)) <= TRIED_BUCKET_SIZE
    <2> TAKE k \in TriedBucket
    <2> DEFINE S == TriedIn(f, k)
               T == 1..Len(m.vvTried[k])
               g == [n \in S |-> CHOOSE p \in T : m.vvTried[k][p] = t[n]]
    <2>1. \A n \in S : n \in 1..Len(t) /\ \E p \in T : m.vvTried[k][p] = t[n]
      <3> TAKE n \in S
      <3>1. n \in 1..Len(t) /\ TriedBucketOf(m, t[n]) = k
        BY <1>2, <1>3 DEF TriedIn, TriedBucketOf
      <3> QED BY <1>1, <1>3, <3>1 DEF TriedInv
    <2>2. \A n \in S : g[n] \in T /\ m.vvTried[k][g[n]] = t[n]
      BY <2>1
    <2>3. OneToOne(g, S, T)
      <3>1. g \in [S -> T]
        BY <2>2
      <3> HIDE DEF g, S, T
      <3>2. \A x, y \in S : g[x] = g[y] => x = y
        BY <2>1, <2>2 DEF Lists
      <3> QED BY <3>1, <3>2 DEF OneToOne
    <2>4. Len(m.vvTried[k]) \in Nat /\ Len(m.vvTried[k]) <= TRIED_BUCKET_SIZE
      BY <1>1, TableFields DEF TriedSizes
    <2>5. IsFiniteSet(T) /\ Cardinality(T) = Len(m.vvTried[k])
      BY <2>4, Intervals
    <2> HIDE DEF g, S, T
    <2>6. IsFiniteSet(S) /\ Cardinality(S) <= Cardinality(T)
      BY <2>3, <2>5, Injective
    <2>7. Cardinality(S) \in Nat
      BY <2>6, FS_CardinalityType
    <2>8. Cardinality(S) <= TRIED_BUCKET_SIZE
      BY <2>4, <2>5, <2>6, <2>7, ConstantTypes
    <2> QED BY <2>8 DEF S
  <1> QED BY <1>2, <1>4, <1>5, <1>6, <1>7, <1>8, <1>9 DEF FileInv

(* The entry that is read for e. *)
ReadEntry(e, pos, old, refs) ==
    [Loaded(e, pos) EXCEPT !.fInTried = old, !.nRefCount = refs]

ReadRel(r, e, pos, old, refs) ==
    /\ r \in InfoType /\ r.addr = e.addr /\ r.source = e.source
    /\ r.nLastSuccess = e.nLastSuccess /\ r.nRandomPos = pos
    /\ r.fInTried = old /\ r.nRefCount = refs

LEMMA ReadEntryFields ==
    ASSUME NEW e \in StoredType, NEW pos \in Nat, NEW old \in BOOLEAN, NEW refs \in Int
    PROVE  ReadRel(ReadEntry(e, pos, old, refs), e, pos, old, refs)
  <1> DEFINE x == Loaded(e, pos)
             y == [x EXCEPT !.fInTried = old]
             z == [y EXCEPT !.nRefCount = refs]
  <1>1. /\ x \in InfoType /\ x.addr = e.addr /\ x.source = e.source
        /\ x.nLastSuccess = e.nLastSuccess /\ x.nRandomPos = pos
    BY DEF Loaded, StoredType, InfoType
  <1>2. ReadEntry(e, pos, old, refs) = z
    <2> HIDE DEF x
    <2> QED BY <1>1 DEF ReadEntry, InfoType, x
  <1> HIDE DEF x
  <1>3. y \in InfoType /\ SamePeer(y, x) /\ y.fInTried = old /\ y.nRandomPos = pos
    BY <1>1, InfoTried
  <1> HIDE DEF y
  <1>4. z \in InfoType /\ SamePeer(z, y) /\ z.nRefCount = refs
        /\ z.fInTried = y.fInTried /\ z.nRandomPos = y.nRandomPos
    BY <1>3, InfoRefCount
  <1> HIDE DEF z
  <1> QED BY <1>1, <1>2, <1>3, <1>4 DEF ReadRel, SamePeer

Concat(r, p, q) ==
    /\ Len(r) = Len(p) + Len(q)
    /\ \A i \in 1..Len(p) : r[i] = p[i]
    /\ \A i \in 1..Len(q) : r[Len(p) + i] = q[i]

LEMMA Concatenated ==
    ASSUME NEW S, NEW p \in Seq(S), NEW q \in Seq(S)
    PROVE  p \o q \in Seq(S) /\ Concat(p \o q, p, q)
  BY DEF Concat

(* The new and the tried ids after peers.dat was read. *)
NewIds(f) == 0..(Len(f.new) - 1)
TriedIds(f) == Len(f.new)..(Len(f.new) + Len(f.tried) - 1)

(* r is what was read from f: the entries, and their places. *)
Loads(r, f) ==
    /\ r.nIdCount = Len(f.new) + Len(f.tried)
    /\ Entries(r) = NewIds(f) \cup TriedIds(f)
    /\ \A id \in NewIds(f) :
          ReadRel(r.mapInfo[id], f.new[id + 1], id + 1, FALSE, RefsOf(f, id + 1))
    /\ \A id \in TriedIds(f) :
          ReadRel(r.mapInfo[id], f.tried[id + 1 - Len(f.new)], id + 1, TRUE, 0)
    /\ r.vvNew = [b \in NewBucket |-> {j - 1 : j \in f.vvNew[b]}]

LoadedIn(r, f, k) == {id \in TriedIds(f) : TriedBucketOf(r, id) = k}

LEMMA IdRanges ==
    ASSUME NEW f, f \in File
    PROVE  /\ NewIds(f) \cup TriedIds(f) = 0..(Len(f.new) + Len(f.tried) - 1)
           /\ NewIds(f) \cap TriedIds(f) = {}
           /\ NewIds(f) \subseteq Nat /\ TriedIds(f) \subseteq Nat
           /\ \A id \in NewIds(f) : id + 1 \in 1..Len(f.new) /\ id + 1 - 1 = id
           /\ \A id \in TriedIds(f) : id + 1 - Len(f.new) \in 1..Len(f.tried)
           /\ \A n \in 1..Len(f.new) : n - 1 \in NewIds(f) /\ n - 1 + 1 = n
           /\ \A n \in 1..Len(f.tried) : /\ Len(f.new) + n - 1 \in TriedIds(f)
                                         /\ (Len(f.new) + n - 1) + 1 - Len(f.new) = n
           /\ \A i, j \in TriedIds(f) : i + 1 - Len(f.new) = j + 1 - Len(f.new) => i = j
           /\ \A i, j \in NewIds(f) : i + 1 = j + 1 => i = j
  <1> DEFINE n == Len(f.new)
             k == Len(f.tried)
  <1>1. n \in Nat /\ k \in Nat
    BY FileFields
  <1> HIDE DEF n, k
  <1>2. /\ 0..(n - 1) \cup n..(n + k - 1) = 0..(n + k - 1)
        /\ 0..(n - 1) \cap n..(n + k - 1) = {}
        /\ 0..(n - 1) \subseteq Nat /\ n..(n + k - 1) \subseteq Nat
        /\ \A id \in 0..(n - 1) : id + 1 \in 1..n /\ id + 1 - 1 = id
        /\ \A id \in n..(n + k - 1) : id + 1 - n \in 1..k
        /\ \A x \in 1..n : x - 1 \in 0..(n - 1) /\ x - 1 + 1 = x
        /\ \A x \in 1..k : n + x - 1 \in n..(n + k - 1) /\ (n + x - 1) + 1 - n = x
        /\ \A i, j \in n..(n + k - 1) : i + 1 - n = j + 1 - n => i = j
        /\ \A i, j \in 0..(n - 1) : i + 1 = j + 1 => i = j
    BY <1>1
  <1> QED BY <1>2 DEF NewIds, TriedIds, n, k

Unserialized(r, f) ==
    LET all == f.new \o f.tried
        N   == Len(f.new) + Len(f.tried)
    IN  /\ TableType(r) /\ Loads(r, f) /\ Concat(all, f.new, f.tried)
        /\ \A id \in 0..(N - 1) : r.mapInfo[id].addr = all[id + 1].addr
                                 /\ r.mapInfo[id].nRandomPos = id + 1
        /\ r.mapAddr = [a \in NetAddr |->
               IF \E j \in 1..N : addrOf[all[j].addr] = a
               THEN (CHOOSE j \in 1..N : addrOf[all[j].addr] = a) - 1 ELSE NoId]
        /\ r.vRandom = [j \in 1..N |-> j - 1]
        /\ r.nTried = Len(f.tried) /\ r.nNew = Len(f.new)
        /\ \A k \in TriedBucket : r.vvTried[k] = InOrder(LoadedIn(r, f, k))

LEMMA UnserializeFields ==
    ASSUME NEW f, FileInv(f)
    PROVE  Unserialized(Unserialize(f), f)
  <1> DEFINE r == Unserialize(f)
             all == f.new \o f.tried
             n == Len(f.new)
             k0 == Len(f.tried)
             N == n + k0
             refs(id) == IF id < n THEN RefsOf(f, id + 1) ELSE 0
             infos == [id \in 0..(N - 1) |-> ReadEntry(all[id + 1], id + 1, id >= n, refs(id))]
             hosts == [a \in NetAddr |->
                          IF \E j \in 1..N : addrOf[all[j].addr] = a
                          THEN (CHOOSE j \in 1..N : addrOf[all[j].addr] = a) - 1 ELSE NoId]
             list == [j \in 1..N |-> j - 1]
             ids(k) == {id \in n..(N - 1) : GetTriedBucket[all[id + 1].addr] = k}
             tables == [k \in TriedBucket |-> InOrder(ids(k))]
             buckets == [b \in NewBucket |-> {j - 1 : j \in f.vvNew[b]}]
  <1>1. f \in File /\ f.new \in Seq(StoredType) /\ f.tried \in Seq(StoredType)
        /\ n \in Nat /\ k0 \in Nat /\ N \in Nat /\ N = n + k0
        /\ NewIds(f) = 0..(n - 1) /\ TriedIds(f) = n..(N - 1)
    <2>1. f \in File
      BY DEF FileInv, FileType
    <2>2. /\ f.new \in Seq(StoredType) /\ f.tried \in Seq(StoredType)
          /\ n \in Nat /\ k0 \in Nat
      BY <2>1, FileFields
    <2>3. NewIds(f) = 0..(n - 1) /\ TriedIds(f) = n..(N - 1)
      BY DEF NewIds, TriedIds
    <2> HIDE DEF n, k0
    <2> QED BY <2>1, <2>2, <2>3
  <1>2. /\ all \in Seq(StoredType) /\ Len(all) = N /\ Concat(all, f.new, f.tried)
        /\ \A i \in 1..n : all[i] = f.new[i]
        /\ \A i \in 1..k0 : all[n + i] = f.tried[i]
    <2>1. all \in Seq(StoredType) /\ Concat(all, f.new, f.tried)
      BY <1>1, Concatenated
    <2> QED BY <2>1 DEF Concat
  <1>3. r = [nIdCount |-> N, mapInfo |-> infos, mapAddr |-> hosts, vRandom |-> list,
             nTried |-> k0, vvTried |-> tables, nNew |-> n, vvNew |-> buckets]
    <2>1. Len(all) = N
      BY <1>2
    <2> HIDE DEF N
    <2> QED BY <2>1 DEF Unserialize, ReadEntry
  <1> HIDE DEF all, n, k0, N
  <1>4. \A i \in 1..N : all[i] \in StoredType
    BY <1>2
  <1>5. \A id \in 0..(N - 1) : refs(id) \in Int /\ (id >= n) \in BOOLEAN
                               /\ id + 1 \in 1..N /\ id + 1 \in Nat
    <2> TAKE id \in 0..(N - 1)
    <2>1. id \in Nat /\ id + 1 \in 1..N
      BY <1>1
    <2>2. CASE id < n
      <3>1. id + 1 \in 1..Len(f.new)
        BY <1>1, <2>1, <2>2 DEF n
      <3>2. RefsOf(f, id + 1) \in 1..NEW_BUCKETS_PER_ADDRESS
        BY <3>1 DEF FileInv
      <3> QED BY <2>1, <2>2, <3>2, ConstantTypes
    <2>3. CASE ~ (id < n)
      BY <2>1, <2>3
    <2> QED BY <2>2, <2>3
  <1> HIDE DEF r, refs
  <1>6. \A id \in 0..(N - 1) : ReadRel(infos[id], all[id + 1], id + 1, id >= n, refs(id))
    BY <1>4, <1>5, ReadEntryFields
  <1>7. infos \in InfoMaps /\ DOMAIN infos = 0..(N - 1)
    <2>1. infos \in [0..(N - 1) -> InfoType]
      BY <1>6 DEF ReadRel
    <2>2. 0..(N - 1) \subseteq Nat
      BY <1>1
    <2> QED BY <2>1, <2>2, InfoMapsType
  <1>8. hosts \in HostMaps
    <2>1. \A a \in NetAddr : hosts[a] \in Nat \cup {NoId}
      <3> TAKE a \in NetAddr
      <3>1. CASE \E j \in 1..N : addrOf[all[j].addr] = a
        <4> DEFINE j == CHOOSE j \in 1..N : addrOf[all[j].addr] = a
        <4>1. j \in 1..N
          BY <3>1
        <4>2. hosts[a] = j - 1
          BY <3>1
        <4> HIDE DEF j, hosts
        <4> QED BY <1>1, <4>1, <4>2
      <3>2. CASE ~ \E j \in 1..N : addrOf[all[j].addr] = a
        BY <3>2
      <3> QED BY <3>1, <3>2
    <2> QED BY <2>1 DEF HostMaps
  <1>9. list \in IdLists
    BY <1>1 DEF IdLists
  <1>10. tables \in TriedTables /\ \A k \in TriedBucket : tables[k] = InOrder(ids(k))
    <2>1. \A k \in TriedBucket : InOrder(ids(k)) \in Seq(Nat)
      <3> TAKE k \in TriedBucket
      <3> DEFINE S == ids(k)
      <3>1. S \in SUBSET (n..(N - 1)) /\ S \in SUBSET Nat
        BY <1>1
      <3>2. N - 1 \in Int /\ n \in Int
        BY <1>1
      <3>3. IsFiniteSet(n..(N - 1))
        <4> DEFINE m == N - 1
        <4>1. m \in Int
          BY <1>1
        <4> HIDE DEF m
        <4>2. IsFiniteSet(n..m)
          BY <3>2, <4>1, FS_Interval
        <4> QED BY <4>2 DEF m
      <3> HIDE DEF S
      <3>4. IsFiniteSet(S)
        BY <3>1, <3>3, FS_Subset
      <3>5. InOrder(S) \in Seq(Nat)
        BY <3>1, <3>4, InOrderLists DEF Lists
      <3> QED BY <3>5 DEF S
    <2> QED BY <2>1 DEF TriedTables
  <1>11. buckets \in NewTables
    <2>1. \A b \in NewBucket : f.vvNew[b] \subseteq 1..n
      BY DEF FileInv, FileType, n
    <2>2. \A b \in NewBucket : {j - 1 : j \in f.vvNew[b]} \in SUBSET Nat
      BY <1>1, <2>1
    <2> QED BY <2>2 DEF NewTables
  <1> HIDE DEF infos, hosts, list, tables, buckets, ids
  <1>12. /\ r \in Table
         /\ r.nIdCount = N /\ r.mapInfo = infos /\ r.mapAddr = hosts /\ r.vRandom = list
         /\ r.nTried = k0 /\ r.vvTried = tables /\ r.nNew = n /\ r.vvNew = buckets
    <2>1. k0 \in Int /\ n \in Int
      BY <1>1
    <2> QED BY <1>1, <1>3, <1>7, <1>8, <1>9, <1>10, <1>11, <2>1 DEF Table
  <1>13. Entries(r) = 0..(N - 1) /\ TableType(r)
    BY <1>7, <1>12 DEF Entries, TableType
  <1>14. \A id \in NewIds(f) :
            ReadRel(r.mapInfo[id], f.new[id + 1], id + 1, FALSE, RefsOf(f, id + 1))
    <2> TAKE id \in NewIds(f)
    <2>1. id \in 0..(N - 1) /\ id + 1 \in 1..n /\ ~ (id >= n) /\ id < n
      BY <1>1
    <2>2. all[id + 1] = f.new[id + 1] /\ (id >= n) = FALSE /\ refs(id) = RefsOf(f, id + 1)
      BY <1>2, <2>1 DEF refs
    <2>3. ReadRel(infos[id], all[id + 1], id + 1, id >= n, refs(id))
      BY <1>6, <2>1
    <2> QED BY <1>12, <2>2, <2>3
  <1>15. \A id \in TriedIds(f) : /\ id \in n..(N - 1)
                                 /\ all[id + 1] = f.tried[id + 1 - n]
    <2> TAKE id \in TriedIds(f)
    <2> DEFINE j == id + 1 - n
    <2>1. id \in n..(N - 1) /\ j \in 1..k0 /\ n + j = id + 1
      BY <1>1
    <2> HIDE DEF j
    <2>2. all[id + 1] = f.tried[j]
      BY <1>2, <2>1
    <2> QED BY <2>1, <2>2 DEF j
  <1>16. \A id \in TriedIds(f) :
            ReadRel(r.mapInfo[id], f.tried[id + 1 - Len(f.new)], id + 1, TRUE, 0)
    <2> TAKE id \in TriedIds(f)
    <2>1. id \in 0..(N - 1) /\ id >= n /\ ~ (id < n)
      BY <1>1, <1>15
    <2>2. (id >= n) = TRUE /\ refs(id) = 0 /\ all[id + 1] = f.tried[id + 1 - Len(f.new)]
      BY <1>15, <2>1 DEF refs, n
    <2>3. ReadRel(infos[id], all[id + 1], id + 1, id >= n, refs(id))
      BY <1>6, <2>1
    <2> QED BY <1>12, <2>2, <2>3
  <1>17. Loads(r, f)
    <2>1. Entries(r) = NewIds(f) \cup TriedIds(f)
      <3>1. 0..(N - 1) = NewIds(f) \cup TriedIds(f)
        BY <1>1
      <3> QED BY <1>13, <3>1
    <2> QED BY <1>12, <1>14, <1>16, <2>1 DEF Loads, N, n, k0, buckets
  <1>18. \A k \in TriedBucket : r.vvTried[k] = InOrder(LoadedIn(r, f, k))
    <2> TAKE k \in TriedBucket
    <2>1. TriedIds(f) = n..(N - 1)
      BY <1>1
    <2>2. \A id \in TriedIds(f) : r.mapInfo[id].addr = all[id + 1].addr
      BY <1>15, <1>16 DEF ReadRel, n
    <2>3. LoadedIn(r, f, k) = ids(k)
      BY <2>1, <2>2 DEF LoadedIn, TriedBucketOf, ids
    <2> QED BY <1>10, <1>12, <2>3
  <1>19. \A id \in 0..(N - 1) : r.mapInfo[id].addr = all[id + 1].addr
                                  /\ r.mapInfo[id].nRandomPos = id + 1
    BY <1>6, <1>12 DEF ReadRel
  <1>20. Unserialized(r, f)
    BY <1>2, <1>12, <1>13, <1>17, <1>18, <1>19 DEF Unserialized, all, n, k0, N, hosts, list
  <1> QED BY <1>20 DEF r

LEMMA LoadedTables ==
    ASSUME NEW r, NEW f, FileInv(f), Unserialized(r, f)
    PROVE  TablesInv(r, {}) /\ r.nIdCount <= MaxId
  <1> DEFINE all == f.new \o f.tried
             n == Len(f.new)
             t == Len(f.tried)
             N == n + t
  <1>1. /\ TableType(r) /\ Loads(r, f) /\ FileType(f) /\ FileHosts(f) /\ f \in File
        /\ n \in Nat /\ t \in Nat /\ n + t <= MaxId /\ r.nIdCount = n + t
        /\ r.nTried = t /\ r.nNew = n
    <2>1. f \in File
      BY DEF FileInv, FileType
    <2>2. n \in Nat /\ t \in Nat
      BY <2>1, FileFields
    <2> QED BY <2>1, <2>2 DEF FileInv, Unserialized, Loads
  <1>2. /\ Concat(all, f.new, f.tried)
        /\ \A id \in 0..(N - 1) : r.mapInfo[id].addr = all[id + 1].addr
                                 /\ r.mapInfo[id].nRandomPos = id + 1
        /\ r.mapAddr = [a \in NetAddr |->
               IF \E j \in 1..N : addrOf[all[j].addr] = a
               THEN (CHOOSE j \in 1..N : addrOf[all[j].addr] = a) - 1 ELSE NoId]
        /\ r.vRandom = [j \in 1..N |-> j - 1]
        /\ \A k \in TriedBucket : r.vvTried[k] = InOrder(LoadedIn(r, f, k))
    BY DEF Unserialized
  <1> HIDE DEF all
  <1>3. /\ NewIds(f) = 0..(n - 1) /\ TriedIds(f) = n..(N - 1)
    BY DEF NewIds, TriedIds
  <1>4. /\ \A i \in 1..n : all[i] = f.new[i]
        /\ \A i \in 1..t : all[n + i] = f.tried[i]
    BY <1>2 DEF Concat
  <1>5. /\ \A i, j \in 1..n : addrOf[f.new[i].addr] = addrOf[f.new[j].addr] => i = j
        /\ \A i, j \in 1..t : addrOf[f.tried[i].addr] = addrOf[f.tried[j].addr] => i = j
        /\ \A i \in 1..n, j \in 1..t : addrOf[f.new[i].addr] # addrOf[f.tried[j].addr]
    BY <1>1 DEF FileHosts
  <1> HIDE DEF n, t
  <1>6. N \in Nat /\ N - 1 \in Int
    BY <1>1
  <1>7. \A i, j \in 1..N : addrOf[all[i].addr] = addrOf[all[j].addr] => i = j
    <2> SUFFICES ASSUME NEW i \in 1..N, NEW j \in 1..N,
                        addrOf[all[i].addr] = addrOf[all[j].addr]
                 PROVE  i = j
      OBVIOUS
    <2>1. i \in 1..n \/ (i - n \in 1..t /\ n + (i - n) = i)
      BY <1>1
    <2>2. j \in 1..n \/ (j - n \in 1..t /\ n + (j - n) = j)
      BY <1>1
    <2> DEFINE p == i - n
               q == j - n
    <2>3. p = q => i = j
      BY <1>1
    <2>4. (i \in 1..n \/ (p \in 1..t /\ all[i] = f.tried[p]))
          /\ (j \in 1..n \/ (q \in 1..t /\ all[j] = f.tried[q]))
      BY <1>4, <2>1, <2>2
    <2> HIDE DEF p, q
    <2>5. CASE i \in 1..n
      BY <1>4, <1>5, <2>4, <2>5
    <2>6. CASE i \notin 1..n
      BY <1>4, <1>5, <2>3, <2>4, <2>6
    <2> QED BY <2>5, <2>6
  <1>8. Entries(r) = 0..(N - 1)
    <2>1. Entries(r) = 0..(n - 1) \cup n..(N - 1)
      BY <1>1, <1>3 DEF Loads
    <2> QED BY <1>1, <2>1
  <1>9. Untried(r) = NewIds(f) /\ Tried(r) = TriedIds(f)
    <2>1. /\ \A id \in NewIds(f) : r.mapInfo[id].fInTried = FALSE
          /\ \A id \in TriedIds(f) : r.mapInfo[id].fInTried = TRUE
          /\ Entries(r) = NewIds(f) \cup TriedIds(f)
      BY <1>1 DEF Loads, ReadRel
    <2> QED BY <2>1 DEF Untried, Tried
  <1>10. /\ \A id \in NewIds(f) : id + 1 \in 1..n /\ id + 1 - 1 = id /\ id \in Nat
         /\ \A i \in 1..n : i - 1 \in NewIds(f) /\ i - 1 + 1 = i
    BY <1>1, <1>3
  <1>11. \A id \in TriedIds(f) : id + 1 - n \in 1..t /\ id \in Nat
    BY <1>1, <1>3
  <1> HIDE DEF N
  <1>12. RandomInv(r)
    <2>1. r.vRandom \in Seq(Nat) /\ Len(r.vRandom) = N /\ \A j \in 1..N : r.vRandom[j] = j - 1
      BY <1>2, <1>6
    <2>2. Cardinality(Entries(r)) = N
      BY <1>6, <1>8, Intervals
    <2>3. \A j \in 1..N : j - 1 \in 0..(N - 1) /\ j - 1 + 1 = j
      BY <1>6
    <2>4. \A id \in 0..(N - 1) : id + 1 \in 1..N /\ id + 1 - 1 = id
      BY <1>6
    <2>5. \A j \in 1..N : r.mapInfo[j - 1].nRandomPos = j
      BY <1>2, <2>3
    <2>6. \A id \in 0..(N - 1) : r.mapInfo[id].nRandomPos \in 1..N
                                 /\ r.vRandom[r.mapInfo[id].nRandomPos] = id
      <3> TAKE id \in 0..(N - 1)
      <3>1. id + 1 \in 1..N /\ r.mapInfo[id].nRandomPos = id + 1
        BY <1>2, <2>4
      <3>2. r.vRandom[id + 1] = id + 1 - 1
        BY <2>1, <3>1
      <3> QED BY <2>4, <3>1, <3>2
    <2> QED BY <1>8, <2>1, <2>2, <2>3, <2>5, <2>6 DEF RandomInv
  <1>13. AddrInv(r)
    <2> DEFINE at(a) == CHOOSE j \in 1..N : addrOf[all[j].addr] = a
    <2>1. \A a \in NetAddr : r.mapAddr[a] = IF \E j \in 1..N : addrOf[all[j].addr] = a
                                            THEN at(a) - 1 ELSE NoId
      BY <1>2
    <2>2. \A a : (\E j \in 1..N : addrOf[all[j].addr] = a)
                    => at(a) \in 1..N /\ addrOf[all[at(a)].addr] = a
      OBVIOUS
    <2> HIDE DEF at
    <2>3. \A j \in 1..N : /\ j \in Nat /\ j - 1 \in 0..(N - 1)
                          /\ r.mapInfo[j - 1].addr = all[j].addr
      <3> TAKE j \in 1..N
      <3>1. j \in Nat /\ j - 1 \in 0..(N - 1) /\ j - 1 + 1 = j
        BY <1>6
      <3> QED BY <1>2, <3>1
    <2>4. ASSUME NEW id \in Entries(r)
          PROVE  r.mapAddr[addrOf[r.mapInfo[id].addr]] = id
      <3> DEFINE j == id + 1
                 a == addrOf[r.mapInfo[id].addr]
      <3>1. j \in 1..N /\ j - 1 = id /\ a = addrOf[all[j].addr]
        BY <1>2, <1>6, <1>8
      <3>2. a \in NetAddr
        BY <1>1, PeerTypes
      <3> HIDE DEF j, a
      <3>3. at(a) = j /\ r.mapAddr[a] = at(a) - 1
        BY <1>7, <2>1, <2>2, <3>1, <3>2
      <3> QED BY <3>1, <3>3 DEF a
    <2>5. ASSUME NEW a \in NetAddr, r.mapAddr[a] # NoId
          PROVE  r.mapAddr[a] \in Entries(r) /\ addrOf[r.mapInfo[r.mapAddr[a]].addr] = a
      <3>1. r.mapAddr[a] = at(a) - 1 /\ at(a) \in 1..N /\ addrOf[all[at(a)].addr] = a
        BY <2>1, <2>2, <2>5
      <3> QED BY <1>8, <2>3, <3>1
    <2> QED BY <2>4, <2>5 DEF AddrInv
  <1>14. \A b \in NewBucket : f.vvNew[b] \subseteq 1..n /\ r.vvNew[b] = {j - 1 : j \in f.vvNew[b]}
    BY <1>1 DEF FileType, Loads, n
  <1>15. NewInv(r, {})
    <2>1. \A b \in NewBucket : r.vvNew[b] \subseteq Untried(r)
      BY <1>9, <1>10, <1>14
    <2>2. \A id \in NewIds(f), b \in NewBucket : id \in r.vvNew[b] <=> id + 1 \in f.vvNew[b]
      <3> TAKE id \in NewIds(f), b \in NewBucket
      <3>1. ASSUME id \in r.vvNew[b] PROVE id + 1 \in f.vvNew[b]
        <4>1. PICK j \in f.vvNew[b] : id = j - 1
          BY <1>14, <3>1
        <4>2. j \in 1..n
          BY <1>14
        <4>3. id + 1 = j
          BY <1>10, <4>1, <4>2
        <4> QED BY <4>3
      <3>2. ASSUME id + 1 \in f.vvNew[b] PROVE id \in r.vvNew[b]
        BY <1>10, <1>14, <3>2
      <3> QED BY <3>1, <3>2
    <2>3. \A id \in NewIds(f) : r.mapInfo[id].nRefCount = Cardinality(BucketsOf(r, id))
                                /\ r.mapInfo[id].nRefCount \in 1..NEW_BUCKETS_PER_ADDRESS
      <3> TAKE id \in NewIds(f)
      <3>1. r.mapInfo[id].nRefCount = RefsOf(f, id + 1)
        BY <1>1 DEF Loads, ReadRel
      <3>2. BucketsOf(r, id) = {b \in NewBucket : id + 1 \in f.vvNew[b]}
        BY <2>2 DEF BucketsOf
      <3>3. RefsOf(f, id + 1) = Cardinality(BucketsOf(r, id))
        BY <3>2 DEF RefsOf
      <3>4. RefsOf(f, id + 1) \in 1..NEW_BUCKETS_PER_ADDRESS
        BY <1>10 DEF FileInv, n
      <3> QED BY <3>1, <3>3, <3>4
    <2>4. \A id \in TriedIds(f) : r.mapInfo[id].nRefCount = Cardinality(BucketsOf(r, id))
      <3> TAKE id \in TriedIds(f)
      <3>1. r.mapInfo[id].nRefCount = 0
        BY <1>1 DEF Loads, ReadRel
      <3>2. BucketsOf(r, id) = {}
        BY <1>9, <2>1 DEF BucketsOf, Tried, Untried
      <3> QED BY <3>1, <3>2, FS_EmptySet
    <2>5. Entries(r) = NewIds(f) \cup TriedIds(f)
      BY <1>1 DEF Loads
    <2> QED BY <1>9, <2>1, <2>3, <2>4, <2>5 DEF NewInv
  <1>16. NewSizes(r)
    <2> SUFFICES ASSUME NEW b \in NewBucket PROVE Cardinality(r.vvNew[b]) <= NEW_BUCKET_SIZE
      BY DEF NewSizes
    <2> DEFINE S == f.vvNew[b]
               T == r.vvNew[b]
               g == [j \in S |-> j - 1]
    <2>1. S \subseteq 1..n /\ T = {j - 1 : j \in S}
      BY <1>14
    <2>2. IsFiniteSet(1..n)
      BY <1>1, Intervals
    <2> HIDE DEF S, T
    <2>3. IsFiniteSet(S)
      BY <2>1, <2>2, FS_Subset
    <2>4. OneToOne(g, S, T) /\ Onto(g, S, T)
      <3>1. \A i, j \in S : i - 1 = j - 1 => i = j
        BY <2>1
      <3>2. g \in [S -> T] /\ \A j \in S : g[j] = j - 1
        BY <2>1
      <3> HIDE DEF g
      <3>3. Onto(g, S, T)
        BY <2>1, <3>2 DEF Onto
      <3> QED BY <3>1, <3>2, <3>3 DEF OneToOne
    <2> HIDE DEF g
    <2>5. Cardinality(T) = Cardinality(S)
      BY <2>3, <2>4, Bijective
    <2>6. Cardinality(S) <= NEW_BUCKET_SIZE
      BY DEF FileInv, S
    <2> QED BY <2>5, <2>6 DEF T
  <1>17. \A k \in TriedBucket : Lists(r.vvTried[k], LoadedIn(r, f, k))
    <2> TAKE k \in TriedBucket
    <2> DEFINE S == LoadedIn(r, f, k)
    <2>1. S \in SUBSET Nat /\ S \in SUBSET Entries(r)
      BY <1>9, <1>11 DEF LoadedIn, Tried
    <2>2. IsFiniteSet(S)
      BY <1>1, <2>1, EntriesFinite
    <2> HIDE DEF S
    <2>3. Lists(InOrder(S), S)
      BY <2>1, <2>2, InOrderLists
    <2> QED BY <1>2, <2>3 DEF S
  <1>18. TriedInv(r)
    <2>1. \A k \in TriedBucket : \A p \in 1..Len(r.vvTried[k]) :
             /\ r.vvTried[k][p] \in Tried(r)
             /\ TriedBucketOf(r, r.vvTried[k][p]) = k
             /\ \A q \in 1..Len(r.vvTried[k]) : r.vvTried[k][p] = r.vvTried[k][q] => p = q
      <3> TAKE k \in TriedBucket
      <3> DEFINE list == r.vvTried[k]
      <3>1. /\ \A p \in 1..Len(list) : list[p] \in LoadedIn(r, f, k)
            /\ \A p, q \in 1..Len(list) : list[p] = list[q] => p = q
        BY <1>17 DEF Lists
      <3>2. \A id \in LoadedIn(r, f, k) : id \in Tried(r) /\ TriedBucketOf(r, id) = k
        BY <1>9 DEF LoadedIn
      <3> HIDE DEF list
      <3>3. \A p \in 1..Len(list) :
               /\ list[p] \in Tried(r) /\ TriedBucketOf(r, list[p]) = k
               /\ \A q \in 1..Len(list) : list[p] = list[q] => p = q
        BY <3>1, <3>2
      <3> QED BY <3>3 DEF list
    <2>2. \A id \in Tried(r) :
             /\ \E p \in 1..Len(r.vvTried[TriedBucketOf(r, id)]) :
                   r.vvTried[TriedBucketOf(r, id)][p] = id
             /\ r.mapInfo[id].nLastSuccess # 0
      <3> TAKE id \in Tried(r)
      <3>1. id \in Entries(r) /\ id \in TriedIds(f)
        BY <1>9 DEF Tried
      <3>2. TriedBucketOf(r, id) \in TriedBucket
        BY <1>1, <3>1, PeerTypes
      <3>3. id \in LoadedIn(r, f, TriedBucketOf(r, id))
        BY <3>1 DEF LoadedIn
      <3>4. r.mapInfo[id].nLastSuccess = f.tried[id + 1 - n].nLastSuccess
        BY <1>1, <3>1 DEF Loads, ReadRel, n
      <3>5. f.tried[id + 1 - n].nLastSuccess # 0
        BY <1>11, <3>1 DEF FileInv, t
      <3> QED BY <1>17, <3>2, <3>3, <3>4, <3>5 DEF Lists
    <2> QED BY <2>1, <2>2 DEF TriedInv
  <1>19. TriedSizes(r)
    <2> SUFFICES ASSUME NEW k \in TriedBucket PROVE Len(r.vvTried[k]) <= TRIED_BUCKET_SIZE
      BY DEF TriedSizes
    <2> DEFINE S == LoadedIn(r, f, k)
               T == TriedIn(f, k)
               g == [id \in S |-> id + 1 - n]
    <2>1. \A id \in S : id + 1 - n \in T
      <3> TAKE id \in S
      <3>1. id \in TriedIds(f) /\ TriedBucketOf(r, id) = k /\ id + 1 - n \in 1..t
        BY <1>11 DEF LoadedIn
      <3>2. r.mapInfo[id].addr = f.tried[id + 1 - n].addr
        BY <1>1, <3>1 DEF Loads, ReadRel, n
      <3> QED BY <3>1, <3>2 DEF TriedBucketOf, TriedIn, t
    <2>2. \A i, j \in S : i + 1 - n = j + 1 - n => i = j
      BY <1>1, <1>11 DEF LoadedIn
    <2>3. IsFiniteSet(T)
      <3>1. IsFiniteSet(1..t) /\ T \in SUBSET (1..t)
        BY <1>1, Intervals DEF TriedIn, t
      <3> QED BY <3>1, FS_Subset
    <2> HIDE DEF S, T
    <2>4. OneToOne(g, S, T)
      BY <2>1, <2>2 DEF OneToOne
    <2> HIDE DEF g
    <2>5. Cardinality(S) <= Cardinality(T)
      BY <2>3, <2>4, Injective
    <2>6. Len(r.vvTried[k]) = Cardinality(S) /\ Cardinality(S) \in Nat
      BY <1>17 DEF Lists, S
    <2>7. Cardinality(T) \in Nat /\ Cardinality(T) <= TRIED_BUCKET_SIZE
      BY <2>3, FS_CardinalityType DEF FileInv, T
    <2> QED BY <2>5, <2>6, <2>7, ConstantTypes
  <1>20. CountsInv(r, {})
    <2>1. Cardinality(Untried(r)) = n
      BY <1>1, <1>3, <1>9, Intervals
    <2>2. Cardinality(Tried(r)) = t
      <3>1. IsFiniteSet(Tried(r)) /\ IsFiniteSet(Untried(r))
            /\ Entries(r) = Tried(r) \cup Untried(r) /\ Tried(r) \cap Untried(r) = {}
        BY <1>1, EntriesFinite
      <3>2. Cardinality(Entries(r)) = Cardinality(Tried(r)) + Cardinality(Untried(r)) - 0
        BY <3>1, FS_Union, FS_EmptySet
      <3>3. Cardinality(Entries(r)) = n + t
        BY <1>6, <1>8, Intervals DEF N
      <3>4. Cardinality(Tried(r)) \in Nat
        BY <3>1, FS_CardinalityType
      <3> QED BY <1>1, <2>1, <3>2, <3>3, <3>4
    <2>3. Untried(r) \ {} = Untried(r)
      OBVIOUS
    <2> QED BY <1>1, <2>1, <2>2, <2>3 DEF CountsInv
  <1> QED BY <1>1, <1>12, <1>13, <1>15, <1>16, <1>18, <1>19, <1>20 DEF TablesInv

(* The file holds what a dump wrote. *)
AddrDBInv == AddrManInv /\ (peersDat # None => FileInv(peersDat))

LEMMA NextDB ==
    ASSUME AddrDBInv, [Next]_vars, UNCHANGED peersDat
    PROVE  AddrDBInv'
  BY AddrManInductive DEF AddrDBInv

LEMMA DumpInv ==
    ASSUME AddrDBInv, DumpAddresses
    PROVE  AddrDBInv'
  <1>1. busy = None /\ am' = am /\ busy' = busy /\ peersDat' = Serialize(am)
    BY DEF DumpAddresses
  <1>2. TablesInv(am, {}) /\ am.nIdCount <= MaxId
    BY <1>1, Idle DEF AddrDBInv, AddrManInv
  <1>3. AddrManInv'
    BY <1>1, <1>2, IdleNext
  <1>4. FileInv(peersDat')
    BY <1>1, <1>2, SerializeSaves, SavesInv
  <1> QED BY <1>3, <1>4 DEF AddrDBInv

LEMMA RestartInv ==
    ASSUME AddrDBInv, Restart
    PROVE  AddrDBInv'
  <1>1. busy' = None /\ peersDat' = peersDat
        /\ am' = IF peersDat = None THEN Empty ELSE Unserialize(peersDat)
    BY DEF Restart
  <1>2. TablesInv(am', {}) /\ am'.nIdCount <= MaxId
    <2>1. CASE peersDat = None
      BY <1>1, <2>1, EmptyInv, ConstantTypes
    <2>2. CASE peersDat # None
      BY <1>1, <2>2, UnserializeFields, LoadedTables DEF AddrDBInv
    <2> QED BY <2>1, <2>2
  <1>3. AddrManInv'
    BY <1>1, <1>2, IdleNext
  <1> QED BY <1>1, <1>3 DEF AddrDBInv

(* With dumps, which write a file that keeps what the tables need, and     *)
(* restarts, which rebuild the tables from it, the invariant is still      *)
(* inductive.                                                              *)
THEOREM AddrDBInductive == AddrDBInv /\ [DBNext]_dbVars => AddrDBInv'
  <1> SUFFICES ASSUME AddrDBInv, [DBNext]_dbVars PROVE AddrDBInv'
    OBVIOUS
  <1>1. CASE Next /\ UNCHANGED peersDat
    BY <1>1, NextDB
  <1>2. CASE DumpAddresses
    BY <1>2, DumpInv
  <1>3. CASE Restart
    BY <1>3, RestartInv
  <1>4. CASE UNCHANGED dbVars
    BY <1>4, NextDB DEF dbVars, vars
  <1> QED BY <1>1, <1>2, <1>3, <1>4 DEF DBNext

(* It holds in every run of the process and of those after it.             *)
THEOREM AddrDBInvariant == DBSpec => []AddrDBInv
  <1>1. DBInit => AddrDBInv
    BY InitInv DEF DBInit, AddrDBInv
  <1> QED BY <1>1, AddrDBInductive, PTL DEF DBSpec

LEMMA AddrDBGives == AddrDBInv => TypeOK /\ Check /\ BucketsBounded
  BY TypeOKHolds, CheckHolds, BucketsBoundedHolds DEF AddrDBInv

(* The same with dumps of the tables to peers.dat and restarts at any time *)
(* that read them back: every structure holds ids of entries that exist,   *)
THEOREM AddrDBTypeCorrect == DBSpec => []TypeOK
  BY AddrDBInvariant, AddrDBGives, PTL

(* Check_ succeeds at every moment, also on the tables just read,          *)
THEOREM AddrDBCheck == DBSpec => []Check
  BY AddrDBInvariant, AddrDBGives, PTL

(* and no bucket outgrows its size.                                        *)
THEOREM AddrDBBounded == DBSpec => []BucketsBounded
  BY AddrDBInvariant, AddrDBGives, PTL

-----------------------------------------------------------------------------
(* The tables that m stands for. *)

NewOf(m) ==
    [s \in Service |-> {b \in NewBucket : \E id \in m.vvNew[b] : m.mapInfo[id].addr = s}]

TriedOf(m) == {m.mapInfo[id].addr : id \in Tried(m)}

(* An address is the address of one entry. *)
LEMMA OneEntry ==
    ASSUME NEW m, AddrInv(m)
    PROVE  \A i, j \in Entries(m) :
              /\ addrOf[m.mapInfo[i].addr] = addrOf[m.mapInfo[j].addr] => i = j
              /\ m.mapInfo[i].addr = m.mapInfo[j].addr => i = j
  BY DEF AddrInv

LEMMA NewOfType ==
    ASSUME NEW m
    PROVE  /\ NewOf(m) \in [Service -> SUBSET NewBucket]
           /\ \A s \in Service, b \in NewBucket :
                 b \in NewOf(m)[s] <=> \E id \in m.vvNew[b] : m.mapInfo[id].addr = s
  BY DEF NewOf

(* The buckets of an entry are those of its address. *)
LEMMA NewOfEntry ==
    ASSUME NEW m, NEW X, TableType(m), AddrInv(m), NewInv(m, X), NEW id \in Entries(m)
    PROVE  m.mapInfo[id].addr \in Service /\ NewOf(m)[m.mapInfo[id].addr] = BucketsOf(m, id)
  <1> DEFINE s == m.mapInfo[id].addr
  <1>1. s \in Service
    BY PeerTypes
  <1>2. \A b \in NewBucket : m.vvNew[b] \subseteq Entries(m)
    BY NewBucketsTyped
  <1>3. \A b \in NewBucket : (\E j \in m.vvNew[b] : m.mapInfo[j].addr = s) <=> id \in m.vvNew[b]
    BY <1>2, OneEntry
  <1> HIDE DEF s
  <1>4. NewOf(m)[s] = {b \in NewBucket : id \in m.vvNew[b]}
    BY <1>1, <1>3 DEF NewOf
  <1> QED BY <1>1, <1>4 DEF BucketsOf, s

(* A service whose host has no entry is in no table. *)
LEMMA NewOfNone ==
    ASSUME NEW m, NEW X, TableType(m), AddrInv(m), NewInv(m, X), NEW s \in Service,
           \A id \in Entries(m) : m.mapInfo[id].addr # s
    PROVE  NewOf(m)[s] = {} /\ s \notin TriedOf(m)
  <1>1. \A b \in NewBucket : m.vvNew[b] \subseteq Entries(m)
    BY NewBucketsTyped
  <1> QED BY <1>1 DEF NewOf, TriedOf, Tried

(* Bucket b holds as many addresses as entries. *)
LEMMA HoldsCount ==
    ASSUME NEW m, NEW X, TableType(m), AddrInv(m), NewInv(m, X), NEW b \in NewBucket
    PROVE  Cardinality({s \in Service : b \in NewOf(m)[s]}) = Cardinality(m.vvNew[b])
  <1> DEFINE S == m.vvNew[b]
             T == {s \in Service : b \in NewOf(m)[s]}
             g == [id \in S |-> m.mapInfo[id].addr]
  <1>1. S \subseteq Entries(m) /\ IsFiniteSet(S)
    BY NewBucketsTyped
  <1>2. \A id \in S : m.mapInfo[id].addr \in T
    BY <1>1, PeerTypes, NewOfType
  <1>3. \A s \in T : \E id \in S : m.mapInfo[id].addr = s
    BY NewOfType
  <1>4. \A i, j \in S : m.mapInfo[i].addr = m.mapInfo[j].addr => i = j
    BY <1>1, OneEntry
  <1> HIDE DEF S, T
  <1>5. OneToOne(g, S, T) /\ Onto(g, S, T)
    BY <1>2, <1>3, <1>4 DEF OneToOne, Onto
  <1> HIDE DEF g
  <1>6. Cardinality(T) = Cardinality(S)
    BY <1>1, <1>5, Bijective
  <1> QED BY <1>6 DEF S, T

(* What InsertNew does to the buckets. *)
Inserted(m, r, id, b, v) ==
    LET full == Cardinality(m.vvNew[b]) = NEW_BUCKET_SIZE IN
    /\ full => v \in m.vvNew[b] /\ v # id
    /\ Entries(r) \subseteq Entries(m) /\ Tried(r) = Tried(m)
    /\ \A j \in Entries(r) : r.mapInfo[j].addr = m.mapInfo[j].addr
    /\ \A c \in NewBucket :
          /\ r.vvNew[c] \subseteq Entries(r)
          /\ c # b => r.vvNew[c] = m.vvNew[c]
          /\ c = b /\ full => r.vvNew[c] = (m.vvNew[c] \cup {id}) \ {v}
          /\ c = b /\ ~ full => r.vvNew[c] = m.vvNew[c] \cup {id}

LEMMA InsertBuckets ==
    ASSUME NEW m, NEW X, CoreInv(m, X), NewSizes(m), TriedSizes(m), CountsInv(m, {}),
           NEW id \in Untried(m), X \subseteq {id}, NEW b \in NewBucket,
           id \notin m.vvNew[b], m.mapInfo[id].nRefCount + 1 <= NEW_BUCKETS_PER_ADDRESS,
           NEW v \in Evictable(m, b)
    PROVE  Inserted(m, InsertNew(m, id, b, v), id, b, v)
  <1> DEFINE w == Added(m, id, b)
             r == InsertNew(m, id, b, v)
  <1>1. TableType(m) /\ RandomInv(m) /\ NewInv(m, X) /\ id \in Entries(m)
    BY DEF CoreInv, Untried
  <1>2. /\ TableType(w) /\ SameEntries(m, w)
        /\ \A j \in Entries(m) : w.mapInfo[j].fInTried = m.mapInfo[j].fInTried
        /\ w.vvNew = [m.vvNew EXCEPT ![b] = @ \cup {id}]
    BY <1>1, AddedFields
  <1>3. /\ Cardinality(m.vvNew[b]) # NEW_BUCKET_SIZE => r = w
        /\ Cardinality(m.vvNew[b]) = NEW_BUCKET_SIZE =>
              /\ v \in w.vvNew[b] /\ v # id
              /\ Shrunk(w, r, v) /\ r.vvNew = [w.vvNew EXCEPT ![b] = @ \ {v}]
    BY <1>1, InsertFields, NewBucketsTyped
  <1>4. TablesInv(r, {})
    BY InsertInv
  <1> HIDE DEF w, r
  <1>5. \A c \in NewBucket : w.vvNew[c] = IF c = b THEN m.vvNew[c] \cup {id} ELSE m.vvNew[c]
    BY <1>1, <1>2, TableFields
  <1>6. TableType(r) /\ \A c \in NewBucket : r.vvNew[c] \subseteq Entries(r)
    BY <1>4, NewBucketsTyped DEF TablesInv
  <1>7. /\ Entries(w) = Entries(m) /\ Tried(w) = Tried(m)
        /\ \A j \in Entries(m) : w.mapInfo[j].addr = m.mapInfo[j].addr
    BY <1>2 DEF SameEntries, SamePeer, Tried
  <1>8. CASE Cardinality(m.vvNew[b]) # NEW_BUCKET_SIZE
    BY <1>3, <1>5, <1>6, <1>7, <1>8 DEF Inserted, r
  <1>9. CASE Cardinality(m.vvNew[b]) = NEW_BUCKET_SIZE
    <2>1. /\ v \in w.vvNew[b] /\ v # id
          /\ Shrunk(w, r, v) /\ r.vvNew = [w.vvNew EXCEPT ![b] = @ \ {v}]
      BY <1>3, <1>9
    <2>2. \A c \in NewBucket : r.vvNew[c] = IF c = b THEN w.vvNew[c] \ {v} ELSE w.vvNew[c]
      BY <1>2, <2>1, TableFields
    <2>3. /\ Entries(r) \subseteq Entries(w)
          /\ \A j \in Entries(r) : /\ r.mapInfo[j].addr = w.mapInfo[j].addr
                                   /\ r.mapInfo[j].fInTried = w.mapInfo[j].fInTried
          /\ \A j \in Entries(w) : j # v => j \in Entries(r)
      BY <2>1 DEF Shrunk, SamePeer
    <2>4. v \in m.vvNew[b] /\ v \in Untried(w)
      <3>1. v \in m.vvNew[b]
        <4>1. w.vvNew[b] = m.vvNew[b] \cup {id}
          BY <1>5
        <4> QED BY <2>1, <4>1
      <3>2. v \in Untried(m)
        BY <1>1, <3>1 DEF NewInv
      <3> QED BY <1>2, <1>7, <3>1, <3>2 DEF Untried
    <2>5. Tried(r) = Tried(w)
      BY <2>3, <2>4 DEF Tried, Untried
    <2> QED BY <1>5, <1>6, <1>7, <1>9, <2>1, <2>2, <2>3, <2>4, <2>5 DEF Inserted, r
  <1> QED BY <1>8, <1>9

(* The tables of r are those that Learn asks for. *)
Learned(m, r, id, b) ==
    LET s == m.mapInfo[id].addr
        full == Cardinality(m.vvNew[b]) = NEW_BUCKET_SIZE
    IN  /\ TriedOf(r) = TriedOf(m)
        /\ ~ full => NewOf(r) = [NewOf(m) EXCEPT ![s] = @ \cup {b}]
        /\ full => \E out \in {x \in Service : b \in NewOf(m)[x]} :
              NewOf(r) = [NewOf(m) EXCEPT ![s] = @ \cup {b}, ![out] = @ \ {b}]

LEMMA InsertedTables ==
    ASSUME NEW m, NEW X, CoreInv(m, X), NEW r, NEW id \in Entries(m), NEW b \in NewBucket,
           NEW v, Inserted(m, r, id, b, v), id \notin m.vvNew[b]
    PROVE  Learned(m, r, id, b)
  <1> DEFINE s == m.mapInfo[id].addr
             full == Cardinality(m.vvNew[b]) = NEW_BUCKET_SIZE
             o == m.mapInfo[v].addr
  <1>1. /\ TableType(m) /\ AddrInv(m) /\ NewInv(m, X)
        /\ \A c \in NewBucket : m.vvNew[c] \subseteq Entries(m)
    BY NewBucketsTyped DEF CoreInv
  <1>2. s \in Service
    BY <1>1, PeerTypes
  <1>3. TriedOf(r) = TriedOf(m)
    <2>1. Tried(r) = Tried(m) /\ \A j \in Tried(m) : r.mapInfo[j].addr = m.mapInfo[j].addr
      BY DEF Inserted, Tried
    <2> QED BY <2>1 DEF TriedOf
  <1>4. \A x \in Service, c \in NewBucket :
           c \in NewOf(r)[x] <=> \E j \in r.vvNew[c] : m.mapInfo[j].addr = x
    <2>1. \A x \in Service, c \in NewBucket :
             c \in NewOf(r)[x] <=> \E j \in r.vvNew[c] : r.mapInfo[j].addr = x
      BY NewOfType
    <2>2. \A c \in NewBucket : \A j \in r.vvNew[c] : r.mapInfo[j].addr = m.mapInfo[j].addr
      BY DEF Inserted
    <2> QED BY <2>1, <2>2
  <1>5. \A x \in Service, c \in NewBucket :
           c \in NewOf(m)[x] <=> \E j \in m.vvNew[c] : m.mapInfo[j].addr = x
    BY NewOfType
  <1>6. /\ NewOf(r) \in [Service -> SUBSET NewBucket]
        /\ NewOf(m) \in [Service -> SUBSET NewBucket]
    BY NewOfType
  <1>7. ASSUME ~ full
        PROVE  NewOf(r) = [NewOf(m) EXCEPT ![s] = @ \cup {b}]
    <2> DEFINE N == [NewOf(m) EXCEPT ![s] = @ \cup {b}]
    <2>1. \A x \in Service, c \in NewBucket :
             c \in NewOf(r)[x] <=> c \in NewOf(m)[x] \/ (x = s /\ c = b)
      BY <1>4, <1>5, <1>7 DEF Inserted
    <2>2. \A x \in Service, c \in NewBucket :
             c \in N[x] <=> c \in NewOf(m)[x] \/ (x = s /\ c = b)
      BY <1>2, <1>6
    <2>3. N \in [Service -> SUBSET NewBucket]
      BY <1>2, <1>6
    <2> HIDE DEF N
    <2>4. \A x \in Service : NewOf(r)[x] = N[x]
      <3> TAKE x \in Service
      <3>1. NewOf(r)[x] \subseteq NewBucket /\ N[x] \subseteq NewBucket
        BY <1>6, <2>3
      <3> QED BY <2>1, <2>2, <3>1
    <2> QED BY <1>6, <2>3, <2>4 DEF N
  <1>8. ASSUME full
        PROVE  \E out \in {x \in Service : b \in NewOf(m)[x]} :
                  NewOf(r) = [NewOf(m) EXCEPT ![s] = @ \cup {b}, ![out] = @ \ {b}]
    <2> DEFINE N == [NewOf(m) EXCEPT ![s] = @ \cup {b}, ![o] = @ \ {b}]
    <2>1. v \in m.vvNew[b] /\ v \in Entries(m) /\ v # id
      BY <1>1, <1>8 DEF Inserted
    <2>2. o \in Service /\ o # s
      BY <1>1, <2>1, PeerTypes, OneEntry
    <2>3. b \in NewOf(m)[o]
      BY <1>5, <2>1, <2>2
    <2>4. \A j \in m.vvNew[b] : m.mapInfo[j].addr = o => j = v
      BY <1>1, <2>1, OneEntry
    <2>5. /\ \A c \in NewBucket : c # b => r.vvNew[c] = m.vvNew[c]
          /\ r.vvNew[b] = (m.vvNew[b] \cup {id}) \ {v}
      BY <1>8 DEF Inserted
    <2> HIDE DEF s, o, full
    <2>6. \A x \in Service, c \in NewBucket :
             c \in NewOf(r)[x] <=> (c \in NewOf(m)[x] \/ (x = s /\ c = b)) /\ ~ (x = o /\ c = b)
      <3> TAKE x \in Service, c \in NewBucket
      <3>1. CASE c # b
        BY <1>4, <1>5, <2>5, <3>1
      <3>2. CASE c = b /\ x = o
        <4>1. \A j \in r.vvNew[b] : m.mapInfo[j].addr # o
          BY <2>2, <2>4, <2>5 DEF s
        <4> QED BY <1>4, <3>2, <4>1
      <3>3. CASE c = b /\ x # o
        <4>1. (\E j \in r.vvNew[b] : m.mapInfo[j].addr = x)
                 <=> (\E j \in m.vvNew[b] : m.mapInfo[j].addr = x) \/ x = s
          BY <2>1, <2>5, <3>3 DEF s, o
        <4> QED BY <1>4, <1>5, <3>3, <4>1
      <3> QED BY <3>1, <3>2, <3>3
    <2>7. /\ N \in [Service -> SUBSET NewBucket]
          /\ \A x \in Service : N[x] = IF x = o THEN NewOf(m)[x] \ {b}
                                       ELSE IF x = s THEN NewOf(m)[x] \cup {b} ELSE NewOf(m)[x]
      BY <1>2, <1>6, <2>2
    <2> HIDE DEF N
    <2>8. \A x \in Service : NewOf(r)[x] = N[x]
      BY <1>6, <2>2, <2>6, <2>7
    <2>9. NewOf(r) = N
      BY <1>6, <2>7, <2>8
    <2> QED BY <2>2, <2>3, <2>9 DEF N
  <1> QED BY <1>3, <1>7, <1>8 DEF Learned

-----------------------------------------------------------------------------
(* Every step is one of the abstract tables, or changes none of them. *)

LEMMA AbstractCardinality == \A S : FileTable!Cardinality(S) = Cardinality(S)
  BY DEF Cardinality, FileTable!Cardinality

LEMMA TablesAre ==
    /\ newTable = NewOf(am) /\ newTable' = NewOf(am')
    /\ triedTable = TriedOf(am) /\ triedTable' = TriedOf(am')
  <1>1. newTable = NewOf(am) /\ newTable' = NewOf(am')
    BY DEF newTable, NewOf
  <1>2. triedTable = TriedOf(am) /\ triedTable' = TriedOf(am')
    BY DEF triedTable, TriedOf, Tried, Ids, Entries
  <1> QED BY <1>1, <1>2

LEMMA IdleTables ==
    /\ busy = None => movingTable = {}
    /\ busy' = None => movingTable' = {}
    /\ peersDat' = peersDat => FileTables' = FileTables
  BY DEF movingTable, Selecting, FileTables

LEMMA LearnStep ==
    ASSUME NEW m, NEW X, CoreInv(m, X), NewSizes(m), TriedSizes(m), CountsInv(m, {}),
           NEW id \in Untried(m), X \subseteq {id}, NEW b \in NewBucket,
           id \notin m.vvNew[b], m.mapInfo[id].nRefCount + 1 <= NEW_BUCKETS_PER_ADDRESS,
           NEW v \in Evictable(m, b), am' = InsertNew(m, id, b, v),
           NewOf(m) = NewOf(am), TriedOf(m) = TriedOf(am),
           busy = None, busy' = None, peersDat' = peersDat
    PROVE  FileTable!Next
  <1> DEFINE s == m.mapInfo[id].addr
             full == Cardinality(m.vvNew[b]) = NEW_BUCKET_SIZE
  <1>1. /\ TableType(m) /\ AddrInv(m) /\ NewInv(m, X) /\ id \in Entries(m)
        /\ m.mapInfo[id].nRefCount \in Nat
    BY NewBucketsTyped DEF CoreInv, Untried
  <1>2. s \in Service /\ NewOf(m)[s] = BucketsOf(m, id)
    BY <1>1, NewOfEntry
  <1>3. Inserted(m, am', id, b, v)
    BY InsertBuckets
  <1>4. /\ TriedOf(am') = TriedOf(m)
        /\ ~ full => NewOf(am') = [NewOf(m) EXCEPT ![s] = @ \cup {b}]
        /\ full => \E out \in {x \in Service : b \in NewOf(m)[x]} :
              NewOf(am') = [NewOf(m) EXCEPT ![s] = @ \cup {b}, ![out] = @ \ {b}]
    <2>1. Learned(m, am', id, b)
      BY <1>1, <1>3, InsertedTables
    <2> QED BY <2>1 DEF Learned
  <1>5. s \notin TriedOf(m)
    BY <1>1, OneEntry DEF TriedOf, Tried, Untried
  <1>6. ASSUME NEW r \in Service \ {s}, addrOf[r] = addrOf[s]
        PROVE  NewOf(m)[r] = {} /\ r \notin TriedOf(m)
    <2>1. \A j \in Entries(m) : m.mapInfo[j].addr # r
      BY <1>1, <1>6, OneEntry
    <2> QED BY <1>1, <2>1, NewOfNone
  <1>7. Cardinality(NewOf(m)[s]) < NEW_BUCKETS_PER_ADDRESS
    <2>1. Cardinality(NewOf(m)[s]) = m.mapInfo[id].nRefCount
      BY <1>1, <1>2 DEF NewInv
    <2> QED BY <1>1, <2>1, ConstantTypes
  <1>8. b \notin NewOf(m)[s]
    BY <1>2 DEF BucketsOf
  <1>9. Cardinality({x \in Service : b \in NewOf(m)[x]}) < NEW_BUCKET_SIZE <=> ~ full
    <2>1. Cardinality({x \in Service : b \in NewOf(m)[x]}) = Cardinality(m.vvNew[b])
      BY <1>1, HoldsCount
    <2>2. Cardinality(m.vvNew[b]) \in Nat /\ Cardinality(m.vvNew[b]) <= NEW_BUCKET_SIZE
      BY <1>1, NewBucketsTyped DEF NewSizes
    <2> QED BY <2>1, <2>2, ConstantTypes
  <1>10. /\ newTable = NewOf(m) /\ newTable' = NewOf(am')
         /\ triedTable = TriedOf(m) /\ triedTable' = TriedOf(m)
         /\ movingTable = {} /\ movingTable' = {} /\ FileTables' = FileTables
    BY <1>4, TablesAre, IdleTables
  <1> HIDE DEF s, full
  <1>11. FileTable!Holds(newTable, b) = {x \in Service : b \in NewOf(m)[x]}
    BY <1>10 DEF FileTable!Holds
  <1>12. \A r \in Service \ {s} : SameHost(r, s) => ~ FileTable!Known(r)
    BY <1>6, <1>10 DEF SameHost, FileTable!Known
  <1>13. FileTable!Cardinality(newTable[s]) < NEW_BUCKETS_PER_ADDRESS
    BY <1>7, <1>10, AbstractCardinality
  <1>14. FileTable!Cardinality(FileTable!Holds(newTable, b)) < NEW_BUCKET_SIZE <=> ~ full
    BY <1>9, <1>11, AbstractCardinality
  <1>15. s \notin triedTable \cup movingTable /\ b \notin newTable[s]
    BY <1>5, <1>8, <1>10
  <1>16. IF FileTable!Cardinality(FileTable!Holds(newTable, b)) < NEW_BUCKET_SIZE
         THEN newTable' = [newTable EXCEPT ![s] = @ \cup {b}]
         ELSE \E out \in FileTable!Holds(newTable, b) :
                 newTable' = [newTable EXCEPT ![s] = @ \cup {b}, ![out] = @ \ {b}]
    <2>1. CASE full
      BY <1>4, <1>10, <1>11, <1>14, <2>1
    <2>2. CASE ~ full
      BY <1>4, <1>10, <1>14, <2>2
    <2> QED BY <2>1, <2>2
  <1>17. FileTable!Learn(s, b)
    BY <1>10, <1>12, <1>13, <1>15, <1>16 DEF FileTable!Learn
  <1> QED BY <1>2, <1>17 DEF FileTable!Next

(* The same tables, whatever the other entries are. *)
LEMMA SameTables ==
    ASSUME NEW m, NEW r, Tried(r) = Tried(m),
           \A b \in NewBucket : r.vvNew[b] = m.vvNew[b] /\ m.vvNew[b] \subseteq Entries(m),
           \A j \in Entries(m) : r.mapInfo[j].addr = m.mapInfo[j].addr
    PROVE  NewOf(r) = NewOf(m) /\ TriedOf(r) = TriedOf(m)
  <1>1. \A b \in NewBucket : \A s \in Service :
           (\E id \in r.vvNew[b] : r.mapInfo[id].addr = s)
              <=> (\E id \in m.vvNew[b] : m.mapInfo[id].addr = s)
    OBVIOUS
  <1>2. NewOf(r) = NewOf(m)
    BY <1>1 DEF NewOf
  <1>3. \A j \in Tried(m) : r.mapInfo[j].addr = m.mapInfo[j].addr
    BY DEF Tried
  <1>4. TriedOf(r) = TriedOf(m)
    BY <1>3 DEF TriedOf
  <1> QED BY <1>2, <1>4

(* A new entry is in neither table. *)
LEMMA CreateTables ==
    ASSUME NEW m, TablesInv(m, {}), NEW s \in Service, NEW src \in Source,
           Find(m, s) = NoId
    PROVE  LET r == [Create(m, s, src) EXCEPT !.nNew = @ + 1] IN
           NewOf(r) = NewOf(m) /\ TriedOf(r) = TriedOf(m)
  <1> DEFINE r == [Create(m, s, src) EXCEPT !.nNew = @ + 1]
             new == m.nIdCount
  <1>1. TableType(m) /\ NewInv(m, {})
    BY DEF TablesInv
  <1>2. /\ TableType(r)
        /\ Entries(r) = Entries(m) \cup {new}
        /\ r.nIdCount = m.nIdCount + 1
        /\ r.mapInfo[new] = Info(s, src, Len(m.vRandom) + 1)
        /\ \A id \in Entries(m) : r.mapInfo[id] = m.mapInfo[id]
        /\ r.mapAddr = [m.mapAddr EXCEPT ![addrOf[s]] = new]
        /\ r.vRandom = Append(m.vRandom, new)
        /\ r.nTried = m.nTried /\ r.vvTried = m.vvTried
        /\ r.nNew = m.nNew + 1 /\ r.vvNew = m.vvNew
    BY <1>1, CreateFields
  <1> HIDE DEF r
  <1>3. ~ r.mapInfo[new].fInTried /\ new \notin Entries(m)
    BY <1>1, <1>2, TableFields DEF Info
  <1>4. Tried(r) = Tried(m)
    BY <1>2, <1>3 DEF Tried
  <1>5. \A b \in NewBucket : r.vvNew[b] = m.vvNew[b] /\ m.vvNew[b] \subseteq Entries(m)
    BY <1>1, <1>2, NewBucketsTyped
  <1>6. \A j \in Entries(m) : r.mapInfo[j].addr = m.mapInfo[j].addr
    BY <1>2
  <1> QED BY <1>4, <1>5, <1>6, SameTables DEF r

LEMMA AddUnknownStep ==
    ASSUME AddrDBInv, NEW s \in Service, NEW src \in Source, AddUnknown(s, src),
           peersDat' = peersDat
    PROVE  FileTable!Next
  <1> DEFINE b == GetNewBucket[<<addrOf[s], src>>]
             m == [Create(am, s, src) EXCEPT !.nNew = @ + 1]
             new == am.nIdCount
  <1>1. PICK v \in Evictable(am, b) : am' = InsertNew(m, new, b, v)
    BY DEF AddUnknown
  <1>2. busy = None /\ busy' = None /\ Find(am, s) = NoId
    BY DEF AddUnknown
  <1>3. TablesInv(am, {})
    BY <1>2, Idle DEF AddrDBInv
  <1>4. b \in NewBucket
    BY NewBucketOf
  <1>5. /\ CoreInv(m, {new}) /\ NewSizes(m) /\ TriedSizes(m) /\ CountsInv(m, {})
        /\ new \in Untried(m) /\ m.mapInfo[new].nRefCount = 0
        /\ m.vvNew = am.vvNew /\ \A c \in NewBucket : new \notin m.vvNew[c]
    BY <1>2, <1>3, CreateInv
  <1>6. NewOf(m) = NewOf(am) /\ TriedOf(m) = TriedOf(am)
    BY <1>2, <1>3, CreateTables
  <1> HIDE DEF m, b, new
  <1>7. v \in Evictable(m, b) /\ m.mapInfo[new].nRefCount + 1 <= NEW_BUCKETS_PER_ADDRESS
        /\ new \notin m.vvNew[b]
    BY <1>1, <1>4, <1>5, ConstantTypes DEF Evictable
  <1>8. {new} \subseteq {new}
    OBVIOUS
  <1> QED BY <1>1, <1>2, <1>4, <1>5, <1>6, <1>7, <1>8, LearnStep

LEMMA AddKnownStep ==
    ASSUME AddrDBInv, NEW s \in Service, NEW src \in Source, AddKnown(s, src),
           peersDat' = peersDat
    PROVE  FileTable!Next
  <1> DEFINE b == GetNewBucket[<<addrOf[s], src>>]
             id == Find(am, s)
  <1>1. PICK v \in Evictable(am, b) : am' = InsertNew(am, id, b, v)
    BY DEF AddKnown
  <1>2. busy = None /\ busy' = None /\ id # NoId /\ MayMultiply(id) /\ id \notin am.vvNew[b]
    BY DEF AddKnown
  <1>3. TablesInv(am, {})
    BY <1>2, Idle DEF AddrDBInv
  <1>4. b \in NewBucket
    BY NewBucketOf
  <1>5. id \in Untried(am)
    BY <1>2, <1>3, Found DEF Untried, MayMultiply
  <1> HIDE DEF b, id
  <1>6. CoreInv(am, {}) /\ NewSizes(am) /\ TriedSizes(am) /\ CountsInv(am, {})
    BY <1>3 DEF TablesInv, CoreInv
  <1>7. am.mapInfo[id].nRefCount + 1 <= NEW_BUCKETS_PER_ADDRESS
    <2>1. am.mapInfo[id].nRefCount \in 1..NEW_BUCKETS_PER_ADDRESS
      BY <1>5, <1>6 DEF CoreInv, NewInv
    <2> QED BY <1>2, <2>1, ConstantTypes DEF MayMultiply
  <1>8. {} \subseteq {id}
    OBVIOUS
  <1> QED BY <1>1, <1>2, <1>4, <1>5, <1>6, <1>7, <1>8, LearnStep

(* A step that leaves both tables as they are. *)
LEMMA TablesStutter ==
    ASSUME NEW X, TableType(am), NewInv(am, X), Entries(am') = Entries(am),
           \A j \in Entries(am) : am'.mapInfo[j].addr = am.mapInfo[j].addr
                                  /\ am'.mapInfo[j].fInTried = am.mapInfo[j].fInTried,
           am'.vvNew = am.vvNew, movingTable' = movingTable, peersDat' = peersDat
    PROVE  UNCHANGED FileTable!vars
  <1>1. Tried(am') = Tried(am)
    BY DEF Tried
  <1>2. \A b \in NewBucket : am'.vvNew[b] = am.vvNew[b] /\ am.vvNew[b] \subseteq Entries(am)
    BY NewBucketsTyped
  <1>3. NewOf(am') = NewOf(am) /\ TriedOf(am') = TriedOf(am)
    BY <1>1, <1>2, SameTables
  <1> QED BY <1>3, TablesAre, IdleTables DEF FileTable!vars

LEMMA GoodTriedStep ==
    ASSUME AddrDBInv, NEW s \in Service, NEW t \in Time, GoodTried(s, t), peersDat' = peersDat
    PROVE  UNCHANGED FileTable!vars
  <1> DEFINE id == Find(am, s)
             u == [am EXCEPT !.mapInfo[id].nLastSuccess = t]
  <1>1. busy = None /\ busy' = None /\ id # NoId /\ am' = u
    BY DEF GoodTried, IsKnown, Touched
  <1>2. TablesInv(am, {})
    BY <1>1, Idle DEF AddrDBInv
  <1>3. id \in Entries(am)
    BY <1>1, <1>2, Found
  <1> HIDE DEF id
  <1>4. /\ Entries(u) = Entries(am) /\ u.vvNew = am.vvNew
        /\ \A j \in Entries(am) : SamePlaces(u.mapInfo[j], am.mapInfo[j])
                                  /\ u.mapInfo[j].addr = am.mapInfo[j].addr
    <2>1. u = [am EXCEPT !.mapInfo[id].nLastSuccess = t]
      OBVIOUS
    <2> HIDE DEF u
    <2> QED BY <1>2, <1>3, <2>1, TouchInv
  <1> HIDE DEF u
  <1>5. movingTable' = movingTable
    BY <1>1, IdleTables
  <1>6. TableType(am) /\ NewInv(am, {})
    BY <1>2 DEF TablesInv
  <1>7. \A j \in Entries(am) : am'.mapInfo[j].addr = am.mapInfo[j].addr
                               /\ am'.mapInfo[j].fInTried = am.mapInfo[j].fInTried
    BY <1>1, <1>4 DEF SamePlaces
  <1> QED BY <1>1, <1>4, <1>5, <1>6, <1>7, TablesStutter

(* An entry that leaves all new buckets. *)
LEMMA LeftTables ==
    ASSUME NEW m, NEW r, TableType(m), AddrInv(m), NewInv(m, {}), NEW id \in Untried(m),
           Entries(r) = Entries(m),
           \A j \in Entries(m) : r.mapInfo[j].addr = m.mapInfo[j].addr,
           \A b \in NewBucket : r.vvNew[b] = m.vvNew[b] \ {id}
    PROVE  LET s == m.mapInfo[id].addr IN
           s \in Service /\ NewOf(m)[s] # {} /\ NewOf(r) = [NewOf(m) EXCEPT ![s] = {}]
  <1> DEFINE s == m.mapInfo[id].addr
             N == [NewOf(m) EXCEPT ![s] = {}]
  <1>1. id \in Entries(m)
    BY DEF Untried
  <1>2. s \in Service /\ NewOf(m)[s] = BucketsOf(m, id)
    BY <1>1, NewOfEntry
  <1>3. BucketsOf(m, id) # {}
    <2>1. m.mapInfo[id].nRefCount = Cardinality(BucketsOf(m, id)) /\ m.mapInfo[id].nRefCount # 0
      BY <1>1, ConstantTypes DEF NewInv
    <2> QED BY <2>1, FS_EmptySet
  <1>4. \A b \in NewBucket : m.vvNew[b] \subseteq Entries(m)
    BY NewBucketsTyped
  <1>5. /\ NewOf(r) \in [Service -> SUBSET NewBucket]
        /\ NewOf(m) \in [Service -> SUBSET NewBucket]
        /\ \A x \in Service, b \in NewBucket :
              b \in NewOf(r)[x] <=> \E j \in r.vvNew[b] : r.mapInfo[j].addr = x
        /\ \A x \in Service, b \in NewBucket :
              b \in NewOf(m)[x] <=> \E j \in m.vvNew[b] : m.mapInfo[j].addr = x
    BY NewOfType
  <1>6. \A x \in Service, b \in NewBucket :
           b \in NewOf(r)[x] <=> b \in NewOf(m)[x] /\ x # s
    <2> TAKE x \in Service, b \in NewBucket
    <2>1. (\E j \in r.vvNew[b] : r.mapInfo[j].addr = x)
             <=> (\E j \in m.vvNew[b] : j # id /\ m.mapInfo[j].addr = x)
      BY <1>4
    <2>2. (\E j \in m.vvNew[b] : j # id /\ m.mapInfo[j].addr = x)
             <=> (\E j \in m.vvNew[b] : m.mapInfo[j].addr = x) /\ x # s
      BY <1>1, <1>4, OneEntry
    <2> HIDE DEF s
    <2> QED BY <1>5, <2>1, <2>2
  <1> HIDE DEF s
  <1>7. /\ N \in [Service -> SUBSET NewBucket]
        /\ \A x \in Service : N[x] = IF x = s THEN {} ELSE NewOf(m)[x]
    BY <1>2, <1>5
  <1> HIDE DEF N
  <1>8. \A x \in Service : NewOf(r)[x] = N[x]
    <2> TAKE x \in Service
    <2>1. NewOf(r)[x] \subseteq NewBucket /\ NewOf(m)[x] \subseteq NewBucket
      BY <1>5
    <2> QED BY <1>6, <1>7, <2>1
  <1>9. NewOf(r) = N
    BY <1>5, <1>7, <1>8
  <1> QED BY <1>2, <1>3, <1>9 DEF N, s

(* What GoodRoom and GoodFull have in common, as tables. *)
LEMMA GoodLeft ==
    ASSUME AddrManInv, NEW s \in Service, NEW t \in Time, busy = None, IsKnown(s),
           ~ am.mapInfo[Find(am, s)].fInTried
    PROVE  LET m == LeaveNew(Touched(s, t), Find(am, s)) IN
           /\ NewOf(am)[s] # {} /\ NewOf(m) = [NewOf(am) EXCEPT ![s] = {}]
           /\ TriedOf(m) = TriedOf(am)
  <1> DEFINE id == Find(am, s)
             m == LeaveNew(Touched(s, t), id)
  <1>1. TablesInv(am, {}) /\ am.mapInfo[id].addr = s
    BY Idle DEF IsKnown
  <1>2. TableType(am) /\ AddrInv(am) /\ NewInv(am, {})
    BY <1>1 DEF TablesInv
  <1>3. /\ TablesInv(m, {id}) /\ id \in Untried(am)
        /\ Entries(m) = Entries(am) /\ m.nIdCount = am.nIdCount
        /\ \A j \in Entries(am) : m.mapInfo[j].addr = am.mapInfo[j].addr
                                  /\ m.mapInfo[j].fInTried = am.mapInfo[j].fInTried
        /\ m.mapInfo[id].nLastSuccess # 0
        /\ TriedBucketOf(m, id) = GetTriedBucket[s]
        /\ m.vvTried = am.vvTried
        /\ \A b \in BucketsOf(am, id) : Cardinality(m.vvNew[b]) < NEW_BUCKET_SIZE
        /\ \A b \in NewBucket : m.vvNew[b] = am.vvNew[b] \ {id}
    BY GoodLeaves
  <1> HIDE DEF m, id
  <1>4. NewOf(am)[s] # {} /\ NewOf(m) = [NewOf(am) EXCEPT ![s] = {}]
    BY <1>1, <1>2, <1>3, LeftTables
  <1>5. Tried(m) = Tried(am) /\ \A j \in Tried(am) : m.mapInfo[j].addr = am.mapInfo[j].addr
    BY <1>3 DEF Tried
  <1>6. TriedOf(m) = TriedOf(am)
    BY <1>5 DEF TriedOf
  <1> QED BY <1>4, <1>6 DEF m, id

LEMMA GoodRoomStep ==
    ASSUME AddrDBInv, NEW s \in Service, NEW t \in Time, GoodRoom(s, t), peersDat' = peersDat
    PROVE  FileTable!Next
  <1> DEFINE id == Find(am, s)
             k == GetTriedBucket[s]
             m == LeaveNew(Touched(s, t), id)
  <1>1. /\ busy = None /\ busy' = None /\ IsKnown(s) /\ ~ am.mapInfo[id].fInTried
        /\ am' = [m EXCEPT !.vvTried[k] = Append(@, id), !.nTried = @ + 1,
                           !.mapInfo[id].fInTried = TRUE]
        /\ Len(am.vvTried[k]) < TRIED_BUCKET_SIZE /\ AddrManInv
    BY DEF GoodRoom, AddrDBInv
  <1>2. /\ TablesInv(m, {id}) /\ id \in Untried(am)
        /\ Entries(m) = Entries(am) /\ m.nIdCount = am.nIdCount
        /\ \A j \in Entries(am) : m.mapInfo[j].addr = am.mapInfo[j].addr
                                  /\ m.mapInfo[j].fInTried = am.mapInfo[j].fInTried
        /\ m.mapInfo[id].nLastSuccess # 0
        /\ TriedBucketOf(m, id) = k
        /\ m.vvTried = am.vvTried
        /\ \A b \in BucketsOf(am, id) : Cardinality(m.vvNew[b]) < NEW_BUCKET_SIZE
        /\ \A b \in NewBucket : m.vvNew[b] = am.vvNew[b] \ {id}
    BY <1>1, GoodLeaves
  <1>3. /\ NewOf(am)[s] # {} /\ NewOf(m) = [NewOf(am) EXCEPT ![s] = {}]
        /\ TriedOf(m) = TriedOf(am)
    BY <1>1, GoodLeft
  <1>4. k \in TriedBucket /\ am.mapInfo[id].addr = s
    BY <1>1, ConstantTypes DEF IsKnown
  <1> HIDE DEF id, k, m
  <1>5. /\ SameEntries(m, am') /\ Tried(am') = Tried(m) \cup {id}
        /\ am'.vvNew = m.vvNew /\ TablesInv(am', {})
    <2>1. am' = PlaceTried(m, id, k)
      BY <1>1 DEF PlaceTried
    <2>2. TablesInv(m, {id}) /\ k = TriedBucketOf(m, id) /\ m.mapInfo[id].nLastSuccess # 0
          /\ Len(m.vvTried[k]) < TRIED_BUCKET_SIZE
      BY <1>1, <1>2
    <2>3. Placed(m, PlaceTried(m, id, k), id)
      BY <1>4, <2>2, PlaceTriedInv
    <2> QED BY <2>1, <2>3 DEF Placed
  <1>6. /\ id \in Entries(m) /\ m.mapInfo[id].addr = s
        /\ \A j \in Entries(m) : am'.mapInfo[j].addr = m.mapInfo[j].addr
        /\ \A b \in NewBucket : m.vvNew[b] \subseteq Entries(m)
    <2>1. id \in Entries(m) /\ m.mapInfo[id].addr = s
      BY <1>2, <1>4 DEF Untried
    <2>2. \A j \in Entries(m) : am'.mapInfo[j].addr = m.mapInfo[j].addr
      BY <1>5 DEF SameEntries, SamePeer
    <2>3. TableType(m) /\ NewInv(m, {id})
      BY <1>2 DEF TablesInv
    <2>4. \A b \in NewBucket : m.vvNew[b] \subseteq Entries(m)
      BY <2>3, NewBucketsTyped
    <2> QED BY <2>1, <2>2, <2>4
  <1>7. NewOf(am') = NewOf(m)
    BY <1>5, <1>6 DEF NewOf
  <1>8. TriedOf(am') = TriedOf(m) \cup {s}
    BY <1>5, <1>6 DEF TriedOf, Tried
  <1>9. movingTable = {} /\ movingTable' = {} /\ FileTables' = FileTables
    BY <1>1, IdleTables
  <1>10. FileTable!Promote(s)
    BY <1>3, <1>7, <1>8, <1>9, TablesAre DEF FileTable!Promote
  <1> QED BY <1>10 DEF FileTable!Next

LEMMA GoodFullStep ==
    ASSUME AddrDBInv, NEW s \in Service, NEW t \in Time, GoodFull(s, t), peersDat' = peersDat
    PROVE  FileTable!Next
  <1> DEFINE id == Find(am, s)
             m == LeaveNew(Touched(s, t), id)
  <1>1. /\ busy = None /\ IsKnown(s) /\ ~ am.mapInfo[id].fInTried /\ am' = m /\ AddrManInv
        /\ busy'.op = "SelectTried" /\ busy'.nId = id
    BY DEF GoodFull, AddrDBInv
  <1>2. id \in Entries(am) /\ am.mapInfo[id].addr = s /\ am'.mapInfo[id].addr = s
    <2>1. /\ TablesInv(m, {id}) /\ id \in Untried(am)
          /\ \A j \in Entries(am) : m.mapInfo[j].addr = am.mapInfo[j].addr
      BY <1>1, GoodLeaves
    <2> QED BY <1>1, <2>1 DEF IsKnown, Untried
  <1>3. /\ NewOf(am)[s] # {} /\ NewOf(m) = [NewOf(am) EXCEPT ![s] = {}]
        /\ TriedOf(m) = TriedOf(am)
    BY <1>1, GoodLeft
  <1>4. Selecting'
    BY <1>1, GoodFullInv
  <1> HIDE DEF id, m
  <1>5. movingTable = {} /\ movingTable' = {s} /\ FileTables' = FileTables
    <2>1. movingTable' = {am'.mapInfo[busy'.nId].addr}
      BY <1>4 DEF movingTable
    <2> QED BY <1>1, <1>2, <2>1, IdleTables
  <1>6. FileTable!StartPromote(s)
    BY <1>1, <1>3, <1>5, TablesAre DEF FileTable!StartPromote
  <1> QED BY <1>6 DEF FileTable!Next

LEMMA InspectTriedStep ==
    ASSUME AddrDBInv, InspectTried, peersDat' = peersDat
    PROVE  UNCHANGED FileTable!vars
  <1> DEFINE k == busy.nKBucket
             i == busy.i
             len == Len(am.vvTried[k])
  <1>1. Selecting /\ ~ InspectionDone /\ AddrManInv
    BY DEF InspectTried, AddrDBInv
  <1>2. PICK n \in i..len : SelectTried(n)
    BY DEF InspectTried
  <1>3. /\ TablesInv(am, {busy.nId}) /\ busy.nId \in Entries(am) /\ k \in TriedBucket
        /\ len \in Nat \ {0} /\ i \in Nat \ {0}
    BY <1>1, SelectingFacts
  <1>4. i \in 1..len /\ n \in 1..len
    BY <1>1, <1>2, <1>3, ConstantTypes DEF InspectionDone
  <1>5. Entries(am') = Entries(am) /\ am'.mapInfo = am.mapInfo /\ am'.vvNew = am.vvNew
    <2> DEFINE r == SwapTried(am, k, i, n)
    <2>1. Reordered(am, r, {busy.nId})
      <3>1. TablesInv(am, {busy.nId}) /\ k \in TriedBucket
        BY <1>3
      <3>2. i \in 1..Len(am.vvTried[k]) /\ n \in 1..Len(am.vvTried[k])
        BY <1>4
      <3> HIDE DEF k, i
      <3> QED BY <3>1, <3>2, ShuffleTriedInv
    <2>2. am' = r
      BY <1>2 DEF SelectTried, SwapTried
    <2> HIDE DEF r
    <2> QED BY <2>1, <2>2 DEF Reordered
  <1>6. Selecting' /\ busy'.nId = busy.nId
    BY <1>1, InspectTriedInv
  <1>7. movingTable' = movingTable
    BY <1>1, <1>5, <1>6 DEF movingTable
  <1>8. TableType(am) /\ NewInv(am, {busy.nId})
    BY <1>3 DEF TablesInv
  <1> QED BY <1>5, <1>7, <1>8, TablesStutter

LEMMA EvictStep ==
    ASSUME AddrDBInv, Evict, peersDat' = peersDat
    PROVE  FileTable!Next
  <1> DEFINE k == busy.nKBucket
             id == busy.nId
             p == busy.nOldestPos
             old == am.vvTried[k][p]
             b == Returned(old)
             s == am.mapInfo[id].addr
             o == am.mapInfo[old].addr
  <1>1. Selecting /\ InspectionDone /\ busy' = None /\ AddrManInv
    BY DEF Evict, AddrDBInv
  <1>2. am' = Evicted(am, id, k, p, b)
    BY DEF Evict, Evicted
  <1>3. /\ TablesInv(am, {id}) /\ id \in Entries(am)
        /\ k \in TriedBucket /\ k = TriedBucketOf(am, id) /\ busy.nOrigin \in NewBucket
        /\ am.mapInfo[id].nLastSuccess # 0
        /\ Cardinality(am.vvNew[busy.nOrigin]) < NEW_BUCKET_SIZE
        /\ Len(am.vvTried[k]) \in Nat \ {0} /\ busy.i \in Nat \ {0}
        /\ busy.i > 1 => p \in 1..Len(am.vvTried[k])
    BY <1>1, SelectingFacts
  <1>4. p \in 1..Len(am.vvTried[k])
    BY <1>1, <1>3, ConstantTypes DEF InspectionDone
  <1>5. b \in NewBucket /\ Cardinality(am.vvNew[b]) < NEW_BUCKET_SIZE
    BY <1>1, <1>4, ReturnedRoom
  <1>6. movingTable = {s}
    BY <1>1 DEF movingTable
  <1> HIDE DEF k, id, p, b
  <1>7. /\ TablesInv(am', {}) /\ SameEntries(am, am')
        /\ old \in Tried(am) /\ Tried(am') = (Tried(am) \ {old}) \cup {id}
        /\ \A c \in NewBucket :
              am'.vvNew[c] = IF c = b THEN am.vvNew[c] \cup {old} ELSE am.vvNew[c]
        /\ \A c \in NewBucket : old \notin am.vvNew[c]
    <2>1. Exchanged(am, am', id, am.vvTried[k][p], b)
      BY <1>2, <1>3, <1>4, <1>5, EvictedInv
    <2> QED BY <2>1 DEF Exchanged
  <1> HIDE DEF old
  <1>8. /\ TableType(am) /\ AddrInv(am) /\ NewInv(am, {id}) /\ old \in Entries(am)
        /\ \A c \in NewBucket : am.vvNew[c] \subseteq Entries(am)
        /\ \A j \in Entries(am) : am'.mapInfo[j].addr = am.mapInfo[j].addr
    <2>1. TableType(am) /\ AddrInv(am) /\ NewInv(am, {id})
      BY <1>3 DEF TablesInv
    <2>2. old \in Entries(am)
      BY <1>7 DEF Tried
    <2>3. \A j \in Entries(am) : am'.mapInfo[j].addr = am.mapInfo[j].addr
      BY <1>7 DEF SameEntries, SamePeer
    <2> QED BY <2>1, <2>2, <2>3, NewBucketsTyped
  <1>9. s \in Service /\ o \in Service
    BY <1>3, <1>8, PeerTypes
  <1>10. \A j \in Entries(am) : am.mapInfo[j].addr = o => j = old
    BY <1>8, OneEntry
  <1>11. o \in TriedOf(am)
    BY <1>7 DEF TriedOf
  <1>12. TriedOf(am') = (TriedOf(am) \ {o}) \cup {s}
    <2>1. \A j \in Tried(am) : am'.mapInfo[j].addr = am.mapInfo[j].addr
                               /\ (am.mapInfo[j].addr = o <=> j = old)
      BY <1>8, <1>10 DEF Tried
    <2>2. am'.mapInfo[id].addr = s
      BY <1>3, <1>8
    <2> HIDE DEF s, o
    <2> QED BY <1>7, <2>1, <2>2 DEF TriedOf
  <1>13. NewOf(am') = [NewOf(am) EXCEPT ![o] = {b}]
    <2> DEFINE N == [NewOf(am) EXCEPT ![o] = {b}]
    <2>1. /\ NewOf(am') \in [Service -> SUBSET NewBucket]
          /\ NewOf(am) \in [Service -> SUBSET NewBucket]
          /\ \A x \in Service, c \in NewBucket :
                c \in NewOf(am')[x] <=> \E j \in am'.vvNew[c] : am'.mapInfo[j].addr = x
          /\ \A x \in Service, c \in NewBucket :
                c \in NewOf(am)[x] <=> \E j \in am.vvNew[c] : am.mapInfo[j].addr = x
      BY NewOfType
    <2>2. \A c \in NewBucket : \A j \in am.vvNew[c] : am.mapInfo[j].addr # o
      BY <1>7, <1>8, <1>10
    <2>3. \A x \in Service, c \in NewBucket :
             (\E j \in am'.vvNew[c] : am'.mapInfo[j].addr = x)
                <=> IF x = o THEN c = b ELSE \E j \in am.vvNew[c] : am.mapInfo[j].addr = x
      <3> TAKE x \in Service, c \in NewBucket
      <3>1. /\ \A j \in am'.vvNew[c] : j \in am.vvNew[c] \/ (c = b /\ j = old)
            /\ am.vvNew[c] \subseteq am'.vvNew[c]
            /\ c = b => old \in am'.vvNew[c]
        BY <1>7
      <3>2. /\ \A j \in am.vvNew[c] : am'.mapInfo[j].addr = am.mapInfo[j].addr
            /\ am'.mapInfo[old].addr = o
        BY <1>8
      <3> HIDE DEF o
      <3>3. CASE x = o
        BY <2>2, <3>1, <3>2, <3>3
      <3>4. CASE x # o
        BY <3>1, <3>2, <3>4
      <3> QED BY <3>3, <3>4
    <2> HIDE DEF o
    <2>4. /\ N \in [Service -> SUBSET NewBucket]
          /\ \A x \in Service : N[x] = IF x = o THEN {b} ELSE NewOf(am)[x]
      BY <1>5, <1>9, <2>1
    <2> HIDE DEF N
    <2>5. \A x \in Service : NewOf(am')[x] = N[x]
      <3> TAKE x \in Service
      <3>1. NewOf(am')[x] \subseteq NewBucket /\ N[x] \subseteq NewBucket
        BY <2>1, <2>4
      <3>2. \A c \in NewBucket : c \in NewOf(am')[x] <=> c \in N[x]
        <4>1. CASE x = o
          BY <1>5, <2>1, <2>3, <2>4, <4>1
        <4>2. CASE x # o
          BY <2>1, <2>3, <2>4, <4>2
        <4> QED BY <4>1, <4>2
      <3> QED BY <3>1, <3>2
    <2>6. NewOf(am') = N
      BY <2>1, <2>4, <2>5
    <2> QED BY <2>6 DEF N
  <1>14. FileTable!Cardinality(FileTable!Holds(newTable, b)) < NEW_BUCKET_SIZE
    <2>1. FileTable!Holds(newTable, b) = {x \in Service : b \in NewOf(am)[x]}
      BY TablesAre DEF FileTable!Holds
    <2>2. Cardinality({x \in Service : b \in NewOf(am)[x]}) = Cardinality(am.vvNew[b])
      BY <1>5, <1>8, HoldsCount
    <2> QED BY <1>5, <2>1, <2>2, AbstractCardinality
  <1>15. movingTable' = {} /\ FileTables' = FileTables
    BY <1>1, IdleTables
  <1> HIDE DEF s, o
  <1>16. FileTable!Exchange(s, o, b)
    BY <1>6, <1>11, <1>12, <1>13, <1>14, <1>15, TablesAre DEF FileTable!Exchange
  <1> QED BY <1>5, <1>9, <1>16 DEF FileTable!Next

LEMMA GetAddrSteps ==
    ASSUME AddrDBInv, GetAddr \/ GetAddrStep \/ GetAddrDone, peersDat' = peersDat
    PROVE  UNCHANGED FileTable!vars
  <1>1. CASE GetAddr \/ GetAddrDone
    <2>1. am' = am /\ ~ Selecting /\ ~ Selecting'
      <3>1. CASE GetAddr
        BY <3>1 DEF GetAddr, Selecting
      <3>2. CASE GetAddrDone
        BY <3>2 DEF GetAddrDone, Answering, Selecting
      <3> QED BY <1>1, <3>1, <3>2
    <2>2. newTable' = newTable /\ triedTable' = triedTable
      BY <2>1, TablesAre
    <2>3. movingTable' = movingTable
      BY <2>1 DEF movingTable
    <2> QED BY <2>2, <2>3, IdleTables DEF FileTable!vars
  <1>2. CASE GetAddrStep
    <2>1. PICK q \in ShuffleRange :
             am' = SwapRandom(am, busy.n, q) /\ busy' = [busy EXCEPT !.n = @ + 1]
      BY <1>2 DEF GetAddrStep
    <2>2. /\ busy \in [op : {"GetAddr"}, n : Nat] /\ busy.n \in Nat \ {0}
          /\ Moving = {} /\ TablesInv(am, {}) /\ Len(am.vRandom) \in Nat
      BY <1>2, AnsweringFacts DEF GetAddrStep, AddrDBInv
    <2>3. busy.n \in 1..Len(am.vRandom) /\ q \in 1..Len(am.vRandom)
      BY <2>1, <2>2 DEF ShuffleRange
    <2>4. /\ Entries(am') = Entries(am) /\ am'.vvNew = am.vvNew
          /\ \A j \in Entries(am) : SamePeer(am'.mapInfo[j], am.mapInfo[j])
                                    /\ SamePlaces(am'.mapInfo[j], am.mapInfo[j])
      <3> DEFINE r == SwapRandom(am, busy.n, q)
      <3>1. /\ TablesInv(r, {}) /\ Entries(r) = Entries(am) /\ r.nIdCount = am.nIdCount
            /\ \A j \in Entries(am) : SamePeer(r.mapInfo[j], am.mapInfo[j])
                                      /\ SamePlaces(r.mapInfo[j], am.mapInfo[j])
            /\ r.vvNew = am.vvNew /\ r.vvTried = am.vvTried
        BY <2>2, <2>3, SwapInv
      <3>2. am' = r
        BY <2>1
      <3> HIDE DEF r
      <3> QED BY <3>1, <3>2
    <2>5. ~ Selecting /\ ~ Selecting'
      <3>1. busy.op = "GetAddr" /\ busy'.op = "GetAddr"
        BY <2>1, <2>2
      <3> QED BY <3>1 DEF Selecting
    <2>6. movingTable' = movingTable
      BY <2>5 DEF movingTable
    <2>7. TableType(am) /\ NewInv(am, {})
      BY <2>2 DEF TablesInv
    <2> QED BY <2>4, <2>6, <2>7, TablesStutter DEF SamePeer, SamePlaces
  <1> QED BY <1>1, <1>2

(* The tables of a file. *)
FileNew(f) == [s \in Service |-> {b \in NewBucket : \E n \in f.vvNew[b] : f.new[n].addr = s}]
FileTried(f) == {f.tried[n].addr : n \in DOMAIN f.tried}

LEMMA FileTablesAre ==
    /\ FileTables = IF peersDat = None THEN None ELSE <<FileNew(peersDat), FileTried(peersDat)>>
    /\ FileTables' = IF peersDat' = None THEN None
                     ELSE <<FileNew(peersDat'), FileTried(peersDat')>>
  BY DEF FileTables, FileNew, FileTried

(* They are not the tables of no file. *)
LEMMA FileTablesReal ==
    ASSUME NEW f, FileInv(f)
    PROVE  f # None /\ <<FileNew(f), FileTried(f)>> # None
  <1>1. f \in File
    BY DEF FileInv, FileType
  <1>2. FileNew(f) \in [Service -> SUBSET NewBucket]
    BY DEF FileNew
  <1>3. FileTried(f) \in SUBSET Service
    <2>1. f.tried \in Seq(StoredType)
      BY <1>1, FileFields
    <2>2. \A n \in DOMAIN f.tried : f.tried[n] \in StoredType
      BY <2>1
    <2> QED BY <2>2 DEF FileTried, StoredType
  <1>4. <<FileNew(f), FileTried(f)>> \in Tables
    BY <1>2, <1>3 DEF Tables
  <1> QED BY <1>1, <1>4, NoneAssumption

(* The file that was written stands for the tables, *)
LEMMA SavedTables ==
    ASSUME NEW m, TablesInv(m, {}), NEW f, NEW u, NEW t,
           Saves(f, m, u, t), Lists(u, Untried(m)), Lists(t, Tried(m))
    PROVE  FileNew(f) = NewOf(m) /\ FileTried(f) = TriedOf(m)
  <1>1. TableType(m) /\ NewInv(m, {})
    BY DEF TablesInv
  <1>2. /\ FileType(f) /\ Len(f.new) = Len(u) /\ Len(f.tried) = Len(t)
        /\ Len(u) \in Nat /\ Len(t) \in Nat
        /\ \A b \in NewBucket : f.vvNew[b] = {n \in 1..Len(u) : u[n] \in m.vvNew[b]}
    BY DEF Saves, Lists
  <1>3. /\ \A n \in 1..Len(u) : f.new[n].addr = m.mapInfo[u[n]].addr
        /\ \A n \in 1..Len(t) : f.tried[n].addr = m.mapInfo[t[n]].addr
    <2>1. /\ \A n \in 1..Len(u) : u[n] \in Entries(m)
          /\ \A n \in 1..Len(t) : t[n] \in Entries(m)
      BY DEF Lists, Untried, Tried
    <2>2. \A id \in Entries(m) : m.mapInfo[id] \in InfoType
      BY <1>1, TableFields
    <2>3. \A id \in Entries(m) : Stored(m.mapInfo[id]).addr = m.mapInfo[id].addr
      BY <2>2, StoredFields
    <2> QED BY <2>1, <2>3 DEF Saves
  <1>4. /\ \A id \in Untried(m) : \E n \in 1..Len(u) : u[n] = id
        /\ \A id \in Tried(m) : \E n \in 1..Len(t) : t[n] = id
        /\ \A n \in 1..Len(t) : t[n] \in Tried(m)
    BY DEF Lists
  <1>5. \A b \in NewBucket : m.vvNew[b] \subseteq Untried(m)
    BY <1>1 DEF NewInv
  <1>6. \A s \in Service, b \in NewBucket :
           (\E n \in f.vvNew[b] : f.new[n].addr = s)
              <=> (\E id \in m.vvNew[b] : m.mapInfo[id].addr = s)
    <2> TAKE s \in Service, b \in NewBucket
    <2>1. ASSUME NEW n \in f.vvNew[b], f.new[n].addr = s
          PROVE  \E id \in m.vvNew[b] : m.mapInfo[id].addr = s
      BY <1>2, <1>3, <2>1
    <2>2. ASSUME NEW id \in m.vvNew[b], m.mapInfo[id].addr = s
          PROVE  \E n \in f.vvNew[b] : f.new[n].addr = s
      <3>1. PICK n \in 1..Len(u) : u[n] = id
        BY <1>4, <1>5
      <3>2. n \in f.vvNew[b]
        BY <1>2, <3>1
      <3> QED BY <1>3, <2>2, <3>1, <3>2
    <2> QED BY <2>1, <2>2
  <1>7. FileNew(f) = NewOf(m)
    BY <1>6 DEF FileNew, NewOf
  <1>8. DOMAIN f.tried = 1..Len(t)
    <2>1. f.tried \in Seq(StoredType)
      BY <1>2, FileFields DEF FileType
    <2> QED BY <1>2, <2>1
  <1>9. FileTried(f) = TriedOf(m)
    BY <1>3, <1>4, <1>8 DEF FileTried, TriedOf
  <1> QED BY <1>7, <1>9

(* and so do the tables that are read from a file. *)
LEMMA ReadTables ==
    ASSUME NEW r, NEW f, FileInv(f), Loads(r, f)
    PROVE  NewOf(r) = FileNew(f) /\ TriedOf(r) = FileTried(f)
  <1>1. f \in File /\ \A b \in NewBucket : f.vvNew[b] \subseteq 1..Len(f.new)
    BY DEF FileInv, FileType
  <1>2. /\ Entries(r) = NewIds(f) \cup TriedIds(f)
        /\ \A id \in NewIds(f) : /\ r.mapInfo[id].addr = f.new[id + 1].addr
                                 /\ ~ r.mapInfo[id].fInTried
        /\ \A id \in TriedIds(f) : /\ r.mapInfo[id].addr = f.tried[id + 1 - Len(f.new)].addr
                                   /\ r.mapInfo[id].fInTried
        /\ \A b \in NewBucket : r.vvNew[b] = {j - 1 : j \in f.vvNew[b]}
    BY DEF Loads, ReadRel
  <1>3. /\ \A n \in 1..Len(f.new) : n - 1 \in NewIds(f) /\ n - 1 + 1 = n
        /\ \A id \in TriedIds(f) : id + 1 - Len(f.new) \in 1..Len(f.tried)
        /\ \A n \in 1..Len(f.tried) : /\ Len(f.new) + n - 1 \in TriedIds(f)
                                      /\ (Len(f.new) + n - 1) + 1 - Len(f.new) = n
    BY <1>1, IdRanges
  <1>4. \A n \in 1..Len(f.new) : r.mapInfo[n - 1].addr = f.new[n].addr
    <2> TAKE n \in 1..Len(f.new)
    <2> DEFINE id == n - 1
    <2>1. id \in NewIds(f) /\ id + 1 = n
      BY <1>3
    <2> HIDE DEF id
    <2>2. r.mapInfo[id].addr = f.new[n].addr
      BY <1>2, <2>1
    <2> QED BY <2>2 DEF id
  <1>5. \A s \in Service, b \in NewBucket :
           (\E id \in r.vvNew[b] : r.mapInfo[id].addr = s)
              <=> (\E n \in f.vvNew[b] : f.new[n].addr = s)
    <2> TAKE s \in Service, b \in NewBucket
    <2>1. f.vvNew[b] \subseteq 1..Len(f.new) /\ r.vvNew[b] = {j - 1 : j \in f.vvNew[b]}
      BY <1>1, <1>2
    <2>2. ASSUME NEW id \in r.vvNew[b], r.mapInfo[id].addr = s
          PROVE  \E n \in f.vvNew[b] : f.new[n].addr = s
      <3>1. PICK n \in f.vvNew[b] : id = n - 1
        BY <2>1
      <3> QED BY <1>4, <2>1, <2>2, <3>1
    <2>3. ASSUME NEW n \in f.vvNew[b], f.new[n].addr = s
          PROVE  \E id \in r.vvNew[b] : r.mapInfo[id].addr = s
      <3>1. n - 1 \in r.vvNew[b]
        BY <2>1
      <3>2. r.mapInfo[n - 1].addr = s
        BY <1>4, <2>1, <2>3
      <3> QED BY <3>1, <3>2
    <2> QED BY <2>2, <2>3
  <1>6. NewOf(r) = FileNew(f)
    BY <1>5 DEF FileNew, NewOf
  <1>7. DOMAIN f.tried = 1..Len(f.tried)
    <2>1. f.tried \in Seq(StoredType)
      BY <1>1, FileFields
    <2> QED BY <2>1
  <1>8. Tried(r) = TriedIds(f)
    BY <1>2 DEF Tried
  <1>9. \A id \in TriedIds(f) : \E n \in 1..Len(f.tried) : r.mapInfo[id].addr = f.tried[n].addr
    BY <1>2, <1>3
  <1>10. \A n \in 1..Len(f.tried) : \E id \in TriedIds(f) : r.mapInfo[id].addr = f.tried[n].addr
    <2> TAKE n \in 1..Len(f.tried)
    <2> DEFINE id == Len(f.new) + n - 1
               x == id + 1 - Len(f.new)
    <2>1. id \in TriedIds(f) /\ x = n
      BY <1>3
    <2> HIDE DEF id
    <2>2. r.mapInfo[id].addr = f.tried[x].addr
      BY <1>2, <2>1
    <2> HIDE DEF x
    <2> QED BY <2>1, <2>2
  <1>11. TriedOf(r) = FileTried(f)
    <2>1. TriedOf(r) = {r.mapInfo[id].addr : id \in TriedIds(f)}
      BY <1>8 DEF TriedOf
    <2>2. FileTried(f) = {f.tried[n].addr : n \in 1..Len(f.tried)}
      BY <1>7 DEF FileTried
    <2>3. \A x : x \in TriedOf(r) <=> x \in FileTried(f)
      BY <1>9, <1>10, <2>1, <2>2
    <2> QED BY <2>3
  <1> QED BY <1>6, <1>11

LEMMA EmptyTables == NewOf(Empty) = FileTable!Nowhere /\ TriedOf(Empty) = {}
  <1>1. \A b \in NewBucket : Empty.vvNew[b] = {}
    BY DEF Empty
  <1>2. NewOf(Empty) = FileTable!Nowhere
    BY <1>1 DEF NewOf, FileTable!Nowhere
  <1>3. Tried(Empty) = {}
    BY DEF Empty, Tried, Entries
  <1> QED BY <1>2, <1>3 DEF TriedOf

LEMMA DumpStep ==
    ASSUME AddrDBInv, DumpAddresses
    PROVE  FileTable!Next
  <1> DEFINE u == InOrder(Untried(am))
             t == InOrder(Tried(am))
             f == Serialize(am)
  <1>1. busy = None /\ am' = am /\ busy' = busy /\ peersDat' = f
    BY DEF DumpAddresses
  <1>2. TablesInv(am, {}) /\ am.nIdCount <= MaxId
    BY <1>1, Idle DEF AddrDBInv, AddrManInv
  <1>3. Lists(u, Untried(am)) /\ Lists(t, Tried(am)) /\ Saves(f, am, u, t)
    BY <1>2, SerializeSaves
  <1> HIDE DEF u, t, f
  <1>4. FileInv(f) /\ FileNew(f) = NewOf(am) /\ FileTried(f) = TriedOf(am)
    BY <1>2, <1>3, SavesInv, SavedTables
  <1>5. FileTables' = <<NewOf(am), TriedOf(am)>>
    BY <1>1, <1>4, FileTablesAre, FileTablesReal
  <1>6. movingTable = {} /\ movingTable' = {}
    BY <1>1, IdleTables
  <1>7. FileTable!Dump
    BY <1>1, <1>5, <1>6, TablesAre DEF FileTable!Dump
  <1> QED BY <1>7 DEF FileTable!Next

LEMMA RestartStep ==
    ASSUME AddrDBInv, Restart
    PROVE  FileTable!Next
  <1>1. busy' = None /\ peersDat' = peersDat
        /\ am' = IF peersDat = None THEN Empty ELSE Unserialize(peersDat)
    BY DEF Restart
  <1>2. movingTable' = {} /\ FileTables' = FileTables
    BY <1>1, IdleTables
  <1>3. CASE peersDat = None
    <2>1. FileTables = None
      BY <1>3, FileTablesAre
    <2>2. newTable' = FileTable!Nowhere /\ triedTable' = {}
      BY <1>1, <1>3, TablesAre, EmptyTables
    <2>3. FileTable!Restart
      BY <1>2, <2>1, <2>2 DEF FileTable!Restart
    <2> QED BY <2>3 DEF FileTable!Next
  <1>4. CASE peersDat # None
    <2>1. FileInv(peersDat)
      BY <1>4 DEF AddrDBInv
    <2>2. Unserialized(am', peersDat)
      BY <1>1, <1>4, <2>1, UnserializeFields
    <2>3. Loads(am', peersDat)
      BY <2>2 DEF Unserialized
    <2>4. NewOf(am') = FileNew(peersDat) /\ TriedOf(am') = FileTried(peersDat)
      BY <2>1, <2>3, ReadTables
    <2>5. /\ FileTables = <<FileNew(peersDat), FileTried(peersDat)>> /\ FileTables # None
      BY <1>4, <2>1, FileTablesAre, FileTablesReal
    <2>6. FileTables[1] = FileNew(peersDat) /\ FileTables[2] = FileTried(peersDat)
      BY <2>5
    <2>7. FileTable!Restart
      BY <1>2, <2>4, <2>5, <2>6, TablesAre DEF FileTable!Restart
    <2> QED BY <2>7 DEF FileTable!Next
  <1> QED BY <1>3, <1>4

LEMMA StutterStep ==
    ASSUME UNCHANGED dbVars
    PROVE  UNCHANGED FileTable!vars
  <1>1. am' = am /\ busy' = busy /\ peersDat' = peersDat
    BY DEF dbVars
  <1>2. newTable' = newTable /\ triedTable' = triedTable
    BY <1>1, TablesAre
  <1>3. movingTable' = movingTable
    BY <1>1 DEF movingTable, Selecting
  <1> QED BY <1>1, <1>2, <1>3, IdleTables DEF FileTable!vars

LEMMA RefinementStep ==
    ASSUME AddrDBInv, [DBNext]_dbVars
    PROVE  [FileTable!Next]_FileTable!vars
  <1>1. ASSUME Next, peersDat' = peersDat
        PROVE  FileTable!Next \/ UNCHANGED FileTable!vars
    <2>1. ASSUME NEW s \in Service, NEW src \in Source, AddUnknown(s, src)
          PROVE  FileTable!Next
      BY <1>1, <2>1, AddUnknownStep
    <2>2. ASSUME NEW s \in Service, NEW src \in Source, AddKnown(s, src)
          PROVE  FileTable!Next
      BY <1>1, <2>2, AddKnownStep
    <2>3. ASSUME NEW s \in Service, NEW t \in Time, GoodTried(s, t)
          PROVE  UNCHANGED FileTable!vars
      BY <1>1, <2>3, GoodTriedStep
    <2>4. ASSUME NEW s \in Service, NEW t \in Time, GoodRoom(s, t)
          PROVE  FileTable!Next
      BY <1>1, <2>4, GoodRoomStep
    <2>5. ASSUME NEW s \in Service, NEW t \in Time, GoodFull(s, t)
          PROVE  FileTable!Next
      BY <1>1, <2>5, GoodFullStep
    <2>6. CASE InspectTried
      BY <1>1, <2>6, InspectTriedStep
    <2>7. CASE Evict
      BY <1>1, <2>7, EvictStep
    <2>8. CASE GetAddr \/ GetAddrStep \/ GetAddrDone
      BY <1>1, <2>8, GetAddrSteps
    <2> QED BY <1>1, <2>1, <2>2, <2>3, <2>4, <2>5, <2>6, <2>7, <2>8 DEF Next
  <1>2. CASE DumpAddresses
    BY <1>2, DumpStep
  <1>3. CASE Restart
    BY <1>3, RestartStep
  <1>4. CASE UNCHANGED dbVars
    BY <1>4, StutterStep
  <1> QED BY <1>1, <1>2, <1>3, <1>4 DEF DBNext

LEMMA RefinementInit ==
    ASSUME DBInit
    PROVE  FileTable!Init
  <1>1. am = Empty /\ busy = None /\ peersDat = None
    BY DEF DBInit, Init
  <1>2. newTable = FileTable!Nowhere /\ triedTable = {}
    BY <1>1, TablesAre, EmptyTables
  <1>3. movingTable = {} /\ FileTables = None
    BY <1>1, IdleTables, FileTablesAre
  <1> QED BY <1>2, <1>3 DEF FileTable!Init

(* Writing peers.dat and reading it back is lossless: the address manager  *)
(* with dumps and restarts implements the two tables of AddrTable, where a *)
(* restart brings back the tables of the last dump, and a tried address    *)
(* only leaves its table for a new bucket that has room.                   *)
THEOREM AddrDBRefines == DBSpec => ImplementsSavedTable
  <1>1. DBInit => FileTable!Init
    BY RefinementInit
  <1>2. AddrDBInv /\ [DBNext]_dbVars => [FileTable!Next]_FileTable!vars
    BY RefinementStep
  <1> QED BY <1>1, <1>2, AddrDBInvariant, PTL DEF DBSpec, ImplementsSavedTable, FileTable!Spec
=============================================================================
