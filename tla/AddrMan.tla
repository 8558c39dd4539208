------------------------------- MODULE AddrMan -------------------------------
(***************************************************************************)
(* The address manager (addrman.h, addrman.cpp): the "new" and "tried"     *)
(* tables of peer addresses and their indexes.                             *)
(*                                                                         *)
(* Every public operation holds CAddrman::cs.  The two shuffles            *)
(* (SelectTried, GetAddr_) are one step per element; `busy' says which     *)
(* operation is inside one.  Positions in a vector count from 1.           *)
(*                                                                         *)
(* Of an entry's statistics only nLastSuccess is kept.  nTime, nLastTry    *)
(* and nAttempts, which Attempt_ and Connected_ update, only decide        *)
(* whether an address of Add_ is news, whether a new entry is terrible,    *)
(* and which of four random entries is the oldest: each of these is a      *)
(* choice.                                                                 *)
(***************************************************************************)
EXTENDS Integers, Sequences, FiniteSets

CONSTANTS
    NetAddr,            \* network addresses
    Service,            \* addresses with a port: the CServices of the network
    addrOf,             \* service -> its network address
    Source,             \* where an address is learnt from
    NewBucket, TriedBucket,
    GetNewBucket,       \* [NetAddr \X Source -> NewBucket], a keyed hash
    GetTriedBucket,     \* [Service -> TriedBucket], a keyed hash
    NEW_BUCKET_SIZE, TRIED_BUCKET_SIZE, NEW_BUCKETS_PER_ADDRESS,
    TRIED_ENTRIES_INSPECT_ON_EVICT, GETADDR_MAX_PCT, GETADDR_MAX,
    Time,               \* values of the adjusted clock, which may go backwards
    MaxId,              \* bound on nIdCount
    NoId, None

(* The local variables of SelectTried and of GetAddr_, when one is running. *)
Shuffle ==
    [op : {"SelectTried"}, nId : Nat, nOrigin : NewBucket, nKBucket : TriedBucket,
     i : Nat, nOldest : Nat \cup {NoId}, nOldestPos : Nat]
    \cup [op : {"GetAddr"}, n : Nat]

ASSUME AddrAssumption ==
    /\ addrOf \in [Service -> NetAddr]
    /\ IsFiniteSet(NetAddr) /\ IsFiniteSet(NewBucket) /\ IsFiniteSet(TriedBucket)
    /\ GetNewBucket \in [NetAddr \X Source -> NewBucket]
    /\ GetTriedBucket \in [Service -> TriedBucket]
    /\ {NEW_BUCKET_SIZE, TRIED_BUCKET_SIZE, NEW_BUCKETS_PER_ADDRESS,
        TRIED_ENTRIES_INSPECT_ON_EVICT} \subseteq Nat \ {0}
    /\ {GETADDR_MAX_PCT, GETADDR_MAX, MaxId} \subseteq Nat
    /\ Time \subseteq Nat \ {0}
    /\ NoId \notin Nat
    /\ None \notin Shuffle

VARIABLES
    am,         \* the tables of the CAddrman object
    busy        \* a shuffle in progress: None, or the operation's local variables

vars == <<am, busy>>

Empty ==
    [nIdCount |-> 0,
     mapInfo  |-> [id \in {} |-> None],         \* id -> CAddrInfo
     mapAddr  |-> [a \in NetAddr |-> NoId],
     vRandom  |-> <<>>,
     nTried   |-> 0,
     vvTried  |-> [b \in TriedBucket |-> <<>>],
     nNew     |-> 0,
     vvNew    |-> [b \in NewBucket |-> {}]]

Ids == DOMAIN am.mapInfo

-----------------------------------------------------------------------------
(* Operations on the tables of m. *)

Find(m, s) == m.mapAddr[addrOf[s]]

Info(s, src, pos) ==
    [addr |-> s, source |-> src, nLastSuccess |-> 0,
     nRefCount |-> 0, fInTried |-> FALSE, nRandomPos |-> pos]

Create(m, s, src) ==
    LET new == m.nIdCount IN
    [m EXCEPT !.nIdCount = @ + 1,
              !.mapInfo  = [id \in DOMAIN @ \cup {new} |->
                              IF id = new THEN Info(s, src, Len(m.vRandom) + 1) ELSE @[id]],
              !.mapAddr[addrOf[s]] = new,
              !.vRandom  = Append(@, new)]

SwapRandom(m, p, q) ==
    [m EXCEPT !.mapInfo[m.vRandom[p]].nRandomPos = q,
              !.mapInfo[m.vRandom[q]].nRandomPos = p,
              !.vRandom[p] = m.vRandom[q],
              !.vRandom[q] = m.vRandom[p]]

(* Mutant of Forget: the entry that takes the freed position keeps its old one. *)
ForgetNoSwap(m, id) ==
    LET last == Len(m.vRandom) IN
    [m EXCEPT !.vRandom = SubSeq([@ EXCEPT ![m.mapInfo[id].nRandomPos] = m.vRandom[last]],
                               1, last - 1),
              !.mapAddr[addrOf[m.mapInfo[id].addr]] = NoId,
              !.mapInfo = [j \in DOMAIN @ \ {id} |-> @[j]],
              !.nNew    = @ - 1]

(* The entry leaves vRandom, mapAddr and mapInfo. *)
Forget(m, id) ==
    LET last    == Len(m.vRandom)
        swapped == SwapRandom(m, m.mapInfo[id].nRandomPos, last)
    IN  [swapped EXCEPT
            !.vRandom = SubSeq(@, 1, last - 1),
            !.mapAddr[addrOf[m.mapInfo[id].addr]] = NoId,
            !.mapInfo = [j \in DOMAIN @ \ {id} |-> @[j]],
            !.nNew    = @ - 1]

(* ShrinkNew takes the first terrible entry of the bucket, or the oldest   *)
(* of four random ones: any entry.                                         *)
ShrinkNew(m, b, id) ==
    LET less == [m EXCEPT !.mapInfo[id].nRefCount = @ - 1]
    IN  [(IF less.mapInfo[id].nRefCount = 0 THEN Forget(less, id) ELSE less)
            EXCEPT !.vvNew[b] = @ \ {id}]

(* The end of Add_: entry id goes into new bucket b.  victim leaves a full *)
(* bucket.                                                                 *)
InsertNew(m, id, b, victim) ==
    LET more == [m EXCEPT !.mapInfo[id].nRefCount = @ + 1]
        room == IF Cardinality(m.vvNew[b]) = NEW_BUCKET_SIZE
                THEN ShrinkNew(more, b, victim) ELSE more
    IN  [room EXCEPT !.vvNew[b] = @ \cup {id}]

(* Victims of InsertNew. *)
Evictable(m, b) ==
    IF Cardinality(m.vvNew[b]) = NEW_BUCKET_SIZE THEN m.vvNew[b] ELSE {NoId}

-----------------------------------------------------------------------------
(* Add_ *)

AddUnknown(s, src) ==
    LET b == GetNewBucket[<<addrOf[s], src>>] IN
    /\ busy = None
    /\ Find(am, s) = NoId
    /\ am.nIdCount < MaxId
    /\ \E victim \in Evictable(am, b) :
          am' = InsertNew([Create(am, s, src) EXCEPT !.nNew = @ + 1], am.nIdCount, b, victim)
    /\ UNCHANGED busy

(* A known address that is news may enter one more new bucket. *)
MayMultiply(id) ==
    /\ ~ am.mapInfo[id].fInTried
    /\ am.mapInfo[id].nRefCount # NEW_BUCKETS_PER_ADDRESS

AddKnown(s, src) ==
    LET b == GetNewBucket[<<addrOf[s], src>>]
        id == Find(am, s)
    IN  /\ busy = None
        /\ id # NoId
        /\ MayMultiply(id)
        /\ id \notin am.vvNew[b]
        /\ \E victim \in Evictable(am, b) : am' = InsertNew(am, id, b, victim)
        /\ UNCHANGED busy

-----------------------------------------------------------------------------
(* Good_ and MakeTried *)

(* Good_ bails out unless it is about the very same service, port included. *)
Touched(s, t) == [am EXCEPT !.mapInfo[Find(am, s)].nLastSuccess = t]

IsKnown(s) == Find(am, s) # NoId /\ am.mapInfo[Find(am, s)].addr = s

GoodTried(s, t) ==
    /\ busy = None
    /\ IsKnown(s)
    /\ am.mapInfo[Find(am, s)].fInTried
    /\ am' = Touched(s, t)
    /\ UNCHANGED busy

(* The entry leaves all new buckets. *)
LeaveNew(m, id) ==
    [m EXCEPT !.vvNew = [b \in NewBucket |-> @[b] \ {id}],
              !.mapInfo[id].nRefCount = @ - Cardinality({b \in NewBucket : id \in m.vvNew[b]}),
              !.nNew = @ - 1]

(* MakeTried when its tried bucket has room. *)
GoodRoom(s, t) ==
    LET id == Find(am, s)
        k  == GetTriedBucket[s]
    IN  /\ busy = None
        /\ IsKnown(s)
        /\ ~ am.mapInfo[id].fInTried
        /\ Len(am.vvTried[k]) < TRIED_BUCKET_SIZE
        /\ am' = [LeaveNew(Touched(s, t), id) EXCEPT
                    !.vvTried[k] = Append(@, id),
                    !.nTried = @ + 1,
                    !.mapInfo[id].fInTried = TRUE]
        /\ UNCHANGED busy

(* MakeTried with a full tried bucket; nOrigin is the new bucket in which  *)
(* Good_ happened to find the entry.  SelectTried is next.                 *)
GoodFull(s, t) ==
    LET id == Find(am, s)
        k  == GetTriedBucket[s]
    IN  /\ busy = None
        /\ IsKnown(s)
        /\ ~ am.mapInfo[id].fInTried
        /\ Len(am.vvTried[k]) >= TRIED_BUCKET_SIZE
        /\ am' = LeaveNew(Touched(s, t), id)
        /\ \E nOrigin \in {b \in NewBucket : id \in am.vvNew[b]} :
              busy' = [op |-> "SelectTried", nId |-> id, nOrigin |-> nOrigin, nKBucket |-> k,
                       i |-> 1, nOldest |-> NoId, nOldestPos |-> 0]

Selecting == busy # None /\ busy.op = "SelectTried"

InspectionDone ==
    busy.i > TRIED_ENTRIES_INSPECT_ON_EVICT \/ busy.i > Len(am.vvTried[busy.nKBucket])

(* One turn of SelectTried: entry nPos is swapped with entry i.            *)
SelectTried(nPos) ==
    LET vTried == am.vvTried[busy.nKBucket]
        nTemp  == vTried[nPos]
        older  == \/ busy.nOldest = NoId
                  \/ am.mapInfo[nTemp].nLastSuccess < am.mapInfo[busy.nOldest].nLastSuccess
    IN  /\ am' = [am EXCEPT !.vvTried[busy.nKBucket] =
                    [@ EXCEPT ![nPos] = vTried[busy.i], ![busy.i] = nTemp]]
        /\ busy' = [busy EXCEPT !.i = @ + 1,
                                !.nOldest    = IF older THEN nTemp ELSE @,
                                !.nOldestPos = IF older THEN nPos ELSE @]

InspectTried ==
    /\ Selecting
    /\ ~ InspectionDone
    /\ \E nPos \in busy.i .. Len(am.vvTried[busy.nKBucket]) : SelectTried(nPos)

(* Mutant of Returned: the evicted entry goes to its own new bucket even   *)
(* when that is full.                                                      *)
ReturnedUnchecked(old) == GetNewBucket[<<addrOf[am.mapInfo[old].addr], am.mapInfo[old].source>>]

(* The new bucket an evicted entry goes to: its own, or the one that nId   *)
(* has just left.                                                          *)
Returned(old) ==
    LET b == GetNewBucket[<<addrOf[am.mapInfo[old].addr], am.mapInfo[old].source>>]
    IN  IF Cardinality(am.vvNew[b]) < NEW_BUCKET_SIZE THEN b ELSE busy.nOrigin

(* The rest of MakeTried: the entry at nOldestPos makes room for nId. *)
Evict ==
    LET old == am.vvTried[busy.nKBucket][busy.nOldestPos]
    IN  /\ Selecting
        /\ InspectionDone
        /\ am' = [am EXCEPT !.mapInfo[old].fInTried = FALSE,
                            !.mapInfo[old].nRefCount = 1,
                            !.vvNew[Returned(old)] = @ \cup {old},
                            !.nNew = @ + 1,
                            !.vvTried[busy.nKBucket][busy.nOldestPos] = busy.nId,
                            !.mapInfo[busy.nId].fInTried = TRUE]
        /\ busy' = None

-----------------------------------------------------------------------------
(* GetAddr_ *)

Min2(x, y) == IF x < y THEN x ELSE y

(* The number of addresses of a getaddr answer. *)
nNodes == Min2((GETADDR_MAX_PCT * Len(am.vRandom)) \div 100, GETADDR_MAX)

GetAddr ==
    /\ busy = None
    /\ nNodes > 0
    /\ busy' = [op |-> "GetAddr", n |-> 1]
    /\ UNCHANGED am

Answering == busy # None /\ busy.op = "GetAddr"

ShuffleRange == busy.n .. Len(am.vRandom)

(* One turn of the loop: a random later element is swapped to position n. *)
GetAddrStep ==
    /\ Answering
    /\ busy.n <= nNodes
    /\ \E nRndPos \in ShuffleRange :
          /\ am' = SwapRandom(am, busy.n, nRndPos)
          /\ busy' = [busy EXCEPT !.n = @ + 1]

GetAddrDone ==
    /\ Answering
    /\ busy.n > nNodes
    /\ busy' = None
    /\ UNCHANGED am

-----------------------------------------------------------------------------

Init == am = Empty /\ busy = None

Next ==
    \/ \E s \in Service, src \in Source : AddUnknown(s, src) \/ AddKnown(s, src)
    \/ \E s \in Service, t \in Time : GoodTried(s, t) \/ GoodRoom(s, t) \/ GoodFull(s, t)
    \/ InspectTried
    \/ Evict
    \/ GetAddr
    \/ GetAddrStep
    \/ GetAddrDone

Spec == Init /\ [][Next]_vars

-----------------------------------------------------------------------------
(* Properties.  Check_, compiled with DEBUG_ADDRMAN only, names what every *)
(* operation must preserve.                                                *)

(* Every structure holds ids of entries that exist. *)
TypeOK ==
    /\ am.nIdCount \in 0..MaxId
    /\ Ids \subseteq 0..(am.nIdCount - 1)
    /\ am.mapAddr \in [NetAddr -> Ids \cup {NoId}]
    /\ am.vRandom \in Seq(Ids)
    /\ am.vvTried \in [TriedBucket -> Seq(Ids)]
    /\ am.vvNew \in [NewBucket -> SUBSET Ids]
    /\ \A id \in Ids :
          /\ am.mapInfo[id].addr \in Service
          /\ am.mapInfo[id].source \in Source
          /\ am.mapInfo[id].nLastSuccess \in Time \cup {0}
          /\ am.mapInfo[id].fInTried \in BOOLEAN
          /\ am.mapInfo[id].nRefCount \in 0..Cardinality(NewBucket)
          /\ am.mapInfo[id].nRandomPos \in 1..Len(am.vRandom)

(* vRandom lists every entry once and every entry knows its place in it    *)
(* (Check_ -7, -14): the getaddr shuffle and the removal of an entry swap  *)
(* by position.                                                            *)
RandomExact ==
    /\ Len(am.vRandom) = Cardinality(Ids)
    /\ \A id \in Ids :
          /\ am.mapInfo[id].nRandomPos \in DOMAIN am.vRandom
          /\ am.vRandom[am.mapInfo[id].nRandomPos] = id

(* mapAddr finds exactly the entries (Check_ -5), one per network address. *)
AddrExact ==
    /\ \A id \in Ids : am.mapAddr[addrOf[am.mapInfo[id].addr]] = id
    /\ \A a \in NetAddr :
          am.mapAddr[a] # NoId => /\ am.mapAddr[a] \in Ids
                                  /\ addrOf[am.mapInfo[am.mapAddr[a]].addr] = a

InTriedBuckets(id) == {p \in TriedBucket \X (1..TRIED_BUCKET_SIZE) :
                          p[2] <= Len(am.vvTried[p[1]]) /\ am.vvTried[p[1]][p[2]] = id}

InNewBuckets(id) == {b \in NewBucket : id \in am.vvNew[b]}

(* An entry is either tried, once, in the bucket of its hash, and then in  *)
(* no new bucket, or it is in exactly nRefCount new buckets, at least one  *)
(* and at most the limit (Check_ -1 to -4, -11 to -15).  The entry that    *)
(* MakeTried is moving is in neither table.                                *)
TablesExact ==
    \A id \in Ids : ~ (Selecting /\ busy.nId = id) =>
        IF am.mapInfo[id].fInTried
        THEN /\ am.mapInfo[id].nRefCount = 0
             /\ am.mapInfo[id].nLastSuccess # 0
             /\ Cardinality(InTriedBuckets(id)) = 1
             /\ InNewBuckets(id) = {}
             /\ \A p \in InTriedBuckets(id) : p[1] = GetTriedBucket[am.mapInfo[id].addr]
        ELSE /\ am.mapInfo[id].nRefCount = Cardinality(InNewBuckets(id))
             /\ am.mapInfo[id].nRefCount \in 1..NEW_BUCKETS_PER_ADDRESS
             /\ InTriedBuckets(id) = {}

(* nTried and nNew count the two tables (Check_ -9, -10): Select_ draws    *)
(* buckets of the table it chose by these counts until it finds an entry,  *)
(* without end if there is none.                                           *)
CountsExact ==
    busy = None =>
        /\ am.nTried = Cardinality({id \in Ids : am.mapInfo[id].fInTried})
        /\ am.nNew = Cardinality({id \in Ids : ~ am.mapInfo[id].fInTried})

(* What Check_ looks at, after every operation and after a restart, and in *)
(* the middle of a shuffle.                                                *)
Check == RandomExact /\ AddrExact /\ TablesExact /\ CountsExact

(* No bucket outgrows its size: "there is certainly place there". *)
BucketsBounded ==
    /\ \A b \in NewBucket : Cardinality(am.vvNew[b]) <= NEW_BUCKET_SIZE
    /\ \A k \in TriedBucket : Len(am.vvTried[k]) <= TRIED_BUCKET_SIZE

-----------------------------------------------------------------------------
(* The abstract tables. *)

newTable ==
    [s \in Service |-> {b \in NewBucket : \E id \in am.vvNew[b] : am.mapInfo[id].addr = s}]

triedTable == {am.mapInfo[id].addr : id \in {j \in Ids : am.mapInfo[j].fInTried}}

movingTable == IF Selecting THEN {am.mapInfo[busy.nId].addr} ELSE {}

SameHost(r, s) == addrOf[r] = addrOf[s]

=============================================================================
