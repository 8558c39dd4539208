-------------------------------- MODULE AddrDB --------------------------------
(***************************************************************************)
(* peers.dat (CAddrDB in db.cpp, the serialization of CAddrman in          *)
(* addrman.h): the address manager with its dumps, and restarts of the     *)
(* process at any time.                                                    *)
(***************************************************************************)
EXTENDS AddrMan

(* What of an entry is stored, *)
StoredType == [addr : Service, source : Source, nLastSuccess : Time \cup {0}]

(* the contents of peers.dat, *)
File == [new : Seq(StoredType), tried : Seq(StoredType), vvNew : [NewBucket -> SUBSET Nat]]

(* and the two tables that they stand for. *)
Tables == [Service -> SUBSET NewBucket] \X SUBSET Service

ASSUME NoneAssumption == None \notin File /\ None \notin Tables

VARIABLE peersDat   \* the contents of peers.dat; None before the first dump

dbVars == <<am, busy, peersDat>>

(* The ids of S in the order of the map. *)
InOrder(S) == [n \in 1..Cardinality(S) |-> CHOOSE id \in S : Cardinality({j \in S : j <= id}) = n]

(* What of an entry is stored. *)
Stored(info) == [addr |-> info.addr, source |-> info.source, nLastSuccess |-> info.nLastSuccess]

(* Mutant of UnkIndexes: tried entries are counted as well. *)
AllIndexes(m, b) ==
    LET all == InOrder(DOMAIN m.mapInfo) IN {n \in 1..m.nNew : all[n] \in m.vvNew[b]}

(* mapUnkIds: the new entries of bucket b as indexes into the stored list. *)
UnkIndexes(m, b) ==
    LET unk == InOrder({id \in DOMAIN m.mapInfo : m.mapInfo[id].nRefCount # 0})
    IN  {n \in 1..Len(unk) : unk[n] \in m.vvNew[b]}

(* Serialize, writing: the new entries, the tried entries, and the new     *)
(* buckets as indexes into the first.  The loops stop after nNew and       *)
(* nTried entries.                                                         *)
Serialize(m) ==
    LET unk   == InOrder({id \in DOMAIN m.mapInfo : m.mapInfo[id].nRefCount # 0})
        tried == InOrder({id \in DOMAIN m.mapInfo : m.mapInfo[id].fInTried})
    IN  [new    |-> [n \in 1..Min2(m.nNew, Len(unk)) |-> Stored(m.mapInfo[unk[n]])],
         tried  |-> [n \in 1..Min2(m.nTried, Len(tried)) |-> Stored(m.mapInfo[tried[n]])],
         vvNew  |-> [b \in NewBucket |-> UnkIndexes(m, b)]]

(* DumpAddresses: a temporary file replaces peers.dat. *)
DumpAddresses ==
    /\ busy = None
    /\ peersDat' = Serialize(am)
    /\ UNCHANGED <<am, busy>>

Loaded(stored, pos) ==
    [addr |-> stored.addr, source |-> stored.source, nLastSuccess |-> stored.nLastSuccess,
     nRefCount |-> 0, fInTried |-> FALSE, nRandomPos |-> pos]

(* The references that reading the buckets counts for the n-th entry. *)
RefsOf(f, n) == Cardinality({b \in NewBucket : n \in f.vvNew[b]})

(* Serialize, reading: ids are given out anew, tried buckets, vRandom and  *)
(* mapAddr are rebuilt.  The parameters are those of the writer, so every  *)
(* tried entry finds room and no reference is beyond the limit.            *)
Unserialize(f) ==
    LET n   == Len(f.new)
        all == f.new \o f.tried
    IN  [nIdCount |-> Len(all),
         mapInfo  |-> [id \in 0..(Len(all) - 1) |->
                         [Loaded(all[id + 1], id + 1) EXCEPT
                            !.fInTried = id >= n,
                            !.nRefCount = IF id < n THEN RefsOf(f, id + 1) ELSE 0]],
         mapAddr  |-> [a \in NetAddr |->
                         IF \E j \in 1..Len(all) : addrOf[all[j].addr] = a
                         THEN (CHOOSE j \in 1..Len(all) : addrOf[all[j].addr] = a) - 1 ELSE NoId],
         vRandom  |-> [j \in 1..Len(all) |-> j - 1],
         nTried   |-> Len(f.tried),
         vvTried  |-> [k \in TriedBucket |->
                         InOrder({id \in n..(Len(all) - 1) : GetTriedBucket[all[id + 1].addr] = k})],
         nNew     |-> n,
         vvNew    |-> [b \in NewBucket |-> {j - 1 : j \in f.vvNew[b]}]]

(* The process ends at any time, and starts again from the last dump. *)
Restart ==
    /\ am' = IF peersDat = None THEN Empty ELSE Unserialize(peersDat)
    /\ busy' = None
    /\ UNCHANGED peersDat

-----------------------------------------------------------------------------

DBInit == Init /\ peersDat = None

DBNext ==
    \/ Next /\ UNCHANGED peersDat
    \/ DumpAddresses
    \/ Restart

DBSpec == DBInit /\ [][DBNext]_dbVars

-----------------------------------------------------------------------------
(* The tables of the file. *)
FileTables ==
    IF peersDat = None THEN None
    ELSE <<[s \in Service |->
              {b \in NewBucket : \E n \in peersDat.vvNew[b] : peersDat.new[n].addr = s}],
           {peersDat.tried[n].addr : n \in DOMAIN peersDat.tried}>>

FileTable == INSTANCE AddrTable WITH
    NoTables <- None, saved <- FileTables,
    new <- newTable, tried <- triedTable, moving <- movingTable

(* Writing peers.dat and reading it back is lossless: after a restart at   *)
(* any time the two tables are those of the last dump, every address in    *)
(* the buckets it was in.                                                  *)
ImplementsSavedTable == FileTable!Spec
=============================================================================
