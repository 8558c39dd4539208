------------------------------ MODULE AddrTable ------------------------------
(***************************************************************************)
(* What the address manager promises: addresses are learnt into new        *)
(* buckets, become tried when a connection succeeds, and only leave the    *)
(* tried table for a new bucket ("they are never deleted while in the      *)
(* "tried" table, only possibly evicted back to the "new" table"); a       *)
(* restart brings back the tables of the last dump.                        *)
(***************************************************************************)
EXTENDS Naturals, FiniteSets

CONSTANTS Service, NewBucket, SameHost(_, _),
          NEW_BUCKET_SIZE, NEW_BUCKETS_PER_ADDRESS, NoTables

VARIABLES
    new,        \* service -> the new buckets that hold it
    tried,      \* the tried services
    moving,     \* services on their way from new to tried
    saved       \* <<new, tried>> as last dumped, or NoTables

vars == <<new, tried, moving, saved>>

Nowhere == [s \in Service |-> {}]

Known(s) == new[s] # {} \/ s \in tried \cup moving

Holds(n, b) == {s \in Service : b \in n[s]}

Init == new = Nowhere /\ tried = {} /\ moving = {} /\ saved = NoTables

(* s enters new bucket b; another service leaves the bucket if it is full. *)
Learn(s, b) ==
    /\ s \notin tried \cup moving
    /\ \A r \in Service \ {s} : SameHost(r, s) => ~ Known(r)
    /\ Cardinality(new[s]) < NEW_BUCKETS_PER_ADDRESS
    /\ b \notin new[s]
    /\ IF Cardinality(Holds(new, b)) < NEW_BUCKET_SIZE
       THEN new' = [new EXCEPT ![s] = @ \cup {b}]
       ELSE \E out \in Holds(new, b) :
               new' = [new EXCEPT ![s] = @ \cup {b}, ![out] = @ \ {b}]
    /\ UNCHANGED <<tried, moving, saved>>

(* A connection to s succeeded and there is room in the tried table, *)
Promote(s) ==
    /\ new[s] # {}
    /\ new' = [new EXCEPT ![s] = {}]
    /\ tried' = tried \cup {s}
    /\ UNCHANGED <<moving, saved>>

(* or there is none, and some other service has to go back to a bucket. *)
StartPromote(s) ==
    /\ new[s] # {}
    /\ moving = {}
    /\ new' = [new EXCEPT ![s] = {}]
    /\ moving' = {s}
    /\ UNCHANGED <<tried, saved>>

Exchange(s, old, b) ==
    /\ s \in moving
    /\ old \in tried
    /\ Cardinality(Holds(new, b)) < NEW_BUCKET_SIZE
    /\ tried' = (tried \ {old}) \cup {s}
    /\ new' = [new EXCEPT ![old] = {b}]
    /\ moving' = {}
    /\ UNCHANGED saved

Dump ==
    /\ moving = {}
    /\ saved' = <<new, tried>>
    /\ UNCHANGED <<new, tried, moving>>

Restart ==
    /\ new' = IF saved = NoTables THEN Nowhere ELSE saved[1]
    /\ tried' = IF saved = NoTables THEN {} ELSE saved[2]
    /\ moving' = {}
    /\ UNCHANGED saved

Next ==
    \/ \E s \in Service, b \in NewBucket : Learn(s, b)
    \/ \E s \in Service : Promote(s) \/ StartPromote(s)
    \/ \E s, old \in Service, b \in NewBucket : Exchange(s, old, b)
    \/ Dump
    \/ Restart

Spec == Init /\ [][Next]_vars
=============================================================================
