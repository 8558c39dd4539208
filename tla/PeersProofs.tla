----------------------------- MODULE PeersProofs -----------------------------
(***************************************************************************)
(* Theorems about Peers, for any number of nodes, of addresses and of      *)
(* threads that open connections, and for any limits.                      *)
(***************************************************************************)
EXTENDS Peers, FiniteSetTheorems, TLAPS

Pointing == {"found", "counted", "move", "mark", "oneshot", "done"}

(* What an opener has where it is: the grant until it moves it to a node,  *)
(* and a node of its own until it has set fNetworkNode, unless ConnectNode *)
(* found the node.                                                         *)
OpenerInv(o) ==
    /\ opener[o].grant <=> opener[o].pc \in {"open", "connect", "found", "counted", "socket", "move"}
    /\ opener[o].pc # "idle" => opener[o].addr \in Addr
    /\ opener[o].fOneShot => opener[o].addr \in OneShotAddr
    /\ opener[o].pc \in Pointing => opener[o].pnode \in Node /\ node[opener[o].pnode] # None
    /\ opener[o].pc \in {"found", "counted"} => opener[o].pnode \in shared
    /\ opener[o].pc \in {"move", "mark"} =>
           \/ opener[o].pnode \in shared
           \/ /\ Live(opener[o].pnode)
              /\ ~ node[opener[o].pnode].fNetworkNode /\ ~ node[opener[o].pnode].fInbound

(* Two openers have the same node only when ConnectNode found it. *)
OpenersApart ==
    \A o, p \in Opener :
        (/\ o # p /\ opener[o].pnode = opener[p].pnode
         /\ opener[o].pc \in {"move", "mark"} /\ opener[p].pc \in {"move", "mark"})
        => opener[o].pnode \in shared

(* A node is in one of the two lists at most, and not deleted there; a     *)
(* node that is not constructed is nowhere.                                *)
ListsInv ==
    /\ \A n \in vNodes \cup vNodesDisconnected : Live(n)
    /\ vNodes \cap vNodesDisconnected = {}
    /\ \A n \in Node : node[n] = None => n \notin net.copy \cup msg.copy \cup shared
    /\ net.pc # "service" => net.copy = {}
    /\ msg.pc = "copy" => msg.copy = {}

One(b) == IF b THEN 1 ELSE 0

(* The references of a node cover the threads that have it in a copy of    *)
(* vNodes, and vNodes itself, or the opener that has not marked it yet.    *)
Held(n) ==
    One(n \in net.copy) + One(n \in msg.copy)
      + One(n \in vNodes \/ (~ node[n].fNetworkNode /\ ~ node[n].fInbound))

RefsInv ==
    \A n \in Node \ shared :
        /\ Live(n) => node[n].nRefCount >= Held(n)
        /\ n \in net.copy \cup msg.copy => Live(n)

(* An outbound node in vNodes has a slot, or its opener still has it. *)
OutboundHeld ==
    \A n \in vNodes :
        \/ node[n].fInbound \/ node[n].grantOutbound
        \/ \E o \in Opener : opener[o].pc = "move" /\ opener[o].pnode = n

InboundLimit == Cardinality({n \in vNodes : node[n].fInbound}) <= MaxInbound

IndInv ==
    /\ TypeOK
    /\ \A o \in Opener : OpenerInv(o)
    /\ OpenersApart
    /\ ListsInv
    /\ RefsInv
    /\ OutboundHeld
    /\ InboundLimit
    /\ SlotsConserved
-----------------------------------------------------------------------------
InboundSet == {n \in vNodes : node[n].fInbound}
GrantSet == {n \in Node : Live(n) /\ node[n].grantOutbound}
OpenerGrantSet == {o \in Opener : opener[o].grant}

(* A live node has its members. *)
LEMMA LiveFact ==
    ASSUME TypeOK, NEW n \in Node
    PROVE  /\ Live(n) <=> node[n] \in Members
           /\ node[n] \in Members =>
                 /\ node[n].addr \in Addr /\ node[n].nRefCount \in Int
                 /\ node[n].fInbound \in BOOLEAN /\ node[n].fNetworkNode \in BOOLEAN
                 /\ node[n].fDisconnect \in BOOLEAN /\ node[n].grantOutbound \in BOOLEAN
  <1>1. node[n] \in Members \cup {None, Deleted}
    BY DEF TypeOK
  <1>2. Live(n) <=> node[n] \in Members
    BY <1>1, PeersAssumption DEF Live
  <1>3. node[n] \in Members =>
                 /\ node[n].addr \in Addr /\ node[n].nRefCount \in Int
                 /\ node[n].fInbound \in BOOLEAN /\ node[n].fNetworkNode \in BOOLEAN
                 /\ node[n].fDisconnect \in BOOLEAN /\ node[n].grantOutbound \in BOOLEAN
    BY DEF Members
  <1> QED
    BY <1>2, <1>3

(* The counted sets are finite, here and in the next state. *)
LEMMA Finite ==
    ASSUME TypeOK
    PROVE  /\ IsFiniteSet(InboundSet) /\ Cardinality(InboundSet) \in Nat
           /\ IsFiniteSet(GrantSet) /\ Cardinality(GrantSet) \in Nat
           /\ IsFiniteSet(OpenerGrantSet) /\ Cardinality(OpenerGrantSet) \in Nat
  <1>1. InboundSet \subseteq Node /\ GrantSet \subseteq Node /\ OpenerGrantSet \subseteq Opener
    BY DEF TypeOK, InboundSet, GrantSet, OpenerGrantSet
  <1>2. IsFiniteSet(Node) /\ IsFiniteSet(Opener)
    BY PeersAssumption
  <1>3. IsFiniteSet(InboundSet) /\ IsFiniteSet(GrantSet) /\ IsFiniteSet(OpenerGrantSet)
    BY <1>1, <1>2, FS_Subset
  <1> QED
    BY <1>3, FS_CardinalityType

(* The same facts about the sets, by the names the properties use. *)
LEMMA Slots ==
    /\ InboundLimit <=> Cardinality(InboundSet) <= MaxInbound
    /\ SlotsConserved <=> semOutbound + Cardinality(OpenerGrantSet) + Cardinality(GrantSet)
                            = MAX_OUTBOUND_CONNECTIONS
  BY DEF InboundLimit, InboundSet, SlotsConserved, OpenerGrants, NodeGrants, OpenerGrantSet, GrantSet

(* One opener's grant counts for one. *)
LEMMA OpenerGrantCount ==
    ASSUME TypeOK, NEW o \in Opener,
           \A p \in Opener : p # o => opener'[p] = opener[p],
           opener'[o].grant \in BOOLEAN
    PROVE  Cardinality(OpenerGrantSet') + One(opener[o].grant)
             = Cardinality(OpenerGrantSet) + One(opener'[o].grant)
  <1>0. opener[o].grant \in BOOLEAN
    BY DEF TypeOK
  <1>1. CASE opener[o].grant = opener'[o].grant
    <2>1. OpenerGrantSet' = OpenerGrantSet
      BY <1>1 DEF OpenerGrantSet
    <2> QED
      BY <1>1, <2>1
  <1>2. CASE opener[o].grant /\ ~ opener'[o].grant
    <2>1. OpenerGrantSet' = OpenerGrantSet \ {o} /\ o \in OpenerGrantSet
      BY <1>2 DEF OpenerGrantSet
    <2>2. Cardinality(OpenerGrantSet') = Cardinality(OpenerGrantSet) - 1
      BY <2>1, Finite, FS_RemoveElement
    <2> QED
      BY <1>2, <2>2, Finite DEF One
  <1>3. CASE ~ opener[o].grant /\ opener'[o].grant
    <2>1. OpenerGrantSet' = OpenerGrantSet \cup {o} /\ o \notin OpenerGrantSet
      BY <1>3 DEF OpenerGrantSet
    <2>2. Cardinality(OpenerGrantSet') = Cardinality(OpenerGrantSet) + 1
      BY <2>1, Finite, FS_AddElement
    <2> QED
      BY <1>3, <2>2, Finite DEF One
  <1> QED
    BY <1>0, <1>1, <1>2, <1>3

LEMMA InitInv == Init => IndInv
  <1> SUFFICES ASSUME Init PROVE IndInv
    OBVIOUS
  <1>1. TypeOK
    BY PeersAssumption DEF Init, TypeOK, IdleOpener
  <1>2. InboundSet = {} /\ GrantSet = {} /\ OpenerGrantSet = {}
    BY DEF Init, InboundSet, GrantSet, OpenerGrantSet, IdleOpener, Live
  <1>3. InboundLimit /\ SlotsConserved
    BY <1>2, Slots, FS_EmptySet, PeersAssumption DEF Init
  <1>4. \A o \in Opener : OpenerInv(o)
    BY DEF Init, OpenerInv, IdleOpener, Pointing
  <1>5. OpenersApart
    BY DEF Init, OpenersApart, IdleOpener
  <1>6. ListsInv /\ RefsInv /\ OutboundHeld
    BY DEF Init, ListsInv, RefsInv, OutboundHeld, Live
  <1> QED
    BY <1>1, <1>3, <1>4, <1>5, <1>6 DEF IndInv
-----------------------------------------------------------------------------
(* A step that leaves every node in its place, with its flags and its      *)
(* slot, keeps everything but the references.                              *)
LEMMA NodesKept ==
    ASSUME IndInv, TypeOK', RefsInv',
           UNCHANGED <<vNodes, vNodesDisconnected, opener, shared, semOutbound>>,
           net'.pc # "service" => net'.copy = {},
           msg'.pc = "copy" => msg'.copy = {},
           net'.copy \cup msg'.copy \subseteq net.copy \cup msg.copy \cup vNodes,
           \A n \in Node :
               /\ node'[n] = None <=> node[n] = None
               /\ Live(n)' <=> Live(n)
               /\ Live(n) => /\ node'[n].fInbound = node[n].fInbound
                             /\ node'[n].fNetworkNode = node[n].fNetworkNode
                             /\ node'[n].grantOutbound = node[n].grantOutbound
    PROVE  IndInv'
  <1>0. vNodes \subseteq Node /\ \A n \in vNodes : Live(n)
    BY DEF IndInv, TypeOK, ListsInv
  <1>1. \A o \in Opener : OpenerInv(o)'
    BY DEF IndInv, OpenerInv, Pointing
  <1>2. OpenersApart'
    BY DEF IndInv, OpenersApart
  <1>3. ListsInv'
    BY <1>0 DEF IndInv, ListsInv, TypeOK, Live
  <1>4. OutboundHeld'
    BY <1>0 DEF IndInv, OutboundHeld
  <1>5. InboundSet' = InboundSet /\ GrantSet' = GrantSet /\ OpenerGrantSet' = OpenerGrantSet
    BY <1>0 DEF InboundSet, GrantSet, OpenerGrantSet
  <1>6. InboundLimit' /\ SlotsConserved'
    BY <1>5 DEF IndInv, InboundLimit, SlotsConserved, InboundSet, GrantSet, OpenerGrantSet, OpenerGrants,
                NodeGrants
  <1> QED
    BY <1>1, <1>2, <1>3, <1>4, <1>6 DEF IndInv

(* A step of an opener that touches no node. *)
LEMMA OpenerMoves ==
    ASSUME IndInv, TypeOK', NEW o \in Opener,
           UNCHANGED <<node, vNodes, vNodesDisconnected, net, msg>>,
           shared \subseteq shared', \A n \in shared' \ shared : n \in vNodes,
           \A p \in Opener : p # o => opener'[p] = opener[p],
           OpenerInv(o)',
           opener[o].pc # "move",
           opener'[o].pc \notin {"move", "mark"},
           semOutbound' + One(opener'[o].grant) = semOutbound + One(opener[o].grant)
    PROVE  IndInv'
  <1>0. vNodes \subseteq Node /\ shared' \subseteq Node
    BY DEF IndInv, TypeOK
  <1>1. \A p \in Opener : OpenerInv(p)'
    BY DEF IndInv, OpenerInv, Pointing, Live
  <1>2. OpenersApart'
    BY DEF IndInv, OpenersApart
  <1>3. ListsInv'
    BY <1>0 DEF IndInv, ListsInv, Live
  <1>4. RefsInv'
    BY DEF IndInv, RefsInv, Live, Held
  <1>5. OutboundHeld'
    BY DEF IndInv, OutboundHeld
  <1>6. InboundSet' = InboundSet /\ GrantSet' = GrantSet
    BY DEF InboundSet, GrantSet, Live
  <1>7. opener'[o].grant \in BOOLEAN
    BY DEF TypeOK
  <1>8. Cardinality(OpenerGrantSet') + One(opener[o].grant)
             = Cardinality(OpenerGrantSet) + One(opener'[o].grant)
    BY <1>7, OpenerGrantCount DEF IndInv
  <1>9. IsFiniteSet(OpenerGrantSet') /\ Cardinality(OpenerGrantSet') \in Nat
    <2>1. OpenerGrantSet' \subseteq Opener
      BY DEF OpenerGrantSet
    <2> QED
      BY <2>1, PeersAssumption, FS_Subset, FS_CardinalityType
  <1>10. SlotsConserved'
    <2>1. semOutbound \in Int /\ semOutbound' \in Int
      BY PeersAssumption DEF IndInv, TypeOK
    <2>2. semOutbound + Cardinality(OpenerGrantSet) + Cardinality(GrantSet) = MAX_OUTBOUND_CONNECTIONS
      BY Slots DEF IndInv
    <2>3. semOutbound' + Cardinality(OpenerGrantSet') + Cardinality(GrantSet) = MAX_OUTBOUND_CONNECTIONS
      BY <1>8, <1>9, <2>1, <2>2, Finite DEF One, IndInv
    <2> QED
      BY <1>6, <2>3 DEF SlotsConserved, OpenerGrants, NodeGrants, OpenerGrantSet, GrantSet
  <1>11. InboundLimit'
    BY <1>6 DEF IndInv, InboundLimit, InboundSet
  <1> QED
    BY <1>1, <1>2, <1>3, <1>4, <1>5, <1>10, <1>11 DEF IndInv

(* There is room in semOutbound for a slot that is given back. *)
LEMMA SlotBack ==
    ASSUME IndInv
    PROVE  /\ \A o \in Opener : opener[o].grant => semOutbound + 1 \in 0..MAX_OUTBOUND_CONNECTIONS
           /\ \A S \in SUBSET GrantSet : semOutbound + Cardinality(S) \in 0..MAX_OUTBOUND_CONNECTIONS
  <1>1. TypeOK /\ semOutbound \in Nat /\ MAX_OUTBOUND_CONNECTIONS \in Nat
    BY PeersAssumption DEF IndInv, TypeOK
  <1>2. semOutbound + Cardinality(OpenerGrantSet) + Cardinality(GrantSet) = MAX_OUTBOUND_CONNECTIONS
    BY Slots DEF IndInv
  <1>3. ASSUME NEW o \in Opener, opener[o].grant
        PROVE  semOutbound + 1 \in 0..MAX_OUTBOUND_CONNECTIONS
    <2>1. OpenerGrantSet # {}
      BY <1>3 DEF OpenerGrantSet
    <2>2. Cardinality(OpenerGrantSet) # 0
      BY <1>1, <2>1, Finite, FS_EmptySet
    <2> QED
      BY <1>1, <1>2, <2>2, Finite
  <1>4. ASSUME NEW S \in SUBSET GrantSet
        PROVE  semOutbound + Cardinality(S) \in 0..MAX_OUTBOUND_CONNECTIONS
    <2>1. Cardinality(S) \in Nat /\ Cardinality(S) <= Cardinality(GrantSet)
      BY <1>1, Finite, FS_Subset, FS_CardinalityType
    <2> QED
      BY <1>1, <1>2, <2>1, Finite
  <1> QED
    BY <1>3, <1>4

OpenerType ==
    [pc : {"idle", "open", "connect", "found", "counted", "socket", "move", "mark", "oneshot", "done"},
     addr : Addr \cup {None}, pnode : Node \cup {None}, nRef : Int,
     grant : BOOLEAN, fOneShot : BOOLEAN]

LEMMA OpenerTyped ==
    ASSUME TypeOK
    PROVE  opener \in [Opener -> OpenerType]
  BY DEF TypeOK, OpenerType

LEMMA IdleTyped == IdleOpener \in OpenerType
  BY DEF IdleOpener, OpenerType

(* The record of an opener that begins. *)
OpenFor(r, a) ==
    /\ r \in OpenerType
    /\ r.pc = "open" /\ r.addr = a /\ r.grant
    /\ r.fOneShot => a \in OneShotAddr

LEMMA OpenForFacts ==
    ASSUME NEW a \in Addr
    PROVE  /\ OpenFor([IdleOpener EXCEPT !.pc = "open", !.addr = a, !.grant = TRUE], a)
           /\ a \in OneShotAddr =>
                OpenFor([IdleOpener EXCEPT !.pc = "open", !.addr = a, !.grant = TRUE, !.fOneShot = TRUE], a)
  <1>1. IdleOpener \in OpenerType /\ IdleOpener.fOneShot = FALSE
    BY IdleTyped DEF IdleOpener
  <1> QED
    BY <1>1 DEF OpenFor, OpenerType

(* The turn of an opener's loop ends with nothing in hand. *)
LEMMA GiveUpInv ==
    ASSUME IndInv, NEW o \in Opener, opener[o].pc # "move",
           semOutbound' = semOutbound + (IF opener[o].grant THEN 1 ELSE 0),
           opener' = [opener EXCEPT ![o] = IdleOpener],
           vOneShots' \subseteq OneShotAddr,
           UNCHANGED <<node, vNodes, vNodesDisconnected, setBanned, net, msg, shared>>
    PROVE  IndInv'
  <1>1. opener' \in [Opener -> OpenerType] /\ opener'[o] = IdleOpener
        /\ \A p \in Opener : p # o => opener'[p] = opener[p]
    BY OpenerTyped, IdleTyped DEF IndInv
  <1>2. semOutbound' \in 0..MAX_OUTBOUND_CONNECTIONS
    BY SlotBack DEF IndInv, TypeOK
  <1>3. TypeOK'
    BY <1>1, <1>2 DEF IndInv, TypeOK, OpenerType
  <1>4. OpenerInv(o)'
    BY <1>1 DEF OpenerInv, IdleOpener, Pointing
  <1>5. semOutbound' + One(opener'[o].grant) = semOutbound + One(opener[o].grant)
    BY <1>1, <1>2, PeersAssumption DEF IdleOpener, One, IndInv, TypeOK
  <1>6. opener'[o].pc = "idle"
    BY <1>1 DEF IdleOpener
  <1> QED
    BY <1>1, <1>3, <1>4, <1>5, <1>6, OpenerMoves

(* An opener goes on to where it holds its grant as before. *)
LEMMA GoesInv ==
    ASSUME IndInv, NEW o \in Opener,
           NEW pc \in {"connect", "socket", "done"},
           \/ pc = "connect" /\ opener[o].pc = "open"
           \/ pc = "socket" /\ opener[o].pc = "connect"
           \/ pc = "done" /\ opener[o].pc = "oneshot",
           Goes(o, pc),
           UNCHANGED <<node, vNodes, vNodesDisconnected, semOutbound, setBanned, vOneShots, net, msg, shared>>
    PROVE  IndInv'
  <1>0. opener \in [Opener -> OpenerType] /\ OpenerInv(o)
    BY OpenerTyped DEF IndInv
  <1>1. opener' \in [Opener -> OpenerType] /\ opener'[o] = [opener[o] EXCEPT !.pc = pc]
        /\ \A p \in Opener : p # o => opener'[p] = opener[p]
    BY <1>0 DEF Goes, OpenerType
  <1>2. TypeOK'
    BY <1>1 DEF IndInv, TypeOK, OpenerType
  <1>3. OpenerInv(o)'
    BY <1>0, <1>1 DEF OpenerInv, Pointing, OpenerType
  <1>4. opener'[o].grant = opener[o].grant /\ opener'[o].pc = pc
    BY <1>0, <1>1 DEF OpenerType
  <1> QED
    BY <1>1, <1>2, <1>3, <1>4, OpenerMoves DEF IndInv, TypeOK

(* The steps of an opener that touch no node. *)
LEMMA OpenerInvs ==
    ASSUME IndInv, NEW o \in Opener,
           \/ OpenNetworkConnection(o) \/ NotFound(o) \/ ConnectFails(o) \/ MarkOneShot(o) \/ Opened(o)
           \/ FindExisting(o) \/ AddRefRead(o)
           \/ \E a \in Target[o] : Acquire(o, a)
           \/ \E a \in Addr : ProcessOneShot(o, a)
    PROVE  IndInv'
  <1>0. opener \in [Opener -> OpenerType] /\ OpenerInv(o) /\ vOneShots \subseteq OneShotAddr
    BY OpenerTyped DEF IndInv, TypeOK
  <1>1. ASSUME GiveUp(o) PROVE vOneShots' \subseteq OneShotAddr
    BY <1>0, <1>1 DEF GiveUp, OpenerInv
  <1>2. CASE OpenNetworkConnection(o)
    <2>1. CASE Refused(o)
      BY <1>1, <1>2, <2>1, GiveUpInv DEF OpenNetworkConnection, GiveUp
    <2>2. CASE ~ Refused(o)
      BY <1>2, <2>2, GoesInv DEF OpenNetworkConnection
    <2> QED
      BY <2>1, <2>2
  <1>3. CASE NotFound(o)
    BY <1>3, GoesInv DEF NotFound
  <1>4. CASE ConnectFails(o)
    BY <1>1, <1>4, GiveUpInv DEF ConnectFails, GiveUp
  <1>5. CASE MarkOneShot(o)
    BY <1>5, GoesInv DEF MarkOneShot
  <1>6. CASE Opened(o)
    BY <1>0, <1>6, GiveUpInv DEF Opened
  <1>7. CASE FindExisting(o)
    <2>1. PICK n \in FindNode(opener[o].addr) :
             /\ opener' = [opener EXCEPT ![o].pc = "found", ![o].pnode = n]
             /\ shared' = shared \cup {n}
      BY <1>7 DEF FindExisting
    <2>2. n \in vNodes /\ n \in Node /\ Live(n)
      BY DEF FindNode, IndInv, TypeOK, ListsInv
    <2>3. /\ opener' \in [Opener -> OpenerType]
          /\ opener'[o] = [opener[o] EXCEPT !.pc = "found", !.pnode = n]
          /\ \A p \in Opener : p # o => opener'[p] = opener[p]
      <3> DEFINE r == [opener[o] EXCEPT !.pc = "found", !.pnode = n]
      <3>1. r \in OpenerType
        BY <1>0, <2>2 DEF OpenerType
      <3>2. opener' = [opener EXCEPT ![o] = r]
        BY <2>1
      <3> HIDE DEF r
      <3>3. opener' \in [Opener -> OpenerType] /\ opener'[o] = r /\ \A p \in Opener : p # o => opener'[p] = opener[p]
        BY <1>0, <3>1, <3>2
      <3> QED
        BY <3>3 DEF r
    <2>4. TypeOK'
      BY <1>7, <2>1, <2>2, <2>3 DEF FindExisting, IndInv, TypeOK, OpenerType
    <2>5. /\ opener'[o].pc = "found" /\ opener'[o].pnode = n
          /\ opener'[o].grant = opener[o].grant /\ opener'[o].addr = opener[o].addr
          /\ opener'[o].fOneShot = opener[o].fOneShot
      BY <1>0, <2>3 DEF OpenerType
    <2>6. node' = node /\ node'[n] # None /\ n \in shared' /\ opener[o].pc = "connect"
      BY <1>7, <2>1, <2>2 DEF FindExisting, Live
    <2>7. OpenerInv(o)'
      BY <1>0, <2>2, <2>5, <2>6 DEF OpenerInv, Pointing
    <2>8. /\ UNCHANGED <<node, vNodes, vNodesDisconnected, semOutbound, net, msg>>
          /\ shared \subseteq shared' /\ \A m \in shared' \ shared : m \in vNodes
      BY <1>7, <2>1, <2>2 DEF FindExisting
    <2> QED
      BY <2>3, <2>4, <2>5, <2>6, <2>7, <2>8, OpenerMoves
  <1>8. CASE AddRefRead(o)
    <2> DEFINE r == node[opener[o].pnode].nRefCount + 1
    <2>1. r \in Int
      BY <1>0, <1>8, LiveFact DEF AddRefRead, OpenerInv, Pointing, IndInv
    <2>2. /\ opener' \in [Opener -> OpenerType]
          /\ opener'[o] = [opener[o] EXCEPT !.pc = "counted", !.nRef = r]
          /\ \A p \in Opener : p # o => opener'[p] = opener[p]
      <3> DEFINE rec == [opener[o] EXCEPT !.pc = "counted", !.nRef = r]
      <3>1. rec \in OpenerType
        BY <1>0, <2>1 DEF OpenerType
      <3>2. opener' = [opener EXCEPT ![o] = rec]
        BY <1>8 DEF AddRefRead
      <3> HIDE DEF rec
      <3>3. opener' \in [Opener -> OpenerType] /\ opener'[o] = rec /\ \A p \in Opener : p # o => opener'[p] = opener[p]
        BY <1>0, <3>1, <3>2
      <3> QED
        BY <3>3 DEF rec
    <2>3. TypeOK'
      BY <1>8, <2>2 DEF AddRefRead, IndInv, TypeOK, OpenerType
    <2>4. OpenerInv(o)'
      BY <1>0, <1>8, <2>2 DEF AddRefRead, OpenerInv, Pointing, OpenerType, Live
    <2>5. opener'[o].grant = opener[o].grant /\ opener'[o].pc = "counted"
      BY <1>0, <2>2 DEF OpenerType
    <2> QED
      BY <1>8, <2>2, <2>3, <2>4, <2>5, OpenerMoves DEF AddRefRead, IndInv, TypeOK
  <1>9. ASSUME NEW a \in Addr, NEW r, OpenFor(r, a),
               opener[o].pc = "idle", semOutbound > 0, semOutbound' = semOutbound - 1,
               opener' = [opener EXCEPT ![o] = r],
               vOneShots' \subseteq vOneShots,
               UNCHANGED <<node, vNodes, vNodesDisconnected, setBanned, net, msg, shared>>
        PROVE  IndInv'
    <2>1. /\ opener' \in [Opener -> OpenerType]
          /\ opener'[o] = r
          /\ \A p \in Opener : p # o => opener'[p] = opener[p]
      BY <1>0, <1>9 DEF OpenFor
    <2>2. semOutbound' \in 0..MAX_OUTBOUND_CONNECTIONS
      BY <1>9, PeersAssumption DEF IndInv, TypeOK
    <2>3. TypeOK'
      BY <1>0, <1>9, <2>1, <2>2 DEF IndInv, TypeOK, OpenerType
    <2>4. OpenerInv(o)'
      BY <1>9, <2>1 DEF OpenerInv, Pointing, OpenFor
    <2>5. ~ opener[o].grant /\ opener'[o].grant /\ opener'[o].pc = "open"
      BY <1>0, <1>9, <2>1 DEF OpenerInv, OpenFor
    <2>6. semOutbound' + One(opener'[o].grant) = semOutbound + One(opener[o].grant)
      BY <1>9, <2>5, PeersAssumption DEF One, IndInv, TypeOK
    <2> QED
      BY <1>9, <2>1, <2>3, <2>4, <2>5, <2>6, OpenerMoves
  <1>10. CASE \E a \in Target[o] : Acquire(o, a)
    <2>1. PICK a \in Target[o] : Acquire(o, a)
      BY <1>10
    <2>2. a \in Addr
      BY PeersAssumption
    <2> QED
      BY <1>9, <2>1, <2>2, OpenForFacts DEF Acquire
  <1>11. CASE \E a \in Addr : ProcessOneShot(o, a)
    <2>1. PICK a \in Addr : ProcessOneShot(o, a)
      BY <1>11
    <2>2. a \in OneShotAddr
      BY <1>0, <2>1 DEF ProcessOneShot
    <2>3. CASE semOutbound > 0
      BY <1>9, <2>1, <2>2, <2>3, OpenForFacts DEF ProcessOneShot
    <2>4. CASE ~ (semOutbound > 0)
      <3>1. UNCHANGED <<node, vNodes, vNodesDisconnected, semOutbound, setBanned, net, msg, opener, shared>>
        BY <2>1, <2>4 DEF ProcessOneShot
      <3>2. TypeOK'
        BY <1>0, <2>1, <3>1 DEF ProcessOneShot, IndInv, TypeOK
      <3>3. RefsInv'
        BY <3>1 DEF IndInv, RefsInv, Live, Held
      <3> QED
        BY <3>1, <3>2, <3>3, NodesKept DEF IndInv, ListsInv, Live
    <2> QED
      BY <2>3, <2>4
  <1> QED
    BY <1>2, <1>3, <1>4, <1>5, <1>6, <1>7, <1>8, <1>10, <1>11
-----------------------------------------------------------------------------
(* A node keeps its place, its flags and its slot. *)
Kept(n) ==
    /\ node'[n] = None <=> node[n] = None
    /\ Live(n)' <=> Live(n)
    /\ Live(n) => /\ node'[n].fInbound = node[n].fInbound
                  /\ node'[n].fNetworkNode = node[n].fNetworkNode
                  /\ node'[n].grantOutbound = node[n].grantOutbound

(* AddRef and Release of live nodes change their counts only. *)
LEMMA AddRefsFacts ==
    ASSUME TypeOK, NEW S \in SUBSET Node, \A n \in S : Live(n), node' = AddRefs(S)
    PROVE  /\ node' \in [Node -> Members \cup {None, Deleted}]
           /\ \A n \in Node : /\ Kept(n)
                              /\ Live(n) => node'[n].nRefCount = node[n].nRefCount + One(n \in S)
  <1>1. ASSUME NEW n \in Node
        PROVE  /\ node'[n] \in Members \cup {None, Deleted}
               /\ Kept(n)
               /\ Live(n) => node'[n].nRefCount = node[n].nRefCount + One(n \in S)
    <2>1. CASE n \in S
      <3>1. node[n] \in Members /\ Live(n)
        BY <2>1, LiveFact
      <3>2. node'[n] = [node[n] EXCEPT !.nRefCount = @ + 1]
        BY <2>1 DEF AddRefs
      <3>3. node'[n] \in Members /\ node'[n].nRefCount = node[n].nRefCount + 1
        BY <3>1, <3>2 DEF Members
      <3>4. /\ node'[n].fInbound = node[n].fInbound
            /\ node'[n].fNetworkNode = node[n].fNetworkNode
            /\ node'[n].grantOutbound = node[n].grantOutbound
        BY <3>1, <3>2 DEF Members
      <3>5. node'[n] # None /\ node'[n] # Deleted /\ node[n] # None
        BY <3>1, <3>3, PeersAssumption
      <3> QED
        BY <2>1, <3>1, <3>3, <3>4, <3>5 DEF Kept, One, Live
    <2>2. CASE n \notin S
      <3>1. node'[n] = node[n]
        BY <2>2 DEF AddRefs
      <3>2. Live(n) => node[n].nRefCount \in Int
        BY LiveFact
      <3>3. node[n] \in Members \cup {None, Deleted}
        BY DEF TypeOK
      <3> QED
        BY <2>2, <3>1, <3>2, <3>3 DEF Kept, One, Live
    <2> QED
      BY <2>1, <2>2
  <1>2. node' = [n \in Node |-> node'[n]]
    BY DEF AddRefs
  <1> QED
    BY <1>1, <1>2

LEMMA ReleasesFacts ==
    ASSUME TypeOK, NEW S \in SUBSET Node, \A n \in S : Live(n), node' = Releases(S)
    PROVE  /\ node' \in [Node -> Members \cup {None, Deleted}]
           /\ \A n \in Node : /\ Kept(n)
                              /\ Live(n) => node'[n].nRefCount = node[n].nRefCount - One(n \in S)
  <1>1. ASSUME NEW n \in Node
        PROVE  /\ node'[n] \in Members \cup {None, Deleted}
               /\ Kept(n)
               /\ Live(n) => node'[n].nRefCount = node[n].nRefCount - One(n \in S)
    <2>1. CASE n \in S
      <3>1. node[n] \in Members /\ Live(n)
        BY <2>1, LiveFact
      <3>2. node'[n] = [node[n] EXCEPT !.nRefCount = @ - 1]
        BY <2>1 DEF Releases
      <3>3. node'[n] \in Members /\ node'[n].nRefCount = node[n].nRefCount - 1
        BY <3>1, <3>2 DEF Members
      <3>4. /\ node'[n].fInbound = node[n].fInbound
            /\ node'[n].fNetworkNode = node[n].fNetworkNode
            /\ node'[n].grantOutbound = node[n].grantOutbound
        BY <3>1, <3>2 DEF Members
      <3>5. node'[n] # None /\ node'[n] # Deleted /\ node[n] # None
        BY <3>1, <3>3, PeersAssumption
      <3> QED
        BY <2>1, <3>1, <3>3, <3>4, <3>5 DEF Kept, One, Live
    <2>2. CASE n \notin S
      <3>1. node'[n] = node[n]
        BY <2>2 DEF Releases
      <3>2. Live(n) => node[n].nRefCount \in Int
        BY LiveFact
      <3>3. node[n] \in Members \cup {None, Deleted}
        BY DEF TypeOK
      <3> QED
        BY <2>2, <3>1, <3>2, <3>3 DEF Kept, One, Live
    <2> QED
      BY <2>1, <2>2
  <1>2. node' = [n \in Node |-> node'[n]]
    BY DEF Releases
  <1> QED
    BY <1>1, <1>2

(* One flag of a node is set. *)
LEMMA SetFlag ==
    ASSUME NEW r \in Members
    PROVE  /\ [r EXCEPT !.fDisconnect = TRUE] \in Members
           /\ [r EXCEPT !.fNetworkNode = TRUE] \in Members
           /\ [r EXCEPT !.grantOutbound = TRUE] \in Members
  <1>1. ASSUME NEW b \in BOOLEAN
        PROVE  /\ [r EXCEPT !.fDisconnect = b] \in Members
               /\ [r EXCEPT !.fNetworkNode = b] \in Members
               /\ [r EXCEPT !.grantOutbound = b] \in Members
    BY DEF Members
  <1> QED
    BY <1>1

(* A live node is to be disconnected. *)
LEMMA DisconnectFacts ==
    ASSUME TypeOK, NEW m \in Node, Live(m), node' = [node EXCEPT ![m].fDisconnect = TRUE]
    PROVE  /\ node' \in [Node -> Members \cup {None, Deleted}]
           /\ \A n \in Node : /\ Kept(n)
                              /\ Live(n) => node'[n].nRefCount = node[n].nRefCount
  <1>0. node \in [Node -> Members \cup {None, Deleted}]
    BY DEF TypeOK
  <1>1. node[m] \in Members
    BY LiveFact
  <1>2. node'[m] = [node[m] EXCEPT !.fDisconnect = TRUE] /\ \A n \in Node : n # m => node'[n] = node[n]
    BY <1>0
  <1>3. /\ node'[m] \in Members /\ node'[m].nRefCount = node[m].nRefCount
        /\ node'[m].fInbound = node[m].fInbound
        /\ node'[m].fNetworkNode = node[m].fNetworkNode
        /\ node'[m].grantOutbound = node[m].grantOutbound
    <2>1. node'[m] \in Members
      BY <1>1, <1>2, SetFlag
    <2>2. node'[m].nRefCount = node[m].nRefCount
      BY <1>1, <1>2 DEF Members
    <2>3. node'[m].fInbound = node[m].fInbound
      BY <1>1, <1>2 DEF Members
    <2>4. node'[m].fNetworkNode = node[m].fNetworkNode
      BY <1>1, <1>2 DEF Members
    <2>5. node'[m].grantOutbound = node[m].grantOutbound
      BY <1>1, <1>2 DEF Members
    <2> QED
      BY <2>1, <2>2, <2>3, <2>4, <2>5
  <1>4. node'[m] # None /\ node'[m] # Deleted /\ node[m] # None
    BY <1>1, <1>3, PeersAssumption
  <1>5. node' \in [Node -> Members \cup {None, Deleted}]
    BY <1>0, <1>2, <1>3
  <1> QED
    BY <1>2, <1>3, <1>4, <1>5 DEF Kept, Live

(* The steps of the two handlers that keep the nodes where they are. *)
LEMMA HandlersInv ==
    ASSUME IndInv,
           \/ NoAccept \/ NetCopy \/ NetRelease \/ MsgCopy \/ MsgRelease
           \/ \E n \in Node : ServiceSocket(n) \/ ProcessMessages(n) \/ Misbehaving(n)
           \/ \E a \in Addr : BanExpires(a)
    PROVE  IndInv'
  <1>0. /\ TypeOK /\ ListsInv /\ RefsInv
        /\ vNodes \in SUBSET Node /\ (\A n \in vNodes : Live(n))
        /\ net.copy \in SUBSET Node /\ msg.copy \in SUBSET Node
    BY DEF IndInv, TypeOK, ListsInv
  <1>1. CASE NoAccept \/ \E a \in Addr : BanExpires(a)
    <2>1. /\ UNCHANGED <<node, vNodes, vNodesDisconnected, opener, shared, semOutbound, msg, vOneShots>>
          /\ net' = net \/ (net.pc = "accept" /\ net' = [net EXCEPT !.pc = "copy"])
          /\ setBanned' \subseteq setBanned
      BY <1>1 DEF NoAccept, BanExpires
    <2>2. /\ net' \in [pc : {"disconnect", "accept", "copy", "service"}, copy : SUBSET Node]
          /\ net'.copy = net.copy
          /\ net'.pc # "service" => net'.copy = {}
      BY <1>0, <2>1 DEF TypeOK, ListsInv
    <2>3. TypeOK'
      BY <1>0, <2>1, <2>2 DEF TypeOK
    <2>4. RefsInv'
      BY <1>0, <2>1, <2>2 DEF RefsInv, Live, Held
    <2> QED
      BY <1>0, <2>1, <2>2, <2>3, <2>4, NodesKept DEF ListsInv, Live
  <1>2. ASSUME NEW n \in Node, ServiceSocket(n) \/ ProcessMessages(n) \/ Misbehaving(n)
        PROVE  IndInv'
    <2>1. /\ UNCHANGED <<vNodes, vNodesDisconnected, opener, shared, semOutbound, net, msg, vOneShots>>
          /\ Live(n) /\ node' = [node EXCEPT ![n].fDisconnect = TRUE]
          /\ setBanned' = setBanned \/ setBanned' = setBanned \cup {node[n].addr}
      BY <1>2 DEF ServiceSocket, ProcessMessages, Misbehaving
    <2>2. /\ node' \in [Node -> Members \cup {None, Deleted}]
          /\ \A m \in Node : /\ Kept(m)
                             /\ Live(m) => node'[m].nRefCount = node[m].nRefCount
      BY <1>0, <2>1, DisconnectFacts
    <2>3. setBanned' \subseteq Addr
      BY <1>0, <2>1, LiveFact DEF TypeOK
    <2>4. TypeOK'
      BY <1>0, <2>1, <2>2, <2>3 DEF TypeOK
    <2>5. RefsInv'
      BY <1>0, <2>1, <2>2 DEF RefsInv, Held, Kept
    <2> QED
      BY <1>0, <2>1, <2>2, <2>4, <2>5, NodesKept DEF ListsInv, Kept
  <1>3. CASE NetCopy \/ MsgCopy
    <2>1. /\ UNCHANGED <<vNodes, vNodesDisconnected, opener, shared, semOutbound, vOneShots, setBanned>>
          /\ node' = AddRefs(vNodes)
          /\ \/ net.pc = "copy" /\ net' = [pc |-> "service", copy |-> vNodes] /\ msg' = msg
             \/ msg.pc = "copy" /\ msg' = [pc |-> "work", copy |-> vNodes] /\ net' = net
      BY <1>3 DEF NetCopy, MsgCopy
    <2>2. /\ node' \in [Node -> Members \cup {None, Deleted}]
          /\ \A m \in Node : /\ Kept(m)
                             /\ Live(m) => node'[m].nRefCount = node[m].nRefCount + One(m \in vNodes)
      BY <1>0, <2>1, AddRefsFacts
    <2>3. TypeOK'
      BY <1>0, <2>1, <2>2 DEF TypeOK
    <2>4. RefsInv'
      <3> SUFFICES ASSUME NEW n \in Node \ shared
                   PROVE  /\ Live(n)' => node'[n].nRefCount >= Held(n)'
                          /\ n \in net'.copy \cup msg'.copy => Live(n)'
        BY <2>1 DEF RefsInv
      <3>1. Live(n) => node[n].nRefCount \in Int /\ node[n].nRefCount >= Held(n)
        BY <1>0, LiveFact DEF RefsInv
      <3>2. \/ /\ net.copy = {} /\ net'.copy = vNodes /\ msg'.copy = msg.copy
            \/ /\ msg.copy = {} /\ msg'.copy = vNodes /\ net'.copy = net.copy
        BY <1>0, <2>1 DEF ListsInv
      <3>3. Live(n) => Held(n)' = Held(n) + One(n \in vNodes)
        BY <2>1, <2>2, <3>2 DEF Held, One, Kept
      <3>4. Held(n) \in Int
        BY DEF Held, One
      <3> QED
        BY <1>0, <2>2, <3>1, <3>2, <3>3, <3>4 DEF Kept, RefsInv, One
    <2> QED
      BY <1>0, <2>1, <2>2, <2>3, <2>4, NodesKept DEF ListsInv, Kept
  <1>4. CASE NetRelease \/ MsgRelease
    <2>1. /\ UNCHANGED <<vNodes, vNodesDisconnected, opener, shared, semOutbound, vOneShots, setBanned>>
          /\ \/ /\ net' = [pc |-> "disconnect", copy |-> {}] /\ msg' = msg
                /\ node' = Releases(net.copy) /\ \A n \in net.copy : Live(n)
             \/ /\ msg' = [pc |-> "copy", copy |-> {}] /\ net' = net
                /\ node' = Releases(msg.copy) /\ \A n \in msg.copy : Live(n)
      BY <1>4 DEF NetRelease, MsgRelease
    <2>2. PICK S \in SUBSET Node :
             /\ node' = Releases(S) /\ \A n \in S : Live(n)
             /\ \/ S = net.copy /\ net'.copy = {} /\ msg'.copy = msg.copy
                \/ S = msg.copy /\ msg'.copy = {} /\ net'.copy = net.copy
      BY <1>0, <2>1
    <2>3. /\ node' \in [Node -> Members \cup {None, Deleted}]
          /\ \A m \in Node : /\ Kept(m)
                             /\ Live(m) => node'[m].nRefCount = node[m].nRefCount - One(m \in S)
      BY <1>0, <2>2, ReleasesFacts
    <2>4. TypeOK'
      BY <1>0, <2>1, <2>3 DEF TypeOK
    <2>5. RefsInv'
      <3> SUFFICES ASSUME NEW n \in Node \ shared
                   PROVE  /\ Live(n)' => node'[n].nRefCount >= Held(n)'
                          /\ n \in net'.copy \cup msg'.copy => Live(n)'
        BY <2>1 DEF RefsInv
      <3>1. Live(n) => node[n].nRefCount \in Int /\ node[n].nRefCount >= Held(n)
        BY <1>0, LiveFact DEF RefsInv
      <3>2. Live(n) => Held(n)' = Held(n) - One(n \in S)
        BY <2>1, <2>2, <2>3 DEF Held, One, Kept
      <3>3. Held(n) \in Int
        BY DEF Held, One
      <3> QED
        BY <1>0, <2>2, <2>3, <3>1, <3>2, <3>3 DEF Kept, RefsInv, One
    <2> QED
      BY <1>0, <2>1, <2>2, <2>3, <2>4, <2>5, NodesKept DEF ListsInv, Kept
  <1> QED
    BY <1>1, <1>2, <1>3, <1>4
-----------------------------------------------------------------------------
(* ConnectNode writes back the count of a node that it found. *)
LEMMA AddRefWriteInv ==
    ASSUME IndInv, NEW o \in Opener, AddRefWrite(o)
    PROVE  IndInv'
  <1> DEFINE m == opener[o].pnode
  <1>0. /\ TypeOK /\ ListsInv /\ RefsInv /\ OpenerInv(o) /\ opener \in [Opener -> OpenerType]
        /\ node \in [Node -> Members \cup {None, Deleted}]
        /\ vNodes \subseteq Node /\ \A n \in vNodes : Live(n)
    BY OpenerTyped DEF IndInv, TypeOK, ListsInv
  <1>1. /\ opener[o].pc = "counted" /\ Live(m) /\ Goes(o, "move")
        /\ node' = [node EXCEPT ![m].nRefCount = opener[o].nRef]
        /\ UNCHANGED <<vNodes, vNodesDisconnected, semOutbound, setBanned, vOneShots, net, msg, shared>>
    BY DEF AddRefWrite
  <1>2. m \in Node /\ m \in shared /\ node[m] \in Members
    BY <1>0, <1>1, LiveFact DEF OpenerInv, Pointing
  <1>3. /\ node'[m] = [node[m] EXCEPT !.nRefCount = opener[o].nRef]
        /\ \A n \in Node : n # m => node'[n] = node[n]
    BY <1>0, <1>1, <1>2
  <1>4. /\ node'[m] \in Members
        /\ node'[m].fInbound = node[m].fInbound
        /\ node'[m].fNetworkNode = node[m].fNetworkNode
        /\ node'[m].grantOutbound = node[m].grantOutbound
    BY <1>0, <1>2, <1>3 DEF Members, OpenerType
  <1>5. \A n \in Node : Kept(n)
    BY <1>2, <1>3, <1>4, PeersAssumption DEF Kept, Live
  <1>6. node' \in [Node -> Members \cup {None, Deleted}]
    BY <1>0, <1>1, <1>2, <1>3, <1>4
  <1>7. /\ opener' \in [Opener -> OpenerType]
        /\ opener'[o].pc = "move" /\ opener'[o].pnode = m /\ opener'[o].grant = opener[o].grant
        /\ opener'[o].addr = opener[o].addr /\ opener'[o].fOneShot = opener[o].fOneShot
        /\ \A p \in Opener : p # o => opener'[p] = opener[p]
    BY <1>0, <1>1 DEF Goes, OpenerType
  <1>8. TypeOK'
    BY <1>0, <1>1, <1>6, <1>7 DEF TypeOK, OpenerType
  <1>9. \A p \in Opener : OpenerInv(p)'
    <2>1. OpenerInv(o)'
      BY <1>0, <1>1, <1>2, <1>5, <1>7 DEF OpenerInv, Pointing, Kept
    <2>2. ASSUME NEW p \in Opener, p # o PROVE OpenerInv(p)'
      <3>1. OpenerInv(p) /\ opener'[p] = opener[p]
        BY <1>7, <2>2 DEF IndInv
      <3> QED
        BY <1>1, <1>5, <3>1 DEF OpenerInv, Pointing, Kept
    <2> QED
      BY <2>1, <2>2
  <1>10. OpenersApart'
    BY <1>1, <1>2, <1>7 DEF IndInv, OpenersApart
  <1>11. ListsInv'
    BY <1>0, <1>1, <1>5 DEF ListsInv, Kept, TypeOK
  <1>12. RefsInv'
    BY <1>0, <1>1, <1>2, <1>3 DEF RefsInv, Held, Live
  <1>13. OutboundHeld'
    BY <1>0, <1>1, <1>5, <1>7 DEF IndInv, OutboundHeld, Kept
  <1>14. InboundSet' = InboundSet /\ GrantSet' = GrantSet /\ OpenerGrantSet' = OpenerGrantSet
    BY <1>0, <1>1, <1>5, <1>7 DEF InboundSet, GrantSet, OpenerGrantSet, Kept
  <1>15. InboundLimit' /\ SlotsConserved'
    BY <1>1, <1>14 DEF IndInv, InboundLimit, SlotsConserved, InboundSet, GrantSet, OpenerGrantSet,
                OpenerGrants, NodeGrants
  <1> QED
    BY <1>8, <1>9, <1>10, <1>11, <1>12, <1>13, <1>15 DEF IndInv

(* fNetworkNode is set: the reference is the node's own from here on. *)
LEMMA MarkNetworkNodeInv ==
    ASSUME IndInv, NEW o \in Opener, MarkNetworkNode(o)
    PROVE  IndInv'
  <1> DEFINE to == IF opener[o].fOneShot THEN "oneshot" ELSE "done"
  <1>0. /\ TypeOK /\ ListsInv /\ RefsInv /\ OpenerInv(o) /\ opener \in [Opener -> OpenerType]
        /\ node \in [Node -> Members \cup {None, Deleted}]
        /\ vNodes \subseteq Node /\ \A n \in vNodes : Live(n)
    BY OpenerTyped DEF IndInv, TypeOK, ListsInv
  <1>m. PICK m \in Node : m = opener[o].pnode
    BY <1>0 DEF MarkNetworkNode, OpenerInv, Pointing
  <1>1. /\ opener[o].pc = "mark" /\ Live(m) /\ Goes(o, to)
        /\ node' = [node EXCEPT ![m].fNetworkNode = TRUE]
        /\ UNCHANGED <<vNodes, vNodesDisconnected, semOutbound, setBanned, vOneShots, net, msg, shared>>
    BY <1>m DEF MarkNetworkNode
  <1>2. m \in Node /\ node[m] \in Members
    BY <1>0, <1>1, LiveFact
  <1>3. /\ node'[m] = [node[m] EXCEPT !.fNetworkNode = TRUE]
        /\ \A n \in Node : n # m => node'[n] = node[n]
    BY <1>0, <1>1, <1>2
  <1>4. node'[m] \in Members
    BY <1>2, <1>3, SetFlag
  <1>5. /\ node'[m].fInbound = node[m].fInbound
        /\ node'[m].nRefCount = node[m].nRefCount
        /\ node'[m].grantOutbound = node[m].grantOutbound
    <2>1. node'[m].fInbound = node[m].fInbound
      BY <1>2, <1>3 DEF Members
    <2>2. node'[m].nRefCount = node[m].nRefCount
      BY <1>2, <1>3 DEF Members
    <2>3. node'[m].grantOutbound = node[m].grantOutbound
      BY <1>2, <1>3 DEF Members
    <2> QED
      BY <2>1, <2>2, <2>3
  <1>6. node'[m].fNetworkNode
    BY <1>2, <1>3 DEF Members
  <1>7. Live(m)' /\ node'[m] # None
    BY <1>4, PeersAssumption DEF Live
  <1>8. node' \in [Node -> Members \cup {None, Deleted}]
    BY <1>0, <1>1, <1>2, <1>3, <1>4
  <1>9. /\ opener' \in [Opener -> OpenerType]
        /\ opener'[o].pc = to /\ opener'[o].pnode = m /\ opener'[o].grant = opener[o].grant
        /\ opener'[o].addr = opener[o].addr /\ opener'[o].fOneShot = opener[o].fOneShot
        /\ \A p \in Opener : p # o => opener'[p] = opener[p]
    BY <1>0, <1>1, <1>m DEF Goes, OpenerType
  <1>10. TypeOK'
    BY <1>0, <1>1, <1>8, <1>9 DEF TypeOK, OpenerType
  <1>11. \A p \in Opener : OpenerInv(p)'
    <2>1. OpenerInv(o)'
      BY <1>0, <1>1, <1>2, <1>7, <1>9, <1>m DEF OpenerInv, Pointing
    <2>2. ASSUME NEW p \in Opener, p # o PROVE OpenerInv(p)'
      <3>1. OpenerInv(p) /\ opener'[p] = opener[p]
        BY <1>9, <2>2 DEF IndInv
      <3>2. opener[p].pc \in {"move", "mark"} /\ opener[p].pnode = m => m \in shared
        BY <1>1, <1>m, <2>2 DEF IndInv, OpenersApart
      <3>3. CASE opener[p].pnode = m
        BY <1>1, <1>7, <3>1, <3>2, <3>3 DEF OpenerInv, Pointing
      <3>4. CASE opener[p].pnode # m
        BY <1>1, <1>3, <3>1, <3>4 DEF OpenerInv, Pointing, Live
      <3> QED
        BY <3>3, <3>4
    <2> QED
      BY <2>1, <2>2
  <1>12. OpenersApart'
    BY <1>1, <1>9 DEF IndInv, OpenersApart
  <1>13. ListsInv'
    BY <1>0, <1>1, <1>3, <1>7 DEF ListsInv, TypeOK, Live
  <1>14. RefsInv'
    <2> SUFFICES ASSUME NEW n \in Node \ shared
                 PROVE  /\ Live(n)' => node'[n].nRefCount >= Held(n)'
                        /\ n \in net'.copy \cup msg'.copy => Live(n)'
      BY <1>1 DEF RefsInv
    <2>1. CASE n # m
      BY <1>0, <1>1, <1>3, <2>1 DEF RefsInv, Held, Live
    <2>2. CASE n = m
      <3>1. node[n].nRefCount \in Int /\ node[n].nRefCount >= Held(n)
        BY <1>0, <1>1, <2>2, LiveFact DEF RefsInv
      <3>2. Held(n)' <= Held(n) /\ Held(n) \in Int /\ Held(n)' \in Int
        BY <1>0, <1>1, <1>5, <1>6, <2>2 DEF Held, One
      <3> QED
        BY <1>5, <1>7, <2>2, <3>1, <3>2
    <2> QED
      BY <2>1, <2>2
  <1>15. OutboundHeld'
    BY <1>0, <1>1, <1>3, <1>5, <1>9 DEF IndInv, OutboundHeld
  <1>16. InboundSet' = InboundSet /\ GrantSet' = GrantSet /\ OpenerGrantSet' = OpenerGrantSet
    BY <1>0, <1>1, <1>3, <1>5, <1>7, <1>9 DEF InboundSet, GrantSet, OpenerGrantSet, Live
  <1>17. InboundLimit' /\ SlotsConserved'
    BY <1>1, <1>16 DEF IndInv, InboundLimit, SlotsConserved, InboundSet, GrantSet, OpenerGrantSet,
                OpenerGrants, NodeGrants
  <1> QED
    BY <1>10, <1>11, <1>12, <1>13, <1>14, <1>15, <1>17 DEF IndInv

(* The grant moves to the node, which gives up the slot it had. *)
LEMMA MoveGrantInv ==
    ASSUME IndInv, NEW o \in Opener, MoveGrant(o)
    PROVE  IndInv'
  <1>0. /\ TypeOK /\ ListsInv /\ RefsInv /\ OpenerInv(o) /\ opener \in [Opener -> OpenerType]
        /\ node \in [Node -> Members \cup {None, Deleted}]
        /\ vNodes \subseteq Node /\ \A n \in vNodes : Live(n)
    BY OpenerTyped DEF IndInv, TypeOK, ListsInv
  <1>m. PICK m \in Node : m = opener[o].pnode
    BY <1>0 DEF MoveGrant, OpenerInv, Pointing
  <1>1. /\ opener[o].pc = "move" /\ Live(m)
        /\ semOutbound' = semOutbound + Grants({m})
        /\ node' = [node EXCEPT ![m].grantOutbound = TRUE]
        /\ opener' = [opener EXCEPT ![o].pc = "mark", ![o].grant = FALSE]
        /\ UNCHANGED <<vNodes, vNodesDisconnected, setBanned, vOneShots, net, msg, shared>>
    BY <1>m DEF MoveGrant
  <1>2. m \in Node /\ node[m] \in Members /\ node[m].grantOutbound \in BOOLEAN
    BY <1>0, <1>1, LiveFact
  <1>3. /\ node'[m] = [node[m] EXCEPT !.grantOutbound = TRUE]
        /\ \A n \in Node : n # m => node'[n] = node[n]
    BY <1>0, <1>1, <1>2
  <1>4. node'[m] \in Members
    BY <1>2, <1>3, SetFlag
  <1>5. /\ node'[m].fInbound = node[m].fInbound
        /\ node'[m].nRefCount = node[m].nRefCount
        /\ node'[m].fNetworkNode = node[m].fNetworkNode
    <2>1. node'[m].fInbound = node[m].fInbound
      BY <1>2, <1>3 DEF Members
    <2>2. node'[m].nRefCount = node[m].nRefCount
      BY <1>2, <1>3 DEF Members
    <2>3. node'[m].fNetworkNode = node[m].fNetworkNode
      BY <1>2, <1>3 DEF Members
    <2> QED
      BY <2>1, <2>2, <2>3
  <1>6. node'[m].grantOutbound
    BY <1>2, <1>3 DEF Members
  <1>7. Live(m)' /\ node'[m] # None
    BY <1>4, PeersAssumption DEF Live
  <1>8. node' \in [Node -> Members \cup {None, Deleted}]
    BY <1>0, <1>1, <1>2, <1>3, <1>4
  <1>9. /\ opener' \in [Opener -> OpenerType]
        /\ opener'[o] = [opener[o] EXCEPT !.pc = "mark", !.grant = FALSE]
        /\ \A p \in Opener : p # o => opener'[p] = opener[p]
    <2> DEFINE rec == [opener[o] EXCEPT !.pc = "mark", !.grant = FALSE]
    <2>1. rec \in OpenerType
      BY <1>0 DEF OpenerType
    <2>2. opener' = [opener EXCEPT ![o] = rec]
      BY <1>1
    <2> HIDE DEF rec
    <2>3. opener' \in [Opener -> OpenerType] /\ opener'[o] = rec /\ \A p \in Opener : p # o => opener'[p] = opener[p]
      BY <1>0, <2>1, <2>2
    <2> QED
      BY <2>3 DEF rec
  <1>10. /\ opener'[o].pc = "mark" /\ opener'[o].pnode = m /\ ~ opener'[o].grant
         /\ opener'[o].addr = opener[o].addr /\ opener'[o].fOneShot = opener[o].fOneShot
    BY <1>0, <1>9, <1>m DEF OpenerType
  <1>11. Grants({m}) = One(m \in GrantSet) /\ semOutbound + Grants({m}) \in 0..MAX_OUTBOUND_CONNECTIONS
    <2>1. CASE m \in GrantSet
      <3>1. {n \in {m} : node[n].grantOutbound} = {m}
        BY <2>1 DEF GrantSet
      <3>2. Grants({m}) = Cardinality({m}) /\ Cardinality({m}) = 1
        BY <3>1, FS_Singleton DEF Grants
      <3>3. {m} \in SUBSET GrantSet
        BY <2>1
      <3> QED
        BY <2>1, <3>2, <3>3, SlotBack DEF One
    <2>2. CASE m \notin GrantSet
      <3>1. {n \in {m} : node[n].grantOutbound} = {}
        BY <1>1, <1>2, <2>2 DEF GrantSet
      <3>2. Grants({m}) = 0
        BY <3>1, FS_EmptySet DEF Grants
      <3> QED
        BY <1>0, <2>2, <3>2, PeersAssumption DEF One, TypeOK
    <2> QED
      BY <2>1, <2>2
  <1>12. TypeOK'
    BY <1>0, <1>1, <1>8, <1>9, <1>11 DEF TypeOK, OpenerType
  <1>13. \A p \in Opener : OpenerInv(p)'
    <2>1. OpenerInv(o)'
      BY <1>0, <1>1, <1>2, <1>5, <1>7, <1>10, <1>m DEF OpenerInv, Pointing
    <2>2. ASSUME NEW p \in Opener, p # o PROVE OpenerInv(p)'
      <3>1. OpenerInv(p) /\ opener'[p] = opener[p]
        BY <1>9, <2>2 DEF IndInv
      <3>2. CASE opener[p].pnode = m
        BY <1>1, <1>5, <1>7, <3>1, <3>2 DEF OpenerInv, Pointing
      <3>3. CASE opener[p].pnode # m
        BY <1>1, <1>3, <3>1, <3>3 DEF OpenerInv, Pointing, Live
      <3> QED
        BY <3>2, <3>3
    <2> QED
      BY <2>1, <2>2
  <1>14. OpenersApart'
    BY <1>1, <1>9, <1>10, <1>m DEF IndInv, OpenersApart
  <1>15. ListsInv'
    BY <1>0, <1>1, <1>3, <1>7 DEF ListsInv, TypeOK, Live
  <1>16. RefsInv'
    BY <1>0, <1>1, <1>3, <1>5, <1>7 DEF RefsInv, Held, Live
  <1>17. OutboundHeld'
    BY <1>0, <1>1, <1>3, <1>6, <1>9, <1>m DEF IndInv, OutboundHeld
  <1>18. InboundSet' = InboundSet /\ GrantSet' = GrantSet \cup {m}
    BY <1>0, <1>1, <1>2, <1>3, <1>5, <1>6, <1>7 DEF InboundSet, GrantSet, Live
  <1>19. InboundLimit'
    BY <1>18 DEF IndInv, InboundLimit, InboundSet
  <1>20. SlotsConserved'
    <2>1. Cardinality(GrantSet') = Cardinality(GrantSet) + 1 - One(m \in GrantSet)
      <3>1. Cardinality(GrantSet') = IF m \in GrantSet THEN Cardinality(GrantSet) ELSE Cardinality(GrantSet) + 1
        BY <1>0, <1>18, Finite, FS_AddElement
      <3> QED
        BY <1>0, <3>1, Finite DEF One
    <2>2. Cardinality(OpenerGrantSet') = Cardinality(OpenerGrantSet) - 1
      <3>1. o \in OpenerGrantSet
        BY <1>0, <1>1 DEF OpenerGrantSet, OpenerInv
      <3>2. OpenerGrantSet' = OpenerGrantSet \ {o}
        BY <1>9, <1>10 DEF OpenerGrantSet
      <3> QED
        BY <1>0, <3>1, <3>2, Finite, FS_RemoveElement
    <2>3. semOutbound \in Int
      BY <1>0, PeersAssumption DEF TypeOK
    <2>4. semOutbound + Cardinality(OpenerGrantSet) + Cardinality(GrantSet) = MAX_OUTBOUND_CONNECTIONS
      BY Slots DEF IndInv
    <2>5. semOutbound' + Cardinality(OpenerGrantSet') + Cardinality(GrantSet') = MAX_OUTBOUND_CONNECTIONS
      BY <1>0, <1>1, <1>11, <2>1, <2>2, <2>3, <2>4, Finite DEF One
    <2> QED
      BY <2>5 DEF SlotsConserved, OpenerGrants, NodeGrants, OpenerGrantSet, GrantSet
  <1> QED
    BY <1>12, <1>13, <1>14, <1>15, <1>16, <1>17, <1>19, <1>20 DEF IndInv

LEMMA NewNodeTyped ==
    ASSUME NEW a \in Addr, NEW inb \in BOOLEAN
    PROVE  NewNode(a, inb) \in Members
  BY DEF NewNode, Members

(* A node is constructed: nobody had it before. *)
LEMMA CreateInv ==
    ASSUME IndInv, TypeOK', NEW m \in Node, NEW a \in Addr, NEW inb \in BOOLEAN,
           node[m] = None, node' = [node EXCEPT ![m] = NewNode(a, inb)],
           vNodes' = vNodes \cup {m},
           inb => RoomInbound,
           inb => opener' = opener,
           ~ inb => \E o \in Opener :
               /\ opener[o].pc = "socket" /\ opener'[o].pc = "move" /\ opener'[o].pnode = m
               /\ opener'[o].grant = opener[o].grant /\ opener'[o].addr = opener[o].addr
               /\ opener'[o].fOneShot = opener[o].fOneShot
               /\ \A p \in Opener : p # o => opener'[p] = opener[p],
           net' = net \/ (net.copy = {} /\ net'.copy = {} /\ net'.pc # "service"),
           UNCHANGED <<vNodesDisconnected, semOutbound, msg, shared>>
    PROVE  IndInv'
  <1>0. /\ TypeOK /\ ListsInv /\ RefsInv
        /\ node \in [Node -> Members \cup {None, Deleted}]
        /\ vNodes \subseteq Node /\ \A n \in vNodes \cup vNodesDisconnected : Live(n)
        /\ net'.copy = net.copy
    BY DEF IndInv, TypeOK, ListsInv
  <1>1. /\ node'[m] = NewNode(a, inb) /\ \A n \in Node : n # m => node'[n] = node[n]
    BY <1>0
  <1>2. /\ node'[m] \in Members /\ node'[m].fInbound = inb /\ node'[m].nRefCount = 1
        /\ ~ node'[m].fNetworkNode /\ ~ node'[m].grantOutbound
    <2>1. node'[m] \in Members
      BY <1>1, NewNodeTyped
    <2>2. node'[m].fInbound = inb /\ node'[m].nRefCount = 1
      BY <1>1 DEF NewNode
    <2>3. ~ node'[m].fNetworkNode /\ ~ node'[m].grantOutbound
      BY <1>1 DEF NewNode
    <2> QED
      BY <2>1, <2>2, <2>3
  <1>3. Live(m)' /\ node'[m] # None /\ ~ Live(m)
    BY <1>2, PeersAssumption DEF Live
  <1>4. m \notin vNodes \cup vNodesDisconnected \cup net.copy \cup msg.copy \cup shared
    BY <1>0, <1>3 DEF ListsInv
  <1>5. \A p \in Opener : opener[p].pc \in Pointing => opener[p].pnode # m
    BY DEF IndInv, OpenerInv
  <1>6. \A p \in Opener : OpenerInv(p)'
    <2> SUFFICES ASSUME NEW p \in Opener PROVE OpenerInv(p)'
      OBVIOUS
    <2>0. OpenerInv(p)
      BY DEF IndInv
    <2>1. CASE opener'[p] = opener[p]
      BY <1>1, <1>5, <2>0, <2>1 DEF OpenerInv, Pointing, Live
    <2>2. CASE opener'[p] # opener[p]
      <3>1. /\ opener[p].pc = "socket" /\ opener'[p].pc = "move" /\ opener'[p].pnode = m
            /\ opener'[p].grant = opener[p].grant /\ opener'[p].addr = opener[p].addr
            /\ opener'[p].fOneShot = opener[p].fOneShot /\ ~ inb
        BY <2>2
      <3> QED
        BY <1>2, <1>3, <2>0, <3>1 DEF OpenerInv, Pointing
    <2> QED
      BY <2>1, <2>2
  <1>7. OpenersApart'
    BY <1>5 DEF IndInv, OpenersApart, Pointing
  <1>8. ListsInv'
    BY <1>0, <1>1, <1>3, <1>4 DEF ListsInv, TypeOK, Live
  <1>9. RefsInv'
    <2> SUFFICES ASSUME NEW n \in Node \ shared
                 PROVE  /\ Live(n)' => node'[n].nRefCount >= Held(n)'
                        /\ n \in net'.copy \cup msg'.copy => Live(n)'
      BY DEF RefsInv
    <2>1. CASE n = m
      BY <1>0, <1>2, <1>4, <2>1 DEF Held, One
    <2>2. CASE n # m
      BY <1>0, <1>1, <2>2 DEF RefsInv, Held, Live
    <2> QED
      BY <2>1, <2>2
  <1>10. OutboundHeld'
    <2> SUFFICES ASSUME NEW n \in vNodes'
                 PROVE  \/ node'[n].fInbound \/ node'[n].grantOutbound
                        \/ \E o \in Opener : opener'[o].pc = "move" /\ opener'[o].pnode = n
      BY DEF OutboundHeld
    <2>1. CASE n = m
      BY <1>2, <2>1
    <2>2. CASE n # m
      <3>1. n \in vNodes /\ node'[n] = node[n]
        BY <1>0, <1>1, <2>2
      <3>2. \A o \in Opener : opener[o].pc = "move" => opener'[o] = opener[o]
        OBVIOUS
      <3> QED
        BY <3>1, <3>2 DEF IndInv, OutboundHeld
    <2> QED
      BY <2>1, <2>2
  <1>11. GrantSet' = GrantSet /\ OpenerGrantSet' = OpenerGrantSet
    <2>1. GrantSet' = GrantSet
      BY <1>1, <1>2, <1>3 DEF GrantSet, Live
    <2>2. OpenerGrantSet' = OpenerGrantSet
      BY DEF OpenerGrantSet
    <2> QED
      BY <2>1, <2>2
  <1>12. SlotsConserved'
    BY <1>11 DEF IndInv, SlotsConserved, GrantSet, OpenerGrantSet, OpenerGrants, NodeGrants
  <1>13. InboundLimit'
    <2>1. CASE inb
      <3>1. InboundSet' = InboundSet \cup {m} /\ m \notin InboundSet
        BY <1>0, <1>1, <1>2, <1>4, <2>1 DEF InboundSet
      <3>2. Cardinality(InboundSet) < MaxInbound
        BY <2>1 DEF RoomInbound, InboundSet
      <3>3. Cardinality(InboundSet') = Cardinality(InboundSet) + 1
        BY <1>0, <3>1, Finite, FS_AddElement
      <3>4. Cardinality(InboundSet') <= MaxInbound
        BY <1>0, <3>2, <3>3, Finite, PeersAssumption
      <3> QED
        BY <3>4 DEF InboundLimit, InboundSet
    <2>2. CASE ~ inb
      <3>1. InboundSet' = InboundSet
        BY <1>0, <1>1, <1>2, <1>4, <2>2 DEF InboundSet
      <3> QED
        BY <3>1 DEF IndInv, InboundLimit, InboundSet
    <2> QED
      BY <2>1, <2>2
  <1> QED
    BY <1>6, <1>7, <1>8, <1>9, <1>10, <1>12, <1>13 DEF IndInv

LEMMA AcceptInv ==
    ASSUME IndInv, NEW a \in Caller, Accept(a)
    PROVE  IndInv'
  <1>1. PICK m \in Node : /\ node[m] = None
                          /\ node' = [node EXCEPT ![m] = NewNode(a, TRUE)]
                          /\ vNodes' = vNodes \cup {m}
    BY DEF Accept
  <1>2. /\ net.pc = "accept" /\ RoomInbound /\ net' = [net EXCEPT !.pc = "copy"]
        /\ UNCHANGED <<vNodesDisconnected, semOutbound, setBanned, vOneShots, msg, opener, shared>>
    BY DEF Accept
  <1>3. a \in Addr
    BY PeersAssumption
  <1>4. /\ net' \in [pc : {"disconnect", "accept", "copy", "service"}, copy : SUBSET Node]
        /\ net.copy = {} /\ net'.copy = {} /\ net'.pc # "service"
    BY <1>2 DEF IndInv, TypeOK, ListsInv
  <1>5. node' \in [Node -> Members \cup {None, Deleted}]
    BY <1>1, <1>3, NewNodeTyped DEF IndInv, TypeOK
  <1>6. TypeOK'
    BY <1>1, <1>2, <1>4, <1>5 DEF IndInv, TypeOK
  <1> QED
    BY <1>1, <1>2, <1>3, <1>4, <1>6, CreateInv

LEMMA ConnectNodeInv ==
    ASSUME IndInv, NEW o \in Opener, ConnectNode(o)
    PROVE  IndInv'
  <1>1. PICK m \in Node : /\ node[m] = None
                          /\ node' = [node EXCEPT ![m] = NewNode(opener[o].addr, FALSE)]
                          /\ vNodes' = vNodes \cup {m}
                          /\ opener' = [opener EXCEPT ![o].pc = "move", ![o].pnode = m]
    BY DEF ConnectNode
  <1>2. /\ opener[o].pc = "socket"
        /\ UNCHANGED <<vNodesDisconnected, semOutbound, setBanned, vOneShots, net, msg, shared>>
    BY DEF ConnectNode
  <1>3. opener[o].addr \in Addr /\ opener \in [Opener -> OpenerType]
    BY <1>2, OpenerTyped DEF IndInv, OpenerInv
  <1>4. node' \in [Node -> Members \cup {None, Deleted}]
    BY <1>1, <1>3, NewNodeTyped DEF IndInv, TypeOK
  <1>5. /\ opener' \in [Opener -> OpenerType]
        /\ opener'[o] = [opener[o] EXCEPT !.pc = "move", !.pnode = m]
        /\ \A p \in Opener : p # o => opener'[p] = opener[p]
    <2> DEFINE r == [opener[o] EXCEPT !.pc = "move", !.pnode = m]
    <2>1. r \in OpenerType
      BY <1>3 DEF OpenerType
    <2>2. opener' = [opener EXCEPT ![o] = r]
      BY <1>1, <1>3
    <2> QED
      BY <1>3, <2>1, <2>2
  <1>6. /\ opener'[o].pc = "move" /\ opener'[o].pnode = m
        /\ opener'[o].grant = opener[o].grant /\ opener'[o].addr = opener[o].addr
        /\ opener'[o].fOneShot = opener[o].fOneShot
    BY <1>3, <1>5 DEF OpenerType
  <1>7. TypeOK'
    BY <1>1, <1>2, <1>4, <1>5 DEF IndInv, TypeOK, OpenerType
  <1> QED
    BY <1>1, <1>2, <1>3, <1>5, <1>6, <1>7, CreateInv

(* A node that leaves vNodes gives up its slot, and its own reference if   *)
(* it is inbound or marked.                                                *)
LEMMA UnregisteredFacts ==
    ASSUME TypeOK, NEW n \in Node, Live(n)
    PROVE  /\ Unregistered(n) \in Members
           /\ Unregistered(n).fInbound = node[n].fInbound
           /\ Unregistered(n).fNetworkNode = node[n].fNetworkNode
           /\ ~ Unregistered(n).grantOutbound
           /\ Unregistered(n).nRefCount
                = node[n].nRefCount - One(node[n].fNetworkNode \/ node[n].fInbound)
  <1> DEFINE c == IF node[n].fNetworkNode \/ node[n].fInbound
                  THEN node[n].nRefCount - 1 ELSE node[n].nRefCount
             u == [node[n] EXCEPT !.nRefCount = c, !.grantOutbound = FALSE, !.fDisconnect = TRUE]
  <1>0. node[n] \in Members
    BY LiveFact
  <1>1. c \in Int /\ c = node[n].nRefCount - One(node[n].fNetworkNode \/ node[n].fInbound)
    BY <1>0, LiveFact DEF One
  <1>2. Unregistered(n) = u
    BY <1>0 DEF Unregistered, Members
  <1>3. u \in Members
    <2>1. ASSUME NEW r \in Members, NEW k \in Int, NEW b \in BOOLEAN, NEW d \in BOOLEAN
          PROVE  [r EXCEPT !.nRefCount = k, !.grantOutbound = b, !.fDisconnect = d] \in Members
      BY <2>1 DEF Members
    <2> HIDE DEF c
    <2> QED
      BY <1>0, <1>1, <2>1
  <1>4. u.fInbound = node[n].fInbound
    BY <1>0 DEF Members
  <1>5. u.fNetworkNode = node[n].fNetworkNode
    BY <1>0 DEF Members
  <1>6. u.nRefCount = c
    BY <1>0 DEF Members
  <1>7. ~ u.grantOutbound
    BY <1>0 DEF Members
  <1> QED
    BY <1>1, <1>2, <1>3, <1>4, <1>5, <1>6, <1>7

(* Nodes leave vNodes, and unused ones are deleted. *)
LEMMA DisconnectNodesInv ==
    ASSUME IndInv, DisconnectNodes
    PROVE  IndInv'
  <1>0. /\ TypeOK /\ ListsInv /\ RefsInv
        /\ node \in [Node -> Members \cup {None, Deleted}]
        /\ vNodes \subseteq Node /\ vNodesDisconnected \subseteq Node
        /\ \A n \in vNodes \cup vNodesDisconnected : Live(n)
        /\ vNodes \cap vNodesDisconnected = {}
    BY DEF IndInv, TypeOK, ListsInv
  <1>1. PICK G \in SUBSET vNodes, D \in SUBSET (vNodesDisconnected \cup vNodes) :
          /\ D \subseteq vNodesDisconnected \cup G
          /\ vNodes' = vNodes \ G
          /\ vNodesDisconnected' = (vNodesDisconnected \cup G) \ D
          /\ semOutbound' = semOutbound + Grants(G \cup D)
          /\ node' = [n \in Node |-> IF n \in D THEN Deleted
                                     ELSE IF n \in G THEN Unregistered(n) ELSE node[n]]
          /\ \A n \in D : Unused(IF n \in G THEN Unregistered(n) ELSE node[n])
    <2> DEFINE G == {n \in vNodes : node[n].fDisconnect \/ node[n].nRefCount <= 0}
               pool == vNodesDisconnected \cup G
               next == [n \in Node |-> IF n \in G THEN Unregistered(n) ELSE node[n]]
               D == {n \in pool : Unused(next[n])}
    <2>1. /\ node' = [n \in Node |-> IF n \in D THEN Deleted ELSE next[n]]
          /\ vNodes' = vNodes \ G
          /\ vNodesDisconnected' = pool \ D
          /\ semOutbound' = semOutbound + Grants(G \cup D)
      BY DEF DisconnectNodes
    <2>2. \A n \in Node : next[n] = IF n \in G THEN Unregistered(n) ELSE node[n]
      OBVIOUS
    <2>3. G \in SUBSET vNodes /\ D \in SUBSET (vNodesDisconnected \cup vNodes)
          /\ D \subseteq vNodesDisconnected \cup G
      OBVIOUS
    <2>4. \A n \in D : n \in Node /\ Unused(next[n])
      BY <1>0
    <2>5. \A n \in D : Unused(IF n \in G THEN Unregistered(n) ELSE node[n])
      BY <2>2, <2>4
    <2>6. node' = [n \in Node |-> IF n \in D THEN Deleted
                                  ELSE IF n \in G THEN Unregistered(n) ELSE node[n]]
      BY <2>1
    <2> HIDE DEF G, next, D
    <2> QED
      BY <2>1, <2>3, <2>5, <2>6
  <1>2. /\ net.pc = "disconnect" /\ net' = [net EXCEPT !.pc = "accept"]
        /\ UNCHANGED <<setBanned, vOneShots, msg, opener, shared>>
    BY DEF DisconnectNodes
  <1>3. /\ net' \in [pc : {"disconnect", "accept", "copy", "service"}, copy : SUBSET Node]
        /\ net.copy = {} /\ net'.copy = {} /\ net'.pc = "accept"
    BY <1>0, <1>2 DEF TypeOK, ListsInv
  <1>4. \A n \in Node : n \in D => node'[n] = Deleted
    BY <1>1
  <1>5. \A n \in Node : n \in G /\ n \notin D =>
            /\ Live(n) /\ Live(n)'
            /\ node'[n] \in Members
            /\ node'[n].fInbound = node[n].fInbound
            /\ node'[n].fNetworkNode = node[n].fNetworkNode
            /\ ~ node'[n].grantOutbound
            /\ node'[n].nRefCount = node[n].nRefCount - One(node[n].fNetworkNode \/ node[n].fInbound)
    <2> SUFFICES ASSUME NEW n \in Node, n \in G, n \notin D
                 PROVE  /\ Live(n) /\ Live(n)'
                        /\ node'[n] \in Members
                        /\ node'[n].fInbound = node[n].fInbound
                        /\ node'[n].fNetworkNode = node[n].fNetworkNode
                        /\ ~ node'[n].grantOutbound
                        /\ node'[n].nRefCount
                             = node[n].nRefCount - One(node[n].fNetworkNode \/ node[n].fInbound)
      OBVIOUS
    <2>1. node'[n] = Unregistered(n) /\ Live(n)
      BY <1>0, <1>1
    <2>2. node'[n] \in Members
      BY <1>0, <2>1, UnregisteredFacts
    <2>3. Live(n)'
      BY <2>2, PeersAssumption DEF Live
    <2> QED
      BY <1>0, <2>1, <2>2, <2>3, UnregisteredFacts
  <1>6. \A n \in Node : n \notin G /\ n \notin D => node'[n] = node[n]
    BY <1>1
  <1>7. \A n \in D : ~ Live(n)' /\ node'[n] # None /\ Live(n) /\ node[n] # None
    BY <1>0, <1>4, PeersAssumption DEF Live
  (* What is deleted was nobody's. *)
  <1>8. \A n \in D \ shared : /\ n \notin net.copy \cup msg.copy
                              /\ node[n].fNetworkNode \/ node[n].fInbound
    <2> SUFFICES ASSUME NEW n \in D, n \notin shared
                 PROVE  /\ n \notin net.copy \cup msg.copy
                        /\ node[n].fNetworkNode \/ node[n].fInbound
      OBVIOUS
    <2>1. /\ n \in Node /\ Live(n) /\ node[n].nRefCount \in Int /\ node[n].nRefCount >= Held(n)
      BY <1>0, LiveFact DEF RefsInv
    <2>2. CASE n \in G
      <3>1. Unregistered(n).nRefCount = node[n].nRefCount - One(node[n].fNetworkNode \/ node[n].fInbound)
        BY <1>0, <2>1, UnregisteredFacts
      <3>2. Unregistered(n).nRefCount <= 0
        BY <1>1, <2>2 DEF Unused
      <3>3. n \in vNodes
        BY <2>2
      <3> QED
        BY <2>1, <3>1, <3>2, <3>3 DEF Held, One
    <2>3. CASE n \notin G
      <3>1. node[n].nRefCount <= 0
        BY <1>1, <2>3 DEF Unused
      <3> QED
        BY <2>1, <3>1 DEF Held, One
    <2> QED
      BY <2>2, <2>3
  <1>9. node' \in [Node -> Members \cup {None, Deleted}]
    <2>1. \A n \in Node : node'[n] \in Members \cup {None, Deleted}
      BY <1>0, <1>4, <1>5, <1>6
    <2>2. node' = [n \in Node |-> node'[n]]
      BY <1>1
    <2> QED
      BY <2>1, <2>2
  <1>10. PICK S \in SUBSET GrantSet :
           /\ Grants(G \cup D) = Cardinality(S)
           /\ GrantSet' = GrantSet \ S
    <2> DEFINE S == {n \in G \cup D : node[n].grantOutbound}
    <2>1. S \in SUBSET GrantSet
      BY <1>0 DEF GrantSet
    <2>2. Grants(G \cup D) = Cardinality(S)
      BY DEF Grants
    <2>3. GrantSet' = GrantSet \ S
      <3>1. \A n \in Node : n \in D => n \notin GrantSet'
        BY <1>7 DEF GrantSet
      <3>2. \A n \in Node : n \in G /\ n \notin D => n \notin GrantSet'
        BY <1>5 DEF GrantSet
      <3>3. \A n \in Node : n \notin G /\ n \notin D => (n \in GrantSet' <=> n \in GrantSet)
        BY <1>6 DEF GrantSet, Live
      <3>4. \A n \in Node : n \in S <=> n \in G \cup D /\ n \in GrantSet
        BY <1>0 DEF GrantSet
      <3>5. GrantSet' \subseteq Node /\ GrantSet \subseteq Node
        BY DEF GrantSet
      <3> HIDE DEF S
      <3> QED
        BY <3>1, <3>2, <3>3, <3>4, <3>5
    <2> QED
      BY <2>1, <2>2, <2>3
  <1>11. semOutbound' \in 0..MAX_OUTBOUND_CONNECTIONS
    BY <1>1, <1>10, SlotBack
  <1>12. TypeOK'
    BY <1>0, <1>1, <1>2, <1>3, <1>9, <1>11 DEF TypeOK
  <1>13. \A o \in Opener : OpenerInv(o)'
    <2> SUFFICES ASSUME NEW o \in Opener PROVE OpenerInv(o)'
      OBVIOUS
    <2>0. OpenerInv(o) /\ opener'[o] = opener[o]
      BY <1>2 DEF IndInv
    <2>1. CASE opener[o].pc \notin Pointing
      BY <1>2, <2>0, <2>1 DEF OpenerInv, Pointing
    <2>2. CASE opener[o].pc \in Pointing
      <3> DEFINE m == opener[o].pnode
      <3>1. m \in Node /\ node[m] # None
        BY <2>0, <2>2 DEF OpenerInv
      <3>2. node'[m] # None
        BY <1>4, <1>5, <1>6, <3>1, PeersAssumption
      <3>3. opener[o].pc \in {"move", "mark"} /\ m \notin shared =>
               /\ node'[m] # None /\ node'[m] # Deleted
               /\ ~ node'[m].fNetworkNode /\ ~ node'[m].fInbound
        <4> SUFFICES ASSUME opener[o].pc \in {"move", "mark"}, m \notin shared
                     PROVE  /\ node'[m] # None /\ node'[m] # Deleted
                            /\ ~ node'[m].fNetworkNode /\ ~ node'[m].fInbound
          OBVIOUS
        <4>1. Live(m) /\ ~ node[m].fNetworkNode /\ ~ node[m].fInbound
          BY <2>0 DEF OpenerInv
        <4>2. m \notin D
          BY <1>8, <4>1
        <4>3. CASE m \in G
          BY <1>5, <3>1, <4>1, <4>2, <4>3, PeersAssumption
        <4>4. CASE m \notin G
          BY <1>6, <3>1, <4>1, <4>2, <4>4 DEF Live
        <4> QED
          BY <4>3, <4>4
      <3> QED
        BY <1>2, <2>0, <3>1, <3>2, <3>3 DEF OpenerInv, Live
    <2> QED
      BY <2>1, <2>2
  <1>14. OpenersApart'
    BY <1>2 DEF IndInv, OpenersApart
  <1>15. ListsInv'
    <2>1. \A n \in vNodes' \cup vNodesDisconnected' : Live(n)'
      BY <1>0, <1>1, <1>5, <1>6 DEF Live
    <2>2. vNodes' \cap vNodesDisconnected' = {}
      BY <1>0, <1>1
    <2>3. \A n \in Node : node'[n] = None => node[n] = None
      BY <1>0, <1>4, <1>5, <1>6, PeersAssumption
    <2> QED
      BY <1>0, <1>2, <1>3, <2>1, <2>2, <2>3 DEF ListsInv
  <1>16. RefsInv'
    <2> SUFFICES ASSUME NEW n \in Node \ shared
                 PROVE  /\ Live(n)' => node'[n].nRefCount >= Held(n)'
                        /\ n \in net'.copy \cup msg'.copy => Live(n)'
      BY <1>2 DEF RefsInv
    <2>1. CASE n \in D
      BY <1>2, <1>3, <1>7, <1>8, <2>1
    <2>2. CASE n \notin D /\ n \in G
      <3>1. /\ Live(n) /\ Live(n)' /\ node[n].nRefCount \in Int /\ node[n].nRefCount >= Held(n)
        BY <1>0, <1>5, <2>2, LiveFact DEF RefsInv
      <3>2. n \in vNodes /\ n \notin vNodes'
        BY <1>1, <2>2
      <3>3. /\ node'[n].nRefCount = node[n].nRefCount - One(node[n].fNetworkNode \/ node[n].fInbound)
            /\ node'[n].fInbound = node[n].fInbound
            /\ node'[n].fNetworkNode = node[n].fNetworkNode
        BY <1>5, <2>2
      <3> QED
        BY <1>2, <1>3, <3>1, <3>2, <3>3 DEF Held, One
    <2>3. CASE n \notin D /\ n \notin G
      <3>1. node'[n] = node[n] /\ (n \in vNodes' <=> n \in vNodes)
        BY <1>1, <1>6, <2>3
      <3> QED
        BY <1>0, <1>2, <1>3, <3>1 DEF RefsInv, Held, Live
    <2> QED
      BY <2>1, <2>2, <2>3
  <1>17. OutboundHeld'
    <2>1. \A n \in vNodes' : n \in vNodes /\ node'[n] = node[n]
      BY <1>0, <1>1, <1>6
    <2> QED
      BY <1>2, <2>1 DEF IndInv, OutboundHeld
  <1>18. InboundLimit'
    <2>1. InboundSet' \in SUBSET InboundSet
      BY <1>0, <1>1, <1>6 DEF InboundSet
    <2>2. Cardinality(InboundSet') \in Nat /\ Cardinality(InboundSet') <= Cardinality(InboundSet)
      BY <1>0, <2>1, Finite, FS_Subset, FS_CardinalityType
    <2>3. Cardinality(InboundSet) <= MaxInbound
      BY DEF IndInv, InboundLimit, InboundSet
    <2>4. Cardinality(InboundSet') <= MaxInbound
      BY <1>0, <2>2, <2>3, Finite, PeersAssumption
    <2> QED
      BY <2>4 DEF InboundLimit, InboundSet
  <1>19. SlotsConserved'
    <2>1. OpenerGrantSet' = OpenerGrantSet
      BY <1>2 DEF OpenerGrantSet
    <2>2. GrantSet \cap S = S
      OBVIOUS
    <2>3. Cardinality(GrantSet') = Cardinality(GrantSet) - Cardinality(S) /\ Cardinality(S) \in Nat
      <3>1. IsFiniteSet(GrantSet)
        BY <1>0, Finite
      <3>2. Cardinality(GrantSet \ S) = Cardinality(GrantSet) - Cardinality(GrantSet \cap S)
        BY <3>1, FS_Difference
      <3>3. IsFiniteSet(S)
        BY <3>1, FS_Subset
      <3> QED
        BY <1>10, <2>2, <3>2, <3>3, FS_CardinalityType
    <2>4. semOutbound \in Int
      BY <1>0, PeersAssumption DEF TypeOK
    <2>5. semOutbound + Cardinality(OpenerGrantSet) + Cardinality(GrantSet) = MAX_OUTBOUND_CONNECTIONS
      BY Slots DEF IndInv
    <2>6. semOutbound' + Cardinality(OpenerGrantSet') + Cardinality(GrantSet') = MAX_OUTBOUND_CONNECTIONS
      BY <1>0, <1>1, <1>10, <2>1, <2>3, <2>4, <2>5, Finite
    <2> QED
      BY <2>6 DEF SlotsConserved, OpenerGrants, NodeGrants, OpenerGrantSet, GrantSet
  <1> QED
    BY <1>12, <1>13, <1>14, <1>15, <1>16, <1>17, <1>18, <1>19 DEF IndInv

LEMMA StepInv ==
    ASSUME IndInv, [Next]_vars
    PROVE  IndInv'
  <1>1. CASE UNCHANGED vars
    <2>1. TypeOK'
      BY <1>1 DEF vars, IndInv, TypeOK
    <2>2. RefsInv'
      BY <1>1 DEF vars, IndInv, RefsInv, Live, Held
    <2> QED
      BY <1>1, <2>1, <2>2, NodesKept DEF vars, IndInv, ListsInv, Live
  <1>2. ASSUME NEW o \in Opener, OpenerStep(o)
        PROVE  IndInv'
    BY <1>2, OpenerInvs, AddRefWriteInv, ConnectNodeInv, MoveGrantInv, MarkNetworkNodeInv DEF OpenerStep
  <1> QED
    BY <1>1, <1>2, DisconnectNodesInv, HandlersInv, AcceptInv, OpenerInvs DEF Next, NetStep, MsgStep

LEMMA IndInvHolds == Spec => []IndInv
  BY InitInv, StepInv, PTL DEF Spec
-----------------------------------------------------------------------------
(* The types hold; semOutbound never exceeds the number of slots. *)
THEOREM TypeCorrect == Spec => []TypeOK
  <1>1. IndInv => TypeOK
    BY DEF IndInv
  <1> QED
    BY <1>1, IndInvHolds, PTL

(* CSemaphoreGrant: whoever moves, releases or destroys grants, and        *)
(* whichever nodes are removed meanwhile, the free slots and the grants in *)
(* hand are always MAX_OUTBOUND_CONNECTIONS together.                      *)
THEOREM SlotsAreConserved == Spec => []SlotsConserved
  <1>1. IndInv => SlotsConserved
    BY DEF IndInv
  <1> QED
    BY <1>1, IndInvHolds, PTL

(* The reference counts keep every node that a thread still uses from      *)
(* being deleted, for any number of openers and nodes, but for the nodes   *)
(* that ConnectNode finds to exist and counts without the lock.            *)
THEOREM NodesAreSafe == Spec => []NodesSafe
  <1>1. IndInv => NodesSafe
    <2> SUFFICES ASSUME IndInv PROVE NodesSafe
      OBVIOUS
    <2>1. \A n \in vNodes \cup vNodesDisconnected : Live(n)
      BY DEF IndInv, ListsInv
    <2>2. \A n \in net.copy \cup msg.copy : Live(n) \/ n \in shared
      BY DEF IndInv, RefsInv, TypeOK
    <2>3. \A o \in Opener : opener[o].pc \in {"move", "mark"} =>
              Live(opener[o].pnode) \/ opener[o].pnode \in shared
      BY DEF IndInv, OpenerInv
    <2> QED
      BY <2>1, <2>2, <2>3 DEF NodesSafe
  <1> QED
    BY <1>1, IndInvHolds, PTL

(* The outbound nodes in vNodes are no more than the slots that are taken: *)
(* each has one or has an opener of its own that holds one.                *)
LEMMA OutboundCounted ==
    ASSUME IndInv
    PROVE  semOutbound + Cardinality({n \in vNodes : ~ node[n].fInbound}) <= MAX_OUTBOUND_CONNECTIONS
  <1> DEFINE Out == {n \in vNodes : ~ node[n].fInbound}
             A == {n \in Out : ~ node[n].grantOutbound}
             B == {n \in Out : node[n].grantOutbound}
             H == {o \in Opener : opener[o].pc = "move" /\ opener[o].pnode \in A}
             f == [o \in H |-> opener[o].pnode]
  <1>0. /\ TypeOK /\ IsFiniteSet(OpenerGrantSet) /\ IsFiniteSet(GrantSet)
        /\ Cardinality(OpenerGrantSet) \in Nat /\ Cardinality(GrantSet) \in Nat
    BY Finite DEF IndInv
  <1>1. B \in SUBSET GrantSet
    BY DEF IndInv, TypeOK, ListsInv, GrantSet
  <1>2. H \in SUBSET OpenerGrantSet
    BY DEF IndInv, OpenerInv, OpenerGrantSet
  <1>3. f \in Surjection(H, A)
    <2>1. \A n \in A : \E o \in H : f[o] = n
      BY DEF IndInv, OutboundHeld
    <2>2. f \in [H -> A]
      OBVIOUS
    <2> QED
      BY <2>1, <2>2 DEF Surjection
  <1>4. IsFiniteSet(H) /\ Cardinality(H) <= Cardinality(OpenerGrantSet)
    BY <1>0, <1>2, FS_Subset
  <1>5. IsFiniteSet(A) /\ Cardinality(A) <= Cardinality(H)
    <2> HIDE DEF A, H, f
    <2> QED
      BY <1>3, <1>4, FS_Surjection
  <1>6. IsFiniteSet(B) /\ Cardinality(B) <= Cardinality(GrantSet)
    BY <1>0, <1>1, FS_Subset
  <1>7. Out = A \cup B /\ A \cap B = {}
    OBVIOUS
  <1>8. Cardinality(Out) = Cardinality(A) + Cardinality(B)
    <2> HIDE DEF Out, A, B
    <2>1. Cardinality(A \cup B) = Cardinality(A) + Cardinality(B) - Cardinality(A \cap B)
      BY <1>5, <1>6, FS_Union
    <2>2. Cardinality(A) \in Nat /\ Cardinality(B) \in Nat
      BY <1>5, <1>6, FS_CardinalityType
    <2>3. Cardinality(A \cap B) = 0
      BY <1>7, FS_EmptySet
    <2> QED
      BY <1>7, <2>1, <2>2, <2>3
  <1>9. Cardinality(A) \in Nat /\ Cardinality(B) \in Nat /\ Cardinality(H) \in Nat
    BY <1>4, <1>5, <1>6, FS_CardinalityType
  <1>10. semOutbound + Cardinality(OpenerGrantSet) + Cardinality(GrantSet) = MAX_OUTBOUND_CONNECTIONS
    BY Slots DEF IndInv
  <1>11. semOutbound \in Int
    BY <1>0, PeersAssumption DEF TypeOK
  <1> HIDE DEF Out, A, B, H
  <1>12. semOutbound + Cardinality(Out) <= MAX_OUTBOUND_CONNECTIONS
    BY <1>0, <1>4, <1>5, <1>6, <1>8, <1>9, <1>10, <1>11
  <1> QED
    BY <1>12 DEF Out

(* -maxconnections: there are never more inbound nodes in vNodes than are  *)
(* allowed, nor more outbound nodes than slots are taken, although a node  *)
(* is in vNodes before the grant is moved to it.                           *)
THEOREM LimitsAreKept == Spec => []LimitsHold
  <1>1. IndInv => LimitsHold
    BY OutboundCounted DEF IndInv, LimitsHold, InboundLimit
  <1> QED
    BY <1>1, IndInvHolds, PTL
=============================================================================
