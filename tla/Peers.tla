-------------------------------- MODULE Peers --------------------------------
(***************************************************************************)
(* The life of a peer connection (CNode in net.h, the threads of net.cpp): *)
(* the socket handler accepts, services, disconnects and deletes nodes,    *)
(* the message handler works on them, and the threads that open outbound   *)
(* connections create them.  The threads share vNodes under cs_vNodes; a   *)
(* node is kept alive by its reference count.                              *)
(*                                                                         *)
(* A step is what a thread does under one hold of cs_vNodes, or one access *)
(* to a node's members without it.  Buffers and sockets are left out: a    *)
(* closed socket is fDisconnect.  The TRY_LOCKs before a node is deleted   *)
(* succeed, for the threads that take these locks count as references.     *)
(* What a thread does to a deleted node is undefined: it has no step then. *)
(***************************************************************************)
EXTENDS Integers, FiniteSets

CONSTANTS
    Node,                   \* the CNode objects that may be created
    Addr,                   \* addresses of peers
    Opener,                 \* ThreadOpenConnections, ThreadOpenAddedConnections
    Target,                 \* opener -> the addresses it connects to
    OneShotAddr,            \* destinations queued by AddOneShot
    OneShotOpener,          \* the opener that runs ProcessOneShot
    Caller,                 \* addresses that connect to this node
    MAX_OUTBOUND_CONNECTIONS,
    MaxInbound,             \* -maxconnections less MAX_OUTBOUND_CONNECTIONS
    None, Deleted

(* The members of a CNode that matter here. *)
Members ==
    [addr : Addr, fInbound : BOOLEAN, fNetworkNode : BOOLEAN, fDisconnect : BOOLEAN,
     nRefCount : Int, grantOutbound : BOOLEAN]

ASSUME PeersAssumption ==
    /\ IsFiniteSet(Node) /\ IsFiniteSet(Opener)
    /\ Target \in [Opener -> SUBSET Addr]
    /\ OneShotAddr \subseteq Addr /\ Caller \subseteq Addr /\ OneShotOpener \in Opener
    /\ MAX_OUTBOUND_CONNECTIONS \in Nat \ {0} /\ MaxInbound \in Nat
    /\ None \notin Node \cup Addr /\ None # Deleted
    /\ None \notin Members /\ Deleted \notin Members

VARIABLES
    node,                   \* node -> its members, None before new, Deleted after
    vNodes,
    vNodesDisconnected,     \* of the socket handler: removed, waiting for references
    semOutbound,            \* free outbound slots
    setBanned,              \* addresses whose ban has not expired
    vOneShots,              \* queued destinations
    net,                    \* the socket handler: [pc, copy]
    msg,                    \* the message handler: [pc, copy]
    opener,                 \* opener -> [pc, addr, pnode, nRef, grant, fOneShot]
    shared                  \* history: nodes that ConnectNode found to exist

vars == <<node, vNodes, vNodesDisconnected, semOutbound, setBanned, vOneShots, net, msg, opener, shared>>

Live(n) == node[n] # None /\ node[n] # Deleted

IdleOpener == [pc |-> "idle", addr |-> None, pnode |-> None, nRef |-> 0,
               grant |-> FALSE, fOneShot |-> FALSE]

(* A constructed node after its first AddRef. *)
NewNode(a, inbound) ==
    [addr |-> a, fInbound |-> inbound, fNetworkNode |-> FALSE, fDisconnect |-> FALSE,
     nRefCount |-> 1, grantOutbound |-> FALSE]

Init ==
    /\ node = [n \in Node |-> None]
    /\ vNodes = {} /\ vNodesDisconnected = {}
    /\ semOutbound = MAX_OUTBOUND_CONNECTIONS
    /\ setBanned = {}
    /\ vOneShots = OneShotAddr
    /\ net = [pc |-> "disconnect", copy |-> {}]
    /\ msg = [pc |-> "copy", copy |-> {}]
    /\ opener = [o \in Opener |-> IdleOpener]
    /\ shared = {}

FindNode(a) == {n \in vNodes : node[n].addr = a}

AddRefs(S) == [n \in Node |-> IF n \in S THEN [node[n] EXCEPT !.nRefCount = @ + 1] ELSE node[n]]

Releases(S) == [n \in Node |-> IF n \in S THEN [node[n] EXCEPT !.nRefCount = @ - 1] ELSE node[n]]

-----------------------------------------------------------------------------
(* ThreadSocketHandler2 *)

(* Mutant of Unregistered: inbound nodes are not released. *)
UnregisteredOutbound(n) ==
    [node[n] EXCEPT !.nRefCount = IF @ > 0 /\ node[n].fNetworkNode THEN @ - 1 ELSE @,
                    !.grantOutbound = FALSE, !.fDisconnect = TRUE]

(* A node that is removed from vNodes. *)
Unregistered(n) ==
    [node[n] EXCEPT !.nRefCount = IF node[n].fNetworkNode \/ node[n].fInbound THEN @ - 1 ELSE @,
                    !.grantOutbound = FALSE, !.fDisconnect = TRUE]

(* Mutant of Unused: every removed node is deleted at once. *)
UnusedAlways(members) == TRUE

Unused(members) == members.nRefCount <= 0

(* Mutant of Grants: the slot of a removed node is not given back. *)
NoGrants(S) == 0

(* The outbound slots that the nodes of S hold. *)
Grants(S) == Cardinality({n \in S : node[n].grantOutbound})

(* Nodes that are to be disconnected leave vNodes, nodes in the pool       *)
(* without references are deleted, all under cs_vNodes.                    *)
DisconnectNodes ==
    LET gone == {n \in vNodes : node[n].fDisconnect \/ node[n].nRefCount <= 0}
        pool == vNodesDisconnected \cup gone
        next == [n \in Node |-> IF n \in gone THEN Unregistered(n) ELSE node[n]]
        dead == {n \in pool : Unused(next[n])}
    IN  /\ net.pc = "disconnect"
        /\ node' = [n \in Node |-> IF n \in dead THEN Deleted ELSE next[n]]
        /\ vNodes' = vNodes \ gone
        /\ vNodesDisconnected' = pool \ dead
        /\ semOutbound' = semOutbound + Grants(gone \cup dead)
        /\ net' = [net EXCEPT !.pc = "accept"]
        /\ UNCHANGED <<setBanned, vOneShots, msg, opener, shared>>

RoomInbound == Cardinality({n \in vNodes : node[n].fInbound}) < MaxInbound

Accept(a) ==
    /\ net.pc = "accept"
    /\ RoomInbound
    /\ a \notin setBanned
    /\ \E n \in Node :
          /\ node[n] = None
          /\ node' = [node EXCEPT ![n] = NewNode(a, TRUE)]
          /\ vNodes' = vNodes \cup {n}
    /\ net' = [net EXCEPT !.pc = "copy"]
    /\ UNCHANGED <<vNodesDisconnected, semOutbound, setBanned, vOneShots, msg, opener, shared>>

(* No caller, or one that is turned away. *)
NoAccept ==
    /\ net.pc = "accept"
    /\ net' = [net EXCEPT !.pc = "copy"]
    /\ UNCHANGED <<node, vNodes, vNodesDisconnected, semOutbound, setBanned, vOneShots, msg, opener, shared>>

NetCopy ==
    /\ net.pc = "copy"
    /\ net' = [pc |-> "service", copy |-> vNodes]
    /\ node' = AddRefs(vNodes)
    /\ UNCHANGED <<vNodes, vNodesDisconnected, semOutbound, setBanned, vOneShots, msg, opener, shared>>

(* The peer closes the connection, an error, a flood, or a timeout. *)
ServiceSocket(n) ==
    /\ net.pc = "service"
    /\ n \in net.copy
    /\ Live(n)
    /\ ~ node[n].fDisconnect
    /\ node' = [node EXCEPT ![n].fDisconnect = TRUE]
    /\ UNCHANGED <<vNodes, vNodesDisconnected, semOutbound, setBanned, vOneShots, net, msg, opener, shared>>

NetRelease ==
    /\ net.pc = "service"
    /\ \A n \in net.copy : Live(n)
    /\ node' = Releases(net.copy)
    /\ net' = [pc |-> "disconnect", copy |-> {}]
    /\ UNCHANGED <<vNodes, vNodesDisconnected, semOutbound, setBanned, vOneShots, msg, opener, shared>>

-----------------------------------------------------------------------------
(* ThreadMessageHandler2 *)

MsgCopy ==
    /\ msg.pc = "copy"
    /\ msg' = [pc |-> "work", copy |-> vNodes]
    /\ node' = AddRefs(vNodes)
    /\ UNCHANGED <<vNodes, vNodesDisconnected, semOutbound, setBanned, vOneShots, net, opener, shared>>

(* ProcessMessages finds a reason to part with the peer, without a ban. *)
ProcessMessages(n) ==
    /\ msg.pc = "work"
    /\ n \in msg.copy
    /\ Live(n)
    /\ ~ node[n].fDisconnect
    /\ node' = [node EXCEPT ![n].fDisconnect = TRUE]
    /\ UNCHANGED <<vNodes, vNodesDisconnected, semOutbound, setBanned, vOneShots, net, msg, opener, shared>>

(* Misbehaving, when the score of the peer reaches -banscore. *)
Misbehaving(n) ==
    /\ msg.pc = "work"
    /\ n \in msg.copy
    /\ Live(n)
    /\ ~ node[n].fDisconnect
    /\ node' = [node EXCEPT ![n].fDisconnect = TRUE]
    /\ setBanned' = setBanned \cup {node[n].addr}
    /\ UNCHANGED <<vNodes, vNodesDisconnected, semOutbound, vOneShots, net, msg, opener, shared>>

MsgRelease ==
    /\ msg.pc = "work"
    /\ \A n \in msg.copy : Live(n)
    /\ node' = Releases(msg.copy)
    /\ msg' = [pc |-> "copy", copy |-> {}]
    /\ UNCHANGED <<vNodes, vNodesDisconnected, semOutbound, setBanned, vOneShots, net, opener, shared>>

-----------------------------------------------------------------------------
(* ThreadOpenConnections2, ThreadOpenAddedConnections2 *)

(* The grant of the loop, and the address it chooses. *)
Acquire(o, a) ==
    /\ opener[o].pc = "idle"
    /\ semOutbound > 0
    /\ semOutbound' = semOutbound - 1
    /\ opener' = [opener EXCEPT ![o] = [IdleOpener EXCEPT !.pc = "open", !.addr = a, !.grant = TRUE]]
    /\ UNCHANGED <<node, vNodes, vNodesDisconnected, setBanned, vOneShots, net, msg, shared>>

(* ProcessOneShot: without a free slot the destination is dropped. *)
ProcessOneShot(o, a) ==
    /\ o = OneShotOpener
    /\ opener[o].pc = "idle"
    /\ a \in vOneShots
    /\ vOneShots' = vOneShots \ {a}
    /\ IF semOutbound > 0
       THEN /\ semOutbound' = semOutbound - 1
            /\ opener' = [opener EXCEPT ![o] = [IdleOpener EXCEPT
                            !.pc = "open", !.addr = a, !.grant = TRUE, !.fOneShot = TRUE]]
       ELSE UNCHANGED <<semOutbound, opener>>
    /\ UNCHANGED <<node, vNodes, vNodesDisconnected, setBanned, net, msg, shared>>

(* The end of the loop's turn: a grant that was not moved is released.  A  *)
(* one-shot that failed is queued again.                                   *)
GiveUp(o) ==
    /\ semOutbound' = semOutbound + (IF opener[o].grant THEN 1 ELSE 0)
    /\ vOneShots' = IF opener[o].fOneShot THEN vOneShots \cup {opener[o].addr} ELSE vOneShots
    /\ opener' = [opener EXCEPT ![o] = IdleOpener]

Goes(o, pc) == opener' = [opener EXCEPT ![o].pc = pc]

(* OpenNetworkConnection: a connected or banned address is refused.  A     *)
(* destination given by name is not checked against the bans.              *)
Refused(o) ==
    \/ FindNode(opener[o].addr) # {}
    \/ ~ opener[o].fOneShot /\ opener[o].addr \in setBanned

OpenNetworkConnection(o) ==
    /\ opener[o].pc = "open"
    /\ IF Refused(o) THEN GiveUp(o)
       ELSE Goes(o, "connect") /\ UNCHANGED <<semOutbound, vOneShots>>
    /\ UNCHANGED <<node, vNodes, vNodesDisconnected, setBanned, net, msg, shared>>

(* ConnectNode looks for a connection to the address once more... *)
FindExisting(o) ==
    /\ opener[o].pc = "connect"
    /\ ~ opener[o].fOneShot
    /\ \E n \in FindNode(opener[o].addr) :
          /\ opener' = [opener EXCEPT ![o].pc = "found", ![o].pnode = n]
          /\ shared' = shared \cup {n}
    /\ UNCHANGED <<node, vNodes, vNodesDisconnected, semOutbound, setBanned, vOneShots, net, msg>>

(* ...and counts a reference to it without the lock: nRefCount++ is a read *)
(* and a write.                                                            *)
AddRefRead(o) ==
    /\ opener[o].pc = "found"
    /\ Live(opener[o].pnode)
    /\ opener' = [opener EXCEPT ![o].pc = "counted",
                                ![o].nRef = node[opener[o].pnode].nRefCount + 1]
    /\ UNCHANGED <<node, vNodes, vNodesDisconnected, semOutbound, setBanned, vOneShots, net, msg, shared>>

AddRefWrite(o) ==
    /\ opener[o].pc = "counted"
    /\ Live(opener[o].pnode)
    /\ node' = [node EXCEPT ![opener[o].pnode].nRefCount = opener[o].nRef]
    /\ Goes(o, "move")
    /\ UNCHANGED <<vNodes, vNodesDisconnected, semOutbound, setBanned, vOneShots, net, msg, shared>>

NotFound(o) ==
    /\ opener[o].pc = "connect"
    /\ opener[o].fOneShot \/ FindNode(opener[o].addr) = {}
    /\ Goes(o, "socket")
    /\ UNCHANGED <<node, vNodes, vNodesDisconnected, semOutbound, setBanned, vOneShots, net, msg, shared>>

ConnectFails(o) ==
    /\ opener[o].pc = "socket"
    /\ GiveUp(o)
    /\ UNCHANGED <<node, vNodes, vNodesDisconnected, setBanned, net, msg, shared>>

(* The socket is connected: the node is in vNodes from here on. *)
ConnectNode(o) ==
    /\ opener[o].pc = "socket"
    /\ \E n \in Node :
          /\ node[n] = None
          /\ node' = [node EXCEPT ![n] = NewNode(opener[o].addr, FALSE)]
          /\ vNodes' = vNodes \cup {n}
          /\ opener' = [opener EXCEPT ![o].pc = "move", ![o].pnode = n]
    /\ UNCHANGED <<vNodesDisconnected, semOutbound, setBanned, vOneShots, net, msg, shared>>

(* Mutant of MoveGrant: the opener keeps the grant as well. *)
MoveGrantCopy(o) ==
    LET n == opener[o].pnode IN
    /\ opener[o].pc = "move"
    /\ Live(n)
    /\ node' = [node EXCEPT ![n].grantOutbound = TRUE]
    /\ Goes(o, "mark")
    /\ UNCHANGED <<vNodes, vNodesDisconnected, semOutbound, setBanned, vOneShots, net, msg, shared>>

(* CSemaphoreGrant::MoveTo releases what the node held before. *)
MoveGrant(o) ==
    LET n == opener[o].pnode IN
    /\ opener[o].pc = "move"
    /\ Live(n)
    /\ semOutbound' = semOutbound + Grants({n})
    /\ node' = [node EXCEPT ![n].grantOutbound = TRUE]
    /\ opener' = [opener EXCEPT ![o].pc = "mark", ![o].grant = FALSE]
    /\ UNCHANGED <<vNodes, vNodesDisconnected, setBanned, vOneShots, net, msg, shared>>

MarkNetworkNode(o) ==
    LET n == opener[o].pnode IN
    /\ opener[o].pc = "mark"
    /\ Live(n)
    /\ node' = [node EXCEPT ![n].fNetworkNode = TRUE]
    /\ Goes(o, IF opener[o].fOneShot THEN "oneshot" ELSE "done")
    /\ UNCHANGED <<vNodes, vNodesDisconnected, semOutbound, setBanned, vOneShots, net, msg, shared>>

(* pnode->fOneShot = true *)
MarkOneShot(o) ==
    /\ opener[o].pc = "oneshot"
    /\ Live(opener[o].pnode)
    /\ Goes(o, "done")
    /\ UNCHANGED <<node, vNodes, vNodesDisconnected, semOutbound, setBanned, vOneShots, net, msg, shared>>

(* The destructor of the loop's grant. *)
Opened(o) ==
    /\ opener[o].pc = "done"
    /\ semOutbound' = semOutbound + (IF opener[o].grant THEN 1 ELSE 0)
    /\ opener' = [opener EXCEPT ![o] = IdleOpener]
    /\ UNCHANGED <<node, vNodes, vNodesDisconnected, setBanned, vOneShots, net, msg, shared>>

-----------------------------------------------------------------------------

(* -bantime has passed. *)
BanExpires(a) ==
    /\ a \in setBanned
    /\ setBanned' = setBanned \ {a}
    /\ UNCHANGED <<node, vNodes, vNodesDisconnected, semOutbound, vOneShots, net, msg, opener, shared>>

(* Steps of an opener inside OpenNetworkConnection. *)
OpenerStep(o) ==
    \/ OpenNetworkConnection(o) \/ FindExisting(o) \/ AddRefRead(o) \/ AddRefWrite(o)
    \/ NotFound(o) \/ ConnectFails(o) \/ ConnectNode(o)
    \/ MoveGrant(o) \/ MarkNetworkNode(o) \/ MarkOneShot(o) \/ Opened(o)

NetStep == DisconnectNodes \/ NoAccept \/ NetCopy \/ NetRelease

MsgStep == MsgCopy \/ MsgRelease

Next ==
    \/ NetStep
    \/ MsgStep
    \/ \E a \in Caller : Accept(a)
    \/ \E n \in Node : ServiceSocket(n) \/ ProcessMessages(n) \/ Misbehaving(n)
    \/ \E o \in Opener : OpenerStep(o) \/ \E a \in Target[o] : Acquire(o, a)
    \/ \E o \in Opener, a \in Addr : ProcessOneShot(o, a)
    \/ \E a \in Addr : BanExpires(a)

Spec == Init /\ [][Next]_vars

(* The threads run: the two handlers loop for ever, and an opener finishes *)
(* what it has begun.  Whether and when it begins, a peer calls or a       *)
(* connection breaks is not promised.                                      *)
FairSpec ==
    /\ Spec
    /\ WF_vars(NetStep)
    /\ WF_vars(MsgStep)
    /\ \A o \in Opener : WF_vars(OpenerStep(o))

-----------------------------------------------------------------------------
(* Properties *)

(* The types of the shared state and of what each thread remembers. *)
TypeOK ==
    /\ node \in [Node -> Members \cup {None, Deleted}]
    /\ vNodes \subseteq Node /\ vNodesDisconnected \subseteq Node
    /\ semOutbound \in 0..MAX_OUTBOUND_CONNECTIONS
    /\ setBanned \subseteq Addr
    /\ vOneShots \subseteq OneShotAddr /\ shared \subseteq Node
    /\ net \in [pc : {"disconnect", "accept", "copy", "service"}, copy : SUBSET Node]
    /\ msg \in [pc : {"copy", "work"}, copy : SUBSET Node]
    /\ opener \in [Opener ->
         [pc : {"idle", "open", "connect", "found", "counted", "socket", "move", "mark",
                "oneshot", "done"},
          addr : Addr \cup {None}, pnode : Node \cup {None}, nRef : Int,
          grant : BOOLEAN, fOneShot : BOOLEAN]]

(* "wait until threads are done using it": what a handler thread copied    *)
(* from vNodes is not deleted before it lets go of it, whatever is         *)
(* disconnected meanwhile, and vNodes never lists a deleted node; nor is a *)
(* node deleted before its opener has set fNetworkNode.  ConnectNode       *)
(* counts its reference to a node that exists without the lock, and such a *)
(* node is not safe any more.                                              *)
NodesSafe ==
    /\ \A n \in vNodes \cup vNodesDisconnected \cup net.copy \cup msg.copy :
          Live(n) \/ n \in shared
    /\ \A o \in Opener :
          opener[o].pc \in {"move", "mark"} =>
              Live(opener[o].pnode) \/ opener[o].pnode \in shared

OpenerGrants == Cardinality({o \in Opener : opener[o].grant})

NodeGrants == Cardinality({n \in Node : Live(n) /\ node[n].grantOutbound})

(* No outbound slot is made or lost by moving a grant from thread to node, *)
(* to a node that has one already, or from a node that is removed.         *)
SlotsConserved ==
    semOutbound + OpenerGrants + NodeGrants = MAX_OUTBOUND_CONNECTIONS

(* The limits hold: on inbound connections, although it is checked and     *)
(* used in different holds of the lock, and on outbound ones, although a   *)
(* node is in vNodes before its slot is its own.                           *)
LimitsHold ==
    /\ Cardinality({n \in vNodes : node[n].fInbound}) <= MaxInbound
    /\ semOutbound + Cardinality({n \in vNodes : ~ node[n].fInbound}) <= MAX_OUTBOUND_CONNECTIONS

(* An inbound connection that is to end is eventually deleted, unless      *)
(* ConnectNode found it, after which nobody gives up its reference.        *)
InboundReclaimed ==
    \A n \in Node :
        (Live(n) /\ node[n].fInbound /\ node[n].fDisconnect) ~> (node[n] = Deleted \/ n \in shared)
=============================================================================
