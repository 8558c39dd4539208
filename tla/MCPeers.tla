------------------------------- MODULE MCPeers -------------------------------
(***************************************************************************)
(* Peer connections.  "opencon" is ThreadOpenConnections, which connects   *)
(* to a peer by its address and, once, by its name; the peer itself calls  *)
(* too.                                                                    *)
(***************************************************************************)
EXTENDS Peers

MCTarget == [o \in Opener |-> Addr]
=============================================================================
