----------------------------- MODULE MCShutdown -----------------------------
(* Three threads of Shutdown, two clients, and a wallet that was unlocked. *)
EXTENDS Shutdown
=============================================================================
