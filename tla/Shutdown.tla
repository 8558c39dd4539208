------------------------------ MODULE Shutdown ------------------------------
(***************************************************************************)
(* The end of the process (Shutdown in init.cpp, StopNode in net.cpp) and  *)
(* the threads that use the wallet until then: the message handler, the    *)
(* RPC handlers, the stake miner, and the thread that locks the wallet     *)
(* after a time.                                                           *)
(*                                                                         *)
(* Each thread counts itself in vnThreadsRunning while it may not be       *)
(* interrupted.  StopNode waits at most 20 seconds for every counter to be *)
(* zero, and then as long as it takes for those of the message handler and *)
(* of the RPC handlers.                                                    *)
(***************************************************************************)
EXTENDS Integers, FiniteSets

CONSTANTS
    Stopper,            \* threads of Shutdown; a thread beyond them would only wait
    Client,             \* connections to the RPC server at a time
    Timer               \* threads of ThreadCleanWalletPassphrase

ASSUME ShutdownAssumption ==
    IsFiniteSet(Stopper) /\ IsFiniteSet(Client) /\ IsFiniteSet(Timer)

VARIABLES
    fShutdown,
    fRequestShutdown,       \* set by the signal handler
    fTaken,                 \* a thread has taken charge of the shutdown
    fDeleted,               \* pwalletMain is deleted
    fExit,                  \* the process has ended
    vnThreadsRunning,
    stopper,                \* where each thread is
    msghand, listener, rpchand, miner, timer,
    fLate                   \* history: 20 seconds were not enough

vars == <<fShutdown, fRequestShutdown, fTaken, fDeleted, fExit, vnThreadsRunning,
          stopper, msghand, listener, rpchand, miner, timer, fLate>>
flags == <<fShutdown, fRequestShutdown, fTaken, fDeleted, fExit, fLate>>

Counter == {"MESSAGEHANDLER", "RPCHANDLER", "STAKE_MINER"}

Count(n) == vnThreadsRunning' = [vnThreadsRunning EXCEPT ![n] = @ + 1]
Uncount(n) == vnThreadsRunning' = [vnThreadsRunning EXCEPT ![n] = @ - 1]

Init ==
    /\ fShutdown = FALSE /\ fRequestShutdown = FALSE /\ fTaken = FALSE
    /\ fDeleted = FALSE /\ fExit = FALSE
    /\ vnThreadsRunning = [n \in Counter |-> IF n = "RPCHANDLER" THEN 0 ELSE 1]
    /\ stopper = [s \in Stopper |-> "none"]
    /\ msghand = "counted"
    /\ listener = "test"
    /\ rpchand = [c \in Client |-> "none"]
    /\ miner = "sleep"
    /\ timer = [t \in Timer |-> "none"]
    /\ fLate = FALSE

(* A thread of Shutdown is started. *)
StartShutdown ==
    IF \E s \in Stopper : stopper[s] = "none"
    THEN LET s == CHOOSE s \in Stopper : stopper[s] = "none" IN
         stopper' = [stopper EXCEPT ![s] = "start"]
    ELSE UNCHANGED stopper

HandleSIGTERM ==
    /\ ~ fRequestShutdown
    /\ fRequestShutdown' = TRUE
    /\ UNCHANGED <<fShutdown, fTaken, fDeleted, fExit, fLate, vnThreadsRunning, stopper, msghand, listener,
                   rpchand, miner, timer>>
-----------------------------------------------------------------------------
(* ThreadMessageHandler2. *)

others == <<flags, stopper, listener, rpchand, miner, timer>>

(* Mutant of MsgTests: the test after the sleep is left out. *)
MsgGoesOn ==
    /\ msghand = "counted"
    /\ msghand' = "work"
    /\ UNCHANGED <<vnThreadsRunning, others>>

(* fShutdown is tested after the thread has counted itself. *)
MsgTests ==
    /\ msghand = "counted"
    /\ IF fShutdown THEN msghand' = "gone" /\ Uncount("MESSAGEHANDLER")
                    ELSE msghand' = "work" /\ UNCHANGED vnThreadsRunning
    /\ UNCHANGED others

(* The messages of one peer are done: the thread returns when fShutdown is *)
(* set, or turns to the next peer, or goes to sleep.                       *)
MsgWorks ==
    /\ msghand = "work"
    /\ \/ fShutdown /\ msghand' = "gone" /\ Uncount("MESSAGEHANDLER")
       \/ ~ fShutdown /\ msghand' = "sleep" /\ Uncount("MESSAGEHANDLER")
       \/ ~ fShutdown /\ UNCHANGED <<msghand, vnThreadsRunning>>
    /\ UNCHANGED others

(* Mutant of MsgWakes: the signal is not looked at. *)
MsgSleepsOn ==
    /\ msghand = "sleep"
    /\ msghand' = "woken"
    /\ UNCHANGED <<flags, stopper, vnThreadsRunning, listener, rpchand, miner, timer>>

MsgWakes ==
    /\ msghand = "sleep"
    /\ msghand' = "woken"
    /\ IF fRequestShutdown THEN StartShutdown ELSE UNCHANGED stopper
    /\ UNCHANGED <<flags, vnThreadsRunning, listener, rpchand, miner, timer>>

MsgCounts ==
    /\ msghand = "woken"
    /\ msghand' = "counted"
    /\ Count("MESSAGEHANDLER")
    /\ UNCHANGED others

ThreadMessageHandler == MsgTests \/ MsgWorks \/ MsgWakes \/ MsgCounts
-----------------------------------------------------------------------------
(* ThreadRPCServer2, RPCAcceptHandler and ThreadRPCServer3. *)

ListenerTests ==
    /\ listener = "test"
    /\ listener' = IF fShutdown THEN "gone" ELSE "run_one"
    /\ UNCHANGED <<flags, vnThreadsRunning, stopper, msghand, rpchand, miner, timer>>

(* A client connects: a thread is started for it. *)
RPCAccept(c) ==
    /\ listener = "run_one"
    /\ rpchand[c] = "none"
    /\ listener' = "test"
    /\ rpchand' = [rpchand EXCEPT ![c] = "new"]
    /\ UNCHANGED <<flags, vnThreadsRunning, stopper, msghand, miner, timer>>

RpcAt(c, from, to) == rpchand[c] = from /\ rpchand' = [rpchand EXCEPT ![c] = to]

RpcCounts(c) ==
    /\ RpcAt(c, "new", "top")
    /\ Count("RPCHANDLER")
    /\ UNCHANGED <<flags, stopper, msghand, listener, miner, timer>>

(* The connection is deleted and the thread ends. *)
RpcEnds(c, from) ==
    /\ RpcAt(c, from, "none")
    /\ Uncount("RPCHANDLER")
    /\ UNCHANGED <<flags, stopper, msghand, listener, miner, timer>>

RpcReads(c) ==
    /\ ~ fShutdown
    /\ RpcAt(c, "top", "ReadHTTP")
    /\ UNCHANGED <<flags, vnThreadsRunning, stopper, msghand, listener, miner, timer>>

(* The client sends a request; or it closes the connection, after which    *)
(* there is no authorization to be read.                                   *)
ClientSends(c) ==
    /\ RpcAt(c, "ReadHTTP", "execute")
    /\ UNCHANGED <<flags, vnThreadsRunning, stopper, msghand, listener, miner, timer>>

ClientLeaves(c) == RpcEnds(c, "ReadHTTP")

(* The command stop, the command walletpassphrase, or another one. *)
RpcExecutes(c) ==
    /\ RpcAt(c, "execute", "reply")
    /\ \/ StartShutdown /\ UNCHANGED timer
       \/ \E t \in Timer : /\ timer[t] = "none"
                           /\ timer' = [timer EXCEPT ![t] = "sleep"]
                           /\ UNCHANGED stopper
       \/ UNCHANGED <<stopper, timer>>
    /\ UNCHANGED <<flags, vnThreadsRunning, msghand, listener, miner>>

(* The answer is sent and the next request read, unless the client asked   *)
(* to close or the command failed.                                         *)
RpcReplies(c) ==
    \/ /\ RpcAt(c, "reply", "top")
       /\ UNCHANGED <<flags, vnThreadsRunning, stopper, msghand, listener, miner, timer>>
    \/ RpcEnds(c, "reply")

ThreadRPCServer3(c) ==
    \/ RpcCounts(c)
    \/ fShutdown /\ RpcEnds(c, "top")
    \/ RpcReads(c)
    \/ RpcExecutes(c)
    \/ RpcReplies(c)
-----------------------------------------------------------------------------
(* StakeMiner tests fShutdown after each sleep, and then uses the wallet. *)
MinerTests ==
    /\ miner = "sleep"
    /\ IF fShutdown THEN miner' = "gone" /\ Uncount("STAKE_MINER")
                    ELSE miner' = "work" /\ UNCHANGED vnThreadsRunning
    /\ UNCHANGED <<flags, stopper, msghand, listener, rpchand, timer>>

(* It sleeps again, or returns when there is no block to work on. *)
MinerWorks ==
    /\ miner = "work"
    /\ \/ miner' = "sleep" /\ UNCHANGED vnThreadsRunning
       \/ miner' = "gone" /\ Uncount("STAKE_MINER")
    /\ UNCHANGED <<flags, stopper, msghand, listener, rpchand, timer>>

ThreadStakeMiner == MinerTests \/ MinerWorks

(* ThreadCleanWalletPassphrase is not counted and does not look at         *)
(* fShutdown: it wakes, locks the wallet unless walletlock did, and ends.  *)
ThreadCleanWalletPassphrase(t) ==
    /\ \/ timer[t] = "sleep" /\ timer' = [timer EXCEPT ![t] = "work"]
       \/ timer[t] \in {"sleep", "work"} /\ timer' = [timer EXCEPT ![t] = "none"]
    /\ UNCHANGED <<flags, vnThreadsRunning, stopper, msghand, listener, rpchand, miner>>
-----------------------------------------------------------------------------
(* Shutdown and StopNode. *)

StopperAt(s, from, to) ==
    /\ stopper[s] = from
    /\ stopper' = [stopper EXCEPT ![s] = to]
    /\ UNCHANGED <<fRequestShutdown, vnThreadsRunning, msghand, listener, rpchand, miner, timer>>

(* Mutant of ShutdownEnters: every thread that gets cs_Shutdown goes on. *)
ShutdownAll(s) ==
    /\ StopperAt(s, "start", "first")
    /\ fTaken' = TRUE
    /\ UNCHANGED <<fShutdown, fDeleted, fExit, fLate>>

(* The thread takes charge, or waits for the end.  One that does not get   *)
(* cs_Shutdown waits too, as it would if it came after the one that has it. *)
ShutdownEnters(s) ==
    /\ StopperAt(s, "start", IF fTaken THEN "waits" ELSE "first")
    /\ fTaken' = TRUE
    /\ UNCHANGED <<fShutdown, fDeleted, fExit, fLate>>

(* fShutdown is set; bitdb.Flush(false). *)
ShutdownSets(s) ==
    /\ StopperAt(s, "first", "StopNode")
    /\ fShutdown' = TRUE
    /\ UNCHANGED <<fTaken, fDeleted, fExit, fLate>>

(* Nobody is counted, or 20 seconds are over. *)
StopNodeCounts(s) ==
    /\ StopperAt(s, "StopNode", "handlers")
    /\ fLate' = \E n \in Counter : vnThreadsRunning[n] # 0
    /\ UNCHANGED <<fShutdown, fTaken, fDeleted, fExit>>

(* No handler is counted; DumpAddresses, bitdb.Flush(true). *)
StopNodeWaits(s) ==
    /\ vnThreadsRunning["MESSAGEHANDLER"] = 0 /\ vnThreadsRunning["RPCHANDLER"] = 0
    /\ StopperAt(s, "handlers", "delete")
    /\ UNCHANGED <<fShutdown, fTaken, fDeleted, fExit, fLate>>

ShutdownDeletes(s) ==
    /\ StopperAt(s, "delete", "exit")
    /\ fDeleted' = TRUE
    /\ UNCHANGED <<fShutdown, fTaken, fExit, fLate>>

ShutdownExits(s) ==
    /\ StopperAt(s, "exit", "gone")
    /\ fExit' = TRUE
    /\ UNCHANGED <<fShutdown, fTaken, fDeleted, fLate>>

ShutdownThread(s) ==
    \/ ShutdownEnters(s) \/ ShutdownSets(s) \/ StopNodeCounts(s)
    \/ StopNodeWaits(s) \/ ShutdownDeletes(s) \/ ShutdownExits(s)
-----------------------------------------------------------------------------
Running ==
    \/ HandleSIGTERM
    \/ ThreadMessageHandler
    \/ ListenerTests
    \/ \E c \in Client : RPCAccept(c) \/ ThreadRPCServer3(c) \/ ClientSends(c) \/ ClientLeaves(c)
    \/ ThreadStakeMiner
    \/ \E t \in Timer : ThreadCleanWalletPassphrase(t)
    \/ \E s \in Stopper : ShutdownThread(s)

(* Nothing runs when the process has ended. *)
Next ==
    \/ ~ fExit /\ Running
    \/ fExit /\ UNCHANGED vars

(* Every thread is scheduled.  A client may stay silent for good. *)
Fairness ==
    /\ WF_vars(~ fExit /\ ThreadMessageHandler)
    /\ \A c \in Client : WF_vars(~ fExit /\ ThreadRPCServer3(c))
    /\ WF_vars(~ fExit /\ ThreadStakeMiner)
    /\ \A s \in Stopper : WF_vars(~ fExit /\ ShutdownThread(s))

Spec == Init /\ [][Next]_vars /\ Fairness

(* A client that sends nothing closes its connection. *)
ActiveSpec == Spec /\ \A c \in Client : WF_vars(~ fExit /\ ClientLeaves(c))
-----------------------------------------------------------------------------
(* The types; no thread is counted out twice. *)
TypeOK ==
    /\ {fShutdown, fRequestShutdown, fTaken, fDeleted, fExit} \subseteq BOOLEAN
    /\ vnThreadsRunning \in [Counter -> 0..(Cardinality(Client) + 1)]
    /\ stopper \in [Stopper -> {"none", "start", "first", "waits", "StopNode", "handlers",
                                "delete", "exit", "gone"}]
    /\ fLate \in BOOLEAN
    /\ msghand \in {"counted", "work", "sleep", "woken", "gone"}
    /\ listener \in {"test", "run_one", "gone"}
    /\ rpchand \in [Client -> {"none", "new", "top", "ReadHTTP", "execute", "reply"}]
    /\ miner \in {"sleep", "work", "gone"}
    /\ timer \in [Timer -> {"none", "sleep", "work"}]

(* "Reduce vnThreadsRunning so StopNode has permission to exit while we're *)
(* sleeping, but we must always check fShutdown after doing this"; and     *)
(* "Shutdown will take long enough that the response should get back": the *)
(* wallet is deleted when no handler works on a message or a request, and  *)
(* every answer is sent, however long they take and whenever they started; *)
(* nor does the stake miner work on it, unless 20 seconds were not enough. *)
HandlersGone ==
    fDeleted => /\ msghand # "work"
                /\ \A c \in Client : rpchand[c] \notin {"ReadHTTP", "execute", "reply"}
                /\ fLate \/ miner # "work"

(* One thread at most is in charge, however many were started: the wallet  *)
(* is deleted once and the databases are closed once.                      *)
OneStops ==
    \A s, r \in Stopper :
        {stopper[s], stopper[r]} \subseteq {"first", "StopNode", "handlers", "delete", "exit", "gone"} => s = r

(* "Stop beonpush server": once the signal has come or a thread of         *)
(* Shutdown is started, the process ends.                                  *)
StopsEventually ==
    fRequestShutdown \/ (\E s \in Stopper : stopper[s] = "start") ~> fExit
=============================================================================
