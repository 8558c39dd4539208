--------------------------- MODULE ShutdownProofs ---------------------------
(***************************************************************************)
(* Theorems about Shutdown, for any number of threads of Shutdown, of      *)
(* clients of the RPC server and of timers.                                *)
(***************************************************************************)
EXTENDS Shutdown, FiniteSetTheorems, TLAPS

InCharge == {"first", "StopNode", "handlers", "delete", "exit", "gone"}

(* The RPC handlers that are counted. *)
Counted == {c \in Client : rpchand[c] \in {"top", "ReadHTTP", "execute", "reply"}}

(* vnThreadsRunning says where the threads are. *)
CountersExact ==
    /\ vnThreadsRunning["RPCHANDLER"] = Cardinality(Counted)
    /\ vnThreadsRunning["MESSAGEHANDLER"] = IF msghand \in {"counted", "work"} THEN 1 ELSE 0
    /\ vnThreadsRunning["STAKE_MINER"] = IF miner = "gone" THEN 0 ELSE 1

HandlersIdle ==
    /\ msghand # "work"
    /\ \A c \in Client : rpchand[c] \notin {"ReadHTTP", "execute", "reply"}

(* What the thread in charge has established where it is.  A handler that  *)
(* counts itself later finds fShutdown set.                                *)
StopperKnows(s) ==
    /\ stopper[s] \in InCharge => fTaken
    /\ stopper[s] \in InCharge \ {"first"} => fShutdown
    /\ stopper[s] \in {"handlers", "delete", "exit", "gone"} => fLate \/ miner = "gone"
    /\ stopper[s] \in {"delete", "exit", "gone"} => HandlersIdle

Deleter == fDeleted => \E s \in Stopper : stopper[s] \in {"exit", "gone"}

IndInv ==
    /\ TypeOK
    /\ CountersExact
    /\ OneStops
    /\ \A s \in Stopper : StopperKnows(s)
    /\ Deleter

-----------------------------------------------------------------------------
(* StartShutdown starts a thread that was not started, if there is one. *)
LEMMA StartShutdownFact ==
    ASSUME StartShutdown
    PROVE  \/ stopper' = stopper
           \/ \E s \in Stopper : /\ stopper[s] = "none"
                                 /\ stopper' = [stopper EXCEPT ![s] = "start"]
  <1>1. CASE \E s \in Stopper : stopper[s] = "none"
    <2> DEFINE s == CHOOSE s \in Stopper : stopper[s] = "none"
    <2>1. s \in Stopper /\ stopper[s] = "none"
      BY <1>1
    <2>2. stopper' = [stopper EXCEPT ![s] = "start"]
      BY <1>1 DEF StartShutdown
    <2> QED
      BY <2>1, <2>2
  <1>2. CASE ~ \E s \in Stopper : stopper[s] = "none"
    BY <1>2 DEF StartShutdown
  <1> QED
    BY <1>1, <1>2

(* The counted handlers are finitely many clients. *)
LEMMA CountedFinite ==
    /\ IsFiniteSet(Counted)
    /\ Cardinality(Counted) \in 0..Cardinality(Client)
    /\ Cardinality(Client) \in Nat
  <1>1. Counted \subseteq Client
    BY DEF Counted
  <1> QED
    BY <1>1, ShutdownAssumption, FS_Subset, FS_CardinalityType

(* A handler that starts or ends changes their number by one. *)
LEMMA CountedChanges ==
    ASSUME TypeOK, NEW c \in Client, NEW to \in {"none", "top", "ReadHTTP", "execute", "reply"},
           rpchand' = [rpchand EXCEPT ![c] = to]
    PROVE  /\ c \in Counted /\ to # "none" => Cardinality(Counted') = Cardinality(Counted)
           /\ c \notin Counted /\ to # "none" => Cardinality(Counted') = Cardinality(Counted) + 1
           /\ c \in Counted /\ to = "none" => Cardinality(Counted') = Cardinality(Counted) - 1
  <1>1. ASSUME c \in Counted, to # "none"
        PROVE  Counted' = Counted
    BY <1>1 DEF Counted, TypeOK
  <1>2. ASSUME c \notin Counted, to # "none"
        PROVE  Counted' = Counted \cup {c}
    BY <1>2 DEF Counted, TypeOK
  <1>3. ASSUME c \in Counted, to = "none"
        PROVE  Counted' = Counted \ {c}
    BY <1>3 DEF Counted, TypeOK
  <1> QED
    BY <1>1, <1>2, <1>3, CountedFinite, FS_AddElement, FS_RemoveElement

(* The bounds of TypeOK follow from what the counters say. *)
LEMMA CountersBounded ==
    ASSUME NEW f \in [Counter -> Int], NEW C \in SUBSET Client,
           f["RPCHANDLER"] = Cardinality(C),
           f["MESSAGEHANDLER"] \in 0..1, f["STAKE_MINER"] \in 0..1
    PROVE  f \in [Counter -> 0..(Cardinality(Client) + 1)]
  <1>1. Cardinality(C) \in 0..Cardinality(Client) /\ Cardinality(Client) \in Nat
    BY ShutdownAssumption, FS_Subset, FS_CardinalityType
  <1>2. \A n \in Counter : f[n] \in 0..(Cardinality(Client) + 1)
    BY <1>1 DEF Counter
  <1> QED
    BY <1>2
-----------------------------------------------------------------------------
LEMMA InitInv == Init => IndInv
  <1> SUFFICES ASSUME Init PROVE IndInv
    OBVIOUS
  <1>1. Counted = {}
    BY DEF Init, Counted
  <1>2. CountersExact
    BY <1>1, FS_EmptySet DEF Init, CountersExact, Counter
  <1>3. vnThreadsRunning \in [Counter -> Int]
    BY DEF Init, Counter
  <1>4. vnThreadsRunning \in [Counter -> 0..(Cardinality(Client) + 1)]
    BY <1>1, <1>2, <1>3, CountersBounded DEF CountersExact
  <1>5. TypeOK
    BY <1>4 DEF Init, TypeOK
  <1> QED
    BY <1>2, <1>5 DEF IndInv, Init, OneStops, StopperKnows, Deleter, InCharge

(* An RPC handler's step, but for the threads that it may start: the       *)
(* handler moves and counts itself in or out.                              *)
LEMMA RpcStep ==
    ASSUME IndInv, NEW c \in Client,
           NEW from \in {"new", "top", "ReadHTTP", "execute", "reply"},
           NEW to \in {"none", "top", "ReadHTTP", "execute", "reply"},
           RpcAt(c, from, to),
           \/ from = "new" /\ to = "top" /\ Count("RPCHANDLER")
           \/ from # "new" /\ to = "none" /\ Uncount("RPCHANDLER")
           \/ from # "new" /\ to # "none" /\ UNCHANGED vnThreadsRunning,
           UNCHANGED <<msghand, miner>>
    PROVE  CountersExact' /\ vnThreadsRunning' \in [Counter -> Int]
  <1>1. c \in Counted <=> from # "new"
    BY DEF RpcAt, Counted
  <1>2. rpchand' = [rpchand EXCEPT ![c] = to]
    BY DEF RpcAt
  <1>3. Cardinality(Counted) \in Int
    BY CountedFinite
  <1>4. vnThreadsRunning \in [Counter -> Int]
    BY CountedFinite DEF IndInv, TypeOK
  <1>5. vnThreadsRunning'["RPCHANDLER"] = Cardinality(Counted')
    BY <1>1, <1>2, <1>3, <1>4, CountedChanges DEF IndInv, CountersExact, Count, Uncount, Counter
  <1>6. /\ vnThreadsRunning' \in [Counter -> Int]
        /\ vnThreadsRunning'["MESSAGEHANDLER"] = vnThreadsRunning["MESSAGEHANDLER"]
        /\ vnThreadsRunning'["STAKE_MINER"] = vnThreadsRunning["STAKE_MINER"]
    BY <1>4 DEF Count, Uncount, Counter
  <1> QED
    BY <1>5, <1>6 DEF IndInv, CountersExact

(* The steps of the handlers and of the miner leave the threads of         *)
(* Shutdown where they are, or start one.                                  *)
LEMMA WorkersStep ==
    ASSUME IndInv, StartShutdown \/ UNCHANGED stopper, UNCHANGED flags,
           HandlersIdle /\ fShutdown => HandlersIdle',
           miner = "gone" => miner' = "gone"
    PROVE  OneStops' /\ (\A s \in Stopper : StopperKnows(s)') /\ Deleter' /\
           stopper' \in [Stopper -> {"none", "start", "first", "waits", "StopNode", "handlers",
                                     "delete", "exit", "gone"}]
  <1>1. \/ stopper' = stopper
        \/ \E s \in Stopper : /\ stopper[s] = "none"
                              /\ stopper' = [stopper EXCEPT ![s] = "start"]
    BY StartShutdownFact
  <1>2. stopper \in [Stopper -> {"none", "start", "first", "waits", "StopNode", "handlers",
                                 "delete", "exit", "gone"}]
    BY DEF IndInv, TypeOK
  <1>3. /\ stopper' \in [Stopper -> {"none", "start", "first", "waits", "StopNode", "handlers",
                                     "delete", "exit", "gone"}]
        /\ \A s \in Stopper : \/ stopper'[s] = stopper[s]
                              \/ stopper[s] = "none" /\ stopper'[s] = "start"
    BY <1>1, <1>2
  <1>4. OneStops'
    BY <1>3 DEF IndInv, OneStops
  <1>5. Deleter'
    BY <1>3 DEF IndInv, Deleter, flags
  <1>6. \A s \in Stopper : StopperKnows(s)'
    <2> SUFFICES ASSUME NEW s \in Stopper PROVE StopperKnows(s)'
      OBVIOUS
    <2>1. StopperKnows(s)
      BY DEF IndInv
    <2>2. CASE stopper'[s] = "start"
      BY <2>2 DEF StopperKnows, InCharge
    <2>3. CASE stopper'[s] = stopper[s]
      BY <2>1, <2>3 DEF StopperKnows, InCharge, flags
    <2> QED
      BY <1>3, <2>2, <2>3
  <1> QED
    BY <1>3, <1>4, <1>5, <1>6

LEMMA StepInv ==
    ASSUME IndInv, [Next]_vars
    PROVE  IndInv'
  <1> USE DEF IndInv
  <1>0. vnThreadsRunning \in [Counter -> Int]
    BY CountedFinite DEF TypeOK
  <1>1. CASE HandleSIGTERM
    <2>1. CountersExact' /\ TypeOK'
      BY <1>1 DEF HandleSIGTERM, CountersExact, Counted, TypeOK
    <2>2. OneStops' /\ Deleter' /\ \A s \in Stopper : StopperKnows(s)'
      BY <1>1 DEF HandleSIGTERM, OneStops, Deleter, StopperKnows, HandlersIdle
    <2> QED
      BY <2>1, <2>2
  <1>2. CASE ThreadMessageHandler
    <2>1. (StartShutdown \/ UNCHANGED stopper) /\ UNCHANGED <<flags, listener, rpchand, miner, timer>>
      BY <1>2 DEF ThreadMessageHandler, MsgTests, MsgWorks, MsgWakes, MsgCounts, others
    <2>2. /\ CountersExact' /\ vnThreadsRunning' \in [Counter -> Int]
          /\ msghand' \in {"counted", "work", "sleep", "woken", "gone"}
      BY <1>0, <1>2, <2>1
         DEF ThreadMessageHandler, MsgTests, MsgWorks, MsgWakes, MsgCounts, CountersExact, Counted,
             Count, Uncount, Counter, TypeOK
    <2>3. HandlersIdle /\ fShutdown => HandlersIdle'
      BY <1>2, <2>1 DEF ThreadMessageHandler, MsgTests, MsgWorks, MsgWakes, MsgCounts, HandlersIdle
    <2>4. /\ OneStops' /\ (\A s \in Stopper : StopperKnows(s)') /\ Deleter'
          /\ stopper' \in [Stopper -> {"none", "start", "first", "waits", "StopNode", "handlers",
                                       "delete", "exit", "gone"}]
      BY <2>1, <2>3, WorkersStep
    <2>5. TypeOK'
      <3>1. Counted' \in SUBSET Client
        BY DEF Counted
      <3>2. vnThreadsRunning' \in [Counter -> 0..(Cardinality(Client) + 1)]
        BY <2>2, <3>1, CountersBounded DEF CountersExact
      <3> QED
        BY <2>1, <2>2, <2>4, <3>2 DEF TypeOK, flags
    <2> QED
      BY <2>2, <2>4, <2>5
  <1>3. CASE ListenerTests
    <2>1. CountersExact' /\ TypeOK'
      BY <1>3 DEF ListenerTests, CountersExact, Counted, TypeOK, flags
    <2>2. OneStops' /\ Deleter' /\ \A s \in Stopper : StopperKnows(s)'
      BY <1>3 DEF ListenerTests, OneStops, Deleter, StopperKnows, HandlersIdle, flags
    <2> QED
      BY <2>1, <2>2
  <1>4. ASSUME NEW c \in Client, RPCAccept(c)
        PROVE  IndInv'
    <2>1. Counted' = Counted
      BY <1>4 DEF RPCAccept, Counted, TypeOK
    <2>2. CountersExact'
      BY <1>4, <2>1 DEF RPCAccept, CountersExact
    <2>3. TypeOK'
      BY <1>4 DEF RPCAccept, TypeOK, flags
    <2>4. HandlersIdle => HandlersIdle'
      BY <1>4 DEF RPCAccept, HandlersIdle, TypeOK
    <2>5. OneStops' /\ Deleter' /\ \A s \in Stopper : StopperKnows(s)'
      BY <1>4, <2>4, WorkersStep DEF RPCAccept
    <2> QED
      BY <2>2, <2>3, <2>5
  <1>5. ASSUME NEW c \in Client, ThreadRPCServer3(c) \/ ClientSends(c) \/ ClientLeaves(c)
        PROVE  IndInv'
    <2>1. \E from \in {"new", "top", "ReadHTTP", "execute", "reply"},
             to \in {"none", "top", "ReadHTTP", "execute", "reply"} :
             /\ RpcAt(c, from, to)
             /\ from = "top" /\ to # "none" => ~ fShutdown
             /\ from = "new" => to = "top"
             /\ \/ from = "new" /\ to = "top" /\ Count("RPCHANDLER")
                \/ from # "new" /\ to = "none" /\ Uncount("RPCHANDLER")
                \/ from # "new" /\ to # "none" /\ UNCHANGED vnThreadsRunning
      BY <1>5 DEF ThreadRPCServer3, RpcCounts, RpcEnds, RpcReads, RpcExecutes, RpcReplies,
                  ClientSends, ClientLeaves
    <2>2. /\ StartShutdown \/ UNCHANGED stopper
          /\ UNCHANGED <<flags, msghand, listener, miner>>
          /\ timer' = timer \/ \E t \in Timer : timer' = [timer EXCEPT ![t] = "sleep"]
      BY <1>5 DEF ThreadRPCServer3, RpcCounts, RpcEnds, RpcReads, RpcExecutes, RpcReplies,
                  ClientSends, ClientLeaves
    <2>3. CountersExact' /\ vnThreadsRunning' \in [Counter -> Int]
      BY <2>1, <2>2, RpcStep
    <2>4. HandlersIdle /\ fShutdown => HandlersIdle'
      BY <2>1, <2>2 DEF RpcAt, HandlersIdle, TypeOK
    <2>5. /\ OneStops' /\ (\A s \in Stopper : StopperKnows(s)') /\ Deleter'
          /\ stopper' \in [Stopper -> {"none", "start", "first", "waits", "StopNode", "handlers",
                                       "delete", "exit", "gone"}]
      BY <2>2, <2>4, WorkersStep
    <2>6. rpchand' \in [Client -> {"none", "new", "top", "ReadHTTP", "execute", "reply"}]
      BY <2>1 DEF RpcAt, TypeOK
    <2>7. timer' \in [Timer -> {"none", "sleep", "work"}]
      BY <2>2 DEF TypeOK
    <2>8. TypeOK'
      <3>1. Counted' \in SUBSET Client
        BY DEF Counted
      <3>2. vnThreadsRunning' \in [Counter -> 0..(Cardinality(Client) + 1)]
        BY <2>3, <3>1, CountersBounded DEF CountersExact
      <3> QED
        BY <2>2, <2>3, <2>5, <2>6, <2>7, <3>2 DEF TypeOK, flags
    <2> QED
      BY <2>3, <2>5, <2>8
  <1>6. CASE ThreadStakeMiner
    <2>1. /\ CountersExact' /\ vnThreadsRunning' \in [Counter -> Int]
          /\ miner' \in {"sleep", "work", "gone"} /\ miner # "gone"
      BY <1>0, <1>6 DEF ThreadStakeMiner, MinerTests, MinerWorks, CountersExact, Counted, Count, Uncount,
                        Counter
    <2>2. UNCHANGED <<flags, stopper, msghand, listener, rpchand, timer>>
      BY <1>6 DEF ThreadStakeMiner, MinerTests, MinerWorks
    <2>3. OneStops' /\ (\A s \in Stopper : StopperKnows(s)') /\ Deleter'
      BY <2>1, <2>2, WorkersStep DEF HandlersIdle
    <2>4. TypeOK'
      <3>1. Counted' \in SUBSET Client
        BY DEF Counted
      <3>2. vnThreadsRunning' \in [Counter -> 0..(Cardinality(Client) + 1)]
        BY <2>1, <3>1, CountersBounded DEF CountersExact
      <3> QED
        BY <2>1, <2>2, <3>2 DEF TypeOK, flags
    <2> QED
      BY <2>1, <2>3, <2>4
  <1>7. ASSUME NEW t \in Timer, ThreadCleanWalletPassphrase(t)
        PROVE  IndInv'
    <2>1. CountersExact' /\ TypeOK'
      BY <1>7 DEF ThreadCleanWalletPassphrase, CountersExact, Counted, TypeOK, flags
    <2>2. OneStops' /\ Deleter' /\ \A s \in Stopper : StopperKnows(s)'
      BY <1>7 DEF ThreadCleanWalletPassphrase, OneStops, Deleter, StopperKnows, HandlersIdle, flags
    <2> QED
      BY <2>1, <2>2
  <1>8. ASSUME NEW s \in Stopper, ShutdownThread(s)
        PROVE  IndInv'
    <2> USE DEF StopperAt
    <2>0. UNCHANGED <<fRequestShutdown, vnThreadsRunning, msghand, listener, rpchand, miner, timer>>
      BY <1>8 DEF ShutdownThread, ShutdownEnters, ShutdownSets, StopNodeCounts, StopNodeWaits,
                  ShutdownDeletes, ShutdownExits
    <2>1. CountersExact'
      BY <2>0 DEF CountersExact, Counted
    <2>2. TypeOK'
      BY <1>8, <2>0 DEF TypeOK, ShutdownThread, ShutdownEnters, ShutdownSets, StopNodeCounts, StopNodeWaits,
                  ShutdownDeletes, ShutdownExits
    <2>3. HandlersIdle' = HandlersIdle
      BY <2>0 DEF HandlersIdle
    <2>4. ShutdownEnters(s) => OneStops' /\ (\A r \in Stopper : StopperKnows(r)') /\ Deleter'
      BY <2>0, <2>3 DEF ShutdownEnters, OneStops, StopperKnows, InCharge, Deleter, TypeOK
    <2>5. ASSUME ~ ShutdownEnters(s)
          PROVE  OneStops' /\ (\A r \in Stopper : StopperKnows(r)') /\ Deleter'
      <3>1. /\ stopper[s] \in InCharge /\ stopper'[s] \in InCharge \ {"first"}
            /\ \A r \in Stopper : r # s => stopper'[r] = stopper[r] /\ stopper[r] \notin InCharge
        <4>1. PICK from \in InCharge, to \in InCharge \ {"first"} :
                 stopper[s] = from /\ stopper' = [stopper EXCEPT ![s] = to]
          BY <1>8, <2>5 DEF ShutdownThread, ShutdownSets, StopNodeCounts, StopNodeWaits,
                    ShutdownDeletes, ShutdownExits, InCharge
        <4>2. \A r \in Stopper : r # s => stopper[r] \notin InCharge
          BY <4>1 DEF OneStops, InCharge
        <4> QED
          BY <4>1, <4>2 DEF TypeOK
      <3>2. OneStops'
        BY <3>1 DEF OneStops, InCharge
      <3>3. Deleter'
        BY <1>8, <2>5, <3>1 DEF TypeOK, ShutdownThread, ShutdownSets, StopNodeCounts, StopNodeWaits,
                  ShutdownDeletes, ShutdownExits, InCharge, Deleter
      <3>4. StopperKnows(s)'
        <4>1. StopperKnows(s)
          OBVIOUS
        <4>2. CASE ShutdownSets(s)
          BY <4>1, <4>2 DEF ShutdownSets, StopperKnows, TypeOK, InCharge
        <4>3. CASE StopNodeCounts(s)
          BY <2>0, <4>1, <4>3 DEF StopNodeCounts, StopperKnows, TypeOK, InCharge, CountersExact, Counter
        <4>4. CASE StopNodeWaits(s)
          <5>1. Cardinality(Counted) = 0 /\ msghand # "work"
            BY <4>4 DEF StopNodeWaits, CountersExact
          <5>2. Counted = {}
            BY <5>1, CountedFinite, FS_EmptySet
          <5>3. HandlersIdle
            BY <5>1, <5>2 DEF Counted, HandlersIdle
          <5> QED
            BY <2>0, <2>3, <4>1, <4>4, <5>3 DEF StopNodeWaits, StopperKnows, TypeOK, InCharge
        <4>5. CASE ShutdownDeletes(s) \/ ShutdownExits(s)
          BY <2>0, <2>3, <4>1, <4>5 DEF ShutdownDeletes, ShutdownExits, StopperKnows, TypeOK, InCharge
        <4> QED
          BY <1>8, <2>5, <4>2, <4>3, <4>4, <4>5 DEF ShutdownThread
      <3> QED
        BY <3>1, <3>2, <3>3, <3>4 DEF StopperKnows, InCharge
    <2> QED
      BY <2>1, <2>2, <2>4, <2>5
  <1>9. CASE UNCHANGED vars
    <2>1. CountersExact' /\ TypeOK'
      BY <1>9 DEF vars, CountersExact, Counted, TypeOK
    <2>2. OneStops' /\ Deleter' /\ \A s \in Stopper : StopperKnows(s)'
      BY <1>9 DEF vars, OneStops, Deleter, StopperKnows, HandlersIdle
    <2> QED
      BY <2>1, <2>2
  <1> QED
    BY <1>1, <1>2, <1>3, <1>4, <1>5, <1>6, <1>7, <1>8, <1>9 DEF Next, Running

LEMMA IndInvHolds == Spec => []IndInv
  BY InitInv, StepInv, PTL DEF Spec
-----------------------------------------------------------------------------
(* Every counter of vnThreadsRunning stays between 0 and the number of     *)
(* threads that count themselves in it: none is counted out twice.         *)
THEOREM TypeCorrect == Spec => []TypeOK
  <1>1. IndInv => TypeOK
    BY DEF IndInv
  <1> QED
    BY <1>1, IndInvHolds, PTL

(* fTaken under cs_Shutdown lets one thread into the body of Shutdown,     *)
(* however many were started.                                              *)
THEOREM OneInCharge == Spec => []OneStops
  <1>1. IndInv => OneStops
    BY DEF IndInv
  <1> QED
    BY <1>1, IndInvHolds, PTL

(* pwalletMain is deleted when neither the message handler nor an RPC      *)
(* handler is at work, however many clients there are: a handler that the  *)
(* loop of StopNode did not see counted tests fShutdown before it works.   *)
THEOREM WalletDeletedIdle == Spec => []HandlersGone
  <1>1. IndInv => HandlersGone
    BY DEF IndInv, HandlersGone, Deleter, StopperKnows, HandlersIdle
  <1> QED
    BY <1>1, IndInvHolds, PTL
=============================================================================
