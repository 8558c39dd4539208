--------------------------- MODULE WalletDBProofs ---------------------------
(***************************************************************************)
(* Theorems about WalletDB, for any number of objects of CWalletDB, of     *)
(* updates and of rewrites.                                                *)
(***************************************************************************)
EXTENDS WalletDB, FiniteSetTheorems, TLAPS

Users == {u \in User : user[u] # "closed"}
Writers == {u \in User : user[u] = "write"}

(* mapFileUseCount counts the users, and the object of CDB in Rewrite.     *)
(* Without an entry, the file is closed and complete.                      *)
UseCountExact ==
    /\ mapFileUseCount \in Nat =>
           mapFileUseCount = Cardinality(Users) + (IF rewriter = "copy" THEN 1 ELSE 0)
    /\ mapFileUseCount = NoEntry => Users = {} /\ ~ mapDb /\ nSelf = nLogged
    /\ rewriter # "off" => Users = {} /\ mapFileUseCount # NoEntry

(* The handle is there for those that have it; the environment is closed   *)
(* for good once there is no entry.                                        *)
HandleInv ==
    /\ \A u \in User : user[u] \in {"open", "write"} => mapDb
    /\ ~ fDbEnvInit => mapFileUseCount = NoEntry /\ fShutdown /\ rewriter = "off"

(* No update is numbered past MaxUpdates. *)
UpdatesInv ==
    /\ nLogged + Cardinality(Writers) <= MaxUpdates
    /\ nWalletDBUpdated <= nLogged + Cardinality(Writers)

(* Rewrite removes wallet.dat with a full copy in hand. *)
RewriteInv ==
    /\ fUnnoticed \in BOOLEAN
    /\ rewriter \in {"remove", "rename"} => fUnnoticed \/ walletRewrite = "full"

IndInv ==
    /\ TypeOK
    /\ UseCountExact
    /\ HandleInv
    /\ UpdatesInv
    /\ RewriteInv
    /\ KeysSomewhere
-----------------------------------------------------------------------------
(* The sets that are counted are finite. *)
LEMMA Finite ==
    /\ IsFiniteSet(Users) /\ Cardinality(Users) \in 0..Cardinality(User)
    /\ IsFiniteSet(Writers) /\ Cardinality(Writers) \in 0..Cardinality(User)
    /\ Cardinality(User) \in Nat
  <1>1. Users \subseteq User /\ Writers \subseteq User
    BY DEF Users, Writers
  <1> QED
    BY <1>1, WalletDBAssumption, FS_Subset, FS_CardinalityType

(* The same of the next state. *)
LEMMA FiniteNext ==
    /\ IsFiniteSet(Users') /\ Cardinality(Users') \in 0..Cardinality(User)
    /\ IsFiniteSet(Writers') /\ Cardinality(Writers') \in 0..Cardinality(User)
  <1>1. Users' \subseteq User /\ Writers' \subseteq User
    BY DEF Users, Writers
  <1> QED
    BY <1>1, WalletDBAssumption, FS_Subset, FS_CardinalityType

(* An object of CWalletDB that moves changes the numbers of users and of   *)
(* writers by one at most.                                                 *)
LEMMA UserMoves ==
    ASSUME TypeOK, NEW u \in User,
           NEW from \in {"closed", "open", "write", "closing"},
           NEW to \in {"closed", "open", "write", "closing"},
           UserAt(u, from, to)
    PROVE  /\ user' \in [User -> {"closed", "open", "write", "closing"}]
           /\ user'[u] = to /\ \A v \in User : v # u => user'[v] = user[v]
           /\ Cardinality(Users') = Cardinality(Users)
                                    + (IF from = "closed" /\ to # "closed" THEN 1 ELSE 0)
                                    - (IF from # "closed" /\ to = "closed" THEN 1 ELSE 0)
           /\ Cardinality(Writers') = Cardinality(Writers)
                                    + (IF from # "write" /\ to = "write" THEN 1 ELSE 0)
                                    - (IF from = "write" /\ to # "write" THEN 1 ELSE 0)
  <1>1. user[u] = from /\ user' = [user EXCEPT ![u] = to]
    BY DEF UserAt
  <1>2. /\ user' \in [User -> {"closed", "open", "write", "closing"}]
        /\ user'[u] = to /\ \A v \in User : v # u => user'[v] = user[v]
    BY <1>1 DEF TypeOK
  <1>3. Cardinality(Users) \in Int /\ Cardinality(Writers) \in Int
    BY Finite
  <1>4. Cardinality(Users') = Cardinality(Users)
                              + (IF from = "closed" /\ to # "closed" THEN 1 ELSE 0)
                              - (IF from # "closed" /\ to = "closed" THEN 1 ELSE 0)
    <2>1. CASE from = "closed" /\ to # "closed"
      <3>1. Users' = Users \cup {u} /\ u \notin Users
        BY <1>1, <1>2, <2>1 DEF Users
      <3>2. Cardinality(Users') = Cardinality(Users) + 1
        BY <3>1, Finite, FS_AddElement
      <3> QED
        BY <1>3, <2>1, <3>2
    <2>2. CASE from # "closed" /\ to = "closed"
      <3>1. Users' = Users \ {u} /\ u \in Users
        BY <1>1, <1>2, <2>2 DEF Users
      <3>2. Cardinality(Users') = Cardinality(Users) - 1
        BY <3>1, Finite, FS_RemoveElement
      <3> QED
        BY <1>3, <2>2, <3>2
    <2>3. CASE (from = "closed") = (to = "closed")
      <3>1. Users' = Users
        BY <1>1, <1>2, <2>3 DEF Users
      <3> QED
        BY <1>3, <2>3, <3>1
    <2> QED
      BY <2>1, <2>2, <2>3
  <1>5. Cardinality(Writers') = Cardinality(Writers)
                              + (IF from # "write" /\ to = "write" THEN 1 ELSE 0)
                              - (IF from = "write" /\ to # "write" THEN 1 ELSE 0)
    <2>1. CASE from # "write" /\ to = "write"
      <3>1. Writers' = Writers \cup {u} /\ u \notin Writers
        BY <1>1, <1>2, <2>1 DEF Writers
      <3>2. Cardinality(Writers') = Cardinality(Writers) + 1
        BY <3>1, Finite, FS_AddElement
      <3> QED
        BY <1>3, <2>1, <3>2
    <2>2. CASE from = "write" /\ to # "write"
      <3>1. Writers' = Writers \ {u} /\ u \in Writers
        BY <1>1, <1>2, <2>2 DEF Writers
      <3>2. Cardinality(Writers') = Cardinality(Writers) - 1
        BY <3>1, Finite, FS_RemoveElement
      <3> QED
        BY <1>3, <2>2, <3>2
    <2>3. CASE (from = "write") = (to = "write")
      <3>1. Writers' = Writers
        BY <1>1, <1>2, <2>3 DEF Writers
      <3> QED
        BY <1>3, <2>3, <3>1
    <2> QED
      BY <2>1, <2>2, <2>3
  <1> QED
    BY <1>2, <1>4, <1>5
-----------------------------------------------------------------------------
LEMMA InitInv == Init => IndInv
  <1> SUFFICES ASSUME Init PROVE IndInv
    OBVIOUS
  <1>1. Users = {} /\ Writers = {}
    BY DEF Init, Users, Writers
  <1>2. Cardinality(Users) = 0 /\ Cardinality(Writers) = 0
    BY <1>1, FS_EmptySet
  <1>3. TypeOK
    <2>1. 0 \in 0..MaxUpdates /\ 0 \in NoEntry..(Cardinality(User) + 1)
      BY Finite, WalletDBAssumption DEF NoEntry
    <2> QED
      BY <2>1 DEF Init, TypeOK, NewFlusher
  <1>4. UpdatesInv
    BY <1>2, WalletDBAssumption DEF Init, UpdatesInv
  <1>5. UseCountExact
    BY <1>1, <1>2 DEF Init, UseCountExact, NoEntry
  <1> QED
    BY <1>3, <1>4, <1>5 DEF Init, IndInv, HandleInv, RewriteInv, KeysSomewhere

(* The file is not in use: nobody has an object of CDB. *)
LEMMA NobodyUses ==
    ASSUME IndInv, NotInUse
    PROVE  Users = {} /\ Writers = {} /\ (\A u \in User : user[u] = "closed") /\ rewriter # "copy"
  <1>1. Users = {}
    BY Finite, FS_EmptySet DEF IndInv, UseCountExact, NotInUse
  <1>2. rewriter # "copy"
    BY Finite DEF IndInv, UseCountExact, NotInUse
  <1> QED
    BY <1>1, <1>2 DEF Users, Writers

(* A step that leaves the users alone keeps the two sets. *)
LEMMA UsersKept ==
    ASSUME user' = user
    PROVE  Users' = Users /\ Writers' = Writers
  BY DEF Users, Writers

(* The steps of one object of CWalletDB. *)
LEMMA UserStepInv ==
    ASSUME IndInv, NEW u \in User, UserSteps(u)
    PROVE  IndInv'
  <1> USE DEF IndInv
  <1>0. Cardinality(Users) \in Nat /\ Cardinality(Writers) \in Nat
    BY Finite
  <1>1. CASE CDB(u)
    <2>0. /\ rewriter = "off" /\ fDbEnvInit
          /\ UNCHANGED <<fShutdown, fDbEnvInit, nWalletDBUpdated, flusher, rewriter, nLogged, nSelf,
                         walletDat, walletRewrite, nRewrites, fUnnoticed>>
      BY <1>1 DEF CDB, LOCK_cs_db, unused, files, bounds
    <2>1. CASE walletDat = "missing" /\ ~ mapDb
      <3>1. UNCHANGED <<user, mapDb>> /\
            mapFileUseCount' = IF mapFileUseCount = NoEntry THEN 0 ELSE mapFileUseCount
        BY <1>1, <2>1 DEF CDB
      <3>2. Users' = Users /\ Writers' = Writers
        BY <3>1, UsersKept
      <3>3. UseCountExact'
        BY <2>0, <3>1, <3>2, <1>0, FS_EmptySet DEF UseCountExact, NoEntry, TypeOK
      <3>4. TypeOK'
        BY <2>0, <3>1, Finite DEF TypeOK, NoEntry
      <3> QED
        BY <2>0, <3>1, <3>2, <3>3, <3>4 DEF HandleInv, UpdatesInv, RewriteInv, KeysSomewhere
    <2>2. CASE ~ (walletDat = "missing" /\ ~ mapDb)
      <3>1. UserAt(u, "closed", "open") /\ Use /\ mapDb' = TRUE
        BY <1>1, <2>2 DEF CDB
      <3>2. /\ user' \in [User -> {"closed", "open", "write", "closing"}]
            /\ Cardinality(Users') = Cardinality(Users) + 1
            /\ Cardinality(Writers') = Cardinality(Writers)
        BY <3>1, <1>0, UserMoves
      <3>3. mapFileUseCount' = Cardinality(Users') /\ mapFileUseCount' \in Nat
        <4>1. mapFileUseCount = NoEntry => Cardinality(Users) = 0
          BY FS_EmptySet DEF UseCountExact
        <4>2. mapFileUseCount = NoEntry \/ mapFileUseCount = Cardinality(Users)
          BY <2>0, <1>0, Finite DEF UseCountExact, TypeOK, NoEntry
        <4> QED
          BY <3>1, <3>2, <1>0, <4>1, <4>2 DEF Use, NoEntry
      <3>4. UseCountExact'
        BY <2>0, <3>2, <3>3, <1>0 DEF UseCountExact, NoEntry
      <3>5. TypeOK'
        BY <2>0, <3>1, <3>2, <3>3, Finite, FiniteNext DEF TypeOK, NoEntry
      <3>6. UpdatesInv'
        BY <2>0, <3>2 DEF UpdatesInv
      <3> QED
        BY <2>0, <3>1, <3>4, <3>5, <3>6 DEF HandleInv, RewriteInv, KeysSomewhere
    <2> QED
      BY <2>1, <2>2
  <1>2. CASE Update(u)
    <2>0. UNCHANGED <<fShutdown, fDbEnvInit, mapFileUseCount, mapDb, flusher, rewriter, nLogged, nSelf,
                      walletDat, walletRewrite, nRewrites, fUnnoticed>>
      BY <1>2 DEF Update, files, bounds
    <2>1. UserAt(u, "open", "write") /\ nWalletDBUpdated' = nWalletDBUpdated + 1
      BY <1>2 DEF Update
    <2>2. /\ user' \in [User -> {"closed", "open", "write", "closing"}]
          /\ \A v \in User : v # u => user'[v] = user[v]
          /\ Cardinality(Users') = Cardinality(Users)
          /\ Cardinality(Writers') = Cardinality(Writers) + 1
      BY <2>1, <1>0, UserMoves
    <2>3. nLogged + Cardinality(Writers) < MaxUpdates
      BY <1>2 DEF Update, Writers
    <2>4. u \in Users
      BY <2>1 DEF UserAt, Users
    <2>5. UpdatesInv'
      BY <2>0, <2>1, <2>2, <2>3, <1>0, WalletDBAssumption DEF UpdatesInv, TypeOK
    <2>6. UseCountExact'
      BY <2>0, <2>2, <2>4 DEF UseCountExact
    <2>7. nWalletDBUpdated' \in 0..MaxUpdates
      BY <2>1, <2>3, <1>0, WalletDBAssumption DEF UpdatesInv, TypeOK
    <2>8. TypeOK'
      BY <2>0, <2>2, <2>7 DEF TypeOK
    <2>9. HandleInv'
      BY <2>0, <2>1, <2>2 DEF HandleInv, UserAt
    <2> QED
      BY <2>0, <2>5, <2>6, <2>8, <2>9 DEF RewriteInv, KeysSomewhere
  <1>3. CASE Write(u)
    <2>0. UNCHANGED <<fShutdown, fDbEnvInit, mapFileUseCount, mapDb, nWalletDBUpdated, flusher, rewriter,
                      nSelf, walletDat, walletRewrite, nRewrites, fUnnoticed>>
      BY <1>3 DEF Write, files, bounds
    <2>1. UserAt(u, "write", "open") /\ nLogged' = nLogged + 1
      BY <1>3 DEF Write
    <2>2. /\ user' \in [User -> {"closed", "open", "write", "closing"}]
          /\ \A v \in User : v # u => user'[v] = user[v]
          /\ Cardinality(Users') = Cardinality(Users)
          /\ Cardinality(Writers') = Cardinality(Writers) - 1
      BY <2>1, <1>0, UserMoves
    <2>3. u \in Users
      BY <2>1 DEF UserAt, Users
    <2>4. UpdatesInv'
      BY <2>0, <2>1, <2>2, <1>0, WalletDBAssumption DEF UpdatesInv, TypeOK
    <2>5. UseCountExact'
      BY <2>0, <2>2, <2>3 DEF UseCountExact
    <2>6. nLogged' \in 0..MaxUpdates
      BY <2>1, <2>2, <1>0, FiniteNext, WalletDBAssumption DEF UpdatesInv, TypeOK
    <2>7. TypeOK'
      BY <2>0, <2>2, <2>6 DEF TypeOK
    <2>8. HandleInv'
      BY <2>0, <2>1, <2>2 DEF HandleInv, UserAt
    <2> QED
      BY <2>0, <2>4, <2>5, <2>7, <2>8 DEF RewriteInv, KeysSomewhere
  <1>4. CASE CloseBegins(u)
    <2>0. UNCHANGED <<fShutdown, fDbEnvInit, mapFileUseCount, mapDb, nWalletDBUpdated, flusher, rewriter,
                      nLogged, nSelf, walletDat, walletRewrite, nRewrites, fUnnoticed>>
      BY <1>4 DEF CloseBegins, unused, files, bounds
    <2>1. UserAt(u, "open", "closing")
      BY <1>4 DEF CloseBegins
    <2>2. /\ user' \in [User -> {"closed", "open", "write", "closing"}]
          /\ user'[u] = "closing" /\ \A v \in User : v # u => user'[v] = user[v]
          /\ Cardinality(Users') = Cardinality(Users)
          /\ Cardinality(Writers') = Cardinality(Writers)
      BY <2>1, <1>0, UserMoves
    <2>3. u \in Users
      BY <2>1 DEF UserAt, Users
    <2>4. UpdatesInv' /\ UseCountExact'
      BY <2>0, <2>2, <2>3 DEF UpdatesInv, UseCountExact
    <2>5. TypeOK'
      BY <2>0, <2>2 DEF TypeOK
    <2>6. HandleInv'
      BY <2>0, <2>2 DEF HandleInv
    <2> QED
      BY <2>0, <2>4, <2>5, <2>6 DEF RewriteInv, KeysSomewhere
  <1>5. CASE CloseEnds(u)
    <2>0. /\ rewriter = "off"
          /\ UNCHANGED <<fShutdown, fDbEnvInit, mapDb, nWalletDBUpdated, flusher, rewriter,
                         nLogged, nSelf, walletDat, walletRewrite, nRewrites, fUnnoticed>>
      BY <1>5 DEF CloseEnds, LOCK_cs_db, unused, files, bounds
    <2>1. UserAt(u, "closing", "closed") /\ mapFileUseCount' = mapFileUseCount - 1
      BY <1>5 DEF CloseEnds
    <2>2. /\ user' \in [User -> {"closed", "open", "write", "closing"}]
          /\ user'[u] = "closed" /\ \A v \in User : v # u => user'[v] = user[v]
          /\ Cardinality(Users') = Cardinality(Users) - 1
          /\ Cardinality(Writers') = Cardinality(Writers)
      BY <2>1, <1>0, UserMoves
    <2>3. u \in Users
      BY <2>1 DEF UserAt, Users
    <2>4. mapFileUseCount' = Cardinality(Users') /\ Cardinality(Users') \in 0..Cardinality(User)
      BY <2>0, <2>1, <2>2, <2>3, <1>0, Finite, FiniteNext DEF UseCountExact, TypeOK, NoEntry
    <2>5. UseCountExact'
      BY <2>0, <2>4 DEF UseCountExact, NoEntry
    <2>6. UpdatesInv'
      BY <2>0, <2>2 DEF UpdatesInv
    <2>7. TypeOK'
      BY <2>0, <2>2, <2>4, Finite DEF TypeOK, NoEntry
    <2>8. HandleInv'
      BY <2>0, <2>1, <2>2, <2>3 DEF HandleInv, UseCountExact
    <2> QED
      BY <2>0, <2>5, <2>6, <2>7, <2>8 DEF RewriteInv, KeysSomewhere
  <1> QED
    BY <1>1, <1>2, <1>3, <1>4, <1>5 DEF UserSteps

(* CloseDb and CheckpointLSN with nobody using the file. *)
LEMMA DetachInv ==
    ASSUME IndInv, NotInUse, rewriter = "off", Detach,
           UNCHANGED <<fShutdown, user, nWalletDBUpdated, rewriter, nLogged, files, fUnnoticed>>,
           flusher' \in [pc : {"new", "look", "flush"}, nLastSeen : 0..MaxUpdates,
                         nLastFlushed : 0..MaxUpdates, nFirst : 0..MaxUpdates],
           fDbEnvInit' \in BOOLEAN, fDbEnvInit' \/ fShutdown
    PROVE  IndInv'
  <1>1. Users = {} /\ Writers = {} /\ (\A u \in User : user[u] = "closed")
    BY NobodyUses
  <1>2. Users' = Users /\ Writers' = Writers
    BY UsersKept
  <1>3. UseCountExact'
    BY <1>1, <1>2 DEF UseCountExact, Detach, NoEntry
  <1>4. TypeOK'
    <2>1. NoEntry \in NoEntry..(Cardinality(User) + 1)
      BY Finite DEF NoEntry
    <2> QED
      BY <2>1 DEF IndInv, TypeOK, Detach, files
  <1>5. HandleInv'
    BY <1>1 DEF HandleInv, Detach
  <1> QED
    BY <1>2, <1>3, <1>4, <1>5 DEF IndInv, UpdatesInv, RewriteInv, KeysSomewhere, files

(* The thread that flushes the wallet. *)
LEMMA FlushThreadInv ==
    ASSUME IndInv, ThreadFlushWalletDB
    PROVE  IndInv'
  <1>0. UNCHANGED <<fShutdown, fDbEnvInit, user, nWalletDBUpdated, rewriter, nLogged, files, bounds>>
    BY DEF ThreadFlushWalletDB, FlushStarts, FlushLooks, FlushWallet, unflushed
  <1>1. flusher' \in [pc : {"new", "look", "flush"}, nLastSeen : 0..MaxUpdates,
                      nLastFlushed : 0..MaxUpdates, nFirst : 0..MaxUpdates]
    <2>1. nWalletDBUpdated \in 0..MaxUpdates
      BY DEF IndInv, TypeOK
    <2>2. flusher \in [pc : {"new", "look", "flush"}, nLastSeen : 0..MaxUpdates,
                       nLastFlushed : 0..MaxUpdates, nFirst : 0..MaxUpdates]
      BY DEF IndInv, TypeOK
    <2>3. CASE FlushStarts
      BY <2>1, <2>3 DEF FlushStarts
    <2>4. CASE FlushLooks
      BY <2>1, <2>2, <2>4 DEF FlushLooks
    <2>5. CASE FlushWallet
      BY <2>1, <2>2, <2>5 DEF FlushWallet
    <2> QED
      BY <2>3, <2>4, <2>5 DEF ThreadFlushWalletDB
  <1>2. CASE NotInUse /\ rewriter = "off" /\ Detach
    <2>1. fDbEnvInit' \in BOOLEAN /\ (fDbEnvInit' \/ fShutdown)
      BY <1>0 DEF IndInv, TypeOK, HandleInv
    <2> QED
      BY <1>0, <1>1, <1>2, <2>1, DetachInv DEF bounds
  <1>3. CASE UNCHANGED <<mapFileUseCount, mapDb, nSelf>>
    <2>1. Users' = Users /\ Writers' = Writers
      BY <1>0, UsersKept
    <2> QED
      BY <1>0, <1>1, <1>3, <2>1
         DEF IndInv, TypeOK, UseCountExact, HandleInv, UpdatesInv, RewriteInv, KeysSomewhere, files, bounds
  <1> QED
    BY <1>2, <1>3 DEF ThreadFlushWalletDB, FlushStarts, FlushLooks, FlushWallet, LOCK_cs_db, NotInUse

(* Rewrite: the file is not in use when it begins, and cs_db is held until *)
(* it ends.                                                                *)
LEMMA RewriteStepInv ==
    ASSUME IndInv, Rewrite
    PROVE  IndInv'
  <1>0. /\ UNCHANGED <<fShutdown, fDbEnvInit, user, nWalletDBUpdated, flusher, nLogged>>
        /\ Users' = Users /\ Writers' = Writers
    BY UsersKept DEF Rewrite, RewriteBegins, RewriteCopies, RewriteRemoves, RewriteRenames, unwritten
  <1>1. Users = {} /\ (\A u \in User : user[u] = "closed") /\ fDbEnvInit
    <2>1. CASE RewriteBegins
      BY <2>1, NobodyUses DEF RewriteBegins, IndInv, HandleInv, TypeOK
    <2>2. CASE rewriter # "off"
      BY <2>2 DEF IndInv, UseCountExact, HandleInv, TypeOK, Users
    <2> QED
      BY <2>1, <2>2 DEF Rewrite, RewriteCopies, RewriteRemoves, RewriteRenames
  <1>2. Cardinality(Users') = 0
    BY <1>0, <1>1, FS_EmptySet
  <1>3. UpdatesInv' /\ HandleInv'
    BY <1>0, <1>1 DEF IndInv, UpdatesInv, HandleInv
  <1>4. UseCountExact'
    BY <1>0, <1>1, <1>2, Finite
       DEF IndInv, UseCountExact, Rewrite, RewriteBegins, RewriteCopies, RewriteRemoves, RewriteRenames,
           NoEntry, TypeOK
  <1>5. TypeOK'
    <2>1. {0, 1} \subseteq NoEntry..(Cardinality(User) + 1)
      BY Finite DEF NoEntry
    <2> QED
      BY <1>0, <2>1
         DEF IndInv, TypeOK, Rewrite, RewriteBegins, RewriteCopies, RewriteRemoves, RewriteRenames, files
  <1>6. RewriteInv' /\ KeysSomewhere'
    BY DEF IndInv, RewriteInv, KeysSomewhere, TypeOK, Rewrite, RewriteBegins, RewriteCopies,
           RewriteRemoves, RewriteRenames, files
  <1> QED
    BY <1>3, <1>4, <1>5, <1>6 DEF IndInv

LEMMA StepInv ==
    ASSUME IndInv, [Next]_vars
    PROVE  IndInv'
  <1>1. CASE \E u \in User : UserSteps(u)
    BY <1>1, UserStepInv
  <1>2. CASE ThreadFlushWalletDB
    BY <1>2, FlushThreadInv
  <1>3. CASE BackupWallet
    <2>1. fDbEnvInit' \in BOOLEAN /\ (fDbEnvInit' \/ fShutdown)
      BY <1>3 DEF BackupWallet, IndInv, TypeOK, HandleInv
    <2>2. flusher' \in [pc : {"new", "look", "flush"}, nLastSeen : 0..MaxUpdates,
                        nLastFlushed : 0..MaxUpdates, nFirst : 0..MaxUpdates]
      BY <1>3 DEF BackupWallet, IndInv, TypeOK
    <2> QED
      BY <1>3, <2>1, <2>2, DetachInv DEF BackupWallet, LOCK_cs_db
  <1>4. CASE Rewrite
    BY <1>4, RewriteStepInv
  <1>5. CASE StartsShutdown
    <2>1. Users' = Users /\ Writers' = Writers
      BY <1>5, UsersKept DEF StartsShutdown
    <2> QED
      BY <1>5, <2>1 DEF StartsShutdown, unused, IndInv, TypeOK, UseCountExact, HandleInv, UpdatesInv,
                        RewriteInv, KeysSomewhere, files, bounds
  <1>6. CASE Flush
    <2>0. /\ UNCHANGED <<fShutdown, user, nWalletDBUpdated, rewriter, nLogged, files, fUnnoticed>>
          /\ fShutdown /\ rewriter = "off" /\ fDbEnvInit' \in BOOLEAN
          /\ fDbEnvInit' \/ NotInUse
          /\ flusher' \in [pc : {"new", "look", "flush"}, nLastSeen : 0..MaxUpdates,
                           nLastFlushed : 0..MaxUpdates, nFirst : 0..MaxUpdates]
      BY <1>6 DEF Flush, LOCK_cs_db, bounds, IndInv, TypeOK, NotInUse
    <2>1. CASE mapFileUseCount = 0
      BY <1>6, <2>0, <2>1, DetachInv DEF Flush, NotInUse
    <2>2. CASE mapFileUseCount # 0
      <3>1. UNCHANGED <<mapDb, nSelf, mapFileUseCount>>
        BY <1>6, <2>2 DEF Flush
      <3>2. Users' = Users /\ Writers' = Writers
        BY <2>0, UsersKept
      <3> QED
        BY <2>0, <2>2, <3>1, <3>2 DEF NotInUse, IndInv, TypeOK, UseCountExact, HandleInv, UpdatesInv,
                        RewriteInv, KeysSomewhere, files
    <2> QED
      BY <2>1, <2>2
  <1>7. CASE Restart
    <2>1. Users' = {} /\ Writers' = {} /\ \A u \in User : user'[u] = "closed"
      BY <1>7 DEF Restart, Users, Writers
    <2>2. Cardinality(Users') = 0 /\ Cardinality(Writers') = 0
      BY <2>1, FS_EmptySet
    <2>3. UseCountExact'
      BY <1>7, <2>1, <2>2 DEF Restart, UseCountExact, NoEntry
    <2>4. UpdatesInv'
      BY <1>7, <2>2, Finite, WalletDBAssumption DEF Restart, IndInv, UpdatesInv, TypeOK
    <2>5. TypeOK'
      <3>1. 0 \in 0..MaxUpdates /\ 0 \in NoEntry..(Cardinality(User) + 1)
        BY Finite, WalletDBAssumption DEF NoEntry
      <3> QED
        BY <1>7, <3>1 DEF Restart, IndInv, TypeOK, NewFlusher
    <2> QED
      BY <1>7, <2>1, <2>3, <2>4, <2>5 DEF Restart, IndInv, HandleInv, RewriteInv, KeysSomewhere, bounds,
                        TypeOK
  <1>8. CASE UNCHANGED vars
    <2>1. Users' = Users /\ Writers' = Writers
      BY <1>8, UsersKept DEF vars
    <2> QED
      BY <1>8, <2>1 DEF vars, IndInv, TypeOK, UseCountExact, HandleInv, UpdatesInv,
                        RewriteInv, KeysSomewhere
  <1> QED
    BY <1>1, <1>2, <1>3, <1>4, <1>5, <1>6, <1>7, <1>8 DEF Next

LEMMA IndInvHolds == Spec => []IndInv
  BY InitInv, StepInv, PTL DEF Spec
-----------------------------------------------------------------------------
(* The entry of mapFileUseCount stays between none and the number of       *)
(* objects of CDB there can be: Close never counts one out twice.          *)
THEOREM TypeCorrect == Spec => []TypeOK
  <1>1. IndInv => TypeOK
    BY DEF IndInv
  <1> QED
    BY <1>1, IndInvHolds, PTL

(* An object of CDB that is open has its handle, and the environment, for  *)
(* as long as it is open: neither the flush thread, nor a backup, nor      *)
(* Rewrite, nor the last Flush closes either under it.                     *)
THEOREM HandleStaysLive == Spec => []HandleLive
  <1>1. IndInv => HandleLive
    BY DEF IndInv, HandleLive, HandleInv, UseCountExact, Users, TypeOK
  <1> QED
    BY <1>1, IndInvHolds, PTL

(* When Flush(true) has removed the log, wallet.dat has every update, and  *)
(* nobody uses the environment or will again.                              *)
THEOREM LogRemovedSafely == Spec => []LogNotNeeded
  <1>1. IndInv => LogNotNeeded
    BY DEF IndInv, LogNotNeeded, HandleInv, UseCountExact, Users, TypeOK
  <1> QED
    BY <1>1, IndInvHolds, PTL

(* At every point at which the process may end, wallet.dat or its copy has *)
(* all the keys, unless Rewrite took a copy that failed for complete.      *)
THEOREM KeysKept == Spec => []KeysSomewhere
  <1>1. IndInv => KeysSomewhere
    BY DEF IndInv
  <1> QED
    BY <1>1, IndInvHolds, PTL
=============================================================================
