------------------------------ MODULE WalletDB ------------------------------
(***************************************************************************)
(* The wallet file in the Berkeley DB environment (db.cpp, walletdb.cpp):  *)
(* objects of class CDB that share one handle and count its users, the     *)
(* thread that flushes wallet.dat, backups, Rewrite, and the last flush.   *)
(*                                                                         *)
(* Updates are numbered.  The environment's log keeps each as soon as it   *)
(* is written, so a restart recovers them (DB_RECOVER); wallet.dat has     *)
(* them without the log once the handle is closed, the environment is      *)
(* checkpointed and the file's sequence numbers are reset.                 *)
(***************************************************************************)
EXTENDS Integers, FiniteSets

CONSTANTS
    User,               \* objects of CWalletDB at a time
    MaxUpdates,         \* bound on the updates
    MaxRewrites         \* bound on the rewrites of the file

ASSUME WalletDBAssumption ==
    IsFiniteSet(User) /\ {MaxUpdates, MaxRewrites} \subseteq Nat

NoEntry == -1           \* mapFileUseCount has no entry for wallet.dat

VARIABLES
    fShutdown,
    fDbEnvInit,             \* the environment is open
    mapFileUseCount,        \* its entry for wallet.dat
    mapDb,                  \* is there a handle for wallet.dat?
    user,                   \* where each object of CWalletDB is
    nWalletDBUpdated,
    flusher,                \* the thread of ThreadFlushWalletDB: pc, nLastSeen, nLastFlushed,
                            \* and the nFirst it started with
    rewriter,               \* where the thread in Rewrite is; it holds cs_db
    nLogged,                \* the updates written
    nSelf,                  \* those that wallet.dat has without the log
    walletDat,              \* the file wallet.dat: the wallet, missing, or a new wallet
    walletRewrite,          \* the file wallet.dat.rewrite
    nRewrites,
    fUnnoticed              \* history: a copy failed and Rewrite took it for complete

vars == <<fShutdown, fDbEnvInit, mapFileUseCount, mapDb, user, nWalletDBUpdated, flusher, rewriter,
          nLogged, nSelf, walletDat, walletRewrite, nRewrites, fUnnoticed>>
files == <<walletDat, walletRewrite>>
bounds == <<nRewrites, fUnnoticed>>

NewFlusher == [pc |-> "new", nLastSeen |-> 0, nLastFlushed |-> 0, nFirst |-> 0]

(* LoadWallet has read the file and closed its CWalletDB. *)
Init ==
    /\ fShutdown = FALSE /\ fDbEnvInit = TRUE
    /\ mapFileUseCount = 0 /\ mapDb = TRUE
    /\ user = [u \in User |-> "closed"]
    /\ nWalletDBUpdated = 0
    /\ flusher = NewFlusher
    /\ rewriter = "off"
    /\ nLogged = 0 /\ nSelf = 0
    /\ walletDat = "wallet" /\ walletRewrite = "none"
    /\ nRewrites = 0 /\ fUnnoticed = FALSE

LOCK_cs_db == rewriter = "off"

NotInUse == mapFileUseCount \in {NoEntry, 0}

(* CloseDb, CheckpointLSN, and the entry is erased. *)
Detach ==
    /\ mapDb' = FALSE
    /\ nSelf' = nLogged
    /\ mapFileUseCount' = NoEntry
-----------------------------------------------------------------------------
(* Objects of class CWalletDB. *)

UserAt(u, from, to) == user[u] = from /\ user' = [user EXCEPT ![u] = to]
unused == <<nWalletDBUpdated, flusher, rewriter, nLogged, nSelf, files, bounds>>

Use == mapFileUseCount' = IF mapFileUseCount = NoEntry THEN 1 ELSE mapFileUseCount + 1

(* The constructor fails when the environment is closed for good, and      *)
(* when there is no file; the user is counted out again.                   *)
CDB(u) ==
    /\ LOCK_cs_db
    /\ fDbEnvInit
    /\ IF walletDat = "missing" /\ ~ mapDb
       THEN /\ user[u] = "closed" /\ UNCHANGED <<user, mapDb>>
            /\ mapFileUseCount' = IF mapFileUseCount = NoEntry THEN 0 ELSE mapFileUseCount
       ELSE UserAt(u, "closed", "open") /\ Use /\ mapDb' = TRUE
    /\ UNCHANGED <<fShutdown, fDbEnvInit, unused>>

(* An update raises nWalletDBUpdated and then calls Write.  (WriteAccount, *)
(* WriteAccountingEntry and WriteMinVersion only write, in the company of  *)
(* updates that count.)                                                    *)
Update(u) ==
    /\ nLogged + Cardinality({v \in User : user[v] = "write"}) < MaxUpdates
    /\ UserAt(u, "open", "write")
    /\ nWalletDBUpdated' = nWalletDBUpdated + 1
    /\ UNCHANGED <<fShutdown, fDbEnvInit, mapFileUseCount, mapDb, flusher, rewriter, nLogged, nSelf, files,
                   bounds>>

Write(u) ==
    /\ UserAt(u, "write", "open")
    /\ nLogged' = nLogged + 1
    /\ UNCHANGED <<fShutdown, fDbEnvInit, mapFileUseCount, mapDb, nWalletDBUpdated, flusher, rewriter, nSelf,
                   files, bounds>>

(* Close gives up the handle first, outside cs_db, and is counted out      *)
(* after the checkpoint.                                                   *)
CloseBegins(u) ==
    /\ UserAt(u, "open", "closing")
    /\ UNCHANGED <<fShutdown, fDbEnvInit, mapFileUseCount, mapDb, unused>>

(* Mutant of CloseEnds: the entry is erased with the last user. *)
CloseErases(u) ==
    /\ LOCK_cs_db
    /\ UserAt(u, "closing", "closed")
    /\ mapFileUseCount' = IF mapFileUseCount = 1 THEN NoEntry ELSE mapFileUseCount - 1
    /\ UNCHANGED <<fShutdown, fDbEnvInit, mapDb, unused>>

CloseEnds(u) ==
    /\ LOCK_cs_db
    /\ UserAt(u, "closing", "closed")
    /\ mapFileUseCount' = mapFileUseCount - 1
    /\ UNCHANGED <<fShutdown, fDbEnvInit, mapDb, unused>>
-----------------------------------------------------------------------------
(* ThreadFlushWalletDB. *)

unflushed == <<fShutdown, fDbEnvInit, user, nWalletDBUpdated, rewriter, nLogged, files, bounds>>

(* The thread starts with the updates there are then, as if flushed. *)
FlushStarts ==
    /\ flusher.pc = "new"
    /\ flusher' = [pc |-> "look", nLastSeen |-> nWalletDBUpdated, nLastFlushed |-> nWalletDBUpdated,
                   nFirst |-> nWalletDBUpdated]
    /\ UNCHANGED <<mapFileUseCount, mapDb, nSelf, unflushed>>

(* There are new updates: it waits until there are none for two seconds. *)
FlushLooks ==
    /\ flusher.pc = "look" /\ ~ fShutdown
    /\ \/ /\ flusher.nLastSeen # nWalletDBUpdated
          /\ flusher' = [flusher EXCEPT !.nLastSeen = nWalletDBUpdated]
       \/ /\ flusher.nLastSeen = nWalletDBUpdated /\ flusher.nLastFlushed # nWalletDBUpdated
          /\ flusher' = [flusher EXCEPT !.pc = "flush"]
    /\ UNCHANGED <<mapFileUseCount, mapDb, nSelf, unflushed>>

(* Mutant of FlushWallet: the users are not looked at. *)
FlushInUse ==
    /\ flusher.pc = "flush"
    /\ IF LOCK_cs_db /\ mapFileUseCount # NoEntry /\ ~ fShutdown
       THEN flusher' = [flusher EXCEPT !.pc = "look", !.nLastFlushed = nWalletDBUpdated] /\ Detach
       ELSE flusher' = [flusher EXCEPT !.pc = "look"] /\ UNCHANGED <<mapFileUseCount, mapDb, nSelf>>
    /\ UNCHANGED unflushed

(* Mutant of FlushWallet: the updates are taken as flushed although the    *)
(* file is in use.                                                         *)
FlushForgets ==
    /\ flusher.pc = "flush"
    /\ flusher' = [flusher EXCEPT !.pc = "look", !.nLastFlushed = nWalletDBUpdated]
    /\ IF LOCK_cs_db /\ mapFileUseCount = 0 /\ ~ fShutdown
       THEN Detach
       ELSE UNCHANGED <<mapFileUseCount, mapDb, nSelf>>
    /\ UNCHANGED unflushed

(* If it gets cs_db and no database is in use, it flushes the file. *)
FlushWallet ==
    /\ flusher.pc = "flush"
    /\ IF LOCK_cs_db /\ mapFileUseCount = 0 /\ ~ fShutdown
       THEN flusher' = [flusher EXCEPT !.pc = "look", !.nLastFlushed = nWalletDBUpdated] /\ Detach
       ELSE flusher' = [flusher EXCEPT !.pc = "look"] /\ UNCHANGED <<mapFileUseCount, mapDb, nSelf>>
    /\ UNCHANGED unflushed

ThreadFlushWalletDB == FlushStarts \/ FlushLooks \/ FlushWallet
-----------------------------------------------------------------------------

(* BackupWallet waits until the file is not in use, flushes and copies it. *)
BackupWallet ==
    /\ ~ fShutdown /\ LOCK_cs_db
    /\ NotInUse
    /\ Detach
    /\ UNCHANGED <<fShutdown, fDbEnvInit, user, nWalletDBUpdated, flusher, rewriter, nLogged, files, nRewrites, fUnnoticed>>
-----------------------------------------------------------------------------
(* Rewrite, under cs_db. *)

unwritten == <<fShutdown, fDbEnvInit, user, nWalletDBUpdated, flusher, nLogged>>

(* The file is flushed and opened for reading; a copy left by an earlier   *)
(* rewrite is opened again (DB_CREATE).  Without the file, the CDB cannot  *)
(* be made and nothing happens.                                            *)
RewriteBegins ==
    /\ ~ fShutdown /\ rewriter = "off" /\ nRewrites < MaxRewrites
    /\ NotInUse
    /\ walletDat # "missing"
    /\ rewriter' = "copy"
    /\ nRewrites' = nRewrites + 1
    /\ mapDb' = TRUE /\ nSelf' = nLogged /\ mapFileUseCount' = 1
    /\ walletRewrite' = IF walletRewrite = "full" THEN "full" ELSE "part"
    /\ UNCHANGED <<walletDat, fUnnoticed, unwritten>>

(* Mutant of RewriteCopies: a copy that fails is used. *)
RewriteIgnores ==
    /\ rewriter = "copy"
    /\ \E fSuccess \in BOOLEAN :
           walletRewrite' = IF fSuccess /\ walletDat = "wallet" THEN "full" ELSE walletRewrite
    /\ mapDb' = FALSE /\ rewriter' = "remove" /\ mapFileUseCount' = 0
    /\ UNCHANGED <<nSelf, walletDat, nRewrites, fUnnoticed, unwritten>>

(* Every record is copied, with DB_NOOVERWRITE, and both are closed; or a  *)
(* record cannot be copied, and only the CDB is closed; or both are closed *)
(* and the copy reports an error.  A cursor that cannot be had, and the    *)
(* errors of Berkeley DB, which are negative, are taken for success.       *)
RewriteCopies ==
    /\ rewriter = "copy"
    /\ mapFileUseCount' = 0
    /\ \/ /\ rewriter' = "remove" /\ mapDb' = FALSE
          /\ walletRewrite' = IF walletDat = "wallet" THEN "full" ELSE walletRewrite
       \/ rewriter' = "off" /\ UNCHANGED <<mapDb, walletRewrite>>
       \/ rewriter' = "off" /\ mapDb' = FALSE /\ UNCHANGED walletRewrite
       \/ rewriter' = "remove" /\ mapDb' = FALSE /\ UNCHANGED walletRewrite
    /\ fUnnoticed' = (fUnnoticed \/ (rewriter' = "remove" /\ walletRewrite' # "full"))
    /\ UNCHANGED <<nSelf, walletDat, nRewrites, unwritten>>

(* The rename is tried even when the file could not be removed. *)
RewriteRemoves ==
    /\ rewriter = "remove"
    /\ rewriter' = "rename"
    /\ walletDat' = "missing" \/ UNCHANGED walletDat
    /\ UNCHANGED <<mapFileUseCount, mapDb, nSelf, walletRewrite, nRewrites, fUnnoticed, unwritten>>

(* It fails when the file is still there, and may fail otherwise. *)
RewriteRenames ==
    /\ rewriter = "rename"
    /\ rewriter' = "off"
    /\ \/ /\ walletDat = "missing"
          /\ walletDat' = IF walletRewrite = "full" THEN "wallet" ELSE "new"
          /\ walletRewrite' = "none"
       \/ UNCHANGED files
    /\ UNCHANGED <<mapFileUseCount, mapDb, nSelf, nRewrites, fUnnoticed, unwritten>>

Rewrite == RewriteBegins \/ RewriteCopies \/ RewriteRemoves \/ RewriteRenames
-----------------------------------------------------------------------------
(* Shutdown. *)

StartsShutdown ==
    /\ ~ fShutdown
    /\ fShutdown' = TRUE
    /\ UNCHANGED <<fDbEnvInit, mapFileUseCount, mapDb, user, unused>>

(* Flush(true): a file that is not in use is flushed; with no file left,   *)
(* the log is removed and the environment closed.  Flush(false) is the     *)
(* same without that end.                                                  *)
Flush ==
    /\ fShutdown /\ LOCK_cs_db /\ fDbEnvInit
    /\ IF mapFileUseCount = 0 THEN Detach ELSE UNCHANGED <<mapDb, nSelf, mapFileUseCount>>
    /\ \E fLast \in BOOLEAN : fDbEnvInit' = ~ (fLast /\ NotInUse)
    /\ UNCHANGED <<fShutdown, user, nWalletDBUpdated, flusher, rewriter, nLogged, files, bounds>>

(* The process ends, at any point, and starts again: the log is replayed,  *)
(* and LoadWallet creates the file if there is none ("cr+").               *)
Restart ==
    /\ fShutdown' = FALSE /\ fDbEnvInit' = TRUE
    /\ mapFileUseCount' = 0 /\ mapDb' = TRUE
    /\ user' = [u \in User |-> "closed"]
    /\ nWalletDBUpdated' = 0
    /\ flusher' = NewFlusher
    /\ rewriter' = "off"
    /\ walletDat' = IF walletDat = "missing" THEN "new" ELSE walletDat
    /\ UNCHANGED <<nLogged, nSelf, walletRewrite, bounds>>
-----------------------------------------------------------------------------
UserSteps(u) == CDB(u) \/ Update(u) \/ Write(u) \/ CloseBegins(u) \/ CloseEnds(u)

Next ==
    \/ \E u \in User : UserSteps(u)
    \/ ThreadFlushWalletDB
    \/ BackupWallet
    \/ Rewrite
    \/ StartsShutdown
    \/ Flush
    \/ Restart

(* The threads run, and an object of CWalletDB is closed when the function *)
(* that has it returns.                                                    *)
Fairness ==
    /\ WF_vars(ThreadFlushWalletDB)
    /\ WF_vars(RewriteCopies \/ RewriteRemoves \/ RewriteRenames)
    /\ \A u \in User : WF_vars(Write(u)) /\ WF_vars(CloseBegins(u)) /\ WF_vars(CloseEnds(u))

Spec == Init /\ [][Next]_vars /\ Fairness
-----------------------------------------------------------------------------
(* The types; nobody is counted out of wallet.dat twice. *)
TypeOK ==
    /\ {fShutdown, fDbEnvInit, mapDb} \subseteq BOOLEAN
    /\ mapFileUseCount \in NoEntry..(Cardinality(User) + 1)
    /\ user \in [User -> {"closed", "open", "write", "closing"}]
    /\ flusher \in [pc : {"new", "look", "flush"}, nLastSeen : 0..MaxUpdates, nLastFlushed : 0..MaxUpdates,
                   nFirst : 0..MaxUpdates]
    /\ rewriter \in {"off", "copy", "remove", "rename"}
    /\ {nWalletDBUpdated, nLogged, nSelf} \subseteq 0..MaxUpdates
    /\ walletDat \in {"wallet", "missing", "new"} /\ walletRewrite \in {"none", "part", "full"}

(* "Don't do this if any databases are in use": the handle is there as     *)
(* long as an object of CDB has it.                                        *)
HandleLive ==
    (\E u \in User : user[u] \in {"open", "write"}) => mapDb /\ fDbEnvInit

(* Flush(true) removes the log and closes the environment only when        *)
(* wallet.dat has every update, and then nobody uses the environment.      *)
LogNotNeeded ==
    ~ fDbEnvInit => /\ nSelf = nLogged /\ ~ mapDb
                    /\ \A u \in User : user[u] = "closed"

(* Whenever the process ends, one of the two files has all the keys: a     *)
(* rewrite removes the one when it is done with the other, unless it took  *)
(* a copy that failed for complete.                                        *)
KeysSomewhere == fUnnoticed \/ walletDat = "wallet" \/ walletRewrite = "full"

Quiet == ~ fShutdown /\ \A u \in User : user[u] = "closed"

(* "Flush wallet.dat so it's self contained": once the wallet is left      *)
(* alone, the flush thread brings every update into the file.  What was    *)
(* written before the thread started waits for the first update after it.  *)
SelfContained ==
    <>[]Quiet => []<>(nSelf = nLogged \/ nWalletDBUpdated = flusher.nFirst)
=============================================================================
