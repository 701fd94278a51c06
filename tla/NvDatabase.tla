----------------------------- MODULE NvDatabase -----------------------------
(***************************************************************************)
(* The connection interface of nvDatabase.c: open and close, transactions  *)
(* (lockNvDatabase, unlockNvDatabase), the questions tableExists and       *)
(* checkDatabasePresence, and removeDatabase, called by processes with one *)
(* NvDatabaseConnection each.                                              *)
(*                                                                         *)
(* SQLite is external: one exclusive lock per file, taken by BEGIN         *)
(* EXCLUSIVE; statements of other connections wait for it until the busy   *)
(* timeout of openNvDatabase answers SQLITE_BUSY; a transaction that is    *)
(* not committed is rolled back when its connection closes, and possibly   *)
(* when one of its statements fails (SQLITE_NOMEM, SQLITE_IOERR,           *)
(* SQLITE_FULL).  Before the first update of a transaction the old content *)
(* goes to the rollback journal, whose name is that of the path: a process *)
(* that dies leaves it there, and the next statement on a file of the path *)
(* that nobody has locked plays it back.                                   *)
(*                                                                         *)
(* remove unlinks the path, and only the path: open connections stay on    *)
(* the file that it named, a later open creates another, and both use the  *)
(* one journal.                                                            *)
(*                                                                         *)
(* The library itself only opens and closes (DrmStore has the threads that *)
(* share a connection and every failure of these two).  The other calls    *)
(* are modelled for the callers that nvDatabase.h addresses: they update   *)
(* the database by reading a value and writing the next one between a      *)
(* lockNvDatabase that answered SQLITE_OK and their unlockNvDatabase, and  *)
(* give up when one of their own statements fails.                         *)
(***************************************************************************)
EXTENDS Naturals

CONSTANTS
  Processes,
  Files,     \* the files that the path may come to designate
  NULL,
  Faults,    \* "statement": statements and BEGIN may fail; "commit"
  MaxUpdates \* bound: how often callers update a file

(* What a file stores, as far as the interface and its callers care.       *)
Content == [table : BOOLEAN, value : Nat]
Empty == [table |-> FALSE, value |-> 0]

ASSUME FilesAssumption ==
  /\ NULL \notin Files /\ NULL \notin Processes
  /\ NULL \notin Content /\ NULL \notin Nat
  /\ MaxUpdates \in Nat

VARIABLES
  path,     \* the file that the path designates, or NULL
  stored,   \* per file: its committed content
  journal,  \* the content that the rollback journal restores, or NULL
  owner,    \* per file: the process whose transaction has it locked
  conn,     \* per process: the file of _pDatabase, or NULL
  draft,    \* per process: the content its transaction will commit, or NULL
  pc,       \* per process: the call it waits in, or "idle"
  seen,     \* per process: the value its caller has read, or NULL
  writes,   \* per process: how many updates its transaction holds
  trust,    \* per process: what its caller relies on after SQLITE_OK:
            \* that the Secure table exists, that the database is locked
  updates,  \* per file: the updates committed (a history)
  doubt,    \* the callers whom tableExists answered SQLITE_ERROR since they
            \* locked the database (a history)
  suspect,  \* the files that a caller in doubt has updated (a history)
  orphaned  \* a file was unlinked while another process had it open (a
            \* history)

files       == <<stored, journal>>
transaction == <<owner, draft, writes>>
caller      == <<seen, trust, doubt>>
history     == <<updates, suspect, orphaned>>
vars == <<path, files, transaction, conn, pc, caller, history>>

Calls == {"create", "lock", "exists"}

TypeOK ==
  /\ path \in Files \union {NULL}
  /\ stored \in [Files -> Content]
  /\ journal \in Content \union {NULL}
  /\ owner \in [Files -> Processes \union {NULL}]
  /\ conn \in [Processes -> Files \union {NULL}]
  /\ draft \in [Processes -> Content \union {NULL}]
  /\ pc \in [Processes -> Calls \union {"idle"}]
  /\ seen \in [Processes -> Nat \union {NULL}]
  /\ writes \in [Processes -> Nat]
  /\ trust \in [Processes -> SUBSET {"table", "locked"}]
  /\ updates \in [Files -> Nat]
  /\ doubt \in SUBSET Processes
  /\ suspect \in SUBSET Files
  /\ orphaned \in BOOLEAN

Init ==
  /\ path = NULL
  /\ stored = [f \in Files |-> Empty]
  /\ journal = NULL
  /\ owner = [f \in Files |-> NULL]
  /\ conn = [p \in Processes |-> NULL]
  /\ draft = [p \in Processes |-> NULL]
  /\ pc = [p \in Processes |-> "idle"]
  /\ seen = [p \in Processes |-> NULL]
  /\ writes = [p \in Processes |-> 0]
  /\ trust = [p \in Processes |-> {}]
  /\ updates = [f \in Files |-> 0]
  /\ doubt = {} /\ suspect = {} /\ orphaned = FALSE

-----------------------------------------------------------------------------
Idle(p) == pc[p] = "idle"

Enter(p, call) == Idle(p) /\ pc' = [pc EXCEPT ![p] = call]

(* The call that p waits in returns; SQLITE_OK is something to rely on.    *)
Return(p, relied) ==
  /\ pc' = [pc EXCEPT ![p] = "idle"]
  /\ trust' = [trust EXCEPT ![p] = @ \union relied]

InTransaction(p) == draft[p] # NULL

(* Another process has the file of p locked.                               *)
LockedOut(p) == owner[conn[p]] \notin {p, NULL}

(* A journal belongs to any file of the path that is not locked; it is     *)
(* played back, or deleted when the file is empty.                         *)
Hot(f) == journal # NULL /\ owner[f] = NULL

(* The content of a file once a journal that belongs to it is played back. *)
Found(f) == IF Hot(f) /\ stored[f] # Empty THEN journal ELSE stored[f]

(* Any statement of p first plays the journal back.                        *)
Recover(p) ==
  /\ stored' = [stored EXCEPT ![conn[p]] = Found(conn[p])]
  /\ journal' = IF Hot(conn[p]) THEN NULL ELSE journal

(* What a statement of p reads.                                            *)
View(p) == IF InTransaction(p) THEN draft[p] ELSE Found(conn[p])

(* The transaction of p is over, and with it the lock and the journal.     *)
EndTransaction(p) ==
  /\ draft' = [draft EXCEPT ![p] = NULL]
  /\ owner' = [f \in Files |-> IF owner[f] = p THEN NULL ELSE owner[f]]
  /\ writes' = [writes EXCEPT ![p] = 0]

JournalAfter(p) == IF writes[p] > 0 THEN NULL ELSE journal

RollBack(p) == EndTransaction(p) /\ journal' = JournalAfter(p) /\ UNCHANGED stored

(* The caller relies on the lock no longer.                                *)
GiveUp(p) ==
  /\ trust' = [trust EXCEPT ![p] = @ \ {"locked"}]
  /\ seen' = [seen EXCEPT ![p] = NULL]
  /\ doubt' = doubt \ {p}

(* The connection is closed, or its process dies.                          *)
Disconnect(p) ==
  /\ conn' = [conn EXCEPT ![p] = NULL]
  /\ trust' = [trust EXCEPT ![p] = {}]
  /\ seen' = [seen EXCEPT ![p] = NULL]
  /\ doubt' = doubt \ {p}

-----------------------------------------------------------------------------
(* checkDatabasePresence: stat of the path.                                *)
checkDatabasePresence == path # NULL

(* A new file.                                                             *)
Unused(f) ==
  stored[f] = Empty /\ updates[f] = 0 /\ \A q \in Processes : conn[q] # f

(* openNvDatabase: sqlite3_open creates a file when the path names none.   *)
openNvDatabase(p) ==
  /\ conn[p] = NULL
  /\ Enter(p, "create")
  /\ \E f \in Files :
       /\ IF checkDatabasePresence THEN f = path ELSE Unused(f)
       /\ path' = f
       /\ conn' = [conn EXCEPT ![p] = f]
  /\ UNCHANGED <<files, transaction, caller, history>>

WithTable(content) == [content EXCEPT !.table = TRUE]

(* CREATE TABLE IF NOT EXISTS.                                             *)
createSecureTable(p) ==
  /\ pc[p] = "create"
  /\ ~LockedOut(p)
  /\ stored' = [stored EXCEPT ![conn[p]] = WithTable(Found(conn[p]))]
  /\ journal' = NULL
  /\ Return(p, {"table"})
  /\ UNCHANGED <<path, transaction, conn, seen, doubt, history>>

closeNvDatabase(p) ==
  /\ Idle(p)
  /\ RollBack(p)
  /\ Disconnect(p)
  /\ UNCHANGED <<path, pc, history>>

-----------------------------------------------------------------------------
(* lockNvDatabase: BEGIN EXCLUSIVE TRANSACTION.  Without a connection, or  *)
(* inside a transaction, it answers SQLITE_ERROR at once.                  *)
lockNvDatabase(p) ==
  /\ conn[p] # NULL /\ ~InTransaction(p) /\ "locked" \notin trust[p]
  /\ Enter(p, "lock")
  /\ UNCHANGED <<path, files, transaction, conn, caller, history>>

Locked(p) ==
  /\ pc[p] = "lock"
  /\ ~LockedOut(p)
  /\ Recover(p)
  /\ draft' = [draft EXCEPT ![p] = Found(conn[p])]
  /\ owner' = [owner EXCEPT ![conn[p]] = p]
  /\ Return(p, {"locked"})
  /\ seen' = [seen EXCEPT ![p] = NULL]
  /\ doubt' = doubt \ {p}
  /\ UNCHANGED <<path, writes, conn, history>>

(* unlockNvDatabase: COMMIT TRANSACTION.                                   *)
unlockNvDatabase(p) ==
  /\ Idle(p) /\ InTransaction(p)
  /\ stored' = [stored EXCEPT ![conn[p]] = draft[p]]
  /\ journal' = JournalAfter(p)
  /\ updates' = [updates EXCEPT ![conn[p]] = @ + writes[p]]
  /\ EndTransaction(p)
  /\ GiveUp(p)
  /\ UNCHANGED <<path, conn, pc, suspect, orphaned>>

(* Without a transaction it answers SQLITE_ERROR (and leaks the error      *)
(* text, which is freed when busy only).  A failed commit leaves the       *)
(* transaction as it is, or rolls it back; the caller knows that it is not *)
(* locked any more, and may unlock again.                                  *)
unlockNvDatabaseFails(p) ==
  /\ Idle(p)
  /\ \/ /\ ~InTransaction(p) /\ "locked" \in trust[p]
        /\ UNCHANGED <<files, transaction>>
     \/ /\ InTransaction(p) /\ "commit" \in Faults
        /\ RollBack(p) \/ UNCHANGED <<files, transaction>>
  /\ GiveUp(p)
  /\ UNCHANGED <<path, conn, pc, history>>

-----------------------------------------------------------------------------
(* tableExists: a SELECT on sqlite_master.  Everything but a row with a    *)
(* positive count answers SQLITE_ERROR, SQLITE_BUSY included.              *)
tableExists(p) ==
  /\ conn[p] # NULL
  /\ Enter(p, "exists")
  /\ UNCHANGED <<path, files, transaction, conn, caller, history>>

Positive(count) == count > 0

TableCounted(p) ==
  LET there == Positive(IF View(p).table THEN 1 ELSE 0)
  IN /\ pc[p] = "exists"
     /\ ~LockedOut(p)
     /\ Recover(p)
     /\ Return(p, IF there THEN {"table"} ELSE {})
     /\ doubt' = IF there THEN doubt ELSE doubt \union {p}
     /\ UNCHANGED <<path, transaction, conn, seen, history>>

FailureTrusted(p) ==    \* mutant: lockNvDatabase answers SQLITE_OK when busy
  /\ pc[p] \in Calls
  /\ LockedOut(p) \/ "statement" \in Faults
  /\ Return(p, IF pc[p] = "lock" THEN {"locked"} ELSE {})
  /\ UNCHANGED <<path, files, transaction, conn, seen, doubt, history>>

(* A statement, or BEGIN, fails: an error of SQLite, which may roll the    *)
(* transaction back, or SQLITE_BUSY when the busy handler gives up.  A     *)
(* failed open keeps its connection.  tableExists answers SQLITE_ERROR,    *)
(* which does not tell its caller that the lock may be gone.               *)
StatementFails(p) ==
  /\ pc[p] \in Calls
  /\ \/ /\ LockedOut(p) \/ "statement" \in Faults
        /\ UNCHANGED <<files, transaction>>
     \/ /\ InTransaction(p) /\ "statement" \in Faults
        /\ RollBack(p)
  /\ Return(p, {})
  /\ doubt' = IF pc[p] = "exists" THEN doubt \union {p} ELSE doubt
  /\ UNCHANGED <<path, conn, seen, history>>

-----------------------------------------------------------------------------
OthersHaveIt(p) == path # NULL /\ \E q \in Processes \ {p} : conn[q] = path

RemoveWithoutClosing(p) ==    \* mutant: the connection is not closed first
  /\ Idle(p)
  /\ path' = NULL
  /\ orphaned' = (orphaned \/ OthersHaveIt(p))
  /\ UNCHANGED <<files, transaction, conn, pc, caller, updates, suspect>>

(* removeDatabase: close, then unlink the path; remove fails, with the -1  *)
(* that is its answer, when there is no file.  The journal stays.          *)
removeDatabase(p) ==
  /\ Idle(p)
  /\ RollBack(p)
  /\ Disconnect(p)
  /\ path' = NULL
  /\ orphaned' = (orphaned \/ OthersHaveIt(p))
  /\ UNCHANGED <<pc, updates, suspect>>

-----------------------------------------------------------------------------
(* The callers, who update between lock and unlock: each statement commits *)
(* at once if there is no transaction, and is answered SQLITE_BUSY, which  *)
(* changes nothing, while another process has the lock.                    *)

Relies(p) == Idle(p) /\ "locked" \in trust[p]

Read(p) ==
  /\ Relies(p) /\ ~LockedOut(p)
  /\ Recover(p)
  /\ seen' = [seen EXCEPT ![p] = View(p).value]
  /\ UNCHANGED <<path, transaction, conn, pc, trust, doubt, history>>

Write(p) ==
  LET new == [table |-> View(p).table, value |-> seen[p] + 1]
      f == conn[p]
  IN /\ Relies(p) /\ ~LockedOut(p)
     /\ seen[p] # NULL /\ updates[f] + writes[p] < MaxUpdates
     /\ \/ /\ InTransaction(p)
           /\ draft' = [draft EXCEPT ![p] = new]
           /\ writes' = [writes EXCEPT ![p] = @ + 1]
           /\ journal' = IF writes[p] = 0 THEN stored[f] ELSE journal
           /\ UNCHANGED <<stored, updates>>
        \/ /\ ~InTransaction(p)
           /\ stored' = [stored EXCEPT ![f] = new]
           /\ journal' = NULL
           /\ updates' = [updates EXCEPT ![f] = @ + 1]
           /\ UNCHANGED <<draft, writes>>
     /\ suspect' = IF p \in doubt THEN suspect \union {f} ELSE suspect
     /\ seen' = [seen EXCEPT ![p] = NULL]
     /\ UNCHANGED <<path, owner, conn, pc, trust, doubt, orphaned>>

(* A statement of the caller fails, and the caller gives up.               *)
CallerFails(p) ==
  /\ Relies(p) /\ "statement" \in Faults
  /\ RollBack(p) \/ UNCHANGED <<files, transaction>>
  /\ GiveUp(p)
  /\ UNCHANGED <<path, conn, pc, history>>

(* A process dies.  Its updates may be in the file already, or half of a   *)
(* new table, and the journal of the transaction stays.                    *)
Crash(p) ==
  LET f == conn[p]
  IN /\ \/ UNCHANGED files
        \/ /\ InTransaction(p) /\ writes[p] > 0
           /\ stored' = [stored EXCEPT ![f] = draft[p]]
           /\ UNCHANGED journal
        \/ /\ pc[p] = "create" /\ ~LockedOut(p) /\ ~Found(f).table
           /\ \E torn \in {Found(f), WithTable(Found(f))} :
                stored' = [stored EXCEPT ![f] = torn]
           /\ journal' = Found(f)
     /\ EndTransaction(p)
     /\ Disconnect(p)
     /\ pc' = [pc EXCEPT ![p] = "idle"]
     /\ UNCHANGED <<path, history>>

-----------------------------------------------------------------------------
(* What a call under way does next.                                        *)
Step(p) ==
  createSecureTable(p) \/ Locked(p) \/ TableCounted(p) \/ StatementFails(p)

Next ==
  \E p \in Processes :
    \/ openNvDatabase(p) \/ closeNvDatabase(p) \/ removeDatabase(p)
    \/ lockNvDatabase(p) \/ unlockNvDatabase(p) \/ unlockNvDatabaseFails(p)
    \/ tableExists(p) \/ Step(p)
    \/ Read(p) \/ Write(p) \/ CallerFails(p) \/ Crash(p)

Spec == Init /\ [][Next]_vars

-----------------------------------------------------------------------------
(* PROPERTIES                                                              *)

(* lockNvDatabase: SQLITE_OK means that the database is locked.  Whatever  *)
(* the processes do, and wherever they die, fail to commit or close, each  *)
(* committed update counts: none is overwritten by that of a process that  *)
(* read before it, none of a transaction that was not committed stays, and *)
(* no journal, of a dead process or of a removed database, undoes one.     *)
(* Excluded are a database unlinked under an open connection, and one that *)
(* a caller updated although tableExists had answered it SQLITE_ERROR      *)
(* inside its transaction: the transaction may have been gone.             *)
NoLostUpdate ==
  ~orphaned /\ path \in Files \ suspect => Found(path).value = updates[path]

(* A process whose openNvDatabase or tableExists has answered SQLITE_OK    *)
(* finds the table until it closes, although other processes die while     *)
(* they create it or with updates half written, roll back, and remove the  *)
(* database and create another, as long as nobody had it open.             *)
TableStaysThere ==
  ~orphaned =>
    \A p \in Processes : "table" \in trust[p] => View(p).table

-----------------------------------------------------------------------------
(* INVARIANT of the proofs in NvDatabaseProofs.                            *)

(* The lock of a file belongs to the transaction of a connection to it.    *)
LockOfTransaction ==
  /\ \A p \in Processes :
       InTransaction(p) => conn[p] # NULL /\ owner[conn[p]] = p
  /\ \A f \in Files :
       owner[f] # NULL => conn[owner[f]] = f /\ InTransaction(owner[f])

(* A transaction holds its own updates on top of the committed ones.       *)
DraftIsAhead ==
  \A p \in Processes : InTransaction(p) =>
    /\ draft[p].value = stored[conn[p]].value + writes[p]
    /\ draft[p].table = stored[conn[p]].table
    /\ seen[p] # NULL => seen[p] = draft[p].value

(* Who relies on a lock is in a transaction, or in doubt; who relies on    *)
(* anything, or has a call under way, has a connection.                    *)
Founded(p) ==
  /\ "locked" \in trust[p] => InTransaction(p) \/ p \in doubt
  /\ ~InTransaction(p) => writes[p] = 0
  /\ trust[p] # {} \/ pc[p] # "idle" => conn[p] # NULL
  /\ pc[p] \in {"create", "lock"} => ~InTransaction(p)

TrustIsFounded == \A p \in Processes : Founded(p)

(* Without orphans there is one file, and the journal of a transaction has *)
(* the content that was committed.                                         *)
OneFile ==
  ~orphaned =>
    /\ \A p \in Processes : conn[p] # NULL => conn[p] = path
    /\ \A p \in Processes : InTransaction(p) =>
         journal = IF writes[p] > 0 THEN stored[path] ELSE NULL
    /\ \A p \in Processes : "table" \in trust[p] => Found(path).table

DatabaseInv ==
  TypeOK /\ NoLostUpdate /\ LockOfTransaction /\ DraftIsAhead /\ TrustIsFounded
         /\ OneFile
=============================================================================
