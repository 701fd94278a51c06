------------------------------- MODULE DrmStore -------------------------------
(***************************************************************************)
(* The persistent rights store: the record operations of DrmKernel.c over  *)
(* the connection of nvDatabase.c and the table of nvDatabaseSecureTable.c *)
(*                                                                         *)
(* Every process that links the kernel has its own copy of the static      *)
(* mDatabaseConnection; nothing guards it, so the threads of a process     *)
(* interleave on it at every sqlite3 call.  The Secure table is a file     *)
(* shared by the processes: each statement is atomic and survives a crash. *)
(* One action is one sqlite3 call with the code that follows it up to the  *)
(* next one.                                                               *)
(*                                                                         *)
(* UNDEFINED BEHAVIOUR.  A call on a connection that is closed or NULL     *)
(* either fails or kills the process, except where the C library or SQLite *)
(* define it; an allocator may hand a closed handle out again, and a stale *)
(* pointer then designates the new connection.                             *)
(***************************************************************************)
EXTENDS SecureRecord, Naturals, FiniteSets

CONSTANTS
  Processes,   \* processes hosting a plugin: drmserver, mediaserver, a test
  Threads,     \* threads that call the kernel
  ProcOf,      \* the process of each thread
  Calls,       \* the operations each thread calls
  Handles,     \* sqlite3* values a process may hold
  Buffers,     \* parsed right buffers callers present, authentic or not
  PersoTags,   \* "PERSO" attributes callers present
  Damaged,     \* what a stored record may be corrupted into
  Faults,      \* the sqlite3 or malloc calls that may fail
  Crashable,   \* the processes that may be killed at any time
  MaxRowid,    \* bound: rows are inserted while there is room below it
  MaxLeaked   \* bound: a process reads while it leaked fewer records

Writes == {"save", "register"}                 \* onSaveRights, registration
Reads  == {"check", "acquire", "getkey"}
Ops    == Writes \union Reads

ASSUME DeploymentAssumption ==
  /\ ProcOf \in [Threads -> Processes]
  /\ Calls \in [Threads -> SUBSET Ops]
  /\ None \notin Handles
  /\ IsFiniteSet(Threads)
  /\ MaxRowid \in Nat /\ MaxLeaked \in Nat

ASSUME InputsAssumption ==
  /\ Buffers \subseteq Record
  /\ PersoTags \subseteq Tags
  /\ Damaged \subseteq {r \in Record : ~checkRecordCrypto(r)}

VARIABLES
  rows,     \* the Secure table: records with their rowid
  inited,   \* processes where mDatabaseConnectionInitialized is set
  conn,     \* per process: mDatabaseConnection._pDatabase
  live,     \* per process: the connections SQLite holds open
  stuck,    \* per process: connections with a statement never finalized
  leaked,   \* per process: loaded records whose fields nobody will free
  abandoned, \* per process: the connections of saves whose openNvDatabase
            \* failed (a history)
  damaged,  \* the storage has damaged a row (a history)
  pc,       \* per thread: the next sqlite3 call
  op,       \* per thread: the operation under way, or the last one
  ask,      \* per thread: the key or key identifier a read looks up
  rec,      \* per thread: the SecureRecord on its stack, or None
  db,       \* per thread: the pxDatabase argument
  ok        \* per thread: the ret of insertRecord, then the answer

histories   == <<abandoned, damaged>>
processVars == <<inited, conn, live, stuck, leaked, histories>>
threadVars  == <<pc, op, ask, rec, db, ok>>
vars        == <<rows, processVars, threadVars>>

Row     == [id : 1..MaxRowid, rec : Record]
Locals  == {"delete", "del_step", "insert", "ins_step", "select", "sel_step"}
Pcs     == {"idle", "verify", "open", "timeout", "create", "fetch", "close",
            "clear", "answer"} \union Locals
InStmt  == {"del_step", "ins_step", "sel_step"}  \* between prepare and step

TypeOK ==
  /\ rows \in SUBSET Row
  /\ inited \in SUBSET Processes
  /\ conn \in [Processes -> Handles \union {None}]
  /\ live \in [Processes -> SUBSET Handles]
  /\ stuck \in [Processes -> SUBSET Handles]
  /\ leaked \in [Processes -> Nat]
  /\ abandoned \in [Processes -> SUBSET Handles]
  /\ damaged \in BOOLEAN
  /\ pc \in [Threads -> Pcs]
  /\ op \in [Threads -> Ops \union {"none"}]
  /\ ask \in [Threads -> Keys \union KeyIds \union {None}]
  /\ rec \in [Threads -> Record \union {None}]
  /\ db \in [Threads -> Handles \union {None}]
  /\ ok \in [Threads -> BOOLEAN]

Init ==
  /\ rows = {}
  /\ inited = {}
  /\ conn = [p \in Processes |-> None]
  /\ live = [p \in Processes |-> {}]
  /\ stuck = [p \in Processes |-> {}]
  /\ leaked = [p \in Processes |-> 0]
  /\ abandoned = [p \in Processes |-> {}]
  /\ damaged = FALSE
  /\ pc = [t \in Threads |-> "idle"]
  /\ op = [t \in Threads |-> "none"]
  /\ ask = [t \in Threads |-> None]
  /\ rec = [t \in Threads |-> None]
  /\ db = [t \in Threads |-> None]
  /\ ok = [t \in Threads |-> FALSE]

-----------------------------------------------------------------------------
(* Steps of a thread and of a process.                                     *)

Goto(t, from, to) == pc[t] = from /\ pc' = [pc EXCEPT ![t] = to]

(* The process disappears with its heap, its connections and its threads.  *)
Die(p) ==
  LET Survives(t) == ProcOf[t] # p
  IN /\ inited' = inited \ {p}
     /\ conn' = [conn EXCEPT ![p] = None]
     /\ live' = [live EXCEPT ![p] = {}]
     /\ stuck' = [stuck EXCEPT ![p] = {}]
     /\ leaked' = [leaked EXCEPT ![p] = 0]
     /\ abandoned' = [abandoned EXCEPT ![p] = {}]
     /\ pc' = [t \in Threads |-> IF Survives(t) THEN pc[t] ELSE "idle"]
     /\ op' = [t \in Threads |-> IF Survives(t) THEN op[t] ELSE "none"]
     /\ ask' = [t \in Threads |-> IF Survives(t) THEN ask[t] ELSE None]
     /\ rec' = [t \in Threads |-> IF Survives(t) THEN rec[t] ELSE None]
     /\ db' = [t \in Threads |-> IF Survives(t) THEN db[t] ELSE None]
     /\ ok' = [t \in Threads |-> IF Survives(t) THEN ok[t] ELSE FALSE]
     /\ UNCHANGED <<rows, damaged>>

Crash(p) == p \in Crashable /\ Die(p)

(* The NvDrmPlugin constructor runs DrmKernel_init, once per process.      *)
DrmKernel_init(p) ==
  /\ p \notin inited
  /\ inited' = inited \union {p}
  /\ conn' = [conn EXCEPT ![p] = None]
  /\ UNCHANGED <<rows, live, stuck, leaked, histories, threadVars>>

-----------------------------------------------------------------------------
(* Entry points.  The DRM operations are methods of a constructed plugin;  *)
(* DrmKernel_getRightKey is called by the crypto kernel without one.       *)

Begin(t, o, start, key, record) ==
  /\ o \in Calls[t]
  /\ Goto(t, "idle", start)
  /\ op' = [op EXCEPT ![t] = o]
  /\ ask' = [ask EXCEPT ![t] = key]
  /\ rec' = [rec EXCEPT ![t] = record]
  /\ ok' = [ok EXCEPT ![t] = FALSE]
  /\ UNCHANGED <<rows, processVars, db>>

Room == \A row \in rows : row.id + Cardinality(Threads) <= MaxRowid

SaveUnverified(t) ==    \* mutant: the save does not verify the right
  /\ ProcOf[t] \in inited
  /\ Room
  /\ \E contentId \in Keys, buffer \in Buffers :
       Begin(t, "save", "open", None, ParsedRight(contentId, buffer))

onSaveRights(t) ==
  /\ ProcOf[t] \in inited
  /\ Room
  /\ \E contentId \in Keys, buffer \in Buffers :
       Begin(t, "save", "verify", None, ParsedRight(contentId, buffer))

RegisterUnverified(t) ==    \* mutant: nor does the registration
  /\ ProcOf[t] \in inited
  /\ Room
  /\ \E garbage \in KeyIds, attribute \in PersoTags :
       Begin(t, "register", "open", None, PersoRecord(garbage, attribute))

onRegistration(t) ==
  /\ ProcOf[t] \in inited
  /\ Room
  /\ \E garbage \in KeyIds, attribute \in PersoTags :
       Begin(t, "register", "verify", None, PersoRecord(garbage, attribute))

(* checkRecordCrypto follows the uninitialised _keyId, or the NULL tag of  *)
(* a missing "PERSO" attribute, into unmapped memory.                      *)
RegistrationFault(t) ==
  /\ pc[t] = "verify"
  /\ op[t] = "register"
  /\ Die(ProcOf[t])

onCheckRightsStatus(t) ==
  /\ ProcOf[t] \in inited
  /\ leaked[ProcOf[t]] < MaxLeaked
  /\ \E contentId \in Keys : Begin(t, "check", "open", contentId, None)

onAcquireDrmInfo(t) ==
  /\ ProcOf[t] \in inited
  /\ leaked[ProcOf[t]] < MaxLeaked
  /\ Begin(t, "acquire", "open", PersoKey, None)

DrmKernel_getRightKey(t) ==
  /\ leaked[ProcOf[t]] < MaxLeaked
  /\ \E keyId \in KeyIds : Begin(t, "getkey", "open", keyId, None)

VerifyNothing(t) ==    \* mutant: insertRecord ignores checkRecordCrypto
  /\ Goto(t, "verify", "open")
  /\ UNCHANGED <<rows, processVars, op, ask, rec, db, ok>>

(* insertRecord refuses a record whose tag is wrong.                       *)
Verify(t) ==
  /\ Goto(t, "verify", IF checkRecordCrypto(rec[t]) THEN "open" ELSE "answer")
  /\ UNCHANGED <<rows, processVars, op, ask, rec, db, ok>>

-----------------------------------------------------------------------------
(* openNvDatabase and closeNvDatabase.                                     *)

(* openNvDatabase answers an error.                                        *)
OpenFailedReturns(t, from, h) ==    \* mutant: getRecord does not close
  LET kept == IF op[t] \in Writes THEN {h} \ {None} ELSE {}
  IN /\ Goto(t, from, "answer")
     /\ abandoned' = [abandoned EXCEPT ![ProcOf[t]] = @ \union kept]
     /\ UNCHANGED damaged

(* After it insertRecord returns at once, getRecord closes.                *)
OpenFailed(t, from, h) ==
  LET kept == {h} \ {None}
  IN \/ /\ op[t] \in Writes /\ Goto(t, from, "answer")
        /\ abandoned' = [abandoned EXCEPT ![ProcOf[t]] = @ \union kept]
        /\ UNCHANGED damaged
     \/ /\ op[t] \in Reads /\ Goto(t, from, "close")
        /\ UNCHANGED histories

(* strcmp(_databaseName, "") where DrmKernel_init never ran: NULL pointer. *)
OpenUninitialised(t) ==
  /\ pc[t] = "open"
  /\ ProcOf[t] \notin inited
  /\ Die(ProcOf[t])

(* sqlite3_open overwrites the process's handle, whatever was there.       *)
Open(t) ==
  LET p == ProcOf[t]
  IN /\ p \in inited
     /\ \E h \in Handles \ live[p] :
          /\ conn' = [conn EXCEPT ![p] = h]
          /\ live' = [live EXCEPT ![p] = @ \union {h}]
          /\ \/ Goto(t, "open", "timeout") /\ UNCHANGED histories
             \/ "open" \in Faults /\ OpenFailed(t, "open", h)
     /\ UNCHANGED <<rows, inited, stuck, leaked, op, ask, rec, db, ok>>

(* sqlite3_open without memory for a handle stores NULL.                   *)
OpenNoMemory(t) ==
  LET p == ProcOf[t]
  IN /\ p \in inited
     /\ "open" \in Faults \/ Handles = live[p]
     /\ conn' = [conn EXCEPT ![p] = None]
     /\ OpenFailed(t, "open", None)
     /\ UNCHANGED <<rows, inited, live, stuck, leaked, op, ask, rec, db, ok>>

(* sqlite3_busy_timeout on the process's handle.                           *)
SetTimeout(t) ==
  /\ conn[ProcOf[t]] # None
  /\ Goto(t, "timeout", "create")
  /\ UNCHANGED <<rows, processVars, op, ask, rec, db, ok>>

(* createSecureTable: CREATE TABLE IF NOT EXISTS, on the handle read again.*)
CreateTable(t) ==
  LET h == conn[ProcOf[t]]
      usable == h \in live[ProcOf[t]]
  IN /\ \/ usable /\ Goto(t, "create", "fetch") /\ UNCHANGED histories
        \/ ~usable /\ OpenFailed(t, "create", None)
        \/ usable /\ "create" \in Faults /\ OpenFailed(t, "create", h)
     /\ UNCHANGED <<rows, inited, conn, live, stuck, leaked>>
     /\ UNCHANGED <<op, ask, rec, db, ok>>

(* pxDatabaseConnection->_pDatabase is read again for insertSecureRecord   *)
(* or selectSecureRecord, and passed by value.                             *)
FetchHandle(t) ==
  /\ Goto(t, "fetch", IF op[t] \in Writes THEN "delete" ELSE "select")
  /\ db' = [db EXCEPT ![t] = conn[ProcOf[t]]]
  /\ UNCHANGED <<rows, processVars, op, ask, rec, ok>>

Prepared(p, h) ==
  {u \in Threads : ProcOf[u] = p /\ db[u] = h /\ pc[u] \in InStmt}

CloseHandleForced(t) ==    \* mutant: a close that SQLite cannot refuse
  LET p == ProcOf[t]
  IN /\ Goto(t, "close", "clear")
     /\ live' = [live EXCEPT ![p] = @ \ {conn[p]}]
     /\ UNCHANGED <<rows, inited, conn, stuck, leaked, histories>>
     /\ UNCHANGED <<op, ask, rec, db, ok>>

(* sqlite3_close refuses while a statement of the connection exists, and   *)
(* closeNvDatabase then keeps the handle.                                  *)
CloseHandle(t) ==
  LET p == ProcOf[t]
      h == conn[p]
      busy == h \in stuck[p] \/ Prepared(p, h) # {}
  IN /\ \/ /\ h \in live[p] /\ ~busy
           /\ Goto(t, "close", "clear")
           /\ live' = [live EXCEPT ![p] = @ \ {h}]
        \/ /\ h \notin live[p] \/ busy
           /\ Goto(t, "close", "answer")
           /\ UNCHANGED live
     /\ UNCHANGED <<rows, inited, conn, stuck, leaked, histories>>
     /\ UNCHANGED <<op, ask, rec, db, ok>>

ClearHandle(t) ==
  /\ Goto(t, "clear", "answer")
  /\ conn' = [conn EXCEPT ![ProcOf[t]] = None]
  /\ UNCHANGED <<rows, inited, live, stuck, leaked, histories>>
  /\ UNCHANGED <<op, ask, rec, db, ok>>

(* The call of a thread is about to use a closed connection, or the NULL   *)
(* one in sqlite3_busy_timeout: the process may not survive it.            *)
UseOfStaleHandle(t) ==
  LET p == ProcOf[t]
      Stale(h) == h # None /\ h \notin live[p]
  IN /\ \/ pc[t] = "timeout" /\ (conn[p] = None \/ Stale(conn[p]))
        \/ pc[t] \in {"create", "close"} /\ Stale(conn[p])
        \/ pc[t] \in {"delete", "insert", "select"} /\ Stale(db[t])
     /\ Die(p)

-----------------------------------------------------------------------------
(* The statements of nvDatabaseSecureTable.c.                              *)

(* Compile a statement and bind its arguments, or go on at "failed": when  *)
(* the connection is unusable, or a fault makes prepare or bind fail.  The *)
(* bind failure leaves the statement unfinalized.                          *)
Prepare(t, at, prepared, failed, prepareFault, bindFault) ==
  LET p == ProcOf[t]
      usable == db[t] \in live[p]
  IN /\ \/ /\ usable
           /\ Goto(t, at, prepared)
           /\ UNCHANGED stuck
        \/ /\ ~usable \/ prepareFault \in Faults
           /\ Goto(t, at, failed)
           /\ UNCHANGED stuck
        \/ /\ usable /\ bindFault \in Faults
           /\ Goto(t, at, failed)
           /\ stuck' = [stuck EXCEPT ![p] = @ \union {db[t]}]
     /\ UNCHANGED <<inited, conn, live, leaked, histories>>

DeletePrepareRetried(t) ==    \* mutant: prepare is tried until it succeeds
  /\ Prepare(t, "delete", "del_step", "delete",
             "delete.prepare", "delete.bind")
  /\ UNCHANGED <<rows, op, ask, rec, db, ok>>

(* deleteSecureRecord: its result is ignored by insertSecureRecord.        *)
DeletePrepare(t) ==
  /\ Prepare(t, "delete", "del_step", "insert",
             "delete.prepare", "delete.bind")
  /\ UNCHANGED <<rows, op, ask, rec, db, ok>>

ReplacedIfEqual(t) ==    \* mutant: DELETE ... WHERE every column is equal
  {row \in rows : row.rec = rec[t]}

(* DELETE FROM Secure WHERE KEY = the key of the record.                   *)
Replaced(t) == {row \in rows : row.rec.key = rec[t].key}

DeleteStep(t) ==
  /\ \/ /\ Goto(t, "del_step", "insert")
        /\ \/ rows' = rows \ Replaced(t)
           \/ "delete.step" \in Faults /\ UNCHANGED rows
     \/ /\ "delete.schema" \in Faults          \* SQLITE_SCHEMA: try again
        /\ Goto(t, "del_step", "delete")
        /\ UNCHANGED rows
  /\ UNCHANGED <<processVars, op, ask, rec, db, ok>>

InsertPrepareAnswersOk(t) ==    \* mutant: the result of prepare is ignored
  /\ Prepare(t, "insert", "ins_step", "close",
             "insert.prepare", "insert.bind")
  /\ ok' = [ok EXCEPT ![t] = TRUE]
  /\ UNCHANGED <<rows, op, ask, rec, db>>

InsertPrepare(t) ==
  /\ Prepare(t, "insert", "ins_step", "close",
             "insert.prepare", "insert.bind")
  /\ UNCHANGED <<rows, op, ask, rec, db, ok>>

NewRowid(id) ==
  /\ \A row \in rows : row.id < id
  /\ \A j \in 1..MaxRowid : (\A row \in rows : row.id < j) => id <= j

(* sqlite3_reset consumes the error of a failed step and sqlite3_finalize  *)
(* then returns SQLITE_OK: the insert reports success in both cases.       *)
InsertStep(t) ==
  /\ Goto(t, "ins_step", "close")
  /\ \/ \E id \in 1..MaxRowid :
          NewRowid(id) /\ rows' = rows \union {[id |-> id, rec |-> rec[t]]}
     \/ "insert.step" \in Faults /\ UNCHANGED rows
  /\ ok' = [ok EXCEPT ![t] = TRUE]
  /\ UNCHANGED <<processVars, op, ask, rec, db>>

SelectPrepare(t) ==
  /\ Prepare(t, "select", "sel_step", "close",
             "select.prepare", "select.bind")
  /\ UNCHANGED <<rows, op, ask, rec, db, ok>>

SelectedByKey(t) ==    \* mutant: every SELECT looks at the KEY column
  {row \in rows : row.rec.key = ask[t]}

(* SELECT ... WHERE KEY = ?, or KID = ? for getRightKey.                   *)
Selected(t) ==
  {row \in rows : IF op[t] = "getkey" THEN row.rec.keyId = ask[t]
                                      ELSE row.rec.key = ask[t]}

(* The first row in rowid order is copied into four allocated fields.      *)
SelectStep(t) ==
  /\ Goto(t, "sel_step", "close")
  /\ \/ \E row \in Selected(t) :
          /\ \A other \in Selected(t) : row.id <= other.id
          /\ rec' = [rec EXCEPT ![t] = row.rec]
     \/ /\ Selected(t) = {} \/ "select.step" \in Faults
        /\ UNCHANGED rec
  /\ UNCHANGED <<rows, processVars, op, ask, db, ok>>

-----------------------------------------------------------------------------
(* The end of the call.                                                    *)

(* A write answers what insertRecord returned.                             *)
AnswerWrite(t) ==
  /\ op[t] \in Writes
  /\ Goto(t, "answer", "idle")
  /\ db' = [db EXCEPT ![t] = None]
  /\ UNCHANGED <<rows, processVars, op, ask, rec, ok>>

AcceptedUnchecked(t) ==    \* mutant: the tag of a loaded record is trusted
  rec[t] # None

(* A record was found and, except for the registration record, is          *)
(* authentic.                                                              *)
Accepted(t) ==
  rec[t] # None /\ (op[t] = "acquire" \/ checkRecordCrypto(rec[t]))

(* A read answers success for an accepted record.  One that is not         *)
(* authentic is not freed; getkey may fail to allocate the key and frees.  *)
AnswerRead(t) ==
  LET p == ProcOf[t]
  IN /\ op[t] \in Reads
     /\ Goto(t, "answer", "idle")
     /\ \/ /\ Accepted(t)
           /\ ok' = [ok EXCEPT ![t] = TRUE]
           /\ UNCHANGED <<rec, leaked>>
        \/ /\ ~Accepted(t) \/ (op[t] = "getkey" /\ "malloc" \in Faults)
           /\ rec' = [rec EXCEPT ![t] = None]
           /\ leaked' = IF rec[t] # None /\ ~Accepted(t)
                        THEN [leaked EXCEPT ![p] = @ + 1] ELSE leaked
           /\ UNCHANGED ok
     /\ db' = [db EXCEPT ![t] = None]
     /\ UNCHANGED <<rows, inited, conn, live, stuck, histories, op, ask>>

(* The storage corrupts a row.                                             *)
Corrupt ==
  /\ \E row \in rows, bad \in Damaged :
       rows' = (rows \ {row}) \union {[row EXCEPT !.rec = bad]}
  /\ damaged' = TRUE
  /\ UNCHANGED <<inited, conn, live, stuck, leaked, abandoned, threadVars>>

-----------------------------------------------------------------------------
Call(t) ==
  \/ onSaveRights(t) \/ onRegistration(t) \/ onCheckRightsStatus(t)
  \/ onAcquireDrmInfo(t) \/ DrmKernel_getRightKey(t)

(* What the thread of a call under way does next.                          *)
Step(t) ==
  \/ Verify(t) \/ RegistrationFault(t)
  \/ OpenUninitialised(t) \/ Open(t) \/ OpenNoMemory(t) \/ SetTimeout(t)
  \/ CreateTable(t) \/ FetchHandle(t) \/ DeletePrepare(t) \/ DeleteStep(t)
  \/ InsertPrepare(t) \/ InsertStep(t) \/ SelectPrepare(t) \/ SelectStep(t)
  \/ CloseHandle(t) \/ ClearHandle(t) \/ UseOfStaleHandle(t)
  \/ AnswerWrite(t) \/ AnswerRead(t)

Next ==
  \/ \E t \in Threads : Call(t) \/ Step(t)
  \/ \E p \in Processes : DrmKernel_init(p) \/ Crash(p)
  \/ Corrupt

Spec == Init /\ [][Next]_vars

(* deleteSecureRecord goes on to the insert.                               *)
DeleteEnds(t) == DeleteStep(t) /\ pc'[t] = "insert"

(* A thread inside a call is not suspended for ever: the operating system  *)
(* schedules it and every sqlite3 call returns (the busy handler gives up  *)
(* after the timeout).  Nothing forces a caller to call again.  A delete   *)
(* is not answered SQLITE_SCHEMA for ever: the schema only changes when    *)
(* the table is created.                                                   *)
FairSpec ==
  Spec /\ \A t \in Threads : WF_vars(Step(t)) /\ SF_vars(DeleteEnds(t))

-----------------------------------------------------------------------------
(* PROPERTIES                                                              *)

(* What the licence server issued: the records that a tag presented by a   *)
(* caller authenticates.                                                   *)
IssuedTags == {buffer.tag : buffer \in Buffers} \union PersoTags
Issued == {r \in Record : r.tag \in IssuedTags /\ checkRecordCrypto(r)}

LookedUp(t) == IF op[t] = "getkey" THEN rec[t].keyId ELSE rec[t].key

(* Whatever the interleaving, the failures, the crashes and the damage to  *)
(* the database, an operation that checks a record and answers success     *)
(* answers for a record that was issued, and for the content or the key    *)
(* identifier the caller asked: the tag checks of insertRecord,            *)
(* onCheckRightsStatus and getRightKey are in the right places.            *)
AnswerAuthentic ==
  \A t \in Threads :
    pc[t] = "idle" /\ ok[t] /\ op[t] # "acquire" =>
      /\ rec[t] \in Issued
      /\ op[t] \in Reads => LookedUp(t) = ask[t]

(* What the storage may have made of the rows by now.                      *)
Tainted == IF damaged THEN Damaged ELSE {}

(* The table only holds records that were issued, or that the storage has  *)
(* damaged since: no interleaving of saves builds a row of its own.        *)
TableAuthentic == \A row \in rows : row.rec \in Issued \union Tainted

SaveUnderWay(k) ==
  \E t \in Threads : /\ op[t] \in Writes
                     /\ pc[t] \in {"del_step", "ins_step"}
                     /\ rec[t] \in Issued
                     /\ rec[t].key = k

RowChangesAreSaves ==
  \/ Corrupt
  \/ \A k \in Keys :
       {row \in rows : row.rec.key = k} # {row \in rows' : row.rec.key = k}
         => SaveUnderWay(k)

(* But for damage to the storage, rows of a key only change in the delete  *)
(* or insert step of a save of an issued record of that key: a refused     *)
(* right never disturbs a stored one, although the old row is deleted      *)
(* before the new one is written.                                          *)
OnlyIssuedSavesChangeRows == [][RowChangesAreSaves]_vars

(* A thread between prepare and step has a connection that is still open,  *)
(* though any other thread of the process may call closeNvDatabase on it.  *)
StatementKeepsConnection ==
  \A t \in Threads : pc[t] \in InStmt => db[t] \in live[ProcOf[t]]

(* "If the record already exists it is deleted and replaced by the new     *)
(* insert": with one writer, a crash at any point of a save never leaves   *)
(* two rows for a key.                                                     *)
OneRowPerKey ==
  \A r1, r2 \in rows : r1.rec.key = r2.rec.key => r1 = r2

(* A save that answered success has its record in the table, until the     *)
(* same thread calls again.                                                *)
AckedIsStored ==
  \A t \in Threads :
    pc[t] = "idle" /\ op[t] \in Writes /\ ok[t] =>
      \E row \in rows : row.rec = rec[t]

AtRest(p) == \A t \in Threads : ProcOf[t] = p => pc[t] = "idle"

(* Between its calls a process holds exactly the connections of its saves  *)
(* whose openNvDatabase failed, and those with a statement that could not  *)
(* be bound, and points at none but these: every other path of insertRecord*)
(* and getRecord closes what it opened, whatever failed on it.             *)
ConnectionsClosed ==
  \A p \in Processes : AtRest(p) =>
    /\ live[p] = abandoned[p] \union stuck[p]
    /\ conn[p] \in live[p] \union {None}

(* The fields of a record that a read has loaded are only ever lost when   *)
(* the storage has damaged a row: no race, failure or refused save has a   *)
(* read reject the record it finds, which is what nobody frees.            *)
RecordsFreed == \A p \in Processes : leaked[p] > 0 => damaged

(* Every call returns, or its process dies: the loop of deleteSecureRecord, *)
(* the failures and the other threads of the process never keep it.        *)
CallsReturn == \A t \in Threads : pc[t] # "idle" ~> pc[t] = "idle"

-----------------------------------------------------------------------------
(* INVARIANTS of the proofs in DrmStoreProofs.                             *)

(* The record a save verifies and inserts is on its stack, and each        *)
(* statement is only run by the operations it serves.                      *)
RecordAtHand(t) ==
  /\ op[t] \in Writes => rec[t] \in Record
  /\ pc[t] # "idle" => op[t] \in Ops
  /\ pc[t] \in {"select", "sel_step"} => op[t] \in Reads
  /\ pc[t] \in {"verify", "delete", "del_step", "insert", "ins_step"}
       => op[t] \in Writes

TypeInv == TypeOK /\ \A t \in Threads : RecordAtHand(t)

(* A save past its verification holds an issued record.                    *)
SaveVerified(t) ==
  op[t] \in Writes /\ (pc[t] \notin {"idle", "verify", "answer"} \/ ok[t]) =>
    rec[t] \in Issued

(* A record being verified carries a tag that a caller presented.          *)
SavePresented(t) ==
  pc[t] = "verify" => rec[t] \in Record /\ rec[t].tag \in IssuedTags

(* A record a read has loaded was in the table under what the read asks.   *)
LoadedFromTable(t) ==
  op[t] \in Reads /\ rec[t] # None =>
    rec[t] \in Issued \union Tainted /\ LookedUp(t) = ask[t]

(* A read has no answer before its end, no operation no answer at all, and *)
(* a thread outside its calls has no loaded record but its answer.         *)
AnswerAtEnd(t) ==
  /\ op[t] \in Reads /\ ok[t] => pc[t] = "idle" /\ rec[t] # None
  /\ op[t] \in Reads /\ ok[t] /\ op[t] # "acquire" => rec[t] \in Issued
  /\ op[t] = "none" => ~ok[t] /\ pc[t] = "idle"

AuthenticityInv ==
  /\ TableAuthentic
  /\ \A t \in Threads : /\ SaveVerified(t)
                        /\ SavePresented(t)
                        /\ LoadedFromTable(t)
                        /\ AnswerAtEnd(t)

-----------------------------------------------------------------------------
(* DEPLOYMENTS under which the store keeps more of its promises.  Nothing  *)
(* in the code sees to them: conditions of the theorems, not assumptions.  *)

(* One thread saves and registers, on behalf of the whole device.          *)
SingleWriter ==
  \A t, u \in Threads :
    Calls[t] \intersect Writes # {} /\ Calls[u] \intersect Writes # {} => t = u

(* A process makes one call of the kernel at a time: no other thread of it *)
(* is on the mDatabaseConnection that nothing guards.                      *)
OneThreadEach == \A t, u \in Threads : ProcOf[t] = ProcOf[u] => t = u

DeletesSucceed ==
  Faults \intersect {"delete.prepare", "delete.bind", "delete.step"} = {}

(* No failure takes one of the ways that leave a connection open.          *)
ClosesSucceed ==
  Faults \intersect
    {"open", "create", "delete.bind", "insert.bind", "select.bind"} = {}

(* A thread does what it is deployed for.                                  *)
CallsAsDeployed == \A t \in Threads : op[t] # "none" => op[t] \in Calls[t]

Statements == {"delete", "insert", "select"} \union InStmt

(* The thread of a process uses the connection that it has opened.         *)
ConnectionUsable(t) ==
  /\ ProcOf[t] \notin inited => pc[t] \in {"idle", "open"}
  /\ pc[t] \in {"timeout", "create", "fetch"} =>
       conn[ProcOf[t]] \in live[ProcOf[t]]
  /\ pc[t] \in Statements => db[t] \in live[ProcOf[t]]

UsableInv == \A t \in Threads : ConnectionUsable(t)

(* Between its delete and its insert a save has no row of its key.         *)
OneRowInv ==
  /\ OneRowPerKey
  /\ \A t \in Threads : pc[t] \in {"insert", "ins_step"} => Replaced(t) = {}

(* The stages of a call that closes the connection and answers.            *)
Settling == {"close", "clear", "answer"}

(* An insert that succeeded has its row from that moment on.               *)
AckedInv ==
  \A t \in Threads :
    op[t] \in Writes /\ ok[t] =>
      /\ pc[t] \in Settling \union {"idle"}
      /\ \E row \in rows : row.rec = rec[t]

Left(p) == abandoned[p] \union stuck[p]

Closed(p)  == live[p] = Left(p) /\ conn[p] \in Left(p) \union {None}
Holding(p) == /\ live[p] = Left(p) \union {conn[p]}
              /\ conn[p] \notin abandoned[p] \union {None}

(* A thread holds one connection from its open to its close, besides those *)
(* that failed calls have left.                                            *)
HeldByCall(t) ==
  LET p == ProcOf[t]
  IN /\ pc[t] \in {"idle", "verify", "open", "answer"} => Closed(p)
     /\ pc[t] \in {"timeout", "create", "fetch"} \union Statements => Holding(p)
     /\ pc[t] \in Statements => db[t] = conn[p]
     /\ pc[t] = "close" => Holding(p) \/ (Closed(p) /\ conn[p] = None)
     /\ pc[t] = "clear" => live[p] = Left(p)

HeldInv ==
  /\ \A t \in Threads : HeldByCall(t)
  /\ \A p \in Processes :
       /\ (\A t \in Threads : ProcOf[t] # p) => Closed(p)
       /\ ClosesSucceed => Left(p) = {}

(* Before its last statement has run, a call has loaded nothing and has no *)
(* success to answer.                                                      *)
NothingYet ==
  \A t \in Threads :
    pc[t] \notin Settling \union {"idle"} =>
      ~ ok[t] /\ (op[t] \in Reads => rec[t] = None)

-----------------------------------------------------------------------------
(* The store implements RightsStore: the rows are the stored records, and  *)
(* a call is settled once it only has to close the connection.             *)

AbstractPhase(t) ==
  CASE pc[t] = "idle" -> "idle"
    [] pc[t] \in Settling -> "settled"
    [] OTHER -> "asked"

AbstractGoal(t) == IF op[t] \in Writes THEN rec[t] ELSE ask[t]

AbstractResult(t) ==
  IF op[t] \in Writes /\ ~ok[t] THEN None ELSE rec[t]

SomethingFails == Faults \ {"delete.schema"} # {}

Store == INSTANCE RightsStore WITH
  Clients <- Threads,
  ByKeyId <- {"getkey"},
  MayFail <- SomethingFails,
  stored  <- {row.rec : row \in rows},
  phase   <- [t \in Threads |-> AbstractPhase(t)],
  request <- op,
  goal    <- [t \in Threads |-> AbstractGoal(t)],
  result  <- [t \in Threads |-> AbstractResult(t)]

(* Every behaviour of the store, seen through its rows and the answers of  *)
(* its calls, is one of the abstract store: saves replace atomically up to *)
(* a crash, acknowledged saves have stored, and a read answers with what   *)
(* was stored at a moment of the call, and finds it unless a call failed.  *)
ImplementsRightsStore == Store!Spec
===============================================================================
