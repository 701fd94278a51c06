---------------------------- MODULE DrmStoreProofs ----------------------------
(***************************************************************************)
(* Proofs about DrmStore.  For every deployment, every set of records and  *)
(* of failing calls: type correctness, the authenticity of what the store  *)
(* holds and answers, and the connection of a prepared statement.  Then,   *)
(* each under the deployment it needs: an acknowledged save is stored, a   *)
(* key has one row, a process at rest has closed what its calls opened,    *)
(* and the store implements RightsStore.                                   *)
(***************************************************************************)
EXTENDS DrmStore, TLAPS

-----------------------------------------------------------------------------
(* The records that callers present are records, under the key asked, and  *)
(* carry a presented tag.                                                  *)
LEMMA ParsedRightRecord ==
  ASSUME NEW c \in Keys, NEW b \in Buffers
  PROVE  /\ ParsedRight(c, b) \in Record
         /\ ParsedRight(c, b).tag \in IssuedTags
BY InputsAssumption DEF ParsedRight, Record, IssuedTags

LEMMA PersoRecordRecord ==
  ASSUME NEW g \in KeyIds, NEW a \in PersoTags
  PROVE  /\ PersoRecord(g, a) \in Record
         /\ PersoRecord(g, a).tag \in IssuedTags
BY InputsAssumption, PersoAssumption DEF PersoRecord, Record, IssuedTags

(* The death of a process leaves a well-typed state.                       *)
LEMMA DieType ==
  ASSUME TypeInv, NEW p \in Processes, Die(p)
  PROVE  TypeInv'
<1>1. TypeOK'
  BY DEF TypeInv, TypeOK, Die, Pcs, Locals
<1>2. ASSUME NEW u \in Threads
      PROVE  RecordAtHand(u)'
  BY <1>2 DEF TypeInv, TypeOK, RecordAtHand, Die, Writes
<1> QED
  BY <1>1, <1>2 DEF TypeInv

(* A prepared or refused statement changes one program counter and at most *)
(* one set of unfinalized statements.                                      *)
LEMMA PrepareType ==
  ASSUME TypeOK, NEW t \in Threads, NEW from \in Pcs, NEW to \in Pcs,
         NEW failed \in Pcs, NEW f1, NEW f2,
         Prepare(t, from, to, failed, f1, f2)
  PROVE  /\ pc' \in [Threads -> Pcs]
         /\ stuck' \in [Processes -> SUBSET Handles]
         /\ UNCHANGED <<inited, conn, live, leaked, histories>>
<1>1. ProcOf[t] \in Processes
  BY DeploymentAssumption
<1>2. CASE UNCHANGED stuck
  BY <1>1, <1>2 DEF TypeOK, Prepare, Goto
<1>3. CASE /\ db[t] \in live[ProcOf[t]]
           /\ stuck' = [stuck EXCEPT ![ProcOf[t]] = @ \union {db[t]}]
  BY <1>1, <1>3 DEF TypeOK, Prepare, Goto
<1> QED
  BY <1>2, <1>3 DEF Prepare

(* The steps of a call under way keep the types.                           *)
LEMMA StepType ==
  ASSUME TypeInv, NEW t \in Threads, Step(t)
  PROVE  TypeOK'
<1>0. ProcOf[t] \in Processes /\ TypeOK
  BY DeploymentAssumption DEF TypeInv
<1>1. CASE Verify(t)
  BY <1>0, <1>1 DEF TypeOK, Verify, Goto, Pcs, processVars, histories
<1>2. CASE RegistrationFault(t) \/ OpenUninitialised(t) \/ UseOfStaleHandle(t)
  BY <1>0, <1>2, DieType
     DEF TypeInv, RegistrationFault, OpenUninitialised, UseOfStaleHandle
<1>3. CASE Open(t)
  BY <1>0, <1>3
     DEF TypeOK, Open, OpenFailed, Goto, Pcs, histories, Writes, Reads, Ops
<1>4. CASE OpenNoMemory(t)
  BY <1>0, <1>4
     DEF TypeOK, OpenNoMemory, OpenFailed, Goto, Pcs, histories, Writes, Reads,
         Ops
<1>5. CASE SetTimeout(t) \/ CreateTable(t)
  BY <1>0, <1>5
     DEF TypeOK, SetTimeout, CreateTable, OpenFailed, Goto, Pcs, Writes, Reads,
         Ops, processVars, histories
<1>6. CASE FetchHandle(t)
  BY <1>0, <1>6
     DEF TypeOK, FetchHandle, Goto, Pcs, Locals, processVars, histories
<1>7. CASE DeletePrepare(t)
  <2>1. {"delete", "del_step", "insert"} \subseteq Pcs
    BY DEF Pcs, Locals
  <2> QED
    BY <1>0, <1>7, <2>1, PrepareType DEF TypeOK, DeletePrepare, histories
<1>8. CASE DeleteStep(t)
  BY <1>0, <1>8
     DEF TypeOK, DeleteStep, Goto, Pcs, Locals, processVars, histories
<1>9. CASE InsertPrepare(t)
  <2>1. {"insert", "ins_step", "close"} \subseteq Pcs
    BY DEF Pcs, Locals
  <2> QED
    BY <1>0, <1>9, <2>1, PrepareType DEF TypeOK, InsertPrepare, histories
<1>10. CASE InsertStep(t)
  <2>1. rec[t] \in Record
    BY <1>10 DEF TypeInv, RecordAtHand, InsertStep, Goto
  <2>2. rows' \in SUBSET Row
    BY <1>0, <1>10, <2>1 DEF TypeOK, InsertStep, Row
  <2> QED
    BY <1>0, <1>10, <2>2
       DEF TypeOK, InsertStep, Goto, Pcs, processVars, histories
<1>11. CASE SelectPrepare(t)
  <2>1. {"select", "sel_step", "close"} \subseteq Pcs
    BY DEF Pcs, Locals
  <2> QED
    BY <1>0, <1>11, <2>1, PrepareType DEF TypeOK, SelectPrepare, histories
<1>12. CASE SelectStep(t)
  BY <1>0, <1>12
     DEF TypeOK, SelectStep, Selected, Row, Goto, Pcs, processVars, histories
<1>13. CASE CloseHandle(t)
  BY <1>0, <1>13 DEF TypeOK, CloseHandle, Goto, Pcs, histories
<1>14. CASE ClearHandle(t)
  BY <1>0, <1>14 DEF TypeOK, ClearHandle, Goto, Pcs, histories
<1>15. CASE AnswerWrite(t)
  BY <1>0, <1>15 DEF TypeOK, AnswerWrite, Goto, Pcs, processVars, histories
<1>16. CASE AnswerRead(t)
  <2>1. leaked' \in [Processes -> Nat]
    BY <1>0, <1>16 DEF TypeOK, AnswerRead
  <2>2. ok' \in [Threads -> BOOLEAN] /\ rec' \in [Threads -> Record \union {None}]
    BY <1>0, <1>16 DEF TypeOK, AnswerRead
  <2> QED
    BY <1>0, <1>16, <2>1, <2>2 DEF TypeOK, AnswerRead, Goto, Pcs, histories
<1> QED
  BY <1>1, <1>2, <1>3, <1>4, <1>5, <1>6, <1>7, <1>8, <1>9, <1>10, <1>11,
     <1>12, <1>13, <1>14, <1>15, <1>16 DEF Step

(* The steps of a call under way keep the record of each thread at hand.   *)
LEMMA StepRecordAtHand ==
  ASSUME TypeInv, NEW t \in Threads, Step(t), NEW u \in Threads
  PROVE  RecordAtHand(u)'
<1>0. ProcOf[t] \in Processes /\ TypeOK /\ RecordAtHand(t) /\ RecordAtHand(u)
  BY DeploymentAssumption DEF TypeInv
<1>1. CASE RegistrationFault(t) \/ OpenUninitialised(t) \/ UseOfStaleHandle(t)
  BY <1>0, <1>1, DieType
     DEF TypeInv, RegistrationFault, OpenUninitialised, UseOfStaleHandle
<1>2. CASE Verify(t) \/ FetchHandle(t) \/ CloseHandle(t) \/ ClearHandle(t)
  BY <1>0, <1>2 DEF TypeOK, RecordAtHand, Writes, Reads, Ops, Goto,
     Verify, FetchHandle, CloseHandle, ClearHandle
<1>3. CASE Open(t) \/ OpenNoMemory(t) \/ SetTimeout(t) \/ CreateTable(t)
  BY <1>0, <1>3 DEF TypeOK, RecordAtHand, Writes, Goto,
     Open, OpenNoMemory, SetTimeout, CreateTable, OpenFailed
<1>4. CASE DeletePrepare(t) \/ InsertPrepare(t) \/ SelectPrepare(t)
  BY <1>0, <1>4 DEF TypeOK, RecordAtHand, Writes, Goto, Prepare,
     DeletePrepare, InsertPrepare, SelectPrepare
<1>5. CASE DeleteStep(t) \/ InsertStep(t)
  BY <1>0, <1>5 DEF TypeOK, RecordAtHand, Writes, Goto, DeleteStep, InsertStep
<1>6. CASE SelectStep(t)
  BY <1>0, <1>6 DEF TypeOK, RecordAtHand, Goto, SelectStep, Selected, Row
<1>7. CASE AnswerWrite(t) \/ AnswerRead(t)
  BY <1>0, <1>7 DEF TypeOK, RecordAtHand, Writes, Reads, Goto,
     AnswerWrite, AnswerRead
<1> QED
  BY <1>1, <1>2, <1>3, <1>4, <1>5, <1>6, <1>7 DEF Step

(* What every call of an entry point amounts to.                           *)
LEMMA CallBegins ==
  ASSUME NEW t \in Threads, Call(t)
  PROVE  \/ \E o \in Writes, r \in Record :
              r.tag \in IssuedTags /\ Begin(t, o, "verify", None, r)
         \/ \E o \in Reads, k \in Keys \union KeyIds :
              Begin(t, o, "open", k, None)
<1>1. CASE onSaveRights(t)
  BY <1>1, ParsedRightRecord DEF onSaveRights, Writes
<1>2. CASE onRegistration(t)
  BY <1>2, PersoRecordRecord DEF onRegistration, Writes
<1>3. CASE onCheckRightsStatus(t) \/ DrmKernel_getRightKey(t)
  BY <1>3 DEF onCheckRightsStatus, DrmKernel_getRightKey, Reads
<1>4. CASE onAcquireDrmInfo(t)
  BY <1>4, PersoAssumption DEF onAcquireDrmInfo, Reads
<1> QED
  BY <1>1, <1>2, <1>3, <1>4 DEF Call

(* THEOREM: every variable keeps its type, a write its record.             *)
THEOREM TypeCorrect == Spec => [](TypeInv /\ TypeOK)
<1>1. Init => TypeInv
  <2>1. Init => TypeOK
    <3>. SUFFICES ASSUME Init
                  PROVE  TypeOK
      OBVIOUS
    <3>1. /\ rows \in SUBSET Row /\ inited \in SUBSET Processes
          /\ damaged \in BOOLEAN
      BY DEF Init
    <3>2. /\ conn \in [Processes -> Handles \union {None}]
          /\ live \in [Processes -> SUBSET Handles]
          /\ stuck \in [Processes -> SUBSET Handles]
          /\ leaked \in [Processes -> Nat]
          /\ abandoned \in [Processes -> SUBSET Handles]
      BY DEF Init
    <3>3. /\ pc \in [Threads -> Pcs]
          /\ op \in [Threads -> Ops \union {"none"}]
          /\ ask \in [Threads -> Keys \union KeyIds \union {None}]
          /\ rec \in [Threads -> Record \union {None}]
          /\ db \in [Threads -> Handles \union {None}]
          /\ ok \in [Threads -> BOOLEAN]
      BY DEF Init, Pcs
    <3>. QED
      BY <3>1, <3>2, <3>3 DEF TypeOK
  <2>2. Init => \A t \in Threads : RecordAtHand(t)
    BY DEF Init, RecordAtHand, Writes
  <2>. QED
    BY <2>1, <2>2 DEF TypeInv
<1>2. TypeInv /\ [Next]_vars => TypeInv'
  <2> SUFFICES ASSUME TypeInv, [Next]_vars
               PROVE  TypeInv'
    OBVIOUS
  <2>1. ASSUME NEW t \in Threads, Call(t)
        PROVE  TypeInv'
    <3>1. CASE \E o \in Writes, r \in Record : Begin(t, o, "verify", None, r)
      BY <3>1 DEF TypeInv, TypeOK, RecordAtHand, Begin, Goto, Pcs, Ops,
         processVars, histories
    <3>2. CASE \E o \in Reads, k \in Keys \union KeyIds :
                 Begin(t, o, "open", k, None)
      BY <3>2 DEF TypeInv, TypeOK, RecordAtHand, Begin, Goto, Pcs, Ops,
         Writes, Reads, processVars, histories
    <3> QED
      BY <2>1, <3>1, <3>2, CallBegins
  <2>2. ASSUME NEW t \in Threads, Step(t)
        PROVE  TypeInv'
    BY <2>2, StepType, StepRecordAtHand DEF TypeInv
  <2>3. ASSUME NEW p \in Processes, DrmKernel_init(p) \/ Crash(p)
        PROVE  TypeInv'
    BY <2>3, DieType
       DEF TypeInv, TypeOK, RecordAtHand, DrmKernel_init, Crash, threadVars,
           histories
  <2>4. CASE Corrupt
    BY <2>4, InputsAssumption
       DEF TypeInv, TypeOK, RecordAtHand, Corrupt, Row, processVars, histories,
           threadVars
  <2>5. CASE UNCHANGED vars
    BY <2>5
       DEF TypeInv, TypeOK, RecordAtHand, vars, processVars, histories,
           threadVars
  <2> QED
    BY <2>1, <2>2, <2>3, <2>4, <2>5 DEF Next
<1>3. TypeInv => TypeOK
  BY DEF TypeInv
<1> QED
  BY <1>1, <1>2, <1>3, PTL DEF Spec

-----------------------------------------------------------------------------
(* The death of a process takes the threads that use its connections.      *)
LEMMA DieKeepsConnection ==
  ASSUME TypeInv, StatementKeepsConnection, NEW p \in Processes, Die(p)
  PROVE  StatementKeepsConnection'
BY DEF TypeInv, TypeOK, StatementKeepsConnection, Die, InStmt

(* Only closeNvDatabase closes a connection of a process that lives on,    *)
(* and SQLite refuses it while a statement of the connection is prepared.  *)
LEMMA StepKeepsConnection ==
  ASSUME TypeInv, StatementKeepsConnection, NEW t \in Threads, Step(t)
  PROVE  StatementKeepsConnection'
<1>0. ProcOf[t] \in Processes /\ TypeOK
  BY DeploymentAssumption DEF TypeInv
<1> SUFFICES ASSUME NEW u \in Threads, pc'[u] \in InStmt
             PROVE  db'[u] \in live'[ProcOf[u]]
  BY DEF StatementKeepsConnection
<1>p. ProcOf[u] \in Processes
  BY DeploymentAssumption
<1>1. CASE RegistrationFault(t) \/ OpenUninitialised(t) \/ UseOfStaleHandle(t)
  BY <1>0, <1>1, DieKeepsConnection
     DEF RegistrationFault, OpenUninitialised, UseOfStaleHandle,
         StatementKeepsConnection
<1>2. CASE Verify(t) \/ SetTimeout(t) \/ CreateTable(t) \/ FetchHandle(t)
           \/ DeleteStep(t)
           \/ InsertStep(t) \/ SelectStep(t) \/ AnswerWrite(t)
           \/ AnswerRead(t) \/ ClearHandle(t)
  <2>1. UNCHANGED live
    BY <1>2
       DEF Verify, SetTimeout, CreateTable, FetchHandle, DeleteStep,
           InsertStep, SelectStep, AnswerWrite, AnswerRead, ClearHandle,
           processVars, histories
  <2>2. u # t /\ pc'[u] = pc[u] /\ db'[u] = db[u]
    BY <1>0, <1>2
       DEF TypeOK, Goto, InStmt, OpenFailed, Verify, SetTimeout, CreateTable,
           FetchHandle, DeleteStep, InsertStep, SelectStep, AnswerWrite,
           AnswerRead, ClearHandle
  <2> QED
    BY <2>1, <2>2 DEF StatementKeepsConnection
<1>3. CASE Open(t) \/ OpenNoMemory(t)
  <2>1. u # t /\ pc'[u] = pc[u] /\ db'[u] = db[u]
    BY <1>0, <1>3 DEF TypeOK, Goto, InStmt, OpenFailed, Open, OpenNoMemory
  <2>2. live[ProcOf[u]] \subseteq live'[ProcOf[u]]
    BY <1>0, <1>p, <1>3 DEF TypeOK, Open, OpenNoMemory
  <2> QED
    BY <2>1, <2>2 DEF StatementKeepsConnection
<1>4. CASE DeletePrepare(t) \/ InsertPrepare(t) \/ SelectPrepare(t)
  <2>1. UNCHANGED <<live, db>>
    BY <1>4 DEF DeletePrepare, InsertPrepare, SelectPrepare, Prepare
  <2>2. CASE u # t
    BY <1>0, <1>4, <2>1, <2>2 DEF TypeOK, StatementKeepsConnection, Goto,
       DeletePrepare, InsertPrepare, SelectPrepare, Prepare
  <2>3. CASE u = t
    BY <1>0, <1>4, <2>1, <2>3 DEF TypeOK, Goto, InStmt,
       DeletePrepare, InsertPrepare, SelectPrepare, Prepare
  <2> QED
    BY <2>2, <2>3
<1>5. CASE CloseHandle(t)
  <2>1. u # t /\ pc'[u] = pc[u] /\ db'[u] = db[u]
    BY <1>0, <1>5 DEF TypeOK, Goto, InStmt, CloseHandle
  <2>2. CASE UNCHANGED live
    BY <2>1, <2>2 DEF StatementKeepsConnection
  <2>3. CASE /\ Prepared(ProcOf[t], conn[ProcOf[t]]) = {}
             /\ live' = [live EXCEPT ![ProcOf[t]] = @ \ {conn[ProcOf[t]]}]
    BY <1>0, <1>p, <2>1, <2>3 DEF TypeOK, StatementKeepsConnection, Prepared
  <2> QED
    BY <1>5, <2>2, <2>3 DEF CloseHandle
<1> QED
  BY <1>1, <1>2, <1>3, <1>4, <1>5 DEF Step

(* THEOREM: a statement keeps its connection open from prepare to step, in *)
(* every deployment and with every failure.                                *)
THEOREM StatementsKeepTheirConnection == Spec => []StatementKeepsConnection
<1>1. Init => StatementKeepsConnection
  BY DEF Init, StatementKeepsConnection, InStmt
<1>2. TypeInv /\ StatementKeepsConnection /\ [Next]_vars
        => StatementKeepsConnection'
  <2> SUFFICES ASSUME TypeInv, StatementKeepsConnection, [Next]_vars
               PROVE  StatementKeepsConnection'
    OBVIOUS
  <2>1. ASSUME NEW t \in Threads, Call(t)
        PROVE  StatementKeepsConnection'
    <3>1. /\ UNCHANGED <<live, db>>
          /\ \A u \in Threads : pc'[u] = pc[u] \/ pc'[u] \notin InStmt
      BY <2>1, CallBegins
         DEF TypeInv, TypeOK, Begin, Goto, InStmt, processVars, histories
    <3> QED
      BY <3>1 DEF StatementKeepsConnection
  <2>2. ASSUME NEW t \in Threads, Step(t)
        PROVE  StatementKeepsConnection'
    BY <2>2, StepKeepsConnection
  <2>3. ASSUME NEW p \in Processes, DrmKernel_init(p) \/ Crash(p)
        PROVE  StatementKeepsConnection'
    BY <2>3, DieKeepsConnection
       DEF StatementKeepsConnection, DrmKernel_init, Crash, threadVars
  <2>4. CASE Corrupt \/ UNCHANGED vars
    BY <2>4
       DEF StatementKeepsConnection, Corrupt, vars, processVars, histories,
           threadVars
  <2> QED
    BY <2>1, <2>2, <2>3, <2>4 DEF Next
<1> QED
  BY <1>1, <1>2, TypeCorrect, PTL DEF Spec

-----------------------------------------------------------------------------
(* No step of a call damages the storage.                                  *)
LEMMA StepUndamaging ==
  ASSUME NEW t \in Threads, Step(t)
  PROVE  Tainted' = Tainted
<1>1. damaged' = damaged
  BY DEF Step, Verify, RegistrationFault, OpenUninitialised, UseOfStaleHandle,
     Die, Open, OpenNoMemory, OpenFailed, SetTimeout, CreateTable, FetchHandle,
     DeletePrepare, DeleteStep, InsertPrepare, InsertStep, SelectPrepare,
     SelectStep, Prepare, CloseHandle, ClearHandle, AnswerWrite, AnswerRead,
     processVars, histories
<1>. QED
  BY <1>1 DEF Tainted

(* The death of a process takes its calls and leaves the table.            *)
LEMMA DieAuthentic ==
  ASSUME TypeInv, AuthenticityInv, NEW p \in Processes, Die(p)
  PROVE  AuthenticityInv'
<1>. Tainted' = Tainted
  BY DEF Die, Tainted
<1>1. TableAuthentic'
  BY DEF AuthenticityInv, TableAuthentic, Die, Issued, IssuedTags
<1>2. ASSUME NEW u \in Threads
      PROVE  /\ SaveVerified(u)' /\ SavePresented(u)'
             /\ LoadedFromTable(u)' /\ AnswerAtEnd(u)'
  BY <1>2 DEF AuthenticityInv, Die, SaveVerified, SavePresented,
     LoadedFromTable, AnswerAtEnd, LookedUp, Issued, IssuedTags, Writes, Reads
<1> QED
  BY <1>1, <1>2 DEF AuthenticityInv

(* What the threads that do not step know of their record stays true.      *)
LEMMA OthersAuthentic ==
  ASSUME AuthenticityInv, NEW u \in Threads,
         pc'[u] = pc[u], op'[u] = op[u], ask'[u] = ask[u], rec'[u] = rec[u],
         ok'[u] = ok[u], Tainted \subseteq Tainted'
  PROVE  /\ SaveVerified(u)' /\ SavePresented(u)'
         /\ LoadedFromTable(u)' /\ AnswerAtEnd(u)'
BY DEF AuthenticityInv, SaveVerified, SavePresented, LoadedFromTable,
   AnswerAtEnd, LookedUp, Issued, IssuedTags

(* The steps that write the table keep it authentic.                       *)
LEMMA StepTableAuthentic ==
  ASSUME TypeInv, AuthenticityInv, NEW t \in Threads, Step(t)
  PROVE  TableAuthentic'
<1>. Tainted' = Tainted
  BY StepUndamaging
<1>1. CASE InsertStep(t)
  <2>1. rec[t] \in Issued
    BY <1>1 DEF TypeInv, RecordAtHand, AuthenticityInv, SaveVerified,
       InsertStep, Goto
  <2> QED
    BY <1>1, <2>1 DEF AuthenticityInv, TableAuthentic, InsertStep, Issued,
       IssuedTags
<1>2. CASE DeleteStep(t)
  BY <1>2
     DEF AuthenticityInv, TableAuthentic, DeleteStep, Replaced, Issued,
         IssuedTags
<1>3. CASE UNCHANGED rows
  BY <1>3 DEF AuthenticityInv, TableAuthentic, Issued, IssuedTags
<1> QED
  BY <1>1, <1>2, <1>3 DEF Step, Verify, RegistrationFault, OpenUninitialised,
     Open, OpenNoMemory, SetTimeout, CreateTable, FetchHandle, DeletePrepare,
     InsertPrepare, SelectPrepare, SelectStep, CloseHandle, ClearHandle,
     UseOfStaleHandle, AnswerWrite, AnswerRead, Die

(* The step of a thread keeps what it knows of its own record.             *)
LEMMA StepOwnAuthentic ==
  ASSUME TypeInv, AuthenticityInv, NEW t \in Threads, Step(t),
         ~ RegistrationFault(t), ~ OpenUninitialised(t), ~ UseOfStaleHandle(t)
  PROVE  /\ SaveVerified(t)' /\ SavePresented(t)'
         /\ LoadedFromTable(t)' /\ AnswerAtEnd(t)'
<1>0. /\ TypeOK /\ RecordAtHand(t) /\ TableAuthentic
      /\ SaveVerified(t) /\ SavePresented(t)
      /\ LoadedFromTable(t) /\ AnswerAtEnd(t)
  BY DEF TypeInv, AuthenticityInv
<1> Issued' = Issued /\ Tainted' = Tainted
  BY StepUndamaging DEF Issued, IssuedTags
<1> Writes \intersect Reads = {}
  BY DEF Writes, Reads
<1>1. CASE Verify(t)
  <2>1. rec[t] \in Record /\ rec[t].tag \in IssuedTags
    BY <1>0, <1>1 DEF SavePresented, Verify, Goto
  <2>2. pc'[t] = "open" => rec[t] \in Issued
    BY <1>0, <1>1, <2>1 DEF TypeOK, Issued, Verify, Goto
  <2> QED
    BY <1>0, <1>1, <2>2 DEF TypeOK, Verify, Goto, SaveVerified, SavePresented,
       LoadedFromTable, AnswerAtEnd, LookedUp
<1>2. CASE Open(t) \/ OpenNoMemory(t) \/ SetTimeout(t) \/ CreateTable(t)
           \/ FetchHandle(t)
           \/ CloseHandle(t) \/ ClearHandle(t) \/ DeleteStep(t)
  BY <1>0, <1>2
     DEF TypeOK, Goto, OpenFailed, Open, OpenNoMemory, SetTimeout, CreateTable,
         FetchHandle, CloseHandle, ClearHandle, DeleteStep, SaveVerified,
         SavePresented, LoadedFromTable, AnswerAtEnd, LookedUp
<1>3. CASE DeletePrepare(t) \/ InsertPrepare(t) \/ SelectPrepare(t)
  BY <1>0, <1>3 DEF TypeOK, Goto, Prepare, DeletePrepare, InsertPrepare,
     SelectPrepare, SaveVerified, SavePresented, LoadedFromTable, AnswerAtEnd,
     LookedUp
<1>4. CASE InsertStep(t)
  BY <1>0, <1>4 DEF TypeOK, Goto, InsertStep, RecordAtHand, SaveVerified,
     SavePresented, LoadedFromTable, AnswerAtEnd, LookedUp
<1>5. CASE SelectStep(t)
  <2>1. op[t] \in Reads
    BY <1>0, <1>5 DEF SelectStep, Goto, RecordAtHand
  <2>2. CASE UNCHANGED rec
    BY <1>0, <1>5, <2>1, <2>2 DEF TypeOK, Goto, SelectStep, SaveVerified,
       SavePresented, LoadedFromTable, AnswerAtEnd, LookedUp
  <2>3. CASE \E row \in Selected(t) : rec' = [rec EXCEPT ![t] = row.rec]
    <3>1. PICK row \in Selected(t) : rec' = [rec EXCEPT ![t] = row.rec]
      BY <2>3
    <3>2. rec'[t] = row.rec /\ row.rec \in Issued \union Tainted
      BY <1>0, <3>1 DEF TypeOK, Selected, TableAuthentic
    <3>3. LookedUp(t)' = ask[t]
      BY <1>5, <3>1, <3>2 DEF LookedUp, Selected, SelectStep
    <3> QED
      BY <1>0, <1>5, <2>1, <3>2, <3>3 DEF TypeOK, Goto, SelectStep,
         SaveVerified, SavePresented, LoadedFromTable, AnswerAtEnd
  <2> QED
    BY <1>5, <2>2, <2>3 DEF SelectStep
<1>6. CASE AnswerWrite(t)
  BY <1>0, <1>6 DEF TypeOK, Goto, AnswerWrite, SaveVerified, SavePresented,
     LoadedFromTable, AnswerAtEnd, LookedUp
<1>7. CASE AnswerRead(t)
  <2>1. op[t] \in Reads /\ op'[t] = op[t] /\ ask'[t] = ask[t]
        /\ pc'[t] = "idle"
    BY <1>0, <1>7 DEF TypeOK, Goto, AnswerRead
  <2>2. CASE /\ rec[t] # None /\ (op[t] = "acquire" \/ checkRecordCrypto(rec[t]))
             /\ UNCHANGED rec
    <3>1. op[t] # "acquire" => rec[t] \in Issued
      BY <1>0, <2>1, <2>2, InputsAssumption DEF LoadedFromTable, Tainted
    <3> QED
      BY <1>0, <2>1, <2>2, <3>1 DEF SaveVerified, SavePresented,
         LoadedFromTable, AnswerAtEnd, LookedUp, Reads
  <2>3. CASE rec' = [rec EXCEPT ![t] = None] /\ UNCHANGED ok
    <3>1. rec'[t] = None /\ ~ ok'[t]
      BY <1>0, <1>7, <2>1, <2>3 DEF TypeOK, AnswerAtEnd, AnswerRead, Goto
    <3> QED
      BY <1>0, <2>1, <3>1 DEF SaveVerified, SavePresented, LoadedFromTable,
         AnswerAtEnd, Reads
  <2> QED
    BY <1>7, <2>2, <2>3 DEF AnswerRead, Accepted
<1> QED
  BY <1>1, <1>2, <1>3, <1>4, <1>5, <1>6, <1>7 DEF Step

(* The steps of a call keep the store and the answers authentic.           *)
LEMMA StepAuthentic ==
  ASSUME TypeInv, AuthenticityInv, NEW t \in Threads, Step(t)
  PROVE  AuthenticityInv'
<1>1. CASE RegistrationFault(t) \/ OpenUninitialised(t) \/ UseOfStaleHandle(t)
  BY <1>1, DieAuthentic, DeploymentAssumption
     DEF RegistrationFault, OpenUninitialised, UseOfStaleHandle
<1>2. CASE ~ (RegistrationFault(t) \/ OpenUninitialised(t) \/ UseOfStaleHandle(t))
  <2>1. ASSUME NEW u \in Threads, u # t
        PROVE  /\ pc'[u] = pc[u] /\ op'[u] = op[u] /\ ask'[u] = ask[u]
               /\ rec'[u] = rec[u] /\ ok'[u] = ok[u]
    BY <1>2, <2>1
       DEF TypeInv, TypeOK, Step, Goto, Prepare, OpenFailed, Verify, Open,
           OpenNoMemory, SetTimeout, CreateTable, FetchHandle, DeletePrepare,
           DeleteStep, InsertPrepare, InsertStep, SelectPrepare, SelectStep,
           CloseHandle, ClearHandle, AnswerWrite, AnswerRead
  <2>2. ASSUME NEW u \in Threads
        PROVE  /\ SaveVerified(u)' /\ SavePresented(u)'
               /\ LoadedFromTable(u)' /\ AnswerAtEnd(u)'
    BY <1>2, <2>1, StepUndamaging, OthersAuthentic, StepOwnAuthentic
  <2> QED
    BY <2>2, StepTableAuthentic DEF AuthenticityInv
<1> QED
  BY <1>1, <1>2

(* A call begins with a presented record, or with none.                    *)
LEMMA CallAuthentic ==
  ASSUME TypeInv, AuthenticityInv, NEW t \in Threads, Call(t)
  PROVE  AuthenticityInv'
<1>1. PICK o \in Ops, k \in Keys \union KeyIds \union {None},
           r \in Record \union {None}, start \in {"verify", "open"} :
        /\ Begin(t, o, start, k, r)
        /\ \/ o \in Writes /\ start = "verify" /\ r \in Record
              /\ r.tag \in IssuedTags
           \/ o \in Reads /\ start = "open" /\ r = None
  BY CallBegins DEF Ops
<1>. Tainted' = Tainted
  BY <1>1 DEF Begin, processVars, histories, Tainted
<1>2. TableAuthentic'
  BY <1>1 DEF AuthenticityInv, TableAuthentic, Begin, Issued, IssuedTags
<1>3. ASSUME NEW u \in Threads, u # t
      PROVE  /\ pc'[u] = pc[u] /\ op'[u] = op[u] /\ ask'[u] = ask[u]
             /\ rec'[u] = rec[u] /\ ok'[u] = ok[u]
  BY <1>1, <1>3 DEF TypeInv, TypeOK, Begin, Goto
<1>4. /\ pc'[t] = start /\ op'[t] = o /\ ask'[t] = k /\ rec'[t] = r /\ ~ ok'[t]
  BY <1>1 DEF TypeInv, TypeOK, Begin, Goto
<1>5. /\ SaveVerified(t)' /\ SavePresented(t)'
      /\ LoadedFromTable(t)' /\ AnswerAtEnd(t)'
  BY <1>1, <1>4 DEF SaveVerified, SavePresented, LoadedFromTable, AnswerAtEnd,
     Writes, Reads, IssuedTags
<1> QED
  BY <1>2, <1>3, <1>5, OthersAuthentic DEF AuthenticityInv

(* THEOREM: the invariant behind the authenticity of what the store holds  *)
(* and answers, for every damage of the storage that tags reveal.          *)
THEOREM Authenticity == Spec => [](TypeInv /\ AuthenticityInv)
<1>1. Init => AuthenticityInv
  BY DEF Init, AuthenticityInv, TableAuthentic, SaveVerified, SavePresented,
     LoadedFromTable, AnswerAtEnd, Writes, Reads
<1>2. TypeInv /\ AuthenticityInv /\ [Next]_vars => AuthenticityInv'
  <2> SUFFICES ASSUME TypeInv, AuthenticityInv, [Next]_vars
               PROVE  AuthenticityInv'
    OBVIOUS
  <2> Issued' = Issued
    BY DEF Issued, IssuedTags
  <2>1. ASSUME NEW t \in Threads, Call(t) \/ Step(t)
        PROVE  AuthenticityInv'
    BY <2>1, CallAuthentic, StepAuthentic
  <2>2. ASSUME NEW p \in Processes, Crash(p)
        PROVE  AuthenticityInv'
    BY <2>2, DieAuthentic DEF Crash
  <2>3. CASE UNCHANGED <<rows, threadVars, damaged>>
    BY <2>3, OthersAuthentic
       DEF AuthenticityInv, TableAuthentic, threadVars, Tainted
  <2>4. CASE Corrupt
    <3>. Tainted \subseteq Tainted' /\ Damaged \subseteq Tainted'
      BY <2>4 DEF Corrupt, Tainted
    <3>1. TableAuthentic'
      BY <2>4
         DEF TypeInv, TypeOK, Row, AuthenticityInv, TableAuthentic, Corrupt
    <3> QED
      BY <2>4, <3>1, OthersAuthentic DEF AuthenticityInv, Corrupt, threadVars
  <2> QED
    BY <2>1, <2>2, <2>3, <2>4
       DEF Next, DrmKernel_init, vars, processVars, histories
<1> QED
  BY <1>1, <1>2, TypeCorrect, PTL DEF Spec

(* THEOREM: every right and registration of the table was issued, or was   *)
(* damaged after it was stored.                                            *)
THEOREM TableIsAuthentic == Spec => []TableAuthentic
<1>1. AuthenticityInv => TableAuthentic
  BY DEF AuthenticityInv
<1> QED
  BY <1>1, Authenticity, PTL

(* THEOREM: an operation that verifies a record answers success only for a *)
(* record that was issued and that is the one asked.                       *)
THEOREM AnswersAreAuthentic == Spec => []AnswerAuthentic
<1>1. TypeInv /\ AuthenticityInv => AnswerAuthentic
  <2> SUFFICES ASSUME TypeInv, AuthenticityInv, NEW t \in Threads,
                      pc[t] = "idle", ok[t], op[t] # "acquire"
               PROVE  /\ rec[t] \in Issued
                      /\ op[t] \in Reads => LookedUp(t) = ask[t]
    BY DEF AnswerAuthentic
  <2>1. op[t] \in Writes \union Reads
    BY DEF TypeInv, TypeOK, AuthenticityInv, AnswerAtEnd, Ops
  <2> QED
    BY <2>1 DEF AuthenticityInv, SaveVerified, LoadedFromTable, AnswerAtEnd
<1> QED
  BY <1>1, Authenticity, PTL

(* THEOREM: but for damage to the storage, the rows of a key change only   *)
(* in a save of an issued record of that key.                              *)
THEOREM RowsChangeByIssuedSaves == Spec => OnlyIssuedSavesChangeRows
<1>1. TypeInv /\ AuthenticityInv /\ [Next]_vars => [RowChangesAreSaves]_vars
  <2> SUFFICES ASSUME TypeInv, AuthenticityInv, Next, ~Corrupt,
                      NEW k \in Keys,
                      {row \in rows : row.rec.key = k}
                        # {row \in rows' : row.rec.key = k}
               PROVE  SaveUnderWay(k)
    BY DEF RowChangesAreSaves
  <2>1. rows' # rows
    OBVIOUS
  <2>2. PICK t \in Threads : DeleteStep(t) \/ InsertStep(t)
    BY <2>1
       DEF Next, Call, Step, Begin, onSaveRights, onRegistration,
           onCheckRightsStatus, onAcquireDrmInfo, DrmKernel_getRightKey,
           Verify, RegistrationFault, OpenUninitialised, Open, OpenNoMemory,
           SetTimeout, CreateTable, FetchHandle, DeletePrepare, InsertPrepare,
           SelectPrepare, SelectStep, CloseHandle, ClearHandle,
           UseOfStaleHandle, AnswerWrite, AnswerRead, Die, Crash,
           DrmKernel_init
  <2>3. op[t] \in Writes /\ pc[t] \in {"del_step", "ins_step"}
    BY <2>2 DEF TypeInv, RecordAtHand, DeleteStep, InsertStep, Goto
  <2>4. rec[t] \in Issued
    BY <2>3 DEF AuthenticityInv, SaveVerified
  <2>5. rec[t].key = k
    <3>1. CASE DeleteStep(t)
      BY <3>1 DEF DeleteStep, Replaced
    <3>2. CASE InsertStep(t)
      BY <3>2 DEF InsertStep
    <3> QED
      BY <2>2, <3>1, <3>2
  <2> QED
    BY <2>3, <2>4, <2>5 DEF SaveUnderWay
<1> QED
  BY <1>1, Authenticity, PTL DEF Spec, OnlyIssuedSavesChangeRows
-----------------------------------------------------------------------------
(* STEPS.  What the proofs about deployments need of each step.            *)

(* The steps of a call that its process survives.                          *)
LiveStep(t) ==
  \/ Verify(t) \/ Open(t) \/ OpenNoMemory(t) \/ SetTimeout(t) \/ CreateTable(t)
  \/ FetchHandle(t) \/ DeletePrepare(t) \/ DeleteStep(t) \/ InsertPrepare(t)
  \/ InsertStep(t) \/ SelectPrepare(t) \/ SelectStep(t) \/ CloseHandle(t)
  \/ ClearHandle(t) \/ AnswerWrite(t) \/ AnswerRead(t)

LEMMA NextCases ==
  ASSUME Next
  PROVE  \/ \E t \in Threads : Call(t) \/ LiveStep(t)
         \/ \E p \in Processes : Die(p) \/ DrmKernel_init(p)
         \/ Corrupt
<1>1. ASSUME NEW t \in Threads, Step(t)
      PROVE  LiveStep(t) \/ Die(ProcOf[t])
  BY <1>1 DEF Step, LiveStep, RegistrationFault, OpenUninitialised,
     UseOfStaleHandle
<1>2. \A t \in Threads : ProcOf[t] \in Processes
  BY DeploymentAssumption
<1>. QED
  BY <1>1, <1>2 DEF Next, Crash

(* A step of a call changes the variables of its own thread.               *)
LEMMA StepOfOthers ==
  ASSUME TypeOK, NEW t \in Threads, Call(t) \/ LiveStep(t),
         NEW u \in Threads, u # t
  PROVE  /\ pc'[u] = pc[u] /\ op'[u] = op[u] /\ ask'[u] = ask[u]
         /\ rec'[u] = rec[u] /\ db'[u] = db[u] /\ ok'[u] = ok[u]
<1>1. CASE Call(t)
  BY <1>1, CallBegins DEF TypeOK, Begin, Goto
<1>2. CASE LiveStep(t)
  BY <1>2
     DEF TypeOK, LiveStep, Goto, Prepare, OpenFailed, Verify, Open,
         OpenNoMemory, SetTimeout, CreateTable, FetchHandle, DeletePrepare,
         DeleteStep, InsertPrepare, InsertStep, SelectPrepare, SelectStep,
         CloseHandle, ClearHandle, AnswerWrite, AnswerRead
<1>. QED
  BY <1>1, <1>2

(* A call begins with the record that it saves, or with what it looks up.  *)
LEMMA CallOfThread ==
  ASSUME TypeOK, NEW t \in Threads, Call(t)
  PROVE  /\ pc[t] = "idle" /\ op'[t] \in Calls[t] /\ ~ ok'[t] /\ db' = db
         /\ ask'[t] \in Keys \union KeyIds \union {None}
         /\ UNCHANGED <<rows, processVars>>
         /\ \/ /\ op'[t] \in Writes /\ pc'[t] = "verify"
               /\ rec'[t] \in Record /\ ProcOf[t] \in inited
            \/ /\ op'[t] \in Reads /\ pc'[t] = "open"
               /\ rec'[t] = None /\ ask'[t] \in Keys \union KeyIds
<1>1. PICK o, start, k, r : Begin(t, o, start, k, r)
  BY DEF Call, onSaveRights, onRegistration, onCheckRightsStatus,
     onAcquireDrmInfo, DrmKernel_getRightKey
<1>2. op'[t] = o /\ o \in Calls[t]
  BY <1>1 DEF TypeOK, Begin
<1>3. pc[t] = "idle" /\ ~ ok'[t] /\ db' = db /\ UNCHANGED <<rows, processVars>>
  BY <1>1 DEF TypeOK, Begin, Goto
<1>4. CASE \E w \in Writes, s \in Record : Begin(t, w, "verify", None, s)
  <2>1. op'[t] \in Writes /\ pc'[t] = "verify" /\ rec'[t] \in Record
        /\ ask'[t] = None
    BY <1>4 DEF TypeOK, Begin, Goto
  <2>2. ProcOf[t] \in inited
    BY <2>1 DEF TypeOK, Call, onSaveRights, onRegistration, Begin,
       onCheckRightsStatus, onAcquireDrmInfo, DrmKernel_getRightKey, Goto
  <2>. QED
    BY <1>2, <1>3, <2>1, <2>2
<1>5. CASE \E w \in Reads, l \in Keys \union KeyIds : Begin(t, w, "open", l, None)
  <2>1. op'[t] \in Reads /\ pc'[t] = "open" /\ rec'[t] = None
        /\ ask'[t] \in Keys \union KeyIds
    BY <1>5 DEF TypeOK, Begin, Goto
  <2>. QED
    BY <1>2, <1>3, <2>1
<1>. QED
  BY <1>4, <1>5, CallBegins

(* A dead process leaves its table and the other processes.                *)
LEMMA DieOfOthers ==
  ASSUME NEW p \in Processes, Die(p), NEW u \in Threads
  PROVE  \/ /\ ProcOf[u] = p
            /\ pc'[u] = "idle" /\ op'[u] = "none" /\ ask'[u] = None
            /\ rec'[u] = None /\ ~ ok'[u]
         \/ /\ ProcOf[u] # p
            /\ pc'[u] = pc[u] /\ op'[u] = op[u] /\ ask'[u] = ask[u]
            /\ rec'[u] = rec[u] /\ db'[u] = db[u] /\ ok'[u] = ok[u]
BY DEF Die

(* A thread does what it is deployed for.                                  *)
LEMMA CallsAsDeployedInductive ==
  TypeInv /\ CallsAsDeployed /\ [Next]_vars => CallsAsDeployed'
<1>. SUFFICES ASSUME TypeInv, CallsAsDeployed, [Next]_vars, NEW u \in Threads
              PROVE  op'[u] # "none" => op'[u] \in Calls[u]
  BY DEF CallsAsDeployed
<1>. TypeOK
  BY DEF TypeInv
<1>1. ASSUME NEW t \in Threads, Call(t) PROVE op'[u] \in Calls[u] \/ op'[u] = op[u]
  BY <1>1, CallOfThread, StepOfOthers
<1>2. ASSUME NEW t \in Threads, LiveStep(t) PROVE op' = op
  BY <1>2 DEF LiveStep, Verify, Open, OpenNoMemory, SetTimeout, CreateTable,
     FetchHandle, DeletePrepare, DeleteStep, InsertPrepare, InsertStep,
     SelectPrepare, SelectStep, CloseHandle, ClearHandle, AnswerWrite,
     AnswerRead
<1>3. ASSUME NEW p \in Processes, Die(p) \/ DrmKernel_init(p)
      PROVE  op'[u] = "none" \/ op'[u] = op[u]
  BY <1>3, DieOfOthers DEF DrmKernel_init, threadVars
<1>4. CASE Corrupt \/ UNCHANGED vars
  BY <1>4 DEF Corrupt, CallsAsDeployed, vars, threadVars
<1>. QED
  BY <1>1, <1>2, <1>3, <1>4, NextCases DEF CallsAsDeployed

(* Only one thread is ever in a save.                                      *)
LEMMA OneSave ==
  ASSUME SingleWriter, CallsAsDeployed, NEW t \in Threads, NEW u \in Threads,
         op[t] \in Writes, op[u] \in Writes
  PROVE  t = u
BY DEF SingleWriter, CallsAsDeployed, Writes

LEMMA StepAcked ==
  ASSUME SingleWriter, "insert.step" \notin Faults, TypeInv, CallsAsDeployed,
         AckedInv, NEW t \in Threads, LiveStep(t),
         NEW u \in Threads, op'[u] \in Writes, ok'[u]
  PROVE  /\ pc'[u] \in Settling \union {"idle"}
         /\ \E row \in rows' : row.rec = rec'[u]
<1>. TypeOK /\ RecordAtHand(t) /\ RecordAtHand(u)
  BY DEF TypeInv
<1>. Writes \intersect Reads = {}
  BY DEF Writes, Reads
<1>0. op' = op
  BY DEF LiveStep, Verify, Open, OpenNoMemory, SetTimeout, CreateTable,
     FetchHandle, DeletePrepare, DeleteStep, InsertPrepare, InsertStep,
     SelectPrepare, SelectStep, CloseHandle, ClearHandle, AnswerWrite,
     AnswerRead
<1>1. CASE InsertStep(t)
  <2>1. op[t] \in Writes
    BY <1>1 DEF RecordAtHand, InsertStep, Goto
  <2>2. u = t
    BY <1>0, <2>1, OneSave
  <2>3. PICK id : rows' = rows \union {[id |-> id, rec |-> rec[t]]}
    BY <1>1 DEF InsertStep
  <2>4. \E row \in rows' : row.rec = rec[t]
    <3>. DEFINE new == [id |-> id, rec |-> rec[t]]
    <3>1. new \in rows' /\ new.rec = rec[t]
      BY <2>3
    <3>. QED
      BY <3>1, Zenon
  <2>. QED
    BY <1>1, <2>2, <2>4 DEF TypeOK, InsertStep, Goto, Settling
<1>2. CASE DeleteStep(t)
  <2>1. op[t] \in Writes /\ pc[t] = "del_step"
    BY <1>2 DEF RecordAtHand, DeleteStep, Goto
  <2>2. u = t /\ ok[t]
    BY <1>0, <1>2, <2>1, OneSave DEF DeleteStep
  <2>. QED
    BY <2>1, <2>2 DEF AckedInv, Settling
<1>3. CASE ~ InsertStep(t) /\ ~ DeleteStep(t)
  <2>1. rows' = rows
    BY <1>3 DEF LiveStep, Verify, Open, OpenNoMemory, SetTimeout, CreateTable,
       FetchHandle, DeletePrepare, InsertPrepare, SelectPrepare, SelectStep,
       CloseHandle, ClearHandle, AnswerWrite, AnswerRead
  <2>2. CASE u # t
    BY <2>1, <2>2, StepOfOthers DEF AckedInv
  <2>3. CASE u = t
    <3>1. rec'[t] = rec[t]
      BY <1>0, <1>3, <2>3
         DEF LiveStep, RecordAtHand, Goto, Verify, Open, OpenNoMemory,
             SetTimeout, CreateTable, FetchHandle, DeletePrepare,
             InsertPrepare, SelectPrepare, SelectStep, CloseHandle,
             ClearHandle, AnswerWrite, AnswerRead
    <3>2. ok[t]
      BY <1>0, <1>3, <2>3
         DEF LiveStep, RecordAtHand, Goto, Verify, Open, OpenNoMemory,
             SetTimeout, CreateTable, FetchHandle, DeletePrepare,
             InsertPrepare, SelectPrepare, SelectStep, CloseHandle,
             ClearHandle, AnswerWrite, AnswerRead
    <3>3. pc[t] \in Settling \union {"idle"}
      BY <1>0, <2>3, <3>2 DEF AckedInv
    <3>4. pc'[t] \in Settling \union {"idle"}
      BY <1>3, <3>3
         DEF Settling, TypeOK, LiveStep, Goto, Prepare, OpenFailed, Verify,
             Open, OpenNoMemory, SetTimeout, CreateTable, FetchHandle,
             DeletePrepare, InsertPrepare, SelectPrepare, SelectStep,
             CloseHandle, ClearHandle, AnswerWrite, AnswerRead
    <3>. QED
      BY <1>0, <2>1, <2>3, <3>1, <3>2, <3>4 DEF AckedInv
  <2>. QED
    BY <2>2, <2>3
<1>. QED
  BY <1>1, <1>2, <1>3

(* THEOREM: a save that answered success has its record in the table until *)
(* its thread calls again, with one writer, on a storage that loses        *)
(* nothing and whose failing INSERT is not reported as a success.          *)
THEOREM AcknowledgedSavesAreStored ==
  ASSUME SingleWriter, Damaged = {}, "insert.step" \notin Faults
  PROVE  Spec => []AckedIsStored
<1>1. Init => CallsAsDeployed /\ AckedInv
  BY DEF Init, CallsAsDeployed, AckedInv
<1>2. TypeInv /\ CallsAsDeployed /\ AckedInv /\ [Next]_vars => AckedInv'
  <2>. SUFFICES ASSUME TypeInv, CallsAsDeployed, AckedInv, [Next]_vars,
                       NEW u \in Threads, op'[u] \in Writes, ok'[u]
                PROVE  /\ pc'[u] \in Settling \union {"idle"}
                       /\ \E row \in rows' : row.rec = rec'[u]
    BY DEF AckedInv
  <2>. TypeOK
    BY DEF TypeInv
  <2>1. ASSUME NEW t \in Threads, Call(t)
        PROVE  u # t /\ rows' = rows
    BY <2>1, CallOfThread
  <2>2. ASSUME NEW p \in Processes, Die(p)
        PROVE  ProcOf[u] # p /\ rows' = rows
    BY <2>2, DieOfOthers DEF Die, Writes
  <2>3. CASE UNCHANGED <<rows, threadVars>>
    BY <2>3 DEF AckedInv, threadVars
  <2>4. CASE Corrupt
    BY <2>4 DEF Corrupt
  <2>. QED
    BY <2>1, <2>2, <2>3, <2>4, StepAcked, StepOfOthers, DieOfOthers, NextCases
       DEF AckedInv, DrmKernel_init, vars
<1>3. AckedInv => AckedIsStored
  BY DEF AckedInv, AckedIsStored
<1>. QED
  BY <1>1, <1>2, <1>3, CallsAsDeployedInductive, TypeCorrect, PTL DEF Spec
-----------------------------------------------------------------------------
(* A step of a thread leaves the connections of the other processes.       *)
LEMMA StepOfOtherProcesses ==
  ASSUME TypeOK, NEW t \in Threads, Call(t) \/ LiveStep(t),
         NEW q \in Processes, q # ProcOf[t]
  PROVE  /\ conn'[q] = conn[q] /\ live'[q] = live[q] /\ stuck'[q] = stuck[q]
         /\ leaked'[q] = leaked[q] /\ abandoned'[q] = abandoned[q]
<1>1. CASE Call(t)
  BY <1>1, CallOfThread DEF processVars, histories
<1>2. CASE LiveStep(t)
  BY <1>2, DeploymentAssumption
     DEF TypeOK, LiveStep, Prepare, OpenFailed, Verify, Open, OpenNoMemory,
         SetTimeout, CreateTable, FetchHandle, DeletePrepare, DeleteStep,
         InsertPrepare, InsertStep, SelectPrepare, SelectStep, CloseHandle,
         ClearHandle, AnswerWrite, AnswerRead, processVars, histories
<1>. QED
  BY <1>1, <1>2

LEMMA StepKeepsInited ==
  ASSUME TypeOK, NEW t \in Threads, Call(t) \/ LiveStep(t)
  PROVE  inited' = inited
<1>1. CASE Call(t)
  BY <1>1, CallOfThread DEF processVars, histories
<1>2. CASE LiveStep(t)
  BY <1>2
     DEF LiveStep, Prepare, Verify, Open, OpenNoMemory, SetTimeout,
         CreateTable, FetchHandle, DeletePrepare, DeleteStep, InsertPrepare,
         InsertStep, SelectPrepare, SelectStep, CloseHandle, ClearHandle,
         AnswerWrite, AnswerRead, processVars, histories
<1>. QED
  BY <1>1, <1>2

(* A thread opens before it uses, and closes after.                        *)
LEMMA StepUsable ==
  ASSUME TypeInv, UsableInv, NEW t \in Threads, LiveStep(t)
  PROVE  ConnectionUsable(t)'
<1>. TypeOK /\ ConnectionUsable(t) /\ ProcOf[t] \in Processes /\ inited' = inited
  BY StepKeepsInited, DeploymentAssumption DEF TypeInv, UsableInv
<1>. USE DEF Statements, InStmt
<1>1. CASE Verify(t)
  BY <1>1 DEF TypeOK, ConnectionUsable, Verify, Goto
<1>2. CASE Open(t)
  BY <1>2 DEF TypeOK, ConnectionUsable, Open, OpenFailed, Goto
<1>3. CASE OpenNoMemory(t)
  BY <1>3 DEF TypeOK, ConnectionUsable, OpenNoMemory, OpenFailed, Goto
<1>4. CASE SetTimeout(t) \/ CreateTable(t)
  BY <1>4
     DEF TypeOK, ConnectionUsable, SetTimeout, CreateTable, OpenFailed, Goto,
         processVars, histories
<1>5. CASE FetchHandle(t)
  BY <1>5
     DEF TypeOK, ConnectionUsable, FetchHandle, Goto, processVars, histories
<1>6. CASE DeletePrepare(t) \/ InsertPrepare(t) \/ SelectPrepare(t)
  BY <1>6 DEF TypeOK, ConnectionUsable, DeletePrepare, InsertPrepare,
     SelectPrepare, Prepare, Goto
<1>7. CASE DeleteStep(t) \/ InsertStep(t) \/ SelectStep(t)
  BY <1>7 DEF TypeOK, ConnectionUsable, DeleteStep, InsertStep, SelectStep,
     Goto, processVars, histories
<1>8. CASE CloseHandle(t) \/ ClearHandle(t)
  BY <1>8 DEF TypeOK, ConnectionUsable, CloseHandle, ClearHandle, Goto
<1>9. CASE AnswerWrite(t) \/ AnswerRead(t)
  BY <1>9 DEF TypeOK, ConnectionUsable, AnswerWrite, AnswerRead, Goto,
     processVars, histories
<1>. QED
  BY <1>1, <1>2, <1>3, <1>4, <1>5, <1>6, <1>7, <1>8, <1>9 DEF LiveStep

LEMMA UsableInvInductive ==
  ASSUME OneThreadEach
  PROVE  TypeInv /\ UsableInv /\ [Next]_vars => UsableInv'
<1>. SUFFICES ASSUME TypeInv, UsableInv, [Next]_vars, NEW u \in Threads
              PROVE  ConnectionUsable(u)'
  BY DEF UsableInv
<1>. TypeOK /\ ConnectionUsable(u) /\ ProcOf[u] \in Processes
  BY DeploymentAssumption DEF TypeInv, UsableInv
<1>1. ASSUME NEW t \in Threads, Call(t) \/ LiveStep(t), u # t
      PROVE  ConnectionUsable(u)'
  <2>1. ProcOf[u] # ProcOf[t]
    BY <1>1 DEF OneThreadEach
  <2>. QED
    BY <1>1, <2>1, StepOfOthers, StepOfOtherProcesses, StepKeepsInited
       DEF ConnectionUsable
<1>2. ASSUME Call(u)
      PROVE  ConnectionUsable(u)'
  BY <1>2, CallOfThread
     DEF ConnectionUsable, processVars, histories, Statements, InStmt
<1>3. ASSUME NEW p \in Processes, Die(p)
      PROVE  ConnectionUsable(u)'
  <2>1. CASE ProcOf[u] = p
    BY <1>3, <2>1, DieOfOthers DEF ConnectionUsable, Statements, InStmt
  <2>2. CASE ProcOf[u] # p
    BY <1>3, <2>2, DieOfOthers DEF ConnectionUsable, Die, TypeOK
  <2>. QED
    BY <2>1, <2>2
<1>4. ASSUME NEW p \in Processes, DrmKernel_init(p)
      PROVE  ConnectionUsable(u)'
  BY <1>4 DEF ConnectionUsable, DrmKernel_init, TypeOK, threadVars, Statements,
     InStmt
<1>5. CASE Corrupt \/ UNCHANGED vars
  BY <1>5
     DEF ConnectionUsable, Corrupt, vars, processVars, histories, threadVars
<1>. QED
  BY <1>1, <1>2, <1>3, <1>4, <1>5, StepUsable, NextCases

-----------------------------------------------------------------------------
(* A step of a save that changes the table is its delete or its insert.    *)
LEMMA StepOneRow ==
  ASSUME SingleWriter, DeletesSucceed, TypeInv, CallsAsDeployed, UsableInv,
         OneRowInv, NEW t \in Threads, LiveStep(t)
  PROVE  OneRowInv'
<1>. TypeOK /\ RecordAtHand(t) /\ ConnectionUsable(t)
  BY DEF TypeInv, UsableInv
<1>0. ASSUME NEW u \in Threads, u # t, pc'[u] \in {"insert", "ins_step"}
      PROVE  /\ op[u] \in Writes /\ op[t] \notin Writes
             /\ Replaced(u) = {} /\ rec'[u] = rec[u]
  <2>1. pc'[u] = pc[u] /\ rec'[u] = rec[u]
    BY <1>0, StepOfOthers
  <2>2. op[u] \in Writes
    BY <1>0, <2>1 DEF TypeInv, RecordAtHand
  <2>. QED
    BY <1>0, <2>1, <2>2, OneSave DEF OneRowInv
<1>1. CASE InsertStep(t)
  <2>1. op[t] \in Writes /\ Replaced(t) = {} /\ pc'[t] = "close"
    BY <1>1 DEF RecordAtHand, InsertStep, Goto, OneRowInv, TypeOK
  <2>2. PICK id : rows' = rows \/ rows' = rows \union {[id |-> id, rec |-> rec[t]]}
    BY <1>1 DEF InsertStep
  <2>3. OneRowPerKey'
    BY <2>1, <2>2 DEF OneRowInv, OneRowPerKey, Replaced
  <2>. QED
    BY <1>0, <2>1, <2>3 DEF OneRowInv
<1>2. CASE DeleteStep(t)
  <2>1. op[t] \in Writes /\ rec' = rec
    BY <1>2 DEF RecordAtHand, DeleteStep, Goto
  <2>2. rows' \subseteq rows
    BY <1>2 DEF DeleteStep
  <2>3. pc'[t] \in {"insert", "ins_step"} => Replaced(t)' = {}
    BY <1>2, <2>1 DEF DeleteStep, Replaced, DeletesSucceed, Goto, TypeOK
  <2>. QED
    BY <1>0, <2>1, <2>2, <2>3 DEF OneRowInv, OneRowPerKey
<1>3. CASE ~ InsertStep(t) /\ ~ DeleteStep(t)
  <2>1. rows' = rows
    BY <1>3 DEF LiveStep, Verify, Open, OpenNoMemory, SetTimeout, CreateTable,
       FetchHandle, DeletePrepare, InsertPrepare, SelectPrepare, SelectStep,
       CloseHandle, ClearHandle, AnswerWrite, AnswerRead
  <2>2. ASSUME pc'[t] \in {"insert", "ins_step"}
        PROVE  pc[t] = "insert" /\ rec' = rec
    <3>1. CASE DeletePrepare(t)
      BY <2>2, <3>1 DEF TypeOK, DeletePrepare, Prepare, Goto, DeletesSucceed,
         ConnectionUsable, Statements
    <3>2. CASE InsertPrepare(t)
      BY <3>2 DEF InsertPrepare, Prepare, Goto
    <3>. QED
      BY <1>3, <2>2, <3>1, <3>2
         DEF TypeOK, LiveStep, Goto, Prepare, OpenFailed, Verify, Open,
             OpenNoMemory, SetTimeout, CreateTable, FetchHandle, SelectPrepare,
             SelectStep, CloseHandle, ClearHandle, AnswerWrite, AnswerRead
  <2>. QED
    BY <1>0, <2>1, <2>2 DEF OneRowInv, OneRowPerKey, Replaced
<1>. QED
  BY <1>1, <1>2, <1>3

LEMMA OneRowInvInductive ==
  ASSUME SingleWriter, Damaged = {}, DeletesSucceed
  PROVE  TypeInv /\ CallsAsDeployed /\ UsableInv /\ OneRowInv /\ [Next]_vars
           => OneRowInv'
<1>. SUFFICES ASSUME TypeInv, CallsAsDeployed, UsableInv, OneRowInv, [Next]_vars
              PROVE  OneRowInv'
  OBVIOUS
<1>. TypeOK
  BY DEF TypeInv
<1>1. ASSUME NEW t \in Threads, Call(t)
      PROVE  OneRowInv'
  <2>1. rows' = rows /\ pc'[t] \notin {"insert", "ins_step"}
    BY <1>1, CallOfThread
  <2>. QED
    BY <1>1, <2>1, StepOfOthers DEF OneRowInv, OneRowPerKey, Replaced
<1>2. ASSUME NEW p \in Processes, Die(p)
      PROVE  OneRowInv'
  <2>1. rows' = rows
    BY <1>2 DEF Die
  <2>. QED
    BY <1>2, <2>1, DieOfOthers DEF OneRowInv, OneRowPerKey, Replaced
<1>3. CASE UNCHANGED <<rows, threadVars>>
  BY <1>3 DEF OneRowInv, OneRowPerKey, Replaced, threadVars
<1>4. CASE Corrupt
  BY <1>4 DEF Corrupt
<1>. QED
  BY <1>1, <1>2, <1>3, <1>4, StepOneRow, NextCases DEF DrmKernel_init, vars

(* The invariants of one writer hold together.                             *)
LEMMA SingleWriterInvariants ==
  ASSUME OneThreadEach, SingleWriter, Damaged = {}, DeletesSucceed
  PROVE  Spec => [](TypeInv /\ CallsAsDeployed /\ UsableInv /\ OneRowInv)
<1>1. Init => CallsAsDeployed /\ UsableInv /\ OneRowInv
  BY DEF Init, CallsAsDeployed, UsableInv, ConnectionUsable, OneRowInv,
     OneRowPerKey, Statements, InStmt
<1>. QED
  BY <1>1, TypeCorrect, CallsAsDeployedInductive, UsableInvInductive,
     OneRowInvInductive, PTL DEF Spec

(* THEOREM: "If the record already exists it is deleted and replaced": at  *)
(* most one row for a key at any moment, crashes and all the failures of   *)
(* opening, inserting and reading included, when one thread writes and no  *)
(* other thread of its process is on the connection.                       *)
THEOREM KeysStayUnique ==
  ASSUME OneThreadEach, SingleWriter, Damaged = {}, DeletesSucceed
  PROVE  Spec => []OneRowPerKey
<1>1. OneRowInv => OneRowPerKey
  BY DEF OneRowInv
<1>. QED
  BY <1>1, SingleWriterInvariants, PTL
-----------------------------------------------------------------------------
(* A record that a read has loaded is authentic as long as the storage has *)
(* damaged nothing.                                                        *)
LEMMA LoadedIsAccepted ==
  ASSUME ~ damaged \/ Damaged = {}, AuthenticityInv, NEW t \in Threads,
         op[t] \in Reads, rec[t] # None
  PROVE  Accepted(t)
BY DEF AuthenticityInv, LoadedFromTable, Issued, Accepted, Tainted

(* THEOREM: in every deployment and whatever fails or dies, the fields of  *)
(* a loaded record are only lost once the storage has damaged a row.       *)
THEOREM RecordsAreFreed == Spec => []RecordsFreed
<1>1. Init => RecordsFreed
  BY DEF Init, RecordsFreed
<1>2. TypeInv /\ AuthenticityInv /\ RecordsFreed /\ [Next]_vars => RecordsFreed'
  <2>. SUFFICES ASSUME TypeInv, AuthenticityInv, RecordsFreed, [Next]_vars,
                       NEW p \in Processes, leaked'[p] > 0
                PROVE  damaged'
    BY DEF RecordsFreed
  <2>. TypeOK
    BY DEF TypeInv
  <2>1. ASSUME NEW t \in Threads, AnswerRead(t)
        PROVE  damaged'
    <3>1. damaged' = damaged
      BY <2>1 DEF AnswerRead, histories
    <3>2. CASE leaked' = leaked
      BY <3>1, <3>2 DEF RecordsFreed
    <3>3. CASE op[t] \in Reads /\ rec[t] # None /\ ~ Accepted(t)
      BY <3>1, <3>3, LoadedIsAccepted DEF TypeOK
    <3>. QED
      BY <2>1, <3>2, <3>3 DEF AnswerRead
  <2>2. ASSUME NEW t \in Threads, LiveStep(t), ~ AnswerRead(t)
        PROVE  leaked' = leaked /\ damaged' = damaged
    BY <2>2 DEF LiveStep, Verify, Open, OpenNoMemory, SetTimeout, CreateTable,
       OpenFailed, FetchHandle, DeletePrepare, DeleteStep, InsertPrepare,
       InsertStep, SelectPrepare, SelectStep, Prepare, CloseHandle,
       ClearHandle, AnswerWrite, processVars, histories
  <2>3. ASSUME NEW q \in Processes, Die(q)
        PROVE  leaked'[p] \in {0, leaked[p]} /\ damaged' = damaged
    BY <2>3 DEF Die, TypeOK
  <2>4. CASE UNCHANGED <<leaked, damaged>>
    BY <2>4 DEF RecordsFreed
  <2>5. CASE Corrupt
    BY <2>5 DEF Corrupt
  <2>. QED
    BY <2>1, <2>2, <2>3, <2>4, <2>5, NextCases, CallOfThread
       DEF RecordsFreed, DrmKernel_init, histories, processVars, vars
<1>. QED
  BY <1>1, <1>2, Authenticity, PTL DEF Spec

-----------------------------------------------------------------------------
(* A thread holds its connection from its open to its close.               *)
LEMMA StepHeld ==
  ASSUME OneThreadEach, TypeInv, HeldInv, NEW t \in Threads, LiveStep(t)
  PROVE  /\ HeldByCall(t)'
         /\ ClosesSucceed => Left(ProcOf[t])' = {}
<1>. DEFINE p == ProcOf[t]
<1>. /\ TypeOK /\ RecordAtHand(t) /\ HeldByCall(t) /\ p \in Processes
     /\ ClosesSucceed => Left(p) = {}
     /\ Writes \intersect Reads = {}
  BY DeploymentAssumption DEF TypeInv, HeldInv, Writes, Reads
<1>. USE DEF Statements, InStmt, Closed, Holding, Left
<1>1. CASE Verify(t)
  BY <1>1 DEF TypeOK, HeldByCall, Verify, Goto, processVars, histories
<1>2. CASE Open(t)
  <2>1. PICK h \in Handles \ live[p] :
          /\ conn' = [conn EXCEPT ![p] = h]
          /\ live' = [live EXCEPT ![p] = @ \union {h}]
          /\ \/ Goto(t, "open", "timeout") /\ UNCHANGED histories
             \/ "open" \in Faults /\ OpenFailed(t, "open", h)
    BY <1>2 DEF Open
  <2>2. /\ h # None /\ conn'[p] = h /\ live'[p] = live[p] \union {h}
        /\ pc[t] = "open" /\ live[p] = Left(p) /\ stuck' = stuck
    BY <1>2, <2>1, DeploymentAssumption
       DEF Open, HeldByCall, TypeOK, Goto, OpenFailed
  <2>3. CASE Goto(t, "open", "timeout") /\ UNCHANGED histories
    BY <2>2, <2>3 DEF HeldByCall, TypeOK, Goto, histories
  <2>4. CASE OpenFailed(t, "open", h) /\ op[t] \in Writes /\ "open" \in Faults
    <3>1. pc'[t] = "answer" /\ abandoned'[p] = abandoned[p] \union {h}
      BY <2>2, <2>4 DEF OpenFailed, Goto, TypeOK
    <3>. QED
      BY <2>2, <2>4, <3>1 DEF HeldByCall, ClosesSucceed
  <2>5. CASE OpenFailed(t, "open", h) /\ op[t] \in Reads
    <3>1. pc'[t] = "close" /\ abandoned' = abandoned
      BY <2>5 DEF OpenFailed, Goto, TypeOK, histories
    <3>. QED
      BY <2>2, <3>1 DEF HeldByCall
  <2>. QED
    BY <2>1, <2>3, <2>4, <2>5 DEF OpenFailed
<1>3. CASE OpenNoMemory(t)
  <2>1. /\ pc[t] = "open" /\ conn'[p] = None /\ pc'[t] \in {"answer", "close"}
        /\ UNCHANGED <<live, stuck>>
    BY <1>3 DEF TypeOK, OpenNoMemory, OpenFailed, Goto
  <2>2. abandoned'[p] = abandoned[p]
    <3>1. \/ abandoned' = abandoned
          \/ abandoned' = [abandoned EXCEPT ![p] = @ \union ({None} \ {None})]
      BY <1>3 DEF OpenNoMemory, OpenFailed, histories
    <3>2. abandoned[p] \union ({None} \ {None}) = abandoned[p]
      OBVIOUS
    <3>. QED
      BY <3>1, <3>2 DEF TypeOK
  <2>. QED
    BY <2>1, <2>2 DEF HeldByCall
<1>4. CASE SetTimeout(t)
  BY <1>4 DEF TypeOK, HeldByCall, SetTimeout, Goto, processVars, histories
<1>5. CASE CreateTable(t)
  <2>1. /\ pc[t] = "create" /\ UNCHANGED <<conn, live, stuck>>
        /\ Holding(p) /\ conn[p] \in live[p] /\ conn[p] # None
    BY <1>5 DEF CreateTable, Goto, OpenFailed, HeldByCall
  <2>2. CASE pc'[t] = "fetch" /\ UNCHANGED histories
    BY <2>1, <2>2 DEF HeldByCall, histories
  <2>3. CASE /\ "create" \in Faults /\ OpenFailed(t, "create", conn[p])
             /\ op[t] \in Writes
    <3>1. pc'[t] = "answer" /\ abandoned'[p] = abandoned[p] \union {conn[p]}
      BY <2>1, <2>3 DEF OpenFailed, Goto, TypeOK
    <3>. QED
      BY <2>1, <2>3, <3>1 DEF HeldByCall, ClosesSucceed
  <2>4. CASE OpenFailed(t, "create", conn[p]) /\ op[t] \in Reads
    <3>1. pc'[t] = "close" /\ abandoned' = abandoned
      BY <2>4 DEF OpenFailed, Goto, TypeOK, histories
    <3>. QED
      BY <2>1, <3>1 DEF HeldByCall
  <2>. QED
    BY <1>5, <2>1, <2>2, <2>3, <2>4 DEF CreateTable, OpenFailed, Goto, TypeOK
<1>6. CASE FetchHandle(t)
  BY <1>6 DEF TypeOK, HeldByCall, FetchHandle, Goto, processVars, histories
<1>7. CASE DeletePrepare(t) \/ InsertPrepare(t) \/ SelectPrepare(t)
  <2>1. /\ pc[t] \in Statements
        /\ pc'[t] \in Statements \union {"close"}
        /\ UNCHANGED <<conn, live, db, abandoned>>
    BY <1>7 DEF TypeOK, DeletePrepare, InsertPrepare, SelectPrepare, Prepare,
       Goto, histories
  <2>2. \/ stuck' = stuck
        \/ stuck'[p] = stuck[p] \union {conn[p]} /\ ~ ClosesSucceed
    BY <1>7, <2>1 DEF TypeOK, HeldByCall, DeletePrepare, InsertPrepare,
       SelectPrepare, Prepare, ClosesSucceed
  <2>. QED
    BY <2>1, <2>2 DEF HeldByCall
<1>8. CASE DeleteStep(t) \/ InsertStep(t) \/ SelectStep(t)
  BY <1>8 DEF TypeOK, HeldByCall, DeleteStep, InsertStep, SelectStep,
     Goto, processVars, histories
<1>9. CASE CloseHandle(t)
  <2>1. Prepared(p, conn[p]) = {}
    BY <1>9 DEF Prepared, OneThreadEach, CloseHandle, Goto
  <2>2. pc[t] = "close" /\ UNCHANGED <<conn, stuck, abandoned, db>>
    BY <1>9 DEF CloseHandle, Goto, histories
  <2>3. \/ /\ conn[p] \in live[p] \ stuck[p]
           /\ live'[p] = live[p] \ {conn[p]} /\ pc'[t] = "clear"
        \/ /\ conn[p] \notin live[p] \/ conn[p] \in stuck[p]
           /\ live' = live /\ pc'[t] = "answer"
    BY <1>9, <2>1 DEF CloseHandle, Goto, TypeOK
  <2>4. conn[p] # None => conn[p] \in live[p] /\ conn[p] \notin abandoned[p]
    BY <2>2 DEF HeldByCall
  <2>5. None \notin live[p]
    BY DeploymentAssumption DEF TypeOK
  <2>. QED
    BY <2>2, <2>3, <2>4, <2>5 DEF HeldByCall
<1>10. CASE ClearHandle(t)
  BY <1>10 DEF TypeOK, HeldByCall, ClearHandle, Goto, histories
<1>11. CASE AnswerWrite(t) \/ AnswerRead(t)
  BY <1>11 DEF TypeOK, HeldByCall, AnswerWrite, AnswerRead, Goto, processVars,
     histories
<1>. QED
  BY <1>1, <1>2, <1>3, <1>4, <1>5, <1>6, <1>7, <1>8, <1>9, <1>10, <1>11
     DEF LiveStep

LEMMA HeldInvInductive ==
  ASSUME OneThreadEach
  PROVE  TypeInv /\ UsableInv /\ HeldInv /\ [Next]_vars => HeldInv'
<1>. SUFFICES ASSUME TypeInv, UsableInv, HeldInv, [Next]_vars
              PROVE  HeldInv'
  OBVIOUS
<1>. TypeOK /\ ProcOf \in [Threads -> Processes]
  BY DeploymentAssumption DEF TypeInv
<1>. DEFINE LeftRight(q) ==
              /\ (\A u \in Threads : ProcOf[u] # q) => Closed(q)
              /\ ClosesSucceed => Left(q) = {}
<1>. HeldInv' <=> /\ \A u \in Threads : HeldByCall(u)'
                  /\ \A q \in Processes : LeftRight(q)'
  BY DEF HeldInv, ClosesSucceed
<1>1. ASSUME NEW t \in Threads, Call(t) \/ LiveStep(t)
      PROVE  HeldInv'
  <2>1. ASSUME NEW u \in Threads, u # t
        PROVE  HeldByCall(u)'
    <3>1. ProcOf[u] # ProcOf[t]
      BY <2>1 DEF OneThreadEach
    <3>. QED
      BY <1>1, <2>1, <3>1, StepOfOthers, StepOfOtherProcesses
         DEF HeldInv, HeldByCall, Closed, Holding, Left
  <2>2. HeldByCall(t)' /\ (ClosesSucceed => Left(ProcOf[t])' = {})
    <3>1. CASE Call(t)
      BY <3>1, CallOfThread
         DEF HeldInv, HeldByCall, Closed, Holding, Left, processVars,
             histories, Statements, InStmt
    <3>. QED
      BY <1>1, <3>1, StepHeld
  <2>3. ASSUME NEW q \in Processes
        PROVE  LeftRight(q)'
    <3>1. CASE q = ProcOf[t]
      BY <2>2, <3>1 DEF ClosesSucceed
    <3>2. CASE q # ProcOf[t]
      BY <1>1, <3>2, StepOfOtherProcesses
         DEF HeldInv, Closed, Left, ClosesSucceed
    <3>. QED
      BY <3>1, <3>2
  <2>. QED
    BY <2>1, <2>2, <2>3
<1>2. ASSUME NEW p \in Processes, Die(p)
      PROVE  HeldInv'
  <2>1. ASSUME NEW u \in Threads
        PROVE  HeldByCall(u)'
    <3>1. CASE ProcOf[u] = p
      BY <1>2, <3>1, DieOfOthers
         DEF HeldByCall, Closed, Left, Die, TypeOK, Statements, InStmt
    <3>2. CASE ProcOf[u] # p
      BY <1>2, <3>2, DieOfOthers
         DEF HeldInv, HeldByCall, Closed, Holding, Left, Die, TypeOK
    <3>. QED
      BY <3>1, <3>2
  <2>2. ASSUME NEW q \in Processes
        PROVE  LeftRight(q)'
    BY <1>2 DEF HeldInv, Closed, Left, Die, TypeOK, ClosesSucceed
  <2>. QED
    BY <2>1, <2>2
<1>3. ASSUME NEW p \in Processes, DrmKernel_init(p)
      PROVE  HeldInv'
  <2>0. /\ conn' = [conn EXCEPT ![p] = None] /\ p \notin inited
        /\ UNCHANGED <<live, stuck, abandoned, threadVars>>
    BY <1>3 DEF DrmKernel_init, histories
  <2>1. ASSUME NEW u \in Threads
        PROVE  HeldByCall(u)'
    <3>1. CASE ProcOf[u] = p
      BY <2>0, <3>1 DEF HeldInv, HeldByCall, Closed, Left, TypeOK,
         threadVars, UsableInv, ConnectionUsable, Statements, InStmt
    <3>2. CASE ProcOf[u] # p
      BY <2>0, <3>2 DEF HeldInv, HeldByCall, Closed, Holding, Left, TypeOK,
         threadVars
    <3>. QED
      BY <3>1, <3>2
  <2>2. ASSUME NEW q \in Processes
        PROVE  LeftRight(q)'
    BY <2>0 DEF HeldInv, Closed, Left, TypeOK, ClosesSucceed
  <2>. QED
    BY <2>1, <2>2
<1>4. CASE UNCHANGED <<conn, live, stuck, abandoned, threadVars>>
  BY <1>4
     DEF HeldInv, HeldByCall, Closed, Holding, Left, threadVars, ClosesSucceed
<1>. QED
  BY <1>1, <1>2, <1>3, <1>4, NextCases
     DEF Corrupt, vars, processVars, histories

LEMMA HeldInvariant ==
  ASSUME OneThreadEach
  PROVE  Spec => [](TypeInv /\ HeldInv)
<1>1. Init => UsableInv /\ HeldInv
  BY DeploymentAssumption
     DEF Init, UsableInv, ConnectionUsable, HeldInv, HeldByCall, Closed, Left,
         Statements, InStmt
<1>. QED
  BY <1>1, Authenticity, UsableInvInductive, HeldInvInductive, PTL DEF Spec

(* THEOREM: a process at rest holds the connections that a failed open of  *)
(* a save or a failed bind has left, and no other: for every set of        *)
(* failing calls, of damage and of deaths, when one thread at a time is on *)
(* the connection of a process.                                            *)
THEOREM ConnectionsAreClosed ==
  ASSUME OneThreadEach
  PROVE  Spec => []ConnectionsClosed
<1>1. TypeInv /\ HeldInv => ConnectionsClosed
  <2>. SUFFICES ASSUME TypeInv, HeldInv, NEW p \in Processes, AtRest(p)
                PROVE  Closed(p)
    BY DEF ConnectionsClosed, Closed, Left
  <2>. QED
    BY DEF HeldInv, HeldByCall, AtRest
<1>. QED
  BY <1>1, HeldInvariant, PTL
-----------------------------------------------------------------------------
(* REFINEMENT.  The mapping of each step to one of RightsStore.            *)

(* Before its last statement a call has loaded and achieved nothing.       *)
LEMMA NothingYetInductive ==
  TypeInv /\ NothingYet /\ [Next]_vars => NothingYet'
<1>. SUFFICES ASSUME TypeInv, NothingYet, [Next]_vars, NEW u \in Threads,
                     pc'[u] \notin Settling \union {"idle"}
              PROVE  ~ ok'[u] /\ (op'[u] \in Reads => rec'[u] = None)
  BY DEF NothingYet
<1>. TypeOK /\ RecordAtHand(u)
  BY DEF TypeInv
<1>1. ASSUME Call(u)
      PROVE  ~ ok'[u] /\ (op'[u] \in Reads => rec'[u] = None)
  BY <1>1, CallOfThread DEF Writes, Reads
<1>2. ASSUME LiveStep(u)
      PROVE  ~ ok'[u] /\ (op'[u] \in Reads => rec'[u] = None)
  <2>1. /\ pc[u] \notin Settling \union {"idle"}
        /\ op'[u] = op[u] /\ rec'[u] = rec[u] /\ ok'[u] = ok[u]
    BY <1>2
       DEF TypeOK, LiveStep, Goto, Prepare, OpenFailed, Verify, Open,
           OpenNoMemory, SetTimeout, CreateTable, FetchHandle, DeletePrepare,
           DeleteStep, InsertPrepare, InsertStep, SelectPrepare, SelectStep,
           CloseHandle, ClearHandle, AnswerWrite, AnswerRead, Settling
  <2>. QED
    BY <2>1 DEF NothingYet
<1>3. ASSUME NEW t \in Threads, Call(t) \/ LiveStep(t), t # u
      PROVE  ~ ok'[u] /\ (op'[u] \in Reads => rec'[u] = None)
  BY <1>3, StepOfOthers DEF NothingYet
<1>4. ASSUME NEW p \in Processes, Die(p)
      PROVE  ~ ok'[u] /\ (op'[u] \in Reads => rec'[u] = None)
  BY <1>4, DieOfOthers DEF NothingYet
<1>5. CASE UNCHANGED threadVars
  BY <1>5 DEF NothingYet, threadVars
<1>. QED
  BY <1>1, <1>2, <1>3, <1>4, <1>5, NextCases DEF DrmKernel_init, Corrupt, vars

(* What the steps rely on.                                                 *)
RefinementInv ==
  /\ TypeInv /\ AuthenticityInv
  /\ UsableInv /\ OneRowInv /\ NothingYet
  /\ HeldInv

LEMMA RefinementInvariant ==
  ASSUME OneThreadEach, SingleWriter, Damaged = {}, DeletesSucceed
  PROVE  Spec => []RefinementInv
<1>1. Init => UsableInv /\ NothingYet /\ HeldInv
  BY DeploymentAssumption
     DEF Init, UsableInv, ConnectionUsable, HeldInv, HeldByCall, Closed, Left,
         NothingYet, Statements, InStmt
<1>2. TypeInv /\ AuthenticityInv /\ UsableInv /\ OneRowInv /\ NothingYet
        /\ HeldInv => RefinementInv
  BY DEF RefinementInv
<1>. QED
  BY <1>1, <1>2, Authenticity, HeldInvInductive, SingleWriterInvariants,
     NothingYetInductive, PTL DEF Spec

(* The other threads look the same in the abstract store.                  *)
OthersUnchanged(t) ==
  \A u \in Threads \ {t} :
    /\ pc'[u] = pc[u] /\ op'[u] = op[u] /\ ask'[u] = ask[u]
    /\ rec'[u] = rec[u] /\ ok'[u] = ok[u]

LEMMA OthersUnchangedByStep ==
  ASSUME TypeOK, NEW t \in Threads, Call(t) \/ LiveStep(t)
  PROVE  OthersUnchanged(t)
BY StepOfOthers DEF OthersUnchanged

(* A step after which the thread is as far, asks and has the same, is none *)
(* of the abstract store.                                                  *)
LEMMA Stutters ==
  ASSUME TypeOK, NEW t \in Threads, OthersUnchanged(t), rows' = rows,
         op' = op,
         AbstractPhase(t)' = AbstractPhase(t),
         AbstractGoal(t)' = AbstractGoal(t),
         AbstractResult(t)' = AbstractResult(t)
  PROVE  UNCHANGED Store!vars
<1>1. ASSUME NEW u \in Threads
      PROVE  /\ AbstractPhase(u)' = AbstractPhase(u)
             /\ AbstractGoal(u)' = AbstractGoal(u)
             /\ AbstractResult(u)' = AbstractResult(u)
  BY <1>1 DEF OthersUnchanged, AbstractPhase, AbstractGoal, AbstractResult
<1>2. [u \in Threads |-> AbstractPhase(u)]' = [u \in Threads |-> AbstractPhase(u)]
  BY <1>1
<1>3. [u \in Threads |-> AbstractGoal(u)]' = [u \in Threads |-> AbstractGoal(u)]
  BY <1>1
<1>4. [u \in Threads |-> AbstractResult(u)]' = [u \in Threads |-> AbstractResult(u)]
  BY <1>1
<1>5. {row.rec : row \in rows}' = {row.rec : row \in rows}
  OBVIOUS
<1>. QED
  BY <1>2, <1>3, <1>4, <1>5 DEF Store!vars

(* A step that goes on to close the connection, or to answer, settles.     *)
LEMMA Settles ==
  ASSUME TypeOK, NEW t \in Threads, OthersUnchanged(t), op' = op, ask' = ask,
         op[t] \in Writes => rec' = rec,
         pc[t] \notin Settling \union {"idle"}, pc'[t] \in Settling,
         NEW r, AbstractResult(t)' = r
  PROVE  Store!Settle(t, r)
<1>. DEFINE ph == [u \in Threads |-> AbstractPhase(u)]
            go == [u \in Threads |-> AbstractGoal(u)]
            re == [u \in Threads |-> AbstractResult(u)]
<1>1. ph[t] = "asked"
  BY DEF AbstractPhase, Settling
<1>2. ph' = [ph EXCEPT ![t] = "settled"]
  BY DEF OthersUnchanged, AbstractPhase, Settling
<1>3. re' = [re EXCEPT ![t] = r]
  BY DEF OthersUnchanged, AbstractResult
<1>4. go' = go
  BY DEF OthersUnchanged, AbstractGoal
<1>. QED
  BY <1>1, <1>2, <1>3, <1>4 DEF Store!Settle

(* The death of a process takes its calls.                                 *)
LEMMA DieIsDie ==
  ASSUME TypeOK, NEW p \in Processes, Die(p)
  PROVE  Store!Die({t \in Threads : ProcOf[t] = p})
<1>. DEFINE D == {t \in Threads : ProcOf[t] = p}
            ph == [u \in Threads |-> AbstractPhase(u)]
            go == [u \in Threads |-> AbstractGoal(u)]
            re == [u \in Threads |-> AbstractResult(u)]
<1>1. ph' = [u \in Threads |-> IF u \in D THEN "idle" ELSE ph[u]]
  BY DieOfOthers DEF AbstractPhase, Settling
<1>2. op' = [u \in Threads |-> IF u \in D THEN "none" ELSE op[u]]
  BY DEF Die
<1>3. go' = [u \in Threads |-> IF u \in D THEN None ELSE go[u]]
  BY DieOfOthers DEF AbstractGoal, Writes
<1>4. re' = [u \in Threads |-> IF u \in D THEN None ELSE re[u]]
  BY DieOfOthers DEF AbstractResult, Writes
<1>5. UNCHANGED rows
  BY DEF Die
<1>. QED
  BY <1>1, <1>2, <1>3, <1>4, <1>5 DEF Store!Die

(* A call asks for what it saves or looks up.                              *)
LEMMA CallAsks ==
  ASSUME TypeOK, NEW t \in Threads, Call(t)
  PROVE  Store!Ask(t)
<1>. DEFINE ph == [u \in Threads |-> AbstractPhase(u)]
            go == [u \in Threads |-> AbstractGoal(u)]
            re == [u \in Threads |-> AbstractResult(u)]
<1>0. OthersUnchanged(t) /\ Writes \intersect Reads = {}
  BY OthersUnchangedByStep DEF Writes, Reads
<1>1. pc[t] = "idle" /\ pc'[t] \in {"verify", "open"} /\ rows' = rows
  BY CallOfThread
<1>2. ph[t] = "idle" /\ ph' = [ph EXCEPT ![t] = "asked"]
  BY <1>0, <1>1 DEF OthersUnchanged, AbstractPhase, Settling
<1>3. op' = [op EXCEPT ![t] = op'[t]]
  BY CallBegins DEF TypeOK, Begin
<1>4. re' = [re EXCEPT ![t] = None]
  BY <1>0, CallOfThread DEF OthersUnchanged, AbstractResult
<1>5. CASE op'[t] \in Writes
  <2>1. rec'[t] \in Record /\ go' = [go EXCEPT ![t] = rec'[t]]
    BY <1>0, <1>5, CallOfThread DEF OthersUnchanged, AbstractGoal
  <2>. QED
    BY <1>1, <1>2, <1>3, <1>4, <1>5, <2>1
       DEF Store!Ask, Store!Record, Record, Store!Tags, Tags
<1>6. CASE op'[t] \in Reads
  <2>1. ask'[t] \in Keys \union KeyIds /\ go' = [go EXCEPT ![t] = ask'[t]]
    BY <1>0, <1>6, CallOfThread DEF OthersUnchanged, AbstractGoal
  <2>. QED
    BY <1>1, <1>2, <1>3, <1>4, <1>6, <2>1 DEF Store!Ask
<1>. QED
  BY <1>5, <1>6, CallOfThread

(* An operation that a failure ends is refused or misses, which a store    *)
(* that may fail does.                                                     *)
LEMMA FailureSettles ==
  ASSUME RefinementInv, NEW t \in Threads, OthersUnchanged(t), SomethingFails,
         op' = op, ask' = ask, rec' = rec, ok' = ok, rows' = rows,
         op[t] \in Ops, pc[t] \notin Settling \union {"idle"},
         pc'[t] \in Settling
  PROVE  Store!Refuse(t) \/ Store!Miss(t)
<1>. TypeOK
  BY DEF RefinementInv, TypeInv
<1>1. AbstractResult(t)' = None
  <2>1. CASE op[t] \in Writes
    BY <2>1 DEF RefinementInv, NothingYet, AbstractResult
  <2>2. CASE op[t] \in Reads
    BY <2>2 DEF RefinementInv, NothingYet, AbstractResult
  <2>. QED
    BY <2>1, <2>2 DEF Ops
<1>2. Store!Settle(t, None)
  BY <1>1, Settles
<1>. QED
  BY <1>2 DEF Store!Refuse, Store!Miss, Ops

(* Without a failure that the abstract store knows of, the connection is   *)
(* there to be opened: none of the process is left open.                   *)
LEMMA NoFailureOpens ==
  ASSUME RefinementInv, ~ SomethingFails, Handles # {}, NEW t \in Threads,
         LiveStep(t)
  PROVE  ~ OpenNoMemory(t)
<1>. SUFFICES ASSUME OpenNoMemory(t)
              PROVE  FALSE
  OBVIOUS
<1>1. ClosesSucceed /\ "open" \notin Faults
  BY DEF SomethingFails, ClosesSucceed
<1>2. pc[t] = "open" /\ Handles = live[ProcOf[t]]
  BY <1>1 DEF OpenNoMemory, OpenFailed, Goto
<1>3. live[ProcOf[t]] = {}
  BY <1>1, <1>2, DeploymentAssumption
     DEF RefinementInv, HeldInv, HeldByCall, Closed
<1>. QED
  BY <1>2, <1>3

(* Before the statements: to the next call of sqlite3, or to the end.      *)
LEMMA OpeningMapped ==
  ASSUME RefinementInv, Handles # {}, NEW t \in Threads, LiveStep(t),
         \/ Verify(t) \/ Open(t) \/ OpenNoMemory(t) \/ SetTimeout(t)
         \/ CreateTable(t)
         \/ FetchHandle(t)
  PROVE  Store!Refuse(t) \/ Store!Miss(t) \/ UNCHANGED Store!vars
<1>. /\ TypeOK /\ RecordAtHand(t) /\ ConnectionUsable(t)
     /\ OthersUnchanged(t)
  BY OthersUnchangedByStep DEF RefinementInv, TypeInv, UsableInv
<1>. UNCHANGED <<rows, op, ask, rec, ok>>
  BY DEF Verify, Open, OpenNoMemory, SetTimeout, CreateTable, FetchHandle
<1>1. pc[t] \notin Settling \union {"idle"} /\ op[t] \in Ops
  BY DEF RecordAtHand, Verify, Open, OpenNoMemory, SetTimeout, CreateTable,
     FetchHandle, Goto, OpenFailed, Settling
<1>2. CASE pc'[t] \notin Settling \union {"idle"}
  <2>1. AbstractPhase(t)' = AbstractPhase(t)
    BY <1>1, <1>2 DEF AbstractPhase
  <2>. QED
    BY <2>1, Stutters DEF AbstractGoal, AbstractResult
<1>3. CASE pc'[t] \in Settling /\ SomethingFails
  BY <1>1, <1>3, FailureSettles
<1>4. CASE pc'[t] \in Settling /\ ~ SomethingFails
  <2>1. "open" \notin Faults /\ "create" \notin Faults
    BY <1>4 DEF SomethingFails
  <2>2. Verify(t)
    BY <1>4, <2>1, NoFailureOpens
       DEF Open, SetTimeout, CreateTable, FetchHandle, OpenFailed, Goto,
           TypeOK, Settling, ConnectionUsable
  <2>3. op[t] \in Writes /\ ~ checkRecordCrypto(rec[t])
    BY <1>4, <2>2 DEF Verify, Goto, TypeOK, Settling, RecordAtHand
  <2>4. AbstractResult(t)' = None
    BY <1>1, <2>3 DEF RefinementInv, NothingYet, AbstractResult
  <2>5. Store!Settle(t, None)
    BY <1>1, <1>4, <2>4, Settles
  <2>6. AbstractGoal(t) = rec[t]
    BY <2>3 DEF AbstractGoal
  <2>. QED
    BY <2>3, <2>5, <2>6
       DEF Store!Refuse, Store!checkRecordCrypto, checkRecordCrypto, Store!Mac,
           Mac
<1>5. pc'[t] # "idle"
  BY DEF Verify, Open, OpenNoMemory, SetTimeout, CreateTable, FetchHandle,
     Goto, OpenFailed, TypeOK
<1>. QED
  BY <1>2, <1>3, <1>4, <1>5

(* A statement that cannot be compiled ends the operation as a failure, on *)
(* a connection that is there; for the delete it would not be noticed.     *)
LEMMA PreparingMapped ==
  ASSUME DeletesSucceed, RefinementInv, NEW t \in Threads, LiveStep(t),
         DeletePrepare(t) \/ InsertPrepare(t) \/ SelectPrepare(t)
  PROVE  Store!Refuse(t) \/ Store!Miss(t) \/ UNCHANGED Store!vars
<1>. /\ TypeOK /\ RecordAtHand(t) /\ ConnectionUsable(t)
     /\ OthersUnchanged(t)
  BY OthersUnchangedByStep DEF RefinementInv, TypeInv, UsableInv
<1>. UNCHANGED <<rows, op, ask, rec, ok>>
  BY DEF DeletePrepare, InsertPrepare, SelectPrepare, Prepare
<1>1. pc[t] \in Statements \ InStmt /\ pc[t] \notin Settling \union {"idle"}
      /\ op[t] \in Ops /\ db[t] \in live[ProcOf[t]]
  BY DEF RecordAtHand, DeletePrepare, InsertPrepare, SelectPrepare, Prepare,
     Goto, Settling, Statements, InStmt, ConnectionUsable
<1>2. CASE pc'[t] \notin Settling \union {"idle"}
  <2>1. AbstractPhase(t)' = AbstractPhase(t)
    BY <1>1, <1>2 DEF AbstractPhase
  <2>. QED
    BY <2>1, Stutters DEF AbstractGoal, AbstractResult
<1>3. CASE pc'[t] \in Settling \union {"idle"}
  <2>1. pc'[t] \in Settling /\ SomethingFails
    BY <1>1, <1>3 DEF DeletePrepare, InsertPrepare, SelectPrepare, Prepare,
       Goto, TypeOK, Settling, SomethingFails
  <2>. QED
    BY <1>1, <2>1, FailureSettles
<1>. QED
  BY <1>2, <1>3

(* The delete of a save removes; SQLITE_SCHEMA has it tried again.         *)
LEMMA DeleteRemoves ==
  ASSUME DeletesSucceed, RefinementInv, NEW t \in Threads, DeleteStep(t)
  PROVE  Store!Remove(t) \/ UNCHANGED Store!vars
<1>. /\ TypeOK /\ RecordAtHand(t) /\ OthersUnchanged(t)
     /\ op[t] \in Writes /\ rec[t] \in Issued
  BY OthersUnchangedByStep
     DEF LiveStep, RefinementInv, TypeInv, AuthenticityInv, SaveVerified,
         DeleteStep, Goto, RecordAtHand
<1>1. /\ UNCHANGED <<op, ask, rec, ok>>
      /\ pc[t] = "del_step" /\ pc'[t] \in {"insert", "delete"}
  BY DEF DeleteStep, Goto, TypeOK
<1>. DEFINE ph == [u \in Threads |-> AbstractPhase(u)]
            go == [u \in Threads |-> AbstractGoal(u)]
            re == [u \in Threads |-> AbstractResult(u)]
            st == {row.rec : row \in rows}
<1>2. AbstractPhase(t) = "asked" /\ AbstractPhase(t)' = AbstractPhase(t)
  BY <1>1 DEF AbstractPhase, Settling
<1>3. CASE rows' = rows
  BY <1>1, <1>2, <1>3, Stutters DEF AbstractGoal, AbstractResult
<1>4. CASE rows' = rows \ Replaced(t)
  <2>1. ph' = ph
    BY <1>1, <1>2 DEF OthersUnchanged, AbstractPhase
  <2>2. go' = go /\ re' = re
    BY <1>1 DEF AbstractGoal, AbstractResult
  <2>3. go[t] = rec[t] /\ ph[t] = "asked"
    BY <1>2 DEF AbstractGoal
  <2>4. st' = {r \in st : r.key # rec[t].key}
    BY <1>1, <1>4 DEF Replaced
  <2>5. checkRecordCrypto(rec[t])
    BY DEF Issued
  <2>. QED
    BY <1>1, <2>1, <2>2, <2>3, <2>4, <2>5
       DEF Store!Remove, Store!checkRecordCrypto, checkRecordCrypto,
           Store!Mac, Mac
<1>. QED
  BY <1>3, <1>4 DEF DeleteStep, DeletesSucceed

(* The insert of a save puts.                                              *)
LEMMA InsertPuts ==
  ASSUME "insert.step" \notin Faults, RefinementInv, NEW t \in Threads,
         InsertStep(t)
  PROVE  Store!Put(t)
<1>. /\ TypeOK /\ RecordAtHand(t) /\ OthersUnchanged(t)
     /\ op[t] \in Writes /\ rec[t] \in Issued
  BY OthersUnchangedByStep
     DEF LiveStep, RefinementInv, TypeInv, AuthenticityInv, SaveVerified,
         InsertStep, Goto, RecordAtHand
<1>1. /\ UNCHANGED <<op, ask, rec>> /\ ok'[t]
      /\ pc[t] = "ins_step" /\ pc'[t] = "close"
  BY DEF InsertStep, Goto, TypeOK
<1>2. PICK id : rows' = rows \union {[id |-> id, rec |-> rec[t]]}
  BY DEF InsertStep
<1>3. {row.rec : row \in rows}' = {row.rec : row \in rows} \union {rec[t]}
  <2>1. [id |-> id, rec |-> rec[t]].rec = rec[t]
    OBVIOUS
  <2>2. [id |-> id, rec |-> rec[t]] \in rows'
    BY <1>2
  <2>3. rec[t] \in {row.rec : row \in rows'}
    BY <2>1, <2>2
  <2>4. \A row \in rows' : row \in rows \/ row.rec = rec[t]
    BY <1>2, <2>1
  <2>5. \A row \in rows : row \in rows'
    BY <1>2
  <2>. QED
    BY <2>3, <2>4, <2>5
<1>4. \A r \in {row.rec : row \in rows} : r.key # rec[t].key
  BY <1>1 DEF RefinementInv, OneRowInv, Replaced
<1>5. AbstractResult(t)' = rec[t]
  BY <1>1 DEF AbstractResult
<1>6. Store!Settle(t, rec[t])
  BY <1>1, <1>5, Settles DEF Settling
<1>7. AbstractGoal(t) = rec[t] /\ checkRecordCrypto(rec[t])
  BY DEF AbstractGoal, Issued
<1>. QED
  BY <1>3, <1>4, <1>6, <1>7
     DEF Store!Put, Store!checkRecordCrypto, checkRecordCrypto, Store!Mac, Mac

(* The SELECT of a read finds a stored record, or none.                    *)
LEMMA SelectFinds ==
  ASSUME RefinementInv, NEW t \in Threads, SelectStep(t)
  PROVE  Store!Find(t) \/ Store!Miss(t)
<1>. /\ TypeOK /\ OthersUnchanged(t) /\ op[t] \in Reads
  BY OthersUnchangedByStep
     DEF LiveStep, RefinementInv, TypeInv, SelectStep, Goto, RecordAtHand
<1>. Writes \intersect Reads = {}
  BY DEF Writes, Reads
<1>1. /\ UNCHANGED <<rows, op, ask, ok>>
      /\ pc[t] = "sel_step" /\ pc'[t] = "close"
  BY DEF SelectStep, Goto, TypeOK
<1>2. AbstractResult(t)' = rec'[t] /\ AbstractGoal(t) = ask[t]
  BY <1>1 DEF AbstractResult, AbstractGoal
<1>3. Store!Settle(t, rec'[t])
  BY <1>1, <1>2, Settles DEF Settling
<1>4. \A row \in rows : Store!Matches(row.rec, t) <=> row \in Selected(t)
  BY <1>2 DEF Store!Matches, Selected
<1>5. CASE \E row \in Selected(t) : rec' = [rec EXCEPT ![t] = row.rec]
  <2>1. PICK row \in Selected(t) : rec' = [rec EXCEPT ![t] = row.rec]
    BY <1>5
  <2>2. row \in rows /\ rec'[t] = row.rec
    BY <2>1 DEF Selected, TypeOK
  <2>. QED
    BY <1>1, <1>3, <1>4, <2>1, <2>2 DEF Store!Find
<1>6. CASE rec' = rec /\ (Selected(t) = {} \/ "select.step" \in Faults)
  <2>1. rec'[t] = None
    BY <1>1, <1>6 DEF RefinementInv, NothingYet, Settling
  <2>2. SomethingFails \/ \A r \in {row.rec : row \in rows} : ~ Store!Matches(r, t)
    BY <1>4, <1>6 DEF SomethingFails
  <2>. QED
    BY <1>1, <1>3, <2>1, <2>2 DEF Store!Miss
<1>. QED
  BY <1>5, <1>6 DEF SelectStep

(* Closing says nothing more.                                              *)
LEMMA ClosingStutters ==
  ASSUME RefinementInv, NEW t \in Threads, CloseHandle(t) \/ ClearHandle(t)
  PROVE  UNCHANGED Store!vars
<1>. TypeOK /\ OthersUnchanged(t)
  BY OthersUnchangedByStep DEF LiveStep, RefinementInv, TypeInv
<1>1. /\ UNCHANGED <<rows, op, ask, rec, ok>>
      /\ pc[t] \in Settling /\ pc'[t] \in Settling
  BY DEF CloseHandle, ClearHandle, Goto, TypeOK, Settling
<1>2. AbstractPhase(t)' = AbstractPhase(t)
  BY <1>1 DEF AbstractPhase, Settling
<1>. QED
  BY <1>1, <1>2, Stutters DEF AbstractGoal, AbstractResult

(* The end of a call answers with its result.                              *)
LEMMA AnswerAnswers ==
  ASSUME Damaged = {}, RefinementInv, NEW t \in Threads,
         AnswerWrite(t) \/ AnswerRead(t)
  PROVE  Store!Answer(t)
<1>. TypeOK /\ OthersUnchanged(t)
  BY OthersUnchangedByStep DEF LiveStep, RefinementInv, TypeInv
<1>. Writes \intersect Reads = {}
  BY DEF Writes, Reads
<1>. DEFINE ph == [u \in Threads |-> AbstractPhase(u)]
            go == [u \in Threads |-> AbstractGoal(u)]
            re == [u \in Threads |-> AbstractResult(u)]
<1>1. UNCHANGED <<rows, op, ask>> /\ pc[t] = "answer" /\ pc'[t] = "idle"
  BY DEF AnswerWrite, AnswerRead, Goto, TypeOK
<1>2. ph[t] = "settled" /\ ph' = [ph EXCEPT ![t] = "idle"]
  BY <1>1 DEF OthersUnchanged, AbstractPhase, Settling
<1>3. go' = go
  BY <1>1 DEF OthersUnchanged, AbstractGoal, AnswerWrite, AnswerRead
<1>4. re' = re \/ (SomethingFails /\ re' = [re EXCEPT ![t] = None])
  <2>1. CASE AnswerWrite(t)
    <3>1. ok' = ok /\ rec' = rec
      BY <2>1 DEF AnswerWrite
    <3>2. \A u \in Threads : AbstractResult(u)' = AbstractResult(u)
      BY <1>1, <3>1 DEF AbstractResult
    <3>3. re' = re
      BY <3>2
    <3>. QED
      BY <3>3
  <2>2. CASE AnswerRead(t) /\ rec' = rec
    <3>1. op[t] \notin Writes
      BY <2>2 DEF AnswerRead
    <3>2. ASSUME NEW u \in Threads
          PROVE  AbstractResult(u)' = AbstractResult(u)
      BY <1>1, <2>2, <3>1 DEF OthersUnchanged, AbstractResult
    <3>3. re' = re
      BY <3>2
    <3>. QED
      BY <3>3
  <2>3. CASE AnswerRead(t) /\ rec' = [rec EXCEPT ![t] = None]
    <3>1. op[t] \in Reads /\ op[t] \notin Writes
      BY <2>3 DEF AnswerRead
    <3>2. rec[t] = None \/ Accepted(t)
      BY <3>1, LoadedIsAccepted DEF RefinementInv
    <3>3. rec'[t] = None
      BY <2>3 DEF TypeOK
    <3>4. rec[t] = None \/ "malloc" \in Faults
      BY <2>3, <3>2, <3>3 DEF AnswerRead
    <3>5. rec[t] = None \/ SomethingFails
      BY <3>4 DEF SomethingFails
    <3>6. re' = [re EXCEPT ![t] = None]
      BY <1>1, <3>1, <3>3 DEF OthersUnchanged, AbstractResult
    <3>7. CASE rec[t] = None
      <4>1. re[t] = None
        BY <3>1, <3>7 DEF AbstractResult
      <4>. QED
        BY <3>6, <4>1
    <3>. QED
      BY <3>5, <3>6, <3>7
  <2>. QED
    BY <2>1, <2>2, <2>3 DEF AnswerRead
<1>. QED
  BY <1>1, <1>2, <1>3, <1>4 DEF Store!Answer

(* THEOREM: the store implements RightsStore, with one writer and one call *)
(* at a time in each process, whatever of the rest fails and whoever dies: *)
(* every step is one of the abstract store, or none.                       *)
THEOREM StoreImplementsRightsStore ==
  ASSUME OneThreadEach, SingleWriter, Damaged = {}, Handles # {},
         DeletesSucceed, "insert.step" \notin Faults
  PROVE  Spec => ImplementsRightsStore
<1>1. Init => Store!Init
  <2>. SUFFICES ASSUME Init
                PROVE  Store!Init
    OBVIOUS
  <2>1. \A t \in Threads : /\ pc[t] = "idle" /\ op[t] = "none"
                           /\ ask[t] = None /\ rec[t] = None
    BY DEF Init
  <2>2. op = [t \in Threads |-> "none"] /\ {row.rec : row \in rows} = {}
    BY DEF Init
  <2>3. ASSUME NEW t \in Threads
        PROVE  /\ AbstractPhase(t) = "idle"
               /\ AbstractGoal(t) = None
               /\ AbstractResult(t) = None
    BY <2>1 DEF AbstractPhase, AbstractGoal, AbstractResult, Writes, Settling
  <2>. QED
    BY <2>2, <2>3 DEF Store!Init
<1>2. RefinementInv /\ [Next]_vars => [Store!Next]_(Store!vars)
  <2>. SUFFICES ASSUME RefinementInv, [Next]_vars
                PROVE  Store!Next \/ UNCHANGED Store!vars
    OBVIOUS
  <2>. TypeOK
    BY DEF RefinementInv, TypeInv
  <2>1. ASSUME NEW t \in Threads, Call(t)
        PROVE  Store!Ask(t)
    BY <2>1, CallAsks
  <2>2. ASSUME NEW t \in Threads, LiveStep(t)
        PROVE  \/ Store!Refuse(t) \/ Store!Remove(t) \/ Store!Put(t)
               \/ Store!Find(t) \/ Store!Miss(t) \/ Store!Answer(t)
               \/ UNCHANGED Store!vars
    BY <2>2, OpeningMapped, PreparingMapped, DeleteRemoves, InsertPuts,
       SelectFinds, ClosingStutters, AnswerAnswers DEF LiveStep
  <2>3. ASSUME NEW p \in Processes, Die(p)
        PROVE  Store!Die({t \in Threads : ProcOf[t] = p})
    BY <2>3, DieIsDie
  <2>4. CASE UNCHANGED <<rows, threadVars>>
    BY <2>4 DEF Store!vars, threadVars, AbstractPhase, AbstractGoal,
       AbstractResult
  <2>5. CASE Corrupt
    BY <2>5 DEF Corrupt
  <2>. QED
    BY <2>1, <2>2, <2>3, <2>4, <2>5, NextCases
       DEF Store!Next, DrmKernel_init, vars
<1>. QED
  BY <1>1, <1>2, RefinementInvariant, PTL
     DEF Spec, ImplementsRightsStore, Store!Spec
===============================================================================
