-------------------------- MODULE NvDatabaseProofs --------------------------
(* Proofs about NvDatabase, for any processes, files and failures.         *)
EXTENDS NvDatabase, TLAPS

(* What holds of locks and callers in every state, and what holds of the   *)
(* one file while no file was orphaned.                                    *)
LocksInv == TypeOK /\ LockOfTransaction /\ DraftIsAhead /\ TrustIsFounded
FileInv  == NoLostUpdate /\ OneFile

LEMMA InvParts == DatabaseInv <=> LocksInv /\ FileInv
  BY DEF DatabaseInv, LocksInv, FileInv

LEMMA InitInv == Init => DatabaseInv
  <1> SUFFICES ASSUME Init PROVE DatabaseInv
    OBVIOUS
  <1> USE FilesAssumption DEF Init
  <1>1. TypeOK
    BY DEF TypeOK, Content, Empty
  <1>2. NoLostUpdate /\ OneFile
    BY DEF NoLostUpdate, OneFile, InTransaction
  <1>3. LockOfTransaction /\ DraftIsAhead /\ TrustIsFounded
    BY DEF LockOfTransaction, DraftIsAhead, TrustIsFounded, Founded, InTransaction
  <1> QED BY <1>1, <1>2, <1>3 DEF DatabaseInv

LEMMA FoundType ==
  ASSUME TypeOK, NEW f \in Files PROVE Found(f) \in Content
  BY DEF TypeOK, Found, Hot

LEMMA EmptyType == Empty \in Content /\ Empty.value = 0 /\ Empty.table = FALSE
  BY DEF Empty, Content

(* The file of a process in a call, or that relies on something.           *)
LEMMA ConnectionThere ==
  ASSUME LocksInv, NEW p \in Processes, pc[p] # "idle" \/ trust[p] # {}
  PROVE  conn[p] \in Files
  BY FilesAssumption DEF LocksInv, TypeOK, TrustIsFounded, Founded

(* A file that p is not locked out of, and where it has no transaction, is *)
(* nobody's.                                                               *)
LEMMA NobodyHasIt ==
  ASSUME LocksInv, NEW p \in Processes, conn[p] \in Files,
         ~InTransaction(p), ~LockedOut(p)
  PROVE  /\ owner[conn[p]] = NULL
         /\ \A q \in Processes : InTransaction(q) => conn[q] # conn[p]
  <1>1. owner[conn[p]] \in {p, NULL}
    BY DEF LockedOut
  <1>2. owner[conn[p]] = NULL
    BY <1>1 DEF LocksInv, LockOfTransaction
  <1> QED BY <1>2, FilesAssumption DEF LocksInv, LockOfTransaction

(* Playing a journal back touches no file with a transaction.              *)
LEMMA Recovery ==
  ASSUME LocksInv, NEW p \in Processes, conn[p] \in Files, Recover(p)
  PROVE  /\ stored' \in [Files -> Content] /\ journal' \in Content \union {NULL}
         /\ stored'[conn[p]] = Found(conn[p])
         /\ \A g \in Files \ {conn[p]} : stored'[g] = stored[g]
         /\ owner[conn[p]] = NULL => journal' = NULL
         /\ owner[conn[p]] # NULL => stored' = stored /\ journal' = journal
         /\ \A q \in Processes : InTransaction(q) =>
              stored'[conn[q]] = stored[conn[q]]
  <1> USE FilesAssumption
  <1> DEFINE f == conn[p]
  <1>1. Found(f) \in Content
    BY FoundType DEF LocksInv
  <1>2. /\ stored' = [stored EXCEPT ![f] = Found(f)]
        /\ journal' = IF Hot(f) THEN NULL ELSE journal
    BY DEF Recover
  <1>3. /\ stored' \in [Files -> Content] /\ journal' \in Content \union {NULL}
        /\ stored'[f] = Found(f)
        /\ \A g \in Files \ {f} : stored'[g] = stored[g]
    BY <1>1, <1>2 DEF LocksInv, TypeOK
  <1>4. owner[f] = NULL => journal' = NULL
    BY <1>2 DEF Hot
  <1>5. owner[f] # NULL => stored' = stored /\ journal' = journal
    BY <1>2 DEF Hot, Found, LocksInv, TypeOK
  <1>6. ASSUME NEW q \in Processes, InTransaction(q)
        PROVE  stored'[conn[q]] = stored[conn[q]]
    <2>1. conn[q] \in Files /\ owner[conn[q]] # NULL
      BY <1>6 DEF LocksInv, LockOfTransaction, TypeOK
    <2> QED BY <1>3, <1>5, <2>1
  <1> QED BY <1>3, <1>4, <1>5, <1>6

(* The end of a transaction leaves those of the others.                    *)
LEMMA EndOfTransaction ==
  ASSUME TypeOK, LockOfTransaction, NEW p \in Processes, EndTransaction(p),
         conn' = conn \/ conn' = [conn EXCEPT ![p] = NULL]
  PROVE  /\ owner' \in [Files -> Processes \union {NULL}]
         /\ draft' \in [Processes -> Content \union {NULL}]
         /\ writes' \in [Processes -> Nat]
         /\ conn' \in [Processes -> Files \union {NULL}]
         /\ LockOfTransaction'
         /\ draft'[p] = NULL /\ writes'[p] = 0
         /\ \A q \in Processes \ {p} :
              /\ draft'[q] = draft[q] /\ writes'[q] = writes[q]
              /\ conn'[q] = conn[q]
         /\ \A f \in Files : owner'[f] = IF owner[f] = p THEN NULL ELSE owner[f]
  <1> USE FilesAssumption
  <1>1. /\ owner' \in [Files -> Processes \union {NULL}]
        /\ draft' \in [Processes -> Content \union {NULL}]
        /\ writes' \in [Processes -> Nat]
        /\ conn' \in [Processes -> Files \union {NULL}]
        /\ draft'[p] = NULL /\ writes'[p] = 0
    BY DEF EndTransaction, TypeOK
  <1>2. \A q \in Processes \ {p} :
           /\ draft'[q] = draft[q] /\ writes'[q] = writes[q]
           /\ conn'[q] = conn[q]
    BY DEF EndTransaction, TypeOK
  <1>3. \A f \in Files : owner'[f] = IF owner[f] = p THEN NULL ELSE owner[f]
    BY DEF EndTransaction
  <1>4. LockOfTransaction'
    <2>1. ASSUME NEW q \in Processes, draft'[q] # NULL
          PROVE  conn'[q] # NULL /\ owner'[conn'[q]] = q
      <3>1. q # p
        BY <1>1, <2>1
      <3>2. conn'[q] = conn[q] /\ draft[q] # NULL
        BY <1>2, <2>1, <3>1
      <3>3. conn[q] # NULL /\ owner[conn[q]] = q /\ conn[q] \in Files
        BY <3>2 DEF LockOfTransaction, InTransaction, TypeOK
      <3> QED BY <1>3, <3>1, <3>2, <3>3
    <2>2. ASSUME NEW f \in Files, owner'[f] # NULL
          PROVE  conn'[owner'[f]] = f /\ draft'[owner'[f]] # NULL
      <3>1. owner[f] # p /\ owner'[f] = owner[f] /\ owner[f] \in Processes
        BY <1>3, <2>2 DEF TypeOK
      <3>2. conn[owner[f]] = f /\ draft[owner[f]] # NULL
        BY <2>2, <3>1 DEF LockOfTransaction, InTransaction
      <3> QED BY <1>2, <3>1, <3>2
    <2> QED BY <2>1, <2>2 DEF LockOfTransaction, InTransaction
  <1> QED BY <1>1, <1>2, <1>3, <1>4

(* While no file was orphaned a process in a transaction is alone in it,   *)
(* and the journal is its own.                                             *)
LEMMA TransactionAlone ==
  ASSUME LocksInv, FileInv, ~orphaned, NEW p \in Processes, InTransaction(p)
  PROVE  /\ path \in Files /\ conn[p] = path /\ owner[path] = p
         /\ journal = IF writes[p] > 0 THEN stored[path] ELSE NULL
         /\ Found(path) = stored[path]
         /\ \A q \in Processes \ {p} : ~InTransaction(q)
  <1> USE FilesAssumption
  <1>1. conn[p] # NULL /\ owner[conn[p]] = p /\ conn[p] \in Files
    BY DEF LocksInv, LockOfTransaction, TypeOK
  <1>2. conn[p] = path
    BY <1>1 DEF FileInv, OneFile
  <1>3. Found(path) = stored[path]
    BY <1>1, <1>2 DEF Found, Hot
  <1>4. \A q \in Processes \ {p} : ~InTransaction(q)
    BY <1>1, <1>2 DEF LocksInv, LockOfTransaction, FileInv, OneFile
  <1> QED BY <1>1, <1>2, <1>3, <1>4 DEF FileInv, OneFile

(* A rollback leaves the content that statements find.                     *)
LEMMA RollBackKeepsFound ==
  ASSUME LocksInv, FileInv, ~orphaned, NEW p \in Processes, RollBack(p),
         path \in Files
  PROVE  /\ Found(path) = IF journal' # NULL /\ owner'[path] = NULL
                             /\ stored[path] # Empty
                          THEN journal' ELSE stored[path]
         /\ \A q \in Processes \ {p} : InTransaction(q) => journal' = journal
  <1> USE FilesAssumption
  <1>1. /\ journal' = IF writes[p] > 0 THEN NULL ELSE journal
        /\ \A f \in Files : owner'[f] = IF owner[f] = p THEN NULL ELSE owner[f]
    BY DEF RollBack, JournalAfter, EndTransaction
  <1>2. CASE InTransaction(p)
    <2>1. /\ owner[path] = p /\ Found(path) = stored[path]
          /\ journal = IF writes[p] > 0 THEN stored[path] ELSE NULL
          /\ \A q \in Processes \ {p} : ~InTransaction(q)
      BY <1>2, TransactionAlone
    <2>2. journal' = NULL
      BY <1>1, <2>1
    <2> QED BY <2>1, <2>2
  <1>3. CASE ~InTransaction(p)
    <2>1. writes[p] = 0 /\ owner[path] # p
      BY <1>3 DEF LocksInv, TrustIsFounded, Founded, LockOfTransaction
    <2>2. journal' = journal /\ owner'[path] = owner[path]
      BY <1>1, <2>1
    <2> QED BY <2>2 DEF Found, Hot
  <1> QED BY <1>2, <1>3

-----------------------------------------------------------------------------
(* The steps that end a transaction, one lemma for the locks of all.       *)
LEMMA EndKeepsLocks ==
  ASSUME LocksInv, NEW p \in Processes, EndTransaction(p),
         conn' = conn \/ conn' = [conn EXCEPT ![p] = NULL],
         pc' \in [Processes -> Calls \union {"idle"}],
         \A q \in Processes \ {p} : pc'[q] = pc[q],
         pc'[p] = "idle" \/ (pc[p] # "idle" /\ pc'[p] = pc[p]),
         trust' \in [Processes -> SUBSET {"table", "locked"}],
         seen' \in [Processes -> Nat \union {NULL}],
         doubt' \in SUBSET Processes,
         \A q \in Processes \ {p} : /\ trust'[q] = trust[q] /\ seen'[q] = seen[q]
                                    /\ q \in doubt => q \in doubt',
         trust'[p] \subseteq trust[p],
         "locked" \in trust'[p] => p \in doubt',
         conn'[p] = NULL => trust'[p] = {} /\ pc'[p] = "idle",
         path' \in Files \union {NULL}, journal' \in Content \union {NULL},
         stored' \in [Files -> Content], updates' \in [Files -> Nat],
         suspect' \in SUBSET Files, orphaned' \in BOOLEAN,
         \A q \in Processes \ {p} :
           InTransaction(q) => stored'[conn[q]] = stored[conn[q]]
  PROVE  LocksInv'
  <1> USE FilesAssumption
  <1>1. /\ owner' \in [Files -> Processes \union {NULL}]
        /\ draft' \in [Processes -> Content \union {NULL}]
        /\ writes' \in [Processes -> Nat]
        /\ conn' \in [Processes -> Files \union {NULL}]
        /\ LockOfTransaction'
        /\ draft'[p] = NULL /\ writes'[p] = 0
        /\ \A q \in Processes \ {p} :
             /\ draft'[q] = draft[q] /\ writes'[q] = writes[q]
             /\ conn'[q] = conn[q]
    BY EndOfTransaction DEF LocksInv
  <1>2. TypeOK'
    BY <1>1 DEF TypeOK
  <1>3. DraftIsAhead'
    BY <1>1 DEF LocksInv, DraftIsAhead, InTransaction
  <1>4. ASSUME NEW q \in Processes, q # p PROVE Founded(q)'
    BY <1>1, <1>4 DEF LocksInv, TrustIsFounded, Founded, InTransaction
  <1>5. Founded(p)'
    <2>1. conn'[p] # NULL => conn'[p] = conn[p]
      BY DEF LocksInv, TypeOK
    <2> QED BY <1>1, <2>1 DEF Founded, InTransaction
  <1> QED BY <1>1, <1>2, <1>3, <1>4, <1>5 DEF LocksInv, TrustIsFounded

(* Others keep the table they found, a rollback or a death aside.          *)
LEMMA EndKeepsFile ==
  ASSUME LocksInv, FileInv, NEW p \in Processes, EndTransaction(p),
         conn' = conn \/ conn' = [conn EXCEPT ![p] = NULL],
         UNCHANGED <<path, updates, suspect, orphaned>>,
         \A q \in Processes \ {p} : trust'[q] = trust[q],
         trust'[p] \subseteq trust[p],
         ~orphaned /\ path \in Files => Found(path)' = Found(path),
         \A q \in Processes \ {p} : ~orphaned /\ InTransaction(q) =>
           journal' = journal /\ stored'[path] = stored[path]
  PROVE  FileInv'
  <1> USE FilesAssumption
  <1> SUFFICES ASSUME ~orphaned PROVE FileInv'
    BY DEF FileInv, NoLostUpdate, OneFile
  <1>1. /\ draft'[p] = NULL
        /\ \A q \in Processes \ {p} :
             /\ draft'[q] = draft[q] /\ writes'[q] = writes[q]
             /\ conn'[q] = conn[q]
        /\ conn'[p] \in {NULL, conn[p]}
    BY EndOfTransaction DEF LocksInv, TypeOK
  <1>2. NoLostUpdate'
    BY DEF FileInv, NoLostUpdate
  <1>3. \A q \in Processes : conn'[q] # NULL => conn'[q] = path
    BY <1>1 DEF FileInv, OneFile
  <1>4. ASSUME NEW q \in Processes, draft'[q] # NULL
        PROVE  journal' = IF writes'[q] > 0 THEN stored'[path] ELSE NULL
    <2>1. q # p /\ InTransaction(q)
      BY <1>1, <1>4 DEF InTransaction
    <2> QED BY <1>1, <2>1 DEF FileInv, OneFile
  <1>5. ASSUME NEW q \in Processes, "table" \in trust'[q]
        PROVE  Found(path)'.table
    <2>1. "table" \in trust[q]
      BY <1>5
    <2>2. conn[q] \in Files /\ conn[q] = path
      BY <2>1, ConnectionThere DEF FileInv, OneFile
    <2> QED BY <2>1, <2>2 DEF FileInv, OneFile
  <1> QED BY <1>2, <1>3, <1>4, <1>5 DEF FileInv, OneFile, InTransaction

-----------------------------------------------------------------------------
(* The steps that end no transaction, and change no lock.                  *)
LEMMA SameTransactionKeepsLocks ==
  ASSUME LocksInv, NEW p \in Processes, UNCHANGED <<transaction, conn>>,
         pc' \in [Processes -> Calls \union {"idle"}],
         \A q \in Processes \ {p} : pc'[q] = pc[q],
         trust' \in [Processes -> SUBSET {"table", "locked"}],
         seen' \in [Processes -> Nat \union {NULL}],
         doubt' \in SUBSET Processes, doubt \subseteq doubt' \union {p},
         \A q \in Processes \ {p} : trust'[q] = trust[q] /\ seen'[q] = seen[q],
         "locked" \in trust'[p] =>
           "locked" \in trust[p] /\ (p \in doubt => p \in doubt'),
         seen'[p] # NULL => seen'[p] = seen[p] \/ seen'[p] = View(p).value,
         conn[p] \in Files,
         pc'[p] \in {"create", "lock"} => ~InTransaction(p),
         path' \in Files \union {NULL}, journal' \in Content \union {NULL},
         stored' \in [Files -> Content], updates' \in [Files -> Nat],
         suspect' \in SUBSET Files, orphaned' \in BOOLEAN,
         \A q \in Processes : InTransaction(q) => stored'[conn[q]] = stored[conn[q]]
  PROVE  LocksInv'
  <1> USE FilesAssumption
  <1>1. draft' = draft /\ owner' = owner /\ writes' = writes /\ conn' = conn
    BY DEF transaction
  <1>2. TypeOK'
    BY <1>1 DEF LocksInv, TypeOK
  <1>3. LockOfTransaction'
    BY <1>1 DEF LocksInv, LockOfTransaction, InTransaction
  <1>4. ASSUME NEW q \in Processes, draft'[q] # NULL
        PROVE  /\ draft'[q].value = stored'[conn'[q]].value + writes'[q]
               /\ draft'[q].table = stored'[conn'[q]].table
               /\ seen'[q] # NULL => seen'[q] = draft'[q].value
    <2>1. /\ draft[q].value = stored[conn[q]].value + writes[q]
          /\ draft[q].table = stored[conn[q]].table
          /\ seen[q] # NULL => seen[q] = draft[q].value
          /\ stored'[conn[q]] = stored[conn[q]]
      BY <1>1, <1>4 DEF LocksInv, DraftIsAhead, InTransaction
    <2>2. seen'[q] # NULL => seen'[q] = draft[q].value
      <3>1. CASE q # p
        BY <2>1, <3>1
      <3>2. CASE q = p
        <4>1. View(p) = draft[p]
          BY <1>1, <1>4, <3>2 DEF View, InTransaction
        <4> QED BY <2>1, <3>2, <4>1
      <3> QED BY <3>1, <3>2
    <2> QED BY <1>1, <2>1, <2>2
  <1>5. ASSUME NEW q \in Processes PROVE Founded(q)'
    <2>1. Founded(q)
      BY DEF LocksInv, TrustIsFounded
    <2>2. CASE q # p
      BY <1>1, <2>1, <2>2 DEF Founded, InTransaction
    <2>3. CASE q = p
      BY <1>1, <2>1, <2>3 DEF Founded, InTransaction
    <2> QED BY <2>2, <2>3
  <1> QED BY <1>2, <1>3, <1>4, <1>5
          DEF LocksInv, DraftIsAhead, TrustIsFounded, InTransaction

(* A statement outside of transactions, on a file that nobody has locked,  *)
(* leaves no journal.                                                      *)
LEMMA StatementKeepsFile ==
  ASSUME LocksInv, FileInv, NEW p \in Processes, conn[p] \in Files,
         UNCHANGED <<path, conn, orphaned>>, journal' = NULL,
         \A q \in Processes \ {p} : draft'[q] = draft[q],
         draft'[p] # NULL => writes'[p] = 0,
         ~InTransaction(p), ~LockedOut(p),
         conn[p] \notin suspect' =>
           conn[p] \notin suspect /\ (Found(conn[p]).value = updates[conn[p]] =>
             stored'[conn[p]].value = updates'[conn[p]]),
         Found(conn[p]).table => stored'[conn[p]].table,
         \A q \in Processes \ {p} : trust'[q] = trust[q],
         "table" \in trust'[p] =>
           "table" \in trust[p] \/ stored'[conn[p]].table
  PROVE  FileInv'
  <1> USE FilesAssumption
  <1> SUFFICES ASSUME ~orphaned PROVE FileInv'
    BY DEF FileInv, NoLostUpdate, OneFile
  <1>1. conn[p] = path /\ path' = path /\ conn' = conn
    BY DEF FileInv, OneFile
  <1>2. \A q \in Processes : ~InTransaction(q)
    BY <1>1, NobodyHasIt DEF LocksInv, LockOfTransaction, FileInv, OneFile
  <1>3. Found(path)' = stored'[path]
    BY <1>1 DEF Found, Hot
  <1>4. NoLostUpdate'
    BY <1>1, <1>3 DEF FileInv, NoLostUpdate
  <1>5. ASSUME NEW q \in Processes, draft'[q] # NULL
        PROVE  journal' = IF writes'[q] > 0 THEN stored'[path] ELSE NULL
    <2>1. q = p
      BY <1>2, <1>5 DEF InTransaction
    <2> QED BY <1>5, <2>1
  <1>6. ASSUME NEW q \in Processes, "table" \in trust'[q]
        PROVE  stored'[path].table
    BY <1>1, <1>6 DEF FileInv, OneFile
  <1> QED BY <1>1, <1>3, <1>4, <1>5, <1>6 DEF FileInv, OneFile, InTransaction

(* A step that changes neither file nor transaction.                       *)
LEMMA SameFileKeepsFile ==
  ASSUME LocksInv, FileInv, NEW p \in Processes,
         UNCHANGED <<path, files, transaction, conn, history>>,
         \A q \in Processes \ {p} : trust'[q] = trust[q],
         "table" \in trust'[p] =>
           "table" \in trust[p] \/ (~orphaned => Found(path).table)
  PROVE  FileInv'
  BY DEF FileInv, NoLostUpdate, OneFile, Found, Hot, InTransaction,
         files, transaction, history

-----------------------------------------------------------------------------
LEMMA OpenKeepsInv ==
  ASSUME LocksInv, FileInv, NEW p \in Processes, openNvDatabase(p)
  PROVE  LocksInv' /\ FileInv'
  <1> USE FilesAssumption
  <1>1. PICK f \in Files :
          /\ IF checkDatabasePresence THEN f = path ELSE Unused(f)
          /\ path' = f
          /\ conn' = [conn EXCEPT ![p] = f]
    BY DEF openNvDatabase
  <1>2. /\ conn[p] = NULL /\ pc' = [pc EXCEPT ![p] = "create"]
        /\ UNCHANGED <<stored, journal, owner, draft, writes, seen, trust, doubt,
                       updates, suspect, orphaned>>
    BY DEF openNvDatabase, Enter, files, transaction, caller, history
  <1>3. ~InTransaction(p) /\ trust[p] = {} /\ \A g \in Files : owner[g] # p
    BY <1>2 DEF LocksInv, TrustIsFounded, Founded, LockOfTransaction
  <1>4. conn'[p] = f /\ \A q \in Processes \ {p} : conn'[q] = conn[q]
    BY <1>1 DEF LocksInv, TypeOK
  <1>5. TypeOK'
    BY <1>1, <1>2 DEF LocksInv, TypeOK, Calls
  <1>6. LockOfTransaction'
    BY <1>2, <1>3, <1>4 DEF LocksInv, LockOfTransaction, InTransaction, TypeOK
  <1>7. DraftIsAhead'
    BY <1>2, <1>3, <1>4 DEF LocksInv, DraftIsAhead, InTransaction
  <1>8. TrustIsFounded'
    BY <1>1, <1>2, <1>3, <1>4
       DEF LocksInv, TrustIsFounded, Founded, InTransaction, TypeOK
  <1>9. ASSUME ~orphaned PROVE FileInv'
    <2>1. path # NULL => f = path
      BY <1>1 DEF checkDatabasePresence
    <2>2. path = NULL =>
            /\ stored[f] = Empty /\ updates[f] = 0
            /\ \A q \in Processes : conn[q] = NULL
      BY <1>1, <1>9 DEF checkDatabasePresence, Unused, FileInv, OneFile
    <2>3. \A q \in Processes : path = NULL => ~InTransaction(q) /\ trust[q] = {}
      BY <2>2 DEF LocksInv, LockOfTransaction, TrustIsFounded, Founded
    <2>4. Found(f)' = Found(f)
      BY <1>2 DEF Found, Hot
    <2>5. path = NULL => Found(f).value = updates[f]
      BY <2>2, EmptyType DEF Found
    <2>6. NoLostUpdate'
      BY <1>1, <1>2, <1>9, <2>1, <2>4, <2>5 DEF FileInv, NoLostUpdate
    <2>7. \A q \in Processes : conn'[q] # NULL => conn'[q] = path'
      BY <1>1, <1>4, <1>9, <2>1, <2>2 DEF FileInv, OneFile
    <2>8. \A q \in Processes : draft'[q] # NULL =>
            journal' = IF writes'[q] > 0 THEN stored'[path'] ELSE NULL
      BY <1>1, <1>2, <1>9, <2>1, <2>3 DEF FileInv, OneFile, InTransaction
    <2>9. \A q \in Processes : "table" \in trust'[q] => Found(path)'.table
      BY <1>1, <1>2, <1>9, <2>1, <2>3, <2>4 DEF FileInv, OneFile
    <2> QED BY <2>6, <2>7, <2>8, <2>9 DEF FileInv, OneFile, InTransaction
  <1>10. ASSUME orphaned PROVE FileInv'
    BY <1>2, <1>10 DEF FileInv, NoLostUpdate, OneFile
  <1> QED BY <1>5, <1>6, <1>7, <1>8, <1>9, <1>10 DEF LocksInv

(* lockNvDatabase and tableExists begin.                                   *)
LEMMA EntryKeepsInv ==
  ASSUME LocksInv, FileInv, NEW p \in Processes,
         lockNvDatabase(p) \/ tableExists(p)
  PROVE  LocksInv' /\ FileInv'
  <1> USE FilesAssumption
  <1>1. PICK call \in {"lock", "exists"} :
          /\ pc' = [pc EXCEPT ![p] = call]
          /\ call = "lock" => ~InTransaction(p)
    BY DEF lockNvDatabase, tableExists, Enter
  <1>2. conn[p] \in Files
    BY DEF lockNvDatabase, tableExists, LocksInv, TypeOK
  <1>3. UNCHANGED <<path, files, transaction, conn, caller, history>>
    BY DEF lockNvDatabase, tableExists
  <1>4. LocksInv'
    BY <1>1, <1>2, <1>3, SameTransactionKeepsLocks
       DEF LocksInv, TypeOK, Calls, files, caller, history
  <1>5. FileInv'
    BY <1>3, SameFileKeepsFile DEF caller
  <1> QED BY <1>4, <1>5

LEMMA CreateKeepsInv ==
  ASSUME LocksInv, FileInv, NEW p \in Processes, createSecureTable(p)
  PROVE  LocksInv' /\ FileInv'
  <1> USE FilesAssumption
  <1> DEFINE f == conn[p]
  <1>1. f \in Files
    BY ConnectionThere DEF createSecureTable
  <1>2. ~InTransaction(p) /\ ~LockedOut(p)
    BY DEF createSecureTable, LocksInv, TrustIsFounded, Founded
  <1>3. /\ stored' = [stored EXCEPT ![f] = WithTable(Found(f))] /\ journal' = NULL
        /\ pc' = [pc EXCEPT ![p] = "idle"]
        /\ trust' = [trust EXCEPT ![p] = @ \union {"table"}]
        /\ UNCHANGED <<path, owner, draft, writes, conn, seen, doubt,
                       updates, suspect, orphaned>>
    BY DEF createSecureTable, Return, transaction, history
  <1>4. WithTable(Found(f)) \in Content /\ WithTable(Found(f)).table = TRUE
        /\ WithTable(Found(f)).value = Found(f).value
    BY <1>1, FoundType DEF LocksInv, WithTable, Content
  <1>5. stored'[f] = WithTable(Found(f)) /\ stored' \in [Files -> Content]
        /\ \A g \in Files \ {f} : stored'[g] = stored[g]
    BY <1>1, <1>3, <1>4 DEF LocksInv, TypeOK
  <1>6. ASSUME NEW q \in Processes, InTransaction(q)
        PROVE  stored'[conn[q]] = stored[conn[q]]
    <2>1. conn[q] # f /\ conn[q] \in Files
      BY <1>1, <1>2, <1>6, NobodyHasIt DEF LocksInv, LockOfTransaction, TypeOK
    <2> QED BY <1>5, <2>1
  <1>7. LocksInv'
    BY <1>1, <1>2, <1>3, <1>5, <1>6, SameTransactionKeepsLocks
       DEF LocksInv, TypeOK, transaction
  <1>8. FileInv'
    BY <1>1, <1>2, <1>3, <1>4, <1>5, StatementKeepsFile
       DEF LocksInv, TypeOK, InTransaction
  <1> QED BY <1>7, <1>8

LEMMA LockedKeepsInv ==
  ASSUME LocksInv, FileInv, NEW p \in Processes, Locked(p)
  PROVE  LocksInv' /\ FileInv'
  <1> USE FilesAssumption
  <1> DEFINE f == conn[p]
  <1>1. f \in Files
    BY ConnectionThere DEF Locked
  <1>2. /\ ~InTransaction(p) /\ ~LockedOut(p) /\ owner[f] = NULL /\ writes[p] = 0
        /\ \A q \in Processes : InTransaction(q) => conn[q] # f
    BY <1>1, NobodyHasIt DEF Locked, LocksInv, TrustIsFounded, Founded
  <1>3. /\ Recover(p)
        /\ draft' = [draft EXCEPT ![p] = Found(f)]
        /\ owner' = [owner EXCEPT ![f] = p]
        /\ pc' = [pc EXCEPT ![p] = "idle"]
        /\ trust' = [trust EXCEPT ![p] = @ \union {"locked"}]
        /\ seen' = [seen EXCEPT ![p] = NULL] /\ doubt' = doubt \ {p}
        /\ UNCHANGED <<path, writes, conn, updates, suspect, orphaned>>
    BY DEF Locked, Return, history
  <1>4. /\ stored' \in [Files -> Content] /\ journal' = NULL
        /\ stored'[f] = Found(f)
        /\ \A q \in Processes : InTransaction(q) => stored'[conn[q]] = stored[conn[q]]
    BY <1>1, <1>2, <1>3, Recovery
  <1>5. Found(f) \in Content /\ Found(f) # NULL /\ Found(f).value \in Nat
    BY <1>1, FoundType DEF LocksInv, Content
  <1>6. draft'[p] = Found(f) /\ owner'[f] = p
        /\ \A q \in Processes \ {p} : draft'[q] = draft[q]
        /\ \A g \in Files \ {f} : owner'[g] = owner[g]
    BY <1>1, <1>3 DEF LocksInv, TypeOK
  <1>7. TypeOK'
    BY <1>1, <1>3, <1>4, <1>5 DEF LocksInv, TypeOK
  <1>8. LockOfTransaction'
    <2>1. ASSUME NEW q \in Processes, draft'[q] # NULL
          PROVE  conn[q] # NULL /\ owner'[conn[q]] = q
      <3>1. CASE q = p
        BY <1>1, <1>6, <3>1
      <3>2. CASE q # p
        BY <1>2, <1>6, <2>1, <3>2
           DEF LocksInv, LockOfTransaction, InTransaction, TypeOK
      <3> QED BY <3>1, <3>2
    <2>2. ASSUME NEW g \in Files, owner'[g] # NULL
          PROVE  conn[owner'[g]] = g /\ draft'[owner'[g]] # NULL
      <3>1. CASE g = f
        BY <1>5, <1>6, <3>1
      <3>2. CASE g # f
        <4>0. owner[g] \in Processes \union {NULL}
          BY DEF LocksInv, TypeOK
        <4>1. owner'[g] = owner[g]
          BY <1>1, <1>3, <3>2 DEF LocksInv, TypeOK
        <4>2. /\ owner[g] \in Processes
              /\ conn[owner[g]] = g /\ draft[owner[g]] # NULL
          BY <2>2, <4>0, <4>1 DEF LocksInv, LockOfTransaction, InTransaction
        <4>3. owner[g] # p
          BY <1>2, <4>2 DEF InTransaction
        <4> QED BY <1>6, <4>1, <4>2, <4>3
      <3> QED BY <3>1, <3>2
    <2> QED BY <1>3, <2>1, <2>2 DEF LockOfTransaction, InTransaction
  <1>9. DraftIsAhead'
    <2>1. ASSUME NEW q \in Processes, draft'[q] # NULL
          PROVE  /\ draft'[q].value = stored'[conn[q]].value + writes[q]
                 /\ draft'[q].table = stored'[conn[q]].table
                 /\ seen'[q] # NULL => seen'[q] = draft'[q].value
      <3>1. CASE q = p
        BY <1>2, <1>3, <1>4, <1>5, <1>6, <3>1 DEF LocksInv, TypeOK
      <3>2. CASE q # p
        BY <1>3, <1>4, <1>6, <2>1, <3>2
           DEF LocksInv, DraftIsAhead, InTransaction, TypeOK
      <3> QED BY <3>1, <3>2
    <2> QED BY <1>3, <2>1 DEF DraftIsAhead, InTransaction
  <1>10. TrustIsFounded'
    <2>1. ASSUME NEW q \in Processes, q # p PROVE Founded(q)'
      BY <1>3, <1>6, <2>1
         DEF LocksInv, TrustIsFounded, Founded, InTransaction, TypeOK
    <2>2. Founded(p)'
      BY <1>1, <1>3, <1>5, <1>6
         DEF LocksInv, Founded, InTransaction, TypeOK
    <2> QED BY <2>1, <2>2 DEF TrustIsFounded
  <1>11. FileInv'
    BY <1>1, <1>2, <1>3, <1>4, <1>6, StatementKeepsFile DEF LocksInv, TypeOK
  <1> QED BY <1>7, <1>8, <1>9, <1>10, <1>11 DEF LocksInv

(* A question of the interface, or of the caller: reading.                 *)
LEMMA QuestionKeepsInv ==
  ASSUME LocksInv, FileInv, NEW p \in Processes, TableCounted(p) \/ Read(p)
  PROVE  LocksInv' /\ FileInv'
  <1> USE FilesAssumption
  <1> DEFINE f == conn[p]
  <1>1. f \in Files
    BY ConnectionThere DEF TableCounted, Read, Relies
  <1>2. ~LockedOut(p) /\ Recover(p)
        /\ UNCHANGED <<path, owner, draft, writes, conn, updates, suspect, orphaned>>
    BY DEF TableCounted, Read, transaction, history
  <1>3. View(p) \in Content /\ View(p).value \in Nat
    <2>1. View(p) \in Content
      BY <1>1, FoundType DEF LocksInv, TypeOK, View, InTransaction
    <2> QED BY <2>1 DEF Content
  <1>4. /\ pc' \in [Processes -> Calls \union {"idle"}] /\ pc'[p] = "idle"
        /\ trust' \in [Processes -> SUBSET {"table", "locked"}]
        /\ seen' \in [Processes -> Nat \union {NULL}]
        /\ doubt' \in SUBSET Processes /\ doubt \subseteq doubt'
        /\ \A q \in Processes \ {p} :
             pc'[q] = pc[q] /\ trust'[q] = trust[q] /\ seen'[q] = seen[q]
        /\ "locked" \in trust'[p] => "locked" \in trust[p]
        /\ seen'[p] \in {seen[p], View(p).value}
        /\ "table" \in trust'[p] => "table" \in trust[p] \/ View(p).table
    <2>1. CASE TableCounted(p)
      <3>1. PICK relied \in {{"table"}, {}} :
              /\ relied = {"table"} => View(p).table
              /\ pc' = [pc EXCEPT ![p] = "idle"]
              /\ trust' = [trust EXCEPT ![p] = @ \union relied]
              /\ seen' = seen /\ doubt' \in {doubt, doubt \union {p}}
        <4>1. /\ pc' = [pc EXCEPT ![p] = "idle"] /\ seen' = seen
              /\ View(p).table \in BOOLEAN
          BY <1>3, <2>1 DEF TableCounted, Return, Content
        <4>2. CASE View(p).table
          BY <2>1, <4>1, <4>2 DEF TableCounted, Return, Positive
        <4>3. CASE ~View(p).table
          <5>1. ~Positive(IF View(p).table THEN 1 ELSE 0)
            BY <4>3 DEF Positive
          <5> QED BY <2>1, <4>1, <5>1 DEF TableCounted, Return
        <4> QED BY <4>2, <4>3
      <3> QED BY <3>1 DEF LocksInv, TypeOK
    <2>2. CASE Read(p)
      <3>1. /\ pc' = pc /\ pc[p] = "idle" /\ trust' = trust /\ doubt' = doubt
            /\ seen' = [seen EXCEPT ![p] = View(p).value]
        BY <2>2 DEF Read, Relies, Idle
      <3> QED BY <1>3, <3>1 DEF LocksInv, TypeOK
    <2> QED BY <2>1, <2>2
  <1>5. /\ stored' \in [Files -> Content] /\ journal' \in Content \union {NULL}
        /\ stored'[f] = Found(f)
        /\ owner[f] = NULL => journal' = NULL
        /\ owner[f] # NULL => stored' = stored /\ journal' = journal
        /\ \A q \in Processes : InTransaction(q) => stored'[conn[q]] = stored[conn[q]]
    BY <1>1, <1>2, Recovery
  <1>6. LocksInv'
    BY <1>1, <1>2, <1>4, <1>5, SameTransactionKeepsLocks
       DEF LocksInv, TypeOK, transaction
  <1>7. CASE InTransaction(p)
    <2>1. owner[f] # NULL
      BY <1>7 DEF LocksInv, LockOfTransaction
    <2>2. ~orphaned => View(p).table = Found(path).table
      BY <1>7, TransactionAlone DEF View, LocksInv, DraftIsAhead
    <2>3. FileInv'
      BY <1>2, <1>4, <1>5, <2>1, <2>2, SameFileKeepsFile
         DEF files, transaction, history
    <2> QED BY <1>6, <2>3
  <1>8. CASE ~InTransaction(p)
    <2>1. owner[f] = NULL /\ View(p) = Found(f)
      BY <1>1, <1>2, <1>8, NobodyHasIt DEF View
    <2>2. FileInv'
      BY <1>1, <1>2, <1>4, <1>5, <1>8, <2>1, StatementKeepsFile DEF InTransaction
    <2> QED BY <1>6, <2>2
  <1> QED BY <1>7, <1>8

LEMMA WriteKeepsInv ==
  ASSUME LocksInv, FileInv, NEW p \in Processes, Write(p)
  PROVE  LocksInv' /\ FileInv'
  <1> USE FilesAssumption
  <1> DEFINE f   == conn[p]
             new == [table |-> View(p).table, value |-> seen[p] + 1]
  <1>1. f \in Files
    BY ConnectionThere DEF Write, Relies
  <1>2. /\ "locked" \in trust[p] /\ ~LockedOut(p) /\ seen[p] \in Nat
        /\ suspect' = IF p \in doubt THEN suspect \union {f} ELSE suspect
        /\ seen' = [seen EXCEPT ![p] = NULL]
        /\ UNCHANGED <<path, owner, conn, pc, trust, doubt, orphaned>>
    BY DEF Write, Relies, LocksInv, TypeOK
  <1>3. View(p) \in Content
    BY <1>1, FoundType DEF LocksInv, TypeOK, View, InTransaction
  <1>4. new \in Content /\ new.table = View(p).table /\ new.value = seen[p] + 1
        /\ new # NULL
    BY <1>2, <1>3 DEF Content
  <1>5. CASE InTransaction(p)
    <2>1. /\ draft' = [draft EXCEPT ![p] = new]
          /\ writes' = [writes EXCEPT ![p] = @ + 1]
          /\ journal' = IF writes[p] = 0 THEN stored[f] ELSE journal
          /\ UNCHANGED <<stored, updates>>
      BY <1>5 DEF Write
    <2>2. draft'[p] = new /\ writes'[p] = writes[p] + 1 /\ writes[p] \in Nat
          /\ \A q \in Processes \ {p} :
               draft'[q] = draft[q] /\ writes'[q] = writes[q]
      BY <2>1 DEF LocksInv, TypeOK
    <2>3. stored[f] \in Content /\ stored[f].value \in Nat
      BY <1>1 DEF LocksInv, TypeOK, Content
    <2>4. TypeOK'
      BY <1>1, <1>2, <1>4, <2>1, <2>3 DEF LocksInv, TypeOK
    <2>5. LockOfTransaction'
      BY <1>2, <1>4, <1>5, <2>1, <2>2
         DEF LocksInv, LockOfTransaction, InTransaction, TypeOK
    <2>6. DraftIsAhead'
      <3>1. /\ draft[p].value = stored[f].value + writes[p]
            /\ draft[p].table = stored[f].table /\ seen[p] = draft[p].value
        BY <1>2, <1>5 DEF LocksInv, DraftIsAhead
      <3>2. View(p) = draft[p]
        BY <1>5 DEF View
      <3>3. new.value = stored[f].value + (writes[p] + 1)
            /\ new.table = stored[f].table
        BY <1>4, <2>2, <2>3, <3>1, <3>2
      <3>4. ASSUME NEW q \in Processes, q # p, draft'[q] # NULL
            PROVE  /\ draft'[q].value = stored[conn[q]].value + writes'[q]
                   /\ draft'[q].table = stored[conn[q]].table
                   /\ seen'[q] # NULL => seen'[q] = draft'[q].value
        BY <1>2, <2>2, <3>4 DEF LocksInv, DraftIsAhead, InTransaction, TypeOK
      <3>5. seen'[p] = NULL
        BY <1>2 DEF LocksInv, TypeOK
      <3> QED BY <1>2, <2>1, <2>2, <3>3, <3>4, <3>5 DEF DraftIsAhead, InTransaction
    <2>7. TrustIsFounded'
      BY <1>2, <1>4, <1>5, <2>2 DEF LocksInv, TrustIsFounded, Founded, InTransaction
    <2>8. ASSUME ~orphaned PROVE FileInv'
      <3>1. /\ path \in Files /\ f = path /\ owner[path] = p
            /\ journal = IF writes[p] > 0 THEN stored[path] ELSE NULL
            /\ Found(path) = stored[path]
            /\ \A q \in Processes \ {p} : ~InTransaction(q)
        BY <1>5, <2>8, TransactionAlone
      <3>2. Found(path)' = Found(path)
        BY <1>2, <2>1, <3>1 DEF Found, Hot
      <3>3. journal' = stored[path] /\ writes'[p] > 0
        BY <2>1, <2>2, <3>1
      <3>4. NoLostUpdate'
        BY <1>2, <2>1, <3>2 DEF FileInv, NoLostUpdate
      <3>5. ASSUME NEW q \in Processes, draft'[q] # NULL
            PROVE  journal' = IF writes'[q] > 0 THEN stored'[path] ELSE NULL
        BY <2>1, <2>2, <3>1, <3>3, <3>5 DEF InTransaction
      <3> QED BY <1>2, <2>8, <3>2, <3>4, <3>5 DEF FileInv, OneFile, InTransaction
    <2>9. ASSUME orphaned PROVE FileInv'
      BY <1>2, <2>9 DEF FileInv, NoLostUpdate, OneFile
    <2> QED BY <2>4, <2>5, <2>6, <2>7, <2>8, <2>9 DEF LocksInv
  <1>6. CASE ~InTransaction(p)
    <2>1. /\ stored' = [stored EXCEPT ![f] = new] /\ journal' = NULL
          /\ updates' = [updates EXCEPT ![f] = @ + 1]
          /\ UNCHANGED <<draft, writes>>
      BY <1>6 DEF Write
    <2>2. p \in doubt /\ f \in suspect'
      BY <1>2, <1>6 DEF LocksInv, TrustIsFounded, Founded
    <2>3. stored'[f] = new /\ stored' \in [Files -> Content]
          /\ \A g \in Files \ {f} : stored'[g] = stored[g]
      BY <1>1, <1>4, <2>1 DEF LocksInv, TypeOK
    <2>4. \A q \in Processes : InTransaction(q) => stored'[conn[q]] = stored[conn[q]]
      BY <1>1, <1>2, <1>6, <2>3, NobodyHasIt
         DEF LocksInv, LockOfTransaction, TypeOK
    <2>5. LocksInv'
      BY <1>1, <1>2, <2>1, <2>3, <2>4, SameTransactionKeepsLocks, <1>6
         DEF LocksInv, TypeOK, transaction
    <2>6. View(p) = Found(f)
      BY <1>6 DEF View
    <2>7. FileInv'
      BY <1>1, <1>2, <1>4, <1>6, <2>1, <2>2, <2>3, <2>6, StatementKeepsFile
         DEF InTransaction
    <2> QED BY <2>5, <2>7
  <1> QED BY <1>5, <1>6

-----------------------------------------------------------------------------
(* A transaction is rolled back, or there is none.                         *)
LEMMA RollBackKeepsInv ==
  ASSUME LocksInv, FileInv, NEW p \in Processes, RollBack(p),
         conn' = conn \/ conn' = [conn EXCEPT ![p] = NULL],
         pc' = [pc EXCEPT ![p] = "idle"] \/ pc' = pc,
         pc[p] = "idle" \/ conn' = conn,
         trust' = [trust EXCEPT ![p] = trust'[p]], trust'[p] \subseteq trust[p],
         seen' \in {seen, [seen EXCEPT ![p] = NULL]},
         doubt' \in {doubt, doubt \union {p}, doubt \ {p}},
         "locked" \in trust'[p] => p \in doubt',
         conn'[p] = NULL => trust'[p] = {},
         UNCHANGED <<path, history>>
  PROVE  LocksInv' /\ FileInv'
  <1> USE FilesAssumption
  <1>1. /\ EndTransaction(p) /\ journal' = JournalAfter(p) /\ stored' = stored
        /\ UNCHANGED <<path, updates, suspect, orphaned>>
    BY DEF RollBack, history
  <1>2. journal' \in {journal, NULL}
    BY <1>1 DEF JournalAfter
  <1>3. /\ pc' \in [Processes -> Calls \union {"idle"}]
        /\ \A q \in Processes \ {p} : pc'[q] = pc[q]
        /\ pc'[p] \in {"idle", pc[p]}
        /\ conn'[p] = NULL => pc'[p] = "idle"
    <2>1. conn' = conn => (conn'[p] = NULL => pc[p] = "idle")
      BY DEF LocksInv, TrustIsFounded, Founded
    <2> QED BY <2>1 DEF LocksInv, TypeOK
  <1>4. /\ trust' \in [Processes -> SUBSET {"table", "locked"}]
        /\ \A q \in Processes \ {p} : trust'[q] = trust[q]
    BY DEF LocksInv, TypeOK
  <1>5. /\ seen' \in [Processes -> Nat \union {NULL}]
        /\ \A q \in Processes \ {p} : seen'[q] = seen[q]
    BY DEF LocksInv, TypeOK
  <1>6. doubt' \in SUBSET Processes
        /\ \A q \in Processes \ {p} : q \in doubt => q \in doubt'
    BY DEF LocksInv, TypeOK
  <1>7. LocksInv'
    BY <1>1, <1>2, <1>3, <1>4, <1>5, <1>6, EndKeepsLocks DEF LocksInv, TypeOK
  <1>8. ASSUME ~orphaned, path \in Files PROVE Found(path)' = Found(path)
    <2>1. Found(path) = IF journal' # NULL /\ owner'[path] = NULL
                             /\ stored[path] # Empty
                          THEN journal' ELSE stored[path]
      BY <1>8, RollBackKeepsFound
    <2> QED BY <1>1, <2>1 DEF Found, Hot
  <1>9. ASSUME NEW q \in Processes \ {p}, ~orphaned, InTransaction(q)
        PROVE  journal' = journal /\ stored'[path] = stored[path]
    <2>1. path \in Files
      BY <1>9, TransactionAlone
    <2> QED BY <1>1, <1>9, <2>1, RollBackKeepsFound
  <1>10. FileInv'
    BY <1>1, <1>4, <1>8, <1>9, EndKeepsFile
  <1> QED BY <1>7, <1>10

LEMMA CloseKeepsInv ==
  ASSUME LocksInv, FileInv, NEW p \in Processes, closeNvDatabase(p)
  PROVE  LocksInv' /\ FileInv'
  <1>1. /\ RollBack(p) /\ Disconnect(p) /\ Idle(p)
        /\ UNCHANGED <<path, history>> /\ pc' = pc
    BY DEF closeNvDatabase
  <1>2. /\ conn' = [conn EXCEPT ![p] = NULL] /\ trust' = [trust EXCEPT ![p] = {}]
        /\ seen' = [seen EXCEPT ![p] = NULL] /\ doubt' = doubt \ {p}
        /\ pc[p] = "idle"
    BY <1>1 DEF Disconnect, Idle
  <1>3. trust'[p] = {}
    BY <1>2 DEF LocksInv, TypeOK
  <1> QED BY <1>1, <1>2, <1>3, RollBackKeepsInv

LEMMA FailureKeepsInv ==
  ASSUME LocksInv, FileInv, NEW p \in Processes,
         StatementFails(p) \/ unlockNvDatabaseFails(p) \/ CallerFails(p)
  PROVE  LocksInv' /\ FileInv'
  <1> USE FilesAssumption
  <1>1. conn[p] \in Files
    BY ConnectionThere
       DEF StatementFails, unlockNvDatabaseFails, CallerFails, Relies, Calls,
           LocksInv, LockOfTransaction, TypeOK
  <1>2. /\ RollBack(p) \/ UNCHANGED <<files, transaction>>
        /\ UNCHANGED <<path, conn, history>>
    BY DEF StatementFails, unlockNvDatabaseFails, CallerFails
  <1>3. /\ pc' = [pc EXCEPT ![p] = "idle"]
        /\ trust'[p] \subseteq trust[p] /\ trust' = [trust EXCEPT ![p] = trust'[p]]
        /\ seen' \in {seen, [seen EXCEPT ![p] = NULL]}
        /\ doubt' \in {doubt, doubt \union {p}, doubt \ {p}}
        /\ "locked" \in trust'[p] =>
             doubt \subseteq doubt' /\ (RollBack(p) => p \in doubt' \/ ~InTransaction(p))
    <2>1. CASE StatementFails(p)
      <3>1. /\ pc' = [pc EXCEPT ![p] = "idle"]
            /\ trust' = [trust EXCEPT ![p] = @ \union {}] /\ seen' = seen
            /\ doubt' = IF pc[p] = "exists" THEN doubt \union {p} ELSE doubt
            /\ pc[p] \in Calls
        BY <2>1 DEF StatementFails, Return
      <3>2. InTransaction(p) => pc[p] = "exists"
        BY <3>1 DEF LocksInv, TrustIsFounded, Founded, Calls
      <3> QED BY <3>1, <3>2 DEF LocksInv, TypeOK
    <2>2. CASE unlockNvDatabaseFails(p) \/ CallerFails(p)
      <3>1. pc' = pc /\ pc[p] = "idle" /\ GiveUp(p)
        BY <2>2 DEF unlockNvDatabaseFails, CallerFails, Relies, Idle
      <3> QED BY <3>1 DEF LocksInv, TypeOK, GiveUp
    <2> QED BY <2>1, <2>2
  <1>4. CASE RollBack(p) /\ InTransaction(p)
    BY <1>1, <1>2, <1>3, <1>4, RollBackKeepsInv
  <1>5. ASSUME UNCHANGED <<files, transaction>>
        PROVE  LocksInv' /\ FileInv'
    <2>1. LocksInv'
      BY <1>1, <1>2, <1>3, <1>5, SameTransactionKeepsLocks
         DEF LocksInv, TypeOK, files, transaction, history
    <2>2. FileInv'
      BY <1>2, <1>3, <1>5, SameFileKeepsFile DEF LocksInv, TypeOK
    <2> QED BY <2>1, <2>2
  <1>6. CASE RollBack(p) /\ ~InTransaction(p)
    <2>1. writes[p] = 0 /\ draft[p] = NULL /\ \A f \in Files : owner[f] # p
      BY <1>6 DEF LocksInv, TrustIsFounded, Founded, LockOfTransaction, InTransaction
    <2>2. draft' = draft /\ writes' = writes /\ journal' = journal /\ stored' = stored
      BY <1>6, <2>1 DEF RollBack, EndTransaction, JournalAfter, LocksInv, TypeOK
    <2>3. owner' = owner
      BY <1>6, <2>1 DEF RollBack, EndTransaction, LocksInv, TypeOK
    <2> QED BY <2>2, <2>3, <1>5 DEF files, transaction
  <1> QED BY <1>2, <1>4, <1>5, <1>6

LEMMA UnlockKeepsInv ==
  ASSUME LocksInv, FileInv, NEW p \in Processes, unlockNvDatabase(p)
  PROVE  LocksInv' /\ FileInv'
  <1> USE FilesAssumption
  <1> DEFINE f == conn[p]
  <1>1. /\ pc[p] = "idle" /\ InTransaction(p)
        /\ stored' = [stored EXCEPT ![f] = draft[p]]
        /\ journal' = JournalAfter(p)
        /\ updates' = [updates EXCEPT ![f] = @ + writes[p]]
        /\ EndTransaction(p) /\ GiveUp(p)
        /\ UNCHANGED <<path, conn, pc, suspect, orphaned>>
    BY DEF unlockNvDatabase, Idle
  <1>2. /\ f \in Files /\ owner[f] = p /\ draft[p] \in Content
        /\ draft[p].value = stored[f].value + writes[p]
        /\ draft[p].table = stored[f].table
        /\ writes[p] \in Nat /\ stored[f].value \in Nat
    BY <1>1 DEF LocksInv, LockOfTransaction, DraftIsAhead, InTransaction,
                TypeOK, Content
  <1>3. /\ stored' \in [Files -> Content] /\ stored'[f] = draft[p]
        /\ \A g \in Files \ {f} : stored'[g] = stored[g]
        /\ updates' \in [Files -> Nat] /\ updates'[f] = updates[f] + writes[p]
    BY <1>1, <1>2 DEF LocksInv, TypeOK
  <1>4. ASSUME NEW q \in Processes \ {p}, InTransaction(q)
        PROVE  stored'[conn[q]] = stored[conn[q]]
    BY <1>2, <1>3, <1>4 DEF LocksInv, LockOfTransaction, TypeOK
  <1>5. /\ trust' \in [Processes -> SUBSET {"table", "locked"}]
        /\ seen' \in [Processes -> Nat \union {NULL}]
        /\ doubt' \in SUBSET Processes
        /\ trust'[p] = trust[p] \ {"locked"}
        /\ \A q \in Processes \ {p} : /\ trust'[q] = trust[q] /\ seen'[q] = seen[q]
                                      /\ q \in doubt => q \in doubt'
    BY <1>1 DEF GiveUp, LocksInv, TypeOK
  <1>6. LocksInv'
    BY <1>1, <1>2, <1>3, <1>4, <1>5, EndKeepsLocks
       DEF LocksInv, TypeOK, JournalAfter
  <1>7. ASSUME ~orphaned PROVE FileInv'
    <2>1. /\ path \in Files /\ f = path
          /\ journal = IF writes[p] > 0 THEN stored[path] ELSE NULL
          /\ Found(path) = stored[path]
          /\ \A q \in Processes \ {p} : ~InTransaction(q)
      BY <1>1, <1>7, TransactionAlone
    <2>2. journal' = NULL
      BY <1>1, <2>1 DEF JournalAfter
    <2>3. Found(path)' = draft[p]
      BY <1>1, <1>3, <2>1, <2>2 DEF Found, Hot
    <2>4. NoLostUpdate'
      BY <1>1, <1>2, <1>3, <1>7, <2>1, <2>3 DEF FileInv, NoLostUpdate
    <2>5. \A q \in Processes : draft'[q] = NULL
      BY <1>1, <2>1 DEF EndTransaction, InTransaction, LocksInv, TypeOK
    <2>6. ASSUME NEW q \in Processes, "table" \in trust'[q]
          PROVE  Found(path)'.table
      BY <1>2, <1>5, <1>7, <2>1, <2>3, <2>6 DEF FileInv, OneFile
    <2> QED BY <1>1, <1>7, <2>4, <2>5, <2>6 DEF FileInv, OneFile, InTransaction
  <1>8. ASSUME orphaned PROVE FileInv'
    BY <1>1, <1>8 DEF FileInv, NoLostUpdate, OneFile
  <1> QED BY <1>6, <1>7, <1>8

LEMMA RemoveKeepsInv ==
  ASSUME LocksInv, FileInv, NEW p \in Processes, removeDatabase(p)
  PROVE  LocksInv' /\ FileInv'
  <1> USE FilesAssumption
  <1>1. /\ EndTransaction(p) /\ stored' = stored /\ journal' \in {journal, NULL}
        /\ conn' = [conn EXCEPT ![p] = NULL] /\ trust' = [trust EXCEPT ![p] = {}]
        /\ seen' = [seen EXCEPT ![p] = NULL] /\ doubt' = doubt \ {p}
        /\ path' = NULL /\ orphaned' = (orphaned \/ OthersHaveIt(p))
        /\ pc[p] = "idle" /\ UNCHANGED <<pc, updates, suspect>>
    BY DEF removeDatabase, RollBack, JournalAfter, Disconnect, Idle
  <1>2. LocksInv'
    <2>1. /\ trust' \in [Processes -> SUBSET {"table", "locked"}]
          /\ seen' \in [Processes -> Nat \union {NULL}]
          /\ doubt' \in SUBSET Processes /\ trust'[p] = {}
          /\ \A q \in Processes \ {p} : /\ trust'[q] = trust[q] /\ seen'[q] = seen[q]
                                        /\ q \in doubt => q \in doubt'
      BY <1>1 DEF LocksInv, TypeOK
    <2>2. orphaned' \in BOOLEAN
      BY <1>1 DEF OthersHaveIt, LocksInv, TypeOK
    <2>3. /\ pc' \in [Processes -> Calls \union {"idle"}]
          /\ path' \in Files \union {NULL} /\ journal' \in Content \union {NULL}
          /\ stored' \in [Files -> Content] /\ updates' \in [Files -> Nat]
          /\ suspect' \in SUBSET Files
      BY <1>1 DEF LocksInv, TypeOK
    <2> QED BY <1>1, <2>1, <2>2, <2>3, EndKeepsLocks
  <1>3. ASSUME ~orphaned' PROVE FileInv'
    <2>1. \A q \in Processes \ {p} : conn[q] = NULL
      BY <1>1, <1>3 DEF OthersHaveIt, FileInv, OneFile
    <2>2. \A q \in Processes : conn'[q] = NULL
      BY <1>1, <2>1 DEF LocksInv, TypeOK
    <2>3. \A q \in Processes : draft'[q] = NULL /\ trust'[q] = {}
      BY <1>2, <2>2 DEF LocksInv, LockOfTransaction, TrustIsFounded, Founded,
                        InTransaction
    <2>4. NoLostUpdate'
      BY <1>1 DEF NoLostUpdate
    <2> QED BY <2>2, <2>3, <2>4 DEF FileInv, OneFile, InTransaction
  <1>4. ASSUME orphaned' PROVE FileInv'
    BY <1>4 DEF FileInv, NoLostUpdate, OneFile
  <1> QED BY <1>2, <1>3, <1>4

(* A death leaves the journal of its transaction to the next statement.    *)
LEMMA CrashKeepsInv ==
  ASSUME LocksInv, FileInv, NEW p \in Processes, Crash(p)
  PROVE  LocksInv' /\ FileInv'
  <1> USE FilesAssumption
  <1> DEFINE f == conn[p]
             Torn(t) == /\ pc[p] = "create" /\ ~LockedOut(p) /\ ~Found(f).table
                        /\ t \in {Found(f), WithTable(Found(f))}
                        /\ stored' = [stored EXCEPT ![f] = t]
                        /\ journal' = Found(f)
             Spilled == /\ InTransaction(p) /\ writes[p] > 0
                        /\ stored' = [stored EXCEPT ![f] = draft[p]]
                        /\ journal' = journal
  <1>1. /\ EndTransaction(p)
        /\ conn' = [conn EXCEPT ![p] = NULL] /\ trust' = [trust EXCEPT ![p] = {}]
        /\ seen' = [seen EXCEPT ![p] = NULL] /\ doubt' = doubt \ {p}
        /\ pc' = [pc EXCEPT ![p] = "idle"]
        /\ UNCHANGED <<path, updates, suspect, orphaned>>
    BY DEF Crash, Disconnect, history
  <1>2. /\ trust' \in [Processes -> SUBSET {"table", "locked"}]
        /\ seen' \in [Processes -> Nat \union {NULL}]
        /\ doubt' \in SUBSET Processes /\ trust'[p] = {}
        /\ pc' \in [Processes -> Calls \union {"idle"}] /\ pc'[p] = "idle"
        /\ \A q \in Processes \ {p} :
             /\ pc'[q] = pc[q] /\ trust'[q] = trust[q] /\ seen'[q] = seen[q]
             /\ q \in doubt => q \in doubt'
    BY <1>1 DEF LocksInv, TypeOK
  <1>3. \/ stored' = stored /\ journal' = journal
        \/ Spilled
        \/ \E t \in Content : Torn(t)
    <2>1. pc[p] = "create" =>
            Found(f) \in Content /\ WithTable(Found(f)) \in Content
      BY ConnectionThere, FoundType DEF LocksInv, WithTable, Content
    <2> QED BY <2>1 DEF Crash, files
  <1>4. ASSUME NEW t \in Content, Torn(t)
        PROVE  /\ f \in Files /\ owner[f] = NULL /\ ~InTransaction(p)
               /\ \A q \in Processes : InTransaction(q) => conn[q] # f
               /\ Found(f) \in Content /\ Found(f) # NULL
               /\ t # Found(f) => t # Empty
    <2>1. f \in Files
      BY <1>4, ConnectionThere
    <2>2. ~InTransaction(p)
      BY <1>4 DEF LocksInv, TrustIsFounded, Founded
    <2>3. Found(f) \in Content
      BY <2>1, FoundType DEF LocksInv
    <2>4. WithTable(Found(f)).table = TRUE
      BY <2>3 DEF WithTable, Content
    <2> QED BY <1>4, <2>1, <2>2, <2>3, <2>4, EmptyType, NobodyHasIt
  <1>5. ASSUME Spilled
        PROVE  /\ f \in Files /\ owner[f] = p /\ draft[p] \in Content
               /\ draft[p] # Empty
    <2>1. /\ f \in Files /\ owner[f] = p /\ draft[p] \in Content
          /\ draft[p].value = stored[f].value + writes[p]
          /\ stored[f].value \in Nat /\ writes[p] \in Nat
      BY <1>5 DEF LocksInv, LockOfTransaction, DraftIsAhead, InTransaction,
                  TypeOK, Content
    <2> QED BY <1>5, <2>1, EmptyType
  <1>6. stored' \in [Files -> Content] /\ journal' \in Content \union {NULL}
    BY <1>3, <1>4, <1>5 DEF LocksInv, TypeOK
  <1>7. ASSUME NEW q \in Processes \ {p}, InTransaction(q)
        PROVE  stored'[conn[q]] = stored[conn[q]]
    <2>1. conn[q] \in Files /\ owner[conn[q]] = q
      BY <1>7 DEF LocksInv, LockOfTransaction, TypeOK
    <2>2. CASE Spilled
      BY <1>5, <2>1, <2>2 DEF LocksInv, TypeOK
    <2>3. ASSUME NEW t \in Content, Torn(t) PROVE stored'[conn[q]] = stored[conn[q]]
      BY <1>4, <1>7, <2>1, <2>3 DEF LocksInv, TypeOK
    <2> QED BY <1>3, <2>2, <2>3
  <1>8. LocksInv'
    BY <1>1, <1>2, <1>6, <1>7, EndKeepsLocks DEF LocksInv, TypeOK
  <1>9. ASSUME ~orphaned, path \in Files
        PROVE  /\ Found(path)' = Found(path)
               /\ \A q \in Processes \ {p} : InTransaction(q) =>
                    journal' = journal /\ stored'[path] = stored[path]
    <2>1. owner'[path] = IF owner[path] = p THEN NULL ELSE owner[path]
      BY <1>1, <1>9 DEF EndTransaction
    <2>2. CASE stored' = stored /\ journal' = journal
      <3>1. CASE InTransaction(p)
        <4>1. /\ owner[path] = p /\ Found(path) = stored[path]
              /\ journal = IF writes[p] > 0 THEN stored[path] ELSE NULL
          BY <1>9, <3>1, TransactionAlone
        <4>2. Found(path)' = stored[path]
          BY <1>1, <2>1, <2>2, <4>1 DEF Found, Hot
        <4> QED BY <2>2, <4>1, <4>2
      <3>2. CASE ~InTransaction(p)
        <4>1. owner[path] # p
          BY <1>9, <3>2 DEF LocksInv, LockOfTransaction
        <4> QED BY <1>1, <2>1, <2>2, <4>1 DEF Found, Hot
      <3> QED BY <3>1, <3>2
    <2>3. CASE Spilled
      <3>1. /\ f = path /\ owner[path] = p /\ Found(path) = stored[path]
            /\ journal = stored[path]
            /\ \A q \in Processes \ {p} : ~InTransaction(q)
        BY <1>9, <2>3, TransactionAlone
      <3>2. stored'[path] = draft[p] /\ draft[p] # Empty /\ stored[path] # NULL
        BY <1>5, <1>9, <2>3, <3>1 DEF LocksInv, TypeOK
      <3>3. Found(path)' = stored[path]
        BY <1>1, <2>1, <2>3, <3>1, <3>2 DEF Found, Hot
      <3> QED BY <3>1, <3>3
    <2>4. ASSUME NEW t \in Content, Torn(t)
          PROVE  /\ Found(path)' = Found(path)
                 /\ \A q \in Processes \ {p} : ~InTransaction(q)
      <3>1. f = path
        BY <1>4, <1>9, <2>4 DEF FileInv, OneFile
      <3>2. /\ owner'[path] = NULL /\ stored'[path] = t
            /\ journal' = Found(path) /\ Found(path) # NULL
            /\ t # Found(path) => t # Empty
        BY <1>4, <1>9, <2>1, <2>4, <3>1 DEF LocksInv, TypeOK
      <3>3. Found(path)' = Found(path)
        BY <1>1, <3>2 DEF Found, Hot
      <3>4. ASSUME NEW q \in Processes, InTransaction(q) PROVE FALSE
        <4>1. conn[q] # NULL
          BY <3>4 DEF LocksInv, LockOfTransaction
        <4> QED BY <1>4, <1>9, <2>4, <3>1, <3>4, <4>1 DEF FileInv, OneFile
      <3> QED BY <3>3, <3>4
    <2> QED BY <1>3, <2>2, <2>3, <2>4
  <1>10. FileInv'
    <2>1. \A q \in Processes : ~orphaned /\ InTransaction(q) => path \in Files
      BY TransactionAlone
    <2> QED BY <1>1, <1>2, <1>9, <2>1, EndKeepsFile
  <1> QED BY <1>8, <1>10

-----------------------------------------------------------------------------
LEMMA NextKeepsInv == DatabaseInv /\ [Next]_vars => DatabaseInv'
  <1> SUFFICES ASSUME LocksInv, FileInv, [Next]_vars PROVE LocksInv' /\ FileInv'
    BY InvParts DEF DatabaseInv, LocksInv, FileInv
  <1>1. ASSUME NEW p \in Processes, openNvDatabase(p) PROVE LocksInv' /\ FileInv'
    BY <1>1, OpenKeepsInv
  <1>2. ASSUME NEW p \in Processes, closeNvDatabase(p)
        PROVE  LocksInv' /\ FileInv'
    BY <1>2, CloseKeepsInv
  <1>3. ASSUME NEW p \in Processes, removeDatabase(p) PROVE LocksInv' /\ FileInv'
    BY <1>3, RemoveKeepsInv
  <1>4. ASSUME NEW p \in Processes, lockNvDatabase(p) \/ tableExists(p)
        PROVE  LocksInv' /\ FileInv'
    BY <1>4, EntryKeepsInv
  <1>5. ASSUME NEW p \in Processes, unlockNvDatabase(p)
        PROVE  LocksInv' /\ FileInv'
    BY <1>5, UnlockKeepsInv
  <1>6. ASSUME NEW p \in Processes,
               StatementFails(p) \/ unlockNvDatabaseFails(p) \/ CallerFails(p)
        PROVE  LocksInv' /\ FileInv'
    BY <1>6, FailureKeepsInv
  <1>7. ASSUME NEW p \in Processes, createSecureTable(p)
        PROVE  LocksInv' /\ FileInv'
    BY <1>7, CreateKeepsInv
  <1>8. ASSUME NEW p \in Processes, Locked(p) PROVE LocksInv' /\ FileInv'
    BY <1>8, LockedKeepsInv
  <1>9. ASSUME NEW p \in Processes, TableCounted(p) \/ Read(p)
        PROVE  LocksInv' /\ FileInv'
    BY <1>9, QuestionKeepsInv
  <1>10. ASSUME NEW p \in Processes, Write(p) PROVE LocksInv' /\ FileInv'
    BY <1>10, WriteKeepsInv
  <1>11. ASSUME NEW p \in Processes, Crash(p) PROVE LocksInv' /\ FileInv'
    BY <1>11, CrashKeepsInv
  <1>12. CASE UNCHANGED vars
    <2>1. UNCHANGED <<path, stored, journal, owner, draft, writes, conn, pc,
                      seen, trust, doubt, updates, suspect, orphaned>>
      BY <1>12 DEF vars, files, transaction, caller, history
    <2>2. TypeOK' /\ LockOfTransaction' /\ FileInv'
      BY <2>1 DEF LocksInv, TypeOK, LockOfTransaction, FileInv, NoLostUpdate,
                  OneFile, Found, Hot, InTransaction
    <2>3. DraftIsAhead' /\ TrustIsFounded'
      BY <2>1 DEF LocksInv, DraftIsAhead, TrustIsFounded, Founded, InTransaction
    <2> QED BY <2>2, <2>3 DEF LocksInv
  <1> QED
    BY <1>1, <1>2, <1>3, <1>4, <1>5, <1>6, <1>7, <1>8, <1>9, <1>10, <1>11,
       <1>12 DEF Next, Step

LEMMA DatabaseInvariant == Spec => []DatabaseInv
  BY InitInv, NextKeepsInv, PTL DEF Spec

(* Type correctness of the connections, transactions, files and callers.   *)
THEOREM TypeCorrect == Spec => []TypeOK
  <1>1. DatabaseInv => TypeOK
    BY DEF DatabaseInv
  <1> QED BY DatabaseInvariant, <1>1, PTL

(* The updates made between a lockNvDatabase that answered SQLITE_OK and   *)
(* its unlock all count, for any number of processes and files, wherever   *)
(* a statement fails, a transaction is rolled back or a process dies, with *)
(* the two exceptions that NoLostUpdate names: a database unlinked under   *)
(* an open connection, and one updated by a caller whom tableExists had    *)
(* answered SQLITE_ERROR.                                                  *)
THEOREM UpdatesAreKept == Spec => []NoLostUpdate
  <1>1. DatabaseInv => NoLostUpdate
    BY DEF DatabaseInv
  <1> QED BY DatabaseInvariant, <1>1, PTL

(* SQLITE_OK of openNvDatabase and of tableExists stays true as long as    *)
(* the connection is open: no rollback, no journal of a dead process and   *)
(* no removal takes the table, but that of a file under an open connection.*)
THEOREM TableStaysThereAlways == Spec => []TableStaysThere
  <1> USE FilesAssumption
  <1>1. ASSUME DatabaseInv PROVE TableStaysThere
    <2> SUFFICES ASSUME ~orphaned, NEW p \in Processes, "table" \in trust[p]
                 PROVE  View(p).table
      BY DEF TableStaysThere
    <2>1. LocksInv /\ FileInv
      BY <1>1, InvParts
    <2>2. conn[p] \in Files /\ conn[p] = path /\ Found(path).table
      BY <2>1, ConnectionThere DEF FileInv, OneFile
    <2>3. CASE InTransaction(p)
      BY <2>1, <2>2, <2>3, TransactionAlone DEF View, LocksInv, DraftIsAhead
    <2>4. CASE ~InTransaction(p)
      BY <2>2, <2>4 DEF View
    <2> QED BY <2>3, <2>4
  <1>2. DatabaseInv => TableStaysThere
    BY <1>1
  <1> QED BY DatabaseInvariant, <1>2, PTL
=============================================================================
