----------------------------- MODULE RightsStore -----------------------------
(***************************************************************************)
(* What the rights store promises to its callers, whatever the database    *)
(* does: a set of authentic records, at most one per key.  A save may drop *)
(* the record it replaces before it puts the new one, an acknowledged save *)
(* has put its record, and a read answers with a record that was stored at *)
(* some moment of the call.  When a process dies its calls vanish and the  *)
(* stored records stay.                                                    *)
(***************************************************************************)
EXTENDS SecureRecord

CONSTANTS
  Clients,   \* the threads that call the kernel
  Writes,    \* the operations that save a record
  ByKeyId,   \* the reads that look a record up by its key identifier
  Reads,     \* all the reads
  MayFail    \* whether the storage may refuse an operation

VARIABLES
  stored,    \* the records kept
  phase,     \* per client: "idle", "asked" or "settled"
  request,   \* per client: the operation asked, or "none"
  goal,      \* per client: the record to save, or the key looked up
  result     \* per client: the record saved or found, or None

vars == <<stored, phase, request, goal, result>>

(* The records a read may answer with.                                     *)
Matches(r, t) ==
  IF request[t] \in ByKeyId THEN r.keyId = goal[t] ELSE r.key = goal[t]

Init ==
  /\ stored = {}
  /\ phase = [t \in Clients |-> "idle"]
  /\ request = [t \in Clients |-> "none"]
  /\ goal = [t \in Clients |-> None]
  /\ result = [t \in Clients |-> None]

Settle(t, r) ==
  /\ phase[t] = "asked"
  /\ phase' = [phase EXCEPT ![t] = "settled"]
  /\ result' = [result EXCEPT ![t] = r]
  /\ UNCHANGED <<request, goal>>

Ask(t) ==
  /\ phase[t] = "idle"
  /\ phase' = [phase EXCEPT ![t] = "asked"]
  /\ \/ \E op \in Writes, r \in Record :
          /\ request' = [request EXCEPT ![t] = op]
          /\ goal' = [goal EXCEPT ![t] = r]
     \/ \E op \in Reads, k \in Keys \union KeyIds :
          /\ request' = [request EXCEPT ![t] = op]
          /\ goal' = [goal EXCEPT ![t] = k]
  /\ result' = [result EXCEPT ![t] = None]
  /\ UNCHANGED stored

(* A save is refused because the record is not authentic, or by a failure. *)
Refuse(t) ==
  /\ request[t] \in Writes
  /\ MayFail \/ ~checkRecordCrypto(goal[t])
  /\ Settle(t, None)
  /\ UNCHANGED stored

Remove(t) ==
  /\ phase[t] = "asked"
  /\ request[t] \in Writes
  /\ checkRecordCrypto(goal[t])
  /\ stored' = {r \in stored : r.key # goal[t].key}
  /\ UNCHANGED <<phase, request, goal, result>>

Put(t) ==
  /\ request[t] \in Writes
  /\ checkRecordCrypto(goal[t])
  /\ \A r \in stored : r.key # goal[t].key
  /\ stored' = stored \union {goal[t]}
  /\ Settle(t, goal[t])

Find(t) ==
  /\ request[t] \in Reads
  /\ \E r \in stored : Matches(r, t) /\ Settle(t, r)
  /\ UNCHANGED stored

Miss(t) ==
  /\ request[t] \in Reads
  /\ MayFail \/ ~ \E r \in stored : Matches(r, t)
  /\ Settle(t, None)
  /\ UNCHANGED stored

Answer(t) ==
  /\ phase[t] = "settled"
  /\ phase' = [phase EXCEPT ![t] = "idle"]
  /\ \/ UNCHANGED result
     \/ MayFail /\ result' = [result EXCEPT ![t] = None]
  /\ UNCHANGED <<stored, request, goal>>

Die(D) ==
  /\ phase' = [t \in Clients |-> IF t \in D THEN "idle" ELSE phase[t]]
  /\ request' = [t \in Clients |-> IF t \in D THEN "none" ELSE request[t]]
  /\ goal' = [t \in Clients |-> IF t \in D THEN None ELSE goal[t]]
  /\ result' = [t \in Clients |-> IF t \in D THEN None ELSE result[t]]
  /\ UNCHANGED stored

Next ==
  \/ \E t \in Clients :
       \/ Ask(t) \/ Refuse(t) \/ Remove(t) \/ Put(t)
       \/ Find(t) \/ Miss(t) \/ Answer(t)
  \/ \E D \in SUBSET Clients : Die(D)

Spec == Init /\ [][Next]_vars
=============================================================================
