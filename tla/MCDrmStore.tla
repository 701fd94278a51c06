----------------------------- MODULE MCDrmStore -----------------------------
(* The instances of DrmStore that TLC checks: their deployments, the       *)
(* records callers present, and the calls that may fail.                   *)
EXTENDS DrmStore, RightBuffer, FiniteSets, TLC

CONSTANTS movie, perso, kid1, kid2, kc1, kc2, empty, h1, h2, w, r

(* Two rights of a movie under one key identifier (the second renews the   *)
(* first), a right whose tag is that of the other, a registration tag that *)
(* is correct when the uninitialised key identifier happens to be kid2.    *)
Right(key, keyId, contentKey) ==
  [key |-> key, keyId |-> keyId, contentKey |-> contentKey,
   tag |-> Mac(key, keyId, contentKey)]
Forged(key, keyId, contentKey, other) ==
  [Right(key, keyId, contentKey) EXCEPT !.tag = Mac(key, keyId, other)]

OneRight == {Right(movie, kid1, kc1)}
RightAndForgery == OneRight \union {Forged(movie, kid1, kc1, kc2)}
TwoRights == {Right(movie, kid1, kc1), Right(movie, kid1, kc2)}
RightsAndForgery == TwoRights \union {Forged(movie, kid1, kc1, kc2)}
PersoTag == {Mac(perso, kid2, empty)}
DamagedRight == {Forged(movie, kid1, kc2, kc1)}

(* Deployments: the drmserver w and the mediaserver r; or one host process *)
(* that loads both plugins, as the tests do.                               *)
TwoProcesses == w :> "drmserver" @@ r :> "mediaserver"
ServerCalls == w :> {"save", "register", "check", "acquire"} @@ r :> {"getkey"}

OneHostTwo == [t \in {w, r} |-> "host"]
HostTwoCalls == w :> {"save", "register"} @@ r :> {"check", "getkey"}
OneThread == [t \in {w} |-> "host"]
OneThreadCalls == w :> Ops

(* The bytes behind records, on three byte values and identifiers of keys  *)
(* of two bytes: what RightBufferProofs proves for any.                    *)
SmallIds == UNION {[1..n -> Byte \ {0}] : n \in 0..2}
SmallKeys == UNION {[1..n -> Byte] : n \in 0..2}
SmallFields == SmallIds \X KeyIdBytes \X SmallKeys
ASSUME HashedApartAssumption ==
  Cardinality({HashInput(f[1], f[2], f[3]) : f \in SmallFields})
    = Cardinality(SmallFields)
ASSUME ReadAsIssuedAssumption ==
  \A f \in SmallFields, contentId \in SmallIds, tag \in SmallKeys :
    ReadAsIssued(contentId, f[1], f[2], f[3], tag)

(* The deployments that the theorems of DrmStoreProofs ask for are those   *)
(* of the runs that check what they state.                                 *)
ASSUME RunsAsTheorems ==
  /\ Calls = ServerCalls =>
       /\ SingleWriter /\ OneThreadEach
       /\ Damaged = {} /\ Handles # {}
       /\ DeletesSucceed /\ "insert.step" \notin Faults
  /\ Calls = OneThreadCalls => OneThreadEach

HandleSymmetry == Permutations(Handles)
=============================================================================
