--------------------------- MODULE DrmInfoExchange ---------------------------
(***************************************************************************)
(* Registration of the device through NvDrmPlugin: onProcessDrmInfo and    *)
(* onAcquireDrmInfo, with the conversions between Android's objects and    *)
(* the kernel's structures, and the kernel's list of attributes.           *)
(*                                                                         *)
(* A name is the sequence of its characters, a text the sequence of its    *)
(* pieces.  An Android object is a record with its attributes as a         *)
(* function.  The rights store behind the kernel is the abstract one of    *)
(* RightsStore with its storage working (DrmStore has the failures): one   *)
(* registration record, which a save removes before it puts the new one.   *)
(* A process may die at any step: a crash, or an exit(1) of the code.      *)
(***************************************************************************)
EXTENDS Naturals, Sequences

CONSTANTS
  NameOrder,      \* the names of attributes, in the order of String8's <
  PERSO,          \* the name "PERSO"
  UNIQUE_ID,      \* the name "UNIQUE_ID"
  Tags,           \* the texts of attributes callers present
  AuthenticTags,  \* those that are the tag of a registration record
  MimeTypes,
  EmptyMime,      \* the mime type ""
  DrmInfos,       \* the DrmInfo objects callers present
  Requests,       \* the DrmInfoRequest objects callers present
  None            \* NULL: no object, no record, no value

Names == {NameOrder[i] : i \in DOMAIN NameOrder}
Yes == <<"yes">>

(* DrmInfoRequest::TYPE_* and NV_DrmInfoRequest_TYPE_* are the same numbers *)
Registration == 1
Unregistration == 2
InfoTypes == 1..4

Droid == [infoType : Nat, mimeType : MimeTypes,
          attributes : UNION {[S -> Tags] : S \in SUBSET Names}]

ASSUME ExchangeAssumption ==
  /\ {PERSO, UNIQUE_ID} \subseteq Names
  /\ NameOrder \in Seq(Seq(STRING))
  /\ Tags \subseteq Seq(STRING)
  /\ AuthenticTags \subseteq Tags
  /\ EmptyMime \in MimeTypes
  /\ DrmInfos \subseteq Droid /\ Requests \subseteq Droid
  /\ None \notin Seq(STRING)

VARIABLES
  pc,        \* what the call does next
  op,        \* "process", "acquire" or "none": the call, or the last one
  arg,       \* the Android object the call was given
  todo,      \* the names that the key iterator has still to give
  list,      \* pattributes: the attributes, in the order of the list
  stored,    \* the tag of the registration record in the store, or None
  answer,    \* what the call returned
  possible   \* history: what the store may hold, as far as callers know

vars == <<pc, op, arg, todo, list, stored, answer, possible>>

(* A text that strdup copies from a tag without a final NUL.               *)
Unterminated(t) == {t, Append(t, "trailing bytes")}

Texts == Tags \union {Yes} \union UNION {Unterminated(t) : t \in Tags}
Attribute == [name : Names, value : Texts]

NoAnswer == [kind |-> "none"]
Null == [kind |-> "null"]
Status(infoType, mimeType, code) ==
  [kind |-> "status", infoType |-> infoType, mimeType |-> mimeType,
   code |-> code]
Info(infoType, mimeType, attributes) ==
  [kind |-> "info", infoType |-> infoType, mimeType |-> mimeType,
   attributes |-> attributes]

TypeOK ==
  /\ pc \in {"idle", "header", "attributes", "kernel", "delete", "insert",
             "null", "map", "toDroid"}
  /\ op \in {"none", "process", "acquire"}
  /\ arg \in DrmInfos \union Requests \union {None}
  /\ todo \in SUBSET Names
  /\ list \in Seq(Attribute)
  /\ stored \in AuthenticTags \union {None}
  /\ answer.kind \in {"none", "null", "status", "info"}
  /\ possible \in SUBSET (AuthenticTags \union {None})

Init ==
  /\ pc = "idle" /\ op = "none"
  /\ arg = None
  /\ todo = {} /\ list = <<>>
  /\ stored = None
  /\ answer = NoAnswer
  /\ possible = {None}

-----------------------------------------------------------------------------
(* The list of attributes.                                                 *)

MatchesReversed(name, key) ==    \* mutant: strncmp over strlen(key)
  Len(key) <= Len(name) /\ \A i \in DOMAIN key : name[i] = key[i]

(* strncmp(name, key, strlen(name)) = 0: the name is a prefix of the key.  *)
Matches(name, key) ==
  Len(name) <= Len(key) /\ \A i \in DOMAIN name : name[i] = key[i]

Matching(l, key) == {i \in DOMAIN l : Matches(l[i].name, key)}

First(S) == CHOOSE i \in S : \A j \in S : i <= j

(* Neither of the two names that the kernel puts hides the other.          *)
ASSUME NamesAssumption == ~ Matches(PERSO, UNIQUE_ID)

(* The value of the first attribute that matches, or NULL.                 *)
DrmInfo_AttributeGet(l, key) ==
  IF Matching(l, key) = {} THEN None ELSE l[First(Matching(l, key))].value

PutValueAsName(l, key, val) ==    \* mutant: strdup(val) for both fields
  IF Matching(l, key) = {}
  THEN Append(l, [name |-> val, value |-> val])
  ELSE [l EXCEPT ![First(Matching(l, key))].value = val]

PutOverHead(l, key, val) ==    \* mutant: the name is not compared
  IF l = <<>>
  THEN <<[name |-> key, value |-> val]>>
  ELSE [l EXCEPT ![1].value = val]

(* The first attribute that matches gets the value and keeps its name;     *)
(* without one, a new attribute goes to the tail.                          *)
DrmInfo_AttributePut(l, key, val) ==
  IF Matching(l, key) = {}
  THEN Append(l, [name |-> key, value |-> val])
  ELSE [l EXCEPT ![First(Matching(l, key))].value = val]

-----------------------------------------------------------------------------
(* Calls of the plugin, and the end of its process.                        *)

(* Android keeps attributes sorted by name, and iterates in that order:    *)
(* the key that the iterator over the names S gives next.                  *)
KeyIterator(S) == NameOrder[First({i \in DOMAIN NameOrder : NameOrder[i] \in S})]

Call(o, object, start) ==
  /\ pc = "idle" /\ pc' = start
  /\ op' = o
  /\ arg' = object
  /\ todo' = DOMAIN object.attributes
  /\ list' = <<>>
  /\ answer' = NoAnswer
  /\ UNCHANGED <<stored, possible>>

Die ==
  /\ pc' = "idle" /\ op' = "none"
  /\ todo' = {} /\ list' = <<>>
  /\ answer' = NoAnswer
  /\ UNCHANGED <<arg, stored, possible>>

Crash == pc # "idle" /\ Die

(* NV_ASSERT of the plugin on the NULL of a conversion: exit(255).         *)
ExitOnNull == pc = "null" /\ Die

onProcessDrmInfo == \E i \in DrmInfos : Call("process", i, "header")

(* An empty mime type makes DrmInfoRequest_droid2nv return NULL.           *)
onAcquireDrmInfo ==
  \E r \in Requests :
    Call("acquire", r, IF r.mimeType = EmptyMime THEN "null" ELSE "map")

-----------------------------------------------------------------------------
(* DrmInfo_droid2nv and DrmInfoRequest_droid2nv.                           *)

Goto(from, to) ==
  pc = from /\ pc' = to /\ UNCHANGED <<op, arg, stored, answer, possible>>

InfoTypeFallsThrough(n) ==    \* mutant: a break is missing
  IF n = Registration THEN Unregistration
  ELSE IF n \in InfoTypes THEN n ELSE 0

(* The switch of the four conversions: an unknown type becomes 0.          *)
InfoType(n) == IF n \in InfoTypes THEN n ELSE 0

(* The structure, its mime type, its buffer and the buffer's data: each    *)
(* failed allocation frees those before it.                                *)
CopyHeader ==
  /\ Goto("header", "attributes") \/ Goto("header", "null")
  /\ UNCHANGED <<todo, list>>

(* An attribute copied at the tail of the list.                            *)
CopyAttribute ==
  LET key == KeyIterator(todo)
  IN /\ todo # {}
     /\ list' = Append(list, [name |-> key, value |-> arg.attributes[key]])
     /\ todo' = todo \ {key}
     /\ Goto("attributes", "attributes")

AttributeSkipped ==    \* mutant: the loop goes on without the attribute
  /\ todo # {}
  /\ Goto("attributes", "attributes")
  /\ todo' = todo \ {KeyIterator(todo)}
  /\ UNCHANGED list

(* A node, a name or a value that cannot be allocated ends the conversion. *)
AttributeFails ==
  /\ todo # {}
  /\ Goto("attributes", "null")
  /\ list' = <<>>
  /\ UNCHANGED todo

AttributesCopied ==
  /\ todo = {}
  /\ Goto("attributes", "kernel")
  /\ UNCHANGED <<todo, list>>

(* The map of a request is linked through pointers that nobody initialised *)
(* (requestInformationMap and each node's next).  An append ends well when *)
(* they are zero by chance; otherwise it walks into memory that is not the *)
(* process's, which is a Crash.  The kernel reads nothing of the map.      *)
CopyMapNode ==
  /\ todo # {}
  /\ Goto("map", "map") \/ Goto("map", "null")
  /\ todo' = todo \ {KeyIterator(todo)}
  /\ UNCHANGED list

MapCopied ==
  /\ todo = {}
  /\ Goto("map", "kernel")
  /\ UNCHANGED <<todo, list>>

-----------------------------------------------------------------------------
(* The kernel: DrmKernel_NvDrmPlugin_onProcessDrmInfo.                     *)

Processing(infoTypes) ==
  /\ pc = "kernel" /\ op = "process"
  /\ InfoType(arg.infoType) \in infoTypes
  /\ UNCHANGED <<op, arg, todo, list, stored>>

AnswerStatus(code) ==
  answer' = Status(InfoType(arg.infoType), arg.mimeType, code)

PersoTag == DrmInfo_AttributeGet(list, PERSO)

(* insertRecord verifies the record, whose _keyId is uninitialised: even   *)
(* an authentic tag may be refused.                                        *)
RegisterRefused ==
  /\ Processing({Registration})
  /\ PersoTag # None
  /\ AnswerStatus("error")
  /\ pc' = "toDroid"
  /\ UNCHANGED possible

(* memcmp with the NULL tag of a missing attribute.                        *)
RegisterWithoutTag ==
  /\ pc = "kernel" /\ op = "process"
  /\ InfoType(arg.infoType) = Registration
  /\ PersoTag = None
  /\ Die

RegisterVerified ==
  /\ Processing({Registration})
  /\ PersoTag \in AuthenticTags
  /\ possible' = possible \union {None, PersoTag}
  /\ pc' = "delete"
  /\ UNCHANGED answer

DeleteRegistration ==
  /\ pc = "delete" /\ pc' = "insert"
  /\ stored' = None
  /\ UNCHANGED <<op, arg, todo, list, answer, possible>>

InsertRegistration ==
  /\ pc = "insert" /\ pc' = "toDroid"
  /\ stored' = PersoTag
  /\ AnswerStatus("ok")
  /\ UNCHANGED <<op, arg, todo, list, possible>>

(* The other types answer STATUS_OK and do nothing.                        *)
ProcessOther ==
  /\ Processing(InfoTypes \ {Registration})
  /\ AnswerStatus("ok")
  /\ pc' = "toDroid"
  /\ UNCHANGED possible

ProcessUnknown ==
  /\ Processing({0})
  /\ answer' = Null
  /\ pc' = "toDroid"
  /\ UNCHANGED possible

-----------------------------------------------------------------------------
(* DrmKernel_NvDrmPlugin_onAcquireDrmInfo: a registered device's "PERSO"   *)
(* and "UNIQUE_ID", the latter copied from a tag without a final NUL.      *)

KernelAcquire ==
  /\ pc = "kernel" /\ pc' = "toDroid"
  /\ op = "acquire"
  /\ IF InfoType(arg.infoType) = Registration /\ stored # None
     THEN \E id \in Unterminated(stored) :
            list' = DrmInfo_AttributePut(
                      DrmInfo_AttributePut(<<>>, PERSO, Yes), UNIQUE_ID, id)
     ELSE list' = <<>>
  /\ UNCHANGED <<op, arg, todo, stored, answer, possible>>

-----------------------------------------------------------------------------
(* DrmInfoStatus_nv2droid and DrmInfo_nv2droid, and the return.            *)

(* put() of each attribute in turn: the last of a name stays.  (A status   *)
(* whose mime type could not be copied is a Crash: String8 of a NULL.)     *)
Attributes(l) ==
  [name \in {l[i].name : i \in DOMAIN l} |->
     l[CHOOSE i \in DOMAIN l :
         l[i].name = name /\ \A j \in i + 1..Len(l) : l[j].name # name].value]

StatusToDroid ==
  /\ pc = "toDroid" /\ pc' = "idle"
  /\ op = "process"
  /\ possible' =
       IF answer.kind = "status" /\ answer.infoType = Registration
          /\ answer.code = "ok"
       THEN {stored} ELSE possible
  /\ UNCHANGED <<op, arg, todo, list, stored, answer>>

InfoToDroid ==
  /\ pc = "toDroid" /\ pc' = "idle"
  /\ op = "acquire"
  /\ answer' = Info(InfoType(InfoType(arg.infoType)), arg.mimeType,
                    Attributes(list))
  /\ UNCHANGED <<op, arg, todo, list, stored, possible>>

Next ==
  \/ Crash \/ ExitOnNull
  \/ onProcessDrmInfo \/ onAcquireDrmInfo
  \/ CopyHeader \/ CopyAttribute \/ AttributeFails \/ AttributesCopied
  \/ CopyMapNode \/ MapCopied
  \/ RegisterRefused \/ RegisterWithoutTag \/ RegisterVerified
  \/ DeleteRegistration \/ InsertRegistration
  \/ ProcessOther \/ ProcessUnknown
  \/ KernelAcquire \/ StatusToDroid \/ InfoToDroid

Spec == Init /\ [][Next]_vars

-----------------------------------------------------------------------------
(* PROPERTIES                                                              *)

(* No name of the object is a proper prefix of "PERSO".  With one, the     *)
(* kernel would take that attribute's value for the tag.                   *)
Unambiguous(object) ==
  \A n \in 0..Len(PERSO) - 1 :
    SubSeq(PERSO, 1, n) \notin DOMAIN object.attributes

(* An acknowledged registration has stored the tag that the caller gave    *)
(* under "PERSO", whatever the other attributes and the failures and       *)
(* deaths of earlier calls.                                                *)
RegisteredAsAsked ==
  pc = "idle" /\ op = "process" /\ answer.kind = "status"
    /\ answer.infoType = Registration /\ answer.code = "ok"
    /\ Unambiguous(arg) =>
      PERSO \in DOMAIN arg.attributes /\ stored = arg.attributes[PERSO]

(* What onAcquireDrmInfo says of the registration is what the last         *)
(* acknowledged one, or one interrupted or under way since, has left: a    *)
(* device is "yes" with the identifier registered, or nothing at all.      *)
AcquiredIsRegistered ==
  pc = "idle" /\ answer.kind = "info" /\ answer.infoType = Registration =>
    \/ DOMAIN answer.attributes = {} /\ None \in possible
    \/ /\ DOMAIN answer.attributes = {PERSO, UNIQUE_ID}
       /\ answer.attributes[PERSO] = Yes
       /\ \E tag \in possible \ {None} :
            answer.attributes[UNIQUE_ID] \in Unterminated(tag)

(* An answer is of the type and the mime type that were asked, and there   *)
(* is none only for an unknown type given to onProcessDrmInfo.             *)
AnswerIsOfTheCall ==
  pc = "idle" /\ op # "none" =>
    \/ /\ answer.kind \in {"status", "info"}
       /\ answer.mimeType = arg.mimeType
       /\ answer.infoType = arg.infoType \/ arg.infoType \notin InfoTypes
    \/ answer.kind = "null" /\ arg.infoType \notin InfoTypes

(* The kernel works on all the attributes of the object or on none: a      *)
(* conversion that ran out of memory half way never reaches it.            *)
ConversionIsWhole ==
  pc = "kernel" /\ op = "process" => Attributes(list) = arg.attributes

-----------------------------------------------------------------------------
(* INVARIANTS of the proofs in DrmInfoExchangeProofs.                      *)

(* The list l holds each attribute of a whose name is in S, and once.      *)
Copied(l, a, S) ==
  /\ {l[i].name : i \in DOMAIN l} = S
  /\ \A i \in DOMAIN l : l[i].value = a[l[i].name]
  /\ \A i, j \in DOMAIN l : l[i].name = l[j].name => i = j

(* A conversion works on the object of the call, and the list has its      *)
(* attributes but those that the iterator has still to give.               *)
ConversionInv ==
  LET given == DOMAIN arg.attributes
  IN /\ pc \in {"header", "attributes", "map"} =>
          arg \in Droid /\ todo \subseteq given
     /\ pc = "header" => list = <<>> /\ todo = given
     /\ pc = "attributes" => Copied(list, arg.attributes, given \ todo)
     /\ pc \in {"kernel", "delete", "insert"} /\ op = "process" =>
          arg \in Droid /\ Copied(list, arg.attributes, given)
     /\ pc \in {"header", "attributes"} => op = "process"
     /\ pc = "map" => op = "acquire"

(* A registration under way has verified its tag, one that is done has     *)
(* stored it.                                                              *)
RegistrationInv ==
  /\ pc \in {"delete", "insert"} => op = "process" /\ PersoTag \in AuthenticTags
  /\ pc \in {"toDroid", "idle"} /\ op = "process" /\ answer.kind = "status"
       /\ answer.infoType = Registration /\ answer.code = "ok"
       /\ Unambiguous(arg) =>
         PERSO \in DOMAIN arg.attributes /\ stored = arg.attributes[PERSO]
=============================================================================
