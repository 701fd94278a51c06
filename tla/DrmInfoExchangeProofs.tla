------------------------- MODULE DrmInfoExchangeProofs -------------------------
(* Theorems about DrmInfoExchange, for any names, texts and objects.       *)
EXTENDS DrmInfoExchange, Integers, TLAPS, SequenceTheorems,
        WellFoundedInduction

(* A set of natural numbers that is not empty has a least element.         *)
LEMMA LeastElement ==
  ASSUME NEW S, S \subseteq Nat, S # {}
  PROVE  \E i \in S : \A j \in S : i <= j
<1>1. PICK i \in S : \A j \in S : <<j, i>> \notin OpToRel(<, Nat)
  BY NatLessThanWellFounded, WFMin, Zenon
<1>2. \A j \in S : ~ (j < i)
  BY <1>1, Zenon DEF OpToRel
<1>. QED
  BY <1>2

Chars == Seq(STRING)
Entry == [name : Chars, value : Chars]

LEMMA MatchesItself == ASSUME NEW key \in Chars PROVE Matches(key, key)
BY DEF Matches, Chars

(* Where the loops of AttributeGet and AttributePut stop.                  *)
LEMMA FirstIsLeast ==
  ASSUME NEW S, S \subseteq Nat, S # {}
  PROVE  First(S) \in S /\ \A j \in S : First(S) <= j
BY LeastElement DEF First

LEMMA MatchingIsFinite ==
  ASSUME NEW l \in Seq(Entry), NEW key
  PROVE  Matching(l, key) \subseteq 1..Len(l) /\ Matching(l, key) \subseteq Nat
BY DEF Matching

(* What AttributePut has put is what AttributeGet returns, whatever the    *)
(* names in the list, those that are prefixes of the key included.         *)
THEOREM GetAfterPut ==
  ASSUME NEW l \in Seq(Entry), NEW key \in Chars, NEW val \in Chars
  PROVE  DrmInfo_AttributeGet(DrmInfo_AttributePut(l, key, val), key) = val
<1>. DEFINE M == Matching(l, key)
            put == DrmInfo_AttributePut(l, key, val)
<1>1. CASE M = {}
  <2>1. put = Append(l, [name |-> key, value |-> val])
    BY <1>1 DEF DrmInfo_AttributePut
  <2>2. \A i \in 1..Len(l) : ~ Matches(l[i].name, key)
    BY <1>1 DEF Matching
  <2>3. /\ DOMAIN put = 1..Len(l) + 1
        /\ put[Len(l) + 1] = [name |-> key, value |-> val]
        /\ \A i \in 1..Len(l) : put[i] = l[i]
    BY <2>1
  <2>4. Matching(put, key) = {Len(l) + 1}
    BY <2>2, <2>3, MatchesItself DEF Matching
  <2>5. First({Len(l) + 1}) = Len(l) + 1
    <3>1. {Len(l) + 1} \subseteq Nat /\ {Len(l) + 1} # {}
      OBVIOUS
    <3>. QED
      BY <3>1, FirstIsLeast, Zenon
  <2>. QED
    BY <2>3, <2>4, <2>5 DEF DrmInfo_AttributeGet
<1>2. CASE M # {}
  <2>. DEFINE k == First(M)
  <2>1. k \in M /\ M \subseteq 1..Len(l)
    BY <1>2, FirstIsLeast, MatchingIsFinite
  <2>2. put = [l EXCEPT ![k].value = val]
    BY <1>2 DEF DrmInfo_AttributePut
  <2>3. /\ DOMAIN put = DOMAIN l
        /\ put[k].value = val
        /\ \A i \in DOMAIN l : put[i].name = l[i].name
    <3>. HIDE DEF k
    <3>1. \A i \in DOMAIN l : l[i] \in Entry
      OBVIOUS
    <3>. QED
      BY <2>1, <2>2, <3>1 DEF Entry
  <2>4. Matching(put, key) = M
    BY <2>3 DEF Matching
  <2>. QED
    BY <1>2, <2>3, <2>4 DEF DrmInfo_AttributeGet
<1>. QED
  BY <1>1, <1>2

(* AttributePut changes what AttributeGet returns for no other key, unless *)
(* a name of the list, or the key put, is a prefix of both.                *)
THEOREM PutKeepsOthers ==
  ASSUME NEW l \in Seq(Entry), NEW key \in Chars, NEW val \in Chars,
         NEW other \in Chars,
         ~ Matches(key, other),
         \A i \in DOMAIN l :
           ~ (Matches(l[i].name, key) /\ Matches(l[i].name, other))
  PROVE  DrmInfo_AttributeGet(DrmInfo_AttributePut(l, key, val), other)
           = DrmInfo_AttributeGet(l, other)
<1>. DEFINE M == Matching(l, key)
            N == Matching(l, other)
            put == DrmInfo_AttributePut(l, key, val)
<1>1. N = {} \/ First(N) \in N
  BY FirstIsLeast, MatchingIsFinite
<1>2. CASE M = {}
  <2>1. put = Append(l, [name |-> key, value |-> val])
    BY <1>2 DEF DrmInfo_AttributePut
  <2>2. /\ DOMAIN put = 1..Len(l) + 1
        /\ put[Len(l) + 1].name = key
        /\ \A i \in 1..Len(l) : put[i] = l[i]
    BY <2>1
  <2>3. Matching(put, other) = N
    BY <2>2 DEF Matching
  <2>4. N \subseteq 1..Len(l)
    BY MatchingIsFinite
  <2>. QED
    BY <1>1, <2>2, <2>3, <2>4 DEF DrmInfo_AttributeGet
<1>3. CASE M # {}
  <2>. DEFINE k == First(M)
  <2>1. k \in M /\ M \subseteq 1..Len(l)
    BY <1>3, FirstIsLeast, MatchingIsFinite
  <2>2. put = [l EXCEPT ![k].value = val]
    BY <1>3 DEF DrmInfo_AttributePut
  <2>3. /\ DOMAIN put = DOMAIN l
        /\ \A i \in DOMAIN l : put[i].name = l[i].name
        /\ \A i \in DOMAIN l \ {k} : put[i] = l[i]
    <3>. HIDE DEF k
    <3>1. \A i \in DOMAIN l : l[i] \in Entry
      OBVIOUS
    <3>. QED
      BY <2>1, <2>2, <3>1 DEF Entry
  <2>4. Matching(put, other) = N
    BY <2>3 DEF Matching
  <2>5. k \notin N
    BY <2>1 DEF Matching
  <2>6. N \subseteq DOMAIN l
    BY DEF Matching
  <2>. QED
    BY <1>1, <2>3, <2>4, <2>5, <2>6 DEF DrmInfo_AttributeGet
<1>. QED
  BY <1>2, <1>3

-----------------------------------------------------------------------------
(* The answers about the registration.                                     *)

PersoEntry == [name |-> PERSO, value |-> Yes]
IdEntry(id) == [name |-> UNIQUE_ID, value |-> id]

LEMMA TheTwoNames == PERSO \in Chars /\ UNIQUE_ID \in Chars /\ PERSO # UNIQUE_ID
<1>1. PERSO \in Chars /\ UNIQUE_ID \in Chars
  BY ExchangeAssumption DEF Chars, Names
<1>. QED
  BY <1>1, NamesAssumption, MatchesItself

LEMMA AppendToOne == ASSUME NEW a, NEW b PROVE Append(<<a>>, b) = <<a, b>>
<1>. DEFINE s == Append(<<a>>, b)
            t == <<a, b>>
<1>1. s \in Seq({a, b}) /\ Len(s) = 2 /\ s[1] = a /\ s[2] = b
  <2>1. <<a>> \in Seq({a, b}) /\ Len(<<a>>) = 1 /\ <<a>>[1] = a
    OBVIOUS
  <2>. QED
    BY <2>1
<1>2. t \in Seq({a, b}) /\ Len(t) = 2 /\ t[1] = a /\ t[2] = b
  OBVIOUS
<1>. HIDE DEF s, t
<1>3. \A i \in 1..Len(s) : s[i] = t[i]
  BY <1>1, <1>2
<1>4. s = t
  BY <1>1, <1>2, <1>3, SeqEqual
<1>. QED
  BY <1>4 DEF s, t

(* The list that onAcquireDrmInfo builds for a registered device.          *)
LEMMA RegisteredList ==
  ASSUME NEW id
  PROVE  DrmInfo_AttributePut(
           DrmInfo_AttributePut(<<>>, PERSO, Yes), UNIQUE_ID, id)
           = <<PersoEntry, IdEntry(id)>>
<1>1. DrmInfo_AttributePut(<<>>, PERSO, Yes) = <<PersoEntry>>
  <2>1. Matching(<<>>, PERSO) = {}
    BY DEF Matching
  <2>. QED
    BY <2>1 DEF DrmInfo_AttributePut, PersoEntry
<1>2. Matching(<<PersoEntry>>, UNIQUE_ID) = {}
  BY NamesAssumption DEF Matching, PersoEntry
<1>3. DrmInfo_AttributePut(<<PersoEntry>>, UNIQUE_ID, id)
        = Append(<<PersoEntry>>, IdEntry(id))
  BY <1>2, Zenon DEF DrmInfo_AttributePut, IdEntry
<1>4. Append(<<PersoEntry>>, IdEntry(id)) = <<PersoEntry, IdEntry(id)>>
  BY AppendToOne
<1>. QED
  BY <1>1, <1>3, <1>4, Zenon

LEMMA RegisteredAttributes ==
  ASSUME NEW id
  PROVE  LET f == Attributes(<<PersoEntry, IdEntry(id)>>)
         IN /\ DOMAIN f = {PERSO, UNIQUE_ID}
            /\ f[PERSO] = Yes
            /\ f[UNIQUE_ID] = id
<1>. DEFINE l == <<PersoEntry, IdEntry(id)>>
            f == Attributes(l)
            Last(name, i) ==
              l[i].name = name /\ \A j \in i + 1..Len(l) : l[j].name # name
<1>1. /\ DOMAIN l = {1, 2} /\ Len(l) = 2
      /\ l[1].name = PERSO /\ l[2].name = UNIQUE_ID
      /\ l[1].value = Yes /\ l[2].value = id
  BY DEF PersoEntry, IdEntry
<1>. HIDE DEF l
<1>2. \A i \in DOMAIN l : Last(PERSO, i) <=> i = 1
  BY <1>1, TheTwoNames
<1>3. \A i \in DOMAIN l : Last(UNIQUE_ID, i) <=> i = 2
  BY <1>1, TheTwoNames
<1>4. f = [name \in {PERSO, UNIQUE_ID} |->
             l[CHOOSE i \in DOMAIN l : Last(name, i)].value]
  <2>1. {l[i].name : i \in DOMAIN l} = {PERSO, UNIQUE_ID}
    BY <1>1
  <2>. QED
    BY <2>1, Zenon DEF Attributes
<1>. HIDE DEF Last, f
<1>5. (CHOOSE i \in DOMAIN l : Last(PERSO, i)) = 1
  BY <1>1, <1>2
<1>6. (CHOOSE i \in DOMAIN l : Last(UNIQUE_ID, i)) = 2
  BY <1>1, <1>3
<1>7. DOMAIN f = {PERSO, UNIQUE_ID} /\ f[PERSO] = Yes /\ f[UNIQUE_ID] = id
  BY <1>1, <1>4, <1>5, <1>6
<1>. QED
  BY <1>7 DEF f, l

(* What a call under way knows of the store, and what it will answer.      *)
StoreKnown ==
  /\ stored \in possible
  /\ pc \in {"delete", "insert"} =>
       op = "process" /\ {None, PersoTag} \subseteq possible

ListOfAcquire ==
  pc = "toDroid" /\ op = "acquire" /\ InfoType(arg.infoType) = Registration =>
    \/ list = <<>> /\ None \in possible
    \/ \E tag \in possible \ {None} : \E id \in Unterminated(tag) :
         list = <<PersoEntry, IdEntry(id)>>

NoInfoUnderWay == pc # "idle" => answer.kind # "info"

ExchangeInv ==
  StoreKnown /\ ListOfAcquire /\ NoInfoUnderWay /\ AcquiredIsRegistered

LEMMA InitExchangeInv == Init => ExchangeInv
BY DEF Init, ExchangeInv, StoreKnown, ListOfAcquire, NoInfoUnderWay,
       AcquiredIsRegistered, NoAnswer

(* A death leaves the store and no answer.                                 *)
LEMMA DieExchangeInv == ExchangeInv /\ Die => ExchangeInv'
BY DEF Die, ExchangeInv, StoreKnown, ListOfAcquire, NoInfoUnderWay,
       AcquiredIsRegistered, NoAnswer

LEMMA CallExchangeInv ==
  ASSUME NEW o, NEW object, NEW start \in {"header", "null", "map"},
         ExchangeInv, Call(o, object, start)
  PROVE  ExchangeInv'
BY DEF Call, ExchangeInv, StoreKnown, ListOfAcquire, NoInfoUnderWay,
       AcquiredIsRegistered, NoAnswer

(* The steps of a conversion and of the kernel before it saves.            *)
LEMMA GotoExchangeInv ==
  ASSUME NEW from, NEW to \in {"header", "attributes", "null", "map", "kernel"},
         from # "idle", ExchangeInv, Goto(from, to)
  PROVE  ExchangeInv'
BY DEF Goto, ExchangeInv, StoreKnown, ListOfAcquire, NoInfoUnderWay,
       AcquiredIsRegistered

LEMMA ProcessExchangeInv ==
  ASSUME ExchangeInv, op = "process", pc # "idle", pc' = "toDroid",
         UNCHANGED <<op, stored, possible>>, (answer.kind)' # "info"
  PROVE  ExchangeInv'
BY DEF ExchangeInv, StoreKnown, ListOfAcquire, NoInfoUnderWay,
       AcquiredIsRegistered

LEMMA ExchangeInvInductive == ExchangeInv /\ [Next]_vars => ExchangeInv'
<1>. SUFFICES ASSUME ExchangeInv, [Next]_vars
              PROVE  ExchangeInv'
  OBVIOUS
<1>1. CASE Crash \/ ExitOnNull \/ RegisterWithoutTag
  BY <1>1, DieExchangeInv DEF Crash, ExitOnNull, RegisterWithoutTag
<1>2. CASE onProcessDrmInfo
  BY <1>2, CallExchangeInv DEF onProcessDrmInfo
<1>3. CASE onAcquireDrmInfo
  <2>1. PICK r \in Requests :
          Call("acquire", r, IF r.mimeType = EmptyMime THEN "null" ELSE "map")
    BY <1>3 DEF onAcquireDrmInfo
  <2>2. Call("acquire", r, "null") \/ Call("acquire", r, "map")
    BY <2>1
  <2>. QED
    BY <2>2, CallExchangeInv
<1>4. CASE \/ CopyHeader \/ CopyAttribute \/ AttributeFails
           \/ AttributesCopied \/ CopyMapNode \/ MapCopied
  BY <1>4, GotoExchangeInv
     DEF CopyHeader, CopyAttribute, AttributeFails, AttributesCopied,
         CopyMapNode, MapCopied
<1>5. CASE RegisterRefused \/ ProcessOther \/ ProcessUnknown
  <2>1. /\ op = "process" /\ pc # "idle" /\ pc' = "toDroid"
        /\ UNCHANGED <<op, stored, possible>> /\ (answer.kind)' # "info"
    BY <1>5 DEF RegisterRefused, ProcessOther, ProcessUnknown, Processing,
                AnswerStatus, Status, Null
  <2>. QED
    BY <2>1, ProcessExchangeInv
<1>6. CASE RegisterVerified
  <2>1. PersoTag' = PersoTag
    BY <1>6 DEF RegisterVerified, Processing, PersoTag
  <2>. QED
    BY <1>6, <2>1
       DEF RegisterVerified, Processing, ExchangeInv, StoreKnown,
           ListOfAcquire, NoInfoUnderWay, AcquiredIsRegistered
<1>7. CASE DeleteRegistration
  <2>1. PersoTag' = PersoTag
    BY <1>7 DEF DeleteRegistration, PersoTag
  <2>. QED
    BY <1>7, <2>1
       DEF DeleteRegistration, ExchangeInv, StoreKnown, ListOfAcquire,
           NoInfoUnderWay, AcquiredIsRegistered
<1>8. CASE InsertRegistration
  BY <1>8
     DEF InsertRegistration, AnswerStatus, Status, ExchangeInv, StoreKnown,
         ListOfAcquire, NoInfoUnderWay, AcquiredIsRegistered
<1>9. CASE KernelAcquire
  <2>1. /\ pc = "kernel" /\ pc' = "toDroid"
        /\ UNCHANGED <<op, arg, stored, possible, answer>>
    BY <1>9 DEF KernelAcquire
  <2>2. StoreKnown' /\ NoInfoUnderWay' /\ AcquiredIsRegistered'
    BY <2>1 DEF ExchangeInv, StoreKnown, NoInfoUnderWay, AcquiredIsRegistered
  <2>3. ASSUME InfoType(arg.infoType) = Registration
        PROVE  \/ list' = <<>> /\ None \in possible
               \/ \E tag \in possible \ {None} : \E id \in Unterminated(tag) :
                    list' = <<PersoEntry, IdEntry(id)>>
    <3>1. CASE stored = None
      BY <1>9, <3>1 DEF KernelAcquire, ExchangeInv, StoreKnown
    <3>2. CASE stored # None
      <4>1. PICK id \in Unterminated(stored) :
              list' = DrmInfo_AttributePut(
                        DrmInfo_AttributePut(<<>>, PERSO, Yes), UNIQUE_ID, id)
        BY <1>9, <2>3, <3>2 DEF KernelAcquire
      <4>2. list' = <<PersoEntry, IdEntry(id)>>
        BY <4>1, RegisteredList
      <4>. QED
        BY <3>2, <4>1, <4>2 DEF ExchangeInv, StoreKnown
    <3>. QED
      BY <3>1, <3>2
  <2>4. ListOfAcquire'
    BY <2>1, <2>3 DEF ListOfAcquire
  <2>. QED
    BY <2>2, <2>4 DEF ExchangeInv
<1>10. CASE StatusToDroid
  BY <1>10
     DEF StatusToDroid, ExchangeInv, StoreKnown, ListOfAcquire,
         NoInfoUnderWay, AcquiredIsRegistered
<1>11. CASE InfoToDroid
  <2>1. /\ pc = "toDroid" /\ pc' = "idle" /\ op = "acquire"
        /\ answer' = Info(InfoType(InfoType(arg.infoType)), arg.mimeType,
                          Attributes(list))
        /\ UNCHANGED <<op, arg, stored, possible>>
    BY <1>11 DEF InfoToDroid
  <2>2. StoreKnown' /\ NoInfoUnderWay' /\ ListOfAcquire'
    BY <2>1 DEF ExchangeInv, StoreKnown, NoInfoUnderWay, ListOfAcquire
  <2>3. (answer.infoType)' = InfoType(InfoType(arg.infoType))
        /\ (answer.attributes)' = Attributes(list)
    BY <2>1 DEF Info
  <2>4. ASSUME (answer.infoType)' = Registration
        PROVE  InfoType(arg.infoType) = Registration
    BY <2>3, <2>4 DEF InfoType, InfoTypes, Registration
  <2>5. ASSUME list = <<>>
        PROVE  DOMAIN Attributes(list) = {}
    BY <2>5 DEF Attributes
  <2>6. AcquiredIsRegistered'
    <3>1. SUFFICES ASSUME (answer.infoType)' = Registration
                   PROVE  \/ DOMAIN (answer.attributes)' = {} /\ None \in possible
                          \/ /\ DOMAIN (answer.attributes)' = {PERSO, UNIQUE_ID}
                             /\ (answer.attributes[PERSO])' = Yes
                             /\ \E tag \in possible \ {None} :
                                  (answer.attributes[UNIQUE_ID])'
                                    \in Unterminated(tag)
      BY <2>1 DEF AcquiredIsRegistered
    <3>2. CASE list = <<>> /\ None \in possible
      BY <2>3, <2>5, <3>2
    <3>3. CASE \E tag \in possible \ {None} : \E id \in Unterminated(tag) :
                 list = <<PersoEntry, IdEntry(id)>>
      <4>0. PICK tag \in possible \ {None} :
              \E id \in Unterminated(tag) : list = <<PersoEntry, IdEntry(id)>>
        BY <3>3
      <4>1. PICK id \in Unterminated(tag) :
              list = <<PersoEntry, IdEntry(id)>>
        BY <4>0
      <4>. QED
        BY <2>3, <4>1, RegisteredAttributes
    <3>. QED
      BY <2>1, <2>4, <3>1, <3>2, <3>3 DEF ExchangeInv, ListOfAcquire
  <2>. QED
    BY <2>2, <2>6 DEF ExchangeInv
<1>12. CASE UNCHANGED vars
  BY <1>12
     DEF vars, ExchangeInv, StoreKnown, ListOfAcquire, NoInfoUnderWay,
         AcquiredIsRegistered, PersoTag
<1>. QED
  BY <1>1, <1>2, <1>3, <1>4, <1>5, <1>6, <1>7, <1>8, <1>9, <1>10, <1>11, <1>12
     DEF Next

(* onAcquireDrmInfo reports a registration iff the store may hold one, and *)
(* then the identifier that was registered, for any names and texts and    *)
(* any deaths of the process.                                              *)
THEOREM AcquiredIsWhatWasRegistered == Spec => []AcquiredIsRegistered
<1>1. Init => ExchangeInv
  BY InitExchangeInv
<1>2. ExchangeInv /\ [Next]_vars => ExchangeInv'
  BY ExchangeInvInductive
<1>3. ExchangeInv => AcquiredIsRegistered
  BY DEF ExchangeInv
<1>. QED
  BY <1>1, <1>2, <1>3, PTL DEF Spec

-----------------------------------------------------------------------------
(* What the kernel is about to return: the status of the call's type and   *)
(* mime type, or nothing for an unknown type.                              *)
StatusUnderWay ==
  pc = "toDroid" /\ op = "process" =>
    \/ /\ answer.kind = "status"
       /\ answer.mimeType = arg.mimeType
       /\ answer.infoType = InfoType(arg.infoType)
    \/ answer.kind = "null" /\ InfoType(arg.infoType) = 0

CallUnderWay ==
  /\ pc # "idle" => op \in {"process", "acquire"}
  /\ pc \in {"delete", "insert"} => op = "process"

AnswerInv == StatusUnderWay /\ CallUnderWay /\ AnswerIsOfTheCall

(* A type that the conversions keep is the caller's; the others become 0.  *)
LEMMA TypeKeptOrUnknown ==
  ASSUME NEW n
  PROVE  /\ InfoType(InfoType(n)) = InfoType(n)
         /\ InfoType(n) = n \/ n \notin InfoTypes
         /\ InfoType(n) = 0 => n \notin InfoTypes
BY DEF InfoType, InfoTypes

(* The steps on the way to the kernel, and within it before it answers.    *)
LEMMA StepAnswerInv ==
  ASSUME AnswerInv, pc # "idle", pc' \notin {"idle", "toDroid"},
         UNCHANGED <<op, arg, answer>>,
         pc' \in {"delete", "insert"} => op = "process"
  PROVE  AnswerInv'
BY DEF AnswerInv, StatusUnderWay, CallUnderWay, AnswerIsOfTheCall

LEMMA StatusAnswerInv ==
  ASSUME AnswerInv, op = "process", pc' = "toDroid", UNCHANGED <<op, arg>>,
         \/ \E code : AnswerStatus(code)
         \/ answer' = Null /\ InfoType(arg.infoType) = 0
  PROVE  AnswerInv'
BY DEF AnswerInv, StatusUnderWay, CallUnderWay, AnswerIsOfTheCall,
       AnswerStatus, Status, Null

LEMMA AnswerInvInductive == AnswerInv /\ [Next]_vars => AnswerInv'
<1>. SUFFICES ASSUME AnswerInv, [Next]_vars
              PROVE  AnswerInv'
  OBVIOUS
<1>1. CASE Crash \/ ExitOnNull \/ RegisterWithoutTag
  BY <1>1 DEF Crash, ExitOnNull, RegisterWithoutTag, Die, AnswerInv,
              StatusUnderWay, CallUnderWay, AnswerIsOfTheCall
<1>2. CASE onProcessDrmInfo \/ onAcquireDrmInfo
  <2>1. /\ pc' \in {"header", "null", "map"}
        /\ op' \in {"process", "acquire"}
    BY <1>2 DEF onProcessDrmInfo, onAcquireDrmInfo, Call
  <2>. QED
    BY <2>1 DEF AnswerInv, StatusUnderWay, CallUnderWay, AnswerIsOfTheCall
<1>3. CASE \/ CopyHeader \/ CopyAttribute \/ AttributeFails
           \/ AttributesCopied \/ CopyMapNode \/ MapCopied
  <2>1. /\ pc # "idle" /\ UNCHANGED <<op, arg, answer>>
        /\ pc' \in {"attributes", "null", "map", "kernel"}
    BY <1>3 DEF CopyHeader, CopyAttribute, AttributeFails, AttributesCopied,
                CopyMapNode, MapCopied, Goto
  <2>. QED
    BY <2>1, StepAnswerInv
<1>4. CASE RegisterVerified \/ DeleteRegistration
  <2>1. /\ pc # "idle" /\ UNCHANGED <<op, arg, answer>>
        /\ pc' \in {"delete", "insert"} /\ op = "process"
    BY <1>4 DEF RegisterVerified, DeleteRegistration, Processing, AnswerInv,
                CallUnderWay
  <2>. QED
    BY <2>1, StepAnswerInv
<1>5. CASE RegisterRefused \/ ProcessOther \/ ProcessUnknown
  BY <1>5, StatusAnswerInv
     DEF RegisterRefused, ProcessOther, ProcessUnknown, Processing
<1>6. CASE InsertRegistration
  BY <1>6, StatusAnswerInv DEF InsertRegistration, AnswerInv, CallUnderWay
<1>7. CASE KernelAcquire
  BY <1>7 DEF KernelAcquire, AnswerInv, StatusUnderWay, CallUnderWay,
              AnswerIsOfTheCall
<1>8. CASE StatusToDroid
  BY <1>8, TypeKeptOrUnknown
     DEF StatusToDroid, AnswerInv, StatusUnderWay, CallUnderWay,
         AnswerIsOfTheCall
<1>9. CASE InfoToDroid
  BY <1>9, TypeKeptOrUnknown
     DEF InfoToDroid, Info, AnswerInv, StatusUnderWay, CallUnderWay,
         AnswerIsOfTheCall
<1>10. CASE UNCHANGED vars
  BY <1>10 DEF vars, AnswerInv, StatusUnderWay, CallUnderWay,
               AnswerIsOfTheCall
<1>. QED
  BY <1>1, <1>2, <1>3, <1>4, <1>5, <1>6, <1>7, <1>8, <1>9, <1>10 DEF Next

(* A call that returns has answered for the type and the mime type of the  *)
(* object that it was given, through both conversions, whatever happened   *)
(* to earlier calls (the switches of drmDroidToNv.cpp and drmNvToDroid.cpp *)
(* agree with one another).                                                *)
THEOREM AnswersAreOfTheCall == Spec => []AnswerIsOfTheCall
<1>1. Init => AnswerInv
  BY DEF Init, AnswerInv, StatusUnderWay, CallUnderWay, AnswerIsOfTheCall
<1>2. AnswerInv => AnswerIsOfTheCall
  BY DEF AnswerInv
<1>. QED
  BY <1>1, <1>2, AnswerInvInductive, PTL DEF Spec

-----------------------------------------------------------------------------
(* The conversion of an object to the kernel's list.                       *)

(* The iterator gives one of the names it has still to give.               *)
LEMMA IteratorGives ==
  ASSUME NEW S, S \subseteq Names, S # {}
  PROVE  KeyIterator(S) \in S
<1>. DEFINE I == {i \in DOMAIN NameOrder : NameOrder[i] \in S}
<1>1. I \subseteq Nat
  BY ExchangeAssumption
<1>2. I # {}
  BY DEF Names
<1>3. First(I) \in I
  BY <1>1, <1>2, FirstIsLeast
<1>. QED
  BY <1>3 DEF KeyIterator

(* One attribute more at the tail of the list.                             *)
LEMMA CopiedOneMore ==
  ASSUME NEW l \in Seq(Attribute), NEW a, NEW S, Copied(l, a, S),
         NEW key, key \notin S
  PROVE  Copied(Append(l, [name |-> key, value |-> a[key]]), a, S \union {key})
<1>. DEFINE e == [name |-> key, value |-> a[key]]
            m == Append(l, e)
            n == Len(l) + 1
<1>1. /\ DOMAIN m = 1..n /\ m[n] = e /\ DOMAIN l = 1..Len(l)
      /\ \A i \in DOMAIN l : m[i] = l[i]
  OBVIOUS
<1>2. e.name = key /\ e.value = a[key]
  OBVIOUS
<1>. HIDE DEF e, m
<1>3. DOMAIN m = DOMAIN l \union {n} /\ n \notin DOMAIN l
  BY <1>1
<1>4. {m[i].name : i \in DOMAIN m} = S \union {key}
  BY <1>1, <1>2, <1>3 DEF Copied
<1>5. \A i \in DOMAIN m : m[i].value = a[m[i].name]
  BY <1>1, <1>2, <1>3 DEF Copied
<1>6. ASSUME NEW i \in DOMAIN m, NEW j \in DOMAIN m, m[i].name = m[j].name
      PROVE  i = j
  <2>1. \A k \in DOMAIN l : m[k].name \in S
    BY <1>1 DEF Copied
  <2>. QED
    BY <1>1, <1>2, <1>3, <1>6, <2>1 DEF Copied
<1>. QED
  BY <1>4, <1>5, <1>6 DEF Copied, m, e

(* What the second conversion would make of such a list.                   *)
LEMMA CopiedAttributes ==
  ASSUME NEW l \in Seq(Attribute), NEW S, NEW a \in [S -> Tags],
         Copied(l, a, S)
  PROVE  Attributes(l) = a
<1>. DEFINE Last(name, i) ==
              l[i].name = name /\ \A j \in i + 1..Len(l) : l[j].name # name
            At(name) == CHOOSE i \in DOMAIN l : Last(name, i)
<1>1. ASSUME NEW name \in S
      PROVE  l[At(name)].value = a[name]
  <2>1. PICK i \in DOMAIN l : l[i].name = name
    BY DEF Copied
  <2>2. Last(name, i)
    <3>1. \A j \in i + 1..Len(l) : j \in DOMAIN l /\ j # i
      OBVIOUS
    <3>. QED
      BY <2>1, <3>1 DEF Copied
  <2>3. At(name) \in DOMAIN l /\ Last(name, At(name))
    BY <2>2
  <2>. QED
    BY <2>3 DEF Copied
<1>2. Attributes(l) = [name \in S |-> l[At(name)].value]
  BY Zenon DEF Attributes, Copied
<1>. HIDE DEF At
<1>. QED
  BY <1>1, <1>2

(* The tag that the kernel takes from such a list, unless the value of     *)
(* another attribute.                                                      *)
LEMMA CopiedTag ==
  ASSUME NEW l \in Seq(Attribute), NEW object \in Droid,
         Copied(l, object.attributes, DOMAIN object.attributes),
         Unambiguous(object), DrmInfo_AttributeGet(l, PERSO) # None
  PROVE  /\ PERSO \in DOMAIN object.attributes
         /\ DrmInfo_AttributeGet(l, PERSO) = object.attributes[PERSO]
<1>. DEFINE given == DOMAIN object.attributes
            M == Matching(l, PERSO)
            k == First(M)
<1>1. M # {} /\ DrmInfo_AttributeGet(l, PERSO) = l[k].value
  BY DEF DrmInfo_AttributeGet
<1>2. k \in M
  <2>1. M \subseteq Nat
    BY DEF Matching
  <2>. QED
    BY <1>1, <2>1, FirstIsLeast
<1>. DEFINE name == l[k].name
<1>3. k \in DOMAIN l /\ Matches(name, PERSO) /\ name \in given
  BY <1>2 DEF Matching, Copied
<1>4. name \in Chars /\ PERSO \in Chars
  BY <1>3, TheTwoNames, ExchangeAssumption DEF Droid, Names, Chars
<1>. HIDE DEF k
<1>5. name = SubSeq(PERSO, 1, Len(name))
  BY <1>3, <1>4 DEF Matches, Chars
<1>6. Len(name) = Len(PERSO)
  <2>1. Len(name) \in Nat /\ Len(PERSO) \in Nat /\ Len(name) <= Len(PERSO)
    BY <1>3, <1>4 DEF Matches, Chars
  <2>2. Len(name) \notin 0..Len(PERSO) - 1
    BY <1>3, <1>5 DEF Unambiguous
  <2>. QED
    BY <2>1, <2>2
<1>7. name = PERSO
  BY <1>3, <1>4, <1>6, SeqEqual DEF Matches, Chars
<1>. QED
  BY <1>1, <1>3, <1>7 DEF Copied, k

(* The texts that the kernel reports of a registration.                    *)
LEMMA RegisteredListType ==
  ASSUME NEW tag \in AuthenticTags, NEW id \in Unterminated(tag)
  PROVE  <<PersoEntry, IdEntry(id)>> \in Seq(Attribute)
<1>1. tag \in Tags /\ PERSO \in Names /\ UNIQUE_ID \in Names
  BY ExchangeAssumption
<1>2. Yes \in Texts /\ id \in Texts
  BY <1>1 DEF Texts
<1>3. PersoEntry \in Attribute /\ IdEntry(id) \in Attribute
  BY <1>1, <1>2 DEF PersoEntry, IdEntry, Attribute
<1>. QED
  BY <1>3

LEMMA CallConversionInv ==
  ASSUME NEW object \in Droid, NEW o, NEW start, Call(o, object, start),
         \/ o = "process" /\ start = "header"
         \/ o = "acquire" /\ start \in {"null", "map"}
  PROVE  ConversionInv' /\ RegistrationInv'
BY DEF Call, ConversionInv, RegistrationInv, Status, NoAnswer

(* A step of a conversion.                                                 *)
LEMMA CopyConversionInv ==
  ASSUME TypeOK, ConversionInv,
         \/ CopyHeader \/ CopyAttribute \/ AttributeFails
         \/ AttributesCopied \/ CopyMapNode \/ MapCopied
  PROVE  ConversionInv'
<1>. DEFINE given == DOMAIN arg.attributes
<1>1. CASE CopyHeader
  <2>1. CASE Goto("header", "attributes")
    <3>1. Copied(<<>>, arg.attributes, {})
      BY DEF Copied
    <3>. QED
      BY <1>1, <2>1, <3>1 DEF CopyHeader, Goto, ConversionInv
  <2>2. CASE Goto("header", "null")
    BY <1>1, <2>2 DEF CopyHeader, Goto, ConversionInv
  <2>. QED
    BY <1>1, <2>1, <2>2 DEF CopyHeader
<1>2. CASE CopyAttribute
  <2>. DEFINE key == KeyIterator(todo)
  <2>1. /\ pc = "attributes" /\ pc' = "attributes" /\ op' = op /\ arg' = arg
        /\ list' = Append(list, [name |-> key, value |-> arg.attributes[key]])
        /\ todo' = todo \ {key} /\ todo # {}
    BY <1>2 DEF CopyAttribute, Goto
  <2>2. key \in todo
    BY <2>1, IteratorGives DEF TypeOK
  <2>. HIDE DEF key
  <2>3. Copied(list, arg.attributes, given \ todo) /\ todo \subseteq given
    BY <2>1 DEF ConversionInv
  <2>4. Copied(list', arg.attributes, (given \ todo) \union {key})
    BY <2>1, <2>2, <2>3, CopiedOneMore DEF TypeOK
  <2>5. (given \ todo) \union {key} = given \ todo'
    BY <2>1, <2>2, <2>3
  <2>. QED
    BY <2>1, <2>4, <2>5 DEF ConversionInv
<1>3. CASE AttributeFails
  BY <1>3 DEF AttributeFails, Goto, ConversionInv
<1>4. CASE AttributesCopied
  <2>1. given \ {} = given
    OBVIOUS
  <2>. QED
    BY <1>4, <2>1 DEF AttributesCopied, Goto, ConversionInv
<1>5. CASE CopyMapNode \/ MapCopied
  BY <1>5 DEF CopyMapNode, MapCopied, Goto, ConversionInv
<1>. QED
  BY <1>1, <1>2, <1>3, <1>4, <1>5

LEMMA ConversionInvInductive ==
  TypeOK /\ ConversionInv /\ [Next]_vars => ConversionInv'
<1>. SUFFICES ASSUME TypeOK, ConversionInv, [Next]_vars
              PROVE  ConversionInv'
  OBVIOUS
<1>1. CASE Crash \/ ExitOnNull \/ RegisterWithoutTag
  BY <1>1 DEF Crash, ExitOnNull, RegisterWithoutTag, Die, ConversionInv
<1>2. CASE onProcessDrmInfo \/ onAcquireDrmInfo
  BY <1>2, CallConversionInv, ExchangeAssumption
     DEF onProcessDrmInfo, onAcquireDrmInfo
<1>3. CASE \/ CopyHeader \/ CopyAttribute \/ AttributeFails
           \/ AttributesCopied \/ CopyMapNode \/ MapCopied
  BY <1>3, CopyConversionInv
<1>4. CASE RegisterVerified \/ DeleteRegistration
  BY <1>4 DEF RegisterVerified, Processing, DeleteRegistration, ConversionInv
<1>5. CASE \/ RegisterRefused \/ ProcessOther \/ ProcessUnknown
           \/ InsertRegistration \/ KernelAcquire
  <2>1. pc' = "toDroid"
    BY <1>5 DEF RegisterRefused, ProcessOther, ProcessUnknown,
       InsertRegistration, KernelAcquire
  <2>. QED
    BY <2>1 DEF ConversionInv
<1>6. CASE StatusToDroid \/ InfoToDroid
  BY <1>6 DEF StatusToDroid, InfoToDroid, ConversionInv
<1>7. CASE UNCHANGED vars
  BY <1>7 DEF vars, ConversionInv
<1>. QED
  BY <1>1, <1>2, <1>3, <1>4, <1>5, <1>6, <1>7 DEF Next

LEMMA RegistrationInvInductive ==
  TypeOK /\ ConversionInv /\ RegistrationInv /\ [Next]_vars => RegistrationInv'
<1>. SUFFICES ASSUME TypeOK, ConversionInv, RegistrationInv, [Next]_vars
              PROVE  RegistrationInv'
  OBVIOUS
<1>1. CASE Crash \/ ExitOnNull \/ RegisterWithoutTag
  BY <1>1 DEF Crash, ExitOnNull, RegisterWithoutTag, Die, RegistrationInv
<1>2. CASE onProcessDrmInfo \/ onAcquireDrmInfo
  BY <1>2, CallConversionInv, ExchangeAssumption
     DEF onProcessDrmInfo, onAcquireDrmInfo
<1>3. CASE \/ CopyHeader \/ CopyAttribute \/ AttributeFails
           \/ AttributesCopied \/ CopyMapNode \/ MapCopied
  <2>1. pc' \in {"attributes", "null", "map", "kernel"}
    BY <1>3 DEF CopyHeader, CopyAttribute, AttributeFails, AttributesCopied,
       CopyMapNode, MapCopied, Goto
  <2>. QED
    BY <2>1 DEF RegistrationInv
<1>4. CASE RegisterVerified \/ DeleteRegistration
  <2>1. /\ pc' \in {"delete", "insert"} /\ op' = op /\ list' = list
        /\ op = "process" /\ PersoTag \in AuthenticTags
    BY <1>4 DEF RegisterVerified, Processing, DeleteRegistration,
       RegistrationInv
  <2>2. PersoTag' = PersoTag
    BY <2>1 DEF PersoTag
  <2>. QED
    BY <2>1, <2>2 DEF RegistrationInv
<1>5. CASE RegisterRefused \/ ProcessOther \/ ProcessUnknown
  <2>1. /\ pc' = "toDroid"
        /\ \/ (answer.kind)' # "status" \/ (answer.code)' # "ok"
           \/ (answer.infoType)' # Registration
    BY <1>5 DEF RegisterRefused, ProcessOther, ProcessUnknown, Processing,
       AnswerStatus, Status, Null, InfoTypes, Registration
  <2>. QED
    BY <2>1 DEF RegistrationInv
<1>6. CASE InsertRegistration
  <2>1. /\ pc = "insert" /\ pc' = "toDroid" /\ arg' = arg
        /\ stored' = PersoTag
    BY <1>6 DEF InsertRegistration
  <2>2. PersoTag \in AuthenticTags /\ op = "process"
    BY <2>1 DEF RegistrationInv
  <2>3. PersoTag # None
    BY <2>2, ExchangeAssumption
  <2>4. /\ arg \in Droid
        /\ Copied(list, arg.attributes, DOMAIN arg.attributes)
    BY <2>1, <2>2 DEF ConversionInv
  <2>5. Unambiguous(arg) =>
          PERSO \in DOMAIN arg.attributes /\ PersoTag = arg.attributes[PERSO]
    BY <2>3, <2>4, CopiedTag DEF PersoTag, TypeOK
  <2>6. Unambiguous(arg)' = Unambiguous(arg)
    BY <2>1 DEF Unambiguous
  <2>. QED
    BY <2>1, <2>5, <2>6 DEF RegistrationInv
<1>7. CASE KernelAcquire \/ InfoToDroid
  <2>1. pc' \in {"toDroid", "idle"} /\ op' = "acquire"
    BY <1>7 DEF KernelAcquire, InfoToDroid
  <2>. QED
    BY <2>1 DEF RegistrationInv
<1>8. CASE StatusToDroid
  BY <1>8 DEF StatusToDroid, RegistrationInv, Unambiguous
<1>9. CASE UNCHANGED vars
  BY <1>9 DEF vars, RegistrationInv, Unambiguous, PersoTag
<1>. QED
  BY <1>1, <1>2, <1>3, <1>4, <1>5, <1>6, <1>7, <1>8, <1>9 DEF Next

(* Types: the list has names and texts, the store the tag of a verified    *)
(* registration.                                                           *)
LEMMA TypeInductive ==
  TypeOK /\ ConversionInv /\ RegistrationInv /\ [Next]_vars => TypeOK'
<1>. SUFFICES ASSUME TypeOK, ConversionInv, RegistrationInv, [Next]_vars
              PROVE  TypeOK'
  OBVIOUS
<1>1. CASE Crash \/ ExitOnNull \/ RegisterWithoutTag
  <2>1. Die
    BY <1>1 DEF Crash, ExitOnNull, RegisterWithoutTag
  <2>2. pc' \in {"idle"} /\ op' \in {"none"} /\ list' \in Seq(Attribute)
    BY <2>1 DEF Die
  <2>3. (answer.kind)' = "none"
    BY <2>1 DEF Die, NoAnswer
  <2>. QED
    BY <2>1, <2>2, <2>3 DEF Die, TypeOK
<1>2. CASE onProcessDrmInfo \/ onAcquireDrmInfo
  <2>1. PICK object \in DrmInfos \union Requests, o \in {"process", "acquire"},
             start \in {"header", "null", "map"} : Call(o, object, start)
    BY <1>2 DEF onProcessDrmInfo, onAcquireDrmInfo
  <2>2. DOMAIN object.attributes \subseteq Names
    BY ExchangeAssumption DEF Droid
  <2>. QED
    BY <2>1, <2>2 DEF Call, TypeOK, NoAnswer
<1>3. CASE CopyAttribute
  <2>. DEFINE key == KeyIterator(todo)
  <2>1. key \in todo
    BY <1>3, IteratorGives DEF CopyAttribute, TypeOK
  <2>2. arg \in Droid /\ todo \subseteq DOMAIN arg.attributes
    BY <1>3 DEF CopyAttribute, Goto, ConversionInv
  <2>3. [name |-> key, value |-> arg.attributes[key]] \in Attribute
    <3>1. arg.attributes[key] \in Texts
      BY <2>1, <2>2 DEF Droid, Texts
    <3>. QED
      BY <2>1, <3>1 DEF TypeOK, Attribute
  <2>4. list' \in Seq(Attribute)
    BY <1>3, <2>3 DEF CopyAttribute, TypeOK
  <2>. QED
    BY <1>3, <2>4 DEF CopyAttribute, Goto, TypeOK
<1>4. CASE \/ CopyHeader \/ AttributeFails \/ AttributesCopied
           \/ CopyMapNode \/ MapCopied
  <2>1. /\ pc' \in {"attributes", "null", "map", "kernel"}
        /\ todo' \subseteq todo /\ (list' = list \/ list' = <<>>)
        /\ UNCHANGED <<op, arg, stored, answer, possible>>
    BY <1>4 DEF CopyHeader, AttributeFails, AttributesCopied,
       CopyMapNode, MapCopied, Goto
  <2>2. list' \in Seq(Attribute)
    <3>1. <<>> \in Seq(Attribute) /\ list \in Seq(Attribute)
      BY DEF TypeOK
    <3>. QED
      BY <2>1, <3>1
  <2>3. todo \subseteq Names
    BY DEF TypeOK
  <2>4. todo' \in SUBSET Names
    BY <2>1, <2>3
  <2>. QED
    BY <2>1, <2>2, <2>4 DEF TypeOK
<1>5. CASE RegisterRefused \/ ProcessOther \/ ProcessUnknown
  BY <1>5 DEF RegisterRefused, ProcessOther, ProcessUnknown, Processing,
     AnswerStatus, Status, Null, TypeOK
<1>6. CASE RegisterVerified
  BY <1>6 DEF RegisterVerified, Processing, TypeOK
<1>7. CASE DeleteRegistration
  BY <1>7 DEF DeleteRegistration, TypeOK
<1>8. CASE InsertRegistration
  BY <1>8 DEF InsertRegistration, RegistrationInv, AnswerStatus, Status, TypeOK
<1>9. CASE KernelAcquire
  <2>1. list' \in Seq(Attribute)
    <3>1. CASE list' = <<>>
      BY <3>1
    <3>2. CASE stored # None /\ \E id \in Unterminated(stored) :
                 list' = <<PersoEntry, IdEntry(id)>>
      BY <3>2, RegisteredListType DEF TypeOK
    <3>. QED
      BY <1>9, <3>1, <3>2, RegisteredList, Zenon DEF KernelAcquire
  <2>. QED
    BY <1>9, <2>1 DEF KernelAcquire, TypeOK
<1>10. CASE StatusToDroid \/ InfoToDroid
  BY <1>10 DEF StatusToDroid, InfoToDroid, Info, TypeOK
<1>11. CASE UNCHANGED vars
  BY <1>11 DEF vars, TypeOK
<1>. QED
  BY <1>1, <1>2, <1>3, <1>4, <1>5, <1>6, <1>7, <1>8, <1>9, <1>10, <1>11 DEF Next

LEMMA RegistrationInvariant ==
  Spec => [](TypeOK /\ ConversionInv /\ RegistrationInv)
<1>1. Init => TypeOK /\ ConversionInv /\ RegistrationInv
  BY DEF Init, TypeOK, ConversionInv, RegistrationInv, NoAnswer
<1>. QED
  BY <1>1, ConversionInvInductive, RegistrationInvInductive, TypeInductive, PTL
     DEF Spec

(* Every variable has its type, in particular the list the texts of the    *)
(* object's attributes, and the store an authentic tag.                    *)
THEOREM TypeCorrect == Spec => []TypeOK
BY RegistrationInvariant, PTL

(* The kernel works on all the attributes of the object or on none: an     *)
(* allocation that fails in DrmInfo_droid2nv ends the call before it.      *)
THEOREM ConversionsAreWhole == Spec => []ConversionIsWhole
<1>1. TypeOK /\ ConversionInv => ConversionIsWhole
  <2>. SUFFICES ASSUME TypeOK, ConversionInv, pc = "kernel", op = "process"
                PROVE  Attributes(list) = arg.attributes
    BY DEF ConversionIsWhole
  <2>1. /\ arg \in Droid /\ list \in Seq(Attribute)
        /\ Copied(list, arg.attributes, DOMAIN arg.attributes)
    BY DEF ConversionInv, TypeOK
  <2>2. arg.attributes \in [DOMAIN arg.attributes -> Tags]
    BY <2>1 DEF Droid
  <2>. QED
    BY <2>1, <2>2, CopiedAttributes
<1>. QED
  BY <1>1, RegistrationInvariant, PTL

(* An acknowledged registration has stored the tag that the caller gave    *)
(* under "PERSO", for any names in the object but the proper prefixes of   *)
(* "PERSO", any failing allocation and any deaths of earlier calls.        *)
THEOREM RegistersWhatWasAsked == Spec => []RegisteredAsAsked
<1>1. RegistrationInv => RegisteredAsAsked
  BY DEF RegistrationInv, RegisteredAsAsked
<1>. QED
  BY <1>1, RegistrationInvariant, PTL
=============================================================================
