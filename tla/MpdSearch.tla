------------------------------ MODULE MpdSearch ------------------------------
(***************************************************************************)
(* NvDrmPlugin::onCanHandle and, when it is built with libxml2, the search *)
(* of a media presentation description for what the plugin supports.       *)
(*                                                                         *)
(* A document is the tree libxml2 built, node 1 its root: for each node    *)
(* the name, what its attribute or text says to the search, the first      *)
(* child and the next sibling, 0 for NULL.  White space between elements   *)
(* is a node too.  A node comes before its children and following siblings *)
(* in the numbering: a tree has no cycle.                                  *)
(***************************************************************************)
EXTENDS Naturals

CONSTANT Documents    \* the descriptions callers present

Names == {"MPD", "Period", "AdaptationSet", "Representation", "BaseURL",
          "SegmentTemplate", "ContentProtection", "Role", "text"}

(* The value of a node is what the search reads of it: its text, or its    *)
(* attribute mimeType or media, or schemeIdUri with value on an element of *)
(* any name; "plain" is a URL without extension.  An attribute that is     *)
(* empty has no text node: "mediabare" is an empty mimeType or media,      *)
(* "schemebare" an empty schemeIdUri, "cencbare" the CENC scheme with an   *)
(* empty value or none.                                                    *)
Values == {"none", "supported", "unsupported", "plain", "mediabare",
           "cenc", "cencbare", "schemebare", "drm", "other"}

IsDocument(d) ==
  LET nodes == 1..d.size
  IN /\ d.size \in Nat \ {0}
     /\ d.name \in [nodes -> Names]
     /\ d.value \in [nodes -> Values]
     /\ d.child \in [nodes -> 0..d.size]
     /\ d.next \in [nodes -> 0..d.size]
     /\ \A n \in nodes : /\ d.child[n] = 0 \/ d.child[n] > n
                         /\ d.next[n] = 0 \/ d.next[n] > n

ASSUME DocumentsAssumption == \A d \in Documents : IsDocument(d)

VARIABLES
  doc,             \* the parsed document
  pc,              \* what onCanHandle does next
  cur,             \* the pointer findSupportedMediaUri walks with
  kind,            \* how many of Kinds it has searched
  found,           \* for each kind, the nodes put in its vector
  odd,             \* parity of the vector's size: an endless scan never rests
  cipherSchemeOk,
  drmSchemeOk,
  answer           \* what onCanHandle returned

vars == <<doc, pc, cur, kind, found, odd, cipherSchemeOk, drmSchemeOk, answer>>

(* The elements findSupportedMediaUri looks for, in its order.             *)
Kinds == <<"Representation", "AdaptationSet", "BaseURL", "SegmentTemplate">>

TypeOK ==
  /\ IsDocument(doc)
  /\ pc \in {"start", "cenc", "drm", "scan", "judge", "done", "dead"}
  /\ cur \in 0..doc.size
  /\ kind \in 0..4
  /\ found \in [1..4 -> SUBSET (1..doc.size)]
  /\ {odd, cipherSchemeOk, drmSchemeOk, answer} \subseteq BOOLEAN

Root == 1

Init ==
  /\ doc \in Documents
  /\ pc = "start"
  /\ cur = 0
  /\ kind = 0
  /\ found = [k \in 1..4 |-> {}]
  /\ odd = FALSE
  /\ cipherSchemeOk = FALSE /\ drmSchemeOk = FALSE
  /\ answer = FALSE

-----------------------------------------------------------------------------
(* The searches of parseMpdHelpers.cpp.                                    *)

(* The first node of a name among cur, what is below it, and its following *)
(* siblings with what is below them.  Text nodes have the name "text".     *)
getNodeByNameAndType(name) ==
  LET get[n \in 0..doc.size] ==
        IF n = 0 THEN 0
        ELSE IF doc.name[n] = name THEN n
        ELSE LET below == get[doc.child[n]]
             IN IF below # 0 THEN below ELSE get[doc.next[n]]
  IN get

FirstOnly(wanted) ==    \* mutant: the siblings of the first are not tried
  LET m == getNodeByNameAndType("ContentProtection")[Root]
  IN IF m # 0 /\ doc.value[m] \in wanted THEN doc.value[m] ELSE "none"

(* The loop of findCencElement and of findDrmScheme: for a node and each   *)
(* of its following siblings, whatever their name, the scheme they name    *)
(* and the same search below them.  What it stops at.                      *)
SchemeFrom(wanted) ==
  LET get == getNodeByNameAndType("ContentProtection")
      try[m \in 0..doc.size] ==
        IF m = 0 THEN "none"
        ELSE IF doc.value[m] \in wanted THEN doc.value[m]
        ELSE LET below == try[get[doc.child[m]]]
             IN IF below # "none" THEN below ELSE try[doc.next[m]]
  IN try

findScheme(wanted) ==
  SchemeFrom(wanted)[getNodeByNameAndType("ContentProtection")[Root]]

(* The text of a BaseURL; that of a following sibling when it is empty.    *)
TextOf(n) == getNodeByNameAndType("text")[n]

Supported(n) ==
  IF doc.name[n] = "BaseURL"
  THEN TextOf(n) # 0 => doc.value[TextOf(n)] # "unsupported"
  ELSE doc.value[n] # "unsupported"

-----------------------------------------------------------------------------
(* NvDrmPlugin::onCanHandle.                                               *)

(* Another extension, in fileExts or not.                                  *)
CanHandleByExtension ==
  /\ pc = "start" /\ pc' = "done"
  /\ answer' \in BOOLEAN
  /\ UNCHANGED <<doc, cur, kind, found, odd, cipherSchemeOk, drmSchemeOk>>

(* A file that is not readable, that does not parse or has no root.        *)
Unparsable ==
  /\ pc = "start" /\ pc' = "done"
  /\ answer' = FALSE
  /\ UNCHANGED <<doc, cur, kind, found, odd, cipherSchemeOk, drmSchemeOk>>

ParseMpd ==
  /\ pc = "start" /\ pc' = "cenc"
  /\ UNCHANGED <<doc, cur, kind, found, odd, cipherSchemeOk, drmSchemeOk,
                 answer>>

(* The value attribute of the CENC scheme is read without a NULL test, and *)
(* the text of an attribute is NULL when it is empty: the process dies.    *)
findCencElement ==
  LET scheme == findScheme({"cenc", "cencbare", "schemebare"})
  IN /\ pc = "cenc"
     /\ cipherSchemeOk' = (scheme = "cenc")
     /\ pc' = IF scheme \in {"cencbare", "schemebare"} THEN "dead" ELSE "drm"
     /\ UNCHANGED <<doc, cur, kind, found, odd, drmSchemeOk, answer>>

findDrmScheme ==
  LET scheme == findScheme({"drm", "schemebare"})
  IN /\ pc = "drm"
     /\ drmSchemeOk' = (scheme = "drm")
     /\ pc' = IF scheme = "schemebare" THEN "dead" ELSE "scan"
     /\ cur' = Root
     /\ kind' = 1
     /\ UNCHANGED <<doc, found, odd, cipherSchemeOk, answer>>

NextMatch == getNodeByNameAndType(Kinds[kind])[cur]

NotAdvanced(m) == m    \* mutant: cur stays on the match

(* "if (cur->next) cur = cur->next": a match without a following sibling   *)
(* is where the next search begins, and it is found again.                 *)
Advanced(m) == IF doc.next[m] # 0 THEN doc.next[m] ELSE m

(* One round of the loops of findSupportedMediaUri.                        *)
ScanHit ==
  /\ pc = "scan"
  /\ NextMatch # 0
  /\ found' = [found EXCEPT ![kind] = @ \union {NextMatch}]
  /\ odd' = ~odd
  /\ cur' = Advanced(NextMatch)
  /\ UNCHANGED <<doc, pc, kind, cipherSchemeOk, drmSchemeOk, answer>>

(* string(NULL): an empty attribute of a collected element is read.        *)
ReadsNull ==
  Kinds[kind] # "BaseURL" /\ \E n \in found[kind] : doc.value[n] = "mediabare"

ReadMediaNull ==
  /\ pc = "scan" /\ pc' = "dead"
  /\ NextMatch = 0
  /\ ReadsNull
  /\ UNCHANGED <<doc, cur, kind, found, odd, cipherSchemeOk, drmSchemeOk,
                 answer>>

ScanMissNoRewind ==    \* mutant: cur is not set back to the root
  /\ pc = "scan"
  /\ NextMatch = 0
  /\ ~ReadsNull
  /\ IF kind < 4 THEN kind' = kind + 1 /\ cur' = 0 /\ pc' = "scan"
                 ELSE kind' = kind /\ cur' = 0 /\ pc' = "judge"
  /\ UNCHANGED <<doc, found, odd, cipherSchemeOk, drmSchemeOk, answer>>

ScanMissTooFar ==    \* mutant: a fifth kind is searched
  /\ pc = "scan"
  /\ NextMatch = 0
  /\ ~ReadsNull
  /\ IF kind <= 4 THEN kind' = kind + 1 /\ cur' = Root /\ pc' = "scan"
                  ELSE kind' = kind /\ cur' = 0 /\ pc' = "judge"
  /\ UNCHANGED <<doc, found, odd, cipherSchemeOk, drmSchemeOk, answer>>

(* Once the elements of a kind are collected, their attributes are read.   *)
ScanMiss ==
  /\ pc = "scan"
  /\ NextMatch = 0
  /\ ~ReadsNull
  /\ IF kind < 4 THEN kind' = kind + 1 /\ cur' = Root /\ pc' = "scan"
                 ELSE kind' = kind /\ cur' = 0 /\ pc' = "judge"
  /\ UNCHANGED <<doc, found, odd, cipherSchemeOk, drmSchemeOk, answer>>

MediaSupported == \A k \in 1..4 : \A n \in found[k] : Supported(n)

JudgeEither ==    \* mutant: one of the two schemes is enough
  /\ pc = "judge" /\ pc' = "done"
  /\ answer' = ((cipherSchemeOk \/ drmSchemeOk) /\ MediaSupported)
  /\ UNCHANGED <<doc, cur, kind, found, odd, cipherSchemeOk, drmSchemeOk>>

Judge ==
  /\ pc = "judge" /\ pc' = "done"
  /\ answer' = (cipherSchemeOk /\ drmSchemeOk /\ MediaSupported)
  /\ UNCHANGED <<doc, cur, kind, found, odd, cipherSchemeOk, drmSchemeOk>>

Scan == ScanHit \/ ScanMiss \/ ReadMediaNull

Parse == ParseMpd \/ findCencElement \/ findDrmScheme \/ Scan \/ Judge

(* The call has returned, or its process has died.                         *)
Over == pc \in {"done", "dead"} /\ UNCHANGED vars

Next == CanHandleByExtension \/ Unparsable \/ Parse \/ Over

Spec == Init /\ [][Next]_vars

(* The search runs on its caller's thread and waits for nothing.           *)
FairSpec == Spec /\ WF_vars(Parse)

-----------------------------------------------------------------------------
(* PROPERTIES                                                              *)

Judged == pc = "done" /\ kind = 4

Named(name) == {n \in 1..doc.size : doc.name[n] = name}

(* n and the nodes that follow it under the same parent.                   *)
FromSibling ==
  LET from[m \in 0..doc.size] ==
        IF m = 0 THEN {} ELSE {m} \union from[doc.next[m]]
  IN from

FirstOf(name) == getNodeByNameAndType(name)[Root]

(* A description is only accepted when it names the common encryption      *)
(* scheme and a DRM that the plugin supports, each on a ContentProtection  *)
(* or on a following sibling of one, whatever its name: a scheme elsewhere *)
(* (the Role of a set without protection) does not make up for one.        *)
AcceptedIsProtected ==
  Judged /\ answer => \A scheme \in {"cenc", "drm"} :
                         \E m \in Named("ContentProtection") :
                           \E n \in FromSibling[m] : doc.value[n] = scheme

(* No other element between those of a name has one of that name below it: *)
(* an AdaptationSet, or a Representation, only stands beside others.       *)
NoneBelowBetween(name) ==
  \A n \in FromSibling[FirstOf(name)] \ Named(name) :
    FromSibling[doc.next[n]] \intersect Named(name) # {} =>
      getNodeByNameAndType(name)[doc.child[n]] = 0

(* Of the elements of a kind, at least those under the parent of the first *)
(* one must be supported: every AdaptationSet of a Period, every           *)
(* Representation of an AdaptationSet.                                     *)
AcceptedMediaSupported ==
  Judged /\ answer =>
    \A name \in {"AdaptationSet", "Representation", "SegmentTemplate"} :
      NoneBelowBetween(name) =>
        \A n \in FromSibling[FirstOf(name)] \intersect Named(name) :
          doc.value[n] # "unsupported"

(* A description with only supported media is accepted when the first      *)
(* element with ContentProtection names both schemes, in any order and     *)
(* among others.                                                           *)
SupportedIsAccepted ==
  LET first == FromSibling[FirstOf("ContentProtection")]
  IN Judged /\ (\A scheme \in {"cenc", "drm"} :
                  \E n \in first : doc.value[n] = scheme)
            /\ (\A n \in 1..doc.size : doc.value[n] # "unsupported")
       => answer

(* Each element searched for has a following node, as where every tag is   *)
(* on a line of its own.                                                   *)
PrettyPrinted ==
  \A k \in 1..4 : \A n \in Named(Kinds[k]) : doc.next[n] # 0

(* The loops of findSupportedMediaUri end on a pretty-printed description, *)
(* although they only leave a match by its next sibling.                   *)
PrettyPrintedEnds ==
  pc = "cenc" /\ PrettyPrinted ~> pc \in {"done", "dead"}

(* "Provides hint about ability to support a content": onCanHandle answers *)
(* for every description, or its process dies of an empty attribute.       *)
CanHandleAnswers == pc = "drm" ~> pc \in {"done", "dead"}
=============================================================================
