---------------------------- MODULE MpdSearchProofs ----------------------------
(***************************************************************************)
(* Theorems about MpdSearch, for every set of documents: trees of any      *)
(* size, with elements in any order and at any depth.                      *)
(*                                                                         *)
(* The recursive searches are functions on the nodes of the document.  As  *)
(* a node comes before its children and following siblings, the value of   *)
(* a search at a node depends on its values at later nodes only: it exists *)
(* (Recursion), and what holds of a node whenever it holds of the later    *)
(* ones holds of all (FromTheLast).                                        *)
(***************************************************************************)
EXTENDS MpdSearch, Integers, TLAPS, WellFoundedInduction

(* A set of natural numbers that is not empty has a least element.         *)
LEMMA LeastElement ==
  ASSUME NEW S, S \subseteq Nat, S # {}
  PROVE  \E i \in S : \A j \in S : i <= j
<1>1. PICK i \in S : \A j \in S : <<j, i>> \notin OpToRel(<, Nat)
  BY NatLessThanWellFounded, WFMin, Zenon
<1>2. \A j \in S : ~ (j < i)
  BY <1>1, Zenon DEF OpToRel
<1>. QED
  BY <1>2

LEMMA FromTheLast ==
  ASSUME NEW size \in Nat, NEW G,
         \A n \in 1..size : (\A k \in n + 1..size : k \in G) => n \in G
  PROVE  \A n \in 1..size : n \in G
<1>. DEFINE Bad == {i \in Nat : i < size /\ size - i \notin G}
<1>1. ASSUME Bad # {} PROVE FALSE
  <2>1. PICK i \in Bad : \A j \in Bad : i <= j
    <3>1. Bad \subseteq Nat
      OBVIOUS
    <3>. QED
      BY <1>1, <3>1, LeastElement
  <2>2. size - i \in 1..size
    OBVIOUS
  <2>3. ASSUME NEW k \in size - i + 1..size PROVE k \in G
    <3>1. /\ size - k \in Nat /\ size - k < size /\ ~ (i <= size - k)
          /\ size - (size - k) = k
      BY <2>2
    <3>. QED
      BY <2>1, <3>1
  <2>. QED
    BY <2>2, <2>3
<1>2. ASSUME NEW n \in 1..size PROVE n \in G
  <2>1. size - n \in Nat /\ size - n < size /\ size - (size - n) = n
    OBVIOUS
  <2>. QED
    BY <1>1, <2>1
<1>. QED
  BY <1>2

(* F[g][n] is what the body of a recursive definition gives at n when the  *)
(* recursive uses are those of g.                                          *)
LooksAhead(F, size, R) ==
  /\ F \in [[0..size -> R] -> [0..size -> R]]
  /\ \A g, h \in [0..size -> R] : \A n \in 0..size :
       (n # 0 => g[0] = h[0] /\ \A k \in n + 1..size : g[k] = h[k])
         => F[g][n] = F[h][n]

LEMMA Recursion ==
  ASSUME NEW size \in Nat, NEW R, NEW r \in R,
         NEW F, LooksAhead(F, size, R)
  PROVE  \E g \in [0..size -> R] : F[g] = g
<1>. DEFINE Fun == [0..size -> R]
            Fixed(g, n) == F[g][n] = g[n]
            Suffix == {k \in 0..size :
                        \E g \in Fun : /\ Fixed(g, 0)
                                       /\ \A n \in k..size : Fixed(g, n)}
<1>0. /\ F \in [Fun -> Fun]
      /\ \A g, h \in Fun : \A n \in 0..size :
           (n # 0 => g[0] = h[0] /\ \A k \in n + 1..size : g[k] = h[k])
             => F[g][n] = F[h][n]
  BY DEF LooksAhead
<1>1. PICK first \in Fun : Fixed(first, 0)
  <2>. DEFINE g0 == [n \in 0..size |-> r]
              g1 == F[g0]
  <2>1. g0 \in Fun /\ g1 \in Fun
    BY <1>0
  <2>2. F[g1][0] = F[g0][0]
    BY <1>0, <2>1
  <2>. QED
    BY <2>1, <2>2
<1>2. \A k \in 1..size : k \in Suffix
  <2>1. ASSUME NEW k \in 1..size, \A i \in k + 1..size : i \in Suffix
        PROVE  k \in Suffix
    <3>1. PICK g \in Fun : /\ Fixed(g, 0)
                           /\ \A n \in k + 1..size : Fixed(g, n)
      <4>1. CASE k = size
        BY <1>1, <4>1
      <4>2. CASE k # size
        <5>1. k + 1 \in k + 1..size
          BY <4>2
        <5>. QED
          BY <2>1, <5>1
      <4>. QED
        BY <4>1, <4>2
    <3>. DEFINE h == [g EXCEPT ![k] = F[g][k]]
    <3>2. /\ h \in Fun /\ h[k] = F[g][k] /\ h[0] = g[0]
          /\ \A n \in k + 1..size : h[n] = g[n]
      <4>1. F[g] \in Fun /\ F[g][k] \in R
        BY <1>0
      <4>. QED
        BY <4>1
    <3>. HIDE DEF h
    <3>3. ASSUME NEW n \in 0..size, n = 0 \/ k <= n
          PROVE  F[h][n] = F[g][n]
      <4>1. \A i \in n + 1..size : n # 0 => h[i] = g[i]
        <5>1. ASSUME n # 0, NEW i \in n + 1..size PROVE i \in k + 1..size
          BY <3>3, <5>1
        <5>. QED
          BY <3>2, <5>1
      <4>2. h[0] = g[0] /\ h \in Fun /\ g \in Fun
        BY <3>2
      <4>. HIDE DEF Fun
      <4>. QED
        BY <1>0, <4>1, <4>2 DEF Fun
    <3>4. Fixed(h, 0) /\ Fixed(h, k)
      <4>1. F[h][0] = F[g][0] /\ F[h][k] = F[g][k]
        BY <3>3
      <4>. QED
        BY <3>1, <3>2, <4>1
    <3>5. ASSUME NEW n \in k + 1..size PROVE Fixed(h, n)
      <4>1. F[h][n] = F[g][n]
        BY <3>3
      <4>. QED
        BY <3>1, <3>2, <4>1
    <3>6. \A n \in k..size : n = k \/ n \in k + 1..size
      OBVIOUS
    <3>. QED
      BY <3>2, <3>4, <3>5, <3>6
  <2>. HIDE DEF Suffix
  <2>. QED
    BY <2>1, FromTheLast
<1>3. PICK g \in Fun : \A n \in 0..size : Fixed(g, n)
  <2>1. CASE size = 0
    BY <1>1, <2>1
  <2>2. CASE size # 0
    <3>1. 1 \in Suffix
      <4>1. 1 \in 1..size
        BY <2>2
      <4>. HIDE DEF Suffix
      <4>. QED
        BY <1>2, <4>1
    <3>2. \A n \in 0..size : n = 0 \/ n \in 1..size
      OBVIOUS
    <3>. QED
      BY <3>1, <3>2
  <2>. QED
    BY <2>1, <2>2
<1>4. F[g] = [n \in 0..size |-> F[g][n]] /\ g = [n \in 0..size |-> g[n]]
  <2>1. F[g] \in [0..size -> R]
    BY <1>0
  <2>. QED
    BY <2>1, Zenon
<1>5. [n \in 0..size |-> F[g][n]] = [n \in 0..size |-> g[n]]
  BY <1>3, Zenon
<1>. QED
  BY <1>4, <1>5, Zenon
-----------------------------------------------------------------------------
(* The searches of the document.                                           *)

Node == 1..doc.size
NodeOrNull == 0..doc.size

LEMMA DocumentNodes ==
  ASSUME IsDocument(doc)
  PROVE  /\ doc.size \in Nat \ {0} /\ Root \in Node
         /\ \A n \in Node :
              /\ doc.name[n] \in Names /\ doc.value[n] \in Values
              /\ doc.child[n] \in NodeOrNull /\ doc.next[n] \in NodeOrNull
              /\ doc.child[n] = 0 \/ doc.child[n] \in n + 1..doc.size
              /\ doc.next[n] = 0 \/ doc.next[n] \in n + 1..doc.size
BY DEF IsDocument, Node, NodeOrNull, Root

(* What getNodeByNameAndType does at a node, its recursive calls being g.  *)
GetBody(name, g, n) ==
  IF n = 0 THEN 0
  ELSE IF doc.name[n] = name THEN n
  ELSE LET below == g[doc.child[n]]
       IN IF below # 0 THEN below ELSE g[doc.next[n]]

LEMMA GetRecursion ==
  ASSUME IsDocument(doc), NEW name
  PROVE  LET get == getNodeByNameAndType(name)
         IN \A n \in NodeOrNull : get[n] = GetBody(name, get, n)
<1>. DEFINE F == [g \in [NodeOrNull -> NodeOrNull] |->
                    [n \in NodeOrNull |-> GetBody(name, g, n)]]
            get == getNodeByNameAndType(name)
<1>1. F \in [[NodeOrNull -> NodeOrNull] -> [NodeOrNull -> NodeOrNull]]
  <2>. SUFFICES ASSUME NEW g \in [NodeOrNull -> NodeOrNull],
                       NEW n \in NodeOrNull
                PROVE  GetBody(name, g, n) \in NodeOrNull
    OBVIOUS
  <2>1. 0 \in NodeOrNull /\ (n # 0 => n \in Node)
    BY DocumentNodes DEF NodeOrNull, Node
  <2>. QED
    BY <2>1, DocumentNodes DEF GetBody
<1>2. ASSUME NEW g \in [NodeOrNull -> NodeOrNull],
             NEW h \in [NodeOrNull -> NodeOrNull], NEW n \in NodeOrNull,
             n # 0 => /\ g[0] = h[0]
                      /\ \A k \in n + 1..doc.size : g[k] = h[k]
      PROVE  F[g][n] = F[h][n]
  <2>1. GetBody(name, g, n) = GetBody(name, h, n)
    <3>1. n # 0 => n \in Node
      BY DocumentNodes DEF NodeOrNull, Node
    <3>. QED
      BY <1>2, <3>1, DocumentNodes DEF GetBody
  <2>. QED
    BY <2>1
<1>3. \E g \in [NodeOrNull -> NodeOrNull] : F[g] = g
  <2>. DEFINE R == NodeOrNull
  <2>1. doc.size \in Nat /\ 0 \in R
    BY DocumentNodes DEF NodeOrNull
  <2>. HIDE DEF F
  <2>2. LooksAhead(F, doc.size, R)
    BY <1>1, <1>2 DEF NodeOrNull, LooksAhead
  <2>. HIDE DEF R
  <2>4. \E g \in [0..doc.size -> R] : F[g] = g
    BY <2>1, <2>2, Recursion
  <2>. QED
    BY <2>4 DEF NodeOrNull, R
<1>4. \E g : g = [n \in NodeOrNull |-> GetBody(name, g, n)]
  BY <1>3
<1>5. get = CHOOSE g : g = [n \in NodeOrNull |-> GetBody(name, g, n)]
  BY DEF getNodeByNameAndType, GetBody, NodeOrNull
<1>6. get = [n \in NodeOrNull |-> GetBody(name, get, n)]
  <2>. HIDE DEF get
  <2>. QED
    BY <1>4, <1>5
<1>. HIDE DEF get
<1>7. \A n \in NodeOrNull : get[n] = GetBody(name, get, n)
  BY <1>6
<1>. QED
  BY <1>7 DEF get

(* It finds a node of the name that is not before the one it starts from.  *)
LEMMA GetFinds ==
  ASSUME IsDocument(doc), NEW name, NEW n \in NodeOrNull
  PROVE  LET m == getNodeByNameAndType(name)[n]
         IN \/ m = 0
            \/ m \in n..doc.size /\ m \in Node /\ doc.name[m] = name
<1>. DEFINE get == getNodeByNameAndType(name)
            Finds(i) == \/ get[i] = 0
                        \/ /\ get[i] \in i..doc.size
                           /\ get[i] \in Node /\ doc.name[get[i]] = name
            G == {i \in Node : Finds(i)}
<1>1. \A i \in NodeOrNull : get[i] = GetBody(name, get, i)
  BY GetRecursion
<1>2. doc.size \in Nat
  BY DocumentNodes
<1>. HIDE DEF get
<1>3. Finds(0)
  BY <1>1, <1>2 DEF GetBody, NodeOrNull
<1>4. ASSUME NEW i \in Node, \A k \in i + 1..doc.size : k \in G
      PROVE  i \in G
  <2>1. /\ i \in NodeOrNull /\ i # 0 /\ i \in Nat
        /\ doc.child[i] = 0 \/ doc.child[i] \in i + 1..doc.size
        /\ doc.next[i] = 0 \/ doc.next[i] \in i + 1..doc.size
    BY <1>2, DocumentNodes DEF Node, NodeOrNull
  <2>2. /\ Finds(doc.child[i]) /\ Finds(doc.next[i])
        /\ get[doc.child[i]] # 0 => get[doc.child[i]] \in i..doc.size
        /\ get[doc.next[i]] # 0 => get[doc.next[i]] \in i..doc.size
    <3>1. ASSUME NEW k, k = 0 \/ k \in i + 1..doc.size
          PROVE  Finds(k) /\ (get[k] # 0 => get[k] \in i..doc.size)
      <4>1. CASE k = 0
        <5>1. get[0] = 0
          BY <1>1, <1>2 DEF GetBody, NodeOrNull
        <5>. QED
          BY <4>1, <5>1
      <4>2. CASE k \in i + 1..doc.size
        BY <1>2, <1>4, <2>1, <4>2
      <4>. QED
        BY <3>1, <4>1, <4>2
    <3>. QED
      BY <2>1, <3>1
  <2>3. \/ get[i] = i /\ doc.name[i] = name
        \/ get[i] = get[doc.child[i]] /\ get[i] # 0
        \/ get[i] = get[doc.next[i]]
    BY <1>1, <2>1 DEF GetBody
  <2>4. Finds(i)
    <3>1. CASE get[i] = i /\ doc.name[i] = name
      BY <1>2, <2>1, <3>1 DEF Node
    <3>2. CASE get[i] = get[doc.child[i]] /\ get[i] # 0
      BY <2>2, <3>2
    <3>3. CASE get[i] = get[doc.next[i]]
      BY <2>2, <3>3
    <3>. QED
      BY <2>3, <3>1, <3>2, <3>3
  <2>. QED
    BY <2>4
<1>5. \A i \in 1..doc.size : i \in G
  <2>. HIDE DEF G
  <2>. QED
    BY <1>2, <1>4, FromTheLast DEF Node
<1>6. Finds(n)
  <2>1. n = 0 \/ n \in 1..doc.size
    BY <1>2 DEF NodeOrNull
  <2>. QED
    BY <1>3, <1>5, <2>1
<1>. QED
  BY <1>6 DEF get

LEMMA FirstIsNodeOrNull ==
  ASSUME IsDocument(doc), NEW name
  PROVE  FirstOf(name) \in NodeOrNull
<1>1. Root \in NodeOrNull
  BY DocumentNodes DEF NodeOrNull, Node
<1>. QED
  BY <1>1, GetFinds, DocumentNodes DEF FirstOf, Node, NodeOrNull

(* What the loop of findCencElement and findDrmScheme does at a node.      *)
SchemeBody(wanted, g, m) ==
  IF m = 0 THEN "none"
  ELSE IF doc.value[m] \in wanted THEN doc.value[m]
  ELSE LET below == g[getNodeByNameAndType("ContentProtection")[doc.child[m]]]
       IN IF below # "none" THEN below ELSE g[doc.next[m]]

LEMMA LaterNodes ==
  ASSUME IsDocument(doc), NEW m \in Node
  PROVE  LET below == getNodeByNameAndType("ContentProtection")[doc.child[m]]
         IN /\ below \in NodeOrNull /\ doc.next[m] \in NodeOrNull
            /\ below = 0 \/ below \in m + 1..doc.size
            /\ doc.next[m] = 0 \/ doc.next[m] \in m + 1..doc.size
<1>. DEFINE below == getNodeByNameAndType("ContentProtection")[doc.child[m]]
<1>1. /\ doc.size \in Nat /\ doc.child[m] \in NodeOrNull
      /\ doc.next[m] \in NodeOrNull
      /\ doc.child[m] = 0 \/ doc.child[m] \in m + 1..doc.size
      /\ doc.next[m] = 0 \/ doc.next[m] \in m + 1..doc.size
  BY DocumentNodes
<1>2. below = 0 \/ (below \in doc.child[m]..doc.size /\ below \in Node)
  BY <1>1, GetFinds
<1>3. doc.child[m] = 0 => below = 0
  BY <1>1, GetRecursion DEF GetBody
<1>4. below = 0 \/ below \in m + 1..doc.size
  <2>1. CASE doc.child[m] = 0
    BY <1>3, <2>1
  <2>2. CASE doc.child[m] \in m + 1..doc.size /\ below # 0
    <3>. HIDE DEF below
    <3>. QED
      BY <1>1, <1>2, <2>2 DEF Node
  <2>. QED
    BY <1>1, <2>1, <2>2
<1>5. below \in NodeOrNull
  <2>. HIDE DEF below
  <2>. QED
    BY <1>1, <1>2 DEF Node, NodeOrNull
<1>. QED
  BY <1>1, <1>4, <1>5

LEMMA SchemeRecursion ==
  ASSUME IsDocument(doc), NEW wanted
  PROVE  LET from == SchemeFrom(wanted)
         IN \A m \in NodeOrNull : from[m] = SchemeBody(wanted, from, m)
<1>. DEFINE V == Values
            F == [g \in [NodeOrNull -> V] |->
                    [m \in NodeOrNull |-> SchemeBody(wanted, g, m)]]
            from == SchemeFrom(wanted)
<1>0. /\ "none" \in V /\ doc.size \in Nat
      /\ \A m \in NodeOrNull : m = 0 \/ m \in Node
  BY DocumentNodes DEF Values, NodeOrNull, Node
<1>1. F \in [[NodeOrNull -> V] -> [NodeOrNull -> V]]
  <2>. SUFFICES ASSUME NEW g \in [NodeOrNull -> V], NEW m \in NodeOrNull
                PROVE  SchemeBody(wanted, g, m) \in V
    OBVIOUS
  <2>1. CASE m = 0
    BY <1>0, <2>1 DEF SchemeBody
  <2>2. CASE m \in Node
    <3>1. doc.value[m] \in V
      BY <2>2, DocumentNodes
    <3>2. /\ g[doc.next[m]] \in V
          /\ g[getNodeByNameAndType("ContentProtection")[doc.child[m]]] \in V
      BY <2>2, LaterNodes
    <3>. HIDE DEF V
    <3>. QED
      BY <1>0, <3>1, <3>2 DEF SchemeBody
  <2>. QED
    BY <1>0, <2>1, <2>2
<1>2. ASSUME NEW g \in [NodeOrNull -> V], NEW h \in [NodeOrNull -> V],
             NEW m \in NodeOrNull,
             m # 0 => g[0] = h[0] /\ \A k \in m + 1..doc.size : g[k] = h[k]
      PROVE  F[g][m] = F[h][m]
  <2>1. SchemeBody(wanted, g, m) = SchemeBody(wanted, h, m)
    <3>1. CASE m = 0
      BY <3>1 DEF SchemeBody
    <3>2. CASE m \in Node
      <4>. DEFINE below ==
             getNodeByNameAndType("ContentProtection")[doc.child[m]]
      <4>1. m # 0
        BY <1>0, <3>2 DEF Node
      <4>2. g[below] = h[below] /\ g[doc.next[m]] = h[doc.next[m]]
        BY <1>2, <3>2, <4>1, LaterNodes
      <4>. QED
        BY <4>2 DEF SchemeBody
    <3>. QED
      BY <1>0, <3>1, <3>2
  <2>. QED
    BY <2>1
<1>3. \E g \in [NodeOrNull -> V] : F[g] = g
  <2>. HIDE DEF F, V
  <2>1. LooksAhead(F, doc.size, V)
    BY <1>1, <1>2 DEF NodeOrNull, LooksAhead
  <2>2. \E g \in [0..doc.size -> V] : F[g] = g
    BY <1>0, <2>1, Recursion
  <2>. QED
    BY <2>2 DEF NodeOrNull
<1>4. \E g : g = [m \in NodeOrNull |-> SchemeBody(wanted, g, m)]
  BY <1>3
<1>5. from = CHOOSE g : g = [m \in NodeOrNull |-> SchemeBody(wanted, g, m)]
  BY DEF SchemeFrom, SchemeBody, NodeOrNull
<1>6. from = [m \in NodeOrNull |-> SchemeBody(wanted, from, m)]
  <2>. HIDE DEF from
  <2>. QED
    BY <1>4, <1>5
<1>. HIDE DEF from
<1>7. \A m \in NodeOrNull : from[m] = SchemeBody(wanted, from, m)
  BY <1>6
<1>. QED
  BY <1>7 DEF from

SiblingBody(g, m) == IF m = 0 THEN {} ELSE {m} \union g[doc.next[m]]

LEMMA SiblingRecursion ==
  ASSUME IsDocument(doc)
  PROVE  \A m \in NodeOrNull : FromSibling[m] = SiblingBody(FromSibling, m)
<1>. DEFINE V == SUBSET Node
            F == [g \in [NodeOrNull -> V] |->
                    [m \in NodeOrNull |-> SiblingBody(g, m)]]
<1>0. {} \in V /\ doc.size \in Nat /\ \A m \in NodeOrNull : m = 0 \/ m \in Node
  BY DocumentNodes DEF NodeOrNull, Node
<1>1. F \in [[NodeOrNull -> V] -> [NodeOrNull -> V]]
  <2>. SUFFICES ASSUME NEW g \in [NodeOrNull -> V], NEW m \in NodeOrNull
                PROVE  SiblingBody(g, m) \in V
    OBVIOUS
  <2>1. CASE m = 0
    BY <1>0, <2>1 DEF SiblingBody
  <2>2. CASE m \in Node
    <3>1. g[doc.next[m]] \in V
      BY <2>2, DocumentNodes
    <3>. QED
      BY <1>0, <2>2, <3>1 DEF SiblingBody
  <2>. QED
    BY <1>0, <2>1, <2>2
<1>2. ASSUME NEW g \in [NodeOrNull -> V], NEW h \in [NodeOrNull -> V],
             NEW m \in NodeOrNull,
             m # 0 => g[0] = h[0] /\ \A k \in m + 1..doc.size : g[k] = h[k]
      PROVE  F[g][m] = F[h][m]
  <2>1. SiblingBody(g, m) = SiblingBody(h, m)
    <3>1. CASE m = 0
      BY <3>1 DEF SiblingBody
    <3>2. CASE m \in Node /\ m # 0
      <4>1. g[doc.next[m]] = h[doc.next[m]]
        BY <1>2, <3>2, DocumentNodes
      <4>. QED
        BY <4>1 DEF SiblingBody
    <3>. QED
      BY <1>0, <3>1, <3>2
  <2>. QED
    BY <2>1
<1>3. \E g \in [NodeOrNull -> V] : F[g] = g
  <2>. HIDE DEF F, V
  <2>1. LooksAhead(F, doc.size, V)
    BY <1>1, <1>2 DEF NodeOrNull, LooksAhead
  <2>2. \E g \in [0..doc.size -> V] : F[g] = g
    BY <1>0, <2>1, Recursion
  <2>. QED
    BY <2>2 DEF NodeOrNull
<1>4. \E g : g = [m \in NodeOrNull |-> SiblingBody(g, m)]
  BY <1>3
<1>5. FromSibling = CHOOSE g : g = [m \in NodeOrNull |-> SiblingBody(g, m)]
  BY DEF FromSibling, SiblingBody, NodeOrNull
<1>6. FromSibling = [m \in NodeOrNull |-> SiblingBody(FromSibling, m)]
  BY <1>4, <1>5
<1>. QED
  BY <1>6

(* The scheme that a search stops at is that of a following sibling of the *)
(* node it starts from, or of a ContentProtection below one of these.      *)
Beside(n, i) ==
  \/ i \in FromSibling[n]
  \/ \E m \in Named("ContentProtection") : i \in FromSibling[m]

LEMMA SchemeIsBeside ==
  ASSUME IsDocument(doc), NEW wanted, NEW n \in NodeOrNull
  PROVE  LET scheme == SchemeFrom(wanted)[n]
         IN \/ scheme = "none"
            \/ scheme \in wanted /\ \E i : Beside(n, i) /\ doc.value[i] = scheme
<1>. DEFINE from == SchemeFrom(wanted)
            Holds(m) == \/ from[m] = "none"
                        \/ /\ from[m] \in wanted
                           /\ \E i : Beside(m, i) /\ doc.value[i] = from[m]
            G == {m \in Node : Holds(m)}
<1>1. \A m \in NodeOrNull : from[m] = SchemeBody(wanted, from, m)
  BY SchemeRecursion
<1>2. doc.size \in Nat /\ 0 \in NodeOrNull
  BY DocumentNodes DEF NodeOrNull
<1>. HIDE DEF from
<1>3. Holds(0)
  BY <1>1, <1>2 DEF SchemeBody
<1>4. ASSUME NEW m \in Node, \A k \in m + 1..doc.size : k \in G
      PROVE  m \in G
  <2>. DEFINE below == getNodeByNameAndType("ContentProtection")[doc.child[m]]
  <2>1. m \in NodeOrNull /\ m # 0
    BY <1>2 DEF Node, NodeOrNull
  <2>2. /\ below = 0 \/ below \in m + 1..doc.size
        /\ doc.next[m] = 0 \/ doc.next[m] \in m + 1..doc.size
    BY LaterNodes
  <2>3. \/ from[m] = doc.value[m] /\ doc.value[m] \in wanted
        \/ from[m] = from[below] \/ from[m] = from[doc.next[m]]
    BY <1>1, <2>1 DEF SchemeBody
  <2>4. below = 0 \/ below \in Named("ContentProtection")
    BY DocumentNodes, GetFinds DEF Named, Node
  <2>. HIDE DEF below
  <2>5. Holds(below) /\ Holds(doc.next[m])
    BY <1>3, <1>4, <2>2
  <2>6. FromSibling[m] = {m} \union FromSibling[doc.next[m]]
    BY <2>1, SiblingRecursion DEF SiblingBody
  <2>7. CASE from[m] = doc.value[m] /\ doc.value[m] \in wanted
    BY <2>6, <2>7 DEF Beside
  <2>8. CASE from[m] = from[below]
    <3>1. CASE below = 0
      BY <1>1, <1>2, <2>8, <3>1 DEF SchemeBody
    <3>2. CASE below \in Named("ContentProtection")
      BY <2>5, <2>8, <3>2 DEF Beside
    <3>. QED
      BY <2>4, <3>1, <3>2
  <2>9. CASE from[m] = from[doc.next[m]]
    BY <2>5, <2>6, <2>9 DEF Beside
  <2>. QED
    BY <2>3, <2>7, <2>8, <2>9
<1>5. \A m \in 1..doc.size : m \in G
  <2>. HIDE DEF G
  <2>. QED
    BY <1>2, <1>4, FromTheLast DEF Node
<1>6. Holds(n)
  <2>1. n = 0 \/ n \in 1..doc.size
    BY <1>2 DEF NodeOrNull
  <2>. QED
    BY <1>3, <1>5, <2>1
<1>. QED
  BY <1>6 DEF from

(* What findScheme stops at is beside a ContentProtection.                 *)
LEMMA SchemeIsProtection ==
  ASSUME IsDocument(doc), NEW wanted
  PROVE  LET scheme == findScheme(wanted)
         IN \/ scheme = "none"
            \/ /\ scheme \in wanted
               /\ \E m \in Named("ContentProtection") :
                    \E i \in FromSibling[m] : doc.value[i] = scheme
<1>. DEFINE first == FirstOf("ContentProtection")
            scheme == SchemeFrom(wanted)[first]
<1>1. first \in NodeOrNull
  BY FirstIsNodeOrNull
<1>2. first = 0 \/ first \in Named("ContentProtection")
  BY DocumentNodes, GetFinds DEF FirstOf, Named, Node, NodeOrNull
<1>3. findScheme(wanted) = scheme
  BY DEF findScheme, FirstOf
<1>4. \/ scheme = "none"
      \/ scheme \in wanted /\ \E i : Beside(first, i) /\ doc.value[i] = scheme
  BY <1>1, SchemeIsBeside
<1>5. first = 0 => scheme = "none"
  BY <1>1, SchemeRecursion DEF SchemeBody
<1>. HIDE DEF first, scheme
<1>. QED
  BY <1>2, <1>3, <1>4, <1>5 DEF Beside

(* A search tries the node it starts from and all the siblings after it.   *)
LEMMA SiblingsAreTried ==
  ASSUME IsDocument(doc), NEW wanted, "none" \notin wanted,
         NEW n \in NodeOrNull,
         \E i \in FromSibling[n] : doc.value[i] \in wanted
  PROVE  SchemeFrom(wanted)[n] # "none"
<1>. DEFINE from == SchemeFrom(wanted)
            Holds(m) == (\E i \in FromSibling[m] : doc.value[i] \in wanted)
                          => from[m] # "none"
            G == {m \in Node : Holds(m)}
<1>1. \A m \in NodeOrNull : from[m] = SchemeBody(wanted, from, m)
  BY SchemeRecursion
<1>2. doc.size \in Nat /\ 0 \in NodeOrNull
  BY DocumentNodes DEF NodeOrNull
<1>. HIDE DEF from
<1>3. Holds(0)
  BY <1>2, SiblingRecursion DEF SiblingBody
<1>4. ASSUME NEW m \in Node, \A k \in m + 1..doc.size : k \in G
      PROVE  m \in G
  <2>1. m \in NodeOrNull /\ m # 0
    BY <1>2 DEF Node, NodeOrNull
  <2>2. Holds(doc.next[m])
    BY <1>3, <1>4, DocumentNodes
  <2>3. FromSibling[m] = {m} \union FromSibling[doc.next[m]]
    BY <2>1, SiblingRecursion DEF SiblingBody
  <2>4. \/ from[m] = doc.value[m] /\ doc.value[m] \in wanted
        \/ doc.value[m] \notin wanted /\ from[m] # "none"
        \/ doc.value[m] \notin wanted /\ from[m] = from[doc.next[m]]
    BY <1>1, <2>1 DEF SchemeBody
  <2>5. Holds(m)
    BY <2>2, <2>3, <2>4
  <2>. QED
    BY <2>5
<1>5. \A m \in 1..doc.size : m \in G
  <2>. HIDE DEF G
  <2>. QED
    BY <1>2, <1>4, FromTheLast DEF Node
<1>6. Holds(n)
  <2>1. n = 0 \/ n \in 1..doc.size
    BY <1>2 DEF NodeOrNull
  <2>. QED
    BY <1>3, <1>5, <2>1
<1>. QED
  BY <1>6 DEF from

-----------------------------------------------------------------------------
(* The call.                                                               *)

Searched(scheme) ==    \* what findCencElement, or findDrmScheme, found
  IF scheme = "cenc" THEN findScheme({"cenc", "cencbare", "schemebare"})
                     ELSE findScheme({"drm", "schemebare"})

Deadly == {"cencbare", "schemebare"}

(* What the two searches have said, and what the answer is made of.        *)
CallInv ==
  /\ doc \in Documents
  /\ pc \in {"start", "cenc", "drm"} => kind = 0
  /\ pc = "scan" => kind \in 1..4
  /\ pc = "judge" => kind = 4
  /\ pc \in {"drm", "scan", "judge"} \/ kind # 0 =>
       /\ cipherSchemeOk = (Searched("cenc") = "cenc")
       /\ Searched("cenc") \notin Deadly
  /\ pc \in {"scan", "judge"} \/ kind # 0 =>
       drmSchemeOk = (Searched("drm") = "drm")
  /\ pc \in {"scan", "judge", "done"} /\ kind # 0 =>
       Searched("drm") \notin Deadly
  /\ pc = "done" /\ kind = 4 =>
       answer = (cipherSchemeOk /\ drmSchemeOk /\ MediaSupported)

(* The elements of a kind under the parent of the first one, and whether   *)
(* the vector has them.                                                    *)
Siblings(k) == FromSibling[FirstOf(Kinds[k])] \intersect Named(Kinds[k])
Collected(k) == NoneBelowBetween(Kinds[k]) => Siblings(k) \subseteq found[k]

(* Those that the scan has not collected are still before it.              *)
Ahead(k, n) ==
  NoneBelowBetween(Kinds[k]) =>
    \/ Siblings(k) \subseteq found[k]
    \/ /\ n \in FromSibling[FirstOf(Kinds[k])]
       /\ Siblings(k) \subseteq found[k] \union FromSibling[n]

ScanInv ==
  /\ pc = "scan" => /\ \A k \in 1..kind - 1 : Collected(k)
                    /\ cur = Root \/ Ahead(kind, cur)
  /\ pc = "judge" \/ Judged => \A k \in 1..4 : Collected(k)

Inv == TypeOK /\ CallInv

LEMMA NextMatchIsNode ==
  ASSUME TypeOK, kind \in 1..4, NextMatch # 0
  PROVE  NextMatch \in Node /\ Advanced(NextMatch) \in Node
<1>1. IsDocument(doc) /\ cur \in NodeOrNull
  BY DEF TypeOK, NodeOrNull
<1>2. NextMatch \in Node
  BY <1>1, GetFinds DEF NextMatch
<1>. QED
  BY <1>1, <1>2, DocumentNodes DEF Advanced, Node, NodeOrNull

LEMMA InvInitially == Init => Inv
<1>. SUFFICES ASSUME Init PROVE Inv
  OBVIOUS
<1>1. IsDocument(doc) /\ doc.size \in Nat \ {0}
  BY DocumentsAssumption DEF Init, IsDocument
<1>2. found \in [1..4 -> SUBSET (1..doc.size)]
  BY DEF Init
<1>3. TypeOK
  <2>1. cur \in 0..doc.size
    BY <1>1 DEF Init
  <2>2. {odd, cipherSchemeOk, drmSchemeOk, answer} \subseteq BOOLEAN
    BY DEF Init
  <2>. QED
    BY <1>1, <1>2, <2>1, <2>2 DEF Init, TypeOK
<1>4. CallInv
  BY DEF Init, CallInv
<1>. QED
  BY <1>3, <1>4 DEF Inv

LEMMA InvInductive == Inv /\ [Next]_vars => Inv'
<1>. SUFFICES ASSUME Inv, [Next]_vars PROVE Inv'
  OBVIOUS
<1>. USE DEF Inv
<1>1. ASSUME doc' = doc
      PROVE  \A scheme : Searched(scheme)' = Searched(scheme)
  BY <1>1 DEF Searched, findScheme, SchemeFrom, getNodeByNameAndType
<1>2. CASE CanHandleByExtension \/ Unparsable \/ ParseMpd
  <2>1. /\ pc = "start" /\ pc' \in {"done", "cenc"} /\ kind' = kind
        /\ answer' \in BOOLEAN
        /\ UNCHANGED <<doc, cur, found, odd, cipherSchemeOk, drmSchemeOk>>
    BY <1>2 DEF CanHandleByExtension, Unparsable, ParseMpd, TypeOK
  <2>2. TypeOK'
    BY <2>1 DEF TypeOK
  <2>3. CallInv'
    BY <2>1 DEF CallInv
  <2>. QED
    BY <2>2, <2>3
<1>3. CASE findCencElement
  <2>1. /\ pc = "cenc" /\ cipherSchemeOk' = (Searched("cenc") = "cenc")
        /\ pc' = IF Searched("cenc") \in Deadly THEN "dead" ELSE "drm"
        /\ UNCHANGED <<doc, cur, kind, found, odd, drmSchemeOk, answer>>
    BY <1>3 DEF findCencElement, Searched, Deadly
  <2>2. TypeOK'
    BY <2>1 DEF TypeOK
  <2>3. CallInv'
    BY <1>1, <2>1 DEF CallInv
  <2>. QED
    BY <2>2, <2>3
<1>4. CASE findDrmScheme
  <2>1. /\ pc = "drm"
        /\ pc' = IF Searched("drm") = "schemebare" THEN "dead" ELSE "scan"
        /\ drmSchemeOk' = (Searched("drm") = "drm")
        /\ cur' = Root /\ kind' = 1
        /\ UNCHANGED <<doc, found, odd, cipherSchemeOk, answer>>
    BY <1>4 DEF findDrmScheme, Searched
  <2>2. TypeOK'
    BY <2>1, DocumentNodes DEF TypeOK, Node
  <2>3. pc' = "scan" => Searched("drm") \notin Deadly
    <3>1. Searched("drm") \in {"none", "drm", "schemebare"}
      BY SchemeIsProtection DEF Searched, TypeOK
    <3>. QED
      BY <2>1, <3>1 DEF Deadly
  <2>4. CallInv'
    BY <1>1, <2>1, <2>3 DEF CallInv
  <2>. QED
    BY <2>2, <2>4
<1>5. CASE ScanHit
  <2>1. /\ pc = "scan" /\ NextMatch # 0
        /\ found' = [found EXCEPT ![kind] = @ \union {NextMatch}]
        /\ odd' = ~odd /\ cur' = Advanced(NextMatch)
        /\ UNCHANGED <<doc, pc, kind, cipherSchemeOk, drmSchemeOk, answer>>
    BY <1>5 DEF ScanHit
  <2>2. kind \in 1..4
    BY <2>1 DEF CallInv
  <2>3. NextMatch \in Node /\ Advanced(NextMatch) \in Node
    BY <2>1, <2>2, NextMatchIsNode
  <2>4. TypeOK'
    <3>1. found' \in [1..4 -> SUBSET (1..doc.size)]
      BY <2>1, <2>2, <2>3 DEF TypeOK, Node
    <3>2. cur' \in 0..doc.size
      BY <2>1, <2>3 DEF TypeOK, Node, IsDocument
    <3>. QED
      BY <2>1, <3>1, <3>2 DEF TypeOK
  <2>5. CallInv'
    BY <1>1, <2>1 DEF CallInv
  <2>. QED
    BY <2>4, <2>5
<1>6. CASE ScanMiss
  <2>1. /\ pc = "scan" /\ cur' \in {0, Root}
        /\ IF kind < 4 THEN kind' = kind + 1 /\ pc' = "scan"
                       ELSE kind' = kind /\ pc' = "judge"
        /\ UNCHANGED <<doc, found, odd, cipherSchemeOk, drmSchemeOk, answer>>
    BY <1>6 DEF ScanMiss
  <2>2. kind \in 1..4 /\ kind' \in 1..4 /\ pc' \in {"scan", "judge"}
        /\ (pc' = "judge" => kind' = 4)
    BY <2>1 DEF CallInv
  <2>3. TypeOK'
    BY <2>1, <2>2, DocumentNodes DEF TypeOK, Node
  <2>4. CallInv'
    BY <1>1, <2>1, <2>2 DEF CallInv
  <2>. QED
    BY <2>3, <2>4
<1>7. CASE Judge
  <2>1. /\ pc = "judge" /\ pc' = "done"
        /\ answer' = (cipherSchemeOk /\ drmSchemeOk /\ MediaSupported)
        /\ UNCHANGED <<doc, cur, kind, found, odd, cipherSchemeOk, drmSchemeOk>>
    BY <1>7 DEF Judge
  <2>2. TypeOK'
    BY <2>1 DEF TypeOK
  <2>3. MediaSupported' = MediaSupported
    <3>1. doc' = doc /\ found' = found
      BY <2>1
    <3>. QED
      BY <3>1 DEF MediaSupported, Supported, TextOf, getNodeByNameAndType
  <2>4. CallInv'
    BY <1>1, <2>1, <2>3 DEF CallInv
  <2>. QED
    BY <2>2, <2>4
<1>8. CASE ReadMediaNull
  <2>1. /\ pc = "scan" /\ pc' = "dead"
        /\ UNCHANGED <<doc, cur, kind, found, odd, cipherSchemeOk,
                       drmSchemeOk, answer>>
    BY <1>8 DEF ReadMediaNull
  <2>2. TypeOK'
    BY <2>1 DEF TypeOK
  <2>3. CallInv'
    BY <1>1, <2>1 DEF CallInv
  <2>. QED
    BY <2>2, <2>3
<1>9. CASE UNCHANGED vars
  <2>1. UNCHANGED <<doc, pc, cur, kind, found, odd, cipherSchemeOk,
                    drmSchemeOk, answer>>
    BY <1>9 DEF vars
  <2>2. TypeOK'
    BY <2>1 DEF TypeOK
  <2>3. MediaSupported' = MediaSupported
    <3>1. doc' = doc /\ found' = found
      BY <2>1
    <3>. QED
      BY <3>1 DEF MediaSupported, Supported, TextOf, getNodeByNameAndType
  <2>4. CallInv'
    BY <1>1, <2>1, <2>3 DEF CallInv
  <2>. QED
    BY <2>2, <2>4
<1>. QED
  BY <1>2, <1>3, <1>4, <1>5, <1>6, <1>7, <1>8, <1>9
     DEF Next, Parse, Scan, Over

(* The pointers stay in the tree, or NULL, and the vectors hold its nodes, *)
(* for every document.                                                     *)
THEOREM TypeCorrect == Spec => []TypeOK
<1>1. Inv => TypeOK
  BY DEF Inv
<1>. QED
  BY <1>1, InvInitially, InvInductive, PTL DEF Spec

(* A description is accepted only if a ContentProtection, or a following   *)
(* sibling of one, names the common encryption scheme and another, or the  *)
(* same, a supported DRM: for every document, whatever its elements are.   *)
THEOREM AcceptanceNeedsProtection == Spec => []AcceptedIsProtected
<1>1. Inv => AcceptedIsProtected
  <2>. SUFFICES ASSUME Inv, Judged, answer,
                       NEW scheme \in {"cenc", "drm"}
                PROVE  \E m \in Named("ContentProtection") :
                         \E n \in FromSibling[m] : doc.value[n] = scheme
    BY DEF AcceptedIsProtected
  <2>1. IsDocument(doc)
    BY DEF Inv, TypeOK
  <2>2. Searched("cenc") = "cenc" /\ Searched("drm") = "drm"
    <3>1. pc = "done" /\ kind = 4 /\ kind # 0
      BY DEF Judged
    <3>2. cipherSchemeOk /\ drmSchemeOk
      BY <3>1, Zenon DEF Inv, CallInv
    <3>. QED
      BY <3>1, <3>2, Zenon DEF Inv, CallInv
  <2>3. CASE scheme = "cenc"
    BY <2>1, <2>2, <2>3, SchemeIsProtection DEF Searched
  <2>4. CASE scheme = "drm"
    BY <2>1, <2>2, <2>4, SchemeIsProtection DEF Searched
  <2>. QED
    BY <2>3, <2>4
<1>. QED
  BY <1>1, InvInitially, InvInductive, PTL DEF Spec

(* A description with only supported media is accepted when the siblings   *)
(* from its first ContentProtection on name both schemes: for every        *)
(* document, in any order and among others.                                *)
THEOREM SupportSuffices == Spec => []SupportedIsAccepted
<1>1. Inv => SupportedIsAccepted
  <2>. DEFINE first == FromSibling[FirstOf("ContentProtection")]
  <2>. SUFFICES ASSUME Inv, Judged,
                       \A scheme \in {"cenc", "drm"} :
                         \E n \in first : doc.value[n] = scheme,
                       \A n \in 1..doc.size : doc.value[n] # "unsupported"
                PROVE  answer
    BY DEF SupportedIsAccepted
  <2>1. IsDocument(doc) /\ FirstOf("ContentProtection") \in NodeOrNull
    BY FirstIsNodeOrNull DEF Inv, TypeOK
  <2>2. Searched("cenc") \notin Deadly /\ Searched("drm") \notin Deadly
    BY DEF Inv, CallInv, Judged
  <2>3. Searched("cenc") = "cenc"
    <3>1. \E n \in first : doc.value[n] \in {"cenc", "cencbare", "schemebare"}
      OBVIOUS
    <3>2. Searched("cenc") # "none"
      BY <2>1, <3>1, SiblingsAreTried DEF Searched, findScheme, FirstOf
    <3>. QED
      BY <2>1, <2>2, <3>2, SchemeIsProtection DEF Searched, Deadly
  <2>4. Searched("drm") = "drm"
    <3>1. \E n \in first : doc.value[n] \in {"drm", "schemebare"}
      OBVIOUS
    <3>2. Searched("drm") # "none"
      BY <2>1, <3>1, SiblingsAreTried DEF Searched, findScheme, FirstOf
    <3>. QED
      BY <2>1, <2>2, <3>2, SchemeIsProtection DEF Searched, Deadly
  <2>5. MediaSupported
    <3>1. ASSUME NEW n \in Node PROVE Supported(n)
      <4>1. TextOf(n) # 0 => TextOf(n) \in Node
        BY <2>1, DocumentNodes, GetFinds DEF TextOf, Node, NodeOrNull
      <4>. QED
        BY <4>1 DEF Supported, Node
    <3>. QED
      BY <3>1 DEF Inv, TypeOK, MediaSupported, Node
  <2>6. pc = "done" /\ kind = 4 /\ kind # 0
    BY DEF Judged
  <2>7. cipherSchemeOk /\ drmSchemeOk
    BY <2>3, <2>4, <2>6, Zenon DEF Inv, CallInv
  <2>. QED
    BY <2>5, <2>6, <2>7, Zenon DEF Inv, CallInv
<1>. QED
  BY <1>1, InvInitially, InvInductive, PTL DEF Spec

-----------------------------------------------------------------------------
(* The scan.                                                               *)

(* FromSibling of a sibling.                                               *)
LEMMA LaterSiblings ==
  ASSUME IsDocument(doc), NEW n \in NodeOrNull
  PROVE  /\ FromSibling[n] \subseteq Node
         /\ \A c \in FromSibling[n] :
              /\ FromSibling[c] \subseteq FromSibling[n]
              /\ doc.next[c] # 0 => doc.next[c] \in FromSibling[n]
<1>. DEFINE Holds(m) ==
              /\ FromSibling[m] \subseteq Node
              /\ \A c \in FromSibling[m] :
                   /\ FromSibling[c] \subseteq FromSibling[m]
                   /\ doc.next[c] # 0 => doc.next[c] \in FromSibling[m]
            G == {m \in Node : Holds(m)}
<1>1. \A m \in NodeOrNull : FromSibling[m] = SiblingBody(FromSibling, m)
  BY SiblingRecursion
<1>2. doc.size \in Nat /\ 0 \in NodeOrNull
  BY DocumentNodes DEF NodeOrNull
<1>3. Holds(0)
  BY <1>1, <1>2 DEF SiblingBody
<1>4. ASSUME NEW m \in Node, \A k \in m + 1..doc.size : k \in G
      PROVE  m \in G
  <2>1. /\ m \in NodeOrNull /\ m # 0
        /\ doc.next[m] \in NodeOrNull
        /\ doc.next[m] = 0 \/ doc.next[m] \in m + 1..doc.size
    BY <1>2, DocumentNodes DEF Node, NodeOrNull
  <2>2. Holds(doc.next[m])
    BY <1>3, <1>4, <2>1
  <2>3. FromSibling[m] = {m} \union FromSibling[doc.next[m]]
    BY <1>1, <2>1 DEF SiblingBody
  <2>4. doc.next[m] # 0 => doc.next[m] \in FromSibling[doc.next[m]]
    BY <1>1, <2>1 DEF SiblingBody
  <2>5. Holds(m)
    BY <2>2, <2>3, <2>4
  <2>. QED
    BY <2>5
<1>5. \A m \in 1..doc.size : m \in G
  <2>. HIDE DEF G
  <2>. QED
    BY <1>2, <1>4, FromTheLast DEF Node
<1>6. Holds(n)
  <2>1. n = 0 \/ n \in 1..doc.size
    BY <1>2 DEF NodeOrNull
  <2>. QED
    BY <1>3, <1>5, <2>1
<1>. QED
  BY <1>6

(* From a sibling, a search finds the next one of the name, when there is  *)
(* one and no element before it has one below.                             *)
LEMMA NextOfName ==
  ASSUME IsDocument(doc), NEW name, NoneBelowBetween(name),
         FirstOf(name) \in NodeOrNull,
         NEW c \in FromSibling[FirstOf(name)]
  PROVE  LET m == getNodeByNameAndType(name)[c]
             left == FromSibling[c] \intersect Named(name)
         IN \/ left = {}
            \/ /\ m \in FromSibling[c]
               /\ left \subseteq {m} \union FromSibling[doc.next[m]]
<1>. DEFINE get == getNodeByNameAndType(name)
            All == FromSibling[FirstOf(name)]
            Left(i) == FromSibling[i] \intersect Named(name)
            Finds(i) == \/ Left(i) = {}
                        \/ /\ get[i] \in FromSibling[i]
                           /\ Left(i) \subseteq
                                {get[i]} \union FromSibling[doc.next[get[i]]]
            G == {i \in Node : i \in All => Finds(i)}
<1>1. \A i \in NodeOrNull : get[i] = GetBody(name, get, i)
  BY GetRecursion
<1>2. /\ doc.size \in Nat /\ 0 \in NodeOrNull
      /\ \A i \in Node : i \in NodeOrNull /\ i # 0
  BY DocumentNodes DEF NodeOrNull, Node
<1>3. /\ \A i \in Node : FromSibling[i] = {i} \union FromSibling[doc.next[i]]
      /\ FromSibling[0] = {}
  BY <1>2, SiblingRecursion DEF SiblingBody
<1>4. /\ All \subseteq Node
      /\ \A i \in All : doc.next[i] # 0 => doc.next[i] \in All
  BY LaterSiblings
<1>. HIDE DEF get
<1>5. ASSUME NEW i \in Node, \A k \in i + 1..doc.size : k \in G, i \in All
      PROVE  Finds(i)
  <2>1. doc.next[i] = 0 \/ doc.next[i] \in i + 1..doc.size
    BY DocumentNodes
  <2>2. CASE doc.name[i] = name
    <3>1. get[i] = i
      BY <1>1, <1>2, <2>2 DEF GetBody
    <3>. QED
      BY <1>3, <3>1
  <2>3. CASE doc.name[i] # name
    <3>1. Left(i) = Left(doc.next[i])
      BY <1>3, <2>3 DEF Named
    <3>2. CASE Left(doc.next[i]) = {}
      BY <3>1, <3>2
    <3>3. CASE Left(doc.next[i]) # {}
      <4>1. doc.next[i] # 0 /\ doc.next[i] \in G /\ doc.next[i] \in All
        BY <1>3, <1>4, <1>5, <2>1, <3>3
      <4>2. get[doc.child[i]] = 0
        BY <1>5, <2>3, <3>3 DEF NoneBelowBetween, Named, get
      <4>3. get[i] = get[doc.next[i]]
        BY <1>1, <1>2, <2>3, <4>2 DEF GetBody
      <4>4. Finds(doc.next[i])
        BY <4>1
      <4>. QED
        BY <1>3, <3>1, <3>3, <4>3, <4>4
    <3>. QED
      BY <3>2, <3>3
  <2>. QED
    BY <2>2, <2>3
<1>6. \A i \in 1..doc.size : i \in G
  <2>1. ASSUME NEW i \in Node, \A k \in i + 1..doc.size : k \in G
        PROVE  i \in G
    BY <1>5, <2>1
  <2>. HIDE DEF G
  <2>. QED
    BY <1>2, <2>1, FromTheLast DEF Node
<1>7. Finds(c)
  <2>1. c \in Node
    BY <1>4
  <2>. QED
    BY <1>6, <2>1 DEF Node
<1>. QED
  BY <1>7 DEF get

(* One round of the loop puts the next element of the kind in the vector.  *)
LEMMA HitCollects ==
  ASSUME IsDocument(doc), kind \in 1..4, NextMatch \in Node,
         cur = Root \/ Ahead(kind, cur),
         NoneBelowBetween(Kinds[kind])
  PROVE  LET collected == found[kind] \union {NextMatch}
         IN \/ Siblings(kind) \subseteq collected
            \/ /\ Advanced(NextMatch) \in FromSibling[FirstOf(Kinds[kind])]
               /\ Siblings(kind) \subseteq
                    collected \union FromSibling[Advanced(NextMatch)]
<1>. DEFINE All == FromSibling[FirstOf(Kinds[kind])]
            m == NextMatch
<1>1. FirstOf(Kinds[kind]) \in NodeOrNull
  BY FirstIsNodeOrNull
<1>2. /\ All \subseteq Node
      /\ \A c \in All : /\ FromSibling[c] \subseteq All
                        /\ doc.next[c] # 0 => doc.next[c] \in All
  BY <1>1, LaterSiblings
<1>3. /\ \A c \in Node : FromSibling[c] = {c} \union FromSibling[doc.next[c]]
      /\ FromSibling[0] = {}
  <2>1. 0 \in NodeOrNull /\ \A c \in Node : c \in NodeOrNull /\ c # 0
    BY DocumentNodes DEF Node, NodeOrNull
  <2>. QED
    BY <2>1, SiblingRecursion DEF SiblingBody
<1>4. ASSUME m \in All,
             Siblings(kind) \subseteq
               found[kind] \union {m} \union FromSibling[doc.next[m]]
      PROVE  \/ Siblings(kind) \subseteq found[kind] \union {m}
             \/ /\ Advanced(m) \in All
                /\ Siblings(kind) \subseteq
                     found[kind] \union {m} \union FromSibling[Advanced(m)]
  <2>1. CASE doc.next[m] = 0
    BY <1>3, <1>4, <2>1
  <2>2. CASE doc.next[m] # 0
    BY <1>2, <1>4, <2>2 DEF Advanced
  <2>. QED
    BY <2>1, <2>2
<1>5. CASE cur = Root
  <2>1. m = FirstOf(Kinds[kind])
    BY <1>5 DEF NextMatch, FirstOf
  <2>2. All = {m} \union FromSibling[doc.next[m]]
    BY <1>3, <2>1
  <2>3. Siblings(kind) \subseteq {m} \union FromSibling[doc.next[m]]
    BY <2>2 DEF Siblings
  <2>. QED
    BY <1>4, <2>2, <2>3
<1>6. CASE Ahead(kind, cur)
  <2>1. CASE Siblings(kind) \subseteq found[kind]
    BY <2>1
  <2>2. CASE /\ cur \in All
             /\ Siblings(kind) \subseteq found[kind] \union FromSibling[cur]
    <3>. DEFINE left == FromSibling[cur] \intersect Named(Kinds[kind])
    <3>1. \/ left = {}
          \/ /\ m \in FromSibling[cur]
             /\ left \subseteq {m} \union FromSibling[doc.next[m]]
      BY <1>1, <2>2, NextOfName DEF NextMatch
    <3>2. Siblings(kind) \subseteq found[kind] \union left
      BY <2>2 DEF Siblings
    <3>3. m \in FromSibling[cur] => m \in All
      BY <1>2, <2>2
    <3>. HIDE DEF left, m, All
    <3>4. CASE left = {}
      BY <3>2, <3>4 DEF m
    <3>5. CASE m \in FromSibling[cur]
               /\ left \subseteq {m} \union FromSibling[doc.next[m]]
      <4>1. Siblings(kind) \subseteq
              found[kind] \union {m} \union FromSibling[doc.next[m]]
        BY <3>2, <3>5
      <4>. QED
        BY <1>4, <3>3, <3>5, <4>1 DEF m, All
    <3>. QED
      BY <3>1, <3>4, <3>5
  <2>. QED
    BY <1>6, <2>1, <2>2 DEF Ahead
<1>. QED
  BY <1>5, <1>6

(* When nothing of the kind is before the scan any more, it has them all.  *)
LEMMA MissIsComplete ==
  ASSUME IsDocument(doc), kind \in 1..4, NextMatch = 0,
         cur = Root \/ Ahead(kind, cur)
  PROVE  Collected(kind)
<1>. SUFFICES ASSUME NoneBelowBetween(Kinds[kind])
              PROVE  Siblings(kind) \subseteq found[kind]
  BY DEF Collected
<1>1. FirstOf(Kinds[kind]) \in NodeOrNull
  BY FirstIsNodeOrNull
<1>2. CASE cur = Root
  <2>1. FirstOf(Kinds[kind]) = 0
    BY <1>2 DEF NextMatch, FirstOf
  <2>2. FromSibling[0] = {}
    BY <1>1, <2>1, SiblingRecursion DEF SiblingBody
  <2>. QED
    BY <2>1, <2>2 DEF Siblings
<1>3. CASE /\ cur \in FromSibling[FirstOf(Kinds[kind])]
           /\ Siblings(kind) \subseteq found[kind] \union FromSibling[cur]
  <2>1. 0 \notin FromSibling[cur]
    <3>1. cur \in Node
      BY <1>1, <1>3, LaterSiblings
    <3>2. cur \in NodeOrNull
      BY <3>1, DocumentNodes DEF Node, NodeOrNull
    <3>3. FromSibling[cur] \subseteq Node
      BY <3>2, LaterSiblings
    <3>. QED
      BY <3>3, DocumentNodes DEF Node
  <2>2. FromSibling[cur] \intersect Named(Kinds[kind]) = {}
    BY <1>1, <1>3, <2>1, NextOfName DEF NextMatch
  <2>. QED
    BY <1>3, <2>2 DEF Siblings
<1>. QED
  BY <1>2, <1>3 DEF Ahead

LEMMA ScanInvInitially == Init => ScanInv
BY DEF Init, ScanInv, Judged

LEMMA ScanInvInductive == Inv /\ ScanInv /\ [Next]_vars => ScanInv'
<1>. SUFFICES ASSUME Inv, ScanInv, [Next]_vars PROVE ScanInv'
  OBVIOUS
<1>1. IsDocument(doc)
  BY DEF Inv, TypeOK
<1>2. ASSUME doc' = doc
      PROVE  \A k : /\ Siblings(k)' = Siblings(k)
                    /\ NoneBelowBetween(Kinds[k])' = NoneBelowBetween(Kinds[k])
                    /\ FirstOf(Kinds[k])' = FirstOf(Kinds[k])
                    /\ FromSibling' = FromSibling
  BY <1>2 DEF Siblings, NoneBelowBetween, FirstOf, FromSibling, Named,
              getNodeByNameAndType
<1>3. ASSUME doc' = doc, NEW k, found'[k] = found[k]
      PROVE  Collected(k) => Collected(k)'
  BY <1>2, <1>3 DEF Collected
<1>4. CASE CanHandleByExtension \/ Unparsable \/ ParseMpd \/ findCencElement
  <2>1. pc' \notin {"scan", "judge"} /\ kind' = kind /\ pc \in {"start", "cenc"}
    BY <1>4 DEF CanHandleByExtension, Unparsable, ParseMpd, findCencElement
  <2>2. kind = 0
    BY <2>1 DEF Inv, CallInv
  <2>. QED
    BY <2>1, <2>2 DEF ScanInv, Judged
<1>5. CASE findDrmScheme
  <2>1. pc' \in {"scan", "dead"} /\ cur' = Root /\ kind' = 1
    BY <1>5 DEF findDrmScheme
  <2>. QED
    BY <2>1 DEF ScanInv, Judged, Root
<1>6. CASE ScanHit
  <2>1. /\ pc = "scan" /\ NextMatch # 0
        /\ found' = [found EXCEPT ![kind] = @ \union {NextMatch}]
        /\ cur' = Advanced(NextMatch)
        /\ doc' = doc /\ pc' = pc /\ kind' = kind
    BY <1>6 DEF ScanHit
  <2>2. /\ kind \in 1..4
        /\ \A k \in 1..kind - 1 : Collected(k)
        /\ cur = Root \/ Ahead(kind, cur)
    BY <2>1 DEF Inv, CallInv, ScanInv
  <2>3. NextMatch \in Node
    BY <2>1, <2>2, NextMatchIsNode DEF Inv
  <2>4. found'[kind] = found[kind] \union {NextMatch}
    BY <2>1, <2>2 DEF Inv, TypeOK
  <2>5. Ahead(kind, cur)'
    BY <1>1, <1>2, <2>1, <2>2, <2>3, <2>4, HitCollects DEF Ahead
  <2>6. \A k \in 1..kind - 1 : Collected(k)'
    BY <1>3, <2>1, <2>2 DEF Inv, TypeOK
  <2>. QED
    BY <2>1, <2>5, <2>6 DEF ScanInv, Judged
<1>7. CASE ScanMiss
  <2>1. /\ pc = "scan" /\ NextMatch = 0
        /\ IF kind < 4 THEN kind' = kind + 1 /\ cur' = Root /\ pc' = "scan"
                       ELSE kind' = kind /\ pc' = "judge"
        /\ doc' = doc /\ found' = found
    BY <1>7 DEF ScanMiss
  <2>2. /\ kind \in 1..4
        /\ \A k \in 1..kind - 1 : Collected(k)
        /\ cur = Root \/ Ahead(kind, cur)
    BY <2>1 DEF Inv, CallInv, ScanInv
  <2>3. Collected(kind)
    BY <1>1, <2>1, <2>2, MissIsComplete
  <2>4. \A k \in 1..kind : Collected(k)'
    <3>1. \A k \in 1..kind : k = kind \/ k \in 1..kind - 1
      BY <2>2
    <3>. QED
      BY <1>3, <2>1, <2>2, <2>3, <3>1
  <2>5. CASE kind < 4
    <3>1. \A k \in 1..kind' - 1 : Collected(k)'
      BY <2>1, <2>2, <2>4, <2>5
    <3>. QED
      BY <2>1, <2>5, <3>1 DEF ScanInv, Judged
  <2>6. CASE kind = 4
    BY <2>1, <2>4, <2>6 DEF ScanInv, Judged
  <2>. QED
    BY <2>2, <2>5, <2>6
<1>8. CASE Judge
  <2>1. pc = "judge" /\ pc' = "done" /\ doc' = doc /\ found' = found
    BY <1>8 DEF Judge
  <2>2. \A k \in 1..4 : Collected(k)'
    BY <1>3, <2>1 DEF ScanInv
  <2>. QED
    BY <2>1, <2>2 DEF ScanInv
<1>9. CASE ReadMediaNull
  BY <1>9 DEF ReadMediaNull, ScanInv, Judged
<1>10. CASE UNCHANGED vars
  <2>1. UNCHANGED <<doc, pc, cur, kind, found>>
    BY <1>10 DEF vars
  <2>2. \A k : Collected(k) => Collected(k)'
    BY <1>3, <2>1
  <2>3. Ahead(kind, cur) => Ahead(kind, cur)'
    BY <1>2, <2>1 DEF Ahead
  <2>. QED
    BY <2>1, <2>2, <2>3 DEF ScanInv, Judged
<1>. QED
  BY <1>4, <1>5, <1>6, <1>7, <1>8, <1>9, <1>10 DEF Next, Parse, Scan, Over

(* Every AdaptationSet beside the first one, every Representation and      *)
(* SegmentTemplate too, is supported in a description that is accepted:    *)
(* for every document in which no other element between two of a name has  *)
(* one below it, as where there is only one.                               *)
THEOREM AcceptanceNeedsSupport == Spec => []AcceptedMediaSupported
<1>1. Inv /\ ScanInv => AcceptedMediaSupported
  <2>. SUFFICES ASSUME Inv, ScanInv, Judged, answer,
                       NEW k \in {1, 2, 4}, NoneBelowBetween(Kinds[k]),
                       NEW n \in Siblings(k)
                PROVE  doc.value[n] # "unsupported"
    <3>1. /\ Kinds[1] = "Representation" /\ Kinds[2] = "AdaptationSet"
          /\ Kinds[4] = "SegmentTemplate"
      BY DEF Kinds
    <3>. QED
      BY <3>1 DEF AcceptedMediaSupported, Siblings
  <2>1. n \in found[k] /\ k \in 1..4
    BY DEF ScanInv, Collected
  <2>2. pc = "done" /\ kind = 4
    BY DEF Judged
  <2>3. MediaSupported
    BY <2>2, Zenon DEF Inv, CallInv
  <2>4. Supported(n)
    BY <2>1, <2>3 DEF MediaSupported
  <2>5. doc.name[n] # "BaseURL"
    BY DEF Siblings, Named, Kinds
  <2>. QED
    BY <2>4, <2>5 DEF Supported
<1>. QED
  BY <1>1, InvInitially, InvInductive, ScanInvInitially, ScanInvInductive,
     PTL DEF Spec
=============================================================================
