----------------------------- MODULE MCMpdSearch -----------------------------
(* The documents of MpdSearch that TLC checks: every small tree that a     *)
(* description may have, and those that extend a protected set.            *)
EXTENDS MpdSearch, Sequences, FiniteSets

CONSTANTS SmallestGrowth, ProtectedGrowth    \* bounds: elements added

(* What may be under an element, and what its own values may be.           *)
Below ==
  [MPD |-> {"Period"},
   Period |-> {"AdaptationSet", "BaseURL"},
   AdaptationSet |-> {"ContentProtection", "Role", "Representation"},
   Representation |-> {"BaseURL", "SegmentTemplate"},
   BaseURL |-> {"text"},
   SegmentTemplate |-> {}, ContentProtection |-> {}, Role |-> {},
   text |-> {}]

ValuesOf ==
  [MPD |-> {"none"}, Period |-> {"none"}, BaseURL |-> {"none"},
   AdaptationSet |-> {"supported", "unsupported", "mediabare"},
   Representation |-> {"none", "unsupported"},
   SegmentTemplate |-> {"plain", "unsupported"},
   ContentProtection |-> {"cenc", "cencbare", "schemebare", "drm", "other"},
   Role |-> {"cenc", "drm"},
   text |-> {"plain", "unsupported"}]

(* A tree in document order; elements are added under the last one or      *)
(* under one that contains it.                                             *)
RECURSIVE Ancestors(_, _)
Ancestors(tree, n) ==
  IF n = 0 THEN {} ELSE {n} \union Ancestors(tree, tree[n].parent)

Grown(tree) ==
  UNION {UNION {{Append(tree, [parent |-> p, name |-> nm, value |-> v]) :
                   v \in ValuesOf[nm]} :
                nm \in Below[tree[p].name]} :
         p \in Ancestors(tree, Len(tree))}

Grow(trees) == UNION {Grown(tree) : tree \in trees}

(* The trees with up to n elements more than a given one.                  *)
RECURSIVE Trees(_, _)
Trees(trees, n) ==
  IF n = 0 THEN trees ELSE trees \union Trees(Grow(trees), n - 1)

Elem(p, nm, v) == [parent |-> p, name |-> nm, value |-> v]
Smallest == <<Elem(0, "MPD", "none")>>

(* A set with both schemes and a representation: what comes after counts.  *)
ProtectedSet ==
  <<Elem(0, "MPD", "none"), Elem(1, "Period", "none"),
    Elem(2, "AdaptationSet", "supported"),
    Elem(3, "ContentProtection", "cenc"), Elem(3, "ContentProtection", "drm"),
    Elem(3, "Representation", "supported")>>

(* What libxml2 builds of a tree: without white space, or with some after  *)
(* each element, element n then being node 2 * n - 1 and the space 2 * n.  *)
Linked(tree, spaced) ==
  LET elements == 1..Len(tree)
      Number(n) == IF spaced /\ n # 0 THEN 2 * n - 1 ELSE n
      Under(p) == {n \in elements : tree[n].parent = p}
      Least(S) == IF S = {} THEN 0 ELSE CHOOSE n \in S : \A m \in S : n <= m
      After(n) == Least({m \in Under(tree[n].parent) : m > n})
      nodes == 1..(IF spaced THEN 2 * Len(tree) ELSE Len(tree))
      Space(i) == spaced /\ i % 2 = 0
      Elt(i) == IF spaced THEN (i + 1) \div 2 ELSE i
      Spaced(n) == spaced /\ n > 1 /\ tree[n].name # "text"
      Of(i, space, e) == IF Space(i) THEN space ELSE e
  IN [size |-> IF spaced THEN 2 * Len(tree) ELSE Len(tree),
      name |-> [i \in nodes |-> Of(i, "text", tree[Elt(i)].name)],
      value |-> [i \in nodes |-> Of(i, "plain", tree[Elt(i)].value)],
      child |-> [i \in nodes |-> Of(i, 0, Number(Least(Under(Elt(i)))))],
      next |-> [i \in nodes |-> IF Spaced(Elt(i)) /\ ~ Space(i) THEN i + 1
                                ELSE Number(After(Elt(i)))]]

MCDocuments ==
  {Linked(tree, spaced) :
     tree \in Trees({Smallest}, SmallestGrowth)
              \union Trees({ProtectedSet}, ProtectedGrowth),
     spaced \in BOOLEAN}
=============================================================================
