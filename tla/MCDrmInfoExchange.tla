-------------------------- MODULE MCDrmInfoExchange --------------------------
(* Instances of DrmInfoExchange for TLC.                                   *)
EXTENDS DrmInfoExchange

Perso == <<"P", "E">>
UniqueId == <<"U">>

(* A proper prefix of "PERSO", "PERSO", a name it is a prefix of, and the  *)
(* identifier, in the order of their characters.                           *)
SortedNames == << <<"P">>, Perso, <<"P", "E", "R">>, UniqueId >>

TwoDevices == {<<"tag1">>, <<"tag2">>}
AnyTag == TwoDevices \union {<<"forged">>}

AttributeSets(texts, most) ==
  UNION {[S -> texts] : S \in {S \in SUBSET Names : \E n \in 0..most :
                                  \E f \in [1..n -> Names] :
                                    S = {f[i] : i \in 1..n}}}

AnyDrmInfo ==
  [infoType : {1}, mimeType : {"nagra"}, attributes : AttributeSets(AnyTag, 2)]
  \union
  [infoType : {2, 3, 4, 5}, mimeType : {"nagra", ""},
   attributes : AttributeSets({<<"tag1">>}, 1)]

AnyRequest ==
  [infoType : 1..5, mimeType : {"nagra", ""},
   attributes : AttributeSets({<<"tag1">>}, 1)]
=============================================================================
