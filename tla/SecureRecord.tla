---------------------------- MODULE SecureRecord ----------------------------
(***************************************************************************)
(* The records of the Secure table: a right (key = content identifier) or  *)
(* the registration record (key = "PERSO"), each with its integrity tag.   *)
(*                                                                         *)
(* Sizes and bytes are abstracted.  The tag AES-CBC(SHA256(key | keyId |   *)
(* length | contentKey)) is represented by the triple it authenticates:    *)
(* two records have the same tag iff they agree on the three fields, which *)
(* is the assumption that the hash and the cipher do not collide;          *)
(* RightBuffer has the bytes, and that they determine the fields.          *)
(***************************************************************************)
CONSTANTS
  Keys,         \* values of the KEY column
  PersoKey,     \* the key "PERSO" of the registration record
  KeyIds,       \* values of the KID column
  ContentKeys,  \* protected content keys (THEKC column)
  EmptyKey,     \* the zero-length content key of the registration record
  None          \* no record, no handle, no request

ASSUME PersoAssumption == PersoKey \in Keys /\ EmptyKey \in ContentKeys

Tags == Keys \X KeyIds \X ContentKeys

Record == [key : Keys, keyId : KeyIds, contentKey : ContentKeys, tag : Tags]

ASSUME NoneAssumption == None \notin Record \union Keys \union KeyIds

Mac(key, keyId, contentKey) == <<key, keyId, contentKey>>

(* The tag read with the record is the tag computed over the record.       *)
checkRecordCrypto(r) == r.tag = Mac(r.key, r.keyId, r.contentKey)

PersoWithoutKey(garbage, attribute) ==    \* mutant: the key is not assigned
  [key |-> None, keyId |-> garbage, contentKey |-> EmptyKey,
   tag |-> attribute]

(* The record built by TYPE_REGISTRATION_INFO: its tag is the "PERSO"      *)
(* attribute, its _keyId is whatever the uninitialised pointer designates. *)
PersoRecord(garbage, attribute) ==
  [key |-> PersoKey, keyId |-> garbage, contentKey |-> EmptyKey,
   tag |-> attribute]

(* The record parsed from a right's buffer: every field comes from the     *)
(* buffer except the key, which is the contentId argument.                 *)
ParsedRight(contentId, buffer) == [buffer EXCEPT !.key = contentId]
=============================================================================
