---------------------------- MODULE RightBuffer ----------------------------
(***************************************************************************)
(* The bytes of a right: the buffer that onSaveRights takes apart, and the *)
(* input of the hash that checkRecordCrypto computes over a record.        *)
(* SecureRecord abstracts from both (Mac and ParsedRight); what it assumes *)
(* of them is stated at the end of this module.                            *)
(*                                                                         *)
(* A content identifier is a C string, the sequence of its characters      *)
(* before the NUL.  In the code a byte has 256 values and the identifier   *)
(* of a key AES_BLOCK_SIZE = 16 bytes; records whose hash input exceeds    *)
(* the 256 bytes of buf are outside of this module.                        *)
(***************************************************************************)
EXTENDS Integers, Sequences

CONSTANTS ByteValues, AES_BLOCK_SIZE

ASSUME FormatAssumption ==
  /\ ByteValues \in Nat \ {0, 1}
  /\ AES_BLOCK_SIZE \in Nat

Byte == 0..(ByteValues - 1)
ContentId == Seq(Byte \ {0})
KeyIdBytes == [1..AES_BLOCK_SIZE -> Byte]
ProtectedKey == {k \in Seq(Byte) : Len(k) < ByteValues * ByteValues}

(* The size on two bytes, the high one first.                              *)
SizeBytes(n) == <<n \div ByteValues, n % ByteValues>>

(* What is hashed: key, its NUL, keyId, size and content key.              *)
HashInput(key, keyId, contentKey) ==
  key \o <<0>> \o keyId \o SizeBytes(Len(contentKey)) \o contentKey

(* A right as the licence server sends it: what its tag covers, the tag.   *)
IssuedBytes(key, keyId, contentKey, tag) == HashInput(key, keyId, contentKey) \o tag

(* n bytes of data from an offset on.                                      *)
BytesAt(data, offset, n) == [i \in 1..n |-> data[offset + i]]

(* The record that onSaveRights builds: it skips as many bytes as          *)
(* contentId has, whatever key the data begin with.                        *)
Parsed(contentId, data) ==
  LET keyId == Len(contentId) + 1
      size == keyId + AES_BLOCK_SIZE
      contentKeySize == data[size + 1] * ByteValues + data[size + 2]
      tag == size + 2 + contentKeySize
  IN [key |-> contentId,
      keyId |-> BytesAt(data, keyId, AES_BLOCK_SIZE),
      contentKey |-> BytesAt(data, size + 2, contentKeySize),
      tag |-> BytesAt(data, tag, Len(data) - tag)]

-----------------------------------------------------------------------------
(* PROPERTIES                                                              *)

(* Different records are hashed differently: no byte can move from one     *)
(* field to the next, because the key ends with its NUL, the identifier    *)
(* has a fixed size and the size of the content key is part of the input.  *)
HashedApart(key1, keyId1, contentKey1, key2, keyId2, contentKey2) ==
  HashInput(key1, keyId1, contentKey1) = HashInput(key2, keyId2, contentKey2)
    => key1 = key2 /\ keyId1 = keyId2 /\ contentKey1 = contentKey2

(* onSaveRights reads back the fields that were issued, but for the key,   *)
(* from the data of a right for any content with a name of the same length *)
(* (as onSaveRights.c:204 does); an empty part is no special case.         *)
ReadAsIssued(contentId, key, keyId, contentKey, tag) ==
  Len(contentId) = Len(key) =>
    Parsed(contentId, IssuedBytes(key, keyId, contentKey, tag)) =
      [key |-> contentId, keyId |-> keyId,
       contentKey |-> contentKey, tag |-> tag]
=============================================================================
