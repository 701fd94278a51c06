------------------------- MODULE RightBufferProofs -------------------------
(***************************************************************************)
(* The two facts that SecureRecord assumes of the bytes of a right, for    *)
(* every number of byte values, block size and length of the parts.        *)
(***************************************************************************)
EXTENDS RightBuffer, TLAPS

(* Division by the number of byte values, as a predicate the provers       *)
(* instantiate.                                                            *)
LEMMA Division ==
  ASSUME NEW n \in Nat, n < ByteValues * ByteValues
  PROVE  /\ n \div ByteValues \in Byte
         /\ n % ByteValues \in Byte
         /\ (n \div ByteValues) * ByteValues + (n % ByteValues) = n
<1> DEFINE V == ByteValues
           q == n \div V
           r == n % V
<1>1. V \in Nat \ {0, 1}
  BY FormatAssumption
<1>2. q \in Int /\ r \in 0..V - 1 /\ n = V * q + r
  BY <1>1
<1>3. q >= 0
  <2>1. SUFFICES ASSUME q <= -1 PROVE FALSE
    BY <1>2
  <2>2. V * q <= -V
    BY <1>1, <1>2, <2>1
  <2> QED  BY <1>1, <1>2, <2>2
<1>4. q < V
  <2>1. SUFFICES ASSUME q >= V PROVE FALSE
    BY <1>1, <1>2
  <2>2. V * q >= V * V
    BY <1>1, <1>2, <2>1
  <2> QED  BY <1>1, <1>2, <2>2
<1>5. q * V = V * q
  BY <1>1, <1>2
<1> QED  BY <1>1, <1>2, <1>3, <1>4, <1>5 DEF Byte

-----------------------------------------------------------------------------
Fields(key, keyId, contentKey) ==
  /\ key \in ContentId
  /\ keyId \in KeyIdBytes
  /\ contentKey \in ProtectedKey

(* The parts of what is hashed, at their offsets.                          *)
LaidOut(input, key, keyId, contentKey) ==
  LET k == Len(key) + 1
      n == Len(contentKey)
  IN /\ input \in Seq(Byte)
     /\ Len(input) = k + AES_BLOCK_SIZE + 2 + n
     /\ \A i \in 1..Len(key) : input[i] = key[i]
     /\ input[k] = 0
     /\ \A i \in 1..AES_BLOCK_SIZE : input[k + i] = keyId[i]
     /\ input[k + AES_BLOCK_SIZE + 1] = n \div ByteValues
     /\ input[k + AES_BLOCK_SIZE + 2] = n % ByteValues
     /\ \A i \in 1..n : input[k + AES_BLOCK_SIZE + 2 + i] = contentKey[i]

LEMMA Layout ==
  ASSUME NEW key, NEW keyId, NEW contentKey, Fields(key, keyId, contentKey)
  PROVE  LaidOut(HashInput(key, keyId, contentKey), key, keyId, contentKey)
<1> DEFINE n == Len(contentKey)
           s1 == key \o <<0>>
           s2 == s1 \o keyId
           s3 == s2 \o SizeBytes(n)
           s4 == s3 \o contentKey
<1>1. /\ key \in Seq(Byte) /\ Len(key) \in Nat
      /\ contentKey \in Seq(Byte) /\ n \in Nat /\ n < ByteValues * ByteValues
      /\ <<0>> \in Seq(Byte) /\ Len(<<0>>) = 1 /\ <<0>>[1] = 0
  BY FormatAssumption DEF Fields, ContentId, ProtectedKey, Byte
<1>2. keyId \in Seq(Byte) /\ Len(keyId) = AES_BLOCK_SIZE /\ AES_BLOCK_SIZE \in Nat
  BY FormatAssumption DEF Fields, KeyIdBytes
<1>3. /\ SizeBytes(n) \in Seq(Byte) /\ Len(SizeBytes(n)) = 2
      /\ SizeBytes(n)[1] = n \div ByteValues /\ SizeBytes(n)[2] = n % ByteValues
  <2>1. n \div ByteValues \in Byte /\ n % ByteValues \in Byte
    BY <1>1, Division
  <2> QED  BY <2>1 DEF SizeBytes
<1>4. /\ s1 \in Seq(Byte) /\ Len(s1) = Len(key) + 1
      /\ \A i \in 1..Len(key) : s1[i] = key[i]
      /\ s1[Len(key) + 1] = 0
  BY <1>1
<1> HIDE DEF s1
<1>5. /\ s2 \in Seq(Byte) /\ Len(s2) = Len(s1) + AES_BLOCK_SIZE
      /\ \A i \in 1..Len(s1) : s2[i] = s1[i]
      /\ \A i \in 1..AES_BLOCK_SIZE : s2[Len(s1) + i] = keyId[i]
  <2>1. /\ s2 \in Seq(Byte) /\ Len(s2) = Len(s1) + Len(keyId)
        /\ \A i \in 1..Len(s1) : s2[i] = s1[i]
        /\ \A i \in 1..Len(keyId) : s2[Len(s1) + i] = keyId[i]
    <3>1. s2 = s1 \o keyId
      BY DEF s2
    <3> HIDE DEF s2
    <3>2. s1 \in Seq(Byte) /\ keyId \in Seq(Byte)
      BY <1>2, <1>4
    <3> QED  BY <3>1, <3>2
  <2> QED  BY <2>1, <1>2, Zenon
<1> HIDE DEF s2
<1>6. /\ s3 \in Seq(Byte) /\ Len(s3) = Len(s2) + 2
      /\ \A i \in 1..Len(s2) : s3[i] = s2[i]
      /\ \A i \in 1..2 : s3[Len(s2) + i] = SizeBytes(n)[i]
  <2>1. s3 = s2 \o SizeBytes(n)
    BY DEF s3
  <2> HIDE DEF s3
  <2>2. s2 \in Seq(Byte) /\ SizeBytes(n) \in Seq(Byte)
    BY <1>3, <1>5
  <2>3. /\ s3 \in Seq(Byte) /\ Len(s3) = Len(s2) + Len(SizeBytes(n))
        /\ \A i \in 1..Len(s2) : s3[i] = s2[i]
        /\ \A i \in 1..Len(SizeBytes(n)) : s3[Len(s2) + i] = SizeBytes(n)[i]
    BY <2>1, <2>2
  <2> QED  BY <2>3, <1>3
<1> HIDE DEF s3
<1>7. /\ s4 \in Seq(Byte) /\ Len(s4) = Len(s3) + n
      /\ \A i \in 1..Len(s3) : s4[i] = s3[i]
      /\ \A i \in 1..n : s4[Len(s3) + i] = contentKey[i]
  <2>1. s4 = s3 \o contentKey
    BY DEF s4
  <2> HIDE DEF s4
  <2>2. /\ s4 \in Seq(Byte) /\ Len(s4) = Len(s3) + Len(contentKey)
        /\ \A i \in 1..Len(s3) : s4[i] = s3[i]
        /\ \A i \in 1..Len(contentKey) : s4[Len(s3) + i] = contentKey[i]
    <3>1. s3 \in Seq(Byte) /\ contentKey \in Seq(Byte)
      BY <1>1, <1>6
    <3> QED  BY <2>1, <3>1
  <2> QED  BY <2>2 DEF n
<1> HIDE DEF s4
<1>8. HashInput(key, keyId, contentKey) = s4
  BY DEF HashInput, s1, s2, s3, s4
<1> HIDE DEF n
<1>9. n = Len(contentKey)
  BY DEF n
<1>10. /\ s4 \in Seq(Byte) /\ Len(s4) = Len(key) + 1 + AES_BLOCK_SIZE + 2 + n
       /\ \A i \in 1..Len(key) : s4[i] = key[i]
       /\ s4[Len(key) + 1] = 0
       /\ \A i \in 1..AES_BLOCK_SIZE : s4[Len(key) + 1 + i] = keyId[i]
  <2>1. /\ Len(s1) = Len(key) + 1 /\ Len(s2) = Len(s1) + AES_BLOCK_SIZE
        /\ Len(s3) = Len(s2) + 2 /\ Len(s4) = Len(s3) + n
        /\ Len(key) \in Nat /\ n \in Nat /\ AES_BLOCK_SIZE \in Nat
    BY <1>1, <1>2, <1>4, <1>5, <1>6, <1>7, <1>9
  <2>2. ASSUME NEW i \in 1..Len(s1) PROVE s4[i] = s1[i]
    <3>1. i \in 1..Len(s2) /\ i \in 1..Len(s3)
      BY <2>1
    <3> QED  BY <3>1, <1>5, <1>6, <1>7, Zenon
  <2>3. ASSUME NEW i \in 1..Len(key) PROVE s4[i] = key[i]
    <3>1. i \in 1..Len(s1)
      BY <2>1
    <3> QED  BY <3>1, <2>2, <1>4, Zenon
  <2>4. Len(key) + 1 \in 1..Len(s1)
    BY <2>1
  <2>5. ASSUME NEW i \in 1..AES_BLOCK_SIZE PROVE s4[Len(key) + 1 + i] = keyId[i]
    <3>1. Len(s1) + i \in 1..Len(s2) /\ Len(s1) + i \in 1..Len(s3)
      BY <2>1
    <3>2. s4[Len(s1) + i] = keyId[i]
      BY <3>1, <1>5, <1>6, <1>7, Zenon
    <3> QED  BY <3>2, <2>1
  <2> QED  BY <1>4, <1>7, <2>1, <2>2, <2>3, <2>4, <2>5
<1>11. /\ s4[Len(key) + 1 + AES_BLOCK_SIZE + 1] = n \div ByteValues
       /\ s4[Len(key) + 1 + AES_BLOCK_SIZE + 2] = n % ByteValues
       /\ \A i \in 1..n : s4[Len(key) + 1 + AES_BLOCK_SIZE + 2 + i] = contentKey[i]
  <2>1. /\ Len(s3) = Len(s2) + 2
        /\ Len(s2) = Len(key) + 1 + AES_BLOCK_SIZE
        /\ Len(s2) \in Nat
    BY <1>1, <1>2, <1>4, <1>5, <1>6
  <2>2. Len(s2) + 1 \in 1..Len(s3) /\ Len(s2) + 2 \in 1..Len(s3) /\ 1 \in 1..2 /\ 2 \in 1..2
    BY <2>1
  <2>3. s4[Len(s2) + 1] = n \div ByteValues /\ s4[Len(s2) + 2] = n % ByteValues
    BY <2>2, <1>3, <1>6, <1>7, Zenon
  <2>4. ASSUME NEW i \in 1..n PROVE s4[Len(s2) + 2 + i] = contentKey[i]
    BY <2>1, <1>7
  <2> QED  BY <2>1, <2>3, <2>4, Zenon
<1> QED  BY <1>8, <1>9, <1>10, <1>11, Zenon DEF LaidOut

-----------------------------------------------------------------------------
(* The first NUL of an input is the end of its key.                        *)
LEMMA NoShorterKey ==
  ASSUME NEW key1, NEW keyId1, NEW contentKey1, Fields(key1, keyId1, contentKey1),
         NEW key2, NEW keyId2, NEW contentKey2, Fields(key2, keyId2, contentKey2),
         HashInput(key1, keyId1, contentKey1) = HashInput(key2, keyId2, contentKey2)
  PROVE  ~ (Len(key1) < Len(key2))
<1> DEFINE input == HashInput(key1, keyId1, contentKey1)
<1>1. SUFFICES ASSUME Len(key1) < Len(key2) PROVE FALSE
  OBVIOUS
<1>2. Len(key1) \in Nat /\ Len(key2) \in Nat /\ key2 \in Seq(Byte \ {0})
  BY DEF Fields, ContentId
<1>3. Len(key1) + 1 \in 1..Len(key2)
  BY <1>1, <1>2
<1>4. input[Len(key1) + 1] = 0 /\ input[Len(key1) + 1] = key2[Len(key1) + 1]
  <2>1. /\ LaidOut(input, key1, keyId1, contentKey1)
        /\ LaidOut(input, key2, keyId2, contentKey2)
    BY Layout, Zenon
  <2> HIDE DEF input
  <2> QED  BY <2>1, <1>3, Zenon DEF LaidOut
<1>5. key2[Len(key1) + 1] \in Byte \ {0}
  BY <1>2, <1>3
<1> QED  BY <1>4, <1>5

(* The tag that checkRecordCrypto computes tells records apart as far as   *)
(* the hash and the cipher do: SecureRecord!Mac may be the triple that is  *)
(* hashed (DrmKernel.c:124-138).                                           *)
THEOREM RecordsAreHashedApart ==
  ASSUME NEW key1, NEW keyId1, NEW contentKey1, Fields(key1, keyId1, contentKey1),
         NEW key2, NEW keyId2, NEW contentKey2, Fields(key2, keyId2, contentKey2)
  PROVE  HashedApart(key1, keyId1, contentKey1, key2, keyId2, contentKey2)
<1> DEFINE input == HashInput(key1, keyId1, contentKey1)
           input2 == HashInput(key2, keyId2, contentKey2)
<1>1. SUFFICES ASSUME input = input2
               PROVE  key1 = key2 /\ keyId1 = keyId2 /\ contentKey1 = contentKey2
  BY DEF HashedApart
<1>2. /\ key1 \in Seq(Byte \ {0}) /\ key2 \in Seq(Byte \ {0})
      /\ keyId1 \in [1..AES_BLOCK_SIZE -> Byte]
      /\ keyId2 \in [1..AES_BLOCK_SIZE -> Byte]
      /\ contentKey1 \in Seq(Byte) /\ contentKey2 \in Seq(Byte)
      /\ AES_BLOCK_SIZE \in Nat
  BY FormatAssumption DEF Fields, ContentId, KeyIdBytes, ProtectedKey
<1>3. Len(key1) = Len(key2)
  <2>1. ~ (Len(key1) < Len(key2))
    BY <1>1, NoShorterKey, Zenon
  <2>2. ~ (Len(key2) < Len(key1))
    BY <1>1, NoShorterKey, Zenon
  <2>3. Len(key1) \in Nat /\ Len(key2) \in Nat
    BY <1>2
  <2> QED  BY <2>1, <2>2, <2>3
<1> DEFINE k == Len(key1) + 1
           start == k + AES_BLOCK_SIZE + 2
<1>4. /\ Len(input) = start + Len(contentKey1)
      /\ \A i \in 1..Len(key1) : input[i] = key1[i]
      /\ \A i \in 1..AES_BLOCK_SIZE : input[k + i] = keyId1[i]
      /\ \A i \in 1..Len(contentKey1) : input[start + i] = contentKey1[i]
  <2>1. LaidOut(input, key1, keyId1, contentKey1)
    BY Layout, Zenon
  <2> HIDE DEF input
  <2> QED  BY <2>1 DEF LaidOut
<1>5. /\ Len(input) = start + Len(contentKey2)
      /\ \A i \in 1..Len(key1) : input[i] = key2[i]
      /\ \A i \in 1..AES_BLOCK_SIZE : input[k + i] = keyId2[i]
      /\ \A i \in 1..Len(contentKey2) : input[start + i] = contentKey2[i]
  <2>1. LaidOut(input, key2, keyId2, contentKey2)
    BY <1>1, Layout, Zenon
  <2> HIDE DEF input
  <2> QED  BY <2>1, <1>3 DEF LaidOut
<1> HIDE DEF input, input2
<1>6. Len(contentKey1) = Len(contentKey2)
  BY <1>2, <1>4, <1>5
<1>7. key1 = key2
  <2>1. \A i \in 1..Len(key1) : key1[i] = key2[i]
    BY <1>4, <1>5
  <2> QED  BY <1>2, <1>3, <2>1
<1>8. keyId1 = keyId2
  BY <1>2, <1>4, <1>5
<1>9. contentKey1 = contentKey2
  <2>1. \A i \in 1..Len(contentKey1) : contentKey1[i] = contentKey2[i]
    BY <1>4, <1>5, <1>6
  <2> QED  BY <1>2, <1>6, <2>1
<1> QED  BY <1>7, <1>8, <1>9

(* What onSaveRights reads from the data of a right are the fields that    *)
(* were issued, under the contentId it is given, if that has the length of *)
(* the right's own (DrmKernel.c:565-592): SecureRecord!ParsedRight.        *)
THEOREM RightsAreReadAsIssued ==
  ASSUME NEW key, NEW keyId, NEW contentKey, Fields(key, keyId, contentKey),
         NEW contentId \in ContentId, NEW tag \in Seq(Byte)
  PROVE  ReadAsIssued(contentId, key, keyId, contentKey, tag)
<1> DEFINE input == HashInput(key, keyId, contentKey)
           data == IssuedBytes(key, keyId, contentKey, tag)
           k == Len(key) + 1
           n == Len(contentKey)
           start == k + AES_BLOCK_SIZE + 2
<1>1. SUFFICES ASSUME Len(contentId) = Len(key)
               PROVE  Parsed(contentId, data) =
                        [key |-> contentId, keyId |-> keyId,
                         contentKey |-> contentKey, tag |-> tag]
  BY DEF ReadAsIssued
<1>2. /\ Len(key) \in Nat /\ AES_BLOCK_SIZE \in Nat
      /\ keyId \in [1..AES_BLOCK_SIZE -> Byte]
      /\ contentKey \in Seq(Byte) /\ n \in Nat /\ n < ByteValues * ByteValues
  BY FormatAssumption DEF Fields, ContentId, KeyIdBytes, ProtectedKey
<1>3. /\ input \in Seq(Byte) /\ Len(input) = start + n
      /\ \A i \in 1..AES_BLOCK_SIZE : input[k + i] = keyId[i]
      /\ input[k + AES_BLOCK_SIZE + 1] = n \div ByteValues
      /\ input[start] = n % ByteValues
      /\ \A i \in 1..n : input[start + i] = contentKey[i]
  <2>1. LaidOut(input, key, keyId, contentKey)
    BY Layout, Zenon
  <2> HIDE DEF input
  <2> QED  BY <2>1 DEF LaidOut
<1>4. /\ Len(data) = Len(input) + Len(tag)
      /\ \A i \in 1..Len(input) : data[i] = input[i]
      /\ \A i \in 1..Len(tag) : data[Len(input) + i] = tag[i]
  <2>1. data = input \o tag
    BY DEF IssuedBytes
  <2>2. input \in Seq(Byte)
    BY <1>3
  <2> HIDE DEF data, input
  <2> QED  BY <2>1, <2>2
<1> HIDE DEF data, input
<1>5. data[k + AES_BLOCK_SIZE + 1] * ByteValues + data[start] = n
  <2>1. k + AES_BLOCK_SIZE + 1 \in 1..Len(input) /\ start \in 1..Len(input)
    BY <1>2, <1>3
  <2>2. /\ data[k + AES_BLOCK_SIZE + 1] = n \div ByteValues
        /\ data[start] = n % ByteValues
    BY <2>1, <1>3, <1>4, Zenon
  <2>3. (n \div ByteValues) * ByteValues + (n % ByteValues) = n
    BY <1>2, Division, Zenon
  <2> QED  BY <2>2, <2>3, Zenon
<1>6. BytesAt(data, k, AES_BLOCK_SIZE) = keyId
  <2>1. ASSUME NEW i \in 1..AES_BLOCK_SIZE PROVE data[k + i] = keyId[i]
    <3>1. k + i \in 1..Len(input)
      BY <1>2, <1>3
    <3> QED  BY <3>1, <1>3, <1>4, Zenon
  <2> QED  BY <2>1, <1>2 DEF BytesAt
<1>7. BytesAt(data, start, n) = contentKey
  <2>1. ASSUME NEW i \in 1..n PROVE data[start + i] = contentKey[i]
    <3>1. start + i \in 1..Len(input)
      BY <1>2, <1>3
    <3> QED  BY <3>1, <1>3, <1>4, Zenon
  <2>2. contentKey \in [1..n -> Byte]
    BY <1>2
  <2> QED  BY <2>1, <2>2 DEF BytesAt
<1>8. BytesAt(data, start + n, Len(data) - (start + n)) = tag
  <2>1. Len(data) - (start + n) = Len(tag)
    BY <1>2, <1>3, <1>4
  <2>2. ASSUME NEW i \in 1..Len(tag) PROVE data[start + n + i] = tag[i]
    BY <1>3, <1>4
  <2>3. tag \in [1..Len(tag) -> Byte]
    OBVIOUS
  <2> QED  BY <2>1, <2>2, <2>3 DEF BytesAt
<1> QED  BY <1>1, <1>5, <1>6, <1>7, <1>8 DEF Parsed
=============================================================================
