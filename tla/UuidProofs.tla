------------------------------ MODULE UuidProofs ------------------------------
(* Theorems about Uuid, for UUIDs of any length in any grouping, any list  *)
(* of schemes and any strings.                                             *)
EXTENDS Uuid, TLAPS, WellFoundedInduction

(* A set of natural numbers that is not empty has a least element.         *)
LEMMA LeastElement ==
  ASSUME NEW S, S \subseteq Nat, S # {}
  PROVE  \E i \in S : \A j \in S : i <= j
<1>1. PICK i \in S : \A j \in S : <<j, i>> \notin OpToRel(<, Nat)
  BY NatLessThanWellFounded, WFMin, Zenon
<1>2. \A j \in S : ~ (j < i)
  BY <1>1, Zenon DEF OpToRel
<1>. QED
  BY <1>2

(* The differences of two bytes.                                          *)
Difference == -255..255

(* Different UUIDs have a first position at which they differ.             *)
LEMMA FirstDifference ==
  ASSUME NEW u \in [1..UUID_LEN -> Byte], NEW v \in [1..UUID_LEN -> Byte],
         u # v
  PROVE  \E i \in 1..UUID_LEN : u[i] # v[i] /\ \A j \in 1..i - 1 : u[j] = v[j]
<1>. DEFINE S == {i \in 1..UUID_LEN : u[i] # v[i]}
<1>. DEFINE D == 1..UUID_LEN
<1>1. S # {} /\ S \subseteq Nat
  <2>1. D \subseteq Nat
    BY UuidAssumption DEF D
  <2>2. ASSUME \A i \in 1..UUID_LEN : u[i] = v[i] PROVE FALSE
    <3>1. u = [i \in 1..UUID_LEN |-> u[i]] /\ v = [i \in 1..UUID_LEN |-> v[i]]
      BY Zenon
    <3>2. [i \in 1..UUID_LEN |-> u[i]] = [i \in 1..UUID_LEN |-> v[i]]
      BY <2>2, Zenon
    <3>3. u = v
      BY <3>1, <3>2, Zenon
    <3>. QED
      BY <3>3
  <2>. QED
    BY <2>1, <2>2 DEF D
<1>2. PICK i \in S : \A j \in S : i <= j
  BY <1>1, LeastElement
<1>3. u[i] # v[i] /\ \A j \in 1..i - 1 : u[j] = v[j]
  <2>1. ASSUME NEW j \in 1..i - 1 PROVE u[j] = v[j]
    <3>1. D \subseteq Nat /\ i \in D
      BY UuidAssumption DEF D
    <3>2. j \in 1..UUID_LEN /\ ~ (i <= j)
      BY <3>1, UuidAssumption DEF UUID_LEN, D
    <3>. QED
      BY <1>2, <3>2
  <2>. QED
    BY <2>1
<1>. QED
  BY <1>3

(* The first bytes that differ are the same in either order.               *)
LEMMA MemcmpSwapped ==
  ASSUME NEW u \in [1..UUID_LEN -> Byte], NEW v \in [1..UUID_LEN -> Byte],
         u # v
  PROVE  \E d, e \in Difference : /\ d # 0 /\ e = -d
                                 /\ memcmp(u, v) = d /\ memcmp(v, u) = e
<1>. DEFINE First(i) == u[i] # v[i] /\ \A j \in 1..i - 1 : u[j] = v[j]
            k == CHOOSE i \in 1..UUID_LEN : First(i)
<1>1. \E i \in 1..UUID_LEN : First(i)
  BY FirstDifference
<1>2. k \in 1..UUID_LEN /\ u[k] # v[k]
  BY <1>1
<1>. HIDE DEF k
<1>. DEFINE d == u[k] - v[k]
            e == v[k] - u[k]
<1>5. d \in Difference /\ e \in Difference /\ d # 0 /\ e = -d
  <2>1. PICK a \in 0..255 : a = u[k]
    BY <1>2 DEF Byte
  <2>2. PICK b \in 0..255 : b = v[k]
    BY <1>2 DEF Byte
  <2>3. a # b /\ d = a - b /\ e = b - a
    BY <1>2, <2>1, <2>2
  <2>. HIDE DEF d, e
  <2>. QED
    BY <2>3 DEF Difference
<1>3. memcmp(u, v) = d
  BY DEF memcmp, k, First, d
<1>4. memcmp(v, u) = e
  <2>1. \A i : First(i) <=> v[i] # u[i] /\ \A j \in 1..i - 1 : v[j] = u[j]
    BY Zenon
  <2>2. k = CHOOSE i \in 1..UUID_LEN :
              v[i] # u[i] /\ \A j \in 1..i - 1 : v[j] = u[j]
    BY <2>1, Zenon DEF k
  <2>. QED
    BY <2>2 DEF memcmp
<1>. HIDE DEF d, e
<1>. QED
  BY <1>3, <1>4, <1>5

Narrowed(d) == IF d < -128 THEN d + 256 ELSE IF d > 127 THEN d - 256 ELSE d

(* The conversion to int8_t of a difference of two bytes.                  *)
LEMMA Int8OfDifference ==
  ASSUME NEW d \in Difference
  PROVE  Int8(d) = Narrowed(d)
<1>. USE DEF Difference, Narrowed
<1>1. CASE d < -128
  <2>1. (d + 128) % 256 = d + 384
    BY <1>1
  <2>. QED
    BY <2>1, <1>1 DEF Int8
<1>2. CASE d \in -128..127
  <2>1. (d + 128) % 256 = d + 128
    BY <1>2
  <2>. QED
    BY <2>1, <1>2 DEF Int8
<1>3. CASE d > 127
  <2>1. (d + 128) % 256 = d - 128
    BY <1>3
  <2>. QED
    BY <2>1, <1>3 DEF Int8
<1>. QED
  BY <1>1, <1>2, <1>3

(* uuid_cmp answers 0 for equal UUIDs only, although it narrows the int of  *)
(* memcmp to int8_t: a match of isCryptoSchemeSupported is an equality.    *)
THEOREM CmpIsEquality ==
  ASSUME NEW u \in [1..UUID_LEN -> Byte], NEW v \in [1..UUID_LEN -> Byte]
  PROVE  uuid_cmp(u, v) = 0 <=> u = v
<1>1. CASE u = v
  BY <1>1 DEF uuid_cmp, memcmp, Int8
<1>2. CASE u # v
  <2>1. PICK d, e \in Difference : d # 0 /\ memcmp(u, v) = d
    BY <1>2, MemcmpSwapped
  <2>2. Int8(d) = Narrowed(d)
    BY Int8OfDifference
  <2>3. Narrowed(d) # 0
    BY <2>1 DEF Difference, Narrowed
  <2>. QED
    BY <1>2, <2>1, <2>2, <2>3 DEF uuid_cmp
<1>. QED
  BY <1>1, <1>2

(* Comparing two UUIDs in either order gives opposite results, as the host *)
(* test asserts of one pair, unless they differ first by exactly what an   *)
(* int8_t cannot hold the opposite of.                                     *)
LEMMA CmpSwapped ==
  ASSUME NEW u \in [1..UUID_LEN -> Byte], NEW v \in [1..UUID_LEN -> Byte],
         memcmp(u, v) \notin {-128, 128}
  PROVE  uuid_cmp(u, v) + uuid_cmp(v, u) = 0
<1>1. CASE u = v
  BY <1>1 DEF uuid_cmp, memcmp, Int8
<1>2. CASE u # v
  <2>1. PICK d, e \in Difference : /\ e = -d
                                  /\ memcmp(u, v) = d /\ memcmp(v, u) = e
    BY <1>2, MemcmpSwapped
  <2>2. d \notin {-128, 128}
    BY <2>1
  <2>3. Int8(d) = Narrowed(d) /\ Int8(e) = Narrowed(e)
    BY Int8OfDifference
  <2>4. Narrowed(d) + Narrowed(e) = 0
    BY <2>1, <2>2 DEF Difference, Narrowed
  <2>. QED
    BY <2>1, <2>3, <2>4 DEF uuid_cmp
<1>. QED
  BY <1>1, <1>2

-----------------------------------------------------------------------------
(* The characters read and the characters of the string.                   *)
ReadInv ==
  /\ str \in Seq(Code)
  /\ inptr \in Nat \ {0}
  /\ read \in Nat
  /\ inptr <= Len(str) + 1
  /\ read <= Len(str) + 1
  /\ scheme \in 0..Len(Schemes)

(* A character that is a digit or a dash is not the final NUL.             *)
LEMMA InString ==
  ASSUME ReadInv, NEW i \in Nat \ {0}, At(i) # 0
  PROVE  i <= Len(str)
BY DEF At, ReadInv

LEMMA HexRange ==
  ASSUME NEW c \in 0..255
  PROVE  hex2num(c) \in -1..15
BY DEF hex2num, NV_KO

LEMMA AtRange ==
  ASSUME ReadInv, NEW i \in Nat \ {0}
  PROVE  At(i) \in 0..255
<1>1. CASE i <= Len(str)
  <2>1. i \in 1..Len(str) /\ str \in Seq(Code)
    BY <1>1 DEF ReadInv
  <2>2. str[i] \in Code
    BY <2>1
  <2>. QED
    BY <1>1, <2>2 DEF At, Code
<1>2. CASE ~ (i <= Len(str))
  BY <1>2 DEF At
<1>. QED
  BY <1>1, <1>2

LEMMA DigitInString ==
  ASSUME ReadInv, NEW i \in Nat \ {0}, hex2num(At(i)) >= 0
  PROVE  i <= Len(str)
<1>1. ASSUME At(i) = 0 PROVE FALSE
  <2>1. hex2num(0) = -1
    BY DEF hex2num, NV_KO
  <2>. QED
    BY <1>1, <2>1
<1>. QED
  BY <1>1, InString

LEMMA BeginReadInv ==
  ASSUME NEW text \in Seq(Code), Begin(text), scheme' \in 0..Len(Schemes)
  PROVE  ReadInv'
BY DEF Begin, ReadInv

LEMMA ReadInvInductive == ReadInv /\ [Next]_vars => ReadInv'
<1>. SUFFICES ASSUME ReadInv, [Next]_vars
              PROVE  ReadInv'
  OBVIOUS
<1>1. CASE uuid_str2bin
  BY <1>1, UuidAssumption, BeginReadInv DEF uuid_str2bin, ReadInv
<1>2. CASE ConvertByte
  <2>. DEFINE high == hex2num(At(inptr))
              low == hex2num(At(inptr + 1))
  <2>0. high \in -1..15 /\ low \in -1..15
    <3>1. inptr \in Nat \ {0} /\ inptr + 1 \in Nat \ {0}
      BY DEF ReadInv
    <3>2. At(inptr) \in 0..255 /\ At(inptr + 1) \in 0..255
      BY <3>1, AtRange
    <3>. QED
      BY <3>2, HexRange
  <2>1. high >= 0 => inptr <= Len(str)
    BY DigitInString DEF ReadInv
  <2>2. high >= 0 /\ low >= 0 => inptr + 1 <= Len(str)
    BY DigitInString DEF ReadInv
  <2>3. read' \in Nat /\ read' <= Len(str) + 1
    <3>1. read' = IF high < 0 THEN inptr ELSE inptr + 1
      BY <1>2 DEF ConvertByte
    <3>. HIDE DEF high, low
    <3>. QED
      BY <2>0, <2>1, <3>1 DEF ReadInv
  <2>4. inptr' \in Nat \ {0} /\ inptr' <= Len(str) + 1
    <3>0. high < 0 \/ low < 0 => hex2byte(At(inptr), At(inptr + 1)) = -1
      BY DEF hex2byte, NV_KO
    <3>. HIDE DEF high, low
    <3>1. ~ (hex2byte(At(inptr), At(inptr + 1)) < 0)
            => inptr + 1 <= Len(str)
      BY <2>0, <2>2, <3>0
    <3>. QED
      BY <1>2, <3>1 DEF ConvertByte, ReadInv
  <2>. QED
    BY <1>2, <2>3, <2>4 DEF ConvertByte, ReadInv
<1>3. CASE SkipDash
  <2>1. At(inptr) = Dash => inptr <= Len(str)
    BY InString DEF Dash, ReadInv
  <2>. QED
    BY <1>3, <2>1 DEF SkipDash, ReadInv
<1>4. CASE Converted
  BY <1>4 DEF Converted, ReadInv
<1>5. CASE isCryptoSchemeSupported
  <2>1. 1 \in 1..Len(Schemes) /\ Schemes[1] \in Seq(Code)
    BY UuidAssumption
  <2>. QED
    BY <1>5, <2>1, BeginReadInv DEF isCryptoSchemeSupported
<1>6. CASE TryNext
  <2>1. scheme + 1 \in 1..Len(Schemes) /\ Schemes[scheme + 1] \in Seq(Code)
    BY <1>6, UuidAssumption DEF TryNext, ReadInv
  <2>. QED
    BY <1>6, <2>1, BeginReadInv DEF TryNext
<1>7. CASE Found \/ NotFound
  BY <1>7 DEF Found, NotFound, conversion, ReadInv
<1>8. CASE UNCHANGED vars
  BY <1>8 DEF vars, ReadInv
<1>. QED
  BY <1>1, <1>2, <1>3, <1>4, <1>5, <1>6, <1>7, <1>8 DEF Next, Convert

(* uuid_str2bin never reads past the final NUL of its string, however      *)
(* short it is: each of the two tests of hex2byte stops it there.          *)
THEOREM ReadsStayInString == Spec => []ReadsWithinString
<1>1. Init => ReadInv
  BY UuidAssumption DEF Init, ReadInv
<1>2. ReadInv => ReadsWithinString
  BY DEF ReadInv, ReadsWithinString
<1>. QED
  BY <1>1, <1>2, ReadInvInductive, PTL DEF Spec

-----------------------------------------------------------------------------
(* The two UUIDs that the factory compares are arrays of bytes.            *)
BuffersInv ==
  /\ bin \in [1..UUID_LEN -> Byte]
  /\ uuid \in [1..UUID_LEN -> Byte]

LEMMA BuffersInvInductive ==
  ReadInv /\ BuffersInv /\ [Next]_vars => BuffersInv'
<1>. SUFFICES ASSUME ReadInv, BuffersInv, [Next]_vars
              PROVE  BuffersInv'
  OBVIOUS
<1>1. CASE ConvertByte
  <2>. DEFINE a == hex2byte(At(inptr), At(inptr + 1))
  <2>1. hex2num(At(inptr)) \in -1..15 /\ hex2num(At(inptr + 1)) \in -1..15
    <3>1. inptr \in Nat \ {0} /\ inptr + 1 \in Nat \ {0}
      BY DEF ReadInv
    <3>. QED
      BY <3>1, AtRange, HexRange
  <2>2. a < 0 \/ a \in Byte
    BY <2>1 DEF hex2byte, NV_KO, Byte
  <2>3. bin' = bin \/ (a \in Byte /\ bin' = [bin EXCEPT ![outptr + 1] = a])
    BY <1>1, <2>2 DEF ConvertByte
  <2>. HIDE DEF a
  <2>. QED
    BY <1>1, <2>3 DEF BuffersInv, ConvertByte
<1>2. CASE uuid_str2bin
  BY <1>2 DEF BuffersInv, uuid_str2bin, Begin
<1>3. CASE SkipDash \/ Converted
  BY <1>3 DEF BuffersInv, SkipDash, Converted
<1>4. CASE isCryptoSchemeSupported
  BY <1>4, UuidAssumption DEF BuffersInv, isCryptoSchemeSupported, Begin
<1>5. CASE Found \/ TryNext \/ NotFound
  BY <1>5 DEF BuffersInv, Found, TryNext, NotFound, Begin, conversion
<1>6. CASE UNCHANGED vars
  BY <1>6 DEF vars, BuffersInv
<1>. QED
  BY <1>1, <1>2, <1>3, <1>4, <1>5, <1>6 DEF Next, Convert

(* Whatever UUID is asked about and whatever the buffer holds, comparing   *)
(* them in either order gives opposite results unless their first          *)
(* different bytes are 128 apart: for UUIDs of any length.                 *)
THEOREM CmpIsAntisymmetricUnless128 == Spec => []CmpIsAntisymmetric
<1>1. Init => ReadInv /\ BuffersInv
  <2>1. Init => ReadInv
    BY UuidAssumption DEF Init, ReadInv
  <2>2. Init => BuffersInv
    BY UuidAssumption DEF Init, BuffersInv, Byte
  <2>. QED
    BY <2>1, <2>2
<1>2. BuffersInv => CmpIsAntisymmetric
  BY CmpSwapped DEF BuffersInv, CmpIsAntisymmetric, OppositeResults
<1>. QED
  BY <1>1, <1>2, ReadInvInductive, BuffersInvInductive, PTL DEF Spec
-----------------------------------------------------------------------------
(* The text of a UUID.                                                     *)

(* Where the digits of byte j of group g are, and the dash after it.       *)
DigitAt(g, j) == 2 * j + g - 2
DashAt(g) == 2 * Ends[g] + g

(* Groups are not empty and follow each other.                             *)
LEMMA GroupBounds ==
  /\ Len(Ends) \in Nat \ {0}
  /\ UUID_LEN \in Nat \ {0}
  /\ TextLen \in Nat
  /\ \A g \in 1..Len(Ends) :
       /\ Start(g) \in Nat /\ Ends[g] \in Nat
       /\ Start(g) < Ends[g] /\ Ends[g] <= UUID_LEN
       /\ Size(g) \in 1..UUID_LEN
  /\ \A g, h \in 1..Len(Ends) : g < h => Ends[g] <= Start(h)
  /\ \A g \in 1..Len(Ends) : g < Len(Ends) => Start(g + 1) = Ends[g]
<1>1. Len(Ends) \in Nat \ {0}
  BY UuidAssumption
<1>2. \A g \in 1..Len(Ends) : Ends[g] \in Nat \ {0}
  BY UuidAssumption
<1>3. \A g, h \in 1..Len(Ends) : g < h => Ends[g] < Ends[h]
  BY UuidAssumption
<1>4. UUID_LEN \in Nat \ {0} /\ \A g \in 1..Len(Ends) : Ends[g] <= UUID_LEN
  <2>1. Len(Ends) \in 1..Len(Ends)
    BY <1>1
  <2>2. \A g \in 1..Len(Ends) : g = Len(Ends) \/ g < Len(Ends)
    BY <1>1
  <2>. QED
    BY <1>2, <1>3, <2>1, <2>2 DEF UUID_LEN
<1>5. TextLen \in Nat
  BY <1>1, <1>4 DEF TextLen
<1>6. \A g \in 1..Len(Ends) : Start(g) \in Nat /\ Start(g) < Ends[g]
  <2>. TAKE g \in 1..Len(Ends)
  <2>1. CASE g = 1
    BY <1>2, <2>1 DEF Start
  <2>2. CASE g # 1
    <3>1. g - 1 \in 1..Len(Ends) /\ g - 1 < g
      BY <1>1, <2>2
    <3>. QED
      BY <1>2, <1>3, <2>2, <3>1 DEF Start
  <2>. QED
    BY <2>1, <2>2
<1>7. \A g, h \in 1..Len(Ends) : g < h => Ends[g] <= Start(h)
  <2>. SUFFICES ASSUME NEW g \in 1..Len(Ends), NEW h \in 1..Len(Ends), g < h
                PROVE  Ends[g] <= Start(h)
    OBVIOUS
  <2>1. h # 1 /\ h - 1 \in 1..Len(Ends) /\ (g = h - 1 \/ g < h - 1)
    BY <1>1
  <2>. QED
    BY <1>2, <1>3, <2>1 DEF Start
<1>8. \A g \in 1..Len(Ends) : g < Len(Ends) => Start(g + 1) = Ends[g]
  BY <1>1 DEF Start
<1>9. \A g \in 1..Len(Ends) : Size(g) \in 1..UUID_LEN
  BY <1>2, <1>4, <1>6 DEF Size
<1>. QED
  BY <1>1, <1>2, <1>4, <1>5, <1>6, <1>7, <1>8, <1>9

(* Each position of a text belongs to one group.                           *)
LEMMA GroupAtIs ==
  ASSUME NEW g \in 1..Len(Ends), NEW i \in Int,
         2 * Start(g) + g <= i, i <= 2 * Ends[g] + g
  PROVE  GroupAt(i) = g
<1>. DEFINE Holds(h) == 2 * Start(h) + h <= i /\ i <= 2 * Ends[h] + h
<1>1. \A h \in 1..Len(Ends) : Holds(h) => h = g
  <2>. SUFFICES ASSUME NEW h \in 1..Len(Ends), Holds(h), h # g PROVE FALSE
    OBVIOUS
  <2>1. /\ Start(g) \in Nat /\ Ends[g] \in Nat
        /\ Start(h) \in Nat /\ Ends[h] \in Nat
    BY GroupBounds
  <2>2. CASE g < h
    <3>1. Ends[g] <= Start(h)
      BY <2>2, GroupBounds
    <3>. QED
      BY <2>1, <2>2, <3>1
  <2>3. CASE h < g
    <3>1. Ends[h] <= Start(g)
      BY <2>3, GroupBounds
    <3>. QED
      BY <2>1, <2>3, <3>1
  <2>. QED
    BY <2>2, <2>3
<1>2. Holds(g)
  OBVIOUS
<1>3. GroupAt(i) = CHOOSE h \in 1..Len(Ends) : Holds(h)
  BY DEF GroupAt
<1>. HIDE DEF Holds
<1>. QED
  BY <1>1, <1>2, <1>3

(* Both digits of each byte, and the dashes.                               *)
LEMMA TextDigits ==
  ASSUME NEW u, NEW g \in 1..Len(Ends), NEW j \in Start(g) + 1..Ends[g]
  PROVE  /\ j \in 1..UUID_LEN
         /\ DigitAt(g, j) \in 1..TextLen /\ DigitAt(g, j) + 1 \in 1..TextLen
         /\ uuid_bin2str(u)[DigitAt(g, j)] = num2hex(u[j] \div 16)
         /\ uuid_bin2str(u)[DigitAt(g, j) + 1] = num2hex(u[j] % 16)
<1>. DEFINE i == DigitAt(g, j)
<1>1. /\ Start(g) \in Nat /\ Ends[g] \in Nat /\ Ends[g] <= UUID_LEN
      /\ UUID_LEN \in Nat /\ Len(Ends) \in Nat
  BY GroupBounds
<1>2. j \in Nat /\ Start(g) < j /\ j <= Ends[g]
  BY <1>1
<1>3. /\ j \in 1..UUID_LEN
      /\ i \in 1..TextLen /\ i + 1 \in 1..TextLen
  BY <1>1, <1>2 DEF DigitAt, TextLen
<1>4. GroupAt(i) = g /\ GroupAt(i + 1) = g
  <2>1. i \in Int /\ 2 * Start(g) + g <= i /\ i + 1 < 2 * Ends[g] + g
    BY <1>1, <1>2 DEF DigitAt
  <2>. QED
    BY <1>1, <2>1, GroupAtIs
<1>5. i # DashAt(g) /\ i + 1 # DashAt(g)
  BY <1>1, <1>2 DEF DigitAt, DashAt
<1>6. uuid_bin2str(u)[i] = num2hex(u[j] \div 16)
  <2>1. i - g + 1 = 2 * j - 1
    BY <1>2 DEF DigitAt
  <2>2. (2 * j - 1 + 1) \div 2 = j /\ 2 - ((2 * j - 1) % 2) = 1
    BY <1>2
  <2>3. uuid_bin2str(u)[i] = byte2hex(u[j])[1]
    BY <1>3, <1>4, <1>5, <2>1, <2>2 DEF uuid_bin2str, DashAt
  <2>. QED
    BY <2>3 DEF byte2hex
<1>7. uuid_bin2str(u)[i + 1] = num2hex(u[j] % 16)
  <2>1. i + 1 - g + 1 = 2 * j
    BY <1>2 DEF DigitAt
  <2>2. (2 * j + 1) \div 2 = j /\ 2 - ((2 * j) % 2) = 2
    BY <1>2
  <2>. DEFINE n == i + 1
  <2>3. uuid_bin2str(u)[n] = byte2hex(u[j])[2]
    <3>1. n \in 1..TextLen /\ GroupAt(n) = g /\ n # DashAt(g)
      BY <1>3, <1>4, <1>5
    <3>2. n - g + 1 = 2 * j
      BY <1>2 DEF DigitAt
    <3>. HIDE DEF n
    <3>. QED
      BY <3>1, <3>2, <2>2 DEF uuid_bin2str, DashAt
  <2>. QED
    BY <2>3 DEF byte2hex
<1>. QED
  BY <1>3, <1>6, <1>7

LEMMA TextDash ==
  ASSUME NEW u, NEW g \in 1..Len(Ends), g < Len(Ends)
  PROVE  DashAt(g) \in 1..TextLen /\ uuid_bin2str(u)[DashAt(g)] = Dash
<1>1. /\ Start(g) \in Nat /\ Ends[g] \in Nat /\ Ends[g] < UUID_LEN
      /\ Start(g) < Ends[g] /\ UUID_LEN \in Nat /\ Len(Ends) \in Nat
  BY GroupBounds, UuidAssumption DEF UUID_LEN
<1>2. DashAt(g) \in 1..TextLen
  BY <1>1 DEF DashAt, TextLen
<1>3. GroupAt(DashAt(g)) = g
  BY <1>1, GroupAtIs DEF DashAt
<1>. QED
  BY <1>2, <1>3 DEF uuid_bin2str, DashAt

(* A text has nothing else.                                                *)
LEMMA TextPositions ==
  ASSUME NEW i \in 1..TextLen
  PROVE  \E g \in 1..Len(Ends) :
           \/ g < Len(Ends) /\ i = DashAt(g)
           \/ \E j \in Start(g) + 1..Ends[g] :
                i = DigitAt(g, j) \/ i = DigitAt(g, j) + 1
<1>. DEFINE S == {g \in 1..Len(Ends) : i <= DashAt(g)}
<1>1. Len(Ends) \in S
  BY GroupBounds DEF DashAt, TextLen, UUID_LEN
<1>2. PICK g \in S : \A h \in S : g <= h
  <2>1. S \subseteq Nat /\ S # {}
    BY <1>1
  <2>. QED
    BY <2>1, LeastElement
<1>3. /\ g \in 1..Len(Ends) /\ Len(Ends) \in Nat
      /\ Start(g) \in Nat /\ Ends[g] \in Nat /\ Start(g) < Ends[g]
  BY GroupBounds
<1>4. 2 * Start(g) + g <= i
  <2>1. CASE g = 1
    BY <2>1 DEF Start
  <2>2. CASE g # 1
    <3>1. g - 1 \in 1..Len(Ends) /\ g - 1 \notin S
      BY <1>2, <1>3, <2>2
    <3>2. ~ (i <= 2 * Ends[g - 1] + g - 1) /\ Start(g) = Ends[g - 1]
      BY <2>2, <3>1 DEF Start, DashAt
    <3>. QED
      BY <1>3, <3>2
  <2>. QED
    BY <2>1, <2>2
<1>5. i \in Int /\ i <= 2 * Ends[g] + g
  BY GroupBounds DEF DashAt
<1>6. CASE i = DashAt(g)
  <2>1. g # Len(Ends)
    BY <1>6, GroupBounds DEF DashAt, TextLen, UUID_LEN
  <2>. QED
    BY <1>3, <1>6, <2>1
<1>7. CASE i # DashAt(g)
  <2>1. PICK j \in Int : i - g + 2 = 2 * j \/ i - g + 2 = 2 * j + 1
    <3>. DEFINE n == i - g + 2
    <3>1. n \in Int
      BY <1>3
    <3>2. n \div 2 \in Int /\ (n = 2 * (n \div 2) \/ n = 2 * (n \div 2) + 1)
      BY <3>1
    <3>. QED
      BY <3>2
  <2>2. j \in Start(g) + 1..Ends[g]
    <3>1. Start(g) + 1 <= j
      BY <1>3, <1>4, <1>5, <2>1
    <3>2. j <= Ends[g]
      BY <1>3, <1>5, <1>7, <2>1 DEF DashAt
    <3>. QED
      BY <1>3, <3>1, <3>2
  <2>3. i = DigitAt(g, j) \/ i = DigitAt(g, j) + 1
    BY <1>3, <2>1 DEF DigitAt
  <2>. QED
    BY <1>3, <2>2, <2>3
<1>. QED
  BY <1>6, <1>7

-----------------------------------------------------------------------------
(* Digits.                                                                 *)

LEMMA Halves ==
  ASSUME NEW b \in Byte
  PROVE  b \div 16 \in 0..15 /\ b % 16 \in 0..15
<1>1. b \in 0..255
  BY DEF Byte
<1>2. b \div 16 \in 0..15
  BY <1>1, Z3
<1>3. b % 16 \in 0..15
  BY <1>1, Z3
<1>. QED
  BY <1>2, <1>3

LEMMA HalvesOf ==
  ASSUME NEW m \in 0..15, NEW n \in 0..15
  PROVE  /\ 16 * m + n \in Byte
         /\ (16 * m + n) \div 16 = m /\ (16 * m + n) % 16 = n
<1>1. 16 * m + n \in Byte
  BY DEF Byte
<1>2. (16 * m + n) \div 16 = m
  BY Z3
<1>3. (16 * m + n) % 16 = n
  BY Z3
<1>. QED
  BY <1>1, <1>2, <1>3

(* hex2num reads what "%x" prints, in either case, and nothing else.       *)
LEMMA DigitIsRead ==
  ASSUME NEW c \in 0..255, NEW n \in 0..15
  PROVE  Lower(c) = num2hex(n) <=> hex2num(c) = n
BY DEF Lower, num2hex, hex2num, NV_KO

LEMMA DigitIsPrinted ==
  ASSUME NEW n \in 0..15
  PROVE  num2hex(n) \in Code /\ Lower(num2hex(n)) = num2hex(n)
BY DEF Lower, num2hex, Code

LEMMA DigitsDiffer ==
  ASSUME NEW m \in 0..15, NEW n \in 0..15, num2hex(m) = num2hex(n)
  PROVE  m = n
BY DEF num2hex

(* The characters at i and i + 1 are the digits of b.                      *)
Digits(i, b) == /\ i + 1 <= Len(str)
                /\ Lower(str[i]) = num2hex(b \div 16)
                /\ Lower(str[i + 1]) = num2hex(b % 16)

LEMMA SameDigits ==
  ASSUME NEW i, NEW a \in Byte, NEW b \in Byte, Digits(i, a), Digits(i, b)
  PROVE  a = b
<1>1. /\ num2hex(a \div 16) = num2hex(b \div 16)
      /\ num2hex(a % 16) = num2hex(b % 16)
  BY DEF Digits
<1>2. a \div 16 = b \div 16 /\ a % 16 = b % 16
  BY <1>1, Halves, DigitsDiffer
<1>. QED
  BY <1>2 DEF Byte

(* What a string that begins with a text is, digit by digit.               *)
LEMMA BeginsWithDigits ==
  ASSUME NEW u, Len(str) \in Nat, BeginsWith(u),
         NEW g \in 1..Len(Ends), NEW j \in Start(g) + 1..Ends[g]
  PROVE  Digits(DigitAt(g, j), u[j])
<1>1. /\ DigitAt(g, j) \in 1..TextLen /\ DigitAt(g, j) + 1 \in 1..TextLen
      /\ uuid_bin2str(u)[DigitAt(g, j)] = num2hex(u[j] \div 16)
      /\ uuid_bin2str(u)[DigitAt(g, j) + 1] = num2hex(u[j] % 16)
  BY TextDigits
<1>. QED
  BY <1>1, GroupBounds DEF BeginsWith, Digits

LEMMA BeginsWithDash ==
  ASSUME NEW u, str \in Seq(Code), BeginsWith(u),
         NEW g \in 1..Len(Ends), g < Len(Ends)
  PROVE  DashAt(g) \in 1..Len(str) /\ str[DashAt(g)] = Dash
<1>1. DashAt(g) \in 1..TextLen /\ uuid_bin2str(u)[DashAt(g)] = Dash
  BY TextDash
<1>2. DashAt(g) \in 1..Len(str) /\ Lower(str[DashAt(g)]) = Dash
  BY <1>1, GroupBounds DEF BeginsWith
<1>3. \A c \in Code : Lower(c) = Dash => c = Dash
  BY DEF Lower, Dash, Code
<1>. QED
  BY <1>2, <1>3

(* Each byte is in a group.                                                *)
LEMMA ByteInGroup ==
  ASSUME NEW j \in 1..UUID_LEN
  PROVE  \E g \in 1..Len(Ends) : j \in Start(g) + 1..Ends[g]
<1>. DEFINE S == {g \in 1..Len(Ends) : j <= Ends[g]}
<1>1. Len(Ends) \in S
  BY GroupBounds DEF UUID_LEN
<1>2. PICK g \in S : \A h \in S : g <= h
  <2>1. S \subseteq Nat /\ S # {}
    BY <1>1
  <2>. QED
    BY <2>1, LeastElement
<1>3. Start(g) < j
  <2>1. CASE g = 1
    BY <2>1 DEF Start
  <2>2. CASE g # 1
    <3>1. g - 1 \in 1..Len(Ends) /\ g - 1 \notin S
      BY <1>2, <2>2, GroupBounds
    <3>. QED
      BY <2>2, <3>1, GroupBounds DEF Start
  <2>. QED
    BY <2>1, <2>2
<1>. QED
  BY <1>3, GroupBounds

(* uuid_bin2str gives each UUID a text of its own.                         *)
LEMMA TextIsOfOne ==
  ASSUME NEW u \in [1..UUID_LEN -> Byte], NEW v \in [1..UUID_LEN -> Byte],
         Len(str) \in Nat, BeginsWith(u), BeginsWith(v)
  PROVE  u = v
<1>1. ASSUME NEW j \in 1..UUID_LEN PROVE u[j] = v[j]
  <2>1. PICK g \in 1..Len(Ends) : j \in Start(g) + 1..Ends[g]
    BY ByteInGroup
  <2>2. Digits(DigitAt(g, j), u[j])
    BY <2>1, BeginsWithDigits
  <2>3. Digits(DigitAt(g, j), v[j])
    BY <2>1, BeginsWithDigits
  <2>4. u[j] \in Byte /\ v[j] \in Byte
    OBVIOUS
  <2>. QED
    BY <2>2, <2>3, <2>4, SameDigits
<1>2. u = [j \in 1..UUID_LEN |-> u[j]] /\ v = [j \in 1..UUID_LEN |-> v[j]]
  BY Zenon
<1>3. [j \in 1..UUID_LEN |-> u[j]] = [j \in 1..UUID_LEN |-> v[j]]
  BY <1>1, Zenon
<1>. QED
  BY <1>2, <1>3, Zenon

(* A scheme that begins with the text of a UUID is that text.              *)
LEMMA SchemeIsText ==
  ASSUME NEW k \in 1..Len(Schemes), str = Schemes[k],
         NEW u \in [1..UUID_LEN -> Byte]
  PROVE  BeginsWith(u) <=> Schemes[k] = uuid_bin2str(u)
<1>1. ASSUME NEW v \in [1..UUID_LEN -> Byte], NEW i \in 1..TextLen
      PROVE  Lower(uuid_bin2str(v)[i]) = uuid_bin2str(v)[i]
  <2>1. PICK g \in 1..Len(Ends) :
          \/ g < Len(Ends) /\ i = DashAt(g)
          \/ \E j \in Start(g) + 1..Ends[g] :
               i = DigitAt(g, j) \/ i = DigitAt(g, j) + 1
    BY TextPositions
  <2>2. CASE g < Len(Ends) /\ i = DashAt(g)
    BY <2>2, TextDash DEF Lower, Dash
  <2>3. ASSUME NEW j \in Start(g) + 1..Ends[g],
               i = DigitAt(g, j) \/ i = DigitAt(g, j) + 1
        PROVE  Lower(uuid_bin2str(v)[i]) = uuid_bin2str(v)[i]
    <3>1. /\ j \in 1..UUID_LEN
          /\ uuid_bin2str(v)[DigitAt(g, j)] = num2hex(v[j] \div 16)
          /\ uuid_bin2str(v)[DigitAt(g, j) + 1] = num2hex(v[j] % 16)
      BY TextDigits
    <3>2. v[j] \div 16 \in 0..15 /\ v[j] % 16 \in 0..15
      BY <3>1, Halves
    <3>. QED
      BY <2>3, <3>1, <3>2, DigitIsPrinted
  <2>. QED
    BY <2>1, <2>2, <2>3
<1>2. \A v : /\ DOMAIN uuid_bin2str(v) = 1..TextLen
             /\ uuid_bin2str(v) = [i \in 1..TextLen |-> uuid_bin2str(v)[i]]
  BY Zenon DEF uuid_bin2str
<1>3. PICK v \in [1..UUID_LEN -> Byte] : Schemes[k] = uuid_bin2str(v)
  BY SchemesAssumption
<1>4. Len(str) = TextLen
  <2>1. Schemes[k] \in Seq(Code)
    BY UuidAssumption
  <2>2. Len(str) \in Nat /\ DOMAIN str = 1..Len(str)
    BY <2>1
  <2>. QED
    BY <1>2, <1>3, <2>2, GroupBounds
<1>5. \A i \in 1..TextLen : Lower(str[i]) = str[i]
  BY <1>1, <1>3
<1>6. BeginsWith(u) <=> \A i \in 1..TextLen : str[i] = uuid_bin2str(u)[i]
  BY <1>4, <1>5, GroupBounds DEF BeginsWith
<1>7. ASSUME \A i \in 1..TextLen : str[i] = uuid_bin2str(u)[i]
      PROVE  Schemes[k] = uuid_bin2str(u)
  <2>1. \A i \in 1..TextLen : uuid_bin2str(v)[i] = uuid_bin2str(u)[i]
    BY <1>3, <1>7
  <2>2. [i \in 1..TextLen |-> uuid_bin2str(v)[i]]
          = [i \in 1..TextLen |-> uuid_bin2str(u)[i]]
    BY <2>1, Zenon
  <2>. QED
    BY <1>2, <1>3, <2>2, Zenon
<1>. QED
  BY <1>6, <1>7
-----------------------------------------------------------------------------
(* The conversion.                                                         *)

(* What has been converted is what stands before inptr.                    *)
ProgressInv ==
  /\ status \in {"idle", "running", "ok", "ko"}
  /\ status = "idle" => group = 0 /\ left = 0 /\ outptr = 0
  /\ status # "idle" => /\ group \in 1..Len(Ends)
                        /\ left \in 0..Size(group)
                        /\ outptr = Ends[group] - left
                        /\ inptr = 2 * outptr + group
  /\ status = "ok" => group = Len(Ends) /\ left = 0

(* It is the digits of the bytes stored, and the dashes.                   *)
CharsInv ==
  status # "idle" =>
    \A g \in 1..group :
      /\ \A j \in Start(g) + 1..Ends[g] :
           j <= outptr => Digits(DigitAt(g, j), bin[j])
      /\ g < group => DashAt(g) \in 1..Len(str) /\ str[DashAt(g)] = Dash

(* What was refused is the text of no UUID.                                *)
RefusedInv ==
  status = "ko" => \A u \in [1..UUID_LEN -> Byte] : ~ BeginsWith(u)

ConversionInv ==
  ReadInv /\ BuffersInv /\ ProgressInv /\ CharsInv /\ RefusedInv

LEMMA BeginConversion ==
  ASSUME NEW text \in Seq(Code), Begin(text)
  PROVE  ProgressInv' /\ CharsInv' /\ RefusedInv'
<1>1. /\ 1 \in 1..Len(Ends) /\ Size(1) \in Nat /\ Size(1) = Ends[1]
      /\ Ends[1] \in Nat
  BY GroupBounds DEF Size, Start
<1>2. /\ status' = "running" /\ group' = 1 /\ left' = Size(1)
      /\ outptr' = 0 /\ inptr' = 1
  BY DEF Begin
<1>3. ProgressInv'
  BY <1>1, <1>2 DEF ProgressInv
<1>4. CharsInv'
  BY <1>1, <1>2 DEF CharsInv, Start
<1>. QED
  BY <1>2, <1>3, <1>4 DEF RefusedInv

(* Where the conversion of a byte stands.                                  *)
LEMMA NextByte ==
  ASSUME ConversionInv, status = "running", left > 0
  PROVE  /\ group \in 1..Len(Ends) /\ outptr \in Nat
         /\ outptr + 1 \in Start(group) + 1..Ends[group]
         /\ outptr + 1 \in 1..UUID_LEN
         /\ left \in Nat
         /\ inptr = DigitAt(group, outptr + 1)
         /\ inptr \in Nat \ {0} /\ Len(str) \in Nat
<1>1. /\ group \in 1..Len(Ends) /\ left \in 0..Size(group)
      /\ outptr = Ends[group] - left
  BY DEF ConversionInv, ProgressInv
<1>2. inptr = 2 * outptr + group
  BY DEF ConversionInv, ProgressInv
<1>3. /\ Start(group) \in Nat /\ Ends[group] \in Nat /\ UUID_LEN \in Nat
      /\ Ends[group] <= UUID_LEN /\ Size(group) = Ends[group] - Start(group)
      /\ group \in Nat \ {0}
  BY <1>1, GroupBounds DEF Size
<1>4. PICK start \in Nat, end \in Nat :
        /\ Start(group) = start /\ Ends[group] = end /\ end <= UUID_LEN
        /\ left \in 0..end - start /\ outptr = end - left
  BY <1>1, <1>3
<1>5. /\ left \in Nat /\ outptr \in Nat
      /\ outptr + 1 \in start + 1..end /\ outptr + 1 \in 1..UUID_LEN
  BY <1>3, <1>4
<1>6. inptr = DigitAt(group, outptr + 1) /\ inptr \in Nat \ {0}
  BY <1>2, <1>3, <1>5 DEF DigitAt
<1>7. Len(str) \in Nat
  BY DEF ConversionInv, ReadInv
<1>. QED
  BY <1>1, <1>4, <1>5, <1>6, <1>7

(* hexstr2bin accepts two characters iff they are the digits of a byte.    *)
LEMMA ByteConverted ==
  ASSUME ConversionInv, status = "running", left > 0
  PROVE  LET a == hex2byte(At(inptr), At(inptr + 1))
         IN /\ a < 0 \/ (a \in Byte /\ Digits(inptr, a))
            /\ a < 0 => \A b \in Byte : ~ Digits(inptr, b)
<1>. DEFINE high == hex2num(At(inptr))
            low == hex2num(At(inptr + 1))
            a == hex2byte(At(inptr), At(inptr + 1))
<1>1. ReadInv /\ inptr \in Nat \ {0} /\ inptr + 1 \in Nat \ {0}
  BY DEF ConversionInv, ReadInv
<1>2. At(inptr) \in 0..255 /\ At(inptr + 1) \in 0..255
  BY <1>1, AtRange
<1>3. high \in -1..15 /\ low \in -1..15
  BY <1>2, HexRange
<1>4. ASSUME ~ (a < 0)
      PROVE  a \in Byte /\ Digits(inptr, a)
  <2>1. high \in 0..15 /\ low \in 0..15 /\ a = 16 * high + low
    <3>1. ~ (high < 0 \/ low < 0)
      BY <1>4 DEF hex2byte, NV_KO
    <3>2. a = 16 * high + low
      BY <3>1 DEF hex2byte
    <3>. HIDE DEF high, low, a
    <3>. QED
      BY <1>3, <3>1, <3>2
  <2>2. inptr <= Len(str) /\ inptr + 1 <= Len(str)
    <3>1. high >= 0 /\ low >= 0
      <4>. HIDE DEF high, low
      <4>. QED
        BY <2>1
    <3>. QED
      BY <1>1, <3>1, DigitInString
  <2>3. At(inptr) = str[inptr] /\ At(inptr + 1) = str[inptr + 1]
    BY <2>2 DEF At
  <2>4. /\ Lower(str[inptr]) = num2hex(high)
        /\ Lower(str[inptr + 1]) = num2hex(low)
    <3>1. /\ Lower(At(inptr)) = num2hex(high)
          /\ Lower(At(inptr + 1)) = num2hex(low)
      BY <1>2, <2>1, DigitIsRead
    <3>. QED
      BY <2>3, <3>1
  <2>5. a \in Byte /\ a \div 16 = high /\ a % 16 = low
    <3>. HIDE DEF high, low, a
    <3>. QED
      BY <2>1, HalvesOf
  <2>. QED
    BY <2>2, <2>4, <2>5 DEF Digits
<1>5. ASSUME a < 0, NEW b \in Byte, Digits(inptr, b)
      PROVE  FALSE
  <2>. DEFINE m == b \div 16
              n == b % 16
  <2>1. m \in 0..15 /\ n \in 0..15
    BY Halves
  <2>2. /\ inptr + 1 <= Len(str) /\ Lower(str[inptr]) = num2hex(m)
        /\ Lower(str[inptr + 1]) = num2hex(n)
    BY <1>5 DEF Digits
  <2>3. At(inptr) = str[inptr] /\ At(inptr + 1) = str[inptr + 1]
    <3>1. str \in Seq(Code)
      BY <1>1 DEF ReadInv
    <3>. QED
      BY <1>1, <2>2, <3>1 DEF At
  <2>. HIDE DEF m, n
  <2>4. high = m /\ low = n
    BY <1>2, <2>1, <2>2, <2>3, DigitIsRead
  <2>5. a = 16 * m + n
    BY <2>1, <2>4 DEF hex2byte
  <2>. QED
    BY <1>5, <2>1, <2>5
<1>6. a < 0 \/ (a \in Byte /\ Digits(inptr, a))
  BY <1>4
<1>7. a < 0 => \A b \in Byte : ~ Digits(inptr, b)
  BY <1>5
<1>8. /\ a < 0 \/ (a \in Byte /\ Digits(inptr, a))
      /\ a < 0 => \A b \in Byte : ~ Digits(inptr, b)
  BY <1>6, <1>7, Zenon
<1>. QED
  BY <1>8

LEMMA ConvertByteKeeps ==
  ASSUME ConversionInv, ConvertByte
  PROVE  ProgressInv' /\ CharsInv' /\ RefusedInv'
<1>. DEFINE a == hex2byte(At(inptr), At(inptr + 1))
<1>1. status = "running" /\ left > 0
  BY DEF ConvertByte
<1>2. /\ group \in 1..Len(Ends) /\ outptr \in Nat /\ left \in Nat
      /\ outptr + 1 \in Start(group) + 1..Ends[group]
      /\ outptr + 1 \in 1..UUID_LEN
      /\ inptr = DigitAt(group, outptr + 1)
  BY <1>1, NextByte
<1>3. str' = str /\ group' = group
  BY DEF ConvertByte
<1>4. CASE a < 0
  <2>1. /\ status' = "ko"
        /\ inptr' = inptr /\ bin' = bin /\ outptr' = outptr /\ left' = left
    BY <1>4 DEF ConvertByte
  <2>2. ProgressInv'
    BY <1>1, <1>3, <2>1 DEF ConversionInv, ProgressInv
  <2>3. CharsInv'
    BY <1>1, <1>3, <2>1 DEF ConversionInv, CharsInv, Digits
  <2>4. ASSUME NEW u \in [1..UUID_LEN -> Byte], BeginsWith(u)
        PROVE  FALSE
    <3>1. Digits(inptr, u[outptr + 1])
      <4>1. Len(str) \in Nat
        BY <1>1, NextByte
      <4>. QED
        BY <1>2, <2>4, <4>1, BeginsWithDigits
    <3>2. u[outptr + 1] \in Byte
      BY <1>2
    <3>. QED
      BY <1>1, <1>4, <3>1, <3>2, ByteConverted
  <2>5. RefusedInv'
    BY <1>3, <2>4 DEF RefusedInv, BeginsWith
  <2>. QED
    BY <2>2, <2>3, <2>5
<1>5. CASE ~ (a < 0)
  <2>1. /\ status' = "running"
        /\ bin' = [bin EXCEPT ![outptr + 1] = a]
        /\ inptr' = inptr + 2 /\ outptr' = outptr + 1 /\ left' = left - 1
    BY <1>1, <1>5 DEF ConvertByte
  <2>2. ProgressInv'
    <3>1. /\ left \in 0..Size(group) /\ outptr = Ends[group] - left
      BY <1>1 DEF ConversionInv, ProgressInv
    <3>2. Size(group) \in Nat /\ Ends[group] \in Nat /\ group \in Nat
      BY <1>2, GroupBounds
    <3>3. left' \in 0..Size(group)
      BY <1>1, <1>2, <2>1, <3>1, <3>2
    <3>4. outptr' = Ends[group] - left'
      BY <1>2, <2>1, <3>1, <3>2
    <3>5. inptr' = 2 * outptr' + group
      <4>1. inptr = 2 * outptr + group
        BY <1>1 DEF ConversionInv, ProgressInv
      <4>. QED
        BY <1>2, <2>1, <3>2, <4>1
    <3>. QED
      BY <1>2, <1>3, <2>1, <3>3, <3>4, <3>5 DEF ProgressInv
  <2>3. ASSUME NEW g \in 1..group, NEW j \in Start(g) + 1..Ends[g],
               j <= outptr + 1
        PROVE  Digits(DigitAt(g, j), bin'[j])
    <3>0. g \in 1..Len(Ends) /\ g \in Nat /\ group \in Nat
      BY <1>2, GroupBounds
    <3>1. /\ Start(g) \in Nat /\ Ends[g] \in Nat /\ Ends[g] <= UUID_LEN
          /\ Start(group) \in Nat /\ Ends[group] \in Nat
      BY <1>2, <3>0, GroupBounds
    <3>2. j \in 1..UUID_LEN /\ bin \in [1..UUID_LEN -> Byte]
      BY <3>1, GroupBounds DEF ConversionInv, BuffersInv
    <3>3. CASE j = outptr + 1
      <4>1. g = group
        <5>1. ASSUME g < group PROVE FALSE
          <6>1. Ends[g] <= Start(group)
            BY <1>2, <3>0, <5>1, GroupBounds
          <6>. QED
            BY <1>2, <3>1, <3>3, <6>1
        <5>. QED
          BY <3>0, <5>1
      <4>2. bin'[j] = a
        BY <2>1, <3>2, <3>3
      <4>3. Digits(inptr, a)
        BY <1>1, <1>5, ByteConverted
      <4>. QED
        BY <1>2, <3>3, <4>1, <4>2, <4>3
    <3>4. CASE j <= outptr
      <4>1. bin'[j] = bin[j]
        BY <1>2, <2>1, <3>2, <3>4
      <4>2. Digits(DigitAt(g, j), bin[j])
        BY <1>1, <3>4 DEF ConversionInv, CharsInv
      <4>. QED
        BY <4>1, <4>2
    <3>. QED
      BY <1>2, <2>3, <3>2, <3>3, <3>4
  <2>4. \A g \in 1..group :
          g < group => DashAt(g) \in 1..Len(str) /\ str[DashAt(g)] = Dash
    BY <1>1 DEF ConversionInv, CharsInv
  <2>5. CharsInv'
    BY <1>3, <2>1, <2>3, <2>4 DEF CharsInv, Digits
  <2>6. RefusedInv'
    BY <2>1 DEF RefusedInv
  <2>. QED
    BY <2>2, <2>5, <2>6
<1>. QED
  BY <1>4, <1>5

LEMMA SkipDashKeeps ==
  ASSUME ConversionInv, SkipDash
  PROVE  ProgressInv' /\ CharsInv' /\ RefusedInv'
<1>1. /\ status = "running" /\ left = 0 /\ group < Len(Ends)
      /\ str' = str /\ bin' = bin /\ outptr' = outptr
  BY DEF SkipDash
<1>2. /\ group \in 1..Len(Ends) /\ outptr = Ends[group]
      /\ inptr = 2 * outptr + group
  BY <1>1, GroupBounds DEF ConversionInv, ProgressInv
<1>3. /\ Len(Ends) \in Nat /\ group + 1 \in 1..Len(Ends)
      /\ Ends[group] \in Nat /\ Start(group + 1) = Ends[group]
      /\ Ends[group + 1] \in Nat
      /\ Size(group + 1) \in Nat
      /\ Size(group + 1) = Ends[group + 1] - Start(group + 1)
  BY <1>1, <1>2, GroupBounds DEF Size
<1>4. inptr = DashAt(group) /\ inptr \in Nat \ {0}
  BY <1>2, <1>3 DEF DashAt
<1>5. str \in Seq(Code) /\ ReadInv
  BY DEF ConversionInv, ReadInv
<1>6. CASE At(inptr) # Dash
  <2>1. /\ status' = "ko"
        /\ inptr' = inptr /\ group' = group /\ left' = left
    BY <1>6 DEF SkipDash
  <2>2. ProgressInv'
    BY <1>1, <2>1 DEF ConversionInv, ProgressInv
  <2>3. CharsInv'
    BY <1>1, <2>1 DEF ConversionInv, CharsInv, Digits
  <2>4. ASSUME NEW u \in [1..UUID_LEN -> Byte], BeginsWith(u)
        PROVE  FALSE
    <3>1. inptr \in 1..Len(str) /\ str[inptr] = Dash
      BY <1>1, <1>2, <1>4, <1>5, <2>4, BeginsWithDash
    <3>. QED
      BY <1>5, <1>6, <3>1 DEF At
  <2>5. RefusedInv'
    BY <1>1, <2>4 DEF RefusedInv, BeginsWith
  <2>. QED
    BY <2>2, <2>3, <2>5
<1>7. CASE At(inptr) = Dash
  <2>1. /\ status' = "running" /\ inptr' = inptr + 1
        /\ group' = group + 1 /\ left' = Size(group + 1)
    BY <1>1, <1>7 DEF SkipDash
  <2>2. ProgressInv'
    BY <1>1, <1>2, <1>3, <2>1 DEF ProgressInv
  <2>3. inptr \in 1..Len(str) /\ str[inptr] = Dash
    <3>1. inptr <= Len(str)
      BY <1>4, <1>5, <1>7, InString DEF Dash
    <3>. QED
      BY <1>4, <1>5, <1>7, <3>1 DEF At
  <2>4. ASSUME NEW g \in 1..group + 1, NEW j \in Start(g) + 1..Ends[g],
               j <= outptr
        PROVE  Digits(DigitAt(g, j), bin[j])
    <3>1. g # group + 1
      BY <1>2, <1>3, <2>4
    <3>2. g \in 1..group
      BY <1>2, <1>3, <3>1
    <3>. QED
      BY <1>1, <2>4, <3>2 DEF ConversionInv, CharsInv
  <2>5. ASSUME NEW g \in 1..group + 1, g < group + 1
        PROVE  DashAt(g) \in 1..Len(str) /\ str[DashAt(g)] = Dash
    <3>1. CASE g = group
      BY <1>4, <2>3, <3>1
    <3>2. CASE g # group
      <4>1. g \in 1..group /\ g < group
        BY <1>2, <1>3, <2>5, <3>2
      <4>. QED
        BY <1>1, <4>1 DEF ConversionInv, CharsInv
    <3>. QED
      BY <3>1, <3>2
  <2>6. CharsInv'
    BY <1>1, <2>1, <2>4, <2>5 DEF CharsInv, Digits
  <2>7. RefusedInv'
    BY <2>1 DEF RefusedInv
  <2>. QED
    BY <2>2, <2>6, <2>7
<1>. QED
  BY <1>6, <1>7

LEMMA ConversionInvInductive == ConversionInv /\ [Next]_vars => ConversionInv'
<1>. SUFFICES ASSUME ConversionInv, [Next]_vars
              PROVE  ConversionInv'
  OBVIOUS
<1>1. ReadInv' /\ BuffersInv'
  BY ReadInvInductive, BuffersInvInductive DEF ConversionInv
<1>. SUFFICES ProgressInv' /\ CharsInv' /\ RefusedInv'
  BY <1>1 DEF ConversionInv
<1>2. CASE uuid_str2bin
  BY <1>2, BeginConversion, UuidAssumption DEF uuid_str2bin
<1>3. CASE ConvertByte
  BY <1>3, ConvertByteKeeps
<1>4. CASE SkipDash
  BY <1>4, SkipDashKeeps
<1>5. CASE Converted
  <2>1. /\ status = "running" /\ left = 0 /\ group = Len(Ends) /\ status' = "ok"
        /\ UNCHANGED <<str, inptr, bin, outptr, group, left>>
    BY <1>5 DEF Converted
  <2>2. ProgressInv'
    BY <2>1 DEF ConversionInv, ProgressInv
  <2>3. CharsInv'
    BY <2>1 DEF ConversionInv, CharsInv, Digits
  <2>. QED
    BY <2>1, <2>2, <2>3 DEF RefusedInv
<1>6. CASE isCryptoSchemeSupported
  <2>1. Schemes[1] \in Seq(Code)
    BY UuidAssumption
  <2>. QED
    BY <1>6, <2>1, BeginConversion DEF isCryptoSchemeSupported
<1>7. CASE TryNext
  <2>1. Schemes[scheme + 1] \in Seq(Code)
    BY <1>7, UuidAssumption DEF TryNext, ConversionInv, ReadInv
  <2>. QED
    BY <1>7, <2>1, BeginConversion DEF TryNext
<1>8. ASSUME UNCHANGED <<str, inptr, bin, outptr, group, left, status>>
      PROVE  ProgressInv' /\ CharsInv' /\ RefusedInv'
  BY <1>8 DEF ConversionInv, ProgressInv, CharsInv, RefusedInv, Digits,
              BeginsWith
<1>9. CASE Found \/ NotFound \/ UNCHANGED vars
  BY <1>8, <1>9 DEF Found, NotFound, conversion, vars
<1>. QED
  BY <1>2, <1>3, <1>4, <1>5, <1>6, <1>7, <1>9 DEF Next, Convert
(* A string that was accepted begins with the text of what was stored.     *)
LEMMA AcceptedBegins ==
  ASSUME ConversionInv, status = "ok"
  PROVE  BeginsWith(bin)
<1>1. /\ Len(Ends) \in 1..Len(Ends) /\ UUID_LEN \in Nat /\ TextLen \in Nat
      /\ \A g \in 1..Len(Ends) : Ends[g] \in Nat /\ Ends[g] <= UUID_LEN
      /\ \A g \in 1..Len(Ends) : Start(g) \in Nat
  BY GroupBounds
<1>2. group = Len(Ends) /\ outptr = UUID_LEN
  <2>1. group = Len(Ends) /\ left = 0 /\ outptr = Ends[group] - left
    BY DEF ConversionInv, ProgressInv
  <2>2. Ends[group] = UUID_LEN
    BY <2>1 DEF UUID_LEN
  <2>. QED
    BY <1>1, <2>1, <2>2
<1>3. ASSUME NEW g \in 1..Len(Ends), NEW j \in Start(g) + 1..Ends[g]
      PROVE  Digits(DigitAt(g, j), bin[j])
  <2>1. j <= outptr
    BY <1>1, <1>2
  <2>. QED
    BY <1>2, <2>1 DEF ConversionInv, CharsInv
<1>4. \A g \in 1..Len(Ends) :
        g < Len(Ends) => DashAt(g) \in 1..Len(str) /\ str[DashAt(g)] = Dash
  BY <1>2 DEF ConversionInv, CharsInv
<1>5. Len(str) \in Nat /\ Len(str) >= TextLen
  <2>1. UUID_LEN \in Start(Len(Ends)) + 1..Ends[Len(Ends)]
    BY <1>1, GroupBounds DEF UUID_LEN
  <2>2. DigitAt(Len(Ends), UUID_LEN) + 1 <= Len(str)
    BY <1>1, <1>3, <2>1 DEF Digits
  <2>3. Len(str) \in Nat
    BY DEF ConversionInv, ReadInv
  <2>. QED
    BY <1>1, <2>2, <2>3 DEF DigitAt, TextLen
<1>6. ASSUME NEW i \in 1..TextLen
      PROVE  Lower(str[i]) = uuid_bin2str(bin)[i]
  <2>1. PICK g \in 1..Len(Ends) :
          \/ g < Len(Ends) /\ i = DashAt(g)
          \/ \E j \in Start(g) + 1..Ends[g] :
               i = DigitAt(g, j) \/ i = DigitAt(g, j) + 1
    BY TextPositions
  <2>2. CASE g < Len(Ends) /\ i = DashAt(g)
    BY <1>4, <2>2, TextDash DEF Lower, Dash
  <2>3. ASSUME NEW j \in Start(g) + 1..Ends[g],
               i = DigitAt(g, j) \/ i = DigitAt(g, j) + 1
        PROVE  Lower(str[i]) = uuid_bin2str(bin)[i]
    <3>1. /\ uuid_bin2str(bin)[DigitAt(g, j)] = num2hex(bin[j] \div 16)
          /\ uuid_bin2str(bin)[DigitAt(g, j) + 1] = num2hex(bin[j] % 16)
      BY TextDigits
    <3>2. /\ Lower(str[DigitAt(g, j)]) = num2hex(bin[j] \div 16)
          /\ Lower(str[DigitAt(g, j) + 1]) = num2hex(bin[j] % 16)
      BY <1>3 DEF Digits
    <3>. QED
      BY <2>3, <3>1, <3>2, Zenon
  <2>. QED
    BY <2>1, <2>2, <2>3
<1>. QED
  BY <1>5, <1>6 DEF BeginsWith

LEMMA ConversionInvInitially == Init => ConversionInv
<1>. SUFFICES ASSUME Init PROVE ConversionInv
  OBVIOUS
<1>1. ReadInv
  BY UuidAssumption DEF Init, ReadInv
<1>2. BuffersInv
  BY UuidAssumption DEF Init, BuffersInv, Byte
<1>. QED
  BY <1>1, <1>2 DEF Init, ConversionInv, ProgressInv, CharsInv, RefusedInv

(* uuid_str2bin is the inverse of uuid_bin2str: for UUIDs of any length    *)
(* and grouping, it accepts the text of a UUID, in any case and with       *)
(* anything after it, stores that UUID, and refuses every other string.    *)
THEOREM Str2binInvertsBin2str == Spec => []InverseOfBin2Str
<1>1. ConversionInv => InverseOfBin2Str
  BY AcceptedBegins, UuidAssumption
     DEF InverseOfBin2Str, ConversionInv, RefusedInv
<1>. QED
  BY <1>1, ConversionInvInitially, ConversionInvInductive, PTL DEF Spec

-----------------------------------------------------------------------------
(* The search of the factory.                                              *)

(* No scheme that was tried is that of the UUID asked about.               *)
SearchInv ==
  /\ scheme \in 0..Len(Schemes)
  /\ answer \in {"none", "yes", "no"}
  /\ scheme = 0 => answer = "none"
  /\ scheme # 0 => status # "idle" /\ str = Schemes[scheme]
  /\ answer # "yes" =>
       \A k \in 1..scheme : k < scheme \/ answer = "no" =>
                             Schemes[k] # uuid_bin2str(uuid)
  /\ answer = "yes" => status = "ok" /\ bin = uuid
  /\ answer = "no" => scheme = Len(Schemes)

(* A scheme that does not match is not that of the UUID asked about: the   *)
(* buffer holds what this scheme names and nothing of those before it.     *)
LEMMA MismatchIsDifference ==
  ASSUME ConversionInv, SearchInv, Tried, ~ Matches
  PROVE  Schemes[scheme] # uuid_bin2str(uuid)
<1>. SUFFICES ASSUME Schemes[scheme] = uuid_bin2str(uuid) PROVE FALSE
  OBVIOUS
<1>1. /\ scheme \in 1..Len(Schemes) /\ str = Schemes[scheme]
      /\ status \in {"ok", "ko"}
  BY UuidAssumption DEF Tried, SearchInv
<1>2. uuid \in [1..UUID_LEN -> Byte] /\ bin \in [1..UUID_LEN -> Byte]
  BY DEF ConversionInv, BuffersInv
<1>3. BeginsWith(uuid)
  BY <1>1, <1>2, SchemeIsText
<1>4. status = "ok"
  BY <1>1, <1>2, <1>3 DEF ConversionInv, RefusedInv
<1>5. BeginsWith(bin)
  BY <1>4, AcceptedBegins
<1>6. uuid = bin
  BY <1>2, <1>3, <1>5, TextIsOfOne DEF ConversionInv, ReadInv
<1>7. uuid_cmp(uuid, bin) = 0
  BY <1>2, <1>6, CmpIsEquality
<1>. QED
  BY <1>4, <1>7 DEF Matches

LEMMA SearchInvInductive ==
  ConversionInv /\ SearchInv /\ [Next]_vars => SearchInv'
<1>. SUFFICES ASSUME ConversionInv, SearchInv, [Next]_vars
              PROVE  SearchInv'
  OBVIOUS
<1>. USE DEF SearchInv
<1>0. Len(Schemes) \in Nat \ {0}
  BY UuidAssumption
<1>1. CASE uuid_str2bin
  BY <1>1 DEF uuid_str2bin, Begin
<1>2. CASE Convert
  <2>1. /\ status = "running" /\ status' \in {"running", "ok", "ko"}
        /\ UNCHANGED <<str, uuid, scheme, answer>>
    BY <1>2 DEF Convert, ConvertByte, SkipDash, Converted
  <2>. QED
    BY <2>1
<1>3. CASE isCryptoSchemeSupported
  BY <1>0, <1>3 DEF isCryptoSchemeSupported, Begin
<1>4. CASE Found
  <2>1. /\ Tried /\ Matches /\ answer' = "yes"
        /\ UNCHANGED <<str, bin, status, uuid, scheme>>
    BY <1>4 DEF Found, conversion
  <2>2. bin = uuid /\ status = "ok"
    BY <2>1, CmpIsEquality DEF Matches, ConversionInv, BuffersInv
  <2>. QED
    BY <2>1, <2>2 DEF Tried
<1>5. CASE TryNext
  <2>1. /\ Tried /\ ~ Matches /\ scheme < Len(Schemes)
        /\ scheme' = scheme + 1 /\ str' = Schemes[scheme + 1]
        /\ status' = "running" /\ UNCHANGED <<uuid, answer>>
    BY <1>5 DEF TryNext, Begin
  <2>2. Schemes[scheme] # uuid_bin2str(uuid)
    BY <2>1, MismatchIsDifference
  <2>3. scheme \in 1..Len(Schemes) /\ answer = "none"
    BY <1>0, <2>1 DEF Tried
  <2>4. \A k \in 1..scheme + 1 : k < scheme + 1 =>
          Schemes[k] # uuid_bin2str(uuid)
    <3>. SUFFICES ASSUME NEW k \in 1..scheme + 1, k < scheme + 1
                  PROVE  Schemes[k] # uuid_bin2str(uuid)
      OBVIOUS
    <3>1. k \in 1..scheme /\ (k = scheme \/ k < scheme)
      BY <1>0, <2>3
    <3>. QED
      BY <2>2, <2>3, <3>1
  <2>. QED
    BY <1>0, <2>1, <2>3, <2>4
<1>6. CASE NotFound
  <2>1. /\ Tried /\ ~ Matches /\ scheme = Len(Schemes) /\ answer' = "no"
        /\ UNCHANGED <<str, bin, status, uuid, scheme>>
    BY <1>6 DEF NotFound, conversion
  <2>2. Schemes[scheme] # uuid_bin2str(uuid)
    BY <2>1, MismatchIsDifference
  <2>3. \A k \in 1..scheme : Schemes[k] # uuid_bin2str(uuid)
    <3>. TAKE k \in 1..scheme
    <3>1. k = scheme \/ k < scheme
      BY <1>0, <2>1
    <3>. QED
      BY <2>1, <2>2, <3>1 DEF Tried
  <2>. QED
    BY <1>0, <2>1, <2>3 DEF Tried
<1>7. CASE UNCHANGED vars
  BY <1>7 DEF vars
<1>. QED
  BY <1>1, <1>2, <1>3, <1>4, <1>5, <1>6, <1>7 DEF Next

LEMMA SearchInvInitially == Init => SearchInv
BY UuidAssumption DEF Init, SearchInv

(* A UUID is supported exactly when its text is one of the factory's, for  *)
(* any list of schemes and UUIDs of any length and grouping: neither what  *)
(* the buffer held nor the narrow result of uuid_cmp makes another answer. *)
THEOREM SupportIsExact == Spec => []SupportedExactly
<1>1. ConversionInv /\ SearchInv => SupportedExactly
  <2>. SUFFICES ASSUME ConversionInv, SearchInv
                PROVE  SupportedExactly
    OBVIOUS
  <2>1. ASSUME answer = "yes"
        PROVE  \E k \in 1..Len(Schemes) : Schemes[k] = uuid_bin2str(uuid)
    <3>1. /\ status = "ok" /\ bin = uuid
          /\ scheme \in 1..Len(Schemes) /\ str = Schemes[scheme]
      BY <2>1, UuidAssumption DEF SearchInv
    <3>2. BeginsWith(uuid) /\ uuid \in [1..UUID_LEN -> Byte]
      BY <3>1, AcceptedBegins DEF ConversionInv, BuffersInv
    <3>. QED
      BY <3>1, <3>2, SchemeIsText
  <2>2. answer = "no" =>
          \A k \in 1..Len(Schemes) : Schemes[k] # uuid_bin2str(uuid)
    BY DEF SearchInv
  <2>. QED
    BY <2>1, <2>2 DEF SupportedExactly
<1>. QED
  BY <1>1, ConversionInvInitially, ConversionInvInductive, SearchInvInitially,
     SearchInvInductive, PTL DEF Spec

(* Every variable keeps its type, the pointers the bounds of the buffer    *)
(* and of the groups, whatever is converted and asked about.               *)
THEOREM TypeCorrect == Spec => []TypeOK
<1>1. ConversionInv /\ SearchInv => TypeOK
  <2>. SUFFICES ASSUME ConversionInv, SearchInv PROVE TypeOK
    OBVIOUS
  <2>1. group \in 0..Len(Ends) /\ left \in 0..UUID_LEN /\ outptr \in 0..UUID_LEN
    <3>1. CASE status = "idle"
      BY <3>1, GroupBounds DEF ConversionInv, ProgressInv
    <3>2. CASE status # "idle"
      <4>1. /\ group \in 1..Len(Ends) /\ left \in 0..Size(group)
            /\ outptr = Ends[group] - left
        BY <3>2 DEF ConversionInv, ProgressInv
      <4>2. PICK start \in Nat, end \in Nat :
              /\ end <= UUID_LEN
              /\ left \in 0..end - start /\ outptr = end - left
        BY <4>1, GroupBounds DEF Size
      <4>. QED
        BY <4>1, <4>2, GroupBounds
    <3>. QED
      BY <3>1, <3>2
  <2>. QED
    BY <2>1 DEF TypeOK, ConversionInv, ReadInv, BuffersInv, ProgressInv,
                SearchInv
<1>. QED
  BY <1>1, ConversionInvInitially, ConversionInvInductive, SearchInvInitially,
     SearchInvInductive, PTL DEF Spec
=============================================================================
