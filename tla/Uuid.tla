--------------------------------- MODULE Uuid ---------------------------------
(***************************************************************************)
(* The UUID helpers (uuid.c) and NvCryptoFactory::isCryptoSchemeSupported, *)
(* which converts the text of each scheme the factory knows and compares.  *)
(*                                                                         *)
(* Characters are their codes.  A string is the sequence of those before   *)
(* its final NUL; inptr counts from 1.                                     *)
(***************************************************************************)
EXTENDS Integers, Sequences

CONSTANTS
  Ends,       \* the last byte before each dash and the last of all,
              \* <<4, 6, 8, 10, 16>> in the code
  Schemes,    \* the texts isCryptoSchemeSupported tries, in order
  Texts,      \* the strings other callers convert
  Uuids,      \* the UUIDs callers ask about
  Garbage     \* what an uninitialised buffer may hold

Byte == 0..255
Code == 1..255    \* of a character other than NUL
NV_KO == -1
Dash == 45

UUID_LEN == Ends[Len(Ends)]
TextLen == 2 * UUID_LEN + Len(Ends) - 1

(* The byte before a group, and the bytes of a group.                      *)
Start(g) == IF g = 1 THEN 0 ELSE Ends[g - 1]
Size(g) == Ends[g] - Start(g)

ASSUME UuidAssumption ==
  /\ Ends \in Seq(Nat \ {0}) /\ Ends # <<>>
  /\ \A g, h \in 1..Len(Ends) : g < h => Ends[g] < Ends[h]
  /\ Schemes \in Seq(Seq(Code)) /\ Schemes # <<>>
  /\ Texts \subseteq Seq(Code)
  /\ Uuids \subseteq [1..UUID_LEN -> Byte]
  /\ Garbage \subseteq [1..UUID_LEN -> Byte]

VARIABLES
  str,      \* the string being converted
  inptr,    \* the next character
  bin,      \* the buffer of the result, kept from one scheme to the next
  outptr,   \* bytes written to it
  group,    \* the group being converted, and
  left,     \* what is left of it
  read,     \* history: the furthest character read
  status,   \* of uuid_str2bin: "idle", "running", "ok" or "ko"
  uuid,     \* the UUID asked about
  scheme,   \* the scheme being tried, 0 for a conversion alone
  answer    \* what isCryptoSchemeSupported returned: "none" or a Boolean

vars == <<str, inptr, bin, outptr, group, left, read, status, uuid, scheme,
          answer>>
conversion == <<str, inptr, bin, outptr, group, left, read, status>>

TypeOK ==
  /\ str \in Seq(Code)
  /\ inptr \in Nat /\ read \in Nat
  /\ bin \in [1..UUID_LEN -> Byte]
  /\ outptr \in 0..UUID_LEN
  /\ group \in 0..Len(Ends)
  /\ left \in 0..UUID_LEN
  /\ status \in {"idle", "running", "ok", "ko"}
  /\ uuid \in [1..UUID_LEN -> Byte]
  /\ scheme \in 0..Len(Schemes)
  /\ answer \in {"none", "yes", "no"}

-----------------------------------------------------------------------------
(* The helpers.                                                            *)

hex2numToG(c) ==    \* mutant: a digit too many
  IF c \in 48..57 THEN c - 48
  ELSE IF c \in 97..103 THEN c - 97 + 10
  ELSE IF c \in 65..70 THEN c - 65 + 10
  ELSE NV_KO

hex2numOrZero(c) ==    \* mutant: no character is refused
  IF c \in 48..57 THEN c - 48
  ELSE IF c \in 97..102 THEN c - 97 + 10
  ELSE IF c \in 65..70 THEN c - 65 + 10
  ELSE 0

(* The value of a hexadecimal digit.                                       *)
hex2num(c) ==
  IF c \in 48..57 THEN c - 48
  ELSE IF c \in 97..102 THEN c - 97 + 10
  ELSE IF c \in 65..70 THEN c - 65 + 10
  ELSE NV_KO

(* hex2byte of two characters; the second is not read after a bad first.   *)
hex2byte(c, d) ==
  IF hex2num(c) < 0 \/ hex2num(d) < 0 THEN NV_KO
  ELSE 16 * hex2num(c) + hex2num(d)

(* "%02x", of half a byte and of a byte.                                   *)
num2hex(n) == IF n < 10 THEN 48 + n ELSE 97 + n - 10

byte2hex(b) == <<num2hex(b \div 16), num2hex(b % 16)>>

(* The group that holds character i of a text, or the dash after it.       *)
GroupAt(i) ==
  CHOOSE g \in 1..Len(Ends) :
    2 * Start(g) + g <= i /\ i <= 2 * Ends[g] + g

(* The text uuid_bin2str prints when max_len allows for its final NUL.     *)
uuid_bin2str(u) ==
  [i \in 1..TextLen |->
     LET g == GroupAt(i)
         k == i - g + 1    \* without the dashes before it
     IN IF i = 2 * Ends[g] + g THEN Dash
        ELSE byte2hex(u[(k + 1) \div 2])[2 - (k % 2)]]

(* The schemes of the factory are written as uuid_bin2str writes them.     *)
ASSUME SchemesAssumption ==
  \A k \in 1..Len(Schemes) :
    \E u \in [1..UUID_LEN -> Byte] : Schemes[k] = uuid_bin2str(u)

(* An int converted to int8_t.                                             *)
Int8(n) == ((n + 128) % 256) - 128

(* memcmp: the difference of the first bytes that differ.                  *)
memcmp(u, v) ==
  LET i == CHOOSE i \in 1..UUID_LEN :
             u[i] # v[i] /\ \A j \in 1..i - 1 : u[j] = v[j]
  IN IF u = v THEN 0 ELSE u[i] - v[i]

uuid_cmp4(u, v) == memcmp(u, v) % 16    \* mutant: a 4-bit result

uuid_cmp8(u, v) == memcmp(u, v) % 256    \* mutant: the result is a uint8_t

uuid_cmp(u, v) == Int8(memcmp(u, v))

OppositeResults(u, v) ==
  memcmp(u, v) \notin {-128, 128} => uuid_cmp(u, v) + uuid_cmp(v, u) = 0

-----------------------------------------------------------------------------
(* uuid_str2bin, a byte at a time.                                         *)

At(i) == IF i <= Len(str) THEN str[i] ELSE 0

Init ==
  /\ str = <<>> /\ inptr = 1 /\ read = 0
  /\ bin \in Garbage
  /\ outptr = 0 /\ group = 0 /\ left = 0
  /\ status = "idle"
  /\ uuid = [i \in 1..UUID_LEN |-> 0]
  /\ scheme = 0
  /\ answer = "none"

Begin(text) ==
  /\ str' = text
  /\ inptr' = 1 /\ read' = 0
  /\ outptr' = 0
  /\ group' = 1 /\ left' = Size(1)
  /\ status' = "running"
  /\ UNCHANGED bin

uuid_str2bin ==
  /\ status = "idle"
  /\ \E text \in Texts : Begin(text)
  /\ UNCHANGED <<uuid, scheme, answer>>

(* hexstr2bin: one round of its loop.                                      *)
ConvertByte ==
  LET high == At(inptr)
      low == At(inptr + 1)
      a == hex2byte(high, low)
  IN /\ status = "running"
     /\ left > 0
     /\ read' = IF hex2num(high) < 0 THEN inptr ELSE inptr + 1
     /\ IF a < 0
        THEN /\ status' = "ko"
             /\ UNCHANGED <<inptr, bin, outptr, left>>
        ELSE /\ bin' = [bin EXCEPT ![outptr + 1] = a]
             /\ inptr' = inptr + 2
             /\ outptr' = outptr + 1
             /\ left' = left - 1
             /\ UNCHANGED status
     /\ UNCHANGED <<str, group, uuid, scheme, answer>>

SkipAnything ==    \* mutant: what separates the groups is not tested
  /\ status = "running"
  /\ left = 0
  /\ group < Len(Ends)
  /\ read' = inptr
  /\ inptr' = inptr + 1
  /\ group' = group + 1
  /\ left' = Size(group + 1)
  /\ UNCHANGED <<str, bin, outptr, status, uuid, scheme, answer>>

SkipDash ==
  /\ status = "running"
  /\ left = 0
  /\ group < Len(Ends)
  /\ read' = inptr
  /\ IF At(inptr) # Dash
     THEN /\ status' = "ko"
          /\ UNCHANGED <<inptr, group, left>>
     ELSE /\ inptr' = inptr + 1
          /\ group' = group + 1
          /\ left' = Size(group + 1)
          /\ UNCHANGED status
  /\ UNCHANGED <<str, bin, outptr, uuid, scheme, answer>>

Converted ==
  /\ status = "running"
  /\ left = 0
  /\ group = Len(Ends)
  /\ status' = "ok"
  /\ UNCHANGED <<str, inptr, bin, outptr, group, left, read, uuid, scheme,
                 answer>>

Convert == ConvertByte \/ SkipDash \/ Converted

-----------------------------------------------------------------------------
(* NvCryptoFactory::isCryptoSchemeSupported: TEST_UUID_MATCH in turn.      *)

isCryptoSchemeSupported ==
  /\ status = "idle"
  /\ uuid' \in Uuids
  /\ scheme' = 1
  /\ Begin(Schemes[1])
  /\ UNCHANGED answer

Tried == scheme # 0 /\ answer = "none" /\ status \in {"ok", "ko"}
Matches == status = "ok" /\ uuid_cmp(uuid, bin) = 0

Found ==
  /\ Tried /\ Matches
  /\ answer' = "yes"
  /\ UNCHANGED <<conversion, uuid, scheme>>

TryNext ==
  /\ Tried /\ ~Matches
  /\ scheme < Len(Schemes)
  /\ scheme' = scheme + 1
  /\ Begin(Schemes[scheme + 1])
  /\ UNCHANGED <<uuid, answer>>

NotFound ==
  /\ Tried /\ ~Matches
  /\ scheme = Len(Schemes)
  /\ answer' = "no"
  /\ UNCHANGED <<conversion, uuid, scheme>>

Next ==
  \/ uuid_str2bin \/ Convert
  \/ isCryptoSchemeSupported \/ Found \/ TryNext \/ NotFound

Spec == Init /\ [][Next]_vars

-----------------------------------------------------------------------------
(* PROPERTIES                                                              *)

(* A character in the lower case that uuid_bin2str prints.                 *)
Lower(c) == IF c \in 65..70 THEN c + 32 ELSE c

(* str begins with the text of u, in any case.                             *)
BeginsWith(u) ==
  /\ Len(str) >= TextLen
  /\ \A i \in 1..TextLen : Lower(str[i]) = uuid_bin2str(u)[i]

(* uuid_str2bin is the inverse of uuid_bin2str: what it accepts is the     *)
(* text of the UUID it stores, with anything after it, and it refuses no   *)
(* text of a UUID.                                                         *)
InverseOfBin2Str ==
  /\ status = "ok" => BeginsWith(bin)
  /\ status = "ko" => \A u \in Uuids : ~BeginsWith(u)

(* No character after the final NUL is read, however short the string.     *)
ReadsWithinString == read <= Len(str) + 1

(* A UUID is supported exactly when its text is one of the factory's,      *)
(* although the int8_t of uuid_cmp is narrower than what memcmp returns    *)
(* and the buffer still holds the scheme tried before.                     *)
SupportedExactly ==
  LET known == \E k \in 1..Len(Schemes) : Schemes[k] = uuid_bin2str(uuid)
  IN (answer = "yes" => known) /\ (answer = "no" => ~known)

(* What utils/src/tests/main.c:109 asserts of one pair of UUIDs, that they *)
(* compare oppositely in either order, holds of every pair whose first     *)
(* different bytes are not 128 apart, which int8_t has no opposite of.     *)
CmpIsAntisymmetric ==
  Tried /\ status = "ok" => OppositeResults(uuid, bin)
=============================================================================
