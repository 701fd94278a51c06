-------------------------------- MODULE MCUuid --------------------------------
(* Uuid with UUIDs of two bytes, "00-00", for TLC.                         *)
EXTENDS Uuid

TwoGroups == <<1, 2>>

(* 0, 9, a, F, the dash and a letter that is no digit.                     *)
Alphabet == {48, 57, 97, 70, Dash, 103}
UpTo(n) == UNION {[1..k -> Alphabet] : k \in 0..n}

(* Bytes written with those digits, and others: 0 and 128 differ by what   *)
(* an int8_t cannot hold.                                                  *)
SomeUuids == [1..2 -> {0, 9, 10, 15, 128, 144, 159, 160, 249, 255}]
TwoSchemes == <<<<56, 48, Dash, 48, 48>>, <<48, 48, Dash, 48, 57>>>>
SomeGarbage == {<<0, 9>>, <<255, 255>>}
ShortTexts == UpTo(5)
=============================================================================
