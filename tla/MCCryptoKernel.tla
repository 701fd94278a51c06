--------------------------- MODULE MCCryptoKernel ---------------------------
(* The instances of CryptoKernel that TLC checks, with blocks of 2 bytes.  *)
EXTENDS CryptoKernel

Sub(c, e) == [clear |-> c, encrypted |-> e]

(* Every split of at most 7 bytes, whole blocks or not, and the empty one. *)
OneSubSample == {<<Sub(c, e)>> : c \in 0..3, e \in 0..4}
TwoSubSamples == {<<Sub(1, 2), Sub(1, 2)>>}

(* A one-block content key with its block of padding.                      *)
PaddedKey == {[size |-> 2 * AES_BLOCK_SIZE, pad |-> AES_BLOCK_SIZE]}

(* Any size, the padding valid or not, and the empty key of a registration.*)
AnyKey == [size : 0..3 * AES_BLOCK_SIZE + 1, pad : 0..AES_BLOCK_SIZE + 1]
=============================================================================
