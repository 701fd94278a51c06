-------------------------- MODULE CryptoKernelProofs --------------------------
(***************************************************************************)
(* Proofs about CryptoKernel, for every block size, counter width, sample  *)
(* and every size and padding of the protected key: the types are right,   *)
(* the key buffer is freed on every path and holds no byte of the content  *)
(* key when it is, failures are reported, and the output is that of common *)
(* encryption.                                                             *)
(***************************************************************************)
EXTENDS CryptoKernel, Integers, TLAPS

(* What the call knows of the key buffer.  KeyErased alone is not          *)
(* inductive: that bzero erases everything relies on the buffer holding    *)
(* only the bytes that getRightKey counted.                                *)
KeyInv ==
  /\ keyHeld <=> pc \in {"setkey", "erase", "clear", "block", "finish"}
  /\ pc \in {"setkey", "erase"} =>
       wrapped \in WrappedKeys /\ keyBytes = BytesWritten(wrapped)
  /\ pc \notin {"setkey", "erase"} => keyBytes = {}
  /\ ~keyHeld => schedule # "content"

-----------------------------------------------------------------------------
(* The padded decryption counts a natural number of bytes.                 *)
LEMMA DecryptedSizes ==
  ASSUME NEW k \in WrappedKeys
  PROVE  UpdateOut(k) \in Nat /\ FinalOut(k) \in Nat
<1>1. k.size \in Nat /\ k.pad \in Nat /\ AES_BLOCK_SIZE \in Nat \ {0}
  BY SizesAssumption
<1> DEFINE B == AES_BLOCK_SIZE
           r == k.size % B
<1>2. r \in 0..B - 1 /\ r <= k.size
  BY <1>1
<1>3. k.size > 0 /\ r = 0 => k.size >= B
  BY <1>1
<1>4. UpdateOut(k) \in Nat
  <2>1. UpdateOut(k) = IF k.size > 0 /\ k.size - r = k.size
                       THEN k.size - r - B ELSE k.size - r
    BY DEF UpdateOut
  <2> HIDE DEF r
  <2> QED
    BY <1>1, <1>2, <1>3, <2>1
<1>5. FinalOut(k) \in Nat
  BY <1>1 DEF FinalOut
<1> QED
  BY <1>4, <1>5

(* bzero over the returned length erases all that was written: Final       *)
(* writes over the start of the buffer, so nothing lies past the sum.      *)
LEMMA EraseIsComplete ==
  ASSUME NEW k \in WrappedKeys
  PROVE  {j \in BytesWritten(k) : j >= KeyLen(k)} = {}
<1>1. UpdateOut(k) \in Nat /\ FinalOut(k) \in Nat /\ k.size \in Nat
  BY DecryptedSizes, SizesAssumption
<1> QED
  BY <1>1 DEF BytesWritten, KeyLen

(* Each action keeps what is known of the key buffer.                      *)
LEMMA KeyInvInductive ==
  ASSUME KeyInv, [Next]_vars
  PROVE  KeyInv'
<1>1. CASE DecryptNothing \/ DecryptCtr
  BY <1>1 DEF KeyInv, DecryptNothing, DecryptCtr, Decrypt
<1>2. CASE DecryptUnencrypted
  BY <1>2 DEF KeyInv, DecryptUnencrypted
<1>3. CASE GetRightKeyFails \/ GetRightKey
  BY <1>3 DEF KeyInv, GetRightKeyFails, GetRightKey
<1>4. CASE SetKey
  BY <1>4 DEF KeyInv, SetKey
<1>5. CASE SetKeyFails \/ EraseKey
  <2>1. LeftAfterErase = {}
    BY <1>5, EraseIsComplete
       DEF KeyInv, SetKeyFails, EraseKey, LeftAfterErase
  <2> QED
    BY <1>5, <2>1 DEF KeyInv, SetKeyFails, EraseKey, ZeroSchedule
<1>6. CASE CopyClear \/ DecryptBlock \/ BlocksDone
  BY <1>6 DEF KeyInv, CopyClear, DecryptBlock, BlocksDone
<1>7. CASE FreeKey \/ Return
  BY <1>7 DEF KeyInv, FreeKey, ZeroSchedule, Return
<1>8. CASE UNCHANGED vars
  BY <1>8 DEF KeyInv, vars, BytesWritten, UpdateOut, FinalOut
<1> QED
  BY <1>1, <1>2, <1>3, <1>4, <1>5, <1>6, <1>7, <1>8 DEF Next, KernelStep

(* THEOREM: the key buffer is never held between calls, whatever failed.   *)
THEOREM KeyIsFreed == Spec => []KeyFreed
<1>1. Init => KeyInv
  BY DEF Init, KeyInv
<1>2. KeyInv => KeyFreed
  BY DEF KeyInv, KeyFreed
<1> QED
  BY <1>1, <1>2, KeyInvInductive, PTL DEF Spec

(* THEOREM: a freed key buffer holds no byte of the content key, whatever  *)
(* the size and the padding of the protected key, and the key schedule is  *)
(* not the one of the content key.                                         *)
THEOREM KeyIsErased == Spec => []KeyErased
<1>1. Init => KeyInv
  BY DEF Init, KeyInv
<1>2. KeyInv => KeyErased
  BY DEF KeyInv, KeyErased
<1> QED
  BY <1>1, <1>2, KeyInvInductive, PTL DEF Spec

-----------------------------------------------------------------------------
(* Arithmetic of the block loop.                                           *)

Division(a, m, q, r) ==
  /\ a \in Nat /\ m \in Nat \ {0} /\ q \in Nat /\ r \in 0..m - 1
  /\ a = m * q + r

LEMMA DivisionIsUnique ==
  ASSUME NEW a, NEW m, NEW q, NEW r, Division(a, m, q, r)
  PROVE  a \div m = q /\ a % m = r
<1>0. /\ a \in Nat /\ m \in Nat \ {0} /\ q \in Nat /\ r \in 0..m - 1
      /\ a = m * q + r
  BY DEF Division
<1> DEFINE p == a \div m
           s == a % m
<1>1. p \in Nat /\ s \in 0..m - 1 /\ a = m * p + s
  BY <1>0
<1>2. m * (q - p) = s - r
  <2> HIDE DEF p, s
  <2> QED BY <1>0, <1>1
<1>3. q = p
  <2> HIDE DEF p, s
  <2>1. CASE q - p >= 1
    <3>1. m * (q - p) >= m
      BY <1>0, <1>1, <2>1
    <3> QED BY <1>0, <1>1, <1>2, <3>1
  <2>2. CASE q - p <= -1
    <3>1. m * (q - p) <= -m
      BY <1>0, <1>1, <2>2
    <3> QED BY <1>0, <1>1, <1>2, <3>1
  <2> QED BY <1>0, <1>1, <2>1, <2>2
<1>4. s = r
  <2> HIDE DEF p, s
  <2> QED BY <1>0, <1>1, <1>2, <1>3
<1> QED BY <1>3, <1>4

LEMMA DivisionExists ==
  ASSUME NEW m \in Nat \ {0}, NEW a \in Nat
  PROVE  Division(a, m, a \div m, a % m)
<1>1. (a \div m) \in Nat /\ (a % m) \in 0..m - 1
  OBVIOUS
<1>2. a = m * (a \div m) + (a % m)
  OBVIOUS
<1> QED BY <1>1, <1>2 DEF Division

(* Whole blocks x, and d bytes of the next one.                            *)
LEMMA WithinBlock ==
  ASSUME NEW m \in Nat \ {0}, NEW x \in Nat, x % m = 0, NEW d \in 0..m - 1
  PROVE  (x + d) \div m = x \div m /\ (x + d) % m = d
<1> DEFINE q == x \div m
<1>1. q \in Nat /\ x = m * q
  BY DivisionExists DEF Division
<1> HIDE DEF q
<1>2. Division(x + d, m, q, d)
  BY <1>1 DEF Division
<1> QED BY <1>2, DivisionIsUnique DEF q

LEMMA NextBlock ==
  ASSUME NEW m \in Nat \ {0}, NEW x \in Nat, x % m = 0
  PROVE  (x + m) \div m = (x \div m) + 1 /\ (x + m) % m = 0
<1> DEFINE q == x \div m
<1>1. q \in Nat /\ x = m * q
  BY DivisionExists DEF Division
<1> HIDE DEF q
<1>2. Division(x + m, m, q + 1, 0)
  BY <1>1 DEF Division
<1> QED BY <1>2, DivisionIsUnique DEF q

(* Two whole numbers of blocks differ by a block at least.                 *)
LEMMA WholeBlocks ==
  ASSUME NEW m \in Nat \ {0}, NEW x \in Nat, NEW y \in Nat,
         x % m = 0, y % m = 0, x < y
  PROVE  x + m <= y
<1> DEFINE p == x \div m
           q == y \div m
<1>1. p \in Nat /\ q \in Nat /\ x = m * p /\ y = m * q
  BY DivisionExists DEF Division
<1> HIDE DEF p, q
<1>2. q >= p + 1
  <2> SUFFICES ASSUME q <= p PROVE FALSE
    BY <1>1
  <2>1. m * q <= m * p
    BY <1>1
  <2> QED BY <1>1, <2>1
<1>3. m * q >= m * (p + 1)
  BY <1>1, <1>2
<1> QED BY <1>1, <1>3

(* The counter block wraps as the counter of the specification does.       *)
LEMMA CounterCarries ==
  ASSUME NEW m \in Nat \ {0}, NEW a \in Nat
  PROVE  ((a % m) + 1) % m = (a + 1) % m
<1> DEFINE q == a \div m
           r == a % m
<1>1. q \in Nat /\ r \in 0..m - 1 /\ a = m * q + r
  BY DivisionExists DEF Division
<1> HIDE DEF q, r
<1>2. CASE r + 1 < m
  <2>1. Division(a + 1, m, q, r + 1) /\ Division(r + 1, m, 0, r + 1)
    BY <1>1, <1>2 DEF Division
  <2> QED BY <2>1, DivisionIsUnique DEF r
<1>3. CASE r + 1 = m
  <2>1. Division(a + 1, m, q + 1, 0) /\ Division(r + 1, m, 1, 0)
    BY <1>1, <1>3 DEF Division
  <2> QED BY <2>1, DivisionIsUnique DEF r
<1> QED BY <1>1, <1>2, <1>3

-----------------------------------------------------------------------------
(* What is known at each stage of a call: its sample, the size it counts   *)
(* and what it has reported.                                               *)
StageInv ==
  /\ pc # "idle" => sample \in Samples /\ mode = "ctr"
  /\ pc \in {"getkey", "setkey", "erase"} => dataSize = 0 /\ errorMsg = "unset"
  /\ pc \in {"clear", "block"} =>
       /\ dataSize = Clear + Encrypted /\ dataSize # 0
       /\ Encrypted % AES_BLOCK_SIZE = 0
       /\ errorMsg = "unset"
  /\ pc \in {"finish", "return"} => (dataSize = 0 <=> errorMsg = "error")
  /\ Returned => (ret = 0 <=> errorMsg = "error")

LEMMA FirstSubSample ==
  ASSUME NEW s \in Samples
  PROVE  s # <<>> /\ s[1].clear \in 0..MaxBytes /\ s[1].encrypted \in 0..MaxBytes
<1>1. s \in Seq(SubSample) /\ s # <<>>
  BY SizesAssumption
<1>2. s[1] \in SubSample
  BY <1>1
<1> QED BY <1>1, <1>2 DEF SubSample

LEMMA StageInvInductive ==
  ASSUME StageInv, [Next]_vars
  PROVE  StageInv'
<1> USE DEF StageInv, Returned
<1>1. CASE DecryptNothing
  BY <1>1 DEF DecryptNothing, Decrypt
<1>2. CASE DecryptUnencrypted
  BY <1>2 DEF DecryptUnencrypted
<1>3. CASE DecryptCtr
  BY <1>3 DEF DecryptCtr, Decrypt
<1>4. CASE GetRightKeyFails \/ GetRightKey \/ SetKey \/ SetKeyFails
  BY <1>4 DEF GetRightKeyFails, GetRightKey, SetKey, SetKeyFails
<1>5. CASE EraseKey
  BY <1>5 DEF EraseKey, Clear, Encrypted
<1>6. CASE CopyClear \/ DecryptBlock
  BY <1>6 DEF CopyClear, DecryptBlock, Clear, Encrypted
<1>7. CASE BlocksDone \/ FreeKey
  BY <1>7 DEF BlocksDone, FreeKey
<1>8. CASE Return
  BY <1>8 DEF Return
<1>9. CASE UNCHANGED vars
  BY <1>9 DEF vars, Clear, Encrypted
<1> QED
  BY <1>1, <1>2, <1>3, <1>4, <1>5, <1>6, <1>7, <1>8, <1>9 DEF Next, KernelStep

(* THEOREM: a call of the kernel reports an error iff it has decrypted     *)
(* nothing, on every path.                                                 *)
THEOREM FailuresAreReported == Spec => []FailureIsReported
<1>1. Init => StageInv
  BY DEF Init, StageInv, Returned
<1>2. StageInv => FailureIsReported
  BY DEF StageInv, FailureIsReported
<1> QED
  BY <1>1, <1>2, StageInvInductive, PTL DEF Spec

-----------------------------------------------------------------------------
(* Where the block loop stands: a whole number of blocks after the clear   *)
(* bytes, with the counter advanced by as many.                            *)
Blocks == (pos - Clear) \div AES_BLOCK_SIZE

LoopInv ==
  /\ pc \in {"getkey", "setkey", "erase", "clear"} =>
       out = Unwritten /\ iv = ivGiven
  /\ pc = "block" =>
       /\ Clear <= pos /\ pos <= dataSize
       /\ (pos - Clear) % AES_BLOCK_SIZE = 0
       /\ iv = (ivGiven + Blocks) % CounterModulus

(* A round of the loop stays in the sample: it ends after whole blocks.    *)
LEMMA RoundInSample ==
  ASSUME TypeOK, StageInv, LoopInv, pc = "block", pos < dataSize
  PROVE  /\ pos + AES_BLOCK_SIZE <= dataSize
         /\ pos - Clear \in Nat /\ Clear \in Nat
         /\ pos \in Nat /\ dataSize \in Nat /\ ivGiven \in Nat
<1>1. Clear \in Nat /\ Encrypted \in Nat
  BY FirstSubSample DEF StageInv, Clear, Encrypted
<1>2. pos \in Nat /\ dataSize \in Nat /\ ivGiven \in Nat
  BY DEF TypeOK
<1> HIDE DEF Clear, Encrypted
<1>3. /\ dataSize = Clear + Encrypted
      /\ Encrypted % AES_BLOCK_SIZE = 0
      /\ (pos - Clear) % AES_BLOCK_SIZE = 0 /\ Clear <= pos
  BY DEF StageInv, LoopInv
<1>4. pos - Clear \in Nat /\ pos - Clear < Encrypted
  BY <1>1, <1>2, <1>3
<1>5. pos - Clear + AES_BLOCK_SIZE <= Encrypted
  BY <1>1, <1>3, <1>4, SizesAssumption, WholeBlocks
<1> QED BY <1>1, <1>2, <1>3, <1>4, <1>5, SizesAssumption

LEMMA TypeOKInductive ==
  ASSUME TypeOK, StageInv, LoopInv, [Next]_vars
  PROVE  TypeOK'
<1> USE SizesAssumption
<1>0. 0 \in 0..CounterModulus - 1 /\ 0 \in 0..2 * MaxBytes
      /\ Unwritten \in [0..MaxBytes - 1 -> OutByte]
  BY DEF Unwritten, OutByte
<1>1. CASE DecryptNothing \/ DecryptCtr
  BY <1>0, <1>1
  DEF TypeOK, DecryptNothing, DecryptCtr, Decrypt, Modes, Schedules
<1>2. CASE DecryptUnencrypted
  <2>1. PICK s \in Samples :
          /\ sample' = s /\ ivGiven' = iv /\ ret' = s[1].clear
          /\ out' = [j \in 0..MaxBytes - 1 |->
                       IF j < s[1].clear THEN Plain ELSE Untouched]
          /\ pc' = "idle" /\ mode' = "unencrypted" /\ errorMsg' = "unset"
          /\ wrapped' = NoWrapped /\ schedule' = "none"
          /\ dataSize' = 0 /\ pos' = 0 /\ UNCHANGED <<iv, keyBytes, keyHeld>>
    BY <1>2 DEF DecryptUnencrypted
  <2>2. s[1].clear \in 0..2 * MaxBytes
    BY FirstSubSample
  <2>3. out' \in [0..MaxBytes - 1 -> OutByte]
    BY <2>1 DEF OutByte
  <2> QED BY <1>0, <2>1, <2>2, <2>3 DEF TypeOK, Modes, Schedules
<1>3. CASE GetRightKeyFails
  BY <1>3 DEF TypeOK, GetRightKeyFails
<1>4. CASE GetRightKey
  <2>1. PICK k \in WrappedKeys : wrapped' = k /\ keyBytes' = BytesWritten(k)
    BY <1>4 DEF GetRightKey
  <2>2. BytesWritten(k) \in SUBSET Nat
    BY DEF BytesWritten
  <2> QED BY <1>4, <2>1, <2>2 DEF TypeOK, GetRightKey
<1>5. CASE SetKey \/ SetKeyFails
  BY <1>5 DEF TypeOK, SetKey, SetKeyFails, Schedules, ZeroSchedule,
              LeftAfterErase
<1>6. CASE EraseKey
  <2>1. Clear + Encrypted \in 0..2 * MaxBytes
    BY <1>6, FirstSubSample DEF EraseKey, StageInv, Clear, Encrypted
  <2>2. dataSize' \in 0..2 * MaxBytes /\ errorMsg' \in {"unset", "empty", "error"}
        /\ pc' \in {"finish", "clear"} /\ keyBytes' \in SUBSET Nat
    BY <1>0, <1>6, <2>1 DEF EraseKey, TypeOK, LeftAfterErase
  <2> QED BY <1>6, <2>2 DEF TypeOK, EraseKey
<1>7. CASE CopyClear
  <2>1. Clear \in 0..2 * MaxBytes
    BY <1>7, FirstSubSample DEF CopyClear, StageInv, Clear
  <2>2. out' \in [0..MaxBytes - 1 -> OutByte]
    BY <1>7 DEF CopyClear, TypeOK, OutByte
  <2> QED BY <1>7, <2>1, <2>2 DEF TypeOK, CopyClear
<1>8. CASE DecryptBlock
  <2>1. pc = "block" /\ pos < dataSize
    BY <1>8 DEF DecryptBlock
  <2>2. pos + AES_BLOCK_SIZE \in 0..2 * MaxBytes
    BY <2>1, RoundInSample DEF TypeOK
  <2>3. NextCounter(iv) \in 0..CounterModulus - 1
    BY DEF NextCounter, TypeOK
  <2>4. ASSUME NEW j \in pos..(pos + AES_BLOCK_SIZE - 1)
        PROVE  <<schedule, iv, j - pos>> \in OutByte
    <3>1. j - pos \in 0..AES_BLOCK_SIZE - 1
      BY <2>1, <2>4, RoundInSample
    <3> QED BY <3>1 DEF TypeOK, OutByte
  <2>5. out' \in [0..MaxBytes - 1 -> OutByte]
    BY <1>8, <2>4 DEF DecryptBlock, TypeOK
  <2>6. /\ iv' = NextCounter(iv) /\ pos' = pos + AES_BLOCK_SIZE
        /\ UNCHANGED <<pc, sample, mode, ivGiven, wrapped, keyBytes, keyHeld,
                       schedule, dataSize, errorMsg, ret>>
    BY <1>8 DEF DecryptBlock
  <2> QED BY <2>2, <2>3, <2>5, <2>6 DEF TypeOK
<1>9. CASE BlocksDone \/ FreeKey \/ Return
  BY <1>9 DEF TypeOK, BlocksDone, FreeKey, Return, ZeroSchedule, Schedules
<1>10. CASE UNCHANGED vars
  BY <1>10 DEF TypeOK, vars
<1> QED
  BY <1>1, <1>2, <1>3, <1>4, <1>5, <1>6, <1>7, <1>8, <1>9, <1>10
  DEF Next, KernelStep

LEMMA LoopInvInductive ==
  ASSUME TypeOK, StageInv, LoopInv, [Next]_vars
  PROVE  LoopInv'
<1> USE SizesAssumption
<1>1. CASE DecryptNothing \/ DecryptUnencrypted \/ DecryptCtr
  BY <1>1
  DEF LoopInv, DecryptNothing, DecryptUnencrypted, DecryptCtr, Decrypt, Unwritten
<1>2. CASE GetRightKeyFails \/ GetRightKey \/ SetKey \/ SetKeyFails \/ EraseKey
  BY <1>2 DEF LoopInv, GetRightKeyFails, GetRightKey, SetKey, SetKeyFails,
              EraseKey, Unwritten
<1>3. CASE CopyClear
  <2>1. /\ pc = "clear" /\ pos' = Clear
        /\ UNCHANGED <<sample, iv, ivGiven, dataSize>>
        /\ pc' \in {"block", "finish"}
    BY <1>3 DEF CopyClear
  <2>2. /\ Clear \in Nat /\ Encrypted \in Nat /\ dataSize = Clear + Encrypted
        /\ iv = ivGiven /\ iv \in 0..CounterModulus - 1
    BY <2>1, FirstSubSample DEF StageInv, LoopInv, TypeOK, Clear, Encrypted
  <2>3. Clear' = Clear
    BY <2>1 DEF Clear
  <2> HIDE DEF Clear, Encrypted
  <2>4. pos' - Clear' = 0 /\ Clear' <= pos' /\ pos' <= dataSize'
    BY <2>1, <2>2, <2>3
  <2>5. Division(0, AES_BLOCK_SIZE, 0, 0) /\ Division(iv, CounterModulus, 0, iv)
    BY <2>2 DEF Division
  <2>6. 0 \div AES_BLOCK_SIZE = 0 /\ 0 % AES_BLOCK_SIZE = 0
        /\ iv % CounterModulus = iv
    BY <2>5, DivisionIsUnique
  <2>7. Blocks' = 0
    BY <2>4, <2>6 DEF Blocks
  <2>8. (ivGiven + 0) % CounterModulus = iv
    BY <2>2, <2>6
  <2> QED BY <2>1, <2>4, <2>6, <2>7, <2>8 DEF LoopInv
<1>4. CASE DecryptBlock
  <2>1. /\ pc = "block" /\ pos < dataSize /\ iv' = NextCounter(iv)
        /\ pos' = pos + AES_BLOCK_SIZE
        /\ UNCHANGED <<pc, sample, ivGiven, dataSize>>
    BY <1>4 DEF DecryptBlock
  <2>2. /\ pos + AES_BLOCK_SIZE <= dataSize
        /\ pos - Clear \in Nat /\ Clear \in Nat /\ pos \in Nat
        /\ ivGiven \in Nat
    BY <2>1, RoundInSample
  <2>3. /\ (pos - Clear) % AES_BLOCK_SIZE = 0
        /\ iv = (ivGiven + Blocks) % CounterModulus
    BY <2>1 DEF LoopInv
  <2>4. Clear' = Clear
    BY <2>1 DEF Clear
  <2> HIDE DEF Clear
  <2>5. pos' - Clear' = (pos - Clear) + AES_BLOCK_SIZE /\ Clear' <= pos'
    BY <2>1, <2>2, <2>4
  <2>6. /\ ((pos - Clear) + AES_BLOCK_SIZE) \div AES_BLOCK_SIZE
            = ((pos - Clear) \div AES_BLOCK_SIZE) + 1
        /\ ((pos - Clear) + AES_BLOCK_SIZE) % AES_BLOCK_SIZE = 0
    BY <2>2, <2>3, NextBlock
  <2>7. Blocks' = Blocks + 1 /\ (pos' - Clear') % AES_BLOCK_SIZE = 0
    BY <2>5, <2>6 DEF Blocks
  <2>8. Blocks \in Nat
    BY <2>2, DivisionExists DEF Blocks, Division
  <2> HIDE DEF Blocks
  <2>9. (((ivGiven + Blocks) % CounterModulus) + 1) % CounterModulus
          = (ivGiven + Blocks + 1) % CounterModulus
    <3>1. ivGiven + Blocks \in Nat /\ CounterModulus \in Nat \ {0}
      BY <2>2, <2>8
    <3> QED BY <3>1, CounterCarries, Zenon
  <2>10. ivGiven + Blocks + 1 = ivGiven + (Blocks + 1)
    BY <2>2, <2>8
  <2>11. iv' = (ivGiven' + Blocks') % CounterModulus
    BY <2>1, <2>3, <2>7, <2>9, <2>10 DEF NextCounter
  <2> QED BY <2>1, <2>2, <2>5, <2>7, <2>11 DEF LoopInv
<1>5. CASE BlocksDone \/ FreeKey \/ Return
  BY <1>5 DEF LoopInv, BlocksDone, FreeKey, Return
<1>6. CASE UNCHANGED vars
  BY <1>6 DEF LoopInv, vars, Blocks, Clear, Unwritten
<1> QED
  BY <1>1, <1>2, <1>3, <1>4, <1>5, <1>6 DEF Next, KernelStep

-----------------------------------------------------------------------------
(* The first n bytes of the output are those of common encryption, and the *)
(* others have not been written.                                           *)
DecryptedTo(n) ==
  \A j \in 0..MaxBytes - 1 : out[j] = IF j < n THEN Cenc(j) ELSE Untouched

OutputInv ==
  /\ pc \in {"erase", "clear", "block"} /\ GoodKey(wrapped) =>
       schedule = "content"
  /\ pc = "block" /\ GoodKey(wrapped) => DecryptedTo(pos)
  /\ pc \in {"finish", "return"} /\ dataSize > 0 /\ GoodKey(wrapped) =>
       DecryptedTo(dataSize)
  /\ OutputIsCenc

(* A step that leaves the sample, the output and the counter's start.      *)
LEMMA OutputKept ==
  ASSUME UNCHANGED <<sample, ivGiven, out, wrapped>>
  PROVE  /\ GoodKey(wrapped)' <=> GoodKey(wrapped)
         /\ \A j \in 0..MaxBytes - 1 : Cenc(j)' = Cenc(j)
         /\ \A n : DecryptedTo(n) =>
              \A j \in 0..MaxBytes - 1 :
                out'[j] = IF j < n THEN Cenc(j)' ELSE Untouched
<1>1. \A j \in 0..MaxBytes - 1 : Cenc(j)' = Cenc(j)
  BY DEF Cenc, Clear
<1>2. GoodKey(wrapped)' <=> GoodKey(wrapped)
  BY DEF GoodKey, UpdateOut, FinalOut
<1> QED BY <1>1, <1>2 DEF DecryptedTo

LEMMA OutputInvInductive ==
  ASSUME TypeOK, StageInv, LoopInv, OutputInv, TypeOK', [Next]_vars
  PROVE  OutputInv'
<1> USE SizesAssumption
<1>1. CASE DecryptNothing \/ DecryptUnencrypted \/ DecryptCtr
  <2>1. ret' = 0 \/ mode' = "unencrypted"
    BY <1>1 DEF DecryptNothing, DecryptUnencrypted, DecryptCtr, Decrypt
  <2>2. pc' \in {"idle", "getkey"}
    BY <1>1 DEF DecryptNothing, DecryptUnencrypted, DecryptCtr, Decrypt
  <2> QED BY <2>1, <2>2 DEF OutputInv, OutputIsCenc, Returned
<1>2. CASE GetRightKeyFails \/ GetRightKey \/ SetKeyFails
  <2>1. pc' = "setkey" \/ (pc' = "return" /\ dataSize' = 0)
    BY <1>2 DEF GetRightKeyFails, GetRightKey, SetKeyFails, StageInv
  <2> QED BY <2>1 DEF OutputInv, OutputIsCenc, Returned
<1>3. CASE SetKey
  <2>1. /\ pc' = "erase" /\ UNCHANGED <<sample, ivGiven, out, wrapped>>
        /\ GoodKey(wrapped) => schedule' = "content"
    BY <1>3 DEF SetKey
  <2> QED BY <2>1, OutputKept DEF OutputInv, OutputIsCenc, Returned
<1>4. CASE EraseKey
  <2>1. /\ pc = "erase"
        /\ pc' = "clear" \/ (pc' = "finish" /\ dataSize' = 0)
        /\ UNCHANGED <<sample, ivGiven, out, wrapped, schedule>>
    BY <1>4 DEF EraseKey
  <2> QED BY <2>1, OutputKept DEF OutputInv, OutputIsCenc, Returned
<1>5. CASE CopyClear
  <2>1. /\ pc = "clear" /\ pc' = IF Encrypted > 0 THEN "block" ELSE "finish"
        /\ out' = [j \in DOMAIN out |-> IF j < Clear THEN Plain ELSE out[j]]
        /\ pos' = Clear
        /\ UNCHANGED <<sample, ivGiven, wrapped, schedule, dataSize>>
    BY <1>5 DEF CopyClear
  <2>2. /\ dataSize = Clear + Encrypted /\ Clear \in Nat /\ Encrypted \in Nat
        /\ out = Unwritten
    BY <2>1, FirstSubSample DEF StageInv, LoopInv, Clear, Encrypted
  <2>3. \A j \in 0..MaxBytes - 1 :
          out'[j] = IF j < Clear THEN Plain ELSE Untouched
    BY <2>1, <2>2 DEF Unwritten
  <2>4. \A j \in 0..MaxBytes - 1 : j < Clear => Cenc(j)' = Plain
    BY <2>1 DEF Cenc, Clear
  <2>5. \A j \in 0..MaxBytes - 1 :
          out'[j] = IF j < Clear THEN Cenc(j)' ELSE Untouched
    BY <2>3, <2>4
  <2>6. pc' = "finish" => dataSize = Clear
    BY <2>1, <2>2
  <2>7. GoodKey(wrapped)' <=> GoodKey(wrapped)
    BY <2>1 DEF GoodKey, UpdateOut, FinalOut
  <2> HIDE DEF Clear
  <2>8. DecryptedTo(pos)' /\ (pc' = "finish" => DecryptedTo(dataSize)')
    BY <2>1, <2>5, <2>6 DEF DecryptedTo
  <2>9. GoodKey(wrapped)' => schedule' = "content"
    BY <2>1, <2>7 DEF OutputInv
  <2>10. pc' \in {"block", "finish"}
    BY <2>1
  <2> QED BY <2>8, <2>9, <2>10 DEF OutputInv, OutputIsCenc, Returned
<1>6. CASE DecryptBlock
  <2>1. /\ pc = "block" /\ pos < dataSize /\ pc' = "block"
        /\ out' = [j \in DOMAIN out |->
                      IF j \in pos..(pos + AES_BLOCK_SIZE - 1)
                      THEN <<schedule, iv, j - pos>> ELSE out[j]]
        /\ pos' = pos + AES_BLOCK_SIZE
        /\ UNCHANGED <<sample, ivGiven, wrapped, schedule>>
    BY <1>6 DEF DecryptBlock
  <2>2. /\ pos - Clear \in Nat /\ Clear \in Nat /\ pos \in Nat
        /\ (pos - Clear) % AES_BLOCK_SIZE = 0
        /\ iv = (ivGiven + Blocks) % CounterModulus
    BY <2>1, RoundInSample DEF LoopInv
  <2>3. GoodKey(wrapped)' <=> GoodKey(wrapped)
    BY <2>1 DEF GoodKey, UpdateOut, FinalOut
  <2>4. \A j \in 0..MaxBytes - 1 : Cenc(j)' = Cenc(j)
    BY <2>1 DEF Cenc, Clear
  <2>5. ASSUME GoodKey(wrapped), NEW j \in 0..MaxBytes - 1
        PROVE  out'[j] = IF j < pos' THEN Cenc(j)' ELSE Untouched
    <3>1. schedule = "content" /\ DecryptedTo(pos)
      BY <2>1, <2>5 DEF OutputInv
    <3>2. DOMAIN out = 0..MaxBytes - 1
      BY DEF TypeOK
    <3>3. CASE j < pos
      <4>1. out'[j] = out[j] /\ j < pos'
        BY <2>1, <2>2, <3>2, <3>3
      <4> QED BY <2>4, <3>1, <3>3, <4>1 DEF DecryptedTo
    <3>4. CASE j >= pos'
      <4>1. out'[j] = out[j] /\ ~(j < pos) /\ ~(j < pos')
        BY <2>1, <2>2, <3>2, <3>4
      <4> QED BY <3>1, <4>1 DEF DecryptedTo
    <3>5. CASE j >= pos /\ j < pos'
      <4> DEFINE d == j - pos
                 x == pos - Clear
      <4>1. /\ d \in 0..AES_BLOCK_SIZE - 1 /\ x \in Nat /\ j - Clear = x + d
            /\ ~(j < Clear) /\ j \in pos..(pos + AES_BLOCK_SIZE - 1)
        BY <2>1, <2>2, <3>5
      <4>2. out'[j] = <<"content", (ivGiven + Blocks) % CounterModulus, d>>
        BY <2>1, <2>2, <3>1, <3>2, <4>1
      <4> HIDE DEF d
      <4>3. (x + d) \div AES_BLOCK_SIZE = Blocks /\ (x + d) % AES_BLOCK_SIZE = d
        BY <2>2, <4>1, WithinBlock DEF Blocks
      <4> HIDE DEF x
      <4>4. (j - Clear) \div AES_BLOCK_SIZE = Blocks
            /\ (j - Clear) % AES_BLOCK_SIZE = d
        BY <4>1, <4>3
      <4>5. Cenc(j) = <<"content", (ivGiven + Blocks) % CounterModulus, d>>
        BY <4>1, <4>4 DEF Cenc
      <4> QED BY <2>4, <3>5, <4>2, <4>5
    <3> QED BY <2>1, <2>2, <3>3, <3>4, <3>5
  <2>6. GoodKey(wrapped)' => DecryptedTo(pos)' /\ schedule' = "content"
    BY <2>1, <2>3, <2>5 DEF DecryptedTo, OutputInv
  <2> QED BY <2>1, <2>6 DEF OutputInv, OutputIsCenc, Returned
<1>7. CASE BlocksDone
  <2>1. /\ pc = "block" /\ pc' = "finish" /\ pos >= dataSize
        /\ UNCHANGED <<sample, ivGiven, out, wrapped, dataSize>>
    BY <1>7 DEF BlocksDone
  <2>2. pos = dataSize
    BY <2>1 DEF LoopInv, TypeOK
  <2> QED BY <2>1, <2>2, OutputKept DEF OutputInv, OutputIsCenc, Returned,
                                        DecryptedTo
<1>8. CASE FreeKey
  <2>1. /\ pc = "finish" /\ pc' = "return"
        /\ UNCHANGED <<sample, ivGiven, out, wrapped, dataSize>>
    BY <1>8 DEF FreeKey
  <2> QED BY <2>1, OutputKept DEF OutputInv, OutputIsCenc, Returned, DecryptedTo
<1>9. CASE Return
  <2>1. /\ pc = "return" /\ pc' = "idle" /\ ret' = dataSize
        /\ UNCHANGED <<sample, ivGiven, out, wrapped, dataSize>>
    BY <1>9 DEF Return
  <2>2. DOMAIN out' = 0..MaxBytes - 1
    BY DEF TypeOK
  <2> QED BY <2>1, <2>2, OutputKept DEF OutputInv, OutputIsCenc, Returned,
                                        DecryptedTo
<1>10. CASE UNCHANGED vars
  <2>1. /\ UNCHANGED <<pc, schedule, pos, dataSize, ret, mode>>
        /\ UNCHANGED <<sample, ivGiven, out, wrapped>>
    BY <1>10 DEF vars
  <2>2. DOMAIN out = 0..MaxBytes - 1
    BY DEF TypeOK
  <2> QED BY <2>1, <2>2, OutputKept DEF OutputInv, OutputIsCenc, Returned,
                                        DecryptedTo
<1> QED
  BY <1>1, <1>2, <1>3, <1>4, <1>5, <1>6, <1>7, <1>8, <1>9, <1>10
  DEF Next, KernelStep

-----------------------------------------------------------------------------
CallInv == TypeOK /\ StageInv /\ LoopInv /\ OutputInv

LEMMA CallInvariant == Spec => []CallInv
<1>1. Init => CallInv
  <2> SUFFICES ASSUME Init PROVE CallInv
    OBVIOUS
  <2>1. TypeOK
    <3>1. 0 \in 0..CounterModulus - 1 /\ 0 \in 0..2 * MaxBytes
          /\ Unwritten \in [0..MaxBytes - 1 -> OutByte]
      BY SizesAssumption DEF Unwritten, OutByte
    <3> QED BY <3>1 DEF Init, TypeOK, Modes, Schedules
  <2> QED BY <2>1 DEF Init, CallInv, StageInv, LoopInv, OutputInv, OutputIsCenc,
                      Returned
<1>2. CallInv /\ [Next]_vars => CallInv'
  BY TypeOKInductive, StageInvInductive, LoopInvInductive, OutputInvInductive
  DEF CallInv
<1> QED BY <1>1, <1>2, PTL DEF Spec

(* Type correctness: the counter is a block, the output bytes come from    *)
(* where the model says, the loop index and the sizes are bounded.         *)
THEOREM TypeCorrect == Spec => []TypeOK
<1>1. CallInv => TypeOK
  BY DEF CallInv
<1> QED BY CallInvariant, <1>1, PTL

(* THEOREM: a decrypt that succeeds with the whole content key has written *)
(* what common encryption defines and nothing past it: for every block     *)
(* size and counter modulus, every split of the sample in clear and        *)
(* encrypted bytes, and every counter that an earlier call left behind.    *)
THEOREM DecryptIsCenc == Spec => []OutputIsCenc
<1>1. CallInv => OutputIsCenc
  BY DEF CallInv, OutputInv
<1> QED BY CallInvariant, <1>1, PTL
=============================================================================
