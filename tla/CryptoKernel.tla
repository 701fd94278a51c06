----------------------------- MODULE CryptoKernel -----------------------------
(***************************************************************************)
(* Decryption of a sample: NvCryptoPlugin::decrypt, the crypto kernel's    *)
(* decrypt, and the unprotection of the content key in                     *)
(* DrmKernel_getRightKey.                                                  *)
(*                                                                         *)
(* Bytes are abstracted to where they come from.  An output byte is        *)
(* Untouched, Plain (the source byte), or <<s, n, o>>: the source byte     *)
(* combined with byte o of the keystream block of counter n under key      *)
(* schedule s.  The key buffer is the set of its indices that hold content *)
(* key bytes.  Sizes are those of buffers in memory: sums do not wrap.     *)
(***************************************************************************)
EXTENDS Naturals, Sequences, FiniteSets

CONSTANTS
  AES_BLOCK_SIZE,
  CounterModulus,   \* values of the CTR counter block (2^128 in the code)
  Samples,          \* the subsample arrays callers present
  WrappedKeys,      \* protected keys of the valid rights: size and padding
  MaxBytes,         \* bound: size of the output buffer
  Faults            \* "setkey": AES_set_encrypt_key may fail

SubSample == [clear : 0..MaxBytes, encrypted : 0..MaxBytes]

ASSUME SizesAssumption ==
  /\ AES_BLOCK_SIZE \in Nat \ {0}
  /\ CounterModulus \in Nat \ {0}
  /\ MaxBytes \in Nat
  /\ Samples \subseteq Seq(SubSample) \ {<<>>}
  /\ WrappedKeys \subseteq [size : Nat, pad : Nat]

VARIABLES
  pc,        \* what the call does next
  sample,    \* the subSamples array, empty for a NULL pointer
  mode,      \* the encryption mode of the call
  iv,        \* the caller's iv array, advanced in place
  ivGiven,   \* history: its value when the call began
  wrapped,   \* the protected key of the right found
  keyBytes,  \* indices of the key buffer that hold content key bytes
  keyHeld,   \* the key buffer is allocated
  schedule,  \* the AES_KEY: "none", "content", "wrong" or "zero"
  dataSize,  \* the return value of the kernel
  pos,       \* the loop index i
  out,       \* the output buffer
  errorMsg,  \* *errorDetailMsg: "unset", "empty" or "error"
  ret        \* the value the plugin returned

vars == <<pc, sample, mode, iv, ivGiven, wrapped, keyBytes, keyHeld, schedule,
          dataSize, pos, out, errorMsg, ret>>

Modes == {"unencrypted", "ctr", "other"}
NoWrapped == [size |-> 0, pad |-> 0]
Schedules == {"none", "content", "wrong", "zero"}
Untouched == <<"none">>
Plain == <<"clear">>
OutByte == {Untouched, Plain} \union
           (Schedules \X (0..CounterModulus - 1) \X (0..AES_BLOCK_SIZE - 1))

TypeOK ==
  /\ pc \in {"idle", "getkey", "setkey", "erase", "clear", "block", "finish",
             "return"}
  /\ sample \in Samples \union {<<>>}
  /\ mode \in Modes
  /\ {iv, ivGiven} \subseteq 0..CounterModulus - 1
  /\ wrapped \in WrappedKeys \union {NoWrapped}
  /\ keyBytes \in SUBSET Nat
  /\ keyHeld \in BOOLEAN
  /\ schedule \in Schedules
  /\ {dataSize, pos, ret} \subseteq 0..2 * MaxBytes
  /\ out \in [0..MaxBytes - 1 -> OutByte]
  /\ errorMsg \in {"unset", "empty", "error"}

Unwritten == [j \in 0..MaxBytes - 1 |-> Untouched]

Init ==
  /\ pc = "idle"
  /\ sample = <<>>
  /\ mode = "other"
  /\ iv = 0 /\ ivGiven = 0
  /\ wrapped = NoWrapped
  /\ keyBytes = {} /\ keyHeld = FALSE
  /\ schedule = "none"
  /\ dataSize = 0 /\ pos = 0 /\ ret = 0
  /\ out = Unwritten
  /\ errorMsg = "unset"

(* Only the first subsample is copied into localSubSamples.                *)
Clear == sample[1].clear
Encrypted == sample[1].encrypted

-----------------------------------------------------------------------------
(* DrmKernel_getRightKey: the padding of the protected key is on, so       *)
(* EVP_DecryptUpdate holds the last block of a whole number of blocks back *)
(* and EVP_DecryptFinal writes it, unpadded, over the START of the buffer. *)

UpdateOut(k) ==
  LET whole == k.size - (k.size % AES_BLOCK_SIZE)
  IN IF k.size > 0 /\ whole = k.size THEN whole - AES_BLOCK_SIZE ELSE whole

FinalOut(k) ==
  IF k.size > 0 /\ k.size % AES_BLOCK_SIZE = 0 /\ k.pad \in 1..AES_BLOCK_SIZE
  THEN AES_BLOCK_SIZE - k.pad ELSE 0

KeyLen(k) == UpdateOut(k) + FinalOut(k)

BytesWritten(k) ==
  {j \in 0..k.size : j < UpdateOut(k) \/ j < FinalOut(k)}

(* The first block of the buffer is the first block of the content key.    *)
GoodKey(k) == UpdateOut(k) >= AES_BLOCK_SIZE /\ FinalOut(k) = 0

-----------------------------------------------------------------------------
(* NvCryptoPlugin::decrypt.                                                *)

Decrypt(s, m, start) ==
  /\ pc = "idle"
  /\ pc' = start
  /\ sample' = s
  /\ mode' = m
  /\ \E v \in {0, iv} : iv' = v /\ ivGiven' = v  \* a fresh or reused array
  /\ schedule' = "none"
  /\ dataSize' = 0 /\ pos' = 0 /\ ret' = 0
  /\ errorMsg' = "unset"
  /\ wrapped' = NoWrapped
  /\ UNCHANGED <<keyBytes, keyHeld>>

(* A NULL subsample pointer or an unknown mode: nothing is written.        *)
DecryptNothing ==
  /\ \/ \E m \in Modes : Decrypt(<<>>, m, "idle")
     \/ \E s \in Samples : Decrypt(s, "other", "idle")
  /\ out' = Unwritten

DecryptUnencrypted ==
  \E s \in Samples :
    /\ pc = "idle" /\ pc' = "idle"
    /\ sample' = s
    /\ mode' = "unencrypted"
    /\ ivGiven' = iv
    /\ ret' = s[1].clear
    /\ out' = [j \in 0..MaxBytes - 1 |->
                 IF j < s[1].clear THEN Plain ELSE Untouched]
    /\ errorMsg' = "unset"
    /\ wrapped' = NoWrapped
    /\ schedule' = "none"
    /\ dataSize' = 0 /\ pos' = 0
    /\ UNCHANGED <<iv, keyBytes, keyHeld>>

DecryptCtr ==
  /\ \E s \in Samples : Decrypt(s, "ctr", "getkey")
  /\ out' = Unwritten

(* CryptoKernel_NvCryptoPlugin_decrypt.                                    *)

GetRightKeyFailsSilently ==    \* mutant: the error message is not set
  /\ pc = "getkey" /\ pc' = "return"
  /\ UNCHANGED <<sample, mode, iv, ivGiven, wrapped, keyBytes, keyHeld,
                 schedule, dataSize, pos, out, errorMsg, ret>>

GetRightKeyFails ==
  /\ pc = "getkey" /\ pc' = "return"
  /\ errorMsg' = "error"
  /\ UNCHANGED <<sample, mode, iv, ivGiven, wrapped, keyBytes, keyHeld,
                 schedule, dataSize, pos, out, ret>>

GetRightKey ==
  /\ pc = "getkey" /\ pc' = "setkey"
  /\ \E k \in WrappedKeys :
       /\ wrapped' = k
       /\ keyBytes' = BytesWritten(k)
  /\ keyHeld' = TRUE
  /\ UNCHANGED <<sample, mode, iv, ivGiven, schedule, dataSize, pos, out,
                 errorMsg, ret>>

(* AES_set_encrypt_key reads AES_BLOCK_SIZE bytes of the key buffer.       *)
SetKey ==
  /\ pc = "setkey" /\ pc' = "erase"
  /\ schedule' = IF GoodKey(wrapped) THEN "content" ELSE "wrong"
  /\ UNCHANGED <<sample, mode, iv, ivGiven, wrapped, keyBytes, keyHeld,
                 dataSize, pos, out, errorMsg, ret>>

LastByteLeft ==    \* mutant: bzero over one byte less
  {j \in keyBytes : j + 1 >= KeyLen(wrapped)}

(* What bzero over the length that getRightKey returned leaves.            *)
LeftAfterErase == {j \in keyBytes : j >= KeyLen(wrapped)}

(* What AES_set_encrypt_key makes of the key buffer once it is zeroed.     *)
ZeroSchedule == IF KeyLen(wrapped) >= AES_BLOCK_SIZE THEN "zero" ELSE "wrong"

SetKeyFailsUnfreed ==    \* mutant: the key is not freed on this path
  /\ pc = "setkey" /\ pc' = "return"
  /\ "setkey" \in Faults
  /\ keyBytes' = LeftAfterErase
  /\ schedule' = ZeroSchedule
  /\ errorMsg' = "error"
  /\ UNCHANGED <<sample, mode, iv, ivGiven, wrapped, keyHeld, dataSize, pos,
                 out, ret>>

SetKeyFails ==
  /\ pc = "setkey" /\ pc' = "return"
  /\ "setkey" \in Faults
  /\ keyBytes' = LeftAfterErase
  /\ schedule' = ZeroSchedule
  /\ keyHeld' = FALSE
  /\ errorMsg' = "error"
  /\ UNCHANGED <<sample, mode, iv, ivGiven, wrapped, dataSize, pos, out, ret>>

EraseKey ==
  LET size == Clear + Encrypted
      refused == size = 0 \/ Encrypted % AES_BLOCK_SIZE # 0
  IN /\ pc = "erase"
     /\ keyBytes' = LeftAfterErase
     /\ dataSize' = IF refused THEN 0 ELSE size
     /\ pc' = IF refused THEN "finish" ELSE "clear"
     /\ errorMsg' = IF refused THEN "error" ELSE errorMsg
     /\ UNCHANGED <<sample, mode, iv, ivGiven, wrapped, keyHeld, schedule, pos,
                    out, ret>>

ClearOverwritten ==    \* mutant: the blocks start at the first byte
  /\ pc = "clear"
  /\ out' = [j \in DOMAIN out |-> IF j < Clear THEN Plain ELSE out[j]]
  /\ pos' = 0
  /\ pc' = IF Encrypted > 0 THEN "block" ELSE "finish"
  /\ UNCHANGED <<sample, mode, iv, ivGiven, wrapped, keyBytes, keyHeld,
                 schedule, dataSize, errorMsg, ret>>

CopyClear ==
  /\ pc = "clear"
  /\ out' = [j \in DOMAIN out |-> IF j < Clear THEN Plain ELSE out[j]]
  /\ pos' = Clear
  /\ pc' = IF Encrypted > 0 THEN "block" ELSE "finish"
  /\ UNCHANGED <<sample, mode, iv, ivGiven, wrapped, keyBytes, keyHeld,
                 schedule, dataSize, errorMsg, ret>>

(* The counter block after one AES_ctr128_encrypt.                         *)
NextCounter(n) == (n + 1) % CounterModulus

BlockNotAdvanced ==    \* mutant: the loop does not move its index
  /\ pc = "block"
  /\ pos < dataSize
  /\ iv' = NextCounter(iv)
  /\ UNCHANGED <<pc, sample, mode, ivGiven, wrapped, keyBytes, keyHeld,
                 schedule, dataSize, pos, out, errorMsg, ret>>

(* AES_ctr128_encrypt of one block: the counter in the caller's iv array   *)
(* is used and incremented.                                                *)
DecryptBlock ==
  /\ pc = "block"
  /\ pos < dataSize
  /\ out' = [j \in DOMAIN out |->
               IF j \in pos..(pos + AES_BLOCK_SIZE - 1)
               THEN <<schedule, iv, j - pos>> ELSE out[j]]
  /\ iv' = NextCounter(iv)
  /\ pos' = pos + AES_BLOCK_SIZE
  /\ UNCHANGED <<pc, sample, mode, ivGiven, wrapped, keyBytes, keyHeld,
                 schedule, dataSize, errorMsg, ret>>

BlocksDone ==
  /\ pc = "block" /\ pc' = "finish"
  /\ pos >= dataSize
  /\ errorMsg' = "empty"
  /\ UNCHANGED <<sample, mode, iv, ivGiven, wrapped, keyBytes, keyHeld,
                 schedule, dataSize, pos, out, ret>>

(* The key schedule is recomputed from the zeroed key, the buffer freed.   *)
FreeKey ==
  /\ pc = "finish" /\ pc' = "return"
  /\ schedule' = ZeroSchedule
  /\ keyHeld' = FALSE
  /\ UNCHANGED <<sample, mode, iv, ivGiven, wrapped, keyBytes, dataSize, pos,
                 out, errorMsg, ret>>

Return ==
  /\ pc = "return" /\ pc' = "idle"
  /\ ret' = dataSize
  /\ UNCHANGED <<sample, mode, iv, ivGiven, wrapped, keyBytes, keyHeld,
                 schedule, dataSize, pos, out, errorMsg>>

KernelStep ==
  \/ GetRightKeyFails \/ GetRightKey \/ SetKey \/ SetKeyFails \/ EraseKey
  \/ CopyClear \/ DecryptBlock \/ BlocksDone \/ FreeKey \/ Return

Next == DecryptNothing \/ DecryptUnencrypted \/ DecryptCtr \/ KernelStep

Spec == Init /\ [][Next]_vars

(* A call runs on its caller's thread until it returns.                    *)
FairSpec == Spec /\ WF_vars(KernelStep)

-----------------------------------------------------------------------------
(* PROPERTIES                                                              *)

Returned == pc = "idle" /\ mode = "ctr" /\ sample # <<>>

(* What common encryption says of byte j of a subsample: the clear bytes   *)
(* first, then AES-CTR blocks counted from the iv the caller gave.         *)
Cenc(j) ==
  IF j < Clear THEN Plain
  ELSE <<"content",
         (ivGiven + (j - Clear) \div AES_BLOCK_SIZE) % CounterModulus,
         (j - Clear) % AES_BLOCK_SIZE>>

(* With the whole content key, a successful decrypt has written exactly    *)
(* the bytes it counts, each as common encryption defines it, whatever the *)
(* split, the counter's wrap and the value an earlier call left in iv.     *)
OutputIsCenc ==
  Returned /\ ret > 0 /\ GoodKey(wrapped) =>
    \A j \in DOMAIN out : out[j] = IF j < ret THEN Cenc(j) ELSE Untouched

(* "AA1: zero content key": when decrypt has freed the key buffer neither  *)
(* it nor the key schedule holds the content key, on every path, whatever  *)
(* the size of the protected key.                                          *)
KeyErased == ~keyHeld => keyBytes = {} /\ schedule # "content"

(* The key buffer that getRightKey allocates is freed on every path.       *)
KeyFreed == pc = "idle" => ~keyHeld

(* A kernel call that decrypts nothing says why, and one that decrypts     *)
(* leaves no error: callers test either.                                   *)
FailureIsReported == Returned => (ret = 0 <=> errorMsg = "error")

(* Every call returns: the block loop reaches the end of the sample.       *)
DecryptReturns == pc # "idle" ~> pc = "idle"

(* "sub-samples array" and "number of sub-samples in this sample": a       *)
(* successful decrypt has processed the bytes of all of them.              *)
Total[n \in Nat] ==
  IF n = 0 THEN 0 ELSE Total[n - 1] + sample[n].clear + sample[n].encrypted
WholeSampleDecrypted == Returned /\ ret > 0 => ret = Total[Len(sample)]
=============================================================================
