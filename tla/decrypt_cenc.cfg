\* Every split of a sample into clear and encrypted bytes, with protected keys
\* of any size and padding; a sample of several subsamples is left to
\* decrypt_subsamples.
SPECIFICATION FairSpec
CONSTANTS
  AES_BLOCK_SIZE = 2
  CounterModulus = 4
  Samples <- OneSubSample
  WrappedKeys <- AnyKey
  MaxBytes = 8
  Faults = {"setkey"}
INVARIANTS OutputIsCenc FailureIsReported KeyFreed KeyErased
PROPERTIES DecryptReturns
