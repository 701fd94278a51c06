\* A sample of two subsamples.
SPECIFICATION FairSpec
CONSTANTS
  AES_BLOCK_SIZE = 2
  CounterModulus = 4
  Samples <- TwoSubSamples
  WrappedKeys <- PaddedKey
  MaxBytes = 8
  Faults = {"setkey"}
INVARIANTS WholeSampleDecrypted
