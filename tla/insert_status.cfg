\* insertSecureRecord when the INSERT statement fails.
SPECIFICATION Spec
CONSTANTS
  movie = movie  perso = perso  kid1 = kid1  kid2 = kid2
  kc1 = kc1  kc2 = kc2  empty = empty  h1 = h1  h2 = h2
  w = w  r = r  None = None
  Keys = {movie, perso}
  PersoKey = perso
  KeyIds = {kid1, kid2}
  ContentKeys = {kc1, kc2, empty}
  EmptyKey = empty
  Processes = {"host"}
  Threads = {w}
  ProcOf <- OneThread
  Calls <- OneThreadCalls
  Handles = {h1, h2}
  Buffers <- TwoRights
  PersoTags = {}
  Damaged = {}
  Faults = {"insert.step"}
  Crashable = {}
  MaxRowid = 4
  MaxLeaked = 1
  ByteValues = 3  AES_BLOCK_SIZE = 2
SYMMETRY HandleSymmetry
INVARIANTS AckedIsStored
