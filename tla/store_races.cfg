\* Two threads of a host process on the same mDatabaseConnection, on a storage that damages
\* rows, under the fairness of their scheduling.
SPECIFICATION FairSpec
CONSTANTS
  movie = movie  perso = perso  kid1 = kid1  kid2 = kid2
  kc1 = kc1  kc2 = kc2  empty = empty  h1 = h1  h2 = h2
  w = w  r = r  None = None
  Keys = {movie, perso}
  PersoKey = perso
  KeyIds = {kid1, kid2}
  ContentKeys = {kc1, kc2, empty}
  EmptyKey = empty
  Processes = {"host"}
  Threads = {w, r}
  ProcOf <- OneHostTwo
  Calls <- HostTwoCalls
  Handles = {h1, h2}
  Buffers <- RightAndForgery
  PersoTags <- PersoTag
  Damaged <- DamagedRight
  Faults = {"delete.schema", "delete.step", "insert.prepare", "insert.step", "select.step"}
  Crashable = {}
  MaxRowid = 3
  MaxLeaked = 1
  ByteValues = 3  AES_BLOCK_SIZE = 2
INVARIANTS StatementKeepsConnection AnswerAuthentic TableAuthentic RecordsFreed
PROPERTIES OnlyIssuedSavesChangeRows CallsReturn
