\* Registrations and acquisitions with attributes whose names are prefixes of one
\* another, failing allocations and a process that dies at every point.
SPECIFICATION Spec
CONSTANTS
  NameOrder <- SortedNames
  PERSO <- Perso
  UNIQUE_ID <- UniqueId
  Tags <- AnyTag
  AuthenticTags <- TwoDevices
  MimeTypes = {"nagra", ""}
  EmptyMime = ""
  DrmInfos <- AnyDrmInfo
  Requests <- AnyRequest
  None = None
INVARIANTS TypeOK RegisteredAsAsked AcquiredIsRegistered AnswerIsOfTheCall
INVARIANTS ConversionIsWhole
