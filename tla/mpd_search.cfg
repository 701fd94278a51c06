\* Every description of up to 6 elements, and those of up to 9 that extend a
\* protected set, with and without white space.
SPECIFICATION FairSpec
CONSTANTS
  SmallestGrowth = 5
  ProtectedGrowth = 3
  Documents <- MCDocuments
INVARIANTS TypeOK AcceptedIsProtected AcceptedMediaSupported SupportedIsAccepted
PROPERTIES PrettyPrintedEnds
