\* Descriptions of up to 6 elements, with and without white space.
SPECIFICATION FairSpec
CONSTANTS
  SmallestGrowth = 5
  ProtectedGrowth = 0
  Documents <- MCDocuments
PROPERTIES CanHandleAnswers
