\* Every string of up to 5 characters for UUIDs of two bytes; queries about UUIDs
\* whose bytes differ by less than, exactly and more than what an int8_t holds.
SPECIFICATION Spec
CONSTANTS
  Ends <- TwoGroups
  Schemes <- TwoSchemes
  Texts <- ShortTexts
  Uuids <- SomeUuids
  Garbage <- SomeGarbage
INVARIANTS TypeOK InverseOfBin2Str ReadsWithinString SupportedExactly
  CmpIsAntisymmetric
CHECK_DEADLOCK FALSE
