SPECIFICATION Spec

CONSTANTS
  WordBits = 4
  Digits = 1
  None = None
  Invalid = Invalid
  Anyone = Anyone
  c1 = c1
  c2 = c2
  Calls = {c1, c2}
  HoldingSeeds <- Seeds
  CoilSeeds <- NoCoils
  Faults <- Failing
  FieldAt <- At
  Asks <- Asked
  Changes <- Changing
  MaxOthers = 1

INVARIANTS
  WritesAreReportedOnce

PROPERTIES
  NumbersReadBack
  ValuesReadBack
  NothingElseIsWritten
  OtherBitsAreKept

CHECK_DEADLOCK FALSE
