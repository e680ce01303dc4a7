SPECIFICATION Spec
CONSTANTS
  Lines <- UnitLines
  MaxLines = 3
  Policies = {"Allow", "Warn"}
INVARIANTS
  CutsKeepPrograms
PROPERTIES
  ImplementsUnitStream
CHECK_DEADLOCK FALSE
