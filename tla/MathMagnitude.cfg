SPECIFICATION MathSpec
CONSTANTS
  BC_SCALE_MAX = 2
  WordMax = 6
  MaxExponent = 3
  Literals <- SomeLiterals
  Bases = {2, 10, 16}
  MaxCoeff = 40
  MaxStored = 5
  GuardDigits = 1
  SeriesGuard = 1
  LongMax = 12
  MaxTerms = 20
INVARIANT
  AnyMagnitude
