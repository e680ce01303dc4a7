SPECIFICATION Spec
CONSTANTS
  Scalars = {"x"}
  Arrays = {}
  Functions = {"f"}
  Headers <- OneNameHeaders
  Registers = {}
  RegMin <- NoRegisters
  RegMax <- NoRegisters
  RegInit <- NoRegisters
  DimMax = 1
  Values = {0, 1}
  Main = Main
  MaxDepth = 2
  MaxNest = 3
  MaxOperands = 1
  LoopForms = {FALSE, TRUE}
INVARIANTS
  BreakConfined
  StoresWhereResolved
  CleanBetweenUnits
PROPERTIES
  JumpsGoStraight
