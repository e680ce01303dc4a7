SPECIFICATION Spec
CONSTANTS
  Scalars = {"x"}
  Arrays = {"m"}
  Functions = {"f"}
  Headers <- ScopingHeaders
  Registers = {}
  RegMin <- NoRegisters
  RegMax <- NoRegisters
  RegInit <- NoRegisters
  DimMax = 1
  Values = {0, 1}
  Main = Main
  MaxDepth = 3
  MaxNest = 2
  MaxOperands = 0
  LoopForms = {}
INVARIANTS
  ScopesBalanced
PROPERTIES
  ImplementsScope
