SPECIFICATION FairSpec
CONSTANTS
  Scalars = {}
  Arrays = {}
  Functions = {"f", "g"}
  Headers <- NoLocals
  Registers = {"ibase"}
  RegMin <- IbaseMin
  RegMax <- IbaseMax
  RegInit <- IbaseMin
  DimMax = 1
  Values <- SignedValues
  Main = Main
  MaxDepth = 3
  MaxNest = 2
  MaxOperands = 2
  LoopForms = {FALSE, TRUE}
INVARIANTS
  CallStackMatches
  ErrorAttributed
PROPERTIES
  FailureReported
  JumpsTaken
