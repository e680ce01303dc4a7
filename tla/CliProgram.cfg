SPECIFICATION CliFairSpec
CONSTANTS
  Lines <- CliLines
  MaxLines = 3
  Sources <- SomeSources
  Policies = {"Allow", "Warn", "Reject"}
  Options = {"-s", "-w", "invalid"}
  MaxArgs = 2
  Faults = {"interrupt", "read"}
INVARIANTS
  ExitStatusTells
  InputRunToEnd
  StrictRefuses
  InterruptedUnitDropped
  LinesCounted
PROPERTIES
  QuitIsFinal
  ProgramEnds
CHECK_DEADLOCK FALSE
