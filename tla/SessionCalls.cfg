SPECIFICATION SessionSpec
CONSTANTS
  Lines <- SessionLines
  MaxLines = 2
  Policies = {"Allow", "Warn", "Reject"}
  Codes <- SessionCodes
  Writes <- StatementWrites
  DiagnosticLen = 3
  BufSizes = {0, 4}
  POSIX_WRAP_COL_LIMIT = 3
  MaxCalls = 4
INVARIANTS
  LinesWrapped
  StrictSession
PROPERTIES
  ImplementsCalculator
CHECK_DEADLOCK FALSE
