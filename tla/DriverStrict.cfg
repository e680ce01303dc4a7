SPECIFICATION Spec
CONSTANTS
  Lines <- StrictLines
  MaxLines = 2
  Policies = {"Reject"}
INVARIANTS
  ErrorsCounted
CHECK_DEADLOCK FALSE
