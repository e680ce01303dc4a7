SPECIFICATION Spec
CONSTANTS
  Chars = {"stmt", "open", "close", "quote", "quit", "panic", "backslash"}
  REPL_MAX_LINE = 2
  MaxRows = 5
  MaxShown = 3
INVARIANTS
  ExecutedIsShown
  GroupsRunOnce
  NumbersFollowRows
CHECK_DEADLOCK FALSE
