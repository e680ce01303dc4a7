SPECIFICATION Spec
CONSTANTS
  EmptyStatements = TRUE
  MaxExpr = 1
  MaxProg = 4
  ExprTokens = {"name", "num", "reg", "-", "*", "^", "=", "++", "(", ")", "[", "]", ","}
  ProgTokens = {"e", "if", "loop", "{", "}", ";", "newline", "define", "auto", "break", "return", "quit"}
INVARIANTS
  ProgramsParsed
CHECK_DEADLOCK FALSE
