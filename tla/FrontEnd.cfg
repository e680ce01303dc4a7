SPECIFICATION FrontSpec
CONSTANTS
  EmptyStatements = FALSE
  MaxExpr = 6
  MaxProg = 7
  ExprTokens = {"name", "num", "reg", "-", "*", "^", "=", "++", "(", ")", "[", "]", ","}
  ProgTokens = {"e", "if", "loop", "{", "}", ";", "newline", "define", "auto", "break", "return", "quit"}
  Alphabets <- CharSets
  MaxChars <- CharLengths
INVARIANTS
  ExpressionsParsed
  ProgramsParsed
  StatementsKept
  CutsKeepStatements
  TextRead
  CutsKeepTokens
CHECK_DEADLOCK FALSE
