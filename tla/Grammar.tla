------------------------------ MODULE Grammar ------------------------------
(***************************************************************************)
(* The recursive descent parser of parser.rs as operators on a sequence of *)
(* tokens, and the grammar it is meant to accept.                          *)
(*                                                                         *)
(* Expressions and statements are parsed apart from each other: within a   *)
(* program the token "e" is a whole expression, "if" is `if` with its      *)
(* condition, "loop" is `while` or `for` with its header, "define" is a    *)
(* function's name with its parameters and "auto" an auto list.  "-", "*", *)
(* "=" and "++" stand for the other operators of their classes, "reg" for  *)
(* the registers and, before a parenthesis, for length, sqrt and scale.    *)
(***************************************************************************)
EXTENDS Syntax

CONSTANTS
  ExprTokens,   \* the tokens of expressions
  ProgTokens    \* the tokens of programs

ASSUME GrammarConstantsOK ==
  /\ ExprTokens \subseteq
       {"name", "num", "reg", "-", "*", "^", "=", "++", "(", ")", "[", "]", ","}
  /\ ProgTokens \subseteq
       {"e", "if", "loop", "{", "}", ";", "newline", "define", "auto", "break", "return", "quit"}

VARIABLES
  kind,     \* what is being typed: "expression" or "program" (never changes)
  tokens    \* what has been typed so far

vars == <<kind, tokens>>

Tok(ts, i) == IF i <= Len(ts) THEN ts[i] ELSE "eof"

(* A result of a parsing function: a tree and the next token, or the token it failed at. *)
Got(tree, i) == [why |-> "ok", tree |-> tree, at |-> i]
Fails(i)     == [why |-> "syntax", tree |-> <<>>, at |-> i]
Then(r, F(_, _)) == IF r.why = "ok" THEN F(r.tree, r.at) ELSE r
Eat(ts, t, r) == Then(r, LAMBDA tree, i : IF Tok(ts, i) = t THEN Got(tree, i + 1) ELSE Fails(i))
-----------------------------------------------------------------------------
(* Expressions *)

Precedence(t) ==
  CASE t = "=" -> 1 [] t = "-" -> 2 [] t = "*" -> 3 [] t = "^" -> 4 [] OTHER -> -1

(* Mutant of NextMinPrec: every binary operator is left-associative. *)
NextMinPrecLeft(t) == IF t = "=" THEN 1 ELSE Precedence(t) + 1

NextMinPrec(t) == IF t \in {"=", "^"} THEN Precedence(t) ELSE Precedence(t) + 1

RECURSIVE Expression(_, _, _), Climb(_, _, _, _), ArgumentList(_, _, _)

NamedExpression(ts, i) ==
  CASE Tok(ts, i) = "reg" -> Got(<<"reg">>, i + 1)
    [] Tok(ts, i) = "name" /\ Tok(ts, i + 1) = "[" ->
         Then(Eat(ts, "]", Expression(ts, i + 2, 0)), LAMBDA e, j : Got(<<"index", e>>, j))
    [] Tok(ts, i) = "name" /\ Tok(ts, i + 1) # "[" -> Got(<<"name">>, i + 1)
    [] OTHER -> Fails(i)

(* A named expression with the `++` or the assignment right after it, if there is one. *)
Assignable(ts, i) ==
  Then(NamedExpression(ts, i), LAMBDA target, j :
    CASE Tok(ts, j) = "++" -> Got(<<"post", target>>, j + 1)
      [] Tok(ts, j) = "=" ->
           Then(Expression(ts, j + 1, NextMinPrec("=")),
                LAMBDA e, k : Got(<<"assign", target, e>>, k))
      [] OTHER -> Got(target, j))

Primary(ts, i) ==
  LET t == Tok(ts, i)
      applied == Tok(ts, i + 1) = "("
  IN  CASE t = "num" -> Got(<<"num">>, i + 1)
        [] t = "(" ->
             Then(Eat(ts, ")", Expression(ts, i + 1, 0)), LAMBDA e, j : Got(<<"paren", e>>, j))
        [] t = "reg" /\ applied ->
             Then(Eat(ts, ")", Expression(ts, i + 2, 0)), LAMBDA e, j : Got(<<"builtin", e>>, j))
        [] t = "name" /\ applied ->
             Then(Eat(ts, ")", IF Tok(ts, i + 2) = ")" THEN Got(<<>>, i + 2)
                               ELSE ArgumentList(ts, i + 2, <<>>)),
                  LAMBDA args, j : Got(<<"call", args>>, j))
        [] OTHER -> Assignable(ts, i)

ArgumentList(ts, i, args) ==
  Then(IF <<Tok(ts, i), Tok(ts, i + 1), Tok(ts, i + 2)>> = <<"name", "[", "]">>
       THEN Got(<<"array">>, i + 3) ELSE Expression(ts, i, 0),
       LAMBDA arg, j :
         IF Tok(ts, j) = "," THEN ArgumentList(ts, j + 1, Append(args, arg))
         ELSE Got(Append(args, arg), j))

Prefix(ts, i) ==
  CASE Tok(ts, i) = "-" -> Then(Expression(ts, i + 1, 5), LAMBDA e, j : Got(<<"neg", e>>, j))
    [] Tok(ts, i) = "++" ->
         Then(NamedExpression(ts, i + 1), LAMBDA target, j : Got(<<"pre", target>>, j))
    [] OTHER -> Primary(ts, i)

(* parse_expr_precedence: a prefix, then infix operators of at least min_prec. *)
Expression(ts, i, min_prec) ==
  Then(Prefix(ts, i), LAMBDA left, j : Climb(ts, left, j, min_prec))

Climb(ts, left, i, min_prec) ==
  LET op == Tok(ts, i)
  IN  CASE Precedence(op) < min_prec -> Got(left, i)
        [] Precedence(op) >= min_prec /\ op = "=" -> Fails(i)
        [] OTHER -> Then(Expression(ts, i + 1, NextMinPrec(op)),
                         LAMBDA right, j : Climb(ts, <<"binary", op, left, right>>, j, min_prec))

ParsedExpression(ts) == Eat(ts, "eof", Expression(ts, 1, 0))
-----------------------------------------------------------------------------
(* Programs.  The parser's loop_depth and in_function travel with the place in the tokens. *)

Parser == [why |-> "ok", tree |-> <<>>, at |-> 1, loop_depth |-> 0, in_function |-> FALSE]

Take(p, tree, n)   == [p EXCEPT !.tree = tree, !.at = @ + n]
Stop(p, why)       == [p EXCEPT !.why = why]
Chain(p, F(_))     == IF p.why = "ok" THEN F(p) ELSE p
Expect(ts, p, t)   == IF Tok(ts, p.at) = t THEN Take(p, p.tree, 1) ELSE Stop(p, "syntax")

RECURSIVE Statement(_, _), StatementList(_, _, _), SemicolonList(_, _, _), SkipNewlines(_, _)

(* Mutant of LoopBody: loop_depth stays as it is after the body. *)
LoopBodyStaysIn(ts, p) == Statement(ts, [p EXCEPT !.at = @ + 1, !.loop_depth = @ + 1])

LoopBody(ts, p) ==
  Chain(Statement(ts, [p EXCEPT !.at = @ + 1, !.loop_depth = @ + 1]),
        LAMBDA q : [q EXCEPT !.loop_depth = @ - 1])

(* `return`, `return (e)` or `return e`; it is refused only after it has been parsed. *)
Return(ts, p) ==
  LET next == Tok(ts, p.at + 1)
      q == CASE next = "e" -> Take(p, <<"return", "e">>, 2)
             [] next \in {"newline", ";", "}", "eof"} -> Take(p, <<"return">>, 1)
             [] OTHER -> Stop(Take(p, <<>>, 1), "syntax")
  IN  Chain(q, LAMBDA r : IF r.in_function THEN r ELSE Stop(r, "return"))

Statement(ts, p) ==
  LET t == Tok(ts, p.at)
  IN  CASE t = "e" -> Take(p, <<"e">>, 1)
        [] t = "break" -> IF p.loop_depth = 0 THEN Stop(p, "break") ELSE Take(p, <<"break">>, 1)
        [] t = "quit" -> Stop(p, "quit")
        [] t = "return" -> Return(ts, p)
        [] t = "if" ->
             Chain(Statement(ts, Take(p, <<>>, 1)), LAMBDA q : Take(q, <<"if", q.tree>>, 0))
        [] t = "loop" -> Chain(LoopBody(ts, p), LAMBDA q : Take(q, <<"loop", q.tree>>, 0))
        [] t = "{" ->
             Chain(StatementList(ts, Take(p, <<>>, 1), <<>>), LAMBDA q :
               Expect(ts, Take(q, <<"block", q.tree>>, 0), "}"))
        [] OTHER -> Stop(p, "syntax")

SkipNewlines(ts, p) ==
  IF Tok(ts, p.at) = "newline" THEN SkipNewlines(ts, Take(p, p.tree, 1)) ELSE p

(* parse_statement_list: the statements between braces. *)
StatementList(ts, p, stmts) ==
  LET q == SkipNewlines(ts, p)
  IN  IF Tok(ts, q.at) \in {"eof", "}"} THEN Take(q, stmts, 0)
      ELSE Chain(Statement(ts, q), LAMBDA r :
             CASE Tok(ts, r.at) \in {";", "newline"} ->
                    StatementList(ts, Take(r, <<>>, 1), Append(stmts, r.tree))
               [] Tok(ts, r.at) \in {"}", "eof"} -> StatementList(ts, r, Append(stmts, r.tree))
               [] OTHER -> Stop(r, "syntax"))

(* Mutant of SemicolonList: a statement without a semicolon after it is not added. *)
SemicolonListDropsLast(ts, p, stmts) ==
  CASE Tok(ts, p.at) \in {"newline", "eof", "}"} -> Take(p, stmts, 0)
    [] Tok(ts, p.at) = ";" -> SemicolonList(ts, Take(p, <<>>, 1), stmts)
    [] OTHER -> Chain(Statement(ts, p), LAMBDA q :
         IF Tok(ts, q.at) = ";" THEN SemicolonList(ts, Take(q, <<>>, 1), Append(stmts, q.tree))
         ELSE Take(q, stmts, 0))

(* parse_semicolon_list: the statements of a line. *)
SemicolonList(ts, p, stmts) ==
  CASE Tok(ts, p.at) \in {"newline", "eof", "}"} -> Take(p, stmts, 0)
    [] Tok(ts, p.at) = ";" -> SemicolonList(ts, Take(p, <<>>, 1), stmts)
    [] OTHER -> Chain(Statement(ts, p), LAMBDA q :
         IF Tok(ts, q.at) = ";" THEN SemicolonList(ts, Take(q, <<>>, 1), Append(stmts, q.tree))
         ELSE Take(q, Append(stmts, q.tree), 0))

Autos(ts, p) ==
  IF Tok(ts, p.at) # "auto" THEN p
  ELSE IF Tok(ts, p.at + 1) \in {"newline", ";"} THEN Take(p, <<>>, 2)
  ELSE Stop(Take(p, <<>>, 1), "syntax")

Function(ts, p) ==
  Chain(Expect(ts, Take(p, <<>>, 1), "{"), LAMBDA head :
  Chain(Autos(ts, SkipNewlines(ts, head)), LAMBDA q :
  Chain(StatementList(ts, [q EXCEPT !.loop_depth = 0, !.in_function = TRUE], <<>>), LAMBDA r :
    Expect(ts, [r EXCEPT !.loop_depth = p.loop_depth, !.in_function = p.in_function,
                         !.tree = <<"function", r.tree>>], "}"))))

(* parse_input_item: a function, or the statements up to the end of a line. *)
InputItem(ts, p) ==
  IF Tok(ts, p.at) = "define" THEN Function(ts, p)
  ELSE Chain(SemicolonList(ts, p, <<>>), LAMBDA q :
         IF Tok(ts, q.at) \in {"newline", "eof"} THEN Take(q, <<"block", q.tree>>, 1)
         ELSE Stop(q, "syntax"))

(* try_parse_program; a line without statements adds no item. *)
RECURSIVE Program(_, _, _)
Program(ts, p, items) ==
  IF p.at > Len(ts) THEN Take(p, items, 0)
  ELSE Chain(InputItem(ts, p), LAMBDA q :
         Program(ts, q, IF q.tree = <<"block", <<>>>> THEN items ELSE Append(items, q.tree)))

ParsedProgram(ts) == Program(ts, Parser, <<>>)

(* Mutant of AddToken: every newline ends a unit. *)
AddTokenIgnoresBraces(cut, t) ==
  IF t = "newline"
  THEN [units |-> Append(cut.units, Append(cut.unit, t)), unit |-> <<>>, depth |-> 0]
  ELSE [cut EXCEPT !.unit = Append(@, t)]

(* The lines that push_line gathers into one unit: up to a newline outside braces. *)
AddToken(cut, t) ==
  LET depth == cut.depth + (IF t = "{" THEN 1 ELSE 0) - (IF t = "}" THEN 1 ELSE 0)
      unit  == Append(cut.unit, t)
  IN  IF t = "newline" /\ depth <= 0
      THEN [units |-> Append(cut.units, unit), unit |-> <<>>, depth |-> 0]
      ELSE [cut EXCEPT !.unit = unit, !.depth = depth]

Units(ts) ==
  LET cut == FoldLeft(AddToken, [units |-> <<>>, unit |-> <<>>, depth |-> 0], ts)
  IN  IF cut.unit = <<>> THEN cut.units ELSE Append(cut.units, cut.unit)
-----------------------------------------------------------------------------
(* A token is typed after a text that the parser has not refused yet, or that the grammar  *)
(* can continue.                                                                            *)

Result == IF kind = "expression" THEN ParsedExpression(tokens) ELSE ParsedProgram(tokens)
Open   == Result.why = "ok" \/ (Result.why = "syntax" /\ Result.at > Len(tokens))

TypeExpression ==
  /\ kind = "expression" /\ Len(tokens) < MaxExpr
  /\ Open \/ tokens \in ExpressionBeginnings
  /\ \E t \in ExprTokens : tokens' = Append(tokens, t)
  /\ UNCHANGED kind

TypeProgram ==
  /\ kind = "program" /\ Len(tokens) < MaxProg
  /\ Open \/ tokens \in ProgramBeginnings
  /\ \E t \in ProgTokens : tokens' = Append(tokens, t)
  /\ UNCHANGED kind

Init == kind \in {"expression", "program"} /\ tokens = <<>>
Next == TypeExpression \/ TypeProgram
Spec == Init /\ [][Next]_vars
-----------------------------------------------------------------------------
(* Properties *)

(* Precedence climbing, with assignments taken at the named expression before them, accepts *)
(* exactly the expressions of bc and builds the one tree each has (parser.rs 1069, 1170).   *)
ExpressionsParsed ==
  kind = "expression" =>
    /\ Result.why = "ok" <=> tokens \in Expressions
    /\ Result.why = "ok" => Result.tree \in Trees[Len(tokens)] /\ Yield(Result.tree) = tokens

(* The statements accepted are those of the grammar, with break only in loops and return    *)
(* only in functions, although the parser keeps loop_depth and in_function in fields of its *)
(* own that it must restore wherever a body ends (parser.rs 732, 984).                      *)
ProgramsParsed == kind = "program" => (Result.why = "ok" <=> tokens \in Programs)

(* No statement is lost, repeated, moved or put into another construct: written out again,  *)
(* the statements parsed are the tokens read, but for what only separates them.             *)
RECURSIVE Written(_)
Written(t) ==
  CASE t[1] \in {"e", "break", "return"} -> t
    [] t[1] \in {"if", "loop"} -> <<t[1]>> \o Written(t[2])
    [] t[1] = "block" -> <<"{">> \o FlattenSeq([i \in DOMAIN t[2] |-> Written(t[2][i])]) \o <<"}">>
    [] t[1] = "function" ->
         <<"define", "{">> \o FlattenSeq([i \in DOMAIN t[2] |-> Written(t[2][i])]) \o <<"}">>
WrittenItem(t) == IF t[1] = "function" THEN Written(t) ELSE Tail(Front(Written(t)))

StatementsKept ==
  kind = "program" /\ Result.why = "ok" =>
    FlattenSeq([i \in DOMAIN Result.tree |-> WrittenItem(Result.tree[i])])
      = SelectSeq(tokens, LAMBDA t : t \notin {"newline", ";", "auto"})

(* A program may be parsed a unit at a time: each unit that push_line cuts parses, and      *)
(* their statements are those of the program as a whole (driver.rs 63, parser.rs 779).      *)
CutsKeepStatements ==
  kind = "program" /\ Result.why = "ok" =>
    LET parts == [i \in DOMAIN Units(tokens) |-> ParsedProgram(Units(tokens)[i])]
    IN  /\ \A i \in DOMAIN parts : parts[i].why = "ok"
        /\ FlattenSeq([i \in DOMAIN parts |-> parts[i].tree]) = Result.tree
=============================================================================
