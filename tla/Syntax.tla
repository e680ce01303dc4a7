------------------------------- MODULE Syntax -------------------------------
(***************************************************************************)
(* What bc accepts and how it is to be understood, without any algorithm:  *)
(* the trees of expressions with their precedences and associativity, and  *)
(* the programs.  Tokens are those of Grammar.                             *)
(***************************************************************************)
EXTENDS Integers, Sequences, SequencesExt, FiniteSets

CONSTANTS
  EmptyStatements,    \* whether a statement between braces may be empty (in POSIX it may)
  MaxExpr, MaxProg    \* bounds on the tokens of an expression and of a program

ASSUME SyntaxConstantsOK == EmptyStatements \in BOOLEAN /\ MaxExpr \in 1..7 /\ MaxProg \in Nat

(* Expressions: "-" (left-associative) binds least, then "*" (left), then "^" (right), then *)
(* the unary minus.  An assignment reaches as far to the right as it can, so nothing can    *)
(* follow it in the expression it is the end of.                                            *)
Named(t) == t[1] \in {"name", "reg", "index"}
Binary(t) == t[1] = "binary"
Looser(op) == CASE op = "-" -> {} [] op = "*" -> {"-"} [] op = "^" -> {"-", "*"}

RECURSIVE EndsInAssignment(_)
EndsInAssignment(t) ==
  CASE t[1] = "assign" -> TRUE
    [] t[1] = "binary" -> EndsInAssignment(t[4])
    [] t[1] = "neg"    -> EndsInAssignment(t[2])
    [] OTHER -> FALSE

LeftOperand(op, t) ==
  /\ ~EndsInAssignment(t)
  /\ Binary(t) => t[2] \notin Looser(op) \union (IF op = "^" THEN {"^"} ELSE {})
RightOperand(op, t) ==
  Binary(t) => t[2] \notin Looser(op) \union (IF op = "^" THEN {} ELSE {op})

(* The trees of n tokens, given those of fewer. *)
ArgumentsOf(T, n) ==
  LET Argument(k) == T[k] \union (IF k = 3 THEN {<<"array">>} ELSE {})
  IN  IF n = 0 THEN {<<>>}
      ELSE {<<a>> : a \in Argument(n)}
             \union UNION {{<<a, b>> : a \in Argument(k), b \in Argument(n - 1 - k)} : k \in 1..(n - 2)}

TreesOf(T, n) ==
  (IF n = 1 THEN {<<"num">>, <<"name">>, <<"reg">>} ELSE {})
  \union (IF n < 2 THEN {} ELSE
           {<<"neg", e>> : e \in {e \in T[n - 1] : ~Binary(e)}}
           \union {<<how, t>> : how \in {"pre", "post"}, t \in {t \in T[n - 1] : Named(t)}})
  \union (IF n < 3 THEN {} ELSE
           {<<"paren", e>> : e \in T[n - 2]}
           \union {<<"call", args>> : args \in ArgumentsOf(T, n - 3)}
           \union UNION {{<<"assign", t, e>> : t \in {t \in T[k] : Named(t)}, e \in T[n - 1 - k]}
                           : k \in 1..(n - 2)}
           \union UNION {{<<"binary", op, l, r>> : l \in {l \in T[k] : LeftOperand(op, l)},
                                                   r \in {r \in T[n - 1 - k] : RightOperand(op, r)}}
                           : op \in {"-", "*", "^"}, k \in 1..(n - 2)})
  \union (IF n < 4 THEN {} ELSE
           {<<how, e>> : how \in {"index", "builtin"}, e \in T[n - 3]})

Trees == FoldLeft(LAMBDA T, n : Append(T, TreesOf(T, n)), <<>>, [n \in 1..MaxExpr |-> n])

RECURSIVE Yield(_)
Yield(t) ==
  CASE t[1] \in {"num", "name", "reg"} -> t
    [] t[1] = "neg"     -> <<"-">> \o Yield(t[2])
    [] t[1] = "pre"     -> <<"++">> \o Yield(t[2])
    [] t[1] = "post"    -> Yield(t[2]) \o <<"++">>
    [] t[1] = "paren"   -> <<"(">> \o Yield(t[2]) \o <<")">>
    [] t[1] = "builtin" -> <<"reg", "(">> \o Yield(t[2]) \o <<")">>
    [] t[1] = "index"   -> <<"name", "[">> \o Yield(t[2]) \o <<"]">>
    [] t[1] = "array"   -> <<"name", "[", "]">>
    [] t[1] = "assign"  -> Yield(t[2]) \o <<"=">> \o Yield(t[3])
    [] t[1] = "binary"  -> Yield(t[3]) \o <<t[2]>> \o Yield(t[4])
    [] t[1] = "call"    ->
         LET list == [i \in DOMAIN t[2] |-> (IF i = 1 THEN <<>> ELSE <<",">>) \o Yield(t[2][i])]
         IN  <<"name", "(">> \o FlattenSeq(list) \o <<")">>

ASSUME Unambiguous ==
  \A n \in DOMAIN Trees : Cardinality(Trees[n]) = Cardinality({Yield(t) : t \in Trees[n]})

Expressions == UNION {{Yield(t) : t \in Trees[n]} : n \in DOMAIN Trees}

Beginnings(texts) == UNION {{SubSeq(text, 1, n) : n \in 0..Len(text)} : text \in texts}
ExpressionBeginnings == Beginnings(Expressions)
-----------------------------------------------------------------------------
(* Programs.  Where a text is, is whether it is in the body of a loop and of a function:    *)
(* `break` is for the one and `return` for the other.                                       *)
Where == [loop : BOOLEAN, function : BOOLEAN]
TopLevel == [loop |-> FALSE, function |-> FALSE]
FunctionBody == [loop |-> FALSE, function |-> TRUE]

Juxtaposed(A, B) == {a \o b : a \in A, b \in B}

(* The statements of n > 0 tokens and the lists of statements between braces of n tokens,   *)
(* given those of fewer: L[m + 1] has those of m tokens.                                    *)
StatementsOf(L, n, w) ==
  LET inner == [w EXCEPT !.loop = TRUE]
  IN  (IF n = 1 THEN {<<"e">>} \union (IF w.loop THEN {<<"break">>} ELSE {})
                     \union (IF w.function THEN {<<"return">>} ELSE {}) ELSE {})
      \union (IF n = 2 /\ w.function THEN {<<"return", "e">>} ELSE {})
      \union (IF n < 2 THEN {} ELSE
               Juxtaposed({<<"if">>}, L[n].statements[w])
               \union Juxtaposed({<<"loop">>}, L[n].statements[inner])
               \union {<<"{">> \o s \o <<"}">> : s \in L[n - 1].lists[w]})

ListsOf(L, statements, n, w) ==
  IF n = 0 THEN {<<>>}
  ELSE statements[w]
       \union Juxtaposed({<<"newline">>} \union (IF EmptyStatements THEN {<<";">>} ELSE {}),
                         L[n].lists[w])
       \union UNION {Juxtaposed(L[k + 1].statements[w],
                                Juxtaposed({<<"newline">>, <<";">>}, L[n - k].lists[w]))
                       : k \in 1..(n - 1)}

LevelOf(L, n) ==
  LET statements == [w \in Where |-> IF n = 0 THEN {} ELSE StatementsOf(L, n, w)]
  IN  [statements |-> statements, lists |-> [w \in Where |-> ListsOf(L, statements, n, w)]]

Levels == FoldLeft(LAMBDA L, n : Append(L, LevelOf(L, n)), <<>>, [n \in 1..(MaxProg + 1) |-> n - 1])

(* What is between the braces of a function: its autos come first, after any newlines. *)
BodiesOf(n) ==
  Levels[n + 1].lists[FunctionBody]
    \union UNION {Juxtaposed({[i \in 1..k |-> "newline"]},
                     Juxtaposed({<<"auto", "newline">>, <<"auto", ";">>},
                                Levels[n - k - 1].lists[FunctionBody])) : k \in 0..(n - 2)}

(* Lines and whole programs of n tokens, given those of fewer. *)
LinesOf(P, n) ==
  IF n = 0 THEN {<<>>}
  ELSE Levels[n + 1].statements[TopLevel]
       \union Juxtaposed({<<";">>}, P[n].lines)
       \union UNION {Juxtaposed(Levels[k + 1].statements[TopLevel],
                                Juxtaposed({<<";">>}, P[n - k].lines)) : k \in 1..(n - 1)}

ProgramsOf(P, lines, n) ==
  lines
  \union UNION {Juxtaposed(P[k + 1].lines, Juxtaposed({<<"newline">>}, P[n - k].programs))
                  : k \in 0..(n - 1)}
  \union UNION {Juxtaposed({<<"define", "{">> \o b \o <<"}">> : b \in BodiesOf(k)},
                           P[n - k - 2].programs) : k \in 0..(n - 3)}

ProgramLevels ==
  FoldLeft(LAMBDA P, n : LET lines == LinesOf(P, n)
                         IN  Append(P, [lines |-> lines, programs |-> ProgramsOf(P, lines, n)]),
           <<>>, [n \in 1..(MaxProg + 1) |-> n - 1])

Programs == UNION {ProgramLevels[i].programs : i \in DOMAIN ProgramLevels}
ProgramBeginnings == Beginnings(Programs)
=============================================================================
