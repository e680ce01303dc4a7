------------------------------- MODULE Lexer -------------------------------
(***************************************************************************)
(* The lexer of parser.rs and the block scanner of verified_kernels.rs, as *)
(* operators on a text of characters.  They read the same characters       *)
(* independently of each other: the scanner decides where a unit ends      *)
(* (driver.rs), the lexer what the unit says.                              *)
(*                                                                         *)
(* A character stands for its class where the code has classes; "if" is    *)
(* the keyword that stands for all, ";" and "(" for the other tokens of    *)
(* one character.                                                          *)
(***************************************************************************)
EXTENDS Integers, Sequences, SequencesExt, FiniteSets, FiniteSetsExt

Lowercase == {"i", "f"}
Digits    == {"1"}
HexDigits == {"F"}
Blanks    == {" ", "cr"}    \* space and tab; carriage return
Singles   == {";", "(", "{", "}"}

Character == Lowercase \union Digits \union HexDigits \union Blanks \union Singles
  \union {"_", ".", "+", "-", "*", "/", "^", "=", "<", "!", "quote", "\\", "newline", "NUL", "@"}

\* peek_char: a NUL stands for the end of the text
Peek(chars, i) == IF i <= Len(chars) THEN chars[i] ELSE "NUL"

IsBcDigit(c)       == c \in Digits \union HexDigits
IsIdentContinue(c) == c \in Lowercase \union Digits \union {"_"}

(* advance_char: the line after the characters from i to before j. *)
LineAfter(chars, line, i, j) == line + Cardinality({k \in i..(j - 1) : chars[k] = "newline"})

(* How long the backslash-newline at i is; 0 if there is none. *)
Continuation(chars, i) ==
  CASE Peek(chars, i) = "\\" /\ Peek(chars, i + 1) = "newline" -> 2
    [] Peek(chars, i) = "\\" /\ Peek(chars, i + 1) = "cr" /\ Peek(chars, i + 2) = "newline" -> 3
    [] OTHER -> 0
-----------------------------------------------------------------------------
(* The lexer *)

\* where to go on, whether the text is wrong there, and the line reached
At(i)      == [at |-> i, why |-> "ok"]
Wrong(i, why) == [at |-> i, why |-> why]

RECURSIVE SkipComment(_, _), SkipSeparators(_, _), NumberEnd(_, _, _), NameEnd(_, _), StringEnd(_, _)

SkipComment(chars, i) ==
  CASE Peek(chars, i) = "NUL" -> Wrong(i, "unterminated comment")
    [] Peek(chars, i) = "*" /\ Peek(chars, i + 1) = "/" -> At(i + 2)
    [] OTHER -> SkipComment(chars, i + 1)

(* Mutant of SkipSeparators: backslash and newline is known only without a carriage return. *)
SkipSeparatorsUnix(chars, i) ==
  LET comment == IF Peek(chars, i) = "/" /\ Peek(chars, i + 1) = "*" THEN SkipComment(chars, i + 2) ELSE At(i)
  IN  CASE Peek(chars, i) \in Blanks -> SkipSeparators(chars, i + 1)
        [] Continuation(chars, i) = 2 -> SkipSeparators(chars, i + 2)
        [] comment # At(i) -> IF comment.why = "ok" THEN SkipSeparators(chars, comment.at) ELSE comment
        [] OTHER -> At(i)

SkipSeparators(chars, i) ==
  LET comment == IF Peek(chars, i) = "/" /\ Peek(chars, i + 1) = "*" THEN SkipComment(chars, i + 2) ELSE At(i)
  IN  CASE Peek(chars, i) \in Blanks -> SkipSeparators(chars, i + 1)
        [] Continuation(chars, i) > 0 -> SkipSeparators(chars, i + Continuation(chars, i))
        [] comment # At(i) -> IF comment.why = "ok" THEN SkipSeparators(chars, comment.at) ELSE comment
        [] OTHER -> At(i)

(* Mutant of NumberEnd: a number goes on after a second point. *)
NumberEndAnyDots(chars, i, has_dot) ==
  CASE IsBcDigit(Peek(chars, i)) -> NumberEnd(chars, i + 1, has_dot)
    [] Peek(chars, i) = "." -> NumberEnd(chars, i + 1, TRUE)
    [] Continuation(chars, i) > 0 -> NumberEnd(chars, i + Continuation(chars, i), has_dot)
    [] OTHER -> i

NumberEnd(chars, i, has_dot) ==
  CASE IsBcDigit(Peek(chars, i)) -> NumberEnd(chars, i + 1, has_dot)
    [] Peek(chars, i) = "." /\ ~has_dot -> NumberEnd(chars, i + 1, TRUE)
    [] Continuation(chars, i) > 0 -> NumberEnd(chars, i + Continuation(chars, i), has_dot)
    [] OTHER -> i

NameEnd(chars, i) == IF IsIdentContinue(Peek(chars, i)) THEN NameEnd(chars, i + 1) ELSE i

StringEnd(chars, i) ==
  CASE Peek(chars, i) = "NUL" -> Wrong(i, "illegal character")
    [] Peek(chars, i) = "quote" -> At(i + 1)
    [] Continuation(chars, i) > 0 -> StringEnd(chars, i + Continuation(chars, i))
    [] OTHER -> StringEnd(chars, i + 1)

\* operators of two characters, and what they are
Arithmetic == {"+", "-", "*", "/", "^"}
Twins(c, d) ==
  CASE c \in {"+", "-"} /\ d = c      -> "IncrDecr"
    [] c \in Arithmetic /\ d = "="    -> "AssignOp"
    [] c \in {"=", "<", "!"} /\ d = "=" -> "RelOp"
    [] OTHER -> "none"

Operator(c) ==
  CASE c = "^" -> "Exp" [] c = "+" -> "Plus" [] c = "-" -> "Minus" [] c \in {"*", "/"} -> "MulOp"
    [] c = "=" -> "AssignOp" [] c = "<" -> "RelOp" [] OTHER -> "none"

Keyword(word) == IF word = <<"i", "f">> THEN "If" ELSE "Letter"

(* The token that begins at i, where no separator does: its type and where it ends. *)
Scanned(chars, i) ==
  LET c == Peek(chars, i)
      d == Peek(chars, i + 1)
      Token(type, j) == [type |-> type, at |-> j, why |-> "ok"]
      Refused(j, why) == [type |-> "none", at |-> j, why |-> why]
  IN  CASE c = "NUL" -> Token("Eof", i)
        [] c = "newline" -> Token("Newline", i + 1)
        [] c \in Singles -> Token(c, i + 1)
        [] Twins(c, d) # "none" -> Token(Twins(c, d), i + 2)
        [] Twins(c, d) = "none" /\ Operator(c) # "none" -> Token(Operator(c), i + 1)
        [] c = "quote" -> LET end == StringEnd(chars, i + 1)
                          IN  IF end.why = "ok" THEN Token("String", end.at) ELSE Refused(end.at, end.why)
        [] IsBcDigit(c) \/ (c = "." /\ IsBcDigit(d)) -> Token("Number", NumberEnd(chars, i, FALSE))
        [] c \in Lowercase -> LET j == NameEnd(chars, i + 1)
                              IN  Token(Keyword(SubSeq(chars, i, j - 1)), j)
        [] OTHER -> Refused(i, "illegal character")

(* A number is written without the backslash-newlines in it. *)
ValueOf(type, piece) ==
  IF type = "Number" THEN SelectSeq(piece, LAMBDA c : c \notin {"\\", "cr", "newline"}) ELSE piece

(* try_get_next_token until the end or an error; a token has the line after it. *)
RECURSIVE TokensFrom(_, _, _, _)
TokensFrom(chars, i, line, toks) ==
  LET skip  == SkipSeparators(chars, i)
      token == IF skip.why = "ok" THEN Scanned(chars, skip.at) ELSE [skip EXCEPT !.at = skip.at]
      after == LineAfter(chars, line, i, token.at)
      Result(why) == [toks |-> toks, why |-> why, line |-> after]
  IN  IF token.why # "ok" THEN Result(token.why)
      ELSE IF token.type = "Eof" THEN Result("ok")
      ELSE TokensFrom(chars, token.at, after,
             Append(toks, [type |-> token.type, line |-> after,
                           value |-> ValueOf(token.type, SubSeq(chars, skip.at, token.at - 1))]))

Tokens(chars) == TokensFrom(chars, 1, 1, <<>>)
-----------------------------------------------------------------------------
(* verified_repl_block_completeness, character by character *)

RECURSIVE ScanFrom(_, _, _, _)
ScanFrom(chars, i, mode, count) ==
  LET c == Peek(chars, i)
      d == IF i < Len(chars) THEN chars[i + 1] ELSE "none"
  IN  CASE i > Len(chars) -> count > 0 \/ mode # "code"
        [] i <= Len(chars) /\ mode = "comment" ->
             IF c = "*" /\ d = "/" THEN ScanFrom(chars, i + 2, "code", count)
             ELSE ScanFrom(chars, i + 1, "comment", count)
        [] i <= Len(chars) /\ mode = "string" ->
             IF c = "quote" THEN ScanFrom(chars, i + 1, "code", count)
             ELSE ScanFrom(chars, i + (IF Continuation(chars, i) > 0 THEN Continuation(chars, i) ELSE 1),
                           "string", count)
        [] i <= Len(chars) /\ mode = "code" ->
             CASE c = "/" /\ d = "*" -> ScanFrom(chars, i + 2, "comment", count)
               [] c = "quote" -> ScanFrom(chars, i + 1, "string", count)
               [] c = "{" -> ScanFrom(chars, i + 1, "code", count + 1)
               [] c = "}" -> ScanFrom(chars, i + 1, "code", count - 1)
               [] OTHER -> ScanFrom(chars, i + 1, "code", count)

BlockIncomplete(chars) == ScanFrom(chars, 1, "code", 0)

EndsContinued(chars) ==
  \/ IsSuffix(<<"\\", "newline">>, chars)
  \/ IsSuffix(<<"\\", "cr", "newline">>, chars)

(* push_line, for the lines of a whole text: a unit is complete at a newline that is not    *)
(* continued, with nothing open.                                                            *)
Complete(unit) == Last(unit) = "newline" /\ ~EndsContinued(unit) /\ ~BlockIncomplete(unit)

(* Mutant of PushCharacter: what is open is not looked at. *)
PushCharacterAtNewline(cut, c) ==
  LET unit == Append(cut.unit, c)
      line == IF c = "newline" THEN cut.line + 1 ELSE cut.line
  IN  IF c = "newline" /\ ~EndsContinued(unit)
      THEN [units |-> Append(cut.units, [chars |-> unit, first |-> cut.first]), unit |-> <<>>,
            first |-> line, line |-> line]
      ELSE [cut EXCEPT !.unit = unit, !.line = line]

PushCharacter(cut, c) ==
  LET unit == Append(cut.unit, c)
      line == IF c = "newline" THEN cut.line + 1 ELSE cut.line
  IN  IF Complete(unit)
      THEN [units |-> Append(cut.units, [chars |-> unit, first |-> cut.first]), unit |-> <<>>,
            first |-> line, line |-> line]
      ELSE [cut EXCEPT !.unit = unit, !.line = line]

UnitsOf(chars) ==
  LET cut == FoldLeft(PushCharacter, [units |-> <<>>, unit |-> <<>>, first |-> 1, line |-> 1], chars)
  IN  IF cut.unit = <<>> THEN cut.units
      ELSE Append(cut.units, [chars |-> cut.unit, first |-> cut.first])
-----------------------------------------------------------------------------
(* The lexical grammar of bc (COMPATIBILITY.md 1.2), without any algorithm: the pieces a     *)
(* text is made of.  A NUL is a character like any other that begins no token.               *)

\* backslashes, and carriage returns and newlines in a piece, are backslash-newlines
OnlyContinued(s) ==
  \A k \in DOMAIN s :
    /\ s[k] = "\\" => Continuation(s, k) > 0
    /\ s[k] = "cr" => k > 1 /\ Continuation(s, k - 1) = 3
    /\ s[k] = "newline" => (k > 1 /\ Continuation(s, k - 1) = 2) \/ (k > 2 /\ Continuation(s, k - 2) = 3)

IsNumber(s) ==
  /\ IsBcDigit(s[1]) \/ (s[1] = "." /\ Len(s) > 1 /\ IsBcDigit(s[2]))
  /\ \A k \in DOMAIN s : IsBcDigit(s[k]) \/ s[k] \in {".", "\\", "cr", "newline"}
  /\ OnlyContinued(s)
  /\ Cardinality({k \in DOMAIN s : s[k] = "."}) <= 1

IsName(s)   == s[1] \in Lowercase /\ \A k \in DOMAIN s : IsIdentContinue(s[k])
IsString(s) ==
  /\ Len(s) > 1 /\ s[1] = "quote" /\ Last(s) = "quote"
  /\ \A k \in 2..(Len(s) - 1) : s[k] # "quote"
IsComment(s) ==
  /\ Len(s) > 3 /\ SubSeq(s, 1, 2) = <<"/", "*">> /\ SubSeq(s, Len(s) - 1, Len(s)) = <<"*", "/">>
  /\ \A k \in 3..(Len(s) - 2) : ~(s[k] = "*" /\ s[k + 1] = "/")
IsSeparator(s) ==
  \/ s \in {<<c>> : c \in Blanks} \union {<<"\\", "newline">>, <<"\\", "cr", "newline">>}
  \/ IsComment(s)

\* the type of a piece
Signs ==
  {<<<<"newline">>, "Newline">>, <<<<"^">>, "Exp">>, <<<<"+">>, "Plus">>, <<<<"-">>, "Minus">>,
   <<<<"*">>, "MulOp">>, <<<<"/">>, "MulOp">>, <<<<"=">>, "AssignOp">>, <<<<"<">>, "RelOp">>,
   <<<<"=", "=">>, "RelOp">>, <<<<"<", "=">>, "RelOp">>, <<<<"!", "=">>, "RelOp">>,
   <<<<"+", "+">>, "IncrDecr">>, <<<<"-", "-">>, "IncrDecr">>,
   <<<<"+", "=">>, "AssignOp">>, <<<<"-", "=">>, "AssignOp">>, <<<<"*", "=">>, "AssignOp">>,
   <<<<"/", "=">>, "AssignOp">>, <<<<"^", "=">>, "AssignOp">>}
  \union {<<<<c>>, c>> : c \in Singles}

TypesOf(s) ==
  {sign[2] : sign \in {sign \in Signs : sign[1] = s}}
  \union (IF IsSeparator(s) THEN {"separator"} ELSE {})
  \union (IF IsNumber(s) THEN {"Number"} ELSE {})
  \union (IF IsName(s) THEN {IF s = <<"i", "f">> THEN "If" ELSE "Letter"} ELSE {})
  \union (IF IsString(s) THEN {"String"} ELSE {})

(* A text is read as the longest piece that it begins with, and so on with the rest.  What   *)
(* looks like a comment or a string is nothing else, and a character that begins no piece    *)
(* is illegal (COMPATIBILITY.md 3.2).                                                        *)
RECURSIVE Reading(_, _, _)
Reading(chars, i, toks) ==
  LET Line(j) == 1 + Cardinality({k \in 1..(j - 1) : chars[k] = "newline"})
      ends    == {j \in i..Len(chars) : TypesOf(SubSeq(chars, i, j)) # {}}
      comment == i < Len(chars) /\ chars[i] = "/" /\ chars[i + 1] = "*"
      end     == Len(chars) + 1
      Stopped(why, j) == [toks |-> toks, why |-> why, line |-> Line(j)]
  IN  IF i = end THEN Stopped("ok", i)
      ELSE IF comment /\ \A j \in ends : ~IsComment(SubSeq(chars, i, j)) THEN Stopped("unterminated comment", end)
      ELSE IF ends = {} THEN Stopped("illegal character", IF chars[i] = "quote" THEN end ELSE i)
      ELSE LET j     == Max(ends)
               piece == SubSeq(chars, i, j)
               type  == CHOOSE type \in TypesOf(piece) : TRUE
           IN  Reading(chars, j + 1,
                 IF type = "separator" THEN toks
                 ELSE Append(toks, [type |-> type, line |-> Line(j + 1), value |-> ValueOf(type, piece)]))
=============================================================================
