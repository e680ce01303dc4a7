----------------------------- MODULE InputText -----------------------------
(***************************************************************************)
(* Source text as the driver sees it, and what one input unit does.        *)
(*                                                                         *)
(* A line is a sequence of items, each standing for a piece of text of one *)
(* kind; separators are left out.  What an item means depends on where it  *)
(* is: inside a comment or a string everything but its end is plain text.  *)
(* Two pieces of the program read items independently of each other: the   *)
(* block scanner of verified_kernels.rs, which decides where a unit ends,  *)
(* and the lexer and parser of parser.rs, which decide what it means.      *)
(***************************************************************************)
EXTENDS Integers, Sequences, SequencesExt, FiniteSets

Delimiters == {"open", "close",         \* braces
               "quote",                 \* a double quote
               "comment", "uncomment"}  \* the two ends of a comment

Statements == {"stmt",    \* a POSIX statement
               "ext",     \* a statement that uses an extension
               "fail",    \* a statement that ends in a runtime error
               "panic"}   \* a statement that meets an internal error

Item == Delimiters \union Statements
          \union {"quit",
                  "bad",  \* a token that is not allowed where it is
                  "cut"}  \* an expression that lacks its last operand

\* "continued": ends in backslash-newline; "none": the text ends without a newline
LineEnd == {"newline", "continued", "none"}
IsText(lines) == \A i \in 1..(Len(lines) - 1) : lines[i].end # "none"

Policy == {"Allow", "Warn", "Reject"}   \* ExtensionPolicy
-----------------------------------------------------------------------------
(* verified_repl_block_completeness *)

Scanner == [depth |-> 0, comment |-> FALSE, string |-> FALSE]

(* Mutant of ScanItem: strings are not followed, only comments and braces. *)
ScanNoStrings(s, item) ==
  [depth   |-> s.depth + (IF ~s.comment /\ item = "open" THEN 1 ELSE 0)
                       - (IF ~s.comment /\ item = "close" THEN 1 ELSE 0),
   comment |-> (s.comment /\ item # "uncomment") \/ item = "comment",
   string  |-> FALSE]

ScanItem(s, item) ==
  LET code == ~s.comment /\ ~s.string
  IN [depth   |-> s.depth + (IF code /\ item = "open" THEN 1 ELSE 0)
                          - (IF code /\ item = "close" THEN 1 ELSE 0),
      comment |-> (s.comment /\ item # "uncomment") \/ (code /\ item = "comment"),
      string  |-> (s.string /\ item # "quote") \/ (code /\ item = "quote")]

ScanLine(s, line) == FoldLeft(ScanItem, s, line.items)

(* The whole text accumulated so far is scanned again for every line. *)
Incomplete(lines) ==
  LET s == FoldLeft(ScanLine, Scanner, lines)
  IN  s.depth > 0 \/ s.comment \/ s.string

(* push_line: a unit is whole when nothing is open and its last line is not continued. *)
Whole(lines) == lines[Len(lines)].end # "continued" /\ ~Incomplete(lines)

Newlines(lines) == Cardinality({i \in DOMAIN lines : lines[i].end # "none"})
-----------------------------------------------------------------------------
(* The lexer and the parser *)

\* each item with its line (counted from 1) and the line of the token after it
Token(lines) ==
  FlattenSeq([i \in DOMAIN lines |->
    [j \in DOMAIN lines[i].items |->
      [item |-> lines[i].items[j], line |-> i, column |-> j,
       next |-> IF j = Len(lines[i].items) /\ lines[i].end # "none" THEN i + 1 ELSE i]]])

EndLine(lines) == IF lines # <<>> /\ Last(lines).end # "none" THEN Len(lines) + 1 ELSE Len(lines)

(* skip_whitespace_and_comments and string tokens: what the next item is part of. *)
LexMode(m, item) ==
  CASE m = "comment" -> IF item = "uncomment" THEN "code" ELSE "comment"
    [] m = "string"  -> IF item = "quote" THEN "code" ELSE "string"
    [] m = "code"    -> IF item = "comment" THEN "comment"
                        ELSE IF item = "quote" THEN "string" ELSE "code"

Parser == [mode |-> "code", depth |-> 0, verdict |-> "ok", at |-> 0, uses |-> <<>>, stmts |-> <<>>]

(* Parsing stops at `quit` and at the first syntax error. *)
ParseToken(p, t) ==
  LET item  == IF p.mode = "code" THEN t.item ELSE "text"
      wrong == item \in {"bad", "cut", "uncomment"} \/ (item = "close" /\ p.depth = 0)
  IN  IF p.verdict # "ok" THEN p
      ELSE [mode    |-> LexMode(p.mode, t.item),
            depth   |-> CASE item = "open" -> p.depth + 1
                          [] item = "close" -> p.depth - 1
                          [] OTHER -> p.depth,
            verdict |-> IF wrong THEN "syntax" ELSE IF item = "quit" THEN "quit" ELSE "ok",
            at      |-> IF item = "cut" THEN t.next ELSE t.line,
            uses    |-> IF item = "ext" THEN Append(p.uses, t.next) ELSE p.uses,
            stmts   |-> IF item \in Statements THEN Append(p.stmts, t) ELSE p.stmts]

Parsed(lines) ==
  LET p == FoldLeft(ParseToken, Parser, Token(lines))
  IN  IF p.verdict = "ok" /\ (p.mode # "code" \/ p.depth > 0)
      THEN [p EXCEPT !.verdict = "syntax", !.at = EndLine(lines)]
      ELSE p
-----------------------------------------------------------------------------
(* run_unit *)

(* What running a unit whose first line is `first` prints and how it ends: ran are the     *)
(* statements executed (the one that fails included), reports the diagnostics.             *)
UnitResult(lines, first, policy) ==
  LET p      == Parsed(lines)
      stop   == SelectInSeq(p.stmts, LAMBDA t : t.item \in {"fail", "panic"})
      used   == IF policy = "Allow" THEN <<>>
                ELSE [i \in DOMAIN p.uses |->
                       [kind |-> IF policy = "Reject" THEN "error" ELSE "warning",
                        line |-> first + p.uses[i] - 1]]
      Ended(outcome, ran, report) == [outcome |-> outcome, ran |-> ran, reports |-> used \o report]
  IN  CASE p.verdict = "quit" -> Ended("Quit", <<>>, <<>>)
        [] p.verdict = "syntax" ->
             Ended("Failed", <<>>, << [kind |-> "error", line |-> first + p.at - 1] >>)
        [] p.verdict = "ok" /\ policy = "Reject" /\ p.uses # <<>> -> Ended("Failed", <<>>, <<>>)
        [] p.verdict = "ok" /\ ~(policy = "Reject" /\ p.uses # <<>>) /\ stop = 0 ->
             Ended("Completed", p.stmts, <<>>)
        [] OTHER ->
             Ended(IF p.stmts[stop].item = "panic" THEN "Panicked" ELSE "Failed",
                   SubSeq(p.stmts, 1, stop), << [kind |-> "runtime", line |-> 0] >>)
=============================================================================
