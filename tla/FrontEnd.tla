------------------------------ MODULE FrontEnd ------------------------------
(***************************************************************************)
(* The front end of bc: what the parser does with every text of tokens     *)
(* (Grammar), and the lexer and the block scanner with every text of       *)
(* characters (Lexer).                                                     *)
(***************************************************************************)
EXTENDS Grammar, Lexer

CONSTANTS
  Alphabets,    \* sets of characters that texts are typed from
  MaxChars      \* bound on the characters of a text, for each alphabet

ASSUME FrontEndConstantsOK ==
  /\ \A a \in Alphabets : a \subseteq Character
  /\ MaxChars \in [Alphabets -> Nat]

VARIABLES
  alphabet,     \* the characters in use (never changes)
  chars         \* what has been typed so far

frontVars == <<vars, alphabet, chars>>

TypeCharacter ==
  /\ kind = "characters" /\ Len(chars) < MaxChars[alphabet]
  /\ \E c \in alphabet : chars' = Append(chars, c)
  /\ UNCHANGED <<vars, alphabet>>

FrontInit ==
  /\ chars = <<>>
  /\ \/ Init /\ alphabet = {}
     \/ kind = "characters" /\ tokens = <<>> /\ alphabet \in Alphabets

FrontNext == TypeCharacter \/ (Next /\ UNCHANGED <<alphabet, chars>>)
FrontSpec == FrontInit /\ [][FrontNext]_frontVars
-----------------------------------------------------------------------------
(* The lexer, which looks one or two characters ahead and has loops of its own for comments, *)
(* strings, numbers and names, reads every text as the longest pieces of the lexical grammar, *)
(* with their lines, and stops with an error at the first character that begins none          *)
(* (parser.rs 122, 153).  A NUL begins none either, but the lexer takes it for the end of the *)
(* text without a word (parser.rs 157): the characters of FrontEndMC are without it.          *)
TextRead == kind = "characters" => Tokens(chars) = Reading(chars, 1, <<>>)

(* A text without a NUL may be read a unit at a time: up to the first error, the units that  *)
(* the block scanner cuts have the tokens of the whole text, under the same line numbers,    *)
(* and the error is the same (driver.rs 74, verified_kernels.rs 850).                        *)
CutsKeepTokens ==
  kind = "characters" /\ "NUL" \notin ToSet(chars) =>
    LET units    == UnitsOf(chars)
        read     == [i \in DOMAIN units |-> Tokens(units[i].chars)]
        Moved(i) == [j \in DOMAIN read[i].toks |->
                      [read[i].toks[j] EXCEPT !.line = @ + units[i].first - 1]]
        failed   == {i \in DOMAIN units : read[i].why # "ok"}
        upto     == IF failed = {} THEN Len(units) ELSE Min(failed)
        whole    == Tokens(chars)
    IN  /\ whole.toks = FlattenSeq([i \in 1..upto |-> Moved(i)])
        /\ whole.why = IF failed = {} THEN "ok" ELSE read[upto].why
        /\ failed # {} => whole.line = read[upto].line + units[upto].first - 1
=============================================================================
