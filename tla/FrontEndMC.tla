----------------------------- MODULE FrontEndMC -----------------------------
(* Small instances of FrontEnd: the characters of texts. *)
EXTENDS FrontEnd

\* numbers, names and operators, with everything that can be inside them
WordChars == {"i", "f", "1", "F", "_", ".", "+", "-", "=", "<", "!", "^", ";", "@", " ", "quote"}

\* what spans lines
BlockChars == {"/", "*", "quote", "{", "}", "\\", "newline"}

\* backslash-newlines of both kinds
LineChars == {"\\", "cr", "newline", "1", ".", "quote"}

CharSets    == {WordChars, BlockChars, LineChars}
CharLengths == (WordChars :> 4) @@ (BlockChars :> 6) @@ (LineChars :> 5)
=============================================================================
