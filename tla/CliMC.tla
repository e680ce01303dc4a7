------------------------------- MODULE CliMC -------------------------------
(* Small instances of Cli: the lines that sources are made of. *)
EXTENDS Cli

LinesOf(items, ends) ==
  [items : items, end : ends] \ {[items |-> <<>>, end |-> "none"]}

\* a unit of an extension, or of the end of the program; one that fails; an error found while
\* a block is open
SourceLines  == LinesOf({<<"ext">>, <<"stmt", "quit">>}, {"newline"})
FailingLines == LinesOf({<<"panic">>, <<"open", "bad">>}, {"newline"})

\* units that span lines, for the interactive loop: empty lines, one that continues on the
\* next, and one that opens a block and ends without a newline; a statement that continues
TypedLines == LinesOf({<<>>}, {"newline", "continued"}) \union LinesOf({<<"open">>}, {"none"})
OpenEnded  == LinesOf({<<"ext">>}, {"continued"})

CliLines == SourceLines \union FailingLines \union TypedLines \union OpenEnded

SomeSources ==
  UNION {[1..n -> SourceLines] : n \in 0..2} \union [1..1 -> FailingLines] \union [1..2 -> TypedLines]
    \union {<<c, e>> : c \in OpenEnded, e \in LinesOf({<<>>}, {"newline"})}
=============================================================================
