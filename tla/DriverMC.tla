------------------------------ MODULE DriverMC ------------------------------
(* Small instances of Driver: the lines that texts are made of. *)
EXTENDS Driver

\* an empty line without a newline is no line
LinesOf(items, ends) ==
  [items : items, end : ends] \ {[items |-> <<>>, end |-> "none"]}

\* blocks, comments and strings that span lines, in every arrangement
ShapeLines ==
  LinesOf({<<>>, <<"open", "stmt">>, <<"stmt", "close">>, <<"quote">>, <<"comment">>,
           <<"uncomment", "stmt">>}, LineEnd)

\* every way a unit can end
OutcomeLines ==
  LinesOf({<<"stmt", "fail", "stmt">>, <<"ext">>, <<"stmt", "bad">>, <<"cut">>,
           <<"stmt", "quit">>, <<"panic", "stmt">>, <<"open", "ext">>}, {"newline"})

UnitLines == ShapeLines \union OutcomeLines
StrictLines == LinesOf({<<"ext">>, <<"open", "ext">>, <<"stmt", "quit">>, <<"close">>}, {"newline"})
=============================================================================
