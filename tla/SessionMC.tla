----------------------------- MODULE SessionMC -----------------------------
(* Small instances of Session: the texts that are evaluated. *)
EXTENDS Session

Line(items, end) == [items |-> items, end |-> end]

\* a string without a newline, a failure after some output, the end of the program after some
\* output, a block that ends nowhere, extensions whose value ends a line; with and without a
\* newline at the end
Fragment == Line(<<"stmt">>, "none")

SessionCodes ==
  { <<>>, <<Fragment>>,
    <<Line(<<"stmt", "fail", "stmt">>, "newline"), Line(<<"ext">>, "newline")>>,
    <<Line(<<"ext">>, "newline"), Line(<<"stmt", "quit">>, "none")>>,
    <<Line(<<"open">>, "newline"), Fragment>> }

SessionLines ==
  [items : {<<>>, <<"stmt">>, <<"ext">>, <<"stmt", "quit">>, <<"open">>, <<"stmt", "fail", "stmt">>},
   end : {"newline", "none"}]

\* as many characters as fit a line
StatementWrites ==
  [s \in Statements |-> CASE s = "stmt" -> <<"char", "char">>
                          [] s = "ext"  -> <<"char", "newline">>
                          [] OTHER      -> <<"char">>]
=============================================================================
