---------------------------- MODULE EvaluatorMC ----------------------------
(* Small instances of Evaluator.  Which headers and register ranges exist is chosen here;  *)
(* the names and the bounds on nesting are in the cfg files.                               *)
EXTENDS Evaluator

NoRegisters == [r \in {} |-> 0]
Header(params, autos) == [params |-> params, autos |-> autos]

NoLocals == {Header(<<>>, <<>>)}

\* an array passed by value next to a scalar; a parameter and an auto of the same name
ScopingHeaders == {Header(<<"m", "x">>, <<>>), Header(<<"x">>, <<"x">>)}

OneNameHeaders == {Header(<<"x">>, <<>>), Header(<<>>, <<"x">>)}

SignedValues == -1..3
IbaseMin == [r \in {"ibase"} |-> 1]
IbaseMax == [r \in {"ibase"} |-> 2]
=============================================================================
