----------------------------- MODULE NumbersMC -----------------------------
(* Constants to check Numbers with: literals of up to two digits and the point anywhere in  *)
(* or around them, and one that is longer than BC_SCALE_MAX allows.                         *)
EXTENDS MathLib

SomeLiterals ==
  {[int |-> l[1], frac |-> l[2]] :
     l \in { <<<<3>>, <<>>>>, <<<<15>>, <<>>>>, <<<<>>, <<15>>>>, <<<<1, 0>>, <<>>>>, <<<<9>>, <<2>>>>,
             <<<<>>, <<0, 1>>>>, <<<<>>, <<7, 11>>>>, <<<<>>, <<0, 0, 0, 0, 1>>>> }}
=============================================================================
