--------------------------- MODULE DynamicScope ---------------------------
(***************************************************************************)
(* What bc promises about names: dynamic scoping.  Each activation of a    *)
(* function has its own copies of its parameters and autos, the top level  *)
(* owns every name, and a name denotes the copy of the innermost           *)
(* activation that declares it.  An activation returns at most once, and   *)
(* nothing happens in it after that except leaving it.                     *)
(*                                                                         *)
(* This is the abstract specification of the evaluator's storage: it says  *)
(* nothing of stacks per name, of saving and restoring, or of flags.       *)
(***************************************************************************)
EXTENDS Integers, Sequences, SequencesExt

CONSTANTS
  Names,        \* every name, of either name space
  CellsOf,      \* for each name, the set of cells it has
  Values        \* the numbers

VARIABLE env    \* the activations, outermost first

FrameOf(n) == [CellsOf[n] -> Values]
Activations == [locals : UNION {[D -> UNION {FrameOf(n) : n \in Names}] : D \in SUBSET Names},
                returned : BOOLEAN, result : Values]

Declares(i, n) == n \in DOMAIN env[i].locals

(* The activation whose copy of n the running code sees. *)
Innermost(n) ==
  CHOOSE i \in DOMAIN env : Declares(i, n) /\ \A j \in DOMAIN env : Declares(j, n) => j <= i

Lookup(n) == env[Innermost(n)].locals[n]

Running == ~Last(env).returned

Init == env = << [locals   |-> [n \in Names |-> [c \in CellsOf[n] |-> 0]],
                  returned |-> FALSE, result |-> 0] >>

Write(n, c, v) ==
  /\ Running
  /\ env' = [env EXCEPT ![Innermost(n)].locals[n][c] = v]

Enter ==
  /\ Running
  /\ \E D \in SUBSET Names :
       \E locals \in {l \in [D -> UNION {FrameOf(n) : n \in D}] : \A n \in D : l[n] \in FrameOf(n)} :
         env' = Append(env, [locals |-> locals, returned |-> FALSE, result |-> 0])

Return(v) ==
  /\ Running /\ Len(env) > 1
  /\ env' = [env EXCEPT ![Len(env)].returned = TRUE, ![Len(env)].result = v]

Leave ==
  /\ Len(env) > 1
  /\ env' = Front(env)

(* Leaving nothing changed is a stuttering step, not a step of Next. *)
Next ==
  /\ env' # env
  /\ \/ \E n \in Names : \E c \in CellsOf[n], v \in Values : Write(n, c, v)
     \/ Enter \/ Leave
     \/ \E v \in Values : Return(v)

Spec == Init /\ [][Next]_env
=============================================================================
