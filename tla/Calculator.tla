----------------------------- MODULE Calculator -----------------------------
(***************************************************************************)
(* What an embedding program may rely on (include/bc_core.h and            *)
(* docs/COMPATIBILITY.md): a session is a calculator that remembers what   *)
(* it has executed.  A call either evaluates its whole text, and then its  *)
(* answer tells how that ended, or is refused and changes nothing.         *)
(*                                                                         *)
(* This is the abstract specification of the C API and of the Web session: *)
(* it has no buffers, no units in progress and no columns.                 *)
(***************************************************************************)
EXTENDS Integers, Sequences, SequencesExt

CONSTANTS
  Texts,                \* what may be evaluated
  Writes,               \* what each kind of statement prints: a sequence of "char" and "newline"
  Policy,               \* the ways to treat extensions
  Whole(_),             \* whether a group of lines is complete
  Newlines(_),          \* how many newlines a group of lines has
  UnitResult(_, _, _)   \* what running a group prints and how it ends

VARIABLES
  front,        \* "C" or "Wasm" (never changes)
  alive,        \* whether there is a session
  journal,      \* what the session has executed since it was created or reset
  policy,       \* how it treats extensions
  answer        \* the last answer given

vars == <<front, alive, journal, policy, answer>>

None == [status |-> "none", out |-> <<>>, err |-> <<>>]
-----------------------------------------------------------------------------
(* The group that begins after line i, as in UnitStream, and what running it adds. *)
GroupEnd(lines, i) ==
  LET ends == {k \in (i + 1)..Len(lines) : Whole(SubSeq(lines, i + 1, k))}
  IN  IF ends = {} THEN Len(lines) ELSE CHOOSE k \in ends : \A l \in ends : k <= l

GroupResult(lines, i, how) ==
  UnitResult(SubSeq(lines, i + 1, GroupEnd(lines, i)), 1 + Newlines(SubSeq(lines, 1, i)), how)

Nothing == [ran |-> <<>>, reports |-> <<>>, errors |-> 0]

Added(r) ==
  [ran |-> [j \in DOMAIN r.ran |-> r.ran[j].item], reports |-> r.reports,
   errors |-> IF r.outcome = "Failed" THEN 1 ELSE 0]

Then(first, rest) ==
  [ran |-> first.ran \o rest.ran, reports |-> first.reports \o rest.reports,
   errors |-> first.errors + rest.errors]

(* Running one group after the other until `quit`: what the lines after the first i give. *)
Remaining(lines, how) ==
  LET Rest[i \in 0..Len(lines)] ==
        IF i = Len(lines) THEN Nothing
        ELSE LET r == GroupResult(lines, i, how)
             IN  IF r.outcome = "Quit" THEN Added(r)
                 ELSE Then(Added(r), Rest[GroupEnd(lines, i)])
  IN  Rest

Evaluated(lines, how) == Remaining(lines, how)[0]

Output(ran) == FlattenSeq([i \in DOMAIN ran |-> Writes[ran[i]]])

(* The answers a C program may get: an error is always told, and output is never given in *)
(* part.  A browser gets the diagnostics, or else the output.                              *)
AnswersTo(result) ==
  LET output == Output(result.ran)
      Answer(status, out, err) == [status |-> status, out |-> out, err |-> err]
  IN  CASE front = "Wasm" /\ result.reports # <<>> -> {Answer("Ok", <<>>, result.reports)}
        [] front = "Wasm" /\ result.reports = <<>> -> {Answer("Ok", output, <<>>)}
        [] front = "C" /\ result.errors > 0 ->
             {Answer("ErrExecution", out, err) : out \in {<<>>, output}, err \in {<<>>, result.reports}}
        [] front = "C" /\ result.errors = 0 ->
             {Answer("Ok", output, err) : err \in {<<>>, result.reports}}
               \union {Answer("ErrBufferTooSmall", <<>>, <<>>)}
-----------------------------------------------------------------------------
Init ==
  /\ front \in {"C", "Wasm"}
  /\ alive = FALSE /\ journal = <<>> /\ policy = "Allow" /\ answer = None

Evaluate ==
  /\ alive
  /\ \E lines \in Texts :
       LET result == Evaluated(lines, policy)
       IN  journal' = journal \o result.ran /\ answer' \in AnswersTo(result)
  /\ UNCHANGED <<front, alive, policy>>

(* A calculation of its own, which no session sees. *)
Calculate ==
  /\ \E lines \in Texts : answer' \in AnswersTo(Evaluated(lines, "Allow"))
  /\ UNCHANGED <<front, alive, journal, policy>>

Refuse ==
  /\ front = "C"
  /\ \E status \in {"ErrNullPtr", "ErrBufferTooSmall", "ErrExecution"} :
       answer' = [None EXCEPT !.status = status]
  /\ UNCHANGED <<front, alive, journal, policy>>

SetPolicy ==
  /\ alive
  /\ policy' \in Policy /\ answer' = [None EXCEPT !.status = "Ok"]
  /\ UNCHANGED <<front, alive, journal>>

SetScale ==
  /\ alive /\ front = "Wasm"
  /\ journal' = Append(journal, "scale") /\ answer' = None
  /\ UNCHANGED <<front, alive, policy>>

(* A session that is created, reset or destroyed remembers nothing. *)
Begin ==
  /\ alive' \in BOOLEAN
  /\ journal' = <<>> /\ policy' = "Allow" /\ answer' = None
  /\ UNCHANGED front

Next == Evaluate \/ Calculate \/ Refuse \/ SetPolicy \/ SetScale \/ Begin

Spec == Init /\ [][Next]_vars
=============================================================================
