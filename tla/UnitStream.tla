----------------------------- MODULE UnitStream -----------------------------
(***************************************************************************)
(* What bc promises about a source text (docs/COMPATIBILITY.md 3.1): the   *)
(* text is cut into its shortest complete groups of lines, each group is   *)
(* run once, in order, with the number of its first line, an error ends    *)
(* only its own group, and `quit` ends everything.                         *)
(*                                                                         *)
(* This is the abstract specification of driver.rs: it knows the whole     *)
(* text and keeps no buffer, no line counters and no queue.                *)
(***************************************************************************)
EXTENDS Integers, Sequences

CONSTANTS
  Lines, Policies,
  Whole(_),             \* whether a group of lines is complete
  Newlines(_),          \* how many newlines a group of lines has
  UnitResult(_, _, _)   \* what running a group prints and how it ends

VARIABLES
  text, policy,     \* the input; they never change
  pos,              \* how many lines have been run
  ran,              \* the statements executed
  reports,          \* the diagnostics printed
  errors,           \* how many units failed
  stopped           \* whether `quit` (or a crash) has ended the run

vars == <<text, policy, pos, ran, reports, errors, stopped>>

Group(i, k)  == SubSeq(text, i + 1, k)
NextGroup(i) ==
  LET ends == {k \in (i + 1)..Len(text) : Whole(Group(i, k))}
  IN  IF ends = {} THEN Len(text) ELSE CHOOSE k \in ends : \A l \in ends : k <= l

\* the number of the line after the first i, counting newlines
LineNumber(i) == 1 + Newlines(Group(0, i))

(* A token of a group that begins after line i, as a place in the whole text. *)
Placed(i, t) == [line |-> i + t.line, column |-> t.column]

Init ==
  /\ text \in Seq(Lines) /\ policy \in Policies
  /\ pos = 0
  /\ ran = <<>> /\ reports = <<>> /\ errors = 0
  /\ stopped = FALSE

RunGroup ==
  /\ ~stopped /\ pos < Len(text)
  /\ pos' = NextGroup(pos)
  /\ LET result == UnitResult(Group(pos, pos'), LineNumber(pos), policy)
     IN  /\ ran' = ran \o [j \in DOMAIN result.ran |-> Placed(pos, result.ran[j])]
         /\ reports' = reports \o result.reports
         /\ \/ /\ result.outcome = "Completed"
               /\ UNCHANGED <<errors, stopped>>
            \/ /\ result.outcome \in {"Failed", "Panicked"}
               /\ errors' = errors + 1 /\ UNCHANGED stopped
            \/ /\ result.outcome \in {"Quit", "Panicked"}
               /\ stopped' = TRUE /\ UNCHANGED errors
  /\ UNCHANGED <<text, policy>>

Next == RunGroup
Spec == Init /\ [][Next]_vars
=============================================================================
