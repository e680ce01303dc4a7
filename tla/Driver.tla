------------------------------- MODULE Driver -------------------------------
(***************************************************************************)
(* The input-unit driver of bc_core (driver.rs) on one source text: the    *)
(* UnitAccumulator, run_unit and the two loops around them.  run_source    *)
(* (C API, Zephyr, Wasm) cuts the whole text into units before it runs the *)
(* first; run_non_interactive_block of bc_cli runs each unit as soon as    *)
(* its last line is read.                                                  *)
(***************************************************************************)
EXTENDS InputText

CONSTANTS
  Lines,        \* the lines of source texts
  MaxLines,     \* bound on the lines of a text
  Policies      \* the extension policies in use

ASSUME DriverConstantsOK ==
  /\ Lines \subseteq [items : Seq(Item), end : LineEnd]
  /\ MaxLines \in Nat
  /\ Policies \subseteq Policy

VARIABLES
  text,         \* the source text (never changes)
  policy,       \* the evaluator's extension_policy (never changes)
  gathers,      \* TRUE: run_source; FALSE: run_non_interactive_block (never changes)
  phase,        \* "reading", "running" once the text has ended, "done", "crashed"
  read,         \* how many lines have been given to push_line
  buf, start_line, next_line,   \* UnitAccumulator
  units,        \* complete units that have not been run
  errors, quit, \* RunSummary
  ran,          \* the statements executed, as places in text
  reports,      \* the diagnostics printed
  from          \* history variable: how many lines precede the buffered ones

input   == <<text, policy, gathers>>
acc     == <<buf, start_line, next_line, from>>
summary == <<errors, quit>>
output  == <<ran, reports>>
vars    == <<input, phase, read, acc, units, summary, output>>

Unit == [lines : Seq(Lines), first : Nat \ {0}, from : Nat]

TypeOK ==
  /\ text \in Seq(Lines) /\ policy \in Policies /\ gathers \in BOOLEAN
  /\ phase \in {"reading", "running", "done", "crashed"}
  /\ read \in 0..Len(text)
  /\ buf \in Seq(Lines)
  /\ start_line \in Nat \ {0} /\ next_line \in Nat \ {0} /\ from \in Nat
  /\ units \in Seq(Unit)
  /\ errors \in Nat /\ quit \in BOOLEAN
-----------------------------------------------------------------------------
(* UnitAccumulator *)

Buffered(line) == Append(buf, line)

(* Mutant of StartLine: the first line of a unit is not remembered. *)
StartLineForgets == next_line

StartLine      == IF buf = <<>> THEN next_line ELSE start_line
From           == IF buf = <<>> THEN read ELSE from
Completes(line) == Whole(Buffered(line))

(* take: the buffer becomes a unit. *)
Taken(lines, first, start) == [lines |-> lines, first |-> first, from |-> start]

PushLine ==
  /\ phase = "reading" /\ read < Len(text)
  /\ gathers \/ units = <<>>
  /\ LET line == text[read + 1]
     IN  /\ next_line' = IF line.end = "none" THEN next_line ELSE next_line + 1
         /\ start_line' = StartLine /\ from' = From
         /\ \/ /\ Completes(line)
               /\ buf' = <<>> /\ units' = Append(units, Taken(Buffered(line), StartLine, From))
            \/ /\ ~Completes(line)
               /\ buf' = Buffered(line) /\ UNCHANGED units
  /\ read' = read + 1
  /\ UNCHANGED <<input, phase, summary, output>>

(* finish: what is left in the buffer at the end of the text is a unit too. *)
TakeRest ==
  /\ phase = "reading"
  /\ gathers \/ units = <<>>
  /\ phase' = "running"
  /\ units' = IF buf = <<>> THEN units ELSE Append(units, Taken(buf, start_line, from))
  /\ buf' = <<>>
  /\ UNCHANGED <<input, read, start_line, next_line, from, summary, output>>

Finish == read = Len(text) /\ TakeRest
-----------------------------------------------------------------------------
(* Running units *)

(* Mutant of Record: `quit` is noted but the loop goes on. *)
RecordGoesOn(result) ==
  \/ result = "Completed" /\ UNCHANGED <<phase, summary>>
  \/ /\ result = "Failed" \/ (result = "Panicked" /\ ~gathers)
     /\ errors' = errors + 1 /\ UNCHANGED <<phase, quit>>
  \/ result = "Quit" /\ quit' = TRUE /\ UNCHANGED <<phase, errors>>
  \/ result = "Panicked" /\ gathers /\ phase' = "crashed" /\ UNCHANGED summary

(* What the loop does with the outcome of a unit.  bc_cli catches a panic and counts it as *)
(* a failed unit; run_source lets it propagate.                                            *)
Record(result) ==
  \/ result = "Completed" /\ UNCHANGED <<phase, summary>>
  \/ /\ result = "Failed" \/ (result = "Panicked" /\ ~gathers)
     /\ errors' = errors + 1 /\ UNCHANGED <<phase, quit>>
  \/ result = "Quit" /\ quit' = TRUE /\ phase' = "done" /\ UNCHANGED errors
  \/ result = "Panicked" /\ gathers /\ phase' = "crashed" /\ UNCHANGED summary

RunUnit ==
  /\ phase \in {"reading", "running"} /\ units # <<>>
  /\ gathers => phase = "running"
  /\ LET unit   == Head(units)
         result == UnitResult(unit.lines, unit.first, policy)
         placed == [j \in DOMAIN result.ran |->
                     [line |-> unit.from + result.ran[j].line, column |-> result.ran[j].column]]
     IN  /\ ran' = ran \o placed
         /\ reports' = reports \o result.reports
         /\ Record(result.outcome)
  /\ units' = Tail(units)
  /\ UNCHANGED <<input, read, acc>>

Done ==
  /\ phase = "running" /\ units = <<>>
  /\ phase' = "done"
  /\ UNCHANGED <<input, read, acc, units, summary, output>>
-----------------------------------------------------------------------------
Init ==
  /\ \E n \in 0..MaxLines : text \in [1..n -> Lines]
  /\ IsText(text)
  /\ policy \in Policies /\ gathers \in BOOLEAN
  /\ phase = "reading" /\ read = 0
  /\ buf = <<>> /\ start_line = 1 /\ next_line = 1 /\ from = 0
  /\ units = <<>>
  /\ errors = 0 /\ quit = FALSE
  /\ ran = <<>> /\ reports = <<>>

Next == PushLine \/ Finish \/ RunUnit \/ Done

Spec == Init /\ [][Next]_vars
-----------------------------------------------------------------------------
(* Properties *)

(* Cutting a text into units loses nothing of a correct program: if the text parses as a   *)
(* whole, each unit parses and their statements are those of the whole, in order, although *)
(* the block scanner that cuts knows nothing of the grammar (driver.rs 63, 166).           *)
Correct ==
  LET whole == Parsed(text)
  IN  /\ policy = "Allow" /\ whole.verdict = "ok"
      /\ \A j \in DOMAIN whole.stmts : whole.stmts[j].item \in {"stmt", "ext"}
Places(stmts) == [j \in DOMAIN stmts |-> [line |-> stmts[j].line, column |-> stmts[j].column]]
CutsKeepPrograms == phase = "done" /\ Correct => errors = 0 /\ ran = Places(Parsed(text).stmts)

(* Every unit carries the number of its first line, counting the newlines before it,       *)
(* however many lines the units before it had (driver.rs 64, 68).                          *)
LineNumber(i) == 1 + Newlines(SubSeq(text, 1, i))
UnitsNumbered == \A i \in DOMAIN units : units[i].first = LineNumber(units[i].from)

(* COMPATIBILITY.md 3.1 and 4: a text in which an error is reported counts as failed.      *)
ErrorsCounted ==
  phase = "done" =>
    (errors > 0 <=> \E i \in DOMAIN reports : reports[i].kind \in {"error", "runtime"})

(* Both loops implement the same promise about units, wherever the text is cut and however *)
(* units end: no line is lost or run twice, and every diagnostic has its true line number. *)
Pending == IF buf = <<>> THEN read ELSE from
Position ==
  IF phase = "done" /\ ~quit THEN Len(text)
  ELSE IF units = <<>> THEN Pending ELSE Head(units).from

(* The inductive invariant: what the buffer, the line counters and the waiting units have   *)
(* to do with the text.  A unit is the shortest whole group of lines from where it begins,  *)
(* or the rest of the text; waiting units and the buffer follow each other without a gap.   *)
Segment(i, k) == SubSeq(text, i + 1, k)
IsUnit(i, k) ==
  /\ i < k /\ k <= Len(text)
  /\ \A l \in (i + 1)..(k - 1) : ~Whole(Segment(i, l))
  /\ Whole(Segment(i, k)) \/ k = Len(text)
UnitEnd(u) == u.from + Len(u.lines)

BufferOK ==
  buf # <<>> =>
    /\ from < read /\ buf = Segment(from, read) /\ start_line = LineNumber(from)
    /\ \A l \in (from + 1)..read : ~Whole(Segment(from, l))
UnitFits(u) ==
  /\ IsUnit(u.from, UnitEnd(u))
  /\ u.lines = Segment(u.from, UnitEnd(u))
  /\ u.first = LineNumber(u.from)
UnitsOK ==
  \A i \in DOMAIN units :
    /\ UnitFits(units[i])
    /\ UnitEnd(units[i]) = IF i < Len(units) THEN units[i + 1].from ELSE Pending
EndsOK ==
  /\ phase = "running" \/ (phase = "done" /\ ~quit) => read = Len(text) /\ buf = <<>>
  /\ quit => phase = "done"

IInv == TypeOK /\ next_line = LineNumber(read) /\ BufferOK /\ UnitsOK /\ EndsOK

(* How far a correct program has come: up to the first line that was not run, the parser of *)
(* the whole text has nothing open, and what was executed is what it has found so far.      *)
ParsedTo(i) == FoldLeft(ParseToken, Parser, Token(SubSeq(text, 1, i)))
CorrectSoFar ==
  Correct =>
    /\ errors = 0 /\ ~quit /\ phase # "crashed"
    /\ ParsedTo(Position).mode = "code" /\ ParsedTo(Position).depth = 0
    /\ ran = Places(ParsedTo(Position).stmts)

Stream == INSTANCE UnitStream WITH
            pos     <- Position,
            stopped <- quit \/ phase = "crashed"
ImplementsUnitStream == Stream!Spec
=============================================================================
