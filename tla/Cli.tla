-------------------------------- MODULE Cli --------------------------------
(***************************************************************************)
(* The command line program (bc_cli/src/main.rs): its options, the sources *)
(* it reads in turn, the interactive loop, the Ctrl+C handler thread that  *)
(* runs beside it, and the status it exits with.  One source at a time is  *)
(* processed by the actions of Driver.                                     *)
(*                                                                         *)
(* -l is left out: it chooses functions and a scale, which nothing here    *)
(* depends on.                                                             *)
(***************************************************************************)
EXTENDS Driver

CONSTANTS
  Sources,      \* the texts of files and of standard input
  Options,      \* the options given: subset of {"-s", "-w", "invalid"}
  MaxArgs,      \* bound on the number of arguments
  Faults        \* what may go wrong at the terminal: subset of {"interrupt", "read"}

ASSUME CliConstantsOK ==
  /\ Sources \subseteq UNION {[1..n -> Lines] : n \in 0..MaxLines}
  /\ Options \subseteq {"-s", "-w", "invalid"} /\ MaxArgs \in Nat /\ Faults \subseteq {"interrupt", "read"}
  /\ Policies = Policy

VARIABLES
  args,         \* the arguments not yet looked at
  files,        \* how many file operands are waiting
  stage,        \* "args", "open" (between sources), "file", "stdin", "exited"
  interactive,  \* whether standard input and output are terminals (never changes)
  prompt,       \* the interactive loop: "top", "waiting" in read_line, "typed"
  total,        \* run_app's `errors`
  status,       \* the exit status
  ctrl_c,       \* CTRL_C_PRESSED
  handler,      \* the handler thread: "idle", "exiting" after it set the flag
  given,        \* history variable: the options given
  trouble,      \* history variable: an option or a source was refused
  resumed       \* history variable: how many lines had been read at the last interrupt seen

process == <<args, files, interactive, given>>
outcome == <<total, status, trouble>>
signal  == <<ctrl_c, handler>>
cliVars == <<vars, process, stage, prompt, outcome, signal, resumed>>

CliTypeOK ==
  /\ args \in Seq(Options \union {"file"}) /\ files \in Nat
  /\ stage \in {"args", "open", "file", "stdin", "exited"}
  /\ interactive \in BOOLEAN /\ prompt \in {"top", "waiting", "typed"}
  /\ total \in Nat /\ status \in {0, 1}
  /\ ctrl_c \in BOOLEAN /\ handler \in {"idle", "exiting"}
  /\ given \subseteq Options /\ trouble \in BOOLEAN /\ resumed \in 0..MaxLines
-----------------------------------------------------------------------------
(* run_app: options *)

Exit(s) == stage' = "exited" /\ status' = s

(* Mutant of TakeOption: the last of -s and -w wins. *)
TakeLastOption ==
  /\ stage = "args" /\ args # <<>> /\ Head(args) \in {"-s", "-w"}
  /\ policy' = IF Head(args) = "-s" THEN "Reject" ELSE "Warn"
  /\ args' = Tail(args) /\ given' = given \union {Head(args)}
  /\ UNCHANGED <<text, gathers, phase, read, acc, units, summary, output, files, interactive,
                 stage, prompt, outcome, signal, resumed>>

TakeOption ==
  /\ stage = "args" /\ args # <<>> /\ Head(args) \in {"-s", "-w"}
  /\ policy' = IF Head(args) = "-s" THEN "Reject"
               ELSE IF policy = "Allow" THEN "Warn" ELSE policy
  /\ args' = Tail(args) /\ given' = given \union {Head(args)}
  /\ UNCHANGED <<text, gathers, phase, read, acc, units, summary, output, files, interactive,
                 stage, prompt, outcome, signal, resumed>>

TakeFile ==
  /\ stage = "args" /\ args # <<>> /\ Head(args) = "file"
  /\ files' = files + 1 /\ args' = Tail(args)
  /\ UNCHANGED <<vars, interactive, given, stage, prompt, outcome, signal, resumed>>

RefuseOption ==
  /\ stage = "args" /\ args # <<>> /\ Head(args) = "invalid"
  /\ Exit(1) /\ trouble' = TRUE
  /\ UNCHANGED <<vars, process, prompt, total, signal, resumed>>

(* The evaluator and the Ctrl+C handler exist from here on. *)
Start ==
  /\ stage = "args" /\ args = <<>>
  /\ stage' = "open"
  /\ UNCHANGED <<vars, process, prompt, outcome, signal, resumed>>
-----------------------------------------------------------------------------
(* run_app: one source after the other, each with an accumulator and a summary of its own *)

OpenSource ==
  /\ text' \in Sources /\ read' = 0 /\ phase' = "reading"
  /\ buf' = <<>> /\ start_line' = 1 /\ next_line' = 1 /\ from' = 0
  /\ units' = <<>>
  /\ errors' = 0 /\ quit' = FALSE
  /\ ran' = <<>> /\ resumed' = 0
  /\ UNCHANGED <<policy, gathers, reports>>

(* Mutant of OpenFile: the same file is opened forever. *)
OpenFileAgain ==
  /\ stage = "open" /\ files > 0
  /\ OpenSource /\ IsText(text')
  /\ stage' = "file"
  /\ UNCHANGED <<process, prompt, outcome, signal>>

OpenFile ==
  /\ stage = "open" /\ files > 0
  /\ OpenSource /\ IsText(text')
  /\ files' = files - 1 /\ stage' = "file"
  /\ UNCHANGED <<args, interactive, given, prompt, outcome, signal>>

(* An unreadable file, or standard input that is not a text, ends the program. *)
RefuseSource ==
  /\ stage = "open" /\ (files = 0 => ~interactive)
  /\ Exit(1) /\ trouble' = TRUE
  /\ UNCHANGED <<vars, process, prompt, total, signal, resumed>>

(* At a terminal a line may end without a newline and be followed by others. *)
OpenStdin ==
  /\ stage = "open" /\ files = 0
  /\ OpenSource /\ (interactive \/ IsText(text'))
  /\ stage' = "stdin"
  /\ UNCHANGED <<process, prompt, outcome, signal>>

(* Mutants of CloseSource: only the errors of the last source count; `quit` in a file ends *)
(* only that file.                                                                         *)
CloseForgetsErrors ==
  /\ stage \in {"file", "stdin"} /\ phase = "done"
  /\ total' = errors
  /\ \/ (quit \/ stage = "stdin") /\ Exit(IF total' > 0 THEN 1 ELSE 0)
     \/ stage = "file" /\ ~quit /\ stage' = "open" /\ UNCHANGED status
  /\ UNCHANGED <<vars, process, prompt, trouble, signal, resumed>>

CloseIgnoresQuit ==
  /\ stage \in {"file", "stdin"} /\ phase = "done"
  /\ total' = total + errors
  /\ \/ stage = "stdin" /\ Exit(IF total' > 0 THEN 1 ELSE 0)
     \/ stage = "file" /\ stage' = "open" /\ UNCHANGED status
  /\ UNCHANGED <<vars, process, prompt, trouble, signal, resumed>>

CloseSource ==
  /\ stage \in {"file", "stdin"} /\ phase = "done"
  /\ total' = total + errors
  /\ \/ (quit \/ stage = "stdin") /\ Exit(IF total' > 0 THEN 1 ELSE 0)
     \/ stage = "file" /\ ~quit /\ stage' = "open" /\ UNCHANGED status
  /\ UNCHANGED <<vars, process, prompt, trouble, signal, resumed>>
-----------------------------------------------------------------------------
(* Processing one source *)

AtTerminal == stage = "stdin" /\ interactive
Unattended == stage = "file" \/ (stage = "stdin" /\ ~interactive)

(* run_non_interactive_block, and the end of the interactive loop *)
Process ==
  /\ \/ Unattended /\ (PushLine \/ Finish)
     \/ (Unattended \/ AtTerminal) /\ (RunUnit \/ Done)
  /\ UNCHANGED <<process, stage, prompt, outcome, signal, resumed>>

(* run_interactive_loop: an interrupt seen before or after read_line drops the pending unit, *)
(* and the line just read.                                                                   *)
Waits == AtTerminal /\ phase = "reading" /\ units = <<>>

(* Mutant of SeeInterrupt: the pending unit is kept. *)
SeeInterruptKeepsUnit ==
  /\ Waits /\ prompt \in {"top", "typed"} /\ ctrl_c
  /\ ctrl_c' = FALSE /\ prompt' = "top"
  /\ read' = IF prompt = "typed" THEN read + 1 ELSE read
  /\ resumed' = read'
  /\ UNCHANGED <<input, phase, acc, units, summary, output, process, stage, outcome, handler>>

SeeInterrupt ==
  /\ Waits /\ prompt \in {"top", "typed"} /\ ctrl_c
  /\ ctrl_c' = FALSE /\ prompt' = "top"
  /\ buf' = <<>>
  /\ read' = IF prompt = "typed" THEN read + 1 ELSE read
  /\ resumed' = read'
  /\ UNCHANGED <<input, phase, start_line, next_line, from, units, summary, output,
                 process, stage, outcome, handler>>

AskLine ==
  /\ Waits /\ prompt = "top" /\ ~ctrl_c
  /\ prompt' = "waiting"
  /\ UNCHANGED <<vars, process, stage, outcome, signal, resumed>>

TypeLine ==
  /\ Waits /\ prompt = "waiting" /\ read < Len(text)
  /\ prompt' = "typed"
  /\ UNCHANGED <<vars, process, stage, outcome, signal, resumed>>

(* Mutant of EndSession: a read error leaves the loop at once. *)
EndSessionReturns ==
  /\ Waits /\ prompt = "waiting"
  /\ \/ read = Len(text) /\ TakeRest
     \/ /\ "read" \in Faults
        /\ phase' = "done" /\ buf' = <<>>
        /\ UNCHANGED <<input, read, start_line, next_line, from, units, summary, output>>
  /\ UNCHANGED <<process, stage, prompt, outcome, signal, resumed>>

(* read_line gives the end of the input, or an error (a line that is not UTF-8), which the *)
(* loop takes for the end.                                                                 *)
EndSession ==
  /\ Waits /\ prompt = "waiting"
  /\ read = Len(text) \/ "read" \in Faults
  /\ TakeRest
  /\ UNCHANGED <<process, stage, prompt, outcome, signal, resumed>>

PushTyped ==
  /\ Waits /\ prompt = "typed" /\ ~ctrl_c
  /\ PushLine
  /\ prompt' = "top"
  /\ UNCHANGED <<process, stage, outcome, signal, resumed>>
-----------------------------------------------------------------------------
(* handle_ctrlc_signal, on a thread of its own: the flag is set, then the process exits. *)

Interrupt ==
  /\ "interrupt" \in Faults /\ handler = "idle" /\ stage \notin {"args", "exited"}
  /\ handler' = "exiting" /\ ctrl_c' = TRUE
  /\ UNCHANGED <<vars, process, stage, prompt, outcome, resumed>>

HandlerExit ==
  /\ handler = "exiting" /\ stage # "exited"
  /\ Exit(0)
  /\ UNCHANGED <<vars, process, prompt, total, trouble, signal, resumed>>
-----------------------------------------------------------------------------
CliInit ==
  /\ \E n \in 0..MaxArgs : args \in [1..n -> Options \union {"file"}]
  /\ interactive \in BOOLEAN
  /\ files = 0 /\ stage = "args" /\ prompt = "top"
  /\ total = 0 /\ status = 0
  /\ ctrl_c = FALSE /\ handler = "idle"
  /\ given = {} /\ trouble = FALSE /\ resumed = 0
  /\ text = <<>> /\ policy = "Allow" /\ gathers = FALSE
  /\ phase = "reading" /\ read = 0
  /\ buf = <<>> /\ start_line = 1 /\ next_line = 1 /\ from = 0
  /\ units = <<>> /\ errors = 0 /\ quit = FALSE
  /\ ran = <<>> /\ reports = <<>>

Main ==
  \/ TakeOption \/ TakeFile \/ RefuseOption \/ Start
  \/ OpenFile \/ OpenStdin \/ RefuseSource \/ CloseSource
  \/ Process
  \/ SeeInterrupt \/ AskLine \/ PushTyped

User == TypeLine \/ EndSession \/ Interrupt

CliNext == Main \/ User \/ HandlerExit

CliSpec == CliInit /\ [][CliNext]_cliVars

(* The program's threads run; whether and when the user types is not known. *)
CliFairSpec == CliSpec /\ WF_cliVars(Main) /\ WF_cliVars(HandlerExit)
-----------------------------------------------------------------------------
(* Properties *)

AnyError == \E i \in DOMAIN reports : reports[i].kind # "warning"

(* The status is 0 exactly when all input was processed without an error and nothing was    *)
(* refused, as long as the handler thread takes no part; and with the handler running at any *)
(* point beside the main thread, a status of 1 still means an error that was reported or an  *)
(* option or source that was refused (main.rs 218, 288; COMPATIBILITY.md 3.1).  A read error *)
(* at a terminal counts as the end of the input, as in the code.                             *)
ExitStatusTells ==
  stage = "exited" =>
    /\ status = 1 => trouble \/ AnyError
    /\ handler = "idle" =>
         (status = 0 <=> ~trouble /\ ~AnyError /\ (~interactive => quit \/ read = Len(text)))

(* Whatever ends a source -- its end, or a read error at a terminal, which is taken for the *)
(* end -- the program read until then is run to its last statement, also the unit that was  *)
(* still waiting for another line (main.rs 192, 209; COMPATIBILITY.md 3.1).                 *)
InputRunToEnd ==
  LET whole == Parsed(SubSeq(text, 1, read))
  IN  /\ phase = "done" /\ stage \in {"file", "stdin"} /\ handler = "idle" /\ policy = "Allow"
      /\ whole.verdict = "ok" /\ \A j \in DOMAIN whole.stmts : whole.stmts[j].item \in {"stmt", "ext"}
      => errors = 0 /\ ran = Places(whole.stmts)

(* COMPATIBILITY.md 4: with -s, wherever it is among the arguments, no statement that uses *)
(* an extension is executed, in any source.                                                *)
StrictRefuses ==
  "-s" \in given => \A i \in DOMAIN ran : text[ran[i].line].items[ran[i].column] # "ext"

(* `quit` ends the program, not only its source: nothing is read or run after it.          *)
QuitIsFinal == [][quit => UNCHANGED <<text, read, files, ran, reports>>]_cliVars

(* Lines typed before an interrupt that the loop has seen are never run with later ones.   *)
InterruptedUnitDropped == \A i \in DOMAIN units : units[i].from >= resumed

(* Until an interrupt, a unit's number counts every newline read before it, also when lines *)
(* end without one and others follow (driver.rs 64, 68; main.rs 188).                        *)
LinesCounted == handler = "idle" => UnitsNumbered

(* Without a terminal the program ends by itself; at a terminal Ctrl+C ends it even while  *)
(* it waits for a line.                                                                    *)
ProgramEnds == (~interactive \/ handler = "exiting") ~> (stage = "exited")

(* The inductive invariant.  After an interrupt or a read error the text is no longer cut   *)
(* into whole units that follow each other, and the numbers are no longer those of Driver;  *)
(* what remains is that the buffer and each waiting unit are pieces of the text that begin  *)
(* after the last interrupt, and the numbers as long as there was none.                     *)
PiecesOK ==
  /\ resumed <= read /\ Len(text) <= MaxLines
  /\ buf # <<>> => resumed <= from /\ from < read /\ buf = Segment(from, read)
  /\ \A i \in DOMAIN units :
       /\ resumed <= units[i].from /\ UnitEnd(units[i]) <= Len(text)
       /\ units[i].lines = Segment(units[i].from, UnitEnd(units[i]))

NumbersOK ==
  handler = "idle" =>
    next_line = LineNumber(read) /\ (buf # <<>> => start_line = LineNumber(from)) /\ UnitsNumbered

StagesOK ==
  /\ ~gathers /\ phase # "crashed"
  /\ stage = "args" => handler = "idle" /\ phase = "reading" /\ ran = <<>> /\ reports = <<>> /\ total + errors = 0
  /\ prompt # "top" => stage \in {"stdin", "exited"} /\ interactive
  /\ prompt = "typed" => read < Len(text)
  /\ quit => phase = "done" /\ stage \notin {"args", "open"}
  /\ trouble => stage = "exited"
  /\ ctrl_c => handler = "exiting"
  /\ ~interactive /\ phase \in {"running", "done"} /\ ~quit => read = Len(text)

StrictOK ==
  /\ "-s" \in given => policy = "Reject"
  /\ policy = "Reject" => \A i \in DOMAIN ran : text[ran[i].line].items[ran[i].column] # "ext"

(* What was reported is what was counted, in the sources before and in this one.  With -s   *)
(* a unit that uses an extension and then quits is reported and not counted.                *)
Counted  == total + (IF stage \in {"file", "stdin"} THEN errors ELSE 0)
CountsOK == policy # "Reject" /\ (stage = "exited" => handler = "idle") => (Counted > 0 <=> AnyError)
StatusOK ==
  stage = "exited" =>
    /\ policy # "Reject" /\ status = 1 => trouble \/ AnyError
    /\ handler = "idle" =>
         \/ trouble /\ status = 1
         \/ ~trouble /\ phase = "done" /\ (status = 0 <=> total = 0)

CliInv ==
  /\ TypeOK /\ CliTypeOK /\ reports \in Seq([kind : {"error", "warning", "runtime"}, line : Int])
  /\ ran \in Seq([line : Nat, column : Nat])
  /\ PiecesOK /\ NumbersOK /\ StagesOK /\ StrictOK /\ CountsOK /\ StatusOK
=============================================================================
