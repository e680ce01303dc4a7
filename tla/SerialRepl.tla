----------------------------- MODULE SerialRepl -----------------------------
(***************************************************************************)
(* The serial consoles: run_repl_with of bc_zephyr and the main loop of    *)
(* m5stamp_c3.  Keys arrive one at a time; the loop edits a line of fixed  *)
(* size, shows what it does on a terminal and hands each line to the       *)
(* UnitAccumulator.  A printable character is a backslash or stands for an *)
(* item of InputText.  Keys that are ignored (control characters, an erase *)
(* key on an empty line, a character when the line is full) change nothing.*)
(***************************************************************************)
EXTENDS InputText

CONSTANTS
  Chars,           \* the characters typed: items of InputText and "backslash"
  REPL_MAX_LINE,   \* the longest line accepted
  MaxRows,         \* bound on the rows of the terminal
  MaxShown         \* bound on the characters that stand on it

ASSUME SerialConstantsOK ==
  /\ Chars \subseteq Item \union {"backslash"}
  /\ {REPL_MAX_LINE, MaxRows, MaxShown} \subseteq Nat /\ MaxRows > 0

VARIABLES
  on_quit,        \* what the loop does after quit: "ends" (Zephyr) or "goes_on" (m5stamp); never changes
  running,        \* FALSE when the loop has ended or a panic has halted the board
  line_buf,       \* the line being typed
  buf, start_line, next_line,   \* UnitAccumulator
  rows,           \* the terminal: the last row is the one being typed
  ran             \* history variable: the units run, with the row each was complete at

acc  == <<buf, start_line, next_line>>
vars == <<on_quit, running, line_buf, acc, rows, ran>>

Prompt == {"bc", "more"}   \* "bc> " and "... "
Row    == [prompt : Prompt, text : Seq(Chars), entered : BOOLEAN]
Lines  == [items : Seq(Item), end : {"newline", "continued"}]

(* The text of a row as a line: a backslash at its end continues it, anywhere else it is no token. *)
AsItems(text) == [i \in DOMAIN text |-> IF text[i] = "backslash" THEN "bad" ELSE text[i]]
AsLine(text)  == IF text # <<>> /\ Last(text) = "backslash"
                 THEN [items |-> AsItems(Front(text)), end |-> "continued"]
                 ELSE [items |-> AsItems(text), end |-> "newline"]

ReplTypeOK ==
  /\ on_quit \in {"ends", "goes_on"} /\ running \in BOOLEAN
  /\ line_buf \in Seq(Chars) /\ Len(line_buf) <= REPL_MAX_LINE
  /\ buf \in Seq(Lines) /\ start_line \in Nat \ {0} /\ next_line \in Nat \ {0}
  /\ rows \in Seq(Row) /\ rows # <<>>
  /\ ran \in Seq([lines : Seq(Lines), first : Nat \ {0}, row : 1..Len(rows)])
-----------------------------------------------------------------------------
(* What the loop shows: the echo of a character, an erased character, a new row. *)
Current   == Len(rows)
Echo(c)   == rows' = [rows EXCEPT ![Current].text = Append(@, c)]
Backspace == rows' = [rows EXCEPT ![Current].text = SubSeq(@, 1, Len(@) - 1)]
EndRow(entered, prompts) ==
  rows' = [rows EXCEPT ![Current].entered = entered]
            \o [i \in DOMAIN prompts |-> [prompt |-> prompts[i], text |-> <<>>, entered |-> FALSE]]

Shown == FoldLeft(LAMBDA n, row : n + Len(row.text), 0, rows)

(* Mutants of TypeChar: a character that does not fit is echoed all the same, or is kept. *)
TypeCharEchoesAll(c) ==
  /\ running /\ Shown < MaxShown
  /\ Echo(c)
  /\ line_buf' = IF Len(line_buf) < REPL_MAX_LINE THEN Append(line_buf, c) ELSE line_buf
  /\ UNCHANGED <<on_quit, running, acc, ran>>

TypeCharUnlimited(c) ==
  /\ running /\ Len(line_buf) <= REPL_MAX_LINE /\ Shown < MaxShown
  /\ line_buf' = Append(line_buf, c)
  /\ Echo(c)
  /\ UNCHANGED <<on_quit, running, acc, ran>>

TypeChar(c) ==
  /\ running /\ Len(line_buf) < REPL_MAX_LINE /\ Shown < MaxShown
  /\ line_buf' = Append(line_buf, c)
  /\ Echo(c)
  /\ UNCHANGED <<on_quit, running, acc, ran>>

Erase ==
  /\ running /\ line_buf # <<>>
  /\ line_buf' = Front(line_buf)
  /\ Backspace
  /\ UNCHANGED <<on_quit, running, acc, ran>>

(* Mutants of Interrupt: the lines of an open block stay; the accumulator is replaced by a  *)
(* new one, which counts from 1 again.                                                      *)
InterruptKeepsUnit ==
  /\ running /\ Len(rows) < MaxRows
  /\ line_buf' = <<>>
  /\ EndRow(FALSE, <<"bc">>)
  /\ UNCHANGED <<on_quit, running, acc, ran>>

InterruptRestartsLines ==
  /\ running /\ Len(rows) < MaxRows
  /\ line_buf' = <<>> /\ buf' = <<>> /\ start_line' = 1 /\ next_line' = 1
  /\ EndRow(FALSE, <<"bc">>)
  /\ UNCHANGED <<on_quit, running, ran>>

(* Ctrl+C cancels the line and the unit it belongs to; line numbers go on. *)
Interrupt ==
  /\ running /\ Len(rows) < MaxRows
  /\ line_buf' = <<>> /\ buf' = <<>>
  /\ EndRow(FALSE, <<"bc">>)
  /\ UNCHANGED <<on_quit, running, start_line, next_line, ran>>

(* Mutant of PromptAfter: the prompt tells of the lines that waited before this one. *)
PromptBefore(lines) == IF buf = <<>> THEN "bc" ELSE "more"

PromptAfter(lines) == IF lines = <<>> THEN "bc" ELSE "more"

(* Carriage return or line feed: the line goes to the accumulator, a complete unit is run,  *)
(* and the next prompt tells whether lines wait for more.                                   *)
Enter ==
  /\ running /\ Len(rows) < MaxRows
  /\ LET lines   == Append(buf, AsLine(line_buf))
         first   == IF buf = <<>> THEN next_line ELSE start_line
         outcome == UnitResult(lines, first, "Allow").outcome
     IN  /\ start_line' = first /\ next_line' = next_line + 1
         /\ \/ /\ ~Whole(lines)
               /\ buf' = lines
               /\ EndRow(TRUE, <<PromptAfter(lines)>>)
               /\ UNCHANGED <<running, ran>>
            \/ /\ Whole(lines)
               /\ buf' = <<>>
               /\ ran' = Append(ran, [lines |-> lines, first |-> first, row |-> Current])
               /\ running' = (outcome # "Panicked" /\ ~(outcome = "Quit" /\ on_quit = "ends"))
               /\ EndRow(TRUE, IF running' THEN <<PromptAfter(<<>>)>> ELSE <<>>)
  /\ line_buf' = <<>>
  /\ UNCHANGED on_quit

Init ==
  /\ on_quit \in {"ends", "goes_on"} /\ running = TRUE
  /\ line_buf = <<>>
  /\ buf = <<>> /\ start_line = 1 /\ next_line = 1
  /\ rows = <<[prompt |-> "bc", text |-> <<>>, entered |-> FALSE]>>
  /\ ran = <<>>

Next == (\E c \in Chars : TypeChar(c)) \/ Erase \/ Interrupt \/ Enter
Spec == Init /\ [][Next]_vars
-----------------------------------------------------------------------------
(* Properties.  The user knows only the terminal: a group of rows begins at a "bc".       *)
Begin(k) == CHOOSE j \in 1..k : rows[j].prompt = "bc" /\ \A i \in (j + 1)..k : rows[i].prompt # "bc"
Group(k) == [j \in 1..(k - Begin(k) + 1) |-> AsLine(rows[Begin(k) + j - 1].text)]

(* What is run is what is shown, from the last "bc" on, whatever was erased, cancelled or *)
(* cut off by the limit before (lib.rs 345, 361, 369).                                      *)
ExecutedIsShown == \A i \in DOMAIN ran : ran[i].lines = Group(ran[i].row)

(* Every group of rows that is complete is run, once, in order: the prompt never says that  *)
(* a line began something new while it continued something else, or the other way round.    *)
GroupsRunOnce ==
  /\ {ran[i].row : i \in DOMAIN ran} = {k \in DOMAIN rows : rows[k].entered /\ Whole(Group(k))}
  /\ \A i, j \in DOMAIN ran : i < j => ran[i].row < ran[j].row

(* Diagnostics count the lines entered, the ones cancelled with their unit included, and    *)
(* not the ones cancelled before they were entered.                                         *)
EnteredBefore(k) == Cardinality({j \in 1..(k - 1) : rows[j].entered})
NumbersFollowRows == \A i \in DOMAIN ran : ran[i].first = 1 + EnteredBefore(Begin(ran[i].row))

(* The inductive invariant: the row being typed shows the line buffer, the rows of its      *)
(* group before it show the accumulator, and the counters count the rows entered.           *)
ReplInv ==
  /\ ReplTypeOK /\ rows[1].prompt = "bc"
  /\ running =>
       /\ rows[Current].text = line_buf /\ ~rows[Current].entered
       /\ Group(Current) = Append(buf, AsLine(line_buf))
       /\ next_line = 1 + EnteredBefore(Current)
       /\ buf # <<>> => start_line = 1 + EnteredBefore(Begin(Current))
  /\ ExecutedIsShown /\ GroupsRunOnce /\ NumbersFollowRows
=============================================================================
