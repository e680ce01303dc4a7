----------------------------- MODULE Cli_proofs -----------------------------
(***************************************************************************)
(* Proofs about Cli, for any options and sources, any set of lines and any *)
(* interrupts: what is run is what stands in the text after the last       *)
(* interrupt, with its true line numbers, `quit` is final, -s refuses      *)
(* extensions, and the exit status tells of every error counted.           *)
(***************************************************************************)
EXTENDS Cli, Driver_proofs

(* What CliInv says of the source that is processed, and of the program around it. *)
SourceOK ==
  /\ TypeOK /\ reports \in Seq(Reports) /\ ran \in Seq([line : Nat, column : Nat])
  /\ PiecesOK /\ NumbersOK /\ resumed \in Nat
ProgramOK == CliTypeOK /\ StagesOK /\ StrictOK /\ CountsOK /\ StatusOK

LEMMA CliInvParts == CliInv <=> SourceOK /\ ProgramOK
<1>1. CliTypeOK => resumed \in Nat
  BY DriverConstantsOK DEF CliTypeOK
<1> QED
  BY <1>1 DEF CliInv, SourceOK, ProgramOK, Reports
-----------------------------------------------------------------------------
(* The source *)

LEMMA SourceFacts ==
  ASSUME SourceOK
  PROVE  /\ text \in Seq(Lines) /\ Len(text) \in Nat /\ read \in Nat /\ read <= Len(text)
         /\ buf \in Seq(Lines) /\ from \in Nat /\ units \in Seq(Unit)
         /\ start_line \in Nat \ {0} /\ next_line \in Nat \ {0} /\ errors \in Nat
BY DEF SourceOK, TypeOK

(* Steps that leave the source alone. *)
LEMMA SourceKept ==
  ASSUME SourceOK, text' = text, policy' \in Policies, UNCHANGED <<gathers, phase, read, acc, units, summary>>,
         UNCHANGED output, resumed' = resumed, handler' = "idle" => handler = "idle"
  PROVE  SourceOK'
<1>1. /\ text' = text /\ read' = read /\ buf' = buf /\ from' = from /\ units' = units
      /\ start_line' = start_line /\ next_line' = next_line /\ errors' = errors /\ quit' = quit
      /\ phase' = phase /\ gathers' = gathers /\ ran' = ran /\ reports' = reports
  BY DEF acc, summary, output
<1>2. TypeOK'
  BY <1>1 DEF SourceOK, TypeOK
<1>3. PiecesOK'
  BY <1>1 DEF SourceOK, PiecesOK, Segment, UnitEnd
<1>4. NumbersOK'
  BY <1>1 DEF SourceOK, NumbersOK, UnitsNumbered, LineNumber
<1> QED
  BY <1>1, <1>2, <1>3, <1>4 DEF SourceOK

(* What push_line takes, also after an interrupt. *)
LEMMA PushedIs ==
  ASSUME SourceOK, read < Len(text)
  PROVE  /\ text[read + 1] \in Lines
         /\ From \in Nat /\ From <= read /\ resumed <= From /\ StartLine \in Nat \ {0}
         /\ Buffered(text[read + 1]) = Segment(From, read + 1)
         /\ Segment(From, read + 1) \in Seq(Lines)
         /\ Len(Segment(From, read + 1)) = read + 1 - From
         /\ handler = "idle" => StartLine = LineNumber(From)
<1>1. /\ text \in Seq(Lines) /\ Len(text) \in Nat /\ read \in Nat /\ from \in Nat
      /\ start_line \in Nat \ {0} /\ next_line \in Nat \ {0} /\ buf \in Seq(Lines)
      /\ text[read + 1] \in Lines
  BY SourceFacts
<1>2. resumed <= read /\ (buf # <<>> => resumed <= from /\ from < read /\ buf = SubSeq(text, from + 1, read))
  BY DEF SourceOK, PiecesOK, Segment
<1>3. From \in Nat /\ From <= read /\ resumed <= From /\ StartLine \in Nat \ {0}
  BY <1>1, <1>2 DEF From, StartLine
<1>4. handler = "idle" => StartLine = LineNumber(From)
  BY DEF SourceOK, NumbersOK, From, StartLine
<1>5. Buffered(text[read + 1]) = SubSeq(text, From + 1, read + 1)
  <2>1. CASE buf = <<>>
    <3>1. SubSeq(text, read + 1, read) = <<>>
      BY <1>1, SubSeqEmpty
    <3>2. SubSeq(text, read + 1, read + 1) = Append(SubSeq(text, read + 1, read), text[read + 1])
      BY <1>1, SegmentAppend
    <3>3. From = read
      BY <2>1 DEF From
    <3> QED
      BY <2>1, <3>1, <3>2, <3>3 DEF Buffered
  <2>2. CASE buf # <<>>
    <3>1. SubSeq(text, from + 1, read + 1) = Append(buf, text[read + 1])
      BY SMTT(30), <1>1, <1>2, <2>2, SegmentAppend
    <3>2. From = from
      BY <2>2 DEF From
    <3> QED
      BY <3>1, <3>2 DEF Buffered
  <2> QED
    BY <2>1, <2>2
<1>6. /\ SubSeq(text, From + 1, read + 1) \in Seq(Lines)
      /\ Len(SubSeq(text, From + 1, read + 1)) = read + 1 - From
  BY <1>1, <1>3, SegmentTyped
<1> QED
  BY <1>1, <1>3, <1>4, <1>5, <1>6 DEF Segment

(* A unit more that is a piece of the text. *)
LEMMA PiecesGrow ==
  ASSUME SourceOK, NEW u \in Unit, units' = Append(units, u), text' = text, resumed' = resumed,
         resumed <= u.from, UnitEnd(u) <= Len(text), u.lines = Segment(u.from, UnitEnd(u)),
         handler = "idle" => u.first = LineNumber(u.from),
         handler' = handler
  PROVE  /\ units' \in Seq(Unit)
         /\ \A i \in DOMAIN units' :
              /\ resumed' <= units'[i].from /\ UnitEnd(units'[i]) <= Len(text)
              /\ units'[i].lines = Segment(units'[i].from, UnitEnd(units'[i]))
         /\ handler = "idle" => \A i \in DOMAIN units' : units'[i].first = LineNumber(units'[i].from)
<1>1. /\ units \in Seq(Unit) /\ Len(units) \in Nat /\ DOMAIN units = 1..Len(units)
      /\ units' \in Seq(Unit) /\ DOMAIN units' = 1..(Len(units) + 1)
      /\ \A i \in 1..Len(units) : units'[i] = units[i]
      /\ units'[Len(units) + 1] = u
  BY SourceFacts, AppendEntries
<1>2. \A i \in DOMAIN units :
        /\ resumed <= units[i].from /\ UnitEnd(units[i]) <= Len(text)
        /\ units[i].lines = Segment(units[i].from, UnitEnd(units[i]))
  BY DEF SourceOK, PiecesOK
<1>3. handler = "idle" => \A i \in DOMAIN units : units[i].first = LineNumber(units[i].from)
  BY DEF SourceOK, NumbersOK, UnitsNumbered
<1>4. ASSUME NEW i \in DOMAIN units'
      PROVE  (i \in DOMAIN units /\ units'[i] = units[i]) \/ units'[i] = u
  <2>1. i = Len(units) + 1 \/ i \in 1..Len(units)
    BY <1>1
  <2> QED
    BY <1>1, <2>1
<1> QED
  BY <1>1, <1>2, <1>3, <1>4

(* Steps that read a line, end the source, run a unit, and drop one. *)
LEMMA PushSource ==
  ASSUME SourceOK, PushLine, resumed' = resumed, handler' = handler
  PROVE  SourceOK'
<1>1. PICK line, f, n, r : line = text[read + 1] /\ f = From /\ n = StartLine /\ r = read + 1
  OBVIOUS
<1>2. /\ text' = text /\ policy' = policy /\ gathers' = gathers /\ phase' = phase
      /\ errors' = errors /\ quit' = quit /\ ran' = ran /\ reports' = reports
      /\ read' = r /\ start_line' = n /\ from' = f
      /\ next_line' = IF line.end = "none" THEN next_line ELSE next_line + 1
  BY <1>1 DEF PushLine, input, summary, output
<1>3. \/ /\ buf' = <<>>
         /\ units' = Append(units, Taken(Buffered(line), n, f))
      \/ buf' = Buffered(line) /\ units' = units
  BY <1>1 DEF PushLine
<1>4. /\ text \in Seq(Lines) /\ Len(text) \in Nat /\ read \in Nat
      /\ r \in Nat /\ r = read + 1 /\ r <= Len(text) /\ units \in Seq(Unit) /\ next_line \in Nat \ {0}
  BY <1>1, SourceFacts DEF PushLine
<1>5. /\ line \in Lines /\ f \in Nat /\ f < r /\ resumed <= f /\ n \in Nat \ {0}
      /\ Buffered(line) = Segment(f, r) /\ Segment(f, r) \in Seq(Lines) /\ Len(Segment(f, r)) = r - f
      /\ handler = "idle" => n = LineNumber(f)
  <2>1. /\ text[read + 1] \in Lines
        /\ From \in Nat /\ From <= read /\ resumed <= From /\ StartLine \in Nat \ {0}
        /\ Buffered(text[read + 1]) = Segment(From, read + 1)
        /\ Segment(From, read + 1) \in Seq(Lines)
        /\ Len(Segment(From, read + 1)) = read + 1 - From
        /\ handler = "idle" => StartLine = LineNumber(From)
    BY <1>1, <1>4, PushedIs DEF PushLine
  <2>2. f < r /\ r - f = read + 1 - From
    BY <1>1, <1>4, <2>1
  <2>3. line \in Lines /\ f \in Nat /\ resumed <= f /\ n \in Nat \ {0}
    BY <1>1, <2>1
  <2>4. Segment(f, r) = Segment(From, read + 1) /\ Buffered(line) = Segment(f, r)
    BY <1>1, <2>1
  <2>5. Segment(f, r) \in Seq(Lines) /\ Len(Segment(f, r)) = r - f
    BY <2>1, <2>2, <2>4
  <2>6. handler = "idle" => n = LineNumber(f)
    BY <1>1, <2>1
  <2> QED
    BY <2>2, <2>3, <2>4, <2>5, <2>6
<1> DEFINE Kept == /\ units' \in Seq(Unit) /\ buf' \in Seq(Lines)
                   /\ \A i \in DOMAIN units' :
                        /\ resumed' <= units'[i].from /\ UnitEnd(units'[i]) <= Len(text)
                        /\ units'[i].lines = Segment(units'[i].from, UnitEnd(units'[i]))
                   /\ handler = "idle" => \A i \in DOMAIN units' : units'[i].first = LineNumber(units'[i].from)
                   /\ buf' # <<>> => buf' = Segment(f, r)
<1>6. ASSUME buf' = <<>>, units' = Append(units, Taken(Buffered(line), n, f))
      PROVE  Kept
  <2>1. PICK u : u = Taken(Segment(f, r), n, f)
    OBVIOUS
  <2>2. u \in Unit /\ u.lines = Segment(f, r) /\ u.first = n /\ u.from = f
    BY <1>5, <2>1 DEF Unit, Taken
  <2>3. UnitEnd(u) = r
    BY <1>4, <1>5, <2>2 DEF UnitEnd
  <2>4. units' = Append(units, u)
    BY <1>5, <1>6, <2>1
  <2> QED
    BY <1>2, <1>4, <1>5, <1>6, <2>2, <2>3, <2>4, PiecesGrow
<1>7. ASSUME buf' = Buffered(line), units' = units
      PROVE  Kept
  <2>1. /\ \A i \in DOMAIN units :
             /\ resumed <= units[i].from /\ UnitEnd(units[i]) <= Len(text)
             /\ units[i].lines = Segment(units[i].from, UnitEnd(units[i]))
        /\ handler = "idle" => \A i \in DOMAIN units : units[i].first = LineNumber(units[i].from)
    BY DEF SourceOK, PiecesOK, NumbersOK, UnitsNumbered
  <2> QED
    BY <1>4, <1>5, <1>7, <2>1
<1>8. Kept
  BY <1>3, <1>6, <1>7
<1>9. /\ next_line' \in Nat \ {0}
      /\ handler = "idle" => next_line' = LineNumber(r)
  <2>1. next_line' \in Nat \ {0}
    <3>1. CASE line.end = "none"
      BY <1>2, <1>4, <3>1
    <3>2. CASE line.end # "none"
      BY <1>2, <1>4, <3>2
    <3> QED
      BY <3>1, <3>2
  <2>2. LineNumber(read + 1) = IF line.end = "none" THEN LineNumber(read) ELSE LineNumber(read) + 1
    BY <1>1, <1>4, NextNumber
  <2>3. handler = "idle" => next_line = LineNumber(read)
    BY DEF SourceOK, NumbersOK
  <2> QED
    BY <1>2, <1>4, <2>1, <2>2, <2>3
<1>10. TypeOK'
  <2>1. read' \in 0..Len(text') /\ start_line' \in Nat \ {0} /\ next_line' \in Nat \ {0} /\ from' \in Nat
    BY <1>2, <1>4, <1>5, <1>9
  <2>2. TypeOK
    BY DEF SourceOK
  <2> QED
    BY <1>2, <1>8, <2>1, <2>2 DEF TypeOK
<1>11. (\A i : LineNumber(i)' = LineNumber(i)) /\ (\A i, k : Segment(i, k)' = Segment(i, k))
  BY <1>2, TextKept
<1>12. resumed \in Nat /\ resumed <= read /\ Len(text) <= MaxLines
  BY DEF SourceOK, PiecesOK
<1>13. PiecesOK'
  <2>1. resumed' <= read'
    BY <1>2, <1>4, <1>12
  <2>2. buf' # <<>> => resumed' <= from' /\ from' < read' /\ buf' = Segment(from', read')
    BY <1>2, <1>5, <1>8
  <2> QED
    BY <1>2, <1>8, <1>12, <2>1, <2>2 DEF PiecesOK, Segment, UnitEnd
<1>14. NumbersOK'
  <2>1. buf' # <<>> /\ handler = "idle" => start_line' = LineNumber(from')
    BY <1>2, <1>5
  <2> QED
    BY <1>2, <1>8, <1>9, <2>1 DEF NumbersOK, UnitsNumbered, LineNumber
<1> QED
  BY <1>2, <1>10, <1>12, <1>13, <1>14 DEF SourceOK

LEMMA TakeRestSource ==
  ASSUME SourceOK, TakeRest, resumed' = resumed, handler' = handler
  PROVE  SourceOK'
<1>1. /\ text' = text /\ policy' = policy /\ gathers' = gathers /\ phase' = "running"
      /\ errors' = errors /\ quit' = quit /\ ran' = ran /\ reports' = reports
      /\ read' = read /\ start_line' = start_line /\ from' = from /\ next_line' = next_line
      /\ buf' = <<>>
      /\ units' = IF buf = <<>> THEN units ELSE Append(units, Taken(buf, start_line, from))
  BY DEF TakeRest, input, summary, output
<1>2. /\ text \in Seq(Lines) /\ Len(text) \in Nat /\ read \in Nat /\ read <= Len(text) /\ from \in Nat
      /\ units \in Seq(Unit) /\ buf \in Seq(Lines) /\ start_line \in Nat \ {0}
  BY SourceFacts
<1> DEFINE Kept == /\ units' \in Seq(Unit)
                   /\ \A i \in DOMAIN units' :
                        /\ resumed' <= units'[i].from /\ UnitEnd(units'[i]) <= Len(text)
                        /\ units'[i].lines = Segment(units'[i].from, UnitEnd(units'[i]))
                   /\ handler = "idle" => \A i \in DOMAIN units' : units'[i].first = LineNumber(units'[i].from)
<1>3. ASSUME buf = <<>>
      PROVE  Kept
  <2>1. /\ \A i \in DOMAIN units :
             /\ resumed <= units[i].from /\ UnitEnd(units[i]) <= Len(text)
             /\ units[i].lines = Segment(units[i].from, UnitEnd(units[i]))
        /\ handler = "idle" => \A i \in DOMAIN units : units[i].first = LineNumber(units[i].from)
    BY DEF SourceOK, PiecesOK, NumbersOK, UnitsNumbered
  <2> QED
    BY <1>1, <1>2, <1>3, <2>1
<1>4. ASSUME buf # <<>>
      PROVE  Kept
  <2>1. PICK u : u = Taken(buf, start_line, from)
    OBVIOUS
  <2>2. u \in Unit /\ u.lines = buf /\ u.first = start_line /\ u.from = from
    BY <1>2, <2>1 DEF Unit, Taken
  <2>3. resumed <= from /\ from < read /\ buf = Segment(from, read)
    BY <1>4 DEF SourceOK, PiecesOK
  <2>4. Len(buf) = read - from
    BY <1>2, <2>3, SegmentTyped DEF Segment
  <2>5. UnitEnd(u) = read
    BY <1>2, <2>2, <2>4 DEF UnitEnd
  <2>6. handler = "idle" => start_line = LineNumber(from)
    BY <1>4 DEF SourceOK, NumbersOK
  <2>7. units' = Append(units, u)
    BY <1>1, <1>4, <2>1
  <2>8. u.lines = Segment(u.from, UnitEnd(u)) /\ UnitEnd(u) <= Len(text)
    BY <1>2, <2>2, <2>3, <2>5
  <2> QED
    BY <1>1, <2>2, <2>3, <2>6, <2>7, <2>8, PiecesGrow
<1>5. Kept
  BY <1>3, <1>4
<1>6. TypeOK'
  <2>1. buf' \in Seq(Lines)
    BY <1>1
  <2> QED
    BY <1>1, <1>5, <2>1 DEF SourceOK, TypeOK
<1>7. PiecesOK'
  BY <1>1, <1>5 DEF SourceOK, PiecesOK, Segment, UnitEnd
<1>8. NumbersOK'
  BY <1>1, <1>5 DEF SourceOK, NumbersOK, UnitsNumbered, LineNumber
<1> QED
  BY <1>1, <1>6, <1>7, <1>8 DEF SourceOK

LEMMA DoneSource ==
  ASSUME SourceOK, Done, resumed' = resumed, handler' = handler
  PROVE  SourceOK'
<1>1. /\ text' = text /\ policy' = policy /\ gathers' = gathers /\ phase' = "done"
      /\ read' = read /\ start_line' = start_line /\ from' = from /\ next_line' = next_line
      /\ buf' = buf /\ units' = units /\ errors' = errors /\ quit' = quit
      /\ ran' = ran /\ reports' = reports
  BY DEF Done, input, acc, summary, output
<1>2. TypeOK'
  BY <1>1 DEF SourceOK, TypeOK
<1>3. PiecesOK'
  BY <1>1 DEF SourceOK, PiecesOK, Segment, UnitEnd
<1>4. NumbersOK'
  BY <1>1 DEF SourceOK, NumbersOK, UnitsNumbered, LineNumber
<1> QED
  BY <1>1, <1>2, <1>3, <1>4 DEF SourceOK

(* The buffer is dropped and the line just read, if any, is skipped: numbers no longer count. *)
LEMMA InterruptSource ==
  ASSUME SourceOK, ProgramOK, SeeInterrupt
  PROVE  SourceOK'
<1>1. /\ text' = text /\ policy' = policy /\ gathers' = gathers /\ phase' = phase
      /\ start_line' = start_line /\ from' = from /\ next_line' = next_line
      /\ units' = units /\ units = <<>> /\ errors' = errors /\ quit' = quit
      /\ ran' = ran /\ reports' = reports /\ handler' = handler
      /\ buf' = <<>> /\ resumed' = read'
      /\ read' = IF prompt = "typed" THEN read + 1 ELSE read
  BY DEF SeeInterrupt, Waits, input, summary, output
<1>2. text \in Seq(Lines) /\ Len(text) \in Nat /\ read \in Nat /\ read <= Len(text)
  BY SourceFacts
<1>3. prompt = "typed" => read < Len(text)
  BY DEF ProgramOK, StagesOK
<1>4. read' \in 0..Len(text) /\ read' \in Nat /\ read' <= read'
  <2>1. CASE prompt = "typed"
    BY <1>1, <1>2, <1>3, <2>1
  <2>2. CASE prompt # "typed"
    BY <1>1, <1>2, <2>2
  <2> QED
    BY <2>1, <2>2
<1>5. TypeOK'
  <2>1. buf' \in Seq(Lines)
    BY <1>1
  <2> QED
    BY <1>1, <1>4, <2>1 DEF SourceOK, TypeOK
<1>6. PiecesOK'
  BY <1>1, <1>4 DEF SourceOK, PiecesOK
<1>7. handler # "idle"
  BY DEF SeeInterrupt, ProgramOK, StagesOK
<1> QED
  BY <1>1, <1>4, <1>5, <1>6, <1>7 DEF SourceOK, NumbersOK

LEMMA OpenSourceOK ==
  ASSUME SourceOK, OpenSource
  PROVE  SourceOK'
<1>1. /\ text' \in Sources /\ read' = 0 /\ phase' = "reading"
      /\ buf' = <<>> /\ start_line' = 1 /\ next_line' = 1 /\ from' = 0
      /\ units' = <<>> /\ errors' = 0 /\ quit' = FALSE
      /\ ran' = <<>> /\ resumed' = 0
      /\ policy' = policy /\ gathers' = gathers /\ reports' = reports
  BY DEF OpenSource
<1>2. text' \in Seq(Lines) /\ Len(text') \in Nat /\ Len(text') <= MaxLines
  <2>1. PICK n \in 0..MaxLines : text' \in [1..n -> Lines]
    BY <1>1, CliConstantsOK
  <2> QED
    BY <2>1, DriverConstantsOK
<1>3. TypeOK'
  <2>1. read' \in 0..Len(text') /\ start_line' \in Nat \ {0} /\ next_line' \in Nat \ {0} /\ from' \in Nat
        /\ buf' \in Seq(Lines) /\ units' \in Seq(Unit) /\ errors' \in Nat
    BY <1>1, <1>2
  <2> QED
    BY <1>1, <1>2, <2>1 DEF SourceOK, TypeOK
<1>4. PiecesOK'
  BY <1>1, <1>2 DEF PiecesOK
<1>5. LineNumber(0)' = 1
  <2>1. SubSeq(text', 1, 0) = <<>>
    BY <1>2, SubSeqEmpty
  <2>2. Newlines(<<>>) = 0
    BY NewlinesEmpty
  <2>3. LineNumber(0)' = 1 + Newlines(SubSeq(text', 1, 0))
    BY DEF LineNumber
  <2>4. LineNumber(0)' = 1 + 0
    BY <2>1, <2>2, <2>3
  <2> QED
    BY <2>4
<1>6. NumbersOK'
  <2>1. LineNumber(read)' = LineNumber(0)'
    BY <1>1 DEF LineNumber
  <2> QED
    BY <1>1, <1>5, <2>1 DEF NumbersOK, UnitsNumbered
<1>7. resumed' \in Nat /\ ran' \in Seq([line : Nat, column : Nat]) /\ reports' \in Seq(Reports)
  BY <1>1 DEF SourceOK
<1> QED
  BY <1>3, <1>4, <1>6, <1>7 DEF SourceOK

(* What a unit executes and reports. *)
StmtAt(places, i) == text[places[i].line].items[places[i].column]

LEMMA UnitRun ==
  ASSUME SourceOK, RunUnit, ~gathers, errors' \in Nat
  PROVE  /\ ran' \in Seq([line : Nat, column : Nat]) /\ reports' \in Seq(Reports)
         /\ policy = "Reject" /\ (\A i \in DOMAIN ran : StmtAt(ran, i) # "ext") =>
              \A i \in DOMAIN ran' : StmtAt(ran', i) # "ext"
         /\ policy # "Reject" =>
              \/ errors' = errors /\ (Reported(reports') <=> Reported(reports))
              \/ errors' = errors + 1 /\ Reported(reports')
<1>1. PICK unit, result : unit = Head(units) /\ result = UnitResult(unit.lines, unit.first, policy)
  OBVIOUS
<1> DEFINE placed == [j \in DOMAIN result.ran |->
                       [line |-> unit.from + result.ran[j].line, column |-> result.ran[j].column]]
<1>2. /\ ran' = ran \o placed
      /\ reports' = reports \o result.reports
      /\ Record(result.outcome) /\ units # <<>>
  BY <1>1 DEF RunUnit
<1>3. /\ unit \in Unit /\ unit = units[1] /\ 1 \in DOMAIN units
  <2>1. units \in Seq(Unit)
    BY SourceFacts
  <2>2. Head(units) = units[1] /\ Head(units) \in Unit /\ Len(units) \in Nat \ {0} /\ DOMAIN units = 1..Len(units)
    BY <1>2, <2>1, TailEntries
  <2> QED
    BY <1>1, <2>2
<1>4. unit.lines \in Seq(SourceLine) /\ unit.first \in Nat /\ unit.from \in Nat /\ policy \in Policy
  <2>1. Lines \subseteq SourceLine
    BY DriverConstantsOK DEF SourceLine
  <2>2. unit.lines \in Seq(Lines) /\ unit.first \in Nat /\ unit.from \in Nat
    BY <1>3 DEF Unit
  <2>3. policy \in Policy
    BY CliConstantsOK DEF SourceOK, TypeOK
  <2> QED
    BY <2>1, <2>2, <2>3
<1>5. /\ result.outcome \in {"Completed", "Failed", "Quit", "Panicked"}
      /\ result.ran \in Seq(TokensOf(unit.lines)) /\ result.reports \in Seq(Reports)
      /\ policy = "Reject" => \A j \in DOMAIN result.ran : result.ran[j].item # "ext"
      /\ policy # "Reject" => (Reported(result.reports) <=> result.outcome \in {"Failed", "Panicked"})
  BY <1>1, <1>4, UnitRuns
<1>6. reports' \in Seq(Reports) /\ (Reported(reports') <=> Reported(reports) \/ Reported(result.reports))
  BY <1>2, <1>5, ReportedConcat DEF SourceOK
<1>7. policy # "Reject" =>
        \/ errors' = errors /\ (Reported(reports') <=> Reported(reports))
        \/ errors' = errors + 1 /\ Reported(reports')
  BY <1>2, <1>5, <1>6 DEF Record, summary
<1>8. /\ placed \in Seq([line : Nat, column : Nat])
      /\ DOMAIN placed = 1..Len(result.ran) /\ DOMAIN result.ran = 1..Len(result.ran)
      /\ \A j \in DOMAIN result.ran : text[placed[j].line].items[placed[j].column] = result.ran[j].item
  <2>1. UnitEnd(unit) <= Len(text) /\ unit.lines = Segment(unit.from, UnitEnd(unit)) /\ text \in Seq(Lines)
    BY <1>3, SourceFacts DEF SourceOK, PiecesOK
  <2>2. PICK run, pl : run = result.ran /\ pl = placed
    OBVIOUS
  <2> HIDE DEF placed
  <2>3. run \in Seq(TokensOf(unit.lines))
    BY <1>5, <2>2
  <2>4. pl = [j \in DOMAIN run |-> [line |-> unit.from + run[j].line, column |-> run[j].column]]
    BY <2>2 DEF placed
  <2>5. /\ pl \in Seq([line : Nat, column : Nat])
        /\ DOMAIN pl = 1..Len(run) /\ DOMAIN run = 1..Len(run)
        /\ \A j \in DOMAIN run : text[pl[j].line].items[pl[j].column] = run[j].item
    BY <1>3, <2>1, <2>3, <2>4, PlacedIs
  <2> QED
    BY <2>2, <2>5
<1> HIDE DEF placed
<1>10. /\ ran' \in Seq([line : Nat, column : Nat])
       /\ \A i \in DOMAIN ran' : \/ i \in DOMAIN ran /\ ran'[i] = ran[i]
                                 \/ \E j \in DOMAIN placed : ran'[i] = placed[j]
  <2>1. ran \in Seq([line : Nat, column : Nat])
    BY DEF SourceOK
  <2> QED
    BY SMTT(30), <1>2, <1>8, <2>1, ConcatEntries
<1>11. policy = "Reject" /\ (\A i \in DOMAIN ran : StmtAt(ran, i) # "ext") =>
         \A i \in DOMAIN ran' : StmtAt(ran', i) # "ext"
  <2> SUFFICES ASSUME policy = "Reject", \A i \in DOMAIN ran : StmtAt(ran, i) # "ext", NEW i \in DOMAIN ran'
               PROVE  StmtAt(ran', i) # "ext"
    OBVIOUS
  <2>1. CASE i \in DOMAIN ran /\ ran'[i] = ran[i]
    BY <2>1 DEF StmtAt
  <2>2. ASSUME NEW j \in DOMAIN placed, ran'[i] = placed[j]
        PROVE  StmtAt(ran', i) # "ext"
    <3>1. j \in DOMAIN result.ran
      BY <1>8, <2>2
    <3>2. text[placed[j].line].items[placed[j].column] # "ext"
      BY <1>5, <1>8, <3>1
    <3> QED
      BY <2>2, <3>2 DEF StmtAt
  <2> QED
    BY <1>10, <2>1, <2>2
<1> QED
  BY <1>6, <1>7, <1>10, <1>11

LEMMA RunUnitSource ==
  ASSUME SourceOK, ~gathers, RunUnit, resumed' = resumed, handler' = handler
  PROVE  /\ SourceOK'
         /\ errors' \in Nat
         /\ (phase' = phase /\ quit' = quit) \/ (phase' = "done" /\ quit' = TRUE /\ errors' = errors)
<1>1. /\ text' = text /\ policy' = policy /\ gathers' = gathers
      /\ read' = read /\ start_line' = start_line /\ from' = from /\ next_line' = next_line
      /\ buf' = buf /\ units' = Tail(units) /\ units # <<>> /\ phase \in {"reading", "running"}
  BY DEF RunUnit, input, acc
<1>2. /\ errors' \in Nat
      /\ (phase' = phase /\ quit' = quit) \/ (phase' = "done" /\ quit' = TRUE /\ errors' = errors)
  <2>1. PICK result : Record(result)
    BY DEF RunUnit
  <2>2. errors \in Nat /\ (errors' = errors \/ errors' = errors + 1)
    BY <2>1, SourceFacts DEF Record, summary
  <2>3. (phase' = phase /\ quit' = quit) \/ (phase' = "done" /\ quit' = TRUE /\ errors' = errors)
    BY <2>1 DEF Record, summary
  <2> QED
    BY <2>2, <2>3
<1>3. /\ units \in Seq(Unit) /\ Len(units) \in Nat \ {0} /\ DOMAIN units = 1..Len(units)
      /\ units' \in Seq(Unit) /\ DOMAIN units' = 1..(Len(units) - 1)
      /\ \A i \in 1..(Len(units) - 1) : units'[i] = units[i + 1]
  BY <1>1, SourceFacts, TailEntries
<1>4. ASSUME NEW i \in DOMAIN units'
      PROVE  i + 1 \in DOMAIN units /\ units'[i] = units[i + 1]
  BY <1>3
<1>5. TypeOK'
  <2>1. phase' \in {"reading", "running", "done", "crashed"} /\ quit' \in BOOLEAN
    BY <1>1, <1>2 DEF SourceOK, TypeOK
  <2> QED
    BY <1>1, <1>2, <1>3, <2>1 DEF SourceOK, TypeOK
<1>6. PiecesOK'
  <2>1. \A i \in DOMAIN units :
          /\ resumed <= units[i].from /\ UnitEnd(units[i]) <= Len(text)
          /\ units[i].lines = Segment(units[i].from, UnitEnd(units[i]))
    BY DEF SourceOK, PiecesOK
  <2>2. \A i \in DOMAIN units' :
          /\ resumed <= units'[i].from /\ UnitEnd(units'[i]) <= Len(text)
          /\ units'[i].lines = Segment(units'[i].from, UnitEnd(units'[i]))
    BY <1>4, <2>1
  <2> QED
    BY <1>1, <2>2 DEF SourceOK, PiecesOK, Segment, UnitEnd
<1>7. NumbersOK'
  <2>1. handler = "idle" => \A i \in DOMAIN units : units[i].first = LineNumber(units[i].from)
    BY DEF SourceOK, NumbersOK, UnitsNumbered
  <2>2. handler = "idle" => \A i \in DOMAIN units' : units'[i].first = LineNumber(units'[i].from)
    BY <1>4, <2>1
  <2> QED
    BY <1>1, <2>2 DEF SourceOK, NumbersOK, UnitsNumbered, LineNumber
<1>8. ran' \in Seq([line : Nat, column : Nat]) /\ reports' \in Seq(Reports)
  BY <1>2, UnitRun
<1> QED
  BY <1>2, <1>5, <1>6, <1>7, <1>8 DEF SourceOK
-----------------------------------------------------------------------------
(* The program *)

LEMMA ProgramFacts ==
  ASSUME SourceOK, ProgramOK
  PROVE  /\ policy \in Policy /\ errors \in Nat /\ total \in Nat /\ quit \in BOOLEAN
         /\ args \in Seq(Options \union {"file"}) /\ files \in Nat /\ ~gathers
         /\ resumed \in 0..MaxLines
BY CliConstantsOK DEF SourceOK, TypeOK, ProgramOK, CliTypeOK, StagesOK

(* The arguments. *)
LEMMA ArgsProgram ==
  ASSUME SourceOK, ProgramOK, TakeOption \/ TakeFile \/ RefuseOption \/ Start
  PROVE  ProgramOK'
<1>1. /\ text' = text /\ UNCHANGED <<gathers, phase, read, acc, units, summary, output>> /\ resumed' = resumed
      /\ ran' = ran /\ reports' = reports /\ errors' = errors /\ total' = total /\ quit' = quit
      /\ interactive' = interactive /\ prompt' = prompt /\ ctrl_c' = ctrl_c /\ handler' = handler
      /\ stage = "args"
  BY DEF TakeOption, TakeFile, RefuseOption, Start, Exit, vars, input, acc, summary, output, process, outcome, signal
<1>2. /\ total = 0 /\ errors = 0 /\ ran = <<>> /\ reports = <<>> /\ handler = "idle" /\ phase = "reading"
      /\ ~gathers /\ quit = FALSE /\ ~trouble /\ prompt = "top"
  BY <1>1, ProgramFacts DEF ProgramOK, StagesOK
<1>3. \/ /\ args # <<>> /\ args' = Tail(args) /\ stage' = "args" /\ status' = status /\ trouble' = trouble
         /\ files' \in {files, files + 1}
         /\ \/ policy' = policy /\ given' = given
            \/ /\ Head(args) \in {"-s", "-w"} /\ given' = given \union {Head(args)}
               /\ policy' = IF Head(args) = "-s" THEN "Reject"
                            ELSE IF policy = "Allow" THEN "Warn" ELSE policy
      \/ /\ args' = args /\ files' = files /\ given' = given /\ policy' = policy
         /\ \/ stage' = "exited" /\ status' = 1 /\ trouble' = TRUE
            \/ stage' = "open" /\ status' = status /\ trouble' = trouble
  BY DEF TakeOption, TakeFile, RefuseOption, Start, Exit, vars, input, acc, summary, output, process, outcome, signal
<1>4. given' \subseteq Options /\ args' \in Seq(Options \union {"file"}) /\ files' \in Nat
  <2>1. args # <<>> => Head(args) \in Options \union {"file"} /\ Tail(args) \in Seq(Options \union {"file"})
    BY ProgramFacts, TailEntries
  <2>2. files + 1 \in Nat /\ files \in Nat
    BY ProgramFacts
  <2> QED
    BY <1>3, <2>1, <2>2, ProgramFacts DEF ProgramOK, CliTypeOK
<1>5. CliTypeOK'
  BY <1>1, <1>3, <1>4 DEF ProgramOK, CliTypeOK
<1>6. StagesOK'
  BY <1>1, <1>2, <1>3 DEF ProgramOK, StagesOK
<1>7. StrictOK'
  BY <1>1, <1>2, <1>3 DEF ProgramOK, StrictOK
<1>8. CountsOK' /\ StatusOK'
  <2>1. ~AnyError' /\ Counted' = 0
    BY <1>1, <1>2, <1>3 DEF AnyError, Counted
  <2> QED
    BY <1>1, <1>2, <1>3, <2>1 DEF CountsOK, StatusOK, ProgramOK, StagesOK
<1> QED
  BY <1>5, <1>6, <1>7, <1>8 DEF ProgramOK

(* Between sources. *)
LEMMA OpenProgram ==
  ASSUME SourceOK, ProgramOK, OpenFile \/ OpenStdin
  PROVE  ProgramOK'
<1>1. /\ OpenSource /\ stage = "open" /\ stage' \in {"file", "stdin"} /\ files' \in {files, files - 1}
      /\ (files' = files - 1 => files > 0)
      /\ args' = args /\ interactive' = interactive /\ given' = given /\ prompt' = prompt
      /\ total' = total /\ status' = status /\ trouble' = trouble /\ ctrl_c' = ctrl_c /\ handler' = handler
  BY DEF OpenFile, OpenStdin, process, outcome, signal
<1>2. /\ read' = 0 /\ phase' = "reading" /\ errors' = 0 /\ quit' = FALSE /\ ran' = <<>> /\ resumed' = 0
      /\ policy' = policy /\ gathers' = gathers /\ reports' = reports
  BY <1>1 DEF OpenSource
<1>3. prompt = "top" /\ ~trouble
  BY <1>1 DEF ProgramOK, StagesOK, CliTypeOK
<1>4. CliTypeOK'
  <2>1. files' \in Nat /\ resumed' \in 0..MaxLines
    BY <1>1, <1>2, ProgramFacts, DriverConstantsOK
  <2> QED
    BY <1>1, <2>1 DEF ProgramOK, CliTypeOK
<1>5. StagesOK'
  BY <1>1, <1>2, <1>3 DEF ProgramOK, StagesOK
<1>6. StrictOK'
  BY <1>1, <1>2 DEF ProgramOK, StrictOK
<1>7. CountsOK' /\ StatusOK'
  <2>1. Counted' = Counted /\ AnyError' = AnyError
    BY <1>1, <1>2, ProgramFacts DEF Counted, AnyError
  <2> QED
    BY <1>1, <1>2, <2>1 DEF ProgramOK, CountsOK, StatusOK
<1> QED
  BY <1>4, <1>5, <1>6, <1>7 DEF ProgramOK

LEMMA CloseProgram ==
  ASSUME SourceOK, ProgramOK, CloseSource \/ RefuseSource
  PROVE  ProgramOK'
<1>1. /\ text' = text /\ policy' = policy /\ gathers' = gathers /\ phase' = phase /\ read' = read
      /\ errors' = errors /\ quit' = quit /\ ran' = ran /\ reports' = reports /\ resumed' = resumed
      /\ args' = args /\ files' = files /\ interactive' = interactive /\ given' = given /\ prompt' = prompt
      /\ ctrl_c' = ctrl_c /\ handler' = handler
  BY DEF CloseSource, RefuseSource, vars, input, acc, summary, output, process, outcome, signal
<1>2. \/ /\ stage \in {"file", "stdin"} /\ phase = "done" /\ total' = total + errors /\ trouble' = trouble
         /\ \/ stage' = "exited" /\ status' = IF total' > 0 THEN 1 ELSE 0
            \/ stage = "file" /\ ~quit /\ stage' = "open" /\ status' = status
      \/ stage = "open" /\ stage' = "exited" /\ status' = 1 /\ trouble' = TRUE /\ total' = total
  BY DEF CloseSource, RefuseSource, Exit, vars, process, outcome, signal
<1>3. total' \in Nat /\ status' \in {0, 1}
  BY <1>2, ProgramFacts DEF ProgramOK, CliTypeOK
<1>4. CliTypeOK'
  BY <1>1, <1>2, <1>3 DEF ProgramOK, CliTypeOK
<1>5. StagesOK'
  BY <1>1, <1>2 DEF ProgramOK, StagesOK
<1>6. StrictOK'
  BY <1>1 DEF ProgramOK, StrictOK
<1>7. CountsOK'
  <2>1. Counted' = Counted /\ AnyError' = AnyError
    BY <1>1, <1>2, ProgramFacts DEF Counted, AnyError
  <2> QED
    BY <1>1, <1>2, <2>1 DEF ProgramOK, CountsOK
<1>8. StatusOK'
  <2>1. ~trouble
    BY <1>2 DEF ProgramOK, StagesOK
  <2>2. total' > 0 <=> total' # 0
    BY <1>3
  <2>3. policy # "Reject" /\ stage \in {"file", "stdin"} => (Counted > 0 <=> AnyError) /\ Counted = total + errors
    BY DEF ProgramOK, CountsOK, Counted
  <2>4. AnyError' = AnyError
    BY <1>1 DEF AnyError
  <2>5. stage' = "exited" /\ policy' # "Reject" /\ status' = 1 => trouble' \/ AnyError'
    BY <1>1, <1>2, <2>3, <2>4
  <2> QED
    BY <1>1, <1>2, <1>3, <2>1, <2>2, <2>5 DEF StatusOK
<1> QED
  BY <1>4, <1>5, <1>6, <1>7, <1>8 DEF ProgramOK

(* The threads. *)
LEMMA SignalProgram ==
  ASSUME SourceOK, ProgramOK, Interrupt \/ HandlerExit \/ AskLine \/ TypeLine
  PROVE  ProgramOK'
<1>1. /\ text' = text /\ policy' = policy /\ gathers' = gathers /\ phase' = phase /\ read' = read
      /\ errors' = errors /\ quit' = quit /\ ran' = ran /\ reports' = reports /\ resumed' = resumed
      /\ args' = args /\ files' = files /\ interactive' = interactive /\ given' = given
      /\ total' = total /\ trouble' = trouble
  BY DEF Interrupt, HandlerExit, AskLine, TypeLine, Exit, vars, input, acc, summary, output,
         process, outcome, signal
<1>2. stage # "exited" /\ stage # "args"
  BY DEF Interrupt, HandlerExit, AskLine, TypeLine, Waits, AtTerminal, ProgramOK, StagesOK
<1>3. \/ ctrl_c' = TRUE /\ handler' = "exiting" /\ stage' = stage /\ prompt' = prompt /\ status' = status
      \/ ctrl_c' = ctrl_c /\ handler = "exiting" /\ handler' = handler /\ stage' = "exited"
           /\ prompt' = prompt /\ status' = 0
      \/ /\ ctrl_c' = ctrl_c /\ handler' = handler /\ stage' = stage /\ status' = status
         /\ stage = "stdin" /\ interactive
         /\ prompt' = "waiting" \/ (prompt' = "typed" /\ read < Len(text))
  BY DEF Interrupt, HandlerExit, AskLine, TypeLine, Waits, AtTerminal, Exit, vars, process, outcome, signal
<1>4. CliTypeOK'
  BY <1>1, <1>3 DEF ProgramOK, CliTypeOK
<1>5. StagesOK'
  BY <1>1, <1>2, <1>3 DEF ProgramOK, StagesOK
<1>6. StrictOK'
  BY <1>1 DEF ProgramOK, StrictOK
<1>7. CountsOK'
  <2>1. AnyError' = AnyError /\ (stage' = stage => Counted' = Counted)
    BY <1>1 DEF Counted, AnyError
  <2> QED
    BY <1>1, <1>2, <1>3, <2>1 DEF ProgramOK, CountsOK
<1>8. StatusOK'
  BY <1>1, <1>2, <1>3 DEF ProgramOK, StatusOK
<1> QED
  BY <1>4, <1>5, <1>6, <1>7, <1>8 DEF ProgramOK

(* Steps of the source that run nothing. *)
LEMMA ReadProgram ==
  ASSUME SourceOK, ProgramOK,
         UNCHANGED <<text, policy, gathers, errors, quit, ran, reports, process, stage, outcome, handler>>,
         stage \in {"file", "stdin"}, ctrl_c' = FALSE \/ ctrl_c' = ctrl_c, resumed' \in 0..MaxLines,
         prompt' = prompt \/ prompt' = "top", prompt' = "typed" => read' < Len(text),
         \/ phase' = phase /\ (phase \in {"running", "done"} => read' = read)
         \/ phase # "done" /\ phase' \in {"running", "done"} /\ (interactive \/ read' = Len(text))
  PROVE  ProgramOK'
<1>1. /\ text' = text /\ policy' = policy /\ gathers' = gathers
      /\ errors' = errors /\ quit' = quit /\ ran' = ran /\ reports' = reports
      /\ args' = args /\ files' = files /\ interactive' = interactive /\ given' = given
      /\ total' = total /\ status' = status /\ trouble' = trouble /\ stage' = stage /\ handler' = handler
  BY DEF process, outcome
<1>2. CliTypeOK'
  BY <1>1 DEF ProgramOK, CliTypeOK
<1>3. StagesOK'
  <2>1. /\ ~gathers' /\ phase' # "crashed" /\ stage' \notin {"args", "open", "exited"}
        /\ (prompt' # "top" => stage' \in {"stdin", "exited"} /\ interactive')
    BY <1>1 DEF ProgramOK, StagesOK
  <2>5. (trouble' => stage' = "exited") /\ (ctrl_c' => handler' = "exiting")
    BY <1>1 DEF ProgramOK, StagesOK
  <2>2. quit' => phase' = "done"
    BY <1>1 DEF ProgramOK, StagesOK
  <2>3. prompt' = "typed" => read' < Len(text')
    BY <1>1
  <2>4. ~interactive' /\ phase' \in {"running", "done"} /\ ~quit' => read' = Len(text')
    BY <1>1 DEF ProgramOK, StagesOK
  <2> QED
    BY <2>1, <2>2, <2>3, <2>4, <2>5 DEF StagesOK
<1>4. StrictOK'
  BY <1>1 DEF ProgramOK, StrictOK
<1>5. CountsOK' /\ StatusOK'
  <2>1. AnyError' = AnyError /\ Counted' = Counted
    BY <1>1 DEF Counted, AnyError
  <2> QED
    BY <1>1, <2>1 DEF ProgramOK, CountsOK, StatusOK
<1> QED
  BY <1>2, <1>3, <1>4, <1>5 DEF ProgramOK

(* A unit is run: what it reports is counted, and with -s it runs no extension. *)
LEMMA RunUnitProgram ==
  ASSUME SourceOK, ProgramOK, RunUnit, Unattended \/ AtTerminal,
         UNCHANGED <<process, stage, prompt, outcome, signal, resumed>>
  PROVE  SourceOK' /\ ProgramOK'
<1>1. /\ text' = text /\ policy' = policy /\ gathers' = gathers /\ read' = read /\ resumed' = resumed
      /\ args' = args /\ files' = files /\ interactive' = interactive /\ given' = given
      /\ total' = total /\ status' = status /\ trouble' = trouble /\ stage' = stage /\ prompt' = prompt
      /\ ctrl_c' = ctrl_c /\ handler' = handler
  BY DEF RunUnit, input, acc, process, outcome, signal
<1>2. stage \in {"file", "stdin"}
  BY DEF Unattended, AtTerminal
<1>3. ~gathers /\ policy \in Policy /\ errors \in Nat /\ total \in Nat
  BY ProgramFacts
<1>4. /\ SourceOK' /\ errors' \in Nat
      /\ (phase' = phase /\ quit' = quit) \/ (phase' = "done" /\ quit' = TRUE /\ errors' = errors)
  BY <1>1, <1>3, RunUnitSource
<1>5. /\ policy = "Reject" /\ (\A i \in DOMAIN ran : StmtAt(ran, i) # "ext") =>
            \A i \in DOMAIN ran' : StmtAt(ran', i) # "ext"
      /\ policy # "Reject" =>
            \/ errors' = errors /\ (Reported(reports') <=> Reported(reports))
            \/ errors' = errors + 1 /\ Reported(reports')
  BY <1>3, <1>4, UnitRun
<1>6. CliTypeOK'
  BY <1>1 DEF ProgramOK, CliTypeOK
<1>7. StagesOK'
  <2>1. /\ ~gathers' /\ phase' # "crashed" /\ stage' \notin {"args", "open", "exited"}
        /\ (prompt' # "top" => stage' \in {"stdin", "exited"} /\ interactive')
        /\ prompt' = "typed" => read' < Len(text')
    BY <1>1, <1>2, <1>4 DEF ProgramOK, StagesOK
  <2>2. (trouble' => stage' = "exited") /\ (ctrl_c' => handler' = "exiting")
    BY <1>1 DEF ProgramOK, StagesOK
  <2>3. quit' => phase' = "done"
    BY <1>4 DEF ProgramOK, StagesOK
  <2>4. ~interactive' /\ phase' \in {"running", "done"} /\ ~quit' => read' = Len(text')
    BY <1>1, <1>4 DEF ProgramOK, StagesOK
  <2> QED
    BY <2>1, <2>2, <2>3, <2>4 DEF StagesOK
<1>8. StrictOK'
  <2>1. policy' = "Reject" => \A i \in DOMAIN ran' : StmtAt(ran', i) # "ext"
    BY <1>1, <1>5 DEF ProgramOK, StrictOK, StmtAt
  <2> QED
    BY <1>1, <2>1 DEF ProgramOK, StrictOK, StmtAt
<1>9. CountsOK'
  <2>1. AnyError <=> Reported(reports)
    BY DEF AnyError, Reported
  <2>2. AnyError' <=> Reported(reports')
    BY DEF AnyError, Reported
  <2>3. Counted = total + errors /\ Counted' = total + errors'
    BY <1>1, <1>2 DEF Counted
  <2>4. policy # "Reject" => (Counted > 0 <=> AnyError)
    BY <1>2 DEF ProgramOK, CountsOK
  <2>5. policy # "Reject" => (Counted' > 0 <=> AnyError')
    <3>1. CASE errors' = errors /\ (Reported(reports') <=> Reported(reports))
      BY <2>1, <2>2, <2>3, <2>4, <3>1
    <3>2. CASE errors' = errors + 1 /\ Reported(reports')
      <4>1. total + errors' > 0
        BY <1>3, <3>2
      <4> QED
        BY <2>2, <2>3, <3>2, <4>1
    <3> QED
      BY <1>5, <3>1, <3>2
  <2> QED
    BY <1>1, <2>5 DEF CountsOK
<1>10. StatusOK'
  BY <1>1, <1>2 DEF StatusOK
<1> QED
  BY <1>4, <1>6, <1>7, <1>8, <1>9, <1>10 DEF ProgramOK

(* A line is read, or the end of the source. *)
LEMMA PushProgram ==
  ASSUME SourceOK, ProgramOK, PushLine, Unattended \/ AtTerminal,
         UNCHANGED <<process, stage, outcome, signal, resumed>>,
         prompt' = "top" \/ (prompt' = prompt /\ Unattended)
  PROVE  SourceOK' /\ ProgramOK'
<1>1. /\ text' = text /\ policy' = policy /\ gathers' = gathers /\ phase' = phase
      /\ errors' = errors /\ quit' = quit /\ ran' = ran /\ reports' = reports
      /\ resumed' = resumed /\ stage' = stage /\ ctrl_c' = ctrl_c /\ handler' = handler
      /\ phase = "reading"
  BY DEF PushLine, input, summary, output, signal
<1>2. SourceOK'
  BY <1>1, PushSource
<1>3. stage \in {"file", "stdin"}
  BY DEF Unattended, AtTerminal
<1>4. prompt' = "typed" => read' < Len(text)
  <2>1. Unattended => prompt = "top"
    BY DEF Unattended, ProgramOK, StagesOK
  <2> QED
    BY <2>1
<1>5. resumed' \in 0..MaxLines
  BY <1>1, ProgramFacts
<1>6. ctrl_c' = FALSE \/ ctrl_c' = ctrl_c
  BY <1>1
<1>7. UNCHANGED <<text, policy, gathers, errors, quit, ran, reports, process, stage, outcome, handler>>
  BY <1>1
<1>8. prompt' = prompt \/ prompt' = "top"
  OBVIOUS
<1>9. phase' = phase /\ (phase \in {"running", "done"} => read' = read)
  BY <1>1
<1> QED
  BY <1>2, <1>3, <1>4, <1>5, <1>6, <1>7, <1>8, <1>9, ReadProgram

LEMMA RestProgram ==
  ASSUME SourceOK, ProgramOK, TakeRest, stage \in {"file", "stdin"}, interactive \/ read = Len(text),
         UNCHANGED <<process, stage, prompt, outcome, signal, resumed>>
  PROVE  SourceOK' /\ ProgramOK'
<1>1. /\ text' = text /\ policy' = policy /\ gathers' = gathers /\ phase = "reading" /\ phase' = "running"
      /\ read' = read /\ errors' = errors /\ quit' = quit /\ ran' = ran /\ reports' = reports
      /\ resumed' = resumed /\ stage' = stage /\ ctrl_c' = ctrl_c /\ handler' = handler /\ prompt' = prompt
  BY DEF TakeRest, input, summary, output, signal
<1>2. SourceOK'
  BY <1>1, TakeRestSource
<1>3. prompt' = "typed" => read' < Len(text)
  BY <1>1 DEF ProgramOK, StagesOK
<1>4. resumed' \in 0..MaxLines
  BY <1>1, ProgramFacts
<1>5. UNCHANGED <<text, policy, gathers, errors, quit, ran, reports, process, stage, outcome, handler>>
  BY <1>1
<1>6. phase # "done" /\ phase' \in {"running", "done"} /\ (interactive \/ read' = Len(text))
  BY <1>1
<1> QED
  BY <1>1, <1>2, <1>3, <1>4, <1>5, <1>6, ReadProgram

LEMMA DoneProgram ==
  ASSUME SourceOK, ProgramOK, Done, Unattended \/ AtTerminal,
         UNCHANGED <<process, stage, prompt, outcome, signal, resumed>>
  PROVE  SourceOK' /\ ProgramOK'
<1>1. /\ text' = text /\ policy' = policy /\ gathers' = gathers /\ phase = "running" /\ phase' = "done"
      /\ read' = read /\ errors' = errors /\ quit' = quit /\ ran' = ran /\ reports' = reports
      /\ resumed' = resumed /\ stage' = stage /\ ctrl_c' = ctrl_c /\ handler' = handler /\ prompt' = prompt
  BY DEF Done, input, acc, summary, output, signal
<1>2. SourceOK'
  BY <1>1, DoneSource
<1>3. prompt' = "typed" => read' < Len(text)
  BY <1>1 DEF ProgramOK, StagesOK
<1>4. resumed' \in 0..MaxLines /\ stage \in {"file", "stdin"}
  BY <1>1, ProgramFacts DEF Unattended, AtTerminal
<1>5. UNCHANGED <<text, policy, gathers, errors, quit, ran, reports, process, stage, outcome, handler>>
  BY <1>1
<1>6. ~quit /\ (interactive \/ read' = Len(text))
  BY <1>1 DEF ProgramOK, StagesOK
<1> QED
  BY <1>1, <1>2, <1>3, <1>4, <1>5, <1>6, ReadProgram

LEMMA ProcessKeeps ==
  ASSUME SourceOK, ProgramOK, Process
  PROVE  SourceOK' /\ ProgramOK'
<1>1. UNCHANGED <<process, stage, prompt, outcome, signal, resumed>>
  BY DEF Process
<1>2. CASE Unattended /\ PushLine
  BY <1>1, <1>2, PushProgram
<1>3. CASE Unattended /\ Finish
  BY <1>1, <1>3, RestProgram DEF Unattended, Finish
<1>4. CASE (Unattended \/ AtTerminal) /\ RunUnit
  BY <1>1, <1>4, RunUnitProgram
<1>5. CASE (Unattended \/ AtTerminal) /\ Done
  BY <1>1, <1>5, DoneProgram
<1> QED
  BY <1>2, <1>3, <1>4, <1>5 DEF Process

(* The interactive loop. *)
LEMMA InterruptProgram ==
  ASSUME SourceOK, ProgramOK, SeeInterrupt
  PROVE  SourceOK' /\ ProgramOK'
<1>1. /\ UNCHANGED <<text, policy, gathers, errors, quit, ran, reports, process, stage, outcome, handler>>
      /\ phase' = phase /\ phase = "reading" /\ ctrl_c' = FALSE /\ prompt' = "top" /\ resumed' = read'
      /\ text' = text /\ read' = IF prompt = "typed" THEN read + 1 ELSE read
  BY DEF SeeInterrupt, Waits, input, summary, output
<1>2. SourceOK'
  BY InterruptSource
<1>3. resumed' \in 0..MaxLines
  <2>1. read' \in 0..Len(text) /\ Len(text) <= MaxLines /\ Len(text) \in Nat
    BY <1>1, <1>2, SourceFacts DEF SourceOK, TypeOK, PiecesOK
  <2> QED
    BY <1>1, <2>1, DriverConstantsOK
<1>4. stage \in {"file", "stdin"}
  BY DEF SeeInterrupt, Waits, AtTerminal
<1> QED
  BY <1>1, <1>2, <1>3, <1>4, ReadProgram

LEMMA TypedKeeps ==
  ASSUME SourceOK, ProgramOK, PushTyped \/ EndSession
  PROVE  SourceOK' /\ ProgramOK'
<1>1. CASE PushTyped
  BY <1>1, PushProgram DEF PushTyped, Waits
<1>2. CASE EndSession
  BY <1>2, RestProgram DEF EndSession, Waits, AtTerminal
<1> QED
  BY <1>1, <1>2
-----------------------------------------------------------------------------
LEMMA OtherSource ==
  ASSUME SourceOK, ProgramOK,
         \/ TakeOption \/ TakeFile \/ RefuseOption \/ Start \/ CloseSource \/ RefuseSource
         \/ Interrupt \/ HandlerExit \/ AskLine \/ TypeLine
  PROVE  SourceOK'
<1>1. /\ text' = text /\ UNCHANGED <<gathers, phase, read, acc, units, summary, output>>
      /\ resumed' = resumed /\ (handler' = handler \/ handler' = "exiting")
  BY DEF TakeOption, TakeFile, RefuseOption, Start, CloseSource, RefuseSource, Interrupt, HandlerExit,
         AskLine, TypeLine, Exit, vars, input, acc, summary, output, signal
<1>2. policy' = policy \/ policy' \in {"Reject", "Warn"}
  BY DEF TakeOption, TakeFile, RefuseOption, Start, CloseSource, RefuseSource, Interrupt, HandlerExit,
         AskLine, TypeLine, vars, input
<1>3. policy' \in Policies
  BY <1>2, CliConstantsOK, ProgramFacts DEF Policy
<1> QED
  BY <1>1, <1>3, SourceKept

LEMMA CliStep ==
  ASSUME SourceOK, ProgramOK, [CliNext]_cliVars
  PROVE  SourceOK' /\ ProgramOK'
<1>1. CASE TakeOption \/ TakeFile \/ RefuseOption \/ Start
  BY <1>1, OtherSource, ArgsProgram
<1>2. CASE OpenFile \/ OpenStdin
  BY <1>2, OpenSourceOK, OpenProgram DEF OpenFile, OpenStdin
<1>3. CASE CloseSource \/ RefuseSource
  BY <1>3, OtherSource, CloseProgram
<1>4. CASE Process
  BY <1>4, ProcessKeeps
<1>5. CASE SeeInterrupt
  BY <1>5, InterruptProgram
<1>6. CASE PushTyped \/ EndSession
  BY <1>6, TypedKeeps
<1>7. CASE Interrupt \/ HandlerExit \/ AskLine \/ TypeLine
  BY <1>7, OtherSource, SignalProgram
<1>8. CASE UNCHANGED cliVars
  <2>1. /\ text' = text /\ policy' = policy /\ gathers' = gathers /\ phase' = phase /\ read' = read
        /\ errors' = errors /\ quit' = quit /\ ran' = ran /\ reports' = reports /\ resumed' = resumed
        /\ args' = args /\ files' = files /\ interactive' = interactive /\ given' = given /\ prompt' = prompt
        /\ total' = total /\ status' = status /\ trouble' = trouble /\ stage' = stage
        /\ ctrl_c' = ctrl_c /\ handler' = handler
        /\ UNCHANGED <<acc, units, summary, output>>
    BY <1>8 DEF cliVars, vars, input, acc, summary, output, process, outcome, signal
  <2>2. policy' \in Policies
    BY <2>1 DEF SourceOK, TypeOK
  <2>3. SourceOK'
    BY <2>1, <2>2, SourceKept
  <2>4. CliTypeOK' /\ StrictOK'
    BY <2>1 DEF ProgramOK, CliTypeOK, StrictOK
  <2>5. StagesOK'
    BY <2>1 DEF ProgramOK, StagesOK
  <2>6. CountsOK' /\ StatusOK'
    BY <2>1 DEF ProgramOK, CountsOK, StatusOK, Counted, AnyError
  <2> QED
    BY <2>3, <2>4, <2>5, <2>6 DEF ProgramOK
<1> QED
  BY <1>1, <1>2, <1>3, <1>4, <1>5, <1>6, <1>7, <1>8 DEF CliNext, Main, User

LEMMA CliStart ==
  ASSUME CliInit
  PROVE  SourceOK /\ ProgramOK
<1>1. /\ files = 0 /\ stage = "args" /\ prompt = "top" /\ interactive \in BOOLEAN
      /\ total = 0 /\ status = 0 /\ ctrl_c = FALSE /\ handler = "idle"
      /\ given = {} /\ trouble = FALSE /\ resumed = 0
      /\ text = <<>> /\ policy = "Allow" /\ gathers = FALSE
      /\ phase = "reading" /\ read = 0
      /\ buf = <<>> /\ start_line = 1 /\ next_line = 1 /\ from = 0
      /\ units = <<>> /\ errors = 0 /\ quit = FALSE
      /\ ran = <<>> /\ reports = <<>>
  BY DEF CliInit
<1>2. args \in Seq(Options \union {"file"})
  <2>1. PICK n \in 0..MaxArgs : args \in [1..n -> Options \union {"file"}]
    BY DEF CliInit
  <2>2. n \in Nat
    BY <2>1, CliConstantsOK
  <2> QED
    BY <2>1, <2>2
<1>3. TypeOK
  <2>1. policy \in Policies
    BY <1>1, CliConstantsOK DEF Policy
  <2>2. text \in Seq(Lines) /\ read \in 0..Len(text) /\ buf \in Seq(Lines) /\ units \in Seq(Unit)
    BY <1>1
  <2>3. /\ start_line \in Nat \ {0} /\ next_line \in Nat \ {0} /\ from \in Nat /\ errors \in Nat
        /\ phase \in {"reading", "running", "done", "crashed"}
    BY <1>1
  <2>4. gathers \in BOOLEAN /\ quit \in BOOLEAN
    BY <1>1
  <2> QED
    BY <2>1, <2>2, <2>3, <2>4 DEF TypeOK
<1>4. PiecesOK
  BY <1>1, DriverConstantsOK DEF PiecesOK
<1>5. LineNumber(0) = 1
  <2>1. SubSeq(text, 1, 0) = <<>>
    BY <1>1, SubSeqEmpty
  <2>2. Newlines(<<>>) = 0
    BY NewlinesEmpty
  <2>3. LineNumber(0) = 1 + Newlines(SubSeq(text, 1, 0))
    BY DEF LineNumber
  <2>4. LineNumber(0) = 1 + 0
    BY <2>1, <2>2, <2>3
  <2> QED
    BY <2>4
<1>6. NumbersOK
  BY <1>1, <1>5 DEF NumbersOK, UnitsNumbered
<1>7. SourceOK
  <2>1. reports \in Seq(Reports) /\ ran \in Seq([line : Nat, column : Nat])
    BY <1>1
  <2> QED
    BY <1>1, <1>3, <1>4, <1>6, <2>1 DEF SourceOK
<1>8. CliTypeOK
  <2>1. /\ files \in Nat /\ stage \in {"args", "open", "file", "stdin", "exited"}
        /\ prompt \in {"top", "waiting", "typed"} /\ total \in Nat /\ status \in {0, 1}
        /\ handler \in {"idle", "exiting"} /\ given \subseteq Options /\ resumed \in 0..MaxLines
    BY <1>1, DriverConstantsOK
  <2>2. interactive \in BOOLEAN /\ ctrl_c \in BOOLEAN /\ trouble \in BOOLEAN
    BY <1>1
  <2> QED
    BY <1>2, <2>1, <2>2 DEF CliTypeOK
<1>9. StagesOK
  BY <1>1 DEF StagesOK
<1>10. StrictOK /\ StatusOK
  BY <1>1 DEF StrictOK, StatusOK
<1>11. CountsOK
  BY <1>1 DEF CountsOK, Counted, AnyError
<1> QED
  BY <1>7, <1>8, <1>9, <1>10, <1>11 DEF ProgramOK

(* The inductive invariant: whatever the options, the sources, the lines typed and the     *)
(* moment of each interrupt (main.rs, driver.rs).                                          *)
THEOREM CliInductive == CliSpec => []CliInv
<1>1. CliInit => CliInv
  BY CliStart, CliInvParts
<1>2. CliInv /\ [CliNext]_cliVars => CliInv'
  <2>1. CliInv => SourceOK /\ ProgramOK
    BY CliInvParts
  <2>2. SourceOK' /\ ProgramOK' => CliInv'
    BY DEF CliInv, SourceOK, ProgramOK, Reports
  <2> QED
    BY <2>1, <2>2, CliStep
<1> QED
  BY <1>1, <1>2, PTL DEF CliSpec

(* A unit that is run has the number of its first line, counting every newline read before  *)
(* it, until the first interrupt (driver.rs 64, 68).                                       *)
THEOREM LinesStayCounted == CliSpec => []LinesCounted
<1>1. CliInv => LinesCounted
  BY DEF CliInv, NumbersOK, LinesCounted
<1> QED
  BY <1>1, CliInductive, PTL

(* What was typed before an interrupt the loop has seen is never run with what follows      *)
(* (main.rs 180-196).                                                                      *)
THEOREM InterruptsDrop == CliSpec => []InterruptedUnitDropped
<1>1. CliInv => InterruptedUnitDropped
  BY DEF CliInv, PiecesOK, InterruptedUnitDropped
<1> QED
  BY <1>1, CliInductive, PTL

(* With -s among the arguments no extension is executed, whatever the order of the options, *)
(* in any source (main.rs, driver.rs).                                                     *)
THEOREM StrictNeverRuns == CliSpec => []StrictRefuses
<1>1. CliInv => StrictRefuses
  BY DEF CliInv, StrictOK, StrictRefuses
<1> QED
  BY <1>1, CliInductive, PTL

(* The exit status tells of every error in every source, of a refused option or source, and *)
(* of nothing else; it never speaks of an error that was not reported, whenever Ctrl+C comes. *)
(* For every policy but that of -s: there a unit that uses an extension and then quits is    *)
(* refused in print and not counted.                                                        *)
THEOREM StatusTells == CliSpec => [](policy # "Reject" => ExitStatusTells)
<1>1. ASSUME CliInv, policy # "Reject", stage = "exited", handler = "idle"
      PROVE  status = 0 <=> ~trouble /\ ~AnyError /\ (~interactive => quit \/ read = Len(text))
  <2>1. \/ trouble /\ status = 1
        \/ ~trouble /\ phase = "done" /\ (status = 0 <=> total = 0)
    BY <1>1 DEF CliInv, StatusOK
  <2>3. total \in Nat
    BY <1>1 DEF CliInv, CliTypeOK
  <2>2. total > 0 <=> AnyError
    <3>1. Counted = total
      BY <1>1, <2>3 DEF Counted
    <3>2. Counted > 0 <=> AnyError
      BY <1>1 DEF CliInv, CountsOK
    <3> QED
      BY <3>1, <3>2
  <2>4. phase = "done" => (~interactive => quit \/ read = Len(text))
    BY <1>1 DEF CliInv, StagesOK
  <2> QED
    BY <2>1, <2>2, <2>3, <2>4
<1>2. CliInv /\ policy # "Reject" /\ stage = "exited" /\ status = 1 => trouble \/ AnyError
  BY DEF CliInv, StatusOK
<1>3. CliInv => (policy # "Reject" => ExitStatusTells)
  BY <1>1, <1>2 DEF ExitStatusTells
<1> QED
  BY <1>3, CliInductive, PTL

(* Nothing is read, opened or run after `quit`, in whichever source it stands (main.rs).    *)
THEOREM NothingAfterQuit == CliSpec => QuitIsFinal
<1> DEFINE Final == UNCHANGED <<text, read, files, ran, reports>>
<1>1. ASSUME CliInv, quit, CliNext
      PROVE  Final
  <2>1. phase = "done" /\ stage \notin {"args", "open"}
    BY <1>1 DEF CliInv, StagesOK
  <2>2. \/ CloseSource \/ Interrupt \/ HandlerExit
    BY <1>1, <2>1 DEF CliNext, Main, User, TakeOption, TakeFile, RefuseOption, Start, OpenFile, OpenStdin,
       RefuseSource, Process, PushLine, Finish, TakeRest, RunUnit, Done, SeeInterrupt, AskLine, TypeLine,
       PushTyped, EndSession, Waits
  <2> QED
    BY <2>2 DEF CloseSource, Interrupt, HandlerExit, vars, input, output, process
<1>2. CliInv /\ [CliNext]_cliVars => [quit => Final]_cliVars
  BY <1>1
<1> QED
  BY <1>2, CliInductive, PTL DEF CliSpec, QuitIsFinal
=============================================================================
