---------------------------- MODULE Driver_proofs ----------------------------
(***************************************************************************)
(* Proofs about Driver: units carry the numbers of their first lines, and  *)
(* both loops implement UnitStream, for all sets of lines, all texts and   *)
(* all policies.  The scanner and the parser are not expanded: the proofs  *)
(* hold whatever they decide.                                              *)
(***************************************************************************)
EXTENDS Driver, InputText_proofs, FiniteSetTheorems, SequenceTheorems, TLAPS

(* Sequences *)

LEMMA AppendEntries ==
  ASSUME NEW S, NEW s \in Seq(S), NEW e \in S
  PROVE  /\ Append(s, e) \in Seq(S) /\ Append(s, e) # <<>> /\ Len(Append(s, e)) = Len(s) + 1
         /\ DOMAIN Append(s, e) = 1..(Len(s) + 1)
         /\ \A i \in 1..Len(s) : Append(s, e)[i] = s[i]
         /\ Append(s, e)[Len(s) + 1] = e
  BY AppendProperties

LEMMA TailEntries ==
  ASSUME NEW S, NEW s \in Seq(S), s # <<>>
  PROVE  /\ Head(s) = s[1] /\ Head(s) \in S /\ Len(s) \in Nat \ {0}
         /\ Tail(s) \in Seq(S) /\ Len(Tail(s)) = Len(s) - 1
         /\ \A i \in 1..(Len(s) - 1) : Tail(s)[i] = s[i + 1]
         /\ Tail(s) # <<>> => Len(s) > 1 /\ Head(Tail(s)) = s[2]
         /\ Tail(s) = <<>> => Len(s) = 1
<1>1. Len(s) \in Nat \ {0} /\ Head(s) = s[1] /\ Head(s) \in S
  OBVIOUS
<1>2. Tail(s) \in Seq(S) /\ Len(Tail(s)) = Len(s) - 1 /\ \A i \in 1..(Len(s) - 1) : Tail(s)[i] = s[i + 1]
  BY HeadTailProperties
<1>3. Tail(s) # <<>> => Len(Tail(s)) # 0 /\ Head(Tail(s)) = Tail(s)[1]
  BY <1>2
<1>4. Tail(s) = <<>> => Len(Tail(s)) = 0
  BY <1>2, EmptySeq
<1> QED
  BY <1>1, <1>2, <1>3, <1>4
-----------------------------------------------------------------------------
(* Lines and their numbers *)

LEMMA NewlinesTyped ==
  ASSUME NEW s \in Seq(Lines)
  PROVE  /\ IsFiniteSet({i \in DOMAIN s : s[i].end # "none"})
         /\ Newlines(s) \in Nat
<1> DEFINE ends == {i \in DOMAIN s : s[i].end # "none"}
<1>1. DOMAIN s = 1..Len(s) /\ Len(s) \in Nat
  OBVIOUS
<1>2. IsFiniteSet(1..Len(s))
  BY <1>1, FS_Interval
<1>3. ends \in SUBSET (1..Len(s))
  BY <1>1
<1>4. IsFiniteSet(ends)
  BY <1>2, <1>3, FS_Subset
<1>5. Cardinality(ends) \in Nat
  BY <1>4, FS_CardinalityType
<1> QED
  BY <1>4, <1>5 DEF Newlines

LEMMA NewlinesAppend ==
  ASSUME NEW s \in Seq(Lines), NEW l \in Lines
  PROVE  Newlines(Append(s, l)) = Newlines(s) + (IF l.end = "none" THEN 0 ELSE 1)
<1> DEFINE ends  == {i \in DOMAIN s : s[i].end # "none"}
           t     == Append(s, l)
           ends2 == {i \in DOMAIN t : t[i].end # "none"}
<1>1. /\ DOMAIN s = 1..Len(s) /\ Len(s) \in Nat /\ DOMAIN t = 1..(Len(s) + 1)
      /\ \A i \in 1..Len(s) : t[i] = s[i]
      /\ t[Len(s) + 1] = l
  BY AppendEntries
<1>2. IsFiniteSet(ends) /\ Cardinality(ends) \in Nat
  BY NewlinesTyped DEF Newlines
<1> HIDE DEF t
<1>5. Newlines(s) = Cardinality(ends) /\ Newlines(t) = Cardinality(ends2)
  BY DEF Newlines
<1>6. t = Append(s, l)
  BY DEF t
<1> HIDE DEF ends, ends2
<1>3. CASE l.end = "none"
  <2>1. ends2 = ends
    BY <1>1, <1>3 DEF ends, ends2
  <2> QED
    BY <2>1, <1>2, <1>3, <1>5, <1>6
<1>4. CASE l.end # "none"
  <2>1. ends2 = ends \union {Len(s) + 1}
    BY <1>1, <1>4 DEF ends, ends2
  <2>2. Len(s) + 1 \notin ends
    BY <1>1 DEF ends
  <2>3. Cardinality(ends2) = Cardinality(ends) + 1
    BY <2>1, <2>2, <1>2, FS_AddElement
  <2> QED
    BY <2>3, <1>4, <1>5, <1>6
<1> QED
  BY <1>3, <1>4

LEMMA NewlinesEmpty == Newlines(<<>>) = 0
<1>1. ASSUME NEW s, s = <<>>
      PROVE  {i \in DOMAIN s : s[i].end # "none"} = {}
  BY <1>1
<1> QED
  BY <1>1, FS_EmptySet DEF Newlines

(* The number of the next line, after one more line has been read. *)
LEMMA NextNumber ==
  ASSUME text \in Seq(Lines), NEW i \in Nat, i < Len(text)
  PROVE  /\ LineNumber(i) \in Nat \ {0}
         /\ LineNumber(i + 1) = IF text[i + 1].end = "none" THEN LineNumber(i) ELSE LineNumber(i) + 1
<1> DEFINE s == SubSeq(text, 1, i)
<1>1. s \in Seq(Lines) /\ SubSeq(text, 1, i + 1) = Append(s, text[i + 1])
  BY SegmentAppend, SegmentTyped, 0 \in Nat
<1>2. text[i + 1] \in Lines
  OBVIOUS
<1>3. Newlines(s) \in Nat
  BY <1>1, NewlinesTyped
<1>4. Newlines(Append(s, text[i + 1])) = Newlines(s) + (IF text[i + 1].end = "none" THEN 0 ELSE 1)
  BY <1>1, <1>2, NewlinesAppend
<1>5. LineNumber(i) = 1 + Newlines(s) /\ LineNumber(i + 1) = 1 + Newlines(Append(s, text[i + 1]))
  BY <1>1 DEF LineNumber
<1>6. PICK n \in Nat : n = Newlines(s)
  BY <1>3
<1>7. CASE text[i + 1].end = "none"
  BY <1>4, <1>5, <1>6, <1>7
<1>8. CASE text[i + 1].end # "none"
  BY <1>4, <1>5, <1>6, <1>8
<1> QED
  BY <1>7, <1>8
-----------------------------------------------------------------------------
(* The waiting units *)

LEMMA TextKept ==
  ASSUME text' = text
  PROVE  /\ \A i : LineNumber(i)' = LineNumber(i)
         /\ \A i, k : Segment(i, k)' = Segment(i, k)
         /\ \A u : UnitFits(u)' = UnitFits(u)
<1>1. \A i : LineNumber(i)' = LineNumber(i)
  BY DEF LineNumber
<1>2. \A i, k : Segment(i, k)' = Segment(i, k)
  BY DEF Segment
<1>3. \A i, k : IsUnit(i, k)' = IsUnit(i, k)
  BY DEF IsUnit, Segment
<1>4. \A u : UnitFits(u)' = UnitFits(u)
  BY <1>1, <1>2, <1>3 DEF UnitFits, UnitEnd
<1> QED
  BY <1>1, <1>2, <1>4

LEMMA UnitsKept ==
  ASSUME units \in Seq(Unit), UnitsOK, text' = text, units' = units, Pending' = Pending
  PROVE  UnitsOK'
<1>1. ASSUME NEW i \in DOMAIN units
      PROVE  UnitFits(units[i])'
  BY <1>1, TextKept DEF UnitsOK
<1>2. ASSUME NEW i \in DOMAIN units
      PROVE  UnitEnd(units[i]) = IF i < Len(units) THEN units[i + 1].from ELSE Pending
  BY <1>2 DEF UnitsOK
<1> QED
  BY <1>1, <1>2 DEF UnitsOK, UnitEnd

LEMMA UnitsGrow ==
  ASSUME units \in Seq(Unit), UnitsOK, text' = text,
         NEW u \in Unit, UnitFits(u), u.from = Pending, UnitEnd(u) = Pending',
         units' = Append(units, u)
  PROVE  UnitsOK'
<1>1. /\ Len(units) \in Nat /\ DOMAIN units = 1..Len(units)
      /\ Len(units') = Len(units) + 1 /\ DOMAIN units' = 1..(Len(units) + 1)
      /\ \A i \in 1..Len(units) : units'[i] = units[i]
      /\ units'[Len(units) + 1] = u
  BY AppendEntries
<1>2. ASSUME NEW i \in 1..(Len(units) + 1)
      PROVE  /\ UnitFits(units'[i])
             /\ UnitEnd(units'[i]) = IF i < Len(units) + 1 THEN units'[i + 1].from ELSE Pending'
  <2>5. PICK n \in Nat : n = Len(units)
    BY <1>1
  <2>4. i = Len(units) + 1 \/ i = Len(units) \/ i < Len(units)
    BY <2>5
  <2>1. CASE i = Len(units) + 1
    BY <1>1, <2>1
  <2>2. CASE i = Len(units)
    <3>1. UnitFits(units[i]) /\ UnitEnd(units[i]) = Pending
      BY <1>1, <2>2 DEF UnitsOK
    <3> QED
      BY <1>1, <2>2, <3>1
  <2>3. CASE i < Len(units)
    <3>1. UnitFits(units[i]) /\ UnitEnd(units[i]) = units[i + 1].from
      BY <1>1, <2>3 DEF UnitsOK
    <3> QED
      BY <1>1, <2>3, <3>1
  <2> QED
    BY <2>1, <2>2, <2>3, <2>4
<1> QED
  BY SMTT(30), <1>1, <1>2 DEF UnitsOK, UnitEnd, UnitFits, IsUnit, Segment, LineNumber

LEMMA UnitsShrink ==
  ASSUME units \in Seq(Unit), UnitsOK, text' = text, units # <<>>, units' = Tail(units),
         Pending' = Pending
  PROVE  UnitsOK'
<1>1. /\ Len(units) \in Nat \ {0} /\ DOMAIN units = 1..Len(units)
      /\ units' \in Seq(Unit) /\ Len(units') = Len(units) - 1
      /\ DOMAIN units' = 1..(Len(units) - 1)
      /\ \A i \in 1..(Len(units) - 1) : units'[i] = units[i + 1]
  BY TailEntries
<1>2. ASSUME NEW i \in 1..(Len(units) - 1)
      PROVE  /\ UnitFits(units'[i])
             /\ UnitEnd(units'[i]) = IF i < Len(units) - 1 THEN units'[i + 1].from ELSE Pending'
  <2>1. /\ UnitFits(units[i + 1])
        /\ UnitEnd(units[i + 1]) = IF i + 1 < Len(units) THEN units[i + 2].from ELSE Pending
    BY <1>1 DEF UnitsOK
  <2>2. i < Len(units) - 1 => units'[i + 1] = units[i + 2]
    BY <1>1
  <2> QED
    BY <1>1, <2>1, <2>2
<1> QED
  BY <1>1, <1>2 DEF UnitsOK, UnitEnd, UnitFits, IsUnit, Segment, LineNumber
-----------------------------------------------------------------------------
(* Every step keeps the invariant *)

LEMMA InitInv == Init => IInv
<1> SUFFICES ASSUME Init PROVE IInv
  OBVIOUS
<1>1. text \in Seq(Lines) /\ Len(text) \in Nat
  <2>1. PICK n \in 0..MaxLines : text \in [1..n -> Lines]
    BY DEF Init
  <2> QED
    BY <2>1, DriverConstantsOK
<1>2. units \in Seq(Unit) /\ buf \in Seq(Lines) /\ read \in 0..Len(text)
  BY <1>1 DEF Init
<1>6. policy \in Policies /\ gathers \in BOOLEAN /\ phase = "reading" /\ errors = 0 /\ quit = FALSE
      /\ start_line = 1 /\ next_line = 1 /\ from = 0
  BY DEF Init
<1>7. /\ phase \in {"reading", "running", "done", "crashed"} /\ errors \in Nat /\ from \in Nat
      /\ start_line \in Nat \ {0} /\ next_line \in Nat \ {0}
  BY <1>6
<1>8. quit \in BOOLEAN
  BY <1>6
<1>3. TypeOK
  BY <1>1, <1>2, <1>6, <1>7, <1>8 DEF TypeOK
<1>4. LineNumber(0) = 1
  <2>1. SubSeq(text, 1, 0) = <<>>
    BY SubSeqEmpty
  <2>3. Newlines(<<>>) = 0
    BY NewlinesEmpty
  <2>4. LineNumber(0) = 1 + Newlines(SubSeq(text, 1, 0))
    BY DEF LineNumber
  <2>5. LineNumber(0) = 1 + 0
    BY <2>1, <2>3, <2>4
  <2> QED
    BY <2>5
<1>5. BufferOK /\ UnitsOK /\ EndsOK
  BY DEF Init, BufferOK, UnitsOK, EndsOK
<1> QED
  BY <1>3, <1>4, <1>5 DEF IInv, Init

(* What push_line makes of the next line, whether or not it completes a unit. *)
LEMMA PushFacts ==
  ASSUME TypeOK, next_line = LineNumber(read), BufferOK, read < Len(text)
  PROVE  /\ text[read + 1] \in Lines
         /\ From \in Nat /\ From <= read /\ From = Pending
         /\ StartLine \in Nat \ {0} /\ StartLine = LineNumber(From)
         /\ Buffered(text[read + 1]) = Segment(From, read + 1)
         /\ Segment(From, read + 1) \in Seq(Lines)
         /\ Segment(From, read + 1) # <<>>
         /\ Len(Segment(From, read + 1)) = read + 1 - From
         /\ \A l \in (From + 1)..read : ~Whole(Segment(From, l))
<1>1. /\ text \in Seq(Lines) /\ Len(text) \in Nat /\ read \in Nat /\ from \in Nat
      /\ text[read + 1] \in Lines
      /\ start_line \in Nat \ {0} /\ next_line \in Nat \ {0} /\ buf \in Seq(Lines)
  BY DEF TypeOK
<1>2. From = Pending
  BY DEF From, Pending
<1> DEFINE Pushed == /\ From \in Nat /\ From <= read /\ StartLine = LineNumber(From)
                     /\ Buffered(text[read + 1]) = SubSeq(text, From + 1, read + 1)
                     /\ \A l \in (From + 1)..read : ~Whole(Segment(From, l))
<1>3. ASSUME buf = <<>> PROVE Pushed
  <2>1. From = read /\ StartLine = LineNumber(From)
    BY <1>3 DEF From, StartLine
  <2>2. SubSeq(text, read + 1, read) = <<>>
    BY <1>1, SubSeqEmpty
  <2>3. SubSeq(text, read + 1, read + 1) = Append(SubSeq(text, read + 1, read), text[read + 1])
    BY <1>1, SegmentAppend
  <2>4. Buffered(text[read + 1]) = Append(<<>>, text[read + 1])
    BY <1>3 DEF Buffered
  <2>5. Buffered(text[read + 1]) = SubSeq(text, From + 1, read + 1)
    BY <2>1, <2>2, <2>3, <2>4
  <2>6. From \in Nat /\ From <= read /\ \A l \in (From + 1)..read : ~Whole(Segment(From, l))
    BY <1>1, <2>1
  <2> QED
    BY <2>1, <2>5, <2>6
<1>4. ASSUME buf # <<>> PROVE Pushed
  <2>1. /\ From = from /\ from < read /\ StartLine = LineNumber(From)
        /\ buf = SubSeq(text, from + 1, read)
        /\ \A l \in (from + 1)..read : ~Whole(Segment(from, l))
    BY <1>4 DEF From, StartLine, BufferOK, Segment
  <2>2. SubSeq(text, from + 1, read + 1) = Append(buf, text[read + 1])
    BY <1>1, <2>1, SegmentAppend
  <2>3. Buffered(text[read + 1]) = SubSeq(text, From + 1, read + 1)
    BY <2>1, <2>2 DEF Buffered
  <2> QED
    BY <1>1, <2>1, <2>3
<1>5. Pushed
  BY <1>3, <1>4
<1>6. StartLine \in Nat \ {0}
  BY <1>1 DEF StartLine
<1>7. /\ SubSeq(text, From + 1, read + 1) \in Seq(Lines)
      /\ Len(SubSeq(text, From + 1, read + 1)) = read + 1 - From
  BY <1>1, <1>5, SegmentTyped
<1>8. SubSeq(text, From + 1, read + 1) # <<>>
  <2>1. Len(SubSeq(text, From + 1, read + 1)) # 0
    BY <1>1, <1>5, <1>7
  <2> QED
    BY <2>1, EmptySeq
<1>9. Segment(From, read + 1) = SubSeq(text, From + 1, read + 1)
  BY DEF Segment
<1> QED
  BY <1>1, <1>2, <1>5, <1>6, <1>7, <1>8, <1>9

LEMMA PushInv ==
  ASSUME IInv, PushLine
  PROVE  IInv'
<1>1. /\ TypeOK /\ next_line = LineNumber(read) /\ BufferOK /\ UnitsOK /\ EndsOK
      /\ phase = "reading" /\ read < Len(text)
  BY DEF IInv, PushLine
<1>2. PICK line, f, n, r : line = text[read + 1] /\ f = From /\ n = StartLine /\ r = read + 1
  OBVIOUS
<1>3. /\ text' = text /\ policy' = policy /\ gathers' = gathers /\ phase' = phase
      /\ errors' = errors /\ quit' = quit
      /\ read' = r /\ start_line' = n /\ from' = f
      /\ next_line' = IF line.end = "none" THEN next_line ELSE next_line + 1
  BY <1>2 DEF PushLine, input, summary, output
<1>4. \/ /\ Whole(Buffered(line)) /\ buf' = <<>>
         /\ units' = Append(units, Taken(Buffered(line), n, f))
      \/ ~Whole(Buffered(line)) /\ buf' = Buffered(line) /\ units' = units
  BY <1>2 DEF PushLine, Completes
<1>5. /\ text \in Seq(Lines) /\ Len(text) \in Nat /\ read \in Nat
      /\ r \in Nat /\ r = read + 1 /\ r <= Len(text)
      /\ units \in Seq(Unit)
  BY <1>1, <1>2 DEF TypeOK
<1>6. /\ line \in Lines /\ f \in Nat /\ f <= read /\ f = Pending
      /\ n \in Nat \ {0} /\ n = LineNumber(f)
      /\ Buffered(line) = Segment(f, r)
      /\ Segment(f, r) \in Seq(Lines) /\ Segment(f, r) # <<>> /\ Len(Segment(f, r)) = r - f
      /\ \A l \in (f + 1)..read : ~Whole(Segment(f, l))
  <2>1. /\ text[read + 1] \in Lines
        /\ From \in Nat /\ From <= read /\ From = Pending
        /\ StartLine \in Nat \ {0} /\ StartLine = LineNumber(From)
        /\ Buffered(text[read + 1]) = Segment(From, read + 1)
        /\ Segment(From, read + 1) \in Seq(Lines)
        /\ Segment(From, read + 1) # <<>>
        /\ Len(Segment(From, read + 1)) = read + 1 - From
        /\ \A l \in (From + 1)..read : ~Whole(Segment(From, l))
    BY <1>1, PushFacts
  <2>2. line \in Lines /\ f \in Nat /\ f <= read /\ f = Pending
    BY <1>2, <2>1
  <2>3. n \in Nat \ {0} /\ n = LineNumber(f)
    BY <1>2, <2>1
  <2>4. Buffered(line) = Segment(f, r)
    BY <1>2, <2>1
  <2>5. Segment(f, r) = Segment(From, read + 1)
    BY <1>2
  <2>6. r - f = read + 1 - From
    BY <1>2, <1>5, <2>1
  <2>7. Segment(f, r) \in Seq(Lines) /\ Segment(f, r) # <<>> /\ Len(Segment(f, r)) = r - f
    BY <2>1, <2>5, <2>6
  <2>8. \A l \in (f + 1)..read : ~Whole(Segment(f, l))
    BY <1>2, <2>1
  <2> QED
    BY <2>2, <2>3, <2>4, <2>7, <2>8
<1>7. next_line' = LineNumber(r) /\ LineNumber(r) \in Nat \ {0}
  <2>1. /\ LineNumber(read) \in Nat \ {0}
        /\ LineNumber(read + 1) = IF line.end = "none" THEN LineNumber(read) ELSE LineNumber(read) + 1
    BY <1>1, <1>2, <1>5, NextNumber
  <2>2. next_line' = LineNumber(r)
    BY <1>1, <1>3, <1>5, <2>1
  <2>3. LineNumber(r) \in Nat \ {0}
    <3>1. CASE line.end = "none"
      BY <1>5, <2>1, <3>1
    <3>2. CASE line.end # "none"
      BY <1>5, <2>1, <3>2
    <3> QED
      BY <3>1, <3>2
  <2> QED
    BY <2>2, <2>3
<1> DEFINE Kept == UnitsOK' /\ units' \in Seq(Unit) /\ buf' \in Seq(Lines) /\ BufferOK'
<1>8. ASSUME Whole(Buffered(line)), buf' = <<>>, units' = Append(units, Taken(Buffered(line), n, f))
      PROVE  Kept
  <2>1. PICK u : u = Taken(Segment(f, r), n, f)
    OBVIOUS
  <2>2. u \in Unit /\ u.lines = Segment(f, r) /\ u.first = n /\ u.from = f
    BY <1>6, <2>1 DEF Unit, Taken
  <2>3. UnitEnd(u) = r
    BY <1>5, <1>6, <2>2 DEF UnitEnd
  <2>4. IsUnit(f, r)
    BY <1>5, <1>6, <1>8 DEF IsUnit
  <2>5. UnitFits(u)
    BY <1>6, <2>2, <2>3, <2>4 DEF UnitFits
  <2>6. Pending' = r
    BY <1>3, <1>8 DEF Pending
  <2>7. units' = Append(units, u)
    BY <1>6, <1>8, <2>1
  <2>8. UnitsOK'
    BY <1>1, <1>3, <1>5, <1>6, <2>2, <2>3, <2>5, <2>6, <2>7, UnitsGrow
  <2>9. units' \in Seq(Unit) /\ buf' \in Seq(Lines)
    BY <1>5, <1>8, <2>2, <2>7, AppendEntries
  <2>10. BufferOK'
    BY <1>8 DEF BufferOK
  <2> QED
    BY <2>8, <2>9, <2>10
<1>9. ASSUME ~Whole(Buffered(line)), buf' = Buffered(line), units' = units
      PROVE  Kept
  <2>1. Pending' = Pending
    BY <1>3, <1>6, <1>9 DEF Pending
  <2>2. UnitsOK'
    BY <1>1, <1>3, <1>5, <1>9, <2>1, UnitsKept
  <2>3. units' \in Seq(Unit) /\ buf' \in Seq(Lines)
    BY <1>5, <1>6, <1>9
  <2>4. \A l \in (f + 1)..r : ~Whole(SubSeq(text, f + 1, l))
    BY <1>5, <1>6, <1>9 DEF Segment
  <2>5. BufferOK'
    BY <1>3, <1>5, <1>6, <1>9, <2>4 DEF BufferOK, Segment, LineNumber
  <2> QED
    BY <2>2, <2>3, <2>5
<1>10. Kept
  BY <1>4, <1>8, <1>9
<1>11. TypeOK'
  <2>1. read' \in 0..Len(text') /\ start_line' \in Nat \ {0} /\ next_line' \in Nat \ {0} /\ from' \in Nat
    BY <1>3, <1>5, <1>6, <1>7
  <2> QED
    BY <1>1, <1>3, <1>10, <2>1 DEF TypeOK
<1>12. EndsOK'
  BY <1>1, <1>3 DEF EndsOK
<1>13. (next_line = LineNumber(read))'
  BY <1>3, <1>7 DEF LineNumber
<1> QED
  BY <1>10, <1>11, <1>12, <1>13 DEF IInv

LEMMA FinishInv ==
  ASSUME IInv, Finish
  PROVE  IInv'
<1>1. /\ TypeOK /\ next_line = LineNumber(read) /\ BufferOK /\ UnitsOK /\ EndsOK
      /\ phase = "reading" /\ read = Len(text)
  BY DEF IInv, Finish, TakeRest
<1>2. /\ text' = text /\ policy' = policy /\ gathers' = gathers /\ phase' = "running"
      /\ errors' = errors /\ quit' = quit
      /\ read' = read /\ start_line' = start_line /\ from' = from /\ next_line' = next_line
      /\ buf' = <<>>
      /\ units' = IF buf = <<>> THEN units ELSE Append(units, Taken(buf, start_line, from))
  BY DEF Finish, TakeRest, input, summary, output
<1>3. /\ text \in Seq(Lines) /\ Len(text) \in Nat /\ read \in Nat /\ from \in Nat
      /\ units \in Seq(Unit) /\ buf \in Seq(Lines) /\ start_line \in Nat \ {0}
  BY <1>1 DEF TypeOK
<1>4. Pending' = read
  BY <1>2 DEF Pending
<1> DEFINE Kept == UnitsOK' /\ units' \in Seq(Unit)
<1>5. ASSUME buf = <<>>
      PROVE  Kept
  <2>1. Pending' = Pending /\ units' = units
    BY <1>2, <1>4, <1>5 DEF Pending
  <2> QED
    BY <1>1, <1>2, <1>3, <2>1, UnitsKept
<1>6. ASSUME buf # <<>>
      PROVE  Kept
  <2>1. PICK u : u = Taken(buf, start_line, from)
    OBVIOUS
  <2>2. u \in Unit /\ u.lines = buf /\ u.first = start_line /\ u.from = from
    BY <1>3, <2>1 DEF Unit, Taken
  <2>3. /\ from < read /\ buf = Segment(from, read) /\ start_line = LineNumber(from)
        /\ \A l \in (from + 1)..read : ~Whole(Segment(from, l))
    BY <1>1, <1>6 DEF BufferOK
  <2>4. Len(buf) = read - from
    BY <1>1, <1>3, <2>3, SegmentTyped DEF Segment
  <2>5. UnitEnd(u) = read
    BY <1>3, <2>2, <2>4 DEF UnitEnd
  <2>6. IsUnit(from, read)
    BY <1>1, <1>3, <2>3 DEF IsUnit
  <2>7. UnitFits(u)
    BY <2>2, <2>3, <2>5, <2>6 DEF UnitFits
  <2>8. Pending = from
    BY <1>6 DEF Pending
  <2>9. units' = Append(units, u)
    BY <1>2, <1>6, <2>1
  <2>10. UnitsOK'
    BY <1>1, <1>2, <1>3, <1>4, <2>2, <2>5, <2>7, <2>8, <2>9, UnitsGrow
  <2> QED
    BY <1>3, <2>2, <2>9, <2>10, AppendEntries
<1>7. Kept
  BY <1>5, <1>6
<1>8. BufferOK' /\ EndsOK'
  BY <1>1, <1>2 DEF BufferOK, EndsOK
<1>9. TypeOK'
  BY <1>1, <1>2, <1>7 DEF TypeOK
<1>10. (next_line = LineNumber(read))'
  BY <1>1, <1>2 DEF LineNumber
<1> QED
  BY <1>7, <1>8, <1>9, <1>10 DEF IInv

LEMMA RunUnitInv ==
  ASSUME IInv, RunUnit
  PROVE  IInv'
<1>1. /\ TypeOK /\ next_line = LineNumber(read) /\ BufferOK /\ UnitsOK /\ EndsOK
      /\ phase \in {"reading", "running"} /\ units # <<>>
  BY DEF IInv, RunUnit
<1>2. /\ text' = text /\ policy' = policy /\ gathers' = gathers
      /\ read' = read /\ start_line' = start_line /\ from' = from /\ next_line' = next_line
      /\ buf' = buf /\ units' = Tail(units)
  BY DEF RunUnit, input, acc
<1>3. /\ phase' \in {"reading", "running", "done", "crashed"}
      /\ errors' \in Nat /\ quit' \in BOOLEAN
      /\ quit' => phase' = "done"
      /\ (phase' = "running" \/ (phase' = "done" /\ ~quit')) => phase = "running"
  <2>1. quit = FALSE /\ errors \in Nat
    BY <1>1 DEF EndsOK, TypeOK
  <2>2. PICK outcome : Record(outcome)
    BY DEF RunUnit
  <2> DEFINE Ended == /\ phase' \in {"reading", "running", "done", "crashed"} /\ errors' \in Nat
                      /\ \/ (phase' = phase \/ phase' = "crashed") /\ quit' = FALSE
                         \/ phase' = "done" /\ quit' = TRUE
  <2>3. ASSUME UNCHANGED <<phase, summary>>
        PROVE  Ended
    <3>1. phase' = phase /\ quit' = FALSE /\ errors' = errors
      BY <2>1, <2>3 DEF summary
    <3> QED
      BY <1>1, <2>1, <3>1
  <2>4. ASSUME errors' = errors + 1, UNCHANGED <<phase, quit>>
        PROVE  Ended
    <3>1. phase' = phase /\ quit' = FALSE
      BY <2>1, <2>4
    <3>2. errors' \in Nat
      BY <2>1, <2>4
    <3> QED
      BY <1>1, <3>1, <3>2
  <2>5. ASSUME quit' = TRUE, phase' = "done", UNCHANGED errors
        PROVE  Ended
    BY <2>1, <2>5
  <2>6. ASSUME phase' = "crashed", UNCHANGED summary
        PROVE  Ended
    <3>1. quit' = FALSE /\ errors' = errors
      BY <2>1, <2>6 DEF summary
    <3> QED
      BY <2>1, <2>6, <3>1
  <2>7. Ended
    BY <2>2, <2>3, <2>4, <2>5, <2>6 DEF Record
  <2>8. CASE (phase' = phase \/ phase' = "crashed") /\ quit' = FALSE
    BY <1>1, <2>7, <2>8
  <2>9. CASE phase' = "done" /\ quit' = TRUE
    BY <2>7, <2>9
  <2> QED
    BY <2>7, <2>8, <2>9
<1>4. units \in Seq(Unit)
  BY <1>1 DEF TypeOK
<1>5. Pending' = Pending
  BY <1>2 DEF Pending
<1>6. UnitsOK'
  BY <1>1, <1>2, <1>4, <1>5, UnitsShrink
<1>7. units' \in Seq(Unit)
  BY <1>1, <1>2, <1>4, TailEntries
<1>8. TypeOK'
  BY <1>1, <1>2, <1>3, <1>7 DEF TypeOK
<1>9. EndsOK'
  BY <1>1, <1>2, <1>3 DEF EndsOK
<1>10. BufferOK' /\ (next_line = LineNumber(read))'
  BY <1>1, <1>2 DEF BufferOK, LineNumber, Segment
<1> QED
  BY <1>6, <1>8, <1>9, <1>10 DEF IInv

LEMMA DoneInv ==
  ASSUME IInv, Done
  PROVE  IInv'
<1>1. /\ TypeOK /\ next_line = LineNumber(read) /\ BufferOK /\ UnitsOK /\ EndsOK
      /\ phase = "running"
  BY DEF IInv, Done
<1>2. /\ text' = text /\ policy' = policy /\ gathers' = gathers /\ phase' = "done"
      /\ read' = read /\ start_line' = start_line /\ from' = from /\ next_line' = next_line
      /\ buf' = buf /\ units' = units /\ errors' = errors /\ quit' = quit
  BY DEF Done, input, acc, summary, output
<1>3. TypeOK'
  BY <1>1, <1>2 DEF TypeOK
<1>4. EndsOK'
  BY <1>1, <1>2 DEF EndsOK
<1>5. UnitsOK'
  <2>1. units \in Seq(Unit) /\ Pending' = Pending
    BY <1>1, <1>2 DEF TypeOK, Pending
  <2> QED
    BY <1>1, <1>2, <2>1, UnitsKept
<1>6. BufferOK' /\ (next_line = LineNumber(read))'
  BY <1>1, <1>2 DEF BufferOK, LineNumber, Segment
<1> QED
  BY <1>3, <1>4, <1>5, <1>6 DEF IInv

LEMMA StutterInv ==
  ASSUME IInv, UNCHANGED vars
  PROVE  IInv'
  BY DEF IInv, vars, input, acc, summary, output, TypeOK, LineNumber, BufferOK, Segment, UnitsOK,
         UnitFits, IsUnit, UnitEnd, Pending, EndsOK

(* What buffer, counters and waiting units have to do with the text, in every state of both *)
(* loops of driver.rs and main.rs, for all sets of lines.                                   *)
THEOREM Inductive == Spec => []IInv
<1>1. IInv /\ [Next]_vars => IInv'
  BY PushInv, FinishInv, RunUnitInv, DoneInv, StutterInv DEF Next
<1> QED
  BY <1>1, InitInv, PTL DEF Spec

(* Every unit carries the number of its first line, whatever the lines, their ends and the  *)
(* units before it (driver.rs 64, 68).                                                      *)
THEOREM NumbersTrue == Spec => []UnitsNumbered
<1>1. IInv => UnitsNumbered
  BY DEF IInv, UnitsNumbered, UnitsOK, UnitFits
<1> QED
  BY <1>1, Inductive, PTL
-----------------------------------------------------------------------------
(* What a unit has executed stands in the text, where it is placed. *)
LEMMA PlacedIs ==
  ASSUME text \in Seq(Lines), NEW unit \in Unit, UnitEnd(unit) <= Len(text),
         unit.lines = Segment(unit.from, UnitEnd(unit)),
         NEW run \in Seq(TokensOf(unit.lines)), NEW placed,
         placed = [j \in DOMAIN run |-> [line |-> unit.from + run[j].line, column |-> run[j].column]]
  PROVE  /\ placed \in Seq([line : Nat, column : Nat])
         /\ Len(placed) = Len(run) /\ Len(run) \in Nat
         /\ DOMAIN placed = 1..Len(run) /\ DOMAIN run = 1..Len(run)
         /\ \A j \in DOMAIN run : text[placed[j].line].items[placed[j].column] = run[j].item
<1>1. PICK i, n : i = unit.from /\ n = Len(unit.lines)
  OBVIOUS
<1>2. i \in Nat /\ n \in Nat /\ i + n <= Len(text) /\ unit.lines = SubSeq(text, i + 1, i + n)
  BY <1>1 DEF Unit, UnitEnd, Segment
<1>3. ASSUME NEW j \in DOMAIN run
      PROVE  /\ placed[j] \in [line : Nat, column : Nat]
             /\ text[placed[j].line].items[placed[j].column] = run[j].item
  <2>1. PICK t \in TokensOf(unit.lines) : t = run[j]
    BY <1>3
  <2>2. /\ t.line \in 1..n /\ t.column \in Nat /\ t.line \in Nat
        /\ t.item = unit.lines[t.line].items[t.column]
    BY <1>1, <2>1 DEF TokensOf, Tokens
  <2>3. unit.lines[t.line] = text[i + t.line]
    <3>1. text \in Seq(Lines) /\ Len(text) \in Nat /\ i + n \in Nat
      BY <1>2
    <3>2. SubSeq(text, i + 1, i + n)[t.line] = text[i + t.line]
      BY <1>2, <2>2, <3>1, SMTT(30)
    <3> QED
      BY <1>2, <3>2
  <2>4. placed[j] = [line |-> i + t.line, column |-> t.column]
    BY <1>1, <1>3, <2>1
  <2>5. i + t.line \in Nat
    BY <1>2, <2>2, SMTT(30)
  <2>6. placed[j].line = i + t.line /\ placed[j].column = t.column
    BY <2>4
  <2>7. placed[j] \in [line : Nat, column : Nat]
    BY <2>2, <2>4, <2>5
  <2>8. text[i + t.line].items[t.column] = t.item
    BY <2>2, <2>3
  <2> QED
    BY <2>1, <2>6, <2>7, <2>8
<1>4. Len(run) \in Nat /\ DOMAIN run = 1..Len(run)
  OBVIOUS
<1>5. placed = [j \in 1..Len(run) |-> placed[j]]
  BY <1>4
<1>6. \A j \in 1..Len(run) : placed[j] \in [line : Nat, column : Nat]
  BY <1>3, <1>4
<1>7. placed \in Seq([line : Nat, column : Nat]) /\ Len(placed) = Len(run) /\ DOMAIN placed = 1..Len(run)
  BY <1>4, <1>5, <1>6
<1> QED
  BY <1>3, <1>4, <1>7
-----------------------------------------------------------------------------
(* Both loops implement UnitStream *)

(* A unit of the driver is the next group of the text. *)
LEMMA NextGroupIsUnit ==
  ASSUME text \in Seq(Lines), NEW i \in Nat, NEW k \in Nat, IsUnit(i, k)
  PROVE  Stream!NextGroup(i) = k
<1> DEFINE ends == {l \in (i + 1)..Len(text) : Whole(SubSeq(text, i + 1, l))}
<1>1. /\ Len(text) \in Nat /\ i < k /\ k <= Len(text)
      /\ \A l \in (i + 1)..(k - 1) : ~Whole(SubSeq(text, i + 1, l))
      /\ Whole(SubSeq(text, i + 1, k)) \/ k = Len(text)
  BY DEF IsUnit, Segment
<1>2. Stream!NextGroup(i) = IF ends = {} THEN Len(text) ELSE CHOOSE j \in ends : \A l \in ends : j <= l
  BY DEF Stream!NextGroup, Stream!Group
<1>3. CASE Whole(SubSeq(text, i + 1, k))
  <2>1. k \in ends
    BY <1>1, <1>3
  <2>2. \A l \in ends : k <= l
    BY <1>1
  <2>3. \A j \in ends : (\A l \in ends : j <= l) => j = k
    BY <2>1, <2>2
  <2> QED
    BY <1>2, <2>1, <2>2, <2>3
<1>4. CASE ~Whole(SubSeq(text, i + 1, k))
  <2>1. ends = {} /\ k = Len(text)
    BY <1>1, <1>4
  <2> QED
    BY <1>2, <2>1
<1> QED
  BY <1>3, <1>4

LEMMA InitRefines == Init => Stream!Init
<1> SUFFICES ASSUME Init PROVE Stream!Init
  OBVIOUS
<1>1. text \in Seq(Lines)
  BY DEF Init
<1>2. Position = 0
  BY DEF Init, Position, Pending
<1>3. (quit \/ phase = "crashed") = FALSE
  BY DEF Init
<1> QED
  BY <1>1, <1>2, <1>3 DEF Init, Stream!Init

LEMMA StutterRefines ==
  ASSUME text' = text, policy' = policy, ran' = ran, reports' = reports, errors' = errors,
         quit' = quit, phase' = "crashed" <=> phase = "crashed", Position' = Position
  PROVE  UNCHANGED Stream!vars
  BY DEF Stream!vars

LEMMA PushRefines ==
  ASSUME IInv, PushLine
  PROVE  UNCHANGED Stream!vars
<1>1. /\ TypeOK /\ next_line = LineNumber(read) /\ BufferOK
      /\ phase = "reading" /\ read < Len(text)
  BY DEF IInv, PushLine
<1>2. /\ text' = text /\ policy' = policy /\ phase' = phase /\ errors' = errors /\ quit' = quit
      /\ ran' = ran /\ reports' = reports /\ from' = From
  BY DEF PushLine, input, summary, output
<1>3. PICK line : line = text[read + 1]
  OBVIOUS
<1>4. \/ buf' = <<>> /\ units' = Append(units, Taken(Buffered(line), StartLine, From))
      \/ buf' = Buffered(line) /\ units' = units
  BY <1>3 DEF PushLine
<1>5. /\ From = Pending /\ From \in Nat /\ StartLine \in Nat \ {0}
      /\ Buffered(line) \in Seq(Lines) /\ Buffered(line) # <<>>
  BY <1>1, <1>3, PushFacts
<1>6. units \in Seq(Unit)
  BY <1>1 DEF TypeOK
<1>7. ASSUME buf' = <<>>, units' = Append(units, Taken(Buffered(line), StartLine, From))
      PROVE  Position' = Position
  <2>1. Taken(Buffered(line), StartLine, From) \in Unit
        /\ Taken(Buffered(line), StartLine, From).from = From
    BY <1>5 DEF Unit, Taken
  <2>2. units' # <<>> /\ Head(units') = units'[1]
    BY <1>6, <1>7, <2>1, AppendEntries
  <2>3. units = <<>> => Head(units').from = From
    BY <1>6, <1>7, <2>1, <2>2, AppendEntries
  <2>4. units # <<>> => Head(units') = Head(units)
    BY <1>6, <1>7, <2>1, <2>2, AppendEntries
  <2> QED
    BY <1>1, <1>2, <1>5, <2>2, <2>3, <2>4 DEF Position
<1>8. ASSUME buf' = Buffered(line), units' = units
      PROVE  Position' = Position
  BY <1>1, <1>2, <1>5, <1>8 DEF Position, Pending
<1>9. Position' = Position
  BY <1>4, <1>7, <1>8
<1> QED
  BY <1>2, <1>9, StutterRefines

LEMMA FinishRefines ==
  ASSUME IInv, Finish
  PROVE  UNCHANGED Stream!vars
<1>1. phase = "reading" /\ units \in Seq(Unit) /\ buf \in Seq(Lines) /\ from \in Nat
      /\ start_line \in Nat \ {0}
  BY DEF IInv, TypeOK, Finish, TakeRest
<1>2. /\ text' = text /\ policy' = policy /\ phase' = "running" /\ errors' = errors /\ quit' = quit
      /\ ran' = ran /\ reports' = reports /\ from' = from /\ read' = read /\ buf' = <<>>
      /\ units' = IF buf = <<>> THEN units ELSE Append(units, Taken(buf, start_line, from))
  BY DEF Finish, TakeRest, input, summary, output
<1>3. ASSUME buf = <<>>
      PROVE  Position' = Position
  BY <1>1, <1>2, <1>3 DEF Position, Pending
<1>4. ASSUME buf # <<>>
      PROVE  Position' = Position
  <2>1. Taken(buf, start_line, from) \in Unit /\ Taken(buf, start_line, from).from = from
    BY <1>1 DEF Unit, Taken
  <2>2. units' = Append(units, Taken(buf, start_line, from))
    BY <1>2, <1>4
  <2>3. units' # <<>> /\ Head(units') = units'[1]
    BY <1>1, <2>1, <2>2, AppendEntries
  <2>4. units = <<>> => Head(units').from = from
    BY <1>1, <2>1, <2>2, <2>3, AppendEntries
  <2>5. units # <<>> => Head(units') = Head(units)
    BY <1>1, <2>1, <2>2, <2>3, AppendEntries
  <2> QED
    BY <1>1, <1>2, <1>4, <2>3, <2>4, <2>5 DEF Position, Pending
<1>5. Position' = Position
  BY <1>3, <1>4
<1> QED
  BY <1>1, <1>2, <1>5, StutterRefines

LEMMA DoneRefines ==
  ASSUME IInv, Done
  PROVE  UNCHANGED Stream!vars
<1>1. phase = "running" /\ units = <<>> /\ read = Len(text) /\ buf = <<>>
  BY DEF IInv, EndsOK, Done
<1>2. /\ text' = text /\ policy' = policy /\ phase' = "done" /\ errors' = errors /\ quit' = quit
      /\ ran' = ran /\ reports' = reports /\ from' = from /\ read' = read /\ buf' = buf
      /\ units' = units
  BY DEF Done, input, acc, summary, output
<1>3. Position' = Position
  BY <1>1, <1>2 DEF Position, Pending
<1> QED
  BY <1>1, <1>2, <1>3, StutterRefines

(* A unit that is run is a group that is run, with the outcome it is recorded with. *)
LEMMA RunUnitRefines ==
  ASSUME IInv, RunUnit
  PROVE  Stream!RunGroup
<1>1. /\ TypeOK /\ UnitsOK /\ EndsOK
      /\ phase \in {"reading", "running"} /\ units # <<>> /\ units \in Seq(Unit)
      /\ text \in Seq(Lines)
  BY DEF IInv, RunUnit, TypeOK
<1>2. PICK unit, result : unit = Head(units) /\ result = UnitResult(unit.lines, unit.first, policy)
  OBVIOUS
<1>3. /\ ran' = ran \o [j \in DOMAIN result.ran |->
                          [line |-> unit.from + result.ran[j].line, column |-> result.ran[j].column]]
      /\ reports' = reports \o result.reports
      /\ Record(result.outcome)
  BY <1>2 DEF RunUnit
<1>4. /\ units' = Tail(units) /\ text' = text /\ policy' = policy /\ gathers' = gathers
      /\ read' = read /\ buf' = buf /\ from' = from
  BY DEF RunUnit, input, acc
<1>5. /\ unit = units[1] /\ unit \in Unit /\ Len(units) \in Nat \ {0}
      /\ Tail(units) # <<>> => Len(units) > 1 /\ Head(Tail(units)) = units[2]
      /\ Tail(units) = <<>> => Len(units) = 1
  BY <1>1, <1>2, TailEntries
<1>6. PICK i, k : i = unit.from /\ k = UnitEnd(unit)
  OBVIOUS
<1>7. i \in Nat /\ k \in Nat
  BY <1>5, <1>6 DEF Unit, UnitEnd
<1>8. /\ UnitFits(unit)
      /\ k = IF 1 < Len(units) THEN units[2].from ELSE Pending
  BY <1>1, <1>5, <1>6 DEF UnitsOK
<1>9. quit = FALSE /\ phase # "done" /\ phase # "crashed"
  BY <1>1 DEF EndsOK, TypeOK
<1>10. Position = i
  BY <1>1, <1>2, <1>6, <1>9 DEF Position
<1>11. IsUnit(i, k) /\ unit.lines = SubSeq(text, i + 1, k) /\ unit.first = 1 + Newlines(SubSeq(text, 1, i))
  BY <1>6, <1>8 DEF UnitFits, Segment, LineNumber
<1>12. i < Len(text) /\ Stream!NextGroup(i) = k
  <2>1. i < Len(text)
    BY <1>1, <1>7, <1>11 DEF IsUnit
  <2> QED
    BY <1>1, <1>7, <1>11, <2>1, NextGroupIsUnit
<1>13. Pending' = Pending
  BY <1>4 DEF Pending
<1>14. ASSUME phase' # "done" \/ quit' = TRUE
       PROVE  Position' = k
  <2>1. units' = <<>> => k = Pending'
    BY <1>4, <1>5, <1>8, <1>13
  <2>2. units' # <<>> => k = Head(units').from
    BY <1>4, <1>5, <1>8
  <2> QED
    BY <1>14, <2>1, <2>2 DEF Position
<1>15. Stream!LineNumber(Position) = unit.first /\ Stream!Group(Position, k) = unit.lines
  BY <1>10, <1>11 DEF Stream!LineNumber, Stream!Group
<1>16. /\ Position' = k
       /\ \/ result.outcome = "Completed" /\ errors' = errors
              /\ (quit' \/ phase' = "crashed") = (quit \/ phase = "crashed")
          \/ result.outcome \in {"Failed", "Panicked"} /\ errors' = errors + 1
              /\ (quit' \/ phase' = "crashed") = (quit \/ phase = "crashed")
          \/ result.outcome \in {"Quit", "Panicked"} /\ errors' = errors
              /\ (quit' \/ phase' = "crashed") = TRUE
  <2>1. CASE result.outcome = "Completed" /\ UNCHANGED <<phase, summary>>
    <3>1. phase' = phase /\ quit' = quit /\ errors' = errors
      BY <2>1 DEF summary
    <3>2. Position' = k
      BY <1>9, <1>14, <3>1
    <3> QED
      BY <2>1, <3>1, <3>2
  <2>2. CASE result.outcome \in {"Failed", "Panicked"} /\ errors' = errors + 1 /\ UNCHANGED <<phase, quit>>
    <3>1. phase' = phase /\ quit' = quit
      BY <2>2
    <3>2. Position' = k
      BY <1>9, <1>14, <3>1
    <3> QED
      BY <2>2, <3>1, <3>2
  <2>3. CASE result.outcome = "Quit" /\ quit' = TRUE /\ phase' = "done" /\ UNCHANGED errors
    <3>1. Position' = k
      BY <1>14, <2>3
    <3> QED
      BY <2>3, <3>1
  <2>4. CASE result.outcome = "Panicked" /\ phase' = "crashed" /\ UNCHANGED summary
    <3>1. errors' = errors
      BY <2>4 DEF summary
    <3>2. Position' = k
      BY <1>14, <2>4
    <3> QED
      BY <2>4, <3>1, <3>2
  <2> QED
    BY <1>3, <2>1, <2>2, <2>3, <2>4 DEF Record
<1>17. /\ Position < Len(text) /\ Position' = Stream!NextGroup(Position)
       /\ ~(quit \/ phase = "crashed")
  BY <1>9, <1>10, <1>12, <1>16
<1>18. result = UnitResult(Stream!Group(Position, Position'), Stream!LineNumber(Position), policy)
  BY <1>2, <1>15, <1>16
<1>19. ran' = ran \o [j \in DOMAIN result.ran |-> Stream!Placed(Position, result.ran[j])]
  BY <1>3, <1>6, <1>10 DEF Stream!Placed
<1> QED
  BY <1>3, <1>4, <1>16, <1>17, <1>18, <1>19 DEF Stream!RunGroup

(* Both loops of driver.rs and main.rs keep the promise of UnitStream for every text and    *)
(* every policy: no line is lost, run twice or run out of order, diagnostics have their true *)
(* line numbers, failed units are counted, and `quit` is final (driver.rs 61-101, 176-196). *)
THEOREM Refinement == Spec => ImplementsUnitStream
<1>1. Init => Stream!Init
  BY InitRefines
<1>2. IInv /\ [Next]_vars => [Stream!Next]_(Stream!vars)
  <2>1. ASSUME IInv, UNCHANGED vars
        PROVE  UNCHANGED Stream!vars
    BY <2>1 DEF vars, input, acc, summary, output, Stream!vars, Position, Pending
  <2> QED
    BY <2>1, PushRefines, FinishRefines, DoneRefines, RunUnitRefines DEF Next, Stream!Next
<1> QED
  BY <1>1, <1>2, Inductive, PTL DEF Spec, ImplementsUnitStream, Stream!Spec
-----------------------------------------------------------------------------
(* Cutting a text loses nothing of a correct program *)

LEMMA PlacesConcat ==
  ASSUME NEW b \in Seq(Tokens), NEW w \in Seq(Tokens), NEW i \in Nat
  PROVE  Places(b \o MovedAll(w, i)) = Places(b) \o [j \in DOMAIN w |-> Stream!Placed(i, w[j])]
<1> DEFINE place(t) == [line |-> t.line, column |-> t.column]
           D == [line : Nat, column : Nat]
<1>1. PICK n, k, m, both :
        n = Len(b) /\ k = Len(w) /\ m = MovedAll(w, i) /\ both = b \o MovedAll(w, i)
  OBVIOUS
<1>2. n \in Nat /\ k \in Nat /\ DOMAIN b = 1..n /\ DOMAIN w = 1..k
  BY <1>1
<1>3. /\ m \in Seq(Tokens) /\ Len(m) = k
      /\ \A j \in 1..k : m[j] = Moved(w[j], i)
  <2>1. \E t : t \in Tokens
    <3>1. [item |-> "bad", line |-> 0, column |-> 0, next |-> 0] \in Tokens
      BY DEF Tokens, Item
    <3> QED
      BY <3>1
  <2>2. MovedAll(w, i) \in Seq(Tokens) /\ Len(MovedAll(w, i)) = Len(w)
    BY <2>1, MovedAppend
  <2> QED
    BY <1>1, <1>2, <2>2 DEF MovedAll
<1>4. /\ both \in Seq(Tokens) /\ Len(both) = n + k /\ DOMAIN both = 1..(n + k)
      /\ \A x \in 1..(n + k) : both[x] = IF x <= n THEN b[x] ELSE m[x - n]
  <2>1. b \in Seq(Tokens) /\ m \in Seq(Tokens)
    BY <1>3
  <2>2. /\ b \o m \in Seq(Tokens) /\ Len(b \o m) = Len(b) + Len(m)
        /\ \A x \in 1..(Len(b) + Len(m)) : (b \o m)[x] = IF x <= Len(b) THEN b[x] ELSE m[x - Len(b)]
    BY ONLY <2>1, ConcatProperties
  <2>3. both = b \o m /\ Len(b) = n /\ Len(m) = k
    BY <1>1, <1>3
  <2>4. /\ both \in Seq(Tokens) /\ Len(both) = n + k
        /\ \A x \in 1..(n + k) : both[x] = IF x <= n THEN b[x] ELSE m[x - n]
    BY <2>2, <2>3
  <2>5. DOMAIN both = 1..Len(both)
    BY <2>4
  <2> QED
    BY <2>4, <2>5
<1>5. \A t \in Tokens : place(t) \in D
  BY DEF Tokens
<1>6. PICK pb, pw, q :
        /\ pb = Places(b) /\ q = Places(both)
        /\ pw = [j \in DOMAIN w |-> Stream!Placed(i, w[j])]
  OBVIOUS
<1>7. pb \in Seq(D) /\ Len(pb) = n /\ \A x \in 1..n : pb[x] = place(b[x])
  <2>1. \A x \in 1..n : b[x] \in Tokens
    BY <1>1, <1>2
  <2>2. pb = [x \in 1..n |-> place(b[x])]
    BY <1>2, <1>6 DEF Places
  <2>3. \A x \in 1..n : place(b[x]) \in D
    BY <1>5, <2>1
  <2> HIDE DEF place, D
  <2> QED
    BY <1>2, <2>2, <2>3
<1>8. q \in Seq(D) /\ Len(q) = n + k /\ \A x \in 1..(n + k) : q[x] = place(both[x])
  <2>1. \A x \in 1..(n + k) : both[x] \in Tokens
    BY <1>4
  <2>2. q = [x \in 1..(n + k) |-> place(both[x])]
    BY <1>4, <1>6 DEF Places
  <2>3. \A x \in 1..(n + k) : place(both[x]) \in D
    BY <1>5, <2>1
  <2>4. n + k \in Nat
    BY <1>2
  <2> HIDE DEF place, D
  <2> QED
    BY <2>2, <2>3, <2>4
<1>9. pw \in Seq(D) /\ Len(pw) = k /\ \A x \in 1..k : pw[x] = place(m[x])
  <2>1. \A x \in 1..k : m[x] \in Tokens /\ m[x] = Moved(w[x], i)
    BY <1>2, <1>3
  <2>2. pw = [x \in 1..k |-> Stream!Placed(i, w[x])]
    BY <1>2, <1>6
  <2>3. \A x \in 1..k : Stream!Placed(i, w[x]) = place(m[x])
    <3> TAKE x \in 1..k
    <3>1. m[x] = Moved(w[x], i)
      BY <2>1
    <3>2. Moved(w[x], i).line = i + w[x].line /\ Moved(w[x], i).column = w[x].column
      BY DEF Moved
    <3>3. m[x].line = i + w[x].line /\ m[x].column = w[x].column
      BY <3>1, <3>2
    <3>4. Stream!Placed(i, w[x]) = [line |-> i + w[x].line, column |-> w[x].column]
      BY DEF Stream!Placed
    <3> QED
      BY <3>3, <3>4
  <2>4. \A x \in 1..k : place(m[x]) \in D
    BY <1>5, <2>1
  <2> HIDE DEF place, D
  <2> QED
    BY <1>2, <2>2, <2>3, <2>4
<1> HIDE DEF place, D
<1>10. /\ pb \o pw \in Seq(D) /\ Len(pb \o pw) = n + k
       /\ \A x \in 1..(n + k) : (pb \o pw)[x] = IF x <= n THEN pb[x] ELSE pw[x - n]
  <2>1. /\ pb \o pw \in Seq(D) /\ Len(pb \o pw) = Len(pb) + Len(pw)
        /\ \A x \in 1..(Len(pb) + Len(pw)) : (pb \o pw)[x] = IF x <= Len(pb) THEN pb[x] ELSE pw[x - Len(pb)]
    BY <1>7, <1>9, ConcatProperties
  <2> QED
    BY <1>7, <1>9, <2>1
<1>11. ASSUME NEW x \in 1..(n + k)
       PROVE  q[x] = (pb \o pw)[x]
  <2>1. CASE x <= n
    <3>1. x \in 1..n
      BY <1>2, <2>1
    <3> QED
      BY <1>4, <1>7, <1>8, <1>10, <2>1, <3>1
  <2>2. CASE ~(x <= n)
    <3>1. x - n \in 1..k
      BY <1>2, <2>2
    <3> QED
      BY <1>4, <1>8, <1>9, <1>10, <2>2, <3>1
  <2> QED
    BY <2>1, <2>2
<1>12. q = pb \o pw
  <2>1. PICK e \in Seq(D) : e = pb \o pw
    BY <1>10
  <2>2. Len(q) = Len(e) /\ \A x \in 1..Len(q) : q[x] = e[x]
    BY <1>8, <1>10, <1>11, <2>1
  <2> QED
    BY <1>8, <2>1, <2>2, SeqEqual
<1> QED
  BY <1>1, <1>6, <1>12

LEMMA ParsedToIs == \A i : ParsedTo(i) = ParserAfter(SubSeq(text, 1, i))
  BY DEF ParsedTo, ParserAfter

LEMMA InitPrograms == Init => CorrectSoFar
<1> SUFFICES ASSUME Init PROVE CorrectSoFar
  OBVIOUS
<1>1. Position = 0
  BY DEF Init, Position, Pending
<1>2. ParsedTo(0) = Parser
  <2>1. SubSeq(text, 1, 0) = <<>>
    BY SubSeqEmpty
  <2> QED
    BY <2>1, NothingRead, ParsedToIs
<1>3. Parser.mode = "code" /\ Parser.depth = 0 /\ Places(Parser.stmts) = <<>>
  BY DEF Parser, Places
<1> QED
  BY <1>1, <1>2, <1>3 DEF Init, CorrectSoFar

LEMMA StutterPrograms ==
  ASSUME CorrectSoFar, UNCHANGED Stream!vars
  PROVE  CorrectSoFar'
<1>1. /\ text' = text /\ policy' = policy /\ Position' = Position /\ ran' = ran /\ errors' = errors
      /\ (quit' \/ phase' = "crashed") = (quit \/ phase = "crashed")
  BY DEF Stream!vars
<1>2. Correct' = Correct /\ ParsedTo(Position)' = ParsedTo(Position)
  BY <1>1 DEF Correct, ParsedTo
<1> QED
  BY <1>1, <1>2 DEF CorrectSoFar

LEMMA PositionTyped == IInv => Position \in Nat
<1> SUFFICES ASSUME IInv PROVE Position \in Nat
  OBVIOUS
<1>1. text \in Seq(Lines) /\ units \in Seq(Unit) /\ from \in Nat /\ read \in Nat
  BY DEF IInv, TypeOK
<1>2. Len(text) \in Nat /\ Pending \in Nat
  BY <1>1 DEF Pending
<1>3. units # <<>> => Head(units).from \in Nat
  <2>1. units # <<>> => Head(units) \in Unit
    BY <1>1
  <2> QED
    BY <2>1 DEF Unit
<1> QED
  BY <1>2, <1>3 DEF Position

LEMMA GroupPrograms ==
  ASSUME IInv, CorrectSoFar, Stream!RunGroup
  PROVE  CorrectSoFar'
<1>1. PICK i, k : i = Position /\ k = Position'
  OBVIOUS
<1>2. /\ text' = text /\ policy' = policy /\ i < Len(text) /\ k = Stream!NextGroup(i)
      /\ ~(quit \/ phase = "crashed")
  BY <1>1 DEF Stream!RunGroup
<1>3. Correct' = Correct /\ ParsedTo(k)' = ParsedTo(k)
  BY <1>2 DEF Correct, ParsedTo
<1>4. SUFFICES ASSUME Correct
               PROVE  /\ errors' = 0 /\ ~(quit' \/ phase' = "crashed")
                      /\ ParsedTo(k).mode = "code" /\ ParsedTo(k).depth = 0
                      /\ ran' = Places(ParsedTo(k).stmts)
  <2>1. ParsedTo(Position)' = ParsedTo(k)'
    BY <1>1, <1>2 DEF ParsedTo
  <2> QED
    BY <1>3, <2>1 DEF CorrectSoFar
<1>5. /\ errors = 0 /\ ParsedTo(i).mode = "code" /\ ParsedTo(i).depth = 0
      /\ ran = Places(ParsedTo(i).stmts)
  BY <1>1, <1>4 DEF CorrectSoFar
<1>6. text \in Seq(SourceLine) /\ i \in Nat /\ Len(text) \in Nat
  <2>1. text \in Seq(Lines)
    BY DEF IInv, TypeOK
  <2>2. Lines \subseteq SourceLine
    BY DriverConstantsOK DEF SourceLine
  <2> QED
    BY <1>1, <2>1, <2>2, PositionTyped
<1>7. k \in Nat /\ i < k /\ k <= Len(text) /\ (Whole(SubSeq(text, i + 1, k)) \/ k = Len(text))
  <2> DEFINE ends == {l \in (i + 1)..Len(text) : Whole(SubSeq(text, i + 1, l))}
  <2>1. k = IF ends = {} THEN Len(text) ELSE CHOOSE j \in ends : \A l \in ends : j <= l
    BY <1>2 DEF Stream!NextGroup, Stream!Group
  <2>2. ends # {} => k \in ends
    <3>1. ends \in SUBSET Nat
      BY <1>6
    <3> HIDE DEF ends
    <3> QED
      BY <2>1, <3>1, Least
  <2>3. ends = {} => k = Len(text)
    BY <2>1
  <2>4. k \in ends => k \in Nat /\ i < k /\ k <= Len(text) /\ Whole(SubSeq(text, i + 1, k))
    BY <1>6
  <2> HIDE DEF ends
  <2> QED
    BY <1>2, <1>6, <2>2, <2>3, <2>4
<1>8. policy = "Allow" /\ Good(Parsed(text))
  BY <1>4 DEF Correct, Good
<1>9. PICK first, r : first = Stream!LineNumber(i) /\ r = UnitResult(SubSeq(text, i + 1, k), first, "Allow")
  OBVIOUS
<1>10. /\ ran' = ran \o [j \in DOMAIN r.ran |-> Stream!Placed(i, r.ran[j])]
       /\ \/ r.outcome = "Completed" /\ errors' = errors
             /\ (quit' \/ phase' = "crashed") = (quit \/ phase = "crashed")
          \/ r.outcome \in {"Failed", "Panicked", "Quit"}
  BY <1>1, <1>8, <1>9 DEF Stream!RunGroup, Stream!Group
<1>11. /\ r.outcome = "Completed" /\ r.ran \in Seq(Tokens)
       /\ ParsedTo(k).mode = "code" /\ ParsedTo(k).depth = 0
       /\ ParsedTo(i).stmts \in Seq(Tokens)
       /\ ParsedTo(k).stmts = ParsedTo(i).stmts \o MovedAll(r.ran, i)
  <2>1. PICK at, end : at = ParserAfter(SubSeq(text, 1, i)) /\ end = ParserAfter(SubSeq(text, 1, k))
    OBVIOUS
  <2>2. ParsedTo(i) = at /\ ParsedTo(k) = end
    BY <2>1, ParsedToIs
  <2>3. PICK lines \in Seq(SourceLine) : lines = text
    BY <1>6
  <2>4. ParserAfter(SubSeq(lines, 1, i)).mode = "code"
    BY <1>5, <2>1, <2>2, <2>3
  <2>5. ParserAfter(SubSeq(lines, 1, i)).depth = 0
    BY <1>5, <2>1, <2>2, <2>3
  <2>6. Good(Parsed(lines))
    BY <1>8, <2>3
  <2>7. i \in Nat /\ k \in Nat
    BY <1>6, <1>7
  <2>8. i < k
    BY <1>7
  <2>9. k <= Len(lines)
    BY <1>7, <2>3
  <2>10. Whole(SubSeq(lines, i + 1, k)) \/ k = Len(lines)
    BY <1>7, <2>3
  <2>11. r = UnitResult(SubSeq(lines, i + 1, k), first, "Allow")
    BY <1>9, <2>3
  <2>12. RunsPiece(lines, i, k, r)
    BY <2>4, <2>5, <2>6, <2>7, <2>8, <2>9, <2>10, <2>11, UnitCompletes
  <2> QED
    BY <2>1, <2>2, <2>3, <2>12 DEF RunsPiece
<1>12. Places(ParsedTo(k).stmts) = ran \o [j \in DOMAIN r.ran |-> Stream!Placed(i, r.ran[j])]
  <2>1. PICK b \in Seq(Tokens), w \in Seq(Tokens) : b = ParsedTo(i).stmts /\ w = r.ran
    BY <1>11
  <2>2. Places(b \o MovedAll(w, i)) = Places(b) \o [j \in DOMAIN w |-> Stream!Placed(i, w[j])]
    BY <1>6, PlacesConcat
  <2> QED
    BY <1>5, <1>11, <2>1, <2>2
<1> QED
  BY <1>2, <1>5, <1>10, <1>11, <1>12

(* A text that is correct as a whole is correct in units: none fails, and together they run *)
(* its statements, in order, for all texts and both loops, although the scanner that cuts   *)
(* them knows nothing of the grammar (driver.rs 63, 166; verified_kernels.rs 820).          *)
THEOREM ProgramsKept == Spec => []CutsKeepPrograms
<1>1. IInv /\ CorrectSoFar /\ [Next]_vars => CorrectSoFar'
  <2>1. ASSUME IInv, UNCHANGED vars
        PROVE  UNCHANGED Stream!vars
    BY <2>1 DEF vars, input, acc, summary, output, Stream!vars, Position, Pending
  <2> QED
    BY <2>1, PushRefines, FinishRefines, DoneRefines, RunUnitRefines, StutterPrograms, GroupPrograms
    DEF Next
<1>2. IInv /\ CorrectSoFar => CutsKeepPrograms
  <2> SUFFICES ASSUME IInv, CorrectSoFar, phase = "done", Correct
               PROVE  errors = 0 /\ ran = Places(Parsed(text).stmts)
    BY DEF CutsKeepPrograms
  <2>1. /\ errors = 0 /\ ~quit
        /\ ParsedTo(Position).mode = "code" /\ ParsedTo(Position).depth = 0
        /\ ran = Places(ParsedTo(Position).stmts)
    BY DEF CorrectSoFar
  <2>2. Position = Len(text) /\ SubSeq(text, 1, Len(text)) = text
    <3>1. text \in Seq(Lines)
      BY DEF IInv, TypeOK
    <3>2. SubSeq(text, 1, Len(text)) = text
      BY <3>1
    <3> QED
      BY <2>1, <3>2 DEF Position
  <2>3. PICK p : p = ParserAfter(text)
    OBVIOUS
  <2>4. p.mode = "code" /\ p.depth = 0 /\ ran = Places(p.stmts)
    BY <2>1, <2>2, <2>3, ParsedToIs
  <2>5. Parsed(text) = p
    <3>1. ~(p.depth > 0)
      BY <2>4
    <3> QED
      BY <2>3, <2>4, <3>1 DEF Parsed, ParserAfter
  <2> QED
    BY <2>1, <2>4, <2>5
<1>3. Spec => []CorrectSoFar
  BY <1>1, InitPrograms, Inductive, PTL DEF Spec
<1> QED
  BY <1>2, <1>3, Inductive, PTL
=============================================================================
