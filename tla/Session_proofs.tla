--------------------------- MODULE Session_proofs ---------------------------
(***************************************************************************)
(* Proofs about Session, for any texts, any statements and what they print,*)
(* any line length and any sequence of calls.                              *)
(***************************************************************************)
EXTENDS Session, Driver_proofs

(* Lines of output *)

Printed == {"char", "newline"}
OutChar == {"char", "newline", "fold"}

(* Writing a character that ends a line, and one that does not. *)
LEMMA BreakLine ==
  ASSUME NEW v \in Seq(OutChar), NEW x \in {"newline", "fold"}, WrappedText(v)
  PROVE  /\ Append(v, x) \in Seq(OutChar) /\ WrappedText(Append(v, x))
         /\ ColumnOK(Append(v, x), 0)
<1>1. PICK w, n, m : w = Append(v, x) /\ n = Len(v) /\ m = POSIX_WRAP_COL_LIMIT
  OBVIOUS
<1>2. /\ w \in Seq(OutChar) /\ Len(w) = n + 1 /\ n \in Nat /\ m \in Nat \ {0}
      /\ w[n + 1] = x /\ \A i \in 1..n : w[i] = v[i]
  BY <1>1, AppendEntries, SessionConstantsOK DEF OutChar
<1>3. x # "char"
  OBVIOUS
<1>4. ASSUME NEW i \in 1..(n + 1 - m)
      PROVE  \E j \in i..(i + m) : w[j] # "char"
  <2>1. CASE i = n + 1 - m
    <3>1. n + 1 \in i..(i + m)
      BY <1>2, <1>4, <2>1
    <3> QED
      BY <1>2, <1>3, <3>1
  <2>2. CASE i # n + 1 - m
    <3>1. i \in 1..(n - m)
      BY <1>2, <1>4, <2>2
    <3>2. PICK j \in i..(i + m) : v[j] # "char"
      BY <1>1, <3>1 DEF WrappedText
    <3>3. j \in 1..n
      BY <1>2, <3>1, <3>2
    <3> QED
      BY <1>2, <3>2, <3>3
  <2> QED
    BY <2>1, <2>2
<1>5. WrappedText(w)
  BY <1>1, <1>2, <1>4 DEF WrappedText
<1>6. ColumnOK(w, 0)
  BY <1>2, <1>3 DEF ColumnOK
<1> QED
  BY <1>1, <1>2, <1>5, <1>6

LEMMA ExtendLine ==
  ASSUME NEW v \in Seq(OutChar), NEW col \in 0..(POSIX_WRAP_COL_LIMIT - 1), WrappedText(v), ColumnOK(v, col)
  PROVE  /\ Append(v, "char") \in Seq(OutChar) /\ WrappedText(Append(v, "char"))
         /\ ColumnOK(Append(v, "char"), col + 1)
<1>1. PICK w, n, m : w = Append(v, "char") /\ n = Len(v) /\ m = POSIX_WRAP_COL_LIMIT
  OBVIOUS
<1>2. /\ w \in Seq(OutChar) /\ Len(w) = n + 1 /\ n \in Nat /\ m \in Nat \ {0} /\ col \in Nat /\ col < m
      /\ w[n + 1] = "char" /\ \A i \in 1..n : w[i] = v[i]
  BY <1>1, AppendEntries, SessionConstantsOK DEF OutChar
<1>3. col <= n /\ (col < n => v[n - col] # "char")
  BY <1>1 DEF ColumnOK
<1>4. ASSUME NEW i \in 1..(n + 1 - m)
      PROVE  \E j \in i..(i + m) : w[j] # "char"
  <2>1. CASE i = n + 1 - m
    <3>1. n - col \in 1..n /\ n - col \in i..(i + m) /\ col < n
      BY <1>2, <1>3, <1>4, <2>1
    <3>2. w[n - col] # "char"
      BY <1>2, <1>3, <3>1
    <3> QED
      BY <3>1, <3>2
  <2>2. CASE i # n + 1 - m
    <3>1. i \in 1..(n - m)
      BY <1>2, <1>4, <2>2
    <3>2. PICK j \in i..(i + m) : v[j] # "char"
      BY <1>1, <3>1 DEF WrappedText
    <3>3. j \in 1..n
      BY <1>2, <3>1, <3>2
    <3> QED
      BY <1>2, <3>2, <3>3
  <2> QED
    BY <2>1, <2>2
<1>5. WrappedText(w)
  BY <1>1, <1>2, <1>4 DEF WrappedText
<1>6. ColumnOK(w, col + 1)
  <2>1. col + 1 <= Len(w)
    BY <1>2, <1>3
  <2>2. ASSUME col + 1 < Len(w)
        PROVE  w[Len(w) - (col + 1)] # "char"
    <3>1. n - col \in 1..n /\ Len(w) - (col + 1) = n - col /\ col < n
      BY <1>2, <1>3, <2>2
    <3> QED
      BY <1>2, <1>3, <3>1
  <2> QED
    BY <2>1, <2>2 DEF ColumnOK
<1> QED
  BY <1>1, <1>2, <1>5, <1>6

(* What is written after v, and the column reached. *)
Columns == [col : 0..POSIX_WRAP_COL_LIMIT, text : Seq(OutChar)]
Follows(v, w) == ColumnOK(v \o w.text, w.col) /\ WrappedText(v \o w.text)

LEMMA StepWraps ==
  ASSUME NEW w \in Columns, NEW c \in Printed
  PROVE  /\ WrapStep(w, c) \in Columns
         /\ \A v \in Seq(OutChar) : Follows(v, w) => Follows(v, WrapStep(w, c))
<1>1. w.col \in 0..POSIX_WRAP_COL_LIMIT /\ w.text \in Seq(OutChar) /\ POSIX_WRAP_COL_LIMIT \in Nat \ {0}
  BY SessionConstantsOK DEF Columns
<1>2. PICK r : r = WrapStep(w, c)
  OBVIOUS
<1>3. \/ r = [col |-> 0, text |-> Append(w.text, "newline")]
      \/ r = [col |-> 1, text |-> w.text \o <<"fold", "char">>]
      \/ w.col < POSIX_WRAP_COL_LIMIT /\ r = [col |-> w.col + 1, text |-> Append(w.text, "char")]
  BY <1>1, <1>2 DEF WrapStep
<1>4. w.text \o <<"fold", "char">> = Append(Append(w.text, "fold"), "char")
  BY <1>1
<1>5. CASE r = [col |-> 0, text |-> Append(w.text, "newline")]
  <2>1. r \in Columns
    BY <1>1, <1>5 DEF Columns, OutChar
  <2>2. ASSUME NEW v \in Seq(OutChar), Follows(v, w)
        PROVE  Follows(v, r)
    <3>1. v \o w.text \in Seq(OutChar) /\ v \o Append(w.text, "newline") = Append(v \o w.text, "newline")
      BY <1>1, <2>2, SMTT(30)
    <3> QED
      BY <1>5, <2>2, <3>1, BreakLine DEF Follows
  <2> QED
    BY <1>2, <2>1, <2>2
<1>6. CASE r = [col |-> 1, text |-> w.text \o <<"fold", "char">>]
  <2>1. r \in Columns
    <3>1. w.text \o <<"fold", "char">> \in Seq(OutChar)
      BY <1>1, <1>4 DEF OutChar
    <3> QED
      BY <1>1, <1>6, <3>1 DEF Columns
  <2>2. ASSUME NEW v \in Seq(OutChar), Follows(v, w)
        PROVE  Follows(v, r)
    <3>1. v \o w.text \in Seq(OutChar)
      BY <1>1, <2>2
    <3>2. v \o Append(Append(w.text, "fold"), "char") = Append(Append(v \o w.text, "fold"), "char")
      <4>1. Append(w.text, "fold") \in Seq(OutChar)
        BY <1>1 DEF OutChar
      <4>2. v \o Append(w.text, "fold") = Append(v \o w.text, "fold")
        BY <1>1, <2>2, SMTT(30)
      <4>3. \A u \in Seq(OutChar) : v \o Append(u, "char") = Append(v \o u, "char")
        BY <2>2
      <4> QED
        BY <4>1, <4>2, <4>3
    <3>3. PICK u : u = Append(v \o w.text, "fold")
      OBVIOUS
    <3>4. u \in Seq(OutChar) /\ WrappedText(u) /\ ColumnOK(u, 0)
      BY <2>2, <3>1, <3>3, BreakLine DEF Follows
    <3>5. WrappedText(Append(u, "char")) /\ ColumnOK(Append(u, "char"), 0 + 1)
      <4>1. 0 \in 0..(POSIX_WRAP_COL_LIMIT - 1)
        BY <1>1
      <4> QED
        BY <3>4, <4>1, ExtendLine
    <3>6. r.text = Append(Append(w.text, "fold"), "char") /\ r.col = 0 + 1
      BY <1>4, <1>6, SMTT(30)
    <3> QED
      BY <3>2, <3>3, <3>5, <3>6 DEF Follows
  <2> QED
    BY <1>2, <2>1, <2>2
<1>7. CASE w.col < POSIX_WRAP_COL_LIMIT /\ r = [col |-> w.col + 1, text |-> Append(w.text, "char")]
  <2>1. r \in Columns
    BY <1>1, <1>7 DEF Columns, OutChar
  <2>2. ASSUME NEW v \in Seq(OutChar), Follows(v, w)
        PROVE  Follows(v, r)
    <3>1. v \o w.text \in Seq(OutChar) /\ v \o Append(w.text, "char") = Append(v \o w.text, "char")
      BY <1>1, <2>2, SMTT(30)
    <3>2. w.col \in 0..(POSIX_WRAP_COL_LIMIT - 1)
      BY <1>1, <1>7
    <3> QED
      BY <1>7, <2>2, <3>1, <3>2, ExtendLine DEF Follows
  <2> QED
    BY <1>2, <2>1, <2>2
<1> QED
  BY <1>3, <1>5, <1>6, <1>7

(* The states w of the column when chars are written. *)
WrapRun(w, first, chars) ==
  /\ w[0] = first
  /\ \A m \in 1..Len(chars) : w[m] = WrapStep(w[m - 1], chars[m])

LEMMA WrapRuns ==
  ASSUME NEW first \in Columns, NEW chars \in Seq(Printed)
  PROVE  \E w \in [0..Len(chars) -> Columns] :
           WrapRun(w, first, chars) /\ FoldLeft(WrapStep, first, chars) = w[Len(chars)]
<1> DEFINE N == Len(chars)
           D == Columns
           step == [z \in (1..N) \X D |-> WrapStep(z[2], chars[z[1]])]
           Folded(f) == f = [T \in SUBSET (1..N) |-> IF T = {} THEN first
                                                     ELSE WrapStep(f[T \ {Max(T)}], chars[Max(T)])]
<1>1. N \in Nat /\ DOMAIN chars = 1..N /\ \A i \in 1..N : chars[i] \in Printed
  OBVIOUS
<1>2. step \in [(1..N) \X D -> D]
  <2>1. ASSUME NEW z \in (1..N) \X D
        PROVE  WrapStep(z[2], chars[z[1]]) \in D
    <3>1. z[2] \in D /\ chars[z[1]] \in Printed
      BY <1>1, <2>1
    <3> QED
      BY <3>1, StepWraps
  <2> QED
    BY <2>1
<1>3. PICK f \in [SUBSET (1..N) -> D] : Folds(f, N, first, step)
  <2> HIDE DEF step, D, N
  <2>1. first \in D
    BY DEF D
  <2> QED
    BY <1>1, <1>2, <2>1, FoldDefined
<1>4. Folded(f)
  <2>1. ASSUME NEW T \in SUBSET (1..N)
        PROVE  f[T] = IF T = {} THEN first ELSE WrapStep(f[T \ {Max(T)}], chars[Max(T)])
    <3>1. f[T] = IF T = {} THEN first ELSE step[Max(T), f[T \ {Max(T)}]]
      BY <1>3 DEF Folds
    <3>2. T # {} => Max(T) \in 1..N
      BY <1>1, GreatestExists
    <3>3. f[T \ {Max(T)}] \in D
      BY <1>3
    <3> HIDE DEF N, D
    <3>4. T # {} => step[Max(T), f[T \ {Max(T)}]] = WrapStep(f[T \ {Max(T)}], chars[Max(T)])
      BY <3>2, <3>3
    <3> QED
      BY <3>1, <3>4
  <2> HIDE DEF step
  <2> QED
    BY <1>3, <2>1
<1>5. PICK q : Folded(q) /\ FoldLeft(WrapStep, first, chars) = q[1..N]
  <2>1. FoldLeft(WrapStep, first, chars) = (CHOOSE q : Folded(q))[1..N]
    BY <1>1 DEF FoldLeft, MapThenFoldSet
  <2>2. Folded(CHOOSE q : Folded(q))
    BY <1>4
  <2> HIDE DEF Folded
  <2> QED
    BY <2>1, <2>2
<1>6. /\ q[1..0] = first
      /\ \A m \in 1..N : q[1..m] = WrapStep(q[1..(m - 1)], chars[m])
  <2>1. 1..0 = {} /\ {} \in SUBSET (1..N)
    OBVIOUS
  <2>2. ASSUME NEW m \in 1..N
        PROVE  q[1..m] = WrapStep(q[1..(m - 1)], chars[m])
    <3>1. 1..m \in SUBSET (1..N) /\ 1..m # {} /\ (1..m) \ {m} = 1..(m - 1) /\ Max(1..m) = m
      <4> HIDE DEF N
      <4> QED
        BY <1>1, <2>2, PrefixSets
    <3> QED
      BY <1>5, <3>1
  <2> QED
    BY <1>5, <2>1, <2>2
<1> DEFINE I == {m \in Nat : m <= N => q[1..m] \in D}
<1>7. Nat \subseteq I
  <2>1. 0 \in I
    BY <1>6
  <2>2. ASSUME NEW m \in Nat, m \in I
        PROVE  m + 1 \in I
    <3>1. ASSUME m + 1 <= N
          PROVE  q[1..(m + 1)] \in D
      <4>1. m + 1 \in 1..N /\ (m + 1) - 1 = m /\ chars[m + 1] \in Printed /\ q[1..m] \in D
        BY <1>1, <2>2, <3>1
      <4>2. q[1..(m + 1)] = WrapStep(q[1..m], chars[m + 1])
        BY <1>6, <4>1
      <4> QED
        BY <4>1, <4>2, StepWraps
    <3> QED
      BY <3>1
  <2> HIDE DEF I
  <2> QED
    BY <2>1, <2>2, Induction
<1> DEFINE w == [m \in 0..N |-> q[1..m]]
<1>8. w \in [0..N -> D]
  <2>1. \A m \in 0..N : q[1..m] \in D
    BY <1>1, <1>7
  <2> QED
    BY <2>1
<1>9. WrapRun(w, first, chars)
  <2>1. w[0] = first
    BY <1>1, <1>6
  <2>2. ASSUME NEW m \in 1..Len(chars)
        PROVE  w[m] = WrapStep(w[m - 1], chars[m])
    <3>1. m \in 0..N /\ m - 1 \in 0..N
      BY <1>1, <2>2
    <3> QED
      BY <1>6, <2>2, <3>1
  <2> HIDE DEF w
  <2> QED
    BY <2>1, <2>2 DEF WrapRun
<1>10. FoldLeft(WrapStep, first, chars) = w[N]
  BY <1>1, <1>5
<1> HIDE DEF w, D
<1> QED
  BY <1>8, <1>9, <1>10 DEF D

(* Output is wrapped: the column stays true and no line is too long. *)
LEMMA WrappedKeeps ==
  ASSUME NEW v \in Seq(OutChar), NEW col \in 0..POSIX_WRAP_COL_LIMIT, NEW chars \in Seq(Printed)
  PROVE  /\ Wrapped(col, chars) \in Columns
         /\ ColumnOK(v, col) /\ WrappedText(v) => Follows(v, Wrapped(col, chars))
<1>1. PICK first : first = [col |-> col, text |-> <<>>]
  OBVIOUS
<1>2. first \in Columns /\ (ColumnOK(v, col) /\ WrappedText(v) => Follows(v, first))
  <2>1. first \in Columns
    BY <1>1 DEF Columns
  <2>2. v \o <<>> = v
    OBVIOUS
  <2> QED
    BY <1>1, <2>1, <2>2 DEF Follows
<1>3. PICK w \in [0..Len(chars) -> Columns] :
        WrapRun(w, first, chars) /\ FoldLeft(WrapStep, first, chars) = w[Len(chars)]
  BY <1>2, WrapRuns
<1> DEFINE I == {m \in Nat : m <= Len(chars) => (Follows(v, first) => Follows(v, w[m]))}
<1>4. Nat \subseteq I
  <2>1. 0 \in I
    BY <1>3 DEF WrapRun
  <2>2. ASSUME NEW m \in Nat, m \in I
        PROVE  m + 1 \in I
    <3>1. ASSUME m + 1 <= Len(chars), Follows(v, first)
          PROVE  Follows(v, w[m + 1])
      <4>1. m + 1 \in 1..Len(chars) /\ (m + 1) - 1 = m /\ m \in 0..Len(chars) /\ Follows(v, w[m])
            /\ chars[m + 1] \in Printed
        BY <2>2, <3>1
      <4>2. w[m + 1] = WrapStep(w[m], chars[m + 1]) /\ w[m] \in Columns
        BY <1>3, <4>1 DEF WrapRun
      <4> QED
        BY <4>1, <4>2, StepWraps
    <3> QED
      BY <3>1
  <2> HIDE DEF I
  <2> QED
    BY <2>1, <2>2, Induction
<1>5. Len(chars) \in Nat /\ Len(chars) \in 0..Len(chars)
  OBVIOUS
<1>6. Wrapped(col, chars) = w[Len(chars)]
  BY <1>1, <1>3 DEF Wrapped
<1> QED
  BY <1>2, <1>3, <1>4, <1>5, <1>6
-----------------------------------------------------------------------------
(* The parts of SessionInv: the text that is processed, the call that is made, and what the *)
(* session keeps from one call to the next.                                                 *)
EngineOK ==
  /\ IInv /\ ran \in Seq([line : Nat, column : Nat])
  /\ reports \in Seq([kind : {"error", "warning", "runtime"}, line : Int])
CallOK ==
  /\ front \in {"C", "Wasm"} /\ alive \in BOOLEAN /\ calls \in 0..MaxCalls
  /\ running \in {"none", "session", "once"} /\ (running # "none" => calls < MaxCalls)
  /\ once \in Evaluator /\ out \in Seq(OutChar)
  /\ reply \in [kind : {"buffer", "callback", "string"}, size : BufSizes \union {0}]
KeptOK ==
  /\ session \in Evaluator /\ asked = session.extension_policy /\ since \in 0..Len(session.executed)
  /\ ColumnOK(session.written, session.col) /\ LinesWrapped /\ StrictSession

LEMMA SessionInvParts ==
  SessionInv <=> EngineOK /\ CallOK /\ KeptOK /\ (running = "session" => policy = asked)
BY DEF SessionInv, SessionTypeOK, IInv, EngineOK, CallOK, KeptOK, OutChar

LEMMA SessionInvNext ==
  ASSUME EngineOK', CallOK', KeptOK', running' = "session" => policy' = asked'
  PROVE  SessionInv'
BY DEF SessionInv, SessionTypeOK, IInv, EngineOK, CallOK, KeptOK, OutChar

LEMMA EngineStays ==
  ASSUME EngineOK, UNCHANGED vars
  PROVE  EngineOK' /\ policy' = policy
<1>1. ran' = ran /\ reports' = reports /\ policy' = policy
  BY DEF vars, input, output
<1> QED
  BY <1>1, StutterInv DEF EngineOK

LEMMA KeptStays ==
  ASSUME KeptOK, session' = session, asked' = asked, since' = since
  PROVE  KeptOK'
BY DEF KeptOK, LinesWrapped, StrictSession
-----------------------------------------------------------------------------
(* What is run *)

LEMMA SuffixIs ==
  ASSUME NEW S, NEW a \in Seq(S), NEW b \in Seq(S)
  PROVE  SubSeq(a \o b, Len(a) + 1, Len(a \o b)) = b
<1>1. /\ Len(a) \in Nat /\ Len(b) \in Nat /\ Len(a \o b) = Len(a) + Len(b)
      /\ \A i \in 1..(Len(a) + Len(b)) : (a \o b)[i] = IF i <= Len(a) THEN a[i] ELSE b[i - Len(a)]
      /\ a \o b \in Seq(S)
  BY ConcatProperties
<1>2. PICK c, m, n : c = a \o b /\ m = Len(a) /\ n = Len(b)
  OBVIOUS
<1>3. /\ m \in Nat /\ n \in Nat /\ c \in Seq(S) /\ Len(c) = m + n
      /\ \A i \in 1..(m + n) : c[i] = IF i <= m THEN a[i] ELSE b[i - m]
  BY <1>1, <1>2
<1>4. PICK d : d = SubSeq(c, m + 1, m + n)
  OBVIOUS
<1>5. d \in Seq(S) /\ Len(d) = n /\ \A i \in 1..n : d[i] = c[m + i]
  <2>1. \A i \in (m + 1)..(m + n) : c[i] \in S
    BY <1>3
  <2>2. /\ d \in Seq(S)
        /\ Len(d) = IF m + 1 <= m + n THEN (m + n) - (m + 1) + 1 ELSE 0
        /\ \A i \in 1..((m + n) - (m + 1) + 1) : d[i] = c[m + 1 + i - 1]
    BY <1>3, <1>4, <2>1, SubSeqProperties
  <2>3. Len(d) = n /\ n = (m + n) - (m + 1) + 1 /\ \A i \in 1..n : m + 1 + i - 1 = m + i
    BY <1>3, <2>2
  <2> QED
    BY <2>2, <2>3
<1>6. \A i \in 1..n : d[i] = b[i]
  <2>1. ASSUME NEW i \in 1..n
        PROVE  d[i] = b[i]
    <3>1. m + i \in 1..(m + n) /\ ~(m + i <= m) /\ m + i - m = i
      BY <1>3
    <3>2. d[i] = c[m + i] /\ c[m + i] = b[m + i - m]
      BY <1>3, <1>5, <3>1
    <3> QED
      BY <3>1, <3>2
  <2> QED
    BY <2>1
<1>7. d = b
  BY <1>2, <1>5, <1>6, SeqEqual
<1> QED
  BY <1>1, <1>2, <1>3, <1>4, <1>7

LEMMA RunGivesStatements ==
  ASSUME EngineOK, RunUnit, NEW stmts, stmts = Executed(SubSeq(ran', Len(ran) + 1, Len(ran')))
  PROVE  /\ stmts \in Seq(Statements)
         /\ policy = "Reject" => \A j \in DOMAIN stmts : stmts[j] # "ext"
         /\ ran' \in Seq([line : Nat, column : Nat])
         /\ reports' \in Seq([kind : {"error", "warning", "runtime"}, line : Int])
         /\ stmts = Calculation!Added(UnitResult(Head(units).lines, Head(units).first, policy)).ran
<1>1. PICK unit, result : unit = Head(units) /\ result = UnitResult(unit.lines, unit.first, policy)
  OBVIOUS
<1>2. PICK run, placed : /\ run = result.ran
                         /\ placed = [j \in DOMAIN run |->
                              [line |-> unit.from + run[j].line, column |-> run[j].column]]
  OBVIOUS
<1>3. ran' = ran \o placed /\ reports' = reports \o result.reports /\ units # <<>> /\ text' = text
  BY <1>1, <1>2 DEF RunUnit, input
<1>4. TypeOK /\ UnitsOK /\ text \in Seq(Lines) /\ units \in Seq(Unit) /\ policy \in Policy
  BY SessionConstantsOK DEF EngineOK, IInv, TypeOK
<1>5. unit \in Unit /\ unit = units[1] /\ 1 \in DOMAIN units
  <2>1. Head(units) = units[1] /\ Head(units) \in Unit /\ Len(units) \in Nat \ {0} /\ DOMAIN units = 1..Len(units)
    BY <1>3, <1>4, TailEntries
  <2> QED
    BY <1>1, <2>1
<1>6. UnitEnd(unit) <= Len(text) /\ unit.lines = Segment(unit.from, UnitEnd(unit))
  <2>1. UnitFits(unit)
    BY <1>4, <1>5 DEF UnitsOK
  <2> QED
    BY <2>1 DEF UnitFits, IsUnit
<1>7. unit.lines \in Seq(SourceLine) /\ unit.first \in Nat
  <2>1. Lines \subseteq SourceLine
    BY DriverConstantsOK DEF SourceLine
  <2> QED
    BY <1>5, <2>1 DEF Unit
<1>8. /\ run \in Seq(TokensOf(unit.lines)) /\ result.reports \in Seq(Reports)
      /\ \A j \in DOMAIN run : run[j].item \in Statements
      /\ policy = "Reject" => \A j \in DOMAIN run : run[j].item # "ext"
  <2>1. unit.lines \in Seq(SourceLine)
    BY <1>7
  <2>2. unit.first \in Nat
    BY <1>7
  <2>3. policy \in Policy
    BY <1>4
  <2>4. result = UnitResult(unit.lines, unit.first, policy)
    BY <1>1
  <2>5. /\ result.ran \in Seq(TokensOf(unit.lines)) /\ result.reports \in Seq(Reports)
        /\ \A j \in DOMAIN result.ran : result.ran[j].item \in Statements
        /\ policy = "Reject" => \A j \in DOMAIN result.ran : result.ran[j].item # "ext"
    BY ONLY <2>1, <2>2, <2>3, <2>4, UnitRuns, SMTT(30)
  <2> QED
    BY <1>2, <2>5
<1>9. /\ placed \in Seq([line : Nat, column : Nat])
      /\ Len(placed) = Len(run) /\ Len(run) \in Nat
      /\ DOMAIN placed = 1..Len(run) /\ DOMAIN run = 1..Len(run)
      /\ \A j \in DOMAIN run : text[placed[j].line].items[placed[j].column] = run[j].item
  <2>1. text \in Seq(Lines) /\ unit \in Unit /\ run \in Seq(TokensOf(unit.lines))
    BY <1>4, <1>5, <1>8
  <2>2. placed = [j \in DOMAIN run |-> [line |-> unit.from + run[j].line, column |-> run[j].column]]
    BY <1>2
  <2> QED
    BY <1>6, <2>1, <2>2, PlacedIs, SMTT(30)
<1>10. ran \in Seq([line : Nat, column : Nat]) /\ reports \in Seq(Reports)
  BY DEF EngineOK, Reports
<1>11. SubSeq(ran', Len(ran) + 1, Len(ran')) = placed
  BY <1>3, <1>9, <1>10, SuffixIs
<1>12. stmts = [j \in 1..Len(run) |-> run[j].item]
  BY <1>9, <1>11 DEF Executed
<1>13. stmts \in Seq(Statements) /\ DOMAIN stmts = 1..Len(run)
  <2>1. \A j \in 1..Len(run) : run[j].item \in Statements
    BY <1>8, <1>9
  <2>2. PICK n, val : n = Len(run) /\ val = [j \in 1..n |-> run[j].item]
    OBVIOUS
  <2>3. n \in Nat /\ \A j \in 1..n : val[j] \in Statements
    BY <1>9, <2>1, <2>2
  <2>4. val \in [1..n -> Statements]
    BY <2>2, <2>3
  <2>5. val \in Seq(Statements) /\ DOMAIN val = 1..n
    BY <2>3, <2>4
  <2> QED
    BY <1>12, <2>2, <2>5
<1>14. ran' \in Seq([line : Nat, column : Nat])
  BY <1>3, <1>9, <1>10
<1>15. reports' \in Seq(Reports)
  BY <1>3, <1>8, <1>10, ReportedConcat
<1>16. stmts = [j \in DOMAIN result.ran |-> result.ran[j].item]
  BY <1>2, <1>9, <1>12
<1>17. stmts = Calculation!Added(UnitResult(Head(units).lines, Head(units).first, policy)).ran
  BY <1>1, <1>16 DEF Calculation!Added
<1>18. policy = "Reject" => \A j \in DOMAIN stmts : stmts[j] # "ext"
  <2>1. \A j \in DOMAIN run : stmts[j] = run[j].item
    BY <1>9, <1>12
  <2>2. DOMAIN stmts = DOMAIN run
    BY <1>9, <1>12
  <2> QED
    BY <1>8, <2>1, <2>2, Zenon
<1> QED
  BY <1>13, <1>14, <1>15, <1>17, <1>18, Zenon DEF Reports

LEMMA PrintedChars ==
  ASSUME NEW stmts \in Seq(Statements)
  PROVE  FlattenSeq([j \in DOMAIN stmts |-> Writes[stmts[j]]]) \in Seq(Printed)
<1>1. DOMAIN stmts = 1..Len(stmts) /\ Len(stmts) \in Nat
  OBVIOUS
<1>2. ASSUME NEW j \in DOMAIN stmts
      PROVE  Writes[stmts[j]] \in Seq(Printed)
  <2>1. stmts[j] \in Statements
    BY <1>2
  <2> QED
    BY <2>1, SessionConstantsOK DEF Printed
<1>3. [j \in DOMAIN stmts |-> Writes[stmts[j]]] \in Seq(Seq(Printed))
  BY <1>1, <1>2
<1> QED
  BY <1>3, FlattenTyped

LEMMA AfterKeeps ==
  ASSUME NEW ev \in Evaluator, NEW stmts \in Seq(Statements)
  PROVE  /\ Written(ev, stmts) \in Columns
         /\ After(ev, stmts) \in Evaluator
         /\ After(ev, stmts).executed = ev.executed \o stmts
         /\ After(ev, stmts).extension_policy = ev.extension_policy
         /\ ColumnOK(ev.written, ev.col) /\ WrappedText(ev.written) =>
              /\ ColumnOK(After(ev, stmts).written, After(ev, stmts).col)
              /\ WrappedText(After(ev, stmts).written)
<1>1. /\ ev.executed \in Seq(Statements \union {"scale"}) /\ ev.extension_policy \in Policy
      /\ ev.col \in 0..POSIX_WRAP_COL_LIMIT /\ ev.written \in Seq(OutChar)
  BY DEF Evaluator, OutChar
<1>2. PICK w : w = Written(ev, stmts)
  OBVIOUS
<1>3. /\ w \in Columns
      /\ ColumnOK(ev.written, ev.col) /\ WrappedText(ev.written) => Follows(ev.written, w)
  BY <1>1, <1>2, PrintedChars, WrappedKeeps DEF Written
<1>4. w.col \in 0..POSIX_WRAP_COL_LIMIT /\ w.text \in Seq(OutChar)
  BY <1>3 DEF Columns
<1>5. PICK a : a = After(ev, stmts)
  OBVIOUS
<1>6. a = [executed |-> ev.executed \o stmts, extension_policy |-> ev.extension_policy,
           col |-> w.col, written |-> ev.written \o w.text]
  BY <1>2, <1>5 DEF After, Evaluator
<1>7. ev.executed \o stmts \in Seq(Statements \union {"scale"})
  <2>1. stmts \in Seq(Statements \union {"scale"})
    OBVIOUS
  <2> QED
    BY <1>1, <2>1
<1>8. ev.written \o w.text \in Seq(OutChar)
  BY <1>1, <1>4
<1>9. a \in Evaluator
  BY <1>1, <1>4, <1>6, <1>7, <1>8 DEF Evaluator, OutChar
<1> QED
  BY <1>2, <1>3, <1>5, <1>6, <1>9 DEF Follows
-----------------------------------------------------------------------------
(* A text is given *)

LEMMA TerminatedTyped ==
  ASSUME NEW code \in Codes
  PROVE  code \in Seq(Lines) /\ Terminated(code) \in Seq(Lines)
<1>1. code \in Seq(Lines)
  <2>1. PICK n \in 0..MaxLines : code \in [1..n -> Lines]
    BY SessionConstantsOK
  <2> QED
    BY <2>1, DriverConstantsOK
<1>2. CASE code = <<>>
  BY <1>1, <1>2, SessionConstantsOK DEF Terminated
<1>3. CASE code # <<>> /\ Last(code).end = "none"
  <2>1. Len(code) \in Nat \ {0} /\ Last(code) \in Lines
    BY <1>1, <1>3 DEF Last
  <2>2. [Last(code) EXCEPT !.end = "newline"] \in Lines
    BY <2>1, SessionConstantsOK
  <2>3. Front(code) \in Seq(Lines)
    BY <1>1, <2>1 DEF Front
  <2>4. << [Last(code) EXCEPT !.end = "newline"] >> \in Seq(Lines)
    BY <2>2
  <2>5. Terminated(code) = Front(code) \o << [Last(code) EXCEPT !.end = "newline"] >>
    BY <1>3 DEF Terminated
  <2> QED
    BY <1>1, <2>3, <2>4, <2>5
<1>4. CASE code # <<>> /\ Last(code).end # "none"
  BY <1>1, <1>4 DEF Terminated
<1> QED
  BY <1>2, <1>3, <1>4

LEMMA SourceStarts ==
  ASSUME NEW code \in Seq(Lines), NEW how \in Policies, RunSource(code, how)
  PROVE  EngineOK' /\ policy' = how
<1>1. /\ text' = code /\ policy' = how /\ gathers' = TRUE /\ phase' = "reading" /\ read' = 0
      /\ buf' = <<>> /\ start_line' = 1 /\ next_line' = 1 /\ from' = 0 /\ units' = <<>>
      /\ errors' = 0 /\ quit' = FALSE /\ ran' = <<>> /\ reports' = <<>>
  BY DEF RunSource
<1>2. TypeOK'
  <2>1. units' \in Seq(Unit) /\ buf' \in Seq(Lines) /\ text' \in Seq(Lines) /\ read' \in 0..Len(text')
    BY <1>1
  <2>2. start_line' \in Nat \ {0} /\ next_line' \in Nat \ {0} /\ from' \in Nat /\ errors' \in Nat
    BY <1>1
  <2>3. /\ policy' \in Policies /\ gathers' \in BOOLEAN /\ quit' \in BOOLEAN
        /\ phase' \in {"reading", "running", "done", "crashed"}
    BY <1>1
  <2> QED
    BY <2>1, <2>2, <2>3 DEF TypeOK
<1>3. (next_line = LineNumber(read))'
  <2>1. SubSeq(text', 1, 0) = <<>>
    BY <1>1, SubSeqEmpty
  <2>2. Newlines(<<>>) = 0
    BY NewlinesEmpty
  <2>3. LineNumber(read)' = 1 + Newlines(SubSeq(text', 1, 0))
    BY <1>1 DEF LineNumber
  <2>4. LineNumber(read)' = 1 + 0
    BY <2>1, <2>2, <2>3
  <2> QED
    BY <1>1, <2>4
<1>4. BufferOK' /\ UnitsOK' /\ EndsOK'
  BY <1>1 DEF BufferOK, UnitsOK, EndsOK
<1>5. ran' \in Seq([line : Nat, column : Nat]) /\ reports' \in Seq(Reports)
  BY <1>1
<1> QED
  BY <1>1, <1>2, <1>3, <1>4, <1>5 DEF EngineOK, IInv, Reports

LEMMA NewEvaluatorOK ==
  /\ NewEvaluator \in Evaluator /\ [NewEvaluator EXCEPT !.executed = <<"scale">>] \in Evaluator
  /\ NewEvaluator.executed = <<>> /\ NewEvaluator.extension_policy = "Allow"
  /\ WrappedText(NewEvaluator.written) /\ ColumnOK(NewEvaluator.written, NewEvaluator.col)
<1>1. POSIX_WRAP_COL_LIMIT \in Nat \ {0} /\ 0 \in 0..POSIX_WRAP_COL_LIMIT
  BY SessionConstantsOK
<1>2. <<>> \in Seq(Statements \union {"scale"}) /\ <<"scale">> \in Seq(Statements \union {"scale"})
      /\ <<>> \in Seq({"char", "newline", "fold"})
  <2>1. "scale" \in Statements \union {"scale"}
    OBVIOUS
  <2> QED
    BY <2>1
<1>3. "Allow" \in Policy
  BY DEF Policy
<1>4. NewEvaluator \in Evaluator /\ [NewEvaluator EXCEPT !.executed = <<"scale">>] \in Evaluator
  BY <1>1, <1>2, <1>3 DEF NewEvaluator, Evaluator
<1>5. WrappedText(<<>>) /\ ColumnOK(<<>>, 0)
  <2>1. Len(<<>>) = 0 /\ 1..(0 - POSIX_WRAP_COL_LIMIT) = {}
    BY <1>1
  <2> QED
    BY <2>1 DEF WrappedText, ColumnOK
<1> QED
  BY <1>4, <1>5 DEF NewEvaluator
-----------------------------------------------------------------------------
(* Every step keeps the invariant *)

LEMMA SessionInitInv == SessionInit => SessionInv
<1> SUFFICES ASSUME SessionInit PROVE SessionInv
  OBVIOUS
<1>1. /\ text = <<>> /\ policy = "Allow" /\ gathers = TRUE /\ phase = "done" /\ read = 0
      /\ buf = <<>> /\ start_line = 1 /\ next_line = 1 /\ from = 0 /\ units = <<>>
      /\ errors = 0 /\ quit = FALSE /\ ran = <<>> /\ reports = <<>>
  BY DEF SessionInit
<1>2. TypeOK
  <2>1. units \in Seq(Unit) /\ buf \in Seq(Lines) /\ text \in Seq(Lines) /\ read \in 0..Len(text)
    BY <1>1
  <2>2. start_line \in Nat \ {0} /\ next_line \in Nat \ {0} /\ from \in Nat /\ errors \in Nat
    BY <1>1
  <2>3. /\ policy \in Policies /\ gathers \in BOOLEAN /\ quit \in BOOLEAN
        /\ phase \in {"reading", "running", "done", "crashed"}
    BY <1>1, SessionConstantsOK DEF Policy
  <2> QED
    BY <2>1, <2>2, <2>3 DEF TypeOK
<1>3. next_line = LineNumber(read)
  <2>1. SubSeq(text, 1, 0) = <<>>
    BY <1>1, SubSeqEmpty
  <2>2. Newlines(<<>>) = 0
    BY NewlinesEmpty
  <2>3. LineNumber(read) = 1 + Newlines(SubSeq(text, 1, 0))
    BY <1>1 DEF LineNumber
  <2>4. LineNumber(read) = 1 + 0
    BY <2>1, <2>2, <2>3
  <2> QED
    BY <1>1, <2>4
<1>4. BufferOK /\ UnitsOK
  BY <1>1 DEF BufferOK, UnitsOK
<1>5. EndsOK
  BY <1>1 DEF EndsOK
<1>6. ran \in Seq([line : Nat, column : Nat]) /\ reports \in Seq(Reports)
  BY <1>1
<1>7. EngineOK
  BY <1>2, <1>3, <1>4, <1>5, <1>6 DEF EngineOK, IInv, Reports
<1>8. /\ front \in {"C", "Wasm"} /\ alive = FALSE /\ session = NewEvaluator /\ once = NewEvaluator
      /\ running = "none" /\ out = <<>> /\ reply = [kind |-> "string", size |-> 0] /\ calls = 0
      /\ asked = "Allow" /\ since = 0
  BY DEF SessionInit
<1>9. CallOK
  <2>1. calls \in 0..MaxCalls /\ out \in Seq(OutChar)
    BY <1>8, SessionConstantsOK
  <2>2. reply \in [kind : {"buffer", "callback", "string"}, size : BufSizes \union {0}]
    BY <1>8
  <2> QED
    BY <1>8, <2>1, <2>2, NewEvaluatorOK DEF CallOK
<1>10. KeptOK
  <2>1. session.executed = <<>> /\ Len(session.executed) = 0 /\ since \in 0..Len(session.executed)
    BY <1>8, NewEvaluatorOK
  <2>2. LinesWrapped /\ StrictSession
    BY <1>8, NewEvaluatorOK DEF LinesWrapped, StrictSession
  <2> QED
    BY <1>8, <2>1, <2>2, NewEvaluatorOK DEF KeptOK
<1> QED
  BY <1>7, <1>8, <1>9, <1>10, SessionInvParts

LEMMA CallCounts ==
  ASSUME CallOK, Idle
  PROVE  calls + 1 \in 0..MaxCalls
BY SessionConstantsOK DEF CallOK, Idle

(* Steps that leave alone what the session keeps, and the text. *)
LEMMA CallsInv ==
  ASSUME SessionInv, RefuseNull \/ RefuseSize \/ RefuseEncoding \/ RefusePolicy \/ Reply
  PROVE  SessionInv'
<1>1. EngineOK /\ CallOK /\ KeptOK /\ (running = "session" => policy = asked)
  BY SessionInvParts
<1>2. /\ UNCHANGED vars /\ front' = front /\ alive' = alive /\ session' = session /\ once' = once
      /\ out' = out /\ reply' = reply /\ asked' = asked /\ since' = since
      /\ calls' = calls + 1 /\ running' \in {"none", running}
  BY DEF RefuseNull, RefuseSize, RefuseEncoding, RefusePolicy, Refuses, Reply, Answers, machines, history
<1>3. calls' \in 0..MaxCalls
  <2>1. CASE Idle
    BY <1>1, <1>2, <2>1, CallCounts
  <2>2. CASE Reply
    BY <1>1, <1>2, <2>2, SessionConstantsOK DEF CallOK, Reply, Answers
  <2> QED
    BY <2>1, <2>2 DEF RefuseNull, RefuseSize, RefuseEncoding, RefusePolicy
<1>4. running' = "none"
  BY DEF RefuseNull, RefuseSize, RefuseEncoding, RefusePolicy, Refuses, Reply, Idle
<1>5. EngineOK' /\ KeptOK'
  BY <1>1, <1>2, EngineStays, KeptStays
<1>6. CallOK'
  BY <1>1, <1>2, <1>3, <1>4 DEF CallOK
<1> QED
  BY <1>4, <1>5, <1>6, SessionInvNext

LEMMA EvalSessionInv ==
  ASSUME SessionInv, EvalSession
  PROVE  SessionInv'
<1>1. EngineOK /\ CallOK /\ KeptOK /\ Idle
  BY SessionInvParts DEF EvalSession
<1>2. PICK code \in Codes : RunSource(Terminated(code), session.extension_policy)
  BY DEF EvalSession
<1>3. /\ running' = "session" /\ reply' \in Replies /\ out' = <<>>
      /\ front' = front /\ alive' = alive /\ calls' = calls /\ session' = session /\ once' = once
      /\ asked' = asked /\ since' = since
  BY DEF EvalSession, hosts, machines
<1>4. session.extension_policy \in Policies
  BY <1>1, SessionConstantsOK DEF KeptOK, Evaluator
<1>5. EngineOK' /\ policy' = session.extension_policy
  <2>1. PICK whole : whole = Terminated(code)
    OBVIOUS
  <2> QED
    BY <1>2, <1>4, <2>1, TerminatedTyped, SourceStarts
<1>6. CallOK'
  <2>1. calls < MaxCalls /\ out' \in Seq(OutChar)
    BY <1>1, <1>3 DEF Idle
  <2>2. reply' \in [kind : {"buffer", "callback", "string"}, size : BufSizes \union {0}]
    BY <1>3 DEF Replies
  <2> QED
    BY <1>1, <1>3, <2>1, <2>2 DEF CallOK
<1>7. KeptOK'
  BY <1>1, <1>3, KeptStays
<1>8. policy' = asked'
  BY <1>1, <1>3, <1>5 DEF KeptOK
<1> QED
  BY <1>5, <1>6, <1>7, <1>8, SessionInvNext

LEMMA EvalOnceInv ==
  ASSUME SessionInv, EvalOnce
  PROVE  SessionInv'
<1>1. EngineOK /\ CallOK /\ KeptOK /\ Idle
  BY SessionInvParts DEF EvalOnce
<1>2. PICK code \in Codes : RunSource(code, NewEvaluator.extension_policy)
  BY DEF EvalOnce
<1>3. /\ running' = "once" /\ reply' \in Replies /\ out' = <<>>
      /\ front' = front /\ alive' = alive /\ calls' = calls /\ session' = session
      /\ once' = [NewEvaluator EXCEPT !.executed = <<"scale">>]
      /\ asked' = asked /\ since' = since
  BY DEF EvalOnce, hosts, history
<1>4. "Allow" \in Policies
  BY SessionConstantsOK DEF Policy
<1>5. EngineOK'
  <2>1. RunSource(code, "Allow")
    BY <1>2, NewEvaluatorOK
  <2> QED
    BY <1>4, <2>1, TerminatedTyped, SourceStarts
<1>6. CallOK'
  <2>1. calls < MaxCalls /\ out' \in Seq(OutChar)
    BY <1>1, <1>3 DEF Idle
  <2>2. reply' \in [kind : {"buffer", "callback", "string"}, size : BufSizes \union {0}]
    BY <1>3 DEF Replies
  <2> QED
    BY <1>1, <1>3, <2>1, <2>2, NewEvaluatorOK DEF CallOK
<1>7. KeptOK'
  BY <1>1, <1>3, KeptStays
<1> QED
  BY <1>3, <1>5, <1>6, <1>7, SessionInvNext

LEMMA CutInv ==
  ASSUME SessionInv, Cut
  PROVE  SessionInv'
<1>1. EngineOK /\ CallOK /\ KeptOK /\ (running = "session" => policy = asked)
  BY SessionInvParts
<1>2. /\ front' = front /\ alive' = alive /\ calls' = calls /\ session' = session /\ once' = once
      /\ running' = running /\ out' = out /\ reply' = reply /\ asked' = asked /\ since' = since
  BY DEF Cut, hosts, machines, history
<1>3. policy' = policy /\ ran' = ran /\ reports' = reports
  BY DEF Cut, PushLine, Finish, TakeRest, Done, input, output
<1>4. IInv'
  BY <1>1, PushInv, FinishInv, DoneInv DEF Cut, EngineOK
<1>5. EngineOK' /\ CallOK'
  BY <1>1, <1>2, <1>3, <1>4 DEF EngineOK, CallOK
<1>6. KeptOK'
  BY <1>1, <1>2, KeptStays
<1> QED
  BY <1>1, <1>2, <1>3, <1>5, <1>6, SessionInvNext

(* What the session executes while it rejects extensions is none. *)
LEMMA StrictExtends ==
  ASSUME NEW S, NEW s \in Seq(S), NEW t \in Seq(S), NEW n \in 0..Len(s), NEW bad,
         \A i \in (n + 1)..Len(s) : s[i] # bad, \A j \in DOMAIN t : t[j] # bad
  PROVE  /\ n \in 0..Len(s \o t)
         /\ \A i \in (n + 1)..Len(s \o t) : (s \o t)[i] # bad
<1>1. /\ Len(s) \in Nat /\ Len(t) \in Nat /\ Len(s \o t) = Len(s) + Len(t)
      /\ \A i \in 1..(Len(s) + Len(t)) : (s \o t)[i] = IF i <= Len(s) THEN s[i] ELSE t[i - Len(s)]
      /\ DOMAIN t = 1..Len(t)
  BY ConcatProperties
<1>2. ASSUME NEW i \in (n + 1)..Len(s \o t)
      PROVE  (s \o t)[i] # bad
  <2>1. i \in 1..(Len(s) + Len(t)) /\ i \in Int
    BY <1>1, <1>2
  <2>2. CASE i <= Len(s)
    <3>1. i \in (n + 1)..Len(s)
      BY <1>1, <1>2, <2>2
    <3> QED
      BY <1>1, <2>1, <2>2, <3>1
  <2>3. CASE ~(i <= Len(s))
    <3>1. i - Len(s) \in DOMAIN t
      BY <1>1, <2>1, <2>3
    <3> QED
      BY <1>1, <2>1, <2>3, <3>1
  <2> QED
    BY <2>2, <2>3
<1>3. n \in 0..Len(s \o t)
  BY <1>1
<1> QED
  BY <1>2, <1>3

LEMMA RunInv ==
  ASSUME SessionInv, Run
  PROVE  SessionInv'
<1>1. EngineOK /\ CallOK /\ KeptOK /\ (running = "session" => policy = asked)
  BY SessionInvParts
<1>2. PICK stmts : stmts = Executed(SubSeq(ran', Len(ran) + 1, Len(ran')))
  OBVIOUS
<1>3. RunUnit /\ running # "none"
  BY DEF Run
<1>4. /\ stmts \in Seq(Statements)
      /\ policy = "Reject" => \A j \in DOMAIN stmts : stmts[j] # "ext"
      /\ ran' \in Seq([line : Nat, column : Nat])
      /\ reports' \in Seq([kind : {"error", "warning", "runtime"}, line : Int])
  BY <1>1, <1>2, <1>3, RunGivesStatements
<1>5. /\ front' = front /\ alive' = alive /\ calls' = calls
      /\ running' = running /\ reply' = reply /\ asked' = asked /\ since' = since
  BY DEF Run, hosts, history
<1>6. \/ /\ running = "session" /\ session' = After(session, stmts) /\ once' = once
         /\ out' = out \o Written(session, stmts).text
      \/ /\ running = "once" /\ once' = After(once, stmts) /\ session' = session
         /\ out' = out \o Written(once, stmts).text
  BY <1>1, <1>2 DEF Run, CallOK
<1>7. policy' = policy
  BY <1>3 DEF RunUnit, input
<1>8. EngineOK'
  <2>1. IInv'
    BY <1>1, <1>3, RunUnitInv DEF EngineOK
  <2> QED
    BY <1>4, <2>1 DEF EngineOK
<1>9. session \in Evaluator /\ once \in Evaluator /\ out \in Seq(OutChar)
  BY <1>1 DEF KeptOK, CallOK
<1>10. CASE running = "session" /\ session' = After(session, stmts) /\ once' = once
              /\ out' = out \o Written(session, stmts).text
  <2>1. PICK s : s = After(session, stmts)
    OBVIOUS
  <2>2. /\ s \in Evaluator /\ s.executed = session.executed \o stmts
        /\ s.extension_policy = session.extension_policy
        /\ ColumnOK(s.written, s.col) /\ WrappedText(s.written)
    BY <1>1, <1>4, <1>9, <2>1, AfterKeeps DEF KeptOK, LinesWrapped
  <2>3. Written(session, stmts).text \in Seq(OutChar)
    BY <1>4, <1>9, AfterKeeps DEF Columns
  <2>4. out' \in Seq(OutChar)
    BY <1>9, <1>10, <2>3
  <2>5. CallOK'
    BY <1>1, <1>5, <1>10, <2>4 DEF CallOK
  <2>6. since \in 0..Len(s.executed) /\ (asked = "Reject" => \A i \in (since + 1)..Len(s.executed) : s.executed[i] # "ext")
    <3>1. PICK old, n : old = session.executed /\ n = since
      OBVIOUS
    <3>2. /\ old \in Seq(Statements \union {"scale"}) /\ n \in 0..Len(old)
          /\ asked = "Reject" => \A i \in (n + 1)..Len(old) : old[i] # "ext"
      BY <1>1, <1>9, <3>1 DEF KeptOK, StrictSession, Evaluator
    <3>3. stmts \in Seq(Statements \union {"scale"})
      BY <1>4
    <3>4. n \in 0..Len(old \o stmts)
      BY <3>2, <3>3
    <3>5. ASSUME asked = "Reject"
          PROVE  \A i \in (n + 1)..Len(old \o stmts) : (old \o stmts)[i] # "ext"
      <4>1. \A j \in DOMAIN stmts : stmts[j] # "ext"
        BY <1>1, <1>4, <1>10, <3>5
      <4>2. \A i \in (n + 1)..Len(old) : old[i] # "ext"
        BY <3>2, <3>5
      <4> QED
        BY <3>2, <3>3, <4>1, <4>2, StrictExtends
    <3> QED
      BY <2>2, <3>1, <3>4, <3>5
  <2>7. KeptOK'
    BY <1>1, <1>5, <1>10, <2>1, <2>2, <2>6 DEF KeptOK, LinesWrapped, StrictSession
  <2> QED
    BY <1>1, <1>5, <1>7, <1>8, <2>5, <2>7, SessionInvNext
<1>11. CASE running = "once" /\ once' = After(once, stmts) /\ session' = session
              /\ out' = out \o Written(once, stmts).text
  <2>1. once' \in Evaluator
    BY <1>4, <1>9, <1>11, AfterKeeps
  <2>2. Written(once, stmts).text \in Seq(OutChar)
    BY <1>4, <1>9, AfterKeeps DEF Columns
  <2>3. out' \in Seq(OutChar)
    BY <1>9, <1>11, <2>2
  <2>4. CallOK'
    BY <1>1, <1>5, <2>1, <2>3 DEF CallOK
  <2>5. KeptOK'
    BY <1>1, <1>5, <1>11, KeptStays
  <2> QED
    BY <1>5, <1>8, <1>11, <2>4, <2>5, SessionInvNext
<1> QED
  BY <1>6, <1>10, <1>11

LEMMA RenewInv ==
  ASSUME SessionInv, Create \/ Reset \/ Destroy
  PROVE  SessionInv'
<1>1. EngineOK /\ CallOK /\ KeptOK /\ Idle
  BY SessionInvParts DEF Create, Reset, Destroy
<1>2. PICK exists \in BOOLEAN : Renew(exists)
  BY DEF Create, Reset, Destroy
<1>3. /\ alive' = exists /\ session' = NewEvaluator /\ out' = <<>> /\ asked' = "Allow" /\ since' = 0
      /\ UNCHANGED vars /\ front' = front /\ once' = once /\ running' = running /\ reply' = reply
  BY <1>2 DEF Renew
<1>4. running' = "none" /\ calls' \in 0..MaxCalls
  <2>1. calls' = calls \/ calls' = calls + 1
    BY DEF Create, Reset, Destroy
  <2> QED
    BY <1>1, <1>3, <2>1, CallCounts DEF Idle, CallOK
<1>5. EngineOK'
  BY <1>1, <1>3, EngineStays
<1>6. CallOK'
  <2>1. out' \in Seq(OutChar)
    BY <1>3
  <2> QED
    BY <1>1, <1>3, <1>4, <2>1 DEF CallOK
<1>7. KeptOK'
  <2>1. session'.executed = <<>> /\ since' \in 0..Len(session'.executed)
    BY <1>3, NewEvaluatorOK
  <2>2. LinesWrapped' /\ StrictSession'
    BY <1>3, NewEvaluatorOK DEF LinesWrapped, StrictSession
  <2> QED
    BY <1>3, <2>1, <2>2, NewEvaluatorOK DEF KeptOK
<1> QED
  BY <1>4, <1>5, <1>6, <1>7, SessionInvNext

LEMMA SetPolicyInv ==
  ASSUME SessionInv, SetPolicy
  PROVE  SessionInv'
<1>1. EngineOK /\ CallOK /\ KeptOK /\ Idle
  BY SessionInvParts DEF SetPolicy
<1>2. PICK value \in Policy : /\ session' = [session EXCEPT !.extension_policy = value]
                              /\ asked' = value /\ since' = Len(session.executed)
  BY DEF SetPolicy
<1>3. /\ UNCHANGED vars /\ front' = front /\ alive' = alive /\ once' = once
      /\ running' = running /\ out' = out /\ reply' = reply /\ calls' = calls + 1
  BY DEF SetPolicy, Answers
<1>4. running' = "none" /\ calls' \in 0..MaxCalls
  BY <1>1, <1>3, CallCounts DEF Idle
<1>5. EngineOK'
  BY <1>1, <1>3, EngineStays
<1>6. CallOK'
  BY <1>1, <1>3, <1>4 DEF CallOK
<1>7. session \in Evaluator
  BY <1>1 DEF KeptOK
<1>8. /\ session' \in Evaluator /\ session'.extension_policy = value
      /\ session'.executed = session.executed /\ session'.written = session.written
      /\ session'.col = session.col
  BY <1>2, <1>7 DEF Evaluator
<1>9. since' \in 0..Len(session'.executed) /\ (since' + 1)..Len(session'.executed) = {}
  <2>1. Len(session.executed) \in Nat
    BY <1>7 DEF Evaluator
  <2> QED
    BY <1>2, <1>8, <2>1
<1>10. KeptOK'
  <2>1. StrictSession'
    BY <1>9 DEF StrictSession
  <2>2. LinesWrapped' /\ ColumnOK(session.written, session.col)'
    BY <1>1, <1>8 DEF KeptOK, LinesWrapped
  <2> QED
    BY <1>2, <1>8, <1>9, <2>1, <2>2 DEF KeptOK
<1> QED
  BY <1>4, <1>5, <1>6, <1>10, SessionInvNext

LEMMA SetScaleInv ==
  ASSUME SessionInv, SetScale
  PROVE  SessionInv'
<1>1. EngineOK /\ CallOK /\ KeptOK /\ Idle
  BY SessionInvParts DEF SetScale
<1>2. session' = [session EXCEPT !.executed = Append(@, "scale")]
  BY DEF SetScale
<1>3. /\ UNCHANGED vars /\ front' = front /\ alive' = alive /\ once' = once
      /\ running' = running /\ out' = out /\ reply' = reply /\ calls' = calls + 1
      /\ asked' = asked /\ since' = since
  BY DEF SetScale, Answers, history
<1>4. running' = "none" /\ calls' \in 0..MaxCalls
  BY <1>1, <1>3, CallCounts DEF Idle
<1>5. EngineOK'
  BY <1>1, <1>3, EngineStays
<1>6. CallOK'
  BY <1>1, <1>3, <1>4 DEF CallOK
<1>7. session \in Evaluator
  BY <1>1 DEF KeptOK
<1>8. PICK old : old = session.executed
  OBVIOUS
<1>9. old \in Seq(Statements \union {"scale"}) /\ <<"scale">> \in Seq(Statements \union {"scale"})
      /\ Append(old, "scale") \in Seq(Statements \union {"scale"})
      /\ Append(old, "scale") = old \o <<"scale">>
  <2>1. old \in Seq(Statements \union {"scale"}) /\ "scale" \in Statements \union {"scale"}
    BY <1>7, <1>8 DEF Evaluator
  <2> QED
    BY <2>1
<1>10. /\ session' \in Evaluator /\ session'.extension_policy = session.extension_policy
       /\ session'.executed = old \o <<"scale">> /\ session'.written = session.written
       /\ session'.col = session.col
  BY <1>2, <1>7, <1>8, <1>9 DEF Evaluator
<1>11. /\ since \in 0..Len(old \o <<"scale">>)
       /\ asked = "Reject" => \A i \in (since + 1)..Len(old \o <<"scale">>) : (old \o <<"scale">>)[i] # "ext"
  <2>1. PICK n : n = since
    OBVIOUS
  <2>2. n \in 0..Len(old) /\ (asked = "Reject" => \A i \in (n + 1)..Len(old) : old[i] # "ext")
    BY <1>1, <1>8, <2>1 DEF KeptOK, StrictSession
  <2>3. \A j \in DOMAIN <<"scale">> : <<"scale">>[j] # "ext"
    OBVIOUS
  <2>4. n \in 0..Len(old \o <<"scale">>)
    BY <1>9, <2>2
  <2>5. asked = "Reject" => \A i \in (n + 1)..Len(old \o <<"scale">>) : (old \o <<"scale">>)[i] # "ext"
    BY <1>9, <2>2, <2>3, StrictExtends
  <2> QED
    BY <2>1, <2>4, <2>5
<1>12. KeptOK'
  <2>1. LinesWrapped' /\ ColumnOK(session.written, session.col)'
    BY <1>1, <1>10 DEF KeptOK, LinesWrapped
  <2> QED
    BY <1>1, <1>3, <1>10, <1>11, <2>1 DEF KeptOK, StrictSession
<1> QED
  BY <1>4, <1>5, <1>6, <1>12, SessionInvNext

LEMMA SessionStutterInv ==
  ASSUME SessionInv, UNCHANGED sessionVars
  PROVE  SessionInv'
<1>1. EngineOK /\ CallOK /\ KeptOK /\ (running = "session" => policy = asked)
  BY SessionInvParts
<1>2. /\ UNCHANGED vars /\ front' = front /\ alive' = alive /\ calls' = calls /\ session' = session
      /\ once' = once /\ running' = running /\ out' = out /\ reply' = reply /\ asked' = asked
      /\ since' = since
  BY DEF sessionVars, hosts, machines, history
<1>3. EngineOK' /\ policy' = policy /\ KeptOK'
  BY <1>1, <1>2, EngineStays, KeptStays
<1>4. CallOK'
  BY <1>1, <1>2 DEF CallOK
<1> QED
  BY <1>1, <1>2, <1>3, <1>4, SessionInvNext

(* In every state of a session and of the calls on it: the text that is processed is cut    *)
(* and numbered as the driver promises, the session has the policy it was last asked for,   *)
(* and its column is true (bc_c_api lib.rs, wasm lib.rs), for all texts and what they print.*)
THEOREM SessionInductive == SessionSpec => []SessionInv
<1>1. SessionInv /\ [SessionNext]_sessionVars => SessionInv'
  BY CallsInv, EvalSessionInv, EvalOnceInv, CutInv, RunInv, RenewInv, SetPolicyInv, SetScaleInv,
     SessionStutterInv DEF SessionNext
<1> QED
  BY <1>1, SessionInitInv, PTL DEF SessionSpec

(* A session that was asked to reject extensions executes none until it is asked otherwise  *)
(* or reset, whatever is evaluated, refused or answered in between (COMPATIBILITY.md 4).    *)
THEOREM StrictStays == SessionSpec => []StrictSession
<1>1. SessionInv => StrictSession
  BY DEF SessionInv
<1> QED
  BY <1>1, SessionInductive, PTL

(* No line of a session's output is longer than the limit, also when one call begins it and *)
(* others continue it, for any limit (COMPATIBILITY.md 1.5).                                *)
THEOREM LinesStayWrapped == SessionSpec => []LinesWrapped
<1>1. SessionInv => LinesWrapped
  BY DEF SessionInv
<1> QED
  BY <1>1, SessionInductive, PTL
-----------------------------------------------------------------------------
(* What is printed *)

LEMMA FlattenConcat ==
  ASSUME NEW S, NEW a \in Seq(Seq(S)), NEW b \in Seq(Seq(S))
  PROVE  FlattenSeq(a \o b) = FlattenSeq(a) \o FlattenSeq(b)
<1>1. PICK T, n : T = Seq(S) /\ n = Len(b)
  OBVIOUS
<1>2. a \in Seq(T) /\ b \in Seq(T) /\ n \in Nat /\ Len(b) = n
  BY <1>1
<1> DEFINE piece(m) == SubSeq(b, 1, m)
           I == {m \in Nat : m <= n => FlattenSeq(a \o piece(m)) = FlattenSeq(a) \o FlattenSeq(piece(m))}
<1>3. Nat \subseteq I
  <2>1. 0 \in I
    <3>1. piece(0) = <<>> /\ a \o <<>> = a
      BY <1>2, SubSeqEmpty
    <3>2. FlattenSeq(<<>>) = <<>>
      BY DEF FlattenSeq
    <3>3. FlattenSeq(a) \in Seq(S)
      BY FlattenTyped
    <3>4. FlattenSeq(a) \o <<>> = FlattenSeq(a)
      BY <3>3
    <3> QED
      BY <3>1, <3>2, <3>4
  <2>2. ASSUME NEW m \in Nat, m \in I
        PROVE  m + 1 \in I
    <3>1. ASSUME m + 1 <= n
          PROVE  FlattenSeq(a \o piece(m + 1)) = FlattenSeq(a) \o FlattenSeq(piece(m + 1))
      <4>1. m < n /\ m <= n /\ m + 1 \in 1..n /\ 0 \in Nat /\ 0 <= m
        BY <1>2, <3>1
      <4>2. PICK q, e : q = piece(m) /\ e = b[m + 1]
        OBVIOUS
      <4>3. e \in T
        BY <1>2, <4>1, <4>2
      <4>4. q \in Seq(T)
        <5>1. SubSeq(b, 0 + 1, m) \in Seq(T)
          BY <1>2, <4>1, SegmentTyped
        <5> QED
          BY <4>2, <5>1
      <4>5. piece(m + 1) = Append(q, e)
        <5>1. SubSeq(b, 0 + 1, m + 1) = Append(SubSeq(b, 0 + 1, m), b[m + 1])
          BY <1>2, <4>1, SegmentAppend
        <5> QED
          BY <4>2, <5>1
      <4>6. a \o Append(q, e) = Append(a \o q, e) /\ a \o q \in Seq(T)
        BY <1>2, <4>3, <4>4
      <4>7. FlattenSeq(Append(a \o q, e)) = FlattenSeq(a \o q) \o e
        BY <1>1, <4>3, <4>6, FlattenAppend
      <4>8. FlattenSeq(Append(q, e)) = FlattenSeq(q) \o e
        BY <1>1, <4>3, <4>4, FlattenAppend
      <4>9. FlattenSeq(a) \in Seq(S) /\ FlattenSeq(q) \in Seq(S) /\ e \in Seq(S)
        BY <1>1, <4>3, <4>4, FlattenTyped
      <4>10. FlattenSeq(a \o q) = FlattenSeq(a) \o FlattenSeq(q)
        BY <2>2, <4>1, <4>2
      <4>11. (FlattenSeq(a) \o FlattenSeq(q)) \o e = FlattenSeq(a) \o (FlattenSeq(q) \o e)
        <5> DEFINE x == FlattenSeq(a)
                   y == FlattenSeq(q)
        <5> HIDE DEF x, y
        <5>1. x \in Seq(S) /\ y \in Seq(S) /\ e \in Seq(S)
          BY <4>9 DEF x, y
        <5>2. (x \o y) \o e = x \o (y \o e)
          BY ONLY <5>1, ConcatAssociative, SMTT(30)
        <5> QED
          BY <5>2 DEF x, y
      <4> HIDE DEF piece
      <4> QED
        BY <4>5, <4>6, <4>7, <4>8, <4>10, <4>11
    <3> HIDE DEF piece
    <3> QED
      BY <2>2, <3>1
  <2> HIDE DEF I
  <2> QED
    BY <2>1, <2>2, Induction
<1>4. piece(n) = b
  BY <1>2, SubSeqFull
<1>5. FlattenSeq(a \o piece(n)) = FlattenSeq(a) \o FlattenSeq(piece(n))
  BY <1>2, <1>3
<1> HIDE DEF piece
<1> QED
  BY <1>4, <1>5

(* A function applied to each entry of a sequence, and of two. *)
Maps(u, f, a) == u = [i \in DOMAIN a |-> f[a[i]]]
Into(f, S, T) == \A x \in S : f[x] \in T

LEMMA MapConcat ==
  ASSUME NEW S, NEW T, NEW f, Into(f, S, T), NEW a \in Seq(S), NEW b \in Seq(S), NEW u, NEW v, NEW w,
         Maps(u, f, a), Maps(v, f, b), Maps(w, f, a \o b)
  PROVE  u \in Seq(T) /\ v \in Seq(T) /\ w = u \o v
<1>1. PICK m, n, c : m = Len(a) /\ n = Len(b) /\ c = a \o b
  OBVIOUS
<1>2. /\ m \in Nat /\ n \in Nat /\ c \in Seq(S) /\ Len(c) = m + n
      /\ DOMAIN a = 1..m /\ DOMAIN b = 1..n /\ DOMAIN c = 1..(m + n)
      /\ \A i \in 1..(m + n) : c[i] = IF i <= m THEN a[i] ELSE b[i - m]
  BY <1>1, ConcatProperties
<1>3. /\ u = [i \in 1..m |-> f[a[i]]] /\ v = [i \in 1..n |-> f[b[i]]]
      /\ w = [i \in 1..(m + n) |-> f[c[i]]]
  BY <1>1, <1>2 DEF Maps
<1>4. u \in Seq(T) /\ Len(u) = m
  <2>1. \A i \in 1..m : f[a[i]] \in T
    BY <1>2 DEF Into
  <2>2. u \in [1..m -> T]
    BY <1>3, <2>1
  <2> QED
    BY <1>2, <2>2
<1>5. v \in Seq(T) /\ Len(v) = n
  <2>1. \A i \in 1..n : f[b[i]] \in T
    BY <1>2 DEF Into
  <2>2. v \in [1..n -> T]
    BY <1>3, <2>1
  <2> QED
    BY <1>2, <2>2
<1>6. w \in Seq(T) /\ Len(w) = m + n
  <2>1. \A i \in 1..(m + n) : f[c[i]] \in T
    BY <1>2 DEF Into
  <2>2. m + n \in Nat
    BY <1>2
  <2>3. w \in [1..(m + n) -> T]
    BY <1>3, <2>1
  <2> QED
    BY <2>2, <2>3
<1>7. PICK x : x = u \o v
  OBVIOUS
<1>8. /\ x \in Seq(T) /\ Len(x) = m + n
      /\ \A i \in 1..(m + n) : x[i] = IF i <= m THEN u[i] ELSE v[i - m]
  BY <1>4, <1>5, <1>7, ConcatProperties
<1>9. \A i \in 1..(m + n) : w[i] = x[i]
  <2>1. ASSUME NEW i \in 1..(m + n)
        PROVE  w[i] = x[i]
    <3>1. CASE i <= m
      <4>1. i \in 1..m
        BY <1>2, <3>1
      <4> QED
        BY <1>2, <1>3, <1>8, <3>1, <4>1
    <3>2. CASE ~(i <= m)
      <4>1. i - m \in 1..n
        BY <1>2, <3>2
      <4> QED
        BY <1>2, <1>3, <1>8, <3>2, <4>1
    <3> QED
      BY <3>1, <3>2
  <2> QED
    BY <2>1
<1>10. w = x
  BY <1>6, <1>8, <1>9, SeqEqual
<1> QED
  BY <1>4, <1>5, <1>7, <1>10

(* The text of some output, without the ends of lines that are continued. *)
LEMMA TextConcat ==
  ASSUME NEW a \in Seq(OutChar), NEW b \in Seq(OutChar)
  PROVE  Text(a) \in Seq(OutChar) /\ Text(a \o b) = Text(a) \o Text(b)
<1>1. PICK f : f = [c \in OutChar |-> IF c = "fold" THEN <<>> ELSE <<c>>]
  OBVIOUS
<1>2. f \in [OutChar -> Seq(OutChar)]
  <2>1. ASSUME NEW c \in OutChar
        PROVE  (IF c = "fold" THEN <<>> ELSE <<c>>) \in Seq(OutChar)
    OBVIOUS
  <2> QED
    BY <1>1, <2>1
<1>3. ASSUME NEW s \in Seq(OutChar)
      PROVE  Text(s) = FlattenSeq([i \in DOMAIN s |-> f[s[i]]])
  <2>1. \A i \in DOMAIN s : f[s[i]] = IF s[i] = "fold" THEN <<>> ELSE <<s[i]>>
    BY <1>1
  <2>2. [i \in DOMAIN s |-> f[s[i]]] = [i \in DOMAIN s |-> IF s[i] = "fold" THEN <<>> ELSE <<s[i]>>]
    BY <2>1
  <2> QED
    BY <2>2 DEF Text
<1>4. PICK u, v, w : Maps(u, f, a) /\ Maps(v, f, b) /\ Maps(w, f, a \o b)
  BY DEF Maps
<1>5. u \in Seq(Seq(OutChar)) /\ v \in Seq(Seq(OutChar)) /\ w = u \o v
  <2>1. PICK S, T : S = OutChar /\ T = Seq(OutChar)
    OBVIOUS
  <2>2. a \in Seq(S) /\ b \in Seq(S) /\ Into(f, S, T)
    BY <1>2, <2>1 DEF Into
  <2>3. u \in Seq(T) /\ v \in Seq(T) /\ w = u \o v
    BY <1>4, <2>2, MapConcat
  <2> QED
    BY <2>1, <2>3
<1>6. a \o b \in Seq(OutChar)
  OBVIOUS
<1>7. Text(a) = FlattenSeq(u) /\ Text(b) = FlattenSeq(v) /\ Text(a \o b) = FlattenSeq(w)
  BY <1>3, <1>4, <1>6 DEF Maps
<1> QED
  BY <1>5, <1>7, FlattenConcat, FlattenTyped

LEMMA TextAppend ==
  ASSUME NEW s \in Seq(OutChar), NEW c \in OutChar
  PROVE  Text(Append(s, c)) = IF c = "fold" THEN Text(s) ELSE Append(Text(s), c)
<1>1. PICK e : e = <<c>>
  OBVIOUS
<1>2. e \in Seq(OutChar) /\ Len(e) = 1 /\ e[1] = c /\ DOMAIN e = {1} /\ Append(s, c) = s \o e
  BY <1>1
<1>3. PICK piece : piece = IF c = "fold" THEN <<>> ELSE <<c>>
  OBVIOUS
<1>4. piece \in Seq(OutChar) /\ <<>> \o piece = piece
  BY <1>3
<1>5. Text(e) = piece
  <2>1. PICK pieces : pieces = [i \in DOMAIN e |-> IF e[i] = "fold" THEN <<>> ELSE <<e[i]>>]
    OBVIOUS
  <2>2. pieces = [i \in 1..1 |-> piece]
    BY <1>2, <1>3, <2>1
  <2>3. pieces = Append(<<>>, piece)
    BY <2>2
  <2>4. FlattenSeq(Append(<<>>, piece)) = FlattenSeq(<<>>) \o piece
    <3>1. <<>> \in Seq(Seq(OutChar))
      OBVIOUS
    <3> QED
      BY <1>4, <3>1, FlattenAppend
  <2>5. FlattenSeq(<<>>) = <<>>
    BY DEF FlattenSeq
  <2> QED
    BY <1>4, <2>1, <2>3, <2>4, <2>5 DEF Text
<1>6. Text(s) \in Seq(OutChar) /\ Text(s \o e) = Text(s) \o piece
  BY <1>2, <1>5, TextConcat
<1>7. Text(s) \o <<>> = Text(s) /\ Text(s) \o <<c>> = Append(Text(s), c)
  <2>1. PICK t : t = Text(s)
    OBVIOUS
  <2>2. t \in Seq(OutChar)
    BY <1>6, <2>1
  <2>3. t \o <<>> = t /\ t \o <<c>> = Append(t, c)
    BY <2>2
  <2> QED
    BY <2>1, <2>3
<1> QED
  BY <1>2, <1>3, <1>6, <1>7

LEMMA NothingWritten == Text(<<>>) = <<>>
<1>1. FlattenSeq(<<>>) = <<>>
  BY DEF FlattenSeq
<1>2. [i \in DOMAIN <<>> |-> IF <<>>[i] = "fold" THEN <<>> ELSE <<(<<>>)[i]>>] = <<>>
  OBVIOUS
<1> QED
  BY <1>1, <1>2 DEF Text

(* Wrapping loses and adds nothing but the ends of continued lines. *)
LEMMA WrappedTells ==
  ASSUME NEW col \in 0..POSIX_WRAP_COL_LIMIT, NEW chars \in Seq(Printed)
  PROVE  Text(Wrapped(col, chars).text) = chars
<1>1. PICK first, n : first = [col |-> col, text |-> <<>>] /\ n = Len(chars)
  OBVIOUS
<1>2. first \in Columns /\ n \in Nat
  BY <1>1 DEF Columns
<1>3. PICK w \in [0..n -> Columns] : WrapRun(w, first, chars) /\ FoldLeft(WrapStep, first, chars) = w[n]
  BY <1>1, <1>2, WrapRuns
<1>4. w[0] = first /\ \A m \in 1..n : w[m] = WrapStep(w[m - 1], chars[m])
  BY <1>1, <1>3 DEF WrapRun
<1> DEFINE I == {m \in Nat : m <= n => Text(w[m].text) = SubSeq(chars, 1, m)}
<1>5. Nat \subseteq I
  <2>1. 0 \in I
    <3>1. SubSeq(chars, 1, 0) = <<>> /\ w[0].text = <<>>
      BY <1>1, <1>4, SubSeqEmpty
    <3> QED
      BY <3>1, NothingWritten
  <2>2. ASSUME NEW m \in Nat, m \in I
        PROVE  m + 1 \in I
    <3>1. ASSUME m + 1 <= n
          PROVE  Text(w[m + 1].text) = SubSeq(chars, 1, m + 1)
      <4>1. m + 1 \in 1..n /\ (m + 1) - 1 = m /\ m \in 0..n /\ m <= n /\ m < n /\ 0 <= m /\ 0 \in Nat
        BY <1>2, <3>1
      <4>2. PICK v, c : v = w[m] /\ c = chars[m + 1]
        OBVIOUS
      <4>3. c \in Printed /\ v \in Columns /\ w[m + 1] = WrapStep(v, c)
        BY <1>1, <1>3, <1>4, <4>1, <4>2
      <4>4. v.text \in Seq(OutChar) /\ c \in OutChar /\ c # "fold" /\ "fold" \in OutChar /\ "char" \in OutChar
        BY <4>3 DEF Columns, Printed, OutChar
      <4>5. Text(v.text) = SubSeq(chars, 1, m)
        BY <2>2, <4>1, <4>2
      <4>6. SubSeq(chars, 1, m + 1) = Append(SubSeq(chars, 1, m), c)
        <5>1. SubSeq(chars, 0 + 1, m + 1) = Append(SubSeq(chars, 0 + 1, m), chars[m + 1])
          BY <1>1, <4>1, SegmentAppend
        <5> QED
          BY <4>2, <5>1
      <4>7. Text(Append(v.text, c)) = Append(Text(v.text), c)
        BY <4>4, TextAppend
      <4>8. w[m + 1].text = Append(v.text, c) \/ (c = "char" /\ w[m + 1].text = Append(Append(v.text, "fold"), c))
        <5>1. v.text \o <<"fold", "char">> = Append(Append(v.text, "fold"), "char")
          BY <4>4
        <5> QED
          BY <4>3, <5>1 DEF WrapStep, Printed
      <4>9. Text(Append(Append(v.text, "fold"), c)) = Append(Text(v.text), c)
        <5>1. PICK t : t = Append(v.text, "fold")
          OBVIOUS
        <5>2. t \in Seq(OutChar)
          BY <4>4, <5>1
        <5>3. Text(t) = Text(v.text)
          BY <4>4, <5>1, TextAppend
        <5>4. Text(Append(t, c)) = Append(Text(t), c)
          BY <4>4, <5>2, TextAppend
        <5> QED
          BY <5>1, <5>3, <5>4
      <4> QED
        BY <4>5, <4>6, <4>7, <4>8, <4>9
    <3> QED
      BY <2>2, <3>1
  <2> HIDE DEF I
  <2> QED
    BY <2>1, <2>2, Induction
<1>6. Text(w[n].text) = SubSeq(chars, 1, n) /\ SubSeq(chars, 1, n) = chars
  BY <1>1, <1>2, <1>5, SubSeqFull
<1> QED
  BY <1>1, <1>3, <1>6 DEF Wrapped

LEMMA OutputIs == \A stmts : Calculation!Output(stmts) = FlattenSeq([j \in DOMAIN stmts |-> Writes[stmts[j]]])
BY DEF Calculation!Output, Calculation!FlattenSeq, FlattenSeq

LEMMA OutputConcat ==
  ASSUME NEW a \in Seq(Statements), NEW b \in Seq(Statements)
  PROVE  /\ Calculation!Output(a) \in Seq(Printed)
         /\ Calculation!Output(a \o b) = Calculation!Output(a) \o Calculation!Output(b)
<1>1. PICK u, v, w : Maps(u, Writes, a) /\ Maps(v, Writes, b) /\ Maps(w, Writes, a \o b)
  BY DEF Maps
<1>2. PICK T : T = Seq(Printed)
  OBVIOUS
<1>3. Into(Writes, Statements, T)
  BY <1>2, SessionConstantsOK DEF Into, Printed
<1>4. u \in Seq(T) /\ v \in Seq(T) /\ w = u \o v
  BY <1>1, <1>3, MapConcat, SMTT(30)
<1>5. /\ Calculation!Output(a) = FlattenSeq(u) /\ Calculation!Output(b) = FlattenSeq(v)
      /\ Calculation!Output(a \o b) = FlattenSeq(w)
  BY <1>1, OutputIs DEF Maps
<1> QED
  BY <1>2, <1>4, <1>5, FlattenConcat, FlattenTyped

(* What an evaluator writes is what its statements print. *)
LEMMA WritesTold ==
  ASSUME NEW ev \in Evaluator, NEW stmts \in Seq(Statements)
  PROVE  /\ Written(ev, stmts).text \in Seq(OutChar)
         /\ Text(Written(ev, stmts).text) = Calculation!Output(stmts)
<1>1. ev.col \in 0..POSIX_WRAP_COL_LIMIT
  BY DEF Evaluator
<1>2. PICK chars : chars = Calculation!Output(stmts)
  OBVIOUS
<1>3. chars \in Seq(Printed) /\ Written(ev, stmts) = Wrapped(ev.col, chars)
  BY <1>2, OutputIs, PrintedChars DEF Written
<1>4. Written(ev, stmts).text \in Seq(OutChar)
  BY AfterKeeps DEF Columns
<1> QED
  BY <1>1, <1>2, <1>3, <1>4, WrappedTells
-----------------------------------------------------------------------------
(* What the calculator promises for a text *)

Told == [ran : Seq(Statements), reports : Seq(Reports), errors : Nat]

LEMMA NothingTold ==
  /\ Calculation!Nothing \in Told
  /\ \A a \in Told : Calculation!Then(a, Calculation!Nothing) = a
<1>1. Calculation!Nothing \in Told
  BY DEF Calculation!Nothing, Told
<1>2. ASSUME NEW a \in Told
      PROVE  Calculation!Then(a, Calculation!Nothing) = a
  <2>1. a.ran \in Seq(Statements) /\ a.reports \in Seq(Reports) /\ a.errors \in Nat
        /\ a = [ran |-> a.ran, reports |-> a.reports, errors |-> a.errors]
    BY DEF Told
  <2>2. a.ran \o <<>> = a.ran /\ a.reports \o <<>> = a.reports /\ a.errors + 0 = a.errors
    BY <2>1
  <2> QED
    BY <2>1, <2>2 DEF Calculation!Then, Calculation!Nothing
<1> QED
  BY <1>1, <1>2

LEMMA ThenTold ==
  ASSUME NEW a \in Told, NEW b \in Told
  PROVE  Calculation!Then(a, b) \in Told
<1>1. /\ a.ran \in Seq(Statements) /\ a.reports \in Seq(Reports) /\ a.errors \in Nat
      /\ b.ran \in Seq(Statements) /\ b.reports \in Seq(Reports) /\ b.errors \in Nat
  BY DEF Told
<1>2. a.ran \o b.ran \in Seq(Statements) /\ a.reports \o b.reports \in Seq(Reports) /\ a.errors + b.errors \in Nat
  BY <1>1
<1> QED
  BY <1>2 DEF Calculation!Then, Told

LEMMA SeqAssociates ==
  ASSUME NEW S, NEW a \in Seq(S), NEW b \in Seq(S), NEW c \in Seq(S)
  PROVE  (a \o b) \o c = a \o (b \o c)
BY ConcatAssociative, SMTT(30)

LEMMA ThenAssociates ==
  ASSUME NEW a \in Told, NEW b \in Told, NEW c \in Told
  PROVE  Calculation!Then(Calculation!Then(a, b), c) = Calculation!Then(a, Calculation!Then(b, c))
<1>1. /\ a.ran \in Seq(Statements) /\ b.ran \in Seq(Statements) /\ c.ran \in Seq(Statements)
      /\ a.reports \in Seq(Reports) /\ b.reports \in Seq(Reports) /\ c.reports \in Seq(Reports)
      /\ a.errors \in Nat /\ b.errors \in Nat /\ c.errors \in Nat
  BY DEF Told
<1>2. (a.ran \o b.ran) \o c.ran = a.ran \o (b.ran \o c.ran)
  <2>1. PICK x, y, z : x = a.ran /\ y = b.ran /\ z = c.ran
    OBVIOUS
  <2>2. x \in Seq(Statements) /\ y \in Seq(Statements) /\ z \in Seq(Statements)
    BY <1>1, <2>1
  <2>3. (x \o y) \o z = x \o (y \o z)
    BY ONLY <2>2, SeqAssociates
  <2> QED
    BY <2>1, <2>3
<1>3. (a.reports \o b.reports) \o c.reports = a.reports \o (b.reports \o c.reports)
  <2>1. PICK x, y, z : x = a.reports /\ y = b.reports /\ z = c.reports
    OBVIOUS
  <2>2. x \in Seq(Reports) /\ y \in Seq(Reports) /\ z \in Seq(Reports)
    BY <1>1, <2>1
  <2>3. (x \o y) \o z = x \o (y \o z)
    BY ONLY <2>2, SeqAssociates
  <2> QED
    BY <2>1, <2>3
<1>4. (a.errors + b.errors) + c.errors = a.errors + (b.errors + c.errors)
  BY <1>1
<1> QED
  BY <1>2, <1>3, <1>4 DEF Calculation!Then

(* One entry of the function Rest in Calculator's Remaining. *)
RestAt(lines, how, f, i) ==
  IF i = Len(lines) THEN Calculation!Nothing
  ELSE IF Calculation!GroupResult(lines, i, how).outcome = "Quit"
       THEN Calculation!Added(Calculation!GroupResult(lines, i, how))
       ELSE Calculation!Then(Calculation!Added(Calculation!GroupResult(lines, i, how)),
                             f[Calculation!GroupEnd(lines, i)])
IsRest(lines, how, f) == f = [i \in 0..Len(lines) |-> RestAt(lines, how, f, i)]

LEMMA RemainingIs ==
  ASSUME NEW lines, NEW how, \E f : IsRest(lines, how, f)
  PROVE  IsRest(lines, how, Calculation!Remaining(lines, how))
<1>1. Calculation!Remaining(lines, how) = CHOOSE f : IsRest(lines, how, f)
  BY DEF Calculation!Remaining, IsRest, RestAt
<1> QED
  BY <1>1

(* A group ends after it begins. *)
LEMMA GroupEnds ==
  ASSUME NEW lines \in Seq(Lines), NEW i \in 0..(Len(lines) - 1)
  PROVE  Calculation!GroupEnd(lines, i) \in (i + 1)..Len(lines)
<1>1. PICK n, ends : n = Len(lines) /\ ends = {k \in (i + 1)..Len(lines) : Whole(SubSeq(lines, i + 1, k))}
  OBVIOUS
<1>2. n \in Nat /\ n = Len(lines) /\ i \in 0..(n - 1) /\ ends \in SUBSET ((i + 1)..n)
  BY <1>1
<1>3. Calculation!GroupEnd(lines, i) = IF ends = {} THEN n ELSE CHOOSE k \in ends : \A l \in ends : k <= l
  BY <1>1 DEF Calculation!GroupEnd
<1>4. CASE ends = {}
  BY <1>2, <1>3, <1>4
<1>5. CASE ends # {}
  <2>1. ends \in SUBSET Nat
    BY <1>2
  <2>2. \E k \in ends : \A l \in ends : k <= l
    BY <1>5, <2>1, Least
  <2>3. (CHOOSE k \in ends : \A l \in ends : k <= l) \in ends
    BY <2>2
  <2> QED
    BY <1>2, <1>3, <1>5, <2>3
<1> QED
  BY <1>4, <1>5

LEMMA AddedTold ==
  ASSUME NEW lines \in Seq(SourceLine), NEW first \in Nat, NEW how \in Policy,
         NEW r, r = UnitResult(lines, first, how)
  PROVE  Calculation!Added(r) \in Told
<1>1. r.ran \in Seq(TokensOf(lines)) /\ r.reports \in Seq(Reports) /\ \A j \in DOMAIN r.ran : r.ran[j].item \in Statements
  BY UnitRuns, SMTT(30)
<1>2. PICK run, n : run = r.ran /\ n = Len(run)
  OBVIOUS
<1>3. n \in Nat /\ DOMAIN run = 1..n /\ \A j \in 1..n : run[j].item \in Statements
  BY <1>1, <1>2
<1>4. PICK items : items = [j \in 1..n |-> run[j].item]
  OBVIOUS
<1>5. items \in [1..n -> Statements]
  BY <1>3, <1>4
<1>6. items \in Seq(Statements)
  BY <1>3, <1>5
<1>7. Calculation!Added(r) = [ran |-> items, reports |-> r.reports, errors |-> IF r.outcome = "Failed" THEN 1 ELSE 0]
  BY <1>2, <1>3, <1>4 DEF Calculation!Added
<1>8. (IF r.outcome = "Failed" THEN 1 ELSE 0) \in Nat
  OBVIOUS
<1> QED
  BY <1>1, <1>6, <1>7, <1>8 DEF Told

LEMMA GroupTold ==
  ASSUME NEW lines \in Seq(Lines), NEW how \in Policy, NEW i \in 0..(Len(lines) - 1)
  PROVE  Calculation!Added(Calculation!GroupResult(lines, i, how)) \in Told
<1>1. PICK k : k = Calculation!GroupEnd(lines, i)
  OBVIOUS
<1>2. k \in (i + 1)..Len(lines)
  BY <1>1, GroupEnds
<1>3. i \in Nat /\ k \in Nat /\ i <= k /\ k <= Len(lines) /\ i <= Len(lines) /\ 0 \in Nat /\ 0 <= i /\ Len(lines) \in Nat
  BY <1>2
<1>4. PICK group, first : group = SubSeq(lines, i + 1, k) /\ first = 1 + Newlines(SubSeq(lines, 1, i))
  OBVIOUS
<1>5. group \in Seq(Lines)
  BY <1>3, <1>4, SegmentTyped
<1>6. group \in Seq(SourceLine)
  <2>1. Lines \subseteq SourceLine
    BY DriverConstantsOK DEF SourceLine
  <2> QED
    BY <1>5, <2>1
<1>7. SubSeq(lines, 0 + 1, i) \in Seq(Lines)
  BY <1>3, SegmentTyped
<1>8. first \in Nat
  <2>1. PICK s : s = SubSeq(lines, 1, i)
    OBVIOUS
  <2>2. s \in Seq(Lines)
    BY <1>7, <2>1
  <2>3. Newlines(s) \in Nat
    BY <2>2, NewlinesTyped
  <2> QED
    BY <1>4, <2>1, <2>3
<1>9. PICK r : r = Calculation!GroupResult(lines, i, how)
  OBVIOUS
<1>10. r = UnitResult(group, first, how)
  BY <1>1, <1>4, <1>9 DEF Calculation!GroupResult
<1> QED
  BY <1>6, <1>8, <1>9, <1>10, AddedTold

(* The entry of a line depends on the entries of later lines only, and they are given. *)
LEMMA RestSteps ==
  ASSUME NEW lines \in Seq(Lines), NEW how \in Policy, NEW i \in 0..Len(lines),
         NEW f, \A k \in (i + 1)..Len(lines) : f[k] \in Told
  PROVE  /\ RestAt(lines, how, f, i) \in Told
         /\ \A g : (\A k \in (i + 1)..Len(lines) : g[k] = f[k]) =>
              RestAt(lines, how, g, i) = RestAt(lines, how, f, i)
<1>1. CASE i = Len(lines)
  BY <1>1, NothingTold DEF RestAt
<1>2. CASE i # Len(lines)
  <2>1. i \in 0..(Len(lines) - 1)
    BY <1>2
  <2>2. PICK k, a : k = Calculation!GroupEnd(lines, i) /\ a = Calculation!Added(Calculation!GroupResult(lines, i, how))
    OBVIOUS
  <2>3. k \in (i + 1)..Len(lines) /\ a \in Told /\ f[k] \in Told
    BY <2>1, <2>2, GroupEnds, GroupTold
  <2>4. Calculation!Then(a, f[k]) \in Told
    BY <2>3, ThenTold
  <2>5. \A g : RestAt(lines, how, g, i) = IF Calculation!GroupResult(lines, i, how).outcome = "Quit" THEN a
                                         ELSE Calculation!Then(a, g[k])
    BY <1>2, <2>2 DEF RestAt
  <2> QED
    BY <2>3, <2>4, <2>5
<1> QED
  BY <1>1, <1>2

LEMMA RestDefined ==
  ASSUME NEW lines \in Seq(Lines), NEW how \in Policy
  PROVE  \E f : IsRest(lines, how, f)
<1>1. PICK n \in Nat : n = Len(lines)
  OBVIOUS
<1> DEFINE Tail_(f, d) == \A i \in (n - d)..n : f[i] = RestAt(lines, how, f, i)
           I == {d \in Nat : d <= n => \E f \in [(n - d)..n -> Told] : Tail_(f, d)}
<1>2. Nat \subseteq I
  <2>1. 0 \in I
    <3>1. PICK f : f = [i \in (n - 0)..n |-> Calculation!Nothing]
      OBVIOUS
    <3>2. f \in [(n - 0)..n -> Told]
      BY <3>1, NothingTold
    <3>3. \A i \in (n - 0)..n : i = n /\ f[i] = Calculation!Nothing
      BY <3>1
    <3>4. Tail_(f, 0)
      BY <1>1, <3>3 DEF RestAt
    <3> QED
      BY <3>2, <3>4
  <2>2. ASSUME NEW d \in Nat, d \in I
        PROVE  d + 1 \in I
    <3>1. ASSUME d + 1 <= n
          PROVE  \E g \in [(n - (d + 1))..n -> Told] : Tail_(g, d + 1)
      <4>1. PICK b \in Nat : b = n - (d + 1)
        BY <3>1
      <4>2. b \in 0..Len(lines) /\ n - d = b + 1 /\ d <= n
        BY <1>1, <3>1, <4>1
      <4>3. PICK f \in [(n - d)..n -> Told] : Tail_(f, d)
        BY <2>2, <4>2
      <4>4. f \in [(b + 1)..n -> Told] /\ \A i \in (b + 1)..n : f[i] = RestAt(lines, how, f, i)
        BY <4>2, <4>3
      <4>5. PICK first : first = RestAt(lines, how, f, b)
        OBVIOUS
      <4>6. first \in Told
        BY <1>1, <4>2, <4>4, <4>5, RestSteps
      <4>7. PICK g : g = [i \in b..n |-> IF i = b THEN first ELSE f[i]]
        OBVIOUS
      <4>8. ASSUME NEW i \in (b + 1)..n
            PROVE  i # b /\ i \in b..n /\ g[i] = f[i] /\ f[i] \in Told
        BY <4>4, <4>7, <4>8
      <4>9. g[b] = first
        BY <1>1, <4>2, <4>7
      <4>10. g \in [b..n -> Told]
        BY <4>4, <4>6, <4>7
      <4>11. ASSUME NEW i \in b..n
             PROVE  g[i] = RestAt(lines, how, f, i)
        BY <4>4, <4>5, <4>8, <4>9, <4>11
      <4>12. ASSUME NEW i \in b..n
             PROVE  RestAt(lines, how, g, i) = RestAt(lines, how, f, i)
        <5>1. i \in 0..Len(lines) /\ \A k \in (i + 1)..Len(lines) : k \in (b + 1)..n
          BY <1>1, <4>12
        <5>2. \A k \in (i + 1)..Len(lines) : f[k] \in Told /\ g[k] = f[k]
          BY <4>8, <5>1
        <5> QED
          BY <5>1, <5>2, RestSteps
      <4>13. Tail_(g, d + 1)
        BY <4>1, <4>11, <4>12
      <4> HIDE DEF Tail_
      <4> QED
        BY <4>1, <4>10, <4>13
    <3> HIDE DEF Tail_
    <3> QED
      BY <2>2, <3>1
  <2> HIDE DEF I
  <2> QED
    BY <2>1, <2>2, Induction
<1>3. PICK f \in [(n - n)..n -> Told] : Tail_(f, n)
  BY <1>1, <1>2
<1>4. n - n = 0
  BY <1>1
<1>5. f = [i \in 0..n |-> f[i]] /\ \A i \in 0..n : f[i] = RestAt(lines, how, f, i)
  BY <1>3, <1>4
<1>6. f = [i \in 0..n |-> RestAt(lines, how, f, i)]
  BY <1>5
<1> QED
  BY <1>1, <1>6 DEF IsRest

(* What is promised for the lines after the first i. *)
LEMMA RemainingTold ==
  ASSUME NEW lines \in Seq(Lines), NEW how \in Policy
  PROVE  \A i \in 0..Len(lines) :
           /\ Calculation!Remaining(lines, how)[i] \in Told
           /\ Calculation!Remaining(lines, how)[i] = RestAt(lines, how, Calculation!Remaining(lines, how), i)
<1>1. PICK n \in Nat : n = Len(lines)
  OBVIOUS
<1>2. PICK f : f = Calculation!Remaining(lines, how)
  OBVIOUS
<1>3. \A i \in 0..n : f[i] = RestAt(lines, how, f, i)
  <2>1. IsRest(lines, how, f)
    BY <1>2, RestDefined, RemainingIs
  <2> QED
    BY <1>1, <2>1 DEF IsRest
<1> DEFINE I == {d \in Nat : d <= n => \A i \in (n - d)..n : f[i] \in Told}
<1>4. Nat \subseteq I
  <2>1. 0 \in I
    <3>1. \A i \in (n - 0)..n : i = n
      OBVIOUS
    <3>2. n \in 0..n
      OBVIOUS
    <3>3. f[n] \in Told
      BY <1>1, <1>3, <3>2, NothingTold DEF RestAt
    <3> QED
      BY <3>1, <3>3
  <2>2. ASSUME NEW d \in Nat, d \in I
        PROVE  d + 1 \in I
    <3>1. ASSUME d + 1 <= n, NEW i \in (n - (d + 1))..n
          PROVE  f[i] \in Told
      <4>1. d <= n /\ \A k \in (n - d)..n : f[k] \in Told
        BY <2>2, <3>1
      <4>2. i \in 0..n /\ \A k \in (i + 1)..n : k \in (n - d)..n
        BY <3>1
      <4>3. RestAt(lines, how, f, i) \in Told
        BY <1>1, <4>1, <4>2, RestSteps
      <4> QED
        BY <1>3, <4>2, <4>3
    <3> QED
      BY <2>2, <3>1
  <2> HIDE DEF I
  <2> QED
    BY <2>1, <2>2, Induction
<1>5. \A i \in 0..n : f[i] \in Told
  <2>1. n \in I /\ n - n = 0 /\ n <= n
    BY <1>4
  <2>2. \A i \in (n - n)..n : f[i] \in Told
    BY <2>1
  <2> QED
    BY <2>1, <2>2
<1> QED
  BY <1>1, <1>2, <1>3, <1>5

-----------------------------------------------------------------------------
(* Every step keeps the promise: what was done, and what is left, is the whole. *)

LEMMA NothingFirst ==
  /\ Text(<<>>) = Calculation!Output(<<>>)
  /\ \A a \in Told : Calculation!Then([ran |-> <<>>, reports |-> <<>>, errors |-> 0], a) = a
<1>1. FlattenSeq(<<>>) = <<>>
  BY DEF FlattenSeq
<1>2. Calculation!Output(<<>>) = <<>>
  <2>1. [j \in DOMAIN <<>> |-> Writes[(<<>>)[j]]] = <<>>
    OBVIOUS
  <2> QED
    BY <1>1, <2>1, OutputIs
<1>3. ASSUME NEW a \in Told
      PROVE  Calculation!Then([ran |-> <<>>, reports |-> <<>>, errors |-> 0], a) = a
  <2>1. a.ran \in Seq(Statements) /\ a.reports \in Seq(Reports) /\ a.errors \in Nat
        /\ a = [ran |-> a.ran, reports |-> a.reports, errors |-> a.errors]
    BY <1>3 DEF Told
  <2>2. <<>> \o a.ran = a.ran /\ <<>> \o a.reports = a.reports /\ 0 + a.errors = a.errors
    BY <2>1
  <2> QED
    BY <2>1, <2>2 DEF Calculation!Then
<1> QED
  BY <1>2, <1>3, NothingWritten

LEMMA PromiseStarts ==
  ASSUME NEW code \in Seq(Lines), NEW how \in Policy, RunSource(code, how), out' = <<>>
  PROVE  /\ gathers' = TRUE /\ text' = code /\ policy' = how
         /\ Text(out') = Calculation!Output(<<>>)
         /\ Calculation!Then([ran |-> <<>>, reports |-> reports', errors |-> errors'], Left')
              = Calculation!Evaluated(text', policy')
<1>1. /\ gathers' = TRUE /\ text' = code /\ policy' = how /\ quit' = FALSE /\ phase' = "reading"
      /\ read' = 0 /\ buf' = <<>> /\ units' = <<>> /\ reports' = <<>> /\ errors' = 0
  BY DEF RunSource
<1>2. Position' = 0
  BY <1>1 DEF Position, Pending
<1>3. Left' = Calculation!Remaining(code, how)[0]
  BY <1>1, <1>2 DEF Left
<1>4. Left' \in Told
  BY <1>3, RemainingTold
<1>5. Calculation!Then([ran |-> <<>>, reports |-> reports', errors |-> errors'], Left') = Left'
  BY <1>1, <1>4, NothingFirst
<1>6. Calculation!Evaluated(text', policy') = Calculation!Remaining(code, how)[0]
  BY <1>1 DEF Calculation!Evaluated
<1> QED
  BY <1>1, <1>3, <1>5, <1>6, NothingFirst

LEMMA EvalUnderway ==
  ASSUME SessionInv, EvalSession \/ EvalOnce
  PROVE  Underway'
<1>1. KeptOK /\ <<>> \in Seq(Statements)
  BY SessionInvParts
<1>2. CASE EvalSession
  <2>1. PICK code \in Codes : RunSource(Terminated(code), session.extension_policy)
    BY <1>2 DEF EvalSession
  <2>2. /\ running' = "session" /\ reply' \in Replies /\ out' = <<>> /\ alive' = alive /\ alive
        /\ front' = front /\ session' = session /\ before' = session.executed
    BY <1>2 DEF EvalSession, hosts, machines
  <2>3. PICK whole, how, old : whole = Terminated(code) /\ how = session.extension_policy /\ old = session.executed
    OBVIOUS
  <2>4. whole \in Seq(Lines) /\ how \in Policy /\ old \in Seq(Statements \union {"scale"})
    BY <1>1, <2>3, TerminatedTyped DEF KeptOK, Evaluator
  <2>5. /\ gathers' = TRUE /\ text' = whole /\ policy' = how
        /\ Text(out') = Calculation!Output(<<>>)
        /\ Calculation!Then([ran |-> <<>>, reports |-> reports', errors |-> errors'], Left')
             = Calculation!Evaluated(text', policy')
    BY <2>1, <2>2, <2>3, <2>4, PromiseStarts
  <2>6. session'.executed = before' \o <<>>
    BY <2>2, <2>3, <2>4
  <2>7. text' \in Codes \union {Terminated(c) : c \in Codes}
    BY <2>3, <2>5
  <2>8. reply' \in Replies'
    BY <2>2 DEF Replies
  <2> QED
    BY <1>1, <2>2, <2>3, <2>4, <2>5, <2>6, <2>7, <2>8 DEF Underway
<1>3. CASE EvalOnce
  <2>1. PICK code \in Codes : RunSource(code, NewEvaluator.extension_policy)
    BY <1>3 DEF EvalOnce
  <2>2. running' = "once" /\ reply' \in Replies /\ out' = <<>> /\ front' = front
    BY <1>3 DEF EvalOnce, hosts
  <2>3. code \in Seq(Lines) /\ "Allow" \in Policy /\ NewEvaluator.extension_policy = "Allow"
    BY TerminatedTyped, NewEvaluatorOK DEF Policy
  <2>4. /\ gathers' = TRUE /\ text' = code /\ policy' = "Allow"
        /\ Text(out') = Calculation!Output(<<>>)
        /\ Calculation!Then([ran |-> <<>>, reports |-> reports', errors |-> errors'], Left')
             = Calculation!Evaluated(text', policy')
    BY <2>1, <2>2, <2>3, PromiseStarts
  <2>5. reply' \in Replies'
    BY <2>2 DEF Replies
  <2> QED
    BY <1>1, <2>2, <2>4, <2>5 DEF Underway
<1> QED
  BY <1>2, <1>3

LEMMA CutUnderway ==
  ASSUME SessionInv, Underway, Cut
  PROVE  Underway'
<1>1. IInv /\ running # "none"
  BY DEF SessionInv, Cut
<1>2. /\ front' = front /\ alive' = alive /\ session' = session
      /\ running' = running /\ out' = out /\ reply' = reply /\ before' = before
  BY DEF Cut, hosts, machines, history
<1>3. /\ gathers' = gathers /\ quit' = quit /\ reports' = reports /\ errors' = errors
      /\ text' = text /\ policy' = policy /\ phase # "crashed"
  BY DEF Cut, PushLine, Finish, TakeRest, Done, input, summary, output
<1>4. Position' = Position
  BY <1>1, PushRefines, FinishRefines, DoneRefines DEF Cut, Stream!vars
<1>5. Left' = Left /\ Replies' = Replies
  BY <1>2, <1>3, <1>4 DEF Left, Replies
<1> QED
  BY <1>1, <1>2, <1>3, <1>5 DEF Underway

(* The unit that is run is the group the calculator runs next. *)
LEMMA UnitIsGroup ==
  ASSUME IInv, RunUnit, gathers,
         NEW r, r = UnitResult(Head(units).lines, Head(units).first, policy)
  PROVE  /\ phase = "running" /\ quit = FALSE
         /\ Position \in 0..(Len(text) - 1)
         /\ r = Calculation!GroupResult(text, Position, policy)
         /\ Position' = Calculation!GroupEnd(text, Position)
         /\ r.outcome \in {"Completed", "Failed", "Quit", "Panicked"}
<1>1. /\ TypeOK /\ UnitsOK /\ EndsOK /\ phase = "running" /\ units # <<>> /\ units \in Seq(Unit)
      /\ text \in Seq(Lines) /\ policy \in Policy
  BY DriverConstantsOK DEF IInv, RunUnit, TypeOK
<1>2. PICK unit : unit = Head(units)
  OBVIOUS
<1>3. unit \in Unit /\ UnitFits(unit)
  <2>1. Head(units) = units[1] /\ Head(units) \in Unit /\ Len(units) \in Nat \ {0} /\ DOMAIN units = 1..Len(units)
    BY <1>1, TailEntries
  <2> QED
    BY <1>1, <1>2, <2>1 DEF UnitsOK
<1>4. PICK i, k : i = unit.from /\ k = UnitEnd(unit)
  OBVIOUS
<1>5. /\ i \in Nat /\ k \in Nat /\ unit.lines \in Seq(Lines) /\ unit.first \in Nat /\ IsUnit(i, k)
      /\ unit.lines = SubSeq(text, i + 1, k) /\ unit.first = 1 + Newlines(SubSeq(text, 1, i))
  <2>1. i \in Nat /\ Len(unit.lines) \in Nat /\ unit.lines \in Seq(Lines) /\ unit.first \in Nat
    BY <1>3, <1>4 DEF Unit
  <2> QED
    BY <1>3, <1>4, <2>1 DEF UnitFits, UnitEnd, Segment, LineNumber
<1>6. i < k /\ k <= Len(text) /\ Len(text) \in Nat
  BY <1>1, <1>5 DEF IsUnit
<1>7. Position = i
  BY <1>1, <1>2, <1>4 DEF Position
<1>8. Stream!NextGroup(i) = k
  BY <1>1, <1>5, NextGroupIsUnit
<1>9. Calculation!GroupEnd(text, i) = k
  BY <1>8 DEF Calculation!GroupEnd, Stream!NextGroup, Stream!Group
<1>10. Position' = k
  BY <1>7, <1>8, RunUnitRefines DEF Stream!RunGroup
<1>11. r = Calculation!GroupResult(text, i, policy)
  BY <1>2, <1>5, <1>9 DEF Calculation!GroupResult
<1>12. r.outcome \in {"Completed", "Failed", "Quit", "Panicked"}
  <2>1. Lines \subseteq SourceLine
    BY DriverConstantsOK DEF SourceLine
  <2>2. unit.lines \in Seq(SourceLine)
    BY <1>5, <2>1
  <2>3. unit.first \in Nat
    BY <1>5
  <2>4. policy \in Policy
    BY <1>1
  <2>5. r = UnitResult(unit.lines, unit.first, policy)
    BY <1>2
  <2> QED
    BY ONLY <2>2, <2>3, <2>4, <2>5, UnitRuns, SMTT(30)
<1>13. quit = FALSE
  BY <1>1 DEF EndsOK, TypeOK
<1>14. Position \in 0..(Len(text) - 1)
  BY <1>5, <1>6, <1>7
<1>15. r = Calculation!GroupResult(text, Position, policy) /\ Position' = Calculation!GroupEnd(text, Position)
  BY <1>7, <1>9, <1>10, <1>11
<1> QED
  BY <1>1, <1>12, <1>13, <1>14, <1>15, ZenonT(30)

LEMMA PromiseRuns ==
  ASSUME EngineOK, RunUnit, gathers, phase' # "crashed",
         NEW done \in Seq(Statements), NEW stmts \in Seq(Statements),
         stmts = Executed(SubSeq(ran', Len(ran) + 1, Len(ran'))),
         Calculation!Then([ran |-> done, reports |-> reports, errors |-> errors], Left)
           = Calculation!Evaluated(text, policy)
  PROVE  Calculation!Then([ran |-> done \o stmts, reports |-> reports', errors |-> errors'], Left')
           = Calculation!Evaluated(text', policy')
<1>1. PICK r : r = UnitResult(Head(units).lines, Head(units).first, policy)
  OBVIOUS
<1>2. IInv /\ TypeOK /\ text \in Seq(Lines) /\ policy \in Policy /\ reports \in Seq(Reports) /\ errors \in Nat
  BY SessionConstantsOK DEF EngineOK, IInv, TypeOK, Reports
<1>3. PICK i, k : i = Position /\ k = Position'
  OBVIOUS
<1>4. /\ quit = FALSE /\ i \in 0..(Len(text) - 1) /\ r = Calculation!GroupResult(text, i, policy)
      /\ k = Calculation!GroupEnd(text, i) /\ phase = "running"
      /\ r.outcome \in {"Completed", "Failed", "Quit", "Panicked"}
  BY <1>1, <1>2, <1>3, UnitIsGroup
<1>5. PICK rest, add : rest = Calculation!Remaining(text, policy) /\ add = Calculation!Added(r)
  OBVIOUS
<1>6. /\ text' = text /\ policy' = policy /\ reports' = reports \o r.reports /\ Record(r.outcome)
  BY <1>1 DEF RunUnit, input
<1>7. /\ k \in 0..Len(text) /\ add \in Told /\ rest[k] \in Told
      /\ rest[i] = IF r.outcome = "Quit" THEN add ELSE Calculation!Then(add, rest[k])
  <2>1. k \in (i + 1)..Len(text) /\ add \in Told
    BY <1>2, <1>4, <1>5, GroupEnds, GroupTold
  <2>2. i \in 0..Len(text) /\ i # Len(text) /\ k \in 0..Len(text)
    BY <1>2, <1>4, <2>1
  <2>3. rest[k] \in Told /\ rest[i] = RestAt(text, policy, rest, i)
    BY <1>2, <1>5, <2>2, RemainingTold
  <2> QED
    BY <1>4, <1>5, <2>1, <2>2, <2>3 DEF RestAt
<1>8. Left = rest[i]
  BY <1>3, <1>4, <1>5 DEF Left
<1>9. PICK sofar, now : /\ sofar = [ran |-> done, reports |-> reports, errors |-> errors]
                        /\ now = [ran |-> done \o stmts, reports |-> reports', errors |-> errors']
  OBVIOUS
<1>10. sofar \in Told
  BY <1>2, <1>9 DEF Told
<1>11. add = [ran |-> stmts, reports |-> r.reports, errors |-> IF r.outcome = "Failed" THEN 1 ELSE 0]
  <2>1. stmts = add.ran
    BY <1>1, <1>5, RunGivesStatements
  <2> QED
    BY <1>5, <2>1 DEF Calculation!Added
<1>12. /\ (quit' <=> r.outcome = "Quit")
       /\ errors' = errors + (IF r.outcome = "Failed" THEN 1 ELSE 0)
  <2>1. \/ r.outcome = "Completed" /\ quit' = FALSE /\ errors' = errors
        \/ r.outcome = "Failed" /\ quit' = FALSE /\ errors' = errors + 1
        \/ r.outcome = "Quit" /\ quit' = TRUE /\ errors' = errors
    BY <1>4, <1>6 DEF Record, summary
  <2> QED
    BY <1>2, <2>1
<1>13. now = Calculation!Then(sofar, add)
  BY <1>6, <1>9, <1>11, <1>12 DEF Calculation!Then
<1>14. Left' = IF r.outcome = "Quit" THEN Calculation!Nothing ELSE rest[k]
  BY <1>3, <1>5, <1>6, <1>12 DEF Left
<1>15. Calculation!Then(now, Left') = Calculation!Then(sofar, rest[i])
  <2>1. CASE r.outcome = "Quit"
    <3>1. now \in Told
      BY <1>7, <1>10, <1>13, ThenTold
    <3> QED
      BY <1>7, <1>13, <1>14, <2>1, <3>1, NothingTold
  <2>2. CASE r.outcome # "Quit"
    BY <1>7, <1>10, <1>13, <1>14, <2>2, ThenAssociates
  <2> QED
    BY <2>1, <2>2
<1> QED
  BY <1>6, <1>8, <1>9, <1>15

LEMMA RunUnderway ==
  ASSUME SessionInv, Underway, Run
  PROVE  Underway'
<1>1. EngineOK /\ CallOK /\ KeptOK
  BY SessionInvParts
<1>2. PICK stmts : stmts = Executed(SubSeq(ran', Len(ran) + 1, Len(ran')))
  OBVIOUS
<1>3. /\ RunUnit /\ running # "none" /\ phase # "crashed" /\ gathers' = gathers
      /\ text' = text /\ policy' = policy
  BY DEF Run, RunUnit, input
<1>4. stmts \in Seq(Statements)
  BY <1>1, <1>2, <1>3, RunGivesStatements
<1>5. /\ front' = front /\ alive' = alive /\ running' = running /\ reply' = reply /\ before' = before
  BY DEF Run, hosts, history
<1>6. PICK ev : ev = IF running = "session" THEN session ELSE once
  OBVIOUS
<1>7. ev \in Evaluator /\ out \in Seq(OutChar) /\ session \in Evaluator
  BY <1>1, <1>6 DEF KeptOK, CallOK
<1>8. out' = out \o Written(ev, stmts).text /\ (running = "session" => session' = After(session, stmts))
  BY <1>2, <1>6 DEF Run
<1>9. /\ gathers /\ reply \in Replies
      /\ text \in Codes \union {Terminated(code) : code \in Codes}
      /\ running = "session" => alive /\ before \in Seq(Statements \union {"scale"})
      /\ running = "once" => policy = "Allow"
  BY <1>3 DEF Underway
<1>10. PICK done \in Seq(Statements) :
         /\ running = "session" => session.executed = before \o done
         /\ Text(out) = Calculation!Output(done)
         /\ Calculation!Then([ran |-> done, reports |-> reports, errors |-> errors], Left)
              = Calculation!Evaluated(text, policy)
  BY <1>3 DEF Underway
<1>11. PICK all : all = done \o stmts
  OBVIOUS
<1>12. all \in Seq(Statements)
  BY <1>4, <1>11
<1>13. running' = "session" => session'.executed = before' \o all
  <2>1. ASSUME running = "session"
        PROVE  session'.executed = before \o all
    <3>1. session'.executed = session.executed \o stmts
      BY <1>4, <1>7, <1>8, <2>1, AfterKeeps
    <3>2. PICK S : S = Statements \union {"scale"}
      OBVIOUS
    <3>3. before \in Seq(S) /\ done \in Seq(S) /\ stmts \in Seq(S)
      BY <1>4, <1>9, <1>10, <2>1, <3>2
    <3>4. (before \o done) \o stmts = before \o (done \o stmts)
      BY ONLY <3>3, SeqAssociates
    <3> QED
      BY <1>10, <1>11, <2>1, <3>1, <3>4
  <2> QED
    BY <1>5, <2>1
<1>14. Text(out') = Calculation!Output(all)
  <2>1. PICK w : w = Written(ev, stmts).text
    OBVIOUS
  <2>2. w \in Seq(OutChar) /\ Text(w) = Calculation!Output(stmts)
    BY <1>4, <1>7, <2>1, WritesTold
  <2>3. Text(out \o w) = Text(out) \o Text(w)
    BY <1>7, <2>2, TextConcat
  <2>4. Calculation!Output(all) = Calculation!Output(done) \o Calculation!Output(stmts)
    BY <1>4, <1>11, OutputConcat
  <2> QED
    BY <1>8, <1>10, <2>1, <2>2, <2>3, <2>4
<1>15. phase' # "crashed" =>
         Calculation!Then([ran |-> all, reports |-> reports', errors |-> errors'], Left')
           = Calculation!Evaluated(text', policy')
  BY <1>1, <1>2, <1>3, <1>4, <1>9, <1>10, <1>11, PromiseRuns
<1>16. Replies' = Replies
  BY <1>5 DEF Replies
<1> QED
  BY <1>3, <1>5, <1>9, <1>12, <1>13, <1>14, <1>15, <1>16 DEF Underway

LEMMA UnderwayNext ==
  ASSUME SessionInv, Underway, [SessionNext]_sessionVars
  PROVE  Underway'
<1>1. CASE EvalSession \/ EvalOnce
  BY <1>1, EvalUnderway
<1>2. CASE Cut
  BY <1>2, CutUnderway
<1>3. CASE Run
  BY <1>3, RunUnderway
<1>4. CASE \/ Create \/ Reset \/ Destroy \/ SetPolicy \/ RefusePolicy \/ SetScale
           \/ RefuseNull \/ RefuseSize \/ RefuseEncoding \/ Reply
  <2>1. running' = "none"
    BY <1>4 DEF Create, Reset, Destroy, Renew, SetPolicy, RefusePolicy, SetScale, RefuseNull, RefuseSize,
                RefuseEncoding, Refuses, Reply, Idle
  <2> QED
    BY <2>1 DEF Underway
<1>5. CASE UNCHANGED sessionVars
  <2>1. /\ front' = front /\ alive' = alive /\ session' = session /\ running' = running /\ out' = out
        /\ reply' = reply /\ before' = before /\ UNCHANGED vars
    BY <1>5 DEF sessionVars, hosts, machines, history
  <2>2. /\ gathers' = gathers /\ quit' = quit /\ reports' = reports /\ errors' = errors /\ phase' = phase
        /\ text' = text /\ policy' = policy /\ units' = units /\ buf' = buf /\ read' = read /\ from' = from
    BY <2>1 DEF vars, input, acc, summary, output
  <2>3. Left' = Left /\ Replies' = Replies
    BY <2>1, <2>2 DEF Left, Position, Pending, Replies
  <2> QED
    BY <2>1, <2>2, <2>3 DEF Underway
<1> QED
  BY <1>1, <1>2, <1>3, <1>4, <1>5 DEF SessionNext

(* At the end of a call everything was done: nothing is left. *)
LEMMA AllDone ==
  ASSUME SessionInv, Underway, running # "none", phase = "done"
  PROVE  \E done \in Seq(Statements) :
           /\ running = "session" => session.executed = before \o done
           /\ Text(out) = Calculation!Output(done)
           /\ [ran |-> done, reports |-> reports, errors |-> errors] = Calculation!Evaluated(text, policy)
<1>1. EngineOK /\ text \in Seq(Lines) /\ policy \in Policy /\ reports \in Seq(Reports) /\ errors \in Nat
  BY SessionInvParts, SessionConstantsOK DEF EngineOK, IInv, TypeOK, Reports
<1>2. PICK done \in Seq(Statements) :
        /\ running = "session" => session.executed = before \o done
        /\ Text(out) = Calculation!Output(done)
        /\ Calculation!Then([ran |-> done, reports |-> reports, errors |-> errors], Left)
             = Calculation!Evaluated(text, policy)
  BY DEF Underway
<1>3. Left = Calculation!Nothing
  <2>1. CASE quit
    BY <2>1 DEF Left
  <2>2. CASE ~quit
    <3>1. Position = Len(text) /\ Len(text) \in 0..Len(text)
      BY <1>1, <2>2 DEF Position
    <3>2. Calculation!Remaining(text, policy)[Len(text)] = Calculation!Nothing
      BY <1>1, <3>1, RemainingTold DEF RestAt
    <3> QED
      BY <2>2, <3>1, <3>2 DEF Left
  <2> QED
    BY <2>1, <2>2
<1>4. PICK sofar : sofar = [ran |-> done, reports |-> reports, errors |-> errors]
  OBVIOUS
<1>5. sofar \in Told
  BY <1>1, <1>4 DEF Told
<1>6. sofar = Calculation!Evaluated(text, policy)
  BY <1>2, <1>3, <1>4, <1>5, NothingTold
<1> QED
  BY <1>2, <1>4, <1>6

LEMMA ReplyTells ==
  ASSUME SessionInv, Underway, Reply
  PROVE  /\ answer' \in Calculation!AnswersTo(Calculation!Evaluated(text, policy))
         /\ running = "session" =>
              session.executed = before \o Calculation!Evaluated(text, policy).ran
<1>1. /\ running # "none" /\ phase = "done" /\ reply \in Replies /\ front \in {"C", "Wasm"} /\ errors \in Nat
  BY SessionInvParts DEF Reply, Underway, CallOK, EngineOK, IInv, TypeOK
<1>2. PICK done \in Seq(Statements) :
        /\ running = "session" => session.executed = before \o done
        /\ Text(out) = Calculation!Output(done)
        /\ [ran |-> done, reports |-> reports, errors |-> errors] = Calculation!Evaluated(text, policy)
  BY <1>1, AllDone
<1>3. PICK result, shown : result = Calculation!Evaluated(text, policy) /\ shown = Calculation!Output(result.ran)
  OBVIOUS
<1>4. result.ran = done /\ result.reports = reports /\ result.errors = errors /\ Text(out) = shown
  BY <1>2, <1>3, SMTT(30)
<1>5. \/ front = "Wasm" /\ reply.kind = "string"
      \/ front = "C" /\ reply.kind \in {"buffer", "callback"}
  BY <1>1 DEF Replies
<1>6. Text(<<>>) = <<>>
  BY NothingWritten
<1>7. CASE front = "Wasm" /\ reply.kind = "string"
  <2>1. answer' = StringAnswer
    BY <1>7 DEF Reply, Answers
  <2>2. StringAnswer = IF reports # <<>> THEN [status |-> "Ok", out |-> <<>>, err |-> reports]
                       ELSE [status |-> "Ok", out |-> shown, err |-> <<>>]
    BY <1>4, <1>6 DEF StringAnswer, Answer
  <2>3. answer' \in Calculation!AnswersTo(result)
    BY <1>3, <1>4, <1>7, <2>1, <2>2 DEF Calculation!AnswersTo
  <2> QED
    BY <1>2, <1>3, <1>4, <2>3
<1>8. CASE front = "C" /\ reply.kind \in {"buffer", "callback"}
  <2>1. answer' = CallbackAnswer \/ answer' = BufferAnswer(reply.size)
    BY <1>8 DEF Reply, Answers
  <2>2. CallbackAnswer = [status |-> IF errors > 0 THEN "ErrExecution" ELSE "Ok", out |-> shown, err |-> reports]
    BY <1>4 DEF CallbackAnswer, Answer
  <2>3. \/ errors > 0 /\ \E err \in {<<>>, reports} :
             BufferAnswer(reply.size) = [status |-> "ErrExecution", out |-> <<>>, err |-> err]
        \/ errors = 0 /\ BufferAnswer(reply.size) = [status |-> "Ok", out |-> shown, err |-> <<>>]
        \/ errors = 0 /\ BufferAnswer(reply.size) = [status |-> "ErrBufferTooSmall", out |-> <<>>, err |-> <<>>]
    BY <1>1, <1>4, <1>6 DEF BufferAnswer, Answer
  <2>4. CASE errors > 0
    <3>1. \E o \in {<<>>, shown}, err \in {<<>>, reports} :
            answer' = [status |-> "ErrExecution", out |-> o, err |-> err]
      BY <1>1, <2>1, <2>2, <2>3, <2>4
    <3>2. answer' \in Calculation!AnswersTo(result)
      BY <1>3, <1>4, <1>8, <2>4, <3>1 DEF Calculation!AnswersTo
    <3> QED
      BY <1>2, <1>3, <1>4, <3>2
  <2>5. CASE errors = 0
    <3>1. \/ \E err \in {<<>>, reports} : answer' = [status |-> "Ok", out |-> shown, err |-> err]
          \/ answer' = [status |-> "ErrBufferTooSmall", out |-> <<>>, err |-> <<>>]
      BY <1>1, <2>1, <2>2, <2>3, <2>5
    <3>2. answer' \in Calculation!AnswersTo(result)
      BY <1>3, <1>4, <1>8, <2>5, <3>1 DEF Calculation!AnswersTo
    <3> QED
      BY <1>2, <1>3, <1>4, <3>2
  <2> QED
    BY <1>1, <2>4, <2>5
<1> QED
  BY <1>5, <1>7, <1>8

Journal == IF running = "session" THEN before ELSE session.executed

(* Beginning to evaluate a text, cutting and running it are not seen from outside. *)
LEMMA EvaluatingStutters ==
  ASSUME SessionInv, EvalSession \/ EvalOnce \/ Cut \/ Run
  PROVE  UNCHANGED Calculation!vars
<1>1. CallOK /\ KeptOK
  BY SessionInvParts
<1>2. front' = front /\ alive' = alive /\ answer' = answer
  BY DEF EvalSession, EvalOnce, Cut, Run, hosts
<1>3. Journal' = Journal /\ session'.extension_policy = session.extension_policy
  <2>1. CASE EvalSession
    BY <2>1 DEF EvalSession, Idle, machines, Journal
  <2>2. CASE EvalOnce
    BY <2>2 DEF EvalOnce, Idle, Journal
  <2>3. CASE Cut
    BY <2>3 DEF Cut, machines, history, Journal
  <2>4. CASE Run
    <3>1. PICK stmts : stmts = Executed(SubSeq(ran', Len(ran) + 1, Len(ran')))
      OBVIOUS
    <3>2. /\ running' = running /\ before' = before
          /\ session' = IF running = "session" THEN After(session, stmts) ELSE session
      BY <2>4, <3>1 DEF Run, history
    <3>3. After(session, stmts).extension_policy = session.extension_policy
      BY <1>1 DEF KeptOK, Evaluator, After
    <3> QED
      BY <3>2, <3>3 DEF Journal
  <2> QED
    BY <2>1, <2>2, <2>3, <2>4
<1> QED
  BY <1>2, <1>3 DEF Calculation!vars, Journal

LEMMA ReplyRefines ==
  ASSUME SessionInv, Underway, Reply
  PROVE  Calculation!Evaluate \/ Calculation!Calculate
<1>1. /\ running \in {"session", "once"} /\ running' = "none"
      /\ front' = front /\ alive' = alive /\ session' = session
  BY SessionInvParts DEF Reply, CallOK, machines
<1>2. /\ text \in Codes \union {Terminated(code) : code \in Codes}
      /\ running = "session" => alive
      /\ running = "once" => policy = "Allow"
  BY <1>1 DEF Underway
<1>3. running = "session" => policy = session.extension_policy
  BY SessionInvParts DEF KeptOK
<1>4. PICK result : result = Calculation!Evaluated(text, policy)
  OBVIOUS
<1>5. answer' \in Calculation!AnswersTo(result) /\ (running = "session" => session.executed = before \o result.ran)
  BY <1>4, ReplyTells
<1>6. CASE running = "session"
  BY <1>1, <1>2, <1>3, <1>4, <1>5, <1>6 DEF Calculation!Evaluate
<1>7. CASE running = "once"
  BY <1>1, <1>2, <1>4, <1>5, <1>7 DEF Calculation!Calculate
<1> QED
  BY <1>1, <1>6, <1>7

LEMMA CallsRefine ==
  ASSUME SessionInv,
         \/ Create \/ Reset \/ Destroy \/ SetPolicy \/ RefusePolicy \/ SetScale
         \/ RefuseNull \/ RefuseSize \/ RefuseEncoding
  PROVE  Calculation!Next
<1>1. KeptOK /\ CallOK /\ session \in Evaluator
  BY SessionInvParts DEF KeptOK
<1>2. CASE Create \/ Reset \/ Destroy
  <2>1. PICK exists \in BOOLEAN : Renew(exists)
    BY <1>2 DEF Create, Reset, Destroy
  <2>2. running = "none"
    BY <1>2 DEF Create, Reset, Destroy, Idle
  <2>3. Calculation!Begin
    BY <2>1, <2>2 DEF Renew, NewEvaluator, None, Calculation!Begin, Calculation!None
  <2> QED
    BY <2>3 DEF Calculation!Next
<1>3. CASE SetPolicy
  <2>1. PICK value \in Policy : session' = [session EXCEPT !.extension_policy = value]
    BY <1>3 DEF SetPolicy
  <2>2. session'.extension_policy = value /\ session'.executed = session.executed
    BY <1>1, <2>1 DEF Evaluator
  <2>3. /\ running = "none" /\ alive /\ running' = running /\ front' = front /\ alive' = alive
        /\ answer' = [None EXCEPT !.status = "Ok"]
    BY <1>3 DEF SetPolicy, Idle, Answers
  <2>4. Calculation!SetPolicy
    BY <2>2, <2>3 DEF Calculation!SetPolicy, None, Calculation!None
  <2> QED
    BY <2>4 DEF Calculation!Next
<1>4. CASE RefusePolicy
  <2>1. /\ running = "none" /\ alive /\ running' = running /\ front' = front /\ alive' = alive /\ session' = session
        /\ answer' = [None EXCEPT !.status = IF front = "C" THEN "ErrExecution" ELSE "Ok"]
    BY <1>4 DEF RefusePolicy, Refuses, Idle, Answers, machines
  <2>2. CASE front = "C"
    <3>1. Calculation!Refuse
      BY <2>1, <2>2 DEF Calculation!Refuse, None, Calculation!None
    <3> QED
      BY <3>1 DEF Calculation!Next
  <2>3. CASE front # "C"
    <3>1. session.extension_policy \in Policy
      BY <1>1 DEF Evaluator
    <3>2. Calculation!SetPolicy
      BY <2>1, <2>3, <3>1 DEF Calculation!SetPolicy, None, Calculation!None
    <3> QED
      BY <3>2 DEF Calculation!Next
  <2> QED
    BY <2>2, <2>3
<1>5. CASE SetScale
  <2>1. session' = [session EXCEPT !.executed = Append(session.executed, "scale")]
    BY <1>5 DEF SetScale
  <2>2. session'.executed = Append(session.executed, "scale") /\ session'.extension_policy = session.extension_policy
    BY <1>1, <2>1 DEF Evaluator
  <2>3. /\ running = "none" /\ alive /\ running' = running /\ front = "Wasm" /\ front' = front /\ alive' = alive
        /\ answer' = None
    BY <1>5 DEF SetScale, Idle, Answers
  <2>4. Calculation!SetScale
    BY <2>2, <2>3 DEF Calculation!SetScale, None, Calculation!None
  <2> QED
    BY <2>4 DEF Calculation!Next
<1>6. CASE RefuseNull \/ RefuseSize \/ RefuseEncoding
  <2>1. PICK status \in {"ErrNullPtr", "ErrBufferTooSmall", "ErrExecution"} : front = "C" /\ Idle /\ Refuses(status)
    BY <1>6 DEF RefuseNull, RefuseSize, RefuseEncoding
  <2>2. /\ running = "none" /\ running' = running /\ front' = front /\ alive' = alive /\ session' = session
        /\ answer' = [None EXCEPT !.status = status]
    BY <2>1 DEF Refuses, Idle, Answers, machines
  <2>3. Calculation!Refuse
    BY <2>1, <2>2 DEF Calculation!Refuse, None, Calculation!None
  <2> QED
    BY <2>3 DEF Calculation!Next
<1> QED
  BY <1>2, <1>3, <1>4, <1>5, <1>6

LEMMA SessionStepRefines ==
  ASSUME SessionInv, Underway, [SessionNext]_sessionVars
  PROVE  [Calculation!Next]_(Calculation!vars)
<1>1. CASE UNCHANGED sessionVars
  BY <1>1 DEF sessionVars, hosts, machines, history, Calculation!vars
<1>2. CASE SessionNext
  BY <1>2, EvaluatingStutters, ReplyRefines, CallsRefine DEF SessionNext, Calculation!Next
<1> QED
  BY <1>1, <1>2

(* While a text is evaluated, what was done and what is left is what the calculator         *)
(* promises for the whole text (run_source behind bc_session_eval, bc_eval and eval_bc).    *)
THEOREM PromiseKept == SessionSpec => []Underway
<1>1. SessionInit => Underway
  BY DEF SessionInit, Underway
<1>2. SessionInv /\ Underway /\ [SessionNext]_sessionVars => Underway'
  BY UnderwayNext
<1> QED
  BY <1>1, <1>2, SessionInductive, PTL DEF SessionSpec

(* Every call of the C API and of the Web session is all or nothing: it evaluates its whole *)
(* text and tells how that ended, or changes nothing, whatever the texts, the statements,   *)
(* the sizes of buffers and the order of the calls (bc_c_api lib.rs, wasm lib.rs).          *)
THEOREM SessionRefinement == SessionSpec => ImplementsCalculator
<1>1. SessionInit => Calculation!Init
  BY DEF SessionInit, NewEvaluator, None, Calculation!Init, Calculation!None
<1>2. SessionInv /\ Underway /\ [SessionNext]_sessionVars => [Calculation!Next]_(Calculation!vars)
  BY SessionStepRefines
<1> QED
  BY <1>1, <1>2, SessionInductive, PromiseKept, PTL DEF SessionSpec, ImplementsCalculator, Calculation!Spec
=============================================================================
