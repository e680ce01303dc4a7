--------------------------- MODULE InputText_proofs ---------------------------
(***************************************************************************)
(* Proofs about InputText: what the scanner and the parser compute from    *)
(* any sequence of lines, by induction over it.                            *)
(*                                                                         *)
(* The folds of the model are over sequences of any length.  An induction  *)
(* is written with a set of numbers in place of a predicate, so that its   *)
(* principle needs no parameter but sets (Least, Induction).               *)
(***************************************************************************)
EXTENDS InputText, SequenceTheorems, WellFoundedInduction, TLAPS

(* Induction and folds *)

LEMMA Least ==
  ASSUME NEW S \in SUBSET Nat, S # {}
  PROVE  \E n \in S : \A m \in S : n <= m
<1> DEFINE R == OpToRel(<, Nat)
<1>1. IsWellFoundedOn(R, Nat)
  BY NatLessThanWellFounded
<1>2. PICK n \in S : \A m \in S : ~ (<<m, n>> \in R)
  <2> HIDE DEF R
  <2> QED
    BY <1>1, WFMin
<1>3. \A m \in S : ~(m < n)
  BY <1>2 DEF R, OpToRel
<1> QED
  BY <1>3

LEMMA Induction ==
  ASSUME NEW S, 0 \in S, \A n \in Nat : n \in S => n + 1 \in S
  PROVE  Nat \subseteq S
<1> SUFFICES ASSUME ~(Nat \subseteq S) PROVE FALSE
  OBVIOUS
<1> DEFINE T == {n \in Nat : n \notin S}
<1>1. PICK n \in T : \A m \in T : n <= m
  <2>1. T \in SUBSET Nat /\ T # {}
    OBVIOUS
  <2> HIDE DEF T
  <2> QED
    BY <2>1, Least
<1>2. n # 0 /\ n \in Nat /\ n - 1 \in Nat
  BY <1>1
<1>3. n - 1 \in S
  BY <1>1, <1>2
<1> QED
  BY <1>1, <1>2, <1>3

(* The greatest number of a set whose numbers go up to n. *)
LEMMA GreatestIs ==
  ASSUME NEW n \in Nat, NEW S \in SUBSET (1..n), n \in S
  PROVE  Max(S) = n
<1>1. \A y \in S : n >= y
  OBVIOUS
<1>2. ASSUME NEW x \in S, \A y \in S : x >= y
      PROVE  x = n
  <2>1. x >= n /\ n >= x /\ x \in Int
    BY <1>1, <1>2
  <2> QED
    BY <2>1
<1> QED
  BY <1>1, <1>2 DEF Max

LEMMA GreatestExists ==
  ASSUME NEW n \in Nat, NEW S \in SUBSET (1..n), S # {}
  PROVE  Max(S) \in S
<1> DEFINE T == {k \in Nat : n - k \in S}
<1>1. T # {}
  <2>1. PICK x \in S : TRUE
    OBVIOUS
  <2>2. n - x \in Nat /\ n - (n - x) = x
    BY <2>1
  <2> QED
    BY <2>2
<1>2. PICK k \in T : \A j \in T : k <= j
  <2>1. T \in SUBSET Nat
    OBVIOUS
  <2> HIDE DEF T
  <2> QED
    BY <1>1, <2>1, Least
<1>3. ASSUME NEW y \in S
      PROVE  n - k >= y
  <2>1. n - y \in Nat /\ n - (n - y) = y
    BY <1>3
  <2>2. n - y \in T
    BY <2>1
  <2>3. k <= n - y /\ k \in Nat /\ y \in Nat
    BY <1>2, <1>3, <2>2
  <2> QED
    BY <2>3
<1>4. n - k \in S
  BY <1>2
<1> QED
  BY <1>3, <1>4 DEF Max

LEMMA PrefixSets ==
  ASSUME NEW n \in Nat, NEW m \in 1..n
  PROVE  /\ 1..m \in SUBSET (1..n) /\ 1..m # {} /\ (1..m) \ {m} = 1..(m - 1)
         /\ Max(1..m) = m
<1>1. 1..m \in SUBSET (1..n) /\ m \in 1..m /\ (1..m) \ {m} = 1..(m - 1)
  OBVIOUS
<1>2. m \in Nat /\ 1..m \in SUBSET (1..m)
  OBVIOUS
<1>3. Max(1..m) = m
  BY <1>1, <1>2, GreatestIs
<1> QED
  BY <1>1, <1>3

(* The function over which FoldLeft folds a sequence of length n from b. *)
Folds(f, n, b, step) ==
  \A S \in SUBSET (1..n) : f[S] = IF S = {} THEN b ELSE step[Max(S), f[S \ {Max(S)}]]

HasFold(n, D, b, step) == \E f \in [SUBSET (1..n) -> D] : Folds(f, n, b, step)

LEMMA FoldDefined ==
  ASSUME NEW D, NEW b \in D, NEW N \in Nat, NEW step \in [(1..N) \X D -> D]
  PROVE  \E f \in [SUBSET (1..N) -> D] : Folds(f, N, b, step)
<1> DEFINE I == {n \in Nat : n <= N => HasFold(n, D, b, step)}
<1>1. 0 \in I
  <2> DEFINE f == [S \in SUBSET (1..0) |-> b]
  <2>1. 1..0 = {}
    OBVIOUS
  <2>2. Folds(f, 0, b, step)
    BY <2>1 DEF Folds
  <2>3. f \in [SUBSET (1..0) -> D]
    OBVIOUS
  <2> QED
    BY <2>2, <2>3 DEF HasFold
<1>2. ASSUME NEW n \in Nat, n \in I, n + 1 <= N
      PROVE  HasFold(n + 1, D, b, step)
  <2>0. n <= N /\ n + 1 \in 1..N
    BY <1>2
  <2>1. PICK f \in [SUBSET (1..n) -> D] : Folds(f, n, b, step)
    BY <1>2, <2>0 DEF HasFold
  <2> DEFINE g == [S \in SUBSET (1..(n + 1)) |-> IF n + 1 \in S THEN step[n + 1, f[S \ {n + 1}]] ELSE f[S]]
  <2>2. ASSUME NEW S \in SUBSET (1..(n + 1))
        PROVE  /\ g[S] \in D
               /\ g[S] = IF S = {} THEN b ELSE step[Max(S), g[S \ {Max(S)}]]
    <3>1. CASE n + 1 \in S
      <4>1. Max(S) = n + 1
        BY <3>1, GreatestIs
      <4>2. S \ {n + 1} \in SUBSET (1..n) /\ n + 1 \notin S \ {n + 1}
        <5>1. \A x \in 1..(n + 1) : x # n + 1 => x \in 1..n
          OBVIOUS
        <5> QED
          BY <5>1
      <4>3. g[S \ {n + 1}] = f[S \ {n + 1}] /\ f[S \ {n + 1}] \in D
        BY <4>2
      <4>4. g[S] = step[n + 1, f[S \ {n + 1}]]
        BY <3>1
      <4>5. <<n + 1, f[S \ {n + 1}]>> \in (1..N) \X D
        BY <2>0, <4>3
      <4> HIDE DEF g
      <4> QED
        BY <3>1, <4>1, <4>3, <4>4, <4>5
    <3>2. CASE n + 1 \notin S
      <4>1. S \in SUBSET (1..n)
        <5>1. \A x \in 1..(n + 1) : x # n + 1 => x \in 1..n
          OBVIOUS
        <5> QED
          BY <3>2, <5>1
      <4>2. g[S] = f[S] /\ f[S] \in D
        BY <3>2, <4>1
      <4>3. f[S] = IF S = {} THEN b ELSE step[Max(S), f[S \ {Max(S)}]]
        BY <2>1, <4>1 DEF Folds
      <4>4. S \ {Max(S)} \in SUBSET (1..n) /\ n + 1 \notin S \ {Max(S)} /\ S \ {Max(S)} \in SUBSET (1..(n + 1))
        BY <4>1, <3>2
      <4>5. g[S \ {Max(S)}] = f[S \ {Max(S)}]
        BY <4>4
      <4> HIDE DEF g
      <4> QED
        BY <4>2, <4>3, <4>5
    <3> QED
      BY <3>1, <3>2
  <2>3. g = [S \in SUBSET (1..(n + 1)) |-> g[S]]
    OBVIOUS
  <2> HIDE DEF g
  <2>4. g \in [SUBSET (1..(n + 1)) -> D]
    BY <2>2, <2>3
  <2>5. Folds(g, n + 1, b, step)
    BY <2>2 DEF Folds
  <2> QED
    BY <2>4, <2>5 DEF HasFold
<1>3. Nat \subseteq I
  <2>1. ASSUME NEW n \in Nat, n \in I
        PROVE  n + 1 \in I
    <3> HIDE DEF I
    <3>1. n + 1 <= N => HasFold(n + 1, D, b, step)
      BY <1>2, <2>1
    <3> QED
      BY <3>1 DEF I
  <2> HIDE DEF I
  <2> QED
    BY <1>1, <2>1, Induction
<1>4. N \in I
  <2> HIDE DEF I
  <2> QED
    BY <1>3
<1>5. HasFold(N, D, b, step)
  BY <1>4
<1> QED
  BY <1>5 DEF HasFold

(* Every state of a fold follows from the one before. *)
Steps(f, n, b, step) ==
  /\ f[1..0] = b
  /\ \A m \in 1..n : f[1..m] = step[m, f[1..(m - 1)]]

LEMMA FoldSteps ==
  ASSUME NEW n \in Nat, NEW f, NEW b, NEW step, Folds(f, n, b, step)
  PROVE  Steps(f, n, b, step)
<1>1. 1..0 = {} /\ {} \in SUBSET (1..n)
  OBVIOUS
<1>2. ASSUME NEW m \in 1..n
      PROVE  f[1..m] = step[m, f[1..(m - 1)]]
  BY <1>2, PrefixSets DEF Folds
<1> QED
  BY <1>1, <1>2 DEF Folds, Steps

(* What FlattenSeq computes. *)
LEMMA FlattenSteps ==
  ASSUME NEW S, NEW seqs \in Seq(Seq(S)), seqs # <<>>
  PROVE  \E h \in [1..Len(seqs) -> Seq(S)] :
           /\ h[1] = seqs[1]
           /\ \A i \in 1..(Len(seqs) - 1) : h[i + 1] = h[i] \o seqs[i + 1]
           /\ FlattenSeq(seqs) = h[Len(seqs)]
<1> DEFINE N == Len(seqs)
           D == Seq(S)
           step == [z \in (1..N) \X D |-> IF z[1] = 1 THEN seqs[1] ELSE z[2] \o seqs[z[1]]]
           Flattens(h) == h = [i \in 1..N |-> IF i = 1 THEN seqs[i] ELSE h[i - 1] \o seqs[i]]
<1>1. N \in Nat /\ 1 \in 1..N /\ N \in 1..N /\ N # 0 /\ \A i \in 1..N : seqs[i] \in D
  OBVIOUS
<1>2. step \in [(1..N) \X D -> D]
  <2>1. ASSUME NEW z \in (1..N) \X D
        PROVE  (IF z[1] = 1 THEN seqs[1] ELSE z[2] \o seqs[z[1]]) \in D
    <3>1. z[1] \in 1..N /\ z[2] \in D /\ seqs[z[1]] \in D /\ seqs[1] \in D
      BY <1>1, <2>1
    <3>2. z[2] \o seqs[z[1]] \in D
      BY <3>1
    <3> QED
      BY <3>1, <3>2
  <2> QED
    BY <2>1
<1>3. PICK f \in [SUBSET (1..N) -> D] : Folds(f, N, <<>>, step)
  <2>1. <<>> \in D
    OBVIOUS
  <2> HIDE DEF step, D, N
  <2> QED
    BY <1>1, <1>2, <2>1, FoldDefined
<1>9. \A m \in 1..N : f[1..m] = step[m, f[1..(m - 1)]]
  <2>1. Steps(f, N, <<>>, step)
    <3> HIDE DEF step, D, N
    <3> QED
      BY <1>1, <1>3, FoldSteps
  <2> HIDE DEF step, D, N
  <2> QED
    BY <2>1 DEF Steps
<1> DEFINE h == [i \in 1..N |-> f[1..i]]
<1>4. Flattens(h)
  <2>1. \A m \in 1..N : f[1..m] = step[m, f[1..(m - 1)]] /\ f[1..m] \in D /\ f[1..(m - 1)] \in D
    <3>2. \A m \in 1..N : 1..m \in SUBSET (1..N) /\ 1..(m - 1) \in SUBSET (1..N)
      OBVIOUS
    <3> HIDE DEF step, D, N
    <3> QED
      BY <1>3, <1>9, <3>2
  <2>2. ASSUME NEW i \in 1..N
        PROVE  f[1..i] = IF i = 1 THEN seqs[i] ELSE h[i - 1] \o seqs[i]
    <3>1. f[1..i] = IF i = 1 THEN seqs[1] ELSE f[1..(i - 1)] \o seqs[i]
      BY <2>1, <2>2
    <3>2. i # 1 => h[i - 1] = f[1..(i - 1)]
      BY <1>1, <2>2
    <3> QED
      BY <3>1, <3>2
  <2> QED
    BY <2>2
<1>5. PICK g : Flattens(g) /\ FlattenSeq(seqs) = g[N]
  <2>1. FlattenSeq(seqs) = (CHOOSE g : Flattens(g))[N]
    BY <1>1 DEF FlattenSeq
  <2>2. Flattens(CHOOSE g : Flattens(g))
    BY <1>4
  <2> QED
    BY <2>1, <2>2
<1>6. /\ g[1] = seqs[1]
      /\ \A i \in 1..(N - 1) : g[i + 1] = g[i] \o seqs[i + 1]
  <2>1. \A i \in 1..N : g[i] = IF i = 1 THEN seqs[i] ELSE g[i - 1] \o seqs[i]
    BY <1>5
  <2>2. g[1] = seqs[1]
    BY <1>1, <2>1
  <2>3. ASSUME NEW i \in 1..(N - 1)
        PROVE  g[i + 1] = g[i] \o seqs[i + 1]
    <3>1. i + 1 \in 1..N /\ i + 1 # 1 /\ (i + 1) - 1 = i
      BY <1>1, <2>3
    <3> QED
      BY <2>1, <3>1
  <2> QED
    BY <2>2, <2>3
<1>7. \A i \in 1..N : g[i] \in D
  <2> DEFINE I == {i \in Nat : i + 1 \in 1..N => g[i + 1] \in D}
  <2>1. 0 \in I
    BY <1>1, <1>6
  <2>2. ASSUME NEW i \in Nat, i \in I
        PROVE  i + 1 \in I
    <3>1. ASSUME i + 2 \in 1..N
          PROVE  g[i + 2] \in D
      <4>1. i + 1 \in 1..(N - 1) /\ g[i + 1] \in D /\ seqs[i + 2] \in D
        BY <1>1, <2>2, <3>1
      <4>2. g[i + 2] = g[i + 1] \o seqs[i + 2]
        <5>1. (i + 1) + 1 = i + 2
          OBVIOUS
        <5> QED
          BY <1>6, <4>1, <5>1
      <4> QED
        BY <4>1, <4>2
    <3> QED
      BY <3>1
  <2>3. Nat \subseteq I
    <3> HIDE DEF I
    <3> QED
      BY <2>1, <2>2, Induction
  <2>4. ASSUME NEW i \in 1..N
        PROVE  g[i] \in D
    <3>1. i - 1 \in I /\ (i - 1) + 1 = i
      BY SMTT(30), <1>1, <2>3, <2>4
    <3> QED
      BY <3>1
  <2> QED
    BY <2>4
<1>8. g \in [1..N -> D]
  <2>1. g = [i \in 1..N |-> g[i]]
    BY <1>5
  <2> QED
    BY <1>7, <2>1
<1> QED
  BY <1>5, <1>6, <1>8

LEMMA SegmentAppend ==
  ASSUME NEW S, NEW s \in Seq(S), NEW i \in Nat, NEW k \in Nat, i <= k, k < Len(s)
  PROVE  SubSeq(s, i + 1, k + 1) = Append(SubSeq(s, i + 1, k), s[k + 1])
<1>1. i + 1 \in 1..Len(s) /\ k + 1 \in (i + 1)..Len(s) /\ (k + 1) - 1 = k /\ s[k + 1] \in S
  OBVIOUS
<1>2. SubSeq(s, i + 1, k + 1) = SubSeq(s, i + 1, k) \o << s[k + 1] >>
  BY <1>1, SubSeqRecursiveSecond
<1>3. \A j \in (i + 1)..k : s[j] \in S
  OBVIOUS
<1>4. SubSeq(s, i + 1, k) \in Seq(S)
  BY <1>3, SubSeqProperties
<1> QED
  BY <1>1, <1>2, <1>4, AppendIsConcat

LEMMA SegmentTyped ==
  ASSUME NEW S, NEW s \in Seq(S), NEW i \in Nat, NEW k \in Nat, i <= k, k <= Len(s)
  PROVE  SubSeq(s, i + 1, k) \in Seq(S) /\ Len(SubSeq(s, i + 1, k)) = k - i
<1>1. \A j \in (i + 1)..k : s[j] \in S
  OBVIOUS
<1> QED
  BY <1>1, SubSeqProperties

LEMMA ConcatEntries ==
  ASSUME NEW S, NEW s \in Seq(S), NEW t \in Seq(S)
  PROVE  /\ s \o t \in Seq(S)
         /\ \A i \in DOMAIN (s \o t) : \/ i \in DOMAIN s /\ (s \o t)[i] = s[i]
                                    \/ \E j \in DOMAIN t : (s \o t)[i] = t[j]
<1>1. /\ s \o t \in Seq(S) /\ Len(s \o t) = Len(s) + Len(t)
      /\ \A i \in 1..(Len(s) + Len(t)) : (s \o t)[i] = IF i <= Len(s) THEN s[i] ELSE t[i - Len(s)]
      /\ Len(s) \in Nat /\ Len(t) \in Nat
      /\ DOMAIN s = 1..Len(s) /\ DOMAIN t = 1..Len(t) /\ DOMAIN (s \o t) = 1..(Len(s) + Len(t))
  BY ConcatProperties
<1>2. ASSUME NEW i \in 1..(Len(s) + Len(t))
      PROVE  \/ i \in DOMAIN s /\ (s \o t)[i] = s[i]
             \/ \E j \in DOMAIN t : (s \o t)[i] = t[j]
  <2>1. CASE i <= Len(s)
    BY <1>1, <2>1
  <2>2. CASE ~(i <= Len(s))
    <3>1. i - Len(s) \in 1..Len(t)
      BY <1>1, <2>2
    <3> QED
      BY <1>1, <2>2, <3>1
  <2> QED
    BY <2>1, <2>2
<1> QED
  BY <1>1, <1>2
-----------------------------------------------------------------------------
(* The tokens of a text and what the parser makes of them *)

SourceLine == [items : Seq(Item), end : LineEnd]
Tokens     == [item : Item, line : Nat, column : Nat, next : Nat]

\* the tokens that stand where they say they do
TokensOf(lines) ==
  {t \in Tokens : /\ t.line \in 1..Len(lines) /\ t.column \in 1..Len(lines[t.line].items)
                  /\ t.item = lines[t.line].items[t.column]}

ParserStates(S) ==
  [mode : {"code", "comment", "string"}, depth : Int, verdict : {"ok", "syntax", "quit"},
   at : Nat, uses : Seq(Nat), stmts : Seq(S)]

LEMMA FlattenTyped ==
  ASSUME NEW S, NEW seqs \in Seq(Seq(S))
  PROVE  FlattenSeq(seqs) \in Seq(S)
<1>1. CASE seqs = <<>>
  <2>1. FlattenSeq(seqs) = <<>>
    BY <1>1 DEF FlattenSeq
  <2> QED
    BY <2>1
<1>2. CASE seqs # <<>>
  <2>1. PICK h \in [1..Len(seqs) -> Seq(S)] : FlattenSeq(seqs) = h[Len(seqs)]
    BY <1>2, FlattenSteps
  <2>2. Len(seqs) \in 1..Len(seqs)
    BY <1>2
  <2> QED
    BY <2>1, <2>2
<1> QED
  BY <1>1, <1>2

LEMMA TokensPlaced ==
  ASSUME NEW lines \in Seq(SourceLine)
  PROVE  Token(lines) \in Seq(TokensOf(lines))
<1> DEFINE tok(i, j) == [item |-> lines[i].items[j], line |-> i, column |-> j,
                         next |-> IF j = Len(lines[i].items) /\ lines[i].end # "none" THEN i + 1 ELSE i]
           row(i) == [j \in DOMAIN lines[i].items |-> tok(i, j)]
           rows == [i \in DOMAIN lines |-> row(i)]
<1>1. ASSUME NEW i \in DOMAIN lines
      PROVE  row(i) \in Seq(TokensOf(lines))
  <2>3. i \in 1..Len(lines) /\ i \in Nat /\ i + 1 \in Nat /\ lines[i] \in SourceLine
    BY <1>1
  <2>4. lines[i].items \in Seq(Item)
    BY <2>3 DEF SourceLine
  <2>1. /\ i \in 1..Len(lines) /\ i \in Nat /\ i + 1 \in Nat
        /\ lines[i].items \in Seq(Item) /\ DOMAIN lines[i].items = 1..Len(lines[i].items)
        /\ Len(lines[i].items) \in Nat
    BY <2>3, <2>4
  <2>2. ASSUME NEW j \in 1..Len(lines[i].items)
        PROVE  tok(i, j) \in TokensOf(lines)
    <3>1. lines[i].items[j] \in Item /\ j \in Nat
      BY <2>1, <2>2
    <3>2. tok(i, j) \in Tokens
      BY <2>1, <3>1 DEF Tokens
    <3> QED
      BY <2>1, <2>2, <3>2 DEF TokensOf
  <2> QED
    BY <2>1, <2>2
<1>2. rows \in Seq(Seq(TokensOf(lines)))
  <2> HIDE DEF row
  <2> QED
    BY <1>1
<1>3. Token(lines) = FlattenSeq(rows)
  BY DEF Token
<1> QED
  BY <1>2, <1>3, FlattenTyped

LEMMA ParseTyped ==
  ASSUME NEW S \in SUBSET Tokens, NEW p \in ParserStates(S), NEW t \in S
  PROVE  ParseToken(p, t) \in ParserStates(S)
<1>1. /\ p.mode \in {"code", "comment", "string"} /\ p.depth \in Int
      /\ p.at \in Nat /\ p.uses \in Seq(Nat) /\ p.stmts \in Seq(S)
      /\ t.item \in Item /\ t.line \in Nat /\ t.next \in Nat
  BY DEF ParserStates, Tokens
<1>2. LexMode(p.mode, t.item) \in {"code", "comment", "string"}
  BY <1>1 DEF LexMode
<1>3. Append(p.uses, t.next) \in Seq(Nat) /\ Append(p.stmts, t) \in Seq(S)
  BY <1>1
<1>4. p.depth + 1 \in Int /\ p.depth - 1 \in Int
  BY <1>1
<1> QED
  BY <1>1, <1>2, <1>3, <1>4 DEF ParseToken, ParserStates

\* the states g of the parser on the tokens s, from the state p on
ParserRun(g, p, s) ==
  /\ g[0] = p
  /\ \A m \in 1..Len(s) : g[m] = ParseToken(g[m - 1], s[m])

LEMMA ParserRuns ==
  ASSUME NEW S \in SUBSET Tokens, NEW p \in ParserStates(S), NEW s \in Seq(S)
  PROVE  \E g \in [0..Len(s) -> ParserStates(S)] :
           ParserRun(g, p, s) /\ FoldLeft(ParseToken, p, s) = g[Len(s)]
<1> DEFINE N == Len(s)
           D == ParserStates(S)
           step == [z \in (1..N) \X D |-> ParseToken(z[2], s[z[1]])]
           Folded(f) == f = [T \in SUBSET (1..N) |-> IF T = {} THEN p
                                                     ELSE ParseToken(f[T \ {Max(T)}], s[Max(T)])]
<1>1. N \in Nat /\ DOMAIN s = 1..N /\ \A i \in 1..N : s[i] \in S
  OBVIOUS
<1>2. p \in D
  OBVIOUS
<1>3. step \in [(1..N) \X D -> D]
  <2>1. ASSUME NEW z \in (1..N) \X D
        PROVE  ParseToken(z[2], s[z[1]]) \in D
    <3>1. z[2] \in D /\ s[z[1]] \in S
      BY <1>1, <2>1
    <3> QED
      BY <3>1, ParseTyped
  <2> QED
    BY <2>1
<1>4. PICK f \in [SUBSET (1..N) -> D] : Folds(f, N, p, step)
  <2> HIDE DEF step, D, N
  <2> QED
    BY <1>1, <1>2, <1>3, FoldDefined
<1>5. Folded(f)
  <2>1. ASSUME NEW T \in SUBSET (1..N)
        PROVE  f[T] = IF T = {} THEN p ELSE ParseToken(f[T \ {Max(T)}], s[Max(T)])
    <3>1. f[T] = IF T = {} THEN p ELSE step[Max(T), f[T \ {Max(T)}]]
      BY <1>4 DEF Folds
    <3>2. T # {} => Max(T) \in 1..N
      BY <1>1, GreatestExists
    <3>3. f[T \ {Max(T)}] \in D
      BY <1>4
    <3> HIDE DEF N, D
    <3>4. T # {} => step[Max(T), f[T \ {Max(T)}]] = ParseToken(f[T \ {Max(T)}], s[Max(T)])
      BY <3>2, <3>3
    <3> QED
      BY <3>1, <3>4
  <2> HIDE DEF step
  <2> QED
    BY <1>4, <2>1
<1>6. PICK q : Folded(q) /\ FoldLeft(ParseToken, p, s) = q[1..N]
  <2>1. FoldLeft(ParseToken, p, s) = (CHOOSE q : Folded(q))[1..N]
    BY <1>1 DEF FoldLeft, MapThenFoldSet
  <2>2. Folded(CHOOSE q : Folded(q))
    BY <1>5
  <2> HIDE DEF Folded
  <2> QED
    BY <2>1, <2>2
<1>7. /\ q[1..0] = p
      /\ \A m \in 1..N : q[1..m] = ParseToken(q[1..(m - 1)], s[m])
  <2>1. 1..0 = {} /\ {} \in SUBSET (1..N)
    OBVIOUS
  <2>2. ASSUME NEW m \in 1..N
        PROVE  q[1..m] = ParseToken(q[1..(m - 1)], s[m])
    <3>1. 1..m \in SUBSET (1..N) /\ 1..m # {} /\ (1..m) \ {m} = 1..(m - 1) /\ Max(1..m) = m
      <4> HIDE DEF N
      <4> QED
        BY <1>1, <2>2, PrefixSets
    <3> QED
      BY <1>6, <3>1
  <2> QED
    BY <1>6, <2>1, <2>2
<1> DEFINE I == {m \in Nat : m <= N => q[1..m] \in D}
<1>8. Nat \subseteq I
  <2>1. 0 \in I
    BY <1>2, <1>7
  <2>2. ASSUME NEW m \in Nat, m \in I
        PROVE  m + 1 \in I
    <3>1. ASSUME m + 1 <= N
          PROVE  q[1..(m + 1)] \in D
      <4>1. m + 1 \in 1..N /\ (m + 1) - 1 = m /\ s[m + 1] \in S /\ q[1..m] \in D
        BY <1>1, <2>2, <3>1
      <4>2. q[1..(m + 1)] = ParseToken(q[1..m], s[m + 1])
        BY <1>7, <4>1
      <4> QED
        BY <4>1, <4>2, ParseTyped
    <3> QED
      BY <3>1
  <2> HIDE DEF I
  <2> QED
    BY <2>1, <2>2, Induction
<1> DEFINE g == [m \in 0..N |-> q[1..m]]
<1>9. g \in [0..N -> D]
  <2>1. \A m \in 0..N : q[1..m] \in D
    BY <1>1, <1>8
  <2> QED
    BY <2>1
<1>10. ParserRun(g, p, s)
  <2>1. g[0] = p
    BY <1>1, <1>7
  <2>2. ASSUME NEW m \in 1..Len(s)
        PROVE  g[m] = ParseToken(g[m - 1], s[m])
    <3>1. m \in 0..N /\ m - 1 \in 0..N
      BY <1>1, <2>2
    <3> QED
      BY <1>7, <2>2, <3>1
  <2> HIDE DEF g
  <2> QED
    BY <2>1, <2>2 DEF ParserRun
<1>11. FoldLeft(ParseToken, p, s) = g[N]
  BY <1>1, <1>6
<1> HIDE DEF g, D
<1> QED
  BY <1>9, <1>10, <1>11

(* The uses of extensions are noted as long as parsing goes on. *)
NotesUses(p) ==
  \A j \in DOMAIN p.stmts : p.stmts[j].item \in Statements /\ (p.uses = <<>> => p.stmts[j].item # "ext")

LEMMA ParseNotesUses ==
  ASSUME NEW S \in SUBSET Tokens, NEW p \in ParserStates(S), NEW t \in S, NotesUses(p)
  PROVE  NotesUses(ParseToken(p, t))
<1>1. p.uses \in Seq(Nat) /\ p.stmts \in Seq(S) /\ t.next \in Nat /\ t.item \in Item
  BY DEF ParserStates, Tokens
<1>2. CASE p.verdict # "ok"
  BY <1>2 DEF ParseToken
<1>3. CASE p.verdict = "ok"
  <2> DEFINE item == IF p.mode = "code" THEN t.item ELSE "text"
             q == ParseToken(p, t)
  <2>1. /\ q.uses = IF item = "ext" THEN Append(p.uses, t.next) ELSE p.uses
        /\ q.stmts = IF item \in Statements THEN Append(p.stmts, t) ELSE p.stmts
    BY <1>3 DEF ParseToken
  <2>2. Append(p.uses, t.next) # <<>>
    BY <1>1, SMTT(30)
  <2>4. CASE item \notin Statements
    <3>1. item # "ext"
      BY <2>4 DEF Statements
    <3> QED
      BY <2>1, <2>4, <3>1 DEF NotesUses
  <2>5. CASE item \in Statements
    <3>1. t.item = item
      BY <2>5 DEF Statements
    <3>2. /\ DOMAIN Append(p.stmts, t) = 1..(Len(p.stmts) + 1) /\ DOMAIN p.stmts = 1..Len(p.stmts)
          /\ \A j \in 1..Len(p.stmts) : Append(p.stmts, t)[j] = p.stmts[j]
          /\ Append(p.stmts, t)[Len(p.stmts) + 1] = t
          /\ Len(p.stmts) \in Nat
      BY <1>1, AppendProperties
    <3>3. \A j \in DOMAIN Append(p.stmts, t) :
            /\ Append(p.stmts, t)[j].item \in Statements
            /\ p.uses = <<>> /\ item # "ext" => Append(p.stmts, t)[j].item # "ext"
      BY <2>5, <3>1, <3>2 DEF NotesUses
    <3>4. q.stmts = Append(p.stmts, t) /\ (q.uses = <<>> => p.uses = <<>> /\ item # "ext")
      BY <2>1, <2>2, <2>5
    <3> QED
      BY <3>3, <3>4 DEF NotesUses
  <2> QED
    BY <2>4, <2>5
<1> QED
  BY <1>2, <1>3

LEMMA ParsedTyped ==
  ASSUME NEW lines \in Seq(SourceLine), NEW S \in SUBSET Tokens, Token(lines) \in Seq(S)
  PROVE  /\ Parsed(lines) \in ParserStates(S)
         /\ NotesUses(Parsed(lines))
<1> DEFINE s == Token(lines)
           p == FoldLeft(ParseToken, Parser, s)
<1>1. s \in Seq(S) /\ Len(s) \in Nat /\ \A m \in 1..Len(s) : s[m] \in S
  OBVIOUS
<1> HIDE DEF s
<1>2. PICK g \in [0..Len(s) -> ParserStates(S)] : ParserRun(g, Parser, s) /\ p = g[Len(s)]
  <2>1. Parser \in ParserStates(S)
    BY DEF ParserStates, Parser
  <2> QED
    BY <1>1, <2>1, ParserRuns
<1> DEFINE I == {m \in Nat : m <= Len(s) => NotesUses(g[m])}
<1>3. Nat \subseteq I
  <2>1. 0 \in I
    <3>1. NotesUses(Parser)
      BY DEF NotesUses, Parser
    <3> QED
      BY <1>1, <1>2, <3>1 DEF ParserRun
  <2>2. ASSUME NEW m \in Nat, m \in I
        PROVE  m + 1 \in I
    <3>1. ASSUME m + 1 <= Len(s)
          PROVE  NotesUses(g[m + 1])
      <4>1. m + 1 \in 1..Len(s) /\ (m + 1) - 1 = m /\ m \in 0..Len(s) /\ NotesUses(g[m])
        BY <1>1, <2>2, <3>1
      <4>2. g[m + 1] = ParseToken(g[m], s[m + 1]) /\ g[m] \in ParserStates(S) /\ s[m + 1] \in S
        BY <1>1, <1>2, <4>1 DEF ParserRun
      <4> QED
        BY <4>1, <4>2, ParseNotesUses
    <3> QED
      BY <3>1
  <2> HIDE DEF I
  <2> QED
    BY <2>1, <2>2, Induction
<1>4. p \in ParserStates(S) /\ NotesUses(p)
  BY <1>1, <1>2, <1>3
<1>5. EndLine(lines) \in Nat
  BY DEF EndLine
<1>6. Parsed(lines) = p \/ Parsed(lines) = [p EXCEPT !.verdict = "syntax", !.at = EndLine(lines)]
  BY DEF Parsed, s
<1> HIDE DEF p
<1>7. ASSUME Parsed(lines) = [p EXCEPT !.verdict = "syntax", !.at = EndLine(lines)]
      PROVE  /\ Parsed(lines) \in ParserStates(S)
             /\ NotesUses(Parsed(lines))
  <2>1. Parsed(lines) \in ParserStates(S)
    BY <1>4, <1>5, <1>7 DEF ParserStates
  <2>2. Parsed(lines).uses = p.uses /\ Parsed(lines).stmts = p.stmts
    BY <1>4, <1>7 DEF ParserStates
  <2> QED
    BY <1>4, <2>1, <2>2 DEF NotesUses
<1> QED
  BY <1>4, <1>6, <1>7
-----------------------------------------------------------------------------
(* What the block scanner computes *)

ScannerStates == [depth : Int, comment : BOOLEAN, string : BOOLEAN]

LEMMA ScanItemTyped ==
  ASSUME NEW s \in ScannerStates, NEW item \in Item
  PROVE  ScanItem(s, item) \in ScannerStates
<1>1. s.depth \in Int
  BY DEF ScannerStates
<1> DEFINE code == ~s.comment /\ ~s.string
           d == s.depth + (IF code /\ item = "open" THEN 1 ELSE 0)
                        - (IF code /\ item = "close" THEN 1 ELSE 0)
<1>2. d \in Int
  BY <1>1
<1> HIDE DEF d
<1>3. ScanItem(s, item) =
        [depth |-> d, comment |-> (s.comment /\ item # "uncomment") \/ (code /\ item = "comment"),
         string |-> (s.string /\ item # "quote") \/ (code /\ item = "quote")]
  BY DEF ScanItem, d
<1> QED
  BY <1>2, <1>3 DEF ScannerStates

\* the states g of the scanner on a line's items
ItemRun(g, p, s) ==
  /\ g[0] = p
  /\ \A m \in 1..Len(s) : g[m] = ScanItem(g[m - 1], s[m])

LEMMA ItemRuns ==
  ASSUME NEW p \in ScannerStates, NEW s \in Seq(Item)
  PROVE  \E g \in [0..Len(s) -> ScannerStates] :
           ItemRun(g, p, s) /\ FoldLeft(ScanItem, p, s) = g[Len(s)]
<1> DEFINE N == Len(s)
           D == ScannerStates
           step == [z \in (1..N) \X D |-> ScanItem(z[2], s[z[1]])]
           Folded(f) == f = [T \in SUBSET (1..N) |-> IF T = {} THEN p
                                                     ELSE ScanItem(f[T \ {Max(T)}], s[Max(T)])]
<1>1. N \in Nat /\ DOMAIN s = 1..N /\ \A i \in 1..N : s[i] \in Item
  OBVIOUS
<1>2. p \in D
  OBVIOUS
<1>3. step \in [(1..N) \X D -> D]
  <2>1. ASSUME NEW z \in (1..N) \X D
        PROVE  ScanItem(z[2], s[z[1]]) \in D
    <3>1. z[2] \in D /\ s[z[1]] \in Item
      BY <1>1, <2>1
    <3> QED
      BY <3>1, ScanItemTyped
  <2> QED
    BY <2>1
<1>4. PICK f \in [SUBSET (1..N) -> D] : Folds(f, N, p, step)
  <2> HIDE DEF step, D, N
  <2> QED
    BY <1>1, <1>2, <1>3, FoldDefined
<1>5. Folded(f)
  <2>1. ASSUME NEW T \in SUBSET (1..N)
        PROVE  f[T] = IF T = {} THEN p ELSE ScanItem(f[T \ {Max(T)}], s[Max(T)])
    <3>1. f[T] = IF T = {} THEN p ELSE step[Max(T), f[T \ {Max(T)}]]
      BY <1>4 DEF Folds
    <3>2. T # {} => Max(T) \in 1..N
      BY <1>1, GreatestExists
    <3>3. f[T \ {Max(T)}] \in D
      BY <1>4
    <3> HIDE DEF N, D
    <3>4. T # {} => step[Max(T), f[T \ {Max(T)}]] = ScanItem(f[T \ {Max(T)}], s[Max(T)])
      BY <3>2, <3>3
    <3> QED
      BY <3>1, <3>4
  <2> HIDE DEF step
  <2> QED
    BY <1>4, <2>1
<1>6. PICK q : Folded(q) /\ FoldLeft(ScanItem, p, s) = q[1..N]
  <2>1. FoldLeft(ScanItem, p, s) = (CHOOSE q : Folded(q))[1..N]
    BY <1>1 DEF FoldLeft, MapThenFoldSet
  <2>2. Folded(CHOOSE q : Folded(q))
    BY <1>5
  <2> HIDE DEF Folded
  <2> QED
    BY <2>1, <2>2
<1>7. /\ q[1..0] = p
      /\ \A m \in 1..N : q[1..m] = ScanItem(q[1..(m - 1)], s[m])
  <2>1. 1..0 = {} /\ {} \in SUBSET (1..N)
    OBVIOUS
  <2>2. ASSUME NEW m \in 1..N
        PROVE  q[1..m] = ScanItem(q[1..(m - 1)], s[m])
    <3>1. 1..m \in SUBSET (1..N) /\ 1..m # {} /\ (1..m) \ {m} = 1..(m - 1) /\ Max(1..m) = m
      <4> HIDE DEF N
      <4> QED
        BY <1>1, <2>2, PrefixSets
    <3> QED
      BY <1>6, <3>1
  <2> QED
    BY <1>6, <2>1, <2>2
<1> DEFINE I == {m \in Nat : m <= N => q[1..m] \in D}
<1>8. Nat \subseteq I
  <2>1. 0 \in I
    BY <1>2, <1>7
  <2>2. ASSUME NEW m \in Nat, m \in I
        PROVE  m + 1 \in I
    <3>1. ASSUME m + 1 <= N
          PROVE  q[1..(m + 1)] \in D
      <4>1. m + 1 \in 1..N /\ (m + 1) - 1 = m /\ s[m + 1] \in Item /\ q[1..m] \in D
        BY <1>1, <2>2, <3>1
      <4>2. q[1..(m + 1)] = ScanItem(q[1..m], s[m + 1])
        BY <1>7, <4>1
      <4> QED
        BY <4>1, <4>2, ScanItemTyped
    <3> QED
      BY <3>1
  <2> HIDE DEF I
  <2> QED
    BY <2>1, <2>2, Induction
<1> DEFINE g == [m \in 0..N |-> q[1..m]]
<1>9. g \in [0..N -> D]
  <2>1. \A m \in 0..N : q[1..m] \in D
    BY <1>1, <1>8
  <2> QED
    BY <2>1
<1>10. ItemRun(g, p, s)
  <2>1. g[0] = p
    BY <1>1, <1>7
  <2>2. ASSUME NEW m \in 1..Len(s)
        PROVE  g[m] = ScanItem(g[m - 1], s[m])
    <3>1. m \in 0..N /\ m - 1 \in 0..N
      BY <1>1, <2>2
    <3> QED
      BY <1>7, <2>2, <3>1
  <2> HIDE DEF g
  <2> QED
    BY <2>1, <2>2 DEF ItemRun
<1>11. FoldLeft(ScanItem, p, s) = g[N]
  BY <1>1, <1>6
<1> HIDE DEF g, D
<1> QED
  BY <1>9, <1>10, <1>11, SMTT(30)

LEMMA ScanLineTyped ==
  ASSUME NEW s \in ScannerStates, NEW line \in SourceLine
  PROVE  ScanLine(s, line) \in ScannerStates
<1>1. line.items \in Seq(Item)
  BY DEF SourceLine
<1>2. PICK items \in Seq(Item) : items = line.items
  BY <1>1
<1>3. PICK g \in [0..Len(items) -> ScannerStates] : FoldLeft(ScanItem, s, items) = g[Len(items)]
  BY ItemRuns
<1>4. Len(items) \in 0..Len(items)
  OBVIOUS
<1> QED
  BY <1>2, <1>3, <1>4 DEF ScanLine

\* the states g of the scanner after each line
LineRun(g, p, s) ==
  /\ g[0] = p
  /\ \A m \in 1..Len(s) : g[m] = ScanLine(g[m - 1], s[m])

LEMMA LineRuns ==
  ASSUME NEW p \in ScannerStates, NEW s \in Seq(SourceLine)
  PROVE  \E g \in [0..Len(s) -> ScannerStates] :
           LineRun(g, p, s) /\ FoldLeft(ScanLine, p, s) = g[Len(s)]
<1> DEFINE N == Len(s)
           D == ScannerStates
           step == [z \in (1..N) \X D |-> ScanLine(z[2], s[z[1]])]
           Folded(f) == f = [T \in SUBSET (1..N) |-> IF T = {} THEN p
                                                     ELSE ScanLine(f[T \ {Max(T)}], s[Max(T)])]
<1>1. N \in Nat /\ DOMAIN s = 1..N /\ \A i \in 1..N : s[i] \in SourceLine
  OBVIOUS
<1>2. p \in D
  OBVIOUS
<1>3. step \in [(1..N) \X D -> D]
  <2>1. ASSUME NEW z \in (1..N) \X D
        PROVE  ScanLine(z[2], s[z[1]]) \in D
    <3>1. z[2] \in D /\ s[z[1]] \in SourceLine
      BY <1>1, <2>1
    <3> QED
      BY <3>1, ScanLineTyped
  <2> QED
    BY <2>1
<1>4. PICK f \in [SUBSET (1..N) -> D] : Folds(f, N, p, step)
  <2> HIDE DEF step, D, N
  <2> QED
    BY <1>1, <1>2, <1>3, FoldDefined
<1>5. Folded(f)
  <2>1. ASSUME NEW T \in SUBSET (1..N)
        PROVE  f[T] = IF T = {} THEN p ELSE ScanLine(f[T \ {Max(T)}], s[Max(T)])
    <3>1. f[T] = IF T = {} THEN p ELSE step[Max(T), f[T \ {Max(T)}]]
      BY <1>4 DEF Folds
    <3>2. T # {} => Max(T) \in 1..N
      BY <1>1, GreatestExists
    <3>3. f[T \ {Max(T)}] \in D
      BY <1>4
    <3> HIDE DEF N, D
    <3>4. T # {} => step[Max(T), f[T \ {Max(T)}]] = ScanLine(f[T \ {Max(T)}], s[Max(T)])
      BY <3>2, <3>3
    <3> QED
      BY <3>1, <3>4
  <2> HIDE DEF step
  <2> QED
    BY <1>4, <2>1
<1>6. PICK q : Folded(q) /\ FoldLeft(ScanLine, p, s) = q[1..N]
  <2>1. FoldLeft(ScanLine, p, s) = (CHOOSE q : Folded(q))[1..N]
    BY <1>1 DEF FoldLeft, MapThenFoldSet
  <2>2. Folded(CHOOSE q : Folded(q))
    BY <1>5
  <2> HIDE DEF Folded
  <2> QED
    BY <2>1, <2>2
<1>7. /\ q[1..0] = p
      /\ \A m \in 1..N : q[1..m] = ScanLine(q[1..(m - 1)], s[m])
  <2>1. 1..0 = {} /\ {} \in SUBSET (1..N)
    OBVIOUS
  <2>2. ASSUME NEW m \in 1..N
        PROVE  q[1..m] = ScanLine(q[1..(m - 1)], s[m])
    <3>1. 1..m \in SUBSET (1..N) /\ 1..m # {} /\ (1..m) \ {m} = 1..(m - 1) /\ Max(1..m) = m
      <4> HIDE DEF N
      <4> QED
        BY <1>1, <2>2, PrefixSets
    <3> QED
      BY <1>6, <3>1
  <2> QED
    BY <1>6, <2>1, <2>2
<1> DEFINE I == {m \in Nat : m <= N => q[1..m] \in D}
<1>8. Nat \subseteq I
  <2>1. 0 \in I
    BY <1>2, <1>7
  <2>2. ASSUME NEW m \in Nat, m \in I
        PROVE  m + 1 \in I
    <3>1. ASSUME m + 1 <= N
          PROVE  q[1..(m + 1)] \in D
      <4>1. m + 1 \in 1..N /\ (m + 1) - 1 = m /\ s[m + 1] \in SourceLine /\ q[1..m] \in D
        BY <1>1, <2>2, <3>1
      <4>2. q[1..(m + 1)] = ScanLine(q[1..m], s[m + 1])
        BY <1>7, <4>1
      <4> QED
        BY <4>1, <4>2, ScanLineTyped
    <3> QED
      BY <3>1
  <2> HIDE DEF I
  <2> QED
    BY <2>1, <2>2, Induction
<1> DEFINE g == [m \in 0..N |-> q[1..m]]
<1>9. g \in [0..N -> D]
  <2>1. \A m \in 0..N : q[1..m] \in D
    BY <1>1, <1>8
  <2> QED
    BY <2>1
<1>10. LineRun(g, p, s)
  <2>1. g[0] = p
    BY <1>1, <1>7
  <2>2. ASSUME NEW m \in 1..Len(s)
        PROVE  g[m] = ScanLine(g[m - 1], s[m])
    <3>1. m \in 0..N /\ m - 1 \in 0..N
      BY <1>1, <2>2
    <3> QED
      BY <1>7, <2>2, <3>1
  <2> HIDE DEF g
  <2> QED
    BY <2>1, <2>2 DEF LineRun
<1>11. FoldLeft(ScanLine, p, s) = g[N]
  BY <1>1, <1>6
<1> HIDE DEF g, D
<1> QED
  BY <1>9, <1>10, <1>11, SMTT(30)

\* the state of the scanner after the lines
Scan(lines) == FoldLeft(ScanLine, Scanner, lines)

LEMMA ScanAppend ==
  ASSUME NEW lines \in Seq(SourceLine), NEW line \in SourceLine
  PROVE  /\ Scan(lines) \in ScannerStates
         /\ Scan(Append(lines, line)) = ScanLine(Scan(lines), line)
<1>1. PICK n, both : n = Len(lines) /\ both = Append(lines, line)
  OBVIOUS
<1>2. /\ n \in Nat /\ both \in Seq(SourceLine) /\ Len(both) = n + 1
      /\ \A m \in 1..n : both[m] = lines[m]
      /\ both[n + 1] = line
  BY <1>1, AppendProperties
<1>3. Scanner \in ScannerStates
  BY DEF Scanner, ScannerStates
<1>4. PICK g \in [0..n -> ScannerStates] : LineRun(g, Scanner, lines) /\ Scan(lines) = g[n]
  BY <1>1, <1>3, LineRuns DEF Scan
<1>5. PICK h \in [0..(n + 1) -> ScannerStates] : LineRun(h, Scanner, both) /\ Scan(both) = h[n + 1]
  BY <1>2, <1>3, LineRuns DEF Scan
<1>6. /\ g[0] = Scanner /\ h[0] = Scanner
      /\ \A m \in 1..n : g[m] = ScanLine(g[m - 1], lines[m])
      /\ \A m \in 1..(n + 1) : h[m] = ScanLine(h[m - 1], both[m])
  BY <1>1, <1>2, <1>4, <1>5 DEF LineRun
<1> DEFINE I == {m \in Nat : m <= n => h[m] = g[m]}
<1>7. Nat \subseteq I
  <2>1. 0 \in I
    BY <1>6
  <2>2. ASSUME NEW m \in Nat, m \in I
        PROVE  m + 1 \in I
    <3>1. ASSUME m + 1 <= n
          PROVE  h[m + 1] = g[m + 1]
      <4>1. m + 1 \in 1..n /\ m + 1 \in 1..(n + 1) /\ (m + 1) - 1 = m /\ h[m] = g[m]
        BY <1>2, <2>2, <3>1
      <4> QED
        BY <1>2, <1>6, <4>1
    <3> QED
      BY <3>1
  <2> HIDE DEF I
  <2> QED
    BY <2>1, <2>2, Induction
<1>8. h[n] = g[n]
  BY <1>2, <1>7
<1>9. h[n + 1] = ScanLine(h[n], both[n + 1])
  <2>1. n + 1 \in 1..(n + 1) /\ (n + 1) - 1 = n
    BY <1>2
  <2> QED
    BY <1>6, <2>1
<1>10. g[n] \in ScannerStates
  BY <1>2, <1>4
<1> QED
  BY <1>1, <1>2, <1>4, <1>5, <1>8, <1>9, <1>10
-----------------------------------------------------------------------------
(* What the parser computes, line by line *)

\* the tokens of a line, which is the i-th
LineTokens(line, i) ==
  [j \in DOMAIN line.items |->
    [item |-> line.items[j], line |-> i, column |-> j,
     next |-> IF j = Len(line.items) /\ line.end # "none" THEN i + 1 ELSE i]]

LEMMA LineTokensTyped ==
  ASSUME NEW line \in SourceLine, NEW i \in Nat
  PROVE  /\ LineTokens(line, i) \in Seq(Tokens) /\ Len(LineTokens(line, i)) = Len(line.items)
         /\ Len(line.items) \in Nat /\ line.items \in Seq(Item)
         /\ \A j \in 1..Len(line.items) : LineTokens(line, i)[j].item = line.items[j]
<1>1. line.items \in Seq(Item)
  BY DEF SourceLine
<1>2. PICK n \in Nat : n = Len(line.items)
  BY <1>1
<1>3. ASSUME NEW j \in 1..n
      PROVE  LineTokens(line, i)[j] \in Tokens /\ LineTokens(line, i)[j].item = line.items[j]
  <2>1. line.items[j] \in Item /\ j \in DOMAIN line.items /\ j \in Nat /\ i + 1 \in Nat
    BY <1>1, <1>2
  <2>2. LineTokens(line, i)[j] = [item |-> line.items[j], line |-> i, column |-> j,
                           next |-> IF j = Len(line.items) /\ line.end # "none" THEN i + 1 ELSE i]
    BY <2>1 DEF LineTokens
  <2> QED
    BY <2>1, <2>2 DEF Tokens
<1>4. LineTokens(line, i) = [j \in 1..n |-> LineTokens(line, i)[j]]
  BY <1>1, <1>2 DEF LineTokens
<1>5. LineTokens(line, i) \in Seq(Tokens) /\ Len(LineTokens(line, i)) = n
  BY <1>2, <1>3, <1>4
<1> QED
  BY <1>1, <1>2, <1>3, <1>5

LEMMA FlattenAppend ==
  ASSUME NEW S, NEW seqs \in Seq(Seq(S)), NEW e \in Seq(S)
  PROVE  FlattenSeq(Append(seqs, e)) = FlattenSeq(seqs) \o e
<1>1. PICK n, both : n = Len(seqs) /\ both = Append(seqs, e)
  OBVIOUS
<1>2. /\ n \in Nat /\ both \in Seq(Seq(S)) /\ Len(both) = n + 1 /\ both # <<>>
      /\ \A m \in 1..n : both[m] = seqs[m]
      /\ both[n + 1] = e
  BY <1>1, AppendProperties
<1>3. PICK h \in [1..(n + 1) -> Seq(S)] :
        /\ h[1] = both[1]
        /\ \A i \in 1..n : h[i + 1] = h[i] \o both[i + 1]
        /\ FlattenSeq(both) = h[n + 1]
  <2>1. (n + 1) - 1 = n
    BY <1>2
  <2>2. \E h \in [1..Len(both) -> Seq(S)] :
          /\ h[1] = both[1]
          /\ \A i \in 1..(Len(both) - 1) : h[i + 1] = h[i] \o both[i + 1]
          /\ FlattenSeq(both) = h[Len(both)]
    BY <1>2, FlattenSteps
  <2> QED
    BY <1>2, <2>1, <2>2
<1>4. CASE seqs = <<>>
  <2>1. n = 0 /\ FlattenSeq(seqs) = <<>>
    BY <1>1, <1>4 DEF FlattenSeq
  <2>2. h[1] = e
    BY <1>2, <1>3, <2>1
  <2> QED
    BY <1>1, <1>3, <2>1, <2>2
<1>5. CASE seqs # <<>>
  <2>1. n \in 1..n
    BY <1>1, <1>5
  <2>2. PICK g \in [1..n -> Seq(S)] :
          /\ g[1] = seqs[1]
          /\ \A i \in 1..(n - 1) : g[i + 1] = g[i] \o seqs[i + 1]
          /\ FlattenSeq(seqs) = g[n]
    BY <1>1, <1>5, FlattenSteps
  <2> DEFINE I == {m \in Nat : m + 1 <= n => h[m + 1] = g[m + 1]}
  <2>3. 0 \in I
    BY <1>2, <1>3, <2>1, <2>2
  <2>4. ASSUME NEW m \in Nat, m \in I
        PROVE  m + 1 \in I
    <3>1. ASSUME m + 2 <= n
          PROVE  h[m + 2] = g[m + 2]
      <4>1. m + 1 \in 1..(n - 1) /\ m + 1 \in 1..n /\ m + 2 \in 1..n /\ (m + 1) + 1 = m + 2
            /\ h[m + 1] = g[m + 1]
        BY <1>2, <2>4, <3>1
      <4>2. h[m + 2] = h[m + 1] \o both[m + 2]
        BY <1>3, <4>1
      <4>3. g[m + 2] = g[m + 1] \o seqs[m + 2]
        BY <2>2, <4>1
      <4> QED
        BY <1>2, <4>1, <4>2, <4>3
    <3> QED
      BY <3>1
  <2>5. Nat \subseteq I
    <3> HIDE DEF I
    <3> QED
      BY <2>3, <2>4, Induction
  <2>6. h[n] = g[n]
    <3>1. n - 1 \in Nat /\ (n - 1) + 1 = n
      BY <1>2, <2>1
    <3>2. n - 1 \in I
      <4> HIDE DEF I
      <4> QED
        BY <2>5, <3>1
    <3> QED
      BY <3>1, <3>2
  <2>7. h[n + 1] = h[n] \o e
    BY <1>2, <1>3, <2>1
  <2> QED
    BY <1>1, <1>3, <2>2, <2>6, <2>7
<1> QED
  BY <1>4, <1>5

LEMMA TokenAppend ==
  ASSUME NEW lines \in Seq(SourceLine), NEW line \in SourceLine
  PROVE  /\ Token(lines) \in Seq(Tokens)
         /\ Token(Append(lines, line)) = Token(lines) \o LineTokens(line, Len(lines) + 1)
<1> DEFINE rows(s) == [i \in DOMAIN s |-> LineTokens(s[i], i)]
<1>1. PICK n, both : n = Len(lines) /\ both = Append(lines, line)
  OBVIOUS
<1>2. /\ n \in Nat /\ both \in Seq(SourceLine) /\ Len(both) = n + 1
      /\ DOMAIN lines = 1..n /\ DOMAIN both = 1..(n + 1)
      /\ \A m \in 1..n : both[m] = lines[m]
      /\ both[n + 1] = line
  BY <1>1, AppendProperties
<1>3. /\ Token(lines) = FlattenSeq(rows(lines))
      /\ Token(both) = FlattenSeq(rows(both))
  BY DEF Token, LineTokens
<1>4. \A i \in 1..n : LineTokens(lines[i], i) \in Seq(Tokens)
  <2>1. \A i \in 1..n : lines[i] \in SourceLine /\ i \in Nat
    BY <1>1
  <2> QED
    BY <2>1, LineTokensTyped
<1>5. LineTokens(line, n + 1) \in Seq(Tokens)
  BY <1>2, LineTokensTyped
<1>6. rows(lines) \in Seq(Seq(Tokens)) /\ Len(rows(lines)) = n
  BY <1>2, <1>4
<1>7. rows(both) = Append(rows(lines), LineTokens(line, n + 1))
  <2>1. PICK r, e : r = rows(lines) /\ e = LineTokens(line, n + 1)
    OBVIOUS
  <2>2. r \in Seq(Seq(Tokens)) /\ e \in Seq(Tokens) /\ Len(r) = n
    BY <1>5, <1>6, <2>1
  <2>3. /\ Append(r, e) \in Seq(Seq(Tokens)) /\ Len(Append(r, e)) = n + 1
        /\ \A m \in 1..n : Append(r, e)[m] = r[m]
        /\ Append(r, e)[n + 1] = e
    BY <1>2, <2>2, AppendProperties
  <2>4. \A m \in 1..(n + 1) : rows(both)[m] = Append(r, e)[m]
    <3>1. \A m \in 1..n : r[m] = LineTokens(lines[m], m) /\ rows(both)[m] = LineTokens(both[m], m)
      BY <1>2, <2>1
    <3>2. rows(both)[n + 1] = LineTokens(line, n + 1)
      BY <1>2
    <3>3. ASSUME NEW m \in 1..(n + 1)
          PROVE  m \in 1..n \/ m = n + 1
      BY <1>2
    <3> HIDE DEF rows
    <3> QED
      BY <1>2, <2>1, <2>3, <3>1, <3>2, <3>3
  <2>5. DOMAIN rows(both) = 1..(n + 1) /\ DOMAIN Append(r, e) = 1..(n + 1)
    BY <1>2, <2>3
  <2>6. rows(both) = [m \in 1..(n + 1) |-> rows(both)[m]]
    <3>1. rows(both) = [m \in 1..(n + 1) |-> LineTokens(both[m], m)]
      BY <1>2
    <3> HIDE DEF rows
    <3> QED
      BY <3>1
  <2>7. Append(r, e) = [m \in 1..(n + 1) |-> Append(r, e)[m]]
    <3>1. PICK a \in Seq(Seq(Tokens)) : a = Append(r, e)
      BY <2>3
    <3>2. a = [m \in 1..Len(a) |-> a[m]]
      OBVIOUS
    <3> QED
      BY <2>3, <3>1, <3>2
  <2> HIDE DEF rows
  <2> QED
    BY <2>1, <2>4, <2>6, <2>7
<1> HIDE DEF rows
<1>8. FlattenSeq(rows(lines)) \in Seq(Tokens)
  BY <1>6, FlattenTyped
<1>9. FlattenSeq(Append(rows(lines), LineTokens(line, n + 1))) = FlattenSeq(rows(lines)) \o LineTokens(line, n + 1)
  BY <1>5, <1>6, FlattenAppend
<1> QED
  BY <1>1, <1>3, <1>7, <1>8, <1>9

(* Parsing can be interrupted between any two tokens. *)
LEMMA ParserSplit ==
  ASSUME NEW S \in SUBSET Tokens, NEW p \in ParserStates(S), NEW s \in Seq(S), NEW t \in Seq(S)
  PROVE  /\ FoldLeft(ParseToken, p, s) \in ParserStates(S)
         /\ FoldLeft(ParseToken, p, s \o t) = FoldLeft(ParseToken, FoldLeft(ParseToken, p, s), t)
<1>1. PICK n, m, both : n = Len(s) /\ m = Len(t) /\ both = s \o t
  OBVIOUS
<1>2. /\ n \in Nat /\ m \in Nat /\ both \in Seq(S) /\ Len(both) = n + m
      /\ \A j \in 1..(n + m) : both[j] = IF j <= n THEN s[j] ELSE t[j - n]
  BY <1>1, ConcatProperties
<1>3. PICK g \in [0..n -> ParserStates(S)] : ParserRun(g, p, s) /\ FoldLeft(ParseToken, p, s) = g[n]
  BY <1>1, ParserRuns
<1>4. PICK h \in [0..(n + m) -> ParserStates(S)] :
        ParserRun(h, p, both) /\ FoldLeft(ParseToken, p, both) = h[n + m]
  BY <1>2, ParserRuns
<1>5. g[n] \in ParserStates(S)
  BY <1>2, <1>3
<1>6. PICK k \in [0..m -> ParserStates(S)] :
        ParserRun(k, g[n], t) /\ FoldLeft(ParseToken, g[n], t) = k[m]
  BY <1>1, <1>5, ParserRuns
<1>7. /\ g[0] = p /\ h[0] = p /\ k[0] = g[n]
      /\ \A j \in 1..n : g[j] = ParseToken(g[j - 1], s[j])
      /\ \A j \in 1..(n + m) : h[j] = ParseToken(h[j - 1], both[j])
      /\ \A j \in 1..m : k[j] = ParseToken(k[j - 1], t[j])
  BY <1>1, <1>2, <1>3, <1>4, <1>6 DEF ParserRun
<1> DEFINE I == {j \in Nat : j <= n => h[j] = g[j]}
<1>8. Nat \subseteq I
  <2>1. 0 \in I
    BY <1>7
  <2>2. ASSUME NEW j \in Nat, j \in I
        PROVE  j + 1 \in I
    <3>1. ASSUME j + 1 <= n
          PROVE  h[j + 1] = g[j + 1]
      <4>1. j + 1 \in 1..n /\ j + 1 \in 1..(n + m) /\ (j + 1) - 1 = j /\ h[j] = g[j]
        BY <1>2, <2>2, <3>1
      <4>2. both[j + 1] = s[j + 1]
        BY <1>2, <3>1, <4>1
      <4> QED
        BY <1>7, <4>1, <4>2
    <3> QED
      BY <3>1
  <2> HIDE DEF I
  <2> QED
    BY <2>1, <2>2, Induction
<1> DEFINE J == {j \in Nat : j <= m => h[n + j] = k[j]}
<1>9. Nat \subseteq J
  <2>1. 0 \in J
    <3>1. n \in I /\ n + 0 = n
      BY <1>2, <1>8
    <3> QED
      BY <1>7, <3>1
  <2>2. ASSUME NEW j \in Nat, j \in J
        PROVE  j + 1 \in J
    <3>1. ASSUME j + 1 <= m
          PROVE  h[n + (j + 1)] = k[j + 1]
      <4>1. j + 1 \in 1..m /\ n + (j + 1) \in 1..(n + m) /\ (n + (j + 1)) - 1 = n + j /\ (j + 1) - 1 = j
            /\ h[n + j] = k[j]
        BY <1>2, <2>2, <3>1
      <4>2. both[n + (j + 1)] = t[j + 1]
        <5>1. ~(n + (j + 1) <= n) /\ (n + (j + 1)) - n = j + 1
          BY <1>2
        <5> QED
          BY <1>2, <4>1, <5>1
      <4>3. h[n + (j + 1)] = ParseToken(h[n + j], t[j + 1])
        BY <1>7, <4>1, <4>2
      <4>4. k[j + 1] = ParseToken(k[j], t[j + 1])
        BY <1>7, <4>1
      <4> QED
        BY <4>1, <4>3, <4>4
    <3> QED
      BY <3>1
  <2> HIDE DEF I, J
  <2> QED
    BY <2>1, <2>2, Induction
<1>10. h[n + m] = k[m]
  BY <1>2, <1>9
<1> QED
  BY <1>1, <1>3, <1>4, <1>5, <1>6, <1>10

\* the state of the parser after the lines
ParserAfter(lines) == FoldLeft(ParseToken, Parser, Token(lines))

LEMMA ParserAppend ==
  ASSUME NEW lines \in Seq(SourceLine), NEW line \in SourceLine
  PROVE  /\ ParserAfter(lines) \in ParserStates(Tokens)
         /\ ParserAfter(Append(lines, line)) =
              FoldLeft(ParseToken, ParserAfter(lines), LineTokens(line, Len(lines) + 1))
<1>1. Parser \in ParserStates(Tokens)
  BY DEF ParserStates, Parser
<1>2. PICK s, t : s = Token(lines) /\ t = LineTokens(line, Len(lines) + 1)
  OBVIOUS
<1>3. s \in Seq(Tokens) /\ t \in Seq(Tokens) /\ Token(Append(lines, line)) = s \o t
  <2>1. Len(lines) + 1 \in Nat
    OBVIOUS
  <2> QED
    BY <1>2, <2>1, TokenAppend, LineTokensTyped
<1>4. /\ FoldLeft(ParseToken, Parser, s) \in ParserStates(Tokens)
      /\ FoldLeft(ParseToken, Parser, s \o t) = FoldLeft(ParseToken, FoldLeft(ParseToken, Parser, s), t)
  BY <1>1, <1>3, ParserSplit
<1> QED
  BY <1>2, <1>3, <1>4 DEF ParserAfter

(* Before the first line nothing is open. *)
LEMMA NothingRead == ParserAfter(<<>>) = Parser /\ Scan(<<>>) = Scanner
<1>1. Token(<<>>) = <<>>
  <2>1. Token(<<>>) = FlattenSeq(<<>>)
    BY DEF Token
  <2> QED
    BY <2>1 DEF FlattenSeq
<1>2. \E g : ParserRun(g, Parser, <<>>) /\ FoldLeft(ParseToken, Parser, <<>>) = g[0]
  <2>1. Parser \in ParserStates(Tokens) /\ Tokens \in SUBSET Tokens /\ <<>> \in Seq(Tokens) /\ Len(<<>>) = 0
    BY DEF ParserStates, Parser
  <2>2. PICK s \in Seq(Tokens) : s = <<>> /\ Len(s) = 0
    BY <2>1
  <2>3. \E g \in [0..Len(s) -> ParserStates(Tokens)] :
          ParserRun(g, Parser, s) /\ FoldLeft(ParseToken, Parser, s) = g[Len(s)]
    BY <2>1, ParserRuns
  <2> QED
    BY <2>2, <2>3
<1>3. \E g : LineRun(g, Scanner, <<>>) /\ FoldLeft(ScanLine, Scanner, <<>>) = g[0]
  <2>1. Scanner \in ScannerStates /\ <<>> \in Seq(SourceLine) /\ Len(<<>>) = 0
    BY DEF ScannerStates, Scanner
  <2>2. PICK s \in Seq(SourceLine) : s = <<>> /\ Len(s) = 0
    BY <2>1
  <2>3. \E g \in [0..Len(s) -> ScannerStates] :
          LineRun(g, Scanner, s) /\ FoldLeft(ScanLine, Scanner, s) = g[Len(s)]
    BY <2>1, LineRuns
  <2> QED
    BY <2>2, <2>3
<1> QED
  BY <1>1, <1>2, <1>3 DEF ParserAfter, Scan, ParserRun, LineRun
-----------------------------------------------------------------------------
(* A piece of a text, read by itself *)

\* the token t of a piece of a text, as a token of the text: i lines precede the piece
Moved(t, i)     == [item |-> t.item, line |-> i + t.line, column |-> t.column, next |-> i + t.next]
MovedAll(s, i)  == [j \in DOMAIN s |-> Moved(s[j], i)]

(* The parser of the text in state p, the parser of the piece in state u and the scanner of *)
(* the piece in state s agree about what is open; the statements of the piece are those the *)
(* text has after b.                                                                        *)
Agree(p, u, s) ==
  /\ u.verdict = "ok" /\ u.mode = p.mode /\ u.depth = p.depth /\ u.depth \in Nat
  /\ s.depth = u.depth
  /\ s.comment <=> u.mode = "comment"
  /\ s.string <=> u.mode = "string"
Tracks(p, u, s, b, i) == Agree(p, u, s) /\ p.stmts = b \o MovedAll(u.stmts, i)

LEMMA MovedTyped ==
  ASSUME NEW t \in Tokens, NEW i \in Nat
  PROVE  /\ Moved(t, i) \in Tokens
         /\ Moved(t, i).item = t.item
<1>1. t.line \in Nat /\ t.next \in Nat /\ t.column \in Nat /\ t.item \in Item
  BY DEF Tokens
<1>2. i + t.line \in Nat /\ i + t.next \in Nat
  BY <1>1
<1> QED
  BY <1>1, <1>2 DEF Moved, Tokens

LEMMA MovedAppend ==
  ASSUME NEW b \in Seq(Tokens), NEW s \in Seq(Tokens), NEW t \in Tokens, NEW i \in Nat
  PROVE  /\ MovedAll(s, i) \in Seq(Tokens) /\ Len(MovedAll(s, i)) = Len(s)
         /\ Append(b \o MovedAll(s, i), Moved(t, i)) = b \o MovedAll(Append(s, t), i)
<1>1. PICK n, both : n = Len(s) /\ both = Append(s, t)
  OBVIOUS
<1>2. /\ n \in Nat /\ both \in Seq(Tokens) /\ Len(both) = n + 1
      /\ DOMAIN s = 1..n /\ DOMAIN both = 1..(n + 1)
      /\ \A m \in 1..n : both[m] = s[m] /\ s[m] \in Tokens
      /\ both[n + 1] = t
  BY <1>1, AppendProperties
<1>3. \A m \in 1..n : Moved(s[m], i) \in Tokens
  BY <1>2, MovedTyped
<1>4. MovedAll(s, i) = [m \in 1..n |-> Moved(s[m], i)] /\ MovedAll(both, i) = [m \in 1..(n + 1) |-> Moved(both[m], i)]
  BY <1>2 DEF MovedAll
<1>5. MovedAll(s, i) \in Seq(Tokens) /\ Len(MovedAll(s, i)) = n
  BY <1>2, <1>3, <1>4
<1>6. PICK a, c : a = MovedAll(s, i) /\ c = MovedAll(both, i)
  OBVIOUS
<1>7. PICK e \in Tokens : e = Moved(t, i)
  BY MovedTyped
<1>8. \A m \in 1..(n + 1) : Moved(both[m], i) \in Tokens
  <2>1. \A m \in 1..(n + 1) : both[m] \in Tokens
    BY <1>2
  <2> QED
    BY <2>1, MovedTyped
<1>9. c \in Seq(Tokens) /\ Len(c) = n + 1
  BY <1>2, <1>4, <1>6, <1>8
<1>10. c = Append(a, e)
  <2>1. a \in Seq(Tokens) /\ Len(a) = n
    BY <1>5, <1>6
  <2>2. /\ Append(a, e) \in Seq(Tokens) /\ Len(Append(a, e)) = n + 1
        /\ \A m \in 1..n : Append(a, e)[m] = a[m]
        /\ Append(a, e)[n + 1] = e
    BY <1>2, <2>1, AppendProperties
  <2>3. PICK d \in Seq(Tokens) : d = Append(a, e)
    BY <2>2
  <2>4. \A m \in 1..n : a[m] = c[m]
    <3>1. \A m \in 1..n : m \in 1..(n + 1)
      BY <1>2
    <3> QED
      BY <1>2, <1>4, <1>6, <3>1
  <2>5. c[n + 1] = e
    <3>1. n + 1 \in 1..(n + 1)
      BY <1>2
    <3> QED
      BY <1>2, <1>4, <1>6, <1>7, <3>1
  <2>6. \A m \in 1..(n + 1) : c[m] = d[m]
    <3>1. \A m \in 1..(n + 1) : m \in 1..n \/ m = n + 1
      BY <1>2
    <3> QED
      BY <2>2, <2>3, <2>4, <2>5, <3>1
  <2>7. Len(c) = n + 1 /\ Len(d) = n + 1
    BY <1>9, <2>2, <2>3
  <2>8. c = d
    BY <1>9, <2>6, <2>7, SeqEqual
  <2> QED
    BY <2>3, <2>8
<1>11. Append(b \o a, e) = b \o Append(a, e)
  <2>1. a \in Seq(Tokens)
    BY <1>5, <1>6
  <2>2. b \o a \in Seq(Tokens) /\ Append(a, e) = a \o << e >> /\ << e >> \in Seq(Tokens)
    BY <2>1, AppendIsConcat
  <2>3. Append(b \o a, e) = (b \o a) \o << e >>
    BY <2>2, AppendIsConcat
  <2>4. (b \o a) \o << e >> = b \o (a \o << e >>)
    BY <2>1, <2>2, ConcatAssociative, SMTT(30)
  <2> QED
    BY <2>2, <2>3, <2>4
<1> QED
  BY <1>1, <1>5, <1>6, <1>7, <1>10, <1>11

(* What the scanner and the two parsers make of one token. *)
LEMMA AgreeKept ==
  ASSUME NEW p \in ParserStates(Tokens), NEW u \in ParserStates(Tokens), NEW s \in ScannerStates,
         NEW t \in Tokens, NEW r \in Tokens, r.item = t.item,
         Agree(p, u, s), p.verdict = "ok", ParseToken(p, r).verdict = "ok"
  PROVE  Agree(ParseToken(p, r), ParseToken(u, t), ScanItem(s, t.item))
<1> DEFINE item == IF p.mode = "code" THEN t.item ELSE "text"
           d    == CASE item = "open" -> p.depth + 1
                     [] item = "close" -> p.depth - 1
                     [] OTHER -> p.depth
           wrong == item \in {"bad", "cut", "uncomment"} \/ (item = "close" /\ p.depth = 0)
           v    == IF wrong THEN "syntax" ELSE IF item = "quit" THEN "quit" ELSE "ok"
<1>1. /\ u.verdict = "ok" /\ u.mode = p.mode /\ u.depth = p.depth /\ p.depth \in Nat
      /\ s.depth = p.depth
      /\ p.mode \in {"code", "comment", "string"} /\ t.item \in Item
  BY DEF Agree, ParserStates, Tokens
<1>2. /\ ParseToken(p, r).mode = LexMode(p.mode, t.item) /\ ParseToken(p, r).depth = d
      /\ ParseToken(p, r).verdict = v
  BY DEF ParseToken
<1>3. /\ ParseToken(u, t).mode = LexMode(p.mode, t.item) /\ ParseToken(u, t).depth = d
      /\ ParseToken(u, t).verdict = v
  BY <1>1 DEF ParseToken
<1>4. v = "ok" /\ ~wrong /\ item # "quit"
  BY <1>2
<1>5. d \in Nat
  BY <1>1, <1>4
<1>6. CASE p.mode = "code"
  <2>1. s.comment = FALSE /\ s.string = FALSE
    BY <1>1, <1>6 DEF Agree, ScannerStates
  <2>2. item = t.item /\ t.item # "uncomment"
    BY <1>4, <1>6
  <2>3. ScanItem(s, t.item).depth = s.depth + (IF t.item = "open" THEN 1 ELSE 0) - (IF t.item = "close" THEN 1 ELSE 0)
    BY <2>1 DEF ScanItem
  <2>4. ScanItem(s, t.item).depth = d
    BY <1>1, <2>2, <2>3
  <2>5. LexMode(p.mode, t.item) = IF t.item = "comment" THEN "comment"
                                  ELSE IF t.item = "quote" THEN "string" ELSE "code"
    BY <1>6 DEF LexMode
  <2>6. ScanItem(s, t.item).comment <=> t.item = "comment"
    BY <2>1 DEF ScanItem
  <2>7. ScanItem(s, t.item).string <=> t.item = "quote"
    BY <2>1 DEF ScanItem
  <2> HIDE DEF d, v, wrong, item
  <2> QED
    BY <1>2, <1>3, <1>4, <1>5, <2>4, <2>5, <2>6, <2>7 DEF Agree
<1>7. CASE p.mode = "comment"
  <2>1. s.comment = TRUE /\ s.string = FALSE
    BY <1>1, <1>7 DEF Agree, ScannerStates
  <2>2. d = p.depth
    BY <1>7
  <2>3. ScanItem(s, t.item).depth = s.depth + 0 - 0
    BY <2>1 DEF ScanItem
  <2>4. ScanItem(s, t.item).depth = d
    BY <1>1, <2>2, <2>3
  <2>5. LexMode(p.mode, t.item) = IF t.item = "uncomment" THEN "code" ELSE "comment"
    BY <1>7 DEF LexMode
  <2>6. ScanItem(s, t.item).comment <=> t.item # "uncomment"
    BY <2>1 DEF ScanItem
  <2>7. ~ScanItem(s, t.item).string
    BY <2>1 DEF ScanItem
  <2> HIDE DEF d, v, wrong, item
  <2> QED
    BY <1>2, <1>3, <1>4, <1>5, <2>4, <2>5, <2>6, <2>7 DEF Agree
<1>8. CASE p.mode = "string"
  <2>1. s.comment = FALSE /\ s.string = TRUE
    BY <1>1, <1>8 DEF Agree, ScannerStates
  <2>2. d = p.depth
    BY <1>8
  <2>3. ScanItem(s, t.item).depth = s.depth + 0 - 0
    BY <2>1 DEF ScanItem
  <2>4. ScanItem(s, t.item).depth = d
    BY <1>1, <2>2, <2>3
  <2>5. LexMode(p.mode, t.item) = IF t.item = "quote" THEN "code" ELSE "string"
    BY <1>8 DEF LexMode
  <2>6. ScanItem(s, t.item).string <=> t.item # "quote"
    BY <2>1 DEF ScanItem
  <2>7. ~ScanItem(s, t.item).comment
    BY <2>1 DEF ScanItem
  <2> HIDE DEF d, v, wrong, item
  <2> QED
    BY <1>2, <1>3, <1>4, <1>5, <2>4, <2>5, <2>6, <2>7 DEF Agree
<1> QED
  BY <1>1, <1>6, <1>7, <1>8

LEMMA TracksKept ==
  ASSUME NEW p \in ParserStates(Tokens), NEW u \in ParserStates(Tokens), NEW s \in ScannerStates,
         NEW t \in Tokens, NEW b \in Seq(Tokens), NEW i \in Nat,
         Tracks(p, u, s, b, i), p.verdict = "ok", ParseToken(p, Moved(t, i)).verdict = "ok"
  PROVE  Tracks(ParseToken(p, Moved(t, i)), ParseToken(u, t), ScanItem(s, t.item), b, i)
<1>1. PICK r \in Tokens : r = Moved(t, i) /\ r.item = t.item
  BY MovedTyped
<1>2. Agree(ParseToken(p, r), ParseToken(u, t), ScanItem(s, t.item))
  BY <1>1, AgreeKept DEF Tracks
<1>3. u.verdict = "ok" /\ u.mode = p.mode /\ u.stmts \in Seq(Tokens) /\ p.stmts = b \o MovedAll(u.stmts, i)
  BY DEF Tracks, Agree, ParserStates
<1> DEFINE item == IF p.mode = "code" THEN t.item ELSE "text"
<1>4. /\ ParseToken(p, r).stmts = IF item \in Statements THEN Append(p.stmts, r) ELSE p.stmts
      /\ ParseToken(u, t).stmts = IF item \in Statements THEN Append(u.stmts, t) ELSE u.stmts
  BY <1>1, <1>3 DEF ParseToken
<1>5. Append(p.stmts, r) = b \o MovedAll(Append(u.stmts, t), i)
  <2>1. PICK w \in Seq(Tokens) : w = u.stmts
    BY <1>3
  <2>2. Append(b \o MovedAll(w, i), Moved(t, i)) = b \o MovedAll(Append(w, t), i)
    BY MovedAppend
  <2> QED
    BY <1>1, <1>3, <2>1, <2>2
<1>6. ParseToken(p, r).stmts = b \o MovedAll(ParseToken(u, t).stmts, i)
  BY <1>3, <1>4, <1>5
<1> QED
  BY <1>1, <1>2, <1>6 DEF Tracks

(* A parser that has stopped stays stopped, and so do the states before a good one. *)
Good(p) == p.verdict = "ok" /\ \A j \in DOMAIN p.stmts : p.stmts[j].item \in {"stmt", "ext"}

LEMMA GoodBefore ==
  ASSUME NEW p \in ParserStates(Tokens), NEW t \in Tokens, Good(ParseToken(p, t))
  PROVE  Good(p)
<1>1. p.verdict = "ok"
  BY DEF ParseToken, Good
<1>2. p.stmts \in Seq(Tokens)
  BY DEF ParserStates
<1>3. ParseToken(p, t).stmts = p.stmts \/ ParseToken(p, t).stmts = Append(p.stmts, t)
  BY <1>1 DEF ParseToken
<1>4. CASE ParseToken(p, t).stmts = p.stmts
  BY <1>1, <1>4 DEF Good
<1>5. CASE ParseToken(p, t).stmts = Append(p.stmts, t)
  <2>1. PICK w \in Seq(Tokens) : w = p.stmts
    BY <1>2
  <2>2. /\ Len(w) \in Nat /\ DOMAIN w = 1..Len(w) /\ DOMAIN Append(w, t) = 1..(Len(w) + 1)
        /\ \A j \in 1..Len(w) : Append(w, t)[j] = w[j]
    BY AppendProperties
  <2>3. \A j \in 1..(Len(w) + 1) : Append(w, t)[j].item \in {"stmt", "ext"}
    BY <1>5, <2>1, <2>2 DEF Good
  <2>4. \A j \in 1..Len(w) : j \in 1..(Len(w) + 1)
    BY <2>2
  <2> QED
    BY <1>1, <2>1, <2>2, <2>3, <2>4 DEF Good
<1> QED
  BY <1>3, <1>4, <1>5

LEMMA GoodBeforeLine ==
  ASSUME NEW p \in ParserStates(Tokens), NEW s \in Seq(Tokens), Good(FoldLeft(ParseToken, p, s))
  PROVE  Good(p)
<1>1. PICK n \in Nat : n = Len(s)
  OBVIOUS
<1>2. PICK g \in [0..n -> ParserStates(Tokens)] : ParserRun(g, p, s) /\ FoldLeft(ParseToken, p, s) = g[n]
  BY <1>1, ParserRuns
<1>3. g[0] = p /\ \A m \in 1..n : g[m] = ParseToken(g[m - 1], s[m])
  BY <1>1, <1>2 DEF ParserRun
<1> DEFINE I == {d \in Nat : d <= n => Good(g[n - d])}
<1>4. Nat \subseteq I
  <2>1. 0 \in I
    <3>1. n - 0 = n
      BY <1>1
    <3> QED
      BY <1>2, <3>1
  <2>2. ASSUME NEW d \in Nat, d \in I
        PROVE  d + 1 \in I
    <3>1. ASSUME d + 1 <= n
          PROVE  Good(g[n - (d + 1)])
      <4>1. PICK m \in 1..n : m = n - d /\ m - 1 = n - (d + 1) /\ m - 1 \in 0..n
        BY <1>1, <3>1
      <4>2. Good(g[m]) /\ g[m] = ParseToken(g[m - 1], s[m]) /\ s[m] \in Tokens /\ g[m - 1] \in ParserStates(Tokens)
        <5>1. d <= n
          BY <1>1, <3>1
        <5>2. Good(g[m])
          BY <2>2, <4>1, <5>1
        <5>3. g[m] = ParseToken(g[m - 1], s[m])
          BY <1>3, <4>1
        <5>4. s[m] \in Tokens
          BY <1>1, <4>1
        <5>5. g[m - 1] \in ParserStates(Tokens)
          <6> HIDE DEF I
          <6> QED
            BY <1>2, <4>1
        <5> QED
          BY <5>2, <5>3, <5>4, <5>5
      <4>3. Good(g[m - 1])
        BY <4>2, GoodBefore
      <4> QED
        BY <4>1, <4>3
    <3> QED
      BY <3>1
  <2> HIDE DEF I
  <2> QED
    BY <2>1, <2>2, Induction
<1>5. Good(g[n - n])
  BY <1>1, <1>4
<1>6. n - n = 0
  BY <1>1
<1> QED
  BY <1>3, <1>5, <1>6

(* The same for a line of the piece, which is line k of it and line i + k of the text. *)
LEMMA LineTracks ==
  ASSUME NEW line \in SourceLine, NEW k \in Nat, NEW i \in Nat, NEW b \in Seq(Tokens),
         NEW p \in ParserStates(Tokens), NEW u \in ParserStates(Tokens), NEW s \in ScannerStates,
         Tracks(p, u, s, b, i), Good(FoldLeft(ParseToken, p, LineTokens(line, i + k)))
  PROVE  Tracks(FoldLeft(ParseToken, p, LineTokens(line, i + k)), FoldLeft(ParseToken, u, LineTokens(line, k)),
                 ScanLine(s, line), b, i)
<1>1. PICK items, t, r : items = line.items /\ t = LineTokens(line, k) /\ r = LineTokens(line, i + k)
  OBVIOUS
<1>2. PICK n \in Nat : n = Len(items)
  BY <1>1, LineTokensTyped
<1>3. /\ items \in Seq(Item) /\ t \in Seq(Tokens) /\ r \in Seq(Tokens)
      /\ Len(t) = n /\ Len(r) = n
      /\ \A j \in 1..n : t[j].item = items[j]
  <2>1. i + k \in Nat
    OBVIOUS
  <2>2. /\ LineTokens(line, k) \in Seq(Tokens) /\ Len(LineTokens(line, k)) = Len(line.items)
        /\ line.items \in Seq(Item)
        /\ \A j \in 1..Len(line.items) : LineTokens(line, k)[j].item = line.items[j]
    BY LineTokensTyped
  <2>3. LineTokens(line, i + k) \in Seq(Tokens) /\ Len(LineTokens(line, i + k)) = Len(line.items)
    BY <2>1, LineTokensTyped
  <2> QED
    BY <1>1, <1>2, <2>2, <2>3
<1>4. \A j \in 1..n : r[j] = Moved(t[j], i) /\ t[j] \in Tokens
  <2>1. ASSUME NEW j \in 1..n
        PROVE  r[j] = Moved(t[j], i)
    <3>1. j \in DOMAIN line.items
      BY <1>1, <1>2, <1>3
    <3>2. /\ r[j] = [item |-> line.items[j], line |-> i + k, column |-> j,
                     next |-> IF j = Len(line.items) /\ line.end # "none" THEN (i + k) + 1 ELSE i + k]
          /\ t[j] = [item |-> line.items[j], line |-> k, column |-> j,
                     next |-> IF j = Len(line.items) /\ line.end # "none" THEN k + 1 ELSE k]
      BY <1>1, <3>1 DEF LineTokens
    <3>3. (i + k) + 1 = i + (k + 1)
      OBVIOUS
    <3> QED
      BY <3>2, <3>3 DEF Moved
  <2> QED
    BY <1>3, <2>1
<1>5. PICK gp \in [0..n -> ParserStates(Tokens)] : ParserRun(gp, p, r) /\ FoldLeft(ParseToken, p, r) = gp[n]
  <2>1. \E gp \in [0..Len(r) -> ParserStates(Tokens)] :
          ParserRun(gp, p, r) /\ FoldLeft(ParseToken, p, r) = gp[Len(r)]
    <3>1. r \in Seq(Tokens)
      BY <1>3
    <3> QED
      BY <3>1, ParserRuns
  <2> QED
    BY <1>3, <2>1
<1>6. PICK gu \in [0..n -> ParserStates(Tokens)] : ParserRun(gu, u, t) /\ FoldLeft(ParseToken, u, t) = gu[n]
  <2>1. \E gu \in [0..Len(t) -> ParserStates(Tokens)] :
          ParserRun(gu, u, t) /\ FoldLeft(ParseToken, u, t) = gu[Len(t)]
    <3>1. t \in Seq(Tokens)
      BY <1>3
    <3> QED
      BY <3>1, ParserRuns
  <2> QED
    BY <1>3, <2>1
<1>7. PICK gs \in [0..n -> ScannerStates] : ItemRun(gs, s, items) /\ FoldLeft(ScanItem, s, items) = gs[n]
  BY <1>2, <1>3, ItemRuns
<1>8. /\ gp[0] = p /\ gu[0] = u /\ gs[0] = s
      /\ \A m \in 1..n : /\ gp[m] = ParseToken(gp[m - 1], r[m])
                         /\ gu[m] = ParseToken(gu[m - 1], t[m])
                         /\ gs[m] = ScanItem(gs[m - 1], items[m])
  BY <1>2, <1>3, <1>5, <1>6, <1>7 DEF ParserRun, ItemRun
<1> DEFINE I == {m \in Nat : m <= n /\ gp[m].verdict = "ok" => Tracks(gp[m], gu[m], gs[m], b, i)}
<1>9. Nat \subseteq I
  <2>1. 0 \in I
    BY <1>8
  <2>2. ASSUME NEW m \in Nat, m \in I
        PROVE  m + 1 \in I
    <3>1. ASSUME m + 1 <= n, gp[m + 1].verdict = "ok"
          PROVE  Tracks(gp[m + 1], gu[m + 1], gs[m + 1], b, i)
      <4>1. m + 1 \in 1..n /\ (m + 1) - 1 = m /\ m <= n /\ m \in 0..n
        BY <1>2, <3>1
      <4>2. /\ gp[m + 1] = ParseToken(gp[m], Moved(t[m + 1], i))
            /\ gu[m + 1] = ParseToken(gu[m], t[m + 1])
            /\ gs[m + 1] = ScanItem(gs[m], t[m + 1].item)
            /\ t[m + 1] \in Tokens
            /\ gp[m] \in ParserStates(Tokens) /\ gu[m] \in ParserStates(Tokens) /\ gs[m] \in ScannerStates
        BY <1>3, <1>4, <1>5, <1>6, <1>7, <1>8, <4>1
      <4>3. gp[m].verdict = "ok"
        BY <3>1, <4>2 DEF ParseToken
      <4>4. Tracks(gp[m], gu[m], gs[m], b, i)
        BY <2>2, <4>1, <4>3
      <4>5. ParseToken(gp[m], Moved(t[m + 1], i)).verdict = "ok"
        BY <3>1, <4>2
      <4> QED
        BY <4>2, <4>3, <4>4, <4>5, TracksKept, SMTT(30)
    <3> QED
      BY <3>1
  <2> HIDE DEF I
  <2> QED
    BY <2>1, <2>2, Induction
<1>10. gp[n].verdict = "ok"
  BY <1>1, <1>5 DEF Good
<1>11. Tracks(gp[n], gu[n], gs[n], b, i)
  BY <1>2, <1>9, <1>10
<1> QED
  BY <1>1, <1>5, <1>6, <1>7, <1>11 DEF ScanLine

LEMMA GoodPrefix ==
  ASSUME NEW lines \in Seq(SourceLine), Good(ParserAfter(lines)), NEW k \in 0..Len(lines)
  PROVE  Good(ParserAfter(SubSeq(lines, 1, k)))
<1>1. PICK n \in Nat : n = Len(lines)
  OBVIOUS
<1> DEFINE I == {d \in Nat : d <= n => Good(ParserAfter(SubSeq(lines, 1, n - d)))}
<1>2. Nat \subseteq I
  <2>1. 0 \in I
    <3>1. n - 0 = n /\ SubSeq(lines, 1, n) = lines
      BY <1>1
    <3> QED
      BY <3>1
  <2>2. ASSUME NEW d \in Nat, d \in I
        PROVE  d + 1 \in I
    <3>1. ASSUME d + 1 <= n
          PROVE  Good(ParserAfter(SubSeq(lines, 1, n - (d + 1))))
      <4>1. PICK m \in Nat : m = n - (d + 1) /\ m + 1 = n - d /\ m < n
        <5>1. n - (d + 1) \in Nat /\ (n - (d + 1)) + 1 = n - d /\ n - (d + 1) < n
          BY <3>1
        <5> QED
          BY <5>1
      <4>2. PICK s, line : s = SubSeq(lines, 1, m) /\ line = lines[m + 1]
        OBVIOUS
      <4>3. s \in Seq(SourceLine) /\ line \in SourceLine /\ SubSeq(lines, 1, m + 1) = Append(s, line)
        <5>1. 0 \in Nat /\ 0 <= m /\ m < Len(lines) /\ 0 + 1 = 1
          BY <1>1, <4>1
        <5>2. SubSeq(lines, 0 + 1, m + 1) = Append(SubSeq(lines, 0 + 1, m), lines[m + 1])
          BY <5>1, SegmentAppend
        <5>3. SubSeq(lines, 0 + 1, m) \in Seq(SourceLine)
          BY <5>1, SegmentTyped
        <5>4. lines[m + 1] \in SourceLine
          BY <1>1, <4>1
        <5> QED
          BY <4>2, <5>1, <5>2, <5>3, <5>4
      <4>4. Good(ParserAfter(Append(s, line)))
        <5>1. d <= n
          BY <1>1, <3>1
        <5>2. Good(ParserAfter(SubSeq(lines, 1, n - d)))
          BY <2>2, <5>1
        <5> QED
          BY <4>1, <4>3, <5>2
      <4>5. PICK p, r : p = ParserAfter(s) /\ r = LineTokens(line, Len(s) + 1)
        OBVIOUS
      <4>6. p \in ParserStates(Tokens) /\ ParserAfter(Append(s, line)) = FoldLeft(ParseToken, p, r)
        BY <4>3, <4>5, ParserAppend
      <4>7. r \in Seq(Tokens)
        <5>1. Len(s) + 1 \in Nat
          BY <4>3
        <5> QED
          BY <4>3, <4>5, <5>1, LineTokensTyped
      <4>8. Good(p)
        BY <4>4, <4>6, <4>7, GoodBeforeLine
      <4> QED
        BY <4>1, <4>2, <4>5, <4>8
    <3> QED
      BY <3>1
  <2> HIDE DEF I
  <2> QED
    BY <2>1, <2>2, Induction
<1>3. n - k \in Nat /\ n - k <= n /\ n - (n - k) = k
  BY <1>1
<1>4. n - k \in I
  <2> HIDE DEF I
  <2> QED
    BY <1>2, <1>3
<1>5. Good(ParserAfter(SubSeq(lines, 1, n - (n - k))))
  BY <1>3, <1>4
<1> QED
  BY <1>3, <1>5

(* A piece of a correct text that begins where nothing is open is read like the text, by    *)
(* its own parser and by the scanner.                                                       *)
LEMMA PieceTracks ==
  ASSUME NEW lines \in Seq(SourceLine), Good(ParserAfter(lines)),
         NEW i \in Nat, NEW k \in Nat, i <= k, k <= Len(lines),
         ParserAfter(SubSeq(lines, 1, i)).mode = "code", ParserAfter(SubSeq(lines, 1, i)).depth = 0
  PROVE  Tracks(ParserAfter(SubSeq(lines, 1, k)), ParserAfter(SubSeq(lines, i + 1, k)),
                 Scan(SubSeq(lines, i + 1, k)), ParserAfter(SubSeq(lines, 1, i)).stmts, i)
<1>1. PICK n \in Nat : n = Len(lines)
  OBVIOUS
<1>2. PICK b : b = ParserAfter(SubSeq(lines, 1, i)).stmts
  OBVIOUS
<1> DEFINE F(m) == Tracks(ParserAfter(SubSeq(lines, 1, m)), ParserAfter(SubSeq(lines, i + 1, m)),
                           Scan(SubSeq(lines, i + 1, m)), b, i)
           I == {d \in Nat : i + d <= n => F(i + d)}
<1>3. \A m \in Nat : m <= n => SubSeq(lines, 1, m) \in Seq(SourceLine) /\ Len(SubSeq(lines, 1, m)) = m
  <2>1. ASSUME NEW m \in Nat, m <= n
        PROVE  SubSeq(lines, 0 + 1, m) \in Seq(SourceLine) /\ Len(SubSeq(lines, 0 + 1, m)) = m - 0
    BY <1>1, <2>1, SegmentTyped
  <2> QED
    BY <2>1
<1>4. /\ ParserAfter(SubSeq(lines, 1, i)) \in ParserStates(Tokens) /\ b \in Seq(Tokens)
      /\ ParserAfter(SubSeq(lines, 1, i)).verdict = "ok"
  <2>1. i <= n /\ i \in 0..n
    BY <1>1
  <2>2. ParserAfter(SubSeq(lines, 1, i)) \in ParserStates(Tokens)
    <3>1. PICK s \in Seq(SourceLine) : s = SubSeq(lines, 1, i)
      BY <1>3, <2>1
    <3>2. \E line : line \in SourceLine
      <4>1. [items |-> <<>>, end |-> "none"] \in SourceLine
        BY DEF SourceLine, LineEnd
      <4> QED
        BY <4>1
    <3> QED
      BY <3>1, <3>2, ParserAppend
  <2>3. Good(ParserAfter(SubSeq(lines, 1, i)))
    BY <1>1, <2>1, GoodPrefix
  <2> QED
    BY <1>2, <2>2, <2>3 DEF Good, ParserStates
<1>5. 0 \in I
  <2>1. i + 0 = i /\ SubSeq(lines, i + 1, i) = <<>>
    BY SubSeqEmpty
  <2>2. ParserAfter(<<>>) = Parser /\ Scan(<<>>) = Scanner
    BY NothingRead
  <2>3. Agree(ParserAfter(SubSeq(lines, 1, i)), Parser, Scanner)
    BY DEF Agree, Parser, Scanner
  <2>4. b = b \o MovedAll(Parser.stmts, i)
    <3>1. MovedAll(Parser.stmts, i) = <<>>
      <4>1. Parser.stmts = <<>>
        BY DEF Parser
      <4>2. MovedAll(<<>>, i) = <<>>
        BY DEF MovedAll
      <4> QED
        BY <4>1, <4>2
    <3> QED
      BY <1>4, <3>1
  <2>5. Tracks(ParserAfter(SubSeq(lines, 1, i)), Parser, Scanner, b, i)
    BY <1>2, <2>3, <2>4 DEF Tracks
  <2>6. F(i)
    BY <2>1, <2>2, <2>5
  <2> HIDE DEF F
  <2> QED
    BY <2>1, <2>6
<1>6. ASSUME NEW d \in Nat, d \in I
      PROVE  d + 1 \in I
  <2>1. ASSUME i + (d + 1) <= n
        PROVE  F(i + (d + 1))
    <3>1. PICK m \in Nat : m = i + d /\ m + 1 = i + (d + 1) /\ i <= m /\ m < n
      BY <1>1, <2>1
    <3>2. F(m)
      <4> HIDE DEF F
      <4>1. i + d <= n
        BY <1>1, <3>1
      <4> QED
        BY <1>6, <3>1, <4>1
    <3>3. PICK whole, piece, line :
            whole = SubSeq(lines, 1, m) /\ piece = SubSeq(lines, i + 1, m) /\ line = lines[m + 1]
      OBVIOUS
    <3>4. /\ whole \in Seq(SourceLine) /\ Len(whole) = m /\ line \in SourceLine
          /\ SubSeq(lines, 1, m + 1) = Append(whole, line)
      <4>1. 0 \in Nat /\ 0 <= m /\ m < Len(lines) /\ 0 + 1 = 1
        BY <1>1, <3>1
      <4>2. SubSeq(lines, 0 + 1, m + 1) = Append(SubSeq(lines, 0 + 1, m), lines[m + 1])
        BY <4>1, SegmentAppend
      <4>3. lines[m + 1] \in SourceLine
        BY <1>1, <3>1
      <4> QED
        BY <1>3, <3>1, <3>3, <4>1, <4>2, <4>3
    <3>5. /\ piece \in Seq(SourceLine) /\ Len(piece) = m - i
          /\ SubSeq(lines, i + 1, m + 1) = Append(piece, line)
      <4>1. m < Len(lines) /\ m <= Len(lines)
        BY <1>1, <3>1
      <4> QED
        BY <3>1, <3>3, <4>1, SegmentAppend, SegmentTyped
    <3>6. PICK p, u, s : p = ParserAfter(whole) /\ u = ParserAfter(piece) /\ s = Scan(piece)
      OBVIOUS
    <3>7. PICK j \in Nat : j = Len(piece) + 1 /\ i + j = m + 1
      <4>1. (m - i) + 1 \in Nat /\ i + ((m - i) + 1) = m + 1
        BY <3>1
      <4> QED
        BY <3>5, <4>1
    <3>8. /\ p \in ParserStates(Tokens) /\ u \in ParserStates(Tokens) /\ s \in ScannerStates
          /\ ParserAfter(Append(whole, line)) = FoldLeft(ParseToken, p, LineTokens(line, i + j))
          /\ ParserAfter(Append(piece, line)) = FoldLeft(ParseToken, u, LineTokens(line, j))
          /\ Scan(Append(piece, line)) = ScanLine(s, line)
      <4>1. p \in ParserStates(Tokens) /\ ParserAfter(Append(whole, line)) = FoldLeft(ParseToken, p, LineTokens(line, m + 1))
        BY <3>4, <3>6, ParserAppend
      <4>2. u \in ParserStates(Tokens) /\ ParserAfter(Append(piece, line)) = FoldLeft(ParseToken, u, LineTokens(line, j))
        BY <3>4, <3>5, <3>6, <3>7, ParserAppend
      <4>3. s \in ScannerStates /\ Scan(Append(piece, line)) = ScanLine(s, line)
        BY <3>4, <3>5, <3>6, ScanAppend
      <4> QED
        BY <3>7, <4>1, <4>2, <4>3
    <3>9. Tracks(p, u, s, b, i)
      BY <3>2, <3>3, <3>6
    <3>10. Good(FoldLeft(ParseToken, p, LineTokens(line, i + j)))
      <4>1. m + 1 \in 0..Len(lines)
        BY <1>1, <3>1
      <4>2. Good(ParserAfter(SubSeq(lines, 1, m + 1)))
        BY <4>1, GoodPrefix
      <4> QED
        BY <3>4, <3>8, <4>2
    <3>11. Tracks(FoldLeft(ParseToken, p, LineTokens(line, i + j)), FoldLeft(ParseToken, u, LineTokens(line, j)),
                   ScanLine(s, line), b, i)
      BY <1>4, <3>4, <3>8, <3>9, <3>10, LineTracks
    <3>12. F(m + 1)
      BY <3>4, <3>5, <3>8, <3>11
    <3> HIDE DEF F
    <3> QED
      BY <3>1, <3>12
  <2> HIDE DEF F
  <2> QED
    BY <2>1
<1>7. Nat \subseteq I
  <2> HIDE DEF I
  <2> QED
    BY <1>5, <1>6, Induction
<1>8. k - i \in Nat /\ i + (k - i) = k /\ k <= n
  BY <1>1
<1>9. k - i \in I
  <2> HIDE DEF I
  <2> QED
    BY <1>7, <1>8
<1>10. F(k)
  <2> HIDE DEF F
  <2> QED
    BY <1>8, <1>9
<1> QED
  BY <1>2, <1>10
-----------------------------------------------------------------------------
(* run_unit *)

Reports == [kind : {"error", "warning", "runtime"}, line : Int]

\* a diagnostic that counts as an error
Reported(reports) == \E i \in DOMAIN reports : reports[i].kind # "warning"

LEMMA ReportedConcat ==
  ASSUME NEW s \in Seq(Reports), NEW t \in Seq(Reports)
  PROVE  s \o t \in Seq(Reports) /\ (Reported(s \o t) <=> Reported(s) \/ Reported(t))
<1>1. /\ s \o t \in Seq(Reports) /\ Len(s \o t) = Len(s) + Len(t)
      /\ \A i \in 1..(Len(s) + Len(t)) : (s \o t)[i] = IF i <= Len(s) THEN s[i] ELSE t[i - Len(s)]
      /\ Len(s) \in Nat /\ Len(t) \in Nat
      /\ DOMAIN s = 1..Len(s) /\ DOMAIN t = 1..Len(t) /\ DOMAIN (s \o t) = 1..(Len(s) + Len(t))
  BY ConcatProperties
<1>2. ASSUME Reported(s \o t)
      PROVE  Reported(s) \/ Reported(t)
  <2>1. PICK i \in 1..(Len(s) + Len(t)) : (s \o t)[i].kind # "warning"
    BY <1>1, <1>2 DEF Reported
  <2>2. CASE i <= Len(s)
    BY <1>1, <2>1, <2>2 DEF Reported
  <2>3. CASE ~(i <= Len(s))
    <3>1. i - Len(s) \in 1..Len(t)
      BY <1>1, <2>3
    <3> QED
      BY <1>1, <2>1, <2>3, <3>1 DEF Reported
  <2> QED
    BY <2>2, <2>3
<1>3. ASSUME NEW i \in DOMAIN s, s[i].kind # "warning"
      PROVE  Reported(s \o t)
  <2>1. i \in 1..(Len(s) + Len(t)) /\ i <= Len(s)
    BY <1>1
  <2>2. (s \o t)[i] = s[i]
    BY <1>1, <2>1
  <2> QED
    BY <1>1, <1>3, <2>1, <2>2 DEF Reported
<1>4. ASSUME NEW i \in DOMAIN t, t[i].kind # "warning"
      PROVE  Reported(s \o t)
  <2>1. i + Len(s) \in 1..(Len(s) + Len(t)) /\ ~(i + Len(s) <= Len(s)) /\ i + Len(s) - Len(s) = i
    BY <1>1
  <2>2. (s \o t)[i + Len(s)] = t[i]
    BY <1>1, <2>1
  <2> QED
    BY <1>1, <1>4, <2>1, <2>2 DEF Reported
<1> QED
  BY <1>1, <1>2, <1>3, <1>4 DEF Reported

LEMMA UnitRuns ==
  ASSUME NEW lines \in Seq(SourceLine), NEW first \in Nat, NEW policy \in Policy,
         NEW r, r = UnitResult(lines, first, policy)
  PROVE  /\ r.outcome \in {"Completed", "Failed", "Quit", "Panicked"}
         /\ r.ran \in Seq(TokensOf(lines)) /\ r.reports \in Seq(Reports)
         /\ \A j \in DOMAIN r.ran : r.ran[j].item \in Statements
         /\ policy = "Reject" => \A j \in DOMAIN r.ran : r.ran[j].item # "ext"
         /\ policy # "Reject" => (Reported(r.reports) <=> r.outcome \in {"Failed", "Panicked"})
<1> DEFINE S == TokensOf(lines)
           p == Parsed(lines)
           stop == SelectInSeq(p.stmts, LAMBDA t : t.item \in {"fail", "panic"})
           used == IF policy = "Allow" THEN <<>>
                   ELSE [i \in DOMAIN p.uses |->
                          [kind |-> IF policy = "Reject" THEN "error" ELSE "warning",
                           line |-> first + p.uses[i] - 1]]
<1>1. p \in ParserStates(S) /\ NotesUses(p)
  <2>1. S \in SUBSET Tokens
    BY DEF TokensOf
  <2> HIDE DEF S
  <2> QED
    BY <2>1, TokensPlaced, ParsedTyped DEF S
<1>2. /\ p.verdict \in {"ok", "syntax", "quit"} /\ p.at \in Nat
      /\ p.uses \in Seq(Nat) /\ p.stmts \in Seq(S)
  BY <1>1 DEF ParserStates
<1>3. used \in Seq(Reports) /\ (policy # "Reject" => ~Reported(used))
  <2>1. CASE policy = "Allow"
    <3>1. used = <<>>
      BY <2>1
    <3> QED
      BY <3>1 DEF Reported
  <2>2. CASE policy # "Allow"
    <3> DEFINE report(i) == [kind |-> IF policy = "Reject" THEN "error" ELSE "warning",
                             line |-> first + p.uses[i] - 1]
    <3>1. used = [i \in 1..Len(p.uses) |-> report(i)] /\ Len(p.uses) \in Nat
      BY <1>2, <2>2
    <3>2. ASSUME NEW i \in 1..Len(p.uses)
          PROVE  report(i) \in Reports /\ (policy # "Reject" => report(i).kind = "warning")
      <4>1. p.uses[i] \in Nat
        BY <1>2, <3>2, SMTT(30)
      <4>2. first + p.uses[i] - 1 \in Int
        BY <4>1
      <4> QED
        BY <4>2 DEF Reports
    <3> HIDE DEF report, used
    <3>3. used \in Seq(Reports)
      BY <3>1, <3>2
    <3>4. DOMAIN used = 1..Len(p.uses) /\ \A i \in 1..Len(p.uses) : used[i] = report(i)
      BY <3>1
    <3> QED
      BY <3>2, <3>3, <3>4 DEF Reported
  <2> QED
    BY <2>1, <2>2
<1>4. stop \in 0..Len(p.stmts)
  <2> DEFINE T == {i \in 1..Len(p.stmts) : p.stmts[i].item \in {"fail", "panic"}}
  <2>1. stop = IF T # {} THEN Min(T) ELSE 0
    BY DEF SelectInSeq
  <2>2. T # {} => Min(T) \in T
    <3>1. T \in SUBSET Nat
      OBVIOUS
    <3> HIDE DEF T
    <3> QED
      BY <3>1, Least DEF Min
  <2>3. Len(p.stmts) \in Nat
    BY <1>2
  <2> HIDE DEF stop
  <2> QED
    BY <2>1, <2>2, <2>3
<1> DEFINE e == << [kind |-> "error", line |-> first + p.at - 1] >>
           f == << [kind |-> "runtime", line |-> 0] >>
<1>5. /\ e \in Seq(Reports) /\ f \in Seq(Reports) /\ <<>> \in Seq(Reports)
      /\ Reported(e) /\ Reported(f) /\ ~Reported(<<>>)
  <2>1. e \in Seq(Reports) /\ f \in Seq(Reports)
    <3>1. first + p.at - 1 \in Int
      BY <1>2
    <3> QED
      BY <3>1 DEF Reports
  <2>2. 1 \in DOMAIN e /\ e[1].kind = "error" /\ 1 \in DOMAIN f /\ f[1].kind = "runtime"
    OBVIOUS
  <2>3. Reported(e) /\ Reported(f)
    BY <2>2 DEF Reported
  <2>4. ~Reported(<<>>) /\ <<>> \in Seq(Reports)
    BY DEF Reported
  <2> QED
    BY <2>1, <2>3, <2>4
<1> DEFINE Is(outcome, ran, report) ==
             r = [outcome |-> outcome, ran |-> ran, reports |-> used \o report]
<1>6. \/ p.verdict = "quit" /\ Is("Quit", <<>>, <<>>)
      \/ p.verdict = "syntax" /\ Is("Failed", <<>>, e)
      \/ p.verdict = "ok" /\ policy = "Reject" /\ p.uses # <<>> /\ Is("Failed", <<>>, <<>>)
      \/ (policy = "Reject" => p.uses = <<>>) /\ Is("Completed", p.stmts, <<>>)
      \/ /\ policy = "Reject" => p.uses = <<>>
         /\ Is("Panicked", SubSeq(p.stmts, 1, stop), f) \/ Is("Failed", SubSeq(p.stmts, 1, stop), f)
  <2> HIDE DEF p, stop, used
  <2> QED
    BY ZenonT(60), <1>2 DEF UnitResult, p, stop, used
<1>7. /\ used \o <<>> \in Seq(Reports) /\ used \o e \in Seq(Reports) /\ used \o f \in Seq(Reports)
      /\ policy # "Reject" => ~Reported(used \o <<>>) /\ Reported(used \o e) /\ Reported(used \o f)
  <2> HIDE DEF used, e, f
  <2>1. \A rep \in {<<>>, e, f} : used \o rep \in Seq(Reports) /\ (Reported(used \o rep) <=> Reported(used) \/ Reported(rep))
    BY <1>3, <1>5, ReportedConcat
  <2> QED
    BY <1>3, <1>5, <2>1
<1> DEFINE Ran(ran) == /\ ran \in Seq(S) /\ \A j \in DOMAIN ran : ran[j].item \in Statements
                       /\ policy = "Reject" => \A j \in DOMAIN ran : ran[j].item # "ext"
<1>8. Ran(<<>>)
  OBVIOUS
<1>9. ASSUME policy = "Reject" => p.uses = <<>>
      PROVE  Ran(p.stmts) /\ Ran(SubSeq(p.stmts, 1, stop))
  <2>1. \A j \in DOMAIN p.stmts : p.stmts[j].item \in Statements /\ (policy = "Reject" => p.stmts[j].item # "ext")
    BY <1>1, <1>9 DEF NotesUses
  <2>2. PICK n \in 0..Len(p.stmts) : n = stop
    BY <1>4
  <2>3. /\ SubSeq(p.stmts, 1, n) \in Seq(S)
        /\ DOMAIN SubSeq(p.stmts, 1, n) = 1..n
        /\ \A j \in 1..n : SubSeq(p.stmts, 1, n)[j] = p.stmts[j] /\ j \in DOMAIN p.stmts
    <3> HIDE DEF p, S
    <3>1. Len(p.stmts) \in Nat /\ DOMAIN p.stmts = 1..Len(p.stmts) /\ n \in Nat
      BY <1>2
    <3>2. \A j \in 1..n : p.stmts[j] \in S /\ j \in DOMAIN p.stmts
      BY <1>2, <3>1
    <3> QED
      BY <1>2, <3>1, <3>2
  <2> HIDE DEF p, S, stop
  <2> QED
    BY <1>2, <2>1, <2>2, <2>3
<1> HIDE DEF p, stop, used, e, f, S, Ran
<1>10. CASE p.verdict = "quit" /\ Is("Quit", <<>>, <<>>)
  BY <1>7, <1>8, <1>10 DEF Ran, S
<1>11. CASE p.verdict = "syntax" /\ Is("Failed", <<>>, e)
  BY <1>7, <1>8, <1>11 DEF Ran, S
<1>12. CASE policy = "Reject" /\ Is("Failed", <<>>, <<>>)
  <2>1. r.ran = <<>> /\ r.reports = used \o <<>> /\ r.outcome = "Failed"
    BY <1>12
  <2> QED
    BY <1>7, <1>8, <1>12, <2>1 DEF Ran, S
<1>13. CASE (policy = "Reject" => p.uses = <<>>) /\ Is("Completed", p.stmts, <<>>)
  BY <1>7, <1>9, <1>13 DEF Ran, S
<1>14. CASE /\ policy = "Reject" => p.uses = <<>>
            /\ Is("Panicked", SubSeq(p.stmts, 1, stop), f) \/ Is("Failed", SubSeq(p.stmts, 1, stop), f)
  <2>1. Ran(SubSeq(p.stmts, 1, stop))
    BY <1>9, <1>14
  <2>2. r.ran = SubSeq(p.stmts, 1, stop) /\ r.reports = used \o f /\ r.outcome \in {"Panicked", "Failed"}
    BY <1>14
  <2> QED
    BY <1>7, <2>1, <2>2 DEF Ran, S
<1> QED
  BY <1>6, <1>10, <1>11, <1>12, <1>13, <1>14

\* a unit that completes where nothing is open and ran what the text has there
RunsPiece(lines, i, k, r) ==
  /\ r.outcome = "Completed" /\ r.ran \in Seq(Tokens)
  /\ ParserAfter(SubSeq(lines, 1, k)).mode = "code" /\ ParserAfter(SubSeq(lines, 1, k)).depth = 0
  /\ ParserAfter(SubSeq(lines, 1, i)).stmts \in Seq(Tokens)
  /\ ParserAfter(SubSeq(lines, 1, k)).stmts =
       ParserAfter(SubSeq(lines, 1, i)).stmts \o MovedAll(r.ran, i)

(* A unit of a correct text that begins where nothing is open completes, ends where nothing *)
(* is open, and runs what the text has in between.                                          *)
LEMMA UnitCompletes ==
  ASSUME NEW lines \in Seq(SourceLine), Good(Parsed(lines)),
         NEW i \in Nat, NEW k \in Nat, i < k, k <= Len(lines),
         ParserAfter(SubSeq(lines, 1, i)).mode = "code", ParserAfter(SubSeq(lines, 1, i)).depth = 0,
         Whole(SubSeq(lines, i + 1, k)) \/ k = Len(lines),
         NEW first, NEW r, r = UnitResult(SubSeq(lines, i + 1, k), first, "Allow")
  PROVE  RunsPiece(lines, i, k, r)
<1>0. \E line : line \in SourceLine
  <2>1. [items |-> <<>>, end |-> "none"] \in SourceLine
    BY DEF SourceLine, LineEnd
  <2> QED
    BY <2>1
<1>1. PICK whole : whole = ParserAfter(lines)
  OBVIOUS
<1>2. whole \in ParserStates(Tokens)
  BY <1>0, <1>1, ParserAppend
<1>3. whole.verdict = "ok" /\ whole.mode = "code" /\ ~(whole.depth > 0) /\ Parsed(lines) = whole
  <2>1. Parsed(lines) = IF whole.verdict = "ok" /\ (whole.mode # "code" \/ whole.depth > 0)
                        THEN [whole EXCEPT !.verdict = "syntax", !.at = EndLine(lines)]
                        ELSE whole
    BY <1>1 DEF Parsed, ParserAfter
  <2>2. [whole EXCEPT !.verdict = "syntax", !.at = EndLine(lines)].verdict = "syntax"
    BY <1>2 DEF ParserStates
  <2>3. Parsed(lines).verdict = "ok"
    BY DEF Good
  <2> QED
    BY <2>1, <2>2, <2>3
<1>4. Good(ParserAfter(lines))
  BY <1>1, <1>3
<1>5. PICK piece, p, u, s, b :
        /\ piece = SubSeq(lines, i + 1, k) /\ p = ParserAfter(SubSeq(lines, 1, k))
        /\ u = ParserAfter(piece) /\ s = Scan(piece) /\ b = ParserAfter(SubSeq(lines, 1, i)).stmts
  OBVIOUS
<1>6. Tracks(p, u, s, b, i)
  <2>1. i <= k
    OBVIOUS
  <2> QED
    BY <1>4, <1>5, <2>1, PieceTracks
<1>7. Good(p)
  <2>1. k \in 0..Len(lines)
    OBVIOUS
  <2> QED
    BY <1>4, <1>5, <2>1, GoodPrefix
<1>8. piece \in Seq(SourceLine) /\ piece # <<>>
  <2>1. i <= k
    OBVIOUS
  <2>2. piece \in Seq(SourceLine) /\ Len(piece) = k - i
    BY <1>5, <2>1, SegmentTyped
  <2>3. k - i # 0
    OBVIOUS
  <2> QED
    BY <2>2, <2>3, EmptySeq
<1>9. u \in ParserStates(Tokens) /\ u.stmts \in Seq(Tokens)
  <2>1. u \in ParserStates(Tokens)
    BY <1>0, <1>5, <1>8, ParserAppend
  <2> QED
    BY <2>1 DEF ParserStates
<1>10. b \in Seq(Tokens)
  <2>1. 0 \in Nat /\ 0 <= i /\ i <= Len(lines) /\ 0 + 1 = 1
    OBVIOUS
  <2>2. SubSeq(lines, 0 + 1, i) \in Seq(SourceLine)
    BY <2>1, SegmentTyped
  <2>3. ParserAfter(SubSeq(lines, 1, i)) \in ParserStates(Tokens)
    BY <1>0, <2>1, <2>2, ParserAppend
  <2> QED
    BY <1>5, <2>3 DEF ParserStates
<1>11. /\ u.verdict = "ok" /\ u.mode = p.mode /\ u.depth = p.depth /\ u.depth \in Nat
       /\ s.depth = u.depth
       /\ s.comment <=> u.mode = "comment"
       /\ s.string <=> u.mode = "string"
       /\ p.stmts = b \o MovedAll(u.stmts, i)
       /\ u.mode \in {"code", "comment", "string"}
  BY <1>6, <1>9 DEF Tracks, Agree, ParserStates
<1>12. u.mode = "code" /\ u.depth = 0
  <2>1. CASE Whole(SubSeq(lines, i + 1, k))
    <3>1. ~(s.depth > 0 \/ s.comment \/ s.string)
      BY <1>5, <2>1 DEF Whole, Incomplete, Scan
    <3>2. ~(u.depth > 0)
      BY <1>11, <3>1
    <3> QED
      BY <1>11, <3>1, <3>2
  <2>2. CASE k = Len(lines)
    <3>1. p = whole
      <4>1. SubSeq(lines, 1, k) = lines
        BY <2>2
      <4> QED
        BY <1>1, <1>5, <4>1
    <3> QED
      BY <1>3, <1>11, <3>1
  <2> QED
    BY <2>1, <2>2
<1>13. Parsed(piece) = u
  <2>1. ~(u.depth > 0)
    BY <1>12
  <2> QED
    BY <1>5, <1>12, <2>1 DEF Parsed, ParserAfter
<1>14. PICK w \in Seq(Tokens) : w = u.stmts
  BY <1>9
<1>15. \A j \in 1..Len(w) : w[j].item \in {"stmt", "ext"}
  <2>1. PICK m : m = MovedAll(w, i)
    OBVIOUS
  <2>2. m \in Seq(Tokens) /\ Len(m) = Len(w) /\ \A j \in 1..Len(w) : m[j] = Moved(w[j], i)
    <3>1. \E t : t \in Tokens
      <4>1. [item |-> "bad", line |-> 0, column |-> 0, next |-> 0] \in Tokens
        BY DEF Tokens, Item
      <4> QED
        BY <4>1
    <3>2. m \in Seq(Tokens) /\ Len(m) = Len(w)
      BY <1>10, <2>1, <3>1, MovedAppend
    <3>3. DOMAIN w = 1..Len(w)
      OBVIOUS
    <3> QED
      BY <2>1, <3>2, <3>3 DEF MovedAll
  <2>3. ASSUME NEW j \in 1..Len(w)
        PROVE  w[j].item \in {"stmt", "ext"}
    <3>1. /\ Len(b \o m) = Len(b) + Len(w) /\ Len(b) \in Nat /\ Len(w) \in Nat
          /\ \A x \in 1..(Len(b) + Len(w)) : (b \o m)[x] = IF x <= Len(b) THEN b[x] ELSE m[x - Len(b)]
          /\ DOMAIN (b \o m) = 1..(Len(b) + Len(w))
      <4>1. b \in Seq(Tokens) /\ m \in Seq(Tokens)
        BY <1>10, <2>2
      <4>2. /\ Len(b \o m) = Len(b) + Len(m) /\ Len(b) \in Nat /\ Len(m) \in Nat
            /\ \A x \in 1..(Len(b) + Len(m)) : (b \o m)[x] = IF x <= Len(b) THEN b[x] ELSE m[x - Len(b)]
            /\ DOMAIN (b \o m) = 1..(Len(b) + Len(m))
        BY <4>1, ConcatProperties
      <4> QED
        BY <2>2, <4>2
    <3>2. Len(b) + j \in 1..(Len(b) + Len(w)) /\ ~(Len(b) + j <= Len(b)) /\ (Len(b) + j) - Len(b) = j
      BY <2>3, <3>1
    <3>3. (b \o m)[Len(b) + j] = m[j]
      BY <3>1, <3>2
    <3>4. p.stmts = b \o m
      BY <1>11, <1>14, <2>1
    <3>5. m[j].item \in {"stmt", "ext"}
      BY <1>7, <3>1, <3>2, <3>3, <3>4 DEF Good
    <3>6. w[j] \in Tokens
      BY <2>3
    <3> QED
      BY <2>2, <2>3, <3>5, <3>6, MovedTyped
  <2> QED
    BY <2>3
<1> DEFINE stop == SelectInSeq(u.stmts, LAMBDA t : t.item \in {"fail", "panic"})
<1>16. stop = 0
  <2> DEFINE T == {j \in 1..Len(w) : w[j].item \in {"fail", "panic"}}
  <2>1. stop = IF T # {} THEN Min(T) ELSE 0
    BY <1>14 DEF SelectInSeq
  <2>2. T = {}
    BY <1>15
  <2> HIDE DEF stop, T
  <2> QED
    BY <2>1, <2>2
<1>17. r = [outcome |-> "Completed", ran |-> u.stmts, reports |-> <<>> \o <<>>]
  <2> HIDE DEF stop
  <2> QED
    BY <1>5, <1>11, <1>13, <1>16 DEF UnitResult, stop
<1>18. r.outcome = "Completed" /\ r.ran = u.stmts
  BY <1>17
<1> QED
  BY <1>5, <1>9, <1>10, <1>11, <1>12, <1>18 DEF RunsPiece
=============================================================================
