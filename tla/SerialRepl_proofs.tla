-------------------------- MODULE SerialRepl_proofs --------------------------
(***************************************************************************)
(* Proofs about SerialRepl, for any characters, any size of the line       *)
(* buffer and any number of rows: what is run is what the terminal shows.  *)
(* The scanner and the parser are not expanded: the proofs hold whatever   *)
(* they decide.                                                            *)
(***************************************************************************)
EXTENDS SerialRepl, InputText_proofs, FiniteSetTheorems, SequenceTheorems, TLAPS

(* Sequences *)

LEMMA EntriesIn ==
  ASSUME NEW S, NEW T, NEW s \in Seq(S), \A i \in 1..Len(s) : s[i] \in T
  PROVE  s \in Seq(T)
<1>1. DOMAIN s = 1..Len(s) /\ Len(s) \in Nat /\ s = [i \in 1..Len(s) |-> s[i]]
  OBVIOUS
<1> QED
  BY <1>1

LEMMA FrontIs ==
  ASSUME NEW S, NEW s \in Seq(S), s # <<>>
  PROVE  SubSeq(s, 1, Len(s) - 1) \in Seq(S) /\ Len(SubSeq(s, 1, Len(s) - 1)) < Len(s)
<1>1. Len(s) \in Nat \ {0} /\ \A i \in 1..(Len(s) - 1) : s[i] \in S
  BY EmptySeq
<1>2. PICK n : n = Len(s) - 1
  OBVIOUS
<1>3. n \in Nat /\ 1 \in Int /\ n < Len(s) /\ \A i \in 1..n : s[i] \in S
  BY <1>1, <1>2
<1>4. SubSeq(s, 1, n) \in Seq(S) /\ Len(SubSeq(s, 1, n)) = IF 1 <= n THEN n - 1 + 1 ELSE 0
  BY <1>3, SubSeqProperties
<1> QED
  BY <1>2, <1>3, <1>4

LEMMA LastReplaced ==
  ASSUME NEW S, NEW s \in Seq(S), NEW n \in Nat \ {0}, n = Len(s), NEW e \in S
  PROVE  /\ [s EXCEPT ![n] = e] \in Seq(S) /\ Len([s EXCEPT ![n] = e]) = n
         /\ [s EXCEPT ![n] = e][n] = e
         /\ \A i \in 1..(n - 1) : [s EXCEPT ![n] = e][i] = s[i]
<1>1. n \in 1..Len(s)
  OBVIOUS
<1> QED
  BY <1>1

LEMMA RowAdded ==
  ASSUME NEW S, NEW s \in Seq(S), NEW e \in S
  PROVE  /\ s \o <<e>> \in Seq(S) /\ Len(s \o <<e>>) = Len(s) + 1
         /\ (s \o <<e>>)[Len(s) + 1] = e
         /\ \A i \in 1..Len(s) : (s \o <<e>>)[i] = s[i]
<1>1. s \o <<e>> = Append(s, e)
  OBVIOUS
<1> QED
  BY <1>1, AppendProperties
-----------------------------------------------------------------------------
(* Groups of rows *)

\* Begin, Group and EnteredBefore of any rows s
BeginOf(s, k) == CHOOSE j \in 1..k : s[j].prompt = "bc" /\ \A i \in (j + 1)..k : s[i].prompt # "bc"
GroupOf(s, k) == [j \in 1..(k - BeginOf(s, k) + 1) |-> AsLine(s[BeginOf(s, k) + j - 1].text)]
EnteredOf(s, k) == Cardinality({j \in 1..(k - 1) : s[j].entered})

LEMMA OfRows ==
  /\ \A k : Begin(k) = BeginOf(rows, k) /\ Group(k) = GroupOf(rows, k) /\ EnteredBefore(k) = EnteredOf(rows, k)
  /\ \A k : Begin(k)' = BeginOf(rows', k) /\ Group(k)' = GroupOf(rows', k) /\ EnteredBefore(k)' = EnteredOf(rows', k)
BY DEF Begin, Group, EnteredBefore, BeginOf, GroupOf, EnteredOf

LEMMA LineTyped ==
  ASSUME NEW t \in Seq(Chars)
  PROVE  AsLine(t) \in Lines
<1>1. ASSUME NEW u \in Seq(Chars)
      PROVE  AsItems(u) \in Seq(Item)
  <2>1. "bad" \in Item /\ Chars \subseteq Item \union {"backslash"}
    BY SerialConstantsOK DEF Item
  <2>2. \A i \in DOMAIN u : (IF u[i] = "backslash" THEN "bad" ELSE u[i]) \in Item
    BY <1>1, <2>1
  <2>3. DOMAIN u = 1..Len(u) /\ Len(u) \in Nat
    BY <1>1
  <2> QED
    BY <2>2, <2>3 DEF AsItems
<1>2. t # <<>> => Front(t) \in Seq(Chars)
  BY DEF Front
<1> QED
  BY <1>1, <1>2 DEF AsLine, Lines

LEMMA BeginIs ==
  ASSUME NEW s \in Seq(Row), NEW k \in 1..Len(s), s[1].prompt = "bc"
  PROVE  /\ BeginOf(s, k) \in 1..k /\ s[BeginOf(s, k)].prompt = "bc"
         /\ \A i \in (BeginOf(s, k) + 1)..k : s[i].prompt # "bc"
<1> DEFINE T == {n \in Nat : n < k /\ s[k - n].prompt = "bc"}
<1>1. k - 1 \in T /\ T \in SUBSET Nat
  <2>1. k - 1 \in Nat /\ k - 1 < k /\ k - (k - 1) = 1
    OBVIOUS
  <2> QED
    BY <2>1
<1>2. PICK n \in T : \A m \in T : n <= m
  <2> HIDE DEF T
  <2> QED
    BY <1>1, Least
<1>3. k - n \in 1..k /\ s[k - n].prompt = "bc"
  BY <1>2
<1>4. ASSUME NEW i \in (k - n + 1)..k, s[i].prompt = "bc"
      PROVE  FALSE
  <2>1. k - i \in Nat /\ k - i < k /\ k - (k - i) = i /\ ~(n <= k - i)
    BY <1>2, <1>4
  <2>2. k - i \in T
    BY <1>4, <2>1
  <2> QED
    BY <1>2, <2>1, <2>2
<1>5. \E j \in 1..k : s[j].prompt = "bc" /\ \A i \in (j + 1)..k : s[i].prompt # "bc"
  BY <1>3, <1>4
<1> QED
  BY <1>5 DEF BeginOf

LEMMA BeginUnique ==
  ASSUME NEW s \in Seq(Row), NEW k \in 1..Len(s), s[1].prompt = "bc",
         NEW j \in 1..k, s[j].prompt = "bc", \A i \in (j + 1)..k : s[i].prompt # "bc"
  PROVE  BeginOf(s, k) = j
<1>1. PICK b : b = BeginOf(s, k)
  OBVIOUS
<1>2. b \in 1..k /\ s[b].prompt = "bc" /\ \A i \in (b + 1)..k : s[i].prompt # "bc"
  BY <1>1, BeginIs
<1>3. ~(b \in (j + 1)..k) /\ ~(j \in (b + 1)..k)
  BY <1>2
<1> QED
  BY <1>1, <1>2, <1>3

(* A group is the lines of its rows, at least one. *)
LEMMA GroupIs ==
  ASSUME NEW s \in Seq(Row), NEW k \in 1..Len(s), s[1].prompt = "bc", NEW b, b = BeginOf(s, k)
  PROVE  /\ GroupOf(s, k) \in Seq(Lines) /\ Len(GroupOf(s, k)) = k - b + 1
         /\ \A j \in 1..(k - b + 1) : GroupOf(s, k)[j] = AsLine(s[b + j - 1].text)
<1>1. b \in 1..k
  BY BeginIs
<1>2. PICK n : n = k - b + 1
  OBVIOUS
<1>3. n \in Nat /\ \A j \in 1..n : b + j - 1 \in 1..Len(s)
  BY <1>1, <1>2
<1>4. GroupOf(s, k) = [j \in 1..n |-> AsLine(s[b + j - 1].text)]
  BY <1>2 DEF GroupOf
<1>5. ASSUME NEW j \in 1..n
      PROVE  AsLine(s[b + j - 1].text) \in Lines
  <2>1. s[b + j - 1] \in Row
    BY <1>3, <1>5
  <2> QED
    BY <2>1, LineTyped DEF Row
<1>6. GroupOf(s, k) \in [1..n -> Lines]
  BY <1>4, <1>5
<1>7. GroupOf(s, k) \in Seq(Lines) /\ Len(GroupOf(s, k)) = n
  BY <1>3, <1>6
<1> QED
  BY <1>2, <1>4, <1>7

(* Rows up to k that are the same in s and t make the same group. *)
LEMMA SameGroup ==
  ASSUME NEW s \in Seq(Row), NEW t \in Seq(Row), NEW k \in Nat \ {0}, k <= Len(s), k <= Len(t),
         s[1].prompt = "bc", \A i \in 1..k : t[i].prompt = s[i].prompt
  PROVE  /\ BeginOf(t, k) = BeginOf(s, k)
         /\ (\A i \in 1..k : t[i].text = s[i].text) => GroupOf(t, k) = GroupOf(s, k)
<1>1. k \in 1..Len(s) /\ k \in 1..Len(t) /\ 1 \in 1..k /\ t[1].prompt = "bc"
  BY 1 \in 1..k
<1>2. PICK b : b = BeginOf(s, k)
  OBVIOUS
<1>3. b \in 1..k /\ s[b].prompt = "bc" /\ \A i \in (b + 1)..k : s[i].prompt # "bc"
  BY <1>1, <1>2, BeginIs
<1>4. t[b].prompt = "bc" /\ \A i \in (b + 1)..k : t[i].prompt # "bc"
  <2>1. \A i \in (b + 1)..k : i \in 1..k
    BY <1>3
  <2> QED
    BY <1>3, <2>1
<1>5. BeginOf(t, k) = b
  BY <1>1, <1>3, <1>4, BeginUnique
<1>6. ASSUME \A i \in 1..k : t[i].text = s[i].text
      PROVE  GroupOf(t, k) = GroupOf(s, k)
  <2>1. \A j \in 1..(k - b + 1) : b + j - 1 \in 1..k
    BY <1>3
  <2>2. \A j \in 1..(k - b + 1) : AsLine(t[b + j - 1].text) = AsLine(s[b + j - 1].text)
    BY <1>6, <2>1
  <2>3. GroupOf(t, k) = [j \in 1..(k - b + 1) |-> AsLine(t[b + j - 1].text)]
    BY <1>5 DEF GroupOf
  <2>4. GroupOf(s, k) = [j \in 1..(k - b + 1) |-> AsLine(s[b + j - 1].text)]
    BY <1>2 DEF GroupOf
  <2> QED
    BY <2>2, <2>3, <2>4
<1> QED
  BY <1>2, <1>5, <1>6

(* A row with a prompt "bc" is a group of its own. *)
LEMMA GroupBegins ==
  ASSUME NEW s \in Seq(Row), NEW k \in 1..Len(s), s[1].prompt = "bc", s[k].prompt = "bc"
  PROVE  BeginOf(s, k) = k /\ GroupOf(s, k) = Append(<<>>, AsLine(s[k].text))
<1>1. BeginOf(s, k) = k
  <2>1. k \in 1..k /\ \A i \in (k + 1)..k : s[i].prompt # "bc"
    OBVIOUS
  <2> QED
    BY <2>1, BeginUnique
<1>2. k - k + 1 = 1 /\ 1 \in 1..1 /\ k + 1 - 1 = k
  OBVIOUS
<1>3. PICK g : g = GroupOf(s, k)
  OBVIOUS
<1>4. g \in Seq(Lines) /\ Len(g) = 1 /\ g[1] = AsLine(s[k].text)
  <2>1. /\ GroupOf(s, k) \in Seq(Lines) /\ Len(GroupOf(s, k)) = k - k + 1
        /\ \A j \in 1..(k - k + 1) : GroupOf(s, k)[j] = AsLine(s[k + j - 1].text)
    BY <1>1, GroupIs
  <2> QED
    BY <1>2, <1>3, <2>1
<1>5. g = << AsLine(s[k].text) >>
  BY <1>4
<1> QED
  BY <1>1, <1>3, <1>5

(* Any other row continues the group of the row before it. *)
LEMMA GroupContinues ==
  ASSUME NEW s \in Seq(Row), NEW k \in Nat \ {0}, k + 1 <= Len(s), s[1].prompt = "bc",
         s[k + 1].prompt # "bc"
  PROVE  /\ BeginOf(s, k + 1) = BeginOf(s, k)
         /\ GroupOf(s, k + 1) = Append(GroupOf(s, k), AsLine(s[k + 1].text))
<1>1. k \in 1..Len(s) /\ k + 1 \in 1..Len(s)
  OBVIOUS
<1>2. PICK b, m : b = BeginOf(s, k) /\ m = k - b + 1
  OBVIOUS
<1>3. b \in 1..k /\ s[b].prompt = "bc" /\ \A i \in (b + 1)..k : s[i].prompt # "bc"
  BY <1>1, <1>2, BeginIs
<1>4. BeginOf(s, k + 1) = b
  <2>1. b \in 1..(k + 1)
    BY <1>3
  <2>2. \A i \in (b + 1)..(k + 1) : i \in (b + 1)..k \/ i = k + 1
    BY <1>3
  <2>3. \A i \in (b + 1)..(k + 1) : s[i].prompt # "bc"
    BY <1>3, <2>2
  <2> QED
    BY <1>1, <1>3, <2>1, <2>3, BeginUnique
<1>5. PICK g, h : g = GroupOf(s, k) /\ h = GroupOf(s, k + 1)
  OBVIOUS
<1>6. /\ g \in Seq(Lines) /\ Len(g) = m
      /\ \A j \in 1..m : g[j] = AsLine(s[b + j - 1].text)
  BY <1>1, <1>2, <1>5, GroupIs
<1>7. m \in Nat /\ (k + 1) - b + 1 = m + 1 /\ b + (m + 1) - 1 = k + 1 /\ m + 1 \in 1..(m + 1)
  <2>1. b \in Nat /\ b <= k /\ m = k - b + 1
    BY <1>2, <1>3
  <2> QED
    BY <2>1
<1>8. /\ h \in Seq(Lines) /\ Len(h) = m + 1
      /\ \A j \in 1..(m + 1) : h[j] = AsLine(s[b + j - 1].text)
  <2>1. /\ GroupOf(s, k + 1) \in Seq(Lines) /\ Len(GroupOf(s, k + 1)) = (k + 1) - b + 1
        /\ \A j \in 1..((k + 1) - b + 1) : GroupOf(s, k + 1)[j] = AsLine(s[b + j - 1].text)
    BY <1>1, <1>4, GroupIs
  <2> QED
    BY <1>5, <1>7, <2>1
<1>9. PICK e : e = AsLine(s[k + 1].text)
  OBVIOUS
<1>10. e \in Lines /\ h[m + 1] = e
  BY <1>7, <1>8, <1>9
<1>11. /\ Append(g, e) \in Seq(Lines) /\ Len(Append(g, e)) = m + 1
       /\ \A j \in 1..m : Append(g, e)[j] = g[j]
       /\ Append(g, e)[m + 1] = e
  BY <1>6, <1>7, <1>10, AppendProperties
<1>12. \A j \in 1..(m + 1) : h[j] = Append(g, e)[j]
  <2>1. \A j \in 1..(m + 1) : j \in 1..m \/ j = m + 1
    BY <1>7
  <2> QED
    BY <1>6, <1>8, <1>10, <1>11, <2>1
<1>13. h = Append(g, e)
  BY <1>8, <1>11, <1>12, SeqEqual
<1> QED
  BY <1>2, <1>4, <1>5, <1>9, <1>13

(* A group is known by its last row and the lines before it. *)
LEMMA GroupEdited ==
  ASSUME NEW s \in Seq(Row), NEW t \in Seq(Row), NEW k \in Nat \ {0}, k <= Len(s), k <= Len(t),
         s[1].prompt = "bc", \A i \in 1..(k - 1) : t[i] = s[i], t[k].prompt = s[k].prompt
  PROVE  \A before \in Seq(Lines) : GroupOf(s, k) = Append(before, AsLine(s[k].text)) =>
                                     GroupOf(t, k) = Append(before, AsLine(t[k].text))
<1>1. k \in 1..Len(s) /\ k \in 1..Len(t)
  OBVIOUS
<1>2. \A i \in 1..k : t[i].prompt = s[i].prompt
  <2>1. \A i \in 1..k : i \in 1..(k - 1) \/ i = k
    OBVIOUS
  <2> QED
    BY <2>1
<1>3. t[1].prompt = "bc"
  BY <1>1, <1>2
<1>4. PICK b, m, g, h : b = BeginOf(s, k) /\ m = k - b + 1 /\ g = GroupOf(s, k) /\ h = GroupOf(t, k)
  OBVIOUS
<1>5. BeginOf(t, k) = b
  BY <1>2, <1>4, SameGroup
<1>6. b \in 1..k
  BY <1>1, <1>4, BeginIs
<1>7. /\ g \in Seq(Lines) /\ Len(g) = m /\ \A j \in 1..m : g[j] = AsLine(s[b + j - 1].text)
      /\ h \in Seq(Lines) /\ Len(h) = m /\ \A j \in 1..m : h[j] = AsLine(t[b + j - 1].text)
  <2>1. g \in Seq(Lines) /\ Len(g) = m /\ \A j \in 1..m : g[j] = AsLine(s[b + j - 1].text)
    <3>1. /\ GroupOf(s, k) \in Seq(Lines) /\ Len(GroupOf(s, k)) = k - b + 1
          /\ \A j \in 1..(k - b + 1) : GroupOf(s, k)[j] = AsLine(s[b + j - 1].text)
      <4>1. b = BeginOf(s, k)
        BY <1>4
      <4> QED
        BY <1>1, <4>1, GroupIs
    <3> QED
      BY <1>4, <3>1
  <2>2. h \in Seq(Lines) /\ Len(h) = m /\ \A j \in 1..m : h[j] = AsLine(t[b + j - 1].text)
    BY <1>1, <1>3, <1>4, <1>5, GroupIs
  <2> QED
    BY <2>1, <2>2
<1>8. m \in Nat \ {0} /\ b + m - 1 = k /\ \A j \in 1..(m - 1) : b + j - 1 \in 1..(k - 1)
  <2>1. b \in Nat \ {0} /\ b <= k /\ m = k - b + 1
    BY <1>4, <1>6, SMTT(30)
  <2>2. m \in Nat \ {0} /\ b + m - 1 = k
    BY <2>1
  <2>3. \A j \in 1..(m - 1) : b + j - 1 \in 1..(k - 1)
    BY <2>1, <2>2
  <2> QED
    BY <2>2, <2>3
<1>9. PICK d, e : d = AsLine(s[k].text) /\ e = AsLine(t[k].text)
  OBVIOUS
<1>10. d \in Lines /\ e \in Lines
  <2>1. s[k] \in Row /\ t[k] \in Row
    BY <1>1
  <2> QED
    BY <1>9, <2>1, LineTyped DEF Row
<1>11. ASSUME NEW before \in Seq(Lines), GroupOf(s, k) = Append(before, AsLine(s[k].text))
       PROVE  GroupOf(t, k) = Append(before, AsLine(t[k].text))
  <2>1. /\ Len(before) = m - 1 /\ \A j \in 1..(m - 1) : g[j] = before[j]
    <3>1. /\ Len(Append(before, d)) = Len(before) + 1 /\ Len(before) \in Nat
          /\ \A j \in 1..Len(before) : Append(before, d)[j] = before[j]
      BY <1>10, AppendProperties
    <3>2. g = Append(before, d)
      BY <1>4, <1>9, <1>11
    <3>3. Len(before) = m - 1
      BY <1>7, <1>8, <3>1, <3>2
    <3> QED
      BY <3>1, <3>2, <3>3
  <2>2. /\ Append(before, e) \in Seq(Lines) /\ Len(Append(before, e)) = m
        /\ \A j \in 1..(m - 1) : Append(before, e)[j] = before[j]
        /\ Append(before, e)[m] = e
    <3>1. /\ Append(before, e) \in Seq(Lines) /\ Len(Append(before, e)) = Len(before) + 1
          /\ \A j \in 1..Len(before) : Append(before, e)[j] = before[j]
          /\ Append(before, e)[Len(before) + 1] = e
      BY <1>10, AppendProperties
    <3>2. Len(before) + 1 = m
      BY <1>8, <2>1
    <3> QED
      BY <2>1, <3>1, <3>2
  <2>3. \A j \in 1..m : h[j] = Append(before, e)[j]
    <3>1. ASSUME NEW j \in 1..m
          PROVE  h[j] = Append(before, e)[j]
      <4>1. CASE j = m
        BY <1>7, <1>8, <1>9, <2>2, <4>1
      <4>2. CASE j # m
        <5>1. j \in 1..(m - 1) /\ b + j - 1 \in 1..(k - 1)
          BY <1>8, <4>2
        <5>2. t[b + j - 1] = s[b + j - 1]
          BY <5>1
        <5>3. h[j] = g[j]
          BY <1>7, <5>2
        <5> QED
          BY <2>1, <2>2, <5>1, <5>3
      <4> QED
        BY <4>1, <4>2
    <3> QED
      BY <3>1
  <2>4. h = Append(before, e)
    BY <1>7, <2>2, <2>3, SeqEqual
  <2> QED
    BY <1>4, <1>9, <2>4
<1> QED
  BY <1>11
-----------------------------------------------------------------------------
(* Counting the rows entered *)

LEMMA EnteredCounts ==
  ASSUME NEW s \in Seq(Row), NEW k \in Nat \ {0}, k <= Len(s)
  PROVE  /\ EnteredOf(s, k) \in Nat
         /\ EnteredOf(s, k + 1) = IF s[k].entered THEN EnteredOf(s, k) + 1 ELSE EnteredOf(s, k)
<1> DEFINE upto == {j \in 1..(k - 1) : s[j].entered}
<1>1. IsFiniteSet(1..(k - 1))
  BY FS_Interval
<1>2. upto \in SUBSET (1..(k - 1))
  OBVIOUS
<1>3. IsFiniteSet(upto) /\ k \notin upto
  BY <1>1, <1>2, FS_Subset
<1>4. Cardinality(upto) \in Nat
  BY <1>3, FS_CardinalityType
<1>5. EnteredOf(s, k) = Cardinality(upto)
  BY DEF EnteredOf
<1>6. CASE s[k].entered
  <2>1. {j \in 1..((k + 1) - 1) : s[j].entered} = upto \union {k}
    BY <1>6
  <2>2. Cardinality(upto \union {k}) = Cardinality(upto) + 1
    BY <1>3, FS_AddElement
  <2>3. EnteredOf(s, k + 1) = Cardinality(upto \union {k})
    BY <2>1 DEF EnteredOf
  <2> QED
    BY <1>4, <1>5, <1>6, <2>2, <2>3
<1>7. CASE ~s[k].entered
  <2>1. {j \in 1..((k + 1) - 1) : s[j].entered} = upto
    BY <1>7
  <2>2. EnteredOf(s, k + 1) = Cardinality(upto)
    BY <2>1 DEF EnteredOf
  <2> QED
    BY <1>4, <1>5, <1>7, <2>2
<1> QED
  BY <1>6, <1>7

LEMMA SameCount ==
  ASSUME NEW s, NEW t, NEW k \in Nat, \A i \in 1..(k - 1) : t[i] = s[i]
  PROVE  EnteredOf(t, k) = EnteredOf(s, k)
<1>1. {j \in 1..(k - 1) : t[j].entered} = {j \in 1..(k - 1) : s[j].entered}
  OBVIOUS
<1> QED
  BY <1>1 DEF EnteredOf
-----------------------------------------------------------------------------
(* What is run and what is shown, of any rows s and units r *)

Complete(s) == {k \in DOMAIN s : s[k].entered /\ Whole(GroupOf(s, k))}
RanOK(s, r) ==
  /\ \A i \in DOMAIN r : r[i].lines = GroupOf(s, r[i].row)
  /\ \A i \in DOMAIN r : r[i].first = 1 + EnteredOf(s, BeginOf(s, r[i].row))
  /\ {r[i].row : i \in DOMAIN r} = Complete(s)
  /\ \A i, j \in DOMAIN r : i < j => r[i].row < r[j].row

LEMMA OfRan ==
  /\ ExecutedIsShown /\ GroupsRunOnce /\ NumbersFollowRows <=> RanOK(rows, ran)
  /\ (ExecutedIsShown /\ GroupsRunOnce /\ NumbersFollowRows)' <=> RanOK(rows', ran')
<1>1. ExecutedIsShown /\ GroupsRunOnce /\ NumbersFollowRows <=> RanOK(rows, ran)
  BY OfRows DEF ExecutedIsShown, GroupsRunOnce, NumbersFollowRows, RanOK, Complete
<1>2. (ExecutedIsShown /\ GroupsRunOnce /\ NumbersFollowRows)' <=> RanOK(rows', ran')
  BY OfRows DEF ExecutedIsShown, GroupsRunOnce, NumbersFollowRows, RanOK, Complete
<1> QED
  BY <1>1, <1>2

(* t is s after the last row was changed, and perhaps rows were added that are not entered. *)
Extends(t, s) ==
  /\ Len(s) <= Len(t)
  /\ \A i \in 1..(Len(s) - 1) : t[i] = s[i]
  /\ t[Len(s)].prompt = s[Len(s)].prompt /\ ~s[Len(s)].entered
  /\ \A i \in (Len(s) + 1)..Len(t) : ~t[i].entered

LEMMA OldRows ==
  ASSUME NEW s \in Seq(Row), NEW t \in Seq(Row), s # <<>>, s[1].prompt = "bc", Extends(t, s), NEW n, n = Len(s)
  PROVE  /\ n \in Nat \ {0} /\ n <= Len(t) /\ t[1].prompt = "bc"
         /\ BeginOf(s, n) \in 1..n /\ BeginOf(t, n) = BeginOf(s, n)
         /\ EnteredOf(t, n) = EnteredOf(s, n)
         /\ EnteredOf(t, BeginOf(t, n)) = EnteredOf(s, BeginOf(s, n))
         /\ \A k \in 1..(n - 1) : /\ t[k] = s[k] /\ GroupOf(t, k) = GroupOf(s, k)
                                  /\ EnteredOf(t, BeginOf(t, k)) = EnteredOf(s, BeginOf(s, k))
<1>1. n \in Nat \ {0} /\ Len(t) \in Nat /\ n <= Len(t)
  BY DEF Extends
<1>2. \A i \in 1..(n - 1) : t[i] = s[i]
  BY DEF Extends
<1>3. \A i \in 1..n : t[i].prompt = s[i].prompt
  <2>1. \A i \in 1..n : i \in 1..(n - 1) \/ i = n
    BY <1>1
  <2> QED
    BY <1>2, <2>1 DEF Extends
<1>4. t[1].prompt = "bc"
  <2>1. 1 \in 1..n
    BY <1>1
  <2> QED
    BY <1>3, <2>1
<1>5. ASSUME NEW k \in 1..n
      PROVE  /\ BeginOf(s, k) \in 1..k /\ BeginOf(t, k) = BeginOf(s, k)
             /\ EnteredOf(t, BeginOf(t, k)) = EnteredOf(s, BeginOf(s, k))
  <2>1. k \in Nat \ {0} /\ k <= Len(s) /\ k <= Len(t) /\ k \in 1..Len(s) /\ \A i \in 1..k : i \in 1..n
    BY <1>1, <1>5
  <2>2. \A i \in 1..k : t[i].prompt = s[i].prompt
    BY <1>3, <2>1
  <2>3. BeginOf(t, k) = BeginOf(s, k)
    BY <2>1, <2>2, SameGroup
  <2>4. PICK b : b = BeginOf(s, k)
    OBVIOUS
  <2>5. b \in 1..k
    BY <2>1, <2>4, BeginIs
  <2>6. b \in Nat /\ \A i \in 1..(b - 1) : i \in 1..(n - 1)
    BY <1>1, <1>5, <2>5
  <2>7. EnteredOf(t, b) = EnteredOf(s, b)
    BY <1>2, <2>6, SameCount
  <2> QED
    BY <2>3, <2>4, <2>5, <2>7
<1>6. ASSUME NEW k \in 1..(n - 1)
      PROVE  /\ t[k] = s[k] /\ GroupOf(t, k) = GroupOf(s, k)
             /\ EnteredOf(t, BeginOf(t, k)) = EnteredOf(s, BeginOf(s, k))
  <2>1. k \in Nat \ {0} /\ k <= Len(s) /\ k <= Len(t) /\ k \in 1..n /\ \A i \in 1..k : i \in 1..(n - 1)
    BY <1>1, <1>6
  <2>2. \A i \in 1..k : t[i].prompt = s[i].prompt /\ t[i].text = s[i].text
    BY <1>2, <2>1
  <2>3. GroupOf(t, k) = GroupOf(s, k)
    BY <2>1, <2>2, SameGroup
  <2> QED
    BY <1>2, <1>5, <2>1, <2>3
<1>7. EnteredOf(t, n) = EnteredOf(s, n)
  BY <1>1, <1>2, SameCount
<1>8. n \in 1..n
  BY <1>1
<1> QED
  BY <1>1, <1>4, <1>5, <1>6, <1>7, <1>8

(* The units run so far are in rows before the last. *)
LEMMA OldUnits ==
  ASSUME NEW s \in Seq(Row), NEW t \in Seq(Row), s # <<>>, s[1].prompt = "bc", Extends(t, s),
         NEW r, RanOK(s, r), NEW n, n = Len(s)
  PROVE  /\ Complete(s) \in SUBSET (1..(n - 1))
         /\ Complete(t) = Complete(s) \union {k \in {n} : t[n].entered /\ Whole(GroupOf(t, n))}
         /\ \A i \in DOMAIN r : /\ r[i].row \in 1..(n - 1) /\ r[i].lines = GroupOf(t, r[i].row)
                                /\ r[i].first = 1 + EnteredOf(t, BeginOf(t, r[i].row))
<1>1. /\ n \in Nat \ {0} /\ n <= Len(t) /\ Len(t) \in Nat
      /\ \A k \in 1..(n - 1) : /\ t[k] = s[k] /\ GroupOf(t, k) = GroupOf(s, k)
                               /\ EnteredOf(t, BeginOf(t, k)) = EnteredOf(s, BeginOf(s, k))
  BY OldRows
<1>2. DOMAIN s = 1..n /\ DOMAIN t = 1..Len(t)
  OBVIOUS
<1>3. ~s[n].entered /\ \A k \in (n + 1)..Len(t) : ~t[k].entered
  BY DEF Extends
<1>4. Complete(s) \in SUBSET (1..(n - 1))
  <2>1. \A k \in 1..n : k \in 1..(n - 1) \/ k = n
    BY <1>1
  <2> QED
    BY <1>2, <1>3, <2>1 DEF Complete
<1>5. \A k \in 1..(n - 1) : k \in Complete(t) <=> k \in Complete(s)
  <2>1. \A k \in 1..(n - 1) : k \in DOMAIN s /\ k \in DOMAIN t
    BY <1>1, <1>2
  <2> QED
    BY <1>1, <2>1 DEF Complete
<1>6. n \in Complete(t) <=> t[n].entered /\ Whole(GroupOf(t, n))
  <2>1. n \in DOMAIN t
    BY <1>1, <1>2
  <2> QED
    BY <2>1 DEF Complete
<1>7. \A k \in Complete(t) : k \in 1..(n - 1) \/ k = n
  <2>1. \A k \in 1..Len(t) : k \in 1..(n - 1) \/ k = n \/ k \in (n + 1)..Len(t)
    BY <1>1
  <2> QED
    BY <1>2, <1>3, <2>1 DEF Complete
<1>8. Complete(t) = Complete(s) \union {k \in {n} : t[n].entered /\ Whole(GroupOf(t, n))}
  BY <1>4, <1>5, <1>6, <1>7
<1>9. ASSUME NEW i \in DOMAIN r
      PROVE  /\ r[i].row \in 1..(n - 1) /\ r[i].lines = GroupOf(t, r[i].row)
             /\ r[i].first = 1 + EnteredOf(t, BeginOf(t, r[i].row))
  <2>1. r[i].row \in Complete(s)
    BY <1>9 DEF RanOK
  <2>2. r[i].row \in 1..(n - 1)
    BY <1>4, <2>1
  <2>3. r[i].lines = GroupOf(s, r[i].row) /\ r[i].first = 1 + EnteredOf(s, BeginOf(s, r[i].row))
    BY <1>9 DEF RanOK
  <2> QED
    BY <1>1, <2>2, <2>3
<1> QED
  BY <1>4, <1>8, <1>9

LEMMA RanStays ==
  ASSUME NEW s \in Seq(Row), NEW t \in Seq(Row), s # <<>>, s[1].prompt = "bc", Extends(t, s),
         NEW r, RanOK(s, r), ~(t[Len(s)].entered /\ Whole(GroupOf(t, Len(s))))
  PROVE  RanOK(t, r)
<1>1. PICK n : n = Len(s)
  OBVIOUS
<1>2. Complete(t) = Complete(s)
  <2>1. Complete(t) = Complete(s) \union {k \in {n} : t[n].entered /\ Whole(GroupOf(t, n))}
    BY <1>1, OldUnits
  <2>2. {k \in {n} : t[n].entered /\ Whole(GroupOf(t, n))} = {}
    BY <1>1
  <2> QED
    BY <2>1, <2>2
<1>3. \A i \in DOMAIN r : r[i].lines = GroupOf(t, r[i].row) /\ r[i].first = 1 + EnteredOf(t, BeginOf(t, r[i].row))
  BY <1>1, OldUnits
<1> QED
  BY <1>2, <1>3 DEF RanOK

LEMMA RanGrows ==
  ASSUME NEW s \in Seq(Row), NEW t \in Seq(Row), s # <<>>, s[1].prompt = "bc", Extends(t, s),
         NEW S, NEW r \in Seq(S), RanOK(s, r), t[Len(s)].entered, Whole(GroupOf(t, Len(s))),
         NEW e \in S, e.lines = GroupOf(t, Len(s)), e.row = Len(s),
         e.first = 1 + EnteredOf(t, BeginOf(t, Len(s)))
  PROVE  RanOK(t, Append(r, e))
<1>1. PICK n, m, q : n = Len(s) /\ m = Len(r) /\ q = Append(r, e)
  OBVIOUS
<1>2. Complete(t) = Complete(s) \union {n} /\ n \in Nat
  BY <1>1, OldUnits
<1>3. \A i \in DOMAIN r : /\ r[i].row \in 1..(n - 1) /\ r[i].lines = GroupOf(t, r[i].row)
                          /\ r[i].first = 1 + EnteredOf(t, BeginOf(t, r[i].row))
  BY <1>1, OldUnits, SMTT(30)
<1>4. /\ m \in Nat /\ DOMAIN r = 1..m /\ DOMAIN q = 1..(m + 1)
      /\ (\A i \in 1..m : q[i] = r[i]) /\ q[m + 1] = e
  BY <1>1, AppendProperties
<1>5. \A i \in 1..(m + 1) : i \in 1..m \/ i = m + 1
  BY <1>4
<1>6. \A i \in DOMAIN q : q[i].lines = GroupOf(t, q[i].row) /\ q[i].first = 1 + EnteredOf(t, BeginOf(t, q[i].row))
  BY <1>1, <1>3, <1>4, <1>5
<1>7. {q[i].row : i \in DOMAIN q} = Complete(t)
  <2>1. {q[i].row : i \in DOMAIN q} = {r[i].row : i \in DOMAIN r} \union {n}
    <3>1. \A i \in 1..m : i \in 1..(m + 1)
      BY <1>4
    <3>2. m + 1 \in 1..(m + 1) /\ e.row = n
      BY <1>1, <1>4
    <3> QED
      BY <1>4, <1>5, <3>1, <3>2
  <2> QED
    BY <1>2, <2>1 DEF RanOK
<1>8. ASSUME NEW i \in DOMAIN q, NEW j \in DOMAIN q, i < j
      PROVE  q[i].row < q[j].row
  <2>1. i \in 1..m /\ q[i] = r[i] /\ r[i].row \in 1..(n - 1)
    <3>1. i \in 1..m
      BY <1>4, <1>8
    <3> QED
      BY <1>3, <1>4, <3>1
  <2>2. CASE j = m + 1
    BY <1>1, <1>2, <1>4, <2>1, <2>2
  <2>3. CASE j # m + 1
    <3>1. j \in 1..m
      BY <1>4, <1>5, <2>3
    <3>2. r[i].row < r[j].row
      BY <1>4, <1>8, <2>1, <3>1 DEF RanOK
    <3> QED
      BY <1>4, <2>1, <3>1, <3>2
  <2> QED
    BY <2>2, <2>3
<1> QED
  BY <1>1, <1>6, <1>7, <1>8 DEF RanOK
-----------------------------------------------------------------------------
(* The row being typed *)

Unrun == [lines : Seq(Lines), first : Nat \ {0}, row : Nat \ {0}]

LEMMA ReplFacts ==
  ASSUME ReplInv
  PROVE  /\ rows \in Seq(Row) /\ rows # <<>> /\ Current \in Nat \ {0} /\ Current = Len(rows)
         /\ Current \in 1..Len(rows) /\ rows[Current] \in Row
         /\ rows[1].prompt = "bc" /\ RanOK(rows, ran)
         /\ line_buf \in Seq(Chars) /\ Len(line_buf) \in Nat /\ Len(line_buf) <= REPL_MAX_LINE
         /\ buf \in Seq(Lines) /\ start_line \in Nat \ {0} /\ next_line \in Nat \ {0}
         /\ ran \in Seq(Unrun)
<1>1. rows \in Seq(Row) /\ rows # <<>>
  BY DEF ReplInv, ReplTypeOK
<1>2. Current \in Nat \ {0} /\ Current = Len(rows) /\ Current \in 1..Len(rows)
  BY <1>1 DEF Current
<1>3. rows[Current] \in Row
  BY <1>1, <1>2
<1>4. RanOK(rows, ran) /\ rows[1].prompt = "bc"
  BY OfRan DEF ReplInv
<1>5. /\ line_buf \in Seq(Chars) /\ Len(line_buf) \in Nat /\ Len(line_buf) <= REPL_MAX_LINE
      /\ buf \in Seq(Lines) /\ start_line \in Nat \ {0} /\ next_line \in Nat \ {0}
  BY DEF ReplInv, ReplTypeOK
<1>6. ran \in Seq(Unrun)
  <2>1. 1..Len(rows) \subseteq Nat \ {0}
    BY <1>1
  <2>2. [lines : Seq(Lines), first : Nat \ {0}, row : 1..Len(rows)] \subseteq Unrun
    BY <2>1 DEF Unrun
  <2>3. ran \in Seq([lines : Seq(Lines), first : Nat \ {0}, row : 1..Len(rows)])
    BY DEF ReplInv, ReplTypeOK
  <2>4. PICK T : T = [lines : Seq(Lines), first : Nat \ {0}, row : 1..Len(rows)]
    OBVIOUS
  <2>5. T \subseteq Unrun /\ ran \in Seq(T)
    BY <2>2, <2>3, <2>4
  <2>6. \A i \in 1..Len(ran) : ran[i] \in Unrun
    BY <2>5
  <2> QED
    BY <2>5, <2>6, EntriesIn
<1> QED
  BY <1>1, <1>2, <1>3, <1>4, <1>5, <1>6

(* The units run are in rows that are there. *)
LEMMA RanTyped ==
  ASSUME NEW s \in Seq(Row), NEW r \in Seq(Unrun), RanOK(s, r)
  PROVE  r \in Seq([lines : Seq(Lines), first : Nat \ {0}, row : 1..Len(s)])
<1>1. ASSUME NEW i \in DOMAIN r
      PROVE  r[i] \in [lines : Seq(Lines), first : Nat \ {0}, row : 1..Len(s)]
  <2>1. r[i].row \in Complete(s)
    BY <1>1 DEF RanOK
  <2>2. r[i].row \in 1..Len(s)
    BY <2>1 DEF Complete
  <2>3. r[i] \in Unrun
    BY <1>1
  <2> QED
    BY <2>2, <2>3 DEF Unrun
<1>2. PICK T : T = [lines : Seq(Lines), first : Nat \ {0}, row : 1..Len(s)]
  OBVIOUS
<1>3. DOMAIN r = 1..Len(r)
  OBVIOUS
<1>4. \A i \in 1..Len(r) : r[i] \in T
  BY <1>1, <1>2, <1>3
<1>5. r \in Seq(T)
  BY <1>4, EntriesIn
<1> QED
  BY <1>2, <1>5

(* The parts of ReplInv after a step. *)
LEMMA ReplInvNext ==
  ASSUME on_quit' \in {"ends", "goes_on"}, running' \in BOOLEAN,
         line_buf' \in Seq(Chars), Len(line_buf') <= REPL_MAX_LINE,
         buf' \in Seq(Lines), start_line' \in Nat \ {0}, next_line' \in Nat \ {0},
         NEW t \in Seq(Row), t = rows', t # <<>>, t[1].prompt = "bc",
         ran' \in Seq(Unrun), RanOK(t, ran'),
         running' =>
           /\ t[Len(t)].text = line_buf' /\ ~t[Len(t)].entered
           /\ GroupOf(t, Len(t)) = Append(buf', AsLine(line_buf'))
           /\ next_line' = 1 + EnteredOf(t, Len(t))
           /\ buf' # <<>> => start_line' = 1 + EnteredOf(t, BeginOf(t, Len(t)))
  PROVE  ReplInv'
<1>1. ran' \in Seq([lines : Seq(Lines), first : Nat \ {0}, row : 1..Len(t)])
  BY RanTyped
<1>2. ReplTypeOK'
  BY <1>1 DEF ReplTypeOK
<1>3. (ExecutedIsShown /\ GroupsRunOnce /\ NumbersFollowRows)'
  BY OfRan
<1>4. Current' = Len(t)
  BY DEF Current
<1>5. (running =>
         /\ rows[Current].text = line_buf /\ ~rows[Current].entered
         /\ Group(Current) = Append(buf, AsLine(line_buf))
         /\ next_line = 1 + EnteredBefore(Current)
         /\ buf # <<>> => start_line = 1 + EnteredBefore(Begin(Current)))'
  BY <1>4, OfRows
<1> QED
  BY <1>2, <1>3, <1>5 DEF ReplInv

LEMMA CurrentFacts ==
  ASSUME ReplInv, running
  PROVE  /\ rows[Current].text = line_buf /\ ~rows[Current].entered
         /\ GroupOf(rows, Current) = Append(buf, AsLine(line_buf))
         /\ next_line = 1 + EnteredOf(rows, Current)
         /\ buf # <<>> => start_line = 1 + EnteredOf(rows, BeginOf(rows, Current))
BY OfRows DEF ReplInv

(* The row changes as the line buffer does. *)
LEMMA EditInv ==
  ASSUME ReplInv, running, on_quit' = on_quit, running' = running, UNCHANGED acc, ran' = ran,
         NEW c \in Seq(Chars), Len(c) <= REPL_MAX_LINE, line_buf' = c,
         rows' = [rows EXCEPT ![Current].text = c]
  PROVE  ReplInv'
<1>1. PICK s, t, n : s = rows /\ t = rows' /\ n = Len(rows)
  OBVIOUS
<1>2. /\ s \in Seq(Row) /\ s # <<>> /\ Current = n /\ n \in Nat \ {0} /\ n \in 1..Len(s) /\ s[n] \in Row
      /\ s[1].prompt = "bc" /\ RanOK(s, ran) /\ ran \in Seq(Unrun)
      /\ buf \in Seq(Lines) /\ start_line \in Nat \ {0} /\ next_line \in Nat \ {0} /\ n = Len(s)
  BY <1>1, ReplFacts
<1>3. /\ s[n].text = line_buf /\ ~s[n].entered
      /\ GroupOf(s, n) = Append(buf, AsLine(line_buf))
      /\ next_line = 1 + EnteredOf(s, n)
      /\ buf # <<>> => start_line = 1 + EnteredOf(s, BeginOf(s, n))
  BY <1>1, <1>2, CurrentFacts
<1>4. t = [s EXCEPT ![n] = [s[n] EXCEPT !.text = c]]
  BY <1>1, <1>2
<1>5. PICK row : row = [s[n] EXCEPT !.text = c]
  OBVIOUS
<1>6. row \in Row /\ row.text = c /\ row.prompt = s[n].prompt /\ row.entered = s[n].entered
  BY <1>2, <1>5 DEF Row
<1>7. /\ t \in Seq(Row) /\ Len(t) = n /\ t # <<>> /\ t[n] = row
      /\ \A i \in 1..(n - 1) : t[i] = s[i]
  <2>1. t = [s EXCEPT ![n] = row]
    BY <1>4, <1>5
  <2> QED
    BY <1>2, <1>6, <2>1
<1>8. Extends(t, s)
  BY <1>2, <1>3, <1>6, <1>7 DEF Extends
<1>9. /\ t[1].prompt = "bc" /\ EnteredOf(t, n) = EnteredOf(s, n)
      /\ EnteredOf(t, BeginOf(t, n)) = EnteredOf(s, BeginOf(s, n))
  BY <1>2, <1>7, <1>8, OldRows
<1>10. ~t[n].entered
  BY <1>3, <1>6, <1>7
<1>11. RanOK(t, ran)
  BY <1>2, <1>7, <1>8, <1>10, RanStays
<1>12. GroupOf(t, n) = Append(buf, AsLine(c))
  <2>1. GroupOf(s, n) = Append(buf, AsLine(s[n].text))
    BY <1>3
  <2>2. n <= Len(s) /\ n <= Len(t) /\ t[n].prompt = s[n].prompt
    BY <1>2, <1>6, <1>7
  <2>3. GroupOf(t, n) = Append(buf, AsLine(t[n].text))
    BY <1>2, <1>7, <2>1, <2>2, GroupEdited, ZenonT(30)
  <2> QED
    BY <1>6, <1>7, <2>3
<1>13. on_quit' \in {"ends", "goes_on"} /\ running' \in BOOLEAN
  BY DEF ReplInv, ReplTypeOK
<1>14. buf' = buf /\ start_line' = start_line /\ next_line' = next_line
  BY DEF acc
<1>15. /\ t[Len(t)].text = line_buf' /\ ~t[Len(t)].entered
       /\ GroupOf(t, Len(t)) = Append(buf', AsLine(line_buf'))
       /\ next_line' = 1 + EnteredOf(t, Len(t))
       /\ buf' # <<>> => start_line' = 1 + EnteredOf(t, BeginOf(t, Len(t)))
  BY <1>3, <1>6, <1>7, <1>9, <1>10, <1>12, <1>14
<1>16. ran' \in Seq(Unrun) /\ RanOK(t, ran') /\ line_buf' \in Seq(Chars) /\ Len(line_buf') <= REPL_MAX_LINE
  BY <1>2, <1>11
<1>17. buf' \in Seq(Lines) /\ start_line' \in Nat \ {0} /\ next_line' \in Nat \ {0}
  BY <1>2, <1>14
<1> QED
  BY <1>1, <1>7, <1>9, <1>13, <1>15, <1>16, <1>17, ReplInvNext

LEMMA TypeCharInv ==
  ASSUME ReplInv, NEW c \in Chars, TypeChar(c)
  PROVE  ReplInv'
<1>1. /\ running /\ Len(line_buf) < REPL_MAX_LINE /\ line_buf' = Append(line_buf, c)
      /\ rows' = [rows EXCEPT ![Current].text = Append(@, c)]
      /\ on_quit' = on_quit /\ running' = running /\ UNCHANGED acc /\ ran' = ran
  BY DEF TypeChar, Echo
<1>2. line_buf \in Seq(Chars) /\ rows[Current].text = line_buf
  BY <1>1, ReplFacts, CurrentFacts
<1>3. /\ Append(line_buf, c) \in Seq(Chars) /\ Len(Append(line_buf, c)) = Len(line_buf) + 1
      /\ REPL_MAX_LINE \in Nat
  BY <1>2, SerialConstantsOK
<1>4. Len(Append(line_buf, c)) <= REPL_MAX_LINE
  BY <1>1, <1>2, <1>3
<1>5. rows' = [rows EXCEPT ![Current].text = Append(line_buf, c)]
  BY <1>1, <1>2
<1> QED
  BY <1>1, <1>3, <1>4, <1>5, EditInv

LEMMA EraseInv ==
  ASSUME ReplInv, Erase
  PROVE  ReplInv'
<1>1. /\ running /\ line_buf # <<>> /\ line_buf' = Front(line_buf)
      /\ rows' = [rows EXCEPT ![Current].text = SubSeq(@, 1, Len(@) - 1)]
      /\ on_quit' = on_quit /\ running' = running /\ UNCHANGED acc /\ ran' = ran
  BY DEF Erase, Backspace
<1>2. /\ line_buf \in Seq(Chars) /\ rows[Current].text = line_buf
      /\ Len(line_buf) \in Nat /\ Len(line_buf) <= REPL_MAX_LINE /\ REPL_MAX_LINE \in Nat
  BY <1>1, ReplFacts, CurrentFacts, SerialConstantsOK
<1>3. Front(line_buf) = SubSeq(line_buf, 1, Len(line_buf) - 1)
  BY DEF Front
<1>4. Front(line_buf) \in Seq(Chars) /\ Len(Front(line_buf)) <= REPL_MAX_LINE
  <2>1. Front(line_buf) \in Seq(Chars) /\ Len(Front(line_buf)) < Len(line_buf)
    BY <1>1, <1>2, <1>3, FrontIs
  <2>2. Len(Front(line_buf)) \in Nat
    BY <2>1
  <2> QED
    BY <1>2, <2>1, <2>2
<1>5. rows' = [rows EXCEPT ![Current].text = Front(line_buf)]
  BY <1>1, <1>2, <1>3
<1> QED
  BY <1>1, <1>4, <1>5, EditInv
-----------------------------------------------------------------------------
(* A row ends *)

\* t is s with its last row ended, entered or cancelled
RowEnds(s, t, n, e) ==
  /\ t \in Seq(Row) /\ \A i \in 1..(n - 1) : t[i] = s[i]
  /\ t[n].prompt = s[n].prompt /\ t[n].text = s[n].text /\ t[n].entered = e
NewRow(p) == [prompt |-> p, text |-> <<>>, entered |-> FALSE]
Ending(s, n, e, prompts) ==
  [s EXCEPT ![n].entered = e] \o [i \in DOMAIN prompts |-> [prompt |-> prompts[i], text |-> <<>>, entered |-> FALSE]]

LEMMA EndRowIs ==
  ASSUME NEW s \in Seq(Row), NEW n \in Nat \ {0}, n = Len(s), NEW e \in BOOLEAN
  PROVE  /\ \A p \in Prompt : \A t :
              t = Ending(s, n, e, <<p>>) => RowEnds(s, t, n, e) /\ Len(t) = n + 1 /\ t[n + 1] = NewRow(p)
         /\ \A t :
              t = Ending(s, n, e, <<>>) => RowEnds(s, t, n, e) /\ Len(t) = n
<1>1. PICK row, q : row = [s[n] EXCEPT !.entered = e] /\ q = [s EXCEPT ![n] = row]
  OBVIOUS
<1>2. n \in 1..n /\ s[n] \in Row
  OBVIOUS
<1>3. row \in Row /\ row.prompt = s[n].prompt /\ row.text = s[n].text /\ row.entered = e
  BY <1>1, <1>2 DEF Row
<1>4. q \in Seq(Row) /\ Len(q) = n /\ q[n] = row /\ \A i \in 1..(n - 1) : q[i] = s[i]
  BY <1>1, <1>3, LastReplaced
<1>5. q = [s EXCEPT ![n].entered = e]
  BY <1>1
<1>6. ASSUME NEW new \in Row
      PROVE  /\ q \o <<new>> \in Seq(Row) /\ Len(q \o <<new>>) = n + 1
             /\ \A i \in 1..(n - 1) : (q \o <<new>>)[i] = s[i]
             /\ (q \o <<new>>)[n] = row /\ (q \o <<new>>)[n + 1] = new
  <2>1. \A i \in 1..(n - 1) : i \in 1..n
    OBVIOUS
  <2>2. q \in Seq(Row) /\ n \in Nat \ {0}
    BY <1>4
  <2>3. /\ q \o <<new>> \in Seq(Row) /\ Len(q \o <<new>>) = Len(q) + 1
        /\ (q \o <<new>>)[Len(q) + 1] = new
        /\ \A i \in 1..Len(q) : (q \o <<new>>)[i] = q[i]
    BY ONLY <2>2, new \in Row, RowAdded
  <2>4. \A i \in 1..n : (q \o <<new>>)[i] = q[i]
    BY <1>4, <2>3
  <2> QED
    BY <1>2, <1>4, <2>1, <2>3, <2>4
<1>7. ASSUME NEW p \in Prompt, NEW t,
             t = Ending(s, n, e, <<p>>)
      PROVE  RowEnds(s, t, n, e) /\ Len(t) = n + 1 /\ t[n + 1] = NewRow(p)
  <2>1. PICK new : new = [prompt |-> p, text |-> <<>>, entered |-> FALSE]
    OBVIOUS
  <2>2. new \in Row
    BY <2>1 DEF Row
  <2>3. [i \in DOMAIN <<p>> |-> [prompt |-> <<p>>[i], text |-> <<>>, entered |-> FALSE]] = <<new>>
    <3>1. DOMAIN <<p>> = 1..1 /\ <<p>>[1] = p /\ \A i \in 1..1 : i = 1
      OBVIOUS
    <3>2. \A i \in 1..1 : [prompt |-> <<p>>[i], text |-> <<>>, entered |-> FALSE] = new
      BY <2>1, <3>1
    <3>3. [i \in DOMAIN <<p>> |-> [prompt |-> <<p>>[i], text |-> <<>>, entered |-> FALSE]]
            = [i \in 1..1 |-> new]
      BY <3>1, <3>2
    <3>4. [i \in 1..1 |-> new] = <<new>>
      OBVIOUS
    <3> QED
      BY <3>3, <3>4
  <2>4. t = q \o <<new>>
    BY <1>5, <1>7, <2>3 DEF Ending
  <2> QED
    BY <1>3, <1>6, <2>1, <2>2, <2>4 DEF RowEnds, NewRow
<1>8. ASSUME NEW t,
             t = Ending(s, n, e, <<>>)
      PROVE  RowEnds(s, t, n, e) /\ Len(t) = n
  <2>1. [i \in DOMAIN <<>> |-> [prompt |-> <<>>[i], text |-> <<>>, entered |-> FALSE]] = <<>>
    OBVIOUS
  <2>2. t = q \o <<>>
    BY <1>5, <1>8, <2>1 DEF Ending
  <2>3. q \o <<>> = q
    BY <1>4
  <2> QED
    BY <1>3, <1>4, <2>2, <2>3 DEF RowEnds
<1> QED
  BY <1>7, <1>8

(* What the row that ends and the new row mean for the next line. *)
LEMMA NextRow ==
  ASSUME NEW s \in Seq(Row), NEW n \in Nat \ {0}, n = Len(s), s[1].prompt = "bc", ~s[n].entered,
         NEW t, NEW e \in BOOLEAN, RowEnds(s, t, n, e),
         NEW p \in Prompt, Len(t) = n + 1, t[n + 1] = NewRow(p)
  PROVE  /\ Extends(t, s) /\ t # <<>> /\ t[1].prompt = "bc"
         /\ GroupOf(t, n) = GroupOf(s, n)
         /\ EnteredOf(t, BeginOf(t, n)) = EnteredOf(s, BeginOf(s, n))
         /\ EnteredOf(t, n) = EnteredOf(s, n)
         /\ p = "bc" => BeginOf(t, n + 1) = n + 1 /\ GroupOf(t, n + 1) = Append(<<>>, AsLine(<<>>))
         /\ p # "bc" => /\ BeginOf(t, n + 1) = BeginOf(t, n)
                        /\ GroupOf(t, n + 1) = Append(GroupOf(s, n), AsLine(<<>>))
<1>0. /\ t \in Seq(Row) /\ \A i \in 1..(n - 1) : t[i] = s[i]
      /\ t[n].prompt = s[n].prompt /\ t[n].text = s[n].text /\ t[n].entered = e
      /\ t[n + 1].prompt = p /\ t[n + 1].text = <<>> /\ ~t[n + 1].entered
  BY DEF RowEnds, NewRow
<1>1. Extends(t, s)
  <2>1. \A i \in (n + 1)..(n + 1) : i = n + 1
    OBVIOUS
  <2> QED
    BY <1>0, <2>1 DEF Extends
<1>2. t[1].prompt = "bc" /\ EnteredOf(t, n) = EnteredOf(s, n)
      /\ EnteredOf(t, BeginOf(t, n)) = EnteredOf(s, BeginOf(s, n)) /\ s # <<>> /\ t # <<>>
  <2>1. s # <<>> /\ t # <<>>
    OBVIOUS
  <2> QED
    BY <1>0, <1>1, <2>1, OldRows
<1>3. GroupOf(t, n) = GroupOf(s, n)
  <2>1. \A i \in 1..n : i \in 1..(n - 1) \/ i = n
    OBVIOUS
  <2>2. \A i \in 1..n : t[i].prompt = s[i].prompt /\ t[i].text = s[i].text
    BY <1>0, <2>1
  <2>3. n <= Len(s) /\ n <= Len(t)
    OBVIOUS
  <2> QED
    BY <1>0, <2>2, <2>3, SameGroup
<1>4. n + 1 \in 1..Len(t) /\ n + 1 <= Len(t)
  OBVIOUS
<1>5. ASSUME p = "bc"
      PROVE  BeginOf(t, n + 1) = n + 1 /\ GroupOf(t, n + 1) = Append(<<>>, AsLine(<<>>))
  BY <1>0, <1>2, <1>4, <1>5, GroupBegins
<1>6. ASSUME p # "bc"
      PROVE  /\ BeginOf(t, n + 1) = BeginOf(t, n)
             /\ GroupOf(t, n + 1) = Append(GroupOf(s, n), AsLine(<<>>))
  BY <1>0, <1>2, <1>3, <1>4, <1>6, GroupContinues
<1> QED
  BY <1>1, <1>2, <1>3, <1>4, <1>5, <1>6

LEMMA InterruptInv ==
  ASSUME ReplInv, Interrupt
  PROVE  ReplInv'
<1>1. /\ running /\ line_buf' = <<>> /\ buf' = <<>> /\ on_quit' = on_quit /\ running' = running
      /\ start_line' = start_line /\ next_line' = next_line /\ ran' = ran
      /\ EndRow(FALSE, <<"bc">>)
  BY DEF Interrupt
<1>2. PICK s, t, n : s = rows /\ t = rows' /\ n = Len(rows)
  OBVIOUS
<1>3. /\ s \in Seq(Row) /\ s # <<>> /\ Current = n /\ n \in Nat \ {0} /\ n = Len(s)
      /\ s[1].prompt = "bc" /\ RanOK(s, ran) /\ ran \in Seq(Unrun)
      /\ start_line \in Nat \ {0} /\ next_line \in Nat \ {0}
  BY <1>2, ReplFacts
<1>4. ~s[n].entered /\ next_line = 1 + EnteredOf(s, n)
  BY <1>1, <1>2, <1>3, CurrentFacts
<1>5. PICK e \in BOOLEAN : e = FALSE
  OBVIOUS
<1>6. "bc" \in Prompt
  BY DEF Prompt
<1>7. RowEnds(s, t, n, e) /\ Len(t) = n + 1 /\ t[n + 1] = NewRow("bc")
  <2>1. t = Ending(s, n, e, <<"bc">>)
    BY <1>1, <1>2, <1>3, <1>5 DEF EndRow, Ending
  <2>2. s \in Seq(Row) /\ n \in Nat \ {0} /\ n = Len(s)
    BY <1>3
  <2> QED
    BY <1>6, <2>1, <2>2, EndRowIs
<1>8. /\ Extends(t, s) /\ t # <<>> /\ t[1].prompt = "bc"
      /\ EnteredOf(t, n + 1) = EnteredOf(s, n)
      /\ BeginOf(t, n + 1) = n + 1 /\ GroupOf(t, n + 1) = Append(<<>>, AsLine(<<>>))
  <2>1. s \in Seq(Row) /\ n \in Nat \ {0} /\ n = Len(s) /\ s[1].prompt = "bc" /\ ~s[n].entered
    BY <1>3, <1>4
  <2>2. /\ Extends(t, s) /\ t # <<>> /\ t[1].prompt = "bc" /\ EnteredOf(t, n) = EnteredOf(s, n)
        /\ BeginOf(t, n + 1) = n + 1 /\ GroupOf(t, n + 1) = Append(<<>>, AsLine(<<>>))
    BY <1>6, <1>7, <2>1, NextRow
  <2>3. t \in Seq(Row) /\ ~t[n].entered /\ n <= Len(t)
    BY <1>5, <1>7, <2>1 DEF RowEnds
  <2>4. EnteredOf(t, n + 1) = EnteredOf(t, n)
    BY <2>1, <2>3, EnteredCounts
  <2> QED
    BY <2>2, <2>4
<1>9. RanOK(t, ran)
  <2>1. t \in Seq(Row) /\ ~t[n].entered
    BY <1>5, <1>7 DEF RowEnds
  <2> QED
    BY <1>3, <1>8, <2>1, RanStays
<1>10. EnteredOf(s, n) \in Nat
  BY <1>3, EnteredCounts
<1>11. /\ t[Len(t)].text = line_buf' /\ ~t[Len(t)].entered
       /\ GroupOf(t, Len(t)) = Append(buf', AsLine(line_buf'))
       /\ next_line' = 1 + EnteredOf(t, Len(t))
       /\ buf' = <<>>
  <2>1. t[n + 1].text = <<>> /\ ~t[n + 1].entered
    BY <1>7 DEF NewRow
  <2>2. next_line = 1 + EnteredOf(t, n + 1)
    BY <1>4, <1>8, <1>10
  <2> QED
    BY <1>1, <1>7, <1>8, <2>1, <2>2
<1>12. on_quit' \in {"ends", "goes_on"} /\ running' \in BOOLEAN
  BY <1>1 DEF ReplInv, ReplTypeOK
<1>13. line_buf' \in Seq(Chars) /\ Len(line_buf') <= REPL_MAX_LINE /\ buf' \in Seq(Lines)
  BY <1>1, SerialConstantsOK
<1>14. t \in Seq(Row)
  BY <1>7 DEF RowEnds
<1> QED
  BY <1>1, <1>2, <1>3, <1>8, <1>9, <1>11, <1>12, <1>13, <1>14, ReplInvNext

LEMMA EnterInv ==
  ASSUME ReplInv, Enter
  PROVE  ReplInv'
<1>1. PICK lines, first, outcome : /\ lines = Append(buf, AsLine(line_buf))
                                   /\ first = IF buf = <<>> THEN next_line ELSE start_line
                                   /\ outcome = UnitResult(lines, first, "Allow").outcome
  OBVIOUS
<1>2. /\ running /\ line_buf' = <<>> /\ on_quit' = on_quit
      /\ start_line' = first /\ next_line' = next_line + 1
  BY <1>1 DEF Enter
<1>3. \/ /\ ~Whole(lines) /\ buf' = lines /\ EndRow(TRUE, <<PromptAfter(lines)>>)
         /\ running' = running /\ ran' = ran
      \/ /\ Whole(lines) /\ buf' = <<>>
         /\ ran' = Append(ran, [lines |-> lines, first |-> first, row |-> Current])
         /\ running' \in BOOLEAN
         /\ EndRow(TRUE, IF running' THEN <<PromptAfter(<<>>)>> ELSE <<>>)
  BY <1>1 DEF Enter
<1>4. PICK s, t, n : s = rows /\ t = rows' /\ n = Len(rows)
  OBVIOUS
<1>5. /\ s \in Seq(Row) /\ s # <<>> /\ Current = n /\ n \in Nat \ {0} /\ n = Len(s) /\ n \in 1..Len(s)
      /\ s[1].prompt = "bc" /\ RanOK(s, ran) /\ ran \in Seq(Unrun) /\ buf \in Seq(Lines)
      /\ start_line \in Nat \ {0} /\ next_line \in Nat \ {0} /\ line_buf \in Seq(Chars)
  BY <1>4, ReplFacts
<1>6. /\ ~s[n].entered /\ s[n].text = line_buf /\ next_line = 1 + EnteredOf(s, n)
      /\ GroupOf(s, n) = Append(buf, AsLine(line_buf))
      /\ buf # <<>> => start_line = 1 + EnteredOf(s, BeginOf(s, n))
  BY <1>2, <1>4, <1>5, CurrentFacts
<1>7. AsLine(line_buf) \in Lines /\ lines \in Seq(Lines) /\ lines # <<>> /\ lines = GroupOf(s, n)
      /\ Len(lines) = Len(buf) + 1
  <2>1. AsLine(line_buf) \in Lines
    BY <1>5, LineTyped
  <2> QED
    BY <1>1, <1>5, <1>6, <2>1, AppendProperties
<1>8. first = 1 + EnteredOf(s, BeginOf(s, n)) /\ first \in Nat \ {0}
  <2>1. first \in Nat \ {0}
    BY <1>1, <1>5
  <2>2. CASE buf # <<>>
    BY <1>1, <1>6, <2>1, <2>2
  <2>3. CASE buf = <<>>
    <3>1. Len(lines) = 1
      BY <1>7, <2>3
    <3>2. PICK b : b = BeginOf(s, n)
      OBVIOUS
    <3>3. Len(GroupOf(s, n)) = n - b + 1
      BY <1>5, <3>2, GroupIs
    <3>4. b \in 1..n
      BY <1>5, <3>2, BeginIs
    <3>5. b = n
      <4>1. n - b + 1 = 1
        BY <1>7, <3>1, <3>3
      <4>2. b \in Nat /\ n \in Nat
        BY <1>5, <3>4
      <4> QED
        BY <4>1, <4>2
    <3> QED
      BY <1>1, <1>6, <2>1, <2>3, <3>2, <3>5
  <2> QED
    BY <2>2, <2>3
<1>9. on_quit' \in {"ends", "goes_on"}
  BY <1>2 DEF ReplInv, ReplTypeOK
<1>10. line_buf' \in Seq(Chars) /\ Len(line_buf') <= REPL_MAX_LINE /\ line_buf' = <<>>
  BY <1>2, SerialConstantsOK
<1>11. start_line' \in Nat \ {0} /\ next_line' \in Nat \ {0}
  BY <1>2, <1>5, <1>8
<1>12. EnteredOf(s, n) \in Nat
  BY <1>5, EnteredCounts
<1>13. "bc" \in Prompt /\ "more" \in Prompt /\ PromptAfter(<<>>) = "bc" /\ PromptAfter(lines) = "more"
       /\ "more" # "bc"
  BY <1>7 DEF Prompt, PromptAfter
<1>14. s \in Seq(Row) /\ n \in Nat \ {0} /\ n = Len(s) /\ s[1].prompt = "bc" /\ ~s[n].entered
  BY <1>5, <1>6
<1>15. PICK yes \in BOOLEAN : yes = TRUE
  OBVIOUS
<1>16. ASSUME ~Whole(lines), buf' = lines, EndRow(TRUE, <<PromptAfter(lines)>>),
              running' = running, ran' = ran
       PROVE  ReplInv'
  <2>1. t = Ending(s, n, yes, <<"more">>)
    BY <1>4, <1>5, <1>13, <1>15, <1>16 DEF EndRow, Ending
  <2>2. RowEnds(s, t, n, yes) /\ Len(t) = n + 1 /\ t[n + 1] = NewRow("more")
    <3>1. "more" \in Prompt
      BY <1>13
    <3> QED
      BY <1>14, <2>1, <3>1, EndRowIs
  <2>3. /\ Extends(t, s) /\ t # <<>> /\ t[1].prompt = "bc"
        /\ GroupOf(t, n) = GroupOf(s, n)
        /\ EnteredOf(t, BeginOf(t, n)) = EnteredOf(s, BeginOf(s, n))
        /\ EnteredOf(t, n + 1) = EnteredOf(s, n) + 1
        /\ BeginOf(t, n + 1) = BeginOf(t, n)
        /\ GroupOf(t, n + 1) = Append(GroupOf(s, n), AsLine(<<>>))
    <3>1. "more" \in Prompt /\ "more" # "bc"
      BY <1>13
    <3>2. EnteredOf(t, n + 1) = EnteredOf(s, n) + 1
      <4>1. t \in Seq(Row) /\ t[n].entered /\ n <= Len(t)
        BY <1>14, <1>15, <2>2 DEF RowEnds
      <4>2. EnteredOf(t, n) = EnteredOf(s, n)
        BY <1>14, <2>2, <3>1, NextRow
      <4> QED
        BY <1>14, <4>1, <4>2, EnteredCounts
    <3>3. /\ Extends(t, s) /\ t # <<>> /\ t[1].prompt = "bc"
          /\ GroupOf(t, n) = GroupOf(s, n)
          /\ EnteredOf(t, BeginOf(t, n)) = EnteredOf(s, BeginOf(s, n))
      BY <1>14, <2>2, <3>1, NextRow
    <3>4. /\ BeginOf(t, n + 1) = BeginOf(t, n)
          /\ GroupOf(t, n + 1) = Append(GroupOf(s, n), AsLine(<<>>))
      BY <1>14, <2>2, <3>1, NextRow
    <3> QED
      BY <3>2, <3>3, <3>4
  <2>4. RanOK(t, ran) /\ t \in Seq(Row)
    <3>1. t \in Seq(Row)
      BY <2>2 DEF RowEnds
    <3>2. ~Whole(GroupOf(t, n))
      BY <1>7, <1>16, <2>3
    <3> QED
      BY <1>5, <2>3, <3>1, <3>2, RanStays
  <2>5. /\ t[Len(t)].text = line_buf' /\ ~t[Len(t)].entered
        /\ GroupOf(t, Len(t)) = Append(buf', AsLine(line_buf'))
        /\ next_line' = 1 + EnteredOf(t, Len(t))
        /\ start_line' = 1 + EnteredOf(t, BeginOf(t, Len(t)))
    <3>1. t[n + 1].text = <<>> /\ ~t[n + 1].entered
      BY <2>2 DEF NewRow
    <3>2. next_line' = 1 + EnteredOf(t, n + 1)
      BY <1>2, <1>6, <1>12, <2>3
    <3>3. start_line' = 1 + EnteredOf(t, BeginOf(t, n + 1))
      BY <1>2, <1>8, <2>3
    <3> QED
      BY <1>7, <1>10, <1>16, <2>2, <2>3, <3>1, <3>2, <3>3
  <2>6. running' \in BOOLEAN /\ buf' \in Seq(Lines) /\ ran' \in Seq(Unrun) /\ RanOK(t, ran')
    BY <1>2, <1>5, <1>7, <1>16, <2>4
  <2> QED
    BY <1>4, <1>9, <1>10, <1>11, <2>3, <2>4, <2>5, <2>6, ReplInvNext
<1>17. ASSUME Whole(lines), buf' = <<>>,
              ran' = Append(ran, [lines |-> lines, first |-> first, row |-> Current]),
              running' \in BOOLEAN, EndRow(TRUE, IF running' THEN <<PromptAfter(<<>>)>> ELSE <<>>)
       PROVE  ReplInv'
  <2>1. PICK e : e = [lines |-> lines, first |-> first, row |-> n]
    OBVIOUS
  <2>2. e \in Unrun /\ e.lines = lines /\ e.first = first /\ e.row = n /\ ran' = Append(ran, e)
    BY <1>5, <1>7, <1>8, <1>17, <2>1 DEF Unrun
  <2>3. ran' \in Seq(Unrun)
    BY <1>5, <2>2, AppendProperties
  <2>4. buf' \in Seq(Lines)
    BY <1>17
  <2>5. CASE running'
    <3>1. t = Ending(s, n, yes, <<"bc">>)
      BY <1>4, <1>5, <1>13, <1>15, <1>17, <2>5 DEF EndRow, Ending
    <3>2. RowEnds(s, t, n, yes) /\ Len(t) = n + 1 /\ t[n + 1] = NewRow("bc")
      <4>1. "bc" \in Prompt
        BY <1>13
      <4> QED
        BY <1>14, <3>1, <4>1, EndRowIs, SMTT(30)
    <3>3. /\ Extends(t, s) /\ t # <<>> /\ t[1].prompt = "bc"
          /\ GroupOf(t, n) = GroupOf(s, n)
          /\ EnteredOf(t, BeginOf(t, n)) = EnteredOf(s, BeginOf(s, n))
          /\ EnteredOf(t, n + 1) = EnteredOf(s, n) + 1
          /\ GroupOf(t, n + 1) = Append(<<>>, AsLine(<<>>))
      <4>1. "bc" \in Prompt
        BY <1>13
      <4>2. EnteredOf(t, n + 1) = EnteredOf(s, n) + 1
        <5>1. t \in Seq(Row) /\ t[n].entered /\ n <= Len(t)
          BY <1>14, <1>15, <3>2 DEF RowEnds
        <5>2. EnteredOf(t, n) = EnteredOf(s, n)
          BY <1>14, <3>2, <4>1, NextRow
        <5> QED
          BY <1>14, <5>1, <5>2, EnteredCounts
      <4>3. /\ Extends(t, s) /\ t # <<>> /\ t[1].prompt = "bc"
            /\ GroupOf(t, n) = GroupOf(s, n)
            /\ EnteredOf(t, BeginOf(t, n)) = EnteredOf(s, BeginOf(s, n))
            /\ GroupOf(t, n + 1) = Append(<<>>, AsLine(<<>>))
        BY <1>14, <3>2, <4>1, NextRow
      <4> QED
        BY <4>2, <4>3
    <3>4. RanOK(t, ran') /\ t \in Seq(Row)
      <4>1. t \in Seq(Row) /\ t[n].entered
        BY <1>15, <3>2 DEF RowEnds
      <4>2. Whole(GroupOf(t, n)) /\ e.lines = GroupOf(t, n) /\ e.first = 1 + EnteredOf(t, BeginOf(t, n))
        BY <1>7, <1>8, <1>17, <2>2, <3>3
      <4> QED
        BY <1>5, <2>2, <3>3, <4>1, <4>2, RanGrows
    <3>5. /\ t[Len(t)].text = line_buf' /\ ~t[Len(t)].entered
          /\ GroupOf(t, Len(t)) = Append(buf', AsLine(line_buf'))
          /\ next_line' = 1 + EnteredOf(t, Len(t))
          /\ buf' = <<>>
      <4>1. t[n + 1].text = <<>> /\ ~t[n + 1].entered
        BY <3>2 DEF NewRow
      <4>2. next_line' = 1 + EnteredOf(t, n + 1)
        BY <1>2, <1>6, <1>12, <3>3
      <4> QED
        BY <1>10, <1>17, <3>2, <3>3, <4>1, <4>2
    <3> QED
      BY <1>4, <1>9, <1>10, <1>11, <1>17, <2>3, <2>4, <3>3, <3>4, <3>5, ReplInvNext
  <2>6. CASE ~running'
    <3>1. t = Ending(s, n, yes, <<>>)
      BY <1>4, <1>5, <1>15, <1>17, <2>6 DEF EndRow, Ending
    <3>2. RowEnds(s, t, n, yes) /\ Len(t) = n
      BY <1>14, <3>1, EndRowIs
    <3>3. /\ t \in Seq(Row) /\ \A i \in 1..(n - 1) : t[i] = s[i]
          /\ t[n].prompt = s[n].prompt /\ t[n].text = s[n].text /\ t[n].entered
      BY <1>15, <3>2 DEF RowEnds
    <3>4. Extends(t, s)
      BY <1>14, <3>3, <3>2 DEF Extends
    <3>5. t # <<>> /\ t[1].prompt = "bc" /\ EnteredOf(t, BeginOf(t, n)) = EnteredOf(s, BeginOf(s, n))
      <4>1. t # <<>>
        BY <1>5, <3>2
      <4> QED
        BY <1>5, <3>3, <3>4, <4>1, OldRows
    <3>6. GroupOf(t, n) = GroupOf(s, n)
      <4>1. \A i \in 1..n : i \in 1..(n - 1) \/ i = n
        BY <1>5
      <4>2. \A i \in 1..n : t[i].prompt = s[i].prompt /\ t[i].text = s[i].text
        BY <3>3, <4>1
      <4>3. n <= Len(s) /\ n <= Len(t)
        BY <1>5, <3>2
      <4> QED
        BY <1>5, <3>3, <4>2, <4>3, SameGroup
    <3>7. RanOK(t, ran')
      <4>1. Whole(GroupOf(t, n)) /\ e.lines = GroupOf(t, n) /\ e.first = 1 + EnteredOf(t, BeginOf(t, n))
        BY <1>7, <1>8, <1>17, <2>2, <3>5, <3>6
      <4> QED
        BY <1>5, <2>2, <3>3, <3>4, <4>1, RanGrows
    <3> QED
      BY <1>4, <1>9, <1>10, <1>11, <1>17, <2>3, <2>4, <2>6, <3>3, <3>5, <3>7, ReplInvNext
  <2> QED
    BY <1>17, <2>5, <2>6
<1> QED
  BY <1>3, <1>16, <1>17

LEMMA ReplInitInv == Init => ReplInv
<1> SUFFICES ASSUME Init PROVE ReplInv
  OBVIOUS
<1>1. /\ on_quit \in {"ends", "goes_on"} /\ running = TRUE /\ line_buf = <<>> /\ buf = <<>>
      /\ start_line = 1 /\ next_line = 1 /\ ran = <<>>
      /\ rows = <<[prompt |-> "bc", text |-> <<>>, entered |-> FALSE]>>
  BY DEF Init
<1>2. PICK row, s : row = [prompt |-> "bc", text |-> <<>>, entered |-> FALSE] /\ s = <<row>>
  OBVIOUS
<1>3. row \in Row /\ row.prompt = "bc" /\ row.text = <<>> /\ row.entered = FALSE
  BY <1>2 DEF Row, Prompt
<1>4. s = rows /\ s \in Seq(Row) /\ Len(s) = 1 /\ s # <<>> /\ s[1] = row /\ 1 \in 1..1 /\ Current = 1
  BY <1>1, <1>2, <1>3 DEF Current
<1>5. BeginOf(s, 1) = 1 /\ GroupOf(s, 1) = Append(<<>>, AsLine(<<>>))
  BY <1>3, <1>4, GroupBegins
<1>6. EnteredOf(s, 1) = 0
  <2>1. {j \in 1..(1 - 1) : s[j].entered} = {}
    OBVIOUS
  <2> QED
    BY <2>1, FS_EmptySet DEF EnteredOf
<1>7. RanOK(s, ran)
  <2>1. Complete(s) = {}
    BY <1>3, <1>4 DEF Complete
  <2> QED
    BY <1>1, <2>1 DEF RanOK
<1>8. ExecutedIsShown /\ GroupsRunOnce /\ NumbersFollowRows
  BY <1>4, <1>7, OfRan
<1>9. ReplTypeOK
  <2>1. line_buf \in Seq(Chars) /\ Len(line_buf) <= REPL_MAX_LINE /\ buf \in Seq(Lines)
    BY <1>1, SerialConstantsOK
  <2>2. ran \in Seq([lines : Seq(Lines), first : Nat \ {0}, row : 1..Len(rows)])
    BY <1>1
  <2>3. start_line \in Nat \ {0} /\ next_line \in Nat \ {0} /\ rows \in Seq(Row) /\ rows # <<>>
    BY <1>1, <1>4
  <2> QED
    BY <1>1, <2>1, <2>2, <2>3 DEF ReplTypeOK
<1>10. /\ rows[Current].text = line_buf /\ ~rows[Current].entered
       /\ Group(Current) = Append(buf, AsLine(line_buf))
       /\ buf = <<>>
  BY <1>1, <1>3, <1>4, <1>5, OfRows
<1>11. next_line = 1 + EnteredBefore(Current)
  <2>1. EnteredBefore(Current) = 0
    BY <1>4, <1>6, OfRows
  <2> QED
    BY <1>1, <2>1
<1> QED
  BY <1>3, <1>4, <1>8, <1>9, <1>10, <1>11 DEF ReplInv

LEMMA ReplStutter ==
  ASSUME ReplInv, UNCHANGED vars
  PROVE  ReplInv'
<1>1. /\ on_quit' = on_quit /\ running' = running /\ line_buf' = line_buf /\ buf' = buf
      /\ start_line' = start_line /\ next_line' = next_line /\ rows' = rows /\ ran' = ran
  BY DEF vars, acc
<1>2. PICK t, n : t = rows /\ n = Len(rows)
  OBVIOUS
<1>3. /\ t \in Seq(Row) /\ t # <<>> /\ t[1].prompt = "bc" /\ Current = n /\ n = Len(t)
      /\ RanOK(t, ran) /\ ran \in Seq(Unrun)
      /\ line_buf \in Seq(Chars) /\ Len(line_buf) <= REPL_MAX_LINE
      /\ buf \in Seq(Lines) /\ start_line \in Nat \ {0} /\ next_line \in Nat \ {0}
  BY <1>2, ReplFacts
<1>4. on_quit \in {"ends", "goes_on"} /\ running \in BOOLEAN
  BY DEF ReplInv, ReplTypeOK
<1>5. running =>
        /\ t[n].text = line_buf /\ ~t[n].entered
        /\ GroupOf(t, n) = Append(buf, AsLine(line_buf))
        /\ next_line = 1 + EnteredOf(t, n)
        /\ buf # <<>> => start_line = 1 + EnteredOf(t, BeginOf(t, n))
  BY <1>2, <1>3, CurrentFacts
<1>6. running' =>
        /\ t[n].text = line_buf' /\ ~t[n].entered
        /\ GroupOf(t, n) = Append(buf', AsLine(line_buf'))
        /\ next_line' = 1 + EnteredOf(t, n)
        /\ buf' # <<>> => start_line' = 1 + EnteredOf(t, BeginOf(t, n))
  BY <1>1, <1>5
<1>7. t = rows'
  BY <1>1, <1>2
<1> QED
  BY <1>1, <1>3, <1>4, <1>6, <1>7, ReplInvNext

(* What the terminal shows and what the loop holds belong together in every state of        *)
(* run_repl_with and of the loop of m5stamp_c3, for any keys and any size of the line buffer.*)
THEOREM ReplInductive == Spec => []ReplInv
<1>1. ReplInv /\ [Next]_vars => ReplInv'
  BY TypeCharInv, EraseInv, InterruptInv, EnterInv, ReplStutter DEF Next
<1> QED
  BY <1>1, ReplInitInv, PTL DEF Spec

(* What is run is what stands on the terminal since the last "bc> ", whatever was erased,   *)
(* cancelled or cut off by the limit before (bc_zephyr lib.rs 345, 361, 369).               *)
THEOREM ShownIsRun == Spec => []ExecutedIsShown
<1>1. ReplInv => ExecutedIsShown
  BY DEF ReplInv
<1> QED
  BY <1>1, ReplInductive, PTL

(* Every group of rows that is complete is run, once and in order.                          *)
THEOREM EachGroupRunsOnce == Spec => []GroupsRunOnce
<1>1. ReplInv => GroupsRunOnce
  BY DEF ReplInv
<1> QED
  BY <1>1, ReplInductive, PTL

(* A unit carries the number of the line entered first in its group, counting the rows that *)
(* were entered and then cancelled with their unit.                                         *)
THEOREM LinesCountRows == Spec => []NumbersFollowRows
<1>1. ReplInv => NumbersFollowRows
  BY DEF ReplInv
<1> QED
  BY <1>1, ReplInductive, PTL
=============================================================================
