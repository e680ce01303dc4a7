-------------------------- MODULE Evaluator_proofs --------------------------
(***************************************************************************)
(* Proofs about Evaluator for every value of its constants: the types, the *)
(* balance of the scope stacks, the range of the registers.                *)
(***************************************************************************)
EXTENDS Evaluator, SequenceTheorems, TLAPS

-----------------------------------------------------------------------------
(* Sequences *)

LEMMA PrefixProps ==
  ASSUME NEW S, NEW s, NEW n \in Nat, \A i \in 1..n : s[i] \in S
  PROVE  /\ SubSeq(s, 1, n) \in Seq(S) /\ Len(SubSeq(s, 1, n)) = n
         /\ \A i \in 1..n : SubSeq(s, 1, n)[i] = s[i]
OBVIOUS

(* What Front and Last return. *)
LEMMA FrontProps ==
  ASSUME NEW S, NEW s \in Seq(S), s # <<>>
  PROVE  /\ Front(s) \in Seq(S) /\ Len(Front(s)) = Len(s) - 1
         /\ \A i \in 1..(Len(s) - 1) : Front(s)[i] = s[i]
         /\ Last(s) = s[Len(s)] /\ Last(s) \in S
<1>1. PICK n \in Nat : n = Len(s) - 1
  OBVIOUS
<1>2. \A i \in 1..n : s[i] \in S
  BY <1>1
<1>3. Front(s) = SubSeq(s, 1, n)
  BY <1>1 DEF Front
<1>4. Front(s) \in Seq(S) /\ Len(Front(s)) = n /\ \A i \in 1..n : Front(s)[i] = s[i]
  BY <1>2, <1>3, PrefixProps
<1>5. Last(s) = s[Len(s)] /\ Last(s) \in S
  BY DEF Last
<1> QED
  BY <1>1, <1>4, <1>5

(* Front of any sequence is a sequence over the same set. *)
LEMMA FrontTyped ==
  ASSUME NEW S, NEW s \in Seq(S)
  PROVE  Front(s) \in Seq(S)
<1>1. CASE s = <<>>
  BY <1>1 DEF Front
<1>2. CASE s # <<>>
  BY <1>2, FrontProps
<1> QED
  BY <1>1, <1>2

LEMMA SingletonProps ==
  ASSUME NEW S, NEW e \in S
  PROVE  <<e>> \in Seq(S) /\ <<e>> # <<>> /\ Len(<<e>>) = 1 /\ <<e>>[1] = e
OBVIOUS

-----------------------------------------------------------------------------
(* The control stack: the three ways an action changes the innermost construct. *)

LEMMA CtxFacts ==
  ASSUME TypeOK
  PROVE  /\ Top \in Nat \ {0} /\ Len(ctx) = Top /\ Here \in Seq(Context)
         /\ Act \in Activation
         /\ DOMAIN ctx = 1..Top /\ DOMAIN acts = 1..Top
         /\ \A i \in 1..Top : ctx[i] \in Seq(Context)
BY DEF TypeOK, Top, Here, Act

LEMMA InnerFacts ==
  ASSUME TypeOK, NEW kinds, InInner(kinds)
  PROVE  Here # <<>> /\ Inner = Here[Len(Here)] /\ Inner \in Context /\ Inner.kind \in kinds
         /\ Len(Here) \in Nat \ {0}
<1>1. Here \in Seq(Context) /\ Here # <<>>
  BY CtxFacts DEF InInner
<1> QED
  BY <1>1, FrontProps DEF InInner, Inner

LEMMA PushCtx ==
  ASSUME TypeOK, NEW c \in Context, Push(c)
  PROVE  /\ ctx' \in Seq(Seq(Context)) /\ Len(ctx') = Len(ctx)
         /\ ctx'[Top] # <<>> /\ Len(ctx'[Top]) = Len(Here) + 1 /\ ctx'[Top][Len(Here) + 1] = c
         /\ \A i \in 1..Top : \A k \in 1..Len(ctx'[i]) :
              \/ i = Top /\ k = Len(Here) + 1 /\ ctx'[i][k] = c
              \/ k \in 1..Len(ctx[i]) /\ ctx'[i][k] = ctx[i][k]
<1>1. /\ Top \in 1..Len(ctx) /\ Here \in Seq(Context) /\ Here = ctx[Top]
      /\ ctx \in Seq(Seq(Context))
  BY CtxFacts DEF TypeOK, Here
<1>2. PICK h : h = Append(Here, c)
  OBVIOUS
<1>3. h \in Seq(Context) /\ Len(h) = Len(Here) + 1 /\ h[Len(Here) + 1] = c
      /\ (\A k \in 1..Len(Here) : h[k] = Here[k])
  BY <1>1, <1>2, AppendProperties
<1>4. ctx' = [ctx EXCEPT ![Top] = h]
  BY <1>2 DEF Push
<1>5. h # <<>>
  BY <1>1, <1>3
<1> QED
  BY <1>1, <1>3, <1>4, <1>5, SMTT(30)

LEMMA ReplaceCtx ==
  ASSUME TypeOK, Here # <<>>, NEW c \in Context, Replace(c)
  PROVE  /\ ctx' \in Seq(Seq(Context)) /\ Len(ctx') = Len(ctx)
         /\ ctx'[Top] # <<>> /\ Len(ctx'[Top]) = Len(Here) /\ ctx'[Top][Len(Here)] = c
         /\ \A i \in 1..Top : \A k \in 1..Len(ctx'[i]) :
              \/ i = Top /\ k = Len(Here) /\ ctx'[i][k] = c
              \/ /\ k \in 1..Len(ctx[i]) /\ ctx'[i][k] = ctx[i][k]
                 /\ ~(i = Top /\ k = Len(Here))
<1>1. /\ Top \in 1..Len(ctx) /\ Here \in Seq(Context) /\ Here = ctx[Top]
      /\ ctx \in Seq(Seq(Context)) /\ Len(Here) \in Nat \ {0}
  BY CtxFacts DEF TypeOK, Here
<1>2. PICK h : h = Front(Here)
  OBVIOUS
<1>3. h \in Seq(Context) /\ Len(h) = Len(Here) - 1
      /\ \A k \in 1..(Len(Here) - 1) : h[k] = Here[k]
  BY <1>1, <1>2, FrontProps
<1>4. PICK g : g = Append(h, c)
  OBVIOUS
<1>5. g \in Seq(Context) /\ Len(g) = Len(Here) /\ g[Len(Here)] = c
      /\ (\A k \in 1..(Len(Here) - 1) : g[k] = Here[k])
  BY <1>1, <1>3, <1>4, AppendProperties
<1>6. ctx' = [ctx EXCEPT ![Top] = g]
  BY <1>2, <1>4 DEF Replace
<1>7. g # <<>>
  BY <1>1, <1>5
<1>8. /\ ctx' \in Seq(Seq(Context)) /\ Len(ctx') = Len(ctx) /\ ctx'[Top] = g
      /\ \A i \in 1..Top : i # Top => ctx'[i] = ctx[i]
      /\ Len(ctx) = Top
  BY <1>1, <1>5, <1>6, CtxFacts
<1>9. ASSUME NEW i \in 1..Top, NEW k \in 1..Len(ctx'[i])
      PROVE  \/ i = Top /\ k = Len(Here) /\ ctx'[i][k] = c
             \/ /\ k \in 1..Len(ctx[i]) /\ ctx'[i][k] = ctx[i][k]
                /\ ~(i = Top /\ k = Len(Here))
  <2>1. CASE i = Top
    <3>1. k \in 1..Len(Here) /\ ctx'[i][k] = g[k] /\ ctx[i] = Here
      BY <1>1, <1>5, <1>8, <2>1
    <3>2. CASE k = Len(Here)
      BY <1>5, <2>1, <3>1, <3>2
    <3>3. CASE k # Len(Here)
      <4>1. k \in 1..(Len(Here) - 1)
        BY <1>1, <3>1, <3>3
      <4> QED
        BY <1>5, <2>1, <3>1, <3>3, <4>1
    <3> QED
      BY <3>2, <3>3
  <2>2. CASE i # Top
    BY <1>8, <2>2
  <2> QED
    BY <2>1, <2>2
<1> QED
  BY <1>5, <1>7, <1>8, <1>9

LEMMA PopCtx ==
  ASSUME TypeOK, Here # <<>>, PopInner
  PROVE  /\ ctx' \in Seq(Seq(Context)) /\ Len(ctx') = Len(ctx)
         /\ Len(ctx'[Top]) = Len(Here) - 1
         /\ \A i \in 1..Top : \A k \in 1..Len(ctx'[i]) :
              /\ k \in 1..Len(ctx[i]) /\ ctx'[i][k] = ctx[i][k]
              /\ ~(i = Top /\ k = Len(Here))
<1>1. /\ Top \in 1..Len(ctx) /\ Here \in Seq(Context) /\ Here = ctx[Top]
      /\ ctx \in Seq(Seq(Context)) /\ Len(Here) \in Nat \ {0}
  BY CtxFacts, SMTT(30) DEF TypeOK, Here
<1>2. PICK h : h = Front(Here)
  OBVIOUS
<1>3. h \in Seq(Context) /\ Len(h) = Len(Here) - 1
      /\ \A k \in 1..(Len(Here) - 1) : h[k] = Here[k]
  BY <1>1, <1>2, FrontProps
<1>4. ctx' = [ctx EXCEPT ![Top] = h]
  BY <1>2 DEF PopInner
<1>5. /\ ctx' \in Seq(Seq(Context)) /\ Len(ctx') = Len(ctx) /\ ctx'[Top] = h
      /\ \A i \in 1..Top : i # Top => ctx'[i] = ctx[i]
      /\ Len(ctx) = Top
  BY <1>1, <1>3, <1>4, CtxFacts
<1>6. ASSUME NEW i \in 1..Top, NEW k \in 1..Len(ctx'[i])
      PROVE  /\ k \in 1..Len(ctx[i]) /\ ctx'[i][k] = ctx[i][k]
             /\ ~(i = Top /\ k = Len(Here))
  <2>1. CASE i = Top
    <3>1. k \in 1..(Len(Here) - 1) /\ ctx'[i][k] = h[k] /\ ctx[i] = Here
      BY <1>1, <1>3, <1>5, <2>1
    <3> QED
      BY <1>1, <1>3, <2>1, <3>1
  <2>2. CASE i # Top
    BY <1>5, <2>2
  <2> QED
    BY <2>1, <2>2
<1> QED
  BY <1>3, <1>5, <1>6

(* The pending constructs the actions create. *)
LEMMA ContextForms ==
  /\ \A k \in {"discard", "return", "if", "block", "call"} : [kind |-> k] \in Context
  /\ \A b \in BOOLEAN, p \in {"init", "cond", "body", "post"} :
       [kind |-> "loop", post |-> b, phase |-> p] \in Context
  /\ \A m \in {0, 1} : [kind |-> "operand", more |-> m] \in Context
  /\ \A n \in Arrays, u \in {"read", "assign", "compound", "prefix", "postfix"} :
       [kind |-> "index", name |-> n, use |-> u] \in Context
  /\ \A p \in Place, b \in BOOLEAN, f \in Nat \X Nat :
       [kind |-> "rhs", place |-> p, compound |-> b, frame |-> f] \in Context
  /\ \A f \in Functions, h \in Headers, d \in Seq(AnyFrame) :
       [kind |-> "args", fn |-> f, header |-> h, done |-> d] \in Context
BY DEF Context

LEMMA ContextKinds ==
  ASSUME NEW c \in Context
  PROVE  /\ c.kind = "loop" => c.post \in BOOLEAN /\ \A p \in {"init", "cond", "body", "post"} :
              [c EXCEPT !.phase = p] = [kind |-> "loop", post |-> c.post, phase |-> p]
         /\ c.kind = "operand" => c.more \in {0, 1} /\ \A m :
              [c EXCEPT !.more = m] = [kind |-> "operand", more |-> m]
         /\ c.kind = "index" =>
              c.name \in Arrays /\ c.use \in {"read", "assign", "compound", "prefix", "postfix"}
         /\ c.kind = "rhs" => c.place \in Place /\ c.compound \in BOOLEAN
         /\ c.kind = "args" =>
              /\ c.fn \in Functions /\ c.header \in Headers /\ c.done \in Seq(AnyFrame)
              /\ \A d : [c EXCEPT !.done = d] =
                          [kind |-> "args", fn |-> c.fn, header |-> c.header, done |-> d]
BY DEF Context

(* What the innermost construct holds, by its kind. *)
LEMMA InnerFields ==
  ASSUME TypeOK, NEW kinds, InInner(kinds)
  PROVE  /\ Inner.kind = "operand" => Inner.more \in {0, 1}
         /\ Inner.kind = "index" => Inner.name \in Arrays
         /\ Inner.kind = "rhs" => Inner.place \in Place
         /\ Inner.kind = "args" =>
              Inner.fn \in Functions /\ Inner.header \in Headers /\ Inner.done \in Seq(AnyFrame)
<1>1. PICK c : c = Inner
  OBVIOUS
<1>2. c \in Context
  BY <1>1, InnerFacts
<1> QED
  BY <1>1, <1>2 DEF Context

(* The constructs the actions advance. *)
LEMMA NextPhase ==
  ASSUME NEW c \in Context, c.kind = "loop", NEW p \in {"init", "cond", "body", "post"}
  PROVE  [c EXCEPT !.phase = p] \in Context /\ [c EXCEPT !.phase = p].kind = "loop"
<1>1. PICK d : d = [c EXCEPT !.phase = p]
  OBVIOUS
<1>2. c.post \in BOOLEAN /\ d = [kind |-> "loop", post |-> c.post, phase |-> p]
  BY <1>1, ContextKinds
<1>3. d \in Context /\ d.kind = "loop"
  BY <1>2, ContextForms
<1> QED
  BY <1>1, <1>3

LEMMA NextOperand ==
  ASSUME NEW c \in Context, c.kind = "operand", NEW m \in {0, 1}
  PROVE  [c EXCEPT !.more = m] \in Context /\ [c EXCEPT !.more = m].kind = "operand"
<1>1. PICK d : d = [c EXCEPT !.more = m]
  OBVIOUS
<1>2. d = [kind |-> "operand", more |-> m]
  BY <1>1, ContextKinds
<1>3. d \in Context /\ d.kind = "operand"
  BY <1>2, ContextForms
<1> QED
  BY <1>1, <1>3

LEMMA NextArg ==
  ASSUME NEW c \in Context, c.kind = "args", NEW a \in AnyFrame
  PROVE  LET d == [c EXCEPT !.done = Append(@, a)]
         IN  /\ d \in Context /\ d.kind = "args" /\ d.header = c.header
             /\ d.done = Append(c.done, a)
<1>1. PICK d : d = [c EXCEPT !.done = Append(@, a)]
  OBVIOUS
<1>2. c.fn \in Functions /\ c.header \in Headers /\ c.done \in Seq(AnyFrame)
  BY ContextKinds
<1>3. PICK s : s = Append(c.done, a)
  OBVIOUS
<1>4. d = [c EXCEPT !.done = s]
  BY <1>1, <1>3
<1>5. d = [kind |-> "args", fn |-> c.fn, header |-> c.header, done |-> s]
  BY <1>4, ContextKinds
<1>6. s \in Seq(AnyFrame)
  BY <1>2, <1>3, AppendProperties
<1>7. d \in Context /\ d.kind = "args" /\ d.header = c.header /\ d.done = s
  BY <1>2, <1>5, <1>6, ContextForms
<1> QED
  BY <1>1, <1>3, <1>7

-----------------------------------------------------------------------------
(* The storage *)

LEMMA ZeroFrameTyped ==
  ASSUME NEW n
  PROVE  ZeroFrame(n) \in Frame(n)
BY ConstantsOK DEF ZeroFrame, Frame

(* A name's stack is never empty once used and holds frames of the name's shape. *)
LEMMA StackTyped ==
  ASSUME TypeOK, NEW n \in Names
  PROVE  /\ StackOf(n) \in Seq(Frame(n)) /\ StackOf(n) # <<>>
         /\ OwnersOf(n) \in Seq(Nat \X Nat) /\ OwnersOf(n) # <<>>
         /\ TopFrame(n) \in Frame(n) /\ Len(StackOf(n)) \in 1..Len(StackOf(n))
         /\ Last(OwnersOf(n)) \in Nat \X Nat
<1>1. StackOf(n) \in Seq(Frame(n)) /\ StackOf(n) # <<>>
  BY ZeroFrameTyped DEF TypeOK, StackOf
<1>2. OwnersOf(n) \in Seq(Nat \X Nat) /\ OwnersOf(n) # <<>>
  <2>1. Global \in Nat \X Nat
    BY DEF Global
  <2>2. <<Global>> \in Seq(Nat \X Nat) /\ <<Global>> # <<>>
    BY <2>1, SingletonProps
  <2>3. owner[n] \in Seq(Nat \X Nat)
    BY DEF TypeOK
  <2>4. CASE owner[n] = <<>>
    BY <2>2, <2>4 DEF OwnersOf
  <2>5. CASE owner[n] # <<>>
    BY <2>3, <2>5 DEF OwnersOf
  <2> QED
    BY <2>4, <2>5
<1>3. TopFrame(n) \in Frame(n) /\ Last(OwnersOf(n)) \in Nat \X Nat
  BY <1>1, <1>2, FrontProps DEF TopFrame
<1>4. Len(StackOf(n)) \in 1..Len(StackOf(n))
  BY <1>1
<1> QED
  BY <1>1, <1>2, <1>3, <1>4

LEMMA SetStackTyped ==
  ASSUME TypeOK, NEW n \in Names, NEW s \in Seq(Frame(n)), NEW o \in Seq(Nat \X Nat),
         SetStack(n, s, o)
  PROVE  /\ DOMAIN scopes' = Names /\ \A m \in Names : scopes'[m] \in Seq(Frame(m))
         /\ owner' \in [Names -> Seq(Nat \X Nat)]
BY DEF SetStack, TypeOK

LEMMA TouchTyped ==
  ASSUME TypeOK, NEW n \in Names, Touch(n)
  PROVE  /\ DOMAIN scopes' = Names /\ \A m \in Names : scopes'[m] \in Seq(Frame(m))
         /\ owner' \in [Names -> Seq(Nat \X Nat)]
BY StackTyped, SetStackTyped DEF Touch

(* Changing a cell of the top frame leaves a stack of the same shape and height. *)
LEMMA CellSetTyped ==
  ASSUME TypeOK, NEW n \in Names, NEW c \in Cells(n), NEW v \in Values
  PROVE  LET s == [StackOf(n) EXCEPT ![Len(StackOf(n))] = [@ EXCEPT ![c] = v]]
         IN  s \in Seq(Frame(n)) /\ Len(s) = Len(StackOf(n))
<1>1. PICK t : t = StackOf(n)
  OBVIOUS
<1>2. t \in Seq(Frame(n)) /\ Len(t) \in 1..Len(t)
  BY <1>1, StackTyped
<1>3. t[Len(t)] \in Frame(n)
  BY <1>2
<1>4. [t[Len(t)] EXCEPT ![c] = v] \in Frame(n)
  BY <1>3 DEF Frame
<1>5. [t EXCEPT ![Len(t)] = [@ EXCEPT ![c] = v]] = [t EXCEPT ![Len(t)] = [t[Len(t)] EXCEPT ![c] = v]]
  OBVIOUS
<1> QED
  BY <1>1, <1>2, <1>4, <1>5, ExceptSeq

(* What a place holds is a number, and so is what it keeps of a number stored in it. *)
LEMMA PlaceFacts ==
  ASSUME NEW p \in Place
  PROVE  /\ p.kind \in {"cell", "register"}
         /\ p.kind = "cell" => p.name \in Names /\ p.cell \in Cells(p.name)
         /\ p.kind = "register" => p.reg \in Registers
BY DEF Place

LEMMA ClampedInRange ==
  ASSUME NEW r \in Registers, NEW v \in Values
  PROVE  Clamped(r, v) \in RegMin[r]..RegMax[r] /\ Clamped(r, v) \in Values
BY ConstantsOK DEF Clamped, ClampRegister

LEMMA LoadedTyped ==
  ASSUME TypeOK, NEW p \in Place
  PROVE  Loaded(p) \in Values
<1>1. CASE p.kind = "cell"
  BY <1>1, PlaceFacts, StackTyped DEF Loaded, Frame
<1>2. CASE p.kind = "register"
  BY <1>2, PlaceFacts DEF Loaded, TypeOK
<1> QED
  BY <1>1, <1>2, PlaceFacts

LEMMA StoreTyped ==
  ASSUME TypeOK, NEW p \in Place, NEW v \in Values, Store(p, v)
  PROVE  /\ DOMAIN scopes' = Names /\ \A m \in Names : scopes'[m] \in Seq(Frame(m))
         /\ owner' \in [Names -> Seq(Nat \X Nat)]
         /\ registers' \in [Registers -> Values]
         /\ Stored(p, v) \in Values
<1>1. CASE p.kind = "cell"
  <2>1. p.name \in Names /\ p.cell \in Cells(p.name)
    BY <1>1, PlaceFacts
  <2>2. PICK s : s = [StackOf(p.name) EXCEPT ![Len(StackOf(p.name))] = [@ EXCEPT ![p.cell] = v]]
    OBVIOUS
  <2>3. s \in Seq(Frame(p.name))
    BY <2>1, <2>2, CellSetTyped
  <2>4. SetStack(p.name, s, OwnersOf(p.name)) /\ UNCHANGED registers
    BY <1>1, <2>2 DEF Store
  <2> QED
    BY <1>1, <2>1, <2>3, <2>4, SetStackTyped, StackTyped DEF TypeOK, Stored
<1>2. CASE p.kind = "register"
  BY <1>2, PlaceFacts, ClampedInRange DEF Store, Stored, TypeOK
<1> QED
  BY <1>1, <1>2, PlaceFacts

LEMMA PlacesTyped ==
  /\ \A n \in Scalars : Cell(n, 0) \in Place
  /\ \A n \in Arrays, v \in Values : InRange(v) => Cell(n, v) \in Place
  /\ \A r \in Registers : RegisterPlace(r) \in Place
BY ConstantsOK DEF Cell, RegisterPlace, Place, Cells, Names, InRange

LEMMA RhsTyped ==
  ASSUME TypeOK, NEW p \in Place, NEW b \in BOOLEAN
  PROVE  RhsOf(p, b) \in Context /\ RhsOf(p, b).kind = "rhs"
<1>1. Global \in Nat \X Nat
  BY DEF Global
<1>2. PlaceFrame(p) \in Nat \X Nat
  BY <1>1, PlaceFacts, StackTyped DEF PlaceFrame
<1> QED
  BY <1>2, ContextForms DEF RhsOf

-----------------------------------------------------------------------------
(* Calls being prepared *)

(* Every call still being prepared was so before, unchanged. *)
Kept ==
  \A i \in DOMAIN ctx' : \A k \in DOMAIN ctx'[i] :
    ctx'[i][k].kind = "args" =>
      i \in DOMAIN ctx /\ k \in DOMAIN ctx[i] /\ ctx'[i][k] = ctx[i][k]

LEMMA PreparedKept ==
  ASSUME PreparedCallsOK, Kept, mode # "arg", failure'.kind = "none" => failure.kind = "none"
  PROVE  PreparedCallsOK'
BY DEF PreparedCallsOK, Kept, ArgsTyped, ScalarPending

LEMMA PreparedFailed ==
  ASSUME PreparedCallsOK, Kept, failure'.kind # "none"
  PROVE  PreparedCallsOK'
BY DEF PreparedCallsOK, Kept, ArgsTyped

LEMMA KeptSame ==
  ASSUME UNCHANGED ctx
  PROVE  Kept
BY DEF Kept

LEMMA KeptPush ==
  ASSUME TypeOK, NEW c \in Context, c.kind # "args", Push(c)
  PROVE  Kept
<1>1. DOMAIN ctx' = 1..Top /\ DOMAIN ctx = 1..Top
  BY PushCtx, CtxFacts
<1>2. \A i \in 1..Top : DOMAIN ctx'[i] = 1..Len(ctx'[i]) /\ DOMAIN ctx[i] = 1..Len(ctx[i])
  BY <1>1, PushCtx DEF TypeOK
<1> QED
  BY <1>1, <1>2, PushCtx DEF Kept

LEMMA KeptReplace ==
  ASSUME TypeOK, Here # <<>>, NEW c \in Context, c.kind # "args", Replace(c)
  PROVE  Kept
<1>1. DOMAIN ctx' = 1..Top /\ DOMAIN ctx = 1..Top
  BY ReplaceCtx, CtxFacts
<1>2. \A i \in 1..Top : DOMAIN ctx'[i] = 1..Len(ctx'[i]) /\ DOMAIN ctx[i] = 1..Len(ctx[i])
  BY <1>1, ReplaceCtx DEF TypeOK
<1>3. ASSUME NEW i \in 1..Top, NEW k \in 1..Len(ctx'[i]), ctx'[i][k].kind = "args"
      PROVE  k \in 1..Len(ctx[i]) /\ ctx'[i][k] = ctx[i][k]
  BY <1>3, ReplaceCtx
<1> QED
  BY <1>1, <1>2, <1>3 DEF Kept

LEMMA KeptPop ==
  ASSUME TypeOK, Here # <<>>, PopInner
  PROVE  Kept
<1>1. DOMAIN ctx' = 1..Top /\ DOMAIN ctx = 1..Top
  BY PopCtx, CtxFacts
<1>2. \A i \in 1..Top : DOMAIN ctx'[i] = 1..Len(ctx'[i]) /\ DOMAIN ctx[i] = 1..Len(ctx[i])
  BY <1>1, PopCtx DEF TypeOK
<1> QED
  BY <1>1, <1>2, PopCtx DEF Kept

-----------------------------------------------------------------------------
(* Types, actions of try_execute *)

(* The parts of the invariant other than the balance of the scope stacks. *)
Control == TypeOK /\ PreparedCallsOK /\ ActivationsOK /\ ModesOK

LEMMA ExecuteControl ==
  ASSUME Control, Execute
  PROVE  Control'
<1> USE DEF Control
<1>1. CASE ExecBreak
  BY <1>1, KeptSame, PreparedKept
     DEF ExecBreak, StartStatement, TypeOK, ActivationsOK, ModesOK, storage, Mode
<1>2. CASE ExecReturn
  BY <1>2, ConstantsOK, KeptSame, PreparedKept
     DEF ExecReturn, StartStatement, TypeOK, ActivationsOK, ModesOK, storage, Mode
<1>3. ASSUME NEW c \in Context, c.kind # "args", Push(c), mode = "stmt", mode' \in {"stmt", "expr"},
             UNCHANGED <<acts, storage, functions, jumps, call_stack, val, failure>>
      PROVE  Control'
  <2>1. Kept
    BY <1>3, KeptPush
  <2>2. PreparedCallsOK'
    BY <1>3, <2>1, PreparedKept
  <2>3. TypeOK'
    BY <1>3, PushCtx DEF TypeOK, storage, jumps, Mode
  <2> QED
    BY <1>3, <2>2, <2>3 DEF ActivationsOK, ModesOK
<1>4. CASE ExecExpr
  BY <1>3, <1>4, ContextForms DEF ExecExpr, StartStatement
<1>5. CASE ExecBlock
  BY <1>3, <1>5, ContextForms DEF ExecBlock, StartStatement
<1>6. CASE ExecReturnExpr
  BY <1>3, <1>6, ContextForms DEF ExecReturnExpr, StartStatement
<1>7. CASE ExecIf
  BY <1>3, <1>7, ContextForms DEF ExecIf, StartStatement
<1>8. ASSUME NEW isFor \in LoopForms, ExecLoop(isFor)
      PROVE  Control'
  <2>1. isFor \in BOOLEAN
    BY ConstantsOK
  <2> QED
    BY <1>3, <1>8, <2>1, ContextForms DEF ExecLoop, StartStatement
<1>9. CASE EndBlock
  <2>1. Here # <<>> /\ PopInner
    BY <1>9, InnerFacts DEF EndBlock
  <2>2. PreparedCallsOK'
    BY <1>9, <2>1, KeptPop, PreparedKept DEF EndBlock
  <2>3. TypeOK'
    BY <1>9, <2>1, PopCtx DEF EndBlock, TypeOK, storage, jumps
  <2> QED
    BY <1>9, <2>2, <2>3 DEF EndBlock, ActivationsOK, ModesOK
<1>10. CASE EndLoopBody
  <2>1. Here # <<>> /\ Inner \in Context /\ Inner.kind = "loop"
    BY <1>10, InnerFacts DEF EndLoopBody
  <2>2. break_flag' \in BOOLEAN /\ UNCHANGED <<acts, storage, functions, return_flag, return_value,
                                               call_stack, val, failure>>
        /\ mode = "stmt" /\ mode' \in {"stmt", "expr"}
    BY <1>10 DEF EndLoopBody, LoopPostBody
  <2>3. CASE PopInner
    <3>1. PreparedCallsOK'
      BY <2>1, <2>2, <2>3, KeptPop, PreparedKept
    <3>2. TypeOK'
      BY <2>1, <2>2, <2>3, PopCtx DEF TypeOK, storage, Mode
    <3> QED
      BY <2>2, <3>1, <3>2 DEF ActivationsOK, ModesOK
  <2>4. ASSUME NEW p \in {"cond", "post"}, Replace([Inner EXCEPT !.phase = p])
        PROVE  Control'
    <3>1. /\ [Inner EXCEPT !.phase = p] \in Context
          /\ [Inner EXCEPT !.phase = p].kind # "args"
      BY <2>1, NextPhase
    <3>2. PreparedCallsOK'
      BY <2>1, <2>2, <2>4, <3>1, KeptReplace, PreparedKept
    <3>3. TypeOK'
      BY <2>1, <2>2, <2>4, <3>1, ReplaceCtx DEF TypeOK, storage, Mode
    <3> QED
      BY <2>2, <3>2, <3>3 DEF ActivationsOK, ModesOK
  <2> QED
    BY <1>10, <2>3, <2>4 DEF EndLoopBody
<1> QED
  BY <1>1, <1>2, <1>4, <1>5, <1>6, <1>7, <1>8, <1>9, <1>10 DEF Execute

-----------------------------------------------------------------------------
(* Types, actions of try_evaluate *)

LEMMA RaiseControl ==
  ASSUME Control, NEW kind \in {"error", "panic"}, Raise(kind)
  PROVE  Control'
<1>1. Act.fn \in Functions \union {Main} /\ failure'.kind # "none"
      /\ failure' = [kind |-> kind, func |-> Main, origin |-> Act.fn]
  BY CtxFacts DEF Raise, Control, Activation
<1>2. PreparedCallsOK'
  BY <1>1, KeptSame, PreparedFailed DEF Raise, Control
<1>3. TypeOK'
  BY <1>1, ConstantsOK DEF Raise, Control, TypeOK, storage, jumps, Mode
<1> QED
  BY <1>1, <1>2, <1>3 DEF Raise, Control, ActivationsOK, ModesOK

LEMMA EvaluateControl ==
  ASSUME Control, Evaluate
  PROVE  Control'
<1> USE DEF Control
<1>1. CASE Literal
  BY <1>1, KeptSame, PreparedKept
     DEF Literal, Yield, TypeOK, ActivationsOK, ModesOK, storage, jumps, Mode
<1>2. CASE FailExpr
  BY <1>2, RaiseControl DEF FailExpr
<1>3. ASSUME NEW r \in Registers, ReadRegister(r)
      PROVE  Control'
  BY <1>3, KeptSame, PreparedKept
     DEF ReadRegister, Yield, TypeOK, ActivationsOK, ModesOK, storage, jumps, Mode
<1>4. ASSUME NEW n \in Scalars, ReadVariable(n)
      PROVE  Control'
  <2>1. n \in Names /\ 0 \in Cells(n) /\ TopFrame(n)[0] \in Values
    BY StackTyped, ConstantsOK, ZenonT(30) DEF Names, Cells, Frame
  <2>2. PreparedCallsOK'
    BY <1>4, KeptSame, PreparedKept DEF ReadVariable
  <2>3. TypeOK'
    BY <1>4, <2>1, TouchTyped DEF ReadVariable, Yield, TypeOK, jumps, Mode
  <2> QED
    BY <1>4, <2>2, <2>3 DEF ReadVariable, Yield, ActivationsOK, ModesOK
<1>5. ASSUME NEW c \in Context, c.kind # "args", Push(c), mode = "expr", UNCHANGED mode,
             DOMAIN scopes' = Names, \A m \in Names : scopes'[m] \in Seq(Frame(m)),
             owner' \in [Names -> Seq(Nat \X Nat)],
             UNCHANGED <<acts, registers, functions, jumps, call_stack, val, failure>>
      PROVE  Control'
  <2>1. PreparedCallsOK'
    BY <1>5, KeptPush, PreparedKept
  <2>2. TypeOK'
    BY <1>5, PushCtx DEF TypeOK, jumps
  <2> QED
    BY <1>5, <2>1, <2>2 DEF ActivationsOK, ModesOK
<1>6. ASSUME NEW k \in 1..MaxOperands, EvalOperation(k)
      PROVE  Control'
  <2>1. k - 1 \in {0, 1}
    BY ConstantsOK
  <2>2. PICK c : c = [kind |-> "operand", more |-> k - 1]
    OBVIOUS
  <2>3. c \in Context /\ c.kind # "args"
    BY <2>1, <2>2, ContextForms
  <2> QED
    BY <1>5, <1>6, <2>2, <2>3 DEF EvalOperation, storage, TypeOK
<1>7. ASSUME NEW n \in Arrays, NEW use \in {"read", "assign", "compound", "prefix", "postfix"},
             EvalSubscript(n, use)
      PROVE  Control'
  <2>1. PICK c : c = [kind |-> "index", name |-> n, use |-> use]
    OBVIOUS
  <2>2. c \in Context /\ c.kind # "args"
    BY <2>1, ContextForms
  <2> QED
    BY <1>5, <1>7, <2>1, <2>2 DEF EvalSubscript, storage, TypeOK
<1>8. ASSUME NEW p \in Place, NEW b \in BOOLEAN, EvalAssign(p, b)
      PROVE  Control'
  <2>1. DOMAIN scopes' = Names /\ (\A m \in Names : scopes'[m] \in Seq(Frame(m)))
        /\ owner' \in [Names -> Seq(Nat \X Nat)]
    <3>1. CASE UNCHANGED <<scopes, owner>>
      BY <3>1 DEF TypeOK
    <3>2. CASE p.kind = "cell" /\ Touch(p.name)
      BY <3>2, PlaceFacts, TouchTyped
    <3> QED
      BY <1>8, <3>1, <3>2 DEF EvalAssign, Load
  <2>2. RhsOf(p, b) \in Context /\ RhsOf(p, b).kind # "args"
    BY RhsTyped
  <2> QED
    BY <1>5, <1>8, <2>1, <2>2 DEF EvalAssign
<1>9. ASSUME NEW p \in Place, NEW b \in BOOLEAN, EvalUpdate(p, b)
      PROVE  Control'
  <2>1. PICK new \in Values :
               Store(p, new) /\ Yield(IF b THEN Stored(p, new) ELSE Loaded(p))
    BY <1>9 DEF EvalUpdate
  <2>2. val' \in Values /\ mode' = "value"
    BY <2>1, StoreTyped, LoadedTyped DEF Yield
  <2>3. PreparedCallsOK'
    BY <1>9, KeptSame, PreparedKept DEF EvalUpdate
  <2>4. TypeOK'
    BY <1>9, <2>1, <2>2, StoreTyped DEF EvalUpdate, TypeOK, jumps, Mode
  <2> QED
    BY <1>9, <2>2, <2>3, <2>4 DEF EvalUpdate, ActivationsOK, ModesOK
<1>10. ASSUME NEW p \in {Cell(n, 0) : n \in Scalars} \union {RegisterPlace(r) : r \in Registers}
       PROVE  p \in Place
  BY PlacesTyped
<1> QED
  BY <1>1, <1>2, <1>3, <1>4, <1>6, <1>7, <1>8, <1>9, <1>10 DEF Evaluate

-----------------------------------------------------------------------------
(* Types, actions that use a value *)

(* An evaluated argument joins the call being prepared. *)
LEMMA AddArgControl ==
  ASSUME Control, InInner({"args"}), ArgsLeft, NextParam \in Names,
         NEW a \in Frame(NextParam), AddArg(a), failure.kind = "none",
         mode' = "arg", val' \in Values,
         DOMAIN scopes' = Names, \A m \in Names : scopes'[m] \in Seq(Frame(m)),
         owner' \in [Names -> Seq(Nat \X Nat)],
         UNCHANGED <<acts, registers, functions, jumps, call_stack, failure>>
  PROVE  Control'
<1> USE DEF Control
<1>1. /\ Here # <<>> /\ Inner \in Context /\ Inner.kind = "args" /\ Inner = Here[Len(Here)]
      /\ Len(Here) \in Nat \ {0}
  BY InnerFacts
<1>2. Top \in DOMAIN ctx /\ Len(Here) \in DOMAIN ctx[Top] /\ Inner = ctx[Top][Len(Here)]
  BY <1>1, CtxFacts DEF Here
<1>3. ArgsTyped(Inner)
  BY <1>1, <1>2 DEF PreparedCallsOK
<1>4. Inner.header \in Headers /\ Inner.done \in Seq(AnyFrame) /\ Inner.header.params \in Seq(Names)
  BY <1>1, InnerFields, ConstantsOK
<1>5. a \in AnyFrame
  BY DEF AnyFrame
<1>6. PICK d : d = [Inner EXCEPT !.done = Append(@, a)]
  OBVIOUS
<1>7. d \in Context /\ d.kind = "args" /\ d.header = Inner.header /\ d.done = Append(Inner.done, a)
  BY <1>1, <1>5, <1>6, NextArg
<1>8. Replace(d)
  BY <1>6 DEF AddArg
<1>9. ArgsTyped(d)
  <2>1. PICK s, n, p : s = Inner.done /\ n = Len(s) /\ p = Inner.header.params
    OBVIOUS
  <2>2. s \in Seq(AnyFrame) /\ n \in Nat /\ p \in Seq(Names)
    BY <1>4, <2>1
  <2>3. n < Len(p) /\ a \in Frame(p[n + 1])
    BY <2>1 DEF ArgsLeft, NextParam
  <2>4. \A j \in 1..n : s[j] \in Frame(p[j])
    BY <1>3, <2>1 DEF ArgsTyped
  <2>5. PICK t : t = Append(s, a)
    OBVIOUS
  <2>6. Len(t) = n + 1 /\ t[n + 1] = a /\ \A j \in 1..n : t[j] = s[j]
    BY <1>5, <2>1, <2>2, <2>5, AppendProperties
  <2>7. \A j \in 1..(n + 1) : j \in 1..n \/ j = n + 1
    BY <2>2
  <2>8. ASSUME NEW j \in 1..(n + 1)
        PROVE  t[j] \in Frame(p[j])
    <3>1. CASE j \in 1..n
      BY <2>4, <2>6, <3>1
    <3>2. CASE j = n + 1
      BY <2>3, <2>6, <3>2
    <3> QED
      BY <2>7, <3>1, <3>2
  <2>10. Len(t) <= Len(p)
    BY <2>2, <2>3, <2>6
  <2>9. d.done = t /\ d.header.params = p
    BY <1>7, <2>1, <2>5
  <2> QED
    BY <2>6, <2>8, <2>9, <2>10 DEF ArgsTyped
<1>10. /\ ctx' \in Seq(Seq(Context)) /\ Len(ctx') = Len(ctx) /\ DOMAIN ctx' = 1..Top
       /\ ctx'[Top] # <<>> /\ Len(ctx'[Top]) = Len(Here) /\ ctx'[Top][Len(Here)] = d
       /\ \A i \in 1..Top : DOMAIN ctx'[i] = 1..Len(ctx'[i]) /\ DOMAIN ctx[i] = 1..Len(ctx[i])
  BY <1>1, <1>7, <1>8, ReplaceCtx, CtxFacts
<1>11. Top' = Top /\ Here' = ctx'[Top] /\ Here' \in Seq(Context)
  BY <1>10, CtxFacts DEF Top, Here
<1>12. InInner({"args"})'
  <2>1. PICK h : h = ctx'[Top]
    OBVIOUS
  <2>2. h \in Seq(Context) /\ h # <<>> /\ Last(h) = h[Len(h)] /\ h[Len(h)] = d
    BY <1>10, <1>11, <2>1, FrontProps
  <2>3. Here' = h /\ Inner' = d
    BY <1>11, <2>1, <2>2 DEF Inner
  <2> QED
    BY <1>7, <2>2, <2>3 DEF InInner
<1>13. \A i \in 1..Top : \A k \in 1..Len(ctx'[i]) :
         (i = Top /\ k = Len(Here)) \/ (k \in 1..Len(ctx[i]) /\ ctx'[i][k] = ctx[i][k])
  <2>1. TypeOK
    OBVIOUS
  <2>2. Here # <<>> /\ d \in Context
    BY <1>1, <1>7
  <2>3. \A i \in 1..Top : \A k \in 1..Len(ctx'[i]) :
          \/ i = Top /\ k = Len(Here) /\ ctx'[i][k] = d
          \/ /\ k \in 1..Len(ctx[i]) /\ ctx'[i][k] = ctx[i][k]
             /\ ~(i = Top /\ k = Len(Here))
    BY ONLY <2>1, <2>2, <1>8, ReplaceCtx, SMTT(30)
  <2> QED
    BY ONLY <2>3
<1>14. ASSUME NEW i \in 1..Top, NEW k \in 1..Len(ctx'[i]), ctx'[i][k].kind = "args"
       PROVE  /\ ArgsTyped(ctx'[i][k])
              /\ ScalarPending(ctx'[i][k]) \/ (i = Top /\ k = Len(Here))
  <2>1. CASE i = Top /\ k = Len(Here)
    BY <1>9, <1>10, <2>1
  <2>2. CASE ~(i = Top /\ k = Len(Here))
    <3>1. k \in 1..Len(ctx[i]) /\ ctx'[i][k] = ctx[i][k]
      BY <1>13, <2>2
    <3>2. i \in DOMAIN ctx /\ k \in DOMAIN ctx[i]
      BY <1>10, <3>1, CtxFacts
    <3> QED
      BY <1>14, <2>2, <3>1, <3>2 DEF PreparedCallsOK
  <2> QED
    BY <2>1, <2>2
<1>15. PreparedCallsOK'
  BY <1>10, <1>11, <1>14 DEF PreparedCallsOK, ArgsTyped, ScalarPending
<1>16. TypeOK'
  BY <1>10 DEF TypeOK, jumps, Mode
<1> QED
  BY <1>12, <1>15, <1>16 DEF ActivationsOK, ModesOK

(* A value that reaches a call being prepared is the argument its next parameter waits for. *)
LEMMA ScalarEvaluated ==
  ASSUME Control, UseArg
  PROVE  LET a == [c \in {0} |-> val]
         IN  /\ InInner({"args"}) /\ failure.kind = "none" /\ ArgsLeft /\ NextParam \in Names
             /\ a \in Frame(NextParam) /\ AddArg(a)
<1> USE DEF Control
<1>1. InInner({"args"}) /\ Inner.kind = "args" /\ Inner = Here[Len(Here)] /\ Len(Here) \in Nat \ {0}
  BY InnerFacts DEF UseArg
<1>2. ScalarPending(Inner) /\ failure.kind = "none"
  <2>1. Top \in DOMAIN ctx /\ Len(Here) \in DOMAIN ctx[Top] /\ Inner = ctx[Top][Len(Here)]
    BY <1>1, CtxFacts DEF Here
  <2>2. failure.kind = "none" /\ mode = "value"
    BY DEF UseArg, Consume, ModesOK, TypeOK
  <2> QED
    BY <1>1, <2>1, <2>2 DEF PreparedCallsOK
<1>3. PICK a : a = [c \in {0} |-> val]
  OBVIOUS
<1>4. ArgsLeft /\ NextParam \in Names /\ a \in Frame(NextParam)
  BY <1>2, <1>3, ConstantsOK DEF ScalarPending, ArgsLeft, NextParam, Frame, Cells, Names, TypeOK
<1>5. AddArg(a)
  BY <1>3 DEF UseArg
<1> QED
  BY <1>1, <1>2, <1>3, <1>4, <1>5

LEMMA UseControl ==
  ASSUME Control, Use
  PROVE  Control'
<1> USE DEF Control
<1>1. ASSUME PopInner, Here # <<>>, mode = "value", mode' \in {"value", "stmt"}, val' \in Values,
             DOMAIN scopes' = Names, \A m \in Names : scopes'[m] \in Seq(Frame(m)),
             owner' \in [Names -> Seq(Nat \X Nat)], registers' \in [Registers -> Values],
             return_flag' \in BOOLEAN, return_value' \in Values,
             UNCHANGED <<acts, functions, break_flag, call_stack, failure>>
      PROVE  Control'
  <2>1. PreparedCallsOK'
    BY <1>1, KeptPop, PreparedKept
  <2>2. TypeOK'
    BY <1>1, PopCtx DEF TypeOK, Mode
  <2> QED
    BY <1>1, <2>1, <2>2 DEF ActivationsOK, ModesOK
<1>2. ASSUME NEW c \in Context, c.kind # "args", Replace(c), Here # <<>>,
             mode = "value", mode' \in {"expr", "stmt"}, val' \in Values,
             DOMAIN scopes' = Names, \A m \in Names : scopes'[m] \in Seq(Frame(m)),
             owner' \in [Names -> Seq(Nat \X Nat)], UNCHANGED registers,
             UNCHANGED <<acts, functions, jumps, call_stack, failure>>
      PROVE  Control'
  <2>1. PreparedCallsOK'
    BY <1>2, KeptReplace, PreparedKept
  <2>2. TypeOK'
    BY <1>2, ReplaceCtx DEF TypeOK, Mode, jumps
  <2> QED
    BY <1>2, <2>1, <2>2 DEF ActivationsOK, ModesOK
<1>3. CASE UseDiscard
  BY <1>1, <1>3, InnerFacts, ConstantsOK DEF UseDiscard, Consume, storage, jumps, TypeOK
<1>4. CASE UseReturn
  BY <1>1, <1>4, InnerFacts, ConstantsOK DEF UseReturn, Consume, storage, TypeOK
<1>5. CASE UseIf
  <2>1. Here # <<>>
    BY <1>5, InnerFacts DEF UseIf
  <2>2. [kind |-> "block"] \in Context
    BY ContextForms
  <2> QED
    BY <1>1, <1>2, <1>5, <2>1, <2>2, ConstantsOK DEF UseIf, Consume, storage, jumps, TypeOK
<1>6. CASE UseLoop
  <2>1. Here # <<>> /\ Inner \in Context /\ Inner.kind = "loop"
    BY <1>6, InnerFacts DEF UseLoop
  <2>2. \A p \in {"cond", "body"} : /\ [Inner EXCEPT !.phase = p] \in Context
                                   /\ [Inner EXCEPT !.phase = p].kind # "args"
    BY <2>1, NextPhase
  <2>3. CASE PopInner /\ mode' = "stmt"
    BY <1>1, <1>6, <2>1, <2>3, ConstantsOK DEF UseLoop, Consume, storage, jumps, TypeOK
  <2>4. ASSUME NEW p \in {"cond", "body"}, Replace([Inner EXCEPT !.phase = p]),
               mode' \in {"expr", "stmt"}
        PROVE  Control'
    BY <1>2, <1>6, <2>1, <2>2, <2>4, ConstantsOK DEF UseLoop, Consume, storage, TypeOK
  <2> QED
    BY <1>6, <2>3, <2>4 DEF UseLoop
<1>7. CASE UseOperand
  <2>1. Here # <<>> /\ Inner \in Context /\ Inner.kind = "operand" /\ Inner.more \in {0, 1}
    BY <1>7, InnerFacts, InnerFields DEF UseOperand
  <2>2. CASE Inner.more > 0
    <3>1. PICK c : c = [Inner EXCEPT !.more = @ - 1]
      OBVIOUS
    <3>2. c = [Inner EXCEPT !.more = 0]
      BY <2>1, <2>2, <3>1
    <3>3. c \in Context /\ c.kind # "args"
      BY <2>1, <3>2, NextOperand
    <3>4. /\ Replace(c) /\ mode = "value" /\ mode' = "expr" /\ val' = 0
          /\ UNCHANGED <<acts, storage, functions, jumps, call_stack, failure>>
      BY <1>7, <2>2, <3>1 DEF UseOperand
    <3> QED
      BY <1>2, <2>1, <3>3, <3>4, ConstantsOK DEF storage, TypeOK
  <2>3. CASE Inner.more = 0
    <3>1. PopInner /\ val' \in Values /\ mode' = "value" /\ mode = "value"
          /\ UNCHANGED <<acts, storage, functions, jumps, call_stack, failure>>
      BY <1>7, <2>3 DEF UseOperand, Yield
    <3> QED
      BY <1>1, <2>1, <3>1 DEF storage, jumps, TypeOK
  <2> QED
    BY <2>1, <2>2, <2>3
<1>8. CASE UseIndexRead
  <2>1. Here # <<>> /\ Inner \in Context /\ Inner.kind = "index" /\ Inner.name \in Arrays
    BY <1>8, InnerFacts, InnerFields DEF UseIndexRead
  <2>2. Inner.name \in Names /\ val \in Cells(Inner.name)
    BY <1>8, <2>1, ConstantsOK DEF UseIndexRead, InRange, Cells, Names, TypeOK
  <2>3. TopFrame(Inner.name)[val] \in Values
    BY <2>2, StackTyped DEF Frame
  <2> QED
    BY <1>1, <1>8, <2>1, <2>2, <2>3, TouchTyped DEF UseIndexRead, Yield, jumps, TypeOK
<1>9. CASE UseIndexUpdate
  <2>1. Here # <<>> /\ Inner \in Context /\ Inner.kind = "index" /\ Inner.name \in Arrays
    BY <1>9, InnerFacts, InnerFields DEF UseIndexUpdate
  <2>2. PICK p : p = Cell(Inner.name, val)
    OBVIOUS
  <2>3. p \in Place
    BY <1>9, <2>1, <2>2, PlacesTyped DEF UseIndexUpdate, TypeOK
  <2>4. PICK new \in Values : Store(p, new) /\ val' \in {new, Loaded(p)} /\ mode' = "value"
    BY <1>9, <2>2 DEF UseIndexUpdate, Yield
  <2>5. val' \in Values
    BY <2>3, <2>4, LoadedTyped
  <2> QED
    BY <1>1, <1>9, <2>1, <2>3, <2>4, <2>5, StoreTyped DEF UseIndexUpdate, jumps, TypeOK
<1>10. CASE UseIndexAssign
  <2>1. Here # <<>> /\ Inner \in Context /\ Inner.kind = "index" /\ Inner.name \in Arrays
    BY <1>10, InnerFacts, InnerFields DEF UseIndexAssign
  <2>2. PICK p : p = Cell(Inner.name, val)
    OBVIOUS
  <2>3. p \in Place
    BY <1>10, <2>1, <2>2, PlacesTyped DEF UseIndexAssign, TypeOK
  <2>4. PICK c : c = RhsOf(p, Inner.use = "compound")
    OBVIOUS
  <2>5. c \in Context /\ c.kind # "args"
    BY <2>3, <2>4, RhsTyped
  <2>6. Replace(c)
    BY <1>10, <2>2, <2>4 DEF UseIndexAssign
  <2>7. DOMAIN scopes' = Names /\ (\A m \in Names : scopes'[m] \in Seq(Frame(m)))
        /\ owner' \in [Names -> Seq(Nat \X Nat)]
    <3>1. CASE UNCHANGED <<scopes, owner>>
      BY <3>1 DEF TypeOK
    <3>2. CASE Load(p)
      BY <2>3, <3>1, <3>2, PlaceFacts, TouchTyped DEF Load
    <3> QED
      BY <1>10, <2>2, <3>1, <3>2 DEF UseIndexAssign
  <2> QED
    BY <1>2, <1>10, <2>1, <2>5, <2>6, <2>7, ConstantsOK DEF UseIndexAssign, Consume, TypeOK
<1>11. CASE BadIndex
  BY <1>11, RaiseControl DEF BadIndex
<1>12. CASE UseRhs
  <2>1. Here # <<>> /\ Inner \in Context /\ Inner.kind = "rhs" /\ Inner.place \in Place
    BY <1>12, InnerFacts, InnerFields DEF UseRhs
  <2>2. PICK v \in Values : Store(Inner.place, v) /\ val' = v /\ mode' = "value"
    BY <1>12 DEF UseRhs, Yield, TypeOK
  <2> QED
    BY <1>1, <1>12, <2>1, <2>2, StoreTyped DEF UseRhs, jumps, TypeOK
<1>13. ASSUME NEW kind \in {"error", "panic"}, FailOperation(kind)
       PROVE  Control'
  BY <1>13, RaiseControl DEF FailOperation
<1>14. CASE UseArg
  <2>1. PICK a : a = [c \in {0} |-> val]
    OBVIOUS
  <2>2. /\ InInner({"args"}) /\ failure.kind = "none" /\ ArgsLeft /\ NextParam \in Names
        /\ a \in Frame(NextParam) /\ AddArg(a)
    BY <1>14, <2>1, ScalarEvaluated
  <2>3. mode' = "arg" /\ val' = 0 /\ UNCHANGED <<acts, storage, functions, jumps, call_stack, failure>>
    BY <1>14 DEF UseArg, Consume
  <2> QED
    BY <2>2, <2>3, AddArgControl, ConstantsOK DEF storage, TypeOK
<1> QED
  BY <1>3, <1>4, <1>5, <1>6, <1>7, <1>8, <1>9, <1>10, <1>11, <1>12, <1>13, <1>14 DEF Use

-----------------------------------------------------------------------------
(* Types, the actions of a call *)

(* What the invariant says of the innermost activation. *)
LEMMA ActFacts ==
  ASSUME TypeOK
  PROVE  /\ Act.fn \in Functions \union {Main} /\ Act.locals \in Seq(Names)
         /\ Act.args \in Seq(AnyFrame) /\ Act.bound \in Nat
         /\ Act.saved.flag \in BOOLEAN /\ Act.saved.value \in Values
BY CtxFacts DEF Activation

(* An action that changes neither the innermost construct nor the activations. *)
LEMMA SameControl ==
  ASSUME Control, UNCHANGED <<ctx, acts>>, mode \notin {"arg"}, mode' \in Mode,
         mode' \in {"bind", "unbind"} => Top > 1, mode' # "arg",
         TypeOK', failure'.kind = "none" => failure.kind = "none",
         (failure'.kind # "none") => mode' \in {"unwind", "unbind"},
         mode' = "unwind" => failure'.kind # "none"
  PROVE  Control'
<1>1. PreparedCallsOK'
  BY KeptSame, PreparedKept DEF Control
<1> QED
  BY <1>1 DEF Control, ActivationsOK, ModesOK, Top

(* Changing how far the innermost activation is bound. *)
LEMMA BoundTyped ==
  ASSUME Control, NEW b \in Nat, acts' = [acts EXCEPT ![Top].bound = b]
  PROVE  acts' \in Seq(Activation) /\ acts' # <<>> /\ Len(acts') = Top /\ ActivationsOK'
<1>1. PICK a : a = [Act EXCEPT !.bound = b]
  OBVIOUS
<1>2. a \in Activation /\ a.fn = Act.fn /\ a.locals = Act.locals /\ a.args = Act.args
  BY <1>1, CtxFacts DEF Control, Activation
<1>3. acts' = [acts EXCEPT ![Top] = a]
  BY <1>1 DEF Act
<1>4. acts \in Seq(Activation) /\ Top \in 1..Len(acts)
  BY CtxFacts DEF Control, TypeOK, Top
<1>5. acts' \in Seq(Activation) /\ Len(acts') = Len(acts) /\ acts'[Top] = a
      /\ \A i \in 1..Len(acts) : i # Top => acts'[i] = acts[i]
  BY <1>2, <1>3, <1>4
<1>6. \A i \in 1..Len(acts) :
        /\ acts'[i].fn = acts[i].fn /\ acts'[i].locals = acts[i].locals
        /\ acts'[i].args = acts[i].args
  BY <1>2, <1>5 DEF Act
<1>7. DOMAIN acts' = 1..Len(acts) /\ DOMAIN acts = 1..Len(acts)
  BY <1>4, <1>5
<1>8. ActivationsOK'
  BY <1>6, <1>7 DEF Control, ActivationsOK
<1> QED
  BY <1>4, <1>5, <1>8 DEF Top

LEMMA EvalCallControl ==
  ASSUME Control, NEW f \in Functions, EvalCall(f)
  PROVE  Control'
<1> USE DEF Control
<1>1. PICK c : c = [kind |-> "args", fn |-> f, header |-> functions[f], done |-> <<>>]
  OBVIOUS
<1>2. functions[f] \in Headers
  BY DEF EvalCall, TypeOK
<1>3. c \in Context /\ c.kind = "args" /\ c.header \in Headers /\ c.done = <<>>
  <2>1. <<>> \in Seq(AnyFrame)
    OBVIOUS
  <2>2. c \in Context
    BY <1>1, <1>2, <2>1, ContextForms
  <2> QED
    BY <1>1, <1>2, <2>2
<1>4. ArgsTyped(c)
  <2>1. c.header.params \in Seq(Names)
    BY <1>3, ConstantsOK
  <2> QED
    BY <1>3, <2>1 DEF ArgsTyped
<1>5. Push(c) /\ mode = "expr" /\ mode' = "arg" /\ failure.kind = "none"
      /\ UNCHANGED <<acts, storage, functions, jumps, call_stack, val, failure>>
  BY <1>1 DEF EvalCall, ModesOK
<1>6. /\ ctx' \in Seq(Seq(Context)) /\ Len(ctx') = Len(ctx) /\ DOMAIN ctx' = 1..Top
      /\ ctx'[Top] # <<>> /\ Len(ctx'[Top]) = Len(Here) + 1 /\ ctx'[Top][Len(Here) + 1] = c
      /\ \A i \in 1..Top : DOMAIN ctx'[i] = 1..Len(ctx'[i]) /\ DOMAIN ctx[i] = 1..Len(ctx[i])
  BY <1>3, <1>5, PushCtx, CtxFacts
<1>7. Top' = Top /\ Here' = ctx'[Top] /\ Here' \in Seq(Context)
  BY <1>5, <1>6, CtxFacts DEF Top, Here
<1>8. InInner({"args"})'
  <2>1. PICK h : h = ctx'[Top]
    OBVIOUS
  <2>2. h \in Seq(Context) /\ h # <<>> /\ Last(h) = h[Len(h)] /\ h[Len(h)] = c
    BY <1>6, <1>7, <2>1, FrontProps
  <2>3. Here' = h /\ Inner' = c
    BY <1>7, <2>1, <2>2 DEF Inner
  <2> QED
    BY <1>3, <2>2, <2>3 DEF InInner
<1>9. ASSUME NEW i \in 1..Top, NEW k \in 1..Len(ctx'[i]), ctx'[i][k].kind = "args"
      PROVE  /\ ArgsTyped(ctx'[i][k])
             /\ ScalarPending(ctx'[i][k]) \/ (i = Top /\ k = Len(Here) + 1)
  <2>1. CASE i = Top /\ k = Len(Here) + 1
    BY <1>4, <1>6, <2>1
  <2>2. CASE ~(i = Top /\ k = Len(Here) + 1)
    <3>1. k \in 1..Len(ctx[i]) /\ ctx'[i][k] = ctx[i][k]
      BY <1>3, <1>5, <2>2, PushCtx
    <3>2. i \in DOMAIN ctx /\ k \in DOMAIN ctx[i]
      BY <1>6, <3>1, CtxFacts
    <3> QED
      BY <1>5, <1>9, <2>2, <3>1, <3>2 DEF PreparedCallsOK
  <2> QED
    BY <2>1, <2>2
<1>10. PreparedCallsOK'
  BY <1>5, <1>6, <1>7, <1>9 DEF PreparedCallsOK, ArgsTyped, ScalarPending
<1>11. TypeOK'
  BY <1>5, <1>6 DEF TypeOK, storage, jumps, Mode
<1> QED
  BY <1>5, <1>8, <1>10, <1>11 DEF ActivationsOK, ModesOK

LEMMA ArgControl ==
  ASSUME Control, ScalarArg \/ MismatchedArg \/ \E n \in Arrays : ArrayArg(n)
  PROVE  Control'
<1> USE DEF Control
<1>1. CASE MismatchedArg
  BY <1>1, RaiseControl DEF MismatchedArg
<1>2. CASE ScalarArg
  <2>1. InInner({"args"}) /\ Inner.kind = "args" /\ Inner = Here[Len(Here)]
        /\ Len(Here) \in Nat \ {0} /\ mode = "arg"
    BY <1>2, InnerFacts DEF ScalarArg, ModesOK
  <2>2. UNCHANGED <<acts, ctx, failure>> /\ mode' = "expr" /\ failure.kind = "none"
        /\ UNCHANGED Top
    BY <1>2, <2>1 DEF ScalarArg, state, ModesOK, Top
  <2>3. ScalarPending(Inner)
    BY <1>2 DEF ScalarArg, ArgsLeft, NextParam, ScalarPending
  <2>4. Inner = ctx[Top][Len(Here)]
    BY <2>1 DEF Here
  <2>5. PreparedCallsOK'
    BY SMTT(30), <2>1, <2>2, <2>3, <2>4 DEF PreparedCallsOK, ArgsTyped, ScalarPending
  <2>6. TypeOK'
    BY <1>2 DEF ScalarArg, TypeOK, state, Mode
  <2> QED
    BY <2>2, <2>5, <2>6 DEF ActivationsOK, ModesOK
<1>3. ASSUME NEW n \in Arrays, ArrayArg(n)
      PROVE  Control'
  <2>1. InInner({"args"}) /\ failure.kind = "none"
    BY <1>3 DEF ArrayArg, ModesOK
  <2>2. n \in Names /\ NextParam \in Names
    BY <1>3 DEF ArrayArg, Names
  <2>3. TopFrame(n) \in Frame(NextParam)
    BY <1>3, <2>2, StackTyped DEF ArrayArg, Frame, Cells
  <2>4. /\ DOMAIN scopes' = Names /\ \A m \in Names : scopes'[m] \in Seq(Frame(m))
        /\ owner' \in [Names -> Seq(Nat \X Nat)]
    BY <1>3, <2>2, TouchTyped DEF ArrayArg
  <2>5. PICK a : a = TopFrame(n)
    OBVIOUS
  <2>6. /\ ArgsLeft /\ AddArg(a) /\ mode' = "arg" /\ val' \in Values
        /\ UNCHANGED <<acts, registers, functions, jumps, call_stack, failure>>
    BY <1>3, <2>5 DEF ArrayArg, TypeOK
  <2>7. a \in Frame(NextParam)
    BY <2>3, <2>5
  <2> QED
    BY <2>1, <2>2, <2>4, <2>6, <2>7, AddArgControl
<1> QED
  BY <1>1, <1>2, <1>3

LEMMA BodyControl ==
  ASSUME Control, EnterBody \/ LeaveBody \/ UnwindBody
  PROVE  Control'
<1> USE DEF Control
<1>1. CASE EnterBody
  <2>1. PICK a : a = [Act EXCEPT !.saved = [flag |-> return_flag, value |-> return_value],
                                 !.args = <<>>]
    OBVIOUS
  <2>2. a \in Activation /\ a.fn = Act.fn /\ a.locals = Act.locals /\ a.args = <<>>
    <3>1. PICK s : s = [flag |-> return_flag, value |-> return_value]
      OBVIOUS
    <3>2. s \in [flag : BOOLEAN, value : Values] /\ <<>> \in Seq(AnyFrame)
      BY <3>1 DEF TypeOK
    <3>3. PICK b : b = [Act EXCEPT !.saved = s]
      OBVIOUS
    <3>4. b \in Activation /\ b.fn = Act.fn /\ b.locals = Act.locals
      BY <3>2, <3>3, CtxFacts DEF Activation
    <3>5. a = [b EXCEPT !.args = <<>>]
      BY <2>1, <3>1, <3>3
    <3> QED
      BY <3>2, <3>4, <3>5 DEF Activation
  <2>3. acts' = [acts EXCEPT ![Top] = a]
    BY <1>1, <2>1 DEF EnterBody, Act
  <2>4. acts \in Seq(Activation) /\ Top \in 1..Len(acts) /\ Top = Len(acts) /\ Top > 1
    BY <1>1, CtxFacts DEF EnterBody, ModesOK, TypeOK, Top
  <2>5. acts' \in Seq(Activation) /\ Len(acts') = Len(acts) /\ acts'[Top] = a
        /\ \A i \in 1..Len(acts) : i # Top => acts'[i] = acts[i]
    BY <2>2, <2>3, <2>4
  <2>6. Act.fn \in Functions /\ Act = acts[Top] /\ Act.locals \in Seq(Names)
    BY <2>4, ActFacts DEF ActivationsOK, Act
  <2>7. DOMAIN acts' = 1..Len(acts) /\ DOMAIN acts = 1..Len(acts)
    BY <2>4, <2>5
  <2>8. ActivationsOK'
    <3>1. ASSUME NEW i \in 1..Len(acts)
          PROVE  /\ Len(acts'[i].args) <= Len(acts'[i].locals)
                 /\ \A j \in 1..Len(acts'[i].args) : acts'[i].args[j] \in Frame(acts'[i].locals[j])
                 /\ i > 1 => acts'[i].fn \in Functions
      <4>1. CASE i = Top
        BY <2>2, <2>5, <2>6, <4>1
      <4>2. CASE i # Top
        BY <2>5, <2>7, <4>2 DEF ActivationsOK
      <4> QED
        BY <4>1, <4>2
    <3> QED
      BY <2>7, <3>1 DEF ActivationsOK, Frame, Cells
  <2>9. PreparedCallsOK'
    BY <1>1, KeptSame, PreparedKept DEF EnterBody
  <2>10. call_stack' \in Seq(Functions)
    BY <1>1, <2>6 DEF EnterBody, TypeOK
  <2>11. TypeOK'
    <3>1. acts' # <<>> /\ Len(ctx') = Len(acts')
      BY <1>1, <2>4, <2>5 DEF EnterBody, TypeOK
    <3>2. /\ mode' = "stmt" /\ return_flag' = FALSE /\ return_value' = 0
          /\ UNCHANGED <<ctx, storage, functions, break_flag, val, failure>>
      BY <1>1 DEF EnterBody
    <3> QED
      BY <2>5, <2>10, <3>1, <3>2, ConstantsOK DEF TypeOK, storage, Mode
  <2> QED
    BY <1>1, <2>8, <2>9, <2>11 DEF EnterBody, ModesOK
<1>2. ASSUME DropGuard, mode \in {"stmt", "unwind"}, Top > 1, val' \in Values,
             failure' \in [kind : {"none", "error", "panic"}, func : Functions \union {Main},
                           origin : Functions \union {Main}],
             failure'.kind = failure.kind
      PROVE  Control'
  <2>1. call_stack' \in Seq(Functions)
    BY <1>2, FrontTyped DEF DropGuard, TypeOK
  <2>2. TypeOK'
    BY <1>2, <2>1, ActFacts DEF DropGuard, TypeOK, storage, Mode
  <2> QED
    BY <1>2, <2>2, SameControl DEF DropGuard, Mode
<1>3. CASE LeaveBody
  BY <1>2, <1>3 DEF LeaveBody, TypeOK
<1>4. CASE UnwindBody
  <2>1. Act.fn \in Functions \union {Main}
    BY ActFacts
  <2>2. failure' \in [kind : {"none", "error", "panic"}, func : Functions \union {Main},
                      origin : Functions \union {Main}] /\ failure'.kind = failure.kind
    BY <1>4, <2>1 DEF UnwindBody, TypeOK
  <2> QED
    BY <1>2, <1>4, <2>2 DEF UnwindBody, TypeOK
<1> QED
  BY <1>1, <1>3, <1>4

(* Pushing and popping a local's frame. *)
LEMMA BindControl ==
  ASSUME Control, BindLocal \/ UnbindLocal
  PROVE  Control'
<1> USE DEF Control
<1>1. ASSUME NEW b \in Nat, acts' = [acts EXCEPT ![Top].bound = b], mode \in {"bind", "unbind"},
             DOMAIN scopes' = Names, \A m \in Names : scopes'[m] \in Seq(Frame(m)),
             owner' \in [Names -> Seq(Nat \X Nat)],
             UNCHANGED <<mode, ctx, registers, functions, jumps, call_stack, val, failure>>
      PROVE  Control'
  <2>1. acts' \in Seq(Activation) /\ acts' # <<>> /\ Len(acts') = Top /\ ActivationsOK'
    BY <1>1, BoundTyped
  <2>2. Top' = Top /\ Len(ctx') = Len(acts')
    BY <1>1, <2>1, CtxFacts DEF Top
  <2>3. PreparedCallsOK'
    BY <1>1, KeptSame, PreparedKept
  <2>4. TypeOK'
    BY <1>1, <2>1, <2>2 DEF TypeOK, jumps
  <2> QED
    BY <1>1, <2>1, <2>2, <2>3, <2>4 DEF ModesOK
<1>2. CASE BindLocal
  <2>1. PICK i, n, a : /\ i = Act.bound + 1 /\ n = Act.locals[i]
                       /\ a = IF i <= Len(Act.args) THEN Act.args[i] ELSE ZeroFrame(n)
    OBVIOUS
  <2>2. /\ SetStack(n, Append(StackOf(n), a), Append(OwnersOf(n), <<Top, i>>))
        /\ acts' = [acts EXCEPT ![Top].bound = i] /\ Act.bound < Len(Act.locals) /\ mode = "bind"
        /\ UNCHANGED <<mode, ctx, registers, functions, jumps, call_stack, val, failure>>
    BY <1>2, <2>1 DEF BindLocal
  <2>3. i \in 1..Len(Act.locals) /\ n \in Names /\ i \in Nat
    BY <2>1, <2>2, ActFacts
  <2>4. a \in Frame(n)
    <3>1. CASE i <= Len(Act.args)
      <4>1. i \in 1..Len(Act.args) /\ Top \in DOMAIN acts /\ Act = acts[Top]
        BY <2>3, <3>1, ActFacts, CtxFacts DEF Act
      <4> QED
        BY <2>1, <3>1, <4>1 DEF ActivationsOK
    <3>2. CASE ~(i <= Len(Act.args))
      BY <2>1, <3>2, ZeroFrameTyped
    <3> QED
      BY <3>1, <3>2
  <2>5. Append(StackOf(n), a) \in Seq(Frame(n))
    BY <2>3, <2>4, StackTyped, AppendProperties
  <2>6. <<Top, i>> \in Nat \X Nat
    BY <2>3, CtxFacts
  <2>7. Append(OwnersOf(n), <<Top, i>>) \in Seq(Nat \X Nat)
    BY <2>3, <2>6, StackTyped, AppendProperties
  <2>8. /\ DOMAIN scopes' = Names /\ \A m \in Names : scopes'[m] \in Seq(Frame(m))
        /\ owner' \in [Names -> Seq(Nat \X Nat)]
    BY <2>2, <2>3, <2>5, <2>7, SetStackTyped
  <2> QED
    BY <1>1, <2>2, <2>3, <2>8
<1>3. CASE UnbindLocal
  <2>1. PICK n, b : n = Act.locals[Act.bound] /\ b = Act.bound - 1
    OBVIOUS
  <2>2. /\ SetStack(n, Front(scopes[n]), Front(owner[n]))
        /\ acts' = [acts EXCEPT ![Top].bound = b] /\ mode = "unbind" /\ b \in Nat
        /\ UNCHANGED <<mode, ctx, registers, functions, jumps, call_stack, val, failure>>
    <3>1. Act.bound > 0 /\ Act.bound \in Nat /\ acts[Top].bound = Act.bound /\ mode = "unbind"
      BY <1>3, ActFacts DEF UnbindLocal, Act
    <3>2. acts' = [acts EXCEPT ![Top].bound = acts[Top].bound - 1]
      BY <1>3 DEF UnbindLocal
    <3>3. SetStack(n, Front(scopes[n]), Front(owner[n]))
      BY <1>3, <2>1 DEF UnbindLocal
    <3>4. UNCHANGED <<mode, ctx, registers, functions, jumps, call_stack, val, failure>>
      BY <1>3 DEF UnbindLocal
    <3>5. b \in Nat /\ b = acts[Top].bound - 1
      BY <2>1, <3>1
    <3> QED
      BY <3>1, <3>2, <3>3, <3>4, <3>5
  <2>3. /\ DOMAIN scopes' = Names /\ \A m \in Names : scopes'[m] \in Seq(Frame(m))
        /\ owner' \in [Names -> Seq(Nat \X Nat)]
    <3>1. CASE n \in Names
      <4>1. Front(scopes[n]) \in Seq(Frame(n)) /\ Front(owner[n]) \in Seq(Nat \X Nat)
        BY <3>1, FrontTyped DEF TypeOK
      <4> QED
        BY <2>2, <3>1, <4>1, SetStackTyped
    <3>2. CASE n \notin Names
      BY <2>2, <3>2 DEF SetStack, TypeOK
    <3> QED
      BY <3>1, <3>2
  <2> QED
    BY <1>1, <2>2, <2>3
<1> QED
  BY <1>2, <1>3

(* The control stack when an activation starts and when it ends. *)
LEMMA BeginCtx ==
  ASSUME TypeOK, Here # <<>>,
         ctx' = Append([ctx EXCEPT ![Top] = Append(Front(Here), [kind |-> "call"])], <<>>)
  PROVE  /\ ctx' \in Seq(Seq(Context)) /\ Len(ctx') = Top + 1 /\ DOMAIN ctx' = 1..(Top + 1)
         /\ ctx'[Top + 1] = <<>>
         /\ \A i \in DOMAIN ctx' : \A k \in DOMAIN ctx'[i] :
              ctx'[i][k].kind # "call" =>
                /\ i \in DOMAIN ctx /\ k \in DOMAIN ctx[i] /\ ctx'[i][k] = ctx[i][k]
                /\ ~(i = Top /\ k = Len(Here))
<1>1. /\ Top \in 1..Len(ctx) /\ Here \in Seq(Context) /\ Here = ctx[Top] /\ Len(ctx) = Top
      /\ ctx \in Seq(Seq(Context)) /\ Len(Here) \in Nat \ {0} /\ DOMAIN ctx = 1..Top
  BY CtxFacts DEF TypeOK, Here
<1>2. PICK c, h : c = [kind |-> "call"] /\ h = Front(Here)
  OBVIOUS
<1>3. h \in Seq(Context) /\ Len(h) = Len(Here) - 1 /\ c \in Context /\ c.kind = "call"
      /\ \A k \in 1..(Len(Here) - 1) : h[k] = Here[k]
  BY <1>1, <1>2, FrontProps, ContextForms
<1>4. PICK g : g = Append(h, c)
  OBVIOUS
<1>5. g \in Seq(Context) /\ Len(g) = Len(Here) /\ g[Len(Here)] = c
      /\ (\A k \in 1..(Len(Here) - 1) : g[k] = Here[k])
  BY <1>1, <1>3, <1>4, AppendProperties
<1>6. PICK q : q = [ctx EXCEPT ![Top] = g]
  OBVIOUS
<1>7. q \in Seq(Seq(Context)) /\ Len(q) = Top /\ q[Top] = g
      /\ \A i \in 1..Top : i # Top => q[i] = ctx[i]
  BY <1>1, <1>5, <1>6
<1>8. ctx' = Append(q, <<>>)
  BY <1>2, <1>4, <1>6
<1>9. <<>> \in Seq(Context)
  OBVIOUS
<1>10. /\ ctx' \in Seq(Seq(Context)) /\ Len(ctx') = Top + 1 /\ DOMAIN ctx' = 1..(Top + 1)
       /\ ctx'[Top + 1] = <<>> /\ ctx'[Top] = g /\ \A i \in 1..(Top - 1) : ctx'[i] = ctx[i]
  <2>1. PICK e : e = <<>> /\ e \in Seq(Context)
    BY <1>9
  <2>2. ctx' = Append(q, e)
    BY <1>8, <2>1
  <2>3. /\ ctx' \in Seq(Seq(Context)) /\ Len(ctx') = Top + 1 /\ ctx'[Top + 1] = e
        /\ \A i \in 1..Top : ctx'[i] = q[i]
    <3>1. PICK r : r = Append(q, e)
      OBVIOUS
    <3>2. /\ r \in Seq(Seq(Context)) /\ Len(r) = Len(q) + 1 /\ r[Len(q) + 1] = e
          /\ \A i \in 1..Len(q) : r[i] = q[i]
      BY <1>7, <2>1, <3>1, AppendProperties
    <3> QED
      BY <1>7, <2>2, <3>1, <3>2
  <2>4. DOMAIN ctx' = 1..(Top + 1) /\ \A i \in 1..(Top - 1) : i \in 1..Top /\ i # Top
    BY <1>1, <2>3
  <2> QED
    BY <1>1, <1>7, <2>1, <2>3, <2>4
<1>11. ASSUME NEW i \in 1..(Top + 1), NEW k \in DOMAIN ctx'[i], ctx'[i][k].kind # "call"
       PROVE  /\ i \in 1..Top /\ k \in DOMAIN ctx[i] /\ ctx'[i][k] = ctx[i][k]
              /\ ~(i = Top /\ k = Len(Here))
  <2>1. CASE i = Top + 1
    BY <1>10, <1>11, <2>1
  <2>2. CASE i = Top
    <3>1. k \in 1..Len(Here) /\ ctx'[i][k] = g[k] /\ ctx[i] = Here /\ DOMAIN Here = 1..Len(Here)
      BY <1>1, <1>5, <1>10, <2>2
    <3>2. CASE k = Len(Here)
      BY <1>3, <1>5, <1>11, <3>1, <3>2
    <3>3. CASE k # Len(Here)
      <4>1. k \in 1..(Len(Here) - 1)
        BY <1>1, <3>1, <3>3
      <4> QED
        BY <1>1, <1>5, <2>2, <3>1, <3>3, <4>1
    <3> QED
      BY <3>2, <3>3
  <2>3. CASE i # Top /\ i # Top + 1
    <3>1. i \in 1..(Top - 1) /\ i \in 1..Top
      BY <1>1, <2>3
    <3> QED
      BY <1>10, <2>3, <3>1
  <2> QED
    BY <2>1, <2>2, <2>3
<1> QED
  BY <1>1, <1>10, <1>11

LEMMA BeginCallControl ==
  ASSUME Control, BeginCall
  PROVE  Control'
<1> USE DEF Control
<1>1. /\ InInner({"args"}) /\ failure.kind = "none" /\ mode = "arg" /\ mode' = "bind" /\ ~ArgsLeft
      /\ UNCHANGED <<storage, functions, jumps, call_stack, val, failure>>
  BY DEF BeginCall, ModesOK
<1>2. /\ Here # <<>> /\ Inner \in Context /\ Inner.kind = "args" /\ Inner = Here[Len(Here)]
      /\ Len(Here) \in Nat \ {0}
  BY <1>1, InnerFacts
<1>3. Top \in DOMAIN ctx /\ Len(Here) \in DOMAIN ctx[Top] /\ Inner = ctx[Top][Len(Here)]
  BY <1>2, CtxFacts DEF Here
<1>4. ArgsTyped(Inner)
  BY <1>2, <1>3 DEF PreparedCallsOK
<1>5. PICK d, p, q : d = Inner.done /\ p = Inner.header.params /\ q = Inner.header.autos
  OBVIOUS
<1>6. /\ d \in Seq(AnyFrame) /\ p \in Seq(Names) /\ q \in Seq(Names) /\ Inner.fn \in Functions
      /\ Len(d) <= Len(p) /\ \A j \in 1..Len(d) : d[j] \in Frame(p[j])
  <2>1. Inner.header \in Headers
    BY <1>1, <1>2, InnerFields
  <2>2. p \in Seq(Names) /\ q \in Seq(Names)
    BY <1>5, <2>1, ConstantsOK
  <2>3. d \in Seq(AnyFrame) /\ Inner.fn \in Functions
    BY <1>1, <1>2, <1>5, InnerFields
  <2> QED
    BY <1>4, <1>5, <2>2, <2>3 DEF ArgsTyped
<1>7. PICK l : l = p \o q
  OBVIOUS
<1>8. /\ l \in Seq(Names) /\ Len(d) <= Len(l) /\ \A j \in 1..Len(d) : d[j] \in Frame(l[j])
  <2>1. l \in Seq(Names) /\ Len(l) = Len(p) + Len(q) /\ \A j \in 1..Len(p) : l[j] = p[j]
    BY <1>6, <1>7
  <2> QED
    BY <1>6, <2>1
<1>9. PICK a : a = [fn |-> Inner.fn, locals |-> l, args |-> d, bound |-> 0, saved |-> Unsaved]
  OBVIOUS
<1>10. a \in Activation /\ a.fn \in Functions /\ a.locals = l /\ a.args = d
  BY <1>6, <1>8, <1>9, ConstantsOK DEF Activation, Unsaved
<1>11. acts' = Append(acts, a)
  BY <1>5, <1>7, <1>9 DEF BeginCall
<1>12. /\ acts' \in Seq(Activation) /\ Len(acts') = Top + 1 /\ acts'[Top + 1] = a
       /\ DOMAIN acts' = 1..(Top + 1) /\ DOMAIN acts = 1..Top /\ Top \in Nat \ {0}
       /\ \A i \in 1..Top : acts'[i] = acts[i]
  BY <1>10, <1>11, CtxFacts, AppendProperties DEF TypeOK, Top
<1>13. ActivationsOK'
  <2>1. ASSUME NEW i \in 1..(Top + 1)
        PROVE  /\ Len(acts'[i].args) <= Len(acts'[i].locals)
               /\ \A j \in 1..Len(acts'[i].args) : acts'[i].args[j] \in Frame(acts'[i].locals[j])
               /\ i > 1 => acts'[i].fn \in Functions
    <3>1. CASE i = Top + 1
      BY <1>8, <1>10, <1>12, <3>1
    <3>2. CASE i # Top + 1
      <4>1. i \in 1..Top
        BY <1>12, <3>2
      <4> QED
        BY <1>12, <4>1 DEF ActivationsOK
    <3> QED
      BY <3>1, <3>2
  <2> QED
    BY <1>12, <2>1 DEF ActivationsOK
<1>14. ctx' = Append([ctx EXCEPT ![Top] = Append(Front(Here), [kind |-> "call"])], <<>>)
  BY DEF BeginCall
<1>15. PreparedCallsOK'
  <2>1. ASSUME NEW i \in DOMAIN ctx', NEW k \in DOMAIN ctx'[i], ctx'[i][k].kind = "args"
        PROVE  ArgsTyped(ctx'[i][k]) /\ ScalarPending(ctx'[i][k])
    <3>1. /\ i \in DOMAIN ctx /\ k \in DOMAIN ctx[i] /\ ctx'[i][k] = ctx[i][k]
          /\ ~(i = Top /\ k = Len(Here))
      BY <1>2, <1>14, <2>1, BeginCtx
    <3> QED
      BY <1>1, <2>1, <3>1 DEF PreparedCallsOK
  <2> QED
    BY <2>1 DEF PreparedCallsOK, ArgsTyped, ScalarPending
<1>16. TypeOK'
  <2>1. ctx' \in Seq(Seq(Context)) /\ Len(ctx') = Len(acts') /\ acts' # <<>>
    BY <1>2, <1>12, <1>14, BeginCtx
  <2> QED
    BY <1>1, <1>12, <2>1 DEF TypeOK, storage, jumps, Mode
<1>17. ModesOK'
  <2>1. Top' > 1
    BY <1>12 DEF Top
  <2> QED
    BY <1>1, <2>1 DEF ModesOK
<1> QED
  BY <1>13, <1>15, <1>16, <1>17

(* What is pending once a call has ended was pending before, but for the call itself. *)
LEMMA EndCtx ==
  ASSUME TypeOK, Top > 1,
         ctx' = [i \in 1..(Top - 1) |-> IF i = Top - 1 THEN Front(ctx[i]) ELSE ctx[i]]
  PROVE  /\ ctx' \in Seq(Seq(Context)) /\ Len(ctx') = Top - 1 /\ DOMAIN ctx' = 1..(Top - 1)
         /\ \A i \in 1..(Top - 1) :
              /\ ctx[i] \in Seq(Context) /\ ctx'[i] \in Seq(Context)
              /\ \A k \in 1..Len(ctx'[i]) : k \in 1..Len(ctx[i]) /\ ctx'[i][k] = ctx[i][k]
<1>1. Top \in Nat
  BY CtxFacts
<1>2. \A i \in 1..(Top - 1) :
        /\ ctx[i] \in Seq(Context) /\ ctx'[i] \in Seq(Context)
        /\ \A k \in 1..Len(ctx'[i]) : k \in 1..Len(ctx[i]) /\ ctx'[i][k] = ctx[i][k]
  <2>1. ASSUME NEW i \in 1..(Top - 1)
        PROVE  /\ ctx[i] \in Seq(Context) /\ ctx'[i] \in Seq(Context)
               /\ \A k \in 1..Len(ctx'[i]) : k \in 1..Len(ctx[i]) /\ ctx'[i][k] = ctx[i][k]
    <3>1. ctx[i] \in Seq(Context)
      BY CtxFacts
    <3>2. CASE i # Top - 1 \/ ctx[i] = <<>>
      BY <3>1, <3>2 DEF Front
    <3>3. CASE i = Top - 1 /\ ctx[i] # <<>>
      <4>1. PICK s, h : s = ctx[i] /\ h = Front(s)
        OBVIOUS
      <4>2. h \in Seq(Context) /\ Len(h) = Len(s) - 1 /\ \A k \in 1..(Len(s) - 1) : h[k] = s[k]
        BY <3>1, <3>3, <4>1, FrontProps
      <4>3. ctx'[i] = h
        BY <3>3, <4>1
      <4>4. Len(s) \in Nat
        BY <3>1, <4>1
      <4> QED
        BY <3>1, <4>1, <4>2, <4>3, <4>4
    <3> QED
      BY <3>2, <3>3
  <2> QED
    BY <2>1
<1>3. ctx' \in Seq(Seq(Context)) /\ Len(ctx') = Top - 1 /\ DOMAIN ctx' = 1..(Top - 1)
  <2>1. PICK n \in Nat : n = Top - 1
    BY <1>1
  <2>2. ctx' = [i \in 1..n |-> ctx'[i]] /\ \A i \in 1..n : ctx'[i] \in Seq(Context)
    BY <1>2, <2>1
  <2> QED
    BY <2>1, <2>2
<1> QED
  BY <1>2, <1>3

LEMMA EndCallControl ==
  ASSUME Control, EndCall
  PROVE  Control'
<1> USE DEF Control
<1>1. /\ mode = "unbind" /\ mode' = IF failure.kind = "none" THEN "value" ELSE "unwind"
      /\ UNCHANGED <<storage, functions, jumps, call_stack, val, failure>>
      /\ acts' = Front(acts) /\ Top > 1
  BY DEF EndCall, ModesOK
<1>2. acts \in Seq(Activation) /\ Top \in Nat /\ Len(acts) = Top /\ DOMAIN acts = 1..Top
  BY CtxFacts DEF TypeOK, Top
<1>3. /\ acts' \in Seq(Activation) /\ Len(acts') = Top - 1 /\ \A i \in 1..(Top - 1) : acts'[i] = acts[i]
      /\ DOMAIN acts' = 1..(Top - 1)
  BY <1>1, <1>2, FrontProps
<1>4. /\ ctx' \in Seq(Seq(Context)) /\ Len(ctx') = Top - 1 /\ DOMAIN ctx' = 1..(Top - 1)
      /\ \A i \in 1..(Top - 1) :
           /\ ctx[i] \in Seq(Context) /\ ctx'[i] \in Seq(Context)
           /\ \A k \in 1..Len(ctx'[i]) : k \in 1..Len(ctx[i]) /\ ctx'[i][k] = ctx[i][k]
  BY <1>1, EndCtx DEF EndCall
<1>5. DOMAIN ctx = 1..Top
  BY CtxFacts
<1>7. Kept
  <2>1. ASSUME NEW i \in 1..(Top - 1), NEW k \in DOMAIN ctx'[i]
        PROVE  i \in DOMAIN ctx /\ k \in DOMAIN ctx[i] /\ ctx'[i][k] = ctx[i][k]
    <3>1. k \in 1..Len(ctx'[i]) /\ i \in 1..Top
      BY <1>2, <1>4, <2>1
    <3>2. k \in 1..Len(ctx[i]) /\ ctx'[i][k] = ctx[i][k] /\ ctx[i] \in Seq(Context)
      BY <1>4, <3>1
    <3> QED
      BY <1>4, <1>5, <3>1, <3>2
  <2> QED
    BY <1>4, <2>1 DEF Kept
<1>8. PreparedCallsOK'
  BY <1>1, <1>7, PreparedKept
<1>9. ActivationsOK'
  <2>1. \A i \in 1..(Top - 1) : i \in 1..Top
    BY <1>2
  <2> QED
    BY <1>2, <1>3, <2>1 DEF ActivationsOK
<1>10. TypeOK'
  <2>1. acts' # <<>> /\ Len(ctx') = Len(acts')
    BY <1>1, <1>2, <1>3, <1>4
  <2> QED
    BY <1>1, <1>3, <1>4, <2>1 DEF TypeOK, storage, jumps, Mode
<1>11. ModesOK'
  BY <1>1 DEF ModesOK
<1> QED
  BY <1>8, <1>9, <1>10, <1>11

LEMMA CallControl ==
  ASSUME Control, Call
  PROVE  Control'
BY EvalCallControl, ArgControl, BodyControl, BindControl, BeginCallControl, EndCallControl DEF Call

-----------------------------------------------------------------------------
(* Types, input units *)

LEMMA UnitControl ==
  ASSUME Control, StartUnit \/ EndUnit \/ FailUnit \/ \E f \in Functions, h \in Headers : Define(f, h)
  PROVE  Control'
<1> USE DEF Control
<1>1. CASE StartUnit
  <2>1. TypeOK'
    BY <1>1 DEF StartUnit, state, TypeOK, Mode
  <2> QED
    BY <1>1, <2>1, SameControl DEF StartUnit, state, TypeOK, ModesOK
<1>2. CASE EndUnit
  <2>1. TypeOK'
    BY <1>2 DEF EndUnit, state, TypeOK, Mode
  <2> QED
    BY <1>2, <2>1, SameControl DEF EndUnit, state, TypeOK, ModesOK
<1>3. CASE FailUnit
  <2>1. ctx' = << <<>> >> /\ Top = 1 /\ <<>> \in Seq(Context)
    BY <1>3 DEF FailUnit
  <2>2. ctx' \in Seq(Seq(Context)) /\ Len(ctx') = Top /\ ctx'[1] = <<>> /\ DOMAIN ctx' = {1}
    BY <2>1
  <2>3. PreparedCallsOK'
    BY <2>2 DEF PreparedCallsOK
  <2>4. failure' = NoFailure /\ NoFailure \in [kind : {"none", "error", "panic"},
          func : Functions \union {Main}, origin : Functions \union {Main}]
    BY <1>3 DEF FailUnit, NoFailure
  <2>5. TypeOK'
    BY <1>3, <2>2, <2>4 DEF FailUnit, TypeOK, storage, Mode, Top
  <2>6. ActivationsOK'
    BY <1>3 DEF FailUnit, ActivationsOK
  <2>7. ModesOK'
    BY <1>3 DEF FailUnit, ModesOK, NoFailure
  <2> QED
    BY <2>3, <2>5, <2>6, <2>7
<1>4. ASSUME NEW f \in Functions, NEW h \in Headers, Define(f, h)
      PROVE  Control'
  <2>1. TypeOK'
    BY <1>4 DEF Define, TypeOK, storage, jumps
  <2> QED
    BY <1>4, <2>1, SameControl DEF Define, TypeOK, ModesOK
<1> QED
  BY <1>1, <1>2, <1>3, <1>4

LEMMA InitControl ==
  ASSUME Init
  PROVE  Control
<1>1. PICK a : a = [fn |-> Main, locals |-> <<>>, args |-> <<>>, bound |-> 0, saved |-> Unsaved]
  OBVIOUS
<1>2. a \in Activation /\ a.args = <<>> /\ a.locals = <<>>
  <2>1. <<>> \in Seq(Names) /\ <<>> \in Seq(AnyFrame)
    OBVIOUS
  <2> QED
    BY <1>1, <2>1, ConstantsOK DEF Activation, Unsaved
<1>3. acts = <<a>> /\ ctx = << <<>> >> /\ failure = NoFailure /\ mode = "idle"
  BY <1>1 DEF Init
<1>4. acts \in Seq(Activation) /\ acts # <<>> /\ Len(acts) = 1 /\ acts[1] = a
  BY <1>2, <1>3, SingletonProps
<1>5. ctx \in Seq(Seq(Context)) /\ Len(ctx) = 1 /\ ctx[1] = <<>>
  <2>1. <<>> \in Seq(Context)
    OBVIOUS
  <2> QED
    BY <1>3, <2>1, SingletonProps
<1>6. TypeOK
  <2>1. DOMAIN scopes = Names /\ (\A n \in Names : scopes[n] \in Seq(Frame(n)))
        /\ owner \in [Names -> Seq(Nat \X Nat)] /\ call_stack \in Seq(Functions)
    BY DEF Init
  <2>2. registers \in [Registers -> Values]
    BY ConstantsOK DEF Init
  <2>3. functions \in [Functions -> Headers \union {Undefined}]
    BY DEF Init
  <2>4. failure \in [kind : {"none", "error", "panic"}, func : Functions \union {Main},
                     origin : Functions \union {Main}]
    BY <1>3 DEF NoFailure
  <2> QED
    BY <1>3, <1>4, <1>5, <2>1, <2>2, <2>3, <2>4, ConstantsOK DEF Init, TypeOK, Mode
<1>7. PreparedCallsOK
  BY <1>5 DEF PreparedCallsOK
<1>8. ActivationsOK
  BY <1>2, <1>4 DEF ActivationsOK
<1>9. ModesOK
  BY <1>3 DEF ModesOK, NoFailure
<1> QED
  BY <1>6, <1>7, <1>8, <1>9 DEF Control

LEMMA NextControl ==
  ASSUME Control, [Next]_vars
  PROVE  Control'
<1>1. CASE UNCHANGED vars
  BY <1>1 DEF vars, state, Control, TypeOK, PreparedCallsOK, ActivationsOK, ModesOK, Top, Here,
              Inner, InInner, ArgsTyped, ScalarPending
<1>2. CASE Next
  BY <1>2, UnitControl, ExecuteControl, EvaluateControl, CallControl, UseControl DEF Next
<1> QED
  BY <1>1, <1>2

(* The machine never leaves its types: in particular a frame pushed for a parameter has the *)
(* shape of the parameter, and a place resolved before a right-hand side is still a place   *)
(* after it.                                                                                *)
THEOREM TypeCorrect == Spec => []TypeOK
<1>1. Init => Control
  BY InitControl
<1>2. Control /\ [Next]_vars => Control'
  BY NextControl
<1>3. Control => TypeOK
  BY DEF Control
<1> QED
  BY <1>1, <1>2, <1>3, PTL DEF Spec

-----------------------------------------------------------------------------
(* The arithmetic behind ScopesBalanced, for one name and away from the machine.  The      *)
(* name's stack has N frames; frame k was pushed by local g[k] of activation f[k] (frame 1  *)
(* is the global one, local 0 of activation 1).  There are t activations; activation i has  *)
(* bound its locals 1 .. b[i], and l[i][j] is the name of its local j.                      *)

Before(i, j, x, y) == i < x \/ (i = x /\ j < y)

Balanced(n, N, f, g, t, b, l) ==
  /\ \A k, m \in 1..N : k < m => Before(f[k], g[k], f[m], g[m])
  /\ N > 0 => f[1] = 1 /\ g[1] = 0
  /\ \A k \in 2..N : f[k] <= t /\ g[k] \in 1..b[f[k]] /\ l[f[k]][g[k]] = n
  /\ \A i \in 1..t : \A j \in 1..b[i] :
       l[i][j] = n => \E k \in 2..N : f[k] = i /\ g[k] = j

Typed(N, f, g, t, b) ==
  /\ N \in Nat /\ t \in Nat
  /\ \A k \in 1..N : f[k] \in Nat /\ g[k] \in Nat
  /\ \A i \in 1..t : b[i] \in Nat

(* One more frame, for local j of activation i; the innermost activation has now bound j locals. *)
OneMore(N, f, g, f2, g2, i, j) ==
  (\A k \in 1..N : f2[k] = f[k] /\ g2[k] = g[k]) /\ f2[N + 1] = i /\ g2[N + 1] = j
BindsTo(t, b, b2, j) == b2[t] = j /\ \A i \in 1..(t - 1) : b2[i] = b[i]

(* Every frame but the first belongs to an activation that exists. *)
LEMMA OwnersExist ==
  ASSUME NEW n, NEW N, NEW f, NEW g, NEW t, NEW b, NEW l,
         Typed(N, f, g, t, b), Balanced(n, N, f, g, t, b, l), NEW k \in 2..N
  PROVE  f[k] \in 1..t /\ g[k] \in 1..b[f[k]] /\ l[f[k]][g[k]] = n /\ b[f[k]] \in Nat
<1>1. N \in Nat /\ t \in Nat /\ k \in 1..N /\ 1 \in 1..N /\ 1 < k
  BY DEF Typed
<1>2. f[k] \in Nat /\ f[1] = 1 /\ f[k] <= t
  BY <1>1 DEF Typed, Balanced
<1>3. Before(f[1], g[1], f[k], g[k])
  BY <1>1 DEF Balanced
<1>4. f[k] \in 1..t
  BY <1>1, <1>2, <1>3 DEF Before
<1> QED
  BY <1>4 DEF Balanced, Typed

(* Activations that have bound the same locals. *)
LEMMA BalancedSame ==
  ASSUME NEW n, NEW N, NEW f, NEW g, NEW t, NEW b, NEW l,
         Typed(N, f, g, t, b), Balanced(n, N, f, g, t, b, l),
         NEW f2, NEW g2, NEW b2, NEW l2,
         \A k \in 1..N : f2[k] = f[k] /\ g2[k] = g[k],
         \A i \in 1..t : b2[i] = b[i] /\ l2[i] = l[i]
  PROVE  Balanced(n, N, f2, g2, t, b2, l2)
<1>1. \A k \in 2..N : /\ f2[k] = f[k] /\ g2[k] = g[k] /\ f[k] \in 1..t
                      /\ g[k] \in 1..b[f[k]] /\ l[f[k]][g[k]] = n
  BY OwnersExist DEF Typed
<1>2. \A k \in 2..N : f2[k] <= t /\ g2[k] \in 1..b2[f2[k]] /\ l2[f2[k]][g2[k]] = n
  BY <1>1 DEF Typed
<1>3. \A k, m \in 1..N : k < m => Before(f2[k], g2[k], f2[m], g2[m])
  BY DEF Balanced
<1>4. N > 0 => f2[1] = 1 /\ g2[1] = 0
  BY DEF Balanced, Typed
<1>5. ASSUME NEW i \in 1..t, NEW j \in 1..b2[i], l2[i][j] = n
      PROVE  \E k \in 2..N : f2[k] = i /\ g2[k] = j
  <2>1. PICK k \in 2..N : f[k] = i /\ g[k] = j
    BY <1>5 DEF Balanced
  <2> QED
    BY <1>1, <2>1
<1> QED
  BY <1>2, <1>3, <1>4, <1>5 DEF Balanced

(* The first use of a name pushes its global frame. *)
LEMMA BalancedFirst ==
  ASSUME NEW n, NEW f, NEW g, NEW t, NEW b, NEW l, Balanced(n, 0, f, g, t, b, l),
         NEW f2, NEW g2, f2[1] = 1, g2[1] = 0
  PROVE  Balanced(n, 1, f2, g2, t, b, l)
BY DEF Balanced

(* An activation starts with no local bound; one whose locals are unbound ends. *)
LEMMA BalancedBegin ==
  ASSUME NEW n, NEW N, NEW f, NEW g, NEW t, NEW b, NEW l,
         Typed(N, f, g, t, b), Balanced(n, N, f, g, t, b, l),
         NEW b2, NEW l2, \A i \in 1..t : b2[i] = b[i] /\ l2[i] = l[i], b2[t + 1] = 0
  PROVE  Balanced(n, N, f, g, t + 1, b2, l2)
<1>1. Balanced(n, N, f, g, t, b2, l2)
  BY BalancedSame
<1>2. \A i \in 1..(t + 1) : i \in 1..t \/ i = t + 1
  BY DEF Typed
<1>3. \A k \in 2..N : f[k] <= t + 1
  BY <1>1 DEF Balanced, Typed
<1> QED
  BY <1>1, <1>2, <1>3 DEF Balanced

LEMMA BalancedEnd ==
  ASSUME NEW n, NEW N, NEW f, NEW g, NEW t, NEW b, NEW l,
         Typed(N, f, g, t, b), Balanced(n, N, f, g, t, b, l), t > 0, b[t] = 0,
         NEW b2, NEW l2, \A i \in 1..(t - 1) : b2[i] = b[i] /\ l2[i] = l[i]
  PROVE  Balanced(n, N, f, g, t - 1, b2, l2)
<1>1. \A i \in 1..(t - 1) : i \in 1..t
  BY DEF Typed
<1>2. Typed(N, f, g, t - 1, b)
  BY <1>1 DEF Typed
<1>3. ASSUME NEW k \in 2..N
      PROVE  f[k] <= t - 1
  BY OwnersExist DEF Typed
<1>4. Balanced(n, N, f, g, t - 1, b, l)
  BY <1>1, <1>3 DEF Balanced
<1> QED
  BY <1>2, <1>4, BalancedSame

(* The innermost activation binds its next local: its name's stack gains a frame ... *)
LEMMA BalancedPush ==
  ASSUME NEW n, NEW N, NEW f, NEW g, NEW t, NEW b, NEW l,
         Typed(N, f, g, t, b), Balanced(n, N, f, g, t, b, l), N > 0, t > 1,
         NEW i, i = b[t] + 1, l[t][i] = n,
         NEW f2, NEW g2, OneMore(N, f, g, f2, g2, t, i), NEW b2, BindsTo(t, b, b2, i)
  PROVE  Balanced(n, N + 1, f2, g2, t, b2, l)
<1> USE DEF OneMore, BindsTo
<1>1. N \in Nat /\ t \in Nat /\ b[t] \in Nat /\ i \in Nat
  BY DEF Typed
<1>2. \A k \in 1..(N + 1) : k \in 1..N \/ k = N + 1
  BY <1>1
<1>3. \A k \in 2..(N + 1) : k \in 2..N \/ k = N + 1
  BY <1>1
<1>4. ASSUME NEW k \in 1..N
      PROVE  Before(f[k], g[k], t, i)
  <2>1. CASE k = 1
    BY <1>1, <2>1 DEF Balanced, Before
  <2>2. CASE k # 1
    <3>1. k \in 2..N
      BY <1>1, <2>2
    <3>2. f[k] \in 1..t /\ g[k] \in 1..b[f[k]]
      BY <3>1, OwnersExist
    <3> QED
      BY <1>1, <3>2 DEF Before
  <2> QED
    BY <2>1, <2>2
<1>5. ASSUME NEW k \in 1..(N + 1), NEW m \in 1..(N + 1), k < m
      PROVE  Before(f2[k], g2[k], f2[m], g2[m])
  <2>1. k \in 1..N
    BY <1>1, <1>5
  <2>2. CASE m = N + 1
    BY <1>4, <2>1, <2>2
  <2>3. CASE m \in 1..N
    BY <1>5, <2>1, <2>3 DEF Balanced
  <2> QED
    BY <1>2, <2>2, <2>3
<1>6. f2[1] = 1 /\ g2[1] = 0
  BY <1>1 DEF Balanced
<1>7. ASSUME NEW x \in 1..t
      PROVE  b2[x] = IF x = t THEN b[x] + 1 ELSE b[x]
  <2>1. x = t \/ x \in 1..(t - 1)
    BY <1>1
  <2> QED
    BY <1>1, <2>1
<1>8. ASSUME NEW k \in 2..(N + 1)
      PROVE  f2[k] <= t /\ g2[k] \in 1..b2[f2[k]] /\ l[f2[k]][g2[k]] = n
  <2>1. CASE k = N + 1
    BY <1>1, <2>1
  <2>2. CASE k \in 2..N
    <3>1. f[k] \in 1..t /\ g[k] \in 1..b[f[k]] /\ l[f[k]][g[k]] = n /\ b[f[k]] \in Nat
      BY <2>2, OwnersExist
    <3>2. f2[k] = f[k] /\ g2[k] = g[k]
      BY <1>1, <2>2
    <3>3. b2[f[k]] = IF f[k] = t THEN b[f[k]] + 1 ELSE b[f[k]]
      BY <1>7, <3>1
    <3> QED
      BY <1>1, <3>1, <3>2, <3>3
  <2> QED
    BY <1>3, <2>1, <2>2
<1>9. ASSUME NEW x \in 1..t, NEW y \in 1..b2[x], l[x][y] = n
      PROVE  \E k \in 2..(N + 1) : f2[k] = x /\ g2[k] = y
  <2>1. CASE x = t /\ y = i
    <3>1. N + 1 \in 2..(N + 1)
      BY <1>1
    <3> QED
      BY <2>1, <3>1
  <2>2. CASE ~(x = t /\ y = i)
    <3>1. y \in 1..b[x]
      BY <1>1, <1>7, <2>2 DEF Typed
    <3>2. PICK k \in 2..N : f[k] = x /\ g[k] = y
      BY <1>9, <3>1 DEF Balanced
    <3>3. k \in 2..(N + 1) /\ k \in 1..N
      BY <1>1
    <3> QED
      BY <3>2, <3>3
  <2> QED
    BY <2>1, <2>2
<1> QED
  BY <1>5, <1>6, <1>8, <1>9 DEF Balanced

(* ... and the last local it bound is on top of that local's stack, which loses it. *)
LEMMA BalancedPop ==
  ASSUME NEW n, NEW N, NEW f, NEW g, NEW t, NEW b, NEW l,
         Typed(N, f, g, t, b), Balanced(n, N, f, g, t, b, l), t > 0, b[t] > 0, l[t][b[t]] = n,
         NEW b2, BindsTo(t, b, b2, b[t] - 1)
  PROVE  N > 1 /\ f[N] = t /\ g[N] = b[t] /\ Balanced(n, N - 1, f, g, t, b2, l)
<1> USE DEF BindsTo
<1>1. N \in Nat /\ t \in Nat /\ b[t] \in Nat /\ t \in 1..t /\ b[t] \in 1..b[t]
  BY DEF Typed
<1>2. PICK q \in 2..N : f[q] = t /\ g[q] = b[t]
  BY <1>1 DEF Balanced
<1>3. q = N
  <2>1. SUFFICES ASSUME q # N
                 PROVE  FALSE
    OBVIOUS
  <2>2. q \in 1..N /\ N \in 2..N /\ N \in 1..N /\ q < N
    BY <1>1, <2>1
  <2>3. Before(f[q], g[q], f[N], g[N])
    BY <2>2 DEF Balanced
  <2>4. f[N] \in 1..t /\ g[N] \in 1..b[f[N]]
    BY <2>2, OwnersExist
  <2> QED
    BY <1>1, <1>2, <2>3, <2>4 DEF Before
<1>4. N > 1 /\ \A k \in 1..(N - 1) : k \in 1..N /\ k < N
  BY <1>1
<1>5. ASSUME NEW x \in 1..t
      PROVE  b2[x] = IF x = t THEN b[x] - 1 ELSE b[x]
  <2>1. x = t \/ x \in 1..(t - 1)
    BY <1>1
  <2> QED
    BY <1>1, <2>1
<1>6. ASSUME NEW k \in 2..(N - 1)
      PROVE  f[k] <= t /\ g[k] \in 1..b2[f[k]] /\ l[f[k]][g[k]] = n
  <2>1. k \in 2..N /\ k \in 1..N /\ N \in 1..N /\ k < N
    BY <1>1
  <2>2. f[k] \in 1..t /\ g[k] \in 1..b[f[k]] /\ l[f[k]][g[k]] = n /\ b[f[k]] \in Nat
    BY <2>1, OwnersExist
  <2>3. Before(f[k], g[k], f[N], g[N])
    BY <2>1 DEF Balanced
  <2>4. b2[f[k]] = IF f[k] = t THEN b[f[k]] - 1 ELSE b[f[k]]
    BY <1>5, <2>2
  <2> QED
    BY <1>1, <1>2, <1>3, <2>2, <2>3, <2>4 DEF Before
<1>7. ASSUME NEW x \in 1..t, NEW y \in 1..b2[x], l[x][y] = n
      PROVE  \E k \in 2..(N - 1) : f[k] = x /\ g[k] = y
  <2>1. y \in 1..b[x] /\ ~(x = t /\ y = b[t])
    BY <1>1, <1>5 DEF Typed
  <2>2. PICK k \in 2..N : f[k] = x /\ g[k] = y
    BY <1>7, <2>1 DEF Balanced
  <2>3. k # N
    BY <1>2, <1>3, <2>1, <2>2
  <2>4. k \in 2..(N - 1)
    BY <1>1, <2>3
  <2> QED
    BY <2>2, <2>4
<1>8. \A k, m \in 1..(N - 1) : k < m => Before(f[k], g[k], f[m], g[m])
  BY <1>4 DEF Balanced
<1> QED
  BY <1>2, <1>3, <1>4, <1>6, <1>7, <1>8 DEF Balanced

(* Neither touches the stack of another name. *)
LEMMA BalancedOther ==
  ASSUME NEW n, NEW N, NEW f, NEW g, NEW t, NEW b, NEW l,
         Typed(N, f, g, t, b), Balanced(n, N, f, g, t, b, l), t > 0,
         NEW b2, \A k \in 1..(t - 1) : b2[k] = b[k],
         \/ b2[t] = b[t] + 1 /\ l[t][b[t] + 1] # n
         \/ b2[t] = b[t] - 1 /\ l[t][b[t]] # n
  PROVE  Balanced(n, N, f, g, t, b2, l)
<1>1. N \in Nat /\ t \in Nat /\ b[t] \in Nat
  BY DEF Typed
<1>2. ASSUME NEW x \in 1..t, NEW y \in Int, l[x][y] = n
      PROVE  y \in 1..b[x] <=> y \in 1..b2[x]
  <2>1. CASE x = t
    BY <1>1, <1>2, <2>1
  <2>2. CASE x # t
    <3>1. x \in 1..(t - 1)
      BY <1>1, <2>2
    <3> QED
      BY <3>1
  <2> QED
    BY <2>1, <2>2
<1>3. ASSUME NEW k \in 2..N
      PROVE  f[k] <= t /\ g[k] \in 1..b2[f[k]] /\ l[f[k]][g[k]] = n
  <2>1. f[k] \in 1..t /\ g[k] \in 1..b[f[k]] /\ l[f[k]][g[k]] = n /\ b[f[k]] \in Nat
    BY OwnersExist
  <2>2. g[k] \in Int
    BY <2>1
  <2> QED
    BY <1>1, <1>2, <2>1, <2>2
<1>4. ASSUME NEW x \in 1..t, NEW y \in 1..b2[x], l[x][y] = n
      PROVE  \E k \in 2..N : f[k] = x /\ g[k] = y
  <2>1. y \in 1..b[x]
    BY <1>2, <1>4
  <2> QED
    BY <1>4, <2>1 DEF Balanced
<1> QED
  BY <1>3, <1>4 DEF Balanced
-----------------------------------------------------------------------------
(* A name's owners o and the activations A, as Balanced sees them. *)
F(o) == [k \in 1..Len(o) |-> o[k][1]]
G(o) == [k \in 1..Len(o) |-> o[k][2]]
B(A) == [i \in 1..Len(A) |-> A[i].bound]
L(A) == [i \in 1..Len(A) |-> A[i].locals]

BalancedFor(n, s, o, A) ==
  Len(o) = Len(s) /\ Balanced(n, Len(o), F(o), G(o), Len(A), B(A), L(A))

LEMMA Views ==
  ASSUME NEW o \in Seq(Nat \X Nat), NEW A \in Seq(Activation)
  PROVE  /\ Typed(Len(o), F(o), G(o), Len(A), B(A))
         /\ \A k \in 1..Len(o) : F(o)[k] = o[k][1] /\ G(o)[k] = o[k][2]
                                 /\ o[k] = <<F(o)[k], G(o)[k]>>
         /\ \A i \in 1..Len(A) : B(A)[i] = A[i].bound /\ L(A)[i] = A[i].locals
<1>1. Len(o) \in Nat /\ Len(A) \in Nat
  OBVIOUS
<1>2. \A k \in 1..Len(o) : F(o)[k] = o[k][1] /\ G(o)[k] = o[k][2]
  BY DEF F, G
<1>3. \A i \in 1..Len(A) : B(A)[i] = A[i].bound /\ L(A)[i] = A[i].locals
  BY DEF B, L
<1>4. ASSUME NEW k \in 1..Len(o)
      PROVE  o[k][1] \in Nat /\ o[k][2] \in Nat /\ o[k] = <<o[k][1], o[k][2]>>
  <2>1. o[k] \in Nat \X Nat
    OBVIOUS
  <2> QED
    BY <2>1
<1>5. ASSUME NEW i \in 1..Len(A)
      PROVE  A[i].bound \in Nat
  <2>1. A[i] \in Activation
    OBVIOUS
  <2> QED
    BY <2>1 DEF Activation
<1> QED
  BY <1>1, <1>2, <1>3, <1>4, <1>5 DEF Typed

(* The parts of ScopesBalanced, for one name. *)
Sorted(o) == \A k, m \in DOMAIN o : k < m => Earlier(o[k], o[m])
GlobalFirst(o) == o # <<>> => o[1] = Global
OnlyLocals(n, o, A) ==
  \A k \in 2..Len(o) :
    LET i == o[k][1]
        j == o[k][2]
    IN  i <= Len(A) /\ j \in 1..A[i].bound /\ A[i].locals[j] = n
EveryLocal(n, o, A) ==
  \A i \in DOMAIN A : \A j \in 1..A[i].bound :
    A[i].locals[j] = n => \E k \in 2..Len(o) : o[k] = <<i, j>>

LEMMA BalanceViews ==
  ASSUME NEW n, NEW s, NEW o \in Seq(Nat \X Nat), NEW A \in Seq(Activation)
  PROVE  BalancedFor(n, s, o, A) <=>
           Len(o) = Len(s) /\ Sorted(o) /\ GlobalFirst(o) /\ OnlyLocals(n, o, A) /\ EveryLocal(n, o, A)
<1>1. PICK N, t, f, g, b, l : /\ N = Len(o) /\ t = Len(A) /\ f = F(o) /\ g = G(o)
                              /\ b = B(A) /\ l = L(A)
  OBVIOUS
<1>2. Typed(N, f, g, t, b) /\ N \in Nat /\ t \in Nat
  BY <1>1, Views DEF Typed
<1>3. \A k \in 1..N : f[k] = o[k][1] /\ g[k] = o[k][2] /\ o[k] = <<f[k], g[k]>>
  BY <1>1, Views
<1>4. \A i \in 1..t : b[i] = A[i].bound /\ l[i] = A[i].locals
  BY <1>1, Views
<1>5. DOMAIN o = 1..N /\ DOMAIN A = 1..t /\ (o # <<>> <=> N > 0)
  BY <1>1
<1> DEFINE P1 == \A k, m \in 1..N : k < m => Before(f[k], g[k], f[m], g[m])
           P2 == N > 0 => f[1] = 1 /\ g[1] = 0
           P3 == \A k \in 2..N : f[k] <= t /\ g[k] \in 1..b[f[k]] /\ l[f[k]][g[k]] = n
           P4 == \A i \in 1..t : \A j \in 1..b[i] :
                   l[i][j] = n => \E k \in 2..N : f[k] = i /\ g[k] = j
<1>6. Sorted(o) <=> P1
  <2>1. ASSUME NEW k \in 1..N, NEW m \in 1..N
        PROVE  Earlier(o[k], o[m]) <=> Before(f[k], g[k], f[m], g[m])
    BY <1>3 DEF Earlier, Before
  <2> QED
    BY <1>5, <2>1 DEF Sorted
<1>7. GlobalFirst(o) <=> P2
  BY <1>2, <1>3, <1>5 DEF Global, GlobalFirst
<1>8. ASSUME P1, P2
      PROVE  OnlyLocals(n, o, A) <=> P3
  <2>1. ASSUME NEW k \in 2..N
        PROVE  f[k] >= 1 /\ f[k] \in Nat /\ f[k] = o[k][1] /\ g[k] = o[k][2]
    <3>1. k \in 1..N /\ 1 \in 1..N /\ 1 < k
      BY <1>2
    <3>2. f[k] \in Nat /\ g[k] \in Nat /\ Before(1, 0, f[k], g[k])
      BY <1>2, <1>8, <3>1 DEF Typed
    <3> QED
      BY <1>3, <3>1, <3>2, SMTT(30) DEF Before
  <2>2. ASSUME NEW k \in 2..N
        PROVE  (o[k][1] <= t /\ o[k][2] \in 1..A[o[k][1]].bound /\ A[o[k][1]].locals[o[k][2]] = n)
               <=> (f[k] <= t /\ g[k] \in 1..b[f[k]] /\ l[f[k]][g[k]] = n)
    <3>1. CASE f[k] <= t
      <4>1. f[k] \in 1..t
        BY <1>2, <2>1, <3>1
      <4> QED
        BY <1>4, <2>1, <4>1
    <3>2. CASE ~(f[k] <= t)
      BY <2>1, <3>2
    <3> QED
      BY <3>1, <3>2
  <2> QED
    BY <1>1, <2>2 DEF OnlyLocals
<1>9. EveryLocal(n, o, A) <=> P4
  <2>1. ASSUME NEW i, NEW j, NEW k \in 2..N
        PROVE  o[k] = <<i, j>> <=> f[k] = i /\ g[k] = j
    <3>1. k \in 1..N
      BY <1>2
    <3>2. o[k] = <<f[k], g[k]>>
      BY <1>3, <3>1
    <3> QED
      BY <3>2
  <2>2. ASSUME NEW i \in 1..t
        PROVE  A[i].bound = b[i] /\ A[i].locals = l[i]
    BY <1>4
  <2>3. ASSUME EveryLocal(n, o, A), NEW i \in 1..t, NEW j \in 1..b[i], l[i][j] = n
        PROVE  \E k \in 2..N : f[k] = i /\ g[k] = j
    <3>1. PICK k \in 2..N : o[k] = <<i, j>>
      BY <1>1, <1>5, <2>2, <2>3 DEF EveryLocal
    <3> QED
      BY <2>1, <3>1
  <2>4. ASSUME P4, NEW i \in 1..t, NEW j \in 1..A[i].bound, A[i].locals[j] = n
        PROVE  \E k \in 2..N : o[k] = <<i, j>>
    <3>0. i \in 1..t /\ j \in 1..b[i] /\ l[i][j] = n
      BY <2>2, <2>4
    <3>1. PICK k \in 2..N : f[k] = i /\ g[k] = j
      BY <2>4, <3>0, Zenon
    <3>2. o[k] = <<f[k], g[k]>>
      BY <1>2, <1>3
    <3> QED
      BY <3>1, <3>2
  <2>5. EveryLocal(n, o, A) => P4
    BY <2>3
  <2>6. P4 => EveryLocal(n, o, A)
    BY <1>1, <1>5, <2>4, ZenonT(30) DEF EveryLocal
  <2> QED
    BY <2>5, <2>6
<1>10. BalancedFor(n, s, o, A) <=> Len(o) = Len(s) /\ P1 /\ P2 /\ P3 /\ P4
  BY <1>1 DEF BalancedFor, Balanced
<1> HIDE DEF P1, P2, P3, P4
<1> QED
  BY <1>6, <1>7, <1>8, <1>9, <1>10

LEMMA AllBalanced ==
  ASSUME TypeOK
  PROVE  ScopesBalanced <=> \A n \in Names : BalancedFor(n, scopes[n], owner[n], acts)
<1>1. acts \in Seq(Activation) /\ \A n \in Names : owner[n] \in Seq(Nat \X Nat)
  BY DEF TypeOK
<1>2. ScopesBalanced <=>
        \A n \in Names :
          /\ Len(owner[n]) = Len(scopes[n]) /\ Sorted(owner[n]) /\ GlobalFirst(owner[n])
          /\ OnlyLocals(n, owner[n], acts) /\ EveryLocal(n, owner[n], acts)
  BY DEF ScopesBalanced, Sorted, GlobalFirst, OnlyLocals, EveryLocal, Top
<1> QED
  BY <1>1, <1>2, BalanceViews

LEMMA AllBalancedPrime ==
  ASSUME TypeOK'
  PROVE  ScopesBalanced' <=> \A n \in Names : BalancedFor(n, scopes'[n], owner'[n], acts')
<1>1. acts' \in Seq(Activation) /\ \A n \in Names : owner'[n] \in Seq(Nat \X Nat)
  BY DEF TypeOK
<1>2. ScopesBalanced' <=>
        \A n \in Names :
          /\ Len(owner'[n]) = Len(scopes'[n]) /\ Sorted(owner'[n]) /\ GlobalFirst(owner'[n])
          /\ OnlyLocals(n, owner'[n], acts') /\ EveryLocal(n, owner'[n], acts')
  BY DEF ScopesBalanced, Sorted, GlobalFirst, OnlyLocals, EveryLocal, Top
<1> QED
  BY <1>1, <1>2, BalanceViews

-----------------------------------------------------------------------------
(* The changes the actions make to the stacks *)

Balance == TypeOK /\ ScopesBalanced

(* Nothing is pushed, popped or used for the first time. *)
LEMMA SameBalanced ==
  ASSUME Balance, TypeOK', UNCHANGED owner, \A n \in Names : Len(scopes'[n]) = Len(scopes[n]),
         Len(acts') = Top,
         \A i \in 1..Top : acts'[i].bound = acts[i].bound /\ acts'[i].locals = acts[i].locals
  PROVE  ScopesBalanced'
<1>1. acts \in Seq(Activation) /\ acts' \in Seq(Activation)
  BY DEF Balance, TypeOK
<1>2. ASSUME NEW n \in Names
      PROVE  BalancedFor(n, scopes'[n], owner'[n], acts')
  <2>1. owner[n] \in Seq(Nat \X Nat) /\ owner'[n] = owner[n]
    BY DEF Balance, TypeOK
  <2>2. PICK o, N, f, g : o = owner[n] /\ N = Len(o) /\ f = F(o) /\ g = G(o)
    OBVIOUS
  <2>3. PICK b, l, b2, l2 : b = B(acts) /\ l = L(acts) /\ b2 = B(acts') /\ l2 = L(acts')
    OBVIOUS
  <2>4. Typed(N, f, g, Top, b)
    BY <1>1, <2>1, <2>2, <2>3, Views DEF Top
  <2>5. BalancedFor(n, scopes[n], o, acts)
    BY <2>2, AllBalanced DEF Balance
  <2>6. N = Len(scopes[n]) /\ Balanced(n, N, f, g, Top, b, l)
    BY <2>2, <2>3, <2>5 DEF BalancedFor, Top
  <2>7. \A i \in 1..Top : b[i] = acts[i].bound /\ l[i] = acts[i].locals
    BY <1>1, <2>1, <2>3, Views DEF Top
  <2>8. \A i \in 1..Top : b2[i] = acts'[i].bound /\ l2[i] = acts'[i].locals
    BY <1>1, <2>1, <2>3, Views
  <2>9. Balanced(n, N, f, g, Top, b2, l2)
    BY <2>4, <2>6, <2>7, <2>8, BalancedSame
  <2> QED
    BY <2>1, <2>2, <2>3, <2>6, <2>9 DEF BalancedFor
<1> QED
  BY <1>2, AllBalancedPrime

(* A name is used: the first use creates its global frame, a later one may change a cell. *)
LEMMA UsedBalanced ==
  ASSUME Balance, TypeOK', UNCHANGED acts, NEW n \in Names, NEW s \in Seq(Frame(n)),
         Len(s) = Len(StackOf(n)), SetStack(n, s, OwnersOf(n))
  PROVE  ScopesBalanced'
<1>1. acts \in Seq(Activation) /\ acts' = acts
  BY DEF Balance, TypeOK
<1>2. /\ scopes'[n] = s /\ owner'[n] = OwnersOf(n)
      /\ \A m \in Names : m # n => scopes'[m] = scopes[m] /\ owner'[m] = owner[m]
  BY DEF SetStack, Balance, TypeOK
<1>3. \A m \in Names : BalancedFor(m, scopes[m], owner[m], acts)
  BY AllBalanced DEF Balance
<1>4. owner[n] \in Seq(Nat \X Nat) /\ scopes[n] \in Seq(Frame(n)) /\ Len(owner[n]) = Len(scopes[n])
  BY <1>3 DEF Balance, TypeOK, BalancedFor
<1>5. CASE owner[n] # <<>>
  <2>1. scopes[n] # <<>>
    BY <1>4, <1>5
  <2>2. Len(s) = Len(scopes[n]) /\ OwnersOf(n) = owner[n]
    BY <1>5, <2>1 DEF StackOf, OwnersOf
  <2>3. \A m \in Names : BalancedFor(m, scopes'[m], owner'[m], acts')
    BY <1>1, <1>2, <1>3, <2>2 DEF BalancedFor
  <2> QED
    BY <2>3, AllBalancedPrime
<1>6. CASE owner[n] = <<>>
  <2>1. scopes[n] = <<>>
    BY <1>4, <1>6
  <2>2. Len(s) = 1 /\ OwnersOf(n) = <<Global>>
    BY <1>6, <2>1 DEF StackOf, OwnersOf
  <2>3. PICK t, b, l, f, g : t = Len(acts) /\ b = B(acts) /\ l = L(acts) /\ f = F(<<>>) /\ g = G(<<>>)
    OBVIOUS
  <2>4. Balanced(n, 0, f, g, t, b, l)
    BY <1>3, <1>6, <2>3 DEF BalancedFor
  <2>5. PICK o, f2, g2 : o = <<Global>> /\ f2 = F(o) /\ g2 = G(o)
    OBVIOUS
  <2>6. Len(o) = 1 /\ f2[1] = 1 /\ g2[1] = 0
    BY <2>5 DEF F, G, Global
  <2>7. Balanced(n, 1, f2, g2, t, b, l)
    BY <2>4, <2>6, BalancedFirst
  <2>8. BalancedFor(n, s, o, acts)
    BY <2>2, <2>3, <2>5, <2>6, <2>7 DEF BalancedFor
  <2>9. \A m \in Names : BalancedFor(m, scopes'[m], owner'[m], acts')
    BY <1>1, <1>2, <1>3, <2>2, <2>5, <2>8
  <2> QED
    BY <2>9, AllBalancedPrime
<1> QED
  BY <1>5, <1>6

LEMMA TouchBalanced ==
  ASSUME Balance, TypeOK', UNCHANGED acts, NEW n \in Names, Touch(n)
  PROVE  ScopesBalanced'
BY StackTyped, UsedBalanced DEF Touch, Balance

LEMMA StoreBalanced ==
  ASSUME Balance, TypeOK', UNCHANGED acts, NEW p \in Place, NEW v \in Values, Store(p, v)
  PROVE  ScopesBalanced'
<1>1. CASE p.kind = "cell"
  <2>1. p.name \in Names /\ p.cell \in Cells(p.name)
    BY <1>1, PlaceFacts
  <2>2. PICK s : s = [StackOf(p.name) EXCEPT ![Len(StackOf(p.name))] = [@ EXCEPT ![p.cell] = v]]
    OBVIOUS
  <2>3. s \in Seq(Frame(p.name)) /\ Len(s) = Len(StackOf(p.name))
    BY <2>1, <2>2, CellSetTyped DEF Balance
  <2>4. SetStack(p.name, s, OwnersOf(p.name))
    BY <1>1, <2>2 DEF Store
  <2> QED
    BY <2>1, <2>3, <2>4, UsedBalanced
<1>2. CASE p.kind = "register"
  BY <1>2, SameBalanced DEF Store, Top
<1> QED
  BY <1>1, <1>2, PlaceFacts

(* An activation starts or ends. *)
LEMMA BeginBalanced ==
  ASSUME Balance, TypeOK', BeginCall
  PROVE  ScopesBalanced'
<1>1. acts \in Seq(Activation) /\ acts' \in Seq(Activation) /\ UNCHANGED <<scopes, owner>>
      /\ Top = Len(acts) /\ Top \in Nat
  BY DEF Balance, TypeOK, BeginCall, storage, Top
<1>2. PICK a : /\ acts' = Append(acts, a) /\ a.bound = 0
  <2>1. PICK a : a = [fn |-> Inner.fn, locals |-> Inner.header.params \o Inner.header.autos,
                      args |-> Inner.done, bound |-> 0, saved |-> Unsaved]
    OBVIOUS
  <2>2. acts' = Append(acts, a)
    BY <2>1 DEF BeginCall
  <2>3. a.bound = 0
    BY <2>1
  <2> QED
    BY <2>2, <2>3
<1>3. Len(acts') = Top + 1 /\ acts'[Top + 1] = a /\ \A i \in 1..Top : acts'[i] = acts[i]
  BY <1>1, <1>2
<1>4. ASSUME NEW n \in Names
      PROVE  BalancedFor(n, scopes'[n], owner'[n], acts')
  <2>1. owner[n] \in Seq(Nat \X Nat) /\ owner'[n] = owner[n] /\ scopes'[n] = scopes[n]
    BY <1>1 DEF Balance, TypeOK
  <2>2. PICK o, N, f, g : o = owner[n] /\ N = Len(o) /\ f = F(o) /\ g = G(o)
    OBVIOUS
  <2>3. PICK b, l, b2, l2 : b = B(acts) /\ l = L(acts) /\ b2 = B(acts') /\ l2 = L(acts')
    OBVIOUS
  <2>4. Typed(N, f, g, Top, b)
    BY <1>1, <2>1, <2>2, <2>3, Views
  <2>5. BalancedFor(n, scopes[n], o, acts)
    BY <2>2, AllBalanced DEF Balance
  <2>6. N = Len(scopes[n]) /\ Balanced(n, N, f, g, Top, b, l)
    BY <1>1, <2>2, <2>3, <2>5 DEF BalancedFor
  <2>7. \A i \in 1..Top : b[i] = acts[i].bound /\ l[i] = acts[i].locals
    BY <1>1, <2>1, <2>3, Views
  <2>8. \A i \in 1..(Top + 1) : b2[i] = acts'[i].bound /\ l2[i] = acts'[i].locals
    BY <1>1, <1>3, <2>1, <2>3, Views
  <2>9. \A i \in 1..Top : b2[i] = b[i] /\ l2[i] = l[i]
    BY <1>1, <1>3, <2>7, <2>8
  <2>10. b2[Top + 1] = 0
    BY <1>1, <1>2, <1>3, <2>8
  <2>11. Balanced(n, N, f, g, Top + 1, b2, l2)
    BY <2>4, <2>6, <2>9, <2>10, BalancedBegin
  <2> QED
    BY <1>3, <2>1, <2>2, <2>3, <2>6, <2>11 DEF BalancedFor
<1> QED
  BY <1>4, AllBalancedPrime

LEMMA EndBalanced ==
  ASSUME Balance, ModesOK, TypeOK', EndCall
  PROVE  ScopesBalanced'
<1>1. acts \in Seq(Activation) /\ acts' \in Seq(Activation) /\ UNCHANGED <<scopes, owner>>
      /\ Top = Len(acts) /\ Top \in Nat /\ Top > 1 /\ Act.bound = 0 /\ Act = acts[Top]
  BY DEF Balance, TypeOK, EndCall, storage, Top, ModesOK, Act
<1>2. acts' = Front(acts)
  BY DEF EndCall
<1>3. Len(acts') = Top - 1 /\ \A i \in 1..(Top - 1) : acts'[i] = acts[i]
  BY <1>1, <1>2, FrontProps
<1>4. ASSUME NEW n \in Names
      PROVE  BalancedFor(n, scopes'[n], owner'[n], acts')
  <2>1. owner[n] \in Seq(Nat \X Nat) /\ owner'[n] = owner[n] /\ scopes'[n] = scopes[n]
    BY <1>1 DEF Balance, TypeOK
  <2>2. PICK o, N, f, g : o = owner[n] /\ N = Len(o) /\ f = F(o) /\ g = G(o)
    OBVIOUS
  <2>3. PICK b, l, b2, l2 : b = B(acts) /\ l = L(acts) /\ b2 = B(acts') /\ l2 = L(acts')
    OBVIOUS
  <2>4. Typed(N, f, g, Top, b)
    BY <1>1, <2>1, <2>2, <2>3, Views
  <2>5. BalancedFor(n, scopes[n], o, acts)
    BY <2>2, AllBalanced DEF Balance
  <2>6. N = Len(scopes[n]) /\ Balanced(n, N, f, g, Top, b, l)
    BY <1>1, <2>2, <2>3, <2>5 DEF BalancedFor
  <2>7. \A i \in 1..Top : b[i] = acts[i].bound /\ l[i] = acts[i].locals
    BY <1>1, <2>1, <2>3, Views
  <2>8. \A i \in 1..Len(acts') : b2[i] = acts'[i].bound /\ l2[i] = acts'[i].locals
    <3>1. owner[n] \in Seq(Nat \X Nat) /\ acts' \in Seq(Activation)
      BY <1>1, <2>1
    <3>2. \A i \in 1..Len(acts') : B(acts')[i] = acts'[i].bound /\ L(acts')[i] = acts'[i].locals
      BY <3>1, Views
    <3> QED
      BY <2>3, <3>2
  <2>9. ASSUME NEW i \in 1..(Top - 1)
        PROVE  b2[i] = b[i] /\ l2[i] = l[i]
    <3>1. i \in 1..Top /\ i \in 1..Len(acts') /\ acts'[i] = acts[i]
      BY <1>1, <1>3
    <3> QED
      BY <2>7, <2>8, <3>1
  <2>10. b[Top] = 0 /\ Top > 0
    BY <1>1, <2>7
  <2>11. Balanced(n, N, f, g, Top - 1, b2, l2)
    BY <2>4, <2>6, <2>9, <2>10, BalancedEnd
  <2> QED
    BY <1>3, <2>1, <2>2, <2>3, <2>6, <2>11 DEF BalancedFor
<1> QED
  BY <1>4, AllBalancedPrime

(* The innermost activation binds or unbinds a local: the stacks of the other names. *)
LEMMA OtherBalanced ==
  ASSUME Balance, TypeOK', NEW n, NEW d, acts' = [acts EXCEPT ![Top].bound = d],
         \/ d = Act.bound + 1 /\ n = Act.locals[Act.bound + 1]
         \/ d = Act.bound - 1 /\ n = Act.locals[Act.bound],
         NEW m \in Names, m # n, scopes'[m] = scopes[m], owner'[m] = owner[m]
  PROVE  BalancedFor(m, scopes'[m], owner'[m], acts')
<1>1. acts \in Seq(Activation) /\ acts' \in Seq(Activation) /\ acts # <<>>
      /\ Top = Len(acts) /\ Top \in Nat /\ Act = acts[Top]
  BY DEF Balance, TypeOK, Top, Act
<1>2. Top > 0 /\ Top \in DOMAIN acts /\ DOMAIN acts = 1..Top /\ Len(acts') = Top
  BY <1>1
<1>3. acts[Top] \in Activation
  BY <1>1, <1>2
<1>4. acts'[Top].bound = d /\ \A i \in 1..Top : acts'[i].locals = acts[i].locals
      /\ (i # Top => acts'[i] = acts[i])
  BY <1>2, <1>3 DEF Activation
<1>5. owner[m] \in Seq(Nat \X Nat)
  BY DEF Balance, TypeOK
<1>6. PICK o, N, f, g : o = owner[m] /\ N = Len(o) /\ f = F(o) /\ g = G(o)
  OBVIOUS
<1>7. PICK b, l, b2, l2 : b = B(acts) /\ l = L(acts) /\ b2 = B(acts') /\ l2 = L(acts')
  OBVIOUS
<1>8. Typed(N, f, g, Top, b)
  BY <1>1, <1>5, <1>6, <1>7, Views
<1>9. N = Len(scopes[m]) /\ Balanced(m, N, f, g, Top, b, l)
  BY <1>1, <1>6, <1>7, AllBalanced DEF Balance, BalancedFor
<1>10. \A i \in 1..Top : b[i] = acts[i].bound /\ l[i] = acts[i].locals
  BY <1>1, <1>5, <1>7, Views
<1>11. \A i \in 1..Top : b2[i] = acts'[i].bound /\ l2[i] = acts'[i].locals
  BY ZenonT(30), <1>1, <1>2, <1>5, <1>7, Views
<1>12. b[Top] = Act.bound /\ l[Top] = Act.locals /\ b2[Top] = d
  BY <1>1, <1>2, <1>4, <1>10, <1>11
<1>13. \A i \in 1..(Top - 1) : b2[i] = b[i]
  BY <1>2, <1>1, <1>4, <1>10, <1>11
<1>14. Balanced(m, N, f, g, Top, b2, l)
  BY <1>2, <1>8, <1>9, <1>12, <1>13, BalancedOther
<1>15. Typed(N, f, g, Top, b2)
  BY <1>1, <1>2, <1>5, <1>6, <1>7, Views
<1>16. Balanced(m, N, f, g, Top, b2, l2)
  BY <1>4, <1>10, <1>11, <1>14, <1>15, BalancedSame
<1> QED
  BY <1>2, <1>6, <1>7, <1>9, <1>16 DEF BalancedFor

LEMMA BindBalanced ==
  ASSUME Balance, ModesOK, TypeOK', BindLocal
  PROVE  ScopesBalanced'
<1>1. PICK j, n, a : /\ j = Act.bound + 1 /\ n = Act.locals[j]
                     /\ a = IF j <= Len(Act.args) THEN Act.args[j] ELSE ZeroFrame(n)
  OBVIOUS
<1>2. /\ SetStack(n, Append(StackOf(n), a), Append(OwnersOf(n), <<Top, j>>))
      /\ acts' = [acts EXCEPT ![Top].bound = j] /\ Act.bound < Len(Act.locals) /\ Top > 1
  BY <1>1 DEF BindLocal, ModesOK
<1>3. j \in Nat /\ n \in Names /\ Act.bound \in Nat
  BY <1>1, <1>2, ActFacts DEF Balance
<1>4. acts \in Seq(Activation) /\ acts' \in Seq(Activation) /\ Top = Len(acts) /\ Top \in Nat
      /\ Act = acts[Top]
  BY DEF Balance, TypeOK, Top, Act
<1>5. Top \in 1..Len(acts) /\ acts[Top] \in Activation /\ Len(acts') = Top
  BY <1>2, <1>4
<1>6. acts'[Top].bound = j /\ \A i \in 1..Top : acts'[i].locals = acts[i].locals
      /\ (i # Top => acts'[i] = acts[i])
  BY SMTT(30), <1>2, <1>4, <1>5 DEF Activation
<1>7. /\ scopes'[n] = Append(StackOf(n), a) /\ owner'[n] = Append(OwnersOf(n), <<Top, j>>)
      /\ \A m \in Names : m # n => scopes'[m] = scopes[m] /\ owner'[m] = owner[m]
  BY <1>2, <1>3 DEF SetStack, Balance, TypeOK
<1>8. PICK s, o, N : s = StackOf(n) /\ o = OwnersOf(n) /\ N = Len(o)
  OBVIOUS
<1>9. s \in Seq(Frame(n)) /\ o \in Seq(Nat \X Nat) /\ o # <<>> /\ N \in Nat /\ N > 0
  BY <1>3, <1>8, StackTyped DEF Balance
<1>10. BalancedFor(n, s, o, acts)
  <2>1. BalancedFor(n, scopes[n], owner[n], acts)
    BY <1>3, AllBalanced DEF Balance
  <2>2. owner[n] \in Seq(Nat \X Nat) /\ scopes[n] \in Seq(Frame(n)) /\ Len(owner[n]) = Len(scopes[n])
    BY <1>3, <2>1 DEF Balance, TypeOK, BalancedFor
  <2>3. CASE owner[n] # <<>>
    <3>1. scopes[n] # <<>>
      BY <2>2, <2>3
    <3> QED
      BY <1>8, <2>1, <2>3, <3>1 DEF StackOf, OwnersOf
  <2>4. CASE owner[n] = <<>>
    <3>1. scopes[n] = <<>>
      BY <2>2, <2>4
    <3>2. Len(s) = 1 /\ o = <<Global>>
      BY <1>8, <2>4, <3>1 DEF StackOf, OwnersOf
    <3>3. PICK t, b, l, f, g : t = Len(acts) /\ b = B(acts) /\ l = L(acts) /\ f = F(<<>>) /\ g = G(<<>>)
      OBVIOUS
    <3>4. Balanced(n, 0, f, g, t, b, l)
      BY <2>1, <2>4, <3>3 DEF BalancedFor
    <3>5. PICK f2, g2 : f2 = F(o) /\ g2 = G(o)
      OBVIOUS
    <3>6. Len(o) = 1 /\ f2[1] = 1 /\ g2[1] = 0
      BY <3>2, <3>5 DEF F, G, Global
    <3>7. Balanced(n, 1, f2, g2, t, b, l)
      BY <3>4, <3>6, BalancedFirst
    <3> QED
      BY <3>2, <3>3, <3>5, <3>6, <3>7 DEF BalancedFor
  <2> QED
    BY <2>3, <2>4
<1>11. PICK p, e : p = owner'[n] /\ e = <<Top, j>>
  OBVIOUS
<1>12. /\ p \in Seq(Nat \X Nat) /\ Len(p) = N + 1 /\ p[N + 1] = e /\ \A k \in 1..N : p[k] = o[k]
       /\ e[1] = Top /\ e[2] = j /\ Len(scopes'[n]) = Len(s) + 1
  <2>1. e \in Nat \X Nat /\ e[1] = Top /\ e[2] = j
    BY <1>3, <1>4, <1>11
  <2>2. p = Append(o, e)
    BY <1>7, <1>8, <1>11
  <2>3. p \in Seq(Nat \X Nat) /\ Len(p) = N + 1 /\ p[N + 1] = e /\ \A k \in 1..N : p[k] = o[k]
    BY <1>8, <1>9, <2>1, <2>2, AppendProperties
  <2>4. a \in Frame(n) \union {a}
    OBVIOUS
  <2>5. Len(scopes'[n]) = Len(s) + 1
    BY <1>7, <1>8, <1>9
  <2> QED
    BY <2>1, <2>3, <2>5
<1>13. PICK f, g, f2, g2 : f = F(o) /\ g = G(o) /\ f2 = F(p) /\ g2 = G(p)
  OBVIOUS
<1>14. PICK b, l, b2, l2 : b = B(acts) /\ l = L(acts) /\ b2 = B(acts') /\ l2 = L(acts')
  OBVIOUS
<1>15. Typed(N, f, g, Top, b) /\ Typed(N + 1, f2, g2, Top, b2)
  BY <1>4, <1>5, <1>8, <1>9, <1>12, <1>13, <1>14, Views
<1>16. N = Len(s) /\ Balanced(n, N, f, g, Top, b, l)
  BY <1>4, <1>8, <1>10, <1>13, <1>14 DEF BalancedFor
<1>17. /\ \A i \in 1..Top : b[i] = acts[i].bound /\ l[i] = acts[i].locals
       /\ \A i \in 1..Top : b2[i] = acts'[i].bound /\ l2[i] = acts'[i].locals
  BY <1>4, <1>5, <1>9, <1>14, Views, SMTT(30)
<1>18. /\ \A k \in 1..N : f[k] = o[k][1] /\ g[k] = o[k][2]
       /\ \A k \in 1..(N + 1) : f2[k] = p[k][1] /\ g2[k] = p[k][2]
  <2>1. \A k \in 1..Len(o) : F(o)[k] = o[k][1] /\ G(o)[k] = o[k][2]
    BY <1>4, <1>9, Views
  <2>2. \A k \in 1..Len(p) : F(p)[k] = p[k][1] /\ G(p)[k] = p[k][2]
    BY <1>4, <1>12, Views
  <2> QED
    BY <1>8, <1>12, <1>13, <2>1, <2>2
<1>19. b[Top] = Act.bound /\ l[Top] = Act.locals /\ b2[Top] = j
  BY <1>4, <1>5, <1>6, <1>17
<1>20. (\A i \in 1..(Top - 1) : b2[i] = b[i]) /\ \A i \in 1..Top : l2[i] = l[i]
  BY SMTT(30), <1>4, <1>6, <1>17
<1>21. (\A k \in 1..N : f2[k] = f[k] /\ g2[k] = g[k]) /\ f2[N + 1] = Top /\ g2[N + 1] = j
  <2>1. ASSUME NEW k \in 1..N
        PROVE  f2[k] = f[k] /\ g2[k] = g[k]
    <3>1. k \in 1..(N + 1)
      BY <1>9
    <3> QED
      BY <1>12, <1>18, <3>1
  <2>2. N + 1 \in 1..(N + 1)
    BY <1>9
  <2> QED
    BY <1>12, <1>18, <2>1, <2>2
<1>22. Balanced(n, N + 1, f2, g2, Top, b2, l)
  <2>1. j = b[Top] + 1 /\ l[Top][j] = n /\ b2[Top] = j /\ N > 0 /\ Top > 1
    BY <1>1, <1>2, <1>9, <1>19
  <2>2. OneMore(N, f, g, f2, g2, Top, j) /\ BindsTo(Top, b, b2, j)
    BY <1>20, <1>21, <2>1 DEF OneMore, BindsTo
  <2> QED
    BY <1>15, <1>16, <2>1, <2>2, BalancedPush
<1>23. Balanced(n, N + 1, f2, g2, Top, b2, l2)
  BY <1>15, <1>20, <1>22, BalancedSame
<1>24. BalancedFor(n, scopes'[n], owner'[n], acts')
  BY <1>5, <1>11, <1>12, <1>13, <1>14, <1>16, <1>23 DEF BalancedFor
<1>25. \A m \in Names : m # n => BalancedFor(m, scopes'[m], owner'[m], acts')
  BY <1>1, <1>2, <1>7, OtherBalanced
<1> QED
  BY <1>24, <1>25, AllBalancedPrime

LEMMA UnbindBalanced ==
  ASSUME Balance, ModesOK, TypeOK', UnbindLocal
  PROVE  ScopesBalanced'
<1>1. PICK d, n : d = Act.bound - 1 /\ n = Act.locals[Act.bound]
  OBVIOUS
<1>2. /\ SetStack(n, Front(scopes[n]), Front(owner[n])) /\ Act.bound > 0 /\ Top > 1
      /\ acts' = [acts EXCEPT ![Top].bound = d]
  BY <1>1 DEF UnbindLocal, ModesOK, Act
<1>3. d \in Nat /\ Act.bound \in Nat
  BY <1>1, <1>2, ActFacts DEF Balance
<1>4. acts \in Seq(Activation) /\ acts' \in Seq(Activation) /\ Top = Len(acts) /\ Top \in Nat
      /\ Act = acts[Top]
  BY DEF Balance, TypeOK, Top, Act
<1>5. Top \in 1..Len(acts) /\ acts[Top] \in Activation /\ Len(acts') = Top
  BY <1>2, <1>4
<1>6. acts'[Top].bound = d /\ \A i \in 1..Top : acts'[i].locals = acts[i].locals
      /\ (i # Top => acts'[i] = acts[i])
  BY <1>2, <1>4, <1>5, SMTT(30) DEF Activation
<1>7. /\ n \in Names => scopes'[n] = Front(scopes[n]) /\ owner'[n] = Front(owner[n])
      /\ \A m \in Names : m # n => scopes'[m] = scopes[m] /\ owner'[m] = owner[m]
  BY <1>2 DEF SetStack, Balance, TypeOK
<1>8. \A m \in Names : m # n => BalancedFor(m, scopes'[m], owner'[m], acts')
  BY <1>1, <1>2, <1>7, OtherBalanced
<1>9. ASSUME n \in Names
      PROVE  BalancedFor(n, scopes'[n], owner'[n], acts')
  <2>1. PICK s, o, N : s = scopes[n] /\ o = owner[n] /\ N = Len(o)
    OBVIOUS
  <2>2. s \in Seq(Frame(n)) /\ o \in Seq(Nat \X Nat) /\ N \in Nat
    BY <1>9, <2>1 DEF Balance, TypeOK
  <2>3. BalancedFor(n, s, o, acts)
    BY <1>9, <2>1, AllBalanced DEF Balance
  <2>4. PICK f, g, b, l, b2, l2 : /\ f = F(o) /\ g = G(o) /\ b = B(acts) /\ l = L(acts)
                                  /\ b2 = B(acts') /\ l2 = L(acts')
    OBVIOUS
  <2>5. N = Len(s) /\ Balanced(n, N, f, g, Top, b, l)
    BY <1>4, <2>1, <2>3, <2>4 DEF BalancedFor
  <2>6. Typed(N, f, g, Top, b) /\ Typed(N, f, g, Top, b2)
    BY <1>4, <1>5, <2>1, <2>2, <2>4, Views
  <2>7. /\ \A i \in 1..Top : b[i] = acts[i].bound /\ l[i] = acts[i].locals
        /\ \A i \in 1..Top : b2[i] = acts'[i].bound /\ l2[i] = acts'[i].locals
    BY <1>4, <1>5, <2>2, <2>4, Views
  <2>8. b[Top] = Act.bound /\ l[Top] = Act.locals /\ b2[Top] = d
    BY <1>4, <1>5, <1>6, <2>7
  <2>9. (\A i \in 1..(Top - 1) : b2[i] = b[i]) /\ \A i \in 1..Top : l2[i] = l[i]
    BY SMTT(30), <1>4, <1>6, <2>7
  <2>10. N > 1 /\ Balanced(n, N - 1, f, g, Top, b2, l)
    <3>1. Top > 0 /\ b[Top] > 0 /\ l[Top][b[Top]] = n /\ b2[Top] = b[Top] - 1
      BY <1>1, <1>2, <1>4, <2>8, SMTT(30)
    <3>2. BindsTo(Top, b, b2, b[Top] - 1)
      BY <2>9, <3>1 DEF BindsTo
    <3> QED
      BY ZenonT(30), <2>5, <2>6, <3>1, <3>2, BalancedPop
  <2>11. PICK p : p = owner'[n]
    OBVIOUS
  <2>12. /\ p \in Seq(Nat \X Nat) /\ Len(p) = N - 1 /\ \A k \in 1..(N - 1) : p[k] = o[k]
    <3>1. p = Front(o) /\ o # <<>>
      BY <1>7, <1>9, <2>1, <2>10, <2>11
    <3> QED
      BY <2>1, <2>2, <3>1, FrontProps
  <2>13. Len(scopes'[n]) = N - 1
    <3>1. scopes'[n] = Front(s) /\ s # <<>>
      BY <1>7, <1>9, <2>1, <2>5, <2>10
    <3> QED
      BY <2>2, <2>5, <3>1, FrontProps
  <2>14. PICK f2, g2 : f2 = F(p) /\ g2 = G(p)
    OBVIOUS
  <2>15. /\ \A k \in 1..N : f[k] = o[k][1] /\ g[k] = o[k][2]
         /\ \A k \in 1..(N - 1) : f2[k] = p[k][1] /\ g2[k] = p[k][2]
    <3>1. \A k \in 1..Len(o) : F(o)[k] = o[k][1] /\ G(o)[k] = o[k][2]
      BY <1>4, <2>2, Views
    <3>2. \A k \in 1..Len(p) : F(p)[k] = p[k][1] /\ G(p)[k] = p[k][2]
      BY <1>4, <2>12, Views
    <3> QED
      BY <2>1, <2>4, <2>12, <2>14, <3>1, <3>2
  <2>16. ASSUME NEW k \in 1..(N - 1)
         PROVE  f2[k] = f[k] /\ g2[k] = g[k]
    <3>1. k \in 1..N
      BY <2>2
    <3> QED
      BY <2>12, <2>15, <3>1
  <2>17. Typed(N - 1, f, g, Top, b2)
    BY <2>6, <2>10 DEF Typed
  <2>18. Balanced(n, N - 1, f2, g2, Top, b2, l2)
    BY <2>9, <2>10, <2>16, <2>17, BalancedSame
  <2> QED
    BY <1>5, <2>4, <2>11, <2>12, <2>13, <2>14, <2>18 DEF BalancedFor
<1> QED
  BY <1>8, <1>9, AllBalancedPrime

-----------------------------------------------------------------------------
(* What a step can do to the storage: nothing, use a name, store a value, or begin, end, *)
(* bind or unbind a call.                                                                *)

NoStorage ==
  /\ UNCHANGED <<scopes, owner, registers>> /\ Len(acts') = Top
  /\ \A i \in 1..Top : acts'[i].bound = acts[i].bound /\ acts'[i].locals = acts[i].locals
UsesName == UNCHANGED <<acts, registers>> /\ \E n \in Names : Touch(n)
StoresValue == UNCHANGED acts /\ \E p \in Place, v \in Values : Store(p, v)
Binds == UNCHANGED registers /\ (BeginCall \/ EndCall \/ BindLocal \/ UnbindLocal)

LEMMA NoStorageWhenSame ==
  ASSUME UNCHANGED <<acts, scopes, owner, registers>>
  PROVE  NoStorage
BY DEF NoStorage, Top

LEMMA LoadKinds ==
  ASSUME NEW p \in Place, Load(p), UNCHANGED <<acts, registers>>
  PROVE  NoStorage \/ UsesName
BY PlaceFacts, NoStorageWhenSame DEF Load, UsesName

LEMMA UnitKinds ==
  ASSUME StartUnit \/ EndUnit \/ FailUnit \/ \E f \in Functions, h \in Headers : Define(f, h)
  PROVE  NoStorage
BY NoStorageWhenSame DEF StartUnit, EndUnit, FailUnit, Define, state, storage

LEMMA ExecuteKinds ==
  ASSUME Execute
  PROVE  NoStorage
BY NoStorageWhenSame
   DEF Execute, ExecExpr, ExecBlock, EndBlock, ExecBreak, ExecReturn, ExecReturnExpr, ExecIf,
       ExecLoop, EndLoopBody, storage

LEMMA EvaluateKinds ==
  ASSUME TypeOK, Evaluate
  PROVE  NoStorage \/ UsesName \/ StoresValue
<1>1. CASE Literal \/ FailExpr \/ (\E r \in Registers : ReadRegister(r))
           \/ (\E k \in 1..MaxOperands : EvalOperation(k))
           \/ \E n \in Arrays, use \in {"read", "assign", "compound", "prefix", "postfix"} :
                EvalSubscript(n, use)
  BY <1>1, NoStorageWhenSame
     DEF Literal, FailExpr, Raise, ReadRegister, EvalOperation, EvalSubscript, storage
<1>2. ASSUME NEW n \in Scalars, ReadVariable(n)
      PROVE  UsesName
  BY <1>2 DEF ReadVariable, UsesName, Names
<1>3. ASSUME NEW p \in Place, NEW b \in BOOLEAN, EvalAssign(p, b)
      PROVE  NoStorage \/ UsesName
  BY <1>3, NoStorageWhenSame, LoadKinds DEF EvalAssign
<1>4. ASSUME NEW p \in Place, NEW b \in BOOLEAN, EvalUpdate(p, b)
      PROVE  StoresValue
  BY <1>4 DEF EvalUpdate, StoresValue
<1>5. \A p \in {Cell(n, 0) : n \in Scalars} \union {RegisterPlace(r) : r \in Registers} : p \in Place
  BY PlacesTyped
<1> QED
  BY <1>1, <1>2, <1>3, <1>4, <1>5 DEF Evaluate

LEMMA CallKinds ==
  ASSUME TypeOK, Call
  PROVE  NoStorage \/ UsesName \/ Binds
<1>1. CASE (\E f \in Functions : EvalCall(f)) \/ ScalarArg \/ MismatchedArg
  BY <1>1, NoStorageWhenSame DEF EvalCall, ScalarArg, MismatchedArg, Raise, state, storage
<1>2. ASSUME NEW n \in Arrays, ArrayArg(n)
      PROVE  UsesName
  BY <1>2 DEF ArrayArg, UsesName, Names
<1>3. CASE LeaveBody \/ UnwindBody
  BY <1>3, NoStorageWhenSame DEF LeaveBody, UnwindBody, DropGuard, storage
<1>4. CASE BeginCall \/ EndCall \/ BindLocal \/ UnbindLocal
  BY <1>4 DEF Binds, BeginCall, EndCall, BindLocal, UnbindLocal, storage
<1>5. CASE EnterBody
  <2>1. acts \in Seq(Activation) /\ Top \in 1..Len(acts) /\ Top = Len(acts)
    BY CtxFacts DEF TypeOK, Top
  <2>2. PICK s : s = [flag |-> return_flag, value |-> return_value]
    OBVIOUS
  <2>3. acts' = [acts EXCEPT ![Top].saved = s, ![Top].args = <<>>]
    BY <1>5, <2>2 DEF EnterBody
  <2>4. Len(acts') = Len(acts)
    BY <2>1, <2>3
  <2>5. ASSUME NEW i \in 1..Top
        PROVE  acts'[i].bound = acts[i].bound /\ acts'[i].locals = acts[i].locals
    <3>1. acts[i] \in Activation /\ i \in DOMAIN acts
      BY <2>1
    <3> QED
      BY <2>1, <2>3, <3>1 DEF Activation
  <2> QED
    BY <1>5, <2>1, <2>4, <2>5 DEF EnterBody, NoStorage, storage
<1> QED
  BY <1>1, <1>2, <1>3, <1>4, <1>5 DEF Call

LEMMA UseKinds ==
  ASSUME TypeOK, Use
  PROVE  NoStorage \/ UsesName \/ StoresValue
<1>1. CASE UseDiscard \/ UseReturn \/ UseIf \/ UseLoop \/ UseOperand \/ UseArg \/ BadIndex
           \/ \E kind \in {"error", "panic"} : FailOperation(kind)
  BY <1>1, NoStorageWhenSame
     DEF UseDiscard, UseReturn, UseIf, UseLoop, UseOperand, UseArg, BadIndex, FailOperation, Raise, storage
<1>2. CASE UseIndexRead
  <2>1. Inner.name \in Names
    BY <1>2, InnerFacts, InnerFields DEF UseIndexRead, Names
  <2> QED
    BY <1>2, <2>1 DEF UseIndexRead, UsesName
<1>3. CASE UseIndexUpdate
  <2>1. PICK p : p = Cell(Inner.name, val)
    OBVIOUS
  <2>2. Inner.name \in Arrays
    BY <1>3, InnerFacts, InnerFields DEF UseIndexUpdate
  <2>3. p \in Place
    BY <1>3, <2>1, <2>2, PlacesTyped DEF UseIndexUpdate, TypeOK
  <2> QED
    BY <1>3, <2>1, <2>3 DEF UseIndexUpdate, StoresValue
<1>4. CASE UseIndexAssign
  <2>1. PICK p : p = Cell(Inner.name, val)
    OBVIOUS
  <2>2. Inner.name \in Arrays
    BY <1>4, InnerFacts, InnerFields DEF UseIndexAssign
  <2>3. p \in Place
    BY <1>4, <2>1, <2>2, PlacesTyped DEF UseIndexAssign, TypeOK
  <2> QED
    BY <1>4, <2>1, <2>3, NoStorageWhenSame, LoadKinds DEF UseIndexAssign
<1>5. CASE UseRhs
  <2>1. Inner.place \in Place
    BY <1>5, InnerFacts, InnerFields DEF UseRhs
  <2> QED
    BY <1>5, <2>1 DEF UseRhs, StoresValue, TypeOK
<1> QED
  BY <1>1, <1>2, <1>3, <1>4, <1>5 DEF Use

LEMMA StepKinds ==
  ASSUME TypeOK, [Next]_vars
  PROVE  NoStorage \/ UsesName \/ StoresValue \/ Binds
<1>1. CASE UNCHANGED vars
  BY <1>1, NoStorageWhenSame DEF vars, state
<1>2. CASE Next
  BY <1>2, UnitKinds, ExecuteKinds, EvaluateKinds, CallKinds, UseKinds DEF Next
<1> QED
  BY <1>1, <1>2

-----------------------------------------------------------------------------

LEMMA NextBalanced ==
  ASSUME Control, ScopesBalanced, [Next]_vars
  PROVE  ScopesBalanced'
<1>1. TypeOK' /\ Balance /\ ModesOK
  BY NextControl DEF Control, Balance
<1>2. CASE NoStorage
  BY <1>1, <1>2, SameBalanced DEF NoStorage
<1>3. CASE UsesName
  BY <1>1, <1>3, TouchBalanced DEF UsesName
<1>4. CASE StoresValue
  BY <1>1, <1>4, StoreBalanced DEF StoresValue
<1>5. CASE Binds
  BY <1>1, <1>5, BeginBalanced, EndBalanced, BindBalanced, UnbindBalanced DEF Binds
<1> QED
  BY <1>1, <1>2, <1>3, <1>4, <1>5, StepKinds DEF Control

LEMMA InitBalanced ==
  ASSUME Init
  PROVE  ScopesBalanced
<1>1. PICK a : a = [fn |-> Main, locals |-> <<>>, args |-> <<>>, bound |-> 0, saved |-> Unsaved]
  OBVIOUS
<1>2. acts = <<a>> /\ a.bound = 0
  BY <1>1 DEF Init
<1>3. DOMAIN acts = {1} /\ acts[1].bound = 0
  BY <1>2
<1>4. \A n \in Names : owner[n] = <<>> /\ scopes[n] = <<>>
  BY DEF Init
<1> QED
  BY <1>3, <1>4 DEF ScopesBalanced

(* However calls nest, end, fail or redefine functions while they run, the stack of every   *)
(* name holds the global frame and exactly the frames of the live declarations of the name, *)
(* in call order (eval.rs 503-517 and ScopeGuard::drop 115-140).                            *)
THEOREM ScopeStacksBalanced == Spec => []ScopesBalanced
<1>1. Init => Control /\ ScopesBalanced
  BY InitControl, InitBalanced
<1>2. Control /\ ScopesBalanced /\ [Next]_vars => (Control /\ ScopesBalanced)'
  BY NextControl, NextBalanced
<1> QED
  BY <1>1, <1>2, PTL DEF Spec

(* Whatever is assigned to scale, ibase and obase, by = or by a compound operator or ++, the *)
(* register keeps a value of its range (eval.rs store_register, clamp_register).             *)
THEOREM RegistersKeepRange == Spec => []RegistersInRange
<1>1. Init => Control /\ RegistersInRange
  BY InitControl, ConstantsOK DEF Init, RegistersInRange
<1>2. ASSUME Control, RegistersInRange, [Next]_vars
      PROVE  RegistersInRange'
  <2>1. CASE UNCHANGED registers
    BY <1>2, <2>1 DEF RegistersInRange
  <2>2. ASSUME NEW p \in Place, NEW v \in Values, Store(p, v)
        PROVE  RegistersInRange'
    <3>1. CASE p.kind = "cell"
      BY <2>1, <2>2, <3>1 DEF Store
    <3>2. CASE p.kind = "register"
      <4>1. p.reg \in Registers /\ registers' = [registers EXCEPT ![p.reg] = Clamped(p.reg, v)]
        BY <2>2, <3>2, PlaceFacts DEF Store
      <4>2. Clamped(p.reg, v) \in RegMin[p.reg]..RegMax[p.reg]
        BY <4>1, ClampedInRange
      <4> QED
        BY <1>2, <4>1, <4>2 DEF RegistersInRange, Control, TypeOK
    <3> QED
      BY <3>1, <3>2, PlaceFacts
  <2> QED
    BY <1>2, <2>1, <2>2, StepKinds DEF Control, NoStorage, UsesName, StoresValue, Binds
<1>3. Control /\ RegistersInRange /\ [Next]_vars => (Control /\ RegistersInRange)'
  BY <1>2, NextControl
<1> QED
  BY <1>1, <1>3, PTL DEF Spec
=============================================================================
