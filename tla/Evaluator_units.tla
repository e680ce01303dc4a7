--------------------------- MODULE Evaluator_units ---------------------------
(***************************************************************************)
(* Proofs about Evaluator: jumps, errors, diagnostics and pending          *)
(* assignments stay where they belong, a unit leaves nothing behind, and   *)
(* the scope stacks implement DynamicScope.                                *)
(***************************************************************************)
EXTENDS Evaluator_proofs

(* What a step can do to the control state.  Most steps stay inside the running activation: *)
(* they change its pending constructs, and its return state only in a function.             *)

Running == {"stmt", "expr", "arg", "value"}

(* A construct that may become pending now. *)
Begins(c) ==
  /\ c.kind = "return" => Top > 1
  /\ c.kind = "rhs" => c.place \in Place /\ c.frame = PlaceFrame(c.place)

CtxStep ==
  /\ Len(ctx') = Top
  /\ \A i \in 1..Top : \A k \in 1..Len(ctx'[i]) :
       \/ k \in 1..Len(ctx[i]) /\ ctx'[i][k] = ctx[i][k]
       \/ i = Top /\ Begins(ctx'[i][k])

Inside ==
  /\ mode \in Running /\ mode' \in Running
  /\ UNCHANGED <<acts, call_stack, failure>>
  /\ UNCHANGED <<return_flag, return_value>> \/ Top > 1
  /\ CtxStep
Fails == mode \in Running /\ \E kind \in {"error", "panic"} : Raise(kind)
Units == StartUnit \/ EndUnit \/ FailUnit \/ \E f \in Functions, h \in Headers : Define(f, h)
Enters == BeginCall \/ BindLocal \/ EnterBody
Leaves == LeaveBody \/ UnwindBody \/ UnbindLocal \/ EndCall

LEMMA StepPush ==
  ASSUME TypeOK, NEW c \in Context, Begins(c), Push(c)
  PROVE  CtxStep
BY PushCtx, CtxFacts DEF CtxStep

LEMMA StepReplace ==
  ASSUME TypeOK, Here # <<>>, NEW c \in Context, Begins(c), Replace(c)
  PROVE  CtxStep
BY ReplaceCtx, CtxFacts DEF CtxStep

LEMMA StepPop ==
  ASSUME TypeOK, Here # <<>>, PopInner
  PROVE  CtxStep
BY PopCtx, CtxFacts DEF CtxStep

LEMMA StepSame ==
  ASSUME TypeOK, UNCHANGED ctx
  PROVE  CtxStep
BY CtxFacts DEF CtxStep

LEMMA RhsBegins ==
  ASSUME TypeOK, NEW p \in Place, NEW b \in BOOLEAN
  PROVE  RhsOf(p, b) \in Context /\ Begins(RhsOf(p, b))
<1>1. RhsOf(p, b) \in Context /\ RhsOf(p, b).kind = "rhs"
  BY RhsTyped
<1>2. RhsOf(p, b).place = p /\ RhsOf(p, b).frame = PlaceFrame(p)
  BY DEF RhsOf
<1> QED
  BY <1>1, <1>2 DEF Begins

LEMMA ExecuteInside ==
  ASSUME TypeOK, Execute
  PROVE  Inside
<1>1. ASSUME NEW c \in Context, Begins(c), Push(c), mode = "stmt", mode' \in Running,
             UNCHANGED <<acts, storage, functions, jumps, call_stack, val, failure>>
      PROVE  Inside
  BY <1>1, StepPush DEF Inside, Running, jumps
<1>2. ASSUME NEW k \in {"discard", "return", "if", "block"}, Push([kind |-> k]), StartStatement,
             k = "return" => Top > 1, mode' \in Running,
             UNCHANGED <<acts, storage, functions, jumps, call_stack, val, failure>>
      PROVE  Inside
  <2>1. PICK c : c = [kind |-> k]
    OBVIOUS
  <2>2. c \in Context /\ c.kind = k /\ Push(c)
    BY <1>2, <2>1, ContextForms
  <2> QED
    BY <1>1, <1>2, <2>2 DEF Begins, StartStatement
<1>3. CASE ExecExpr \/ ExecBlock \/ ExecReturnExpr \/ ExecIf
  BY <1>2, <1>3 DEF ExecExpr, ExecBlock, ExecReturnExpr, ExecIf, StartStatement, Running
<1>4. CASE ExecBreak \/ ExecReturn
  BY <1>4, StepSame DEF ExecBreak, ExecReturn, StartStatement, Inside, Running
<1>5. CASE EndBlock
  BY <1>5, StepPop DEF EndBlock, InInner, Inside, Running, jumps
<1>6. ASSUME NEW isFor \in BOOLEAN, ExecLoop(isFor)
      PROVE  Inside
  <2>1. PICK p, c : /\ p = IF isFor THEN "init" ELSE "cond"
                    /\ c = [kind |-> "loop", post |-> isFor, phase |-> p]
    OBVIOUS
  <2>2. c \in Context /\ Begins(c)
    BY <2>1, ContextForms DEF Begins
  <2> QED
    BY <1>1, <1>6, <2>1, <2>2 DEF ExecLoop, StartStatement, Running
<1>7. CASE EndLoopBody
  <2>1. Here # <<>> /\ Inner \in Context /\ Inner.kind = "loop"
    BY <1>7, InnerFacts DEF EndLoopBody
  <2>2. PICK p, c : p = (IF Inner.post THEN "post" ELSE "cond") /\ c = [Inner EXCEPT !.phase = p]
    OBVIOUS
  <2>3. c \in Context /\ Begins(c)
    BY <2>1, <2>2, NextPhase DEF Begins
  <2>4. CtxStep
    BY <1>7, <2>1, <2>2, <2>3, StepPop, StepReplace DEF EndLoopBody
  <2> QED
    BY <1>7, <2>4 DEF EndLoopBody, Inside, Running
<1> QED
  BY <1>3, <1>4, <1>5, <1>6, <1>7, ConstantsOK DEF Execute

LEMMA EvaluateInside ==
  ASSUME TypeOK, Evaluate
  PROVE  Inside \/ Fails
<1>1. CASE Literal \/ \E r \in Registers : ReadRegister(r)
  BY <1>1, StepSame DEF Literal, ReadRegister, Yield, Inside, Running, jumps
<1>2. CASE FailExpr
  BY <1>2 DEF FailExpr, Fails, Running
<1>3. ASSUME NEW n \in Scalars, ReadVariable(n)
      PROVE  Inside
  BY <1>3, StepSame DEF ReadVariable, Yield, Inside, Running, jumps
<1>4. ASSUME NEW c \in Context, Begins(c), Push(c), mode = "expr", UNCHANGED mode,
             UNCHANGED <<acts, jumps, call_stack, failure>>
      PROVE  Inside
  BY <1>4, StepPush DEF Inside, Running, jumps
<1>5. ASSUME NEW k \in 1..MaxOperands, EvalOperation(k)
      PROVE  Inside
  <2>1. PICK c : c = [kind |-> "operand", more |-> k - 1]
    OBVIOUS
  <2>2. k - 1 \in {0, 1}
    BY ConstantsOK
  <2>3. c \in Context /\ Begins(c)
    BY <2>1, <2>2, ContextForms DEF Begins
  <2> QED
    BY <1>4, <1>5, <2>1, <2>3 DEF EvalOperation
<1>6. ASSUME NEW n \in Arrays, NEW use \in {"read", "assign", "compound", "prefix", "postfix"},
             EvalSubscript(n, use)
      PROVE  Inside
  <2>1. PICK c : c = [kind |-> "index", name |-> n, use |-> use]
    OBVIOUS
  <2>2. c \in Context /\ Begins(c)
    BY <2>1, ContextForms DEF Begins
  <2> QED
    BY <1>4, <1>6, <2>1, <2>2 DEF EvalSubscript
<1>7. ASSUME NEW p \in Place, NEW b \in BOOLEAN, EvalAssign(p, b)
      PROVE  Inside
  BY <1>4, <1>7, RhsBegins DEF EvalAssign
<1>8. ASSUME NEW p \in Place, NEW b \in BOOLEAN, EvalUpdate(p, b)
      PROVE  Inside
  BY <1>8, StepSame DEF EvalUpdate, Yield, Inside, Running, jumps
<1>9. \A p \in {Cell(n, 0) : n \in Scalars} \union {RegisterPlace(r) : r \in Registers} : p \in Place
  BY PlacesTyped
<1> QED
  BY <1>1, <1>2, <1>3, <1>5, <1>6, <1>7, <1>8, <1>9 DEF Evaluate

(* An argument is added to the call being prepared. *)
LEMMA AddArgStep ==
  ASSUME TypeOK, InInner({"args"}), NEW a \in AnyFrame, AddArg(a)
  PROVE  CtxStep
<1>1. Here # <<>> /\ Inner \in Context /\ Inner.kind = "args"
  BY InnerFacts
<1>2. PICK c : c = [Inner EXCEPT !.done = Append(@, a)]
  OBVIOUS
<1>3. c \in Context /\ c.kind = "args" /\ Replace(c)
  BY <1>1, <1>2, NextArg DEF AddArg
<1> QED
  BY <1>1, <1>3, StepReplace DEF Begins

LEMMA CallInside ==
  ASSUME Control, Call
  PROVE  Inside \/ Fails \/ Enters \/ Leaves
<1>1. ASSUME NEW f \in Functions, EvalCall(f)
      PROVE  Inside
  <2>1. PICK c : c = [kind |-> "args", fn |-> f, header |-> functions[f], done |-> <<>>]
    OBVIOUS
  <2>2. functions[f] \in Headers /\ <<>> \in Seq(AnyFrame)
    BY <1>1 DEF EvalCall, Control, TypeOK
  <2>3. c \in Context /\ Begins(c)
    BY <2>1, <2>2, ContextForms DEF Begins
  <2> QED
    BY <1>1, <2>1, <2>3, StepPush DEF EvalCall, Inside, Running, jumps, Control
<1>2. CASE ScalarArg
  BY <1>2, StepSame DEF ScalarArg, state, Inside, Running, Control
<1>3. CASE MismatchedArg
  BY <1>3 DEF MismatchedArg, Fails, Running
<1>4. ASSUME NEW n \in Arrays, ArrayArg(n)
      PROVE  Inside
  <2>1. n \in Names /\ TopFrame(n) \in AnyFrame
    BY StackTyped DEF Names, AnyFrame, Control
  <2>2. InInner({"args"})
    BY <1>4 DEF ArrayArg, Control, ModesOK
  <2>3. CtxStep
    BY <1>4, <2>1, <2>2, AddArgStep DEF ArrayArg, Control
  <2> QED
    BY <1>4, <2>3 DEF ArrayArg, Inside, Running, jumps
<1> QED
  BY <1>1, <1>2, <1>3, <1>4 DEF Call, Enters, Leaves

LEMMA UseInside ==
  ASSUME Control, ReturnsOK, Use
  PROVE  Inside \/ Fails
<1> USE DEF Control
<1>1. CASE UseDiscard \/ UseReturn
  <2>1. Here # <<>> /\ PopInner
    BY <1>1 DEF UseDiscard, UseReturn, InInner
  <2>2. CASE UseDiscard
    BY <2>1, <2>2, StepPop DEF UseDiscard, Consume, Inside, Running, jumps
  <2>3. CASE UseReturn
    <3>1. InInner({"return"})
      BY <2>3 DEF UseReturn
    <3>2. Len(Here) \in DOMAIN ctx[Top] /\ ctx[Top][Len(Here)].kind = "return"
      BY <3>1, InnerFacts, CtxFacts DEF Here
    <3>3. Top > 1
      BY <3>2, CtxFacts DEF ReturnsOK
    <3> QED
      BY <2>1, <2>3, <3>3, StepPop DEF UseReturn, Consume, Inside, Running
  <2> QED
    BY <1>1, <2>2, <2>3
<1>2. CASE UseIf
  <2>1. PICK c : c = [kind |-> "block"]
    OBVIOUS
  <2>2. c \in Context /\ Begins(c)
    BY <2>1, ContextForms DEF Begins
  <2>3. CtxStep
    BY <1>2, <2>1, <2>2, StepPop, StepReplace DEF UseIf, InInner
  <2> QED
    BY <1>2, <2>3 DEF UseIf, Consume, Inside, Running, jumps
<1>3. CASE UseLoop
  <2>1. Here # <<>> /\ Inner \in Context /\ Inner.kind = "loop"
    BY <1>3, InnerFacts DEF UseLoop
  <2>2. ASSUME NEW p \in {"cond", "body"}, Replace([Inner EXCEPT !.phase = p])
        PROVE  CtxStep
    <3>1. PICK c : c = [Inner EXCEPT !.phase = p]
      OBVIOUS
    <3>2. c \in Context /\ Begins(c)
      BY <2>1, <3>1, NextPhase DEF Begins
    <3> QED
      BY <2>1, <2>2, <3>1, <3>2, StepReplace
  <2>3. CtxStep
    BY <1>3, <2>1, <2>2, StepPop DEF UseLoop
  <2> QED
    BY <1>3, <2>3 DEF UseLoop, Consume, Inside, Running, jumps
<1>4. CASE UseOperand
  <2>1. Here # <<>> /\ Inner \in Context /\ Inner.kind = "operand" /\ Inner.more \in {0, 1}
    BY <1>4, InnerFacts, InnerFields DEF UseOperand
  <2>2. PICK c : c = [Inner EXCEPT !.more = Inner.more - 1]
    OBVIOUS
  <2>3. Inner.more > 0 => c \in Context /\ Begins(c)
    <3>1. Inner.more > 0 => Inner.more - 1 \in {0, 1}
      BY <2>1
    <3> QED
      BY <2>1, <2>2, <3>1, NextOperand DEF Begins
  <2>4. CtxStep
    BY <1>4, <2>1, <2>2, <2>3, StepPop, StepReplace DEF UseOperand
  <2> QED
    BY <1>4, <2>4 DEF UseOperand, Yield, Inside, Running, jumps
<1>5. CASE UseArg
  <2>1. PICK a : a = [c \in {0} |-> val]
    OBVIOUS
  <2>2. InInner({"args"}) /\ a \in AnyFrame /\ AddArg(a)
    BY <1>5, <2>1, ScalarEvaluated DEF AnyFrame
  <2>3. CtxStep
    BY <2>2, AddArgStep DEF Control
  <2> QED
    BY <1>5, <2>3 DEF UseArg, Consume, Inside, Running, jumps
<1>6. CASE UseIndexRead \/ UseIndexUpdate \/ UseRhs
  <2>1. CtxStep
    BY <1>6, StepPop DEF UseIndexRead, UseIndexUpdate, UseRhs, InInner
  <2> QED
    BY <1>6, <2>1 DEF UseIndexRead, UseIndexUpdate, UseRhs, Yield, Inside, Running, jumps
<1>7. CASE UseIndexAssign
  <2>1. PICK p, b : p = Cell(Inner.name, val) /\ b = (Inner.use = "compound")
    OBVIOUS
  <2>2. Inner.name \in Arrays /\ Here # <<>>
    BY <1>7, InnerFacts, InnerFields DEF UseIndexAssign
  <2>3. p \in Place /\ b \in BOOLEAN
    BY <1>7, <2>1, <2>2, PlacesTyped DEF UseIndexAssign, TypeOK
  <2>4. Replace(RhsOf(p, b))
    BY <1>7, <2>1 DEF UseIndexAssign
  <2>5. CtxStep
    BY <2>2, <2>3, <2>4, RhsBegins, StepReplace
  <2> QED
    BY <1>7, <2>5 DEF UseIndexAssign, Consume, Inside, Running, jumps
<1>8. CASE BadIndex \/ \E kind \in {"error", "panic"} : FailOperation(kind)
  BY <1>8 DEF BadIndex, FailOperation, Fails, Running
<1> QED
  BY <1>1, <1>2, <1>3, <1>4, <1>5, <1>6, <1>7, <1>8 DEF Use

LEMMA Steps ==
  ASSUME Control, ReturnsOK, Next
  PROVE  Inside \/ Fails \/ Units \/ Enters \/ Leaves
BY ExecuteInside, EvaluateInside, CallInside, UseInside DEF Next, Units, Control
-----------------------------------------------------------------------------
(* What the steps of a call do to the activations *)

LEMMA BeginActs ==
  ASSUME Control, BeginCall
  PROVE  /\ Top' = Top + 1 /\ Visible = Top /\ Visible' = Top
         /\ \A i \in 1..Top : acts'[i] = acts[i]
         /\ acts'[Top + 1].saved = Unsaved /\ acts'[Top + 1].bound = 0
         /\ ctx'[Top + 1] = <<>>
         /\ \A i \in 1..Top : \A k \in DOMAIN ctx'[i] :
              \/ k \in DOMAIN ctx[i] /\ ctx'[i][k] = ctx[i][k]
              \/ ctx'[i][k].kind = "call"
<1> USE DEF Control
<1>1. acts \in Seq(Activation) /\ Top = Len(acts) /\ Top \in Nat \ {0} /\ Here # <<>>
  BY CtxFacts DEF TypeOK, Top, BeginCall, ModesOK, InInner
<1>2. PICK a : acts' = Append(acts, a) /\ a.saved = Unsaved /\ a.bound = 0
  <2>1. PICK a : a = [fn |-> Inner.fn, locals |-> Inner.header.params \o Inner.header.autos,
                      args |-> Inner.done, bound |-> 0, saved |-> Unsaved]
    OBVIOUS
  <2>2. a.saved = Unsaved /\ a.bound = 0
    BY <2>1
  <2> QED
    BY <2>1, <2>2 DEF BeginCall
<1>3. Len(acts') = Top + 1 /\ acts'[Top + 1] = a /\ \A i \in 1..Top : acts'[i] = acts[i]
  BY <1>1, <1>2
<1>4. Top' = Top + 1 /\ Visible = Top /\ Visible' = Top
  BY <1>1, <1>3 DEF BeginCall, Visible, Top
<1>5. /\ DOMAIN ctx' = 1..(Top + 1) /\ ctx'[Top + 1] = <<>>
      /\ \A i \in DOMAIN ctx' : \A k \in DOMAIN ctx'[i] :
           ctx'[i][k].kind # "call" => k \in DOMAIN ctx[i] /\ ctx'[i][k] = ctx[i][k]
  BY <1>1, BeginCtx DEF BeginCall
<1> QED
  BY <1>1, <1>2, <1>3, <1>4, <1>5

LEMMA BoundActs ==
  ASSUME Control, BindLocal \/ UnbindLocal
  PROVE  /\ Top' = Top /\ Visible = Top - 1 /\ Visible' = Top - 1 /\ Top > 1
         /\ \A i \in 1..Top : acts'[i].fn = acts[i].fn /\ acts'[i].saved = acts[i].saved
         /\ acts'[1] = acts[1] /\ UNCHANGED ctx
         /\ \A i \in 1..(Top - 1) : acts'[i] = acts[i]
         /\ acts'[Top].locals = acts[Top].locals
         /\ acts[Top].bound <= Len(acts[Top].locals) => acts'[Top].bound <= Len(acts[Top].locals)
<1> USE DEF Control
<1>1. PICK b : /\ acts' = [acts EXCEPT ![Top].bound = b]
               /\ acts[Top].bound <= Len(acts[Top].locals) => b <= Len(acts[Top].locals)
  <2> DEFINE len == Len(acts[Top].locals)
  <2>0. acts[Top].bound \in Nat /\ len \in Nat
    BY ActFacts DEF TypeOK, Act
  <2>1. CASE BindLocal
    <3>1. acts' = [acts EXCEPT ![Top].bound = Act.bound + 1] /\ Act.bound < len
      BY <2>1 DEF BindLocal, Act
    <3>2. Act.bound + 1 <= len
      BY <2>0, <3>1 DEF Act
    <3> QED
      BY <3>1, <3>2
  <2>2. CASE UnbindLocal
    <3>1. acts' = [acts EXCEPT ![Top].bound = Act.bound - 1]
      BY <2>2 DEF UnbindLocal, Act
    <3>2. acts[Top].bound <= len => Act.bound - 1 <= len
      BY <2>0 DEF Act
    <3> QED
      BY <3>1, <3>2
  <2> QED
    BY <2>1, <2>2
<1>2. acts \in Seq(Activation) /\ Top = Len(acts) /\ Top \in Nat \ {0}
  BY CtxFacts DEF TypeOK, Top
<1>3. Top > 1 /\ mode \in {"bind", "unbind"} /\ UNCHANGED <<mode, ctx>>
  BY DEF BindLocal, UnbindLocal, ModesOK
<1>4. Len(acts') = Top /\ \A i \in 1..Top : i # Top => acts'[i] = acts[i]
  BY <1>1, <1>2
<1>5. acts[Top] \in Activation /\ acts'[Top] = [acts[Top] EXCEPT !.bound = b]
  BY <1>1, <1>2
<1>6. /\ acts'[Top].fn = acts[Top].fn /\ acts'[Top].saved = acts[Top].saved
      /\ acts'[Top].locals = acts[Top].locals /\ acts'[Top].bound = b
  BY <1>5 DEF Activation
<1>7. Top' = Top /\ Visible = Top - 1 /\ Visible' = Top - 1
  BY <1>2, <1>3, <1>4 DEF Visible, Top
<1> QED
  BY <1>1, <1>2, <1>3, <1>4, <1>6, <1>7

LEMMA EnterActs ==
  ASSUME Control, EnterBody
  PROVE  /\ Top' = Top /\ Visible = Top - 1 /\ Visible' = Top /\ Top > 1
         /\ \A i \in 1..(Top - 1) : acts'[i] = acts[i]
         /\ acts'[Top].fn = acts[Top].fn
         /\ acts'[Top].locals = acts[Top].locals /\ acts'[Top].bound = acts[Top].bound
         /\ acts'[Top].saved = [flag |-> return_flag, value |-> return_value]
<1> USE DEF Control
<1>1. PICK s : s = [flag |-> return_flag, value |-> return_value]
  OBVIOUS
<1>2. acts' = [acts EXCEPT ![Top].saved = s, ![Top].args = <<>>]
  BY <1>1 DEF EnterBody
<1>3. acts \in Seq(Activation) /\ Top = Len(acts) /\ Top \in Nat \ {0}
  BY CtxFacts DEF TypeOK, Top
<1>4. Top > 1 /\ mode = "bind" /\ mode' = "stmt"
  BY DEF EnterBody, ModesOK
<1>5. Len(acts') = Top /\ \A i \in 1..(Top - 1) : acts'[i] = acts[i]
  BY <1>2, <1>3
<1>6. acts[Top] \in Activation
  BY <1>3
<1>7. /\ acts'[Top].fn = acts[Top].fn /\ acts'[Top].saved = s
      /\ acts'[Top].locals = acts[Top].locals /\ acts'[Top].bound = acts[Top].bound
  BY <1>2, <1>3, <1>6 DEF Activation
<1>8. Top' = Top /\ Visible = Top - 1 /\ Visible' = Top
  BY <1>3, <1>4, <1>5 DEF Visible, Top
<1> QED
  BY <1>1, <1>4, <1>5, <1>7, <1>8

LEMMA LeaveActs ==
  ASSUME Control, LeaveBody \/ UnwindBody
  PROVE  Top' = Top /\ Visible = Top /\ Visible' = Top - 1 /\ Top > 1 /\ UNCHANGED <<acts, ctx>>
         /\ mode' = "unbind" /\ DropGuard
BY CtxFacts DEF Control, LeaveBody, UnwindBody, DropGuard, Visible, Top

LEMMA EndActs ==
  ASSUME Control, EndCall
  PROVE  /\ Top' = Top - 1 /\ Visible = Top - 1 /\ Visible' = Top - 1 /\ Top > 1
         /\ \A i \in 1..(Top - 1) : acts'[i] = acts[i]
         /\ \A i \in 1..(Top - 1) : \A k \in DOMAIN ctx'[i] :
              k \in DOMAIN ctx[i] /\ ctx'[i][k] = ctx[i][k]
<1> USE DEF Control
<1>1. acts \in Seq(Activation) /\ Top = Len(acts) /\ Top \in Nat \ {0} /\ Top > 1
  BY CtxFacts DEF TypeOK, Top, EndCall, ModesOK
<1>2. acts' = Front(acts)
  BY DEF EndCall
<1>3. Len(acts') = Top - 1 /\ \A i \in 1..(Top - 1) : acts'[i] = acts[i]
  BY <1>1, <1>2, FrontProps
<1>4. Top' = Top - 1 /\ Visible = Top - 1 /\ Visible' = Top - 1
  BY <1>1, <1>3 DEF EndCall, Visible, Top
<1>5. \A i \in 1..(Top - 1) :
        /\ ctx[i] \in Seq(Context) /\ ctx'[i] \in Seq(Context)
        /\ \A k \in 1..Len(ctx'[i]) : k \in 1..Len(ctx[i]) /\ ctx'[i][k] = ctx[i][k]
  BY <1>1, EndCtx DEF EndCall
<1>6. ASSUME NEW i \in 1..(Top - 1), NEW k \in DOMAIN ctx'[i]
      PROVE  k \in DOMAIN ctx[i] /\ ctx'[i][k] = ctx[i][k]
  <2>1. DOMAIN ctx[i] = 1..Len(ctx[i]) /\ DOMAIN ctx'[i] = 1..Len(ctx'[i])
    BY <1>5
  <2> QED
    BY <1>5, <2>1
<1> QED
  BY <1>1, <1>3, <1>4, <1>6

(* Steps that are not part of a call keep the activations. *)
LEMMA SameActs ==
  ASSUME Control, Inside \/ Fails \/ Units
  PROVE  /\ UNCHANGED <<acts, call_stack>> /\ Top' = Top /\ Visible = Top /\ Visible' = Top
         /\ Act' = Act
<1>1. CASE Inside
  BY <1>1 DEF Inside, Running, Visible, Top, Act
<1>2. CASE Fails
  BY <1>2 DEF Fails, Raise, Running, Visible, Top, Act
<1>3. CASE Units
  BY <1>3 DEF Units, StartUnit, EndUnit, FailUnit, Define, state, Visible, Top, Act
<1> QED
  BY <1>1, <1>2, <1>3

-----------------------------------------------------------------------------
(* The parts of the invariant *)

LEMMA NextUnits ==
  ASSUME Control, ReturnsOK, UnitsOK, Next
  PROVE  UnitsOK'
<1>1. CASE Inside \/ Fails
  BY <1>1, SameActs DEF UnitsOK, Inside, Fails, Raise, Running
<1>2. CASE Units
  BY <1>2, SameActs DEF UnitsOK, Units, StartUnit, EndUnit, FailUnit, Define, state, Here, Top
<1>3. CASE BeginCall
  <2>1. mode' = "bind" /\ Here' = <<>> /\ acts'[1] = acts[1]
    BY <1>3, BeginActs, CtxFacts DEF BeginCall, Here, Control
  <2> QED
    BY <2>1 DEF UnitsOK
<1>4. CASE BindLocal \/ UnbindLocal
  BY <1>4, BoundActs DEF UnitsOK, BindLocal, UnbindLocal, Here
<1>5. CASE EnterBody
  <2>1. 1 \in 1..(Top - 1)
    BY <1>5, EnterActs, CtxFacts DEF Control
  <2>2. mode' = "stmt" /\ acts'[1] = acts[1]
    BY <1>5, <2>1, EnterActs DEF EnterBody
  <2> QED
    BY <2>2 DEF UnitsOK
<1>6. CASE LeaveBody \/ UnwindBody
  BY <1>6, LeaveActs DEF UnitsOK
<1>7. CASE EndCall
  <2>1. mode' \in {"value", "unwind"} /\ acts'[1] = acts[1]
    BY <1>7, EndActs, CtxFacts DEF EndCall, Control
  <2> QED
    BY <2>1 DEF UnitsOK
<1> QED
  BY <1>1, <1>2, <1>3, <1>4, <1>5, <1>6, <1>7, Steps DEF Enters, Leaves

(* What it takes for a sequence to list the functions of activations 2 to n + 1. *)
LEMMA Listed ==
  ASSUME NEW S, NEW s \in Seq(S), NEW n \in Nat, NEW A
  PROVE  s = [i \in 1..n |-> A[i + 1].fn] <=>
           Len(s) = n /\ \A i \in 1..n : s[i] = A[i + 1].fn
OBVIOUS

LEMMA NextCallStack ==
  ASSUME Control, ReturnsOK, CallStackMatches, Next
  PROVE  CallStackMatches'
<1>1. Control' /\ call_stack \in Seq(Functions) /\ call_stack' \in Seq(Functions)
  BY NextControl DEF Control, TypeOK
<1>2. CASE Inside \/ Fails \/ Units
  BY <1>2, SameActs DEF CallStackMatches
<1>3. Top \in Nat \ {0}
  BY CtxFacts DEF Control
<1>4. Visible \in Nat \ {0}
  BY <1>3 DEF Visible, Control, ModesOK
<1>5. Len(call_stack) = Visible - 1 /\ \A i \in 1..(Visible - 1) : call_stack[i] = acts[i + 1].fn
  BY <1>1, <1>4, Listed DEF CallStackMatches
<1>6. ASSUME UNCHANGED call_stack, Visible' = Visible,
             \A i \in 1..Visible : acts'[i].fn = acts[i].fn
      PROVE  CallStackMatches'
  <2>1. \A i \in 1..(Visible - 1) : i + 1 \in 1..Visible
    BY <1>4
  <2>2. Len(call_stack') = Visible' - 1 /\ \A i \in 1..(Visible' - 1) : call_stack'[i] = acts'[i + 1].fn
    BY <1>5, <1>6, <2>1
  <2> QED
    BY <1>1, <1>4, <1>6, <2>2, Listed DEF CallStackMatches
<1>7. CASE BeginCall
  BY <1>3, <1>6, <1>7, BeginActs DEF BeginCall
<1>8. CASE BindLocal \/ UnbindLocal
  BY <1>3, <1>6, <1>8, BoundActs DEF BindLocal, UnbindLocal
<1>9. CASE EndCall
  BY <1>3, <1>6, <1>9, EndActs DEF EndCall
<1>10. CASE EnterBody
  <2>1. Visible' = Top /\ Visible = Top - 1 /\ acts'[Top].fn = acts[Top].fn /\ Top > 1
        /\ \A i \in 1..(Top - 1) : acts'[i] = acts[i]
    BY <1>10, EnterActs
  <2>2. call_stack' = Append(call_stack, Act.fn) /\ Act.fn = acts[Top].fn /\ Act.fn \in Functions
    BY <1>10, <2>1, CtxFacts DEF EnterBody, Act, Control, ActivationsOK
  <2>3. /\ Len(call_stack') = Top - 1 /\ call_stack'[Top - 1] = acts[Top].fn
        /\ \A i \in 1..(Top - 2) : call_stack'[i] = call_stack[i]
    BY <1>1, <1>3, <1>5, <2>1, <2>2, AppendProperties
  <2>4. ASSUME NEW i \in 1..(Top - 1)
        PROVE  call_stack'[i] = acts'[i + 1].fn
    <3>1. CASE i = Top - 1
      BY <1>3, <2>1, <2>3, <3>1
    <3>2. CASE i # Top - 1
      <4>1. i \in 1..(Top - 2) /\ i + 1 \in 1..(Top - 1) /\ i \in 1..(Visible - 1)
        BY <1>3, <2>1, <3>2
      <4> QED
        BY <1>5, <2>1, <2>3, <4>1
    <3> QED
      BY <3>1, <3>2
  <2> QED
    <3>1. PICK n, t, A : n = Visible' - 1 /\ t = call_stack' /\ A = acts'
      OBVIOUS
    <3>2. n = Top - 1 /\ n \in Nat
      BY <1>3, <2>1, <3>1
    <3>3. t \in Seq(Functions) /\ Len(t) = n
      BY <1>1, <2>3, <3>1, <3>2
    <3>4. \A i \in 1..n : t[i] = A[i + 1].fn
      BY <2>4, <3>1, <3>2
    <3>5. t = [i \in 1..n |-> A[i + 1].fn]
      BY <3>2, <3>3, <3>4, Listed
    <3> QED
      BY <3>1, <3>5 DEF CallStackMatches
<1>11. CASE LeaveBody \/ UnwindBody
  <2>1. Visible' = Top - 1 /\ Visible = Top /\ Top > 1 /\ acts' = acts
        /\ call_stack' = Front(call_stack)
    BY <1>11, LeaveActs DEF DropGuard
  <2>2. call_stack # <<>>
    BY <1>1, <1>3, <1>5, <2>1
  <2>3. Len(call_stack') = Top - 2 /\ \A i \in 1..(Top - 2) : call_stack'[i] = call_stack[i]
    <3>1. PICK s, t : s = call_stack /\ t = Front(s)
      OBVIOUS
    <3>2. Len(t) = Len(s) - 1 /\ \A i \in 1..(Len(s) - 1) : t[i] = s[i]
      BY <1>1, <2>2, <3>1, FrontProps
    <3>3. Len(s) - 1 = Top - 2 /\ call_stack' = t
      BY <1>3, <1>5, <2>1, <3>1
    <3> QED
      BY <3>1, <3>2, <3>3
  <2>4. Visible' - 1 \in Nat /\ Visible' - 1 = Top - 2
    BY <1>3, <2>1
  <2>5. \A i \in 1..(Top - 2) : i \in 1..(Visible - 1) /\ call_stack'[i] = acts'[i + 1].fn
    BY <1>3, <1>5, <2>1, <2>3
  <2> QED
    BY <1>1, <2>3, <2>4, <2>5, Listed DEF CallStackMatches
<1> QED
  BY <1>2, <1>7, <1>8, <1>9, <1>10, <1>11, Steps DEF Enters, Leaves

LEMMA NextFailure ==
  ASSUME Control, ReturnsOK, FailureOK, Next
  PROVE  FailureOK'
<1>1. CASE Inside \/ Enters \/ LeaveBody
  <2>1. failure.kind = "none" /\ UNCHANGED failure
    BY <1>1 DEF Inside, Running, Enters, BeginCall, BindLocal, EnterBody, LeaveBody, Control, ModesOK
  <2> QED
    BY <2>1 DEF FailureOK
<1>2. CASE Fails
  <2>1. PICK kind \in {"error", "panic"} : Raise(kind)
    BY <1>2 DEF Fails
  <2>2. failure'.kind = kind /\ failure'.func = Main /\ failure'.origin = Act.fn /\ mode' = "unwind"
    BY <2>1 DEF Raise
  <2>3. Act' = Act
    BY <1>2, SameActs
  <2> QED
    BY <2>2, <2>3 DEF FailureOK
<1>3. CASE Units
  <2>1. (failure.kind = "none" /\ UNCHANGED failure) \/ failure' = NoFailure
    BY <1>3 DEF Units, StartUnit, EndUnit, FailUnit, Define, state, Control, ModesOK
  <2> QED
    BY <2>1 DEF FailureOK, NoFailure
<1>4. CASE UnwindBody
  <2>1. Act' = Act /\ Act.fn # Main /\ mode' = "unbind"
    BY <1>4, LeaveActs, CtxFacts, ConstantsOK DEF Act, Control, ActivationsOK
  <2>2. failure \in [kind : {"none", "error", "panic"}, func : Functions \union {Main},
                     origin : Functions \union {Main}]
    BY DEF Control, TypeOK
  <2>3. CASE failure.kind = "error" /\ failure.func = Main
    <3>1. failure' = [failure EXCEPT !.func = Act.fn]
      BY <1>4, <2>3 DEF UnwindBody
    <3>2. failure'.kind = "error" /\ failure'.func = Act.fn /\ failure'.origin = failure.origin
      BY <2>2, <2>3, <3>1
    <3> QED
      BY <2>1, <2>3, <3>2 DEF FailureOK
  <2>4. CASE ~(failure.kind = "error" /\ failure.func = Main)
    <3>1. UNCHANGED failure
      BY <1>4, <2>4 DEF UnwindBody
    <3> QED
      BY <2>1, <2>4, <3>1 DEF FailureOK
  <2> QED
    BY <2>3, <2>4
<1>5. CASE UnbindLocal \/ EndCall
  BY <1>5 DEF UnbindLocal, EndCall, FailureOK
<1> QED
  BY <1>1, <1>2, <1>3, <1>4, <1>5, Steps DEF Leaves

LEMMA NextReturns ==
  ASSUME Control, ReturnsOK, Next
  PROVE  ReturnsOK'
<1>1. Control' /\ Top \in Nat \ {0} /\ 1 \in 1..Top
  BY NextControl, CtxFacts DEF Control
<1>2. CASE Inside
  <2>1. ASSUME NEW k \in DOMAIN ctx'[1]
        PROVE  ctx'[1][k].kind # "return"
    <3>1. DOMAIN ctx'[1] = 1..Len(ctx'[1]) /\ DOMAIN ctx[1] = 1..Len(ctx[1])
      <4>1. ctx[1] \in Seq(Context) /\ ctx'[1] \in Seq(Context)
        BY <1>1, <1>2, CtxFacts, SameActs DEF Control, TypeOK
      <4> QED
        BY <4>1
    <3> QED
      BY <1>1, <1>2, <2>1, <3>1 DEF Inside, CtxStep, Begins, ReturnsOK
  <2>2. Visible' = Top /\ Visible = Top /\ acts' = acts /\ (UNCHANGED <<return_flag, return_value>> \/ Top > 1)
    BY <1>2, SameActs DEF Inside
  <2> QED
    BY <1>1, <2>1, <2>2 DEF ReturnsOK
<1>3. CASE Fails
  BY <1>3, SameActs DEF Fails, Raise, ReturnsOK, jumps
<1>4. CASE Units
  <2>1. \A k \in DOMAIN ctx'[1] : ctx'[1][k].kind # "return"
    BY <1>4 DEF Units, StartUnit, EndUnit, FailUnit, Define, state, ReturnsOK
  <2>2. UNCHANGED <<return_flag, return_value>> \/ (~return_flag' /\ UNCHANGED return_value)
    BY <1>4 DEF Units, StartUnit, EndUnit, FailUnit, Define, state, jumps
  <2> QED
    BY <1>4, <2>1, <2>2, SameActs DEF ReturnsOK
<1>5. CASE BeginCall
  <2>1. UNCHANGED jumps
    BY <1>5 DEF BeginCall
  <2>2. Visible' = Top /\ Visible = Top /\ acts'[1] = acts[1] /\ (Top > 1 => acts'[2] = acts[2])
    BY <1>1, <1>5, BeginActs
  <2>3. \A k \in DOMAIN ctx'[1] : ctx'[1][k].kind # "return"
    BY <1>1, <1>5, BeginActs DEF ReturnsOK
  <2> QED
    BY <1>1, <2>1, <2>2, <2>3 DEF ReturnsOK, jumps
<1>6. CASE BindLocal \/ UnbindLocal
  <2>1. UNCHANGED <<jumps, ctx>> /\ Visible' = Visible /\ Top > 1
        /\ acts'[2].saved = acts[2].saved
    BY <1>1, <1>6, BoundActs DEF BindLocal, UnbindLocal
  <2> QED
    BY <2>1 DEF ReturnsOK, jumps
<1>7. CASE EnterBody
  <2>1. /\ Visible' = Top /\ Visible = Top - 1 /\ Top > 1 /\ UNCHANGED ctx
        /\ acts'[Top].saved = [flag |-> return_flag, value |-> return_value]
        /\ \A i \in 1..(Top - 1) : acts'[i] = acts[i]
    BY <1>7, EnterActs DEF EnterBody
  <2>2. acts'[2].saved = Unsaved
    <3>1. CASE Top = 2
      <4>1. ~return_flag /\ return_value = 0 /\ return_flag \in BOOLEAN
        BY <2>1, <3>1 DEF ReturnsOK, Control, TypeOK
      <4> QED
        BY <2>1, <3>1, <4>1 DEF Unsaved
    <3>2. CASE Top > 2
      <4>1. acts[2].saved = Unsaved /\ acts'[2] = acts[2]
        BY <1>1, <2>1, <3>2 DEF ReturnsOK
      <4> QED
        BY <4>1
    <3> QED
      BY <1>1, <2>1, <3>1, <3>2
  <2> QED
    BY <2>1, <2>2 DEF ReturnsOK
<1>8. CASE LeaveBody \/ UnwindBody
  <2>1. /\ Visible' = Top - 1 /\ Visible = Top /\ Top > 1 /\ UNCHANGED <<acts, ctx>>
        /\ return_flag' = acts[Top].saved.flag /\ return_value' = acts[Top].saved.value
    BY <1>8, LeaveActs DEF DropGuard, Act
  <2>2. acts[2].saved = Unsaved
    BY <2>1 DEF ReturnsOK
  <2> QED
    BY <1>1, <2>1, <2>2 DEF ReturnsOK, Unsaved
<1>9. CASE EndCall
  <2>1. /\ Visible' = Top - 1 /\ Visible = Top - 1 /\ Top > 1 /\ UNCHANGED jumps
        /\ \A i \in 1..(Top - 1) : acts'[i] = acts[i]
        /\ \A k \in DOMAIN ctx'[1] : k \in DOMAIN ctx[1] /\ ctx'[1][k] = ctx[1][k]
    <3>1. 1 \in 1..(Top - 1)
      BY <1>1, <1>9, EndActs
    <3> QED
      BY <1>9, <3>1, EndActs DEF EndCall
  <2>2. CASE Top = 2
    BY <2>1, <2>2 DEF ReturnsOK, jumps
  <2>3. CASE Top > 2
    BY <1>1, <2>1, <2>3 DEF ReturnsOK, jumps
  <2> QED
    BY <1>1, <2>1, <2>2, <2>3
<1> QED
  BY <1>2, <1>3, <1>4, <1>5, <1>6, <1>7, <1>8, <1>9, Steps DEF Enters, Leaves

(* While a return is pending no expression is evaluated and no call is being prepared. *)
LEMMA ReturnActions ==
  ASSUME Control, ReturnsOK, FlagsOK, Next, return_flag'
  PROVE  mode' = "stmt"
<1>1. return_flag \in BOOLEAN /\ Top \in DOMAIN acts /\ Act = acts[Top]
  BY CtxFacts DEF Control, TypeOK, Act
<1>2. CASE StartUnit \/ EndUnit \/ FailUnit \/ \E f \in Functions, h \in Headers : Define(f, h)
  BY <1>2 DEF FlagsOK, ReturnsOK, Visible, StartUnit, EndUnit, FailUnit, Define, state, jumps
<1>3. CASE Execute
  BY <1>1, <1>3
     DEF Execute, ExecExpr, ExecBlock, EndBlock, ExecBreak, ExecReturn, ExecReturnExpr, ExecIf, ExecLoop,
         EndLoopBody, LoopPostBody, StartStatement, ShouldAbort, FlagsOK, jumps
<1>4. CASE Evaluate
  BY <1>4
     DEF Evaluate, Literal, FailExpr, Raise, ReadRegister, ReadVariable, EvalOperation, EvalSubscript,
         EvalAssign, EvalUpdate, FlagsOK, jumps
<1>5. CASE Call
  BY <1>1, <1>5
     DEF Call, EvalCall, ScalarArg, MismatchedArg, Raise, BeginCall, BindLocal, EnterBody, ArrayArg,
         LeaveBody, UnwindBody, DropGuard, UnbindLocal, EndCall, FlagsOK, jumps, state
<1>6. CASE Use
  BY <1>6
     DEF Use, Consume, UseDiscard, UseReturn, UseIf, UseLoop, UseOperand, UseArg, UseIndexRead,
         UseIndexUpdate, UseIndexAssign, BadIndex, UseRhs, FailOperation, Raise, FlagsOK, jumps
<1> QED
  BY <1>2, <1>3, <1>4, <1>5, <1>6 DEF Next

LEMMA NextFlags ==
  ASSUME Control, ReturnsOK, FlagsOK, Next
  PROVE  FlagsOK'
<1>1. Control' /\ Top \in Nat \ {0} /\ DOMAIN acts = 1..Top /\ DOMAIN acts' = 1..Top'
  BY NextControl, CtxFacts DEF Control, TypeOK, Top
<1>2. ASSUME NEW i \in 1..Top'
      PROVE  ~acts'[i].saved.flag
  <2>1. CASE Inside \/ Fails \/ Units
    BY <1>1, <1>2, <2>1, SameActs DEF FlagsOK
  <2>2. CASE BeginCall
    <3>1. CASE i \in 1..Top
      BY <1>1, <2>2, <3>1, BeginActs DEF FlagsOK
    <3>2. CASE i = Top + 1
      BY <2>2, <3>2, BeginActs DEF Unsaved
    <3> QED
      BY <1>1, <1>2, <2>2, <3>1, <3>2, BeginActs
  <2>3. CASE BindLocal \/ UnbindLocal
    BY <1>1, <1>2, <2>3, BoundActs DEF FlagsOK
  <2>4. CASE EnterBody
    <3>1. Top' = Top /\ ~return_flag
      BY <2>4, EnterActs DEF EnterBody, FlagsOK
    <3>2. CASE i = Top
      BY <2>4, <3>1, <3>2, EnterActs
    <3>3. CASE i # Top
      <4>1. i \in 1..(Top - 1)
        BY <1>1, <1>2, <3>1, <3>3
      <4> QED
        BY <1>1, <1>2, <2>4, <3>1, <4>1, EnterActs DEF FlagsOK
    <3> QED
      BY <3>2, <3>3
  <2>5. CASE LeaveBody \/ UnwindBody
    BY <1>1, <1>2, <2>5, LeaveActs DEF FlagsOK
  <2>6. CASE EndCall
    <3>1. i \in 1..(Top - 1) /\ i \in 1..Top
      BY <1>1, <1>2, <2>6, EndActs
    <3> QED
      BY <1>1, <2>6, <3>1, EndActs DEF FlagsOK
  <2> QED
    BY <2>1, <2>2, <2>3, <2>4, <2>5, <2>6, Steps DEF Enters, Leaves
<1> QED
  BY <1>1, <1>2, ReturnActions DEF FlagsOK

(* With a jump pending, no statement or expression starts: only blocks and loops end. *)
LEMMA BreakActions ==
  ASSUME TypeOK, BreakConfined, Next, break_flag'
  PROVE  ExecBreak \/ (EndBlock /\ break_flag)
<1>1. break_flag \in BOOLEAN
  BY DEF TypeOK
<1>2. CASE StartUnit \/ EndUnit \/ FailUnit \/ \E f \in Functions, h \in Headers : Define(f, h)
  <2>1. Here = <<>> => ~InLoop
    BY DEF InLoop
  <2> QED
    BY <1>2, <2>1 DEF BreakConfined, StartUnit, EndUnit, FailUnit, Define, state, jumps
<1>3. CASE Execute
  BY <1>1, <1>3
     DEF Execute, ExecExpr, ExecBlock, EndBlock, ExecBreak, ExecReturn, ExecReturnExpr, ExecIf, ExecLoop,
         EndLoopBody, LoopPostBody, StartStatement, ShouldAbort, BreakConfined, jumps
<1>4. CASE Evaluate
  BY <1>4
     DEF Evaluate, Literal, FailExpr, Raise, ReadRegister, ReadVariable, EvalOperation, EvalSubscript,
         EvalAssign, EvalUpdate, BreakConfined, jumps
<1>5. CASE Call
  <2>1. Here = <<>> => ~InLoop
    BY DEF InLoop
  <2> QED
    BY <1>5, <2>1
       DEF Call, EvalCall, ScalarArg, MismatchedArg, Raise, BeginCall, BindLocal, EnterBody, ArrayArg,
           LeaveBody, UnwindBody, DropGuard, UnbindLocal, EndCall, BreakConfined, jumps, state
<1>6. CASE Use
  BY <1>6
     DEF Use, Consume, UseDiscard, UseReturn, UseIf, UseLoop, UseOperand, UseArg, UseIndexRead,
         UseIndexUpdate, UseIndexAssign, BadIndex, UseRhs, FailOperation, Raise, BreakConfined, jumps
<1> QED
  BY <1>2, <1>3, <1>4, <1>5, <1>6 DEF Next

LEMMA NextBreak ==
  ASSUME TypeOK, BreakConfined, Next
  PROVE  BreakConfined'
<1>1. CASE ~break_flag'
  BY <1>1 DEF BreakConfined
<1>2. CASE break_flag' /\ ExecBreak
  BY <1>2 DEF ExecBreak, StartStatement, BreakConfined, InLoop, Here, Top
<1>3. CASE break_flag' /\ EndBlock /\ break_flag
  <2>1. /\ Here \in Seq(Context) /\ Here # <<>> /\ Inner = Here[Len(Here)] /\ Inner.kind = "block"
        /\ Len(Here) \in Nat \ {0}
    BY <1>3, CtxFacts, InnerFacts DEF EndBlock
  <2>2. PICK i \in DOMAIN Here : Here[i].kind = "loop" /\ Here[i].phase = "body"
    BY <1>3 DEF BreakConfined, InLoop
  <2>3. i \in 1..(Len(Here) - 1)
    <3>1. i \in 1..Len(Here) /\ i # Len(Here)
      BY <2>1, <2>2
    <3> QED
      BY <2>1, <3>1
  <2>4. Here' = Front(Here)
    <3>1. Top' = Top /\ Top \in DOMAIN ctx
      BY <1>3, CtxFacts DEF EndBlock, Top
    <3> QED
      BY <1>3, <3>1 DEF EndBlock, PopInner, Here
  <2>5. i \in DOMAIN Front(Here) /\ Front(Here)[i] = Here[i]
    <3>1. PICK s, h : s = Here /\ h = Front(s)
      OBVIOUS
    <3>2. h \in Seq(Context) /\ Len(h) = Len(s) - 1 /\ \A k \in 1..(Len(s) - 1) : h[k] = s[k]
      BY <2>1, <3>1, FrontProps
    <3> QED
      BY <2>3, <3>1, <3>2
  <2> QED
    BY <1>3, <2>2, <2>4, <2>5 DEF BreakConfined, InLoop, EndBlock
<1> QED
  BY <1>1, <1>2, <1>3, BreakActions

-----------------------------------------------------------------------------
(* Pending assignments *)

LEMMA OwnersFacts ==
  ASSUME NEW o \in Seq(Nat \X Nat), o # <<>>
  PROVE  /\ Last(o) = o[Len(o)] /\ Len(o) \in Nat \ {0} /\ DOMAIN o = 1..Len(o) /\ Len(o) \in DOMAIN o
         /\ Front(o) \in Seq(Nat \X Nat) /\ Len(Front(o)) = Len(o) - 1
         /\ DOMAIN Front(o) = 1..(Len(o) - 1)
         /\ \A q \in 1..(Len(o) - 1) : Front(o)[q] = o[q]
         /\ \A q \in DOMAIN o : o[q][1] \in Nat
<1>1. PICK S : S = Nat \X Nat
  OBVIOUS
<1>2. o \in Seq(S)
  BY <1>1
<1>3. /\ Last(o) = o[Len(o)] /\ Front(o) \in Seq(S) /\ Len(Front(o)) = Len(o) - 1
      /\ \A q \in 1..(Len(o) - 1) : Front(o)[q] = o[q]
  BY <1>2, FrontProps
<1>4. Len(o) \in Nat \ {0} /\ DOMAIN o = 1..Len(o) /\ Len(o) \in DOMAIN o
  BY <1>2
<1>5. DOMAIN Front(o) = 1..(Len(o) - 1)
  BY <1>3, <1>4
<1>6. \A q \in DOMAIN o : o[q][1] \in Nat
  <2>1. ASSUME NEW q \in DOMAIN o
        PROVE  o[q][1] \in Nat
    <3>1. o[q] \in Nat \X Nat
      BY <2>1
    <3> QED
      BY <3>1
  <2> QED
    BY <2>1
<1> QED
  BY <1>1, <1>3, <1>4, <1>5, <1>6

LEMMA HeldPush ==
  ASSUME NEW o \in Seq(Nat \X Nat), NEW e \in Nat \X Nat, NEW i \in Nat, e[1] > i,
         NEW f, Held(f, i, o)
  PROVE  Held(f, i, Append(o, e))
<1>1. PICK m \in DOMAIN o : o[m] = f /\ \A q \in DOMAIN o : q > m => o[q][1] > i
  BY DEF Held
<1>2. PICK p : p = Append(o, e)
  OBVIOUS
<1>3. Len(p) = Len(o) + 1 /\ p[Len(o) + 1] = e /\ (\A q \in 1..Len(o) : p[q] = o[q])
      /\ DOMAIN p = 1..(Len(o) + 1) /\ DOMAIN o = 1..Len(o) /\ Len(o) \in Nat
  BY <1>2, AppendProperties
<1>4. m \in DOMAIN p /\ p[m] = f
  BY <1>1, <1>3
<1>5. ASSUME NEW q \in DOMAIN p, q > m
      PROVE  p[q][1] > i
  <2>1. CASE q = Len(o) + 1
    BY <1>3, <2>1
  <2>2. CASE q # Len(o) + 1
    <3>1. q \in DOMAIN o /\ p[q] = o[q]
      BY SMTT(30), <1>3, <2>2
    <3> QED
      BY <1>1, <1>5, <3>1
  <2> QED
    BY <2>1, <2>2
<1> QED
  BY <1>2, <1>4, <1>5 DEF Held

LEMMA HeldPop ==
  ASSUME NEW o \in Seq(Nat \X Nat), o # <<>>, NEW i \in Nat, Last(o)[1] > i, NEW f, Held(f, i, o)
  PROVE  Held(f, i, Front(o))
<1>1. PICK m \in DOMAIN o : o[m] = f /\ (\A q \in DOMAIN o : q > m => o[q][1] > i)
  BY DEF Held
<1>2. PICK p : p = Front(o)
  OBVIOUS
<1>3. /\ (\A q \in 1..(Len(o) - 1) : p[q] = o[q]) /\ DOMAIN p = 1..(Len(o) - 1)
      /\ DOMAIN o = 1..Len(o) /\ Len(o) \in Nat \ {0} /\ Last(o) = o[Len(o)]
  BY <1>2, OwnersFacts
<1>4. f[1] <= i /\ f[1] \in Nat
  BY <1>1, OwnersFacts DEF Held
<1>5. m # Len(o)
  BY <1>1, <1>3, <1>4
<1>6. m \in 1..(Len(o) - 1)
  BY <1>3, <1>5
<1>7. m \in DOMAIN p /\ p[m] = f
  BY <1>1, <1>3, <1>6
<1>8. ASSUME NEW q \in DOMAIN p, q > m
      PROVE  p[q][1] > i
  <2>1. q \in DOMAIN o /\ p[q] = o[q]
    BY SMTT(30), <1>3
  <2> QED
    BY <1>1, <1>8, <2>1
<1> QED
  BY <1>2, <1>4, <1>7, <1>8 DEF Held

LEMMA HeldLast ==
  ASSUME NEW o \in Seq(Nat \X Nat), o # <<>>, NEW i \in Nat, Last(o)[1] <= i
  PROVE  Held(Last(o), i, o)
<1>1. Last(o) = o[Len(o)] /\ Len(o) \in DOMAIN o /\ \A q \in DOMAIN o : ~(q > Len(o))
  BY OwnersFacts
<1> QED
  BY <1>1 DEF Held

LEMMA HeldTop ==
  ASSUME NEW o \in Seq(Nat \X Nat), o # <<>>, NEW i \in Nat, Last(o)[1] <= i, NEW f, Held(f, i, o)
  PROVE  f = Last(o)
<1>1. PICK m \in DOMAIN o : o[m] = f /\ (\A q \in DOMAIN o : q > m => o[q][1] > i)
  BY DEF Held
<1>2. PICK N : N = Len(o)
  OBVIOUS
<1>3. Last(o) = o[N] /\ DOMAIN o = 1..N /\ N \in Nat \ {0} /\ o[N][1] \in Nat /\ N \in DOMAIN o
  BY <1>2, OwnersFacts
<1>4. ~(N > m)
  <2>1. N > m => o[N][1] > i
    BY <1>1, <1>3
  <2>2. o[N][1] <= i /\ o[N][1] \in Nat
    BY <1>3
  <2> QED
    BY SMTT(30), <2>1, <2>2
<1>5. N = m
  BY <1>3, <1>4
<1> QED
  BY <1>1, <1>3, <1>5

(* No frame belongs to an activation that does not exist. *)
LEMMA OwnersLive ==
  ASSUME Balance, NEW n \in Names
  PROVE  OwnersOf(n) \in Seq(Nat \X Nat) /\ OwnersOf(n) # <<>> /\ Last(OwnersOf(n))[1] <= Top
<1>1. OwnersOf(n) \in Seq(Nat \X Nat) /\ OwnersOf(n) # <<>>
  BY StackTyped DEF Balance
<1>2. Top \in Nat \ {0}
  BY CtxFacts DEF Balance
<1>3. CASE owner[n] = <<>>
  <2>1. Last(OwnersOf(n)) = Global
    <3>1. OwnersOf(n) = <<Global>> /\ Global \in Nat \X Nat
      BY <1>3 DEF OwnersOf, Global
    <3> QED
      BY <3>1, SingletonProps DEF Last
  <2> QED
    BY <1>1, <1>2, <2>1 DEF Global
<1>4. CASE owner[n] # <<>>
  <2>1. PICK o, N : o = owner[n] /\ N = Len(o)
    OBVIOUS
  <2>2. o \in Seq(Nat \X Nat) /\ N \in Nat \ {0} /\ OwnersOf(n) = o /\ Last(o) = o[N]
    <3>1. o \in Seq(Nat \X Nat) /\ o # <<>>
      BY <1>4, <2>1 DEF Balance, TypeOK
    <3> QED
      BY <1>4, <2>1, <3>1, OwnersFacts DEF OwnersOf
  <2>3. /\ o[1] = Global
        /\ \A k \in 2..N : o[k][1] <= Top
    BY <1>4, <2>1 DEF Balance, ScopesBalanced
  <2>4. CASE N = 1
    BY <1>1, <1>2, <2>2, <2>3, <2>4 DEF Global
  <2>5. CASE N > 1
    <3>1. N \in 2..N
      BY <2>2, <2>5
    <3> QED
      BY <1>1, <2>2, <2>3, <3>1
  <2> QED
    BY <2>2, <2>4, <2>5
<1> QED
  BY <1>3, <1>4

(* Using or changing a value pushes and pops nothing. *)
LEMMA SameOwners ==
  ASSUME TypeOK, NoStorage \/ UsesName \/ StoresValue, NEW n \in Names
  PROVE  OwnersOf(n)' = OwnersOf(n)
<1>1. ASSUME NEW m \in Names, NEW s, SetStack(m, s, OwnersOf(m))
      PROVE  OwnersOf(n)' = OwnersOf(n)
  <2>1. owner' = [owner EXCEPT ![m] = OwnersOf(m)] /\ OwnersOf(m) # <<>> /\ DOMAIN owner = Names
    BY <1>1, StackTyped DEF SetStack, TypeOK
  <2> QED
    BY <2>1 DEF OwnersOf
<1>2. CASE NoStorage
  BY <1>2 DEF NoStorage, OwnersOf
<1>3. CASE UsesName
  BY <1>1, <1>3 DEF UsesName, Touch
<1>4. CASE StoresValue
  <2>1. PICK p \in Place, v \in Values : Store(p, v)
    BY <1>4 DEF StoresValue
  <2>2. CASE p.kind = "cell"
    BY <1>1, <2>1, <2>2, PlaceFacts DEF Store
  <2>3. CASE p.kind = "register"
    BY <2>1, <2>3 DEF Store, OwnersOf
  <2> QED
    BY <2>1, <2>2, <2>3, PlaceFacts
<1> QED
  BY <1>2, <1>3, <1>4

(* The frame to pop is the last one of its name, and it is the innermost activation's. *)
LEMMA PoppedIsOwn ==
  ASSUME Balance, NEW n \in Names, NEW j \in 1..Act.bound, Act.locals[j] = n
  PROVE  owner[n] # <<>> /\ Front(owner[n]) # <<>> /\ Last(owner[n])[1] = Top
<1>1. PICK o, N : o = owner[n] /\ N = Len(o)
  OBVIOUS
<1>2. o \in Seq(Nat \X Nat) /\ N \in Nat /\ Top \in DOMAIN acts /\ Act = acts[Top] /\ Top \in Nat
      /\ DOMAIN o = 1..N
  BY <1>1, CtxFacts DEF Balance, TypeOK, Act
<1>3. PICK k \in 2..N : o[k] = <<Top, j>>
  BY <1>1, <1>2 DEF Balance, ScopesBalanced
<1>4. N \in 2..N /\ k \in 1..N
  BY <1>2, <1>3
<1>5. o[N][1] <= Top /\ o[N] \in Nat \X Nat
  BY SMTT(30), <1>1, <1>2, <1>4 DEF Balance, ScopesBalanced
<1>6. k < N => Earlier(o[k], o[N])
  BY SMTT(30), <1>1, <1>2, <1>4 DEF Balance, ScopesBalanced
<1>7. o[N][1] = Top
  BY <1>2, <1>3, <1>4, <1>5, <1>6 DEF Earlier
<1>8. o # <<>>
  BY <1>1, <1>2, <1>4
<1>9. Last(o) = o[N] /\ Len(Front(o)) = N - 1
  BY <1>1, <1>2, <1>8, OwnersFacts
<1> QED
  BY <1>1, <1>2, <1>4, <1>7, <1>8, <1>9

LEMMA HeldKept ==
  ASSUME Control, ScopesBalanced, Next, NEW n \in Names, NEW i \in 1..Visible,
         NEW f, Held(f, i, OwnersOf(n))
  PROVE  Held(f, i, OwnersOf(n)')
<1>1. Balance /\ TypeOK /\ i \in Nat /\ Top \in Nat \ {0} /\ DOMAIN owner = Names
  BY CtxFacts DEF Balance, Control, TypeOK
<1>2. CASE NoStorage \/ UsesName \/ StoresValue
  BY <1>1, <1>2, SameOwners
<1>3. CASE BeginCall \/ EndCall
  BY <1>3 DEF BeginCall, EndCall, storage, OwnersOf
<1>4. CASE BindLocal
  <2>1. PICK j, m : j = Act.bound + 1 /\ m = Act.locals[j]
    OBVIOUS
  <2>2. owner' = [owner EXCEPT ![m] = Append(OwnersOf(m), <<Top, j>>)] /\ j \in Nat
        /\ m \in Names /\ i < Top
    BY <1>1, <1>4, <2>1, ActFacts, BoundActs, SMTT(30) DEF BindLocal, SetStack
  <2>3. CASE m # n
    BY <1>1, <2>2, <2>3 DEF OwnersOf
  <2>4. CASE m = n
    <3>1. PICK o, e, p : o = OwnersOf(n) /\ e = <<Top, j>> /\ p = Append(o, e)
      OBVIOUS
    <3>2. o \in Seq(Nat \X Nat) /\ e \in Nat \X Nat /\ e[1] > i
      BY <1>1, <2>2, <3>1, StackTyped
    <3>3. Held(f, i, p)
      BY <1>1, <3>1, <3>2, HeldPush
    <3>4. p # <<>>
      BY <3>3 DEF Held
    <3>5. owner'[n] = p
      BY <1>1, <2>2, <2>4, <3>1
    <3> QED
      BY <3>3, <3>4, <3>5 DEF OwnersOf
  <2> QED
    BY <2>3, <2>4
<1>5. CASE UnbindLocal
  <2>1. PICK m : m = Act.locals[Act.bound]
    OBVIOUS
  <2>2. owner' = [owner EXCEPT ![m] = Front(owner[m])] /\ Act.bound > 0 /\ Act.bound \in Nat /\ i < Top
    BY <1>1, <1>5, <2>1, ActFacts, BoundActs DEF UnbindLocal, SetStack
  <2>3. CASE m # n
    BY <1>1, <2>2, <2>3 DEF OwnersOf
  <2>4. CASE m = n
    <3>1. Act.bound \in 1..Act.bound
      BY <2>2
    <3>2. owner[n] # <<>> /\ Front(owner[n]) # <<>> /\ Last(owner[n])[1] = Top
      BY <1>1, <2>1, <2>4, <3>1, PoppedIsOwn
    <3>3. owner[n] \in Seq(Nat \X Nat) /\ OwnersOf(n) = owner[n]
      BY <1>1, <3>2 DEF TypeOK, OwnersOf
    <3>4. Held(f, i, Front(owner[n]))
      BY <1>1, <2>2, <3>2, <3>3, HeldPop
    <3>5. owner'[n] = Front(owner[n])
      BY <1>1, <2>2, <2>4
    <3> QED
      BY <3>2, <3>4, <3>5 DEF OwnersOf
  <2> QED
    BY <2>3, <2>4
<1> QED
  BY <1>1, <1>2, <1>3, <1>4, <1>5, StepKinds DEF Binds

(* A pending assignment was pending before, or it starts now with the place it resolves. *)
LEMMA RhsSteps ==
  ASSUME Control, ReturnsOK, UnitsOK, Next,
         NEW i \in 1..Visible', NEW k \in DOMAIN ctx'[i], ctx'[i][k].kind = "rhs"
  PROVE  /\ i \in 1..Visible
         /\ \/ k \in DOMAIN ctx[i] /\ ctx'[i][k] = ctx[i][k]
            \/ /\ i = Top /\ Visible = Top
               /\ ctx'[i][k].place \in Place /\ ctx'[i][k].frame = PlaceFrame(ctx'[i][k].place)
<1>1. Top \in Nat \ {0}
  BY CtxFacts DEF Control
<1>2. CASE Inside
  <2>1. i \in 1..Top /\ Visible = Top
    BY <1>2, SameActs
  <2>2. DOMAIN ctx'[i] = 1..Len(ctx'[i]) /\ DOMAIN ctx[i] = 1..Len(ctx[i])
    <3>1. ctx' \in Seq(Seq(Context)) /\ Len(ctx') = Top
      BY <1>2, NextControl DEF Control, TypeOK, Inside, CtxStep
    <3>2. ctx'[i] \in Seq(Context)
      BY <2>1, <3>1
    <3>3. ctx[i] \in Seq(Context)
      BY <2>1, CtxFacts DEF Control
    <3> QED
      BY <3>2, <3>3
  <2>3. \/ k \in 1..Len(ctx[i]) /\ ctx'[i][k] = ctx[i][k]
        \/ i = Top /\ Begins(ctx'[i][k])
    BY <1>2, <2>1, <2>2 DEF Inside, CtxStep
  <2> QED
    BY <2>1, <2>2, <2>3 DEF Begins
<1>3. CASE Fails
  BY <1>3, SameActs DEF Fails, Raise
<1>4. CASE Units
  <2>1. CASE FailUnit
    <3>1. i = 1 /\ ctx'[1] = <<>>
      BY <1>4, <2>1, SameActs DEF FailUnit
    <3> QED
      BY <3>1
  <2>2. CASE ctx' = ctx
    BY <1>4, <2>2, SameActs
  <2> QED
    BY <1>4, <2>1, <2>2 DEF Units, StartUnit, EndUnit, Define, state
<1>5. CASE BeginCall
  <2>1. i \in 1..Top /\ Visible = Top
    BY <1>5, BeginActs
  <2> QED
    BY <1>5, <2>1, BeginActs
<1>6. CASE BindLocal \/ UnbindLocal
  BY <1>6, BoundActs
<1>7. CASE EnterBody
  <2>1. i \in 1..Top /\ Visible = Top - 1 /\ ctx' = ctx /\ ctx[Top] = <<>>
    BY <1>7, EnterActs DEF EnterBody, UnitsOK, Here
  <2>2. i # Top
    BY <2>1
  <2>3. i \in 1..(Top - 1)
    BY <1>1, <2>1, <2>2
  <2> QED
    BY <2>1, <2>3
<1>8. CASE LeaveBody \/ UnwindBody
  <2>1. i \in 1..(Top - 1) /\ Visible = Top /\ ctx' = ctx
    BY <1>8, LeaveActs
  <2>2. i \in 1..Top
    BY <1>1, <2>1
  <2> QED
    BY <2>1, <2>2
<1>9. CASE EndCall
  BY <1>9, EndActs
<1> QED
  BY <1>2, <1>3, <1>4, <1>5, <1>6, <1>7, <1>8, <1>9, Steps DEF Enters, Leaves

LEMMA NextPlaces ==
  ASSUME Control, ScopesBalanced, ReturnsOK, UnitsOK, PlacesResolved, Next
  PROVE  PlacesResolved'
<1>1. Control' /\ Balance /\ Top \in Nat \ {0}
  BY NextControl, CtxFacts DEF Control, Balance
<1>2. ASSUME NEW i \in 1..Visible', NEW k \in DOMAIN ctx'[i], ctx'[i][k].kind = "rhs"
      PROVE  Resolved(ctx[i][k], i)'
  <2>1. PICK c : c = ctx'[i][k]
    OBVIOUS
  <2>2. i \in 1..Visible /\ i \in 1..Top
    <3>1. i \in 1..Visible
      BY <1>2, RhsSteps
    <3> QED
      BY <1>1, <3>1 DEF Visible
  <2>3. \/ k \in DOMAIN ctx[i] /\ c = ctx[i][k]
        \/ i = Top /\ c.place \in Place /\ c.frame = PlaceFrame(c.place)
    BY <1>2, <2>1, RhsSteps
  <2>4. c.place \in Place
    <3>1. CASE k \in DOMAIN ctx[i] /\ c = ctx[i][k]
      <4>1. ctx[i] \in Seq(Context)
        BY <2>2, CtxFacts DEF Control
      <4>2. c \in Context /\ c.kind = "rhs"
        BY <1>2, <2>1, <3>1, <4>1
      <4> QED
        BY <4>2, ContextKinds
    <3> QED
      BY <2>3, <3>1
  <2>5. Resolved(c, i)
    <3>1. CASE k \in DOMAIN ctx[i] /\ c = ctx[i][k]
      BY <1>2, <2>1, <2>2, <3>1 DEF PlacesResolved
    <3>2. CASE i = Top /\ c.frame = PlaceFrame(c.place)
      <4>1. CASE c.place.kind = "register"
        BY <3>2, <4>1 DEF Resolved, PlaceFrame
      <4>2. CASE c.place.kind = "cell"
        <5>1. PICK n, o : n = c.place.name /\ o = OwnersOf(n)
          OBVIOUS
        <5>2. n \in Names /\ c.frame = Last(o)
          BY <2>4, <3>2, <4>2, <5>1, PlaceFacts DEF PlaceFrame
        <5>3. o \in Seq(Nat \X Nat) /\ o # <<>> /\ Last(o)[1] <= Top
          BY <1>1, <5>1, <5>2, OwnersLive
        <5>4. Held(Last(o), Top, o)
          BY <1>1, <5>3, HeldLast
        <5> QED
          BY <3>2, <4>2, <5>1, <5>2, <5>4 DEF Resolved
      <4> QED
        BY <2>4, <4>1, <4>2, PlaceFacts
    <3> QED
      BY <2>3, <3>1, <3>2
  <2>6. CASE c.place.kind = "register"
    BY <2>1, <2>5, <2>6 DEF Resolved
  <2>7. CASE c.place.kind = "cell"
    <3>1. c.place.name \in Names /\ Held(c.frame, i, OwnersOf(c.place.name))
      BY <2>4, <2>5, <2>7, PlaceFacts DEF Resolved
    <3>2. Held(c.frame, i, OwnersOf(c.place.name)')
      BY <2>2, <3>1, HeldKept
    <3> QED
      BY <2>1, <2>7, <3>2 DEF Resolved, OwnersOf
  <2> QED
    BY <2>4, <2>6, <2>7, PlaceFacts
<1> QED
  BY <1>2 DEF PlacesResolved

-----------------------------------------------------------------------------
(* The copies of the names the activations declare *)

(* An activation whose body is executing does not change; its declarations do not either. *)
LEMMA ActsKept ==
  ASSUME Control, ReturnsOK, Next, NEW i \in 1..Visible, i <= Visible'
  PROVE  i \in 1..Top /\ acts'[i] = acts[i]
<1>1. Top \in Nat \ {0} /\ i \in 1..Top
  BY CtxFacts DEF Control, Visible
<1>2. i < Top => i \in 1..(Top - 1)
  BY <1>1
<1>3. CASE Inside \/ Fails \/ Units
  BY <1>1, <1>3, SameActs
<1>4. CASE BeginCall
  BY <1>1, <1>4, BeginActs
<1>5. CASE BindLocal \/ UnbindLocal
  <2>1. i \in 1..(Top - 1)
    BY <1>5, BoundActs
  <2> QED
    BY <1>1, <1>5, <2>1, BoundActs
<1>6. CASE EnterBody
  <2>1. i \in 1..(Top - 1)
    BY <1>6, EnterActs
  <2> QED
    BY <1>1, <1>6, <2>1, EnterActs
<1>7. CASE LeaveBody \/ UnwindBody
  BY <1>1, <1>7, LeaveActs
<1>8. CASE EndCall
  <2>1. i \in 1..(Top - 1)
    BY <1>8, EndActs
  <2> QED
    BY <1>1, <1>8, <2>1, EndActs
<1> QED
  BY <1>3, <1>4, <1>5, <1>6, <1>7, <1>8, Steps DEF Enters, Leaves

(* Only EnterBody makes an activation visible. *)
LEMMA VisibleSteps ==
  ASSUME Control, ReturnsOK, Next
  PROVE  /\ Visible \in Nat \ {0}
         /\ Visible' <= Visible \/ (EnterBody /\ Visible' = Top /\ Visible = Top - 1)
<1>1. Top \in Nat \ {0} /\ Visible \in Nat \ {0}
  BY CtxFacts DEF Control, Visible, ModesOK
<1> QED
  BY <1>1, SameActs, BeginActs, BoundActs, EnterActs, LeaveActs, EndActs, Steps DEF Enters, Leaves

LEMMA LastPush ==
  ASSUME NEW o \in Seq(Nat \X Nat), NEW e \in Nat \X Nat, NEW i, e[1] # i, NEW k, LastOf(o, i, k)
  PROVE  LastOf(Append(o, e), i, k)
<1>1. PICK p : p = Append(o, e)
  OBVIOUS
<1>2. /\ p[Len(o) + 1] = e /\ (\A q \in 1..Len(o) : p[q] = o[q])
      /\ DOMAIN p = 1..(Len(o) + 1) /\ DOMAIN o = 1..Len(o) /\ Len(o) \in Nat
  BY <1>1, AppendProperties
<1>3. k \in DOMAIN p /\ p[k][1] = i
  BY <1>2 DEF LastOf
<1>4. ASSUME NEW q \in DOMAIN p, p[q][1] = i
      PROVE  q <= k
  <2>1. q # Len(o) + 1
    BY <1>2, <1>4
  <2>2. q \in DOMAIN o /\ p[q] = o[q]
    BY <1>2, <2>1
  <2> QED
    BY <1>4, <2>2 DEF LastOf
<1> QED
  BY <1>1, <1>3, <1>4 DEF LastOf

LEMMA LastPop ==
  ASSUME NEW o \in Seq(Nat \X Nat), o # <<>>, NEW i, Last(o)[1] # i, NEW k, LastOf(o, i, k)
  PROVE  LastOf(Front(o), i, k)
<1>1. PICK p, N : p = Front(o) /\ N = Len(o)
  OBVIOUS
<1>2. /\ (\A q \in 1..(N - 1) : p[q] = o[q]) /\ DOMAIN p = 1..(N - 1)
      /\ DOMAIN o = 1..N /\ N \in Nat \ {0} /\ Last(o) = o[N]
  BY <1>1, OwnersFacts
<1>3. k \in 1..N /\ k # N
  BY <1>2 DEF LastOf
<1>4. k \in DOMAIN p /\ p[k][1] = i
  BY <1>2, <1>3 DEF LastOf
<1>5. ASSUME NEW q \in DOMAIN p, p[q][1] = i
      PROVE  q <= k
  <2>1. q \in DOMAIN o /\ p[q] = o[q]
    BY <1>2
  <2> QED
    BY <1>5, <2>1 DEF LastOf
<1> QED
  BY <1>1, <1>4, <1>5 DEF LastOf

LEMMA LastIsLast ==
  ASSUME NEW o \in Seq(Nat \X Nat), o # <<>>, NEW i, Last(o)[1] = i
  PROVE  Len(o) \in DOMAIN o /\ LastOf(o, i, Len(o))
BY OwnersFacts DEF LastOf

(* Every step keeps the copies of the activations whose bodies are executing in place. *)
LEMMA LastKept ==
  ASSUME Control, ScopesBalanced, Next, NEW n \in Names, NEW i \in 1..Visible,
         NEW k, LastOf(OwnersOf(n), i, k)
  PROVE  LastOf(OwnersOf(n)', i, k)
<1>1. Balance /\ TypeOK /\ i \in Nat /\ Top \in Nat \ {0} /\ DOMAIN owner = Names
  BY CtxFacts DEF Balance, Control, TypeOK
<1>2. CASE NoStorage \/ UsesName \/ StoresValue
  BY <1>1, <1>2, SameOwners
<1>3. CASE BeginCall \/ EndCall
  BY <1>3 DEF BeginCall, EndCall, storage, OwnersOf
<1>4. CASE BindLocal
  <2>1. PICK j, m : j = Act.bound + 1 /\ m = Act.locals[j]
    OBVIOUS
  <2>2. owner' = [owner EXCEPT ![m] = Append(OwnersOf(m), <<Top, j>>)] /\ j \in Nat
        /\ m \in Names /\ i # Top
    BY SMTT(30), <1>1, <1>4, <2>1, ActFacts, BoundActs DEF BindLocal, SetStack
  <2>3. CASE m # n
    BY <1>1, <2>2, <2>3 DEF OwnersOf
  <2>4. CASE m = n
    <3>1. PICK o, e, p : o = OwnersOf(n) /\ e = <<Top, j>> /\ p = Append(o, e)
      OBVIOUS
    <3>2. o \in Seq(Nat \X Nat) /\ e \in Nat \X Nat /\ e[1] # i
      BY <1>1, <2>2, <3>1, StackTyped
    <3>3. LastOf(p, i, k)
      BY <1>1, <3>1, <3>2, LastPush
    <3>4. p # <<>>
      BY <3>3 DEF LastOf
    <3>5. owner'[n] = p
      BY <1>1, <2>2, <2>4, <3>1
    <3> QED
      BY <3>3, <3>4, <3>5 DEF OwnersOf
  <2> QED
    BY <2>3, <2>4
<1>5. CASE UnbindLocal
  <2>1. PICK m : m = Act.locals[Act.bound]
    OBVIOUS
  <2>2. owner' = [owner EXCEPT ![m] = Front(owner[m])] /\ Act.bound > 0 /\ Act.bound \in Nat /\ i # Top
    BY <1>1, <1>5, <2>1, ActFacts, BoundActs DEF UnbindLocal, SetStack
  <2>3. CASE m # n
    BY <1>1, <2>2, <2>3 DEF OwnersOf
  <2>4. CASE m = n
    <3>1. Act.bound \in 1..Act.bound
      BY <2>2
    <3>2. owner[n] # <<>> /\ Front(owner[n]) # <<>> /\ Last(owner[n])[1] = Top
      BY <1>1, <2>1, <2>4, <3>1, PoppedIsOwn
    <3>3. owner[n] \in Seq(Nat \X Nat) /\ OwnersOf(n) = owner[n]
      BY <1>1, <3>2 DEF TypeOK, OwnersOf
    <3>4. LastOf(Front(owner[n]), i, k)
      BY <1>1, <2>2, <3>2, <3>3, LastPop
    <3>5. owner'[n] = Front(owner[n])
      BY <1>1, <2>2, <2>4
    <3> QED
      BY <3>2, <3>4, <3>5 DEF OwnersOf
  <2> QED
    BY <2>3, <2>4
<1> QED
  BY <1>1, <1>2, <1>3, <1>4, <1>5, StepKinds DEF Binds

(* When its body starts, an activation has bound every name it declares. *)
LEMMA EnterCopies ==
  ASSUME Control, ScopesBalanced, EnterBody, NEW i, i = Top, NEW n \in Declared(i)'
  PROVE  n \in Names /\ LastOf(OwnersOf(n)', i, Len(OwnersOf(n))) /\ Len(OwnersOf(n)) \in DOMAIN OwnersOf(n)'
<1>1. Balance /\ TypeOK /\ Top \in Nat \ {0} /\ Top > 1 /\ Act = acts[Top] /\ DOMAIN owner = Names
  BY CtxFacts, EnterActs DEF Balance, Control, TypeOK, Act
<1>2. PICK j \in 1..Act.bound : n = Act.locals[j]
  BY <1>1, EnterActs DEF Declared
<1>3. owner[n] # <<>> /\ Last(owner[n])[1] = Top /\ n \in Names
  <2>1. j \in 1..Len(Act.locals)
    BY <1>1, <1>2, ActFacts DEF EnterBody
  <2>2. n \in Names
    BY <1>1, <1>2, <2>1, ActFacts
  <2> QED
    BY <1>1, <1>2, <2>2, PoppedIsOwn
<1>4. owner[n] \in Seq(Nat \X Nat) /\ OwnersOf(n) = owner[n] /\ OwnersOf(n)' = owner[n]
  BY <1>1, <1>3 DEF TypeOK, OwnersOf, EnterBody, storage
<1>5. PICK o : o = owner[n]
  OBVIOUS
<1>6. o \in Seq(Nat \X Nat) /\ o # <<>> /\ Last(o)[1] = i
  BY <1>3, <1>4, <1>5
<1>7. LastOf(o, i, Len(o)) /\ Len(o) \in DOMAIN o
  BY ONLY <1>6, LastIsLast, SMTT(30)
<1> QED
  BY <1>3, <1>4, <1>5, <1>7

LEMMA NextCopies ==
  ASSUME Control, ScopesBalanced, ReturnsOK, CopiesOK, Next
  PROVE  CopiesOK'
<1>1. Control' /\ Top \in Nat \ {0} /\ DOMAIN acts = 1..Top /\ DOMAIN acts' = 1..Top'
      /\ Visible \in Nat \ {0}
  BY NextControl, CtxFacts, VisibleSteps, SMTT(30) DEF Control, TypeOK, Top
<1>2. ASSUME NEW i \in 1..Top'
      PROVE  acts'[i].bound <= Len(acts'[i].locals)
  <2>1. CASE Inside \/ Fails \/ Units
    BY <1>1, <1>2, <2>1, SameActs DEF CopiesOK
  <2>2. CASE BeginCall
    <3>1. CASE i \in 1..Top
      BY <1>1, <2>2, <3>1, BeginActs DEF CopiesOK
    <3>2. CASE i = Top + 1
      <4>1. acts'[i] \in Activation
        <5>1. acts' \in Seq(Activation) /\ i \in DOMAIN acts'
          BY <1>1, <1>2 DEF Control, TypeOK
        <5> QED
          BY <5>1
      <4>2. Len(acts'[i].locals) \in Nat
        BY <4>1 DEF Activation
      <4> QED
        BY <2>2, <3>2, <4>2, BeginActs
    <3> QED
      BY <1>1, <1>2, <2>2, <3>1, <3>2, BeginActs
  <2>3. CASE BindLocal \/ UnbindLocal \/ EnterBody
    <3>1. Top' = Top /\ Top > 1 /\ \A k \in 1..(Top - 1) : acts'[k] = acts[k]
      BY <2>3, BoundActs, EnterActs
    <3>2. CASE i = Top
      BY <1>1, <2>3, <3>2, BoundActs, EnterActs DEF CopiesOK
    <3>3. CASE i # Top
      <4>1. i \in 1..(Top - 1)
        BY <1>1, <1>2, <3>1, <3>3
      <4> QED
        BY <1>1, <1>2, <3>1, <4>1 DEF CopiesOK
    <3> QED
      BY <3>2, <3>3
  <2>4. CASE LeaveBody \/ UnwindBody
    BY <1>1, <1>2, <2>4, LeaveActs DEF CopiesOK
  <2>5. CASE EndCall
    <3>1. i \in 1..(Top - 1) /\ i \in 1..Top
      BY <1>1, <1>2, <2>5, EndActs
    <3> QED
      BY <1>1, <2>5, <3>1, EndActs DEF CopiesOK
  <2> QED
    BY <2>1, <2>2, <2>3, <2>4, <2>5, Steps DEF Enters, Leaves
<1>3. ASSUME NEW i \in 1..Visible', NEW n \in Declared(i)'
      PROVE  \E k \in DOMAIN OwnersOf(n)' : LastOf(OwnersOf(n)', i, k)
  <2>1. CASE i <= Visible
    <3>1. i \in 1..Visible /\ i \in 1..Top /\ acts'[i] = acts[i]
      BY <1>1, <1>3, <2>1, ActsKept
    <3>2. n \in Declared(i) /\ n \in Names
      <4>1. n \in Declared(i)
        BY <3>1 DEF Declared
      <4>2. CASE i = 1
        BY <4>1, <4>2 DEF Declared
      <4>3. CASE i # 1
        <5>1. PICK j \in 1..acts[i].bound : n = acts[i].locals[j]
          BY <4>1, <4>3 DEF Declared
        <5>2. acts[i] \in Activation
          BY <3>1, CtxFacts, SMTT(30) DEF Control, TypeOK
        <5>3. acts[i].locals \in Seq(Names) /\ acts[i].bound \in Nat /\ acts[i].bound <= Len(acts[i].locals)
          BY <1>1, <3>1, <5>2 DEF Activation, CopiesOK
        <5>4. j \in 1..Len(acts[i].locals)
          BY <5>3
        <5> QED
          BY <4>1, <5>1, <5>3, <5>4
      <4> QED
        BY <4>1, <4>2, <4>3
    <3>3. PICK k \in DOMAIN OwnersOf(n) : LastOf(OwnersOf(n), i, k)
      BY <3>1, <3>2 DEF CopiesOK
    <3>4. LastOf(OwnersOf(n)', i, k)
      BY <3>1, <3>2, <3>3, LastKept
    <3> QED
      BY <3>4 DEF LastOf
  <2>2. CASE ~(i <= Visible)
    <3>1. Visible' \in Int
      <4>1. Top' \in Int
        BY <1>1, CtxFacts DEF Control, TypeOK, Top
      <4> QED
        BY <4>1 DEF Visible
    <3>2. EnterBody /\ Visible' = Top /\ Visible = Top - 1
      BY <1>1, <1>3, <2>2, <3>1, VisibleSteps
    <3>3. i = Top
      BY <1>1, <1>3, <2>2, <3>2
    <3> QED
      BY <1>3, <3>2, <3>3, EnterCopies
  <2> QED
    BY <2>1, <2>2
<1> QED
  BY <1>1, <1>2, <1>3 DEF CopiesOK

-----------------------------------------------------------------------------
(* The inductive invariant, and what follows from it *)

LEMMA InitInductive ==
  ASSUME Init
  PROVE  IInv
<1>1. PICK a : a = [fn |-> Main, locals |-> <<>>, args |-> <<>>, bound |-> 0, saved |-> Unsaved]
  OBVIOUS
<1>2. acts = <<a>> /\ a.fn = Main /\ a.bound = 0 /\ ctx = << <<>> >> /\ mode = "idle"
  BY <1>1 DEF Init
<1>3. Len(acts) = 1 /\ acts[1] = a /\ ctx[1] = <<>>
  BY <1>2
<1>4. Control /\ ScopesBalanced
  BY InitControl, InitBalanced
<1>5. CallStackMatches
  <2>1. Visible - 1 = 0
    BY <1>2, <1>3 DEF Visible, Top
  <2>2. call_stack = <<>> /\ call_stack \in Seq(Functions)
    BY <1>4 DEF Init, Control, TypeOK
  <2> QED
    BY <2>1, <2>2, Listed DEF CallStackMatches
<1>6. UnitsOK /\ FailureOK /\ BreakConfined
  BY <1>2, <1>3 DEF Init, UnitsOK, FailureOK, NoFailure, BreakConfined, Top, Here
<1>7. ReturnsOK /\ PlacesResolved
  <2>1. Visible = 1
    BY <1>2, <1>3 DEF Visible, Top
  <2> QED
    BY <1>3, <2>1 DEF ReturnsOK, PlacesResolved, Init
<1>8. FlagsOK
  BY <1>1, <1>3 DEF FlagsOK, Init, Unsaved
<1>9. CopiesOK
  <2>1. Visible = 1 /\ acts[1].bound <= Len(acts[1].locals)
    BY <1>1, <1>2, <1>3 DEF Visible, Top
  <2>2. ASSUME NEW n \in Names
        PROVE  1 \in DOMAIN OwnersOf(n) /\ LastOf(OwnersOf(n), 1, 1)
    <3>1. OwnersOf(n) = <<Global>>
      BY DEF Init, OwnersOf
    <3> QED
      BY <3>1 DEF LastOf, Global
  <2>3. DOMAIN acts = {1}
    BY <1>3
  <2> QED
    BY <2>1, <2>2, <2>3 DEF CopiesOK, Declared
<1> QED
  BY <1>4, <1>5, <1>6, <1>7, <1>8, <1>9 DEF IInv, Control

LEMMA NextInductive ==
  ASSUME IInv, [Next]_vars
  PROVE  IInv'
<1>1. Control /\ ScopesBalanced
  BY DEF IInv, Control
<1>2. Control' /\ ScopesBalanced'
  BY <1>1, NextControl, NextBalanced
<1>3. CASE Next
  BY <1>1, <1>2, <1>3, NextBreak, NextCallStack, NextUnits, NextFailure, NextReturns, NextFlags, NextPlaces, NextCopies
     DEF IInv, Control
<1>4. CASE UNCHANGED vars
  <2>1. UNCHANGED <<mode, acts, ctx, owner, break_flag, return_flag, return_value, call_stack, failure>>
    BY <1>4 DEF vars, state
  <2>2. BreakConfined' /\ CallStackMatches' /\ UnitsOK' /\ FailureOK'
    BY <2>1
       DEF IInv, BreakConfined, InLoop, Here, Top, CallStackMatches, Visible, UnitsOK, FailureOK, Act
  <2>3. ReturnsOK' /\ FlagsOK'
    BY <2>1 DEF IInv, ReturnsOK, FlagsOK, Visible, Top
  <2>4. PlacesResolved'
    BY <2>1 DEF IInv, PlacesResolved, Resolved, OwnersOf, Visible, Top
  <2>5. CopiesOK'
    BY <2>1, SMTT(30) DEF IInv, CopiesOK, Declared, OwnersOf, Visible, Top
  <2> QED
    BY <1>2, <2>2, <2>3, <2>4, <2>5 DEF IInv, Control
<1> QED
  BY <1>3, <1>4

(* All of the invariant the runs check. *)
THEOREM Inductive == Spec => []IInv
<1>1. Init => IInv
  BY InitInductive
<1>2. IInv /\ [Next]_vars => IInv'
  BY NextInductive
<1> QED
  BY <1>1, <1>2, PTL DEF Spec

(* A pending `break` can only end a loop of the function it was executed in: no call, value *)
(* or return gets in between, although eval.rs keeps one flag for all of them (626, 655).   *)
THEOREM BreaksStayInLoops == Spec => []BreakConfined
<1>1. IInv => BreakConfined
  BY DEF IInv
<1> QED
  BY <1>1, Inductive, PTL

(* A jump that is pending leaves everything alone until its construct takes it: control only *)
(* moves outwards through statements, a loop stops at a `break`, and a body that a `return`   *)
(* leaves hands on the value it gave (eval.rs 533-541, 594-671).                              *)
THEOREM JumpsAreStraight == Spec => JumpsGoStraight
<1> DEFINE Straight ==
      /\ break_flag => mode' = "stmt"
      /\ return_flag =>
           \/ mode' = "stmt" /\ return_flag' /\ return_value' = return_value
           \/ mode' = "unbind" /\ val' = return_value
      /\ break_flag \/ return_flag => UNCHANGED <<storage, functions, failure>>
<1>1. IInv /\ [Next]_vars => [Straight]_vars
  <2> SUFFICES ASSUME IInv, Next
               PROVE  Straight
    BY Zenon
  <2>1. TypeOK /\ Top \in Nat \ {0}
    BY CtxFacts DEF IInv
  <2>2. CASE ~break_flag /\ ~return_flag
    BY <2>2
  <2>3. ASSUME break_flag \/ return_flag
        PROVE  Straight
    <3>1. mode = "stmt" /\ ~StartStatement
      BY <2>3 DEF IInv, BreakConfined, FlagsOK, StartStatement, ShouldAbort
    <3>2. break_flag => Here # <<>>
      BY CtxFacts DEF IInv, BreakConfined, InLoop
    <3>3. Here = <<>> => Top # 1
      BY <2>3, <3>1, <3>2 DEF IInv, ReturnsOK, Visible
    <3>4. CASE EndBlock
      BY <3>1, <3>4 DEF EndBlock, jumps
    <3>5. CASE EndLoopBody
      BY <2>3, <3>1, <3>5 DEF EndLoopBody, LoopPostBody
    <3>6. CASE LeaveBody
      BY <3>2, <3>6 DEF LeaveBody, DropGuard
    <3>7. EndBlock \/ EndLoopBody \/ LeaveBody
      <4>1. ~(StartUnit \/ EndUnit \/ FailUnit \/ \E f \in Functions, h \in Headers : Define(f, h))
        BY <3>1, <3>3 DEF StartUnit, EndUnit, FailUnit, Define
      <4>2. Execute => EndBlock \/ EndLoopBody
        BY <3>1 DEF Execute, ExecExpr, ExecBlock, ExecBreak, ExecReturn, ExecReturnExpr, ExecIf, ExecLoop
      <4>3. ~Evaluate
        BY <3>1 DEF Evaluate, Literal, FailExpr, ReadRegister, ReadVariable, EvalOperation,
           EvalSubscript, EvalAssign, EvalUpdate
      <4>4. Call => LeaveBody
        BY <3>1 DEF Call, EvalCall, ScalarArg, MismatchedArg, BeginCall, BindLocal, EnterBody, ArrayArg,
           UnwindBody, UnbindLocal, EndCall
      <4>5. ~Use
        BY <3>1 DEF Use, Consume, UseDiscard, UseReturn, UseIf, UseLoop, UseOperand, UseArg, UseIndexRead,
           UseIndexUpdate, UseIndexAssign, BadIndex, UseRhs, FailOperation
      <4> QED
        BY <4>1, <4>2, <4>3, <4>4, <4>5 DEF Next
    <3> QED
      BY <3>4, <3>5, <3>6, <3>7
  <2> QED
    BY <2>2, <2>3
<1> QED
  BY <1>1, Inductive, PTL DEF Spec, JumpsGoStraight

(* The call stack of a diagnostic is exactly the functions whose bodies are executing, even *)
(* while a call is binding its parameters or a failed one is being unwound.                 *)
THEOREM CallStackIsExact == Spec => []CallStackMatches
<1>1. IInv => CallStackMatches
  BY DEF IInv
<1> QED
  BY <1>1, Inductive, PTL

(* The function an error is reported against is the one that raised it, however many callers *)
(* it passes on its way to the driver (error.rs in_function).                                *)
THEOREM ErrorsKeepTheirOrigin == Spec => []ErrorAttributed
<1>1. ASSUME IInv
      PROVE  ErrorAttributed
  <2>1. Top = 1 => Act.fn = Main
    BY <1>1 DEF IInv, UnitsOK, Act
  <2> QED
    BY <1>1, <2>1 DEF IInv, FailureOK, ErrorAttributed
<1> QED
  BY <1>1, Inductive, PTL

(* An assignment whose right-hand side calls functions stores into the frame its target had *)
(* when it was resolved: the calls have popped their own frames and only those, and store,  *)
(* which takes the frame now on top of the stack, finds it there (eval.rs 405, 438).        *)
THEOREM AssignmentsKeepTheirPlace == Spec => []StoresWhereResolved
<1>1. ASSUME IInv, mode = "value", InInner({"rhs"})
      PROVE  PlaceFrame(Inner.place) = Inner.frame
  <2>1. Balance /\ Top \in Nat \ {0} /\ TypeOK
    BY <1>1, CtxFacts DEF IInv, Balance
  <2>2. /\ Inner = Here[Len(Here)] /\ Inner.kind = "rhs" /\ Inner.place \in Place
        /\ Len(Here) \in DOMAIN Here /\ Visible = Top
    BY <1>1, <2>1, InnerFacts, InnerFields, CtxFacts DEF Visible
  <2>3. Resolved(Inner, Top)
    BY <1>1, <2>1, <2>2 DEF IInv, PlacesResolved, Here
  <2>4. CASE Inner.place.kind = "register"
    BY <2>3, <2>4 DEF Resolved, PlaceFrame
  <2>5. CASE Inner.place.kind = "cell"
    <3>1. PICK n, o : n = Inner.place.name /\ o = OwnersOf(n)
      OBVIOUS
    <3>2. n \in Names /\ Held(Inner.frame, Top, o)
      BY <2>2, <2>3, <2>5, <3>1, PlaceFacts DEF Resolved
    <3>3. o \in Seq(Nat \X Nat) /\ o # <<>> /\ Last(o)[1] <= Top
      BY <2>1, <3>1, <3>2, OwnersLive
    <3>4. Inner.frame = Last(o)
      BY <2>1, <3>2, <3>3, HeldTop
    <3> QED
      BY <2>5, <3>1, <3>4 DEF PlaceFrame
  <2> QED
    BY <2>2, <2>4, <2>5, PlaceFacts
<1>2. IInv => StoresWhereResolved
  BY <1>1 DEF StoresWhereResolved
<1> QED
  BY <1>2, Inductive, PTL

(* However a unit ended - its last statement, an error in nested calls, a panic - the next  *)
(* one starts with no activation, no pending jump, an empty call stack, a clean return      *)
(* state and only the top-level frame of each name.                                         *)
THEOREM UnitsStartClean == Spec => []CleanBetweenUnits
<1>1. ASSUME IInv, mode = "idle"
      PROVE  /\ Top = 1 /\ Here = <<>> /\ call_stack = <<>> /\ failure = NoFailure
             /\ ~break_flag /\ ~return_flag /\ return_value = 0
             /\ \A n \in Names : Len(scopes[n]) <= 1
  <2>1. Top = 1 /\ Here = <<>> /\ Visible = 1 /\ acts[1].bound = 0
    BY <1>1 DEF IInv, UnitsOK, Visible
  <2>2. call_stack = <<>>
    <3>1. call_stack \in Seq(Functions) /\ Visible - 1 = 0
      BY <1>1, <2>1 DEF IInv, TypeOK
    <3>2. Len(call_stack) = 0
      BY <1>1, <3>1, Listed DEF IInv, CallStackMatches
    <3> QED
      BY <3>1, <3>2
  <2>3. failure = NoFailure /\ ~break_flag /\ ~return_flag /\ return_value = 0
    BY <1>1, <2>1 DEF IInv, FailureOK, ModesOK, BreakConfined, ReturnsOK
  <2>4. ASSUME NEW n \in Names
        PROVE  Len(scopes[n]) <= 1
    <3>1. PICK o, N : o = owner[n] /\ N = Len(o)
      OBVIOUS
    <3>2. o \in Seq(Nat \X Nat) /\ N \in Nat /\ DOMAIN o = 1..N /\ N = Len(scopes[n])
      BY <1>1, <3>1, SMTT(30) DEF IInv, TypeOK, ScopesBalanced
    <3>3. SUFFICES ASSUME N > 1
                   PROVE  FALSE
      BY <3>2, <3>3
    <3>4. 1 \in DOMAIN o /\ 2 \in DOMAIN o /\ 2 \in 2..N /\ o # <<>> /\ o[2] \in Nat \X Nat
      BY <3>2, <3>3
    <3>5. o[1] = Global /\ Earlier(o[1], o[2])
      <4>1. \A k, m \in DOMAIN o : k < m => Earlier(o[k], o[m])
        BY <1>1, <3>1 DEF IInv, ScopesBalanced
      <4>2. o[1] = Global
        BY <1>1, <3>1, <3>4 DEF IInv, ScopesBalanced
      <4> QED
        BY <3>4, <4>1, <4>2
    <3>6. o[2][1] <= 1 /\ o[2][2] \in 1..acts[o[2][1]].bound
      BY <1>1, <2>1, <3>1, <3>2, <3>4 DEF IInv, ScopesBalanced
    <3>7. o[2][1] = 1
      BY <3>4, <3>5, <3>6 DEF Earlier, Global
    <3> QED
      BY <2>1, <3>6, <3>7
  <2> QED
    BY <2>1, <2>2, <2>3, <2>4
<1>2. IInv => CleanBetweenUnits
  BY <1>1 DEF CleanBetweenUnits
<1> QED
  BY <1>2, Inductive, PTL
-----------------------------------------------------------------------------
(* Evaluator implements DynamicScope: a stack per name and one pair of return registers,    *)
(* saved around each call, behave as an environment per activation.                         *)

(* The parts of an activation's environment. *)
LocalsOf(i)   == [n \in Declared(i) |-> CopyOf(n, i)]
ReturnedOf(i) == IF i = Visible THEN return_flag ELSE acts[i + 1].saved.flag
ResultOf(i)   == IF i = Visible THEN return_value ELSE acts[i + 1].saved.value

LEMMA Parts ==
  ASSUME NEW i
  PROVE  EnvironmentOf(i) = [locals |-> LocalsOf(i), returned |-> ReturnedOf(i), result |-> ResultOf(i)]
BY DEF EnvironmentOf, LocalsOf, ReturnedOf, ResultOf

LEMMA PartsNext ==
  ASSUME NEW i
  PROVE  EnvironmentOf(i)' =
           [locals |-> LocalsOf(i)', returned |-> ReturnedOf(i)', result |-> ResultOf(i)']
BY DEF EnvironmentOf, LocalsOf, ReturnedOf, ResultOf

LEMMA SameLocals ==
  ASSUME NEW i, Declared(i)' = Declared(i), \A n \in Declared(i) : CopyOf(n, i)' = CopyOf(n, i)
  PROVE  LocalsOf(i)' = LocalsOf(i)
BY DEF LocalsOf

(* The proof's hypotheses about a state. *)
Good == Control /\ ScopesBalanced /\ ReturnsOK /\ FlagsOK /\ CopiesOK

LEMMA GoodInv ==
  ASSUME IInv
  PROVE  Good
BY DEF IInv, Good, Control

(* The copy of a name an activation has is the one its last frame holds. *)
LEMMA ChosenLast ==
  ASSUME NEW o \in Seq(Nat \X Nat), NEW i, NEW k, LastOf(o, i, k)
  PROVE  (CHOOSE q \in DOMAIN o : LastOf(o, i, q)) = k
<1>1. DOMAIN o = 1..Len(o) /\ Len(o) \in Nat
  OBVIOUS
<1>2. ASSUME NEW q \in DOMAIN o, LastOf(o, i, q)
      PROVE  q = k
  <2>1. q <= k /\ k <= q /\ q \in Int /\ k \in Int
    BY <1>1, <1>2 DEF LastOf
  <2> QED
    BY <2>1
<1>3. k \in DOMAIN o
  BY DEF LastOf
<1> QED
  BY <1>2, <1>3

CopyIn(n, s, o, i) ==
  IF s = <<>> THEN ZeroFrame(n) ELSE s[CHOOSE k \in DOMAIN o : LastOf(o, i, k)]

LEMMA CopyOfIn ==
  ASSUME NEW n, NEW i
  PROVE  /\ CopyOf(n, i) = CopyIn(n, scopes[n], owner[n], i)
         /\ CopyOf(n, i)' = CopyIn(n, scopes'[n], owner'[n], i)
BY Zenon DEF CopyOf, CopyIn

LEMMA ChosenCopy ==
  ASSUME NEW n, NEW s \in Seq(Frame(n)), NEW o \in Seq(Nat \X Nat), Len(o) = Len(s),
         NEW S, S = (IF s = <<>> THEN <<ZeroFrame(n)>> ELSE s),
         NEW O, O = (IF o = <<>> THEN <<Global>> ELSE o), NEW i, NEW k, LastOf(O, i, k)
  PROVE  CopyIn(n, s, o, i) = S[k] /\ k \in 1..Len(S) /\ Len(S) = Len(O)
<1>1. CASE s = <<>>
  <2>1. o = <<>>
    BY <1>1
  <2>2. k = 1
    BY <2>1 DEF LastOf
  <2> QED
    BY <1>1, <2>1, <2>2 DEF CopyIn
<1>2. CASE s # <<>>
  <2>1. o # <<>> /\ O = o /\ S = s
    BY <1>2
  <2>2. (CHOOSE q \in DOMAIN o : LastOf(o, i, q)) = k
    BY <2>1, ChosenLast
  <2>3. k \in 1..Len(o)
    BY <2>1 DEF LastOf
  <2>4. CopyIn(n, s, o, i) = s[CHOOSE q \in DOMAIN o : LastOf(o, i, q)]
    BY <1>2, Zenon DEF CopyIn
  <2> QED
    BY <2>1, <2>2, <2>3, <2>4
<1> QED
  BY <1>1, <1>2

LEMMA CopyIs ==
  ASSUME Balance, NEW n \in Names, NEW i, NEW k, LastOf(OwnersOf(n), i, k)
  PROVE  /\ CopyOf(n, i) = StackOf(n)[k] /\ k \in 1..Len(StackOf(n))
         /\ Len(StackOf(n)) = Len(OwnersOf(n)) /\ StackOf(n)[k] \in Frame(n)
<1>1. PICK s, o, S, O : s = scopes[n] /\ o = owner[n] /\ S = StackOf(n) /\ O = OwnersOf(n)
  OBVIOUS
<1>2. /\ s \in Seq(Frame(n)) /\ o \in Seq(Nat \X Nat) /\ Len(o) = Len(s)
      /\ S = (IF s = <<>> THEN <<ZeroFrame(n)>> ELSE s) /\ O = (IF o = <<>> THEN <<Global>> ELSE o)
  BY <1>1 DEF Balance, TypeOK, ScopesBalanced, OwnersOf, StackOf
<1>3. CopyIn(n, s, o, i) = S[k] /\ k \in 1..Len(S) /\ Len(S) = Len(O)
  BY SMTT(30), <1>1, <1>2, ChosenCopy
<1>4. CopyOf(n, i) = CopyIn(n, s, o, i)
  BY <1>1, CopyOfIn
<1>5. S \in Seq(Frame(n))
  BY <1>1, StackTyped DEF Balance
<1> QED
  BY <1>1, <1>3, <1>4, <1>5

LEMMA CopyIsNext ==
  ASSUME Balance', NEW n \in Names, NEW i, NEW k, LastOf(OwnersOf(n)', i, k)
  PROVE  CopyOf(n, i)' = StackOf(n)'[k]
<1>1. PICK s, o, S, O : s = scopes'[n] /\ o = owner'[n] /\ S = StackOf(n)' /\ O = OwnersOf(n)'
  OBVIOUS
<1>2. /\ s \in Seq(Frame(n)) /\ o \in Seq(Nat \X Nat) /\ Len(o) = Len(s)
      /\ S = (IF s = <<>> THEN <<ZeroFrame(n)>> ELSE s) /\ O = (IF o = <<>> THEN <<Global>> ELSE o)
  BY <1>1 DEF Balance, TypeOK, ScopesBalanced, OwnersOf, StackOf
<1>3. CopyIn(n, s, o, i) = S[k]
  BY <1>1, <1>2, ChosenCopy, SMTT(30)
<1>4. CopyOf(n, i)' = CopyIn(n, s, o, i)
  BY <1>1, CopyOfIn
<1> QED
  BY <1>1, <1>3, <1>4

-----------------------------------------------------------------------------
(* What the steps do to the copies *)

Keeps == UNCHANGED scopes \/ UsesName \/ (Binds /\ Next)

(* A step that stores nothing leaves the frames of the visible activations as they are. *)
LEMMA FrameKept ==
  ASSUME Good, Keeps, NEW n \in Names, NEW i \in 1..Visible,
         NEW k, LastOf(OwnersOf(n), i, k)
  PROVE  StackOf(n)'[k] = StackOf(n)[k]
<1>1. Balance /\ TypeOK /\ Top \in Nat \ {0} /\ Control /\ DOMAIN scopes = Names
  BY CtxFacts DEF Balance, Good, Control, TypeOK
<1>2. k \in 1..Len(StackOf(n)) /\ StackOf(n) \in Seq(Frame(n))
  BY <1>1, CopyIs, StackTyped
<1>3. CASE UNCHANGED scopes
  BY <1>3 DEF StackOf
<1>4. CASE UsesName
  <2>1. PICK m \in Names : Touch(m)
    BY <1>4 DEF UsesName
  <2>2. scopes' = [scopes EXCEPT ![m] = StackOf(m)] /\ StackOf(m) # <<>>
    BY <1>1, <2>1, StackTyped DEF Touch, SetStack
  <2> QED
    BY <1>1, <2>2 DEF StackOf
<1>5. CASE BeginCall \/ EndCall
  BY <1>5 DEF BeginCall, EndCall, storage, StackOf
<1>6. CASE BindLocal
  <2>1. PICK j, m, f : /\ j = Act.bound + 1 /\ m = Act.locals[j]
                       /\ f = IF j <= Len(Act.args) THEN Act.args[j] ELSE ZeroFrame(m)
    OBVIOUS
  <2>2. scopes' = [scopes EXCEPT ![m] = Append(StackOf(m), f)]
    BY <1>6, <2>1 DEF BindLocal, SetStack
  <2>3. CASE m # n
    BY <1>1, <2>2, <2>3 DEF StackOf
  <2>4. CASE m = n
    <3>1. PICK s, t : s = StackOf(n) /\ t = Append(s, f)
      OBVIOUS
    <3>2. t # <<>> /\ t[k] = s[k]
      BY <1>2, <3>1
    <3>3. scopes'[n] = t
      BY <1>1, <2>2, <2>4, <3>1
    <3> QED
      BY <3>1, <3>2, <3>3 DEF StackOf
  <2> QED
    BY <2>3, <2>4
<1>7. CASE UnbindLocal
  <2>1. PICK m : m = Act.locals[Act.bound]
    OBVIOUS
  <2>2. scopes' = [scopes EXCEPT ![m] = Front(scopes[m])] /\ Act.bound > 0 /\ Act.bound \in Nat /\ i # Top
    BY <1>1, <1>7, <2>1, ActFacts, BoundActs DEF UnbindLocal, SetStack
  <2>3. CASE m # n
    BY <1>1, <2>2, <2>3 DEF StackOf
  <2>4. CASE m = n
    <3>1. Act.bound \in 1..Act.bound
      BY <2>2
    <3>2. owner[n] # <<>> /\ Front(owner[n]) # <<>> /\ Last(owner[n])[1] = Top
      BY <1>1, <2>1, <2>4, <3>1, PoppedIsOwn
    <3>3. owner[n] \in Seq(Nat \X Nat) /\ OwnersOf(n) = owner[n]
      BY <1>1, <3>2 DEF TypeOK, OwnersOf
    <3>4. LastOf(Front(owner[n]), i, k)
      BY <1>1, <2>2, <3>2, <3>3, LastPop
    <3>5. k \in 1..(Len(owner[n]) - 1)
      BY <3>2, <3>3, <3>4, OwnersFacts DEF LastOf
    <3>6. PICK s, t : s = scopes[n] /\ t = Front(s)
      OBVIOUS
    <3>7. s \in Seq(Frame(n)) /\ Len(s) = Len(owner[n])
      BY <1>1, <3>6 DEF Balance, TypeOK, ScopesBalanced
    <3>8. s # <<>>
      BY <3>5, <3>7
    <3>9. Len(t) = Len(s) - 1 /\ \A q \in 1..(Len(s) - 1) : t[q] = s[q]
      BY <3>6, <3>7, <3>8, FrontProps
    <3>10. t[k] = s[k] /\ t # <<>>
      BY <3>5, <3>7, <3>9
    <3>11. scopes'[n] = t
      BY <1>1, <2>2, <2>4, <3>6
    <3> QED
      BY <3>6, <3>8, <3>10, <3>11 DEF StackOf
  <2> QED
    BY <2>3, <2>4
<1> QED
  BY <1>3, <1>4, <1>5, <1>6, <1>7 DEF Keeps, Binds

LEMMA DeclaredNames ==
  ASSUME Good, NEW i \in 1..Visible, NEW n \in Declared(i)
  PROVE  n \in Names /\ \E k : LastOf(OwnersOf(n), i, k)
<1>1. Top \in Nat \ {0} /\ i \in 1..Top /\ TypeOK
  BY CtxFacts DEF Good, Control, Visible
<1>2. CASE i = 1
  BY <1>2 DEF Good, Declared, CopiesOK
<1>3. CASE i # 1
  <2>1. PICK j \in 1..acts[i].bound : n = acts[i].locals[j]
    BY <1>3 DEF Declared
  <2>2. acts[i] \in Activation
    BY <1>1, CtxFacts DEF TypeOK
  <2>3. acts[i].locals \in Seq(Names) /\ acts[i].bound \in Nat /\ acts[i].bound <= Len(acts[i].locals)
    BY <1>1, <2>2, CtxFacts DEF Activation, CopiesOK, Good
  <2>4. j \in 1..Len(acts[i].locals)
    BY <2>3
  <2> QED
    BY SMTT(30), <2>1, <2>3, <2>4 DEF Good, CopiesOK
<1> QED
  BY <1>2, <1>3

LEMMA DeclaredKept ==
  ASSUME Good, Next, NEW i \in 1..Visible, i <= Visible'
  PROVE  Declared(i)' = Declared(i)
BY ActsKept DEF Good, Declared

LEMMA LocalsKept ==
  ASSUME Good, Good', Next, Keeps, NEW i \in 1..Visible, i <= Visible'
  PROVE  LocalsOf(i)' = LocalsOf(i)
<1>1. Balance /\ Balance' /\ Control /\ ScopesBalanced
  BY DEF Good, Control, Balance
<1>2. ASSUME NEW n \in Declared(i)
      PROVE  CopyOf(n, i)' = CopyOf(n, i)
  <2>1. n \in Names
    BY <1>2, DeclaredNames
  <2>2. PICK k : LastOf(OwnersOf(n), i, k)
    BY <1>2, DeclaredNames
  <2>3. LastOf(OwnersOf(n)', i, k) /\ StackOf(n)'[k] = StackOf(n)[k]
    BY <1>1, <2>1, <2>2, LastKept, FrameKept
  <2> QED
    BY <1>1, <2>1, <2>2, <2>3, CopyIs, CopyIsNext
<1> QED
  BY <1>2, DeclaredKept, SameLocals

-----------------------------------------------------------------------------
(* The environments as a sequence *)

LEMMA VisibleNat ==
  ASSUME Good'
  PROVE  Visible' \in Nat \ {0}
<1>1. PICK s : s = acts'
  OBVIOUS
<1>2. s \in Seq(Activation) /\ s # <<>> /\ Top' = Len(s)
  BY <1>1 DEF Good, Control, TypeOK, Top
<1>3. Len(s) \in Nat \ {0}
  BY <1>2
<1>4. mode' \in {"bind", "unbind"} => Top' > 1
  BY DEF Good, Control, ModesOK
<1> QED
  BY <1>2, <1>3, <1>4 DEF Visible

LEMMA EnvSeq ==
  ASSUME Good
  PROVE  /\ Visible \in Nat \ {0} /\ Env \in Seq({EnvironmentOf(i) : i \in 1..Visible})
         /\ Len(Env) = Visible /\ \A i \in 1..Visible : Env[i] = EnvironmentOf(i)
<1>1. Visible \in Nat \ {0}
  BY CtxFacts DEF Good, Control, Visible, ModesOK
<1> QED
  BY <1>1 DEF Env

LEMMA SavedKept ==
  ASSUME Good, Good', Next, NEW i \in 1..Visible, i < Visible, i < Visible'
  PROVE  ReturnedOf(i)' = ReturnedOf(i) /\ ResultOf(i)' = ResultOf(i)
<1>1. Visible \in Nat \ {0} /\ i \in Nat /\ Visible' \in Nat
  BY EnvSeq, VisibleNat
<1>2. PICK j : j = i + 1
  OBVIOUS
<1>3. j \in 1..Visible /\ j <= Visible'
  BY <1>1, <1>2
<1>4. acts'[j] = acts[j]
  BY <1>3, ActsKept DEF Good
<1> QED
  BY <1>1, <1>2, <1>4 DEF ReturnedOf, ResultOf

LEMMA SavedTyped ==
  ASSUME NEW s \in Seq(Activation), NEW j \in 1..Len(s)
  PROVE  s[j].saved.flag \in BOOLEAN /\ s[j].saved.value \in Values
<1>1. s[j] \in Activation
  OBVIOUS
<1> QED
  BY <1>1 DEF Activation

LEMMA ReturnTyped ==
  ASSUME Good, NEW i \in 1..Visible
  PROVE  ReturnedOf(i) \in BOOLEAN /\ ResultOf(i) \in Values
<1>1. Visible \in Nat \ {0} /\ Visible <= Len(acts) /\ Len(acts) \in Nat
  <2>1. Visible \in Nat \ {0} /\ Top \in Nat \ {0}
    BY EnvSeq, CtxFacts DEF Good, Control
  <2> QED
    BY <2>1 DEF Visible, Top
<1>2. CASE i = Visible
  BY <1>2 DEF ReturnedOf, ResultOf, Good, Control, TypeOK
<1>3. CASE i # Visible
  <2>1. PICK j : j = i + 1
    OBVIOUS
  <2>2. j \in 1..Len(acts)
    BY <1>1, <1>3, <2>1
  <2>3. acts[j].saved.flag \in BOOLEAN /\ acts[j].saved.value \in Values
    BY <2>2, SavedTyped DEF Good, Control, TypeOK
  <2> QED
    BY <1>3, <2>1, <2>3 DEF ReturnedOf, ResultOf
<1> QED
  BY <1>2, <1>3

LEMMA ReturnTypedNext ==
  ASSUME Good', NEW i \in 1..Visible'
  PROVE  ReturnedOf(i)' \in BOOLEAN /\ ResultOf(i)' \in Values
<1>1. PICK s : s = acts'
  OBVIOUS
<1>2. s \in Seq(Activation) /\ Visible' \in Nat \ {0} /\ Top' = Len(s)
  BY <1>1, VisibleNat DEF Good, Control, TypeOK, Top
<1>3. Visible' <= Len(s) /\ Len(s) \in Nat
  BY <1>2 DEF Visible
<1>4. CASE i = Visible'
  BY <1>4 DEF ReturnedOf, ResultOf, Good, Control, TypeOK
<1>5. CASE i # Visible'
  <2>1. PICK j : j = i + 1
    OBVIOUS
  <2>2. j \in 1..Len(s)
    BY <1>2, <1>3, <1>5, <2>1
  <2>3. s[j].saved.flag \in BOOLEAN /\ s[j].saved.value \in Values
    BY <1>2, <2>2, SavedTyped
  <2> QED
    BY <1>1, <1>5, <2>1, <2>3 DEF ReturnedOf, ResultOf
<1> QED
  BY <1>4, <1>5

LEMMA EnvNext ==
  Env' = [i \in 1..Visible' |-> EnvironmentOf(i)']
BY DEF Env

LEMMA ScopeRunning ==
  ASSUME Good, ~return_flag
  PROVE  Scope!Running
<1>1. Visible \in Nat \ {0} /\ Len(Env) = Visible /\ Env[Visible] = EnvironmentOf(Visible)
  BY EnvSeq
<1>2. EnvironmentOf(Visible).returned = return_flag
  BY Parts DEF ReturnedOf
<1> QED
  BY <1>1, <1>2 DEF Scope!Running, Scope!Last, Last

-----------------------------------------------------------------------------
(* The steps, seen from the environments *)

LEMMA ReturnChanges ==
  ASSUME Next, ~UNCHANGED <<return_flag, return_value>>
  PROVE  ExecReturn \/ UseReturn \/ EnterBody \/ LeaveBody \/ UnwindBody \/ FailUnit
<1>1. CASE StartUnit \/ EndUnit \/ FailUnit \/ \E f \in Functions, h \in Headers : Define(f, h)
  BY <1>1 DEF StartUnit, EndUnit, Define, state, jumps
<1>2. CASE Execute
  BY <1>2
     DEF Execute, ExecExpr, ExecBlock, EndBlock, ExecBreak, ExecReturnExpr, ExecIf, ExecLoop,
         EndLoopBody, jumps
<1>3. CASE Evaluate
  BY <1>3
     DEF Evaluate, Literal, FailExpr, Raise, ReadRegister, ReadVariable, EvalOperation, EvalSubscript,
         EvalAssign, EvalUpdate, jumps
<1>4. CASE Call
  BY <1>4
     DEF Call, EvalCall, ScalarArg, MismatchedArg, Raise, BeginCall, BindLocal, ArrayArg,
         UnbindLocal, EndCall, jumps, state
<1>5. CASE Use
  BY <1>5
     DEF Use, UseDiscard, UseIf, UseLoop, UseOperand, UseArg, UseIndexRead,
         UseIndexUpdate, UseIndexAssign, BadIndex, UseRhs, FailOperation, Raise, jumps
<1> QED
  BY <1>1, <1>2, <1>3, <1>4, <1>5 DEF Next

LEMMA VisibleSame ==
  ASSUME Good, Next, ~(EnterBody \/ LeaveBody \/ UnwindBody)
  PROVE  Visible' = Visible
BY SameActs, BeginActs, BoundActs, EndActs, Steps DEF Good, Enters, Leaves

(* Only expressions store values. *)
LEMMA Storing ==
  ASSUME TypeOK, Next
  PROVE  Keeps \/ (StoresValue /\ mode \in {"expr", "value"})
<1>1. Evaluate => mode = "expr"
  BY DEF Evaluate, Literal, FailExpr, ReadRegister, ReadVariable, EvalOperation, EvalSubscript,
         EvalAssign, EvalUpdate
<1>2. Use => mode = "value"
  BY DEF Use, Consume, UseDiscard, UseReturn, UseIf, UseLoop, UseOperand, UseArg, UseIndexRead,
         UseIndexUpdate, UseIndexAssign, BadIndex, UseRhs, FailOperation
<1> QED
  BY <1>1, <1>2, UnitKinds, ExecuteKinds, EvaluateKinds, CallKinds, UseKinds DEF Next, Keeps, NoStorage

LEMMA SilentStep ==
  ASSUME Good, Good', Next, Keeps, Visible' = Visible,
         UNCHANGED <<return_flag, return_value>>
  PROVE  Env' = Env
<1>1. Visible \in Nat \ {0}
  BY EnvSeq
<1>2. ASSUME NEW i \in 1..Visible
      PROVE  EnvironmentOf(i)' = EnvironmentOf(i)
  <2>1. LocalsOf(i)' = LocalsOf(i)
    BY <1>1, <1>2, LocalsKept
  <2>2. ReturnedOf(i)' = ReturnedOf(i) /\ ResultOf(i)' = ResultOf(i)
    <3>1. CASE i = Visible
      BY <3>1 DEF ReturnedOf, ResultOf
    <3>2. CASE i # Visible
      <4>1. i < Visible /\ i < Visible'
        BY <1>1, <1>2, <3>2
      <4> QED
        BY <4>1, SavedKept
    <3> QED
      BY <3>1, <3>2
  <2> QED
    BY <2>1, <2>2, Parts, PartsNext
<1> QED
  BY <1>2, EnvNext DEF Env

(* Setting the return state of the last environment. *)
EnvsOf(N, K) == [1..N -> [locals : K, returned : BOOLEAN, result : Values]]

LEMMA LastReturns ==
  ASSUME NEW K, NEW N \in Nat \ {0}, NEW e \in EnvsOf(N, K), NEW f \in EnvsOf(N, K),
         \A i \in 1..(N - 1) : f[i] = e[i], NEW v \in Values,
         f[N].locals = e[N].locals, f[N].returned = TRUE, f[N].result = v
  PROVE  f = [e EXCEPT ![N].returned = TRUE, ![N].result = v]
<1>1. PICK R : R = [locals : K, returned : BOOLEAN, result : Values]
  OBVIOUS
<1>. e \in [1..N -> R] /\ f \in [1..N -> R]
  BY <1>1 DEF EnvsOf
<1>2. PICK a, b, c : a = e[N] /\ b = [a EXCEPT !.returned = TRUE] /\ c = [b EXCEPT !.result = v]
  OBVIOUS
<1>3. a \in R /\ b \in R /\ c \in R
  <2>1. N \in 1..N
    OBVIOUS
  <2>2. a \in R
    BY <1>1, <1>2, <2>1
  <2>3. b \in R
    BY <1>1, <1>2, <2>2
  <2> QED
    BY <1>1, <1>2, <2>2, <2>3
<1>4. c.locals = a.locals /\ c.returned = TRUE /\ c.result = v
  BY <1>1, <1>2, <1>3
<1>5. f[N] = c
  <2>1. f[N] \in R
    BY <1>1
  <2> QED
    BY <1>1, <1>2, <1>3, <1>4, <2>1
<1>6. PICK g : g = [e EXCEPT ![N].returned = TRUE]
  OBVIOUS
<1>7. g = [e EXCEPT ![N] = b]
  BY <1>2, <1>6
<1>8. [g EXCEPT ![N].result = v] = [g EXCEPT ![N] = c]
  BY <1>2, <1>7
<1>9. f = [[e EXCEPT ![N] = b] EXCEPT ![N] = c]
  <2>1. \A i \in 1..N : i # N => f[i] = e[i]
    OBVIOUS
  <2> QED
    BY <1>5, <2>1
<1> QED
  BY <1>6, <1>7, <1>8, <1>9

LEMMA ReturnStep ==
  ASSUME Good, Good', Next, ExecReturn \/ UseReturn
  PROVE  \E v \in Values : Scope!Return(v)
<1>1. Inside /\ Keeps
  <2>1. CASE ExecReturn
    BY <2>1, ExecuteInside DEF Execute, Good, Control, ExecReturn, storage, Keeps
  <2>2. CASE UseReturn
    <3>1. Inside \/ Fails
      BY <2>2, UseInside DEF Use, Good
    <3>2. ~Fails
      BY <2>2 DEF Fails, Raise, UseReturn
    <3> QED
      BY <2>2, <3>1, <3>2 DEF UseReturn, storage, Keeps
  <2> QED
    BY <2>1, <2>2
<1>2. Visible = Top /\ Visible' = Visible /\ acts' = acts
  BY <1>1, SameActs DEF Good
<1>3. PICK v \in Values : return_flag' = TRUE /\ return_value' = v
  BY ConstantsOK DEF ExecReturn, UseReturn, Good, Control, TypeOK
<1>4. ~return_flag
  BY DEF ExecReturn, StartStatement, ShouldAbort, UseReturn, Consume, Good, FlagsOK
<1>5. Visible > 1
  <2>1. CASE ExecReturn
    BY <1>2, <2>1 DEF ExecReturn
  <2>2. CASE UseReturn
    <3>1. Visible # 1
      BY <1>3, <1>2 DEF Good, ReturnsOK
    <3> QED
      BY <3>1, EnvSeq
  <2> QED
    BY <2>1, <2>2
<1>6. PICK e, f, N : e = Env /\ f = Env' /\ N = Visible
  OBVIOUS
<1>7. /\ N \in Nat \ {0} /\ N > 1 /\ Len(e) = N /\ e = [i \in 1..N |-> EnvironmentOf(i)]
      /\ f = [i \in 1..N |-> EnvironmentOf(i)']
      /\ \A i \in 1..N : e[i] = EnvironmentOf(i) /\ f[i] = EnvironmentOf(i)'
  BY <1>2, <1>5, <1>6, EnvSeq, EnvNext DEF Env
<1>8. ASSUME NEW i \in 1..(N - 1)
      PROVE  f[i] = e[i]
  <2>1. i \in 1..Visible /\ i < Visible /\ i < Visible' /\ i <= Visible' /\ i \in 1..N
    BY <1>2, <1>6, <1>7
  <2>2. LocalsOf(i)' = LocalsOf(i) /\ ReturnedOf(i)' = ReturnedOf(i) /\ ResultOf(i)' = ResultOf(i)
    BY <1>1, <2>1, LocalsKept, SavedKept
  <2> QED
    BY <1>7, <2>1, <2>2, Parts, PartsNext
<1>9. e[N].locals = LocalsOf(N) /\ f[N].locals = LocalsOf(N) /\ f[N].returned = TRUE /\ f[N].result = v
  <2>1. N \in 1..Visible /\ N <= Visible' /\ N \in 1..N
    BY <1>2, <1>6, <1>7
  <2>2. LocalsOf(N)' = LocalsOf(N)
    BY <1>1, <2>1, LocalsKept
  <2>3. ReturnedOf(N)' = TRUE /\ ResultOf(N)' = v
    BY <1>2, <1>3, <1>6 DEF ReturnedOf, ResultOf
  <2> QED
    BY <1>7, <2>1, <2>2, <2>3, Parts, PartsNext
<1>10. f = [e EXCEPT ![N].returned = TRUE, ![N].result = v]
  <2>1. PICK K : K = {LocalsOf(i) : i \in 1..N} \union {LocalsOf(i)' : i \in 1..N}
    OBVIOUS
  <2>2. PICK R : R = [locals : K, returned : BOOLEAN, result : Values]
    OBVIOUS
  <2>3. ASSUME NEW i \in 1..N
        PROVE  e[i] \in R /\ f[i] \in R
    <3>1. i \in 1..Visible /\ i \in 1..Visible'
      BY <1>2, <1>6
    <3> QED
      BY <1>7, <2>1, <2>2, <2>3, <3>1, ReturnTyped, ReturnTypedNext, Parts, PartsNext
  <2>4. e \in [1..N -> R] /\ f \in [1..N -> R]
    BY <1>7, <2>3
  <2>5. e \in EnvsOf(N, K) /\ f \in EnvsOf(N, K)
    BY <2>2, <2>4 DEF EnvsOf
  <2>6. /\ N \in Nat \ {0} /\ f[N].locals = e[N].locals /\ f[N].returned = TRUE /\ f[N].result = v
        /\ \A i \in 1..(N - 1) : f[i] = e[i]
    BY <1>7, <1>8, <1>9
  <2> QED
    BY ZenonT(30), <2>5, <2>6, LastReturns
<1>11. Scope!Running
  BY <1>4, ScopeRunning
<1>12. Env' = [Env EXCEPT ![Len(Env)].returned = TRUE, ![Len(Env)].result = v] /\ Len(Env) > 1
  BY <1>6, <1>7, <1>10
<1> QED
  BY <1>3, <1>11, <1>12 DEF Scope!Return

LEMMA LeaveStep ==
  ASSUME Good, Good', Next, LeaveBody \/ UnwindBody
  PROVE  Scope!Leave
<1>1. /\ Visible = Top /\ Visible' = Top - 1 /\ Top > 1 /\ Top \in Nat /\ Keeps
      /\ return_flag' = acts[Top].saved.flag /\ return_value' = acts[Top].saved.value
  BY LeaveActs, CtxFacts DEF DropGuard, Act, storage, Keeps, Good, Control
<1>2. ASSUME NEW i \in 1..(Top - 1)
      PROVE  i \in 1..Top /\ EnvironmentOf(i)' = EnvironmentOf(i)
  <2>1. i \in 1..Visible /\ i < Visible /\ i <= Visible' /\ i \in 1..Top
    BY <1>1, <1>2
  <2>2. LocalsOf(i)' = LocalsOf(i)
    BY <1>1, <2>1, LocalsKept
  <2>3. ReturnedOf(i)' = ReturnedOf(i) /\ ResultOf(i)' = ResultOf(i)
    <3>1. CASE i = Top - 1
      <4>1. i + 1 = Top /\ i # Visible
        BY <1>1, <3>1
      <4> QED
        BY <1>1, <3>1, <4>1 DEF ReturnedOf, ResultOf
    <3>2. CASE i # Top - 1
      <4>1. i < Visible'
        BY <1>1, <1>2, <3>2
      <4> QED
        BY <2>1, <4>1, SavedKept
    <3> QED
      BY <3>1, <3>2
  <2> QED
    BY <2>1, <2>2, <2>3, Parts, PartsNext
<1>3. PICK S, e, f, t : S = {EnvironmentOf(i) : i \in 1..Visible} /\ e = Env /\ f = Env' /\ t = Front(e)
  OBVIOUS
<1>4. e \in Seq(S) /\ Len(e) = Top /\ e # <<>> /\ \A i \in 1..Top : e[i] = EnvironmentOf(i)
  BY <1>1, <1>3, EnvSeq
<1>5. t \in Seq(S) /\ Len(t) = Top - 1 /\ \A i \in 1..(Top - 1) : t[i] = e[i]
  BY <1>1, <1>3, <1>4, FrontProps
<1>6. f = [i \in 1..(Top - 1) |-> EnvironmentOf(i)']
  BY <1>1, <1>3, EnvNext
<1>7. f = t
  BY <1>1, <1>2, <1>4, <1>5, <1>6
<1> QED
  BY <1>1, <1>3, <1>4, <1>7 DEF Scope!Leave, Scope!Front, Front

(* The environment a call starts with. *)
LEMMA NewLocals ==
  ASSUME Good, Good', Next, EnterBody, NEW i, i = Top
  PROVE  /\ Declared(i)' \subseteq Names
         /\ \A n \in Declared(i)' : CopyOf(n, i)' \in Frame(n)
<1>1. ASSUME NEW n \in Declared(i)'
      PROVE  n \in Names /\ CopyOf(n, i)' \in Frame(n)
  <2>1. n \in Names /\ LastOf(OwnersOf(n)', i, Len(OwnersOf(n)))
    BY <1>1, EnterCopies DEF Good
  <2>2. OwnersOf(n)' = OwnersOf(n) /\ StackOf(n)' = StackOf(n)
    BY DEF EnterBody, storage, OwnersOf, StackOf
  <2>3. PICK k : k = Len(OwnersOf(n))
    OBVIOUS
  <2>4. LastOf(OwnersOf(n), i, k) /\ LastOf(OwnersOf(n)', i, k)
    BY <2>1, <2>2, <2>3
  <2>5. StackOf(n)[k] \in Frame(n)
    BY <2>1, <2>4, CopyIs DEF Good, Control, Balance
  <2>6. CopyOf(n, i)' = StackOf(n)'[k]
    BY <2>1, <2>4, CopyIsNext DEF Good, Control, Balance
  <2> QED
    BY <2>1, <2>2, <2>5, <2>6
<1> QED
  BY <1>1

LEMMA EnterStep ==
  ASSUME Good, Good', Next, EnterBody
  PROVE  Scope!Enter
<1>1. /\ Visible = Top - 1 /\ Visible' = Top /\ Top > 1 /\ Top \in Nat /\ Keeps
      /\ acts'[Top].saved = [flag |-> return_flag, value |-> return_value]
      /\ ~return_flag' /\ return_flag' \in BOOLEAN /\ return_value' = 0 /\ ~return_flag
  BY EnterActs, CtxFacts DEF EnterBody, storage, Keeps, Good, Control, FlagsOK, TypeOK
<1>2. ASSUME NEW i \in 1..(Top - 1)
      PROVE  i \in 1..Top /\ EnvironmentOf(i)' = EnvironmentOf(i)
  <2>1. i \in 1..Visible /\ i <= Visible' /\ i < Visible' /\ i \in 1..Top
    BY <1>1, <1>2
  <2>2. LocalsOf(i)' = LocalsOf(i)
    BY <1>1, <2>1, LocalsKept
  <2>3. ReturnedOf(i)' = ReturnedOf(i) /\ ResultOf(i)' = ResultOf(i)
    <3>1. CASE i = Top - 1
      <4>1. PICK j : j = i + 1
        OBVIOUS
      <4>2. i = Visible /\ i # Visible' /\ j = Top
        BY <1>1, <3>1, <4>1
      <4>3. acts'[j].saved.flag = return_flag /\ acts'[j].saved.value = return_value
        BY <1>1, <4>2
      <4> QED
        BY <4>1, <4>2, <4>3 DEF ReturnedOf, ResultOf
    <3>2. CASE i # Top - 1
      <4>1. i < Visible
        BY <1>1, <1>2, <3>2
      <4> QED
        BY <2>1, <4>1, SavedKept
    <3> QED
      BY <3>1, <3>2
  <2> QED
    BY <2>1, <2>2, <2>3, Parts, PartsNext
<1>3. PICK N, D, l : N = Top /\ D = Declared(N)' /\ l = LocalsOf(N)'
  OBVIOUS
<1>4. D \subseteq Names /\ l = [n \in D |-> CopyOf(n, N)'] /\ \A n \in D : l[n] \in Frame(n)
  BY <1>3, NewLocals DEF LocalsOf
<1>5. EnvironmentOf(N)' = [locals |-> l, returned |-> FALSE, result |-> 0]
  BY <1>1, <1>3, PartsNext DEF ReturnedOf, ResultOf
<1>6. PICK S, e, f, r, t : /\ S = {EnvironmentOf(i) : i \in 1..Visible} \union {r} /\ e = Env /\ f = Env'
                           /\ r = [locals |-> l, returned |-> FALSE, result |-> 0] /\ t = Append(e, r)
  OBVIOUS
<1>7. e \in Seq(S) /\ r \in S /\ Len(e) = N - 1 /\ \A i \in 1..(N - 1) : e[i] = EnvironmentOf(i)
  BY <1>1, <1>3, <1>6, EnvSeq
<1>8. t \in Seq(S) /\ Len(t) = N /\ t[N] = r /\ \A i \in 1..(N - 1) : t[i] = e[i]
  BY <1>1, <1>3, <1>6, <1>7
<1>9. f = [i \in 1..N |-> EnvironmentOf(i)']
  BY <1>1, <1>3, <1>6, EnvNext
<1>10. f = t
  <2>1. \A i \in 1..N : f[i] = t[i]
    BY <1>1, <1>2, <1>3, <1>5, <1>6, <1>7, <1>8, <1>9
  <2> QED
    BY <1>1, <1>3, <1>8, <1>9, <2>1
<1>11. \A n \in D : l[n] \in Scope!FrameOf(n)
  <2>1. ASSUME NEW n \in D
        PROVE  Scope!FrameOf(n) = Frame(n)
    BY <1>4, <2>1 DEF Scope!FrameOf, Frame
  <2> QED
    BY <1>4, <2>1
<1>12. l \in [D -> UNION {Scope!FrameOf(n) : n \in D}]
  BY <1>4, <1>11
<1>13. Scope!Running
  BY <1>1, ScopeRunning
<1>14. Env' = Append(Env, [locals |-> l, returned |-> FALSE, result |-> 0]) /\ D \in SUBSET Names
  BY <1>4, <1>6, <1>10
<1> QED
  BY <1>11, <1>12, <1>13, <1>14 DEF Scope!Enter

-----------------------------------------------------------------------------
(* Assignments *)

(* The frame on top of a name's stack is the copy of the innermost activation declaring it. *)
LEMMA TopOwner ==
  ASSUME Good, Visible = Top, NEW n \in Names, NEW i, i = Last(OwnersOf(n))[1]
  PROVE  /\ i \in 1..Visible /\ n \in Declared(i) /\ LastOf(OwnersOf(n), i, Len(OwnersOf(n)))
         /\ \A j \in 1..Visible : n \in Declared(j) => j <= i
<1>1. Balance /\ Top \in Nat \ {0} /\ TypeOK
  BY CtxFacts DEF Good, Control, Balance
<1>2. PICK o, N : o = OwnersOf(n) /\ N = Len(o)
  OBVIOUS
<1>3. /\ o \in Seq(Nat \X Nat) /\ o # <<>> /\ N \in Nat \ {0} /\ DOMAIN o = 1..N /\ N \in DOMAIN o
      /\ i = o[N][1] /\ i \in Nat /\ i <= Top
  BY <1>1, <1>2, OwnersFacts, OwnersLive
<1>4. LastOf(o, i, N)
  BY <1>2, <1>3, LastIsLast
<1>5. \A k, m \in DOMAIN o : k < m => Earlier(o[k], o[m])
  <2>1. CASE owner[n] = <<>>
    <3>1. N = 1
      BY <1>2, <2>1 DEF OwnersOf
    <3> QED
      BY <1>3, <3>1
  <2>2. CASE owner[n] # <<>>
    BY <1>1, <1>2, <2>2 DEF OwnersOf, Balance, ScopesBalanced
  <2> QED
    BY <2>1, <2>2
<1>6. o[1] = Global /\ 1 \in DOMAIN o
  <2>1. o[1] = Global
    <3>1. CASE owner[n] = <<>>
      BY <1>2, <3>1 DEF OwnersOf
    <3>2. CASE owner[n] # <<>>
      BY <1>1, <1>2, <3>2 DEF OwnersOf, Balance, ScopesBalanced
    <3> QED
      BY <3>1, <3>2
  <2> QED
    BY <1>3, <2>1
<1>7. i \in 1..Top
  <2>1. CASE N = 1
    BY <1>1, <1>3, <1>6, <2>1 DEF Global
  <2>2. CASE N # 1
    <3>0. 1 < N
      BY <1>3, <2>2
    <3>1. Earlier(o[1], o[N])
      BY <1>3, <1>5, <1>6, <3>0, Zenon
    <3>2. 1 <= i
      BY <1>3, <1>6, <3>1 DEF Earlier, Global
    <3> QED
      BY <1>1, <1>3, <3>2
  <2> QED
    BY <2>1, <2>2
<1>8. n \in Declared(i)
  <2>1. CASE i = 1
    BY <2>1 DEF Declared
  <2>2. CASE i # 1
    <3>1. N # 1
      BY <1>3, <1>6, <2>2 DEF Global
    <3>2. owner[n] # <<>>
      BY <1>2, <3>1 DEF OwnersOf
    <3>3. o = owner[n] /\ N \in 2..Len(owner[n])
      <4>1. o = owner[n]
        BY <1>2, <3>2 DEF OwnersOf
      <4>2. N \in 2..N
        BY <1>3, <3>1
      <4> QED
        BY <1>2, <4>1, <4>2
    <3>4. o[N][2] \in 1..acts[i].bound /\ acts[i].locals[o[N][2]] = n
      BY <1>1, <1>3, <3>3 DEF Balance, ScopesBalanced
    <3> QED
      BY <2>2, <3>4 DEF Declared
  <2> QED
    BY <2>1, <2>2
<1>9. ASSUME NEW j \in 1..Visible, n \in Declared(j)
      PROVE  j <= i
  <2>1. PICK k \in DOMAIN o : LastOf(o, j, k)
    BY <1>2, <1>9 DEF Good, CopiesOK
  <2>2. o[k][1] = j /\ k \in 1..N
    BY <1>3, <2>1 DEF LastOf
  <2>3. CASE k = N
    BY <1>3, <2>2, <2>3
  <2>4. CASE k # N
    <3>1. Earlier(o[k], o[N])
      BY SMTT(30), <1>3, <1>5, <2>1, <2>2, <2>4
    <3> QED
      BY <1>1, <1>3, <2>2, <3>1 DEF Earlier
  <2> QED
    BY <2>3, <2>4
<1> QED
  BY <1>1, <1>2, <1>4, <1>7, <1>8, <1>9

LEMMA InnermostIs ==
  ASSUME Good, Visible = Top, NEW n \in Names
  PROVE  Scope!Innermost(n) = Last(OwnersOf(n))[1]
<1>1. PICK i, e : i = Last(OwnersOf(n))[1] /\ e = Env
  OBVIOUS
<1>2. /\ DOMAIN e = 1..Visible /\ Visible \in Nat
      /\ \A j \in 1..Visible : DOMAIN e[j].locals = Declared(j)
  <2>1. ASSUME NEW j \in 1..Visible
        PROVE  DOMAIN e[j].locals = Declared(j)
    <3>1. e[j].locals = LocalsOf(j)
      BY <1>1, <2>1, EnvSeq, Parts
    <3> QED
      BY <3>1 DEF LocalsOf
  <2> QED
    BY <1>1, <2>1, EnvSeq DEF Env
<1>3. i \in 1..Visible /\ n \in Declared(i) /\ \A j \in 1..Visible : n \in Declared(j) => j <= i
  BY <1>1, TopOwner
<1>4. \A j \in DOMAIN e : Scope!Declares(j, n) <=> n \in Declared(j)
  BY <1>1, <1>2 DEF Scope!Declares
<1>5. \A j \in DOMAIN e :
        Scope!Declares(j, n) /\ (\A k \in DOMAIN e : Scope!Declares(k, n) => k <= j) <=> j = i
  <2>1. ASSUME NEW j \in DOMAIN e, Scope!Declares(j, n), \A k \in DOMAIN e : Scope!Declares(k, n) => k <= j
        PROVE  j = i
    <3>1. j <= i /\ i <= j /\ i \in Int /\ j \in Int
      BY <1>2, <1>3, <1>4, <2>1
    <3> QED
      BY <3>1
  <2>2. Scope!Declares(i, n) /\ \A k \in DOMAIN e : Scope!Declares(k, n) => k <= i
    BY <1>2, <1>3, <1>4
  <2> QED
    BY <2>1, <2>2
<1> QED
  BY <1>1, <1>2, <1>3, <1>5 DEF Scope!Innermost

(* Setting a cell of one environment. *)
LocalsWritten(l, n, c, v) == [l EXCEPT ![n] = [l[n] EXCEPT ![c] = v]]
EnvWritten(e, i, n, c, v) == [e EXCEPT ![i].locals[n][c] = v]

LEMMA LastWrites ==
  ASSUME NEW K, NEW N \in Nat \ {0}, NEW e \in EnvsOf(N, K), NEW f \in EnvsOf(N, K),
         NEW i \in 1..N, \A j \in 1..N : j # i => f[j] = e[j], NEW n, NEW c, NEW v,
         f[i].returned = e[i].returned, f[i].result = e[i].result,
         f[i].locals = LocalsWritten(e[i].locals, n, c, v)
  PROVE  f = EnvWritten(e, i, n, c, v)
<1>1. PICK R : R = [locals : K, returned : BOOLEAN, result : Values]
  OBVIOUS
<1> e \in [1..N -> R] /\ f \in [1..N -> R]
  BY <1>1 DEF EnvsOf
<1>2. PICK a, l, b : a = e[i] /\ l = f[i].locals /\ b = [a EXCEPT !.locals = l]
  OBVIOUS
<1>3. a \in R /\ f[i] \in R /\ l \in K
  BY <1>1, <1>2
<1>4. b \in R /\ b.locals = l /\ b.returned = a.returned /\ b.result = a.result
  BY <1>1, <1>2, <1>3
<1>5. f[i] = b
  BY <1>1, <1>2, <1>3, <1>4
<1>6. EnvWritten(e, i, n, c, v) = [e EXCEPT ![i] = b]
  BY <1>2 DEF EnvWritten, LocalsWritten
<1>7. f = [e EXCEPT ![i] = b]
  BY <1>5
<1> QED
  BY <1>6, <1>7

(* A cell is stored: the innermost copy of its name changes, and nothing else does. *)
LEMMA CellStep ==
  ASSUME Good, Good', Next, Visible = Top, Visible' = Top, ~return_flag,
         UNCHANGED <<return_flag, return_value>>,
         NEW p \in Place, p.kind = "cell", NEW v \in Values, Store(p, v)
  PROVE  \E n \in Names : \E c \in Cells(n) : Scope!Write(n, c, v)
<1>1. PICK n, c, s, m, i : /\ n = p.name /\ c = p.cell /\ s = StackOf(n) /\ m = Len(s)
                           /\ i = Last(OwnersOf(n))[1]
  OBVIOUS
<1>2. Balance /\ Balance' /\ TypeOK /\ Top \in Nat \ {0} /\ DOMAIN scopes = Names /\ DOMAIN owner = Names
      /\ Control /\ ScopesBalanced
  BY CtxFacts DEF Good, Control, Balance, TypeOK
<1>3. n \in Names /\ c \in Cells(n)
  BY <1>1, PlaceFacts
<1>4. PICK g, s2 : g = [s[m] EXCEPT ![c] = v] /\ s2 = [s EXCEPT ![m] = g]
  OBVIOUS
<1>5. /\ s \in Seq(Frame(n)) /\ m \in 1..m /\ s2 # <<>> /\ s2[m] = g
      /\ \A k \in 1..m : k # m => s2[k] = s[k]
  <2>1. s \in Seq(Frame(n)) /\ m \in 1..m /\ m = Len(s)
    BY <1>1, <1>2, <1>3, StackTyped
  <2>2. DOMAIN s2 = 1..m /\ s2[m] = g /\ \A k \in 1..m : k # m => s2[k] = s[k]
    BY <1>4, <2>1
  <2> QED
    BY <2>1, <2>2
<1>6. scopes' = [scopes EXCEPT ![n] = s2] /\ owner' = [owner EXCEPT ![n] = OwnersOf(n)]
  BY <1>1, <1>4 DEF Store, SetStack
<1>7. \A q \in Names : StackOf(q)' = IF q = n THEN s2 ELSE StackOf(q)
  BY <1>2, <1>3, <1>5, <1>6 DEF StackOf
<1>8. /\ i \in 1..Visible /\ n \in Declared(i) /\ LastOf(OwnersOf(n), i, Len(OwnersOf(n)))
  BY <1>1, <1>3, TopOwner
<1>9. Len(OwnersOf(n)) = m
  BY <1>1, <1>2, <1>3, <1>8, CopyIs
<1>10. ASSUME NEW j \in 1..Visible, NEW q \in Declared(j)
       PROVE  CopyOf(q, j)' = IF q = n /\ j = i THEN [CopyOf(n, i) EXCEPT ![c] = v] ELSE CopyOf(q, j)
  <2>1. PICK k : LastOf(OwnersOf(q), j, k)
    BY <1>10, DeclaredNames
  <2>2. q \in Names
    BY <1>10, DeclaredNames
  <2>3. LastOf(OwnersOf(q)', j, k)
    BY <1>2, <1>10, <2>1, <2>2, LastKept
  <2>4. CopyOf(q, j) = StackOf(q)[k] /\ CopyOf(q, j)' = StackOf(q)'[k] /\ k \in 1..Len(StackOf(q))
    BY <1>2, <2>1, <2>2, <2>3, CopyIs, CopyIsNext
  <2>5. CASE q # n
    BY <1>7, <2>2, <2>4, <2>5
  <2>6. CASE q = n
    <3>1. k \in 1..m /\ CopyOf(q, j) = s[k] /\ CopyOf(q, j)' = s2[k]
      BY <1>1, <1>3, <1>7, <2>4, <2>6
    <3>2. LastOf(OwnersOf(n), j, k) /\ LastOf(OwnersOf(n), i, m)
      BY <1>8, <1>9, <2>1, <2>6
    <3>3. CASE j = i
      <4>1. k <= m /\ m <= k
        BY <3>2, <3>3 DEF LastOf
      <4>2. k = m
        BY <1>5, <3>1, <4>1
      <4> QED
        BY <1>4, <1>5, <2>6, <3>1, <3>3, <4>2
    <3>4. CASE j # i
      <4>1. k # m
        BY <3>2, <3>4 DEF LastOf
      <4> QED
        BY <1>5, <3>1, <3>4, <4>1
    <3> QED
      BY <3>3, <3>4
  <2> QED
    BY <2>5, <2>6
<1>11. ASSUME NEW j \in 1..Visible
       PROVE  /\ j # i => LocalsOf(j)' = LocalsOf(j)
              /\ j = i => LocalsOf(j)' = [LocalsOf(j) EXCEPT ![n] = [LocalsOf(j)[n] EXCEPT ![c] = v]]
              /\ ReturnedOf(j)' = ReturnedOf(j) /\ ResultOf(j)' = ResultOf(j)
  <2>1. Declared(j)' = Declared(j)
    BY <1>2, <1>11, DeclaredKept
  <2>2. j # i => LocalsOf(j)' = LocalsOf(j)
    BY <1>10, <1>11, <2>1, SameLocals
  <2>3. ASSUME j = i
        PROVE  LocalsOf(j)' = [LocalsOf(j) EXCEPT ![n] = [LocalsOf(j)[n] EXCEPT ![c] = v]]
    <3>1. PICK D, l, l2 : D = Declared(j) /\ l = LocalsOf(j) /\ l2 = LocalsOf(j)'
      OBVIOUS
    <3>2. l = [q \in D |-> CopyOf(q, j)] /\ l2 = [q \in D |-> CopyOf(q, j)'] /\ n \in D
      BY <1>8, <2>1, <2>3, <3>1 DEF LocalsOf
    <3>3. \A q \in D : l2[q] = IF q = n THEN [l[n] EXCEPT ![c] = v] ELSE l[q]
      BY <1>10, <1>11, <2>3, <3>1, <3>2
    <3>4. l2 = [l EXCEPT ![n] = [l[n] EXCEPT ![c] = v]]
      BY <3>2, <3>3
    <3> QED
      BY <3>1, <3>4
  <2>4. ReturnedOf(j)' = ReturnedOf(j) /\ ResultOf(j)' = ResultOf(j)
    <3>1. CASE j = Visible
      BY <3>1 DEF ReturnedOf, ResultOf
    <3>2. CASE j # Visible
      <4>1. j < Visible /\ j < Visible'
        BY <1>2, <1>11, <3>2
      <4> QED
        BY <4>1, SavedKept
    <3> QED
      BY <3>1, <3>2
  <2> QED
    BY <2>2, <2>3, <2>4
<1>12. PICK e, f, N, K : /\ e = Env /\ f = Env' /\ N = Visible
                         /\ K = {LocalsOf(j) : j \in 1..Visible} \union {LocalsOf(j)' : j \in 1..Visible}
  OBVIOUS
<1>13. /\ N \in Nat \ {0} /\ e = [j \in 1..N |-> EnvironmentOf(j)]
       /\ f = [j \in 1..N |-> EnvironmentOf(j)']
  BY <1>2, <1>12, EnvNext DEF Env
<1>14. e \in EnvsOf(N, K) /\ f \in EnvsOf(N, K)
  <2>1. PICK R : R = [locals : K, returned : BOOLEAN, result : Values]
    OBVIOUS
  <2>2. ASSUME NEW j \in 1..N
        PROVE  e[j] \in R /\ f[j] \in R
    <3>1. j \in 1..Visible /\ j \in 1..Visible'
      BY <1>12
    <3> QED
      BY <1>12, <1>13, <2>1, <2>2, <3>1, ReturnTyped, ReturnTypedNext, Parts, PartsNext
  <2> QED
    BY <1>13, <2>1, <2>2 DEF EnvsOf
<1>15. ASSUME NEW j \in 1..N
       PROVE  /\ j # i => f[j] = e[j]
              /\ e[j].locals = LocalsOf(j) /\ f[j].locals = LocalsOf(j)'
              /\ f[j].returned = e[j].returned /\ f[j].result = e[j].result
  <2>1. j \in 1..Visible
    BY <1>12
  <2> QED
    BY <1>11, <1>13, <2>1, Parts, PartsNext
<1>16. i \in 1..N /\ f[i].locals = [e[i].locals EXCEPT ![n] = [e[i].locals[n] EXCEPT ![c] = v]]
  <2>1. i \in 1..N
    BY <1>8, <1>12
  <2> QED
    BY <1>8, <1>11, <1>15, <2>1
<1>17. f = [e EXCEPT ![i].locals[n][c] = v]
  <2>1. /\ N \in Nat \ {0} /\ i \in 1..N /\ f[i].returned = e[i].returned /\ f[i].result = e[i].result
        /\ \A j \in 1..N : j # i => f[j] = e[j]
    BY <1>13, <1>15, <1>16
  <2>2. f[i].locals = LocalsWritten(e[i].locals, n, c, v)
    BY <1>16 DEF LocalsWritten
  <2>3. f = EnvWritten(e, i, n, c, v)
    BY <1>14, <2>1, <2>2, LastWrites
  <2> QED
    BY <2>3 DEF EnvWritten
<1>18. Scope!Running /\ Scope!Innermost(n) = i
  BY <1>1, <1>3, ScopeRunning, InnermostIs
<1>19. Env' = [Env EXCEPT ![Scope!Innermost(n)].locals[n][c] = v]
  BY <1>12, <1>17, <1>18
<1>20. Scope!Write(n, c, v)
  BY <1>18, <1>19 DEF Scope!Write
<1> QED
  BY <1>3, <1>20

-----------------------------------------------------------------------------

LEMMA InitScope ==
  ASSUME Init
  PROVE  Scope!Init
<1>1. PICK a : a = [fn |-> Main, locals |-> <<>>, args |-> <<>>, bound |-> 0, saved |-> Unsaved]
  OBVIOUS
<1>2. acts = <<a>> /\ mode = "idle"
  BY <1>1 DEF Init
<1>3. Visible = 1
  BY <1>2 DEF Visible, Top
<1>4. \A n \in Names : CopyOf(n, 1) = ZeroFrame(n)
  BY DEF Init, CopyOf
<1>5. LocalsOf(1) = [n \in Names |-> ZeroFrame(n)]
  BY <1>4 DEF LocalsOf, Declared
<1>6. EnvironmentOf(1) = [locals |-> [n \in Names |-> ZeroFrame(n)], returned |-> FALSE, result |-> 0]
  BY <1>3, <1>5, Parts DEF ReturnedOf, ResultOf, Init
<1>7. Env = <<EnvironmentOf(1)>>
  BY <1>3 DEF Env
<1>8. [n \in Names |-> [c \in [q \in Names |-> Cells(q)][n] |-> 0]] = [n \in Names |-> ZeroFrame(n)]
  BY DEF ZeroFrame
<1> QED
  BY <1>6, <1>7, <1>8 DEF Scope!Init

LEMMA NextScope ==
  ASSUME IInv, IInv', Next
  PROVE  Scope!Next \/ UNCHANGED Env
<1>1. Good /\ Good' /\ TypeOK
  BY GoodInv DEF IInv, Good, Control
<1>2. CASE ExecReturn \/ UseReturn
  BY <1>1, <1>2, ReturnStep DEF Scope!Next
<1>3. CASE EnterBody
  BY <1>1, <1>3, EnterStep DEF Scope!Next
<1>4. CASE LeaveBody \/ UnwindBody
  BY <1>1, <1>4, LeaveStep DEF Scope!Next
<1>5. CASE ~(ExecReturn \/ UseReturn \/ EnterBody \/ LeaveBody \/ UnwindBody)
  <2>1. Visible' = Visible
    BY <1>1, <1>5, VisibleSame
  <2>2. UNCHANGED <<return_flag, return_value>>
    <3>1. FailUnit => UNCHANGED <<return_flag, return_value>>
      BY <1>1 DEF FailUnit, Good, FlagsOK, TypeOK
    <3> QED
      BY <1>5, <3>1, ReturnChanges
  <2>3. CASE Keeps
    BY <1>1, <2>1, <2>2, <2>3, SilentStep
  <2>4. CASE StoresValue /\ mode \in {"expr", "value"}
    <3>1. PICK p \in Place, v \in Values : Store(p, v)
      BY <2>4 DEF StoresValue
    <3>2. CASE p.kind = "register"
      <4>1. Keeps
        BY <3>1, <3>2 DEF Store, Keeps
      <4> QED
        BY <1>1, <2>1, <2>2, <4>1, SilentStep
    <3>3. CASE p.kind = "cell"
      <4>1. Visible = Top /\ ~return_flag
        BY <1>1, <2>4 DEF Visible, Good, FlagsOK
      <4>2. PICK n \in Names : \E c \in Cells(n) : Scope!Write(n, c, v)
        BY <1>1, <2>1, <2>2, <3>1, <3>3, <4>1, CellStep
      <4> QED
        BY <3>1, <4>2 DEF Scope!Next
    <3> QED
      BY <3>2, <3>3, PlaceFacts
  <2> QED
    BY <1>1, <2>3, <2>4, Storing
<1> QED
  BY <1>2, <1>3, <1>4, <1>5

(* However programs nest, fail or return, the evaluator's stacks, guards and flags give      *)
(* every activation its own copies of the names it declares, let a name denote the innermost *)
(* copy, let an activation return once, and take exactly its copies and its return state     *)
(* away when it ends (eval.rs variable_stack, ScopeGuard, evaluate_user_function).           *)
THEOREM Refinement == Spec => ImplementsScope
<1>1. Init => Scope!Init
  BY InitScope
<1>2. IInv /\ IInv' /\ [Next]_vars => [Scope!Next]_Env
  <2>1. ASSUME UNCHANGED vars
        PROVE  UNCHANGED Env
    BY <2>1 DEF vars, state, Env, EnvironmentOf, Declared, CopyOf, Visible, Top
  <2> QED
    BY <2>1, NextScope
<1> QED
  BY <1>1, <1>2, Inductive, PTL DEF Spec, ImplementsScope, Scope!Spec
=============================================================================
