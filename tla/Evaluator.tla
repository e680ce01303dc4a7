----------------------------- MODULE Evaluator -----------------------------
(***************************************************************************)
(* The tree-walking evaluator of bc_core (eval.rs) as a machine with an    *)
(* explicit control stack.                                                 *)
(*                                                                         *)
(* Programs are not represented: wherever eval.rs looks at the next node of*)
(* the AST, the machine chooses any node the parser can produce there      *)
(* (`break` only inside a loop of the same function, `return` only inside  *)
(* a function, `define` only at top level).  Every run of every program is *)
(* therefore a behaviour of this module.  Numbers are members of Values,   *)
(* and the result of arithmetic is any of them: what the properties are    *)
(* about is where values are kept, not which values they are.              *)
(*                                                                         *)
(* eval.rs recurses; here each activation of a user function has an entry  *)
(* in acts and a stack of pending constructs in ctx, and the top level is  *)
(* activation 1.  A variable is an array with the single cell 0.           *)
(***************************************************************************)
EXTENDS Kernels, Sequences, SequencesExt

CONSTANTS
  Scalars,      \* names used as simple variables
  Arrays,       \* names used as arrays (a separate name space)
  Functions,    \* function names
  Headers,      \* parameter and auto lists a definition may have
  Registers,    \* scale, ibase, obase
  RegMin,       \* the least value of each register
  RegMax,       \* the greatest value of each register
  RegInit,      \* the value each register starts with
  DimMax,       \* BC_DIM_MAX: the number of cells of an array
  Values,       \* the numbers (integers)
  Main,         \* stands for "no function" (printed as "(main)")
  MaxDepth,     \* bound on the number of activations, the top level included
  MaxNest,      \* bound on the constructs pending in one activation
  MaxOperands,  \* bound on the operands of an operation
  LoopForms     \* the loops programs have: FALSE is `while`, TRUE is `for`

Names == Scalars \union Arrays

ASSUME ConstantsOK ==
  /\ Scalars \intersect Arrays = {}
  /\ Values \subseteq Int /\ 0 \in Values /\ 1 \in Values
  /\ DimMax \in Nat \ {0}
  /\ MaxDepth \in Nat /\ MaxNest \in Nat /\ MaxOperands \in 0..2 /\ LoopForms \subseteq BOOLEAN
  /\ Main \notin Functions
  /\ Headers \subseteq [params : Seq(Names), autos : Seq(Names)]
  /\ {RegMin, RegMax, RegInit} \subseteq [Registers -> Int]
  /\ \A r \in Registers : RegInit[r] \in RegMin[r]..RegMax[r] /\ RegMin[r]..RegMax[r] \subseteq Values

VARIABLES
  mode,         \* what the machine does next, see Mode
  acts,         \* the activations, outermost first
  ctx,          \* for each activation, the constructs waiting for a part of theirs
  scopes,       \* eval.rs `variables` and `arrays`: the scope stack of each name
  functions,    \* eval.rs `functions`: the header of each defined function
  registers,    \* eval.rs `scale`, `ibase`, `obase`
  break_flag,
  return_flag,
  return_value,
  call_stack,   \* names of the executing user functions, innermost last
  val,          \* the value just computed (the Ok result on its way to its consumer)
  failure,      \* the Err (or panic) on its way to the driver
  owner         \* history variable: which binding pushed each frame of scopes

state == <<acts, ctx, scopes, functions, registers, break_flag, return_flag, return_value,
           call_stack, val, failure, owner>>
vars  == <<mode, state>>

jumps   == <<break_flag, return_flag, return_value>>
storage == <<scopes, owner, registers>>
-----------------------------------------------------------------------------
(* Types *)

Mode == {"idle",    \* between two input units
         "stmt",    \* try_execute: the next statement of the innermost construct
         "expr",    \* try_evaluate: an expression the innermost construct needs
         "arg",     \* the next argument of a call
         "bind",    \* pushing parameters and autos
         "value",   \* an expression has produced val
         "unbind",  \* ScopeGuard::drop is popping autos and parameters
         "unwind"}  \* an error or a panic propagates

Cells(n) == IF n \in Arrays THEN 0..(DimMax - 1) ELSE {0}
Frame(n) == [Cells(n) -> Values]
AnyFrame == UNION {Frame(n) : n \in Names}
ZeroFrame(n) == [c \in Cells(n) |-> 0]

Place ==
  {p \in [kind : {"cell"}, name : Names, cell : Nat] : p.cell \in Cells(p.name)}
    \union [kind : {"register"}, reg : Registers]

Context ==
         [kind : {"discard", "return", "if", "block", "call"}]
  \union [kind : {"loop"}, post : BOOLEAN, phase : {"init", "cond", "body", "post"}]
  \union [kind : {"operand"}, more : {0, 1}]
  \union [kind : {"index"}, name : Arrays, use : {"read", "assign", "compound", "prefix", "postfix"}]
  \union [kind : {"rhs"}, place : Place, compound : BOOLEAN, frame : Nat \X Nat]
  \union [kind : {"args"}, fn : Functions, header : Headers, done : Seq(AnyFrame)]

Activation == [fn : Functions \union {Main}, locals : Seq(Names), args : Seq(AnyFrame),
               bound : Nat, saved : [flag : BOOLEAN, value : Values]]

Undefined == [params |-> <<>>, autos |-> <<Main>>]
Unsaved   == [flag |-> FALSE, value |-> 0]
NoFailure == [kind |-> "none", func |-> Main, origin |-> Main]
Global    == <<1, 0>>      \* the frame of the top level, activation 1

TypeOK ==
  /\ mode \in Mode
  /\ acts \in Seq(Activation) /\ acts # <<>>
  /\ ctx \in Seq(Seq(Context)) /\ Len(ctx) = Len(acts)
  /\ DOMAIN scopes = Names /\ \A n \in Names : scopes[n] \in Seq(Frame(n))
  /\ owner \in [Names -> Seq(Nat \X Nat)]
  /\ functions \in [Functions -> Headers \union {Undefined}]
  /\ registers \in [Registers -> Values]
  /\ break_flag \in BOOLEAN /\ return_flag \in BOOLEAN /\ return_value \in Values
  /\ call_stack \in Seq(Functions)
  /\ val \in Values
  /\ failure \in [kind : {"none", "error", "panic"}, func : Functions \union {Main},
                  origin : Functions \union {Main}]
-----------------------------------------------------------------------------
(* Reading the machine's stacks *)

Top   == Len(acts)
Act   == acts[Top]
Here  == ctx[Top]
Inner == Last(Here)

InInner(kinds) == Here # <<>> /\ Inner.kind \in kinds
Nested  == Len(Here) < MaxNest

Push(c)     == ctx' = [ctx EXCEPT ![Top] = Append(Here, c)]
Replace(c)  == ctx' = [ctx EXCEPT ![Top] = Append(Front(Here), c)]
PopInner    == ctx' = [ctx EXCEPT ![Top] = Front(Here)]

InLoop == \E i \in DOMAIN Here : Here[i].kind = "loop" /\ Here[i].phase = "body"

(* variable_stack / array_stack: a name's stack, created with its global frame if needed. *)
StackOf(n)  == IF scopes[n] = <<>> THEN <<ZeroFrame(n)>> ELSE scopes[n]
OwnersOf(n) == IF owner[n] = <<>> THEN <<Global>> ELSE owner[n]
TopFrame(n) == Last(StackOf(n))

SetStack(n, frames, owners) ==
  /\ scopes' = [scopes EXCEPT ![n] = frames]
  /\ owner'  = [owner EXCEPT ![n] = owners]
Touch(n) == SetStack(n, StackOf(n), OwnersOf(n))

Cell(n, c)  == [kind |-> "cell", name |-> n, cell |-> c]
RegisterPlace(r) == [kind |-> "register", reg |-> r]

(* store_register: the value register r keeps when v is assigned to it. *)
Clamped(r, v) ==
  ClampRegister(IF v < 0 THEN -v ELSE v, v < 0, RegMin[r], RegMax[r]).value

(* load: reading a place may create its name; Loaded(p) is the value read. *)
Loaded(p) == IF p.kind = "cell" THEN TopFrame(p.name)[p.cell] ELSE registers[p.reg]
Load(p) ==
  \/ p.kind = "cell" /\ Touch(p.name)
  \/ p.kind = "register" /\ UNCHANGED <<scopes, owner>>

(* store: v goes to the frame now on top of the name's stack, or to the register, clamped; *)
(* Stored(p, v) is the value the place then holds.                                         *)
Store(p, v) ==
  \/ /\ p.kind = "cell"
     /\ SetStack(p.name,
          [StackOf(p.name) EXCEPT ![Len(StackOf(p.name))] = [@ EXCEPT ![p.cell] = v]],
          OwnersOf(p.name))
     /\ UNCHANGED registers
  \/ /\ p.kind = "register"
     /\ registers' = [registers EXCEPT ![p.reg] = Clamped(p.reg, v)]
     /\ UNCHANGED <<scopes, owner>>
Stored(p, v) == IF p.kind = "cell" THEN v ELSE Clamped(p.reg, v)

Yield(v) == mode' = "value" /\ val' = v
Raise(kind) ==
  /\ mode' = "unwind"
  /\ failure' = [kind |-> kind, func |-> Main, origin |-> Act.fn]
  /\ val' = 0
  /\ UNCHANGED <<acts, ctx, storage, functions, jumps, call_stack>>
-----------------------------------------------------------------------------
(* Input units (driver.rs run_unit, as far as the evaluator's state is concerned) *)

Init ==
  /\ mode = "idle"
  /\ acts = << [fn |-> Main, locals |-> <<>>, args |-> <<>>, bound |-> 0, saved |-> Unsaved] >>
  /\ ctx = << <<>> >>
  /\ scopes = [n \in Names |-> <<>>]
  /\ owner = [n \in Names |-> <<>>]
  /\ functions = [f \in Functions |-> Undefined]
  /\ registers = RegInit
  /\ break_flag = FALSE /\ return_flag = FALSE /\ return_value = 0
  /\ call_stack = <<>>
  /\ val = 0
  /\ failure = NoFailure

StartUnit == mode = "idle" /\ mode' = "stmt" /\ UNCHANGED state

EndUnit ==
  /\ mode = "stmt" /\ Top = 1 /\ Here = <<>>
  /\ mode' = "idle"
  /\ UNCHANGED state

(* The driver reports the error (bc_cli reports the panic) and clears the jump flags. *)
FailUnit ==
  /\ mode = "unwind" /\ Top = 1
  /\ mode' = "idle"
  /\ ctx' = << <<>> >>
  /\ break_flag' = FALSE /\ return_flag' = FALSE
  /\ failure' = NoFailure
  /\ UNCHANGED <<acts, storage, functions, return_value, call_stack, val>>

Define(f, h) ==
  /\ mode = "stmt" /\ Top = 1 /\ Here = <<>>
  /\ functions' = [functions EXCEPT ![f] = h]
  /\ UNCHANGED <<mode, acts, ctx, storage, registers, jumps, call_stack, val, failure>>
-----------------------------------------------------------------------------
(* try_execute *)

(* Mutant of StartStatement: the statements after a `return` are still executed. *)
StartStatementAfterReturn == mode = "stmt" /\ ~ShouldAbort(break_flag, FALSE, FALSE)

StartStatement == mode = "stmt" /\ ~ShouldAbort(break_flag, return_flag, FALSE)

(* An expression statement; try_execute prints or drops its value. *)
ExecExpr ==
  /\ StartStatement /\ Nested
  /\ Push([kind |-> "discard"])
  /\ mode' = "expr"
  /\ UNCHANGED <<acts, storage, functions, jumps, call_stack, val, failure>>

ExecBlock ==
  /\ StartStatement /\ Nested
  /\ Push([kind |-> "block"])
  /\ UNCHANGED <<mode, acts, storage, functions, jumps, call_stack, val, failure>>

EndBlock ==
  /\ mode = "stmt" /\ InInner({"block"})
  /\ PopInner
  /\ UNCHANGED <<mode, acts, storage, functions, jumps, call_stack, val, failure>>

(* The parser accepts `break` only inside a loop of the function being parsed. *)
ExecBreak ==
  /\ StartStatement /\ InLoop
  /\ break_flag' = TRUE
  /\ UNCHANGED <<mode, acts, ctx, storage, functions, return_flag, return_value, call_stack,
                 val, failure>>

(* The parser accepts `return` only inside a function. *)
ExecReturn ==
  /\ StartStatement /\ Top > 1
  /\ return_value' = 0 /\ return_flag' = TRUE
  /\ UNCHANGED <<mode, acts, ctx, storage, functions, break_flag, call_stack, val, failure>>

ExecReturnExpr ==
  /\ StartStatement /\ Top > 1 /\ Nested
  /\ Push([kind |-> "return"])
  /\ mode' = "expr"
  /\ UNCHANGED <<acts, storage, functions, jumps, call_stack, val, failure>>

ExecIf ==
  /\ StartStatement /\ Nested
  /\ Push([kind |-> "if"])
  /\ mode' = "expr"
  /\ UNCHANGED <<acts, storage, functions, jumps, call_stack, val, failure>>

(* `while` starts at its condition, `for` at its initialisation. *)
ExecLoop(isFor) ==
  /\ StartStatement /\ Nested
  /\ Push([kind |-> "loop", post |-> isFor, phase |-> IF isFor THEN "init" ELSE "cond"])
  /\ mode' = "expr"
  /\ UNCHANGED <<acts, storage, functions, jumps, call_stack, val, failure>>

(* Mutants of EndLoopBody: the loop that a `break` ends does not consume the flag, and a loop *)
(* that goes on whatever its body did.                                                      *)
EndLoopKeepsBreak ==
  /\ mode = "stmt" /\ InInner({"loop"})
  /\ \/ /\ ShouldAbort(break_flag, return_flag, FALSE)
        /\ PopInner /\ UNCHANGED mode
     \/ /\ ~ShouldAbort(break_flag, return_flag, FALSE)
        /\ Replace([Inner EXCEPT !.phase = IF Inner.post THEN "post" ELSE "cond"])
        /\ mode' = "expr"
  /\ UNCHANGED <<acts, storage, functions, jumps, call_stack, val, failure>>

EndLoopIgnoresJumps ==
  /\ mode = "stmt" /\ InInner({"loop"})
  /\ Replace([Inner EXCEPT !.phase = IF Inner.post THEN "post" ELSE "cond"])
  /\ mode' = "expr"
  /\ UNCHANGED <<acts, storage, functions, jumps, call_stack, val, failure>>

(* The body of a loop has ended, normally or by a jump. *)
EndLoopBody ==
  /\ mode = "stmt" /\ InInner({"loop"})
  /\ LET after == LoopPostBody(break_flag, return_flag, FALSE)
     IN  /\ break_flag' = after.break
         /\ \/ /\ after.exit
               /\ PopInner /\ UNCHANGED mode
            \/ /\ ~after.exit
               /\ Replace([Inner EXCEPT !.phase = IF Inner.post THEN "post" ELSE "cond"])
               /\ mode' = "expr"
  /\ UNCHANGED <<acts, storage, functions, return_flag, return_value, call_stack, val, failure>>
-----------------------------------------------------------------------------
(* try_evaluate: starting an expression *)

Literal ==
  /\ mode = "expr"
  /\ \E v \in Values : Yield(v)
  /\ UNCHANGED <<acts, ctx, storage, functions, jumps, call_stack, failure>>

ReadRegister(r) ==
  /\ mode = "expr"
  /\ Yield(registers[r])
  /\ UNCHANGED <<acts, ctx, storage, functions, jumps, call_stack, failure>>

ReadVariable(n) ==
  /\ mode = "expr"
  /\ Touch(n)
  /\ Yield(TopFrame(n)[0])
  /\ UNCHANGED <<acts, ctx, registers, functions, jumps, call_stack, failure>>

(* Unary and binary operators, comparisons, length(), sqrt(), scale(), parentheses and the *)
(* mathematics library: one or two operands, left to right, then a result or an error.     *)
EvalOperation(operands) ==
  /\ mode = "expr" /\ Nested
  /\ Push([kind |-> "operand", more |-> operands - 1])
  /\ UNCHANGED <<mode, acts, storage, functions, jumps, call_stack, val, failure>>

(* The subscript of an array element is evaluated before anything else. *)
EvalSubscript(n, use) ==
  /\ mode = "expr" /\ Nested
  /\ Push([kind |-> "index", name |-> n, use |-> use])
  /\ UNCHANGED <<mode, acts, storage, functions, jumps, call_stack, val, failure>>

PlaceFrame(p) == IF p.kind = "cell" THEN Last(OwnersOf(p.name)) ELSE Global
RhsOf(p, compound) ==
  [kind |-> "rhs", place |-> p, compound |-> compound, frame |-> PlaceFrame(p)]

(* AssignOp on a variable or a register: the place is resolved, a compound operator loads  *)
(* its old value, then the right-hand side is evaluated.                                   *)
EvalAssign(p, compound) ==
  /\ mode = "expr" /\ Nested
  /\ Push(RhsOf(p, compound))
  /\ \/ compound /\ Load(p)
     \/ ~compound /\ UNCHANGED <<scopes, owner>>
  /\ UNCHANGED <<mode, acts, registers, functions, jumps, call_stack, val, failure>>

(* UpdateOp (++, --): load, compute, store.  The prefix form yields what the place then    *)
(* holds, the postfix form what it held.                                                   *)
EvalUpdate(p, prefix) ==
  /\ mode = "expr"
  /\ \E new \in Values :
       /\ Store(p, new)
       /\ Yield(IF prefix THEN Stored(p, new) ELSE Loaded(p))
  /\ UNCHANGED <<acts, ctx, functions, jumps, call_stack, failure>>

(* A literal out of range, an undefined function, a wrong number of arguments. *)
FailExpr ==
  /\ mode = "expr"
  /\ Raise("error")
-----------------------------------------------------------------------------
(* try_evaluate: calling a user function *)

EvalCall(f) ==
  /\ mode = "expr" /\ Nested /\ Top < MaxDepth
  /\ functions[f] # Undefined
  /\ Push([kind |-> "args", fn |-> f, header |-> functions[f], done |-> <<>>])
  /\ mode' = "arg"
  /\ UNCHANGED <<acts, storage, functions, jumps, call_stack, val, failure>>

NextParam == Inner.header.params[Len(Inner.done) + 1]
ArgsLeft  == Len(Inner.done) < Len(Inner.header.params)
AddArg(frame) == Replace([Inner EXCEPT !.done = Append(@, frame)])

(* A scalar parameter takes an expression, an array parameter a copy of an array. *)
ScalarArg ==
  /\ mode = "arg" /\ ArgsLeft /\ NextParam \in Scalars
  /\ mode' = "expr"
  /\ UNCHANGED state

ArrayArg(n) ==
  /\ mode = "arg" /\ ArgsLeft /\ NextParam \in Arrays
  /\ Touch(n)
  /\ AddArg(TopFrame(n))
  /\ UNCHANGED <<mode, acts, registers, functions, jumps, call_stack, val, failure>>

(* An array where the parameter is a scalar, or the reverse. *)
MismatchedArg ==
  /\ mode = "arg" /\ ArgsLeft
  /\ Raise("error")

(* All arguments are evaluated: the activation exists from here on. *)
BeginCall ==
  /\ mode = "arg" /\ ~ArgsLeft
  /\ acts' = Append(acts, [fn |-> Inner.fn, locals |-> Inner.header.params \o Inner.header.autos,
                           args |-> Inner.done, bound |-> 0, saved |-> Unsaved])
  /\ ctx' = Append([ctx EXCEPT ![Top] = Append(Front(Here), [kind |-> "call"])], <<>>)
  /\ mode' = "bind"
  /\ UNCHANGED <<storage, functions, jumps, call_stack, val, failure>>

(* Mutant of BindLocal: a name first seen as a parameter gets no global frame. *)
BindWithoutGlobal ==
  /\ mode = "bind" /\ Act.bound < Len(Act.locals)
  /\ LET i == Act.bound + 1
         n == Act.locals[i]
         frame == IF i <= Len(Act.args) THEN Act.args[i] ELSE ZeroFrame(n)
     IN  /\ SetStack(n, Append(scopes[n], frame), Append(owner[n], <<Top, i>>))
         /\ acts' = [acts EXCEPT ![Top].bound = i]
  /\ UNCHANGED <<mode, ctx, registers, functions, jumps, call_stack, val, failure>>

(* The parameters' frames, then the autos', are pushed in order of declaration. *)
BindLocal ==
  /\ mode = "bind" /\ Act.bound < Len(Act.locals)
  /\ LET i == Act.bound + 1
         n == Act.locals[i]
         frame == IF i <= Len(Act.args) THEN Act.args[i] ELSE ZeroFrame(n)
     IN  /\ SetStack(n, Append(StackOf(n), frame), Append(OwnersOf(n), <<Top, i>>))
         /\ acts' = [acts EXCEPT ![Top].bound = i]
  /\ UNCHANGED <<mode, ctx, registers, functions, jumps, call_stack, val, failure>>

(* The caller's return state is saved, the ScopeGuard exists, the body starts. *)
EnterBody ==
  /\ mode = "bind" /\ Act.bound = Len(Act.locals)
  /\ acts' = [acts EXCEPT ![Top].saved = [flag |-> return_flag, value |-> return_value],
                          ![Top].args = <<>>]
  /\ return_flag' = FALSE /\ return_value' = 0
  /\ call_stack' = Append(call_stack, Act.fn)
  /\ mode' = "stmt"
  /\ UNCHANGED <<ctx, storage, functions, break_flag, val, failure>>

(* Mutants of DropGuard: the caller's return state, or the call stack, is not restored. *)
DropGuardKeepsReturn ==
  /\ call_stack' = Front(call_stack)
  /\ mode' = "unbind"
  /\ UNCHANGED <<acts, ctx, storage, functions, jumps>>

DropGuardKeepsCallStack ==
  /\ return_flag' = Act.saved.flag /\ return_value' = Act.saved.value
  /\ mode' = "unbind"
  /\ UNCHANGED <<acts, ctx, storage, functions, break_flag, call_stack>>

(* ScopeGuard::drop: first the call stack and the return state, then the frames. *)
DropGuard ==
  /\ call_stack' = Front(call_stack)
  /\ return_flag' = Act.saved.flag /\ return_value' = Act.saved.value
  /\ mode' = "unbind"
  /\ UNCHANGED <<acts, ctx, storage, functions, break_flag>>

(* The body ran to its end or a `return` stopped it. *)
LeaveBody ==
  /\ mode = "stmt" /\ Top > 1 /\ Here = <<>>
  /\ val' = return_value
  /\ DropGuard
  /\ UNCHANGED failure

(* Mutants of UnwindBody: an error leaves the frames of the function behind, and every caller *)
(* claims the error.                                                                        *)
UnwindLeavesFrames ==
  /\ mode = "unwind" /\ Top > 1
  /\ acts' = Front(acts) /\ ctx' = Front(ctx)
  /\ call_stack' = Front(call_stack)
  /\ return_flag' = Act.saved.flag /\ return_value' = Act.saved.value
  /\ UNCHANGED <<mode, storage, functions, break_flag, val, failure>>

UnwindReattributes ==
  /\ mode = "unwind" /\ Top > 1
  /\ failure' = [failure EXCEPT !.func = Act.fn]
  /\ DropGuard
  /\ UNCHANGED val

(* An error leaves the body: it is attributed to this function unless an inner one already *)
(* claimed it.  A panic carries no attribution.                                            *)
UnwindBody ==
  /\ mode = "unwind" /\ Top > 1
  /\ failure' = IF failure.kind = "error" /\ failure.func = Main
                  THEN [failure EXCEPT !.func = Act.fn] ELSE failure
  /\ DropGuard
  /\ UNCHANGED val

(* Mutant of UnbindLocal: nothing is popped. *)
UnbindPopsNothing ==
  /\ mode = "unbind" /\ Act.bound > 0
  /\ acts' = [acts EXCEPT ![Top].bound = @ - 1]
  /\ UNCHANGED <<mode, ctx, storage, functions, jumps, call_stack, val, failure>>

(* Autos, then parameters, are popped in reverse order. *)
UnbindLocal ==
  /\ mode = "unbind" /\ Act.bound > 0
  /\ LET n == Act.locals[Act.bound]
     IN  SetStack(n, Front(scopes[n]), Front(owner[n]))
  /\ acts' = [acts EXCEPT ![Top].bound = @ - 1]
  /\ UNCHANGED <<mode, ctx, registers, functions, jumps, call_stack, val, failure>>

(* Mutant of EndCall: a failure is taken for a value. *)
EndCallSwallowsFailure ==
  /\ mode = "unbind" /\ Act.bound = 0
  /\ acts' = Front(acts)
  /\ ctx' = [i \in 1..(Top - 1) |-> IF i = Top - 1 THEN Front(ctx[i]) ELSE ctx[i]]
  /\ mode' = "value"
  /\ UNCHANGED <<storage, functions, jumps, call_stack, val, failure>>

(* The call is over: its value, or the failure, reaches the caller's pending construct. *)
EndCall ==
  /\ mode = "unbind" /\ Act.bound = 0
  /\ acts' = Front(acts)
  /\ ctx' = [i \in 1..(Top - 1) |-> IF i = Top - 1 THEN Front(ctx[i]) ELSE ctx[i]]
  /\ mode' = IF failure.kind = "none" THEN "value" ELSE "unwind"
  /\ UNCHANGED <<storage, functions, jumps, call_stack, val, failure>>
-----------------------------------------------------------------------------
(* try_evaluate and try_execute: using the value of a part *)

Consume == mode = "value" /\ val' = 0

UseDiscard ==
  /\ Consume /\ InInner({"discard"})
  /\ PopInner /\ mode' = "stmt"
  /\ UNCHANGED <<acts, storage, functions, jumps, call_stack, failure>>

UseReturn ==
  /\ Consume /\ InInner({"return"})
  /\ return_value' = val /\ return_flag' = TRUE
  /\ PopInner /\ mode' = "stmt"
  /\ UNCHANGED <<acts, storage, functions, break_flag, call_stack, failure>>

UseIf ==
  /\ Consume /\ InInner({"if"})
  /\ \/ val = 0 /\ PopInner
     \/ val # 0 /\ Replace([kind |-> "block"])
  /\ mode' = "stmt"
  /\ UNCHANGED <<acts, storage, functions, jumps, call_stack, failure>>

UseLoop ==
  /\ Consume /\ InInner({"loop"})
  /\ \/ /\ Inner.phase \in {"init", "post"}
        /\ Replace([Inner EXCEPT !.phase = "cond"]) /\ mode' = "expr"
     \/ /\ Inner.phase = "cond" /\ val = 0
        /\ PopInner /\ mode' = "stmt"
     \/ /\ Inner.phase = "cond" /\ val # 0
        /\ Replace([Inner EXCEPT !.phase = "body"]) /\ mode' = "stmt"
  /\ UNCHANGED <<acts, storage, functions, jumps, call_stack, failure>>

UseOperand ==
  /\ mode = "value" /\ InInner({"operand"})
  /\ \/ /\ Inner.more > 0
        /\ Replace([Inner EXCEPT !.more = @ - 1])
        /\ mode' = "expr" /\ val' = 0
     \/ /\ Inner.more = 0
        /\ PopInner
        /\ \E v \in Values : Yield(v)
  /\ UNCHANGED <<acts, storage, functions, jumps, call_stack, failure>>

UseArg ==
  /\ Consume /\ InInner({"args"})
  /\ AddArg([c \in {0} |-> val])
  /\ mode' = "arg"
  /\ UNCHANGED <<acts, storage, functions, jumps, call_stack, failure>>

InRange(v) == 0 <= v /\ v < DimMax

(* The subscript is known: read the element, update it, or resolve it as a place. *)
UseIndexRead ==
  /\ mode = "value" /\ InInner({"index"}) /\ Inner.use = "read" /\ InRange(val)
  /\ Touch(Inner.name)
  /\ Yield(TopFrame(Inner.name)[val])
  /\ PopInner
  /\ UNCHANGED <<acts, registers, functions, jumps, call_stack, failure>>

UseIndexUpdate ==
  /\ mode = "value" /\ InInner({"index"}) /\ Inner.use \in {"prefix", "postfix"} /\ InRange(val)
  /\ LET p == Cell(Inner.name, val)
     IN  \E new \in Values :
           /\ Store(p, new)
           /\ Yield(IF Inner.use = "prefix" THEN new ELSE Loaded(p))
  /\ PopInner
  /\ UNCHANGED <<acts, functions, jumps, call_stack, failure>>

UseIndexAssign ==
  /\ Consume /\ InInner({"index"}) /\ Inner.use \in {"assign", "compound"} /\ InRange(val)
  /\ LET p == Cell(Inner.name, val)
     IN  /\ Replace(RhsOf(p, Inner.use = "compound"))
         /\ \/ Inner.use = "compound" /\ Load(p)
            \/ Inner.use = "assign" /\ UNCHANGED <<scopes, owner>>
  /\ mode' = "expr"
  /\ UNCHANGED <<acts, registers, functions, jumps, call_stack, failure>>

BadIndex ==
  /\ mode = "value" /\ InInner({"index"}) /\ ~InRange(val)
  /\ Raise("error")

(* The right-hand side is known: the value assigned is the value of the assignment, even   *)
(* when a register clamps it.                                                              *)
UseRhs ==
  /\ mode = "value" /\ InInner({"rhs"})
  /\ \E v \in (IF Inner.compound THEN Values ELSE {val}) : Store(Inner.place, v) /\ Yield(v)
  /\ PopInner
  /\ UNCHANGED <<acts, functions, jumps, call_stack, failure>>

(* Division by zero and the like, in an operation or a compound assignment; the library's  *)
(* panics arise here too.                                                                  *)
FailOperation(kind) ==
  /\ mode = "value"
  /\ \/ InInner({"operand"}) /\ Inner.more = 0
     \/ InInner({"rhs"}) /\ Inner.compound
  /\ Raise(kind)
-----------------------------------------------------------------------------
Execute ==
  \/ ExecExpr \/ ExecBlock \/ EndBlock \/ ExecBreak \/ ExecReturn \/ ExecReturnExpr \/ ExecIf
  \/ \E isFor \in LoopForms : ExecLoop(isFor)
  \/ EndLoopBody

Evaluate ==
  \/ Literal \/ FailExpr
  \/ \E r \in Registers : ReadRegister(r)
  \/ \E n \in Scalars : ReadVariable(n)
  \/ \E k \in 1..MaxOperands : EvalOperation(k)
  \/ \E n \in Arrays, use \in {"read", "assign", "compound", "prefix", "postfix"} :
       EvalSubscript(n, use)
  \/ \E p \in {Cell(n, 0) : n \in Scalars} \union {RegisterPlace(r) : r \in Registers}, b \in BOOLEAN :
       EvalAssign(p, b) \/ EvalUpdate(p, b)

Call ==
  \/ \E f \in Functions : EvalCall(f)
  \/ ScalarArg \/ MismatchedArg \/ BeginCall \/ BindLocal \/ EnterBody
  \/ \E n \in Arrays : ArrayArg(n)
  \/ LeaveBody \/ UnwindBody \/ UnbindLocal \/ EndCall

Use ==
  \/ UseDiscard \/ UseReturn \/ UseIf \/ UseLoop \/ UseOperand \/ UseArg
  \/ UseIndexRead \/ UseIndexUpdate \/ UseIndexAssign \/ BadIndex \/ UseRhs
  \/ \E kind \in {"error", "panic"} : FailOperation(kind)

Next ==
  \/ StartUnit \/ EndUnit \/ FailUnit
  \/ \E f \in Functions, h \in Headers : Define(f, h)
  \/ Execute \/ Evaluate \/ Call \/ Use

Spec == Init /\ [][Next]_vars
FairSpec == Spec /\ WF_vars(Next)
-----------------------------------------------------------------------------
(* Properties *)

Earlier(p, q) == p[1] < q[1] \/ (p[1] = q[1] /\ p[2] < q[2])

(* The scope stack of every name that was ever used holds the top level's frame and, above *)
(* it, exactly one frame for each live declaration of the name, in the order the calls made *)
(* them: no call leaves a frame behind or pops one that is not its own, in whatever way it  *)
(* ends (eval.rs variable_stack, the pushes of a call, ScopeGuard::drop).                   *)
ScopesBalanced ==
  \A n \in Names :
    /\ Len(owner[n]) = Len(scopes[n])
    /\ \A k, m \in DOMAIN owner[n] : k < m => Earlier(owner[n][k], owner[n][m])
    /\ owner[n] # <<>> => owner[n][1] = Global
    /\ \A k \in 2..Len(owner[n]) :
         LET i == owner[n][k][1]
             j == owner[n][k][2]
         IN  i <= Top /\ j \in 1..acts[i].bound /\ acts[i].locals[j] = n
    /\ \A i \in DOMAIN acts : \A j \in 1..acts[i].bound :
         acts[i].locals[j] = n => \E k \in 2..Len(owner[n]) : owner[n][k] = <<i, j>>

(* The rest of the inductive invariant.  A call being prepared has typed arguments so far,  *)
(* and outside the argument loop it waits for a scalar argument; the machine's modes go     *)
(* with the constructs and activations they need.                                           *)
ArgsTyped(c) ==
  /\ Len(c.done) <= Len(c.header.params)
  /\ \A j \in 1..Len(c.done) : c.done[j] \in Frame(c.header.params[j])
ScalarPending(c) ==
  Len(c.done) < Len(c.header.params) /\ c.header.params[Len(c.done) + 1] \in Scalars

PreparedCallsOK ==
  \A i \in DOMAIN ctx : \A k \in DOMAIN ctx[i] :
    ctx[i][k].kind = "args" =>
      /\ ArgsTyped(ctx[i][k])
      /\ failure.kind = "none" =>
           ScalarPending(ctx[i][k]) \/ (mode = "arg" /\ i = Top /\ k = Len(Here))
ActivationsOK ==
  /\ \A i \in DOMAIN acts :
       /\ Len(acts[i].args) <= Len(acts[i].locals)
       /\ \A j \in 1..Len(acts[i].args) : acts[i].args[j] \in Frame(acts[i].locals[j])
       /\ i > 1 => acts[i].fn \in Functions
ModesOK ==
  /\ mode \in {"bind", "unbind"} => Top > 1
  /\ mode = "arg" => InInner({"args"})
  /\ mode = "unwind" => failure.kind # "none"
  /\ failure.kind # "none" => mode \in {"unwind", "unbind"}

(* The activations whose bodies are executing: the last one may be binding or unbinding. *)
Visible == IF mode \in {"bind", "unbind"} THEN Top - 1 ELSE Top

(* Between two input units nothing of the last unit is left, however it ended: every name  *)
(* is back to its top-level frame, no jump is pending and no function is "executing".      *)
CleanBetweenUnits ==
  mode = "idle" =>
    /\ Top = 1 /\ Here = <<>> /\ call_stack = <<>> /\ failure = NoFailure
    /\ ~break_flag /\ ~return_flag /\ return_value = 0
    /\ \A n \in Names : Len(scopes[n]) <= 1

(* A pending `break` belongs to a loop of the running function: it can neither leave the   *)
(* function nor reach a loop of its caller, although the flag is global (eval.rs 626, 655).*)
BreakConfined == break_flag => mode = "stmt" /\ InLoop

(* The names reported in diagnostics are the functions whose bodies are executing.         *)
CallStackMatches ==
  call_stack = [i \in 1..(Visible - 1) |-> acts[i + 1].fn]

(* A runtime error is reported against the function it was raised in, through any number   *)
(* of callers (error.rs in_function).                                                      *)
ErrorAttributed ==
  mode = "unwind" /\ Top = 1 /\ failure.kind = "error" => failure.func = failure.origin

(* An assignment stores into the frame its target denoted when it was resolved, whatever   *)
(* functions the right-hand side called in between (eval.rs 405, 438).                     *)
StoresWhereResolved ==
  mode = "value" /\ InInner({"rhs"}) => PlaceFrame(Inner.place) = Inner.frame

(* More of the inductive invariant: what a unit starts from, how far an error has come,     *)
(* which return states are pending or saved, where the places resolved by the pending       *)
(* assignments of every activation are by now, and that each activation still has its copy  *)
(* of every name it declares.                                                               *)
UnitsOK ==
  /\ acts[1].fn = Main /\ acts[1].bound = 0
  /\ mode = "idle" => Top = 1 /\ Here = <<>>
  /\ mode = "bind" => Here = <<>>
FailureOK ==
  /\ failure.kind = "none" => failure = NoFailure
  /\ failure.kind = "error" =>
       \/ failure.func # Main /\ failure.func = failure.origin
       \/ failure.func = Main /\ failure.origin = Act.fn /\ mode = "unwind"
ReturnsOK ==
  /\ \A k \in DOMAIN ctx[1] : ctx[1][k].kind # "return"
  /\ IF Visible = 1 THEN ~return_flag /\ return_value = 0 ELSE acts[2].saved = Unsaved

FlagsOK ==
  /\ return_flag => mode = "stmt"
  /\ \A i \in DOMAIN acts : ~acts[i].saved.flag

(* The frame is on the stack of owners o, below nothing but the frames of calls made by     *)
(* activation i and later ones.                                                             *)
Held(frame, i, o) ==
  /\ frame[1] <= i
  /\ \E m \in DOMAIN o : o[m] = frame /\ \A q \in DOMAIN o : q > m => o[q][1] > i
Resolved(c, i) ==
  \/ c.place.kind = "register" /\ c.frame = Global
  \/ c.place.kind = "cell" /\ Held(c.frame, i, OwnersOf(c.place.name))
PlacesResolved ==
  \A i \in 1..Visible : \A k \in DOMAIN ctx[i] : ctx[i][k].kind = "rhs" => Resolved(ctx[i][k], i)

Declared(i) == IF i = 1 THEN Names ELSE {acts[i].locals[j] : j \in 1..acts[i].bound}
LastOf(o, i, k) == k \in DOMAIN o /\ o[k][1] = i /\ \A m \in DOMAIN o : o[m][1] = i => m <= k
CopiesOK ==
  /\ \A i \in DOMAIN acts : acts[i].bound <= Len(acts[i].locals)
  /\ \A i \in 1..Visible : \A n \in Declared(i) : \E k \in DOMAIN OwnersOf(n) : LastOf(OwnersOf(n), i, k)

(* The inductive invariant. *)
IInv ==
  /\ TypeOK /\ PreparedCallsOK /\ ActivationsOK /\ ModesOK /\ ScopesBalanced
  /\ BreakConfined /\ CallStackMatches /\ UnitsOK /\ FailureOK /\ ReturnsOK /\ FlagsOK
  /\ PlacesResolved /\ CopiesOK

(* Every register stays in its range, which the scale kernels rely on (eval.rs 80).        *)
RegistersInRange == \A r \in Registers : registers[r] \in RegMin[r]..RegMax[r]

(* The environment the evaluator's stacks and flags stand for. *)
CopyOf(n, i) ==
  IF scopes[n] = <<>> THEN ZeroFrame(n)
  ELSE scopes[n][CHOOSE k \in DOMAIN owner[n] : LastOf(owner[n], i, k)]
EnvironmentOf(i) ==
  [locals   |-> [n \in Declared(i) |-> CopyOf(n, i)],
   returned |-> IF i = Visible THEN return_flag ELSE acts[i + 1].saved.flag,
   result   |-> IF i = Visible THEN return_value ELSE acts[i + 1].saved.value]

Env == [i \in 1..Visible |-> EnvironmentOf(i)]

Scope == INSTANCE DynamicScope WITH CellsOf <- [n \in Names |-> Cells(n)], env <- Env

(* Shallow binding (a stack per name, one return flag saved around each call) implements   *)
(* dynamic scoping with a return state per activation.                                     *)
ImplementsScope == Scope!Spec

(* An error always reaches the driver, through every activation.                           *)
FailureReported == (mode = "unwind") ~> (mode = "idle")

(* From a `break` to the end of its loop, and from a `return` to the end of its function,   *)
(* nothing is evaluated, stored or defined: not the rest of the enclosing blocks, not a     *)
(* condition or an update of the loops in between; and the call's value is the one the     *)
(* `return` gave (eval.rs 594-671, and 533-541 for the body of the function).               *)
JumpsGoStraight ==
  [][/\ break_flag => mode' = "stmt"
     /\ return_flag =>
          \/ mode' = "stmt" /\ return_flag' /\ return_value' = return_value
          \/ mode' = "unbind" /\ val' = return_value
     /\ break_flag \/ return_flag => UNCHANGED <<storage, functions, failure>>]_vars

(* A `break` always ends a loop and a `return` its function: no pending jump is forgotten. *)
JumpsTaken == (break_flag \/ return_flag) ~> ~(break_flag \/ return_flag)
=============================================================================
