------------------------------ MODULE Session ------------------------------
(***************************************************************************)
(* Sessions: the C API (bc_c_api/src/lib.rs) and the Web session           *)
(* (examples/wasm_web_app).  A call checks its arguments, has the driver   *)
(* run the text on the session's evaluator, or on one of its own, and      *)
(* answers with what was collected in two buffers.  The text is processed  *)
(* by the actions of Driver, all of it at once (run_source).               *)
(*                                                                         *)
(* The evaluator is abstracted to what it has executed, in order, which    *)
(* determines its variables, functions and registers, and to the column    *)
(* its output has reached.                                                 *)
(***************************************************************************)
EXTENDS Driver

CONSTANTS
  Codes,                  \* the texts given to be evaluated
  Writes,                 \* what each kind of statement prints
  DiagnosticLen,          \* the length of a diagnostic
  BufSizes,               \* the sizes of output buffers
  POSIX_WRAP_COL_LIMIT,   \* the column after which a line is continued on the next
  MaxCalls                \* bound on the number of calls, those that create a session left out

ASSUME SessionConstantsOK ==
  /\ Codes \subseteq UNION {[1..n -> Lines] : n \in 0..MaxLines}
  /\ \A code \in Codes : IsText(code)
  /\ Writes \in [Statements -> Seq({"char", "newline"})]
  /\ DiagnosticLen \in Nat \ {0} /\ BufSizes \subseteq Nat
  /\ POSIX_WRAP_COL_LIMIT \in Nat \ {0} /\ MaxCalls \in Nat
  /\ Policies = Policy
  /\ [items |-> <<>>, end |-> "newline"] \in Lines
  /\ \A line \in Lines : [line EXCEPT !.end = "newline"] \in Lines

VARIABLES
  front,        \* "C" or "Wasm" (never changes)
  alive,        \* whether the session exists
  session,      \* its evaluator
  once,         \* the evaluator of a call without a session
  running,      \* whose text is being evaluated: "none", "session", "once"
  out,          \* out_shared: what has been printed
  reply,        \* how the answer is given: in a buffer, by a callback, or as a string
  answer,       \* the last answer given
  calls,        \* how many calls were made
  before,       \* history variable: what the session had executed when the call began
  asked,        \* history variable: the last policy accepted since the session began
  since         \* history variable: how much it had executed by then

hosts    == <<front, alive, calls>>
machines == <<session, once>>
history  == <<before, asked, since>>
sessionVars == <<vars, hosts, machines, running, out, reply, answer, history>>

\* `written` is a history variable: all the evaluator has written
Evaluator == [executed : Seq(Statements \union {"scale"}), extension_policy : Policy,
              col : 0..POSIX_WRAP_COL_LIMIT, written : Seq({"char", "newline", "fold"})]

NewEvaluator == [executed |-> <<>>, extension_policy |-> "Allow", col |-> 0, written |-> <<>>]

None == [status |-> "none", out |-> <<>>, err |-> <<>>]

SessionTypeOK ==
  /\ TypeOK
  /\ front \in {"C", "Wasm"} /\ alive \in BOOLEAN /\ calls \in 0..MaxCalls
  /\ session \in Evaluator /\ once \in Evaluator
  /\ running \in {"none", "session", "once"}
  /\ out \in Seq({"char", "newline", "fold"})
  /\ reply \in [kind : {"buffer", "callback", "string"}, size : BufSizes \union {0}]
-----------------------------------------------------------------------------
(* WrappedStdout: "fold" is a backslash and a newline. *)

WrapStep(w, c) ==
  IF c = "newline" THEN [col |-> 0, text |-> Append(w.text, "newline")]
  ELSE IF w.col >= POSIX_WRAP_COL_LIMIT THEN [col |-> 1, text |-> w.text \o <<"fold", "char">>]
  ELSE [col |-> w.col + 1, text |-> Append(w.text, "char")]

Wrapped(col, chars) == FoldLeft(WrapStep, [col |-> col, text |-> <<>>], chars)

Bytes(text_) == FoldLeft(LAMBDA n, c : n + (IF c = "fold" THEN 2 ELSE 1), 0, text_)

(* verified_c_ffi_check_buf_capacity: with the NUL at the end *)
Fits(length, size) == length < size
-----------------------------------------------------------------------------
(* Calls *)

Idle == running = "none" /\ calls < MaxCalls

Answers(a) == answer' = a /\ calls' = calls + 1

(* A call that changes nothing but the answer. *)
Refuses(status) ==
  /\ Answers([None EXCEPT !.status = status])
  /\ UNCHANGED <<vars, front, alive, machines, running, out, reply, history>>

(* Null pointers, an empty buffer, a text that is not UTF-8: in this order. *)
RefuseNull     == front = "C" /\ Idle /\ Refuses("ErrNullPtr")
RefuseSize     == front = "C" /\ Idle /\ 0 \in BufSizes /\ Refuses("ErrBufferTooSmall")
RefuseEncoding == front = "C" /\ Idle /\ Refuses("ErrExecution")

(* Session calls end the text with a newline if it has none. *)
Terminated(code) ==
  IF code = <<>> THEN <<[items |-> <<>>, end |-> "newline"]>>
  ELSE IF Last(code).end = "none" THEN Front(code) \o <<[Last(code) EXCEPT !.end = "newline"]>>
  ELSE code

Replies ==
  IF front = "C" THEN [kind : {"buffer"}, size : BufSizes \ {0}] \union [kind : {"callback"}, size : {0}]
  ELSE [kind : {"string"}, size : {0}]

(* run_source on a text: a new accumulator and summary. *)
RunSource(code, how) ==
  /\ text' = code /\ policy' = how /\ gathers' = TRUE
  /\ phase' = "reading" /\ read' = 0
  /\ buf' = <<>> /\ start_line' = 1 /\ next_line' = 1 /\ from' = 0
  /\ units' = <<>> /\ errors' = 0 /\ quit' = FALSE
  /\ ran' = <<>> /\ reports' = <<>>

(* Mutants of EvalSession: the buffers of the last call are not cleared; every call has an *)
(* output stream of its own.                                                                *)
EvalKeepsOutput ==
  /\ Idle /\ alive
  /\ \E code \in Codes : RunSource(Terminated(code), session.extension_policy)
  /\ running' = "session" /\ reply' \in Replies
  /\ before' = session.executed
  /\ UNCHANGED <<hosts, machines, out, answer, asked, since>>

EvalRestartsColumn ==
  /\ Idle /\ alive
  /\ \E code \in Codes : RunSource(Terminated(code), session.extension_policy)
  /\ running' = "session" /\ reply' \in Replies
  /\ out' = <<>> /\ before' = session.executed
  /\ session' = [session EXCEPT !.col = 0]
  /\ UNCHANGED <<hosts, once, answer, asked, since>>

(* bc_session_eval, bc_session_eval_callback, BcSession.eval *)
EvalSession ==
  /\ Idle /\ alive
  /\ \E code \in Codes : RunSource(Terminated(code), session.extension_policy)
  /\ running' = "session" /\ reply' \in Replies
  /\ out' = <<>> /\ before' = session.executed
  /\ UNCHANGED <<hosts, machines, answer, asked, since>>

(* bc_eval, bc_eval_callback, eval_bc: an evaluator for this call alone. *)
EvalOnce ==
  /\ Idle
  /\ \E code \in Codes : RunSource(code, NewEvaluator.extension_policy)
  /\ running' = "once" /\ reply' \in Replies
  /\ once' = [NewEvaluator EXCEPT !.executed = <<"scale">>]   \* default_scale
  /\ out' = <<>>
  /\ UNCHANGED <<hosts, session, answer, history>>
-----------------------------------------------------------------------------
(* Evaluating *)

Executed(places) == [j \in DOMAIN places |-> text[places[j].line].items[places[j].column]]

(* The evaluator after it has executed some statements, and what they added to the buffer. *)
Written(ev, stmts) == Wrapped(ev.col, FlattenSeq([j \in DOMAIN stmts |-> Writes[stmts[j]]]))

After(ev, stmts) ==
  LET w == Written(ev, stmts)
  IN  [ev EXCEPT !.executed = @ \o stmts, !.col = w.col, !.written = @ \o w.text]

Run ==
  /\ running # "none" /\ RunUnit
  /\ LET stmts == Executed(SubSeq(ran', Len(ran) + 1, Len(ran')))
         ev    == IF running = "session" THEN session ELSE once
     IN  /\ out' = out \o Written(ev, stmts).text
         /\ IF running = "session"
            THEN session' = After(ev, stmts) /\ UNCHANGED once
            ELSE once' = After(ev, stmts) /\ UNCHANGED session
  /\ UNCHANGED <<hosts, running, reply, answer, history>>

Cut ==
  /\ running # "none" /\ (PushLine \/ Finish \/ Done)
  /\ UNCHANGED <<hosts, machines, running, out, reply, answer, history>>
-----------------------------------------------------------------------------
(* Answering *)

\* the end of a line that is continued is not part of the text
Text(chars) == FlattenSeq([i \in DOMAIN chars |-> IF chars[i] = "fold" THEN <<>> ELSE <<chars[i]>>])
Answer(status, o, e) == [status |-> status, out |-> Text(o), err |-> e]

(* Mutant of BufferAnswer: output that does not fit is taken for no output. *)
BufferAnswerForgetsSize(size) ==
  IF errors > 0 THEN Answer("ErrExecution", <<>>, reports)
  ELSE Answer("Ok", IF Fits(Bytes(out), size) THEN out ELSE <<>>, <<>>)

(* write_c_string: what does not fit is left out altogether. *)
BufferAnswer(size) ==
  IF errors > 0
  THEN Answer("ErrExecution", <<>>, IF Fits(DiagnosticLen * Len(reports), size) THEN reports ELSE <<>>)
  ELSE IF Fits(Bytes(out), size) THEN Answer("Ok", out, <<>>)
  ELSE Answer("ErrBufferTooSmall", <<>>, <<>>)

CallbackAnswer == Answer(IF errors > 0 THEN "ErrExecution" ELSE "Ok", out, reports)

StringAnswer == IF reports # <<>> THEN Answer("Ok", <<>>, reports) ELSE Answer("Ok", out, <<>>)

Reply ==
  /\ running # "none" /\ phase = "done"
  /\ Answers(CASE reply.kind = "callback" -> CallbackAnswer
               [] reply.kind = "string"   -> StringAnswer
               [] reply.kind = "buffer"   -> BufferAnswer(reply.size))
  /\ running' = "none"
  /\ UNCHANGED <<vars, front, alive, machines, out, reply, history>>
-----------------------------------------------------------------------------
(* The session itself *)

(* bc_session_create, bc_session_reset and bc_session_destroy; a reset builds a new evaluator, *)
(* with the policy a new one has.                                                              *)
Renew(exists) ==
  /\ answer' = None
  /\ alive' = exists /\ session' = NewEvaluator
  /\ out' = <<>> /\ asked' = "Allow" /\ since' = 0 /\ before' = <<>>
  /\ UNCHANGED <<vars, front, once, running, reply>>

Create  == Idle /\ ~alive /\ Renew(TRUE) /\ UNCHANGED calls
Reset   == Idle /\ alive /\ Renew(TRUE) /\ calls' = calls + 1
Destroy == Idle /\ alive /\ Renew(FALSE) /\ calls' = calls + 1

(* Mutant of SetPolicy: a value that is not a policy stands for the default. *)
SetPolicyDefaults ==
  /\ Idle /\ alive
  /\ \E value \in Policy \union {"unknown"} :
       LET known == value \in Policy
       IN  /\ session' = [session EXCEPT !.extension_policy = IF known THEN value ELSE "Allow"]
           /\ asked' = (IF known THEN value ELSE asked)
           /\ since' = (IF known THEN Len(session.executed) ELSE since)
           /\ Answers([None EXCEPT !.status = IF known \/ front = "Wasm" THEN "Ok" ELSE "ErrExecution"])
  /\ UNCHANGED <<vars, front, alive, once, running, out, reply, before>>

(* bc_session_set_extension_policy, set_extension_policy *)
SetPolicy ==
  /\ Idle /\ alive
  /\ \E value \in Policy :
       /\ session' = [session EXCEPT !.extension_policy = value]
       /\ asked' = value /\ since' = Len(session.executed)
  /\ Answers([None EXCEPT !.status = "Ok"])
  /\ UNCHANGED <<vars, front, alive, once, running, out, reply, before>>

RefusePolicy ==
  /\ Idle /\ alive
  /\ Refuses(IF front = "C" THEN "ErrExecution" ELSE "Ok")

(* set_scale changes a register; get_scale changes nothing. *)
SetScale ==
  /\ Idle /\ alive /\ front = "Wasm"
  /\ session' = [session EXCEPT !.executed = Append(@, "scale")]
  /\ Answers(None)
  /\ UNCHANGED <<vars, front, alive, once, running, out, reply, history>>
-----------------------------------------------------------------------------
SessionInit ==
  /\ front \in {"C", "Wasm"} /\ alive = FALSE
  /\ session = NewEvaluator /\ once = NewEvaluator
  /\ running = "none" /\ out = <<>> /\ reply = [kind |-> "string", size |-> 0] /\ answer = None /\ calls = 0
  /\ before = <<>> /\ asked = "Allow" /\ since = 0
  /\ text = <<>> /\ policy = "Allow" /\ gathers = TRUE
  /\ phase = "done" /\ read = 0
  /\ buf = <<>> /\ start_line = 1 /\ next_line = 1 /\ from = 0
  /\ units = <<>> /\ errors = 0 /\ quit = FALSE
  /\ ran = <<>> /\ reports = <<>>

SessionNext ==
  \/ Create \/ Reset \/ Destroy \/ SetPolicy \/ RefusePolicy \/ SetScale
  \/ RefuseNull \/ RefuseSize \/ RefuseEncoding
  \/ EvalSession \/ EvalOnce \/ Cut \/ Run \/ Reply

SessionSpec == SessionInit /\ [][SessionNext]_sessionVars
-----------------------------------------------------------------------------
(* Properties *)

(* Every call is all or nothing: it evaluates its whole text on the session, and its answer *)
(* tells how that ended with what this call printed, or it changes nothing.  An output that *)
(* does not fit is told apart from one that is empty, although its effects stay             *)
(* (lib.rs 342); a refused text of a C program cannot be told from one that failed.         *)
Calculation ==
  INSTANCE Calculator WITH
    Texts   <- Codes \union {Terminated(code) : code \in Codes},
    journal <- IF running = "session" THEN before ELSE session.executed,
    policy  <- session.extension_policy
ImplementsCalculator == Calculation!Spec

(* COMPATIBILITY.md 1.5: no line of output is longer than the limit (and the backslash that *)
(* continues it), also when a line is begun by one call and continued by later ones.        *)
WrappedText(w) ==
  \A i \in 1..(Len(w) - POSIX_WRAP_COL_LIMIT) :
    \E j \in i..(i + POSIX_WRAP_COL_LIMIT) : w[j] # "char"
LinesWrapped == WrappedText(session.written)

(* COMPATIBILITY.md 4: once a session was asked to reject extensions, none is executed until *)
(* it is asked otherwise or reset, whatever calls and refused calls come between.            *)
StrictSession ==
  asked = "Reject" => \A i \in (since + 1)..Len(session.executed) : session.executed[i] # "ext"

(* The inductive invariant: that of the driver, which has the session's policy as long as it *)
(* runs for the session; and the column is never less than the characters since a line began. *)
ColumnOK(w, col) == col <= Len(w) /\ (col < Len(w) => w[Len(w) - col] # "char")

SessionInv ==
  /\ IInv /\ SessionTypeOK
  /\ ran \in Seq([line : Nat, column : Nat])
  /\ reports \in Seq([kind : {"error", "warning", "runtime"}, line : Int])
  /\ asked = session.extension_policy /\ since \in 0..Len(session.executed)
  /\ running = "session" => policy = asked
  /\ running # "none" => calls < MaxCalls
  /\ ColumnOK(session.written, session.col) /\ LinesWrapped /\ StrictSession

(* The inductive invariant of the refinement, while a text is evaluated: what was executed, *)
(* printed and reported so far, followed by what the calculator promises for the lines that *)
(* are left, is what it promises for the whole text; and only this call has added to the    *)
(* session and to the buffer.                                                               *)
Left == IF quit THEN Calculation!Nothing ELSE Calculation!Remaining(text, policy)[Position]

Underway ==
  running # "none" =>
    /\ gathers /\ reply \in Replies
    /\ text \in Codes \union {Terminated(code) : code \in Codes}
    /\ running = "session" => alive /\ before \in Seq(Statements \union {"scale"})
    /\ running = "once" => policy = "Allow"
    /\ phase # "crashed" =>
         \E done \in Seq(Statements) :
           /\ running = "session" => session.executed = before \o done
           /\ Text(out) = Calculation!Output(done)
           /\ Calculation!Then([ran |-> done, reports |-> reports, errors |-> errors], Left)
                = Calculation!Evaluated(text, policy)
=============================================================================
