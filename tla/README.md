# Verification of bc_clone

TLA+ specifications of bc_clone (a POSIX `bc` in Rust), the TLC runs that check them on small
instances, and proofs checked by the TLA+ proof system. Every definition is written from the
source; `PROJECT.json` names, for each one, the lines it stands for. A comment "Mutant of X" marks
a definition that is X with a plausible mistake in it: nothing refers to it, and putting it in the
place of X makes a property of a run fail, which shows that the run can tell the difference.

## 1. The system

bc_clone is one interpreter core and several hosts around it.

| Component | Where | State | Operations |
|---|---|---|---|
| Evaluator | `bc_core/src/eval.rs` | a scope stack per variable and array name, functions, `scale`/`ibase`/`obase`, `break_flag`, `return_flag`, `return_value`, `call_stack` | `execute`, `evaluate` (recursive over the AST), `ScopeGuard::drop` |
| Errors | `bc_core/src/error.rs` | none: the error value on its way out | `in_function` (attribute to the innermost function), conversions |
| Control and scale kernels | `bc_core/src/verified_kernels.rs` | none | pure functions: abort test, loop exit, register clamp, scale rules, block scanner |
| Lexer and parser | `bc_core/src/parser.rs` | position, lines, depth, extension uses | `try_parse_program` |
| Numbers, math library | `bc_core/src/math.rs` | none | `BCNum` arithmetic with POSIX scale rules; `s c a l e j` |
| Input-unit driver | `bc_core/src/driver.rs` | `UnitAccumulator` (buffer, start and next line), `RunSummary` | `push_line`, `finish`, `run_unit`, `run_source` |
| Command line program | `bc_cli/src/main.rs` | options, error total, `CTRL_C_PRESSED` | `run_app`, `run_non_interactive_block`, `run_interactive_loop`, the Ctrl+C handler thread |
| C API | `bc_c_api/src/lib.rs` | a session: evaluator, output and diagnostics buffers | `bc_session_*`, `bc_eval*` |
| Web | `examples/wasm_web_app` | a session in a browser | `BcSession.evaluate`, `reset`, policy |
| Serial consoles | `bc_zephyr/src/lib.rs`, `examples/m5stamp_c3` | a line buffer of fixed size, an accumulator | a REPL byte by byte |
| Emulated target, tooling | `bc_qemu_riscv32`, `*_proofs.rs` | none of their own | start-up code, proof harnesses for other tools |

**How they interact.** A host gives the driver text, line by line (`UnitAccumulator`) or whole
(`run_source`). The driver cuts it into *input units* with the block scanner, parses each unit,
and has the evaluator execute its statements; diagnostics and outcomes travel back as values, and
the host turns them into counters, an exit status or a return code. A panic inside a unit
propagates to the host: `bc_cli` catches it; the others do not, and a board halts. There is one evaluator per program or session and only `bc_cli` has a second thread (the Ctrl+C handler).

**What is hard in this code**, and what makes each component right:

* *Evaluator.* Variables are dynamically scoped by shallow binding: one stack per name, pushed
  when a call starts and popped by a guard's destructor, on every path out of a call (end of
  body, `return` from inside loops, error, panic) and at any depth of recursion, also when a
  function declares a name twice. Jumps are flags of the whole evaluator, saved and restored around
  calls. Right means: every stack is balanced; a name denotes the copy of the innermost activation
  that declares it; an assignment stores where its target was resolved although the right-hand
  side may call anything; `break` and `return` stay in their function and are always taken; an
  error is attributed to the function that raised it and always reaches the driver; registers stay
  in range; a unit leaves nothing behind, however it ends.
* *Driver.* Units are cut by a scanner that does not know the grammar; line numbers are two
  counters carried over a sequence of pushes and takes; two loops (all at once, or unit by unit)
  must mean the same. Right means: a correct program means the same cut into units as whole; no
  line is lost, run twice or run after `quit`; numbers are those of the text; an error ends its
  unit only and is counted.
* *Command line program.* Options in any order, several sources with a summary each, an
  interactive loop, and a thread that sets a flag and exits the process at any moment. Right
  means: the exit status tells whether an error was reported; `-s` wins; `quit` ends everything; a
  pending unit is dropped on an interrupt; the program ends.
* *Parser.* Precedences compared in a loop, assignment outside the table, counters of loops and
  functions around nested bodies, two lists with different separators. Right means: exactly the
  programs of the grammar are accepted, each as its one tree, and no statement is lost, in a
  unit or in the whole text.
* *Numbers.* Scales and shifts by powers of ten around every operation. Right means: each result
  is the exact one cut off at the scale POSIX gives it; no sequence of operations takes a scale,
  or a count of digits, out of its range; output tells different numbers apart.
* *Lexer.* Two readers of the same characters that know nothing of each other: the block scanner
  cuts, the lexer reads. Each looks ahead and has loops of its own for comments, strings, numbers
  and names, with backslash-newlines (of two kinds) inside any of them. Right means: a text is read
  as the longest pieces of the lexical grammar, and the units have the tokens of the whole.
* *Math library.* Series in fixed point, reductions by π and by powers of two, guard digits, and
  words of 32 and 64 bits on the way. Right means: the functions satisfy their equations, whatever
  the size of the argument and the sign of the order.
* *Serial consoles.* A line of fixed size, edited and cancelled key by key. Right means: what is
  run is what the terminal shows, once, under its line number.
* *Sessions.* Effects that happened although an error is returned, buffers kept between calls, a
  column that survives a call, a reset that loses settings. Right means: a call evaluates its whole
  text and says how that ended, or changes nothing; output is given once, whole or not at all.

The list of hazards in `PROJECT.json` gives each of these a place in the code and the properties
that would notice it going wrong.

## 2. The modules

| Module | Models | Kind |
|---|---|---|
| `Kernels` | the control kernels of `verified_kernels.rs` | operators |
| `Evaluator` | `eval.rs` | state machine |
| `DynamicScope` | what bc promises about names and returns | abstract specification |
| `EvaluatorMC` | instances of `Evaluator` | model values |
| `Evaluator_proofs` | types, balance of the stacks, registers | proofs about `Evaluator` |
| `Evaluator_units` | its inductive invariant, what follows from it, the refinement of `DynamicScope` | proofs about `Evaluator` |
| `InputText` | text, the block scanner, lexer and parser at the granularity of statements, `run_unit` | operators |
| `UnitStream` | what bc promises about a text | abstract specification |
| `Driver` | `driver.rs` and the loops around it | state machine |
| `DriverMC` | instances of `Driver` | model values |
| `InputText_proofs` | folds, the scanner, the parser, one unit | lemmas about `InputText` |
| `Driver_proofs` | | proofs about `Driver` |
| `Cli` | `bc_cli/src/main.rs`; extends `Driver`, whose actions process each source | composition |
| `CliMC` | instances of `Cli` | model values |
| `Cli_proofs` | | proofs about `Cli` |
| `Syntax` | the POSIX grammar: trees, the tokens they stand for, and which texts are beginnings | reference definition |
| `Grammar` | `parser.rs` on tokens | functions, and a machine that types texts |
| `Lexer` | the lexer of `parser.rs` and the block scanner, on characters; the lexical grammar | operators |
| `FrontEnd` | extends `Grammar` and `Lexer`: machines that type texts of tokens and of characters | composition |
| `FrontEndMC` | instances of `FrontEnd` | characters |
| `Calculator` | what an embedding program may rely on | abstract specification |
| `Session` | the C API and the Web session; extends `Driver`, whose actions process each text | composition |
| `SessionMC` | instances of `Session` | model values |
| `Session_proofs` | | proofs about `Session` |
| `SerialRepl` | the loops of `bc_zephyr` and `m5stamp_c3`, over `InputText` | state machine |
| `SerialRepl_proofs` | | proofs about `SerialRepl` |
| `Numbers` | `BCNum` of `math.rs` and the scale kernels | operators, and a calculator |
| `MathLib` | `s c a l e j` of `math.rs`; extends `Numbers`, whose calculator may also call them | operators, composition |
| `NumbersMC` | instances of `MathLib` | model values |
| `Numbers_proofs` | | proofs about `Numbers` and `MathLib` |

### Evaluator

`eval.rs` recurses over an AST. `Evaluator` is the same machine with the recursion made explicit:
`acts` has an entry for each activation (a call of a user function; the top level is the first),
`ctx[i]` is the stack of constructs of activation `i` that wait for a part of theirs (a block for
its next statement, a loop for its condition, an operator for an operand, an assignment for its
right-hand side, a call for its arguments), and `mode` says what happens next. `scopes`,
`functions`, `registers`, `break_flag`, `return_flag`, `return_value` and `call_stack` are the
fields of the Rust struct (`variables` and `arrays` in one function: they work alike, a variable
being an array of one cell). `val` and `failure` are the `Ok` and `Err` results on their way back;
`owner` is a history variable: for each frame, which declaration of which activation pushed it.

Programs are not represented. Where `eval.rs` matches on the next node, the machine chooses any
node the parser can have put there: `break` only in the body of a loop of the same function,
`return` only inside a function, `define` only at top level. So one behaviour is one run of some
program, and the properties hold for all programs whose nesting is within the bounds. Numbers are
members of a small set, and the result of an operation is any of them: the properties are about
where values are kept. The exception is a register, whose clamping is modelled as it is coded.

One call is: `EvalCall` (look up, compare counts), `ScalarArg`/`ArrayArg`/`MismatchedArg` for each
argument, `BeginCall`, one `BindLocal` per parameter and auto (push a frame), `EnterBody` (the
`ScopeGuard` and the saved return state exist from here), the body, then `LeaveBody` or
`UnwindBody` (an error claims the function; then the guard's destructor), one `UnbindLocal` per
frame, `EndCall`. `DropGuard` is the part of the destructor before the pops.

### Input text and driver

A text is a sequence of lines, a line a sequence of items: braces, the two ends of a comment, a
quote, statements of the kinds the properties tell apart (ordinary, using an extension, failing at
run time, panicking), `quit`, a token that is not allowed and an expression cut off at the end of
its line. Within a comment or string an item is text. Two independent readers are modelled:
`ScanItem`/`Incomplete` is the block scanner that decides where a unit ends;
`ParseToken`/`Parsed` is what lexer and parser make of a unit, with the line numbers they report.
`UnitResult` is `run_unit`: what it executes, what it reports and how it ends. `Driver` has the
accumulator (`buf`, `start_line`, `next_line`), the summary (`errors`, `quit`) and both loops:
`gathers` says which. `PushLine` is `push_line` with the `take` it may make, `Finish` is `finish`,
`RunUnit` is `run_unit` with what the loop does with the outcome; `bc_cli` catches a panic and
counts it, `run_source` lets it through. `from` is a history variable (where the buffered lines
begin in the text).

### Command line program

`Cli` extends `Driver`: a source is opened by resetting the driver's state (each has an
accumulator of its own) and processed by the driver's actions. The interactive loop is split where
another thread can intervene: `AskLine`, `TypeLine` (`read_line` returns), `PushTyped`, with
`SeeInterrupt` at the two places that test `CTRL_C_PRESSED`. The handler thread is `Interrupt`
(the flag is set) and `HandlerExit` (the process exits with 0). Without a terminal, a source is read
completely before it is processed (`fs::read`, `read_to_end`), so only the loop has these steps.

### Parser

`Grammar` has a function for each function of `Parser`, from the tokens left to the tokens left
after it and the tree it builds, or a failure. `Syntax` is written from the grammar alone: the trees
of a given size and the tokens each stands for. The state machine types a text token by token, and
the properties compare, in each state, what the parser does with what the grammar has. Typing goes
on as long as the parser has not refused the text or the grammar has a way to continue it, so both
a text refused too early and one accepted too late would be met; other texts stay refused whatever
follows. `CutsKeepStatements` cuts the same text into units and parses each.

### Lexer

A text is a sequence of characters, each standing for its class where the code has classes; `if`
stands for the keywords and `;` and `(` for the other tokens of one character. `SkipSeparators`,
`NumberEnd` and `Scanned` are the lexer's functions, from one position to another; `Tokens` reads until the
end or an error. `PushCharacter` is the block scanner (`verified_repl_block_completeness`) with
`push_line`, and `UnitsOf` the units it cuts. The reference (`Reading`) has no algorithm: the set of pieces a text is made of, the
longest of which is read; a NUL is no more than a character that cannot start a token. `FrontEnd` types texts character by character, and token by token for `Grammar`.

### Sessions

`Session` has an action for each way a call may go: arguments refused (null pointers,
encoding, an unknown policy), a text evaluated on the session (`EvalSession`) or on an
evaluator of its own (`EvalOnce`), policy, scale, reset, destruction. Evaluation is `run_source`: the
actions of `Driver`, run to the end. The evaluator is what it has executed, in order, its policy and
the column of its output; what it prints is wrapped (`WrapStep`, `WrappedStdout`), kept in a buffer
of the session and given out by `Reply` in one of three ways: into the caller's buffers if it fits, by callbacks, or as
a string. `before`, `asked` and `since` are history variables.

### Serial consoles

`SerialRepl` has an action for each class of keys (`TypeChar`, `Erase`, `Interrupt`, `Enter`), with
the echo that goes with it: `rows` is the terminal, each row with its prompt and the characters
that stand on it. `ran` records what was run and at which row. The two consoles are the same
except that `quit` ends the loop of one of them (`on_quit`). The properties are stated with the
terminal alone, which is what the user knows: a group of rows begins at a `bc> `.

### Numbers

A number is a coefficient and a scale. `Numbers` has an operator for each scale kernel and each
operation of `BCNum`, and a calculator with two numbers and the register `scale`: an operation
replaces the first number by its result (`Compute`), which may become the second (`Store`) or set
the register (`StoreScale`); the second may also be a constant (`Literal`). So operands are results of
earlier operations, which is what a bound on scales must survive. An operation that ends in a
runtime error (`Refused`) changes nothing; what the error does is the evaluator's part. The
references are in exact integer arithmetic over a common denominator (`CutOff`, `Truncated`) and the
table of COMPATIBILITY.md section 1.4 (`ScaleOf`).

### Mathematics library

A `Decimal` is an integer and its precision. Every function is computed as it is coded: the
precision of the call (`GuardPrec`), the reduction (`reduce_angle` with π by Machin's formula,
`NearOne` for logarithms, `TwoPower` for exponentials, inversion and four halvings for
arctangents), the series until a term is zero (`Series`), and the digits cut off. What differs is size: one guard digit
instead of 15 and of 10 (`GuardDigits`, `SeriesGuard`), small words (`WordMax`, `LongMax`,
`MaxExponent`), and products and quotients taken digit by digit (`Times`, `Over`), because TLC's integers
have 32 bits. `CallMath` is the branch of `try_evaluate` that calls them, with the library loaded. `Panics`
says which calls end in a panic.

## 3. The runs

| Run | Question | Instance |
|---|---|---|
| `evaluator_scoping` | Are stacks balanced, and is shallow binding dynamic scoping? | a variable and an array, headers with both by value or with one name twice, three activations |
| `evaluator_nesting` | Do breaks and returns go straight to the end of their construct; do stores go where their target was resolved; do jumps, errors and panics leave anything behind? | one variable, both loops, three pending constructs, operators |
| `evaluator_failures` | Attribution, call stack; are errors and jumps always delivered? | two functions calling each other, a register as the only storage, under fairness |
| `driver_units` | Do units mean what the text means; do both loops keep the promise of `UnitStream`? | every text of at most three of 24 lines, `-w` or not |
| `driver_strict` | A disagreement with the documentation (section 6) | `-s`, two lines |
| `cli_program` | Exit status, `-s`, `quit`, Ctrl+C and read errors, line numbers, termination; is what was read run however the input ends? | two arguments in any order, files and standard input of up to two lines, with and without a terminal, under fairness |
| `front_end` | Does the parser accept what the grammar says, with the tree it says; does the lexer read what the lexical grammar says; may both work unit by unit? | every expression of six tokens, every program of seven; every text of 4, 6 and 5 characters of three alphabets |
| `grammar_posix` | A disagreement with the documentation (section 6) | `EmptyStatements` as POSIX has them |
| `session_calls` | Do calls have effects and answers that agree; are lines wrapped across calls; does strictness last? | four calls, five texts, a line limit of 3, buffers of 0 and 4 |
| `serial_repl` | Is what runs what the terminal shows? | lines of two characters out of seven, five rows, three characters on the terminal at a time |
| `numbers_scales` | Are results right and scales bounded, whatever was computed before; do the functions of the library satisfy their equations? | scales 0..2, results up to 40, bases 2, 10 and 16, orders -3..3 |
| `math_magnitude` | A disagreement with the documentation (section 6) | the same |

**Bounds, and why they are enough.** Three activations give recursion through a caller that is
itself a callee, which is what balancing must survive: a frame can be wrong relative to its own
activation, its caller or the top level, and there is one of each. Two locals are the least that
can have the same name. Three pending constructs hold a loop inside a loop inside a call, or an
assignment whose right-hand side calls. `MaxOperands` is the arity of the operators
of bc. The theorems of section 5 need none of these bounds. Three lines are enough for a unit
before, one across and one after any line; every line is tried with the ends a line can have
(newline, backslash-newline, and nothing after the last). Counters are not bounded: `errors` and line numbers are limited by the texts.
Values other than 0 and 1 matter only to registers and subscripts, whose runs have values below
and above the range. No symmetry is used: names are few and ordered by headers.

Six tokens are an expression with two binary operators and a prefix, or a nested assignment, so
every pair of operators meets on both sides; seven are a loop or a function with a statement inside
and another behind it, with any separators. In `serial_repl`, two characters are the least for a line
that can be full, erased and full again, and five rows hold a group, a cancelled group and another
group; `MaxShown` bounds the characters that stand on the terminal, not the keys: erased ones can be
typed again. In `front_end`, the alphabets are what can meet inside a word, what spans lines, and what a
backslash-newline is made of; their lengths hold the longest lookahead (a number with a continuation in it, a
comment with a false end, `\` carriage return newline between two digits). In `session_calls`, four calls are a
policy, two evaluations and a retry or reset between them; buffers hold nothing, or one statement's
output and not two; the limit of a line is crossed by the second statement that writes.

In `numbers_scales`, `WordMax` is three times `BC_SCALE_MAX`, which is what the digits of the library need (2^32 - 1 is 4.3 times the real limit);
that twice is enough is proved (section 5). The coefficients are bounded (`MaxCoeff`, `MaxStored`), which leaves out larger
results but no scale. `MaxExponent` stands for `i64::MAX`, `LongMax` for `u64::MAX`. Digits up to 15 are read in base 2 and 10, where
they are too large. Arguments are those the calculator reaches, so angles go several times round; `InBounds` leaves out reduced angles
above 2.4 at the larger precisions and arguments of `j` above 4, whose powers TLC cannot hold, and `MaxTerms` is
more than any series has terms. With one guard digit the last digit may be wrong, so the equations
are stated with the units each term may be off; that the real guard digits make the last digit
right is not claimed.

**Fairness.** `FairSpec` is `WF_vars(Next)` of the evaluator: the interpreter is one thread that is
never blocked, so it takes a step while it has one. It says nothing of which program is run: a
program may loop forever, and the two liveness properties hold of such programs too, since a
pending jump or error lets no loop go on. `CliFairSpec` has weak fairness for the main thread and
for the handler thread, which the operating system schedules independently of each other, and none
for the user: nobody has to type or press anything. Deadlock is checked for the evaluator and the calculator, which
always have a next step; a driver, a program, a bounded number of calls and a text of bounded length end, so their runs do not check it.

## 4. Abstract specifications

* `DynamicScope` is the promise about names: an environment is a sequence of activations, each with
  copies of the names it declares; a write changes the innermost copy; an activation that has
  returned does nothing but leave. There are no stacks per name, no flags and no saving. `Evaluator`
  implements it under the mapping `EnvironmentOf`, which finds each activation's copies with
  `owner` and its return state in the flags (running activation) or in the state saved by its
  callee. Checked by `evaluator_scoping`, and proved (section 5).
* `UnitStream` is the promise about a text: it is cut into its shortest complete groups, each is run
  once, in order, with its true line number, errors are confined and counted, `quit` is final. It
  has no buffer, counters or queue. `Driver` implements it with `pos` mapped to the first line not
  yet run. Checked by `driver_units` for both loops, and proved (section 5).
* `Calculator` is the promise to embedding programs: a session remembers what it executed; a call
  evaluates its whole text, whose effects stay, and is answered with all of its output or with a
  status that says why not; or it is refused and changes nothing. There are no buffers, columns
  or units. `Session` implements it for both interfaces, the state of a call in progress being
  mapped to the state before it. Checked by `session_calls`, and proved (section 5).
* `Syntax` is the promise about programs. `Unambiguous`, an assumption TLC evaluates, says the
  grammar gives no text two trees up to the bounds, so "the tree of a text" means something.

## 5. What is proved

By TLAPS, for every value of the constants: every set of names, headers, registers and values, every
set of lines, texts and options, every size of line, buffer, scale and word, and every bound.

| Theorem | Says |
|---|---|
| `Evaluator_proofs!TypeCorrect` | `Spec => []TypeOK` |
| `Evaluator_proofs!ScopeStacksBalanced` | `Spec => []ScopesBalanced` |
| `Evaluator_proofs!RegistersKeepRange` | `Spec => []RegistersInRange` |
| `Evaluator_units!Inductive` | `Spec => []IInv` |
| `Evaluator_units!BreaksStayInLoops` | `Spec => []BreakConfined` |
| `Evaluator_units!JumpsAreStraight` | `Spec => JumpsGoStraight` (an action property) |
| `Evaluator_units!CallStackIsExact` | `Spec => []CallStackMatches` |
| `Evaluator_units!ErrorsKeepTheirOrigin` | `Spec => []ErrorAttributed` |
| `Evaluator_units!AssignmentsKeepTheirPlace` | `Spec => []StoresWhereResolved` |
| `Evaluator_units!UnitsStartClean` | `Spec => []CleanBetweenUnits` |
| `Evaluator_units!Refinement` | `Spec => ImplementsScope` |
| `Driver_proofs!Inductive` | `Spec => []IInv` |
| `Driver_proofs!NumbersTrue` | `Spec => []UnitsNumbered` |
| `Driver_proofs!Refinement` | `Spec => ImplementsUnitStream` |
| `Driver_proofs!ProgramsKept` | `Spec => []CutsKeepPrograms` |
| `Cli_proofs!CliInductive` | `CliSpec => []CliInv` |
| `Cli_proofs!LinesStayCounted` | `CliSpec => []LinesCounted` |
| `Cli_proofs!InterruptsDrop` | `CliSpec => []InterruptedUnitDropped` |
| `Cli_proofs!StrictNeverRuns` | `CliSpec => []StrictRefuses` |
| `Cli_proofs!StatusTells` | `CliSpec => [](policy # "Reject" => ExitStatusTells)` |
| `Cli_proofs!NothingAfterQuit` | `CliSpec => QuitIsFinal` (an action property) |
| `Session_proofs!SessionInductive` | `SessionSpec => []SessionInv` |
| `Session_proofs!StrictStays` | `SessionSpec => []StrictSession` |
| `Session_proofs!LinesStayWrapped` | `SessionSpec => []LinesWrapped` |
| `Session_proofs!PromiseKept` | `SessionSpec => []Underway` |
| `Session_proofs!SessionRefinement` | `SessionSpec => ImplementsCalculator` |
| `SerialRepl_proofs!ReplInductive` | `Spec => []ReplInv` |
| `SerialRepl_proofs!ShownIsRun` | `Spec => []ExecutedIsShown` |
| `SerialRepl_proofs!EachGroupRunsOnce` | `Spec => []GroupsRunOnce` |
| `SerialRepl_proofs!LinesCountRows` | `Spec => []NumbersFollowRows` |
| `Numbers_proofs!ScalesStayBounded` | `Spec => []ScalesBounded` |
| `Numbers_proofs!DigitSumsStayInWord` | `Spec => []DigitSumsFit` |
| `Numbers_proofs!MathScalesStayBounded` | `MathSpec => []ScalesBounded` |
| `Numbers_proofs!MathDigitSumsStayInWord` | `MathSpec => []DigitSumsFit` |
| `Numbers_proofs!LibraryGivesNumbers` | `MathSpec => []Typed` |
| `Numbers_proofs!ResultsStayTruncated` | `MathSpec => []ResultsTruncated` |
| `Numbers_proofs!RemaindersStayExact` | `MathSpec => []RemaindersExact` |
| `Numbers_proofs!PrintedNumbersTellValue` | `MathSpec => []PrintedTellsValue` |
| `Numbers_proofs!PrintedNumbersReadBack` | `MathSpec => []PrintedReadsBack` |
| `Numbers_proofs!AngleIsReduced` | a remainder by 2π, folded once, is in [-π, π], for any value of π |

The only assumptions are those on the constants, which TLC evaluates on every run. `ConstantsOK` of `Evaluator`: names are either
variables or arrays, headers are lists of names, 0 and 1 are numbers, registers start within their
ranges. `DriverConstantsOK`: lines are lines and the bound is a number. `CliConstantsOK` and
`SessionConstantsOK`: texts are made of those lines, a text handed over without a newline at its end
may get one, sizes are numbers, every policy can be set. `SerialConstantsOK`: keys are items or a
backslash. `NumbersConstantsOK`: a word holds `2 * BC_SCALE_MAX`, literals are made of digits.
`MathConstantsOK`: there are guard digits, and a long holds a word.

*Evaluator: types.* `TypeOK` alone is not inductive. `EnterBody` and `BindLocal` index `args` by
`locals`, so `ActivationsOK` keeps the arguments of an activation typed by its first locals; those
come from a call under preparation, so `PreparedCallsOK` says the arguments collected are typed by
the header's parameters, and that while an argument is being evaluated it is a scalar's turn; modes
that use the innermost construct or a second activation need them to be there (`ModesOK`).
`Evaluator_proofs` proves this part (`Control`: everything but scopes) action by action, with
lemmas for the ways an action changes the stack of constructs.

*Evaluator: balance.* `ScopesBalanced` relates a stack per name to a list of locals per activation in both
directions. `Evaluator_proofs` first proves, for one name and with plain functions in place of the
evaluator's records, that each kind of step keeps the relation: touch a name for the first time,
begin a call, push, pop (in the reverse order of the pushes), end a call, and steps on other names. Then it
classifies every action of `Next` as one of those kinds (`StepKinds`) and lifts the lemmas to all names.

*Evaluator: the rest of the invariant.* What a user sees of jumps, errors and assignments follows from
facts about states in the middle of a call, which `IInv` adds. `BreakConfined` needs to know what an
action may do to the constructs of the activation that broke (`BreakActions`). `JumpsAreStraight` follows: a jump
is pending only where a statement has ended, so the next step leaves a block, a loop or the activation, and none of these
evaluates or stores anything. The invariants called `IInv` (here and in `Driver`) are not properties of runs, since most
of their parts are there to carry a proof. `FailureOK` says who
may still claim an error: nobody but the running activation, while it unwinds. `ReturnsOK` and
`FlagsOK` say that `return` is never pending at top level and never in the state a callee saved, so that
restoring it cannot bring an old one back. `PlacesResolved` is the strengthening of
`StoresWhereResolved`: the frame an assignment resolved is not only on its stack now, it lies below
nothing but frames of later activations, all of which will be gone when the right-hand side is
evaluated. `CopiesOK` says that a live declaration has a copy, which is what the refinement
needs for a name to denote it. `CleanBetweenUnits` then is the invariant in the mode `idle`.

*Evaluator: dynamic scope.* `EnvironmentOf` maps stacks, owners and flags to environments and return states;
each kind of step changes them as one action of `DynamicScope` does, or not at all (`SilentStep`): a read
or write finds the innermost copy because the top of a balanced stack belongs to the last activation that
declares the name (`ChosenCopy`), and saving and restoring flags moves a return state from one activation's to
the next one's without changing either (`ReturnStep`).

*Driver.* Its invariant says that nothing is lost between the text and the units: the buffer is the
segment of the text from `from` to `read`, `start_line` and `next_line` are the numbers of those
places, and the waiting units are the shortest whole groups from the first line not run up to the
buffer, without a gap. Each action of either loop then maps to a step of `UnitStream` or to none. What
the scanner and the parser compute stays opaque here (`Whole`, `UnitResult`): these theorems hold for any.

*Programs in units.* `ProgramsKept` opens them. Its invariant, `CorrectSoFar`, is about the steps of
`UnitStream`: as long as a correct text is being run, the parser of the whole text, stopped at
the first line not run, has nothing open, and the statements it found are those that were executed.
A step runs the lines up to the end of a group, so `InputText_proofs` shows for one group
(`UnitCompletes`) that three readers of it agree: the parser of the text going on from before the group, the
parser of the group alone, and the block scanner (`Agree`, `Tracks`). They agree token by token
(`TracksKept`), hence line by line (`LineTracks`) and over any piece (`PieceTracks`), but for the line numbers,
which differ by the lines before; so where the scanner says a group is whole the parser has nothing
open, and the group has a result of its own. That everything before the end of a correct text is correct
(`GoodPrefix`) excludes the syntax errors which would let them part: it is where a stray brace or
an unmatched comment end would break the argument. Folds, which the library defines by recursion on
sets, are first unfolded into runs (`FoldSteps`, `ParserRuns`, `LineRuns`): the states after each element. Induction over lines is the
existence of a least counterexample (`Least`, `Induction`).

*Command line program.* `CliInv` is the invariant of both threads. The driver's does not hold in it as
it is, since the interactive loop drops lines on an interrupt: `PiecesOK` and `NumbersOK` say what is left (units
and buffer are lines of the text, numbered as long as no interrupt has been seen), `StrictOK` that the policy is
what the options say, `CountsOK` that something was counted exactly if something was reported, wherever the
program is between two sources, and `StatusOK` what the status is once it has exited, by itself or by the handler, which may come between any two steps and exits
with 0, so that a status of 1 is never without an error. `CountsOK` and
`StatusTells` leave out `-s`, with which a text can have an error printed and not counted (section 6); the lines of
`cli_program` have no such text.

*Sessions.* `SessionInv` has the driver's invariant for the text being evaluated. Lines stay wrapped because of
`ColumnOK`: the column a session remembers is never less than the characters written since the last
line began, whatever was answered, kept or thrown away meanwhile. `StrictSession` needs that the policy in
use is the one asked for (`asked`), also while a text is being evaluated.

*Sessions: the calculator.* `Calculator` evaluates a text in one step, by a recursive function over its units; the
session takes many: push, run, finish. `Underway` relates them while a call is in progress: what was done so far,
together with what the calculator promises for what is `Left` of the text, is what it promises for the whole
text, and nothing but this call has added to the session. A step of the driver moves one unit from one part to the other, and at
the end nothing is left. That the recursive function exists, so that its equation may be used, is shown
by induction from the end of the text. Calls that evaluate nothing, and the answers, then map to steps of the calculator one by one.

*Serial consoles.* `ReplInv` ties the state of the program to the terminal: the row being typed shows the
line buffer, the rows of its group before it the accumulator, and the counters are numbers of
rows entered. The three properties then follow from what each key does to the last row or behind it (`GroupEdited`, `RowEnds`).

*Numbers: scales.* `ScalesBounded` is inductive as it stands, and says nothing of coefficients: the proof has
one lemma per kernel and operation, and where a kernel alone does not give it (remainder, power,
constant, register) it is the check in the code that does. That is the invariant on which
COMPATIBILITY.md section 2 rests the preconditions of the verified kernels. Whatever a series
returns, the result has the scale of the register (`MathScale`), so calls of the library keep it.

*Numbers: results.* `Typed` adds that coefficients are integers, and each property is then a statement about one operation on any two
decimals. Functions defined by recursion (powers, digits, roots, series) exist because they descend or count up
(`Descent`, `Counted`, by existence of a least counterexample). A quotient of BigInt times
the divisor is at most the dividend and misses it by less than the divisor (`QuotientCutsOff`), and shifts by powers of ten
cancel against the common denominator of `CutOff` (`Tens`, `Cancels`). Powers need the invariant of the
square-and-multiply loop (product times square to the bits left is the power: `TurnKeeps`), roots that of the bits
tried so far (`BitKeeps`). In `Printed`, digits of the integer part are found by division and those of the fraction by
multiplication, and their value is what they leave (`WholeDigits`, `FractionOf`); the number of digits is enough to
tell a unit (`FractionWidth`). Reading back loses less than the digits that were not printed (`Lost`).
Neither `MaxCoeff` nor `InBounds`, which bound what TLC explores, is used in these proofs.

*Mathematics library.* Products and quotients are exact before they are cut off, although taken digit by digit (`TimesIs`,
`OverIs`). That calls give numbers at all (`LibraryGivesNumbers`) needs that nothing is divided by zero: a series of terms that are added is no
less than its first term, so ln 2 and exponentials are not zero (`SumsGrow`, `Ln2Positive`); one whose terms shrink
and are added and subtracted in turn stays between its first term and two thirds of it, so π is not
(`SumsAlternate`, `PiPositive`), with any number of digits, terms and guard digits. The search of a logarithm for a power of two ends
(`NearOneTyped`), and the inverse of an exponential has the check of `Panics` to rest on. `AngleIsReduced` rests on what
division of BigInt leaves (`RemainderSmall`).

*Model-checked only.* Liveness (`JumpsTaken`, `FailureReported`, `ProgramEnds`), which is out of the prover's reach; `InputRunToEnd`, which has the
argument of `CutsKeepPrograms` for the loop of `Cli`, not repeated; how good the
values of the library are (`AnglesAdd`, `LogarithmsInvert`, `BesselOrders`), which is a matter of real analysis; and
`Grammar`, `Syntax`, `Lexer` and `FrontEnd`, whose functions are recursive operators.

## 6. Disagreements with the documentation

1. `driver_strict`: with `-s`, a unit that uses an extension and contains `quit` has its error
   printed but not counted (driver.rs 136 tests `parsed.is_ok()`, and parsing ended in
   `BcError::Quit`), so the program exits with 0. COMPATIBILITY.md section 4 says the use "counts
   as an error".
2. `grammar_posix`: `{ ; }` and `{ 1;; 2 }` are syntax errors (parser.rs 833 skips newlines but not
   semicolons before a statement), although the same is accepted outside braces. parser.rs 5 says
   the parser conforms to the POSIX grammar, whose statement lists may have empty statements.
3. `math_magnitude`: `e(x)` of a negative `x` whose power of two does not fit in a word divides one by zero (math.rs 814
   and 826), or asks `pow10` for more digits than it allows (line 29), although the result is 0.
   COMPATIBILITY.md section 3.4 says accuracy holds for any magnitude. `AnyMagnitude` says the same of the order of `j`,
   and would be violated without `e` too: an order that does not fit in 64 bits becomes 0 (math.rs 900,
   `to_i64().unwrap_or(0)`), so `j(2^63,.1)` is J_0(.1) and not 0.

Met while modelling, without a run of their own:

* A NUL in the text is taken for the end of the input (parser.rs 157): the rest of its unit is dropped without a diagnostic
  and the status stays 0. COMPATIBILITY.md section 3.2 has `illegal character: <c>` for a character that cannot start a
  token, and so has the reference of `Lexer`; with NUL among the characters of `front_end`, `TextRead` is violated by a text
  of one character. The alphabets are without it.
* Ctrl+C exits with status 0 although an error was reported before (main.rs 68), and a read error in the interactive loop
  ends the program as the end of the input does, with the rest unread (main.rs 192); COMPATIBILITY.md section 3.1 says the status
  is 1 when any error occurred and 0 when all input was processed. `ExitStatusTells` says what does hold: without Ctrl+C the
  status tells, the end of an interactive input being where the loop stopped reading, and a status of 1 is never
  without an error, wherever the handler comes in. `InputRunToEnd` says that what was read before a read error is run.
* A call of the C API with text that is not UTF-8 leaves the output buffer as it was, where others empty it.
* `bc_session_reset` loses the policy of the session (lib.rs 420), of which the header says nothing: `StrictSession` and
  `Calculator` have it as the code has it.

## 7. Not modelled, and why

The way digits are written (letters, groups of decimal digits, spaces) is presentation. The letters
of keywords, and what makes a construct an extension, are one token or one kind of statement. In the library of mathematics, the
real numbers of guard digits are beyond TLC's integers, and a loop that is longer than memory or patience
allows (`j` of an order near 2^63) is a loop like any other. The native stack and the heap are not
modelled: depth, nesting and rows are bounds. A callback of the C API that calls the session it belongs to
is not modelled: the callbacks are part of the call's step. The emulated target (a fixed self test and device I/O), build files
and the harnesses of other tools have no behaviour of their own.

## 8. Plan

Done, in this order: `Kernels`, `DynamicScope`, `Evaluator` and its proofs, `InputText`,
`UnitStream`, `Driver` and its proofs, `Cli`, `Syntax`, `Grammar`, `SerialRepl`, `Numbers` and its
proofs, `Calculator` and `Session`, `Lexer` and `FrontEnd`, `MathLib` and its proofs, and then the
proofs about `Evaluator` beyond balance, `Cli`, `Session`, `SerialRepl`, `CutsKeepPrograms`, the refinement of
`Calculator` and the values of `Numbers`.

What could follow:

1. Proofs: the lexer and the parser, written with recursive functions in place of recursive operators.
2. Output digits of bases above 16, and the constants of `-l` (`scale` set to 20).
3. Extension uses in `Grammar`, so that `Policy` is decided by the parser and not by the kind of statement.
