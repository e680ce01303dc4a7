------------------------------ MODULE Kernels ------------------------------
(***************************************************************************)
(* The pure control kernels of verified_kernels.rs that the evaluator and  *)
(* the front ends are built from.  Each operator is the function of the    *)
(* same purpose; the `verified_` prefix is left out.                       *)
(***************************************************************************)
EXTENDS Integers

(* verified_should_abort_execution: no statement starts while a jump is pending. *)
ShouldAbort(breaking, returning, quitting) == breaking \/ returning \/ quitting

(* verified_loop_post_body_action: what a loop does after its body ran: whether it ends, and *)
(* the break flag it leaves.  A loop always consumes the break flag.                         *)
LoopPostBody(breaking, returning, quitting) ==
  [exit |-> breaking \/ returning \/ quitting, break |-> FALSE]

(* Mutant of ClampRegister: the first value above the range is let through. *)
ClampOffByOne(magnitude, negative, min, max) ==
  IF negative                THEN [value |-> min, warning |-> "negative"]
  ELSE IF magnitude < min    THEN [value |-> min, warning |-> "too small"]
  ELSE IF magnitude > max + 1 THEN [value |-> max, warning |-> "too large"]
  ELSE [value |-> magnitude, warning |-> "none"]

(* verified_clamp_register: the value a register keeps and the warning given. *)
ClampRegister(magnitude, negative, min, max) ==
  IF negative             THEN [value |-> min, warning |-> "negative"]
  ELSE IF magnitude < min THEN [value |-> min, warning |-> "too small"]
  ELSE IF magnitude > max THEN [value |-> max, warning |-> "too large"]
  ELSE [value |-> magnitude, warning |-> "none"]
=============================================================================
