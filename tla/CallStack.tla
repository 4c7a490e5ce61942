------------------------------ MODULE CallStack ------------------------------
(***************************************************************************)
(* What a procedure call of the PL/0 machine promises, with the layout of  *)
(* activation records left out: a call suspends the caller's environment,  *)
(* and the matching return gives back exactly that environment.  PMachine  *)
(* keeps the suspended environments as link words in the stack the program *)
(* itself writes to, and is shown to implement this module.                *)
(***************************************************************************)
EXTENDS Integers, Sequences

VARIABLES env,        \* the running environment: base, top of stack, pc
          suspended   \* the environments of the callers, innermost last

vars == <<env, suspended>>

Init == /\ env = [bp |-> 1, sp |-> 0, pc |-> 0]
        /\ suspended = << >>

\* A call: the caller resumes after the call instruction, and the callee's
\* record starts right above the caller's.
Call == /\ suspended' = Append(suspended, [env EXCEPT !.pc = @ + 1])
        /\ env' \in [bp : {env.sp + 1}, sp : {env.sp}, pc : Int]

\* A return: the innermost suspended environment runs again, as it was.
Return == /\ suspended # << >>
          /\ env' = suspended[Len(suspended)]
          /\ suspended' = SubSeq(suspended, 1, Len(suspended) - 1)

\* Anything else moves the pc and the top of the running record only.
Local == /\ env' \in [bp : {env.bp}, sp : Int, pc : Int]
         /\ UNCHANGED suspended

Next == Call \/ Return \/ Local

Spec == Init /\ [][Next]_vars
=============================================================================
