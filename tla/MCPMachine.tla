------------------------------ MODULE MCPMachine ------------------------------
(***************************************************************************)
(* PMachine on all short programs over a small alphabet of instructions,   *)
(* and on longer ones in the shape the code generator gives them: nested   *)
(* calls, recursion, two calls in a row, arithmetic at the ends of int.    *)
(***************************************************************************)
EXTENDS PMachine

CONSTANTS MaxTail   \* bound: the length of the enumerated programs after INC

Ins(op, reg, lev, mod) == [op |-> op, r |-> reg, l |-> lev, m |-> mod]

Alphabet == {Ins("INC", 0, 0, 4), Ins("CAL", 0, 0, 3), Ins("CAL", 0, 1, 2),
             Ins("RTN", 0, 0, 0), Ins("LIT", 0, 0, 9), Ins("STO", 0, 0, 4),
             Ins("STO", 0, 1, 5), Ins("STO", 0, 0, 1), Ins("JPC", 1, 0, 1)}

Short == {<<Ins("INC", 0, 0, 4)>> \o t :
            t \in UNION {[1 .. n -> Alphabet] : n \in 0 .. MaxTail}}

\* The same behind a call: main calls the procedure that begins at 3.
Called == {<<Ins("INC", 0, 0, 4), Ins("CAL", 0, 0, 3), Ins("SIO", 0, 0, 3),
             Ins("INC", 0, 0, 5)>> \o t :
             t \in UNION {[1 .. n -> Alphabet] : n \in 0 .. MaxTail}}

\* Main calls A twice; A, one level down, calls B; B stores into A's and
\* into main's variables and returns.
Nested == <<Ins("INC", 0, 0, 5), Ins("CAL", 0, 0, 4), Ins("CAL", 0, 0, 4),
            Ins("SIO", 0, 0, 3),
            Ins("INC", 0, 0, 5), Ins("CAL", 0, 0, 8), Ins("CAL", 0, 1, 8),
            Ins("RTN", 0, 0, 0),
            Ins("INC", 0, 0, 4), Ins("SIO", 0, 0, 2), Ins("STO", 0, 1, 4),
            Ins("LOD", 1, 1, 4), Ins("SIO", 1, 0, 1), Ins("RTN", 0, 0, 0)>>

\* Two frames deep, then a frame of another size in the same place: a mark
\* left behind would lie inside it.
TwoSizes == <<Ins("INC", 0, 0, 4), Ins("CAL", 0, 0, 4), Ins("CAL", 0, 0, 7),
              Ins("SIO", 0, 0, 3),
              Ins("INC", 0, 0, 4), Ins("CAL", 0, 1, 9), Ins("RTN", 0, 0, 0),
              Ins("INC", 0, 0, 9), Ins("RTN", 0, 0, 0),
              Ins("INC", 0, 0, 4), Ins("RTN", 0, 0, 0)>>

\* A procedure that calls itself until the counter it reads is zero.
Recursive == <<Ins("INC", 0, 0, 4), Ins("SIO", 0, 0, 2), Ins("LIT", 1, 0, 1),
               Ins("CAL", 0, 0, 5), Ins("SIO", 0, 0, 3),
               Ins("INC", 0, 0, 4), Ins("JPC", 0, 0, 9), Ins("SUB", 0, 0, 1),
               Ins("CAL", 0, 1, 5), Ins("RTN", 0, 0, 0)>>

\* The operations on two numbers the user types, traps included.
Sums == {<<Ins("INC", 0, 0, 4), Ins("SIO", 0, 0, 2), Ins("SIO", 1, 0, 2),
           Ins(op, 2, 0, 1), Ins("NEG", 1, 2, 0), Ins("ODD", 2, 0, 0),
           Ins("SIO", 2, 0, 1), Ins("SIO", 0, 0, 7), Ins("NUL", 0, 0, 0),
           Ins("SIO", 0, 0, 3)>> : op \in Arithmetic \cup Comparison}

\* One instruction short of the code segment, and one that just fills it.
Full == {[i \in 1 .. n |-> Ins("LIT", 0, 0, i)] : n \in {MaxCode - 1, MaxCode}}

MCFiles == Short \cup Called \cup {Nested, TwoSizes, Recursive} \cup Sums \cup Full
             \cup {<< >>, NoFile}
MCInputs == {-MaxInt - 1, -1, 0, 3, MaxInt}

-----------------------------------------------------------------------------
(* The machine as built, on one recursive program: see MCDeepCalls.cfg.     *)

DeepFiles == {Recursive}
DeepInputs == {MaxLexi}

\* RTN restores "the caller environment" (virtualMachine.c, the comment in
\* case RTN) however deep the calls are nested, so the loop of run_vm goes on
\* until the program halts: its own SIO 3 is all that ends the run.
DeepCallsReturn == status \in {IDLE, RUNNING}
=============================================================================
