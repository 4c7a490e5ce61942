-------------------------------- MODULE Meaning --------------------------------
(***************************************************************************)
(* What a PL/0 program means, independent of registers, records and jumps: *)
(* the numbers a syntax tree writes, given the numbers typed.  It is the   *)
(* reference that Compiler compares the machine's output with, and models  *)
(* no code of the repository.                                              *)
(*                                                                         *)
(* `env` has a frame for each block around the place, each giving the      *)
(* names of its block their meaning; a procedure runs in the frames around *)
(* its declaration, whoever calls it.                                      *)
(***************************************************************************)
EXTENDS Integers, Sequences

LOCAL INSTANCE SequencesExt
LOCAL INSTANCE FiniteSetsExt

CONSTANTS Calculate(_, _, _),   \* the result of an operation on two ints
          Null                  \* no else part

Operation == [plussym |-> "ADD", minussym |-> "SUB", multsym |-> "MUL", slashsym |-> "DIV",
              eqlsym |-> "EQL", neqsym |-> "NEQ", lessym |-> "LSS",
              leqsym |-> "LEQ", gtrsym |-> "GTR", geqsym |-> "GEQ"]

Innermost(env, name) == Max({k \in DOMAIN env : name \in DOMAIN env[k]})
Binding(env, name) == env[Innermost(env, name)][name]

\* The names a block declares; its variables come behind the words in use.
Frame(blk, used) ==
  LET Declared(list) == {list[i].ident : i \in DOMAIN list}
      Place(list, name) == CHOOSE i \in DOMAIN list : list[i].ident = name
      consts == Declared(blk.consts)  vars == Declared(blk.vars)  procs == Declared(blk.procs)
  IN  [name \in consts \cup vars \cup procs |->
         IF name \in consts
         THEN [kind |-> "const", val |-> blk.consts[Place(blk.consts, name)].value]
         ELSE IF name \in vars
         THEN [kind |-> "var", word |-> used + Place(blk.vars, name)]
         ELSE [kind |-> "proc", body |-> blk.procs[Place(blk.procs, name)].body]]

-----------------------------------------------------------------------------
RECURSIVE Value(_, _, _)

\* From left to right; a sign in front is that of the first operand.
Folded(list, Of(_)) ==
  LET first == IF list[1].op = "minussym" THEN Calculate("SUB", 0, Of(list[1].arg))
               ELSE Of(list[1].arg)
  IN  FoldLeft(LAMBDA sum, o : Calculate(Operation[o.op], sum, Of(o.arg)), first, Tail(list))

Named(name, env, mem) ==
  LET bound == Binding(env, name)
  IN  IF bound.kind = "const" THEN bound.val ELSE mem[bound.word]

FactorValue(f, env, mem) ==
  CASE f.tag = "digit" -> f.value
    [] f.tag = "exp" -> Value(f.exp, env, mem)
    [] f.tag = "ident" -> Named(f.ident, env, mem)
Value(e, env, mem) ==
  Folded(e, LAMBDA tm : Folded(tm, LAMBDA f : FactorValue(f, env, mem)))

True(c, env, mem) ==
  LET right == Value(c.right, env, mem)
  IN  IF c.op = "oddsym" THEN right % 2 = 1
      ELSE Calculate(Operation[c.op], Value(c.left, env, mem), right) = 1

-----------------------------------------------------------------------------
(* The effect of a statement on the words, the numbers yet to be typed and *)
(* the numbers written.                                                    *)

RECURSIVE After(_, _, _)

\* A block is entered with its variables zero: no program of the instances
\* reads a variable it has not set.
Entered(blk, env, now) ==
  After(blk.statement, Append(env, Frame(blk, Len(now.mem))),
        [now EXCEPT !.mem = @ \o [i \in DOMAIN blk.vars |-> 0]])

After(s, env, now) ==
  LET With(value) == [now.mem EXCEPT ![Binding(env, s.ident).word] = value]
  IN  CASE s.tag = "assign" -> [now EXCEPT !.mem = With(Value(s.exp, env, now.mem))]
        [] s.tag = "read" -> [now EXCEPT !.mem = With(Head(now.unread)), !.unread = Tail(@)]
        [] s.tag = "write" -> [now EXCEPT !.out = Append(@,
                                 [kind |-> Binding(env, s.ident).kind,
                                  value |-> Named(s.ident, env, now.mem)])]
        [] s.tag = "call" -> LET k == Innermost(env, s.ident)
                             IN  Entered(env[k][s.ident].body, SubSeq(env, 1, k), now)
        [] s.tag = "begin" -> FoldLeft(LAMBDA so_far, t : After(t, env, so_far), now, s.stsList)
        [] s.tag = "if" -> IF True(s.cond, env, now.mem) THEN After(s.ifsts, env, now)
                           ELSE IF s.elsests = Null THEN now ELSE After(s.elsests, env, now)
        [] s.tag = "while" -> IF True(s.cond, env, now.mem)
                              THEN After(s, env, After(s.sts, env, now)) ELSE now
        [] s.tag = "none" -> now

\* What the program writes: the numbers, and the kinds of the names written.
Written(blk, typed) ==
  Entered(blk, << >>, [mem |-> << >>, unread |-> typed, out |-> << >>]).out
===============================================================================
