------------------------------ MODULE MCCompiler ------------------------------
(***************************************************************************)
(* Compiler on programs that between them use every statement, operator    *)
(* and kind of call.  Every program is within the grammar's reach: the     *)
(* then part of an if with an else holds no other if.                      *)
(***************************************************************************)
EXTENDS Compiler, TLC

LOCAL INSTANCE SequencesExt

CONSTANTS c, x, y, p, sub, u, v

MCHash == (c :> 0) @@ (x :> 1) @@ (y :> 2) @@ (p :> 3) @@ (sub :> 4) @@ (u :> 5) @@ (v :> 6)
            @@ ("ifodd" :> 7) @@ ("whileodd" :> 8)

-----------------------------------------------------------------------------
(* Expressions.                                                            *)

Id(name) == [tag |-> "ident", ident |-> name]
Lit(value) == [tag |-> "digit", value |-> value]
Paren(e) == [tag |-> "exp", exp |-> e]

Op(op, factor) == [op |-> op, arg |-> factor]

\* A sum of products: first, with a sign, then operators with factors.
Sum(sign, first, rest) ==
  FoldLeft(LAMBDA e, o : IF o.op \in FactorTypes
                         THEN [e EXCEPT ![Len(e)].arg = Append(@, o)]
                         ELSE Append(e, Op(o.op, <<Op("nulsym", o.arg)>>)),
           <<Op(sign, <<Op("nulsym", first)>>)>>, rest)
Just(factor) == Sum("nulsym", factor, << >>)
Binary(f, op, g) == Sum("nulsym", f, <<Op(op, g)>>)

Ops == SignTypes \cup FactorTypes
MCExpressions ==
  {Sum(sign, Id(x), <<Op(o1, Id(c)), Op(o2, Lit(2))>>) :
     sign \in {"nulsym"} \cup SignTypes, o1 \in Ops, o2 \in Ops} \cup
  {Sum("nulsym", Id(x), <<Op(o1, Paren(Sum("minussym", Id(c), <<Op(o2, Lit(2))>>)))>>) :
     o1 \in Ops, o2 \in Ops} \cup
  {Sum("minussym", Paren(Sum("nulsym", Lit(2), <<Op(o1, Id(x))>>)), <<Op(o2, Id(c))>>) :
     o1 \in Ops, o2 \in Ops}

Relops == DOMAIN RelOp
Relates(f, op, g) == [op |-> op, left |-> Just(f), right |-> Just(g)]
OddNumber(f) == [op |-> "oddsym", left |-> Null, right |-> Just(f)]
MCConditions == {Relates(Id(x), op, Lit(n)) : op \in Relops, n \in {2, 3}}
                  \cup {OddNumber(Id(x))}

-----------------------------------------------------------------------------
(* Statements and programs.                                                *)

AssignTo(name, e) == [tag |-> "assign", ident |-> name, exp |-> e]
CallOf(name) == [tag |-> "call", ident |-> name]
ReadTo(name) == [tag |-> "read", ident |-> name]
WriteOf(name) == [tag |-> "write", ident |-> name]
List(sts) == [tag |-> "begin", stsList |-> sts]
IfElse(cond, s, t) == [tag |-> "if", cond |-> cond, ifsts |-> s, elsests |-> t]
Loop(cond, s) == [tag |-> "while", cond |-> cond, sts |-> s]

Block(constants, variables, procs, s) ==
  [tag |-> "block",
   consts |-> [i \in DOMAIN constants |->
                 [tag |-> "const", ident |-> constants[i], value |-> 5]],
   vars |-> [i \in DOMAIN variables |-> [tag |-> "var", ident |-> variables[i]]],
   procs |-> procs, statement |-> s]
Proc(name, body) == [tag |-> "proc", ident |-> name, body |-> body]
Main(procs, sts) == Block(<<c>>, <<x, y>>, procs, List(sts))

\* x := x - 1, and so on.
Adds(name, op, n) == AssignTo(name, Binary(Id(name), op, Lit(n)))
Copies(name, other) == AssignTo(name, Just(Id(other)))
Positive(name) == Relates(Id(name), "gtrsym", Lit(0))
Shows == <<WriteOf(y)>>

Calculates == {Main(<< >>, <<ReadTo(x), AssignTo(y, e), WriteOf(y)>>) : e \in MCExpressions}

\* if .. then .. else, with and without the else, and with lists.
Branching(conditions) ==
  {Main(<< >>, <<ReadTo(x), AssignTo(y, Just(Lit(4))),
                 IfElse(cond, List(<<Adds(y, "plussym", 1)>>), rest), WriteOf(y)>>) :
     cond \in conditions, rest \in {Null, Adds(y, "multsym", 3)}}

Branches ==
  Branching({OddNumber(Id(x)), Relates(Id(x), "lessym", Lit(2))}) \cup
  {Main(<< >>, <<ReadTo(x), IfElse(OddNumber(Id(x)), WriteOf(x), WriteOf(x))>>),
   Main(<< >>, <<ReadTo(x), IfElse(OddNumber(Id(x)), Copies(y, x), Null), WriteOf(x)>>)}

Loops ==
  {Main(<< >>, <<ReadTo(x), AssignTo(y, Just(Lit(0))),
                 Loop(Relates(Id(y), op, Id(x)),
                      List(<<WriteOf(y), Adds(y, "plussym", 1)>>)), WriteOf(x)>>) :
     op \in {"lessym", "leqsym", "neqsym"}} \cup
  {\* conditions within conditions, each with a register of its own
   Main(<< >>, <<ReadTo(x), AssignTo(y, Just(Lit(1))),
                 Loop(Positive(x),
                      List(<<IfElse(OddNumber(Id(x)),
                                    List(<<Loop(Relates(Id(y), "lessym", Id(c)),
                                                Adds(y, "plussym", 2))>>),
                                    IfElse(Positive(y), Adds(y, "minussym", 3), Null)),
                             Adds(x, "minussym", 1), WriteOf(y)>>))>>)}

\* p and, within it, sub: variables two levels out, and a record each.
Nested ==
  Proc(p, Block(<< >>, <<u>>,
                <<Proc(sub, Block(<< >>, <<v>>, << >>,
                                List(<<AssignTo(v, Binary(Id(u), "plussym", Id(c))),
                                       AssignTo(y, Binary(Id(v), "multsym", Id(x)))>>)))>>,
                List(<<Copies(u, x), CallOf(sub), AssignTo(u, Binary(Id(u), "plussym", Id(y))),
                       Copies(y, u)>>)))

\* p calls itself as often as x says, and goes on with its own u behind.
Recursive ==
  Proc(p, Block(<< >>, <<u>>, << >>,
                List(<<Copies(u, x), Adds(x, "minussym", 1),
                       IfElse(Positive(x), CallOf(p), Null),
                       AssignTo(y, Sum("nulsym", Id(y), <<Op("multsym", Lit(2)),
                                                          Op("plussym", Id(u))>>))>>)))

\* sub, within p, calls p again: its static link is not its caller.
Around ==
  Proc(p, Block(<< >>, <<u>>,
                <<Proc(sub, Block(<< >>, << >>, << >>,
                                List(<<Adds(u, "plussym", 2), Adds(x, "minussym", 2),
                                       IfElse(Positive(x), CallOf(p), Null)>>)))>>,
                List(<<Copies(u, x), CallOf(sub),
                       AssignTo(y, Binary(Id(y), "plussym", Id(u)))>>)))

\* Siblings; the second calls the first, in a loop and in both branches.
Siblings ==
  <<Proc(p, Block(<< >>, << >>, << >>, List(<<Adds(y, "plussym", 1)>>))),
    Proc(sub, Block(<< >>, <<u>>, << >>,
                  List(<<Copies(u, x),
                         Loop(Positive(u), Adds(u, "minussym", 2)), CallOf(p),
                         IfElse(OddNumber(Id(u)), Adds(y, "multsym", 2),
                                Adds(y, "multsym", 3))>>)))>>

Calling == {Main(procs, <<ReadTo(x), AssignTo(y, Just(Lit(0)))>> \o sts \o Shows) :
              procs \in {<<Nested>>, <<Recursive>>, <<Around>>},
              sts \in {<<CallOf(p)>>, <<CallOf(p), WriteOf(x), ReadTo(x), CallOf(p)>>}} \cup
           {Main(Siblings, <<ReadTo(x), AssignTo(y, Just(Lit(0))),
                             Loop(Positive(x), List(<<CallOf(sub), CallOf(p),
                                                      Adds(x, "minussym", 1)>>))>> \o Shows),
            \* a division by zero, if 1 is typed
            Main(<< >>, <<ReadTo(x), Adds(x, "minussym", 1),
                          AssignTo(y, Binary(Id(c), "slashsym", Id(x)))>> \o Shows),
            \* seven calls deep and more; not supported, for its second list
            Main(<<Proc(p, Block(<< >>, << >>, << >>,
                                 List(<<Adds(x, "plussym", 1),
                                        IfElse(Relates(Id(x), "lessym", Lit(9)),
                                               List(<<CallOf(p)>>), Null)>>)))>>,
                 <<ReadTo(x), CallOf(p), WriteOf(x)>>),
            \* a statement without a list, and a block with nothing in it
            Block(<< >>, <<x>>, << >>, ReadTo(x)),
            Block(<< >>, <<x>>, <<Proc(p, Block(<< >>, << >>, << >>, List(<<ReadTo(x)>>)))>>,
                  CallOf(p))}

\* Parentheses, and lists within conditions within lists.
Nesting ==
  {Main(<< >>, <<ReadTo(x), AssignTo(y, e), WriteOf(y)>>) :
     e \in {Sum("minussym", Id(x), <<Op("multsym", Paren(Binary(Id(c), "plussym", Lit(2))))>>),
            Sum("nulsym", Paren(Just(Paren(Binary(Id(c), "slashsym", Lit(2))))), << >>)}} \cup
  {Main(<< >>, <<ReadTo(x), AssignTo(y, Just(Lit(2))),
                 Loop(Positive(x),
                      List(<<IfElse(OddNumber(Id(x)), List(<<WriteOf(y), WriteOf(x)>>),
                                    Copies(y, x)),
                             List(<<WriteOf(x), Adds(x, "minussym", 1)>>)>>)),
                 WriteOf(y)>>)}

\* Constants written among variables, in the main program and below it.
Constantly ==
  {Main(<<Proc(p, Block(<< >>, <<u>>, << >>,
                        List(<<Copies(u, c), WriteOf(c), WriteOf(u), Adds(u, "plussym", 1),
                               WriteOf(u)>>)))>>,
        <<ReadTo(x), WriteOf(c), CallOf(p), AssignTo(y, Binary(Id(c), "multsym", Id(x))),
          WriteOf(c), WriteOf(y)>>)}

MCDamaged == Branches \cup Loops \cup Nesting
MCPrograms == Calculates \cup Branching(MCConditions) \cup Calling \cup Constantly \cup MCDamaged
===============================================================================
