-------------------------------- MODULE Parser --------------------------------
(***************************************************************************)
(* The recursive descent parser of parse.c over a token file, with its     *)
(* error returns, its recovery, the tree it builds, the symbols it makes   *)
(* (module Declarations) and the code it generates (the operators of       *)
(* module CodeGen).                                                        *)
(*                                                                         *)
(* `acts` is the stack of calls of the parse functions.  `at` is the place *)
(* where a call goes on, named for what is awaited there; an action runs   *)
(* from one place to the next token read, the next call or the return.     *)
(***************************************************************************)
EXTENDS FiniteSets, SymSet

LOCAL INSTANCE SequencesExt

CONSTANTS TokenFiles,   \* the token files: each place has a set of tokens
          MAX_NUMBER,
          Names, NumBuckets, Hash, Vals, Null,
          MaxLexi, MaxSets, MaxSymbols

\* A token of a file has a type of Token_t.
ASSUME TokensAssumption ==
  /\ MaxLexi \in Nat
  /\ \A file \in TokenFiles :
       /\ Len(file) \in Nat
       /\ \A p \in 1 .. Len(file) : \A t \in file[p] : t.type \in ToSet(Token_t)

VARIABLES tokenFile,
          pos,           \* how many tokens of the file were read
          cur,           \* curToken
          read,          \* history: the tokens given to the parser, until the
                         \* first error
          acts,
          register_ptr,
          generatedCode, finalCode,
          tree,          \* ast, once it is complete
          errors,        \* the errors reported, 0 for a recovery only logged
          step           \* "parse", or how parsing ended

VARIABLES Buckets, head, tail, NextNode, PreNode, numsTable, totalNodes, order,
          globalLevel, offsetArray, procedureCount, currentProcedure,
          inUse, blocks, spaces, made, crashed

D == INSTANCE Declarations

\* Of CodeGen only the operators on code sets are used here; it owns what
\* happens to the code after the parse.
C == INSTANCE CodeGen
       WITH MaxProcs <- 0, MaxStatements <- 0, MaxNesting <- 0,
            procLevel <- << >>, open <- << >>, statements <- 0, phase <- step,
            layout <- 0, tags <- << >>, finalTags <- << >>, goals <- << >>

tokenVars == <<tokenFile, pos, cur, read>>
codeVars == <<generatedCode, finalCode, register_ptr>>
tableVars == <<Buckets, head, tail, NextNode, PreNode, numsTable, totalNodes, order>>
declVars == <<tableVars, globalLevel, offsetArray, procedureCount, currentProcedure,
              inUse, blocks, spaces, made, crashed>>
vars == <<tokenVars, acts, codeVars, tree, errors, step, declVars>>

-----------------------------------------------------------------------------
(* Tokens.                                                                 *)

Token(type, val) == [type |-> type, val |-> val]
Plain(type) == Token(type, Null)

\* The tokens getToken may find behind the first n, comments skipped.  At the
\* end of the file it finds nulsym, over and over.
Ahead(n) ==
  LET Skipped(p) == \A q \in n + 1 .. p - 1 : Plain("commentsym") \in tokenFile[q]
      Found(p) == {[token |-> t, pos |-> p] :
                     t \in {u \in tokenFile[p] : u.type # "commentsym"}}
  IN  (UNION {Found(p) : p \in {q \in n + 1 .. Len(tokenFile) : Skipped(q)}}) \cup
      {[token |-> Plain("nulsym"), pos |-> p] :
         p \in {q \in {Len(tokenFile)} : Skipped(q + 1)}}

getToken ==
  \E next \in Ahead(pos) :
    /\ cur' = next.token /\ pos' = next.pos
    /\ read' = IF cur'.type = "nulsym" \/ errors # << >> THEN read ELSE Append(read, cur')
    /\ UNCHANGED tokenFile

-----------------------------------------------------------------------------
(* Calls.  A call keeps its symbol set and its locals; the nodes built for *)
(* it so far are `kids`, and `ops` the operators read between them.        *)

Activation(fn, fsys) ==
  [fn |-> fn, at |-> "start", fsys |-> fsys, kids |-> << >>, ops |-> << >>,
   ident |-> Null, sym |-> Null, j1 |-> 0, j2 |-> 0, c |-> 0]

Top == Last(acts)
Becomes(a) == Append(Front(acts), a)
Goto(at) == Becomes([Top EXCEPT !.at = at])

\* The innermost call is now a, and calls fn; when that returns its node, a
\* goes on at the place named.
Calls(a, at, fn, fsys) == Append(Becomes([a EXCEPT !.at = at]), Activation(fn, fsys))

Returns(node) ==
  LET caller == acts[Len(acts) - 1]
  IN  Append(Front(Front(acts)), [caller EXCEPT !.kids = Append(@, node)])

Parsing(fn) == step = "parse" /\ Top.fn = fn

Is(type) == cur.type = type
sym == D!getSymbol(cur.val, globalLevel)
Undeclared == sym = Null
Kind(kinds) == ~Undeclared /\ sym.kind \in kinds
TooLarge == Is("numbersym") /\ cur.val > MAX_NUMBER
SignTypes == {"plussym", "minussym"}
FactorTypes == {"multsym", "slashsym"}

\* The error the innermost call returns with at this token, 0 for none.
Waits(fn, places) == Top.fn = fn /\ Top.at \in places

BlockRefusal ==
  LET In(places) == Waits("block", places)
  IN  CASE In({"constName", "varName", "procName"}) /\ ~Is("identsym") -> 4
        [] In({"constEq"}) /\ Is("becomessym") -> 1
        [] In({"constEq"}) /\ ~Is("becomessym") /\ ~Is("eqlsym") -> 3
        [] In({"constVal"}) /\ ~Is("numbersym") -> 2
        [] In({"constVal"}) /\ TooLarge -> 25
        [] In({"constNext", "varNext"}) /\ ~Is("commasym") /\ ~Is("semicolonsym") -> 5
        [] In({"procSemi", "procEnd"}) /\ ~Is("semicolonsym") -> 6
        [] OTHER -> 0

StatementRefusal ==
  LET In(places) == Waits("statement", places)
      Naming(places, kinds) == In(places) /\ Is("identsym") /\ Kind(kinds)
  IN  CASE In({"becomes"}) /\ ~Is("becomessym") /\ ~Is("eqlsym") -> 30
        [] In({"callee"}) /\ ~Is("identsym") -> 14
        [] In({"target"}) /\ ~Is("identsym") -> 27
        [] In({"source"}) /\ ~Is("identsym") -> 28
        [] In({"callee", "target", "source"}) /\ Is("identsym") /\ Undeclared -> 11
        [] Naming({"callee"}, {"const", "var"}) -> 15
        [] Naming({"target"}, {"const", "proc"}) -> 27
        [] Naming({"source"}, {"proc"}) -> 27
        [] In({"list"}) /\ ~Is("semicolonsym") /\ ~Is("endsym")
             /\ ~inset(cur.type, statbegsys) -> 26
        [] In({"then"}) /\ ~Is("thensym") -> 16
        [] In({"do"}) /\ ~Is("dosym") -> 18
        [] OTHER -> 0

FactorRefusal ==
  LET In(places) == Waits("factor", places)
  IN  CASE In({"factor"}) /\ Is("identsym") /\ Undeclared -> 11
        [] In({"factor"}) /\ Is("identsym") /\ Kind({"proc"}) -> 21
        [] In({"factor"}) /\ TooLarge -> 25
        [] In({"none"}) -> 23
        [] OTHER -> 0

Refusal ==
  CASE Waits("program", {"period"}) /\ ~Is("periodsym") /\ ~Is("nulsym") -> 9
    [] Waits("condition", {"relop"}) /\ ~inset(cur.type, relset) -> 20
    [] Top.fn = "block" -> BlockRefusal
    [] Top.fn = "statement" -> StatementRefusal
    [] Top.fn = "factor" -> FactorRefusal
    [] OTHER -> 0

\* The innermost call is one of fn, at one of the places, and nothing is
\* wrong with the token there.
At(fn, places) == step = "parse" /\ Waits(fn, places) /\ Refusal = 0

\* What an action does besides moving the calls on: to the tokens, ...
Reads(newActs) == acts' = newActs /\ getToken
Stays(newActs) == acts' = newActs /\ UNCHANGED tokenVars

\* ... and to the rest.
Reports(e) == errors' = Append(errors, e) /\ UNCHANGED <<codeVars, tree, step, declVars>>
Silent == UNCHANGED <<codeVars, tree, errors, step, declVars>>
Declares == UNCHANGED <<codeVars, tree, errors, step>>
Rewrites(newCode, newRegister) ==
  /\ C!SetCode(currentProcedure, newCode) /\ register_ptr' = newRegister
  /\ UNCHANGED <<tree, errors, step, declVars>>

Code == C!Code(currentProcedure)
Here == C!getCodeLength(currentProcedure)
Emits(instructions, newRegister) == Rewrites(Code \o instructions, newRegister)
I(op, r, l, m) == C!newInstruction(op, r, l, m)

\* An error return goes through every caller at once; on its way out each
\* procedure takes back its level, and nothing else is taken back.
Fail ==
  /\ step = "parse" /\ Refusal # 0 /\ errors' = Append(errors, Refusal)
  /\ step' = "failed" /\ acts' = << >>
  /\ globalLevel' = 0 /\ blocks' = << >>
  /\ UNCHANGED <<tokenVars, codeVars, tree, tableVars, offsetArray, procedureCount,
                 currentProcedure, inUse, spaces, made, crashed>>

-----------------------------------------------------------------------------
(* test: report the token if it is not in s1, and skip what is in neither  *)
(* s1 nor s2.                                                              *)

Test(s1, s2, error, at) ==
  IF inset(cur.type, s1) THEN Stays(Goto(at)) /\ Silent
  ELSE Stays(Calls(Top, at, "test", uniteset(s1, s2))) /\ Reports(error)

\* Mutant of AtStop: the end of the file is not looked for.
InStop == inset(cur.type, Top.fsys)

AtStop == inset(cur.type, Top.fsys) \/ Is("nulsym")

Skip == Parsing("test") /\ ~AtStop /\ Reads(acts) /\ Silent
EndTest == Parsing("test") /\ AtStop /\ Stays(Front(acts)) /\ Silent

-----------------------------------------------------------------------------
(* programParse and blockParse.                                            *)

InitOn(file) ==
  /\ D!Init
  /\ tokenFile = file
  /\ \E first \in Ahead(0) : cur = first.token /\ pos = first.pos
  /\ read = IF cur.type = "nulsym" THEN << >> ELSE <<cur>>
  /\ acts = <<[Activation("program", phi) EXCEPT !.at = "period"],
              Activation("block", uniteset(createset(<<"periodsym">>),
                                           uniteset(declbegsys, statbegsys)))>>
  /\ register_ptr = 0
  /\ generatedCode = [s \in D!Sets |-> << >>] /\ finalCode = << >>
  /\ tree = Null /\ errors = << >> /\ step = "parse"

Init == \E file \in TokenFiles : InitOn(file)

\* The head of a section or a comma in it: a node is linked, through a null
\* pointer if the section is a repeated one.
Declaration(phases, phase, count, name) ==
  IF D!ListBroken(phase, count)
  THEN D!Crash(phases, phase, count) /\ step' = "crashed"
       /\ UNCHANGED <<tokenVars, acts, codeVars, tree, errors>>
  ELSE Reads(Goto(name)) /\ Silent

Const == /\ \/ At("block", {"start"}) /\ Is("constsym")
            \/ At("block", {"constNext"}) /\ Is("commasym")
         /\ Declaration({"const"}, "const", D!Top.consts, "constName")

Var == /\ \/ At("block", {"start", "vars"}) /\ Is("varsym")
          \/ At("block", {"varNext"}) /\ Is("commasym")
       /\ Declaration({"const", "var"}, "var", D!Top.vars, "varName")

Procedure == /\ At("block", {"start", "vars", "procs"}) /\ Is("procsym")
             /\ Declaration({"const", "var", "proc"}, "proc", D!Top.procs, "procName")

ConstName == /\ At("block", {"constName"})
             /\ Reads(Becomes([Top EXCEPT !.at = "constEq", !.ident = cur.val]))
             /\ Silent
ConstEq == At("block", {"constEq"}) /\ Reads(Goto("constVal")) /\ Silent
ConstVal ==
  /\ At("block", {"constVal"})
  /\ D!DeclareConst(Top.ident, cur.val) /\ Declares
  /\ LET node == [tag |-> "const", ident |-> Top.ident, value |-> cur.val]
     IN  Reads(Becomes([Top EXCEPT !.at = "constNext", !.kids = Append(@, node)]))

VarName ==
  /\ At("block", {"varName"})
  /\ IF globalLevel < MaxLexi
     THEN /\ D!DeclareVar(cur.val) /\ Declares
          /\ LET node == [tag |-> "var", ident |-> cur.val]
             IN  Reads(Becomes([Top EXCEPT !.at = "varNext", !.kids = Append(@, node)]))
     ELSE /\ D!LevelTooDeep /\ step' = "crashed"
          /\ UNCHANGED <<tokenVars, acts, codeVars, tree, errors>>

EndSection ==
  /\ At("block", {"constNext", "varNext"}) /\ Is("semicolonsym")
  /\ Reads(Goto(IF Top.at = "constNext" THEN "vars" ELSE "procs")) /\ Silent

ProcName ==
  /\ At("block", {"procName"})
  /\ D!OpenProcedure(cur.val) /\ Declares
  /\ Reads(Becomes([Top EXCEPT !.at = "procSemi", !.ident = cur.val]))
ProcBody ==
  /\ At("block", {"procSemi"})
  /\ Reads(Calls(Top, "procEnd", "block",
                 uniteset(createset(<<"semicolonsym">>), Top.fsys)))
  /\ Silent

\* The body is complete, and the token behind its semicolon is tested.
ProcEnd ==
  /\ At("block", {"procEnd"})
  /\ LET node == [tag |-> "proc", ident |-> Top.ident, body |-> Last(Top.kids)]
     IN  Reads(Becomes([Top EXCEPT !.at = "procTest", !.kids = Append(Front(@), node)]))
  /\ Silent
ProcTest == /\ At("block", {"procTest"})
            /\ Test(uniteset(statbegsys, createset(<<"identsym", "procsym">>)),
                    Top.fsys, 6, "procSpace")

\* Mutant of Space: no room for the links.
SpaceForVariables == <<I("INC", 0, 0, D!Top.vars)>> \o Code

\* generateVariableSpace
Space == <<I("INC", 0, 0, D!Top.vars + 4)>> \o Code

ProcSpace == /\ At("block", {"procSpace"})
             /\ D!CloseBlock
             /\ C!SetCode(currentProcedure, Space)
             /\ Stays(Goto("procs"))
             /\ UNCHANGED <<register_ptr, tree, errors, step>>

EndDeclarations ==
  /\ \/ At("block", {"start"}) /\ ~Is("constsym") /\ ~Is("varsym") /\ ~Is("procsym")
     \/ At("block", {"vars"}) /\ ~Is("varsym") /\ ~Is("procsym")
     \/ At("block", {"procs"}) /\ ~Is("procsym")
  /\ Test(uniteset(statbegsys, createset(<<"identsym">>)), declbegsys, 7, "declared")

Declared ==
  /\ At("block", {"declared"})
  /\ D!EndDeclarations /\ Declares
  /\ IF inset(cur.type, declbegsys)
     THEN /\ Stays(Goto("start"))
          /\ blocks'[Len(blocks)].phase = "const"
     ELSE /\ Stays(Calls(Top, "tail", "statement",
                         uniteset(createset(<<"semicolonsym", "endsym">>), Top.fsys)))
          /\ blocks'[Len(blocks)].phase = "statement"

BlockTail == At("block", {"tail"}) /\ Test(Top.fsys, phi, 8, "done")

BlockNode ==
  LET Kids(tag) == SelectSeq(Top.kids, LAMBDA kid : kid.tag = tag)
  IN  [tag |-> "block", consts |-> Kids("const"), vars |-> Kids("var"),
       procs |-> Kids("proc"), statement |-> Last(Top.kids)]

EndBlock == At("block", {"done"}) /\ Stays(Returns(BlockNode)) /\ Silent

\* A missing period is forgiven at the end of the file.
EndProgram ==
  /\ At("program", {"period"})
  /\ D!CloseBlock
  /\ C!SetCode(currentProcedure, Append(Space, I("SIO", 0, 0, 3)))
  /\ errors' = IF Is("nulsym") THEN Append(errors, 0) ELSE errors
  /\ tree' = Last(Top.kids) /\ step' = "link" /\ acts' = << >>
  /\ UNCHANGED <<tokenVars, register_ptr>>

-----------------------------------------------------------------------------
(* statementParse.                                                         *)

Starts(type) == At("statement", {"start"}) /\ Is(type)

\* The level difference and address of an instruction on s.
On(op, s) == I(op, register_ptr, globalLevel - s.level, s.addr)

\* Mutant of AssignErrors: only the kind of a symbol is checked.
KindErrors == IF Kind({"const", "proc"}) THEN <<12>> ELSE << >>

AssignErrors == IF Undeclared THEN <<11>> ELSE KindErrors

\* A name that is none, or names no variable, is reported and kept.
Assign ==
  /\ Starts("identsym")
  /\ Reads(Becomes([Top EXCEPT !.at = "becomes", !.ident = cur.val, !.sym = sym]))
  /\ errors' = errors \o AssignErrors
  /\ UNCHANGED <<codeVars, tree, step, declVars>>

\* "=" is forgiven.
AssignBecomes ==
  /\ At("statement", {"becomes"})
  /\ Reads(Calls(Top, "store", "expression", Top.fsys))
  /\ errors' = IF Is("eqlsym") THEN Append(errors, 0) ELSE errors
  /\ UNCHANGED <<codeVars, tree, step, declVars>>

\* generateBecomes follows the pointer to the symbol, whether there is one.
Store ==
  /\ At("statement", {"store"})
  /\ IF Top.sym = Null
     THEN step' = "crashed" /\ UNCHANGED <<tokenVars, acts, codeVars, tree, errors, declVars>>
     ELSE /\ Emits(<<[On("STO", Top.sym) EXCEPT !.r = register_ptr - 1]>>, register_ptr - 1)
          /\ Stays(Returns([tag |-> "assign", ident |-> Top.ident, exp |-> Last(Top.kids)]))

Named(type, place) == Starts(type) /\ Reads(Goto(place)) /\ Silent

CallIdent ==
  /\ At("statement", {"callee"})
  /\ Emits(<<[On("CAL", sym) EXCEPT !.r = 0]>>, register_ptr)
  /\ Reads(Returns([tag |-> "call", ident |-> cur.val]))

ReadIdent ==
  /\ At("statement", {"target"})
  /\ Emits(<<I("SIO", register_ptr, 0, 2), On("STO", sym)>>, register_ptr)
  /\ Reads(Returns([tag |-> "read", ident |-> cur.val]))

\* generateWrite: of a constant, the value is used as an address.
WriteIdent ==
  /\ At("statement", {"source"})
  /\ Emits(<<IF Kind({"var"}) THEN On("LOD", sym) ELSE I("LOD", register_ptr, 0, sym.val),
             I("SIO", register_ptr, 0, 1)>>, register_ptr)
  /\ Reads(Returns([tag |-> "write", ident |-> cur.val]))

\* What may follow a statement of a list.
ListSet == uniteset(createset(<<"semicolonsym", "endsym">>), Top.fsys)

Begin == /\ Starts("beginsym")
         /\ Reads(Calls(Top, "list", "statement", ListSet)) /\ Silent

\* A statement of the list; a missing semicolon is reported.
ListStatement ==
  /\ At("statement", {"list"})
  /\ \/ Is("semicolonsym") /\ Reads(Calls(Top, "list", "statement", ListSet)) /\ Silent
     \/ inset(cur.type, statbegsys)
        /\ Stays(Calls(Top, "list", "statement", ListSet)) /\ Reports(10)

End ==
  /\ At("statement", {"list"}) /\ Is("endsym")
  /\ Emits(IF currentProcedure > 0 THEN <<I("RTN", 0, 0, 0)>> ELSE << >>, register_ptr)
  /\ Reads(Returns([tag |-> "begin", stsList |-> Top.kids]))

If == /\ Starts("ifsym")
      /\ Reads(Calls(Top, "then", "condition",
                     uniteset(createset(<<"thensym", "dosym">>), Top.fsys)))
      /\ Silent

\* "then" or "do": the jump over the body, patched at its end.
Body(place, after) ==
  /\ At("statement", {place})
  /\ Emits(<<I("JPC", register_ptr - 1, 0, 0)>>, register_ptr)
  /\ Reads(Calls([Top EXCEPT !.j1 = Here], after, "statement", Top.fsys))

Else ==
  /\ At("statement", {"else"})
  /\ Rewrites(C!changeM(C!Append1(I("JMP", 0, 0, 0)), Top.j1, Here + 1), register_ptr)
  /\ LET a == [Top EXCEPT !.j2 = Here, !.at = "endif"]
     IN  IF Is("elsesym") THEN Reads(Calls(a, "endif", "statement", Top.fsys))
         ELSE Stays(Becomes(a))

\* Mutants of Released: the register of the condition is kept, and one too
\* many is given back.
NotReleased == register_ptr
TwiceReleased == register_ptr - 2

Released == register_ptr - 1

EndIf ==
  /\ At("statement", {"endif"})
  /\ Rewrites(C!changeM(Code, Top.j2, Here), Released)
  /\ Stays(Returns([tag |-> "if", cond |-> Top.kids[1], ifsts |-> Top.kids[2],
                    elsests |-> IF Len(Top.kids) = 3 THEN Top.kids[3] ELSE Null]))

While == /\ Starts("whilesym")
         /\ Reads(Calls([Top EXCEPT !.c = Here], "do", "condition",
                        uniteset(createset(<<"dosym">>), Top.fsys)))
         /\ Silent

\* Mutant of LoopCode: the jump out patched before the jump back is there.
PatchedEarly == C!changeM(C!Append1(I("JMP", 0, 0, Top.c)), Top.j1, Here)

\* The jump back to the condition, and the one out of the loop behind it.
LoopCode == C!changeM(C!Append1(I("JMP", 0, 0, Top.c)), Top.j1, Here + 1)

EndWhile ==
  /\ At("statement", {"loop"})
  /\ Rewrites(LoopCode, Released)
  /\ Stays(Returns([tag |-> "while", cond |-> Top.kids[1], sts |-> Top.kids[2]]))

\* Anything else is an empty statement, and skipped if nobody waits for it.
Empty == /\ At("statement", {"start"}) /\ ~inset(cur.type, statbegsys)
         /\ Test(Top.fsys, phi, 19, "done")
EndEmpty == /\ At("statement", {"done"}) /\ Stays(Returns([tag |-> "none"])) /\ Silent

-----------------------------------------------------------------------------
(* conditionParse, expressionParse, termParse, factorParse.  The first     *)
(* operand of an operation is in the register below the second's.          *)

CalcOp == [plussym |-> "ADD", minussym |-> "SUB", multsym |-> "MUL", slashsym |-> "DIV"]
RelOp == [eqlsym |-> "EQL", neqsym |-> "NEQ", lessym |-> "LSS",
          leqsym |-> "LEQ", gtrsym |-> "GTR", geqsym |-> "GEQ"]

\* Mutant of Operands: the operands in the wrong order.
SwappedOperands(op) == I(op, register_ptr - 2, register_ptr - 1, register_ptr - 2)

Operands(op) == I(op, register_ptr - 2, register_ptr - 2, register_ptr - 1)

Condition ==
  /\ At("condition", {"start"}) /\ Silent
  /\ IF Is("oddsym") THEN Reads(Calls(Top, "odd", "expression", Top.fsys))
     ELSE Stays(Calls(Top, "relop", "expression", uniteset(relset, Top.fsys)))
Odd == /\ At("condition", {"odd"})
       /\ Emits(<<I("ODD", register_ptr - 1, register_ptr - 1, 0)>>, register_ptr)
       /\ Stays(Returns([op |-> "oddsym", left |-> Null, right |-> Last(Top.kids)]))
Relation == /\ At("condition", {"relop"})
            /\ Reads(Calls([Top EXCEPT !.ops = <<cur.type>>], "right", "expression", Top.fsys))
            /\ Silent
Compare ==
  /\ At("condition", {"right"})
  /\ Emits(<<Operands(RelOp[Top.ops[1]])>>, register_ptr - 1)
  /\ Stays(Returns([op |-> Top.ops[1], left |-> Top.kids[1], right |-> Top.kids[2]]))

\* Mutant of FactorSet: what the callers wait for is not handed on.
FactorSetAlone == createset(<<"multsym", "slashsym">>)

\* The set of an expression, handed to its terms, and of a term, to its
\* factors.
FactorSet == uniteset(Top.fsys, createset(<<"multsym", "slashsym">>))

\* Mutant of Listed: each operand with the operator behind it.
ListedLate == [i \in 1 .. Len(Top.kids) |->
                 [op |-> IF i < Len(Top.ops) THEN Top.ops[i + 1] ELSE "nulsym",
                  arg |-> Top.kids[i]]]

\* A list of operands, each with the operator in front of it.
Listed == [i \in 1 .. Len(Top.kids) |-> [op |-> Top.ops[i], arg |-> Top.kids[i]]]

\* The optional sign goes to the first term as its preop.
Expression ==
  /\ At("expression", {"start"}) /\ Silent
  /\ LET sign == IF cur.type \in SignTypes THEN cur.type ELSE "nulsym"
         new == Calls([Top EXCEPT !.ops = <<sign>>], "more", "term", FactorSet)
         signed == [new EXCEPT ![Len(new)].ident = sign]
     IN  IF sign = "nulsym" THEN Stays(signed) ELSE Reads(signed)

Operator(fn, operand, types) ==
  /\ At(fn, {"more"}) /\ cur.type \in types
  /\ Reads(Calls([Top EXCEPT !.ops = Append(@, cur.type)], "operate", operand, FactorSet))
  /\ Silent
Operate(fn) ==
  /\ At(fn, {"operate"})
  /\ Emits(<<Operands(CalcOp[Last(Top.ops)])>>, register_ptr - 1)
  /\ Stays(Goto("more"))
EndList(fn, types) ==
  /\ At(fn, {"more"}) /\ cur.type \notin types
  /\ Stays(Returns(Listed)) /\ Silent

Term == /\ At("term", {"start"}) /\ Silent
        /\ Stays(Calls([Top EXCEPT !.ops = <<"nulsym">>], "first", "factor", FactorSet))

\* Mutant of Signed: the sign is read and forgotten.
SignDropped == << >>

\* The sign belongs to the first factor.
Signed == IF Top.ident = "minussym"
          THEN <<I("NEG", register_ptr - 1, register_ptr - 1, 0)>> ELSE << >>

FirstFactor == At("term", {"first"}) /\ Emits(Signed, register_ptr) /\ Stays(Goto("more"))

Factor == At("factor", {"start"}) /\ Test(facbegsys, Top.fsys, 24, "factor")

Operand(ins, node) ==
  Emits(<<ins>>, register_ptr + 1) /\ Reads(Returns(node))

FactorIdent ==
  /\ At("factor", {"factor"}) /\ Is("identsym")
  /\ Operand(IF Kind({"var"}) THEN On("LOD", sym) ELSE I("LIT", register_ptr, 0, sym.val),
             [tag |-> "ident", ident |-> cur.val])
FactorNumber ==
  /\ At("factor", {"factor"}) /\ Is("numbersym")
  /\ Operand(I("LIT", register_ptr, 0, cur.val), [tag |-> "digit", value |-> cur.val])
FactorOpen ==
  /\ At("factor", {"factor"}) /\ Is("lparentsym")
  /\ Reads(Calls(Top, "close", "expression",
                 uniteset(createset(<<"rparentsym">>), Top.fsys)))
  /\ Silent
FactorClose ==
  /\ At("factor", {"close"})
  /\ IF Is("rparentsym") THEN Reads(Goto("done")) /\ Silent
     ELSE Test(Top.fsys, createset(<<"lparentsym">>), 22, "done")
EndFactor == /\ At("factor", {"done"})
             /\ Stays(Returns([tag |-> "exp", exp |-> Last(Top.kids)])) /\ Silent
FactorNone == /\ At("factor", {"factor"}) /\ ~inset(cur.type, facbegsys)
              /\ Test(Top.fsys, createset(<<"lparentsym">>), 23, "none")

-----------------------------------------------------------------------------
Blocks == \/ Const \/ ConstName \/ ConstEq \/ ConstVal \/ Var \/ VarName \/ EndSection
          \/ Procedure \/ ProcName \/ ProcBody \/ ProcEnd \/ ProcTest \/ ProcSpace
          \/ EndDeclarations \/ Declared \/ BlockTail \/ EndBlock \/ EndProgram
Statements == \/ Assign \/ AssignBecomes \/ Store
              \/ Named("callsym", "callee") \/ Named("readsym", "target")
              \/ Named("writesym", "source")
              \/ CallIdent \/ ReadIdent \/ WriteIdent
              \/ Begin \/ ListStatement \/ End
              \/ If \/ Body("then", "else") \/ Else \/ EndIf
              \/ While \/ Body("do", "loop") \/ EndWhile
              \/ Empty \/ EndEmpty
Expressions == \/ Condition \/ Odd \/ Relation \/ Compare
               \/ Expression \/ Operator("expression", "term", SignTypes)
               \/ Operate("expression") \/ EndList("expression", SignTypes)
               \/ Term \/ FirstFactor \/ Operator("term", "factor", FactorTypes)
               \/ Operate("term") \/ EndList("term", FactorTypes)
               \/ Factor \/ FactorIdent \/ FactorNumber \/ FactorOpen
               \/ FactorClose \/ EndFactor \/ FactorNone

Next == Blocks \/ Statements \/ Expressions \/ Skip \/ EndTest \/ Fail

\* parse is one recursive descent: it goes on until it returns.
Spec == Init /\ [][Next]_vars /\ WF_vars(Next)

-----------------------------------------------------------------------------
(* Properties.                                                             *)

\* The parser is in one call at least until it ends, always at a token it has
\* read, whatever it emits is an instruction for the machine, and it has the
\* tree of the main block when it ends well.
Functions == {"program", "block", "statement", "condition", "expression", "term",
              "factor", "test"}
Steps == {"parse", "link", "failed", "crashed"}
TypeOK == /\ cur.type \in ToSet(Token_t) \ {"commentsym"}
          /\ pos \in 0 .. Len(tokenFile) /\ Len(read) <= pos
          /\ step \in Steps /\ (step = "parse" => acts # << >>)
          /\ \A i \in 1 .. Len(acts) : acts[i].fn \in Functions
          /\ ToSet(errors) \subseteq 0 .. 30
          /\ IF step = "link" THEN tree.tag = "block" ELSE tree = Null
          /\ \A s \in D!Sets : \A i \in 1 .. Len(generatedCode[s]) :
               generatedCode[s][i].r \in Nat

\* Registers are counted up in factorParse and down in six other functions.
\* At every point of the parse register_ptr is what the open calls hold: one
\* for a condition whose statement is not over, one for each left operand that
\* waits for its right one, and one for an operand that was just completed.
\* So a call that returns has taken exactly the registers its result needs,
\* also on the paths through the recovery.
Holds(a) == IF \/ a.at \in {"else", "endif", "loop", "right", "operate"}
               \/ a.fn = "factor" /\ a.at = "done" THEN 1 ELSE 0
Completed(a) == IF a.at \in {"store", "then", "do", "relop", "odd", "right", "more",
                             "operate", "first", "close"} THEN 1 ELSE 0
RegistersBalanced ==
  step = "parse" =>
    register_ptr = Cardinality({i \in 1 .. Len(acts) : Holds(acts[i]) = 1})
                     + Completed(Top)

\* What an open call goes on to look for when the call it made has returned:
\* the tokens that its function compares curToken with at that place.
Awaits(a) ==
  CASE a.at = "period" -> {"periodsym"}
    [] a.at = "procEnd" -> {"semicolonsym"}
    [] a.at = "procSpace" -> {"procsym"} \cup ToSet(statbegsys)
    [] a.at = "declared" -> ToSet(declbegsys) \cup ToSet(statbegsys)
    [] a.at = "list" -> {"semicolonsym", "endsym"} \cup ToSet(statbegsys)
    [] a.at = "then" -> {"thensym"}
    [] a.at = "do" -> {"dosym"}
    [] a.at = "else" -> {"elsesym"}
    [] a.at = "relop" -> ToSet(relset)
    [] a.at \in {"more", "operate"} /\ a.fn = "expression" -> SignTypes
    [] a.at \in {"first", "operate"} /\ a.fn = "term" -> FactorTypes
    [] a.at = "factor" -> ToSet(facbegsys)
    [] a.at = "close" -> {"rparentsym"}
    [] OTHER -> {}

\* Two functions leave out of the sets they hand on what they look for
\* themselves: statementParse parses a then part without its "else", which is
\* a mistake, and expressionParse its terms without the signs, which is how
\* the second sign of "a ++ 3" is dropped.
LeftOut == {"elsesym"} \cup SignTypes

\* Of the callers of a test, those whose tokens it was given: the test behind
\* the declarations of a block (error 7) knows of the block's only.
Served == IF acts[Len(acts) - 1].at = "declared" THEN {Len(acts) - 1} ELSE 1 .. Len(acts) - 1

\* test drops tokens in the middle of any number of open calls.  None that it
\* drops is one that an open call goes on to look for, so that the recovery
\* from an error does not lose the end of what stands around it: but for an
\* "else" and a sign, which are left out of the sets, and for the test behind
\* the declarations.
RecoveryRespectsCallers ==
  [][Skip => \A i \in Served : cur.type \notin Awaits(acts[i]) \ LeftOut]_vars

\* A program for which parse follows a null pointer was reported to be wrong
\* before: no program without errors brings the parser down, but one with a
\* variable at a level for which offsetArray has no entry.
CrashesReported == step = "crashed" => errors # << >> \/ globalLevel >= MaxLexi

\* Whatever the token file holds, wherever it ends, the descent and its
\* recovery come to an end.
ParseEnds == <>(step # "parse")
=============================================================================
