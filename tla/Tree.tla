--------------------------------- MODULE Tree ---------------------------------
(***************************************************************************)
(* What is done with the syntax tree that Parser builds (ast_node.h): the  *)
(* tokens it stands for by the grammar in the comments of parse.c, the     *)
(* text the unparser writes (unparse.c), and the release of its nodes at   *)
(* the end (parserInit.c).                                                 *)
(***************************************************************************)
EXTENDS Parser

LOCAL INSTANCE SequencesExt

RECURSIVE ExpressionText(_), StatementText(_, _), BlockText(_, _)

\* The texts in order, with a token between every two.
Joined(texts, between) ==
  FlattenSeq([i \in 1 .. Len(texts) |->
                IF i = 1 THEN texts[i] ELSE <<Plain(between)>> \o texts[i]])

\* The texts of a list of operands, each behind its operator.
OperandsText(list, texts) ==
  FlattenSeq([i \in DOMAIN list |->
                (IF list[i].op = "nulsym" THEN << >> ELSE <<Plain(list[i].op)>>) \o texts[i]])

Ident(name) == <<Token("identsym", name)>>
Digit(value) == <<Token("numbersym", value)>>

\* Mutant of FactorText: the parentheses forgotten.
Unparenthesized(f) ==
  CASE f.tag = "ident" -> Ident(f.ident)
    [] f.tag = "digit" -> Digit(f.value)
    [] f.tag = "exp" -> ExpressionText(f.exp)

FactorText(f) ==
  CASE f.tag = "ident" -> Ident(f.ident)
    [] f.tag = "digit" -> Digit(f.value)
    [] f.tag = "exp" ->
         <<Plain("lparentsym")>> \o ExpressionText(f.exp) \o <<Plain("rparentsym")>>
TermText(tm) == OperandsText(tm, [i \in DOMAIN tm |-> FactorText(tm[i].arg)])
ExpressionText(e) == OperandsText(e, [i \in DOMAIN e |-> TermText(e[i].arg)])

ConditionText(c) ==
  (IF c.op = "oddsym" THEN << >> ELSE ExpressionText(c.left))
    \o <<Plain(c.op)>> \o ExpressionText(c.right)

\* The unparser writes no blank between "if" or "while" and "odd": the scanner
\* takes the two for one identifier.
RunTogether == [ifsym |-> "ifodd", whilesym |-> "whileodd"]

\* What stands before the "then" of an if or the "do" of a while.
Opening(keyword, c, unparse) ==
  IF unparse /\ c.op = "oddsym" THEN Ident(RunTogether[keyword]) \o ExpressionText(c.right)
  ELSE <<Plain(keyword)>> \o ConditionText(c)

\* The unparser ends a statement that holds no other with a semicolon, and
\* puts none between statements; the grammar has them between statements.
StatementText(s, unparse) ==
  LET Text(t) == StatementText(t, unparse)
      end == IF unparse THEN <<Plain("semicolonsym")>> ELSE << >>
  IN  CASE s.tag = "assign" ->
             Ident(s.ident) \o <<Plain("becomessym")>> \o ExpressionText(s.exp) \o end
        [] s.tag = "call" -> <<Plain("callsym")>> \o Ident(s.ident) \o end
        [] s.tag = "read" -> <<Plain("readsym")>> \o Ident(s.ident) \o end
        [] s.tag = "write" -> <<Plain("writesym")>> \o Ident(s.ident) \o end
        [] s.tag = "begin" ->
             LET texts == [i \in 1 .. Len(s.stsList) |-> Text(s.stsList[i])]
             IN  <<Plain("beginsym")>>
                   \o (IF unparse THEN FlattenSeq(texts) ELSE Joined(texts, "semicolonsym"))
                   \o <<Plain("endsym")>>
        [] s.tag = "if" ->
             Opening("ifsym", s.cond, unparse) \o <<Plain("thensym")>>
               \o Text(s.ifsts)
               \o (IF s.elsests = Null THEN << >>
                   ELSE <<Plain("elsesym")>> \o Text(s.elsests))
        [] s.tag = "while" ->
             Opening("whilesym", s.cond, unparse) \o <<Plain("dosym")>> \o Text(s.sts)
        [] s.tag = "none" -> << >>

Section(keyword, items) ==
  IF items = << >> THEN << >>
  ELSE <<Plain(keyword)>> \o Joined(items, "commasym") \o <<Plain("semicolonsym")>>

ConstText(d) == Ident(d.ident) \o <<Plain("eqlsym")>> \o Digit(d.value)

BlockText(blk, unparse) ==
  LET ProcText(d) == <<Plain("procsym")>> \o Ident(d.ident) \o <<Plain("semicolonsym")>>
                       \o BlockText(d.body, unparse) \o <<Plain("semicolonsym")>>
  IN  Section("constsym", [i \in DOMAIN blk.consts |-> ConstText(blk.consts[i])])
        \o Section("varsym", [i \in DOMAIN blk.vars |-> Ident(blk.vars[i].ident)])
        \o FlattenSeq([i \in DOMAIN blk.procs |-> ProcText(blk.procs[i])])
        \o StatementText(blk.statement, unparse)

\* The program a tree stands for, and the program unParsePrint writes.
Yield(blk) == BlockText(blk, FALSE) \o <<Plain("periodsym")>>
Unparsed(blk) == BlockText(blk, TRUE) \o <<Plain("periodsym")>>

-----------------------------------------------------------------------------
(* The release of the tree by parse_exit: the nodes in the order in which  *)
(* they are read (a pointer in them, or their tag) and released.  A node   *)
(* is the path of pointers that leads to it from the root.                 *)

RECURSIVE FreeExpression(_, _), FreeStatement(_, _), FreeBlock(_, _)

Touch(node) == <<[node |-> node, released |-> FALSE]>>
Release(node) == <<[node |-> node, released |-> TRUE]>>

\* Mutant of FreeChild: the child is released before it is emptied.
ReleasedEarly(holder, name, emptied) ==
  Touch(holder) \o Release(Append(holder, name)) \o emptied

\* A child is emptied and then released, each time through the pointer in its
\* holder.
FreeChild(holder, name, emptied) ==
  Touch(holder) \o emptied \o Touch(holder) \o Release(Append(holder, name))

\* A list that begins in the holder: each node is emptied, gives the pointer to
\* the next one, and is released.
FreeList(holder, name, list, emptied) ==
  LET FreeUpTo[i \in 0 .. Len(list)] ==
        IF i = 0 THEN Touch(holder)
        ELSE LET node == holder \o <<i, name>>
             IN  FreeUpTo[i - 1] \o emptied[i] \o Touch(node) \o Release(node)
  IN  FreeUpTo[Len(list)]

FreeFactor(f, node) ==
  Touch(node) \o
    IF f.tag = "exp" THEN FreeChild(node, "exp", FreeExpression(f.exp, Append(node, "exp")))
    ELSE << >>

FreeTerm(tm, node) ==
  LET Part(i) == node \o <<i, "factorEList">>
      Emptied(i) == FreeChild(Part(i), "factor",
                              FreeFactor(tm[i].arg, Append(Part(i), "factor")))
  IN  FreeList(node, "factorEList", tm, [i \in DOMAIN tm |-> Emptied(i)])

FreeExpression(e, node) ==
  LET Part(i) == node \o <<i, "termEList">>
      Emptied(i) == FreeChild(Part(i), "term", FreeTerm(e[i].arg, Append(Part(i), "term")))
  IN  FreeList(node, "termEList", e, [i \in DOMAIN e |-> Emptied(i)])

FreeCondition(c, node) ==
  LET Side(e, name) ==
        IF e = Null THEN Touch(node)
        ELSE FreeChild(node, name, FreeExpression(e, Append(node, name)))
  IN  Side(c.left, "left") \o Side(c.right, "right")

\* An if: what is released after its else part is emptied is the then part,
\* again.
FreeBranches(s, node) ==
  FreeChild(node, "ifsts", FreeStatement(s.ifsts, Append(node, "ifsts"))) \o
    IF s.elsests = Null THEN Touch(node)
    ELSE FreeChild(node, "ifsts", FreeStatement(s.elsests, Append(node, "elsests")))

\* What hangs on the node of an empty statement is nothing.
FreeStatement(s, node) ==
  LET super == Append(node, "super")
      cond == FreeChild(super, "cond", FreeCondition(s.cond, Append(super, "cond")))
      sts(i) == FreeStatement(s.stsList[i], super \o <<i, "stsList">>)
      emptied ==
        CASE s.tag = "assign" ->
               FreeChild(super, "exp", FreeExpression(s.exp, Append(super, "exp")))
          [] s.tag = "begin" ->
               FreeList(super, "stsList", s.stsList, [i \in DOMAIN s.stsList |-> sts(i)])
          [] s.tag = "if" -> cond \o FreeBranches(s, super)
          [] s.tag = "while" ->
               cond \o FreeChild(super, "sts", FreeStatement(s.sts, Append(super, "sts")))
          [] OTHER -> << >>
  IN  Touch(node) \o IF s.tag = "none" THEN << >> ELSE FreeChild(node, "super", emptied)

\* The block of a procedure is emptied but not released itself.
FreeBlock(blk, node) ==
  LET Nothing(list) == [i \in DOMAIN list |-> << >>]
      ProcDef(i) == LET proc == node \o <<i, "procDef">>
                    IN  Touch(proc) \o FreeBlock(blk.procs[i].body, Append(proc, "body"))
  IN  FreeList(node, "constDecl", blk.consts, Nothing(blk.consts))
        \o FreeList(node, "procDef", blk.procs, [i \in DOMAIN blk.procs |-> ProcDef(i)])
        \o FreeList(node, "statement", <<blk.statement>>,
                    <<FreeStatement(blk.statement, node \o <<1, "statement">>)>>)
        \o FreeList(node, "varDecl", blk.vars, Nothing(blk.vars))

\* programCleanup
Freed(blk) ==
  FreeList(<<"ast">>, "block", <<blk>>, <<FreeBlock(blk, <<"ast", 1, "block">>)>>)
    \o Release(<<"ast">>)

-----------------------------------------------------------------------------
(* Properties.                                                             *)

\* A program that is accepted without a word is the one its tree stands for,
\* token by token, but for a right parenthesis that is missing: that one alone
\* is put in silently.  Nothing is dropped, added or moved on the many ways
\* through the parser that report nothing.
Unclosed(tokens) == SelectSeq(tokens, LAMBDA t : t.type # "rparentsym")
TreeYields ==
  step = "link" /\ errors = << >> =>
    /\ Unclosed(read) = Unclosed(Yield(tree))
    /\ Len(read) <= Len(Yield(tree))
===============================================================================
