------------------------------- MODULE MCParser -------------------------------
(***************************************************************************)
(* Parser on all token files of a few shapes: a fixed beginning, places    *)
(* with any token of an alphabet, a fixed end.                             *)
(***************************************************************************)
EXTENDS Tree, TLC

LOCAL INSTANCE SequencesExt

CONSTANTS c, x, p, u,   \* u is never declared
          StatementPlaces, ThenPlaces, ExpressionPlaces, ConditionPlaces, DeclarationPlaces
                             \* bounds: how many places are free

MCHash == (c :> 0) @@ (x :> 1) @@ (p :> 2) @@ (u :> 3)

Plains(types) == {Plain(type) : type \in types}
Numbers == {Token("numbersym", 1), Token("numbersym", MAX_NUMBER + 1)}
Idents(names) == {Token("identsym", name) : name \in names}

\* A text with one token in each place, and n places for any of a set.
Fixed(tokens) == [i \in DOMAIN tokens |-> {tokens[i]}]
Free(n, tokens) == [i \in 1 .. n |-> tokens]

cSym == Token("identsym", c)
xSym == Token("identsym", x)
pSym == Token("identsym", p)
One == Token("numbersym", 1)

\* procedure p; call p;
Procedures ==
  Fixed(<<Plain("procsym"), pSym, Plain("semicolonsym"), Plain("callsym"), pSym,
          Plain("semicolonsym")>>)

\* const c = 1; var x; procedure p; call p;
Header ==
  Fixed(<<Plain("constsym"), cSym, Plain("eqlsym"), One, Plain("semicolonsym"),
          Plain("varsym"), xSym, Plain("semicolonsym")>>) \o Procedures

StatementTokens ==
  Plains({"becomessym", "semicolonsym", "beginsym", "endsym", "ifsym", "thensym",
          "elsesym", "whilesym", "dosym", "callsym", "readsym", "writesym",
          "oddsym", "constsym", "periodsym", "commentsym"}) \cup Idents({x, p, u}) \cup {One}
ExpressionTokens ==
  Plains({"plussym", "minussym", "multsym", "lparentsym", "rparentsym",
          "semicolonsym", "endsym", "eqlsym", "commentsym"})
    \cup Idents({x, c, p, u}) \cup Numbers
ConditionTokens ==
  Plains({"oddsym", "eqlsym", "plussym", "lparentsym", "thensym", "dosym"})
    \cup Idents({x}) \cup {One}
DeclarationTokens ==
  Plains({"constsym", "varsym", "procsym", "eqlsym", "becomessym", "commasym",
          "semicolonsym", "periodsym", "callsym"})
    \cup Idents({x}) \cup Numbers

MCTokenFiles ==
  {Header \o Free(StatementPlaces, StatementTokens),
   Header \o Fixed(<<Plain("ifsym"), Plain("oddsym"), xSym, Plain("thensym")>>)
     \o Free(ThenPlaces, StatementTokens)
     \o Fixed(<<Plain("elsesym"), Plain("readsym"), xSym, Plain("periodsym")>>),
   Header \o Fixed(<<Plain("beginsym"), xSym, Plain("becomessym")>>)
     \o Free(ExpressionPlaces, ExpressionTokens)
     \o Fixed(<<Plain("endsym"), Plain("periodsym")>>),
   Header \o Fixed(<<Plain("ifsym")>>) \o Free(ConditionPlaces, ConditionTokens)
     \o Fixed(<<Plain("writesym"), xSym, Plain("elsesym"), Plain("readsym"), xSym,
                Plain("periodsym")>>),
   Header \o Fixed(<<Plain("beginsym"), Plain("whilesym")>>)
     \o Free(ConditionPlaces, ConditionTokens)
     \o Fixed(<<Plain("writesym"), cSym, Plain("semicolonsym"), Plain("readsym"), xSym,
                Plain("endsym")>>),
   Free(DeclarationPlaces, DeclarationTokens),
   Procedures \o Free(DeclarationPlaces, DeclarationTokens)}
===============================================================================
