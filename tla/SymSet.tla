-------------------------------- MODULE SymSet --------------------------------
(***************************************************************************)
(* The symbol sets of parse_common.c: sets of token types as linked lists  *)
(* sorted by the numbers of the types.  A union keeps duplicates, and the  *)
(* search for an element gives up at the first larger one, so a list that  *)
(* is out of order would hide elements.                                    *)
(***************************************************************************)
EXTENDS Integers, Sequences

LOCAL INSTANCE SequencesExt

\* Token_t, in the order of its numbers.
Token_t ==
  <<"nulsym", "identsym", "numbersym", "plussym", "minussym", "multsym",
    "slashsym", "oddsym", "eqlsym", "neqsym", "lessym", "leqsym", "gtrsym",
    "geqsym", "lparentsym", "rparentsym", "commasym", "semicolonsym",
    "periodsym", "becomessym", "beginsym", "endsym", "ifsym", "thensym",
    "whilesym", "dosym", "callsym", "constsym", "varsym", "procsym",
    "writesym", "readsym", "elsesym", "commentsym">>

Number == [type \in ToSet(Token_t) |-> CHOOSE n \in 1 .. Len(Token_t) : Token_t[n] = type]

\* How many elements setinsert and inset pass before they stop.
Passed(elem, s) ==
  CHOOSE n \in 0 .. Len(s) :
    /\ \A i \in 1 .. n : Number[s[i]] < Number[elem]
    /\ n < Len(s) => Number[s[n + 1]] >= Number[elem]

setinsert(s, elem) == InsertAt(s, Passed(elem, s) + 1, elem)

\* The argument list ends before nulsym, which is therefore in no set.
createset(elems) ==
  LET set[n \in 0 .. Len(elems)] == IF n = 0 THEN << >> ELSE setinsert(set[n - 1], elems[n])
  IN  set[Len(elems)]

inset(elem, s) == Passed(elem, s) < Len(s) /\ s[Passed(elem, s) + 1] = elem

\* Mutant of uniteset: the lists put behind one another.
Concatenated(s1, s2) == s1 \o s2

\* One step of the merge of what is left of two lists behind what is done: the
\* smaller head, and all that is left once one of them is at its end.
Lists == Seq(ToSet(Token_t))
Merged ==
  [m \in [done : Lists, s1 : Lists, s2 : Lists] |->
     IF m.s1 = << >> \/ m.s2 = << >>
     THEN [done |-> m.done \o (IF m.s2 # << >> THEN m.s2 ELSE m.s1), s1 |-> << >>, s2 |-> << >>]
     ELSE IF Number[Head(m.s1)] < Number[Head(m.s2)]
     THEN [done |-> Append(m.done, Head(m.s1)), s1 |-> Tail(m.s1), s2 |-> m.s2]
     ELSE [done |-> Append(m.done, Head(m.s2)), s1 |-> m.s1, s2 |-> Tail(m.s2)]]

\* Every step takes an element or all that is left, so that as many steps as
\* there are elements are enough.
uniteset(s1, s2) ==
  LET merge[n \in Nat] ==
        IF n = 0 THEN [done |-> << >>, s1 |-> s1, s2 |-> s2] ELSE Merged[merge[n - 1]]
  IN  merge[Len(s1) + Len(s2)].done

-----------------------------------------------------------------------------
(* The sets of firstAndFollowSet that the parser uses.                     *)

phi == createset(<< >>)
relset == createset(<<"eqlsym", "neqsym", "lessym", "leqsym", "gtrsym", "geqsym">>)
declbegsys == createset(<<"constsym", "varsym", "procsym">>)
\* Mutant of statbegsys: the statements of the language before it had read
\* and write.
WithoutReadWrite == createset(<<"identsym", "callsym", "beginsym", "ifsym", "whilesym">>)

statbegsys == createset(<<"identsym", "callsym", "beginsym", "ifsym", "whilesym",
                          "readsym", "writesym">>)
facbegsys == createset(<<"identsym", "numbersym", "lparentsym">>)
=============================================================================
