-------------------------------- MODULE CodeGen --------------------------------
(***************************************************************************)
(* Code generation: gencode.c, driven as statementParse and blockParse     *)
(* (parse.c) drive it.  Every procedure is compiled into a code set of its *)
(* own; getFreeSet hands the sets out, jumps hold positions within the set *)
(* and are patched when their goal is known, INC goes in front of the      *)
(* finished set, and prepareMcode lays the sets out behind a table of      *)
(* jumps that CAL instructions go through.                                 *)
(*                                                                         *)
(* An action is a point of the parse at which code is emitted.  Symbols    *)
(* are given by level and address; expressions are a single literal, for   *)
(* the work on registers within one leaves nothing behind but its result.  *)
(***************************************************************************)
EXTENDS Integers, Sequences, FiniteSets

CONSTANTS MaxSets,       \* MAX_CODE_SETS
          MaxProcs,      \* bound: procedures in a program
          MaxStatements, \* bound: statements in a program
          MaxNesting     \* bound: blocks and statements open at once

ASSUME CodeGenAssumption ==
  MaxSets \in Nat \ {0} /\ MaxProcs \in Nat /\ MaxStatements \in Nat /\ MaxNesting \in Nat

VARIABLES generatedCode,     \* the code sets
          finalCode,
          currentProcedure,  \* the set being filled
          register_ptr,      \* the next free register
          procLevel,         \* history: the level of each procedure's symbol
          open,              \* the blocks and statements being parsed
          statements,        \* how many statements were parsed
          phase,             \* "parse", "link", "done"
          layout,            \* the set prepareMcode lays out next
          tags, finalTags,   \* history: which instruction is which
          goals              \* history: where each jump of a set should go

vars == <<generatedCode, finalCode, currentProcedure, register_ptr, procLevel,
          open, statements, phase, layout, tags, finalTags, goals>>
history == <<tags, finalTags, goals>>

Sets == 0 .. MaxSets - 1
FINAL_CODE == -1

newInstruction(op, r, l, m) == [op |-> op, r |-> r, l |-> l, m |-> m]

Init == /\ generatedCode = [s \in Sets |-> << >>] /\ finalCode = << >>
        /\ currentProcedure = 0 /\ register_ptr = 0
        /\ procLevel = << >>
        /\ open = <<[kind |-> "block", due |-> TRUE, set |-> 0]>>
        /\ statements = 0
        /\ phase = "parse" /\ layout = 0
        /\ tags = [s \in Sets |-> << >>] /\ finalTags = << >>
        /\ goals = [s \in Sets |-> {}]

-----------------------------------------------------------------------------
(* Code sets.  The n-th instruction appended to a set has the tag n, and   *)
(* the INC that is put in front of the finished set has the tag 0.         *)

Code(set) == IF set = FINAL_CODE THEN finalCode ELSE generatedCode[set]
getCodeLength(set) == Len(Code(set))

SetCode(set, newCode) ==
  IF set = FINAL_CODE
  THEN finalCode' = newCode /\ UNCHANGED generatedCode
  ELSE generatedCode' = [generatedCode EXCEPT ![set] = newCode] /\ UNCHANGED finalCode

TagCode(set, newTags) ==
  IF set = FINAL_CODE
  THEN finalTags' = newTags /\ UNCHANGED tags
  ELSE tags' = [tags EXCEPT ![set] = newTags] /\ UNCHANGED finalTags

TagsOf(set) == IF set = FINAL_CODE THEN finalTags ELSE tags[set]

\* changeM: an index beyond the code is ignored.
changeM(code, index, m) == IF index \in 0 .. Len(code) - 1
                           THEN [code EXCEPT ![index + 1].m = m] ELSE code

\* The code of the current procedure becomes newCode, its old instructions
\* (patched, perhaps) followed by new ones.
Emit(newCode) ==
  LET old == getCodeLength(currentProcedure)
  IN  /\ SetCode(currentProcedure, newCode)
      /\ TagCode(currentProcedure,
                 TagsOf(currentProcedure) \o
                 [i \in 1 .. Len(newCode) - old |-> old + i])

\* The jump at index `from` of the current set is meant for the instruction
\* that is, or will be, at index `to`.
Aim(pairs) ==
  goals' = IF currentProcedure = FINAL_CODE THEN goals
           ELSE [goals EXCEPT ![currentProcedure] =
                   @ \cup {<<p[1] + 1, p[2] + 1>> : p \in pairs}]

Here == getCodeLength(currentProcedure)
Append1(ins) == Append(Code(currentProcedure), ins)

-----------------------------------------------------------------------------
(* The parse.  `open` is the stack of blockParse and statementParse calls; *)
(* `due` says that the innermost of them is about to parse a statement.    *)

Top == open[Len(open)]
globalLevel == Cardinality({i \in 1 .. Len(open) : open[i].kind = "block"}) - 1

Parsing == phase = "parse" /\ open # << >>
StatementDue == Parsing /\ Top.due /\ statements < MaxStatements

\* The statement that was due is parsed.
Done(stack) == [stack EXCEPT ![Len(stack)].due = FALSE]
Closed == Done(SubSeq(open, 1, Len(open) - 1))

\* The procedures a CAL may name: their addresses are their code sets.
Callable == {p \in 1 .. Len(procLevel) : procLevel[p] <= globalLevel}

\* assignment, call, read and write, and the empty statement.
Simple ==
  {<< >>,
   <<newInstruction("LIT", register_ptr, 0, 1),
     newInstruction("STO", register_ptr, 0, 4)>>,
   <<newInstruction("SIO", register_ptr, 0, 2),
     newInstruction("STO", register_ptr, 0, 4)>>,
   <<newInstruction("LOD", register_ptr, 0, 4),
     newInstruction("SIO", register_ptr, 0, 1)>>}
  \cup {<<newInstruction("CAL", 0, globalLevel - procLevel[p], p)>> : p \in Callable}

SimpleStatement ==
  /\ StatementDue
  /\ \E code \in Simple : Emit(Code(currentProcedure) \o code)
  /\ open' = Done(open) /\ statements' = statements + 1
  /\ UNCHANGED <<currentProcedure, register_ptr, procLevel, phase, layout, goals>>

Enter(frame, stack) == Len(open) < MaxNesting /\ open' = Append(stack, frame)

Begin ==
  /\ StatementDue
  /\ Enter([kind |-> "begin", due |-> TRUE], open)
  /\ statements' = statements + 1
  /\ UNCHANGED <<generatedCode, finalCode, currentProcedure, register_ptr,
                 procLevel, phase, layout>>
  /\ UNCHANGED history

Semicolon ==
  /\ Parsing /\ Top.kind = "begin" /\ ~Top.due /\ statements < MaxStatements
  /\ open' = [open EXCEPT ![Len(open)].due = TRUE]
  /\ UNCHANGED <<generatedCode, finalCode, currentProcedure, register_ptr,
                 procLevel, statements, phase, layout>>
  /\ UNCHANGED history

\* Every "end" inside a procedure returns from it.
End ==
  /\ Parsing /\ Top.kind = "begin" /\ ~Top.due
  /\ Emit(IF currentProcedure > 0 THEN Append1(newInstruction("RTN", 0, 0, 0))
          ELSE Code(currentProcedure))
  /\ open' = Closed
  /\ UNCHANGED <<currentProcedure, register_ptr, procLevel, statements, phase,
                 layout, goals>>

\* The condition leaves its value in a register, which stays taken until the
\* statement ends.
Condition == <<newInstruction("LIT", register_ptr, 0, 0),
               newInstruction("ODD", register_ptr, register_ptr, register_ptr),
               newInstruction("JPC", register_ptr, 0, 0)>>

If ==
  /\ StatementDue
  /\ Emit(Code(currentProcedure) \o Condition)
  /\ Enter([kind |-> "then", due |-> TRUE, j1 |-> Here + 2], open)
  /\ register_ptr' = register_ptr + 1
  /\ statements' = statements + 1
  /\ UNCHANGED <<currentProcedure, procLevel, phase, layout, goals>>

\* The then part is over: jump over the else part, and send the conditional
\* jump here.
Else ==
  /\ Parsing /\ Top.kind = "then" /\ ~Top.due
  /\ Emit(changeM(Append1(newInstruction("JMP", 0, 0, 0)), Top.j1, Here + 1))
  /\ Aim({<<Top.j1, Here + 1>>})
  /\ \E due \in BOOLEAN :   \* whether there is an else part
       open' = [open EXCEPT ![Len(open)] =
                  [kind |-> "else", due |-> due, j2 |-> Here]]
  /\ UNCHANGED <<currentProcedure, register_ptr, procLevel, statements, phase, layout>>

\* Mutant of Released: the register of the condition is kept.
NotReleased == register_ptr

\* "Done with condition result. Free up register."
Released == register_ptr - 1

EndIf ==
  /\ Parsing /\ Top.kind = "else" /\ ~Top.due
  /\ Emit(changeM(Code(currentProcedure), Top.j2, Here))
  /\ Aim({<<Top.j2, Here>>})
  /\ register_ptr' = Released
  /\ open' = Closed
  /\ UNCHANGED <<currentProcedure, procLevel, statements, phase, layout>>

While ==
  /\ StatementDue
  /\ Emit(Code(currentProcedure) \o Condition)
  /\ Enter([kind |-> "while", due |-> TRUE,
            c |-> Here, j1 |-> Here + 2], open)
  /\ register_ptr' = register_ptr + 1
  /\ statements' = statements + 1
  /\ UNCHANGED <<currentProcedure, procLevel, phase, layout, goals>>

\* Mutant of LoopBack: the back jump skips the condition.
LoopToBody(c, j1) == j1 + 1

\* Where the jump at the end of the loop goes.
LoopBack(c, j1) == c

EndWhile ==
  /\ Parsing /\ Top.kind = "while" /\ ~Top.due
  /\ LET back == newInstruction("JMP", 0, 0, LoopBack(Top.c, Top.j1))
     IN  Emit(changeM(Append1(back), Top.j1, Here + 1))
  /\ Aim({<<Top.j1, Here + 1>>, <<Here, Top.c>>})
  /\ register_ptr' = Released
  /\ open' = Closed
  /\ UNCHANGED <<currentProcedure, procLevel, statements, phase, layout>>

\* makeSymbol for a procedure, and the blockParse of its body.
FreeSet == LET free == {s \in Sets : s > Len(procLevel)}
           IN  IF free = {} THEN FINAL_CODE
               ELSE CHOOSE s \in free : \A t \in free : s <= t

OpenProcedure ==
  /\ Parsing /\ Top.kind = "block" /\ Top.due /\ Len(procLevel) < MaxProcs
  /\ Enter([kind |-> "block", due |-> TRUE, set |-> FreeSet], open)
  /\ procLevel' = Append(procLevel, globalLevel)
  /\ currentProcedure' = FreeSet
  /\ UNCHANGED <<generatedCode, finalCode, register_ptr, statements, phase, layout>>
  /\ UNCHANGED history

\* Mutant of WithSpace: the space reserved after the code of the procedure.
SpaceLast(code, ins) == Append(code, ins)

\* prependCode
WithSpace(code, ins) == <<ins>> \o code

\* Mutant of EnclosingSet: the code of the enclosing block goes on in the set
\* of the procedure.
InnerSet == currentProcedure

\* oldProcedure
EnclosingSet == open[Len(open) - 1].set

\* generateVariableSpace at the end of a procedure, whose set is still the
\* current one; then blockParse of the enclosing block takes up its own.
CloseProcedure ==
  /\ Parsing /\ Top.kind = "block" /\ ~Top.due /\ Len(open) > 1
  /\ SetCode(currentProcedure,
             WithSpace(Code(currentProcedure), newInstruction("INC", 0, 0, 5)))
  /\ TagCode(currentProcedure, <<0>> \o TagsOf(currentProcedure))
  /\ open' = SubSeq(open, 1, Len(open) - 1)
  /\ currentProcedure' = EnclosingSet
  /\ UNCHANGED <<register_ptr, procLevel, statements, phase, layout, goals>>

\* programParse after the main block: its space, and the halt.
EndProgram ==
  /\ Parsing /\ Top.kind = "block" /\ ~Top.due /\ Len(open) = 1
  /\ SetCode(currentProcedure,
             Append(WithSpace(Code(currentProcedure), newInstruction("INC", 0, 0, 5)),
                    newInstruction("SIO", 0, 0, 3)))
  /\ TagCode(currentProcedure,
             Append(<<0>> \o TagsOf(currentProcedure), Here + 1))
  /\ open' = << >> /\ phase' = "link"
  /\ UNCHANGED <<currentProcedure, register_ptr, procLevel, statements, layout, goals>>

-----------------------------------------------------------------------------
(* prepareMcode.                                                           *)

\* The sets in use are those before the first empty one.  If none is empty,
\* the code takes their number for zero.
EmptySets == {s \in Sets : generatedCode[s] = << >>}

\* Mutant of UsedSets: the last set in use, not their number.
LastSet == IF EmptySets = {} THEN 0
           ELSE (CHOOSE s \in EmptySets : \A t \in EmptySets : s <= t) - 1

UsedSets == IF EmptySets = {} THEN 0
            ELSE CHOOSE s \in EmptySets : \A t \in EmptySets : s <= t

LinkJumps ==
  /\ phase = "link"
  /\ IF UsedSets = 0
     THEN phase' = "done" /\ UNCHANGED <<finalCode, finalTags, layout>>
     ELSE /\ finalCode' = finalCode \o [i \in 1 .. UsedSets |-> newInstruction("JMP", 0, 0, 0)]
          /\ finalTags' = finalTags \o [i \in 1 .. UsedSets |-> <<FINAL_CODE, i - 1>>]
          /\ phase' = "layout" /\ layout' = UsedSets - 1
  /\ UNCHANGED <<generatedCode, currentProcedure, register_ptr, procLevel, open,
                 statements, tags, goals>>

\* Mutant of Relocated: the INC in front of the set forgotten.
RelocatedWithoutSpace(ins, base) ==
  IF ins.op \in {"JMP", "JPC"} THEN [ins EXCEPT !.m = @ + base] ELSE ins

\* Jumps count from the instruction after INC, which was not there yet when
\* they were patched.
Relocated(ins, base) ==
  IF ins.op \in {"JMP", "JPC"} THEN [ins EXCEPT !.m = @ + base + 1] ELSE ins

LinkSet ==
  /\ phase = "layout"
  /\ LET base == Len(finalCode)
         set == generatedCode[layout]
     IN  finalCode' = changeM(finalCode, layout, base) \o
                        [j \in 1 .. Len(set) |-> Relocated(set[j], base)]
  /\ finalTags' = finalTags \o
                    [j \in 1 .. Len(tags[layout]) |-> <<layout, tags[layout][j]>>]
  /\ layout' = layout - 1
  /\ phase' = IF layout = 0 THEN "done" ELSE "layout"
  /\ UNCHANGED <<generatedCode, currentProcedure, register_ptr, procLevel, open,
                 statements, tags, goals>>

Next == \/ SimpleStatement \/ Begin \/ Semicolon \/ End
        \/ If \/ Else \/ EndIf \/ While \/ EndWhile
        \/ OpenProcedure \/ CloseProcedure \/ EndProgram
        \/ LinkJumps \/ LinkSet

Spec == Init /\ [][Next]_vars

-----------------------------------------------------------------------------
(* Properties.                                                             *)

\* The sets in use stay distinct, and the code, its tags and the parse stack
\* fit together.
TypeOK ==
  /\ currentProcedure \in Sets \cup {FINAL_CODE}
  /\ register_ptr \in Nat /\ statements \in 0 .. MaxStatements
  /\ phase \in {"parse", "link", "layout", "done"} /\ layout \in -1 .. MaxSets - 1
  /\ \A s \in Sets : Len(tags[s]) = Len(generatedCode[s])
  /\ Len(finalTags) = Len(finalCode)
  /\ Len(open) <= MaxNesting \/ MaxNesting = 0
  /\ phase = "parse" /\ open # << >> => currentProcedure = 
       open[CHOOSE i \in 1 .. Len(open) :
              /\ open[i].kind = "block"
              /\ \A j \in i + 1 .. Len(open) : open[j].kind # "block"].set

\* A register is held for each condition whose statement is not over, and for
\* nothing else: register_ptr, counted up and down in different places of the
\* parser, never drifts, also not from one procedure to the next.
RegistersHeld ==
  register_ptr = Cardinality({i \in 1 .. Len(open) :
                                open[i].kind \in {"then", "else", "while"}})

\* Where instruction n of a set is in the final code; for one that was never
\* emitted, the index after the last of the set.
Indices(s) == {k \in 1 .. Len(finalTags) : finalTags[k][1] = s}
Where(s, n) ==
  IF \E k \in Indices(s) : finalTags[k][2] = n
  THEN (CHOOSE k \in Indices(s) : finalTags[k][2] = n) - 1
  ELSE CHOOSE k \in Indices(s) : \A j \in Indices(s) : j <= k

Linked == phase = "done" /\ UsedSets > 0

\* After linking, every jump of every procedure goes to the instruction that
\* the statement it was generated for meant: although it was patched before
\* INC was put in front of the set, and before the set had its place.
JumpsLand ==
  Linked => \A s \in Sets : \A g \in goals[s] :
    finalCode[Where(s, g[1]) + 1].m = Where(s, g[2])

\* Every call goes through the table of jumps to the INC that opens the code
\* of the procedure it names, and the program starts with the main block.
EntryOf(p) == finalCode[p + 1]
CallsReachBody ==
  Linked =>
    /\ \A p \in 0 .. Len(procLevel) :
         /\ EntryOf(p).op = "JMP" /\ finalTags[EntryOf(p).m + 1] = <<p, 0>>
         /\ finalCode[EntryOf(p).m + 1].op = "INC"
    /\ \A k \in 1 .. Len(finalCode) :
         finalCode[k].op = "CAL" => finalCode[k].m \in 1 .. Len(procLevel)

\* prepareMcode stops counting at the first empty set, and loses nothing by
\* it: each emitted instruction of each set is in the final code once, in the
\* order of its set, and the last one halts the program.
NothingLost ==
  phase = "done" =>
    /\ \A s \in Sets :
         /\ Cardinality(Indices(s)) = Len(generatedCode[s])
         /\ \A i, j \in Indices(s) :
              i < j => \E a, b \in 1 .. Len(tags[s]) :
                         a < b /\ tags[s][a] = finalTags[i][2] /\ tags[s][b] = finalTags[j][2]
    /\ finalCode[Len(finalCode)] = newInstruction("SIO", 0, 0, 3)

\* What follows the body of a loop is the jump "to return the conditon"
\* (parse.c, at the end of a while statement): no return cuts the loop short.
LoopsRepeat ==
  \A s \in Sets : \A g \in goals[s] : \A k \in 2 .. Len(generatedCode[s]) :
    g[2] < g[1] /\ tags[s][k] = g[1] => generatedCode[s][k - 1].op # "RTN"
=============================================================================
