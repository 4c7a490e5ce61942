------------------------------ MODULE Declarations ------------------------------
(***************************************************************************)
(* What blockParse, makeSymbol and getFreeSet (parse.c) do with the        *)
(* declarations of a program, without its tokens: symbols put in the       *)
(* table, addresses drawn from offsetArray, code sets handed out, levels   *)
(* entered and left.  An action is one declaration, or one of the points   *)
(* where blockParse begins, repeats or ends; identifiers are looked up     *)
(* while the innermost block is in its statement.                          *)
(***************************************************************************)
EXTENDS SymbolTable

CONSTANTS MaxLexi,     \* MAX_LEXI_LEVELS
          MaxSets,     \* MAX_CODE_SETS
          MaxSymbols   \* bound: declarations in a program

\* makeSymbol gives what has no value the value 0.
ASSUME ParserAssumption == /\ MaxLexi \in Nat /\ MaxSets \in Nat /\ MaxSymbols \in Nat
                           /\ 0 \in Vals

VARIABLES globalLevel, offsetArray, procedureCount, currentProcedure,
          inUse,       \* the code sets taken
          blocks,      \* the activations of blockParse, innermost last
          spaces,      \* the INC instructions put in front of each code set
          made,        \* how many declarations were read
          crashed      \* the parser followed a null pointer, or left offsetArray

parserVars == <<globalLevel, offsetArray, procedureCount, currentProcedure,
                inUse, blocks, spaces, made, crashed>>
vars == <<tableVars, parserVars>>

Sets == 0 .. MaxSets - 1
FINAL_CODE == -1

\* Of an activation of blockParse: its place in the grammar, the counters of
\* the block node, whether the list pointer of the section being read is set,
\* and oldProcedure.  `declared` and `set` are history: the symbols made for
\* this block and the code set of its procedure.
NewBlock(set) == [phase |-> "const", linked |-> FALSE,
                  consts |-> 0, vars |-> 0, procs |-> 0,
                  old |-> set, set |-> set, declared |-> << >>]

Top == blocks[Len(blocks)]

\* getFreeSet
FreeSets == {s \in Sets : s \notin inUse}
LeastSet == CHOOSE s \in FreeSets : \A t \in FreeSets : s <= t
\* Mutant of FreeSet: a counter that runs past the last set.
UncheckedFreeSet == Cardinality(inUse)

FreeSet == IF FreeSets = {} THEN FINAL_CODE ELSE LeastSet

\* programParse up to its call of blockParse.
Init == /\ TableInit
        /\ globalLevel = 0 /\ procedureCount = 0
        /\ offsetArray = [l \in 0 .. MaxLexi - 1 |-> 4]
        /\ currentProcedure = IF MaxSets = 0 THEN FINAL_CODE ELSE 0
        /\ inUse = IF MaxSets = 0 THEN {} ELSE {0}
        /\ blocks = <<NewBlock(currentProcedure)>>
        /\ spaces = [s \in Sets \cup {FINAL_CODE} |-> << >>]
        /\ made = 0 /\ crashed = FALSE

Declaring(phases) == ~crashed /\ blocks # << >> /\ Top.phase \in phases

\* The bound on the length of a program.
DeclarationsLeft == made < MaxSymbols

\* A node is linked after the one before it through a pointer that is null
\* at the start of each section, but the block may have nodes of an earlier
\* section: "const a=1; procedure ...; const b=2;".
ListBroken(phase, count) == count > 0 /\ ~(Top.phase = phase /\ Top.linked)

Crash(phases, phase, count) ==
  /\ Declaring(phases) /\ ListBroken(phase, count)
  /\ crashed' = TRUE
  /\ UNCHANGED <<tableVars, globalLevel, offsetArray, procedureCount,
                 currentProcedure, inUse, blocks, spaces, made>>

\* The innermost block, its counter `counted` already, with one declaration
\* more; `declared` remembers the symbol also when the table refuses it.
Declared(s, phase, counted) ==
  [blocks EXCEPT ![Len(blocks)] =
     [counted EXCEPT !.phase = phase, !.linked = TRUE, !.declared = Append(@, s)]]

DeclareConst(name, val) ==
  /\ Declaring({"const"}) /\ ~ListBroken("const", Top.consts) /\ DeclarationsLeft
  /\ LET s == [name |-> name, kind |-> "const", level |-> globalLevel,
               addr |-> 0, val |-> val]
     IN  putSymbol(s) /\ blocks' = Declared(s, "const", [Top EXCEPT !.consts = @ + 1])
  /\ made' = made + 1
  /\ UNCHANGED <<globalLevel, offsetArray, procedureCount, currentProcedure,
                 inUse, spaces, crashed>>

DeclareVar(name) ==
  /\ Declaring({"const", "var"}) /\ ~ListBroken("var", Top.vars) /\ DeclarationsLeft
  /\ globalLevel < MaxLexi
  /\ LET s == [name |-> name, kind |-> "var", level |-> globalLevel,
               addr |-> offsetArray[globalLevel], val |-> 0]
     IN  putSymbol(s) /\ blocks' = Declared(s, "var", [Top EXCEPT !.vars = @ + 1])
  /\ offsetArray' = [offsetArray EXCEPT ![globalLevel] = @ + 1]
  /\ made' = made + 1
  /\ UNCHANGED <<globalLevel, procedureCount, currentProcedure, inUse, spaces,
                 crashed>>

\* A variable at a level offsetArray has no entry for.
LevelTooDeep ==
  /\ Declaring({"const", "var"}) /\ globalLevel >= MaxLexi
  /\ ~ListBroken("var", Top.vars)
  /\ crashed' = TRUE
  /\ UNCHANGED <<tableVars, globalLevel, offsetArray, procedureCount,
                 currentProcedure, inUse, blocks, spaces, made>>

OpenProcedure(name) ==
  /\ Declaring({"const", "var", "proc"}) /\ ~ListBroken("proc", Top.procs)
  /\ DeclarationsLeft
  /\ LET s == [name |-> name, kind |-> "proc", level |-> globalLevel,
               addr |-> procedureCount + 1, val |-> 0]
     IN  /\ putSymbol(s)
         /\ blocks' = Append(Declared(s, "proc", [Top EXCEPT !.procs = @ + 1]),
                             NewBlock(FreeSet))
  /\ procedureCount' = procedureCount + 1
  /\ currentProcedure' = FreeSet
  /\ inUse' = inUse \cup ({FreeSet} \ {FINAL_CODE})
  /\ globalLevel' = globalLevel + 1
  /\ made' = made + 1
  /\ UNCHANGED <<offsetArray, spaces, crashed>>

\* Mutant of Restored: blockParse forgets to take oldProcedure back.
NotRestored == currentProcedure

\* "restore the current procedure pointer"
Restored == Top.old

\* The declarations of a block may start over after its procedures; else the
\* statement begins.
EndDeclarations ==
  /\ Declaring({"const", "var", "proc"})
  /\ currentProcedure' = Restored
  /\ \E phase \in {"const", "statement"} :
       blocks' = [blocks EXCEPT ![Len(blocks)] =
                    [Top EXCEPT !.phase = phase, !.linked = FALSE]]
  /\ UNCHANGED <<tableVars, globalLevel, offsetArray, procedureCount, inUse,
                 spaces, made, crashed>>

\* generateVariableSpace
Reserve(set, count) ==
  spaces' = [spaces EXCEPT ![set] = <<count + 4>> \o @]

\* The end of a procedure, and of the program.
CloseBlock ==
  /\ Declaring({"statement"})
  /\ Reserve(currentProcedure, Top.vars)
  /\ blocks' = SubSeq(blocks, 1, Len(blocks) - 1)
  /\ globalLevel' = IF Len(blocks) = 1 THEN globalLevel ELSE globalLevel - 1
  /\ UNCHANGED <<tableVars, offsetArray, procedureCount, currentProcedure,
                 inUse, made, crashed>>

Next == \/ \E name \in Names : \/ \E val \in Vals : DeclareConst(name, val)
                               \/ DeclareVar(name)
                               \/ OpenProcedure(name)
        \/ \/ Crash({"const"}, "const", Top.consts)
           \/ Crash({"const", "var"}, "var", Top.vars)
           \/ Crash({"const", "var", "proc"}, "proc", Top.procs)
        \/ LevelTooDeep \/ EndDeclarations \/ CloseBlock

Spec == Init /\ [][Next]_vars

-----------------------------------------------------------------------------
(* Properties.                                                             *)

CodeSet == Sets \cup {FINAL_CODE}
Block == [phase : {"const", "var", "proc", "statement"}, linked : BOOLEAN,
          consts : Nat, vars : Nat, procs : Nat,
          old : CodeSet, set : CodeSet, declared : Seq(Symbol)]

\* The counters and the stack of open blocks stay in range, and the level is
\* the depth of the open block.
TypeOK == /\ TableTypeOK
          /\ globalLevel \in Nat /\ procedureCount \in 0 .. MaxSymbols
          /\ offsetArray \in [0 .. MaxLexi - 1 -> Nat]
          /\ blocks \in Seq(Block)
          /\ blocks # << >> => globalLevel = Len(blocks) - 1
          /\ currentProcedure \in CodeSet
          /\ inUse \subseteq Sets /\ made \in 0 .. MaxSymbols
          /\ spaces \in [CodeSet -> Seq(Nat)]
          /\ crashed \in BOOLEAN

Stored(s) == \E i \in 1 .. Len(Buckets[Hash[s.name]]) : Buckets[Hash[s.name]][i] = s

\* putSymbol's refusal, which makeSymbol ignores, loses no variable and no
\* procedure of an open block as long as a bucket is free: what the table
\* holds in its place is the same symbol, address included.
DeclaredKept ==
  \A b \in 1 .. Len(blocks) : \A i \in 1 .. Len(blocks[b].declared) :
    LET s == blocks[b].declared[i]
    IN  s.kind = "const" \/ Stored(s) \/ numsTable = NumBuckets

\* A call is compiled to the address of the procedure's symbol, and its code
\* goes where currentProcedure points: while code sets last the two are the
\* same number, in the statement of a block the code goes to the block's own
\* set although other procedures were compiled in between, and every finished
\* procedure has exactly one INC at the start of its set.
CodeSetsMatch ==
  /\ \A b \in 2 .. Len(blocks) :
       LET caller == blocks[b - 1].declared
           addr == caller[Len(caller)].addr
       IN  addr < MaxSets => blocks[b].set = addr
  /\ blocks # << >> /\ Top.phase = "statement" => currentProcedure = Top.set
  /\ \A s \in inUse :
       Len(spaces[s]) = IF \E b \in 1 .. Len(blocks) : blocks[b].set = s
                        THEN 0 ELSE 1

\* What PL/0 means by an identifier: its declaration in the innermost open
\* block that has one.
DeclarationsOf(name, b) ==
  {s \in {blocks[b].declared[i] : i \in 1 .. Len(blocks[b].declared)} : s.name = name}
Visible(name) == {b \in 1 .. Len(blocks) : DeclarationsOf(name, b) # {}}
Innermost(name) == CHOOSE b \in Visible(name) : \A c \in Visible(name) : c <= b
Meaning(name) == IF Visible(name) = {} THEN {Null}
                 ELSE DeclarationsOf(name, Innermost(name))

\* Lookups happen in statements.
InStatement == Declaring({"statement"})

\* An identifier of a statement means its innermost declaration if its bucket
\* holds only symbols of that name made by blocks that are still open: of
\* getSymbol's rules, the comparison of levels is right.
BucketIsCurrent(name) ==
  \A i \in 1 .. Len(Buckets[Hash[name]]) :
    LET s == Buckets[Hash[name]][i]
    IN  \E b \in 1 .. Len(blocks) : DeclarationsOf(name, b) = {s}
ResolvesWhenCurrent ==
  InStatement => \A name \in Names :
    BucketIsCurrent(name) /\ (\A s \in Meaning(name) \ {Null} : Stored(s))
      => getSymbol(name, globalLevel) \in Meaning(name)

\* The same without the condition: "look up a symbol with a specific key"
\* (README.md, Symbol Table).
ResolvesInnermost ==
  InStatement => \A name \in Names : getSymbol(name, globalLevel) \in Meaning(name)

\* The variables of a block lie in the record that generateVariableSpace
\* ("creating variable space", gencode.c) makes for them.
VariablesInFrame ==
  InStatement => \A i \in 1 .. Len(Top.declared) :
    Top.declared[i].kind = "var" => Top.declared[i].addr < 4 + Top.vars
=============================================================================
