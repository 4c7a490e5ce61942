------------------------------- MODULE Compiler -------------------------------
(***************************************************************************)
(* driver_run of compilerDriver.c behind the scanner: the token file is    *)
(* parsed, the code sets are combined (CodeGen), and the machine runs the  *)
(* result (PMachine); driver_cleanup releases the tree.  A parse that      *)
(* fails ends the run of the driver before any code is combined.           *)
(*                                                                         *)
(* The token files are texts of programs given as trees: `source` is the   *)
(* program meant, `text` says how it was written down.                     *)
(***************************************************************************)
EXTENDS Tree

LOCAL INSTANCE SequencesExt

CONSTANTS Programs, Damaged,   \* the trees; those also tried with mistakes in them
          Inputs, MaxInt, NumRegs, MaxStack, MaxCode, NoFile

VARIABLES source, text,        \* history
          layout, finalTags,
          freed,               \* the nodes read and released at the end
          typed                \* history: the numbers read by the program

VARIABLES sp, bp, pc, r, stack, code, frameBreak, frameLevel, numInstructions,
          status, out, runs, lost, frames, statics

M == INSTANCE PMachine WITH Files <- {}, MaxRuns <- 1

S == INSTANCE Meaning WITH Calculate <- M!Result

L == INSTANCE CodeGen
       WITH MaxProcs <- 0, MaxStatements <- 0, MaxNesting <- 0,
            procLevel <- << >>, open <- << >>, statements <- 0, phase <- step,
            tags <- [s \in D!Sets |-> << >>], goals <- << >>

machineVars == <<sp, bp, pc, r, stack, code, frameBreak, frameLevel,
                 numInstructions, status, out, runs, lost, frames, statics>>
sourceVars == <<source, text>>
linkVars == <<layout, finalTags>>
parserVars == <<tokenVars, acts, tree, errors, declVars>>
driverVars == <<vars, sourceVars, linkVars, freed, typed, machineVars>>

-----------------------------------------------------------------------------
(* The texts.                                                              *)

\* The mistakes that README.md ("Error detect and Recovery") says the parser
\* recovers from.  Its missing semicolon is one between two statements.
Mistakes(blk) ==
  LET tokens == Yield(blk)
      Type(i) == IF i \in DOMAIN tokens THEN tokens[i].type ELSE "nulsym"
      Places(types) == {i \in DOMAIN tokens : Type(i) \in types}
      Written(kind, damaged) == [kind |-> kind, tokens |-> damaged]
  IN  {Written("period", RemoveAt(tokens, i)) : i \in Places({"periodsym"})} \cup
      {Written("equal", [tokens EXCEPT ![i] = Plain("eqlsym")]) :
         i \in Places({"becomessym"})} \cup
      {Written("mixed", InsertAt(tokens, i + 1, Plain("plussym"))) :
         i \in Places(SignTypes \cup FactorTypes)} \cup
      {Written("semicolon", RemoveAt(tokens, i)) :
         i \in {j \in Places({"semicolonsym"}) : /\ \E b \in 1 .. j : Type(b) = "beginsym"
                                                 /\ inset(Type(j + 1), statbegsys)}} \cup
      {Written("paren", RemoveAt(tokens, i)) :
         i \in {j \in Places({"rparentsym"}) : Type(j + 1) \in {"semicolonsym", "endsym"}}}

Texts(blk) ==
  {[kind |-> "yield", tokens |-> Yield(blk)], [kind |-> "unparsed", tokens |-> Unparsed(blk)]}
    \cup (IF blk \in Damaged THEN Mistakes(blk) ELSE {})

-----------------------------------------------------------------------------
DriverInit ==
  /\ \E blk \in Programs : \E written \in Texts(blk) :
       /\ source = blk /\ text = written.kind
       /\ InitOn([i \in DOMAIN written.tokens |-> {written.tokens[i]}])
  /\ M!Init
  /\ layout = 0 /\ finalTags = << >> /\ freed = << >> /\ typed = << >>

Parse == Next /\ UNCHANGED <<sourceVars, linkVars, freed, typed, machineVars>>

\* generateMachineCode
Link == /\ L!LinkJumps \/ L!LinkSet
        /\ UNCHANGED <<parserVars, sourceVars, freed, typed, machineVars>>

Load == /\ step = "done"
        /\ M!RunFile(finalCode)
        /\ step' = "run"
        /\ UNCHANGED <<parserVars, codeVars, sourceVars, linkVars, freed, typed>>

\* A turn of the machine's loop; the user types numbers only.
Turn ==
  /\ step = "run" /\ M!Running
  /\ M!PrefetchFails \/ M!Lose \/ M!Execute
  /\ LET reads == ~M!PastEnd /\ pc >= 0 /\ code[pc].op = "SIO" /\ code[pc].m = 2
         number == r'[code[pc].r]
     IN  IF reads THEN number \in Inputs /\ typed' = Append(typed, number)
         ELSE UNCHANGED typed
  /\ UNCHANGED <<vars, sourceVars, linkVars, freed>>

\* driver_cleanup, once run_vm has returned.
Cleanup == /\ step = "run" /\ ~M!Running /\ ~lost
           /\ freed' = Freed(tree) /\ step' = "exit"
           /\ UNCHANGED <<parserVars, codeVars, sourceVars, linkVars, typed, machineVars>>

DriverNext == Parse \/ Link \/ Load \/ Turn \/ Cleanup

\* The parse and run_vm's loop go on until they return; the user answers
\* when the program reads.
DriverSpec == DriverInit /\ [][DriverNext]_driverVars /\ WF_driverVars(DriverNext)

-----------------------------------------------------------------------------
(* The programs the compiler is right about: those that keep clear of what *)
(* other runs show of it, and of procedures that never return.             *)

RECURSIVE Within(_), AllBlocks(_, _)

Within(s) ==
  {s} \cup CASE s.tag = "begin" -> UNION {Within(s.stsList[i]) : i \in DOMAIN s.stsList}
             [] s.tag = "while" -> Within(s.sts)
             [] s.tag = "if" -> Within(s.ifsts) \cup
                                (IF s.elsests = Null THEN {} ELSE Within(s.elsests))
             [] OTHER -> {}

AllBlocks(blk, level) ==
  <<[level |-> level, block |-> blk]>> \o
    FlattenSeq([i \in DOMAIN blk.procs |-> AllBlocks(blk.procs[i].body, level + 1)])

Idents(list) == [i \in DOMAIN list |-> list[i].ident]

Constants(all) == FlattenSeq([i \in DOMAIN all |-> Idents(all[i].block.consts)])

\* No name is declared twice (run scopes), and no two blocks of a level have
\* variables (run frames).
DeclaredApart(all) ==
  /\ IsInjective(Constants(all) \o
                   FlattenSeq([i \in DOMAIN all |-> Idents(all[i].block.vars) \o
                                                    Idents(all[i].block.procs)]))
  /\ \A i, j \in DOMAIN all :
       i # j /\ all[i].level = all[j].level =>
         << >> \in {all[i].block.vars, all[j].block.vars}

\* A procedure returns at every "end" in it (run loops), and only there: one
\* whose body is no list runs on into the code laid out behind it.
Bodies(all) == {all[i].block.statement : i \in DOMAIN all \ {1}}
NoListInside(all) ==
  \A body \in Bodies(all) : \A s \in Within(body) \ {body} : s.tag # "begin"
ListsOutside(all) == \A body \in Bodies(all) : body.tag = "begin"

\* generateWrite takes the value of a constant for an address.
NoConstantWritten(all) ==
  \A i \in DOMAIN all : \A s \in Within(all[i].block.statement) :
    s.tag = "write" => s.ident \notin ToSet(Constants(all))

Supported(blk) ==
  LET all == AllBlocks(blk, 0)
  IN  DeclaredApart(all) /\ NoListInside(all) /\ ListsOutside(all)

-----------------------------------------------------------------------------
(* Properties.                                                             *)

\* What README.md says of errors and recovery: a program with one of those
\* mistakes is parsed to the program that was meant, and the mistake is
\* reported.  (Of a parenthesis that is missing, see MistakesDetected.)
MistakesRepaired ==
  text # "unparsed" =>
    /\ step \notin {"failed", "crashed"}
    /\ step = "link" => /\ tree = source
                        /\ text = "yield" => errors = << >>
                        /\ text \notin {"yield", "paren"} => errors # << >>

\* README.md:105-111: each of these mistakes is detected.  It does not hold: a
\* right parenthesis that is missing is put in without a word (factorParse).
MistakesDetected ==
  step = "link" /\ text \notin {"yield", "unparsed"} => errors # << >>

\* The text unParsePrint writes is a program again, with the same tree but
\* for empty statements in lists, although it has its semicolons in other
\* places than the grammar.  The exceptions: a then part that ends with a
\* semicolon of its own is cut off from its else, and the name that an "odd"
\* makes of the keyword before it is not declared, nor a statement, so that
\* the parse fails.
RECURSIVE Trimmed(_), EndsOpen(_), TrimmedBlock(_)
Trimmed(s) ==
  CASE s.tag = "begin" ->
         LET kept == SelectSeq(s.stsList, LAMBDA t : t.tag # "none")
         IN  [s EXCEPT !.stsList = [i \in DOMAIN kept |-> Trimmed(kept[i])]]
    [] s.tag = "while" -> [s EXCEPT !.sts = Trimmed(@)]
    [] s.tag = "if" -> [s EXCEPT !.ifsts = Trimmed(@),
                                 !.elsests = IF @ = Null THEN @ ELSE Trimmed(@)]
    [] OTHER -> s
TrimmedBlock(blk) ==
  [blk EXCEPT !.statement = Trimmed(@),
              !.procs = [i \in DOMAIN @ |-> [@[i] EXCEPT !.body = TrimmedBlock(@)]]]
EndsOpen(s) ==
  CASE s.tag = "while" -> EndsOpen(s.sts)
    [] s.tag = "if" -> EndsOpen(IF s.elsests = Null THEN s.ifsts ELSE s.elsests)
    [] OTHER -> s.tag \notin {"begin", "none"}
StatementsOf(blk) == UNION {Within(all.block.statement) : all \in ToSet(AllBlocks(blk, 0))}
CutOff(blk) ==
  \E s \in StatementsOf(blk) : s.tag = "if" /\ s.elsests # Null /\ EndsOpen(s.ifsts)
AsksOdd(blk) ==
  \E s \in StatementsOf(blk) : s.tag \in {"if", "while"} /\ s.cond.op = "oddsym"
UnparseRecompiles ==
  text = "unparsed" =>
    /\ AsksOdd(source) => step # "link"
    /\ ~AsksOdd(source) /\ ~CutOff(source) =>
         /\ step \notin {"failed", "crashed"}
         /\ step = "link" => TrimmedBlock(tree) = TrimmedBlock(source)

\* The code of a supported program obeys the machine's layout at every turn:
\* the precondition under which PMachine keeps its links and returns to its
\* callers is met by what parser and linker produce.  No turn leaves the
\* arrays either, unless a constant is written; what can stop the program
\* short is a division by zero.
CodeObeys ==
  step = "run" /\ Supported(tree) =>
    /\ M!Obedient
    /\ lost => \/ code[pc].op = "DIV" /\ r[code[pc].m] = 0
               \/ ~NoConstantWritten(AllBlocks(tree, 0))

\* A supported program that was compiled writes what it means: over parser,
\* code sets, relocation, records, static links and registers together.  For
\* a constant it writes some other number, for the generator takes its value
\* for an address, but as many numbers, and nothing else comes out wrong.
\* (The supported programs of the instance nest calls no deeper than
\* frameBreak allows, see run deep_calls.)
OutputRight ==
  step = "exit" /\ Supported(tree) /\ Len(finalCode) < MaxCode =>
    LET meant == S!Written(tree, typed)
    IN  /\ status = M!IDLE /\ Len(out) = Len(meant)
        /\ \A i \in DOMAIN out : meant[i].kind = "var" => out[i] = meant[i].value

\* The driver comes to its end with every program of the instance, all of
\* which have a meaning: no jump goes where it starts over for ever.
Ends == <>(step \in {"exit", "failed", "crashed"} \/ lost)

\* When the tree is released no node is read or released after its release,
\* and every node that is read is released in the end.  The exceptions are an
\* else part, in whose place the then part is released a second time, and the
\* block of a procedure.
ReleasedOnce ==
  step = "exit" =>
    LET Releases == {i \in DOMAIN freed : freed[i].released}
        NodesAt(places) == {freed[i].node : i \in places}
        ElseParts == {node \in NodesAt(DOMAIN freed) : Last(node) = "elsests"}
        Again == {Append(Front(node), "ifsts") : node \in ElseParts}
        Bare == {node \in NodesAt(DOMAIN freed) : Last(node) = "body"}
    IN  /\ \A i \in Releases : \A j \in i + 1 .. Len(freed) :
             freed[j].node = freed[i].node => j \in Releases /\ freed[i].node \in Again
        /\ NodesAt(DOMAIN freed) \ NodesAt(Releases) = ElseParts \cup Bare
===============================================================================
