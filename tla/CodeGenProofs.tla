----------------------------- MODULE CodeGenProofs -----------------------------
(***************************************************************************)
(* Proofs about code generation and linking, for every number of code      *)
(* sets and of procedures: the parse stack and the code sets fit together, *)
(* registers are balanced, each jump lands where its statement meant it    *)
(* to, each call reaches its procedure, and linking loses nothing as long  *)
(* as a code set is left empty.                                            *)
(***************************************************************************)
EXTENDS CodeGen, FiniteSetTheorems, SequenceTheorems, TLAPS

(* The inductive invariant.                                                *)

Ops == {"LIT", "STO", "SIO", "LOD", "CAL", "RTN", "ODD", "JPC", "JMP", "INC"}
Instr == [op : Ops, r : Int, l : Int, m : Int]
Owners == Sets \cup {FINAL_CODE}

\* A set is left empty: the sets in use are 0 .. Len(procLevel).
SomeEmpty == Len(procLevel) + 1 < MaxSets

FinalTag == IF phase \in {"layout", "done"} /\ SomeEmpty THEN Owners \X Nat ELSE Nat

Frame == [kind : {"block"}, due : BOOLEAN, set : Owners]
           \cup [kind : {"begin"}, due : BOOLEAN]
           \cup [kind : {"then"}, due : BOOLEAN, j1 : Nat]
           \cup [kind : {"else"}, due : BOOLEAN, j2 : Nat]
           \cup [kind : {"while"}, due : BOOLEAN, c : Nat, j1 : Nat]

Types ==
  /\ generatedCode \in [Sets -> Seq(Instr)] /\ finalCode \in Seq(Instr)
  /\ tags \in [Sets -> Seq(Nat)] /\ finalTags \in Seq(FinalTag)
  /\ \A s \in Sets : Len(tags[s]) = Len(generatedCode[s])
  /\ Len(finalTags) = Len(finalCode)
  /\ goals \in [Sets -> SUBSET (Nat \X Nat)]
  /\ procLevel \in Seq(Nat) /\ open \in Seq(Frame)
  /\ currentProcedure \in Owners
  /\ statements \in 0 .. MaxStatements
  /\ phase \in {"parse", "link", "layout", "done"} /\ layout \in -1 .. MaxSets - 1
  /\ Len(open) <= MaxNesting \/ MaxNesting = 0

BlockAt(i) == i \in 1 .. Len(open) /\ open[i].kind = "block"
Innermost(i) == BlockAt(i) /\ ~BlockAt(i + 1)

\* The blocks are at the bottom of the stack, each has a code set of its own
\* unless there is none left, and the innermost has the current one.
StackInv ==
  /\ phase = "parse" <=> open # << >>
  /\ open # << >> => open[1].set = 0 /\ \E i \in 1 .. Len(open) : Innermost(i)
  /\ \A j \in 1 .. Len(open) : BlockAt(j) => \A i \in 1 .. j : BlockAt(i)
  /\ \A i \in 1 .. Len(open) : Innermost(i) => open[i].set = currentProcedure
  /\ \A i, j \in 1 .. Len(open) :
       i < j /\ BlockAt(i) /\ BlockAt(j) /\ open[i].set = open[j].set
         => open[i].set = FINAL_CODE
  /\ \A i \in 1 .. Len(open) :
       BlockAt(i) => IF open[i].set = FINAL_CODE THEN Len(procLevel) >= MaxSets
                     ELSE open[i].set <= Len(procLevel)

IsOpen(s) == \E i \in 1 .. Len(open) : BlockAt(i) /\ open[i].set = s

\* INC is in front of the code of the sets that are finished.
Offset(s) == IF IsOpen(s) THEN 0 ELSE 1

\* The sets beyond those handed out are empty, and the finished ones are not.
SetsInv ==
  /\ \A s \in Sets :
       /\ s > Len(procLevel) => generatedCode[s] = << >> /\ goals[s] = {}
       /\ \A j \in 1 .. Len(tags[s]) : tags[s][j] = j - Offset(s)
       /\ s <= Len(procLevel) /\ ~IsOpen(s)
            => Len(generatedCode[s]) > 0 /\ generatedCode[s][1].op = "INC"
  /\ ~IsOpen(0) => /\ Len(generatedCode[0]) > 0
                   /\ generatedCode[0][Len(generatedCode[0])]
                        = newInstruction("SIO", 0, 0, 3)
  /\ phase \in {"parse", "link"} /\ Len(procLevel) < MaxSets => finalCode = << >>

Jumps == {"JMP", "JPC"}

\* A jump whose goal is known holds it, counted without the INC.
GoalsInv ==
  \A s \in Sets : \A g \in goals[s] :
    /\ g[1] \in 1 .. Len(generatedCode[s]) - Offset(s)
    /\ g[2] \in 1 .. Len(generatedCode[s]) + 1 - Offset(s)
    /\ generatedCode[s][g[1] + Offset(s)].op \in Jumps
    /\ generatedCode[s][g[1] + Offset(s)].m = g[2] - 1

\* The jump that an open statement has to patch.
Waiting(f) == f.kind \in {"then", "else", "while"}
Cell(f) == IF f.kind = "else" THEN f.j2 ELSE f.j1

\* Each open statement has a jump of its own to patch, which no goal is known
\* for yet.
CellsInv ==
  currentProcedure \in Sets =>
    LET code == generatedCode[currentProcedure]
    IN  \A i \in 1 .. Len(open) : Waiting(open[i]) =>
          /\ Cell(open[i]) + 1 \in 1 .. Len(code)
          /\ code[Cell(open[i]) + 1].op \in Jumps
          /\ open[i].kind = "while" => open[i].c <= Cell(open[i])
          /\ \A j \in i + 1 .. Len(open) :
               Waiting(open[j]) => Cell(open[i]) # Cell(open[j])
          /\ \A g \in goals[currentProcedure] : g[1] # Cell(open[i]) + 1

CallsInv ==
  \A s \in Sets : \A k \in 1 .. Len(generatedCode[s]) :
    generatedCode[s][k].op = "CAL" => generatedCode[s][k].m \in 1 .. Len(procLevel)

\* Behind the table of jumps, the sets after `layout` are laid out, each where
\* its jump goes to, and nothing else is there.
LaidOut(p) ==
  LET base == finalCode[p + 1].m
  IN  /\ finalCode[p + 1].op = "JMP"
      /\ base \in Len(procLevel) + 1 .. Len(finalCode) - Len(generatedCode[p])
      /\ \A j \in 1 .. Len(generatedCode[p]) :
           /\ finalCode[base + j] = Relocated(generatedCode[p][j], base)
           /\ finalTags[base + j] = <<p, tags[p][j]>>

LayoutInv ==
  /\ phase = "layout" => SomeEmpty /\ layout \in 0 .. Len(procLevel)
  /\ phase = "done" /\ SomeEmpty =>
       /\ layout = -1
       /\ finalCode[Len(finalCode)] = newInstruction("SIO", 0, 0, 3)
  /\ phase \in {"layout", "done"} /\ SomeEmpty =>
       /\ Len(finalCode) >= Len(procLevel) + 1
       /\ \A k \in 1 .. Len(procLevel) + 1 :
            finalCode[k].op = "JMP" /\ finalTags[k] = <<FINAL_CODE, k - 1>>
       /\ \A p \in layout + 1 .. Len(procLevel) : LaidOut(p)
       /\ \A k \in Len(procLevel) + 2 .. Len(finalCode) :
            \E p \in layout + 1 .. Len(procLevel) :
              k - finalCode[p + 1].m \in 1 .. Len(generatedCode[p])

Inv == /\ Types /\ StackInv /\ SetsInv /\ GoalsInv /\ CellsInv /\ CallsInv
       /\ RegistersHeld /\ LayoutInv

-----------------------------------------------------------------------------
(* Code, tags and the stack.                                               *)

\* newInstruction makes an instruction.
LEMMA Instruction ==
  ASSUME NEW op \in Ops, NEW r \in Int, NEW l \in Int, NEW m \in Int
  PROVE  newInstruction(op, r, l, m) \in Instr
  BY DEF newInstruction, Instr

\* changeM patches one instruction, and keeps its operation.
LEMMA Patched ==
  ASSUME NEW code \in Seq(Instr), NEW index \in Nat, NEW m \in Int
  PROVE  /\ changeM(code, index, m) \in Seq(Instr)
         /\ Len(changeM(code, index, m)) = Len(code)
         /\ \A k \in 1 .. Len(code) :
              IF k = index + 1
              THEN /\ changeM(code, index, m)[k].op = code[k].op
                   /\ changeM(code, index, m)[k].m = m
              ELSE changeM(code, index, m)[k] = code[k]
<1>1. CASE index \in 0 .. Len(code) - 1
  <2>1. index + 1 \in 1 .. Len(code) BY <1>1
  <2>2. changeM(code, index, m) = [code EXCEPT ![index + 1] = [code[index + 1] EXCEPT !.m = m]]
    BY <1>1 DEF changeM
  <2>3. code[index + 1] \in Instr BY <2>1
  <2>4. /\ [code[index + 1] EXCEPT !.m = m] \in Instr
        /\ [code[index + 1] EXCEPT !.m = m].op = code[index + 1].op
        /\ [code[index + 1] EXCEPT !.m = m].m = m
    BY <2>3 DEF Instr
  <2> QED BY <2>1, <2>2, <2>4
<1>2. CASE index \notin 0 .. Len(code) - 1
  <2>1. \A k \in 1 .. Len(code) : k # index + 1 BY <1>2
  <2> QED BY <1>2, <2>1 DEF changeM
<1> QED BY <1>1, <1>2

\* The code of the current procedure becomes newCode, and what is new in it is
\* tagged with its position.
Writes(newCode) ==
  /\ newCode \in Seq(Instr) /\ Len(newCode) >= Here
  /\ generatedCode' \in [Sets -> Seq(Instr)] /\ finalCode' \in Seq(Instr)
  /\ tags' \in [Sets -> Seq(Nat)] /\ finalTags' \in Seq(Nat)
  /\ \A s \in Sets : Len(tags'[s]) = Len(generatedCode'[s])
  /\ Len(finalTags') = Len(finalCode')
  /\ \A s \in Sets : s # currentProcedure =>
       generatedCode'[s] = generatedCode[s] /\ tags'[s] = tags[s]
  /\ currentProcedure \in Sets =>
       /\ finalCode' = finalCode /\ finalTags' = finalTags
       /\ generatedCode'[currentProcedure] = newCode
       /\ \A k \in 1 .. Len(newCode) :
            tags'[currentProcedure][k]
              = IF k <= Here THEN tags[currentProcedure][k] ELSE k

\* Emit is such a write, whether a code set or finalCode is the current one.
LEMMA EmitWrites ==
  ASSUME Types, phase = "parse",
         NEW newCode \in Seq(Instr), Len(newCode) >= Here, Emit(newCode)
  PROVE  Writes(newCode)
<1> DEFINE new == [i \in 1 .. Len(newCode) - Here |-> Here + i]
           old == TagsOf(currentProcedure)
<1>1. old \in Seq(Nat) /\ Here \in Nat /\ Len(old) = Here
  BY DEF Types, FinalTag, TagsOf, Here, getCodeLength, Code, Owners
<1>2. Len(newCode) - Here \in Nat BY <1>1
<1>3. new \in Seq(Nat) /\ Len(new) = Len(newCode) - Here BY <1>1, <1>2
<1>4. /\ old \o new \in Seq(Nat) /\ Len(old \o new) = Len(newCode)
      /\ \A k \in 1 .. Len(newCode) : (old \o new)[k] = IF k <= Here THEN old[k] ELSE k
  BY <1>1, <1>2, <1>3
<1>5. SetCode(currentProcedure, newCode) /\ TagCode(currentProcedure, old \o new)
  BY DEF Emit, Here
<1> HIDE DEF new, old
<1>6. CASE currentProcedure = FINAL_CODE
  <2>1. /\ finalCode' = newCode /\ generatedCode' = generatedCode
        /\ finalTags' = old \o new /\ tags' = tags
    BY <1>5, <1>6 DEF SetCode, TagCode
  <2>2. currentProcedure \notin Sets BY <1>6 DEF Sets, FINAL_CODE
  <2> QED BY <1>4, <2>1, <2>2 DEF Types, Writes
<1>7. CASE currentProcedure # FINAL_CODE
  <2>1. /\ generatedCode' = [generatedCode EXCEPT ![currentProcedure] = newCode]
        /\ finalCode' = finalCode /\ finalTags' = finalTags
        /\ tags' = [tags EXCEPT ![currentProcedure] = old \o new]
    BY <1>5, <1>7 DEF SetCode, TagCode
  <2>2. currentProcedure \in Sets /\ old = tags[currentProcedure]
    BY <1>7 DEF Types, Owners, TagsOf, old
  <2> QED BY <1>1, <1>4, <2>1, <2>2 DEF Types, FinalTag, Writes
<1> QED BY <1>6, <1>7

\* So is a step that emits nothing.
LEMMA NothingWritten ==
  ASSUME Types, phase = "parse", UNCHANGED <<generatedCode, finalCode, tags, finalTags>>
  PROVE  Writes(Code(currentProcedure))
<1>1. finalTags \in Seq(Nat) BY DEF Types, FinalTag
<1>2. Code(currentProcedure) \in Seq(Instr) BY DEF Types, Code, Owners
<1>3. Len(Code(currentProcedure)) = Here BY DEF Here, getCodeLength
<1>4. currentProcedure \in Sets => Code(currentProcedure) = generatedCode[currentProcedure]
  BY DEF Code, Sets, FINAL_CODE
<1> QED BY <1>1, <1>2, <1>3, <1>4 DEF Types, Writes

\* A frame of which only `due` differs.
Like(f, g) ==
  /\ f.kind = g.kind
  /\ f.kind = "block" => f.set = g.set
  /\ Waiting(f) => Cell(f) = Cell(g)
  /\ f.kind = "while" => f.c = g.c

\* Setting `due` of a frame leaves the rest of it.
LEMMA FrameDone ==
  ASSUME NEW f \in Frame, NEW due \in BOOLEAN
  PROVE  [f EXCEPT !.due = due] \in Frame /\ Like([f EXCEPT !.due = due], f)
<1>1. CASE f \in [kind : {"block"}, due : BOOLEAN, set : Owners]
  BY <1>1 DEF Frame, Like, Waiting, Cell
<1>2. CASE f \in [kind : {"begin"}, due : BOOLEAN]
  BY <1>2 DEF Frame, Like, Waiting, Cell
<1>3. CASE f \in [kind : {"then"}, due : BOOLEAN, j1 : Nat]
  BY <1>3 DEF Frame, Like, Waiting, Cell
<1>4. CASE f \in [kind : {"else"}, due : BOOLEAN, j2 : Nat]
  BY <1>4 DEF Frame, Like, Waiting, Cell
<1>5. CASE f \in [kind : {"while"}, due : BOOLEAN, c : Nat, j1 : Nat]
  BY <1>5 DEF Frame, Like, Waiting, Cell
<1> QED BY <1>1, <1>2, <1>3, <1>4, <1>5 DEF Frame

\* The stack after a statement, and after the end of a structured one.
LEMMA StackDone ==
  ASSUME NEW stack \in Seq(Frame), Len(stack) > 0
  PROVE  /\ Done(stack) \in Seq(Frame) /\ Len(Done(stack)) = Len(stack)
         /\ \A i \in 1 .. Len(stack) : Like(Done(stack)[i], stack[i])
<1> DEFINE n == Len(stack)
           top == [stack[n] EXCEPT !.due = FALSE]
<1>1. n \in 1 .. n /\ stack[n] \in Frame OBVIOUS
<1>2. Done(stack) = [stack EXCEPT ![n] = top] BY DEF Done
<1>3. top \in Frame /\ Like(top, stack[n]) BY <1>1, FrameDone
<1>4. \A f : Like(f, f) BY DEF Like
<1> HIDE DEF top
<1>5. /\ Done(stack) \in Seq(Frame) /\ Len(Done(stack)) = n
      /\ \A i \in 1 .. n : Done(stack)[i] = IF i = n THEN top ELSE stack[i]
  BY <1>1, <1>2, <1>3
<1>6. \A i \in 1 .. n : Like(Done(stack)[i], stack[i]) BY <1>3, <1>4, <1>5
<1> QED BY <1>5, <1>6

\* The stack without its innermost frame.
LEMMA StackClosed ==
  ASSUME NEW stack \in Seq(Frame), Len(stack) > 1
  PROVE  LET rest == SubSeq(stack, 1, Len(stack) - 1)
         IN  /\ rest \in Seq(Frame) /\ Len(rest) = Len(stack) - 1
             /\ \A i \in 1 .. Len(stack) - 1 : rest[i] = stack[i]
  OBVIOUS

-----------------------------------------------------------------------------
(* Steps within a procedure: the blocks stay, and so does what is open.    *)

SameBlocks ==
  \A i \in Nat : /\ BlockAt(i)' <=> BlockAt(i)
                 /\ BlockAt(i) => open'[i].set = open[i].set

Within(newCode) ==
  /\ phase = "parse" /\ Writes(newCode) /\ SameBlocks
  /\ UNCHANGED <<currentProcedure, procLevel, phase, layout>>
  /\ open' \in Seq(Frame) /\ (Len(open') <= MaxNesting \/ MaxNesting = 0)
  /\ statements' \in 0 .. MaxStatements
  /\ goals' \in [Sets -> SUBSET (Nat \X Nat)]
  /\ \A s \in Sets : s # currentProcedure => goals'[s] = goals[s]

\* A step within a procedure keeps the invariant on the stack.
LEMMA BlocksStay ==
  ASSUME Types, StackInv, NEW newCode, Within(newCode)
  PROVE  StackInv' /\ \A s \in Owners : IsOpen(s)' <=> IsOpen(s)
<1>1. \A i \in Nat : /\ BlockAt(i)' <=> BlockAt(i)
                     /\ Innermost(i)' <=> Innermost(i)
                     /\ BlockAt(i) => open'[i].set = open[i].set
  BY DEF Within, SameBlocks, Innermost
<1>2. Len(open) \in Nat /\ Len(open') \in Nat BY DEF Types, Within
<1>3. \A i : /\ BlockAt(i) => i \in 1 .. Len(open) /\ i \in Nat
             /\ BlockAt(i)' => i \in 1 .. Len(open') /\ i \in Nat
  BY <1>2 DEF BlockAt
<1>4. open # << >> /\ BlockAt(1)
  BY <1>2, <1>3 DEF StackInv, Innermost, Within
<1>5. open' # << >> /\ BlockAt(1)' /\ open'[1].set = 0
  BY <1>1, <1>2, <1>4 DEF StackInv, BlockAt
<1>6. \A s \in Owners : IsOpen(s)' <=> IsOpen(s) BY <1>1, <1>3 DEF IsOpen
<1>7. \E i \in 1 .. Len(open') : Innermost(i)'
  BY <1>1, <1>3, <1>4 DEF StackInv, Innermost
<1>8. \A j \in 1 .. Len(open') : BlockAt(j)' => \A i \in 1 .. j : BlockAt(i)'
  BY <1>1, <1>2, <1>3 DEF StackInv
<1>9. \A i \in 1 .. Len(open') : Innermost(i)' => open'[i].set = currentProcedure'
  BY <1>1, <1>2, <1>3 DEF StackInv, Innermost, Within
<1>10. \A i, j \in 1 .. Len(open') :
         i < j /\ BlockAt(i)' /\ BlockAt(j)' /\ open'[i].set = open'[j].set
           => open'[i].set = FINAL_CODE
  BY <1>1, <1>2, <1>3 DEF StackInv
<1>11. \A i \in 1 .. Len(open') :
         BlockAt(i)' => IF open'[i].set = FINAL_CODE THEN Len(procLevel') >= MaxSets
                        ELSE open'[i].set <= Len(procLevel')
  BY <1>1, <1>2, <1>3 DEF StackInv, Within
<1>12. phase' = "parse" BY DEF Within
<1> QED BY <1>5, <1>6, <1>7, <1>8, <1>9, <1>10, <1>11, <1>12 DEF StackInv

\* The current set belongs to a block that is being parsed.
LEMMA CurrentIsOpen ==
  ASSUME Types, StackInv, phase = "parse"
  PROVE  /\ IsOpen(currentProcedure)
         /\ currentProcedure \in Sets => currentProcedure <= Len(procLevel)
         /\ currentProcedure \notin Sets => Len(procLevel) >= MaxSets
<1>1. PICK i \in 1 .. Len(open) : Innermost(i) BY DEF StackInv
<1>2. BlockAt(i) /\ open[i].set = currentProcedure BY <1>1 DEF StackInv, Innermost
<1>3. currentProcedure = FINAL_CODE <=> currentProcedure \notin Sets
  BY DEF Types, Owners, Sets, FINAL_CODE
<1> QED BY <1>2, <1>3 DEF StackInv, IsOpen

\* A write to the current set keeps the invariant on the code sets.
LEMMA SetsStay ==
  ASSUME Types, StackInv, SetsInv, NEW newCode, Within(newCode)
  PROVE  SetsInv'
<1>1. \A s \in Owners : IsOpen(s)' <=> IsOpen(s) BY BlocksStay
<1>2. 0 \in Sets /\ Sets \subseteq Owners BY CodeGenAssumption DEF Owners, Sets
<1>3. phase = "parse" /\ IsOpen(currentProcedure) /\ procLevel' = procLevel
  BY CurrentIsOpen DEF Within
<1>4. ASSUME NEW s \in Sets
      PROVE  /\ s > Len(procLevel) => generatedCode'[s] = << >> /\ goals'[s] = {}
             /\ \A j \in 1 .. Len(tags'[s]) : tags'[s][j] = j - Offset(s)'
             /\ s <= Len(procLevel) /\ ~IsOpen(s)'
                  => Len(generatedCode'[s]) > 0 /\ generatedCode'[s][1].op = "INC"
  <2>0. (IsOpen(s)' <=> IsOpen(s)) /\ Offset(s)' = Offset(s)
    BY <1>1, <1>2 DEF Offset
  <2>1. CASE s # currentProcedure
    <3>1. generatedCode'[s] = generatedCode[s] /\ tags'[s] = tags[s] /\ goals'[s] = goals[s]
      BY <2>1 DEF Within, Writes
    <3> QED BY <2>0, <3>1 DEF SetsInv
  <2>2. CASE s = currentProcedure
    <3>1. IsOpen(s) /\ Offset(s) = 0 BY <1>3, <2>2 DEF Offset
    <3>2. s <= Len(procLevel) /\ Len(procLevel) \in Nat /\ s \in Int
      BY <1>3, <2>2, CurrentIsOpen DEF Types, Sets
    <3>3. Here = Len(tags[s]) /\ Here \in Nat /\ Len(tags'[s]) = Len(newCode)
      <4>1. currentProcedure # FINAL_CODE BY <2>2 DEF Sets, FINAL_CODE
      <4> QED BY <2>2, <4>1 DEF Within, Writes, Here, getCodeLength, Code, Types
    <3>4. \A j \in 1 .. Len(tags'[s]) : tags'[s][j] = IF j <= Here THEN tags[s][j] ELSE j
      BY <2>2, <3>3 DEF Within, Writes
    <3>5. \A j \in 1 .. Len(tags[s]) : tags[s][j] = j
      BY <3>1 DEF SetsInv
    <3>6. Len(tags'[s]) \in Nat BY <3>3 DEF Within, Writes
    <3>7. \A j \in 1 .. Len(tags'[s]) : tags'[s][j] = j
      BY <3>3, <3>4, <3>5, <3>6
    <3> QED BY <2>0, <3>1, <3>2, <3>7
  <2> QED BY <2>1, <2>2
<1>5. ~IsOpen(0)' => /\ Len(generatedCode'[0]) > 0
                     /\ generatedCode'[0][Len(generatedCode'[0])]
                          = newInstruction("SIO", 0, 0, 3)
  <2>1. ~IsOpen(0)' => ~IsOpen(0) /\ 0 # currentProcedure BY <1>1, <1>2, <1>3
  <2>2. 0 # currentProcedure => generatedCode'[0] = generatedCode[0]
    BY <1>2 DEF Within, Writes
  <2> QED BY <2>1, <2>2 DEF SetsInv
<1>6. Len(procLevel) < MaxSets => finalCode' = << >>
  <2>1. Len(procLevel) < MaxSets => currentProcedure \in Sets
    BY <1>3, CurrentIsOpen, CodeGenAssumption DEF Types
  <2> QED BY <1>3, <2>1 DEF SetsInv, Within, Writes
<1> QED BY <1>3, <1>4, <1>5, <1>6 DEF SetsInv

\* A write keeps the types of code and tags.
LEMMA TypesStay ==
  ASSUME Types, StackInv, NEW newCode, Within(newCode)
  PROVE  Types'
<1>1. FinalTag' = Nat BY DEF Within, FinalTag
<1> QED BY <1>1 DEF Types, Within, Writes, FinalTag, Owners, Sets

\* In a code set, what was there keeps its operations, and all but the
\* instruction at index a is as it was.
Patches(newCode, a) ==
  \A k \in 1 .. Here : /\ newCode[k].op = Code(currentProcedure)[k].op
                       /\ k # a + 1 => newCode[k] = Code(currentProcedure)[k]

\* The goals that are known stay right when old instructions keep their place.
LEMMA GoalsStay ==
  ASSUME Types, StackInv, GoalsInv, NEW newCode, Within(newCode), NEW a, NEW new,
         currentProcedure \in Sets =>
           /\ Patches(newCode, a)
           /\ \A g \in goals[currentProcedure] : g[1] # a + 1
           /\ goals'[currentProcedure] = goals[currentProcedure] \cup new
           /\ \A g \in new :
                /\ g[1] \in 1 .. Len(newCode) /\ g[2] \in 1 .. Len(newCode) + 1
                /\ newCode[g[1]].op \in Jumps /\ newCode[g[1]].m = g[2] - 1
  PROVE  GoalsInv'
<1>1. \A s \in Owners : IsOpen(s)' <=> IsOpen(s) BY BlocksStay
<1>2. \A s \in Sets : Offset(s)' = Offset(s) BY <1>1 DEF Offset, Owners
<1> SUFFICES ASSUME NEW s \in Sets, NEW g \in goals'[s]
             PROVE  /\ g[1] \in 1 .. Len(generatedCode'[s]) - Offset(s)
                    /\ g[2] \in 1 .. Len(generatedCode'[s]) + 1 - Offset(s)
                    /\ generatedCode'[s][g[1] + Offset(s)].op \in Jumps
                    /\ generatedCode'[s][g[1] + Offset(s)].m = g[2] - 1
  BY <1>2 DEF GoalsInv
<1>3. CASE s # currentProcedure
  <2>1. generatedCode'[s] = generatedCode[s] /\ goals'[s] = goals[s]
    BY <1>3 DEF Within, Writes
  <2> QED BY <2>1 DEF GoalsInv
<1>4. CASE s = currentProcedure
  <2>1. IsOpen(s) /\ Offset(s) = 0 BY <1>4, CurrentIsOpen DEF Offset, Within
  <2>2. /\ Code(s) = generatedCode[s] /\ Here = Len(generatedCode[s]) /\ Here \in Nat
        /\ generatedCode'[s] = newCode /\ Len(newCode) \in Nat /\ Len(newCode) >= Here
    <3>1. s # FINAL_CODE BY DEF Sets, FINAL_CODE
    <3> QED BY <1>4, <3>1 DEF Within, Writes, Here, getCodeLength, Code, Types
  <2>3. CASE g \in goals[s]
    <3>1. /\ g[1] \in 1 .. Here /\ g[2] \in 1 .. Here + 1
          /\ generatedCode[s][g[1]].op \in Jumps /\ generatedCode[s][g[1]].m = g[2] - 1
      BY <2>1, <2>2, <2>3 DEF GoalsInv
    <3>2. newCode[g[1]] = generatedCode[s][g[1]]
      BY <1>4, <2>2, <2>3, <3>1 DEF Patches
    <3> QED BY <2>1, <2>2, <3>1, <3>2
  <2>4. CASE g \in new BY <1>4, <2>1, <2>2, <2>4
  <2> QED BY <1>4, <2>3, <2>4
<1> QED BY <1>3, <1>4

\* Calls keep naming procedures.
LEMMA CallsStay ==
  ASSUME Types, CallsInv, NEW newCode, Within(newCode),
         currentProcedure \in Sets =>
           \A k \in 1 .. Len(newCode) :
             newCode[k].op = "CAL" => newCode[k].m \in 1 .. Len(procLevel)
  PROVE  CallsInv'
<1> SUFFICES ASSUME NEW s \in Sets, NEW k \in 1 .. Len(generatedCode'[s]),
                    generatedCode'[s][k].op = "CAL"
             PROVE  generatedCode'[s][k].m \in 1 .. Len(procLevel)
  BY DEF CallsInv, Within
<1>1. CASE s # currentProcedure BY <1>1 DEF CallsInv, Within, Writes
<1>2. CASE s = currentProcedure BY <1>2 DEF Within, Writes
<1> QED BY <1>1, <1>2

\* A jump that waits is one that waited before, or is new in the code and
\* belongs to the innermost statement.
LEMMA CellsStay ==
  ASSUME Types, StackInv, CellsInv, NEW newCode, Within(newCode), NEW a, NEW new,
         currentProcedure \in Sets =>
           /\ Patches(newCode, a)
           /\ goals'[currentProcedure] = goals[currentProcedure] \cup new
           /\ \A i \in 1 .. Len(open') : Waiting(open'[i]) =>
                /\ \A g \in new : g[1] # Cell(open'[i]) + 1
                /\ \/ i <= Len(open) /\ Like(open'[i], open[i])
                   \/ /\ i = Len(open')
                      /\ Cell(open'[i]) + 1 \in Here + 1 .. Len(newCode)
                      /\ newCode[Cell(open'[i]) + 1].op \in Jumps
                      /\ open'[i].kind = "while" => open'[i].c <= Cell(open'[i])
           /\ \A g \in goals[currentProcedure] : g[1] <= Here
  PROVE  CellsInv'
<1> SUFFICES ASSUME currentProcedure \in Sets, NEW i \in 1 .. Len(open'),
                    Waiting(open'[i])
             PROVE  /\ Cell(open'[i]) + 1 \in 1 .. Len(newCode)
                    /\ newCode[Cell(open'[i]) + 1].op \in Jumps
                    /\ open'[i].kind = "while" => open'[i].c <= Cell(open'[i])
                    /\ \A j \in i + 1 .. Len(open') :
                         Waiting(open'[j]) => Cell(open'[i]) # Cell(open'[j])
                    /\ \A g \in goals'[currentProcedure] : g[1] # Cell(open'[i]) + 1
  BY DEF CellsInv, Within, Writes
<1> DEFINE Old(j) == j <= Len(open) /\ Like(open'[j], open[j])
           New(j) == /\ j = Len(open')
                     /\ Cell(open'[j]) + 1 \in Here + 1 .. Len(newCode)
                     /\ newCode[Cell(open'[j]) + 1].op \in Jumps
                     /\ open'[j].kind = "while" => open'[j].c <= Cell(open'[j])
           code == generatedCode[currentProcedure]
<1>1. /\ Code(currentProcedure) = code /\ Here = Len(code) /\ Here \in Nat
      /\ Len(newCode) \in Nat /\ Len(newCode) >= Here
      /\ Len(open) \in Nat /\ Len(open') \in Nat
  <2>1. currentProcedure # FINAL_CODE BY DEF Sets, FINAL_CODE
  <2> QED BY <2>1 DEF Within, Writes, Here, getCodeLength, Code, Types
<1>2. ASSUME NEW j \in 1 .. Len(open'), Waiting(open'[j]), Old(j)
      PROVE  /\ Waiting(open[j]) /\ Cell(open'[j]) = Cell(open[j])
             /\ Cell(open[j]) + 1 \in 1 .. Here
             /\ newCode[Cell(open[j]) + 1].op \in Jumps
             /\ open'[j].kind = "while" => open'[j].c <= Cell(open'[j])
             /\ \A g \in goals[currentProcedure] : g[1] # Cell(open[j]) + 1
             /\ \A k \in j + 1 .. Len(open) :
                  Waiting(open[k]) => Cell(open[j]) # Cell(open[k])
  <2>1. Waiting(open[j]) /\ Cell(open'[j]) = Cell(open[j]) BY <1>2 DEF Like, Waiting
  <2>2. j \in 1 .. Len(open) BY <1>1, <1>2
  <2> QED BY <1>1, <1>2, <2>1, <2>2 DEF CellsInv, Patches, Like
<1>3. \A g \in goals'[currentProcedure] :
        g \in goals[currentProcedure] \/ g[1] # Cell(open'[i]) + 1
  OBVIOUS
<1>4. ASSUME NEW j \in i + 1 .. Len(open'), Waiting(open'[j])
      PROVE  Old(i) /\ (Old(j) \/ New(j))
  <2>1. i # Len(open') /\ j \in 1 .. Len(open') BY <1>1, <1>4
  <2> QED BY <1>4, <2>1
<1>5. CASE Old(i)
  <2>1. ASSUME NEW j \in i + 1 .. Len(open'), Waiting(open'[j])
        PROVE  Cell(open'[i]) # Cell(open'[j])
    <3>1. j \in 1 .. Len(open') BY <1>1, <2>1
    <3>2. CASE Old(j)
      <4>1. j \in i + 1 .. Len(open) BY <1>1, <3>2
      <4> QED BY <1>2, <1>5, <2>1, <3>1, <3>2, <4>1
    <3>3. CASE New(j)
      <4>1. Cell(open'[i]) + 1 \in 1 .. Here BY <1>2, <1>5
      <4> QED BY <1>1, <3>3, <4>1
    <3> QED BY <1>4, <2>1, <3>2, <3>3
  <2> QED BY <1>1, <1>2, <1>3, <1>5, <2>1
<1>6. CASE New(i)
  <2>1. \A g \in goals[currentProcedure] : g[1] # Cell(open'[i]) + 1 BY <1>1, <1>6
  <2> QED BY <1>1, <1>3, <1>6, <2>1
<1> QED BY <1>5, <1>6

\* What the steps of a statement have to show: `new` are the goals that become
\* known, and the jump at index a is the one that is patched.
GoalsFit(newCode, a, new) ==
  currentProcedure \in Sets =>
    /\ Patches(newCode, a)
    /\ \A g \in goals[currentProcedure] : g[1] # a + 1
    /\ goals'[currentProcedure] = goals[currentProcedure] \cup new
    /\ \A g \in new :
         /\ g[1] \in 1 .. Len(newCode) /\ g[2] \in 1 .. Len(newCode) + 1
         /\ newCode[g[1]].op \in Jumps /\ newCode[g[1]].m = g[2] - 1

CallsFit(newCode) ==
  currentProcedure \in Sets =>
    \A k \in 1 .. Len(newCode) :
      newCode[k].op = "CAL" => newCode[k].m \in 1 .. Len(procLevel)

FramesFit(newCode, new) ==
  \A i \in 1 .. Len(open') : Waiting(open'[i]) =>
    /\ \A g \in new : g[1] # Cell(open'[i]) + 1
    /\ \/ i <= Len(open) /\ Like(open'[i], open[i])
       \/ /\ i = Len(open')
          /\ Cell(open'[i]) + 1 \in Here + 1 .. Len(newCode)
          /\ newCode[Cell(open'[i]) + 1].op \in Jumps
          /\ open'[i].kind = "while" => open'[i].c <= Cell(open'[i])

\* A step that does not open or close a block keeps the invariant if it keeps
\* the goals, the jumps that wait for one, the calls and the registers.
LEMMA StepWithin ==
  ASSUME Inv, NEW newCode, Within(newCode), NEW a, NEW new, RegistersHeld',
         GoalsFit(newCode, a, new), CallsFit(newCode),
         currentProcedure \in Sets => FramesFit(newCode, new)
  PROVE  Inv'
<1>1. Types' /\ StackInv' /\ SetsInv' BY TypesStay, BlocksStay, SetsStay DEF Inv
<1>2. GoalsInv' BY GoalsStay DEF Inv, GoalsFit
<1>3. currentProcedure \in Sets => \A g \in goals[currentProcedure] : g[1] <= Here
  <2>1. SUFFICES ASSUME currentProcedure \in Sets, NEW g \in goals[currentProcedure]
                 PROVE  g[1] <= Here
    OBVIOUS
  <2>2. Here = Len(generatedCode[currentProcedure]) /\ Offset(currentProcedure) = 0
    <3>1. currentProcedure # FINAL_CODE BY <2>1 DEF Sets, FINAL_CODE
    <3> QED BY <3>1, CurrentIsOpen DEF Here, getCodeLength, Code, Offset, Inv, Within
  <2>3. Here \in Nat BY <2>1, <2>2 DEF Inv, Types
  <2> QED BY <2>1, <2>2, <2>3 DEF Inv, GoalsInv
<1>4. CellsInv' BY <1>3, CellsStay DEF Inv, GoalsFit, FramesFit
<1>5. CallsInv' BY CallsStay DEF Inv, CallsFit
<1>6. LayoutInv' BY DEF Within, LayoutInv
<1> QED BY <1>1, <1>2, <1>4, <1>5, <1>6 DEF Inv

-----------------------------------------------------------------------------
(* The stack of a statement's step: blocks, waiting jumps and registers.   *)

Holders(stack) == {i \in 1 .. Len(stack) : Waiting(stack[i])}

\* The registers held, in terms of Waiting.
LEMMA HeldByHolders == RegistersHeld <=> register_ptr = Cardinality(Holders(open))
  BY DEF RegistersHeld, Holders, Waiting

\* There are finitely many statements that hold a register.
LEMMA HoldersFinite ==
  ASSUME NEW stack \in Seq(Frame)
  PROVE  IsFiniteSet(Holders(stack)) /\ Cardinality(Holders(stack)) \in Nat
<1>1. IsFiniteSet(1 .. Len(stack)) BY FS_Interval
<1>2. Holders(stack) \subseteq 1 .. Len(stack) BY DEF Holders
<1> QED BY <1>1, <1>2, FS_Subset, FS_CardinalityType

\* The blocks are the same when what is on top of them is not a block.
LEMMA BlocksSame ==
  ASSUME NEW stack \in Seq(Frame), open \in Seq(Frame), open' = stack,
         \A i \in 1 .. Len(open) :
           IF i <= Len(stack)
           THEN \/ Like(stack[i], open[i])
                \/ stack[i].kind # "block" /\ open[i].kind # "block"
           ELSE open[i].kind # "block",
         \A i \in 1 .. Len(stack) : i > Len(open) => stack[i].kind # "block"
  PROVE  SameBlocks
<1> SUFFICES ASSUME NEW i \in Nat
             PROVE  /\ BlockAt(i)' <=> BlockAt(i)
                    /\ BlockAt(i) => open'[i].set = open[i].set
  BY DEF SameBlocks
<1>1. Len(stack) \in Nat /\ Len(open) \in Nat OBVIOUS
<1>2. CASE i \in 1 .. Len(open)
  BY <1>1, <1>2 DEF BlockAt, Like
<1>3. CASE i \notin 1 .. Len(open)
  BY <1>1, <1>3 DEF BlockAt
<1> QED BY <1>2, <1>3

\* Only `due` of the innermost frame changes.
LEMMA TopStays ==
  ASSUME Types, open' \in Seq(Frame), Len(open') = Len(open),
         \A i \in 1 .. Len(open) : Like(open'[i], open[i])
  PROVE  /\ SameBlocks
         /\ Len(open') <= MaxNesting \/ MaxNesting = 0
         /\ Cardinality(Holders(open')) = Cardinality(Holders(open))
         /\ \A i \in 1 .. Len(open') : i <= Len(open) /\ Like(open'[i], open[i])
<1>1. Len(open) \in Nat /\ open \in Seq(Frame) BY DEF Types
<1>2. SameBlocks BY <1>1, BlocksSame
<1>3. \A i \in 1 .. Len(open) : Waiting(open'[i]) <=> Waiting(open[i])
  BY DEF Like, Waiting
<1>4. Holders(open') = Holders(open) BY <1>3 DEF Holders
<1> QED BY <1>1, <1>2, <1>4 DEF Types

\* A statement begins.
LEMMA Entered ==
  ASSUME Types, NEW frame \in Frame, frame.kind # "block", Enter(frame, open)
  PROVE  /\ open' \in Seq(Frame) /\ SameBlocks
         /\ Len(open') <= MaxNesting \/ MaxNesting = 0
         /\ Cardinality(Holders(open'))
              = Cardinality(Holders(open)) + IF Waiting(frame) THEN 1 ELSE 0
         /\ Len(open') = Len(open) + 1 /\ open'[Len(open')] = frame
         /\ \A i \in 1 .. Len(open) : Like(open'[i], open[i])
<1>1. Len(open) \in Nat /\ open \in Seq(Frame) BY DEF Types
<1>2. /\ open' \in Seq(Frame) /\ Len(open') = Len(open) + 1
      /\ \A i \in 1 .. Len(open) : open'[i] = open[i]
      /\ open'[Len(open) + 1] = frame
  BY <1>1 DEF Enter
<1>3. \A i \in 1 .. Len(open) : Like(open'[i], open[i]) BY <1>2 DEF Like
<1>4. SameBlocks BY <1>1, <1>2, <1>3, BlocksSame
<1>5. Len(open') <= MaxNesting BY <1>1, <1>2, CodeGenAssumption DEF Enter
<1>6. Holders(open') = Holders(open) \cup IF Waiting(frame) THEN {Len(open) + 1} ELSE {}
  BY <1>1, <1>2 DEF Holders
<1>7. Len(open) + 1 \notin Holders(open) BY <1>1 DEF Holders
<1>8. IsFiniteSet(Holders(open)) /\ Cardinality(Holders(open)) \in Nat
  BY <1>1, HoldersFinite
<1>9. Cardinality(Holders(open'))
        = Cardinality(Holders(open)) + IF Waiting(frame) THEN 1 ELSE 0
  <2>1. CASE Waiting(frame) BY <2>1, <1>6, <1>7, <1>8, FS_AddElement
  <2>2. CASE ~Waiting(frame) BY <2>2, <1>6, <1>8
  <2> QED BY <2>1, <2>2
<1> QED BY <1>2, <1>3, <1>4, <1>5, <1>9

\* A structured statement ends, and with it the statement it was.
LEMMA Ended ==
  ASSUME Types, StackInv, Parsing, Top.kind # "block", open' = Closed
  PROVE  /\ open' \in Seq(Frame) /\ SameBlocks
         /\ Len(open') <= MaxNesting \/ MaxNesting = 0
         /\ Cardinality(Holders(open'))
              = Cardinality(Holders(open)) - IF Waiting(Top) THEN 1 ELSE 0
         /\ Len(open') = Len(open) - 1 /\ Len(open) > 1
         /\ \A i \in 1 .. Len(open') : Like(open'[i], open[i])
<1> DEFINE rest == SubSeq(open, 1, Len(open) - 1)
<1>1. Len(open) \in Nat /\ open \in Seq(Frame) BY DEF Types
<1>2. Len(open) > 1
  <2>1. PICK i \in 1 .. Len(open) : Innermost(i) BY DEF StackInv, Parsing
  <2>2. open[i].kind = "block" BY <2>1 DEF Innermost, BlockAt
  <2>3. i # Len(open) BY <2>2 DEF Top
  <2> QED BY <1>1, <2>3
<1>3. /\ rest \in Seq(Frame) /\ Len(rest) = Len(open) - 1
      /\ \A i \in 1 .. Len(open) - 1 : rest[i] = open[i]
  BY <1>1, <1>2, StackClosed
<1>4. open' = Done(rest) BY DEF Closed
<1> HIDE DEF rest
<1>5. /\ open' \in Seq(Frame) /\ Len(open') = Len(open) - 1
      /\ \A i \in 1 .. Len(open') : Like(open'[i], rest[i])
  BY <1>1, <1>2, <1>3, <1>4, StackDone
<1>6. \A i \in 1 .. Len(open') : Like(open'[i], open[i]) BY <1>3, <1>5
<1>7. SameBlocks
  <2>1. open[Len(open)].kind # "block" BY DEF Top
  <2>2. \A i \in 1 .. Len(open) : i <= Len(open') \/ i = Len(open) BY <1>1, <1>5
  <2>3. \A i \in 1 .. Len(open') : i <= Len(open) BY <1>1, <1>5
  <2>4. \A i \in 1 .. Len(open) : i <= Len(open') => i \in 1 .. Len(open')
    BY <1>1, <1>5
  <2> QED BY <1>1, <1>5, <1>6, <2>1, <2>2, <2>3, <2>4, BlocksSame
<1>8. Len(open') <= MaxNesting \/ MaxNesting = 0
  BY <1>1, <1>5, CodeGenAssumption DEF Types
<1>9. \A i \in 1 .. Len(open') : Waiting(open'[i]) <=> Waiting(open[i])
  BY <1>6 DEF Like, Waiting
<1>10. Holders(open') = Holders(open) \ {Len(open)} BY <1>1, <1>2, <1>5, <1>9 DEF Holders
<1>11. Len(open) \in Holders(open) <=> Waiting(Top) BY <1>1, <1>2 DEF Holders, Top
<1>12. IsFiniteSet(Holders(open)) /\ Cardinality(Holders(open)) \in Nat
  BY <1>1, HoldersFinite
<1>13. Cardinality(Holders(open'))
         = Cardinality(Holders(open)) - IF Waiting(Top) THEN 1 ELSE 0
  <2>1. CASE Waiting(Top) BY <2>1, <1>10, <1>11, <1>12, FS_RemoveElement
  <2>2. CASE ~Waiting(Top)
    <3>1. Holders(open') = Holders(open) BY <2>2, <1>10, <1>11
    <3> QED BY <2>2, <3>1, <1>12
  <2> QED BY <2>1, <2>2
<1> QED BY <1>2, <1>5, <1>6, <1>7, <1>8, <1>13

-----------------------------------------------------------------------------
(* The steps of statements.                                                *)

\* Code appended to that of the current procedure.
LEMMA Extended ==
  ASSUME Types, NEW code \in Seq(Instr)
  PROVE  LET new == Code(currentProcedure) \o code
         IN  /\ Here \in Nat /\ Here = Len(Code(currentProcedure))
             /\ new \in Seq(Instr) /\ Len(new) = Here + Len(code) /\ Len(new) >= Here
             /\ \A k \in 1 .. Here : new[k] = Code(currentProcedure)[k]
             /\ \A k \in 1 .. Len(new) : k > Here =>
                  k - Here \in 1 .. Len(code) /\ new[k] = code[k - Here]
<1>1. Code(currentProcedure) \in Seq(Instr) BY DEF Types, Code, Owners
<1>2. Here = Len(Code(currentProcedure)) BY DEF Here, getCodeLength
<1> QED BY <1>1, <1>2

\* The current code with one more instruction at its end.
LEMMA Appended ==
  ASSUME Types, NEW ins \in Instr
  PROVE  /\ Here \in Nat /\ Here = Len(Code(currentProcedure))
         /\ Append1(ins) \in Seq(Instr) /\ Len(Append1(ins)) = Here + 1
         /\ \A k \in 1 .. Here : Append1(ins)[k] = Code(currentProcedure)[k]
         /\ Append1(ins)[Here + 1] = ins
<1>1. Code(currentProcedure) \in Seq(Instr) BY DEF Types, Code, Owners
<1>2. Here = Len(Code(currentProcedure)) BY DEF Here, getCodeLength
<1> QED BY <1>1, <1>2 DEF Append1

\* What the code of the current procedure is known to hold.
LEMMA CurrentCode ==
  ASSUME Inv, phase = "parse"
  PROVE  /\ Here \in Nat /\ Here = Len(Code(currentProcedure))
         /\ Code(currentProcedure) \in Seq(Instr)
         /\ currentProcedure \in Sets =>
              /\ Code(currentProcedure) = generatedCode[currentProcedure]
              /\ \A k \in 1 .. Here : Code(currentProcedure)[k].op = "CAL" =>
                   Code(currentProcedure)[k].m \in 1 .. Len(procLevel)
              /\ \A g \in goals[currentProcedure] : g[1] \in 1 .. Here
<1>1. Code(currentProcedure) \in Seq(Instr) BY DEF Inv, Types, Code, Owners
<1>2. Here = Len(Code(currentProcedure)) /\ Here \in Nat
  BY <1>1 DEF Here, getCodeLength
<1>3. ASSUME currentProcedure \in Sets
      PROVE  /\ Code(currentProcedure) = generatedCode[currentProcedure]
             /\ \A k \in 1 .. Here : Code(currentProcedure)[k].op = "CAL" =>
                  Code(currentProcedure)[k].m \in 1 .. Len(procLevel)
             /\ \A g \in goals[currentProcedure] : g[1] \in 1 .. Here
  <2>1. Code(currentProcedure) = generatedCode[currentProcedure]
    BY <1>3 DEF Sets, FINAL_CODE, Code
  <2>2. Offset(currentProcedure) = 0 BY CurrentIsOpen DEF Inv, Offset
  <2>3. \A g \in goals[currentProcedure] : g[1] \in 1 .. Here
    BY <1>2, <1>3, <2>1, <2>2 DEF Inv, GoalsInv
  <2> QED BY <1>2, <1>3, <2>1, <2>3 DEF Inv, CallsInv
<1> QED BY <1>1, <1>2, <1>3

\* register_ptr and globalLevel are the numbers they should be.
LEMMA Numbers ==
  ASSUME Inv
  PROVE  /\ register_ptr \in Nat /\ register_ptr = Cardinality(Holders(open))
         /\ globalLevel \in Nat \cup {-1} /\ (Parsing => globalLevel \in Nat)
<1>1. register_ptr = Cardinality(Holders(open)) BY HeldByHolders DEF Inv
<1>2. register_ptr \in Nat BY <1>1, HoldersFinite DEF Inv, Types
<1> DEFINE blocks == {i \in 1 .. Len(open) : open[i].kind = "block"}
<1>3. IsFiniteSet(blocks) /\ Cardinality(blocks) \in Nat
  <2>1. IsFiniteSet(1 .. Len(open)) BY FS_Interval
  <2>2. blocks \subseteq 1 .. Len(open) OBVIOUS
  <2> QED BY <2>1, <2>2, FS_Subset, FS_CardinalityType
<1>4. Parsing => Cardinality(blocks) # 0
  <2>1. Parsing => \E i \in 1 .. Len(open) : i \in blocks
    BY DEF Parsing, Inv, StackInv, Innermost, BlockAt
  <2> QED BY <1>3, <2>1, FS_EmptySet
<1>5. globalLevel = Cardinality(blocks) - 1 BY DEF globalLevel
<1> HIDE DEF blocks
<1> QED BY <1>1, <1>2, <1>3, <1>4, <1>5

\* Code that only grows, by instructions whose calls are in order.
LEMMA ExtensionFits ==
  ASSUME Inv, phase = "parse", NEW newCode \in Seq(Instr), Len(newCode) >= Here,
         \A k \in 1 .. Here : newCode[k] = Code(currentProcedure)[k],
         \A k \in 1 .. Len(newCode) :
           k > Here /\ newCode[k].op = "CAL" => newCode[k].m \in 1 .. Len(procLevel),
         goals' = goals
  PROVE  GoalsFit(newCode, Here, {}) /\ CallsFit(newCode)
<1>1. Patches(newCode, Here) BY DEF Patches
<1>2. GoalsFit(newCode, Here, {})
  <2>1. ASSUME currentProcedure \in Sets, NEW g \in goals[currentProcedure]
        PROVE  g[1] # Here + 1
    BY <2>1, CurrentCode
  <2> QED BY <1>1, <2>1 DEF GoalsFit
<1>3. CallsFit(newCode)
  <2> SUFFICES ASSUME currentProcedure \in Sets, NEW k \in 1 .. Len(newCode),
                      newCode[k].op = "CAL"
               PROVE  newCode[k].m \in 1 .. Len(procLevel)
    BY DEF CallsFit
  <2>0. k \in Nat /\ Here \in Nat BY CurrentCode
  <2>1. CASE k <= Here
    <3>1. k \in 1 .. Here BY <2>0, <2>1
    <3> QED BY <3>1, CurrentCode
  <2>2. CASE k > Here BY <2>2
  <2> QED BY <2>0, <2>1, <2>2
<1> QED BY <1>2, <1>3

\* A simple statement.
LEMMA SimpleKeeps == Inv /\ SimpleStatement => Inv'
<1> SUFFICES ASSUME Inv, SimpleStatement PROVE Inv' OBVIOUS
<1>1. Types /\ StackInv /\ phase = "parse" /\ open # << >>
  BY DEF Inv, SimpleStatement, StatementDue, Parsing
<1>2. PICK code \in Simple : Emit(Code(currentProcedure) \o code) BY DEF SimpleStatement
<1> DEFINE new == Code(currentProcedure) \o code
<1>3. code \in Seq(Instr) /\ \A k \in 1 .. Len(code) :
        code[k].op = "CAL" => code[k].m \in 1 .. Len(procLevel)
  <2>1. register_ptr \in Int /\ globalLevel \in Int BY Numbers
  <2>2. CASE code = << >> BY <2>2
  <2>3. ASSUME NEW a \in Instr, NEW b \in Instr, code = <<a, b>>,
               a.op # "CAL", b.op # "CAL"
        PROVE  code \in Seq(Instr) /\ \A k \in 1 .. Len(code) : code[k].op # "CAL"
    BY <2>3
  <2>4. CASE code = <<newInstruction("LIT", register_ptr, 0, 1),
                      newInstruction("STO", register_ptr, 0, 4)>>
    <3>1. /\ newInstruction("LIT", register_ptr, 0, 1) \in Instr
          /\ newInstruction("STO", register_ptr, 0, 4) \in Instr
      BY <2>1, Instruction DEF Ops
    <3>2. /\ newInstruction("LIT", register_ptr, 0, 1).op # "CAL"
          /\ newInstruction("STO", register_ptr, 0, 4).op # "CAL"
      BY DEF newInstruction
    <3> QED BY <2>3, <2>4, <3>1, <3>2
  <2>5. CASE code = <<newInstruction("SIO", register_ptr, 0, 2),
                      newInstruction("STO", register_ptr, 0, 4)>>
    <3>1. /\ newInstruction("SIO", register_ptr, 0, 2) \in Instr
          /\ newInstruction("STO", register_ptr, 0, 4) \in Instr
      BY <2>1, Instruction DEF Ops
    <3>2. /\ newInstruction("SIO", register_ptr, 0, 2).op # "CAL"
          /\ newInstruction("STO", register_ptr, 0, 4).op # "CAL"
      BY DEF newInstruction
    <3> QED BY <2>3, <2>5, <3>1, <3>2
  <2>6. CASE code = <<newInstruction("LOD", register_ptr, 0, 4),
                      newInstruction("SIO", register_ptr, 0, 1)>>
    <3>1. /\ newInstruction("LOD", register_ptr, 0, 4) \in Instr
          /\ newInstruction("SIO", register_ptr, 0, 1) \in Instr
      BY <2>1, Instruction DEF Ops
    <3>2. /\ newInstruction("LOD", register_ptr, 0, 4).op # "CAL"
          /\ newInstruction("SIO", register_ptr, 0, 1).op # "CAL"
      BY DEF newInstruction
    <3> QED BY <2>3, <2>6, <3>1, <3>2
  <2>7. ASSUME NEW p \in Callable,
               code = <<newInstruction("CAL", 0, globalLevel - procLevel[p], p)>>
        PROVE  code \in Seq(Instr) /\ \A k \in 1 .. Len(code) :
                 code[k].op = "CAL" => code[k].m \in 1 .. Len(procLevel)
    <3>1. p \in 1 .. Len(procLevel) /\ procLevel[p] \in Nat /\ p \in Int
      BY <1>1 DEF Callable, Types
    <3>2. newInstruction("CAL", 0, globalLevel - procLevel[p], p) \in Instr
      BY <2>1, <3>1, Instruction DEF Ops
    <3>3. newInstruction("CAL", 0, globalLevel - procLevel[p], p).m = p
      BY DEF newInstruction
    <3> QED BY <2>7, <3>1, <3>2, <3>3
  <2> QED BY <2>2, <2>4, <2>5, <2>6, <2>7 DEF Simple
<1>4. /\ Here \in Nat /\ new \in Seq(Instr) /\ Len(new) >= Here
      /\ \A k \in 1 .. Here : new[k] = Code(currentProcedure)[k]
      /\ \A k \in 1 .. Len(new) : k > Here =>
           k - Here \in 1 .. Len(code) /\ new[k] = code[k - Here]
  BY <1>1, <1>3, Extended
<1>5. Emit(new) BY <1>2
<1> HIDE DEF new
<1>6. Writes(new) BY <1>1, <1>4, <1>5, EmitWrites
<1>7. /\ open' = Done(open) /\ statements' = statements + 1 /\ statements < MaxStatements
      /\ UNCHANGED <<currentProcedure, register_ptr, procLevel, phase, layout, goals>>
  BY DEF SimpleStatement, StatementDue
<1>8. open' \in Seq(Frame) /\ Len(open') = Len(open)
      /\ \A i \in 1 .. Len(open) : Like(open'[i], open[i])
  <2>1. open \in Seq(Frame) /\ Len(open) > 0 BY <1>1 DEF Types
  <2> QED BY <1>7, <2>1, StackDone
<1>9. /\ SameBlocks
      /\ Len(open') <= MaxNesting \/ MaxNesting = 0
      /\ Cardinality(Holders(open')) = Cardinality(Holders(open))
      /\ \A i \in 1 .. Len(open') : i <= Len(open) /\ Like(open'[i], open[i])
  BY <1>1, <1>8, TopStays
<1>10. Within(new)
  BY <1>1, <1>6, <1>7, <1>8, <1>9, CodeGenAssumption DEF Within, Types
<1>11. RegistersHeld'
  <2>1. register_ptr' = Cardinality(Holders(open'))
    BY <1>7, <1>9, Numbers
  <2> QED BY <2>1 DEF RegistersHeld, Holders, Waiting
<1>12. GoalsFit(new, Here, {}) /\ CallsFit(new)
  <2>1. ASSUME NEW k \in 1 .. Len(new), k > Here, new[k].op = "CAL"
        PROVE  new[k].m \in 1 .. Len(procLevel)
    BY <1>3, <1>4, <2>1
  <2> QED BY <1>1, <1>4, <1>7, <2>1, ExtensionFits
<1>13. FramesFit(new, {}) BY <1>9 DEF FramesFit
<1> QED BY <1>10, <1>11, <1>12, <1>13, StepWithin

\* begin, and the statements in it.
LEMMA BeginKeeps == Inv /\ Begin => Inv'
<1> SUFFICES ASSUME Inv, Begin PROVE Inv' OBVIOUS
<1> DEFINE frame == [kind |-> "begin", due |-> TRUE]
           code == Code(currentProcedure)
<1>1. Types /\ StackInv /\ phase = "parse" BY DEF Inv, Begin, StatementDue, Parsing
<1>2. frame \in Frame /\ frame.kind # "block" /\ ~Waiting(frame) BY DEF Frame, Waiting
<1>3. Enter(frame, open) BY DEF Begin
<1>4. /\ statements' = statements + 1 /\ statements < MaxStatements
      /\ UNCHANGED <<generatedCode, finalCode, currentProcedure, register_ptr,
                     procLevel, phase, layout, tags, finalTags, goals>>
  BY DEF Begin, StatementDue, history
<1> HIDE DEF frame
<1>5. /\ open' \in Seq(Frame) /\ SameBlocks
      /\ Len(open') <= MaxNesting \/ MaxNesting = 0
      /\ Cardinality(Holders(open')) = Cardinality(Holders(open)) + 0
      /\ Len(open') = Len(open) + 1 /\ open'[Len(open')] = frame
      /\ \A i \in 1 .. Len(open) : Like(open'[i], open[i])
  BY <1>1, <1>2, <1>3, Entered
<1>6. Writes(code) BY <1>1, <1>4, NothingWritten
<1>7. Within(code)
  BY <1>1, <1>4, <1>5, <1>6, CodeGenAssumption DEF Within, Types
<1>8. RegistersHeld'
  <2>1. register_ptr' = Cardinality(Holders(open')) BY <1>4, <1>5, Numbers
  <2> QED BY <2>1 DEF RegistersHeld, Holders, Waiting
<1>9. GoalsFit(code, Here, {}) /\ CallsFit(code)
  BY <1>1, <1>4, CurrentCode, ExtensionFits
<1>10. FramesFit(code, {})
  <2>1. \A i \in 1 .. Len(open') : Waiting(open'[i]) => i \in 1 .. Len(open)
    BY <1>1, <1>2, <1>5 DEF Types
  <2> QED BY <1>5, <2>1 DEF FramesFit
<1> QED BY <1>7, <1>8, <1>9, <1>10, StepWithin

\* The semicolon between two statements of begin .. end.
LEMMA SemicolonKeeps == Inv /\ Semicolon => Inv'
<1> SUFFICES ASSUME Inv, Semicolon PROVE Inv' OBVIOUS
<1> DEFINE code == Code(currentProcedure)
           n == Len(open)
           top == [open[n] EXCEPT !.due = TRUE]
<1>1. Types /\ StackInv /\ phase = "parse" /\ open # << >>
  BY DEF Inv, Semicolon, Parsing
<1>2. /\ open' = [open EXCEPT ![n] = top]
      /\ UNCHANGED <<generatedCode, finalCode, currentProcedure, register_ptr,
                     procLevel, statements, phase, layout, tags, finalTags, goals>>
  BY DEF Semicolon, history
<1>3. n \in 1 .. n /\ open \in Seq(Frame) /\ open[n] \in Frame BY <1>1 DEF Types
<1>4. top \in Frame /\ Like(top, open[n]) BY <1>3, FrameDone
<1> HIDE DEF top
<1>5. open' \in Seq(Frame) /\ Len(open') = Len(open)
      /\ \A i \in 1 .. n : open'[i] = IF i = n THEN top ELSE open[i]
  BY <1>2, <1>3, <1>4
<1>6. \A i \in 1 .. Len(open) : Like(open'[i], open[i])
  <2>1. \A f : Like(f, f) BY DEF Like
  <2> QED BY <1>4, <1>5, <2>1
<1>7. /\ SameBlocks
      /\ Len(open') <= MaxNesting \/ MaxNesting = 0
      /\ Cardinality(Holders(open')) = Cardinality(Holders(open))
      /\ \A i \in 1 .. Len(open') : i <= Len(open) /\ Like(open'[i], open[i])
  BY <1>1, <1>5, <1>6, TopStays
<1>8. Writes(code) BY <1>1, <1>2, NothingWritten
<1>9. Within(code) BY <1>1, <1>2, <1>5, <1>7, <1>8 DEF Within, Types
<1>10. RegistersHeld'
  <2>1. register_ptr' = Cardinality(Holders(open')) BY <1>2, <1>7, Numbers
  <2> QED BY <2>1 DEF RegistersHeld, Holders, Waiting
<1>11. GoalsFit(code, Here, {}) /\ CallsFit(code)
  BY <1>1, <1>2, CurrentCode, ExtensionFits
<1>12. FramesFit(code, {}) BY <1>7 DEF FramesFit
<1> QED BY <1>9, <1>10, <1>11, <1>12, StepWithin

\* The end of begin .. end, with its return.
LEMMA EndKeeps == Inv /\ End => Inv'
<1> SUFFICES ASSUME Inv, End PROVE Inv' OBVIOUS
<1> DEFINE ins == newInstruction("RTN", 0, 0, 0)
           code == IF currentProcedure > 0 THEN Append1(ins) ELSE Code(currentProcedure)
<1>1. /\ Types /\ StackInv /\ phase = "parse" /\ Parsing
      /\ Top.kind # "block" /\ ~Waiting(Top)
  BY DEF Inv, End, Parsing, Waiting
<1>2. /\ Emit(code) /\ open' = Closed
      /\ UNCHANGED <<currentProcedure, register_ptr, procLevel, statements, phase,
                     layout, goals>>
  BY DEF End
<1>3. ins \in Instr /\ ins.op # "CAL"
  <2>1. ins.op = "RTN" BY DEF newInstruction
  <2> QED BY <2>1, Instruction DEF Ops
<1> HIDE DEF ins
<1>4. /\ Here \in Nat /\ code \in Seq(Instr) /\ Len(code) >= Here
      /\ \A k \in 1 .. Here : code[k] = Code(currentProcedure)[k]
      /\ \A k \in 1 .. Len(code) : k > Here => code[k] = ins
  <2>1. CASE currentProcedure > 0 BY <1>1, <1>3, <2>1, Appended
  <2>2. CASE ~(currentProcedure > 0) BY <1>1, <2>2, CurrentCode
  <2> QED BY <2>1, <2>2
<1> HIDE DEF code
<1>5. Writes(code) BY <1>1, <1>2, <1>4, EmitWrites
<1>6. /\ open' \in Seq(Frame) /\ SameBlocks
      /\ Len(open') <= MaxNesting \/ MaxNesting = 0
      /\ Cardinality(Holders(open')) = Cardinality(Holders(open)) - 0
      /\ Len(open') = Len(open) - 1 /\ Len(open) > 1
      /\ \A i \in 1 .. Len(open') : Like(open'[i], open[i])
  BY <1>1, <1>2, Ended
<1>7. Within(code) BY <1>1, <1>2, <1>5, <1>6 DEF Within, Types
<1>8. RegistersHeld'
  <2>1. register_ptr' = Cardinality(Holders(open')) BY <1>2, <1>6, Numbers
  <2> QED BY <2>1 DEF RegistersHeld, Holders, Waiting
<1>9. GoalsFit(code, Here, {}) /\ CallsFit(code)
  BY <1>1, <1>2, <1>3, <1>4, ExtensionFits
<1>10. FramesFit(code, {})
  <2>1. \A i \in 1 .. Len(open') : i <= Len(open) BY <1>1, <1>6 DEF Types
  <2> QED BY <1>6, <2>1 DEF FramesFit
<1> QED BY <1>7, <1>8, <1>9, <1>10, StepWithin

\* if and while open with a condition, whose register stays taken and whose
\* jump waits.
LEMMA ConditionKeeps ==
  ASSUME Inv, phase = "parse", statements < MaxStatements,
         NEW frame \in Frame, frame.kind \in {"then", "while"}, frame.j1 = Here + 2,
         frame.kind = "while" => frame.c = Here,
         Emit(Code(currentProcedure) \o Condition), Enter(frame, open),
         register_ptr' = register_ptr + 1, statements' = statements + 1,
         UNCHANGED <<currentProcedure, procLevel, phase, layout, goals>>
  PROVE  Inv'
<1> DEFINE i1 == newInstruction("LIT", register_ptr, 0, 0)
           i2 == newInstruction("ODD", register_ptr, register_ptr, register_ptr)
           i3 == newInstruction("JPC", register_ptr, 0, 0)
           code == Code(currentProcedure) \o Condition
<1>1. Types /\ StackInv BY DEF Inv
<1>2. register_ptr \in Nat BY Numbers
<1>3. i1 \in Instr /\ i2 \in Instr /\ i3 \in Instr BY <1>2, Instruction DEF Ops
<1>4. i1.op # "CAL" /\ i2.op # "CAL" /\ i3.op = "JPC" BY DEF newInstruction
<1>5. Condition = <<i1, i2, i3>> BY DEF Condition
<1> HIDE DEF i1, i2, i3
<1>6. /\ Condition \in Seq(Instr) /\ Len(Condition) = 3 /\ Condition[3] = i3
      /\ \A k \in 1 .. Len(Condition) : Condition[k].op # "CAL"
  BY <1>3, <1>4, <1>5
<1>7. /\ Here \in Nat /\ code \in Seq(Instr) /\ Len(code) = Here + 3 /\ Len(code) >= Here
      /\ \A k \in 1 .. Here : code[k] = Code(currentProcedure)[k]
      /\ \A k \in 1 .. Len(code) : k > Here =>
           k - Here \in 1 .. Len(Condition) /\ code[k] = Condition[k - Here]
  BY <1>1, <1>6, Extended
<1> HIDE DEF code
<1>8. code[Here + 3].op \in Jumps
  <2>1. Here + 3 \in 1 .. Len(code) /\ Here + 3 > Here BY <1>7
  <2>2. code[Here + 3] = Condition[Here + 3 - Here] BY <1>7, <2>1
  <2>3. Here + 3 - Here = 3 BY <1>7
  <2> QED BY <1>4, <1>6, <2>2, <2>3 DEF Jumps
<1>9. Writes(code) BY <1>1, <1>7, EmitWrites DEF code
<1>10. Waiting(frame) /\ frame.kind # "block" /\ Cell(frame) = Here + 2
  BY DEF Waiting, Cell
<1>11. /\ open' \in Seq(Frame) /\ SameBlocks
       /\ Len(open') <= MaxNesting \/ MaxNesting = 0
       /\ Cardinality(Holders(open')) = Cardinality(Holders(open)) + 1
       /\ Len(open') = Len(open) + 1 /\ open'[Len(open')] = frame
       /\ \A i \in 1 .. Len(open) : Like(open'[i], open[i])
  BY <1>1, <1>10, Entered
<1>12. Within(code) BY <1>1, <1>9, <1>11, CodeGenAssumption DEF Within, Types
<1>13. RegistersHeld'
  <2>1. register_ptr' = Cardinality(Holders(open')) BY <1>11, Numbers
  <2> QED BY <2>1 DEF RegistersHeld, Holders, Waiting
<1>14. GoalsFit(code, Here, {}) /\ CallsFit(code)
  BY <1>1, <1>6, <1>7, ExtensionFits
<1>15. FramesFit(code, {})
  <2> SUFFICES ASSUME NEW i \in 1 .. Len(open'), Waiting(open'[i])
               PROVE  \/ i <= Len(open) /\ Like(open'[i], open[i])
                      \/ /\ i = Len(open')
                         /\ Cell(open'[i]) + 1 \in Here + 1 .. Len(code)
                         /\ code[Cell(open'[i]) + 1].op \in Jumps
                         /\ open'[i].kind = "while" => open'[i].c <= Cell(open'[i])
    BY DEF FramesFit
  <2>1. Len(open) \in Nat BY <1>1 DEF Types
  <2>2. CASE i <= Len(open) BY <1>11, <2>1, <2>2
  <2>3. CASE i = Len(open')
    <3>1. open'[i] = frame /\ Cell(frame) + 1 = Here + 3 BY <1>7, <1>10, <1>11, <2>3
    <3> QED BY <1>7, <1>8, <1>10, <2>3, <3>1
  <2> QED BY <1>11, <2>1, <2>2, <2>3
<1> QED BY <1>12, <1>13, <1>14, <1>15, StepWithin

\* The condition of an if statement.
LEMMA IfKeeps == Inv /\ If => Inv'
<1> SUFFICES ASSUME Inv, If PROVE Inv' OBVIOUS
<1> DEFINE frame == [kind |-> "then", due |-> TRUE, j1 |-> Here + 2]
<1>1. phase = "parse" /\ statements < MaxStatements BY DEF If, StatementDue, Parsing
<1>2. Here \in Nat BY <1>1, CurrentCode
<1>3. frame \in Frame BY <1>2 DEF Frame
<1> QED BY <1>1, <1>3, ConditionKeeps DEF If

\* The condition of a while statement.
LEMMA WhileKeeps == Inv /\ While => Inv'
<1> SUFFICES ASSUME Inv, While PROVE Inv' OBVIOUS
<1> DEFINE frame == [kind |-> "while", due |-> TRUE, c |-> Here, j1 |-> Here + 2]
<1>1. phase = "parse" /\ statements < MaxStatements BY DEF While, StatementDue, Parsing
<1>2. Here \in Nat BY <1>1, CurrentCode
<1>3. frame \in Frame BY <1>2 DEF Frame
<1> QED BY <1>1, <1>3, ConditionKeeps DEF While

\* The innermost statement waits for a goal: its jump is in the code, is a
\* jump, and is nobody else's.
LEMMA TopWaits ==
  ASSUME Inv, Parsing, Waiting(Top)
  PROVE  /\ Len(open) \in 1 .. Len(open) /\ Top \in Frame /\ Cell(Top) \in Nat
         /\ currentProcedure \in Sets =>
              /\ Cell(Top) + 1 \in 1 .. Here
              /\ Code(currentProcedure)[Cell(Top) + 1].op \in Jumps
              /\ Top.kind = "while" => Top.c \in Nat /\ Top.c <= Cell(Top)
              /\ \A g \in goals[currentProcedure] : g[1] # Cell(Top) + 1
              /\ \A i \in 1 .. Len(open) - 1 :
                   Waiting(open[i]) => Cell(open[i]) # Cell(Top)
              /\ \A i \in 1 .. Len(open) : Waiting(open[i]) => Cell(open[i]) < Here
<1>1. open \in Seq(Frame) /\ Len(open) \in Nat /\ open # << >> BY DEF Inv, Types, Parsing
<1>2. Len(open) \in 1 .. Len(open) /\ Top \in Frame BY <1>1 DEF Top
<1>3. \A f \in Frame : Waiting(f) => Cell(f) \in Nat BY DEF Frame, Waiting, Cell
<1>4. Top.kind = "while" => Top.c \in Nat BY <1>2 DEF Frame
<1>5. ASSUME currentProcedure \in Sets
      PROVE  /\ Cell(Top) + 1 \in 1 .. Here
             /\ Code(currentProcedure)[Cell(Top) + 1].op \in Jumps
             /\ Top.kind = "while" => Top.c <= Cell(Top)
             /\ \A g \in goals[currentProcedure] : g[1] # Cell(Top) + 1
             /\ \A i \in 1 .. Len(open) - 1 :
                  Waiting(open[i]) => Cell(open[i]) # Cell(Top)
             /\ \A i \in 1 .. Len(open) : Waiting(open[i]) => Cell(open[i]) < Here
  <2>1. /\ Code(currentProcedure) = generatedCode[currentProcedure]
        /\ Here = Len(generatedCode[currentProcedure]) /\ Here \in Nat
    BY <1>5, CurrentCode DEF Parsing
  <2>2. \A i \in 1 .. Len(open) : Waiting(open[i]) => Cell(open[i]) < Here
    <3> SUFFICES ASSUME NEW i \in 1 .. Len(open), Waiting(open[i])
                 PROVE  Cell(open[i]) < Here
      OBVIOUS
    <3>1. Cell(open[i]) \in Nat BY <1>1, <1>3
    <3>2. Cell(open[i]) + 1 \in 1 .. Here BY <1>5, <2>1 DEF Inv, CellsInv
    <3> QED BY <2>1, <3>1, <3>2
  <2>3. /\ Cell(Top) + 1 \in 1 .. Here
        /\ Code(currentProcedure)[Cell(Top) + 1].op \in Jumps
        /\ Top.kind = "while" => Top.c <= Cell(Top)
        /\ \A g \in goals[currentProcedure] : g[1] # Cell(Top) + 1
    BY <1>2, <1>5, <2>1 DEF Inv, CellsInv, Top
  <2>4. \A i \in 1 .. Len(open) - 1 : Waiting(open[i]) => Cell(open[i]) # Cell(Top)
    <3>1. \A i \in 1 .. Len(open) - 1 : i \in 1 .. Len(open) /\ Len(open) \in i + 1 .. Len(open)
      BY <1>1
    <3> QED BY <1>5, <3>1 DEF Inv, CellsInv, Top
  <2> QED BY <2>2, <2>3, <2>4
<1> QED BY <1>2, <1>3, <1>4, <1>5

\* The goals after Aim.
LEMMA Aimed ==
  ASSUME Types, NEW pairs \in SUBSET (Nat \X Nat), Aim(pairs)
  PROVE  /\ goals' \in [Sets -> SUBSET (Nat \X Nat)]
         /\ \A s \in Sets : s # currentProcedure => goals'[s] = goals[s]
         /\ currentProcedure \in Sets =>
              goals'[currentProcedure]
                = goals[currentProcedure] \cup {<<p[1] + 1, p[2] + 1>> : p \in pairs}
<1> DEFINE new == {<<p[1] + 1, p[2] + 1>> : p \in pairs}
<1>1. new \subseteq Nat \X Nat OBVIOUS
<1> HIDE DEF new
<1>2. CASE currentProcedure = FINAL_CODE
  <2>1. goals' = goals /\ currentProcedure \notin Sets
    BY <1>2 DEF Aim, Sets, FINAL_CODE
  <2> QED BY <2>1 DEF Types
<1>3. CASE currentProcedure # FINAL_CODE
  <2>1. goals' = [goals EXCEPT ![currentProcedure] = goals[currentProcedure] \cup new]
    BY <1>3 DEF Aim, new
  <2>2. currentProcedure \in Sets BY <1>3 DEF Types, Owners
  <2>3. goals[currentProcedure] \cup new \in SUBSET (Nat \X Nat)
    BY <1>1, <2>2 DEF Types
  <2>4. goals'[currentProcedure] = goals[currentProcedure] \cup new
    BY <2>1, <2>2 DEF Types
  <2> QED BY <2>1, <2>2, <2>3, <2>4 DEF Types, new
<1> QED BY <1>2, <1>3

\* The jump of the innermost statement is patched to the instruction `to`,
\* after at most one instruction was appended.
LEMMA PatchFits ==
  ASSUME Inv, Parsing, Waiting(Top), currentProcedure \in Sets,
         NEW code \in Seq(Instr), Len(code) \in {Here, Here + 1},
         \A k \in 1 .. Here : code[k] = Code(currentProcedure)[k],
         Len(code) = Here + 1 => code[Here + 1].op = "JMP",
         NEW to \in 0 .. Len(code),
         NEW newCode, newCode = changeM(code, Cell(Top), to)
  PROVE  /\ Patches(newCode, Cell(Top)) /\ CallsFit(newCode)
         /\ \A g \in goals[currentProcedure] : g[1] # Cell(Top) + 1
         /\ Cell(Top) + 1 \in 1 .. Len(newCode) /\ to + 1 \in 1 .. Len(newCode) + 1
         /\ newCode[Cell(Top) + 1].op \in Jumps /\ newCode[Cell(Top) + 1].m = to
         /\ Len(newCode) = Len(code)
         /\ Len(code) = Here + 1 => newCode[Here + 1] = code[Here + 1]
<1>1. /\ Here \in Nat /\ Cell(Top) \in Nat /\ Cell(Top) + 1 \in 1 .. Here
      /\ Code(currentProcedure)[Cell(Top) + 1].op \in Jumps
      /\ \A g \in goals[currentProcedure] : g[1] # Cell(Top) + 1
  BY TopWaits, CurrentCode DEF Parsing
<1>2. Len(code) \in Nat /\ Len(code) >= Here /\ to \in Int BY <1>1
<1>3. /\ newCode \in Seq(Instr) /\ Len(newCode) = Len(code)
      /\ \A k \in 1 .. Len(code) :
           IF k = Cell(Top) + 1
           THEN newCode[k].op = code[k].op /\ newCode[k].m = to
           ELSE newCode[k] = code[k]
  BY <1>1, <1>2, Patched
<1>4. Cell(Top) + 1 \in 1 .. Len(code) /\ \A k \in 1 .. Here : k \in 1 .. Len(code)
  BY <1>1, <1>2
<1>5. Patches(newCode, Cell(Top)) BY <1>3, <1>4 DEF Patches
<1>6. newCode[Cell(Top) + 1].op \in Jumps /\ newCode[Cell(Top) + 1].m = to
  BY <1>1, <1>3, <1>4
<1>7. Len(code) = Here + 1 => newCode[Here + 1] = code[Here + 1]
  BY <1>1, <1>2, <1>3
<1>8. CallsFit(newCode)
  <2> SUFFICES ASSUME NEW k \in 1 .. Len(newCode), newCode[k].op = "CAL"
               PROVE  newCode[k].m \in 1 .. Len(procLevel)
    BY DEF CallsFit
  <2>1. k # Cell(Top) + 1 BY <1>6 DEF Jumps
  <2>2. newCode[k] = code[k] BY <1>3, <2>1
  <2>3. k \in 1 .. Here \/ (k = Here + 1 /\ Len(code) = Here + 1) BY <1>1, <1>2, <1>3
  <2>4. k \in 1 .. Here BY <2>2, <2>3
  <2> QED BY <2>2, <2>4, CurrentCode DEF Parsing
<1> QED BY <1>1, <1>2, <1>3, <1>4, <1>5, <1>6, <1>7, <1>8

\* The then part is over: its jump goes behind the jump over the else part,
\* which waits from now on.
LEMMA ElseKeeps == Inv /\ Else => Inv'
<1> SUFFICES ASSUME Inv, Else PROVE Inv' OBVIOUS
<1> DEFINE n == Len(open)
           ins == newInstruction("JMP", 0, 0, 0)
           old == Append1(ins)
           code == changeM(old, Cell(Top), Here + 1)
           new == {<<Cell(Top) + 1, Here + 2>>}
<1>1. /\ Types /\ StackInv /\ phase = "parse" /\ Parsing
      /\ Waiting(Top) /\ Top.kind = "then" /\ Cell(Top) = Top.j1
  BY DEF Inv, Else, Parsing, Waiting, Cell
<1>2. /\ Emit(code) /\ Aim({<<Cell(Top), Here + 1>>})
      /\ UNCHANGED <<currentProcedure, register_ptr, procLevel, statements, phase, layout>>
  BY <1>1 DEF Else
<1>3. ins \in Instr /\ ins.op = "JMP" BY Instruction DEF Ops, newInstruction
<1> HIDE DEF ins
<1>4. /\ Here \in Nat /\ old \in Seq(Instr) /\ Len(old) = Here + 1
      /\ \A k \in 1 .. Here : old[k] = Code(currentProcedure)[k]
      /\ old[Here + 1] = ins
  BY <1>1, <1>3, Appended
<1> HIDE DEF old
<1>5. n \in 1 .. n /\ Cell(Top) \in Nat BY <1>1, TopWaits
<1>6. code \in Seq(Instr) /\ Len(code) = Here + 1 /\ Len(code) >= Here
  BY <1>4, <1>5, Patched
<1> HIDE DEF code
<1>7. Writes(code) BY <1>1, <1>2, <1>6, EmitWrites
<1>8. /\ goals' \in [Sets -> SUBSET (Nat \X Nat)]
      /\ \A s \in Sets : s # currentProcedure => goals'[s] = goals[s]
      /\ currentProcedure \in Sets =>
           goals'[currentProcedure] = goals[currentProcedure] \cup new
  <2> DEFINE pairs == {<<Cell(Top), Here + 1>>}
  <2>1. pairs \in SUBSET (Nat \X Nat) BY <1>4, <1>5
  <2>2. {<<p[1] + 1, p[2] + 1>> : p \in pairs} = {<<Cell(Top) + 1, (Here + 1) + 1>>}
    OBVIOUS
  <2>3. {<<p[1] + 1, p[2] + 1>> : p \in pairs} = new BY <1>4, <2>2
  <2> HIDE DEF pairs, new
  <2>4. Aim(pairs) BY <1>2 DEF pairs
  <2> QED BY <1>1, <2>1, <2>3, <2>4, Aimed
<1>9. PICK due \in BOOLEAN :
        open' = [open EXCEPT ![n] = [kind |-> "else", due |-> due, j2 |-> Here]]
  BY DEF Else
<1> DEFINE frame == [kind |-> "else", due |-> due, j2 |-> Here]
<1>10. /\ frame \in Frame /\ Waiting(frame) /\ Cell(frame) = Here
       /\ frame.kind = "else"
  BY <1>4 DEF Frame, Waiting, Cell
<1> HIDE DEF frame
<1>11. /\ open' \in Seq(Frame) /\ Len(open') = n /\ n \in Nat
       /\ \A i \in 1 .. n : open'[i] = IF i = n THEN frame ELSE open[i]
  <2>1. open \in Seq(Frame) BY <1>1 DEF Types
  <2>2. open' = [open EXCEPT ![n] = frame] BY <1>9 DEF frame
  <2> QED BY <1>5, <1>10, <2>1, <2>2
<1>12. \A i \in 1 .. n - 1 : Like(open'[i], open[i])
  <2>1. \A f : Like(f, f) BY DEF Like
  <2> QED BY <1>11, <2>1
<1>13. open[n].kind = "then" /\ Waiting(open[n]) BY <1>1 DEF Top
<1>14. SameBlocks
  <2>1. open \in Seq(Frame) BY <1>1 DEF Types
  <2>2. \A i \in 1 .. Len(open) : i \in 1 .. n - 1 \/ i = n BY <1>11
  <2>3. \A i \in 1 .. Len(open) :
          \/ Like(open'[i], open[i])
          \/ open'[i].kind # "block" /\ open[i].kind # "block"
    BY <1>5, <1>10, <1>11, <1>12, <1>13, <2>2
  <2> QED BY <1>11, <2>1, <2>3, BlocksSame
<1>15. Within(code)
  BY <1>1, <1>2, <1>7, <1>8, <1>11, <1>14 DEF Within, Types
<1>16. RegistersHeld'
  <2>1. Holders(open') = Holders(open)
    <3>1. \A i \in 1 .. n : Waiting(open'[i]) <=> Waiting(open[i])
      BY <1>10, <1>11, <1>13
    <3> QED BY <1>11, <3>1 DEF Holders
  <2>2. register_ptr' = Cardinality(Holders(open')) BY <1>2, <2>1, Numbers
  <2> QED BY <2>2 DEF RegistersHeld, Holders, Waiting
<1>17. ASSUME currentProcedure \in Sets
       PROVE  /\ Patches(code, Cell(Top)) /\ CallsFit(code)
              /\ \A g \in goals[currentProcedure] : g[1] # Cell(Top) + 1
              /\ Cell(Top) + 1 \in 1 .. Len(code) /\ (Here + 1) + 1 \in 1 .. Len(code) + 1
              /\ code[Cell(Top) + 1].op \in Jumps /\ code[Cell(Top) + 1].m = Here + 1
              /\ code[Here + 1].op = "JMP"
  <2>1. Len(old) \in {Here, Here + 1} /\ Here + 1 \in 0 .. Len(old) BY <1>4
  <2>2. code = changeM(old, Cell(Top), Here + 1) BY DEF code
  <2> QED BY <1>1, <1>3, <1>4, <1>17, <2>1, <2>2, PatchFits
<1>18. GoalsFit(code, Cell(Top), new)
  <2> SUFFICES ASSUME currentProcedure \in Sets
               PROVE  GoalsFit(code, Cell(Top), new)
    BY DEF GoalsFit
  <2>1. Here + 2 = (Here + 1) + 1 /\ (Here + 2) - 1 = Here + 1 BY <1>4
  <2>2. \A g \in new : g[1] = Cell(Top) + 1 /\ g[2] = Here + 2 OBVIOUS
  <2> HIDE DEF new
  <2> QED BY <1>8, <1>17, <2>1, <2>2 DEF GoalsFit
<1>19. CallsFit(code) BY <1>17 DEF CallsFit
<1>20. currentProcedure \in Sets => FramesFit(code, new)
  <2> SUFFICES ASSUME currentProcedure \in Sets,
                      NEW i \in 1 .. Len(open'), Waiting(open'[i])
               PROVE  /\ \A g \in new : g[1] # Cell(open'[i]) + 1
                      /\ \/ i <= Len(open) /\ Like(open'[i], open[i])
                         \/ /\ i = Len(open')
                            /\ Cell(open'[i]) + 1 \in Here + 1 .. Len(code)
                            /\ code[Cell(open'[i]) + 1].op \in Jumps
                            /\ open'[i].kind = "while" => open'[i].c <= Cell(open'[i])
    BY DEF FramesFit
  <2>1. \A g \in new : g[1] = Cell(Top) + 1 OBVIOUS
  <2> HIDE DEF new
  <2>2. CASE i \in 1 .. n - 1
    <3>1. Like(open'[i], open[i]) /\ Cell(open'[i]) = Cell(open[i]) /\ Waiting(open[i])
      BY <1>11, <1>12, <2>2
    <3>2. Cell(open[i]) # Cell(Top) BY <1>1, <2>2, <3>1, TopWaits
    <3>3. Cell(open[i]) \in Nat
      <4>1. open[i] \in Frame BY <1>1, <1>11 DEF Types
      <4> QED BY <3>1, <4>1 DEF Frame, Waiting, Cell
    <3> QED BY <1>5, <1>11, <2>1, <2>2, <3>1, <3>2, <3>3
  <2>3. CASE i = n
    <3>1. open'[i] = frame /\ Cell(open'[i]) = Here BY <1>10, <1>11, <2>3
    <3>2. Cell(Top) + 1 \in 1 .. Here BY <1>1, TopWaits
    <3>3. code[Here + 1].op \in Jumps BY <1>17 DEF Jumps
    <3> QED BY <1>4, <1>5, <1>6, <1>10, <1>11, <2>1, <2>3, <3>1, <3>2, <3>3
  <2> QED BY <1>11, <2>2, <2>3
<1> QED BY <1>15, <1>16, <1>18, <1>19, <1>20, StepWithin

\* A statement with a condition ends: its register is free, and the frames
\* below it wait for other jumps than the ones that have their goals now.
LEMMA ConditionEnds ==
  ASSUME Inv, Parsing, Waiting(Top), open' = Closed, register_ptr' = Released,
         NEW newCode, NEW new,
         currentProcedure \in Sets =>
           \A g \in new : g[1] = Cell(Top) + 1 \/ g[1] = Here + 1
  PROVE  /\ open' \in Seq(Frame) /\ SameBlocks
         /\ Len(open') <= MaxNesting \/ MaxNesting = 0
         /\ RegistersHeld'
         /\ currentProcedure \in Sets => FramesFit(newCode, new)
<1>1. Types /\ StackInv BY DEF Inv
<1>2. Top.kind # "block" BY DEF Waiting
<1>3. /\ open' \in Seq(Frame) /\ SameBlocks
      /\ Len(open') <= MaxNesting \/ MaxNesting = 0
      /\ Cardinality(Holders(open')) = Cardinality(Holders(open)) - 1
      /\ Len(open') = Len(open) - 1 /\ Len(open) > 1
      /\ \A i \in 1 .. Len(open') : Like(open'[i], open[i])
  BY <1>1, <1>2, Ended
<1>4. RegistersHeld'
  <2>1. register_ptr' = Cardinality(Holders(open')) BY <1>3, Numbers DEF Released
  <2> QED BY <2>1 DEF RegistersHeld, Holders, Waiting
<1>5. ASSUME currentProcedure \in Sets, NEW i \in 1 .. Len(open'), Waiting(open'[i])
      PROVE  /\ \A g \in new : g[1] # Cell(open'[i]) + 1
             /\ i <= Len(open) /\ Like(open'[i], open[i])
  <2>1. Len(open) \in Nat /\ open \in Seq(Frame) BY <1>1 DEF Types
  <2>2. i \in 1 .. Len(open) - 1 /\ i \in 1 .. Len(open) BY <1>3, <2>1
  <2>3. Waiting(open[i]) /\ Cell(open'[i]) = Cell(open[i]) BY <1>3, <1>5 DEF Like, Waiting
  <2>4. Cell(open[i]) \in Nat
    <3>1. open[i] \in Frame BY <2>1, <2>2
    <3> QED BY <2>3, <3>1 DEF Frame, Waiting, Cell
  <2>5. Cell(open[i]) # Cell(Top) /\ Cell(open[i]) < Here /\ Cell(Top) \in Nat
    BY <1>5, <2>2, <2>3, TopWaits
  <2>6. Here \in Nat BY CurrentCode DEF Parsing
  <2> QED BY <1>3, <1>5, <2>2, <2>3, <2>4, <2>5, <2>6
<1> QED BY <1>3, <1>4, <1>5 DEF FramesFit

\* The end of an if statement.
LEMMA EndIfKeeps == Inv /\ EndIf => Inv'
<1> SUFFICES ASSUME Inv, EndIf PROVE Inv' OBVIOUS
<1> DEFINE old == Code(currentProcedure)
           code == changeM(old, Cell(Top), Here)
           new == {<<Cell(Top) + 1, Here + 1>>}
<1>1. /\ Types /\ StackInv /\ phase = "parse" /\ Parsing
      /\ Waiting(Top) /\ Cell(Top) = Top.j2
  BY DEF Inv, EndIf, Parsing, Waiting, Cell
<1>2. /\ Emit(code) /\ Aim({<<Cell(Top), Here>>})
      /\ register_ptr' = Released /\ open' = Closed
      /\ UNCHANGED <<currentProcedure, procLevel, statements, phase, layout>>
  BY <1>1 DEF EndIf
<1>3. Here \in Nat /\ old \in Seq(Instr) /\ Len(old) = Here BY <1>1, CurrentCode
<1>4. Cell(Top) \in Nat BY <1>1, TopWaits
<1>5. code \in Seq(Instr) /\ Len(code) = Here /\ Len(code) >= Here
  BY <1>3, <1>4, Patched
<1> HIDE DEF code
<1>6. Writes(code) BY <1>1, <1>2, <1>5, EmitWrites
<1>7. /\ goals' \in [Sets -> SUBSET (Nat \X Nat)]
      /\ \A s \in Sets : s # currentProcedure => goals'[s] = goals[s]
      /\ currentProcedure \in Sets =>
           goals'[currentProcedure] = goals[currentProcedure] \cup new
  <2> DEFINE pairs == {<<Cell(Top), Here>>}
  <2>1. pairs \in SUBSET (Nat \X Nat) BY <1>3, <1>4
  <2>2. {<<p[1] + 1, p[2] + 1>> : p \in pairs} = new OBVIOUS
  <2> HIDE DEF pairs, new
  <2>3. Aim(pairs) BY <1>2 DEF pairs
  <2> QED BY <1>1, <2>1, <2>2, <2>3, Aimed
<1>8. \A g \in new : g[1] = Cell(Top) + 1 /\ g[2] = Here + 1 OBVIOUS
<1> HIDE DEF new
<1>9. /\ open' \in Seq(Frame) /\ SameBlocks
      /\ Len(open') <= MaxNesting \/ MaxNesting = 0
      /\ RegistersHeld'
      /\ currentProcedure \in Sets => FramesFit(code, new)
  BY <1>1, <1>2, <1>8, ConditionEnds
<1>10. Within(code) BY <1>1, <1>2, <1>6, <1>7, <1>9 DEF Within, Types
<1>11. ASSUME currentProcedure \in Sets
       PROVE  GoalsFit(code, Cell(Top), new) /\ CallsFit(code)
  <2>1. code = changeM(old, Cell(Top), Here) /\ Here \in 0 .. Len(old)
        /\ Len(old) \in {Here, Here + 1} /\ Len(old) # Here + 1
    BY <1>3 DEF code
  <2>2. /\ Patches(code, Cell(Top)) /\ CallsFit(code)
        /\ \A g \in goals[currentProcedure] : g[1] # Cell(Top) + 1
        /\ Cell(Top) + 1 \in 1 .. Len(code) /\ Here + 1 \in 1 .. Len(code) + 1
        /\ code[Cell(Top) + 1].op \in Jumps /\ code[Cell(Top) + 1].m = Here
    BY <1>1, <1>3, <1>11, <2>1, PatchFits
  <2>4. \A g \in new :
          /\ g[1] \in 1 .. Len(code) /\ g[2] \in 1 .. Len(code) + 1
          /\ code[g[1]].op \in Jumps /\ code[g[1]].m = g[2] - 1
    <3>1. \A g \in new : g[2] - 1 = Here BY <1>3, <1>8
    <3>2. \A g \in new : g[1] = Cell(Top) + 1 /\ g[2] = Here + 1 BY <1>8
    <3> QED BY <2>2, <3>1, <3>2
  <2>5. GoalsFit(code, Cell(Top), new) BY <1>7, <2>2, <2>4 DEF GoalsFit
  <2> QED BY <2>2, <2>5
<1>12. GoalsFit(code, Cell(Top), new) /\ CallsFit(code)
  BY <1>11 DEF GoalsFit, CallsFit
<1> QED BY <1>9, <1>10, <1>12, StepWithin

\* The loop jumps back to its condition, and leaves behind that jump.
LEMMA EndWhileKeeps == Inv /\ EndWhile => Inv'
<1> SUFFICES ASSUME Inv, EndWhile PROVE Inv' OBVIOUS
<1> DEFINE ins == newInstruction("JMP", 0, 0, Top.c)
           old == Append1(ins)
           code == changeM(old, Cell(Top), Here + 1)
           new == {<<Cell(Top) + 1, Here + 2>>, <<Here + 1, Top.c + 1>>}
<1>1. /\ Types /\ StackInv /\ phase = "parse" /\ Parsing
      /\ Waiting(Top) /\ Top.kind = "while" /\ Cell(Top) = Top.j1
  BY DEF Inv, EndWhile, Parsing, Waiting, Cell
<1>2. /\ Emit(code) /\ Aim({<<Cell(Top), Here + 1>>, <<Here, Top.c>>})
      /\ register_ptr' = Released /\ open' = Closed
      /\ UNCHANGED <<currentProcedure, procLevel, statements, phase, layout>>
  BY <1>1 DEF EndWhile, LoopBack
<1>3. Cell(Top) \in Nat /\ Top.c \in Nat
  <2>1. Cell(Top) \in Nat /\ Top \in Frame BY <1>1, TopWaits
  <2> QED BY <1>1, <2>1 DEF Frame
<1>4. ins \in Instr /\ ins.op = "JMP" /\ ins.m = Top.c
  BY <1>3, Instruction DEF Ops, newInstruction
<1> HIDE DEF ins
<1>5. /\ Here \in Nat /\ old \in Seq(Instr) /\ Len(old) = Here + 1
      /\ \A k \in 1 .. Here : old[k] = Code(currentProcedure)[k]
      /\ old[Here + 1] = ins
  BY <1>1, <1>4, Appended
<1> HIDE DEF old
<1>6. code \in Seq(Instr) /\ Len(code) = Here + 1 /\ Len(code) >= Here
  BY <1>3, <1>5, Patched
<1> HIDE DEF code
<1>7. Writes(code) BY <1>1, <1>2, <1>6, EmitWrites
<1>8. /\ goals' \in [Sets -> SUBSET (Nat \X Nat)]
      /\ \A s \in Sets : s # currentProcedure => goals'[s] = goals[s]
      /\ currentProcedure \in Sets =>
           goals'[currentProcedure] = goals[currentProcedure] \cup new
  <2> DEFINE pairs == {<<Cell(Top), Here + 1>>, <<Here, Top.c>>}
  <2>1. pairs \in SUBSET (Nat \X Nat) BY <1>3, <1>5
  <2>2. {<<p[1] + 1, p[2] + 1>> : p \in pairs}
          = {<<Cell(Top) + 1, (Here + 1) + 1>>, <<Here + 1, Top.c + 1>>}
    OBVIOUS
  <2>3. {<<p[1] + 1, p[2] + 1>> : p \in pairs} = new
    <3>1. (Here + 1) + 1 = Here + 2 BY <1>5
    <3> QED BY <2>2, <3>1
  <2> HIDE DEF pairs, new
  <2>4. Aim(pairs) BY <1>2 DEF pairs
  <2> QED BY <1>1, <2>1, <2>3, <2>4, Aimed
<1>9. \A g \in new : \/ g[1] = Cell(Top) + 1 /\ g[2] = Here + 2
                     \/ g[1] = Here + 1 /\ g[2] = Top.c + 1
  OBVIOUS
<1> HIDE DEF new
<1>10. /\ open' \in Seq(Frame) /\ SameBlocks
       /\ Len(open') <= MaxNesting \/ MaxNesting = 0
       /\ RegistersHeld'
       /\ currentProcedure \in Sets => FramesFit(code, new)
  BY <1>1, <1>2, <1>9, ConditionEnds
<1>11. Within(code) BY <1>1, <1>2, <1>7, <1>8, <1>10 DEF Within, Types
<1>12. ASSUME currentProcedure \in Sets
       PROVE  GoalsFit(code, Cell(Top), new) /\ CallsFit(code)
  <2>1. /\ code = changeM(old, Cell(Top), Here + 1) /\ Here + 1 \in 0 .. Len(old)
        /\ Len(old) \in {Here, Here + 1}
    BY <1>5 DEF code
  <2>2. /\ Patches(code, Cell(Top)) /\ CallsFit(code)
        /\ \A g \in goals[currentProcedure] : g[1] # Cell(Top) + 1
        /\ Cell(Top) + 1 \in 1 .. Len(code) /\ (Here + 1) + 1 \in 1 .. Len(code) + 1
        /\ code[Cell(Top) + 1].op \in Jumps /\ code[Cell(Top) + 1].m = Here + 1
        /\ code[Here + 1] = ins
    BY <1>1, <1>4, <1>5, <1>12, <2>1, PatchFits
  <2>3. /\ Here + 2 = (Here + 1) + 1 /\ Here + 2 - 1 = Here + 1
        /\ Here + 1 \in 1 .. Len(code) /\ Top.c + 1 - 1 = Top.c
    BY <1>3, <1>5, <1>6
  <2>4. Top.c + 1 \in 1 .. Len(code) + 1
    <3>1. Top.c <= Cell(Top) /\ Cell(Top) + 1 \in 1 .. Here BY <1>1, <1>12, TopWaits
    <3> QED BY <1>3, <1>5, <1>6, <3>1
  <2>5. code[Here + 1].op \in Jumps /\ code[Here + 1].m = Top.c
    BY <1>4, <2>2 DEF Jumps
  <2>6. ASSUME NEW g \in new
        PROVE  /\ g[1] \in 1 .. Len(code) /\ g[2] \in 1 .. Len(code) + 1
               /\ code[g[1]].op \in Jumps /\ code[g[1]].m = g[2] - 1
    <3>1. CASE g[1] = Cell(Top) + 1 /\ g[2] = Here + 2
      <4>1. g[2] - 1 = Here + 1 /\ g[2] = (Here + 1) + 1 BY <1>5, <3>1
      <4> QED BY <2>2, <3>1, <4>1
    <3>2. CASE g[1] = Here + 1 /\ g[2] = Top.c + 1
      <4>1. g[2] - 1 = Top.c BY <1>3, <3>2
      <4> QED BY <2>3, <2>4, <2>5, <3>2, <4>1
    <3> QED BY <1>9, <3>1, <3>2
  <2>7. GoalsFit(code, Cell(Top), new) BY <1>8, <2>2, <2>6 DEF GoalsFit
  <2> QED BY <2>2, <2>7
<1>13. GoalsFit(code, Cell(Top), new) /\ CallsFit(code)
  BY <1>12 DEF GoalsFit, CallsFit
<1> QED BY <1>10, <1>11, <1>13, StepWithin

-----------------------------------------------------------------------------
(* Procedures.                                                             *)

\* The set that is handed out is the next one, while there is one.
LEMMA FreeSetIs ==
  ASSUME Types
  PROVE  /\ Len(procLevel) \in Nat
         /\ IF SomeEmpty THEN FreeSet = Len(procLevel) + 1 /\ FreeSet \in Sets
                         ELSE FreeSet = FINAL_CODE
<1> DEFINE free == {s \in Sets : s > Len(procLevel)}
<1>1. Len(procLevel) \in Nat BY DEF Types
<1>2. CASE SomeEmpty
  <2>1. Len(procLevel) + 1 \in free BY <1>1, <1>2, CodeGenAssumption DEF SomeEmpty, Sets
  <2>2. \A s \in free : Len(procLevel) + 1 <= s /\ s \in Int
    BY <1>1 DEF Sets
  <2>3. \A s \in free : (\A t \in free : s <= t) <=> s = Len(procLevel) + 1
    BY <1>1, <2>1, <2>2
  <2>4. FreeSet = CHOOSE s \in free : \A t \in free : s <= t
    BY <2>1 DEF FreeSet
  <2> HIDE DEF free
  <2>5. FreeSet = Len(procLevel) + 1 BY <2>1, <2>3, <2>4
  <2> QED BY <1>1, <1>2, <2>1, <2>5 DEF free
<1>3. CASE ~SomeEmpty
  <2>1. free = {} BY <1>1, <1>3, CodeGenAssumption DEF SomeEmpty, Sets
  <2> QED BY <1>1, <1>3, <2>1 DEF FreeSet
<1> QED BY <1>2, <1>3

\* With a block on top, the stack holds nothing but blocks.
LEMMA AllBlocks ==
  ASSUME Inv, Parsing, Top.kind = "block"
  PROVE  /\ open \in Seq(Frame) /\ Len(open) \in Nat /\ Len(open) \in 1 .. Len(open)
         /\ \A i \in 1 .. Len(open) :
              BlockAt(i) /\ open[i].kind = "block" /\ ~Waiting(open[i])
         /\ open[Len(open)].set = currentProcedure
<1>1. open \in Seq(Frame) /\ Len(open) \in Nat /\ Len(open) \in 1 .. Len(open)
  BY DEF Inv, Types, Parsing
<1>2. BlockAt(Len(open)) BY <1>1 DEF BlockAt, Top
<1>3. \A i \in 1 .. Len(open) : BlockAt(i) BY <1>1, <1>2 DEF Inv, StackInv
<1>4. Innermost(Len(open)) BY <1>1, <1>2 DEF Innermost, BlockAt
<1> QED BY <1>1, <1>3, <1>4 DEF Inv, StackInv, BlockAt, Waiting

\* The next free code set is handed out for the body of a procedure.
LEMMA OpenProcedureKeeps == Inv /\ OpenProcedure => Inv'
<1> SUFFICES ASSUME Inv, OpenProcedure PROVE Inv' OBVIOUS
<1> DEFINE n == Len(open)
           new == FreeSet
           frame == [kind |-> "block", due |-> TRUE, set |-> new]
<1>1. /\ Types /\ phase = "parse" /\ Parsing /\ Top.kind = "block"
      /\ Enter(frame, open)
      /\ procLevel' = Append(procLevel, globalLevel) /\ currentProcedure' = new
      /\ UNCHANGED <<generatedCode, finalCode, register_ptr, statements, phase, layout,
                     tags, finalTags, goals>>
  BY DEF Inv, OpenProcedure, Parsing, history
<1>2. /\ open \in Seq(Frame) /\ n \in Nat /\ n \in 1 .. n
      /\ \A i \in 1 .. n : BlockAt(i) /\ open[i].kind = "block" /\ ~Waiting(open[i])
      /\ open[n].set = currentProcedure
  BY <1>1, AllBlocks
<1>3. /\ Len(procLevel) \in Nat /\ new \in Owners
      /\ new \in Sets => new = Len(procLevel) + 1
      /\ new # FINAL_CODE => new \in Sets
      /\ new = FINAL_CODE => Len(procLevel) + 1 >= MaxSets /\ new \notin Sets
  BY <1>1, FreeSetIs, CodeGenAssumption DEF SomeEmpty, Owners, Sets, FINAL_CODE
<1>4. procLevel' \in Seq(Nat) /\ Len(procLevel') = Len(procLevel) + 1
  <2>1. globalLevel \in Nat /\ procLevel \in Seq(Nat) BY <1>1, Numbers DEF Types
  <2> QED BY <1>1, <2>1
<1>5. frame \in Frame /\ frame.kind = "block" /\ ~Waiting(frame) /\ frame.set = new
  BY <1>3 DEF Frame, Waiting
<1> HIDE DEF frame, new
<1>6. /\ open' \in Seq(Frame) /\ Len(open') = n + 1
      /\ \A i \in 1 .. n : open'[i] = open[i]
      /\ open'[n + 1] = frame
      /\ Len(open') <= MaxNesting
  <2>1. open' = Append(open, frame) /\ n < MaxNesting BY <1>1 DEF Enter, frame
  <2>2. /\ open' \in Seq(Frame) /\ Len(open') = n + 1
        /\ \A i \in 1 .. n : open'[i] = open[i]
        /\ open'[n + 1] = frame
    BY <1>2, <1>5, <2>1
  <2> QED BY <1>2, <2>1, <2>2, CodeGenAssumption
<1>7. /\ \A i \in 1 .. n + 1 : /\ BlockAt(i)' /\ ~Waiting(open'[i])
                               /\ i \in 1 .. n \/ i = n + 1
      /\ \A i \in 1 .. n + 1 : Innermost(i)' => i = n + 1
      /\ \A i \in 1 .. n + 1 : i = n + 1 => Innermost(i)'
  <2>1. \A i \in 1 .. n + 1 : i \in 1 .. n \/ i = n + 1 BY <1>2
  <2>2. \A i \in 1 .. n + 1 : BlockAt(i)' /\ ~Waiting(open'[i])
    BY <1>2, <1>5, <1>6, <2>1 DEF BlockAt
  <2>3. \A i \in 1 .. n + 1 : Innermost(i)' => i = n + 1
    <3>1. \A i \in 1 .. n : i + 1 \in 1 .. n + 1 BY <1>2
    <3> QED BY <2>1, <2>2, <3>1 DEF Innermost
  <2>4. \A i \in 1 .. n + 1 : i = n + 1 => Innermost(i)'
    <3> SUFFICES ASSUME NEW i \in 1 .. n + 1, i = n + 1 PROVE Innermost(i)'
      OBVIOUS
    <3>1. i + 1 \notin 1 .. Len(open') BY <1>2, <1>6
    <3>2. ~BlockAt(i + 1)' BY <3>1 DEF BlockAt
    <3> QED BY <2>2, <3>2 DEF Innermost
  <2> QED BY <2>1, <2>2, <2>3, <2>4
<1>8. \A s \in Owners : IsOpen(s)' <=> IsOpen(s) \/ s = new
  <2> SUFFICES ASSUME NEW s \in Owners PROVE IsOpen(s)' <=> IsOpen(s) \/ s = new
    OBVIOUS
  <2>1. IsOpen(s) <=> \E i \in 1 .. n : open[i].set = s BY <1>2 DEF IsOpen
  <2>2. IsOpen(s)' <=> \E i \in 1 .. n + 1 : open'[i].set = s
    BY <1>6, <1>7 DEF IsOpen
  <2>3. n + 1 \in 1 .. n + 1 /\ \A i \in 1 .. n : i \in 1 .. n + 1 BY <1>2
  <2>4. open'[n + 1].set = new BY <1>5, <1>6
  <2>5. ASSUME NEW i \in 1 .. n + 1, open'[i].set = s
        PROVE  s = new \/ \E j \in 1 .. n : open[j].set = s
    BY <1>6, <1>7, <2>4, <2>5
  <2>6. ASSUME NEW i \in 1 .. n, open[i].set = s
        PROVE  \E j \in 1 .. n + 1 : open'[j].set = s
    BY <1>6, <2>3, <2>6
  <2> QED BY <2>1, <2>2, <2>3, <2>4, <2>5, <2>6
<1>9. Types'
  <2>1. FinalTag' = Nat /\ FinalTag = Nat BY <1>1 DEF FinalTag
  <2> QED BY <1>1, <1>3, <1>4, <1>6, <2>1 DEF Types, Owners, Sets
<1>10. StackInv'
  <2>1. open' # << >> /\ open # << >> BY <1>2, <1>6
  <2>2. open'[1].set = 0 BY <1>2, <1>6, <2>1 DEF Inv, StackInv
  <2>3. \E i \in 1 .. Len(open') : Innermost(i)'
    <3>1. n + 1 \in 1 .. Len(open') BY <1>2, <1>6
    <3> QED BY <1>6, <1>7, <3>1
  <2>4. \A j \in 1 .. Len(open') : \A i \in 1 .. j : BlockAt(i)'
    <3> SUFFICES ASSUME NEW j \in 1 .. n + 1, NEW i \in 1 .. j PROVE BlockAt(i)'
      BY <1>6
    <3>1. i \in 1 .. n + 1 BY <1>2
    <3> QED BY <1>7, <3>1
  <2>5. \A i \in 1 .. Len(open') : Innermost(i)' => open'[i].set = currentProcedure'
    BY <1>1, <1>5, <1>6, <1>7
  <2>6. \A i \in 1 .. n :
          open[i].set \in Owners /\ open[i].set # FINAL_CODE => open[i].set <= Len(procLevel)
    BY <1>2 DEF Inv, StackInv
  <2>7. \A i \in 1 .. n :
          IF open[i].set = FINAL_CODE THEN Len(procLevel) >= MaxSets
          ELSE open[i].set <= Len(procLevel) /\ open[i].set \in Int
    <3>1. \A f \in Frame : f.kind = "block" => f.set \in Owners BY DEF Frame
    <3>2. \A i \in 1 .. n : open[i].set \in Owners BY <1>2, <3>1
    <3> QED BY <1>2, <3>2 DEF Inv, StackInv, Owners, Sets
  <2>8. \A i, j \in 1 .. Len(open') :
          i < j /\ BlockAt(i)' /\ BlockAt(j)' /\ open'[i].set = open'[j].set
            => open'[i].set = FINAL_CODE
    <3> SUFFICES ASSUME NEW i \in 1 .. n + 1, NEW j \in 1 .. n + 1,
                        i < j, open'[i].set = open'[j].set
                 PROVE  open'[i].set = FINAL_CODE
      BY <1>6
    <3>1. i \in 1 .. n /\ open'[i] = open[i] BY <1>2, <1>6
    <3>2. CASE j \in 1 .. n BY <1>2, <1>6, <3>1, <3>2 DEF Inv, StackInv
    <3>3. CASE j = n + 1
      <4>1. open[i].set = new BY <1>5, <1>6, <3>1, <3>3
      <4> QED BY <1>3, <2>7, <3>1, <4>1
    <3> QED BY <1>7, <3>2, <3>3
  <2>9. \A i \in 1 .. Len(open') :
          IF open'[i].set = FINAL_CODE THEN Len(procLevel') >= MaxSets
          ELSE open'[i].set <= Len(procLevel')
    <3> SUFFICES ASSUME NEW i \in 1 .. n + 1
                 PROVE  IF open'[i].set = FINAL_CODE THEN Len(procLevel') >= MaxSets
                        ELSE open'[i].set <= Len(procLevel')
      BY <1>6
    <3>1. CASE i \in 1 .. n
      <4>1. open'[i].set = open[i].set BY <1>6, <3>1
      <4>2. CASE open[i].set = FINAL_CODE
        <5>1. Len(procLevel) >= MaxSets BY <2>7, <3>1, <4>2
        <5> QED BY <1>3, <1>4, <4>1, <4>2, <5>1, CodeGenAssumption
      <4>3. CASE open[i].set # FINAL_CODE
        <5>1. open[i].set \in Int /\ open[i].set <= Len(procLevel) BY <2>7, <3>1, <4>3
        <5> QED BY <1>3, <1>4, <4>1, <4>3, <5>1
      <4> QED BY <4>2, <4>3
    <3>2. CASE i = n + 1 BY <1>3, <1>4, <1>5, <1>6, <3>2
    <3> QED BY <1>7, <3>1, <3>2
  <2>10. phase' = "parse" BY <1>1
  <2> QED BY <2>1, <2>2, <2>3, <2>4, <2>5, <2>8, <2>9, <2>10 DEF StackInv
<1>11. \A s \in Sets : s # new => Offset(s)' = Offset(s)
  BY <1>8 DEF Offset, Owners
<1>12. new \in Sets => generatedCode[new] = << >> /\ goals[new] = {} /\ tags[new] = << >>
  <2> SUFFICES ASSUME new \in Sets
               PROVE  generatedCode[new] = << >> /\ goals[new] = {} /\ tags[new] = << >>
    OBVIOUS
  <2>1. new > Len(procLevel) BY <1>3
  <2>2. generatedCode[new] = << >> /\ goals[new] = {} BY <2>1 DEF Inv, SetsInv
  <2>3. Len(tags[new]) = 0 /\ tags[new] \in Seq(Nat) BY <1>1, <2>2 DEF Types
  <2> QED BY <2>2, <2>3
<1>13. SetsInv'
  <2>1. ASSUME NEW s \in Sets
        PROVE  /\ s > Len(procLevel') => generatedCode'[s] = << >> /\ goals'[s] = {}
               /\ \A j \in 1 .. Len(tags'[s]) : tags'[s][j] = j - Offset(s)'
               /\ s <= Len(procLevel') /\ ~IsOpen(s)'
                    => Len(generatedCode'[s]) > 0 /\ generatedCode'[s][1].op = "INC"
    <3>1. s \in Int /\ s \in Owners /\ (s > Len(procLevel') => s > Len(procLevel))
      BY <1>3, <1>4 DEF Sets, Owners
    <3>2. s > Len(procLevel') => generatedCode'[s] = << >> /\ goals'[s] = {}
      BY <1>1, <3>1 DEF Inv, SetsInv
    <3>3. \A j \in 1 .. Len(tags'[s]) : tags'[s][j] = j - Offset(s)'
      <4>1. CASE s = new
        <5>1. Len(tags'[s]) = 0 BY <1>1, <1>12, <4>1
        <5> QED BY <5>1
      <4>2. CASE s # new BY <1>1, <1>11, <4>2 DEF Inv, SetsInv
      <4> QED BY <4>1, <4>2
    <3>4. ASSUME s <= Len(procLevel'), ~IsOpen(s)'
          PROVE  Len(generatedCode'[s]) > 0 /\ generatedCode'[s][1].op = "INC"
      <4>1. ~IsOpen(s) /\ s # new BY <1>8, <3>1, <3>4
      <4>2. s <= Len(procLevel)
        BY <1>3, <1>4, <3>1, <3>4, <4>1, CodeGenAssumption DEF Sets
      <4> QED BY <1>1, <4>1, <4>2 DEF Inv, SetsInv
    <3> QED BY <3>2, <3>3, <3>4
  <2>2. IsOpen(0)'
    <3>1. 0 \in Owners BY CodeGenAssumption DEF Owners, Sets
    <3>2. IsOpen(0) BY <1>2, <1>1 DEF IsOpen, Inv, StackInv, Parsing
    <3> QED BY <1>8, <3>1, <3>2
  <2>3. Len(procLevel') < MaxSets => finalCode' = << >>
    BY <1>1, <1>3, <1>4, CodeGenAssumption DEF Inv, SetsInv
  <2> QED BY <2>1, <2>2, <2>3 DEF SetsInv
<1>14. GoalsInv'
  <2> SUFFICES ASSUME NEW s \in Sets, NEW g \in goals'[s]
               PROVE  /\ g[1] \in 1 .. Len(generatedCode'[s]) - Offset(s)'
                      /\ g[2] \in 1 .. Len(generatedCode'[s]) + 1 - Offset(s)'
                      /\ generatedCode'[s][g[1] + Offset(s)'].op \in Jumps
                      /\ generatedCode'[s][g[1] + Offset(s)'].m = g[2] - 1
    BY DEF GoalsInv
  <2>1. s # new BY <1>1, <1>12
  <2> QED BY <1>1, <1>11, <2>1 DEF Inv, GoalsInv
<1>15. CellsInv' BY <1>6, <1>7 DEF CellsInv
<1>16. CallsInv'
  <2> SUFFICES ASSUME NEW s \in Sets, NEW k \in 1 .. Len(generatedCode[s]),
                      generatedCode[s][k].op = "CAL"
               PROVE  generatedCode[s][k].m \in 1 .. Len(procLevel) + 1
    BY <1>1, <1>4 DEF CallsInv
  <2>1. generatedCode[s][k].m \in 1 .. Len(procLevel) BY DEF Inv, CallsInv
  <2> QED BY <1>3, <2>1
<1>17. RegistersHeld'
  <2>1. Holders(open') = {} /\ Holders(open) = {} BY <1>2, <1>6, <1>7 DEF Holders
  <2>2. register_ptr' = Cardinality(Holders(open')) BY <1>1, <2>1, Numbers
  <2> QED BY <2>2 DEF RegistersHeld, Holders, Waiting
<1>18. LayoutInv' BY <1>1 DEF LayoutInv
<1> QED BY <1>9, <1>10, <1>13, <1>14, <1>15, <1>16, <1>17, <1>18 DEF Inv

\* The body of the innermost block ends: INC goes in front of its code, and
\* more may follow behind, but no calls.
Finishes(newCode, newTags) ==
  /\ newCode \in Seq(Instr) /\ newTags \in Seq(Nat)
  /\ Len(newTags) = Len(newCode) /\ Len(newCode) >= Here + 1
  /\ newCode[1].op = "INC"
  /\ \A k \in 1 .. Here : newCode[k + 1] = Code(currentProcedure)[k]
  /\ \A k \in 1 .. Len(newCode) : k > Here + 1 => newCode[k].op # "CAL"
  /\ SetCode(currentProcedure, newCode) /\ TagCode(currentProcedure, newTags)
  /\ currentProcedure \in Sets => \A k \in 1 .. Len(newTags) : newTags[k] = k - 1
  /\ open' \in Seq(Frame) /\ Len(open') = Len(open) - 1
  /\ \A i \in 1 .. Len(open) - 1 : open'[i] = open[i]
  /\ UNCHANGED <<procLevel, register_ptr, goals>>

\* The blocks that are open after the innermost one is finished.
LEMMA FinishedOpen ==
  ASSUME Inv, Parsing, Top.kind = "block", NEW newCode, NEW newTags,
         Finishes(newCode, newTags)
  PROVE  /\ \A i \in 1 .. Len(open) - 1 : i \in 1 .. Len(open) /\ BlockAt(i)'
         /\ Holders(open') = {} /\ Holders(open) = {}
         /\ \A s \in Sets : IsOpen(s)' <=> IsOpen(s) /\ s # currentProcedure
<1> DEFINE n == Len(open)
<1>1. /\ n \in Nat /\ n \in 1 .. n
      /\ \A i \in 1 .. n : BlockAt(i) /\ open[i].kind = "block" /\ ~Waiting(open[i])
      /\ open[n].set = currentProcedure
  BY AllBlocks
<1>2. \A i \in 1 .. n - 1 : i \in 1 .. n BY <1>1
<1>3. Len(open') = n - 1 /\ \A i \in 1 .. n - 1 : open'[i] = open[i] BY DEF Finishes
<1>4. \A i \in 1 .. n - 1 : BlockAt(i)' BY <1>1, <1>2, <1>3 DEF BlockAt
<1>5. Holders(open') = {} /\ Holders(open) = {} BY <1>1, <1>2, <1>3 DEF Holders
<1>6. ASSUME NEW s \in Sets
      PROVE  IsOpen(s)' <=> IsOpen(s) /\ s # currentProcedure
  <2>1. IsOpen(s)' <=> \E i \in 1 .. n - 1 : open[i].set = s
    BY <1>3, <1>4 DEF IsOpen
  <2>2. IsOpen(s) <=> \E i \in 1 .. n : open[i].set = s BY <1>1 DEF IsOpen
  <2>3. \A i \in 1 .. n : i \in 1 .. n - 1 \/ i = n BY <1>1
  <2>4. \A i \in 1 .. n - 1 : i < n BY <1>1
  <2>5. ASSUME NEW i \in 1 .. n - 1, open[i].set = s PROVE s # currentProcedure
    <3>1. s # FINAL_CODE BY DEF Sets, FINAL_CODE
    <3>2. open[i].set # open[n].set
      BY <1>1, <1>2, <2>4, <2>5, <3>1 DEF Inv, StackInv
    <3> QED BY <1>1, <2>5, <3>2
  <2> QED BY <1>1, <1>2, <2>1, <2>2, <2>3, <2>5
<1> QED BY <1>2, <1>4, <1>5, <1>6

\* The code sets when one is finished, with INC in front.
LEMMA FinishedSets ==
  ASSUME Inv, Parsing, Top.kind = "block", NEW newCode, NEW newTags,
         Finishes(newCode, newTags)
  PROVE  /\ GoalsInv' /\ CallsInv' /\ RegistersHeld' /\ CellsInv'
         /\ generatedCode' \in [Sets -> Seq(Instr)] /\ finalCode' \in Seq(Instr)
         /\ tags' \in [Sets -> Seq(Nat)] /\ finalTags' \in Seq(Nat)
         /\ \A s \in Sets : Len(tags'[s]) = Len(generatedCode'[s])
         /\ Len(finalTags') = Len(finalCode')
         /\ \A s \in Sets :
              /\ s > Len(procLevel) => generatedCode'[s] = << >> /\ goals'[s] = {}
              /\ \A j \in 1 .. Len(tags'[s]) : tags'[s][j] = j - Offset(s)'
              /\ s <= Len(procLevel) /\ ~IsOpen(s)'
                   => Len(generatedCode'[s]) > 0 /\ generatedCode'[s][1].op = "INC"
         /\ Len(procLevel) < MaxSets => finalCode' = << >>
         /\ currentProcedure \in Sets => generatedCode'[currentProcedure] = newCode
         /\ \A s \in Sets : s # currentProcedure => generatedCode'[s] = generatedCode[s]
<1>1. /\ Types /\ StackInv /\ phase = "parse" BY DEF Inv, Parsing
<1>2. /\ \A s \in Sets : IsOpen(s)' <=> IsOpen(s) /\ s # currentProcedure
      /\ Holders(open') = {} /\ Holders(open) = {}
  BY FinishedOpen
<1>3. /\ newCode \in Seq(Instr) /\ newTags \in Seq(Nat) /\ Len(newTags) = Len(newCode)
      /\ Len(newCode) >= Here + 1 /\ newCode[1].op = "INC"
      /\ \A k \in 1 .. Here : newCode[k + 1] = Code(currentProcedure)[k]
      /\ procLevel' = procLevel /\ register_ptr' = register_ptr /\ goals' = goals
  BY DEF Finishes
<1>4. /\ Here \in Nat /\ Len(newCode) \in Nat
      /\ currentProcedure \in Sets =>
           /\ Here = Len(generatedCode[currentProcedure])
           /\ Code(currentProcedure) = generatedCode[currentProcedure]
  BY <1>1, <1>3, CurrentCode
<1>5. /\ IsOpen(currentProcedure)
      /\ currentProcedure \in Sets => currentProcedure <= Len(procLevel)
      /\ currentProcedure \notin Sets => Len(procLevel) >= MaxSets
  BY <1>1, CurrentIsOpen
<1>6. /\ generatedCode' \in [Sets -> Seq(Instr)] /\ finalCode' \in Seq(Instr)
      /\ tags' \in [Sets -> Seq(Nat)] /\ finalTags' \in Seq(Nat)
      /\ \A s \in Sets : Len(tags'[s]) = Len(generatedCode'[s])
      /\ Len(finalTags') = Len(finalCode')
      /\ \A s \in Sets : s # currentProcedure =>
           generatedCode'[s] = generatedCode[s] /\ tags'[s] = tags[s]
      /\ currentProcedure \in Sets =>
           /\ finalCode' = finalCode
           /\ generatedCode'[currentProcedure] = newCode
           /\ tags'[currentProcedure] = newTags
  <2>1. CASE currentProcedure = FINAL_CODE
    <3>1. /\ finalCode' = newCode /\ generatedCode' = generatedCode
          /\ finalTags' = newTags /\ tags' = tags
      BY <2>1 DEF Finishes, SetCode, TagCode
    <3>2. currentProcedure \notin Sets BY <2>1 DEF Sets, FINAL_CODE
    <3> QED BY <1>1, <1>3, <3>1, <3>2 DEF Types
  <2>2. CASE currentProcedure # FINAL_CODE
    <3>1. /\ generatedCode' = [generatedCode EXCEPT ![currentProcedure] = newCode]
          /\ finalCode' = finalCode /\ finalTags' = finalTags
          /\ tags' = [tags EXCEPT ![currentProcedure] = newTags]
      BY <2>2 DEF Finishes, SetCode, TagCode
    <3>2. currentProcedure \in Sets BY <1>1, <2>2 DEF Types, Owners
    <3> QED BY <1>1, <1>3, <3>1, <3>2 DEF Types, FinalTag
  <2> QED BY <2>1, <2>2
<1>7. /\ \A s \in Sets : s # currentProcedure => Offset(s)' = Offset(s)
      /\ currentProcedure \in Sets =>
           Offset(currentProcedure) = 0 /\ \A s \in Sets : s = currentProcedure => Offset(s)' = 1
  BY <1>2, <1>5 DEF Offset
<1>8. GoalsInv'
  <2> SUFFICES ASSUME NEW s \in Sets, NEW g \in goals[s]
               PROVE  /\ g[1] \in 1 .. Len(generatedCode'[s]) - Offset(s)'
                      /\ g[2] \in 1 .. Len(generatedCode'[s]) + 1 - Offset(s)'
                      /\ generatedCode'[s][g[1] + Offset(s)'].op \in Jumps
                      /\ generatedCode'[s][g[1] + Offset(s)'].m = g[2] - 1
    BY <1>3 DEF GoalsInv
  <2>1. CASE s # currentProcedure BY <1>6, <1>7, <2>1 DEF Inv, GoalsInv
  <2>2. CASE s = currentProcedure
    <3>1. Offset(s)' = 1 /\ Offset(s) = 0 /\ generatedCode'[s] = newCode
      BY <1>6, <1>7, <2>2
    <3>2. /\ g[1] \in 1 .. Here /\ g[2] \in 1 .. Here + 1
          /\ generatedCode[s][g[1]].op \in Jumps /\ generatedCode[s][g[1]].m = g[2] - 1
      BY <1>4, <2>2, <3>1 DEF Inv, GoalsInv
    <3>3. newCode[g[1] + 1] = generatedCode[s][g[1]] BY <1>3, <1>4, <2>2, <3>2
    <3>a. Here \in Nat /\ Len(newCode) \in Nat /\ Len(newCode) >= Here + 1 BY <1>3, <1>4
    <3>4. g[1] \in 1 .. Len(newCode) - 1 /\ g[2] \in 1 .. Len(newCode) + 1 - 1
      <4>1. PICK h \in Nat : h = Here BY <3>a
      <4>2. g[1] \in 1 .. h /\ g[2] \in 1 .. h + 1 BY <3>2, <4>1
      <4>3. Len(newCode) >= h + 1 BY <3>a, <4>1
      <4> QED BY <3>a, <4>2, <4>3
    <3>5. newCode[g[1] + 1].op \in Jumps /\ newCode[g[1] + 1].m = g[2] - 1
      BY <3>2, <3>3
    <3> QED BY <3>1, <3>4, <3>5
  <2> QED BY <2>1, <2>2
<1>9. CallsInv'
  <2> SUFFICES ASSUME NEW s \in Sets, NEW k \in 1 .. Len(generatedCode'[s]),
                      generatedCode'[s][k].op = "CAL"
               PROVE  generatedCode'[s][k].m \in 1 .. Len(procLevel)
    BY <1>3 DEF CallsInv
  <2>1. CASE s # currentProcedure BY <1>6, <2>1 DEF Inv, CallsInv
  <2>2. CASE s = currentProcedure
    <3>1. generatedCode'[s] = newCode /\ k \in 1 .. Len(newCode) BY <1>6, <2>2
    <3>2. k # 1 /\ ~(k > Here + 1) BY <1>3, <3>1 DEF Finishes
    <3>3. k - 1 \in 1 .. Here /\ (k - 1) + 1 = k BY <1>4, <3>1, <3>2
    <3>4. newCode[k] = Code(currentProcedure)[k - 1] BY <1>3, <3>3
    <3> QED BY <1>1, <2>2, <3>1, <3>3, <3>4, CurrentCode
  <2> QED BY <2>1, <2>2
<1>10. RegistersHeld'
  <2>1. register_ptr' = Cardinality(Holders(open')) BY <1>2, <1>3, Numbers
  <2> QED BY <2>1 DEF RegistersHeld, Holders, Waiting
<1>11. CellsInv'
  <2>1. \A i \in 1 .. Len(open') : ~Waiting(open'[i]) BY <1>2 DEF Holders
  <2> QED BY <2>1 DEF CellsInv
<1>12. ASSUME NEW s \in Sets
       PROVE  /\ s > Len(procLevel) => generatedCode'[s] = << >> /\ goals'[s] = {}
              /\ \A j \in 1 .. Len(tags'[s]) : tags'[s][j] = j - Offset(s)'
              /\ s <= Len(procLevel) /\ ~IsOpen(s)'
                   => Len(generatedCode'[s]) > 0 /\ generatedCode'[s][1].op = "INC"
  <2>1. CASE s # currentProcedure
    <3>1. IsOpen(s)' <=> IsOpen(s) BY <1>2, <2>1
    <3> QED BY <1>3, <1>6, <1>7, <2>1, <3>1 DEF Inv, SetsInv
  <2>2. CASE s = currentProcedure
    <3>1. /\ Offset(s)' = 1 /\ generatedCode'[s] = newCode /\ tags'[s] = newTags
      BY <1>6, <1>7, <2>2
    <3>2. s <= Len(procLevel) /\ s \in Int /\ Len(procLevel) \in Nat
      BY <1>1, <1>5, <2>2 DEF Types, Sets
    <3>3. \A j \in 1 .. Len(newTags) : newTags[j] = j - 1 BY <2>2 DEF Finishes
    <3> QED BY <1>3, <1>4, <3>1, <3>2, <3>3
  <2> QED BY <2>1, <2>2
<1>13. Len(procLevel) < MaxSets => finalCode' = << >>
  <2>1. Len(procLevel) < MaxSets => currentProcedure \in Sets
    BY <1>1, <1>5, CodeGenAssumption DEF Types
  <2> QED BY <1>1, <1>6, <2>1 DEF Inv, SetsInv
<1> QED BY <1>6, <1>8, <1>9, <1>10, <1>11, <1>12, <1>13

\* generateVariableSpace: INC, and the tag 0, come first.
LEMMA SpaceFirst ==
  ASSUME Inv, phase = "parse"
  PROVE  LET inc == newInstruction("INC", 0, 0, 5)
             newCode == <<inc>> \o Code(currentProcedure)
             newTags == <<0>> \o TagsOf(currentProcedure)
         IN  /\ newCode \in Seq(Instr) /\ Len(newCode) = Here + 1 /\ newCode[1] = inc
             /\ \A k \in 1 .. Here : newCode[k + 1] = Code(currentProcedure)[k]
             /\ newTags \in Seq(Nat) /\ Len(newTags) = Here + 1
             /\ currentProcedure \in Sets =>
                  \A k \in 1 .. Here + 1 : newTags[k] = k - 1
             /\ inc.op = "INC"
<1> DEFINE inc == newInstruction("INC", 0, 0, 5)
           old == Code(currentProcedure)
           oldTags == TagsOf(currentProcedure)
<1>1. inc \in Instr /\ inc.op = "INC" BY Instruction DEF Ops, newInstruction
<1>2. old \in Seq(Instr) /\ Len(old) = Here /\ Here \in Nat BY CurrentCode
<1>3. oldTags \in Seq(Nat) /\ Len(oldTags) = Here
  BY <1>2 DEF Inv, Types, FinalTag, TagsOf, Here, getCodeLength, Code, Owners
<1>4. currentProcedure \in Sets => \A k \in 1 .. Here : oldTags[k] = k
  <2> SUFFICES ASSUME currentProcedure \in Sets, NEW k \in 1 .. Here
               PROVE  oldTags[k] = k
    OBVIOUS
  <2>1. oldTags = tags[currentProcedure] BY DEF TagsOf, Sets, FINAL_CODE
  <2>2. Offset(currentProcedure) = 0 BY CurrentIsOpen DEF Inv, Offset
  <2> QED BY <1>2, <1>3, <2>1, <2>2 DEF Inv, SetsInv
<1> HIDE DEF inc, old, oldTags
<1>5. /\ <<inc>> \o old \in Seq(Instr) /\ Len(<<inc>> \o old) = Here + 1
      /\ (<<inc>> \o old)[1] = inc
      /\ \A k \in 1 .. Here : (<<inc>> \o old)[k + 1] = old[k]
  BY <1>1, <1>2
<1>6. /\ <<0>> \o oldTags \in Seq(Nat) /\ Len(<<0>> \o oldTags) = Here + 1
      /\ \A k \in 1 .. Here + 1 :
           (<<0>> \o oldTags)[k] = IF k = 1 THEN 0 ELSE oldTags[k - 1]
  BY <1>2, <1>3
<1>7. ASSUME currentProcedure \in Sets, NEW k \in 1 .. Here + 1
      PROVE  (<<0>> \o oldTags)[k] = k - 1
  <2>1. k # 1 => k - 1 \in 1 .. Here BY <1>2
  <2> QED BY <1>2, <1>4, <1>6, <1>7, <2>1
<1> QED BY <1>1, <1>5, <1>6, <1>7 DEF inc, old, oldTags

\* The end of a procedure.
LEMMA CloseProcedureKeeps == Inv /\ CloseProcedure => Inv'
<1> SUFFICES ASSUME Inv, CloseProcedure PROVE Inv' OBVIOUS
<1> DEFINE n == Len(open)
           inc == newInstruction("INC", 0, 0, 5)
           newCode == <<inc>> \o Code(currentProcedure)
           newTags == <<0>> \o TagsOf(currentProcedure)
<1>1. /\ Types /\ StackInv /\ phase = "parse" /\ Parsing /\ Top.kind = "block" /\ n > 1
      /\ SetCode(currentProcedure, newCode) /\ TagCode(currentProcedure, newTags)
      /\ open' = SubSeq(open, 1, n - 1) /\ currentProcedure' = open[n - 1].set
      /\ UNCHANGED <<register_ptr, procLevel, statements, phase, layout, goals>>
  BY DEF Inv, CloseProcedure, Parsing, WithSpace, EnclosingSet
<1>2. /\ newCode \in Seq(Instr) /\ Len(newCode) = Here + 1 /\ newCode[1].op = "INC"
      /\ \A k \in 1 .. Here : newCode[k + 1] = Code(currentProcedure)[k]
      /\ newTags \in Seq(Nat) /\ Len(newTags) = Here + 1
      /\ currentProcedure \in Sets => \A k \in 1 .. Here + 1 : newTags[k] = k - 1
  BY <1>1, SpaceFirst
<1> HIDE DEF newCode, newTags
<1>3. /\ open \in Seq(Frame) /\ n \in Nat /\ n \in 1 .. n
      /\ \A i \in 1 .. n : BlockAt(i) /\ open[i].kind = "block"
  BY <1>1, AllBlocks
<1>4. /\ open' \in Seq(Frame) /\ Len(open') = n - 1
      /\ \A i \in 1 .. n - 1 : open'[i] = open[i]
  BY <1>1, <1>3, StackClosed
<1>5. Here \in Nat BY <1>1, CurrentCode
<1>6. Finishes(newCode, newTags)
  <2>1. \A k \in 1 .. Len(newCode) : ~(k > Here + 1) BY <1>2, <1>5
  <2>2. Len(newCode) >= Here + 1 BY <1>2, <1>5
  <2> QED BY <1>1, <1>2, <1>4, <2>1, <2>2 DEF Finishes
<1>7. \A i \in 1 .. n - 1 : i \in 1 .. n /\ BlockAt(i)' BY <1>1, <1>6, FinishedOpen
<1>8. open[n - 1].set \in Owners /\ n - 1 \in 1 .. n - 1
  <2>1. \A f \in Frame : f.kind = "block" => f.set \in Owners BY DEF Frame
  <2>2. n - 1 \in 1 .. n - 1 /\ n - 1 \in 1 .. n BY <1>1, <1>3
  <2> QED BY <1>3, <2>1, <2>2
<1>9. Types'
  <2>1. FinalTag' = Nat BY <1>1 DEF FinalTag
  <2>2. Len(open') <= MaxNesting \/ MaxNesting = 0
    BY <1>1, <1>3, <1>4, CodeGenAssumption DEF Types
  <2>3. /\ generatedCode' \in [Sets -> Seq(Instr)] /\ finalCode' \in Seq(Instr)
        /\ tags' \in [Sets -> Seq(Nat)] /\ finalTags' \in Seq(Nat)
        /\ \A s \in Sets : Len(tags'[s]) = Len(generatedCode'[s])
        /\ Len(finalTags') = Len(finalCode')
    BY <1>1, <1>6, FinishedSets
  <2> QED BY <1>1, <1>4, <1>8, <2>1, <2>2, <2>3 DEF Types, Owners, Sets
<1>10. StackInv'
  <2>1. open' # << >> /\ open # << >>
    <3>1. Len(open') > 0 /\ Len(open) > 0 BY <1>1, <1>3, <1>4
    <3> QED BY <3>1
  <2>2. open'[1].set = 0 /\ phase' = "parse"
    BY <1>1, <1>3, <1>4, <2>1 DEF StackInv
  <2>3. \A i \in 1 .. n - 1 : Innermost(i)' <=> i = n - 1
    <3> SUFFICES ASSUME NEW i \in 1 .. n - 1 PROVE Innermost(i)' <=> i = n - 1
      OBVIOUS
    <3>1. BlockAt(i)' BY <1>7
    <3>2. CASE i = n - 1
      <4>1. i + 1 \notin 1 .. Len(open') BY <1>3, <1>4, <3>2
      <4>2. ~BlockAt(i + 1)' BY <4>1 DEF BlockAt
      <4> QED BY <3>1, <3>2, <4>2 DEF Innermost
    <3>3. CASE i # n - 1
      <4>1. i + 1 \in 1 .. n - 1 /\ i + 1 \in 1 .. n BY <1>3, <3>3
      <4>2. BlockAt(i + 1)' BY <1>3, <1>4, <4>1 DEF BlockAt
      <4> QED BY <3>1, <3>3, <4>2 DEF Innermost
    <3> QED BY <3>2, <3>3
  <2>4. \E i \in 1 .. Len(open') : Innermost(i)' BY <1>4, <1>8, <2>3
  <2>5. \A i \in 1 .. Len(open') : Innermost(i)' => open'[i].set = currentProcedure'
    BY <1>1, <1>4, <1>8, <2>3
  <2>6. \A j \in 1 .. Len(open') : \A i \in 1 .. j : BlockAt(i)'
    <3> SUFFICES ASSUME NEW j \in 1 .. n - 1, NEW i \in 1 .. j PROVE BlockAt(i)'
      BY <1>4
    <3>1. i \in 1 .. n - 1 BY <1>3
    <3> QED BY <1>7, <3>1
  <2>7. \A i, j \in 1 .. Len(open') :
          i < j /\ BlockAt(i)' /\ BlockAt(j)' /\ open'[i].set = open'[j].set
            => open'[i].set = FINAL_CODE
    BY <1>3, <1>4, <1>7 DEF Inv, StackInv
  <2>8. \A i \in 1 .. Len(open') :
          IF open'[i].set = FINAL_CODE THEN Len(procLevel') >= MaxSets
          ELSE open'[i].set <= Len(procLevel')
    BY <1>1, <1>3, <1>4, <1>7 DEF Inv, StackInv
  <2> QED BY <2>1, <2>2, <2>4, <2>5, <2>6, <2>7, <2>8 DEF StackInv
<1>11. SetsInv'
  <2>1. procLevel' = procLevel BY <1>1
  <2>2. IsOpen(0)'
    <3>1. 1 \in 1 .. n - 1 BY <1>1, <1>3
    <3>2. open'[1].set = 0 BY <1>1, <1>3, <1>4, <3>1 DEF StackInv, Parsing
    <3> QED BY <1>4, <1>7, <3>1, <3>2 DEF IsOpen
  <2> QED BY <1>1, <1>6, <2>1, <2>2, FinishedSets DEF SetsInv
<1>12. GoalsInv' /\ CallsInv' /\ RegistersHeld' /\ CellsInv'
  BY <1>1, <1>6, FinishedSets
<1>13. LayoutInv' BY <1>1 DEF LayoutInv
<1> QED BY <1>9, <1>10, <1>11, <1>12, <1>13 DEF Inv

\* The end of the main block.
LEMMA EndProgramKeeps == Inv /\ EndProgram => Inv'
<1> SUFFICES ASSUME Inv, EndProgram PROVE Inv' OBVIOUS
<1> DEFINE inc == newInstruction("INC", 0, 0, 5)
           halt == newInstruction("SIO", 0, 0, 3)
           body == <<inc>> \o Code(currentProcedure)
           bodyTags == <<0>> \o TagsOf(currentProcedure)
           newCode == Append(body, halt)
           newTags == Append(bodyTags, Here + 1)
<1>1. /\ Types /\ StackInv /\ phase = "parse" /\ Parsing /\ Top.kind = "block"
      /\ Len(open) = 1
      /\ SetCode(currentProcedure, newCode) /\ TagCode(currentProcedure, newTags)
      /\ open' = << >> /\ phase' = "link"
      /\ UNCHANGED <<currentProcedure, register_ptr, procLevel, statements, layout, goals>>
  BY DEF Inv, EndProgram, Parsing, WithSpace
<1>2. /\ body \in Seq(Instr) /\ Len(body) = Here + 1 /\ body[1].op = "INC"
      /\ \A k \in 1 .. Here : body[k + 1] = Code(currentProcedure)[k]
      /\ bodyTags \in Seq(Nat) /\ Len(bodyTags) = Here + 1
      /\ currentProcedure \in Sets => \A k \in 1 .. Here + 1 : bodyTags[k] = k - 1
  BY <1>1, SpaceFirst
<1>3. halt \in Instr /\ halt.op = "SIO" BY Instruction DEF Ops, newInstruction
<1>4. Here \in Nat BY <1>1, CurrentCode
<1> HIDE DEF body, bodyTags, halt
<1>5. /\ newCode \in Seq(Instr) /\ Len(newCode) = Here + 2 /\ newCode[1].op = "INC"
      /\ \A k \in 1 .. Here : newCode[k + 1] = Code(currentProcedure)[k]
      /\ newCode[Here + 2] = halt
  BY <1>2, <1>3, <1>4
<1>6. /\ newTags \in Seq(Nat) /\ Len(newTags) = Here + 2
      /\ currentProcedure \in Sets => \A k \in 1 .. Here + 2 : newTags[k] = k - 1
  BY <1>2, <1>4
<1> HIDE DEF newCode, newTags
<1>7. Finishes(newCode, newTags)
  <2>1. \A k \in 1 .. Len(newCode) : k > Here + 1 => newCode[k].op # "CAL"
    <3>1. \A k \in 1 .. Len(newCode) : k > Here + 1 => k = Here + 2 BY <1>4, <1>5
    <3> QED BY <1>3, <1>5, <3>1
  <2>2. Len(newCode) >= Here + 1 BY <1>4, <1>5
  <2>3. open' \in Seq(Frame) /\ Len(open') = Len(open) - 1
        /\ \A i \in 1 .. Len(open) - 1 : open'[i] = open[i]
    BY <1>1
  <2> QED BY <1>1, <1>5, <1>6, <2>1, <2>2, <2>3 DEF Finishes
<1>8. /\ GoalsInv' /\ CallsInv' /\ RegistersHeld' /\ CellsInv'
      /\ generatedCode' \in [Sets -> Seq(Instr)] /\ finalCode' \in Seq(Instr)
      /\ tags' \in [Sets -> Seq(Nat)] /\ finalTags' \in Seq(Nat)
      /\ \A s \in Sets : Len(tags'[s]) = Len(generatedCode'[s])
      /\ Len(finalTags') = Len(finalCode')
      /\ \A s \in Sets :
           /\ s > Len(procLevel) => generatedCode'[s] = << >> /\ goals'[s] = {}
           /\ \A j \in 1 .. Len(tags'[s]) : tags'[s][j] = j - Offset(s)'
           /\ s <= Len(procLevel) /\ ~IsOpen(s)'
                => Len(generatedCode'[s]) > 0 /\ generatedCode'[s][1].op = "INC"
      /\ Len(procLevel) < MaxSets => finalCode' = << >>
      /\ currentProcedure \in Sets => generatedCode'[currentProcedure] = newCode
  BY <1>1, <1>7, FinishedSets
<1>9. currentProcedure = 0 /\ 0 \in Sets
  <2>1. open[Len(open)].set = currentProcedure BY <1>1, AllBlocks
  <2> QED BY <1>1, <2>1, CodeGenAssumption DEF StackInv, Parsing, Sets
<1>10. Types'
  <2>1. FinalTag' = Nat BY <1>1 DEF FinalTag
  <2>2. Len(open') = 0 /\ open' \in Seq(Frame) BY <1>1
  <2>3. Len(open') <= MaxNesting BY <2>2, CodeGenAssumption
  <2> QED BY <1>1, <1>8, <2>1, <2>2, <2>3 DEF Types, Owners, Sets
<1>11. StackInv' BY <1>1 DEF StackInv
<1>12. SetsInv'
  <2>1. /\ Len(generatedCode'[0]) > 0
        /\ generatedCode'[0][Len(generatedCode'[0])] = halt
    BY <1>4, <1>5, <1>8, <1>9
  <2> QED BY <1>1, <1>8, <2>1 DEF SetsInv, halt
<1>13. LayoutInv' BY <1>1 DEF LayoutInv
<1> QED BY <1>8, <1>10, <1>11, <1>12, <1>13 DEF Inv

-----------------------------------------------------------------------------
(* Linking.                                                                *)

\* When the parse is over, the sets in use are those handed out, unless none
\* is left empty.
LEMMA UsedSetsIs ==
  ASSUME Inv, phase # "parse"
  PROVE  /\ \A s \in Sets : ~IsOpen(s) /\ Offset(s) = 1
         /\ Len(procLevel) \in Nat
         /\ SomeEmpty => UsedSets = Len(procLevel) + 1
         /\ ~SomeEmpty => UsedSets = 0
         /\ SomeEmpty => \A s \in 0 .. Len(procLevel) :
                           s \in Sets /\ Len(generatedCode[s]) > 0
<1>1. open = << >> /\ Len(procLevel) \in Nat BY DEF Inv, StackInv, Types
<1>2. \A s \in Sets : ~IsOpen(s) /\ Offset(s) = 1 BY <1>1 DEF IsOpen, Offset
<1>3. \A s \in Sets : generatedCode[s] = << >> <=> s > Len(procLevel)
  <2> SUFFICES ASSUME NEW s \in Sets
               PROVE  generatedCode[s] = << >> <=> s > Len(procLevel)
    OBVIOUS
  <2>1. s \in Int BY DEF Sets
  <2>2. CASE s > Len(procLevel) BY <2>2 DEF Inv, SetsInv
  <2>3. CASE s <= Len(procLevel)
    <3>1. Len(generatedCode[s]) > 0 BY <1>2, <2>3 DEF Inv, SetsInv
    <3> QED BY <1>1, <2>1, <2>3, <3>1
  <2> QED BY <1>1, <2>1, <2>2, <2>3
<1>4. EmptySets = {s \in Sets : s > Len(procLevel)} BY <1>3 DEF EmptySets
<1>5. ASSUME SomeEmpty
      PROVE  UsedSets = Len(procLevel) + 1
  <2>1. Len(procLevel) + 1 \in EmptySets
    BY <1>1, <1>4, <1>5, CodeGenAssumption DEF SomeEmpty, Sets
  <2>2. \A s \in EmptySets : Len(procLevel) + 1 <= s /\ s \in Int
    BY <1>1, <1>4 DEF Sets
  <2>3. \A s \in EmptySets : (\A t \in EmptySets : s <= t) <=> s = Len(procLevel) + 1
    BY <1>1, <2>1, <2>2
  <2>4. UsedSets = CHOOSE s \in EmptySets : \A t \in EmptySets : s <= t
    BY <2>1 DEF UsedSets
  <2> QED BY <2>1, <2>3, <2>4
<1>6. ASSUME ~SomeEmpty PROVE UsedSets = 0
  <2>1. EmptySets = {} BY <1>1, <1>4, <1>6, CodeGenAssumption DEF SomeEmpty, Sets
  <2> QED BY <2>1 DEF UsedSets
<1>7. ASSUME SomeEmpty, NEW s \in 0 .. Len(procLevel)
      PROVE  s \in Sets /\ Len(generatedCode[s]) > 0
  <2>1. s \in Sets /\ s <= Len(procLevel)
    BY <1>1, <1>7, CodeGenAssumption DEF SomeEmpty, Sets
  <2> QED BY <1>2, <2>1 DEF Inv, SetsInv
<1> QED BY <1>1, <1>2, <1>5, <1>6, <1>7

\* Linking changes the final code only.
LEMMA LinkingKeeps ==
  ASSUME Inv, phase # "parse", phase' # "parse", phase' # "link",
         UNCHANGED <<generatedCode, currentProcedure, register_ptr, procLevel, open,
                     statements, tags, goals>>
  PROVE  StackInv' /\ SetsInv' /\ GoalsInv' /\ CellsInv' /\ CallsInv' /\ RegistersHeld'
<1>1. StackInv'
  BY DEF Inv, StackInv, Innermost, BlockAt
<1>2. \A s \in Owners : (IsOpen(s)' <=> IsOpen(s)) /\ Offset(s)' = Offset(s)
  BY DEF IsOpen, BlockAt, Offset
<1>3. \A s \in Sets : s \in Owners BY DEF Owners
<1>4. SetsInv'
  <2>1. 0 \in Owners BY CodeGenAssumption DEF Owners, Sets
  <2>2. IsOpen(0)' <=> IsOpen(0) BY <1>2, <2>1
  <2> QED BY <1>2, <1>3, <2>2 DEF Inv, SetsInv
<1>5. GoalsInv' BY <1>2, <1>3 DEF Inv, GoalsInv
<1>6. CellsInv' BY DEF Inv, CellsInv
<1>7. CallsInv' BY DEF Inv, CallsInv
<1>8. RegistersHeld' BY DEF Inv, RegistersHeld
<1> QED BY <1>1, <1>4, <1>5, <1>6, <1>7, <1>8

\* The table of jumps in front of the final code.
LEMMA LinkJumpsKeeps == Inv /\ LinkJumps => Inv'
<1> SUFFICES ASSUME Inv, LinkJumps PROVE Inv' OBVIOUS
<1>1. /\ Types /\ phase = "link"
      /\ UNCHANGED <<generatedCode, currentProcedure, register_ptr, procLevel, open,
                     statements, tags, goals>>
  BY DEF Inv, LinkJumps
<1>2. Len(procLevel) \in Nat BY <1>1 DEF Types
<1>3. CASE ~SomeEmpty
  <2>1. UsedSets = 0 BY <1>1, <1>3, UsedSetsIs
  <2>2. phase' = "done" /\ UNCHANGED <<finalCode, finalTags, layout>>
    BY <2>1 DEF LinkJumps
  <2>3. ~SomeEmpty' BY <1>1, <1>3 DEF SomeEmpty
  <2>4. StackInv' /\ SetsInv' /\ GoalsInv' /\ CellsInv' /\ CallsInv' /\ RegistersHeld'
    BY <1>1, <2>2, LinkingKeeps
  <2>5. Types'
    <3>1. FinalTag' = FinalTag BY <1>1, <2>3 DEF FinalTag
    <3> QED BY <1>1, <2>2, <3>1 DEF Types, Owners, Sets
  <2>6. LayoutInv' BY <2>2, <2>3 DEF LayoutInv
  <2> QED BY <2>4, <2>5, <2>6 DEF Inv
<1>4. CASE SomeEmpty
  <2> DEFINE u == Len(procLevel) + 1
             ins == newInstruction("JMP", 0, 0, 0)
             table == [i \in 1 .. u |-> ins]
             tableTags == [i \in 1 .. u |-> <<FINAL_CODE, i - 1>>]
  <2>1. UsedSets = u /\ u # 0 BY <1>1, <1>2, <1>4, UsedSetsIs
  <2>2. finalCode = << >> /\ finalTags = << >>
    <3>1. Len(procLevel) < MaxSets BY <1>2, <1>4, CodeGenAssumption DEF SomeEmpty
    <3>2. finalCode = << >> BY <1>1, <3>1 DEF Inv, SetsInv
    <3>3. Len(finalTags) = 0 BY <1>1, <3>2 DEF Types
    <3> QED BY <1>1, <3>2, <3>3 DEF Types
  <2>3. /\ finalCode' = finalCode \o table /\ finalTags' = finalTags \o tableTags
        /\ phase' = "layout" /\ layout' = u - 1
    BY <2>1 DEF LinkJumps
  <2>4. ins \in Instr /\ ins.op = "JMP" BY Instruction DEF Ops, newInstruction
  <2>5. /\ table \in Seq(Instr) /\ Len(table) = u /\ \A i \in 1 .. u : table[i].op = "JMP"
    BY <1>2, <2>4
  <2>6. /\ tableTags \in Seq(Owners \X Nat) /\ Len(tableTags) = u
        /\ \A i \in 1 .. u : tableTags[i] = <<FINAL_CODE, i - 1>>
    <3>1. \A i \in 1 .. u : <<FINAL_CODE, i - 1>> \in Owners \X Nat
      BY <1>2 DEF Owners
    <3> QED BY <1>2, <3>1
  <2> HIDE DEF table, tableTags
  <2>7. finalCode' = table /\ finalTags' = tableTags
    BY <2>2, <2>3, <2>5, <2>6
  <2>8. SomeEmpty' BY <1>1, <1>4 DEF SomeEmpty
  <2>9. StackInv' /\ SetsInv' /\ GoalsInv' /\ CellsInv' /\ CallsInv' /\ RegistersHeld'
    BY <1>1, <2>3, LinkingKeeps
  <2>10. Types'
    <3>1. FinalTag' = Owners \X Nat BY <2>3, <2>8 DEF FinalTag
    <3>2. layout' \in -1 .. MaxSets - 1
      BY <1>2, <1>4, <2>3, CodeGenAssumption DEF SomeEmpty
    <3> QED BY <1>1, <2>3, <2>5, <2>6, <2>7, <3>1, <3>2 DEF Types, Sets, Owners
  <2>11. LayoutInv'
    <3>1. layout' = Len(procLevel) /\ procLevel' = procLevel BY <1>1, <1>2, <2>3
    <3>2. Len(finalCode') = u /\ Len(finalCode') >= Len(procLevel) + 1
      BY <1>2, <2>5, <2>7
    <3>3. \A k \in 1 .. Len(procLevel) + 1 :
            finalCode'[k].op = "JMP" /\ finalTags'[k] = <<FINAL_CODE, k - 1>>
      BY <2>5, <2>6, <2>7
    <3>4. /\ \A p \in layout' + 1 .. Len(procLevel) : FALSE
          /\ \A k \in Len(procLevel) + 2 .. Len(finalCode') : FALSE
      BY <1>2, <3>1, <3>2
    <3>5. layout' \in 0 .. Len(procLevel) /\ phase' = "layout" BY <1>2, <2>3, <3>1
    <3> QED BY <2>8, <3>1, <3>2, <3>3, <3>4, <3>5 DEF LayoutInv
  <2> QED BY <2>9, <2>10, <2>11 DEF Inv
<1> QED BY <1>3, <1>4

\* What Relocated does to a jump and to any other instruction.
LEMMA RelocatedIs ==
  ASSUME NEW ins \in Instr, NEW base \in Nat
  PROVE  /\ Relocated(ins, base) \in Instr /\ Relocated(ins, base).op = ins.op
         /\ IF ins.op \in Jumps THEN Relocated(ins, base).m = ins.m + base + 1
                                ELSE Relocated(ins, base) = ins
  BY DEF Relocated, Instr, Jumps

\* The concatenation of two sequences.
LEMMA Joined ==
  ASSUME NEW S, NEW a \in Seq(S), NEW b \in Seq(S)
  PROVE  /\ a \o b \in Seq(S) /\ Len(a \o b) = Len(a) + Len(b)
         /\ \A k \in 1 .. Len(a) : (a \o b)[k] = a[k]
         /\ \A j \in 1 .. Len(b) : (a \o b)[Len(a) + j] = b[j]
  OBVIOUS

\* A set is laid out behind what is laid out already.
LEMMA LinkSetKeeps == Inv /\ LinkSet => Inv'
<1> SUFFICES ASSUME Inv, LinkSet PROVE Inv' OBVIOUS
<1> DEFINE u == Len(procLevel) + 1
           base == Len(finalCode)
           set == generatedCode[layout]
           table == changeM(finalCode, layout, base)
           part == [j \in 1 .. Len(set) |-> Relocated(set[j], base)]
           partTags == [j \in 1 .. Len(tags[layout]) |-> <<layout, tags[layout][j]>>]
<1>1. /\ Types /\ phase = "layout"
      /\ finalCode' = table \o part /\ finalTags' = finalTags \o partTags
      /\ layout' = layout - 1 /\ phase' = IF layout = 0 THEN "done" ELSE "layout"
      /\ UNCHANGED <<generatedCode, currentProcedure, register_ptr, procLevel, open,
                     statements, tags, goals>>
  BY DEF Inv, LinkSet
<1>2. /\ SomeEmpty /\ layout \in 0 .. Len(procLevel) /\ layout \in Nat
      /\ Len(procLevel) \in Nat /\ base >= u /\ base \in Nat
      /\ \A k \in 1 .. u : finalCode[k].op = "JMP" /\ finalTags[k] = <<FINAL_CODE, k - 1>>
      /\ \A p \in layout + 1 .. Len(procLevel) : LaidOut(p)
      /\ \A k \in u + 1 .. base : \E p \in layout + 1 .. Len(procLevel) :
           k - finalCode[p + 1].m \in 1 .. Len(generatedCode[p])
  <2>1. Len(procLevel) \in Nat /\ base \in Nat BY <1>1 DEF Types
  <2>2. u + 1 = Len(procLevel) + 2 BY <2>1
  <2>3. LayoutInv /\ phase \in {"layout", "done"} BY <1>1 DEF Inv
  <2>4. SomeEmpty /\ layout \in 0 .. Len(procLevel) BY <1>1, <2>3 DEF LayoutInv
  <2>5. layout \in Nat BY <2>1, <2>4
  <2>6. base >= u BY <2>3, <2>4 DEF LayoutInv
  <2>7. \A k \in 1 .. u : finalCode[k].op = "JMP" /\ finalTags[k] = <<FINAL_CODE, k - 1>>
    BY <2>3, <2>4 DEF LayoutInv
  <2>8. \A p \in layout + 1 .. Len(procLevel) : LaidOut(p) BY <2>3, <2>4 DEF LayoutInv
  <2>9. \A k \in Len(procLevel) + 2 .. base : \E p \in layout + 1 .. Len(procLevel) :
          k - finalCode[p + 1].m \in 1 .. Len(generatedCode[p])
    BY <2>3, <2>4 DEF LayoutInv
  <2> HIDE DEF u, base
  <2> QED BY <2>1, <2>2, <2>4, <2>5, <2>6, <2>7, <2>8, <2>9
<1>3. /\ layout \in Sets /\ set \in Seq(Instr) /\ Len(set) > 0 /\ Len(set) \in Nat
      /\ Len(tags[layout]) = Len(set) /\ tags[layout] \in Seq(Nat)
  BY <1>1, <1>2, UsedSetsIs DEF Types
<1>4. /\ table \in Seq(Instr) /\ Len(table) = base
      /\ \A k \in 1 .. base : IF k = layout + 1
                              THEN table[k].op = finalCode[k].op /\ table[k].m = base
                              ELSE table[k] = finalCode[k]
  BY <1>1, <1>2, Patched DEF Types
<1>5. /\ part \in Seq(Instr) /\ Len(part) = Len(set)
      /\ \A j \in 1 .. Len(set) : part[j] = Relocated(set[j], base)
  <2>1. \A j \in 1 .. Len(set) : Relocated(set[j], base) \in Instr
    BY <1>2, <1>3, RelocatedIs
  <2>2. part = [j \in 1 .. Len(set) |-> Relocated(set[j], base)] OBVIOUS
  <2> HIDE DEF set, base, part
  <2> QED BY <1>3, <2>1, <2>2
<1>6. /\ partTags \in Seq(Owners \X Nat) /\ Len(partTags) = Len(set)
      /\ \A j \in 1 .. Len(set) : partTags[j] = <<layout, tags[layout][j]>>
  <2>1. \A j \in 1 .. Len(set) : <<layout, tags[layout][j]>> \in Owners \X Nat
    BY <1>3 DEF Owners
  <2>2. partTags = [j \in 1 .. Len(set) |-> <<layout, tags[layout][j]>>] BY <1>3
  <2>3. PICK size \in Nat : size = Len(set) BY <1>3
  <2>4. PICK tagged : tagged = partTags OBVIOUS
  <2> HIDE DEF set, partTags
  <2>5. tagged = [j \in 1 .. size |-> <<layout, tags[layout][j]>>] BY <2>2, <2>3, <2>4
  <2>6. tagged \in [1 .. size -> Owners \X Nat] BY <2>1, <2>3, <2>5
  <2>7. tagged \in Seq(Owners \X Nat) /\ Len(tagged) = size BY <2>6
  <2>8. \A j \in 1 .. size : tagged[j] = <<layout, tags[layout][j]>> BY <2>5
  <2> QED BY <2>3, <2>4, <2>7, <2>8
<1>7. finalTags \in Seq(Owners \X Nat) /\ Len(finalTags) = base
  BY <1>1, <1>2 DEF Types, FinalTag
<1>a. /\ table \in Seq(Instr) /\ part \in Seq(Instr) /\ Len(table) = base
      /\ finalTags \in Seq(Owners \X Nat) /\ partTags \in Seq(Owners \X Nat)
  BY <1>4, <1>5, <1>6, <1>7
<1> HIDE DEF table, part, partTags, base, set
<1>8. /\ finalCode' \in Seq(Instr) /\ Len(finalCode') = base + Len(set)
      /\ \A k \in 1 .. base : finalCode'[k] = table[k]
      /\ \A j \in 1 .. Len(set) : finalCode'[base + j] = Relocated(set[j], base)
  <2>1. finalCode' = table \o part BY <1>1
  <2> DEFINE all == table \o part
  <2>a. table \in Seq(Instr) /\ part \in Seq(Instr) BY <1>a
  <2>b. /\ all \in Seq(Instr) /\ Len(all) = Len(table) + Len(part)
        /\ \A k \in 1 .. Len(table) : all[k] = table[k]
        /\ \A j \in 1 .. Len(part) : all[Len(table) + j] = part[j]
    BY <2>a, Joined
  <2>2. /\ all \in Seq(Instr) /\ Len(all) = base + Len(part)
        /\ \A k \in 1 .. base : all[k] = table[k]
        /\ \A j \in 1 .. Len(part) : all[base + j] = part[j]
    BY <1>a, <2>b
  <2> HIDE DEF all
  <2>3. finalCode' = all BY <2>1 DEF all
  <2>4. Len(part) = Len(set) /\ \A j \in 1 .. Len(set) : part[j] = Relocated(set[j], base)
    BY <1>5
  <2>5. \A j \in 1 .. Len(set) : all[base + j] = Relocated(set[j], base) BY <2>2, <2>4
  <2> QED BY <2>2, <2>3, <2>4, <2>5
<1>9. /\ finalTags' \in Seq(Owners \X Nat) /\ Len(finalTags') = base + Len(set)
      /\ \A k \in 1 .. base : finalTags'[k] = finalTags[k]
      /\ \A j \in 1 .. Len(set) : finalTags'[base + j] = <<layout, tags[layout][j]>>
  <2>1. finalTags' = finalTags \o partTags BY <1>1
  <2> DEFINE all == finalTags \o partTags
  <2>2. /\ all \in Seq(Owners \X Nat) /\ Len(all) = base + Len(partTags)
        /\ \A k \in 1 .. base : all[k] = finalTags[k]
        /\ \A j \in 1 .. Len(partTags) : all[base + j] = partTags[j]
    BY <1>7, <1>a, Joined
  <2> QED BY <1>6, <2>1, <2>2
<1>10. SomeEmpty' /\ phase' \in {"layout", "done"} BY <1>1, <1>2 DEF SomeEmpty
<1>11. StackInv' /\ SetsInv' /\ GoalsInv' /\ CellsInv' /\ CallsInv' /\ RegistersHeld'
  BY <1>1, LinkingKeeps
<1>12. Types'
  <2>1. FinalTag' = Owners \X Nat BY <1>10 DEF FinalTag, Owners, Sets
  <2>2. layout' \in -1 .. MaxSets - 1
    BY <1>1, <1>2, CodeGenAssumption DEF SomeEmpty
  <2> QED BY <1>1, <1>8, <1>9, <1>10, <2>1, <2>2 DEF Types, Sets, Owners
<1>13. layout + 1 \in 1 .. u /\ \A k \in 1 .. u : k \in 1 .. base BY <1>2
<1>14. \A k \in 1 .. u : finalCode'[k].op = "JMP" /\ finalTags'[k] = <<FINAL_CODE, k - 1>>
  <2> SUFFICES ASSUME NEW k \in 1 .. u
               PROVE  finalCode'[k].op = "JMP" /\ finalTags'[k] = <<FINAL_CODE, k - 1>>
    OBVIOUS
  <2>1. k \in 1 .. base BY <1>13
  <2>2. finalCode'[k] = table[k] /\ finalTags'[k] = finalTags[k] BY <1>8, <1>9, <2>1
  <2>3. table[k].op = finalCode[k].op BY <1>4, <2>1
  <2>4. finalCode[k].op = "JMP" /\ finalTags[k] = <<FINAL_CODE, k - 1>> BY <1>2
  <2> QED BY <2>2, <2>3, <2>4
<1>15. ASSUME NEW p \in layout' + 1 .. Len(procLevel) PROVE LaidOut(p)'
  <2>1. p \in layout .. Len(procLevel) /\ p \in 0 .. Len(procLevel) /\ p + 1 \in 1 .. u
    BY <1>1, <1>2
  <2>2. procLevel' = procLevel /\ generatedCode' = generatedCode /\ tags' = tags BY <1>1
  <2>3. CASE p = layout
    <3>1. finalCode'[p + 1].m = base BY <1>4, <1>8, <1>13, <2>3
    <3>2. base \in u .. Len(finalCode') - Len(set) BY <1>2, <1>3, <1>8
    <3>3. \A j \in 1 .. Len(set) :
            /\ finalCode'[base + j] = Relocated(set[j], base)
            /\ finalTags'[base + j] = <<p, tags[p][j]>>
      BY <1>8, <1>9, <2>3
    <3>4. set = generatedCode[p] BY <2>3 DEF set
    <3>5. finalCode'[p + 1].op = "JMP" BY <1>14, <2>1
    <3>6. base \in Len(procLevel) + 1 .. Len(finalCode') - Len(set) BY <3>2
    <3> QED BY <2>1, <2>2, <3>1, <3>3, <3>4, <3>5, <3>6 DEF LaidOut
  <2>4. CASE p # layout
    <3> DEFINE b == finalCode[p + 1].m
               code == generatedCode[p]
    <3>1. p \in layout + 1 .. Len(procLevel) BY <1>2, <2>1, <2>4
    <3>2. p \in Sets /\ Len(code) \in Nat BY <1>1, <1>2, <2>1, UsedSetsIs DEF Types
    <3>3. /\ b \in u .. base - Len(code)
          /\ \A j \in 1 .. Len(code) : /\ finalCode[b + j] = Relocated(code[j], b)
                                       /\ finalTags[b + j] = <<p, tags[p][j]>>
      BY <1>2, <3>1 DEF LaidOut, base
    <3>a. base \in Nat /\ u \in Nat /\ Len(set) \in Nat
          /\ Len(finalCode') = base + Len(set) /\ layout + 1 \in 1 .. u
      BY <1>2, <1>3, <1>8, <1>13
    <3>b. b \in Int /\ u <= b /\ b + Len(code) <= base BY <3>2, <3>3, <3>a
    <3> HIDE DEF b, code, u
    <3>4. finalCode'[p + 1] = finalCode[p + 1]
      <4>1. p + 1 # layout + 1 /\ p + 1 \in 1 .. base BY <1>2, <1>13, <2>1, <2>4
      <4> QED BY <1>4, <1>8, <4>1
    <3>5. \A j \in 1 .. Len(code) : b + j \in 1 .. base /\ b + j # layout + 1
      BY <3>2, <3>a, <3>b
    <3>6. \A j \in 1 .. Len(code) : /\ finalCode'[b + j] = finalCode[b + j]
                                    /\ finalTags'[b + j] = finalTags[b + j]
      BY <1>4, <1>8, <1>9, <3>5
    <3>7. b \in u .. Len(finalCode') - Len(code)
      BY <3>2, <3>a, <3>b
    <3> USE DEF b, code, u
    <3> QED BY <1>14, <2>1, <2>2, <3>3, <3>4, <3>6, <3>7 DEF LaidOut
  <2> QED BY <2>3, <2>4
<1>16. ASSUME NEW k \in u + 1 .. Len(finalCode')
       PROVE  \E p \in layout' + 1 .. Len(procLevel) :
                k - finalCode'[p + 1].m \in 1 .. Len(generatedCode[p])
  <2>1. CASE k <= base
    <3>1. k \in u + 1 .. base BY <1>2, <2>1
    <3>2. PICK p \in layout + 1 .. Len(procLevel) :
            k - finalCode[p + 1].m \in 1 .. Len(generatedCode[p])
      BY <1>2, <3>1
    <3>3. p \in layout' + 1 .. Len(procLevel) /\ p + 1 \in 1 .. u /\ p # layout
      BY <1>1, <1>2
    <3>4. p + 1 # layout + 1 BY <1>2, <3>3
    <3>5. finalCode'[p + 1] = finalCode[p + 1] BY <1>4, <1>8, <1>13, <3>3, <3>4
    <3> QED BY <3>2, <3>3, <3>5
  <2>2. CASE k > base
    <3>1. finalCode'[layout + 1].m = base BY <1>4, <1>8, <1>13
    <3>2. k - base \in 1 .. Len(set) BY <1>2, <1>3, <1>8, <2>2
    <3>3. layout \in layout' + 1 .. Len(procLevel) BY <1>1, <1>2
    <3> QED BY <3>1, <3>2, <3>3 DEF set
  <2> QED BY <1>2, <2>1, <2>2
<1>17. ASSUME phase' = "done"
       PROVE  /\ layout' = -1
              /\ finalCode'[Len(finalCode')] = newInstruction("SIO", 0, 0, 3)
  <2>1. layout = 0 BY <1>1, <1>17
  <2>2. ~IsOpen(0) BY <1>1, <1>3, <2>1, UsedSetsIs
  <2>3. set[Len(set)] = newInstruction("SIO", 0, 0, 3) BY <2>1, <2>2 DEF Inv, SetsInv, set
  <2>4. Len(set) \in 1 .. Len(set) BY <1>3
  <2>5. finalCode'[Len(finalCode')] = Relocated(set[Len(set)], base)
    BY <1>8, <2>4
  <2>6. Relocated(set[Len(set)], base) = set[Len(set)]
    BY <2>3 DEF Relocated, newInstruction
  <2> QED BY <1>1, <2>1, <2>3, <2>5, <2>6
<1>18. LayoutInv'
  <2>1. procLevel' = procLevel /\ generatedCode' = generatedCode BY <1>1
  <2>2. phase' = "layout" => layout' \in 0 .. Len(procLevel) BY <1>1, <1>2
  <2>3. Len(finalCode') >= Len(procLevel) + 1 BY <1>2, <1>3, <1>8
  <2>4. u + 1 = Len(procLevel) + 2 BY <1>2
  <2> QED BY <1>10, <1>14, <1>15, <1>16, <1>17, <2>1, <2>2, <2>3, <2>4 DEF LayoutInv
<1> QED BY <1>11, <1>12, <1>18 DEF Inv

-----------------------------------------------------------------------------
(* The invariant holds.                                                    *)

\* The invariant holds at first.
LEMMA InitCodeGen == Init => Inv
<1> SUFFICES ASSUME Init PROVE Inv OBVIOUS
<1> DEFINE frame == [kind |-> "block", due |-> TRUE, set |-> 0]
<1>1. /\ generatedCode = [s \in Sets |-> << >>] /\ finalCode = << >>
      /\ currentProcedure = 0 /\ register_ptr = 0 /\ procLevel = << >>
      /\ open = <<frame>> /\ statements = 0 /\ phase = "parse" /\ layout = 0
      /\ tags = [s \in Sets |-> << >>] /\ finalTags = << >>
      /\ goals = [s \in Sets |-> {}]
  BY DEF Init
<1>2. 0 \in Sets /\ 0 \in Owners BY CodeGenAssumption DEF Sets, Owners
<1>3. frame \in Frame /\ frame.kind = "block" /\ frame.set = 0 /\ ~Waiting(frame)
  BY <1>2 DEF Frame, Waiting
<1> HIDE DEF frame
<1>4. /\ open \in Seq(Frame) /\ Len(open) = 1 /\ open[1] = frame /\ open # << >>
      /\ \A i \in 1 .. Len(open) : i = 1
  BY <1>1, <1>3
<1>5. BlockAt(1) /\ Innermost(1) BY <1>3, <1>4 DEF BlockAt, Innermost
<1>6. Types
  BY <1>1, <1>2, <1>4, CodeGenAssumption DEF Types, FinalTag, Sets
<1>7. StackInv
  BY <1>1, <1>2, <1>3, <1>4, <1>5, CodeGenAssumption DEF StackInv, Sets, FINAL_CODE
<1>8. SetsInv
  <2>1. IsOpen(0) BY <1>3, <1>4, <1>5 DEF IsOpen
  <2>2. \A s \in Sets : s <= Len(procLevel) /\ ~IsOpen(s) => FALSE
    BY <1>1, <2>1 DEF Sets
  <2> QED BY <1>1, <2>1, <2>2 DEF SetsInv
<1>9. GoalsInv BY <1>1 DEF GoalsInv
<1>10. CellsInv BY <1>3, <1>4 DEF CellsInv
<1>11. CallsInv BY <1>1 DEF CallsInv
<1>12. RegistersHeld
  <2>1. Holders(open) = {} BY <1>3, <1>4 DEF Holders
  <2> QED BY <1>1, <2>1, FS_EmptySet, HeldByHolders
<1>13. LayoutInv BY <1>1 DEF LayoutInv
<1> QED BY <1>6, <1>7, <1>8, <1>9, <1>10, <1>11, <1>12, <1>13 DEF Inv

\* Every step keeps the invariant.
LEMMA NextCodeGen == Inv /\ [Next]_vars => Inv'
<1>1. ASSUME Inv, UNCHANGED vars PROVE Inv'
  <2>1. Types' BY <1>1 DEF vars, Inv, Types, FinalTag, SomeEmpty
  <2>2. StackInv' BY <1>1 DEF vars, Inv, StackInv, Innermost, BlockAt
  <2>a. \A s : Offset(s)' = Offset(s) /\ IsOpen(s)' = IsOpen(s)
    BY <1>1 DEF vars, Offset, IsOpen, BlockAt
  <2>b. SetsInv' BY <1>1, <2>a DEF vars, Inv, SetsInv
  <2>3. SetsInv' /\ GoalsInv' BY <1>1, <2>a, <2>b DEF vars, Inv, GoalsInv
  <2>4. CellsInv' /\ CallsInv' BY <1>1 DEF vars, Inv, CellsInv, CallsInv
  <2>5. RegistersHeld' BY <1>1 DEF vars, Inv, RegistersHeld
  <2>6. LayoutInv' BY <1>1 DEF vars, Inv, LayoutInv, LaidOut, SomeEmpty
  <2> QED BY <2>1, <2>2, <2>3, <2>4, <2>5, <2>6 DEF Inv
<1> QED BY <1>1, SimpleKeeps, BeginKeeps, SemicolonKeeps, EndKeeps, IfKeeps, ElseKeeps,
           EndIfKeeps, WhileKeeps, EndWhileKeeps, OpenProcedureKeeps,
           CloseProcedureKeeps, EndProgramKeeps, LinkJumpsKeeps, LinkSetKeeps DEF Next

\* The inductive invariant holds of every program that is compiled.
THEOREM CodeGenInvariant == Spec => []Inv
  BY InitCodeGen, NextCodeGen, PTL DEF Spec

-----------------------------------------------------------------------------
(* What the invariant says of the parse.                                   *)

\* The code sets, their tags and the parse stack always fit together, and the
\* current set is that of the innermost block that is being parsed, through
\* every call and return of blockParse.
THEOREM CodeGenType == Spec => []TypeOK
<1>1. Inv => TypeOK
  <2> SUFFICES ASSUME Inv PROVE TypeOK OBVIOUS
  <2> DEFINE Inner(i) == /\ open[i].kind = "block"
                         /\ \A j \in i + 1 .. Len(open) : open[j].kind # "block"
             c == CHOOSE i \in 1 .. Len(open) : Inner(i)
  <2>1. Types /\ StackInv /\ register_ptr \in Nat BY Numbers DEF Inv
  <2>2. Len(open) \in Nat BY <2>1 DEF Types
  <2>3. ASSUME open # << >> PROVE currentProcedure = open[c].set
    <3>1. PICK i \in 1 .. Len(open) : Innermost(i) BY <2>1, <2>3 DEF StackInv
    <3>2. Inner(i)
      <4>1. open[i].kind = "block" BY <3>1 DEF Innermost, BlockAt
      <4>2. ASSUME NEW j \in i + 1 .. Len(open), open[j].kind = "block" PROVE FALSE
        <5>1. j \in 1 .. Len(open) /\ i + 1 \in 1 .. j BY <2>2, <4>2
        <5>2. BlockAt(j) BY <4>2, <5>1 DEF BlockAt
        <5>3. BlockAt(i + 1) BY <2>1, <5>1, <5>2 DEF StackInv
        <5> QED BY <3>1, <5>3 DEF Innermost
      <4> QED BY <4>1, <4>2
    <3>3. c \in 1 .. Len(open) /\ Inner(c) BY <3>2
    <3> HIDE DEF c
    <3>4. ~BlockAt(c + 1)
      <4>1. c + 1 \in 1 .. Len(open) => c + 1 \in c + 1 .. Len(open) BY <2>2, <3>3
      <4> QED BY <3>3, <4>1 DEF BlockAt
    <3>5. Innermost(c) BY <3>3, <3>4 DEF Innermost, BlockAt
    <3> QED BY <2>1, <3>3, <3>5 DEF StackInv
  <2>4. currentProcedure \in Sets \cup {FINAL_CODE} BY <2>1 DEF Types, Owners
  <2> QED BY <2>1, <2>3, <2>4 DEF TypeOK, Types
<1> QED BY <1>1, CodeGenInvariant, PTL

\* A register is held for the condition of each if and while that is not over,
\* and for nothing else, from one procedure to the next: register_ptr, which
\* statementParse counts up and down in different places, does not drift.
THEOREM RegistersBalance == Spec => []RegistersHeld
<1>1. Inv => RegistersHeld BY DEF Inv
<1> QED BY <1>1, CodeGenInvariant, PTL

-----------------------------------------------------------------------------
(* What the invariant says of the linked program.                          *)

Finished == phase = "done" /\ SomeEmpty
BaseOf(s) == finalCode[s + 1].m
SizeOf(s) == Len(generatedCode[s])

\* A program that was linked left a set empty.
LEMMA LinkedFinished == Inv /\ Linked => Finished
<1> SUFFICES ASSUME Inv, Linked PROVE Finished OBVIOUS
<1>1. phase = "done" /\ UsedSets > 0 BY DEF Linked
<1> QED BY <1>1, UsedSetsIs DEF Finished

\* The block of a procedure in the final code.
LEMMA BlockOf ==
  ASSUME Inv, Finished, NEW s \in 0 .. Len(procLevel)
  PROVE  /\ s \in Sets /\ s \in Nat /\ SizeOf(s) \in Nat \ {0} /\ BaseOf(s) \in Nat
         /\ Len(procLevel) + 1 <= BaseOf(s) /\ BaseOf(s) + SizeOf(s) <= Len(finalCode)
         /\ finalCode[s + 1].op = "JMP"
         /\ \A j \in 1 .. SizeOf(s) :
              /\ generatedCode[s][j] \in Instr
              /\ finalCode[BaseOf(s) + j] = Relocated(generatedCode[s][j], BaseOf(s))
              /\ tags[s][j] = j - 1 /\ finalTags[BaseOf(s) + j] = <<s, j - 1>>
<1>1. Types /\ LayoutInv /\ SetsInv /\ phase = "done" /\ SomeEmpty BY DEF Inv, Finished
<1>2. /\ s \in Sets /\ SizeOf(s) > 0 /\ Offset(s) = 1 /\ Len(procLevel) \in Nat
  BY <1>1, UsedSetsIs DEF SizeOf
<1>3. layout = -1 /\ LaidOut(s) BY <1>1, <1>2 DEF LayoutInv
<1>4. generatedCode[s] \in Seq(Instr) /\ Len(tags[s]) = SizeOf(s)
  BY <1>1, <1>2 DEF Types, SizeOf
<1>5. \A j \in 1 .. SizeOf(s) : tags[s][j] = j - 1 BY <1>1, <1>2, <1>4 DEF SetsInv
<1>6. /\ finalCode[s + 1].op = "JMP"
      /\ BaseOf(s) \in Len(procLevel) + 1 .. Len(finalCode) - SizeOf(s)
      /\ \A j \in 1 .. SizeOf(s) :
           /\ finalCode[BaseOf(s) + j] = Relocated(generatedCode[s][j], BaseOf(s))
           /\ finalTags[BaseOf(s) + j] = <<s, tags[s][j]>>
  BY <1>3 DEF LaidOut, BaseOf, SizeOf
<1>7. SizeOf(s) \in Nat /\ Len(finalCode) \in Nat
      /\ \A j \in 1 .. SizeOf(s) : generatedCode[s][j] \in Instr
  BY <1>1, <1>4 DEF SizeOf, Types
<1>8. BaseOf(s) \in Nat /\ Len(procLevel) + 1 <= BaseOf(s)
      /\ BaseOf(s) + SizeOf(s) <= Len(finalCode)
  BY <1>2, <1>6, <1>7
<1> QED BY <1>2, <1>5, <1>6, <1>7, <1>8

\* Whatever is behind the table is in the block of a procedure.
LEMMA InABlock ==
  ASSUME Inv, Finished, NEW k \in 1 .. Len(finalCode)
  PROVE  \/ finalCode[k].op = "JMP" /\ finalTags[k] = <<FINAL_CODE, k - 1>>
         \/ \E p \in 0 .. Len(procLevel) : \E j \in 1 .. SizeOf(p) : k = BaseOf(p) + j
<1>1. Types /\ LayoutInv /\ phase = "done" /\ SomeEmpty BY DEF Inv, Finished
<1>2. layout = -1 /\ Len(procLevel) \in Nat BY <1>1 DEF LayoutInv, Types
<1>3. CASE k \in 1 .. Len(procLevel) + 1 BY <1>1, <1>3 DEF LayoutInv
<1>4. CASE k \in Len(procLevel) + 2 .. Len(finalCode)
  <2>1. PICK p \in layout + 1 .. Len(procLevel) :
          k - finalCode[p + 1].m \in 1 .. Len(generatedCode[p])
    BY <1>1, <1>4 DEF LayoutInv
  <2>2. p \in 0 .. Len(procLevel) BY <1>2, <2>1
  <2>3. k - BaseOf(p) \in 1 .. SizeOf(p) BY <2>1 DEF BaseOf, SizeOf
  <2>4. k = BaseOf(p) + (k - BaseOf(p)) BY <2>2, BlockOf
  <2> QED BY <2>2, <2>3, <2>4
<1>5. k \in 1 .. Len(procLevel) + 1 \/ k \in Len(procLevel) + 2 .. Len(finalCode)
  BY <1>2
<1> QED BY <1>3, <1>4, <1>5

\* The instructions of a set are those of its block, and those of a set that
\* was never handed out are nowhere.
LEMMA IndicesAre ==
  ASSUME Inv, Finished, NEW s \in Sets
  PROVE  Indices(s) = IF s <= Len(procLevel) THEN BaseOf(s) + 1 .. BaseOf(s) + SizeOf(s)
                                             ELSE {}
<1>1. Len(finalTags) = Len(finalCode) /\ Len(procLevel) \in Nat /\ s \in Nat
  BY DEF Inv, Types, Sets
<1>2. ASSUME NEW k \in Indices(s)
      PROVE  s <= Len(procLevel) /\ k \in BaseOf(s) + 1 .. BaseOf(s) + SizeOf(s)
  <2>1. k \in 1 .. Len(finalCode) /\ finalTags[k][1] = s BY <1>1, <1>2 DEF Indices
  <2>2. finalTags[k] # <<FINAL_CODE, k - 1>> BY <1>1, <2>1 DEF FINAL_CODE
  <2>a. PICK p \in 0 .. Len(procLevel) : \E j \in 1 .. SizeOf(p) : k = BaseOf(p) + j
    BY <2>1, <2>2, InABlock
  <2>3. PICK j \in 1 .. SizeOf(p) : k = BaseOf(p) + j BY <2>a
  <2>4. finalTags[k] = <<p, j - 1>> /\ BaseOf(p) \in Nat /\ SizeOf(p) \in Nat
    BY <2>3, BlockOf
  <2>5. p = s BY <2>1, <2>4
  <2> QED BY <1>1, <2>3, <2>4, <2>5
<1>3. ASSUME s <= Len(procLevel), NEW k \in BaseOf(s) + 1 .. BaseOf(s) + SizeOf(s)
      PROVE  k \in Indices(s)
  <2>1. s \in 0 .. Len(procLevel) BY <1>1, <1>3
  <2>2. /\ BaseOf(s) \in Nat /\ SizeOf(s) \in Nat
        /\ BaseOf(s) + SizeOf(s) <= Len(finalCode)
    BY <2>1, BlockOf
  <2>3. PICK j \in 1 .. SizeOf(s) : k = BaseOf(s) + j
    <3>1. k - BaseOf(s) \in 1 .. SizeOf(s) /\ k = BaseOf(s) + (k - BaseOf(s))
      BY <1>3, <2>2
    <3> QED BY <3>1
  <2>4. finalTags[k] = <<s, j - 1>> BY <2>1, <2>3, BlockOf
  <2>5. k \in 1 .. Len(finalTags) BY <1>1, <2>2, <2>3
  <2> QED BY <2>4, <2>5 DEF Indices
<1> QED BY <1>2, <1>3

\* Where: the n-th instruction of a set is n behind the INC of its block, and
\* an instruction that was not emitted any more would be behind the last one.
LEMMA WhereIs ==
  ASSUME Inv, Finished, NEW s \in 0 .. Len(procLevel), NEW n \in 0 .. SizeOf(s)
  PROVE  Where(s, n) = BaseOf(s) + n
<1>1. /\ s \in Sets /\ s <= Len(procLevel) /\ BaseOf(s) \in Nat /\ SizeOf(s) \in Nat
      /\ SizeOf(s) > 0 /\ n \in Nat
  BY BlockOf
<1>2. \A k \in Indices(s) :
        /\ k - BaseOf(s) \in 1 .. SizeOf(s) /\ k = BaseOf(s) + (k - BaseOf(s))
        /\ k \in Int
  BY <1>1, IndicesAre
<1>3. \A k \in Indices(s) : finalTags[k][2] = k - BaseOf(s) - 1
  <2> SUFFICES ASSUME NEW k \in Indices(s) PROVE finalTags[k][2] = k - BaseOf(s) - 1
    OBVIOUS
  <2>1. PICK j \in 1 .. SizeOf(s) : k = BaseOf(s) + j /\ j = k - BaseOf(s) BY <1>2
  <2>2. finalTags[k] = <<s, j - 1>> BY <2>1, BlockOf
  <2> QED BY <2>1, <2>2
<1>4. CASE n < SizeOf(s)
  <2> DEFINE k0 == BaseOf(s) + n + 1
  <2>1. k0 \in Indices(s) /\ k0 \in Nat BY <1>1, <1>4, IndicesAre
  <2>2. finalTags[k0][2] = n BY <1>1, <1>3, <2>1
  <2>3. ASSUME NEW k \in Indices(s), finalTags[k][2] = n PROVE k = k0
    <3>1. k \in Int /\ k - BaseOf(s) - 1 = n BY <1>2, <1>3, <2>3
    <3> QED BY <1>1, <3>1
  <2> HIDE DEF k0
  <2>4. (CHOOSE k \in Indices(s) : finalTags[k][2] = n) = k0 BY <2>1, <2>2, <2>3
  <2>5. Where(s, n) = k0 - 1 BY <2>1, <2>2, <2>4 DEF Where
  <2> QED BY <1>1, <2>5 DEF k0
<1>5. CASE n = SizeOf(s)
  <2> DEFINE k0 == BaseOf(s) + n
  <2>1. k0 \in Indices(s) BY <1>1, <1>5, IndicesAre
  <2>2. \A k \in Indices(s) : k <= k0 /\ finalTags[k][2] # n
    BY <1>1, <1>2, <1>3, <1>5
  <2>3. \A k \in Indices(s) : (\A j \in Indices(s) : j <= k) => k = k0
    BY <1>1, <1>2, <2>1, <2>2
  <2> HIDE DEF k0
  <2>4. (CHOOSE k \in Indices(s) : \A j \in Indices(s) : j <= k) = k0
    BY <2>1, <2>2, <2>3
  <2>5. Where(s, n) = k0 BY <2>2, <2>4 DEF Where
  <2> QED BY <2>5 DEF k0
<1> QED BY <1>1, <1>4, <1>5

\* After linking, every jump of every procedure goes to the instruction that
\* the statement it was generated for meant, although changeM patched it
\* before prependCode put INC in front of its set and before prepareMcode gave
\* the set its place.
THEOREM JumpsArrive == Spec => []JumpsLand
<1>1. Inv => JumpsLand
  <2> SUFFICES ASSUME Inv, Linked, NEW s \in Sets, NEW g \in goals[s]
               PROVE  finalCode[Where(s, g[1]) + 1].m = Where(s, g[2])
    BY DEF JumpsLand
  <2>1. Finished /\ phase = "done" BY LinkedFinished DEF Linked
  <2>2. s \in 0 .. Len(procLevel)
    <3>1. ~(s > Len(procLevel)) BY DEF Inv, SetsInv
    <3> QED BY <3>1 DEF Inv, Types, Sets
  <2>3. /\ BaseOf(s) \in Nat /\ SizeOf(s) \in Nat /\ Offset(s) = 1
    BY <2>1, <2>2, BlockOf, UsedSetsIs
  <2>4. /\ g[1] \in 1 .. SizeOf(s) - 1 /\ g[2] \in 1 .. SizeOf(s)
        /\ generatedCode[s][g[1] + 1].op \in Jumps
        /\ generatedCode[s][g[1] + 1].m = g[2] - 1
    <3>1. /\ g[1] \in 1 .. SizeOf(s) - 1 /\ g[2] \in 1 .. SizeOf(s) + 1 - 1
          /\ generatedCode[s][g[1] + 1].op \in Jumps
          /\ generatedCode[s][g[1] + 1].m = g[2] - 1
      BY <2>3 DEF Inv, GoalsInv, SizeOf
    <3> QED BY <2>3, <3>1
  <2>5. Where(s, g[1]) = BaseOf(s) + g[1] /\ Where(s, g[2]) = BaseOf(s) + g[2]
    <3>1. g[1] \in 0 .. SizeOf(s) /\ g[2] \in 0 .. SizeOf(s) BY <2>3, <2>4
    <3> QED BY <2>1, <2>2, <3>1, WhereIs
  <2>6. PICK j \in 1 .. SizeOf(s) : j = g[1] + 1 BY <2>3, <2>4
  <2>7. /\ generatedCode[s][j] \in Instr
        /\ finalCode[BaseOf(s) + j] = Relocated(generatedCode[s][j], BaseOf(s))
    BY <2>1, <2>2, BlockOf
  <2>8. finalCode[BaseOf(s) + j].m = g[2] - 1 + BaseOf(s) + 1
    <3>1. generatedCode[s][j].op \in Jumps /\ generatedCode[s][j].m = g[2] - 1
      BY <2>4, <2>6
    <3>2. Relocated(generatedCode[s][j], BaseOf(s)).m
            = generatedCode[s][j].m + BaseOf(s) + 1
      BY <2>3, <2>7, <3>1, RelocatedIs
    <3> QED BY <2>7, <3>1, <3>2
  <2>9. Where(s, g[1]) + 1 = BaseOf(s) + j BY <2>3, <2>4, <2>5, <2>6
  <2> QED BY <2>3, <2>4, <2>5, <2>8, <2>9
<1> QED BY <1>1, CodeGenInvariant, PTL

\* Every CAL goes through the table of jumps to the INC that opens the code of
\* the procedure it names, and the first jump goes to the main block's.
THEOREM CallsArrive == Spec => []CallsReachBody
<1>1. Inv => CallsReachBody
  <2> SUFFICES ASSUME Inv, Linked
               PROVE  /\ \A p \in 0 .. Len(procLevel) :
                           /\ EntryOf(p).op = "JMP"
                           /\ finalTags[EntryOf(p).m + 1] = <<p, 0>>
                           /\ finalCode[EntryOf(p).m + 1].op = "INC"
                      /\ \A k \in 1 .. Len(finalCode) :
                           finalCode[k].op = "CAL" => finalCode[k].m \in 1 .. Len(procLevel)
    BY DEF CallsReachBody
  <2>1. Finished /\ phase = "done" BY LinkedFinished DEF Linked
  <2>2. ASSUME NEW p \in 0 .. Len(procLevel)
        PROVE  /\ EntryOf(p).op = "JMP" /\ finalTags[EntryOf(p).m + 1] = <<p, 0>>
               /\ finalCode[EntryOf(p).m + 1].op = "INC"
    <3>1. /\ EntryOf(p).m = BaseOf(p) /\ EntryOf(p) = finalCode[p + 1]
      BY DEF EntryOf, BaseOf
    <3>2. /\ p \in Sets /\ p <= Len(procLevel) /\ BaseOf(p) \in Nat
          /\ 1 \in 1 .. SizeOf(p) /\ finalCode[p + 1].op = "JMP"
      BY <2>1, BlockOf
    <3>3. PICK j \in 1 .. SizeOf(p) : j = 1 BY <3>2
    <3>4. /\ generatedCode[p][j] \in Instr /\ finalTags[BaseOf(p) + j] = <<p, j - 1>>
          /\ finalCode[BaseOf(p) + j] = Relocated(generatedCode[p][j], BaseOf(p))
      BY <2>1, BlockOf
    <3>5. generatedCode[p][1].op = "INC"
      BY <2>1, <3>2, UsedSetsIs DEF Inv, SetsInv
    <3>6. finalCode[BaseOf(p) + 1].op = "INC" BY <3>2, <3>3, <3>4, <3>5, RelocatedIs
    <3>7. j - 1 = 0 BY <3>3
    <3> QED BY <3>1, <3>2, <3>3, <3>4, <3>6, <3>7
  <2>3. ASSUME NEW k \in 1 .. Len(finalCode), finalCode[k].op = "CAL"
        PROVE  finalCode[k].m \in 1 .. Len(procLevel)
    <3>a. PICK p \in 0 .. Len(procLevel) : \E j \in 1 .. SizeOf(p) : k = BaseOf(p) + j
      BY <2>1, <2>3, InABlock
    <3>1. PICK j \in 1 .. SizeOf(p) : k = BaseOf(p) + j BY <3>a
    <3>2. /\ p \in Sets /\ BaseOf(p) \in Nat /\ generatedCode[p][j] \in Instr
          /\ finalCode[k] = Relocated(generatedCode[p][j], BaseOf(p))
      BY <2>1, <3>1, BlockOf
    <3>b. Relocated(generatedCode[p][j], BaseOf(p)).op = generatedCode[p][j].op
      BY <3>2, RelocatedIs
    <3>3. generatedCode[p][j].op = "CAL" BY <2>3, <3>2, <3>b
    <3>4. finalCode[k] = generatedCode[p][j]
      BY <3>2, <3>3, RelocatedIs DEF Jumps
    <3> QED BY <3>2, <3>3, <3>4 DEF Inv, CallsInv, SizeOf
  <2> QED BY <2>2, <2>3
<1> QED BY <1>1, CodeGenInvariant, PTL

\* As long as a code set is left empty, prepareMcode, which stops counting at
\* the first empty one, loses nothing: each instruction of each set is in the
\* final code once, in the order of its set, and the last one halts.  With all
\* MAX_CODE_SETS in use it finds none, and the final code stays empty.
THEOREM LinkingComplete == Spec => [](SomeEmpty => NothingLost)
<1>1. Inv => (SomeEmpty => NothingLost)
  <2> SUFFICES ASSUME Inv, Finished
               PROVE  /\ \A s \in Sets :
                           /\ Cardinality(Indices(s)) = Len(generatedCode[s])
                           /\ \A i, j \in Indices(s) :
                                i < j => \E a, b \in 1 .. Len(tags[s]) :
                                  /\ a < b /\ tags[s][a] = finalTags[i][2]
                                  /\ tags[s][b] = finalTags[j][2]
                      /\ finalCode[Len(finalCode)] = newInstruction("SIO", 0, 0, 3)
    BY DEF NothingLost, Finished
  <2>1. finalCode[Len(finalCode)] = newInstruction("SIO", 0, 0, 3)
    BY DEF Inv, LayoutInv, Finished
  <2>2. ASSUME NEW s \in Sets PROVE Cardinality(Indices(s)) = Len(generatedCode[s])
    <3>1. s \in Nat /\ Len(procLevel) \in Nat BY DEF Sets, Inv, Types
    <3>2. CASE s <= Len(procLevel)
      <4>1. s \in 0 .. Len(procLevel) BY <3>1, <3>2
      <4>2. BaseOf(s) \in Nat /\ SizeOf(s) \in Nat BY <4>1, BlockOf
      <4>3. Cardinality(BaseOf(s) + 1 .. BaseOf(s) + SizeOf(s)) = SizeOf(s)
        <5> DEFINE lo == BaseOf(s) + 1
                   hi == BaseOf(s) + SizeOf(s)
        <5>1. lo \in Int /\ hi \in Int /\ (lo > hi => SizeOf(s) = 0)
              /\ hi - lo + 1 = SizeOf(s)
          BY <4>2
        <5>2. Cardinality(lo .. hi) = IF lo > hi THEN 0 ELSE hi - lo + 1
          BY <5>1, FS_Interval
        <5> QED BY <5>1, <5>2
      <4> QED BY <3>2, <4>3, IndicesAre DEF SizeOf
    <3>3. CASE s > Len(procLevel)
      <4>1. Indices(s) = {} BY <3>1, <3>3, IndicesAre
      <4>2. generatedCode[s] = << >> BY <3>3 DEF Inv, SetsInv
      <4> QED BY <4>1, <4>2, FS_EmptySet
    <3> QED BY <3>1, <3>2, <3>3
  <2>3. ASSUME NEW s \in Sets, NEW i \in Indices(s), NEW j \in Indices(s), i < j
        PROVE  \E a, b \in 1 .. Len(tags[s]) :
                 a < b /\ tags[s][a] = finalTags[i][2] /\ tags[s][b] = finalTags[j][2]
    <3>1. s \in Nat /\ Len(procLevel) \in Nat BY DEF Sets, Inv, Types
    <3>2. s \in 0 .. Len(procLevel) BY <2>3, <3>1, IndicesAre
    <3>3. BaseOf(s) \in Nat /\ SizeOf(s) \in Nat /\ Len(tags[s]) = SizeOf(s)
      BY <3>2, BlockOf DEF Inv, Types, SizeOf
    <3>4. \A k \in Indices(s) :
            k - BaseOf(s) \in 1 .. SizeOf(s) /\ k = BaseOf(s) + (k - BaseOf(s))
      BY <3>2, <3>3, IndicesAre
    <3>5. PICK a \in 1 .. SizeOf(s) : i = BaseOf(s) + a BY <3>4
    <3>6. PICK b \in 1 .. SizeOf(s) : j = BaseOf(s) + b BY <3>4
    <3>7. a < b BY <2>3, <3>3, <3>5, <3>6
    <3>8. /\ tags[s][a] = a - 1 /\ finalTags[i] = <<s, a - 1>>
          /\ tags[s][b] = b - 1 /\ finalTags[j] = <<s, b - 1>>
      BY <3>2, <3>5, <3>6, BlockOf
    <3> QED BY <3>3, <3>7, <3>8
  <2> QED BY <2>1, <2>2, <2>3
<1> QED BY <1>1, CodeGenInvariant, PTL
=============================================================================
