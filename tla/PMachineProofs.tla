----------------------------- MODULE PMachineProofs -----------------------------
(***************************************************************************)
(* Proofs about the P-machine, for every code file, input, word size and   *)
(* array size the assumptions of PMachine allow: the machine's state keeps *)
(* its type, the link words of disciplined code survive, and such code     *)
(* calls and returns as CallStack says.                                    *)
(***************************************************************************)
EXTENDS PMachine, TLAPS

-----------------------------------------------------------------------------
(* Arithmetic.                                                             *)

\* The remainder of a division by a positive number is below that number.
LEMMA ModRange == ASSUME NEW a \in Int, NEW b \in Nat \ {0}
                  PROVE  a % b \in 0 .. b - 1
  OBVIOUS

\* Whatever the exact result of an operation is, the word kept is an int.
LEMMA WrapWord == ASSUME NEW x \in Int PROVE Wrap(x) \in Word
<1>1. MaxInt \in Nat BY SizesAssumption
<1>2. x + MaxInt + 1 \in Int /\ 2 * MaxInt + 2 \in Nat \ {0} BY <1>1
<1>3. (x + MaxInt + 1) % (2 * MaxInt + 2) \in 0 .. (2 * MaxInt + 2) - 1
  BY <1>2, ModRange
<1> QED BY <1>1, <1>3 DEF Wrap, Word

\* A word that fits is kept as it is.
LEMMA WrapFits == ASSUME NEW x \in Word PROVE Wrap(x) = x
<1>1. MaxInt \in Nat BY SizesAssumption
<1>2. x + MaxInt + 1 \in 0 .. (2 * MaxInt + 2) - 1 BY <1>1 DEF Word
<1>3. ASSUME NEW b \in Nat \ {0}, NEW a \in 0 .. b - 1 PROVE a % b = a OBVIOUS
<1>4. (x + MaxInt + 1) % (2 * MaxInt + 2) = x + MaxInt + 1 BY <1>1, <1>2, <1>3
<1> QED BY <1>1, <1>4 DEF Wrap, Word

\* C's division of ints that are not zero yields an integer.
LEMMA QuotientInt == ASSUME NEW x \in Int, NEW y \in Int, y # 0
                     PROVE  Quotient(x, y) \in Int
<1>1. Magnitude(x) \in Nat /\ Magnitude(y) \in Nat \ {0} BY DEF Magnitude
<1>2. ASSUME NEW a \in Nat, NEW b \in Nat \ {0} PROVE a \div b \in Int OBVIOUS
<1>3. Magnitude(x) \div Magnitude(y) \in Int BY <1>1, <1>2
<1> QED BY <1>3 DEF Quotient

\* The oddness of an int is -1, 0 or 1.
LEMMA OddSmall == ASSUME NEW x \in Int PROVE Remainder(x, 2) \in -1 .. 1
<1>1. CASE x < 0
  <2>1. Magnitude(x) = -x /\ Magnitude(2) = 2 BY <1>1 DEF Magnitude
  <2>2. Quotient(x, 2) = -((-x) \div 2) BY <1>1, <2>1 DEF Quotient
  <2> QED BY <1>1, <2>2 DEF Remainder
<1>2. CASE x >= 0
  <2>1. Magnitude(x) = x /\ Magnitude(2) = 2 BY <1>2 DEF Magnitude
  <2>2. Quotient(x, 2) = x \div 2 BY <1>2, <2>1 DEF Quotient
  <2> QED BY <1>2, <2>2 DEF Remainder
<1> QED BY <1>1, <1>2

\* Every arithmetic instruction and every comparison yields an int, unless it
\* divides by zero.
LEMMA ResultWord ==
  ASSUME NEW op \in Arithmetic \cup Comparison, NEW x \in Word, NEW y \in Word,
         op \in {"DIV", "MOD"} => y # 0
  PROVE  Result(op, x, y) \in Word
<1>1. x \in Int /\ y \in Int /\ 0 \in Word /\ 1 \in Word
  BY SizesAssumption DEF Word
<1>2. CASE op \in {"ADD", "SUB", "MUL"}
  <2>1. x + y \in Int /\ x - y \in Int /\ x * y \in Int BY <1>1
  <2> HIDE DEF Wrap
  <2> QED BY <1>2, <2>1, WrapWord DEF Result
<1>3. CASE op \in {"DIV", "MOD"}
  <2>1. Quotient(x, y) \in Int BY <1>1, <1>3, QuotientInt
  <2>2. x - y * Quotient(x, y) \in Int BY <1>1, <2>1
  <2> QED BY <1>3, <2>1, <2>2, WrapWord DEF Result, Remainder
<1>4. CASE op \in Comparison
  BY <1>1, <1>4 DEF Result, Comparison, Truth
<1> QED BY <1>2, <1>3, <1>4 DEF Arithmetic
-----------------------------------------------------------------------------
(* Type correctness.                                                       *)

\* What a step does not look into stays out of the obligations.
LEMMA SmallNumbersAreWords ==
  /\ MaxInt \in Nat /\ {-1, 0, 1, 2, 3, 4} \subseteq Word
  /\ Addr \subseteq Word /\ Location \subseteq Word
  BY SizesAssumption DEF Word, Addr, Location

\* The file run_vm is given replaces the front of the code segment.
LEMMA LoadCodeType ==
  ASSUME TypeOK, NEW file \in Seq(Instruction), LoadCode(file)
  PROVE  code' \in [Location -> Instruction] /\ Loaded(file) \in Nat
<1>1. ASSUME NEW a \in Location, a < Len(file) PROVE file[a + 1] \in Instruction
  <2>1. a + 1 \in 1 .. Len(file) BY <1>1 DEF Location
  <2> QED BY <2>1
<1>2. Len(file) \in Nat OBVIOUS
<1> QED BY <1>1, <1>2 DEF TypeOK, LoadCode, Loaded

\* A mark is a word and stays inside the array and the words after it.
LEMMA MarkFrameType ==
  ASSUME TypeOK, NEW mark \in Word, NEW newStatus \in Word,
         frameLevel \in 0 .. MaxLexi + 2, MarkFrame(frameLevel, mark, newStatus)
  PROVE  /\ frameBreak' \in [0 .. MaxLexi - 1 -> Word]
         /\ numInstructions' \in Word /\ status' \in Word
  BY SizesAssumption DEF TypeOK, MarkFrame

\* An instruction that is fetched is an instruction, and its effect is defined.
LEMMA FetchedType ==
  ASSUME TypeOK, NEW ops, Fetched(ops)
  PROVE  /\ pc \in Location /\ code[pc] \in Instruction /\ code[pc].op \in ops
         /\ code[pc].r \in Word /\ code[pc].l \in Word /\ code[pc].m \in Word
         /\ pc + 1 \in Word /\ Defined(code[pc])
<1>1. pc \in Location BY SizesAssumption DEF TypeOK, Fetched, PastEnd, Location, Word
<1>2. pc + 1 \in Word BY <1>1, SizesAssumption DEF Location, Word
<1>3. code[pc] \in Instruction BY <1>1 DEF TypeOK
<1> QED BY <1>1, <1>2, <1>3 DEF Fetched, Instruction

\* The value of a register instruction is an int.
LEMMA ValueWord ==
  ASSUME TypeOK,
         Fetched({"LIT", "LOD", "NEG", "ODD"} \cup Arithmetic \cup Comparison)
  PROVE  Value(code[pc]) \in Word /\ code[pc].r \in Reg
<1> DEFINE ir == code[pc]
<1>1. /\ ir.op \in {"LIT", "LOD", "NEG", "ODD"} \cup Arithmetic \cup Comparison
      /\ ir.m \in Word /\ Defined(ir)
  BY FetchedType
<1>2. Operands(ir) \subseteq Reg BY <1>1 DEF Defined
<1>3. CASE ir.op \in Arithmetic \cup Comparison
  <2>0. Operands(ir) = {ir.r, ir.l, ir.m}
    BY <1>3 DEF Operands, Arithmetic, Comparison
  <2>1. {ir.r, ir.l, ir.m} \subseteq Reg BY <1>2, <2>0
  <2>2. r[ir.l] \in Word /\ r[ir.m] \in Word BY <2>1 DEF TypeOK
  <2>3. ir.op \in {"DIV", "MOD"} => r[ir.m] # 0 BY <1>1 DEF Defined
  <2>4. Result(ir.op, r[ir.l], r[ir.m]) \in Word BY <1>3, <2>2, <2>3, ResultWord
  <2>5. Value(ir) = Result(ir.op, r[ir.l], r[ir.m])
    BY <1>3 DEF Value, Arithmetic, Comparison
  <2> QED BY <2>1, <2>4, <2>5
<1>4. CASE ir.op = "LIT" BY <1>1, <1>2, <1>4 DEF Value, Operands, Arithmetic, Comparison
<1>5. CASE ir.op = "LOD"
  <2>1. Target(ir) \in Addr BY <1>1, <1>5 DEF Defined
  <2>2. stack[Target(ir)] \in Word BY <2>1 DEF TypeOK
  <2>3. Value(ir) = stack[Target(ir)] BY <1>5 DEF Value
  <2>4. Operands(ir) = {ir.r} BY <1>5 DEF Operands, Arithmetic, Comparison
  <2> QED BY <1>2, <2>2, <2>3, <2>4
<1>6. CASE ir.op = "NEG"
  <2>1. Operands(ir) = {ir.r, ir.l} BY <1>6 DEF Operands, Arithmetic, Comparison
  <2>2. r[ir.l] \in Word BY <1>2, <2>1 DEF TypeOK
  <2>3. -r[ir.l] \in Int BY <2>2, SizesAssumption DEF Word
  <2>4. Value(ir) = Wrap(-r[ir.l]) BY <1>6 DEF Value
  <2> QED BY <1>2, <2>1, <2>3, <2>4, WrapWord
<1>7. CASE ir.op = "ODD"
  <2>1. Operands(ir) = {ir.r} BY <1>7 DEF Operands, Arithmetic, Comparison
  <2>2. r[ir.r] \in Word BY <1>2, <2>1 DEF TypeOK
  <2>3. Remainder(r[ir.r], 2) \in -1 .. 1 BY <2>2, OddSmall, SizesAssumption DEF Word
  <2>4. Value(ir) = Remainder(r[ir.r], 2) BY <1>7 DEF Value
  <2> QED BY <1>2, <2>1, <2>3, <2>4, SizesAssumption DEF Word
<1> QED BY <1>1, <1>3, <1>4, <1>5, <1>6, <1>7
LEMMA InitType == Init => TypeOK
<1> SUFFICES ASSUME Init PROVE TypeOK OBVIOUS
<1>1. NulInstruction \in Instruction
  BY SmallNumbersAreWords DEF NulInstruction, Instruction, Opcode
<1>2. /\ r \in [Reg -> Word] /\ stack \in [Addr -> Word]
      /\ code \in [Location -> Instruction]
      /\ frameBreak \in [0 .. MaxLexi - 1 -> Word]
  BY <1>1, SmallNumbersAreWords DEF Init
<1>3. frameLevel \in -1 .. MaxLexi + 3 /\ runs \in 0 .. MaxRuns
  BY SizesAssumption DEF Init
<1>4. out \in Seq(Word) /\ statics \in Seq(Word)
      /\ frames \in Seq([bp : Word, sp : Word, pc : Word])
  BY DEF Init
<1> QED BY <1>2, <1>3, <1>4, SmallNumbersAreWords DEF Init, TypeOK, IDLE

\* Taking the last element off leaves a sequence over the same set.
LEMMA PopType ==
  ASSUME NEW S, NEW s \in Seq(S)
  PROVE  Pop(s) \in Seq(S)
<1>1. CASE s = << >> BY <1>1 DEF Pop
<1>2. CASE s # << >>
  <2> DEFINE n == Len(s) - 1
  <2>1. n \in Nat /\ \A i \in 1 .. n : i \in 1 .. Len(s) BY <1>2
  <2>2. SubSeq(s, 1, n) \in Seq(S) BY <2>1
  <2> QED BY <1>2, <2>2 DEF Pop
<1> QED BY <1>1, <1>2

\* Every action keeps the machine's type.
LEMMA NextType == TypeOK /\ [Next]_vars => TypeOK'
<1> SUFFICES ASSUME TypeOK, [Next]_vars PROVE TypeOK' OBVIOUS
<1> USE SmallNumbersAreWords
<1>1. CASE Run
  <2>1. PICK file \in Files :
          IF file = NoFile
          THEN status' = ERROR /\ UNCHANGED <<code, numInstructions>>
          ELSE /\ LoadCode(file)
               /\ IF Loaded(file) >= MaxCode
                  THEN status' = ERROR /\ UNCHANGED numInstructions
                  ELSE status' = RUNNING /\ numInstructions' = Loaded(file)
    BY <1>1 DEF Run, RunFile
  <2>2. /\ runs' \in 0 .. MaxRuns
        /\ UNCHANGED <<sp, bp, pc, r, stack, frameBreak, frameLevel, out, lost,
                       frames, statics>>
    BY <1>1, SizesAssumption DEF Run, RunFile, TypeOK, history
  <2>3. CASE file = NoFile
    BY <2>1, <2>2, <2>3 DEF TypeOK, ERROR
  <2>4. CASE file # NoFile
    <3>1. file \in Seq(Instruction) BY <2>4, FilesAssumption
    <3>2. code' \in [Location -> Instruction] /\ Loaded(file) \in Nat
      BY <2>1, <2>4, <3>1, LoadCodeType
    <3>3. status' \in Word /\ numInstructions' \in Word
      BY <2>1, <2>4, <3>2, SizesAssumption DEF TypeOK, ERROR, RUNNING, Word
    <3> QED BY <2>2, <3>2, <3>3 DEF TypeOK
  <2> QED BY <2>3, <2>4
<1>2. CASE PrefetchFails
  BY <1>2 DEF PrefetchFails, TypeOK, ERROR, history
<1>3. CASE Lose
  BY <1>3 DEF Lose, TypeOK, history
<1>4. CASE Compute
  <2>1. Value(code[pc]) \in Word /\ code[pc].r \in Reg /\ pc + 1 \in Word
    BY <1>4, ValueWord, FetchedType DEF Compute
  <2> QED BY <1>4, <2>1 DEF Compute, SameFrame, history, TypeOK
<1>5. CASE Store
  <2>1. pc + 1 \in Word /\ code[pc].r \in Reg
    BY <1>5, FetchedType DEF Store, Defined, Operands, Arithmetic, Comparison
  <2> QED BY <1>5, <2>1 DEF Store, SameFrame, history, TypeOK
<1>6. CASE Allocate
  <2>1. pc + 1 \in Word /\ code[pc].m \in Word BY <1>6, FetchedType DEF Allocate
  <2>2. sp + code[pc].m \in Int BY <2>1 DEF TypeOK, Word
  <2>3. sp' \in Word BY <1>6, <2>2, WrapWord DEF Allocate
  <2> QED BY <1>6, <2>1, <2>3 DEF Allocate, SameFrame, history, TypeOK
<1>7. CASE Jump
  <2>1. pc + 1 \in Word /\ code[pc].m \in Word BY <1>7, FetchedType DEF Jump
  <2> QED BY <1>7, <2>1 DEF Jump, SameFrame, history, TypeOK
<1>8. CASE Write
  <2>1. pc + 1 \in Word BY <1>8, FetchedType DEF Write
  <2>2. code[pc].r \in Reg
    BY <1>8, FetchedType DEF Write, Defined, Operands, Arithmetic, Comparison
  <2>3. out' \in Seq(Word) BY <1>8, <2>2 DEF Write, TypeOK
  <2> QED BY <1>8, <2>1, <2>3 DEF Write, SameFrame, history, TypeOK
<1>9. CASE Read
  <2>1. pc + 1 \in Word BY <1>9, FetchedType DEF Read
  <2>2. code[pc].r \in Reg
    BY <1>9, FetchedType DEF Read, Defined, Operands, Arithmetic, Comparison
  <2>3. Inputs \cup {r[code[pc].r]} \subseteq Word
    BY <2>2, FilesAssumption DEF TypeOK
  <2>4. r' \in [Reg -> Word] BY <1>9, <2>3 DEF Read, TypeOK
  <2> QED BY <1>9, <2>1, <2>4 DEF Read, SameFrame, history, TypeOK
<1>10. CASE Halt
  <2>1. pc + 1 \in Word BY <1>10, FetchedType DEF Halt
  <2> QED BY <1>10, <2>1 DEF Halt, SameFrame, history, TypeOK, IDLE
<1>11. CASE Skip
  <2>1. pc + 1 \in Word BY <1>11, FetchedType DEF Skip
  <2> QED BY <1>11, <2>1 DEF Skip, SameFrame, history, TypeOK
<1>12. CASE CallProcedure
  <2> DEFINE link == Base(code[pc].l, bp)
  <2>1. /\ pc + 1 \in Word /\ code[pc].m \in Word /\ Defined(code[pc])
        /\ code[pc].op = "CAL"
    BY <1>12, FetchedType DEF CallProcedure
  <2>2. link \in Word /\ sp + 1 \in Addr /\ sp + 4 \in Addr
    BY <2>1 DEF Defined
  <2>3. frameLevel \in 0 .. MaxLexi + 2 BY <2>1 DEF Defined
  <2>4. stack' = WithLinks(link) /\ statics' = Append(statics, link)
    BY <1>12 DEF CallProcedure
  <2> HIDE DEF link
  <2>5. stack' \in [Addr -> Word] BY <2>1, <2>2, <2>4 DEF WithLinks, TypeOK
  <2>6. statics' \in Seq(Word) BY <2>2, <2>4 DEF TypeOK
  <2>7. frames' \in Seq([bp : Word, sp : Word, pc : Word])
    BY <1>12, <2>1 DEF CallProcedure, TypeOK
  <2>8. /\ frameBreak' \in [0 .. MaxLexi - 1 -> Word]
        /\ numInstructions' \in Word /\ status' \in Word
    BY <1>12, <2>3, MarkFrameType DEF CallProcedure, TypeOK
  <2>9. frameLevel' \in -1 .. MaxLexi + 3
    BY <1>12, <2>3, SizesAssumption DEF CallProcedure
  <2> QED BY <1>12, <2>1, <2>2, <2>5, <2>6, <2>7, <2>8, <2>9
          DEF CallProcedure, TypeOK
<1>13. CASE ReturnToCaller
  <2>1. Defined(code[pc]) /\ code[pc].op = "RTN"
    BY <1>13, FetchedType DEF ReturnToCaller
  <2>2. bp + 3 \in Addr /\ (bp # 1 => bp + 2 \in Addr) BY <2>1 DEF Defined
  <2>3. frameLevel \in 0 .. MaxLexi + 2 BY <2>1 DEF Defined
  <2>4. stack[bp + 3] \in Word /\ (bp # 1 => stack[bp + 2] \in Word)
    BY <2>2 DEF TypeOK
  <2>5. bp - 1 \in Int BY DEF TypeOK, Word
  <2>6. sp' \in Word BY <1>13, <2>5, WrapWord DEF ReturnToCaller, CallerTop
  <2>7. bp' \in Word /\ pc' \in Word
    BY <1>13, <2>4 DEF ReturnToCaller, TypeOK
  <2>8. frames' \in Seq([bp : Word, sp : Word, pc : Word]) /\ statics' \in Seq(Word)
    BY <1>13, PopType DEF ReturnToCaller, TypeOK
  <2>9. /\ frameBreak' \in [0 .. MaxLexi - 1 -> Word]
        /\ numInstructions' \in Word /\ status' \in Word
    <3>1. (IF bp = 1 THEN IDLE ELSE status) \in Word BY DEF IDLE, TypeOK
    <3> QED BY <1>13, <2>3, <3>1, MarkFrameType DEF ReturnToCaller
  <2>10. frameLevel' \in -1 .. MaxLexi + 3
    BY <1>13, <2>3, SizesAssumption DEF ReturnToCaller
  <2> QED BY <1>13, <2>6, <2>7, <2>8, <2>9, <2>10 DEF ReturnToCaller, TypeOK
<1>14. CASE UNCHANGED vars BY <1>14 DEF vars, TypeOK
<1> QED BY <1>1, <1>2, <1>3, <1>4, <1>5, <1>6, <1>7, <1>8, <1>9, <1>10, <1>11,
           <1>12, <1>13, <1>14 DEF Next, Execute

\* Whatever code is loaded and whatever is typed in, the machine's state stays
\* made of ints and its arrays keep their shape (run_vm and
\* instruction_execution), until a step has no defined effect.
THEOREM TypeCorrect == Spec => []TypeOK
  BY InitType, NextType, PTL DEF Spec
-----------------------------------------------------------------------------
(* The link words.  LinksIntact is not inductive: that CAL spares the link *)
(* words of every open record follows from the records lying apart, which  *)
(* FramesNest says of neighbours only.                                     *)

FramesApart ==
  \A i \in 1 .. Depth :
    /\ frames[i].sp >= 4
    /\ \A j \in 1 .. Depth : i < j => frames[i].sp + 4 <= frames[j].sp

Inv == TypeOK /\ LinksIntact /\ FramesApart

\* The elements of a sequence over a set are in the set.
LEMMA ElementType == ASSUME NEW S, NEW q \in Seq(S), NEW i \in 1 .. Len(q)
                     PROVE  q[i] \in S
  OBVIOUS

\* All open records end below the running one.
LEMMA RecordsBelow ==
  ASSUME Inv
  PROVE  /\ Depth \in Nat /\ bp >= 1 /\ bp \in Int
         /\ \A i \in 1 .. Depth : frames[i].sp + 1 <= bp /\ frames[i].sp \in Int
<1>1. Depth \in Nat /\ bp \in Int
  BY SmallNumbersAreWords DEF Inv, TypeOK, Depth, Word
<1>2. \A i \in 1 .. Depth : frames[i] \in [bp : Word, sp : Word, pc : Word]
  <2>1. frames \in Seq([bp : Word, sp : Word, pc : Word]) BY DEF Inv, TypeOK
  <2> QED BY <2>1, ElementType DEF Depth
<1>3. \A i \in 1 .. Depth : frames[i].sp \in Int
  BY <1>2, SmallNumbersAreWords DEF Word
<1>4. bp = BaseAt(Depth) BY DEF Inv, LinksIntact, FramesNest
<1>5. CASE Depth = 0 BY <1>1, <1>4, <1>5 DEF BaseAt
<1>6. CASE Depth > 0
  <2>1. bp = frames[Depth].sp + 1 /\ Depth \in 1 .. Depth
    BY <1>1, <1>4, <1>6 DEF BaseAt
  <2>2. ASSUME NEW i \in 1 .. Depth PROVE frames[i].sp <= frames[Depth].sp
    <3>1. CASE i = Depth BY <1>3, <3>1
    <3>2. CASE i < Depth BY <1>3, <2>1, <3>2 DEF Inv, FramesApart
    <3> QED BY <1>1, <3>1, <3>2
  <2>3. frames[Depth].sp >= 4 BY <2>1 DEF Inv, FramesApart
  <2> QED BY <1>1, <1>3, <2>1, <2>2, <2>3
<1> QED BY <1>1, <1>5, <1>6

\* A step that leaves the records, the base and the link words alone keeps Inv.
LEMMA SameRecords ==
  ASSUME Inv, TypeOK', UNCHANGED <<bp, frames, statics>>,
         \A i \in 1 .. Depth : \A k \in 2 .. 4 :
            stack'[frames[i].sp + k] = stack[frames[i].sp + k]
  PROVE  Inv'
<1>1. FramesNest' BY DEF Inv, LinksIntact, FramesNest, BaseAt, Depth
<1>2. FramesApart' BY DEF Inv, FramesApart, Depth
<1>3. LinkWordsHold'
  <2> SUFFICES ASSUME NEW i \in 1 .. Depth
               PROVE  /\ frames[i].sp + 4 \in Addr
                      /\ stack'[frames[i].sp + 2] = statics[i]
                      /\ stack'[frames[i].sp + 3] = frames[i].bp
                      /\ stack'[frames[i].sp + 4] = frames[i].pc
    BY DEF LinkWordsHold, Depth
  <2>1. 2 \in 2 .. 4 /\ 3 \in 2 .. 4 /\ 4 \in 2 .. 4 OBVIOUS
  <2> QED BY <2>1 DEF Inv, LinksIntact, LinkWordsHold
<1> QED BY <1>1, <1>2, <1>3 DEF Inv, LinksIntact

\* A disciplined store misses the link words of every open call.
LEMMA StoreKeepsLinks == Inv /\ Obedient /\ Store /\ TypeOK' => Inv'
<1> SUFFICES ASSUME Inv, Obedient, Store, TypeOK' PROVE Inv' OBVIOUS
<1>1. /\ Target(code[pc]) \notin LinkWords
  <2>1. Running /\ ~PastEnd /\ pc >= 0 /\ Defined(code[pc]) /\ code[pc].op = "STO"
    BY DEF Store, Fetched
  <2> QED BY <2>1 DEF Obedient, Obeys
<1>2. ASSUME NEW i \in 1 .. Depth, NEW k \in 2 .. 4
      PROVE  frames[i].sp + k \in LinkWords
  BY DEF LinkWords, Depth
<1>3. ASSUME NEW i \in 1 .. Depth, NEW k \in 2 .. 4
      PROVE  stack'[frames[i].sp + k] = stack[frames[i].sp + k]
  <2>1. frames[i].sp + k # Target(code[pc]) BY <1>1, <1>2
  <2>2. stack' = [stack EXCEPT ![Target(code[pc])] = r[code[pc].r]] BY DEF Store
  <2>3. stack \in [Addr -> Word] BY DEF Inv, TypeOK
  <2>4. DOMAIN stack = DOMAIN stack' BY <2>2
  <2> QED BY <2>1, <2>2, <2>3
<1>4. UNCHANGED <<bp, frames, statics>> BY DEF Store, SameFrame, history
<1> QED BY <1>3, <1>4, SameRecords
\* A disciplined call writes its links above every record there is, and its
\* record lies above the caller's.
LEMMA CallKeepsLinks == Inv /\ Obedient /\ CallProcedure /\ TypeOK' => Inv'
<1> SUFFICES ASSUME Inv, Obedient, CallProcedure, TypeOK' PROVE Inv' OBVIOUS
<1> DEFINE link == Base(code[pc].l, bp)
           new == [bp |-> bp, sp |-> sp, pc |-> pc + 1]
<1>1. TypeOK /\ code[pc].op = "CAL" /\ Defined(code[pc]) /\ pc >= 0
      /\ Running /\ ~PastEnd
  BY DEF CallProcedure, Fetched, Inv
<1>2. sp >= bp + 3 BY <1>1 DEF Obedient, Obeys
<1>3. sp \in Int /\ bp \in Int /\ sp + 4 \in Addr /\ sp + 1 \in Addr /\ MaxStack \in Nat
  BY <1>1, SmallNumbersAreWords, SizesAssumption DEF TypeOK, Word, Defined
<1>4. /\ stack' = WithLinks(link) /\ statics' = Append(statics, link)
      /\ frames' = Append(frames, new) /\ bp' = sp + 1
  BY DEF CallProcedure
<1> HIDE DEF link
<1>5. /\ Depth \in Nat /\ bp >= 1
      /\ \A i \in 1 .. Depth : frames[i].sp + 1 <= bp /\ frames[i].sp \in Int
  BY RecordsBelow
<1>6. /\ frames \in Seq([bp : Word, sp : Word, pc : Word])
      /\ statics \in Seq(Word) /\ Len(statics) = Depth
  BY DEF Inv, TypeOK, LinksIntact, FramesNest
<1>7. /\ Depth' = Depth + 1 /\ Len(statics)' = Depth + 1
      /\ \A i \in 1 .. Depth : frames'[i] = frames[i] /\ statics'[i] = statics[i]
      /\ frames'[Depth + 1] = new /\ statics'[Depth + 1] = link
  BY <1>4, <1>5, <1>6 DEF Depth
<1> HIDE DEF new
<1>8. new.bp = bp /\ new.sp = sp /\ new.pc = pc + 1 BY DEF new
<1>9. FramesNest'
  <2>1. bp' = BaseAt(Depth)'
    BY <1>4, <1>5, <1>7, <1>8 DEF BaseAt
  <2>2. ASSUME NEW i \in 1 .. Depth + 1
        PROVE  frames'[i].bp = BaseAt(i - 1)' /\ frames'[i].sp >= frames'[i].bp + 3
    <3>1. BaseAt(i - 1)' = BaseAt(i - 1)
      <4>1. i - 1 = 0 \/ i - 1 \in 1 .. Depth BY <1>5
      <4> QED BY <1>7, <4>1 DEF BaseAt
    <3>2. CASE i \in 1 .. Depth
      BY <1>7, <3>1, <3>2 DEF Inv, LinksIntact, FramesNest
    <3>3. CASE i = Depth + 1
      <4>1. BaseAt(i - 1) = bp BY <1>5, <3>3 DEF Inv, LinksIntact, FramesNest
      <4> QED BY <1>2, <1>7, <1>8, <3>1, <3>3, <4>1
    <3> QED BY <1>5, <3>2, <3>3
  <2>3. (\A i \in 1 .. Depth : /\ frames[i].bp = BaseAt(i - 1)
                               /\ frames[i].sp >= frames[i].bp + 3)'
    BY <1>7, <2>2
  <2>4. (Len(statics) = Depth)' BY <1>7
  <2> QED BY <2>1, <2>3, <2>4 DEF FramesNest
<1>10. FramesApart'
  <2>1. ASSUME NEW i \in 1 .. Depth PROVE frames[i].sp >= 4 /\ frames[i].sp + 4 <= sp
    BY <1>2, <1>3, <1>5 DEF Inv, FramesApart
  <2>2. ASSUME NEW i \in 1 .. Depth + 1
        PROVE  /\ frames'[i].sp >= 4
               /\ \A j \in 1 .. Depth + 1 : i < j => frames'[i].sp + 4 <= frames'[j].sp
    <3>1. CASE i \in 1 .. Depth
      <4>1. ASSUME NEW j \in 1 .. Depth + 1, i < j
            PROVE  frames'[i].sp + 4 <= frames'[j].sp
        <5>1. CASE j \in 1 .. Depth
          BY <1>7, <3>1, <4>1, <5>1 DEF Inv, FramesApart
        <5>2. CASE j = Depth + 1 BY <1>7, <1>8, <2>1, <3>1, <5>2
        <5> QED BY <1>5, <5>1, <5>2
      <4> QED BY <1>7, <2>1, <3>1, <4>1
    <3>2. CASE i = Depth + 1 BY <1>2, <1>3, <1>5, <1>7, <1>8, <3>2
    <3> QED BY <1>5, <3>1, <3>2
  <2> QED BY <1>7, <2>2 DEF FramesApart
<1>11. LinkWordsHold'
  <2>1. ASSUME NEW a \in Addr, a < sp + 1 PROVE stack'[a] = stack[a]
    <3>1. a # sp + 1 /\ a # sp + 2 /\ a # sp + 3 /\ a # sp + 4
      BY <1>3, <2>1 DEF Addr
    <3> QED BY <1>1, <1>4, <3>1 DEF WithLinks, TypeOK
  <2>2. stack'[sp + 2] = link /\ stack'[sp + 3] = bp /\ stack'[sp + 4] = pc + 1
    <3>1. sp + 2 \in Addr /\ sp + 3 \in Addr BY <1>3 DEF Addr
    <3> QED BY <1>1, <1>3, <1>4, <3>1 DEF WithLinks, TypeOK
  <2>3. ASSUME NEW i \in 1 .. Depth
        PROVE  /\ frames'[i].sp + 4 \in Addr
               /\ stack'[frames'[i].sp + 2] = statics'[i]
               /\ stack'[frames'[i].sp + 3] = frames'[i].bp
               /\ stack'[frames'[i].sp + 4] = frames'[i].pc
    <3>1. frames[i].sp + 4 < sp + 1 /\ frames[i].sp \in Int BY <1>2, <1>3, <1>5
    <3>2. /\ frames[i].sp + 4 \in Addr
          /\ stack[frames[i].sp + 2] = statics[i]
          /\ stack[frames[i].sp + 3] = frames[i].bp
          /\ stack[frames[i].sp + 4] = frames[i].pc
      BY DEF Inv, LinksIntact, LinkWordsHold
    <3>3. frames[i].sp >= 4 BY DEF Inv, FramesApart
    <3>4. frames[i].sp + 2 \in Addr /\ frames[i].sp + 3 \in Addr
      BY <1>3, <3>1, <3>2, <3>3 DEF Addr
    <3>5. /\ stack'[frames[i].sp + 2] = stack[frames[i].sp + 2]
          /\ stack'[frames[i].sp + 3] = stack[frames[i].sp + 3]
          /\ stack'[frames[i].sp + 4] = stack[frames[i].sp + 4]
      BY <1>3, <2>1, <3>1, <3>2, <3>4
    <3> QED BY <1>7, <3>2, <3>5
  <2>4. ASSUME NEW i \in 1 .. Depth + 1
        PROVE  /\ frames'[i].sp + 4 \in Addr
               /\ stack'[frames'[i].sp + 2] = statics'[i]
               /\ stack'[frames'[i].sp + 3] = frames'[i].bp
               /\ stack'[frames'[i].sp + 4] = frames'[i].pc
    <3>1. CASE i = Depth + 1 BY <1>3, <1>7, <1>8, <2>2, <3>1
    <3> QED BY <1>5, <2>3, <3>1
  <2> QED BY <1>7, <2>4 DEF LinkWordsHold
<1> QED BY <1>9, <1>10, <1>11 DEF Inv, LinksIntact
\* A return with calls open finds in memory the environment its call saved.
LEMMA ReturnRestores ==
  ASSUME Inv, ReturnToCaller, Depth > 0
  PROVE  /\ bp' = frames[Depth].bp /\ pc' = frames[Depth].pc
         /\ sp' = frames[Depth].sp
         /\ frames' = SubSeq(frames, 1, Depth - 1)
         /\ statics' = SubSeq(statics, 1, Depth - 1)
<1>1. Depth \in 1 .. Depth BY RecordsBelow
<1>2. bp = frames[Depth].sp + 1 BY DEF Inv, LinksIntact, FramesNest, BaseAt
<1>3. frames[Depth].sp >= 4 BY <1>1 DEF Inv, FramesApart
<1>4. frames[Depth].sp \in Word
  <2>1. frames \in Seq([bp : Word, sp : Word, pc : Word]) BY DEF Inv, TypeOK
  <2>2. frames[Depth] \in [bp : Word, sp : Word, pc : Word]
    BY <1>1, <2>1, ElementType DEF Depth
  <2> QED BY <2>2
<1>5. frames[Depth].sp \in Int BY <1>4, SizesAssumption DEF Word
<1>6. bp # 1 /\ bp + 2 = frames[Depth].sp + 3 /\ bp + 3 = frames[Depth].sp + 4
      /\ bp - 1 = frames[Depth].sp
  BY <1>2, <1>3, <1>5
<1>7. stack[bp + 2] = frames[Depth].bp /\ stack[bp + 3] = frames[Depth].pc
  BY <1>1, <1>6 DEF Inv, LinksIntact, LinkWordsHold
<1>8. sp' = frames[Depth].sp
  BY <1>4, <1>6, WrapFits DEF ReturnToCaller, CallerTop
<1>9. frames # << >> /\ statics # << >> /\ Len(statics) = Len(frames)
  <2>1. Len(statics) = Len(frames) BY DEF Inv, LinksIntact, FramesNest, Depth
  <2> QED BY <2>1 DEF Depth
<1> QED BY <1>6, <1>7, <1>8, <1>9 DEF ReturnToCaller, Pop, Depth

\* A return drops the innermost record and leaves the others as they are.
LEMMA ReturnKeepsLinks == Inv /\ ReturnToCaller /\ TypeOK' => Inv'
<1> SUFFICES ASSUME Inv, ReturnToCaller, TypeOK' PROVE Inv' OBVIOUS
<1>1. Depth \in Nat BY RecordsBelow
<1>2. stack' = stack BY DEF ReturnToCaller
<1>3. /\ frames \in Seq([bp : Word, sp : Word, pc : Word])
      /\ statics \in Seq(Word) /\ Len(statics) = Len(frames)
  BY DEF Inv, TypeOK, LinksIntact, FramesNest, Depth
<1>4. CASE Depth = 0
  <2>1. frames = << >> /\ statics = << >> BY <1>3, <1>4 DEF Depth
  <2>2. frames' = frames /\ statics' = statics BY <2>1 DEF ReturnToCaller, Pop
  <2>3. bp = 1 BY <1>4 DEF Inv, LinksIntact, FramesNest, BaseAt
  <2>4. bp' = bp BY <2>3 DEF ReturnToCaller
  <2> QED BY <1>2, <2>2, <2>4, SameRecords
<1>5. CASE Depth > 0
  <2>1. /\ bp' = frames[Depth].bp
        /\ frames' = SubSeq(frames, 1, Depth - 1)
        /\ statics' = SubSeq(statics, 1, Depth - 1)
    BY <1>5, ReturnRestores
  <2>2. /\ Depth' = Depth - 1 /\ Len(statics)' = Depth - 1
        /\ \A i \in 1 .. Depth - 1 : frames'[i] = frames[i] /\ statics'[i] = statics[i]
    BY <1>1, <1>3, <1>5, <2>1 DEF Depth
  <2>3. ASSUME NEW i \in 1 .. Depth - 1
        PROVE  i \in 1 .. Depth /\ BaseAt(i - 1)' = BaseAt(i - 1)
    <3>1. i - 1 = 0 \/ i - 1 \in 1 .. Depth - 1 BY <1>1
    <3> QED BY <1>1, <2>2, <3>1 DEF BaseAt
  <2>4. FramesNest'
    <3>1. BaseAt(Depth)' = BaseAt(Depth - 1)
      <4>1. Depth - 1 = 0 \/ Depth - 1 \in 1 .. Depth - 1 BY <1>1, <1>5
      <4> QED BY <2>2, <4>1 DEF BaseAt
    <3>2. Depth \in 1 .. Depth BY <1>1, <1>5
    <3>3. bp' = BaseAt(Depth)'
      BY <2>1, <3>1, <3>2 DEF Inv, LinksIntact, FramesNest
    <3>4. ASSUME NEW i \in 1 .. Depth - 1
          PROVE  frames'[i].bp = BaseAt(i - 1)' /\ frames'[i].sp >= frames'[i].bp + 3
      BY <2>2, <2>3 DEF Inv, LinksIntact, FramesNest
    <3> QED BY <2>2, <3>3, <3>4 DEF FramesNest
  <2>5. FramesApart' BY <2>2, <2>3 DEF Inv, FramesApart
  <2>6. LinkWordsHold'
    BY <1>2, <2>2, <2>3 DEF Inv, LinksIntact, LinkWordsHold
  <2> QED BY <2>4, <2>5, <2>6 DEF Inv, LinksIntact
<1> QED BY <1>1, <1>4, <1>5

LEMMA InitInv == Init => Inv
<1> SUFFICES ASSUME Init PROVE Inv OBVIOUS
<1>1. Depth = 0 BY DEF Init, Depth
<1>2. TypeOK BY InitType
<1> QED BY <1>1, <1>2
        DEF Init, Inv, LinksIntact, FramesNest, LinkWordsHold, FramesApart, BaseAt

\* Every step of disciplined code keeps Inv.
LEMMA NextInv == Inv /\ [DisciplinedNext]_vars => Inv'
<1> SUFFICES ASSUME Inv, [DisciplinedNext]_vars PROVE Inv' OBVIOUS
<1>1. TypeOK' BY NextType DEF Inv, DisciplinedNext
<1>2. CASE Obedient /\ Store BY <1>1, <1>2, StoreKeepsLinks
<1>3. CASE Obedient /\ CallProcedure BY <1>1, <1>3, CallKeepsLinks
<1>4. CASE ReturnToCaller BY <1>1, <1>4, ReturnKeepsLinks
<1>5. CASE Run \/ PrefetchFails \/ Lose \/ UNCHANGED vars
  <2>1. UNCHANGED <<bp, frames, statics, stack>>
    BY <1>5 DEF Run, RunFile, PrefetchFails, Lose, vars, history
  <2> QED BY <1>1, <2>1, SameRecords
<1>6. CASE Compute \/ Allocate \/ Jump \/ Write \/ Read \/ Halt \/ Skip
  <2>1. UNCHANGED <<bp, frames, statics, stack>>
    BY <1>6 DEF Compute, Allocate, Jump, Write, Read, Halt, Skip, SameFrame, history
  <2> QED BY <1>1, <2>1, SameRecords
<1> QED BY <1>2, <1>3, <1>4, <1>5, <1>6 DEF DisciplinedNext, Next, Execute

\* In code that keeps to the discipline of the generated code, the static link,
\* the dynamic link and the return address of every open call are in memory as
\* CAL wrote them, at any depth of calls and for any sizes.
THEOREM LinksStayIntact == DisciplinedSpec => []LinksIntact
<1>1. Inv => LinksIntact BY DEF Inv
<1> QED BY <1>1, InitInv, NextInv, PTL DEF DisciplinedSpec

-----------------------------------------------------------------------------
(* The marks of printVMState.  RTN at level d clears frameBreak[d], but the *)
(* mark of the record it leaves is frameBreak[d - 1]; that one stays, at    *)
(* the caller's top, until the caller calls again or returns itself.  It    *)
(* draws no "|" because the caller, once it has called, allocates no more.  *)

MarkRight(j) ==
  /\ j < Depth => frameBreak[j] = frames[j + 1].sp
  /\ j = Depth => frameBreak[j] = 0 \/ (frameBreak[j] = sp /\ sp # bp - 1)
  /\ j > Depth => frameBreak[j] = 0

\* The level falls behind the depth only when the main block has returned.
MarksInv == /\ frameLevel = Depth \/ (frameLevel = -1 /\ Depth = 0)
            /\ \A j \in 0 .. MaxLexi - 1 : MarkRight(j)

\* A step that leaves the marks, the records and both pointers alone keeps
\* MarksInv.
LEMMA SameMarks ==
  ASSUME MarksInv, UNCHANGED <<frames, frameBreak, frameLevel, sp, bp>>
  PROVE  MarksInv'
  BY DEF MarksInv, MarkRight, Depth

\* A record gets its variables before it calls, when its own mark is clear.
LEMMA AllocateKeepsMarks == MarksInv /\ Obedient /\ Allocate => MarksInv'
<1> SUFFICES ASSUME MarksInv, Obedient, Allocate PROVE MarksInv' OBVIOUS
<1>1. sp = bp - 1 BY DEF Allocate, Fetched, Obedient, Obeys
<1>2. UNCHANGED <<frames, frameBreak, frameLevel>>
  BY DEF Allocate, SameFrame, history
<1>3. ASSUME NEW j \in 0 .. MaxLexi - 1 PROVE MarkRight(j)'
  BY <1>1, <1>2 DEF MarksInv, MarkRight, Depth
<1> QED BY <1>2, <1>3 DEF MarksInv, Depth

\* A call sets the mark of the record it opens and finds the next one clear.
LEMMA CallKeepsMarks == Inv /\ MarksInv /\ CallProcedure => MarksInv'
<1> SUFFICES ASSUME Inv, MarksInv, CallProcedure PROVE MarksInv' OBVIOUS
<1> DEFINE new == [bp |-> bp, sp |-> sp, pc |-> pc + 1]
<1>1. frameLevel \in 0 .. MaxLexi + 2
  BY DEF CallProcedure, Fetched, Defined
<1>2. /\ frames \in Seq([bp : Word, sp : Word, pc : Word]) /\ Depth \in Nat
      /\ MaxLexi \in Nat /\ frameBreak \in [0 .. MaxLexi - 1 -> Word]
  BY RecordsBelow, SizesAssumption DEF Inv, TypeOK
<1>3. frameLevel = Depth BY <1>1 DEF MarksInv
<1>4. /\ frames' = Append(frames, new) /\ frameLevel' = frameLevel + 1
      /\ frameBreak' = IF frameLevel < MaxLexi
                       THEN [frameBreak EXCEPT ![frameLevel] = sp] ELSE frameBreak
  BY DEF CallProcedure, MarkFrame
<1>5. new.sp = sp OBVIOUS
<1> HIDE DEF new
<1>6. /\ Depth' = Depth + 1 /\ frames'[Depth + 1] = new
      /\ \A i \in 1 .. Depth : frames'[i] = frames[i]
  BY <1>2, <1>4 DEF Depth
<1>7. ASSUME NEW j \in 0 .. MaxLexi - 1 PROVE MarkRight(j)'
  <2>1. MarkRight(j) BY DEF MarksInv
  <2>2. CASE j < Depth
    <3>1. frameBreak'[j] = frameBreak[j] BY <1>2, <1>3, <1>4, <2>2
    <3>2. j + 1 \in 1 .. Depth BY <1>2, <2>2
    <3> QED BY <1>2, <1>6, <2>1, <2>2, <3>1, <3>2 DEF MarkRight
  <2>3. CASE j = Depth
    <3>1. frameBreak'[j] = sp BY <1>2, <1>3, <1>4, <2>3
    <3> QED BY <1>2, <1>5, <1>6, <2>3, <3>1 DEF MarkRight
  <2>4. CASE j > Depth
    <3>1. frameBreak'[j] = frameBreak[j] BY <1>2, <1>3, <1>4, <2>4
    <3>2. frameBreak'[j] = 0 BY <2>1, <2>4, <3>1 DEF MarkRight
    <3> QED BY <1>2, <1>6, <2>4, <3>2 DEF MarkRight
  <2> QED BY <1>2, <2>2, <2>3, <2>4
<1>8. (frameLevel = Depth)' BY <1>3, <1>4, <1>6
<1> QED BY <1>7, <1>8 DEF MarksInv

\* A return clears the mark its record may have left, and its own becomes the
\* one at the caller's top.
LEMMA ReturnKeepsMarks == Inv /\ MarksInv /\ ReturnToCaller => MarksInv'
<1> SUFFICES ASSUME Inv, MarksInv, ReturnToCaller PROVE MarksInv' OBVIOUS
<1>1. frameLevel \in 0 .. MaxLexi + 2
  BY DEF ReturnToCaller, Fetched, Defined
<1>2. /\ frames \in Seq([bp : Word, sp : Word, pc : Word]) /\ Depth \in Nat
      /\ MaxLexi \in Nat \ {0} /\ frameBreak \in [0 .. MaxLexi - 1 -> Word]
  BY RecordsBelow, SizesAssumption DEF Inv, TypeOK
<1>3. frameLevel = Depth BY <1>1 DEF MarksInv
<1>4. /\ frameLevel' = frameLevel - 1
      /\ frameBreak' = IF frameLevel < MaxLexi
                       THEN [frameBreak EXCEPT ![frameLevel] = 0] ELSE frameBreak
  BY DEF ReturnToCaller, MarkFrame
<1>5. ASSUME NEW j \in 0 .. MaxLexi - 1
      PROVE  frameBreak'[j] = IF j = Depth THEN 0 ELSE frameBreak[j]
  BY <1>2, <1>3, <1>4
<1>6. CASE Depth = 0
  <2>1. frames = << >> BY <1>2, <1>6 DEF Depth
  <2>2. frames' = frames BY <2>1 DEF ReturnToCaller, Pop
  <2>3. Depth' = 0 BY <1>6, <2>2 DEF Depth
  <2>4. ASSUME NEW j \in 0 .. MaxLexi - 1 PROVE MarkRight(j)'
    <3>1. MarkRight(j) BY DEF MarksInv
    <3>2. frameBreak'[j] = 0 BY <1>2, <1>5, <1>6, <3>1 DEF MarkRight
    <3> QED BY <1>2, <2>3, <3>2 DEF MarkRight
  <2>5. frameLevel' = -1 BY <1>3, <1>4, <1>6
  <2> QED BY <2>3, <2>4, <2>5 DEF MarksInv
<1>7. CASE Depth > 0
  <2>1. /\ bp' = frames[Depth].bp /\ sp' = frames[Depth].sp
        /\ frames' = SubSeq(frames, 1, Depth - 1)
    BY <1>7, ReturnRestores
  <2>2. /\ Depth' = Depth - 1
        /\ \A i \in 1 .. Depth - 1 : frames'[i] = frames[i]
    <3>1. Len(frames) = Depth /\ Depth - 1 \in 0 .. Len(frames)
      BY <1>2, <1>7 DEF Depth
    <3>2. /\ Len(SubSeq(frames, 1, Depth - 1)) = Depth - 1
          /\ \A i \in 1 .. Depth - 1 : SubSeq(frames, 1, Depth - 1)[i] = frames[i]
      BY <1>2, <3>1
    <3> QED BY <2>1, <3>2 DEF Depth
  <2>3. sp' # bp' - 1
    <3>1. Depth \in 1 .. Depth BY <1>2, <1>7
    <3>2. frames[Depth] \in [bp : Word, sp : Word, pc : Word]
      BY <1>2, <3>1, ElementType DEF Depth
    <3>3. frames[Depth].bp \in Int /\ frames[Depth].sp \in Int
      BY <3>2, SizesAssumption DEF Word
    <3>4. frames[Depth].sp >= frames[Depth].bp + 3
      BY <3>1 DEF Inv, LinksIntact, FramesNest
    <3> QED BY <2>1, <3>3, <3>4
  <2>4. ASSUME NEW j \in 0 .. MaxLexi - 1 PROVE MarkRight(j)'
    <3>1. MarkRight(j) BY DEF MarksInv
    <3>2. CASE j < Depth - 1
      <4>1. j + 1 \in 1 .. Depth - 1 /\ j < Depth /\ j # Depth BY <1>2, <3>2
      <4> QED BY <1>2, <1>5, <2>2, <3>1, <3>2, <4>1 DEF MarkRight
    <3>3. CASE j = Depth - 1
      <4>1. j + 1 = Depth /\ j < Depth /\ j # Depth BY <1>2, <3>3
      <4>2. frameBreak'[j] = sp' BY <1>5, <2>1, <3>1, <4>1 DEF MarkRight
      <4> QED BY <1>2, <2>2, <2>3, <3>3, <4>2 DEF MarkRight
    <3>4. CASE j > Depth - 1
      <4>1. j = Depth \/ j > Depth BY <1>2, <3>4
      <4>2. frameBreak'[j] = 0 BY <1>5, <3>1, <4>1 DEF MarkRight
      <4> QED BY <1>2, <2>2, <3>4, <4>2 DEF MarkRight
    <3> QED BY <1>2, <3>2, <3>3, <3>4
  <2>5. (frameLevel = Depth)' BY <1>3, <1>4, <2>2
  <2> QED BY <2>4, <2>5 DEF MarksInv
<1> QED BY <1>2, <1>6, <1>7

LEMMA InitMarks == Init => MarksInv
  BY DEF Init, MarksInv, MarkRight, Depth

\* Every step of disciplined code keeps MarksInv.
LEMMA NextMarks == Inv /\ MarksInv /\ [DisciplinedNext]_vars => MarksInv'
<1> SUFFICES ASSUME Inv, MarksInv, [DisciplinedNext]_vars PROVE MarksInv' OBVIOUS
<1>1. CASE Obedient /\ Allocate BY <1>1, AllocateKeepsMarks
<1>2. CASE CallProcedure BY <1>2, CallKeepsMarks
<1>3. CASE ReturnToCaller BY <1>3, ReturnKeepsMarks
<1>4. CASE Run \/ PrefetchFails \/ Lose \/ UNCHANGED vars
  <2>1. UNCHANGED <<frames, frameBreak, frameLevel, sp, bp>>
    BY <1>4 DEF Run, RunFile, PrefetchFails, Lose, vars, history
  <2> QED BY <2>1, SameMarks
<1>5. CASE Compute \/ Store \/ Jump \/ Write \/ Read \/ Halt \/ Skip
  <2>1. UNCHANGED <<frames, frameBreak, frameLevel, sp, bp>>
    BY <1>5 DEF Compute, Store, Jump, Write, Read, Halt, Skip, SameFrame, history
  <2> QED BY <2>1, SameMarks
<1> QED BY <1>1, <1>2, <1>3, <1>4, <1>5 DEF DisciplinedNext, Next, Execute

\* Right marks draw the boundaries of the open records and nothing else.
LEMMA MarksDraw == Inv /\ MarksInv => SeparatorsExact
<1> SUFFICES ASSUME Inv, MarksInv, Depth <= MaxLexi PROVE Separators = Boundaries
  BY DEF SeparatorsExact
<1>1. Depth \in Nat /\ MaxLexi \in Nat /\ sp \in Int
  <2>1. sp \in Word BY DEF Inv, TypeOK
  <2>2. sp \in Int BY <2>1, SizesAssumption DEF Word
  <2>3. MaxLexi \in Nat BY SizesAssumption
  <2> QED BY <2>2, <2>3, RecordsBelow
<1>2. ASSUME NEW j \in 0 .. MaxLexi - 1, frameBreak[j] \in 2 .. sp - 1
      PROVE  \E i \in 1 .. Depth : frames[i].sp = frameBreak[j]
  <2>1. MarkRight(j) BY DEF MarksInv
  <2>2. frameBreak[j] # 0 /\ frameBreak[j] # sp BY <1>1, <1>2
  <2>3. j < Depth BY <1>1, <2>1, <2>2 DEF MarkRight
  <2>4. j + 1 \in 1 .. Depth BY <1>1, <2>3
  <2> QED BY <2>1, <2>3, <2>4 DEF MarkRight
<1>3. ASSUME NEW i \in 1 .. Depth
      PROVE  i - 1 \in 0 .. MaxLexi - 1 /\ frameBreak[i - 1] = frames[i].sp
  <2>1. i - 1 \in 0 .. MaxLexi - 1 /\ i - 1 < Depth /\ (i - 1) + 1 = i BY <1>1
  <2>2. MarkRight(i - 1) BY <2>1 DEF MarksInv
  <2> QED BY <2>1, <2>2 DEF MarkRight
<1>4. ASSUME NEW m \in 2 .. sp - 1 PROVE m \in Separators <=> m \in Boundaries
  <2>1. ASSUME m \in Separators PROVE m \in Boundaries
    <3>1. PICK j \in 0 .. MaxLexi - 1 : frameBreak[j] = m BY <2>1 DEF Separators
    <3> QED BY <1>2, <3>1 DEF Boundaries
  <2>2. ASSUME m \in Boundaries PROVE m \in Separators
    <3>1. PICK i \in 1 .. Depth : frames[i].sp = m BY <2>2 DEF Boundaries
    <3> QED BY <1>3, <3>1 DEF Separators
  <2> QED BY <2>1, <2>2
<1>5. Separators \subseteq 2 .. sp - 1 /\ Boundaries \subseteq 2 .. sp - 1
  BY DEF Separators, Boundaries
<1> QED BY <1>4, <1>5

\* In disciplined code printVMState draws a "|" at exactly the boundaries of the
\* open records, as long as no more than MaxLexi calls are open, whatever calls
\* and returns came before.
THEOREM SeparatorsRight == DisciplinedSpec => []SeparatorsExact
<1>1. Init => Inv /\ MarksInv BY InitInv, InitMarks
<1>2. Inv /\ MarksInv /\ [DisciplinedNext]_vars => (Inv /\ MarksInv)'
  BY NextInv, NextMarks
<1> QED BY <1>1, <1>2, MarksDraw, PTL DEF DisciplinedSpec

-----------------------------------------------------------------------------
(* Calls and returns implement CallStack.                                  *)

LEMMA InitAbstract == Init => Abstract!Init
  BY DEF Init, Abstract!Init

\* Every step of disciplined code is a call, a return, a local step or a
\* stutter of CallStack.
LEMMA NextAbstract == Inv /\ [DisciplinedNext]_vars => [Abstract!Next]_(Abstract!vars)
<1> SUFFICES ASSUME Inv, [DisciplinedNext]_vars PROVE [Abstract!Next]_(Abstract!vars)
  OBVIOUS
<1>1. TypeOK /\ TypeOK' BY NextType DEF Inv, DisciplinedNext
<1>2. sp \in Int /\ bp \in Int /\ pc \in Int /\ sp' \in Int /\ pc' \in Int
  BY <1>1, SizesAssumption DEF TypeOK, Word
<1>3. CASE CallProcedure
  <2>1. /\ frames' = Append(frames, [bp |-> bp, sp |-> sp, pc |-> pc + 1])
        /\ bp' = sp + 1 /\ sp' = sp
    BY <1>3 DEF CallProcedure
  <2>2. Abstract!Call BY <1>2, <2>1 DEF Abstract!Call
  <2> QED BY <2>2 DEF Abstract!Next
<1>4. CASE ReturnToCaller /\ Depth > 0
  <2>1. /\ bp' = frames[Depth].bp /\ sp' = frames[Depth].sp /\ pc' = frames[Depth].pc
        /\ frames' = SubSeq(frames, 1, Depth - 1)
    BY <1>4, ReturnRestores
  <2>2. frames[Depth] \in [bp : Word, sp : Word, pc : Word]
    <3>1. frames \in Seq([bp : Word, sp : Word, pc : Word]) BY <1>1 DEF TypeOK
    <3>2. Depth \in 1 .. Len(frames) BY <1>4, RecordsBelow DEF Depth
    <3> QED BY <3>1, <3>2, ElementType
  <2>3. frames # << >> BY <1>4 DEF Depth
  <2>4. [bp |-> bp', sp |-> sp', pc |-> pc'] = frames[Depth] BY <2>1, <2>2
  <2>5. Abstract!Return BY <2>1, <2>3, <2>4 DEF Abstract!Return, Depth
  <2> QED BY <2>5 DEF Abstract!Next
<1>5. ASSUME UNCHANGED <<bp, frames>> PROVE Abstract!Next
  <2>1. Abstract!Local BY <1>2, <1>5 DEF Abstract!Local
  <2> QED BY <2>1 DEF Abstract!Next
<1>6. CASE ReturnToCaller /\ Depth = 0
  <2>1. frames = << >> /\ bp = 1
    BY <1>1, <1>6 DEF Inv, LinksIntact, FramesNest, BaseAt, Depth, TypeOK
  <2> QED BY <1>5, <1>6, <2>1 DEF ReturnToCaller, Pop
<1>7. CASE Run \/ PrefetchFails \/ Lose \/ UNCHANGED vars
  BY <1>5, <1>7 DEF Run, RunFile, PrefetchFails, Lose, vars, history
<1>8. CASE Compute \/ Store \/ Allocate \/ Jump \/ Write \/ Read \/ Halt \/ Skip
  BY <1>5, <1>8 DEF Compute, Store, Allocate, Jump, Write, Read, Halt, Skip,
                    SameFrame, history
<1>9. Depth \in Nat BY RecordsBelow
<1> QED BY <1>3, <1>4, <1>6, <1>7, <1>8, <1>9 DEF DisciplinedNext, Next, Execute

\* Disciplined code calls and returns as CallStack says: a return gives back the
\* caller's base, top and program counter, although RTN rebuilds them from words
\* the program can write to.
THEOREM ReturnsToCaller == DisciplinedSpec => RestoresCaller
<1>1. Inv /\ Inv' /\ [DisciplinedNext]_vars => [Abstract!Next]_(Abstract!vars)
  BY NextAbstract
<1> QED BY <1>1, InitInv, NextInv, InitAbstract, PTL
        DEF DisciplinedSpec, RestoresCaller, Abstract!Spec
=============================================================================
