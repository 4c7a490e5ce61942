------------------------------- MODULE PMachine -------------------------------
(***************************************************************************)
(* The P-machine of src/virtualMachine/virtualMachine.c: a register        *)
(* machine whose activation records live in one stack of int words.        *)
(*                                                                         *)
(* One step is one turn of the loop in run_vm: prefetch, then the case of  *)
(* instruction_execution.  The C code checks neither addresses nor         *)
(* register numbers.  A step that would leave r, stack or code, and a      *)
(* division that traps, sets `lost`: what happens next is no longer a      *)
(* matter of this program.  frameBreak is the exception: the three words   *)
(* that follow it in the struct are modelled, because calls nested deeper  *)
(* than MaxLexi do reach them.                                             *)
(***************************************************************************)
EXTENDS Integers, Sequences

CONSTANTS Files,     \* the code files run_vm may be given, NoFile among them
          NoFile,    \* a path that fopen refuses
          Inputs,    \* the numbers a user may type
          MaxInt,    \* the largest int
          NumRegs,   \* COMMON_REGISTER_NUMBER
          MaxStack,  \* MAX_STACK_HEIGHT
          MaxCode,   \* MAX_CODE_LENGTH
          MaxLexi,   \* MAX_LEXI_LEVELS
          MaxRuns    \* bound: how often run_vm is called on one machine

Word == -MaxInt - 1 .. MaxInt
Reg  == 0 .. NumRegs - 1
Addr == 0 .. MaxStack - 1
Location == 0 .. MaxCode - 1

Arithmetic == {"ADD", "SUB", "MUL", "DIV", "MOD"}
Comparison == {"EQL", "NEQ", "LSS", "LEQ", "GTR", "GEQ"}
Opcode == {"NUL", "LIT", "RTN", "LOD", "STO", "CAL", "INC", "JMP", "JPC",
           "SIO", "NEG", "ODD"} \cup Arithmetic \cup Comparison
Instruction == [op : Opcode, r : Word, l : Word, m : Word]
NulInstruction == [op |-> "NUL", r |-> 0, l |-> 0, m |-> 0]

ASSUME SizesAssumption ==
  /\ MaxInt \in Nat /\ NumRegs \in Nat \ {0} /\ MaxLexi \in Nat \ {0}
  /\ MaxStack \in Nat /\ MaxCode \in Nat /\ MaxRuns \in Nat
  /\ MaxInt >= 4 /\ MaxStack <= MaxInt /\ MaxCode <= MaxInt
ASSUME FilesAssumption ==
  /\ Files \subseteq Seq(Instruction) \cup {NoFile}
  /\ NoFile \notin Seq(Instruction)
  /\ Inputs \subseteq Word

\* vm_status; the status word is a plain int, and a call nested too deep
\* writes other values into it.
UNINIT == 0
IDLE == 1
RUNNING == 2
ERROR == 4

VARIABLES sp, bp, pc, r, stack, code, frameBreak, frameLevel,
          numInstructions, status,
          out,       \* the numbers printed
          runs,      \* how often run_vm was called
          lost,      \* the last step had no defined effect
          frames,    \* history: the caller's environment of each open call
          statics    \* history: the static link of each open call

history == <<frames, statics>>
vars == <<sp, bp, pc, r, stack, code, frameBreak, frameLevel,
          numInstructions, status, out, runs, lost, frames, statics>>

Init == /\ sp = 0 /\ bp = 1 /\ pc = 0
        /\ r = [i \in Reg |-> 0]
        /\ stack = [a \in Addr |-> 0]
        /\ code = [a \in Location |-> NulInstruction]
        /\ frameBreak = [i \in 0 .. MaxLexi - 1 |-> 0]
        /\ frameLevel = 0
        /\ numInstructions = 0
        /\ status = IDLE
        /\ out = << >> /\ runs = 0 /\ lost = FALSE
        /\ frames = << >> /\ statics = << >>

-----------------------------------------------------------------------------
(* Arithmetic of C ints, as the unoptimised build computes it.             *)

\* Mutant of Wrap: a machine whose ints never overflow.
UnboundedInt(x) == x

Wrap(x) == ((x + MaxInt + 1) % (2 * MaxInt + 2)) - MaxInt - 1

Magnitude(x) == IF x < 0 THEN -x ELSE x

\* Division truncates toward zero.
Quotient(x, y) == LET q == Magnitude(x) \div Magnitude(y)
                  IN  IF (x < 0) = (y < 0) THEN q ELSE -q
Remainder(x, y) == x - y * Quotient(x, y)

Truth(condition) == IF condition THEN 1 ELSE 0

Result(op, x, y) ==
  CASE op = "ADD" -> Wrap(x + y)
    [] op = "SUB" -> Wrap(x - y)
    [] op = "MUL" -> Wrap(x * y)
    [] op = "DIV" -> Wrap(Quotient(x, y))
    [] op = "MOD" -> Wrap(Remainder(x, y))
    [] op = "EQL" -> Truth(x = y)
    [] op = "NEQ" -> Truth(x # y)
    [] op = "LSS" -> Truth(x < y)
    [] op = "LEQ" -> Truth(x <= y)
    [] op = "GTR" -> Truth(x > y)
    [] op = "GEQ" -> Truth(x >= y)

-----------------------------------------------------------------------------
(* Addressing.                                                             *)

\* base(): follow the static link `level` times.  A walk that leaves the
\* stack ends at Wild, which is no word.
Wild == -MaxInt - 3
Base(level, b) ==
  LET walk[n \in Nat] ==
        IF n = 0 THEN b
        ELSE LET link == walk[n - 1] + 1
             IN  IF link \in Addr THEN stack[link] ELSE Wild
  IN  walk[IF level > 0 THEN level ELSE 0]

Target(ir) == Wrap(Base(ir.l, bp) + ir.m)

\* The registers an instruction names.
Operands(ir) ==
  CASE ir.op \in Arithmetic \cup Comparison -> {ir.r, ir.l, ir.m}
    [] ir.op = "NEG" -> {ir.r, ir.l}
    [] ir.op = "SIO" -> IF ir.m \in {1, 2} THEN {ir.r} ELSE {}
    [] ir.op \in {"LIT", "LOD", "STO", "JPC", "ODD"} -> {ir.r}
    [] OTHER -> {}

\* The instructions whose effect the C code defines in the current state.
Defined(ir) ==
  /\ Operands(ir) \subseteq Reg
  /\ ir.op \in {"LOD", "STO"} =>
       Base(ir.l, bp) \in Word /\ Target(ir) \in Addr
  /\ ir.op = "CAL" => Base(ir.l, bp) \in Word /\ sp + 1 \in Addr /\ sp + 4 \in Addr
  /\ ir.op = "RTN" => bp + 3 \in Addr /\ (bp # 1 => bp + 2 \in Addr)
  /\ ir.op \in {"CAL", "RTN"} => frameLevel \in 0 .. MaxLexi + 2
  /\ ir.op \in {"DIV", "MOD"} =>
       r[ir.m] # 0 /\ ~(r[ir.l] = -MaxInt - 1 /\ r[ir.m] = -1)

-----------------------------------------------------------------------------
(* run_vm up to its loop: load_code overwrites the code segment from the   *)
(* start.  It gives up once MaxCode instructions are in, so a program that *)
(* fills the segment is refused.  An empty file counts one instruction.    *)
(* Nothing else of the machine is reset.                                   *)

Loaded(file) == IF Len(file) = 0 THEN 1 ELSE Len(file)

LoadCode(file) ==
  code' = [a \in Location |-> IF a < Len(file) THEN file[a + 1] ELSE code[a]]

RunFile(file) ==
  /\ status = IDLE /\ ~lost /\ runs < MaxRuns
  /\ runs' = runs + 1
  /\ IF file = NoFile
     THEN status' = ERROR /\ UNCHANGED <<code, numInstructions>>
     ELSE /\ LoadCode(file)
          /\ IF Loaded(file) >= MaxCode
             THEN status' = ERROR /\ UNCHANGED numInstructions
             ELSE status' = RUNNING /\ numInstructions' = Loaded(file)
  /\ UNCHANGED <<sp, bp, pc, r, stack, frameBreak, frameLevel, out, lost>>
  /\ UNCHANGED history

Run == \E file \in Files : RunFile(file)

-----------------------------------------------------------------------------
(* The loop of run_vm.                                                     *)

Running == status = RUNNING /\ ~lost

\* prefetch refuses a pc at or beyond the end of the code; it lets a
\* negative one through.
PastEnd == pc >= MaxCode \/ pc >= numInstructions

PrefetchFails ==
  /\ Running /\ PastEnd
  /\ status' = ERROR
  /\ UNCHANGED <<sp, bp, pc, r, stack, code, frameBreak, frameLevel,
                 numInstructions, out, runs, lost>>
  /\ UNCHANGED history

Fetched(ops) == /\ Running /\ ~PastEnd /\ pc >= 0
                /\ code[pc].op \in ops
                /\ Defined(code[pc])

\* The effect of the step is outside the arrays, or the process is killed.
Lose == /\ Running /\ ~PastEnd
        /\ pc < 0 \/ ~Defined(code[pc])
        /\ lost' = TRUE
        /\ UNCHANGED <<sp, bp, pc, r, stack, code, frameBreak, frameLevel,
                       numInstructions, status, out, runs>>
        /\ UNCHANGED history

\* Steps that leave the activation records, the stack pointers and the
\* status as they are.
SameFrame == /\ UNCHANGED <<bp, code, frameBreak, frameLevel, numInstructions>>
             /\ UNCHANGED <<runs, lost>>
             /\ UNCHANGED history

\* LIT, NEG, ODD, the arithmetic and the comparisons, LOD: one register gets
\* a value.
Value(ir) ==
  CASE ir.op = "LIT" -> ir.m
    [] ir.op = "LOD" -> stack[Target(ir)]
    [] ir.op = "NEG" -> Wrap(-r[ir.l])
    [] ir.op = "ODD" -> Remainder(r[ir.r], 2)
    [] OTHER -> Result(ir.op, r[ir.l], r[ir.m])

Compute ==
  /\ Fetched({"LIT", "LOD", "NEG", "ODD"} \cup Arithmetic \cup Comparison)
  /\ r' = [r EXCEPT ![code[pc].r] = Value(code[pc])]
  /\ pc' = pc + 1
  /\ UNCHANGED <<sp, stack, status, out>> /\ SameFrame

Store ==
  /\ Fetched({"STO"})
  /\ stack' = [stack EXCEPT ![Target(code[pc])] = r[code[pc].r]]
  /\ pc' = pc + 1
  /\ UNCHANGED <<sp, r, status, out>> /\ SameFrame

Allocate ==
  /\ Fetched({"INC"})
  /\ sp' = Wrap(sp + code[pc].m)
  /\ pc' = pc + 1
  /\ UNCHANGED <<r, stack, status, out>> /\ SameFrame

Jump ==
  /\ Fetched({"JMP", "JPC"})
  /\ pc' = IF code[pc].op = "JMP" \/ r[code[pc].r] = 0
           THEN code[pc].m ELSE pc + 1
  /\ UNCHANGED <<sp, r, stack, status, out>> /\ SameFrame

Write ==
  /\ Fetched({"SIO"}) /\ code[pc].m = 1
  /\ out' = Append(out, r[code[pc].r])
  /\ pc' = pc + 1
  /\ UNCHANGED <<sp, r, stack, status>> /\ SameFrame

\* scanf leaves the register alone when it finds no number.
Read ==
  /\ Fetched({"SIO"}) /\ code[pc].m = 2
  /\ \E v \in Inputs \cup {r[code[pc].r]} : r' = [r EXCEPT ![code[pc].r] = v]
  /\ pc' = pc + 1
  /\ UNCHANGED <<sp, stack, status, out>> /\ SameFrame

Halt ==
  /\ Fetched({"SIO"}) /\ code[pc].m = 3
  /\ status' = IDLE
  /\ pc' = pc + 1
  /\ UNCHANGED <<sp, r, stack, out>> /\ SameFrame

\* An operation the machine does not know is reported and skipped.
Skip ==
  /\ Fetched({"NUL", "SIO"})
  /\ code[pc].op = "SIO" => code[pc].m \notin 1 .. 3
  /\ pc' = pc + 1
  /\ UNCHANGED <<sp, r, stack, status, out>> /\ SameFrame

\* frameBreak[level] = mark, with what follows frameBreak in the struct:
\* frameLevel (written back at the end of the step, so the mark is lost),
\* numInstructions and status.
\* Mutant of MarkFrame: RTN leaves the mark of the record it drops.
LeaveMark(level, mark, newStatus) ==
  /\ frameBreak' = IF level < MaxLexi /\ mark # 0
                   THEN [frameBreak EXCEPT ![level] = mark] ELSE frameBreak
  /\ numInstructions' = IF level = MaxLexi + 1 THEN mark ELSE numInstructions
  /\ status' = IF level = MaxLexi + 2 THEN mark ELSE newStatus

MarkFrame(level, mark, newStatus) ==
  /\ frameBreak' = IF level < MaxLexi
                   THEN [frameBreak EXCEPT ![level] = mark] ELSE frameBreak
  /\ numInstructions' = IF level = MaxLexi + 1 THEN mark ELSE numInstructions
  /\ status' = IF level = MaxLexi + 2 THEN mark ELSE newStatus

\* Mutants of WithLinks: the dynamic link and the return address swapped, and
\* the address of the CAL itself as the return address.
SwappedLinks(link) == [stack EXCEPT ![sp + 1] = 0, ![sp + 2] = link,
                                    ![sp + 3] = pc + 1, ![sp + 4] = bp]
ReturnToCall(link) == [stack EXCEPT ![sp + 1] = 0, ![sp + 2] = link,
                                    ![sp + 3] = bp, ![sp + 4] = pc]

\* The first four words of the callee's record: room for a value, the static
\* link, the dynamic link and the return address.
WithLinks(link) == [stack EXCEPT ![sp + 1] = 0, ![sp + 2] = link,
                                 ![sp + 3] = bp, ![sp + 4] = pc + 1]

CallProcedure ==
  /\ Fetched({"CAL"})
  /\ LET link == Base(code[pc].l, bp)
     IN  stack' = WithLinks(link) /\ statics' = Append(statics, link)
  /\ frames' = Append(frames, [bp |-> bp, sp |-> sp, pc |-> pc + 1])
  /\ bp' = sp + 1
  /\ pc' = code[pc].m
  /\ MarkFrame(frameLevel, sp, status)
  /\ frameLevel' = frameLevel + 1
  /\ UNCHANGED <<sp, r, code, out, runs, lost>>

Pop(s) == IF s = << >> THEN s ELSE SubSeq(s, 1, Len(s) - 1)

\* Mutant of CallerTop: the callee's first word stays on the stack.
CalleeBase == bp

CallerTop == Wrap(bp - 1)

ReturnToCaller ==
  /\ Fetched({"RTN"})
  /\ sp' = CallerTop
  /\ bp' = IF bp = 1 THEN bp ELSE stack[bp + 2]
  /\ pc' = stack[bp + 3]
  /\ MarkFrame(frameLevel, 0, IF bp = 1 THEN IDLE ELSE status)
  /\ frameLevel' = frameLevel - 1
  /\ frames' = Pop(frames) /\ statics' = Pop(statics)
  /\ UNCHANGED <<r, stack, code, out, runs, lost>>

Execute == \/ Compute \/ Store \/ Allocate \/ Jump \/ Write \/ Read \/ Halt
           \/ Skip \/ CallProcedure \/ ReturnToCaller

Next == Run \/ PrefetchFails \/ Lose \/ Execute

Spec == Init /\ [][Next]_vars

-----------------------------------------------------------------------------
(* The discipline of compiled code: a procedure body begins with one INC   *)
(* of at least four words (generateVariableSpace), calls only after it,    *)
(* and stores no variable over a link word.                                *)

LinkWords == UNION {{f.sp + 2, f.sp + 3, f.sp + 4} :
                      f \in {frames[i] : i \in 1 .. Len(frames)}}

Obeys(ir) == /\ ir.op = "INC" => sp = bp - 1 /\ ir.m >= 4 /\ sp + ir.m \in Addr
             /\ ir.op = "CAL" => sp >= bp + 3
             /\ ir.op = "STO" => Target(ir) \notin LinkWords

Obedient == (Running /\ ~PastEnd /\ pc >= 0 /\ Defined(code[pc])) => Obeys(code[pc])

DisciplinedNext == Obedient /\ Next

\* run_vm loops as long as the status is RUNNING.
DisciplinedSpec == Init /\ [][DisciplinedNext]_vars /\ WF_vars(DisciplinedNext)

-----------------------------------------------------------------------------
(* Properties.                                                             *)

\* Every register, stack word and pointer of the machine stays an int, and
\* the program counter and the frame counter stay where the C code keeps
\* them, whatever code is loaded.
TypeOK == /\ sp \in Word /\ bp \in Word /\ pc \in Word
          /\ r \in [Reg -> Word]
          /\ stack \in [Addr -> Word]
          /\ code \in [Location -> Instruction]
          /\ frameBreak \in [0 .. MaxLexi - 1 -> Word]
          /\ frameLevel \in -1 .. MaxLexi + 3
          /\ numInstructions \in Word
          /\ status \in Word
          /\ out \in Seq(Word)
          /\ runs \in 0 .. MaxRuns
          /\ lost \in BOOLEAN
          /\ frames \in Seq([bp : Word, sp : Word, pc : Word])
          /\ statics \in Seq(Word)

Depth == Len(frames)

\* The base of the record that runs with i calls open.
BaseAt(i) == IF i = 0 THEN 1 ELSE frames[i].sp + 1

\* Each open call left room for the caller's own links, and records follow
\* one another: the shape that keeps the link words apart.
FramesNest == /\ Len(statics) = Depth
              /\ bp = BaseAt(Depth)
              /\ \A i \in 1 .. Depth : /\ frames[i].bp = BaseAt(i - 1)
                                       /\ frames[i].sp >= frames[i].bp + 3

\* The link words in memory, which the program's own stores could reach, are
\* still the ones CAL wrote (instruction_execution, cases CAL, RTN and STO):
\* the static link, the dynamic link and the return address of every open
\* call.
LinkWordsHold ==
  \A i \in 1 .. Depth :
    /\ frames[i].sp + 4 \in Addr
    /\ stack[frames[i].sp + 2] = statics[i]
    /\ stack[frames[i].sp + 3] = frames[i].bp
    /\ stack[frames[i].sp + 4] = frames[i].pc

LinksIntact == FramesNest /\ LinkWordsHold

\* The places where printVMState draws a "|" are exactly the boundaries of
\* the open records, up to the MaxLexi it has room for, although RTN clears
\* the mark above the one it leaves.
Separators == {frameBreak[i] : i \in 0 .. MaxLexi - 1} \cap 2 .. sp - 1
Boundaries == {frames[i].sp : i \in 1 .. Depth} \cap 2 .. sp - 1
SeparatorsExact == Depth <= MaxLexi => Separators = Boundaries

\* Calls and returns of disciplined code behave as CallStack says: a return
\* restores the caller's environment although it is rebuilt from memory.
Abstract == INSTANCE CallStack
              WITH env <- [bp |-> bp, sp |-> sp, pc |-> pc], suspended <- frames
RestoresCaller == Abstract!Spec

\* A program whose jumps and calls all go forward comes to an end: no return
\* leads it back to a call it has already made.  (It also ends when it is
\* about to leave the discipline.)
Forward == \A a \in Location :
             a < numInstructions /\ code[a].op \in {"JMP", "JPC", "CAL"}
               => code[a].m > a
Halts == [](Running /\ Forward => <>(~Running \/ ~Obedient \/ ~Forward))
=============================================================================
