# Verification of the PL/0 compiler

TLA+ models of the PL/0 compiler and its virtual machine, model-checked with
TLC, and proofs of what matters most in them, checked with TLAPS. Paths are
relative to the root of the repository; line numbers are given in PROJECT.json.

## The system

The compiler is a sequential C program. `driver_run` (`src/driver`) runs its
parts one after the other and hands the result of each to the next through a
file: source text -> *scanner* -> token file -> *parser*, which fills the
*symbol table* and drives the *code generator* while it parses -> *linker*
(`prepareMcode`) -> machine code file -> *virtual machine*. There are no
threads, no messages and no restarts. What is hard here is not concurrency but
state that is kept in globals and counters over a recursive descent, in memory
that the compiled program itself writes to, and at the limits of fixed arrays.

| part | state | operations | what makes it correct |
|---|---|---|---|
| scanner (`dfa.c`, `scanner.c`) | place in the file, automaton state, lexeme buffer, line and column, token list | `getNextLexeme`: read, `transition`, accept or reject, give a character back | the tokens are the longest matches, each once; the buffer is never overrun; positions quoted in errors are right; it ends |
| symbol table (`symbolTable.c`) | buckets of symbol lists, nodes on a ring, counters | `putSymbol`, `getSymbol`, print | nothing lost or stored twice; the ring holds together; a lookup finds the innermost declaration |
| parser, blocks (`parse.c`) | `globalLevel`, `offsetArray`, `procedureCount`, `currentProcedure`, `inUse`, the recursion of `blockParse` | const, var and procedure declarations, begin and end of a block | addresses lie in the record of their block; code goes to the set of its own block |
| parser, statements (`parse.c`) | `register_ptr`, the recursion of `statementParse`, symbol sets for recovery | one case per statement, `test` for recovery | the register counter is balanced; jumps are patched; recovery ends |
| code generator (`gencode.c`) | code sets, final code | append, prepend, patch (`changeM`), `prepareMcode` | every instruction is laid out once; jumps and calls reach what they meant |
| virtual machine (`virtualMachine.c`) | registers, stack, code, `frameBreak`, status | `load_code`, `prefetch`, one case per instruction | a return restores the caller; a run ends when it should |
| symbol sets (`parse_common.c`) | sorted lists of token types | create, insert, unite, search | a search finds what was put in, however the lists were united |
| AST, unparser, printers | the tree | print, unparse, free | the tree is the text's; unparsed text parses to the same tree; nothing is used after it was freed |
| driver | paths, options | runs the parts in order, then releases them | the machine runs only after a parse that did not fail; a program writes what it means |

Error recovery is spread over all parse functions: each hands its callees the
set of symbols that somebody further out waits for, and `test` skips tokens up
to one of them.

The parts meet in three places: the parser stores symbols that later lookups
turn into `level` and `addr` of instructions; `addr` of a procedure must be the
number of the code set that `getFreeSet` handed out for it; and the layout the
generator assumes for activation records (four link words, then variables,
made by one `INC`) is the layout `CAL` and `RTN` of the machine rely on.

## Modules

`PMachine` - the virtual machine. Its variables are the fields of `struct
virtualMachine` and the history variables `frames` and `statics`, which record
what each open call suspended. `Run` is `run_vm` up to its loop; every other
action is one turn of the loop: `PrefetchFails`, or prefetch and one group of
cases of `instruction_execution` that change the same fields (`Compute`,
`Store`, `Allocate`, `Jump`, `Write`, `Read`, `Halt`, `Skip`,
`CallProcedure`, `ReturnToCaller`). The C code checks no address; a step that
would leave an array, or a division that traps, is `Lose`, after which the
machine takes no step. The exception is `frameBreak`: the fields behind it in
the struct are modelled as what an index of `MaxLexi` to `MaxLexi + 2` writes.
`DisciplinedSpec` restricts the machine to code that keeps to the layout of
records (`Obeys`): one `INC` of at least four words opens a record, calls come
after it, and `STO` does not address a link word.

`CallStack` - the abstract specification of calls: a call suspends the
caller's environment, the matching return gives it back. `RestoresCaller` says
that `PMachine`, which rebuilds the environment from memory, implements it
under the mapping `env <- [bp, sp, pc]`, `suspended <- frames`.

`SymbolTable` - `putSymbol` and `getSymbol` with the duplicate check, the
bucket lists and the ring. A node is named by its bucket, since a bucket never
has two. `order` is history.

`Declarations` - extends `SymbolTable` with what `blockParse`, `makeSymbol`
and `getFreeSet` do with the declarations of a program. `blocks` is the
recursion of `blockParse`: the place in the grammar, the counters of the block
node, whether the list pointer of the section is set, `oldProcedure`, and as
history the symbols made for the block. `EndDeclarations` may start the
sections over, as the `do` loop does; a repeated section follows a null
pointer (`Crash`), and a variable deeper than `offsetArray` ends the behaviour
(`LevelTooDeep`).

`CodeGen` - `gencode.c` as `statementParse` and `blockParse` drive it. `open` is
their recursion with the positions (`j1`, `j2`, `c`) they keep in locals. An
action is a point of the parse at which code is emitted; `LinkJumps` and
`LinkSet` are `prepareMcode`, one set at a time. Expressions are one literal:
within one, registers are taken and given back and only the result is left.
`INC` carries a fixed size here; sizes are the subject of `Declarations`. The
history variables `tags` and `goals` name each instruction and what each jump
is meant for, independently of the positions the code computes with.

`Scanner` - `scanner_run`, `getNextLexeme` and `transition`. A step reads one
character. The states of single-character operators are one state, because
they behave alike. `TokensOf` is a reference definition of the tokens of a
text by longest match: `PieceEnd` is where the longest lexeme, blank or comment
from a position ends, and `TokensFrom` is the tokens from there on.

`SymSet` - the sorted lists of `createset`, `setinsert`, `uniteset` and `inset`,
duplicates and all, and the sets the parser keeps. `Merged` is one turn of the loop
of `uniteset`.

`Parser` - the recursive descent over a token file. `acts` is the stack of open
calls of `programParse`, `blockParse`, `statementParse`, `conditionParse`,
`expressionParse`, `termParse`, `factorParse` and `test`, each with its symbol
set `fsys`, the place where it goes on (`at`), the nodes it has got back and
its locals. An action runs from one place to the next token, call or return.
`Refusal` gives the error with which a function returns at a token, `Fail` is
such a return through all callers. `Test` is the call of `test`; `Skip` and
`EndTest` are its loop. Declarations go through the actions of `Declarations`,
code through the operators of `CodeGen`. A place of the token file holds a set
of tokens, from which `getToken` takes one: TLC chooses the text while it is
read. `read` is the text as far as no error was reported. A null pointer that
the parser follows is `step = "crashed"`.

`Tree` - what is done with a complete tree: the text of the grammar (`Yield`), the
text `unParsePrint` writes, with semicolons in places of its own and with "if odd"
and "while odd" run together to one word each (`Unparsed`), and the nodes that
`parse_exit` reads and releases, in order (`Freed`).

`Compiler` - `driver_run` from the token file on: `Parse` (the steps of `Parser`),
`Link` (`prepareMcode` of `CodeGen`), `Load` and `Turn` (`PMachine`) and
`Cleanup`. A failed parse ends the run. `source` is a program as a tree, `text`
says how it was written down: by the grammar, by the unparser, or by the
grammar with one of the mistakes that `README.md:100` lists.

`Meaning` - a reference semantics: what a tree writes, given what is typed,
computed over names and frames, without registers, jumps or records. It models
no code.

`MC...` modules give the constants values.

`...Proofs` modules extend the module they are named after and hold its theorems.
`DeclarationsProofs` is about `SymbolTable` too. The proofs about `Parser` build on
each other: `ParserProofs` has its calls and registers, `RecoveryProofs` the symbol
sets of `SymSet` and what the recovery skips, `CrashProofs` the rest. `Recursion` models nothing: it has
induction over the natural numbers, and the existence of a function defined by
recursion on them, as lemmas about sets and functions.

The parts are checked under assumptions that the whole discharges. `PMachine`
is right for code that keeps to the layout of records; `CodeObeys` says that
parser and linker produce such code. `CodeGen` puts one literal for an
expression; `Parser` has the expressions, and `RegistersBalanced` shows that
each leaves the one register `CodeGen` counts for it. `Declarations` takes any
order of declarations the grammar allows; `Parser` takes them from tokens.

## Runs

| run | asks | bounds |
|---|---|---|
| `pmachine` | do links survive, do returns restore, are the printed boundaries right, does forward code halt | all programs of up to 3 instructions of 9 behind an INC, also behind a call; nested and recursive programs; 5 inputs, the ends of a small int among them; a 20-word stack, 2 frame marks, 16 instructions |
| `deep_calls` | does a recursive program that is six calls deep end by its halt (violated) | the machine with its real `MAX_LEXI_LEVELS` |
| `declarations` | table structure, kept declarations, code sets, resolution | 4 declarations, 4 names, two of which collide, 3 buckets, 3 sets, 2 levels |
| `scopes`, `frames` | does every lookup find the innermost declaration; do variables lie in their record (both violated) | 2 names in buckets of their own |
| `codegen` | registers, jumps, calls, completeness of the link | 5 statements, 2 procedures, 5 open at once, 4 sets |
| `loops` | is a loop closed by its back jump (violated) | 4 statements, 2 procedures |
| `scanner` | tokens, positions, buffer, termination | all texts of 3 characters of 12, all of 6 characters of 4; identifiers of 3, numbers of 2 characters |
| `parser` | registers, tree, recovery, crashes and termination, for right texts and wrong ones | token files of seven shapes: after a header of declarations 4 free tokens of 20 kinds, or 2 (`ThenPlaces`) as the then part of an if with an else; an expression of 4 tokens of 15; two conditions of 5 tokens of 8; declarations of 5 tokens of 12, alone and behind a procedure; one level less than procedures need, 3 code sets |
| `compiler` | does what was compiled write what was meant; are the README's mistakes repaired; does unparsed text compile; does the driver end; is anything of the tree used after its release | 127 programs with all statements, operators, relations, nested, recursive and mutually calling procedures; 13 of them with each mistake at each place; 353 texts in all; 1 or 3 typed at each read |
| `parenthesis` | is every one of the README's mistakes reported (violated) | those of `compiler` |
| `scanner_eof` | is the whole of a file scanned (violated) | texts of 2 characters |

Why the bounds are enough. In `pmachine` a stack of 20 holds four records of
the least size, so every relation between a record, its caller and its caller's
caller occurs, and with two frame marks calls nest beyond the marks; `MaxInt`
is small so that sums and products overflow. In `declarations` four
declarations suffice for a procedure within a procedure, for siblings, for a
shadowed name and for a refused duplicate; three buckets, sets and two levels
are fewer than four declarations can ask for, so every limit is hit. In
`codegen` five statements allow an if within a while within a procedure, next
to a second procedure. In `scanner` the limits on lengths are scaled down with
their relations kept (`MaxBuffer = MaxIdent + 2`), so that too long words are
short; six characters hold a comment with stars before its end and a newline
behind it. In `parser` the free tokens stand where a function decides what comes
next, with a fixed rest behind them in which recovery can find its footing, or
with the end of the file; every place of every function is reached, with
tokens that are right, wrong, awaited by a caller, or awaited by nobody, and
every error number is reported; the shape with an else is there because the
recovery may skip one. In `compiler` each operation occurs with each other
one on both sides of a parenthesis, each relation with operands that are less,
equal and greater, and calls go out, up and across, three records deep at
least; with five frame marks the programs keep clear of run `deep_calls`,
but for one that is outside `Supported`. `MaxInt` is 200, above every
number these programs compute. `CHECK_DEADLOCK FALSE`: all these programs end.

Fairness. `run_vm` and `scanner_run` are single loops that do nothing but take
their next step, so weak fairness of the whole next-state relation is what the
program gives. `Halts` and `Terminates` assume nothing else. `Halts` is stated
for code whose jumps and calls go forward; other code may loop. `ParseEnds` and
`Ends` are alike: a recursive descent and the loop of `run_vm` do not pause, and
the user answers when the program reads. All programs of `compiler` have a
meaning, so that one that does not end is the compiler's doing.

## What the runs show

Passing: link words and nesting of records are never damaged by disciplined
code, returns restore the caller's environment exactly, the "|" drawn between
records are right up to `MaxLexi` calls although marks are cleared one above
where they were set, and forward code halts. The ring of table nodes and the
lists stay sound; putSymbol's refusal, which nobody looks at, loses no variable
or procedure while buckets last; the comparison of levels in `getSymbol`
picks the innermost declaration if the bucket holds just the open declarations
of one name. Code sets and procedures match through any nesting. All jumps and
calls of linked code land, and the register counter is balanced. The scanner
gives longest-match tokens and, up to one column before a pushed-back newline,
right positions.

`parser`: at every point of the parse, on the ways through the recovery too,
`register_ptr` is what the open calls hold; recovery never skips a token that an
open call goes on to look for, but for an else, a sign, and the test after the
declarations of a block (see below); the tree of an accepted text yields that text;
the parser crashes only on texts it has reported an error for, or at a level
`offsetArray` has no entry for; and it always ends. `compiler`: each mistake of
`README.md:100-111` leads to the tree that was meant, and each but one is
reported; unparsed text leads to the same tree, but for empty statements, if the
program asks for nothing odd and no then part that ends in a semicolon stands
before an else; code obeys the machine's layout; the output is what the program
means; the driver ends; and when the tree is released, no node is read or
released after its release and none is forgotten, with the exceptions below.

Violated, with what the code or its documentation says quoted in
PROJECT.json under "findings": recursion seven records deep ends in ERROR
(`deep_calls`); closed blocks and other names of a bucket stay visible to
lookups (`scopes`); a second sibling procedure's variables lie above its record
(`frames`); an inner `end` of a procedure returns from it (`loops`); a missing right
parenthesis is put in without a word, against `README.md:110` (`parenthesis`);
the lexeme that touches the end of the file is dropped (`scanner_eof`).

Where the properties make an exception, the code departs from its documents or
from what one would expect. These have no run of their own:

- A procedure whose body is no `begin` list gets no return, which only `end`
  emits (`parse.c:672`), and runs on into the code behind it. `Supported` leaves
  such programs out (`ListsOutside`).
- To write a constant the generator emits a `LOD` with its value as address
  (`gencode.c:316`). `OutputRight` shows that the damage is confined to that
  number; with a value beyond the stack the machine reads outside its array.
- The then part of an if is parsed without else in its set (`parse.c:725`), though
  the if looks for one at `parse.c:736`: an error in the then part, `if odd x then )
  else ..`, makes the recovery skip the else. Likewise the terms of an expression
  are parsed without the signs (`parse.c:976`), so that the second sign of `a ++ 3`
  is skipped, as `README.md:105` wants it. The test behind the declarations of a
  block (`parse.c:461`) is given no set of its callers. `RecoveryRespectsCallers`
  names these (`LeftOut`, `Served`), and no others are needed.
- With as many procedures as code sets the linker finds no empty set, takes their
  number for zero and produces no code (`gencode.c:92`); `NothingLost` holds in a run
  and in a proof where one set stays empty.
- A block with an empty statement is an error (7), although the comment at
  `parse.c:485` makes the statement optional.
- The unparser puts a semicolon between a simple then part and its else
  (`unparse.c:168`), which the parser takes for the end of the if (`CutOff`).
- It writes no blank between `if` or `while` and `odd` (`unparse.c:162`, `179`, `125`):
  the scanner reads an identifier `ifodd`, and the parser an assignment that has no
  `:=`. `UnparseRecompiles` says that such a text is never accepted (`AsksOdd`).
- The then part of an if with an else is freed twice, its else part never
  (`parserInit.c:125`), nor the block of a procedure (`parserInit.c:191`):
  `ReleasedOnce` has exactly these as exceptions.
- A parse that reported errors but did not return one goes on to code and run;
  `CrashesReported` is the reason why some of them do not get that far.

## What is proved

Every proof starts from the named assumptions on the constants and nothing
else: `SizesAssumption` and `FilesAssumption` (sizes are natural numbers that
fit an int, files are sequences of instructions), `TableAssumption` (hash
values are buckets, the null pointer is no bucket and no symbol),
`ParserAssumption` (limits are natural numbers, 0 is a value),
`CodeGenAssumption` (limits are natural numbers, there is a code set),
`TokensAssumption` (the tokens of a file have types of `Token_t`),
`ScannerAssumption`
(`MaxBuffer = MaxIdent + 2`, numbers no longer than identifiers) and
`AlphabetAssumption` (a character is of one kind only, a reserved word's token is
not that of an identifier or a number). Each proof shows that an inductive
invariant holds initially, is kept by every action, and implies the property.

- `PMachineProofs`. `TypeCorrect`: `TypeOK` is inductive by itself, for any code.
  `LinksStayIntact`: `LinksIntact` says of neighbouring records that they do
  not overlap, but a `CAL` writes links that must miss those of every open
  record, so the invariant adds `FramesApart`: any two records lie at least
  four words apart. The discipline enters at the three instructions that could
  break it, `INC`, `CAL` and `STO`. `ReturnsToCaller`: under the same invariant
  every step of the machine is a step of `CallStack` or leaves its variables
  unchanged. `SeparatorsRight`: `MarksInv` says that
  `frameLevel` is the number of open records, that the marks below it are the
  tops of the records that wait, and that the innermost record's mark is clear or
  what the last return left there, its own top of stack.
- `ScannerProofs`. `BufferSafe`: how full the buffer may be depends on the state
  of the automaton, and the invariant says so for each state (`Filled`):
  identifiers and numbers by the length tests, operators by the path that leads
  to their state, comments because the index starts again. `LocationsRight`: the
  column may be one ahead only where the next character is a newline that was
  given back, and then no lexeme is begun, so it is given back once
  (`LocationInv`). `TokensAreRight`:
  the tokens listed so far are those of the text up to where the last lexeme
  ended, however much is read beyond it (`GoodAt`), and the state of the automaton
  and the buffer are what was read since (`Reading`); or the text has a malformed
  lexeme, however much is read beyond it (`BadAt`). The step from the automaton,
  which looks one character ahead, to the longest match, which looks at all of the
  rest, is `PieceStart`: what a lexeme, blank or comment begins with is one itself,
  or may still become one. `TokensFrom` is a recursive function;
  its equation is proved, not assumed, by induction (module `Recursion`).
- `DeclarationsProofs`. `RingStaysIntact` rests on
  `order`, the nodes by age: head and tail are its ends, next and previous its
  neighbours, and the seam moves with each new node. `CodeSetsStayMatched`
  needs `BlocksInv`: sets are taken in the order of procedure numbers, an open
  block keeps the set it began with and shares it with no other open block, the
  outer blocks wait for the procedure they are reading, and the sets not taken
  are empty. `DeclarationsKept`: a refused symbol agrees with a stored one in
  all but its value, and is therefore the same one, because what is no constant
  has the value 0 (`ZeroValued`). `LookupsResolve`: the loop of `getSymbol` is a
  recursive function, shown to exist and to choose a symbol that no other visible
  one of the bucket is deeper than (`ChoiceIsDeepest`); a symbol's level is that
  of the block it was made for (`LevelsInv`), so the deepest is the innermost.
- `CodeGenProofs`. One invariant (`Inv`) serves `CodeGenType`, `RegistersBalance`,
  `JumpsArrive`, `CallsArrive` and `LinkingComplete`. The open blocks are at the
  bottom of the stack, each with a code set of its own (`StackInv`); sets not yet
  handed out are empty, finished ones begin with their `INC` (`SetsInv`); a jump
  whose goal is known holds it, counted without the `INC` (`GoalsInv`); an open
  statement has a jump of its own to patch, which no goal is known for
  (`CellsInv`); a call names a procedure (`CallsInv`); and behind the table of
  jumps each set that is laid out stands, relocated, where its jump goes to
  (`LayoutInv`). `LinkingComplete` has the hypothesis that one code set stays
  empty, for which the linker looks to count the sets: with all of them in use
  the linked code is empty.
- `ParserProofs`. `DescentBalances`: the count of registers is by the places of the
  open calls, so the invariant (`ActsInv`) says which function can be open over
  which: `programParse` only at the bottom, and a call that leaves a value in a
  register exactly where its caller awaits one.
- `RecoveryProofs`. `RecoverySkipsNoneAwaited`: what `createset` and `uniteset` return
  is sorted and holds exactly the elements it was made from, duplicates or not
  (`CreateIs`, `UniteIs`), and on a sorted list `inset`, which gives up at the first
  larger element, finds what is there (`InsetIs`). Both are recursive functions whose
  equations are proved by induction. The invariant is `SetsInv`: the list of a call
  holds what its caller goes on to look for (`Awaits`), whether handed on or put in by
  the call itself, but for an else and the signs (`LeftOut`), and it holds what the
  list of its caller holds, unless it is the test behind the declarations; and only
  the innermost call is one of `test`. So a token that is not in the list of `test`
  is looked for by none below it. That the set given with a call holds what the
  caller looks for at the place where it then waits is `Serving`. That no symbol that begins a statement
  begins a declaration is a lemma about the two lists (`SetsApart`).
- `CrashProofs`. `ParserCrashesReported`: as long as nothing was reported (`Clean`),
  each call of `blockParse` has its block node at its own depth, the list of a
  section still to come is empty, the symbol of an open assignment is not null, and
  `test` is not skipping; so every pointer the parser follows is set.
  `ParserType`: `TypeOK` of `Parser` needs what the other proofs know. The
  registers of an instruction are not negative because of the balance
  (`DescentBalances`): a place that takes one back has taken it before. A
  patched jump stays an instruction (`CodeInv`), also when a new one is appended
  in the same step. The tree is a block because over `programParse` there is one
  call of `blockParse` and no node, until that call returns the node (`RootInv`).
  The token is one of the file's (`TokensInv`).

Only model-checked: the liveness properties `Halts`, `Terminates`, `ParseEnds` and
`Ends` (fairness is out of reach of the proof system here), and `TreeYields` and all of
`Compiler`, because `Tree`, `Meaning` and `Compiler` declare RECURSIVE operators.
Every safety invariant and action property of the other modules that a run
checks is proved.

## What is not modelled

Not modelled, with reasons: `printAST.c`, `showset` and the other printers walk
what is modelled and write text; layout of unparsed text; the command line and
the output files of the driver, and `init_driver`, which is all allocation;
running out of heap; what the driver unparses and releases after a failed
parse, when the tree is incomplete; the token file as text between scanner and
parser, which are checked on either side of it; `getfollowToken`, `expect` and
the code under `#if 0`, which nobody calls; the unit test programs.
