----------------------------- MODULE ScannerProofs -----------------------------
(***************************************************************************)
(* Proofs about the scanner, for every text, alphabet and limit: the       *)
(* position stays in the text, no lexeme or comment overruns the buffer,   *)
(* lines and columns are right, and the token table holds the tokens of    *)
(* the text, which are defined without the automaton.                      *)
(***************************************************************************)
EXTENDS Scanner, Recursion, FiniteSetTheorems, SequenceTheorems, TLAPS

\* How much of the buffer each state of the automaton has filled: BufferFits
\* alone does not say that an operator begun leaves room for the rest of it,
\* nor that a comment does.
Filled(s) ==
  CASE s = "START" -> Len(buffer) = 0
    [] s = "DIGIT" -> Len(buffer) <= MaxNumber
    [] s = "ALPHA" -> Len(buffer) <= MaxIdent
    [] s \in {"SINGLE", "DIV", "LESS", "LARE", "COLON"} -> Len(buffer) <= 1
    [] s \in {"LEQ", "GEQ", "NEQ", "BECOMES", "LCOMM"} -> Len(buffer) <= 2
    [] s = "COMM" -> Len(buffer) <= 3
    [] s = "RCOMM" -> Len(buffer) = 0
    [] OTHER -> FALSE

BufferInv == /\ running => Filled(state)
             /\ Len(buffer) <= MaxIdent + 1

Inv == TypeOK /\ BufferInv

\* The limits of the lexemes, as numbers.
LEMMA Limits == /\ MaxIdent \in Nat /\ MaxNumber \in Nat /\ MaxBuffer \in Nat
                /\ 1 <= MaxNumber /\ MaxNumber <= MaxIdent /\ MaxIdent >= 3 /\ MaxBuffer = MaxIdent + 2
  BY ScannerAssumption

\* What each state has filled leaves room for a character and the NUL.
LEMMA RoomForNext == Inv => BufferFits
<1> SUFFICES ASSUME Inv PROVE BufferFits OBVIOUS
<1>1. Len(buffer) \in Nat BY DEF Inv, TypeOK
<1>2. ASSUME running PROVE Len(buffer) <= MaxIdent
  <2>1. Filled(state) BY <1>2 DEF Inv, BufferInv
  <2> QED BY <1>1, <2>1, Limits DEF Filled
<1> QED BY <1>1, <1>2, Limits DEF BufferFits, Inv, BufferInv

\* The character read is one of the text's.
LEMMA CharType ==
  ASSUME TypeOK, NEW states, In(states)
  PROVE  Char \in Chars /\ pos + 1 \in 0 .. Len(text) /\ state \in states /\ running
<1>1. text \in Seq(Chars) BY ScannerAssumption DEF TypeOK
<1>2. pos + 1 \in 1 .. Len(text) BY <1>1 DEF TypeOK, In
<1> QED BY <1>1, <1>2 DEF Char, In

\* Reading, and giving back, keep the position and the location in range.
LEMMA AdvanceType ==
  ASSUME TypeOK, NEW states, In(states), Advance
  PROVE  /\ pos' \in 0 .. Len(text)
         /\ line' \in Nat \ {0} /\ column' \in Nat \ {0} /\ lastLineLength' \in Nat
  BY CharType DEF TypeOK, Advance

LEMMA RewindType ==
  ASSUME TypeOK, Rewind
  PROVE  /\ pos' \in 0 .. Len(text)
         /\ line' \in Nat \ {0} /\ column' \in Nat \ {0} /\ lastLineLength' \in Nat
  BY DEF TypeOK, Rewind

\* Ending a lexeme adds at most the character that ended it.
LEMMA EndsLexeme ==
  ASSUME Inv, NEW states, In(states), NEW newType, Accept(newType) \/ Reject \/ SkipBlank
  PROVE  Inv'
<1>1. Len(buffer) <= MaxIdent
  <2>1. BufferFits BY RoomForNext
  <2>2. Len(buffer) \in Nat BY DEF Inv, TypeOK
  <2> QED BY <2>1, <2>2, Limits, CharType DEF BufferFits, Inv, In
<1>2. CASE Accept(newType)
  <2>1. TypeOK'
    BY <1>2, RewindType DEF Inv, TypeOK, Accept, States
  <2> QED BY <1>2, <2>1 DEF Inv, BufferInv, Accept
<1>3. CASE Reject \/ SkipBlank
  <2>1. /\ Advance /\ buffer' = Append(buffer, Char) /\ running' = FALSE
        /\ state' \in {"REJECT", "ACCEPT"} /\ UNCHANGED <<text, eof>>
    BY <1>3 DEF Reject, SkipBlank
  <2>2. buffer \in Seq(Chars) /\ Char \in Chars BY CharType DEF Inv, TypeOK
  <2>3. buffer' \in Seq(Chars) /\ Len(buffer') = Len(buffer) + 1 BY <2>1, <2>2
  <2>4. TypeOK' BY <2>1, <2>3, AdvanceType DEF Inv, TypeOK, States
  <2>5. Len(buffer') <= MaxIdent + 1 BY <1>1, <2>2, <2>3, Limits
  <2> QED BY <2>1, <2>4, <2>5 DEF Inv, BufferInv
<1> QED BY <1>2, <1>3

\* Going on with a lexeme keeps what is to be shown of the state it goes to.
LEMMA GoesOn ==
  ASSUME Inv, NEW states, In(states), NEW newState \in States, NEW newType,
         Shift(newState, newType), Filled(newState)'
  PROVE  Inv'
<1>1. Char \in Chars /\ running /\ buffer \in Seq(Chars)
  BY CharType DEF Inv, TypeOK
<1>2. /\ Advance /\ state' = newState /\ UNCHANGED <<text, eof, running>>
      /\ buffer' = IF Forgets(newState) THEN << >> ELSE Append(buffer, Char)
  BY DEF Shift
<1>3. buffer' \in Seq(Chars) BY <1>1, <1>2
<1>4. TypeOK' BY <1>2, <1>3, AdvanceType DEF Inv, TypeOK
<1>5. Len(buffer') \in Nat BY <1>3
<1>6. Len(buffer') <= MaxIdent + 1 BY <1>5, Limits DEF Filled
<1>7. Filled(state)' BY <1>2 DEF Filled
<1> QED BY <1>4, <1>6, <1>7 DEF Inv, BufferInv
\* What a step adds to the buffer when it does not forget it.
LEMMA ShiftFills ==
  ASSUME Inv, NEW states, In(states), NEW newState, NEW newType,
         Shift(newState, newType)
  PROVE  /\ Len(buffer) \in Nat /\ Filled(state)
         /\ Len(buffer') = IF Forgets(newState) THEN 0 ELSE Len(buffer) + 1
<1>1. Char \in Chars /\ running /\ buffer \in Seq(Chars)
  BY CharType DEF Inv, TypeOK
<1>2. buffer' = IF Forgets(newState) THEN << >> ELSE Append(buffer, Char)
  BY DEF Shift
<1> QED BY <1>1, <1>2 DEF Inv, BufferInv

LEMMA InitScanner == Init => Inv
<1> SUFFICES ASSUME Init PROVE Inv OBVIOUS
<1>1. text \in Seq(Chars) BY ScannerAssumption DEF Init
<1>2. TypeOK
  <2>1. 0 \in 0 .. Len(text) BY <1>1
  <2>2. << >> \in Seq(Chars) OBVIOUS
  <2>3. text \in Texts /\ pos \in 0 .. Len(text) /\ buffer \in Seq(Chars)
    BY <2>1, <2>2 DEF Init
  <2>4. eof \in BOOLEAN /\ running \in BOOLEAN BY DEF Init
  <2>5. /\ state \in States
        /\ line \in Nat \ {0} /\ column \in Nat \ {0} /\ lastLineLength \in Nat
    BY DEF Init, States
  <2> QED BY <2>3, <2>4, <2>5 DEF TypeOK
<1>3. Len(buffer) = 0 BY DEF Init
<1> QED BY <1>2, <1>3, Limits DEF Init, Inv, BufferInv

\* From the start, a lexeme of at least one character is begun, or ended.
LEMMA StartKeeps == Inv /\ Start => Inv'
<1> SUFFICES ASSUME Inv, Start PROVE Inv' OBVIOUS
<1>1. In({"START"}) /\ state = "START" BY CharType DEF Start, Inv
<1>2. ASSUME NEW newState \in {"DIGIT", "ALPHA", "SINGLE", "DIV", "LESS", "LARE", "COLON"},
             NEW newType, Shift(newState, newType)
      PROVE  Inv'
  <2>0. ~Forgets(newState) BY <1>1 DEF Forgets
  <2>1. Filled("START") /\ Len(buffer') = Len(buffer) + 1
    BY <1>1, <1>2, <2>0, ShiftFills
  <2>2. Len(buffer) = 0 /\ Len(buffer') = 1 BY <2>1 DEF Filled
  <2>3. Filled(newState)' BY <1>2, <2>2, Limits DEF Filled
  <2> QED BY <1>1, <1>2, <2>3, GoesOn DEF States
<1>3. ASSUME SkipBlank \/ Reject PROVE Inv' BY <1>1, <1>3, EndsLexeme
<1> QED BY <1>2, <1>3 DEF Start

\* Numbers stop at MaxNumber digits.
LEMMA DigitKeeps == Inv /\ Digit => Inv'
<1> SUFFICES ASSUME Inv, Digit PROVE Inv' OBVIOUS
<1>1. In({"DIGIT"}) /\ state = "DIGIT" BY CharType DEF Digit, Inv
<1>2. ASSUME Shift("DIGIT", type), Len(buffer) + 1 <= MaxNumber PROVE Inv'
  <2>1. Len(buffer') = Len(buffer) + 1 BY <1>1, <1>2, ShiftFills DEF Forgets
  <2>2. Filled("DIGIT")' BY <1>2, <2>1 DEF Filled
  <2> QED BY <1>1, <1>2, <2>2, GoesOn DEF States
<1>3. ASSUME Accept(type) \/ Reject PROVE Inv' BY <1>1, <1>3, EndsLexeme
<1> QED BY <1>2, <1>3 DEF Digit

\* Identifiers stop at MaxIdent characters.
LEMMA AlphaKeeps == Inv /\ Alpha => Inv'
<1> SUFFICES ASSUME Inv, Alpha PROVE Inv' OBVIOUS
<1>1. In({"ALPHA"}) /\ state = "ALPHA" BY CharType DEF Alpha, Inv
<1>2. ASSUME Shift("ALPHA", type), IdentFits PROVE Inv'
  <2>1. Len(buffer') = Len(buffer) + 1 BY <1>1, <1>2, ShiftFills DEF Forgets
  <2>2. Filled("ALPHA")' BY <1>2, <2>1 DEF Filled, IdentFits
  <2> QED BY <1>1, <1>2, <2>2, GoesOn DEF States
<1>3. ASSUME Accept(Word) \/ Reject PROVE Inv' BY <1>1, <1>3, EndsLexeme
<1> QED BY <1>2, <1>3 DEF Alpha

\* Operators are of two characters at most.
LEMMA OperatorsKeep == Inv /\ (Operator \/ Less \/ Greater \/ Colon) => Inv'
<1> SUFFICES ASSUME Inv, Operator \/ Less \/ Greater \/ Colon PROVE Inv' OBVIOUS
<1>1. ASSUME NEW states, In(states),
             NEW newState \in {"LEQ", "GEQ", "NEQ", "BECOMES"}, NEW newType,
             Shift(newState, newType), state \in {"LESS", "LARE", "COLON"}
      PROVE  Inv'
  <2>1. Len(buffer) <= 1 /\ Len(buffer') = Len(buffer) + 1 /\ Len(buffer) \in Nat
    BY <1>1, ShiftFills DEF Filled, Forgets
  <2>2. Filled(newState)' BY <1>1, <2>1 DEF Filled
  <2> QED BY <1>1, <2>2, GoesOn DEF States
<1>2. CASE Operator BY <1>2, EndsLexeme DEF Operator
<1>3. CASE Less
  <2>1. In({"LESS"}) /\ state = "LESS" BY <1>3, CharType DEF Less, Inv
  <2> QED BY <1>1, <1>3, <2>1, EndsLexeme DEF Less
<1>4. CASE Greater
  <2>1. In({"LARE"}) /\ state = "LARE" BY <1>4, CharType DEF Greater, Inv
  <2> QED BY <1>1, <1>4, <2>1, EndsLexeme DEF Greater
<1>5. CASE Colon
  <2>1. In({"COLON"}) /\ state = "COLON" BY <1>5, CharType DEF Colon, Inv
  <2> QED BY <1>1, <1>5, <2>1, EndsLexeme DEF Colon
<1> QED BY <1>2, <1>3, <1>4, <1>5

\* A comment begins with two characters in the buffer, and keeps at most the
\* star that may end it.
LEMMA CommentsKeep == Inv /\ (Slash \/ Comment \/ Star \/ CommentEnd) => Inv'
<1> SUFFICES ASSUME Inv, Slash \/ Comment \/ Star \/ CommentEnd PROVE Inv' OBVIOUS
<1>1. CASE Slash
  <2>1. In({"DIV"}) /\ state = "DIV" BY <1>1, CharType DEF Slash, Inv
  <2>2. ASSUME Shift("LCOMM", type) PROVE Inv'
    <3>1. Len(buffer) <= 1 /\ Len(buffer') = Len(buffer) + 1 /\ Len(buffer) \in Nat
      BY <2>1, <2>2, ShiftFills DEF Filled, Forgets
    <3>2. Filled("LCOMM")' BY <3>1 DEF Filled
    <3> QED BY <2>1, <2>2, <3>2, GoesOn DEF States
  <2> QED BY <1>1, <2>1, <2>2, EndsLexeme DEF Slash
<1>2. CASE Comment
  <2>1. In({"LCOMM"}) /\ state = "LCOMM" BY <1>2, CharType DEF Comment, Inv
  <2>2. ASSUME NEW newState \in {"COMM", "LCOMM"}, Shift(newState, type) PROVE Inv'
    <3>1. /\ Len(buffer) <= 2 /\ Len(buffer) \in Nat
          /\ Len(buffer') = IF newState = "LCOMM" THEN 0 ELSE Len(buffer) + 1
      BY <2>1, <2>2, ShiftFills DEF Filled, Forgets
    <3>2. Filled(newState)' BY <2>2, <3>1 DEF Filled
    <3> QED BY <2>1, <2>2, <3>2, GoesOn DEF States
  <2> QED BY <1>2, <2>2 DEF Comment
<1>3. CASE Star
  <2>1. In({"COMM"}) /\ state = "COMM" BY <1>3, CharType DEF Star, Inv
  <2>2. ASSUME NEW newState \in {"COMM", "RCOMM", "LCOMM"}, Shift(newState, type)
        PROVE  Inv'
    <3>1. Len(buffer') = 0 BY <2>1, <2>2, ShiftFills DEF Forgets
    <3>2. Filled(newState)' BY <2>2, <3>1 DEF Filled
    <3> QED BY <2>1, <2>2, <3>2, GoesOn DEF States
  <2>3. AfterStar(Char) \in {"COMM", "RCOMM", "LCOMM"} BY DEF AfterStar
  <2> QED BY <1>3, <2>2, <2>3 DEF Star
<1>4. CASE CommentEnd BY <1>4, EndsLexeme DEF CommentEnd
<1> QED BY <1>1, <1>2, <1>3, <1>4

\* Every step of the scanner keeps Inv.
LEMMA NextScanner == Inv /\ [Next]_vars => Inv'
<1> SUFFICES ASSUME Inv, [Next]_vars PROVE Inv' OBVIOUS
<1>1. CASE Reset
  <2>1. TypeOK' BY <1>1 DEF Reset, Inv, TypeOK, States
  <2>2. Len(buffer') = 0 /\ state' = "START" BY <1>1 DEF Reset
  <2> QED BY <2>1, <2>2, Limits DEF Inv, BufferInv, Filled
<1>2. CASE EndOfFile BY <1>2 DEF EndOfFile, Inv, TypeOK, BufferInv
<1>3. CASE UNCHANGED vars BY <1>3 DEF vars, Inv, TypeOK, BufferInv, Filled
<1> QED BY <1>1, <1>2, <1>3, StartKeeps, DigitKeeps, AlphaKeeps, OperatorsKeep,
           CommentsKeep DEF Next

\* For every text, in every state of the automaton, the scanner's state keeps
\* its type, and lines and columns count from 1 (getNextLexeme).
THEOREM ScannerType == Spec => []TypeOK
<1>1. Inv => TypeOK BY DEF Inv
<1> QED BY <1>1, InitScanner, NextScanner, PTL DEF Spec

\* For every text and all limits, what getNextLexeme stores before transition
\* checks a length stays inside curLexeme.buffer.
THEOREM BufferSafe == Spec => []BufferFits
  BY RoomForNext, InitScanner, NextScanner, PTL DEF Spec

-----------------------------------------------------------------------------
(* Lines and columns.                                                      *)

\* LocationRight allows a column that is one too high before a newline, which
\* would grow if the same newline could be given back twice.  It cannot: once
\* a lexeme is begun, something was read, and the column is exact.
Newlines(n) == {i \in 1 .. n : text[i] = Newline}
LineTail(n) == {i \in 1 .. n : \A j \in i .. n : text[j] # Newline}

LocationInv ==
  /\ line = 1 + Cardinality(Newlines(pos))
  /\ \/ column = 1 + Cardinality(LineTail(pos))
     \/ /\ NextIsNewline /\ column = 2 + Cardinality(LineTail(pos))
        /\ running => state = "START"

\* The parts of a text up to a position are finite.
LEMMA PartsFinite ==
  ASSUME NEW n \in Nat
  PROVE  /\ IsFiniteSet(Newlines(n)) /\ Cardinality(Newlines(n)) \in Nat
         /\ IsFiniteSet(LineTail(n)) /\ Cardinality(LineTail(n)) \in Nat
<1>1. IsFiniteSet(1 .. n) BY FS_Interval
<1>2. Newlines(n) \subseteq 1 .. n /\ LineTail(n) \subseteq 1 .. n
  BY DEF Newlines, LineTail
<1> QED BY <1>1, <1>2, FS_Subset, FS_CardinalityType

\* One character more: a newline is counted and starts a line, any other
\* lengthens the last line.
LEMMA PartsGrow ==
  ASSUME NEW n \in Nat
  PROVE  IF text[n + 1] = Newline
         THEN /\ Cardinality(Newlines(n + 1)) = Cardinality(Newlines(n)) + 1
              /\ Cardinality(LineTail(n + 1)) = 0
         ELSE /\ Cardinality(Newlines(n + 1)) = Cardinality(Newlines(n))
              /\ Cardinality(LineTail(n + 1)) = Cardinality(LineTail(n)) + 1
<1>1. IsFiniteSet(Newlines(n)) /\ IsFiniteSet(LineTail(n)) BY PartsFinite
<1>2. n + 1 \notin Newlines(n) /\ n + 1 \notin LineTail(n) BY DEF Newlines, LineTail
<1>3. CASE text[n + 1] = Newline
  <2>1. Newlines(n + 1) = Newlines(n) \cup {n + 1} BY <1>3 DEF Newlines
  <2>2. LineTail(n + 1) = {} BY <1>3 DEF LineTail
  <2>3. Cardinality(Newlines(n) \cup {n + 1}) = Cardinality(Newlines(n)) + 1
    BY <1>1, <1>2, FS_AddElement
  <2>4. Cardinality(LineTail(n + 1)) = 0 BY <2>2, FS_EmptySet
  <2> QED BY <1>3, <2>1, <2>3, <2>4
<1>4. CASE text[n + 1] # Newline
  <2>1. Newlines(n + 1) = Newlines(n) BY <1>4 DEF Newlines
  <2>2. LineTail(n + 1) = LineTail(n) \cup {n + 1} BY <1>4 DEF LineTail
  <2> QED BY <1>1, <1>2, <1>4, <2>1, <2>2, FS_AddElement
<1> QED BY <1>3, <1>4

\* What the invariant says of the parts, in the words of LocationRight.
LEMMA LocationFollows == LocationInv => LocationRight
  BY DEF LocationInv, LocationRight, Newlines, LineTail, LastLine

LEMMA InitLocation == Init => LocationInv
<1> SUFFICES ASSUME Init PROVE LocationInv OBVIOUS
<1>1. pos = 0 /\ line = 1 /\ column = 1 BY DEF Init
<1>2. Newlines(pos) = {} /\ LineTail(pos) = {} BY <1>1 DEF Newlines, LineTail
<1>3. Cardinality(Newlines(pos)) = 0 /\ Cardinality(LineTail(pos)) = 0
  BY <1>2, FS_EmptySet
<1> QED BY <1>1, <1>3 DEF LocationInv

\* Reading a character makes the location exact, whatever it was before.
LEMMA AdvanceLocates ==
  ASSUME TypeOK, LocationInv, NEW states, In(states), Advance, text' = text
  PROVE  /\ line' = 1 + Cardinality(Newlines(pos))'
         /\ column' = 1 + Cardinality(LineTail(pos))'
<1>1. pos \in Nat /\ pos + 1 \in Nat /\ pos' = pos + 1
  <2>1. text \in Seq(Chars) BY ScannerAssumption DEF TypeOK
  <2> QED BY <2>1 DEF TypeOK, Advance
<1>2. /\ Newlines(pos)' = Newlines(pos + 1) /\ LineTail(pos)' = LineTail(pos + 1)
  BY <1>1 DEF Newlines, LineTail
<1>3. Cardinality(LineTail(pos)) \in Nat /\ Cardinality(Newlines(pos)) \in Nat
  BY <1>1, PartsFinite
<1>4. CASE Char = Newline
  <2>1. line' = line + 1 /\ column' = 1 BY <1>4 DEF Advance
  <2> QED BY <1>1, <1>2, <1>3, <1>4, <2>1, PartsGrow DEF Char, LocationInv
<1>5. CASE Char # Newline
  <2>1. line' = line /\ column' = column + 1 BY <1>5 DEF Advance
  <2>2. column = 1 + Cardinality(LineTail(pos))
    BY <1>5 DEF LocationInv, NextIsNewline, Char
  <2> QED BY <1>1, <1>2, <1>3, <1>5, <2>1, <2>2, PartsGrow DEF Char, LocationInv
<1> QED BY <1>4, <1>5

LEMMA ReadingLocates ==
  ASSUME TypeOK, LocationInv, NEW states, In(states),
         NEW newState, NEW newType,
         Shift(newState, newType) \/ Reject \/ SkipBlank
  PROVE  LocationInv'
<1>1. Advance /\ text' = text BY DEF Shift, Reject, SkipBlank
<1> QED BY <1>1, AdvanceLocates DEF LocationInv

\* A lexeme begun ends with the column exact, so the newline it gives back is
\* counted once.
LEMMA GivingBackLocates ==
  ASSUME TypeOK, LocationInv, NEW states, In(states), "START" \notin states,
         NEW newType, Accept(newType)
  PROVE  LocationInv'
<1>1. /\ pos' = pos /\ text' = text /\ line' = line /\ running' = FALSE
      /\ column' = IF Char = Newline THEN column + 1 ELSE column
  BY DEF Accept, Rewind
<1>2. Newlines(pos)' = Newlines(pos) /\ LineTail(pos)' = LineTail(pos)
  BY <1>1 DEF Newlines, LineTail
<1>3. column = 1 + Cardinality(LineTail(pos)) BY DEF LocationInv, In
<1>4. Cardinality(LineTail(pos)) \in Nat
  <2>1. text \in Seq(Chars) BY ScannerAssumption DEF TypeOK
  <2>2. pos \in Nat BY <2>1 DEF TypeOK
  <2> QED BY <2>2, PartsFinite
<1>5. CASE Char = Newline
  <2>1. NextIsNewline' BY <1>1, <1>5 DEF NextIsNewline, Char, In
  <2> QED BY <1>1, <1>2, <1>3, <1>4, <1>5, <2>1 DEF LocationInv
<1>6. CASE Char # Newline BY <1>1, <1>2, <1>3, <1>6 DEF LocationInv
<1> QED BY <1>5, <1>6

LEMMA NextLocation == Inv /\ LocationInv /\ [Next]_vars => LocationInv'
<1> SUFFICES ASSUME Inv, LocationInv, [Next]_vars PROVE LocationInv' OBVIOUS
<1>0. TypeOK BY DEF Inv
<1>1. ASSUME NEW states, In(states), NEW newState, NEW newType,
             Shift(newState, newType) \/ Reject \/ SkipBlank
      PROVE  LocationInv'
  BY <1>0, <1>1, ReadingLocates
<1>2. ASSUME NEW states, In(states), "START" \notin states, NEW newType, Accept(newType)
      PROVE  LocationInv'
  BY <1>0, <1>2, GivingBackLocates
<1>3. CASE Reset BY <1>3 DEF Reset, LocationInv, Newlines, LineTail, NextIsNewline
<1>4. CASE EndOfFile BY <1>4 DEF EndOfFile, LocationInv, Newlines, LineTail, NextIsNewline
<1>5. CASE Start BY <1>1, <1>5 DEF Start
<1>6. CASE Digit BY <1>1, <1>2, <1>6 DEF Digit
<1>7. CASE Alpha BY <1>1, <1>2, <1>7 DEF Alpha
<1>8. CASE Operator BY <1>2, <1>8 DEF Operator
<1>9. CASE Less BY <1>1, <1>2, <1>9 DEF Less
<1>10. CASE Greater BY <1>1, <1>2, <1>10 DEF Greater
<1>11. CASE Colon BY <1>1, <1>11 DEF Colon
<1>12. CASE Slash BY <1>1, <1>2, <1>12 DEF Slash
<1>13. CASE Comment BY <1>1, <1>13 DEF Comment
<1>14. CASE Star BY <1>1, <1>14 DEF Star
<1>15. CASE CommentEnd BY <1>2, <1>15 DEF CommentEnd
<1>16. CASE UNCHANGED vars
  BY <1>16 DEF vars, LocationInv, Newlines, LineTail, NextIsNewline
<1> QED BY <1>3, <1>4, <1>5, <1>6, <1>7, <1>8, <1>9, <1>10, <1>11, <1>12, <1>13,
           <1>14, <1>15, <1>16 DEF Next

\* For every text, the line and column that error messages quote are those of
\* the next character; only before a newline that was given back is the column
\* one too high (getNextLexeme).
THEOREM LocationsRight == Spec => []LocationRight
  BY InitScanner, NextScanner, InitLocation, NextLocation, LocationFollows, PTL DEF Spec

-----------------------------------------------------------------------------
(* Pieces of a text.                                                       *)

\* A part of a text, character by character.
LEMMA PartOfText ==
  ASSUME NEW t \in Seq(Chars), NEW i \in 1 .. Len(t), NEW j \in i .. Len(t)
  PROVE  /\ SubSeq(t, i, j) \in Seq(Chars) /\ Len(SubSeq(t, i, j)) = j - i + 1
         /\ \A m \in 1 .. j - i + 1 : SubSeq(t, i, j)[m] = t[i + m - 1]
<1>1. Len(t) \in Nat /\ i \in Int /\ j \in Int /\ i <= j OBVIOUS
<1>2. \A m \in i .. j : t[m] \in Chars BY <1>1, ElementOfSeq
<1> QED BY <1>1, <1>2, SubSeqProperties

\* Two neighbours of a sequence.
LEMMA Neighbours ==
  ASSUME NEW s \in Seq(Chars), NEW m \in 1 .. Len(s) - 1
  PROVE  SubSeq(s, m, m + 1) = <<s[m], s[m + 1]>>
<1>1. Len(s) \in Nat /\ m \in 1 .. Len(s) /\ m + 1 \in m .. Len(s) OBVIOUS
<1>2. /\ SubSeq(s, m, m + 1) \in Seq(Chars) /\ Len(SubSeq(s, m, m + 1)) = (m + 1) - m + 1
      /\ \A k \in 1 .. (m + 1) - m + 1 : SubSeq(s, m, m + 1)[k] = s[m + k - 1]
  BY <1>1, PartOfText
<1> DEFINE q == SubSeq(s, m, m + 1)
<1>3. q \in Seq(Chars) /\ Len(q) = 2 /\ q[1] = s[m] /\ q[2] = s[m + 1]
  <2>1. (m + 1) - m + 1 = 2 /\ m + 1 - 1 = m /\ m + 2 - 1 = m + 1 BY <1>1
  <2>2. 1 \in 1 .. (m + 1) - m + 1 /\ 2 \in 1 .. (m + 1) - m + 1 BY <2>1
  <2> QED BY <1>2, <2>1, <2>2
<1> HIDE DEF q
<1>4. q = <<q[1], q[2]>> BY <1>3
<1> QED BY <1>3, <1>4 DEF q

\* Comments, character by character.
LEMMA Opening ==
  ASSUME NEW s \in Seq(Chars)
  PROVE  /\ OpensComment(s) <=> /\ Len(s) >= 2 /\ s[1] = "/" /\ s[2] = "*"
                                /\ \A m \in 3 .. Len(s) - 2 : ~(s[m] = "*" /\ s[m + 1] = "/")
         /\ IsComment(s) <=> /\ OpensComment(s) /\ Len(s) >= 4
                             /\ s[Len(s) - 1] = "*" /\ s[Len(s)] = "/"
<1>1. Len(s) \in Nat OBVIOUS
<1>2. Len(s) >= 2 => SubSeq(s, 1, 2) = <<s[1], s[2]>>
  <2> SUFFICES ASSUME Len(s) >= 2 PROVE SubSeq(s, 1, 2) = <<s[1], s[2]>> OBVIOUS
  <2>1. 1 \in 1 .. Len(s) - 1 /\ 1 + 1 = 2 BY <1>1
  <2>2. SubSeq(s, 1, 1 + 1) = <<s[1], s[1 + 1]>> BY <2>1, Neighbours
  <2> QED BY <2>2
<1>3. \A m \in 3 .. Len(s) - 2 : SubSeq(s, m, m + 1) = <<s[m], s[m + 1]>>
  <2> TAKE m \in 3 .. Len(s) - 2
  <2>1. m \in 1 .. Len(s) - 1 BY <1>1
  <2> QED BY <2>1, Neighbours
<1>4. Len(s) >= 4 => SubSeq(s, Len(s) - 1, Len(s)) = <<s[Len(s) - 1], s[Len(s)]>>
  <2> SUFFICES ASSUME Len(s) >= 4
               PROVE  SubSeq(s, Len(s) - 1, Len(s)) = <<s[Len(s) - 1], s[Len(s)]>>
    OBVIOUS
  <2> DEFINE m == Len(s) - 1
  <2>1. m \in 1 .. Len(s) - 1 /\ m + 1 = Len(s) BY <1>1
  <2> HIDE DEF m
  <2>2. SubSeq(s, m, m + 1) = <<s[m], s[m + 1]>> BY <2>1, Neighbours
  <2> QED BY <2>1, <2>2 DEF m
<1>5. OpensComment(s) <=> /\ Len(s) >= 2 /\ s[1] = "/" /\ s[2] = "*"
                          /\ \A m \in 3 .. Len(s) - 2 : ~(s[m] = "*" /\ s[m + 1] = "/")
  BY <1>2, <1>3 DEF OpensComment
<1>6. IsComment(s) <=> /\ OpensComment(s) /\ Len(s) >= 4
                       /\ s[Len(s) - 1] = "*" /\ s[Len(s)] = "/"
  BY <1>4 DEF IsComment
<1> QED BY <1>5, <1>6

\* The operators, one by one: a pair has one or two characters, and two that
\* agree in their characters are the same.
LEMMA PairForm ==
  ASSUME NEW p \in Pairs
  PROVE  \/ \E c \in DOMAIN Single : p = << <<c>>, Single[c] >>
         \/ p = << <<"<", "=">>, "leqsym">> \/ p = << <<"<", ">">>, "neqsym">>
         \/ p = << <<">", "=">>, "geqsym">> \/ p = << <<":", "=">>, "becomessym">>
         \/ p = << <<"/">>, "slashsym">> \/ p = << <<"<">>, "lessym">>
         \/ p = << <<">">>, "gtrsym">>
  BY DEF Pairs

LEMMA PairLength ==
  ASSUME NEW p \in Pairs
  PROVE  Len(p[1]) \in 1 .. 2
<1>1. CASE \E c \in DOMAIN Single : p = << <<c>>, Single[c] >> BY <1>1
<1> QED BY <1>1, PairForm

\* Arithmetic, apart from what the numbers are the lengths of.
LEMMA OneOrMore ==
  ASSUME NEW n \in Nat, NEW m \in 1 .. n
  PROVE  /\ m # 1 => m >= 2 /\ 1 \in 1 .. m /\ 2 \in 1 .. m
         /\ n \in 1 .. 2 => m = 1 \/ m = n
  OBVIOUS

\* What a piece begins with is a piece.
LEMMA PieceStart ==
  ASSUME NEW s \in Seq(Chars), NEW u \in Seq(Chars), Len(u) \in 1 .. Len(s),
         \A m \in 1 .. Len(u) : u[m] = s[m], IsPiece(s)
  PROVE  IsPiece(u)
<1>0. Len(s) \in Nat /\ Len(u) \in 1 .. Len(s) OBVIOUS
<1>1. Len(u) \in Nat /\ Len(s) \in Nat /\ \A m \in 1 .. Len(u) : m \in 1 .. Len(s)
  OBVIOUS
<1>2. CASE Len(u) = 1 BY <1>2 DEF IsPiece
<1>3. CASE Len(u) = Len(s)
  <2>1. u = s BY <1>1, <1>3, SeqEqual
  <2> QED BY <2>1
<1>4. CASE Elements(s) \subseteq AlphaNum
  <2>1. Elements(u) \subseteq AlphaNum BY <1>1, <1>4 DEF Elements
  <2> QED BY <2>1 DEF IsPiece
<1>5. CASE OpensComment(s) /\ Len(u) # 1
  <2>1. /\ s[1] = "/" /\ s[2] = "*"
        /\ \A m \in 3 .. Len(s) - 2 : ~(s[m] = "*" /\ s[m + 1] = "/")
    BY <1>5, Opening
  <2>2. Len(u) >= 2 /\ 1 \in 1 .. Len(u) /\ 2 \in 1 .. Len(u)
    BY <1>0, <1>5, OneOrMore
  <2>3. u[1] = "/" /\ u[2] = "*" BY <2>1, <2>2
  <2>4. ASSUME NEW m \in 3 .. Len(u) - 2 PROVE ~(u[m] = "*" /\ u[m + 1] = "/")
    <3>1. m \in 3 .. Len(s) - 2 /\ m \in 1 .. Len(u) /\ m + 1 \in 1 .. Len(u)
      BY <1>1
    <3> QED BY <2>1, <3>1
  <2>5. OpensComment(u) BY <2>2, <2>3, <2>4, Opening
  <2> QED BY <2>5 DEF IsPiece
<1>6. CASE \E p \in Pairs : p[1] = s
  <2>1. PICK p \in Pairs : p[1] = s BY <1>6
  <2>2. Len(s) \in 1 .. 2 BY <2>1, PairLength
  <2>3. Len(u) = 1 \/ Len(u) = Len(s) BY <1>0, <2>2, OneOrMore
  <2> QED BY <1>2, <1>3, <2>3
<1>7. CASE Len(s) = 1 BY <1>1, <1>3, <1>7
<1> QED BY <1>2, <1>4, <1>5, <1>6, <1>7 DEF IsPiece

LEMMA PieceClosed ==
  ASSUME NEW t \in Seq(Chars), NEW i \in 1 .. Len(t), NEW k \in i .. Len(t),
         NEW j \in i .. k, IsPiece(SubSeq(t, i, k))
  PROVE  IsPiece(SubSeq(t, i, j))
<1>1. PICK s : s = SubSeq(t, i, k) OBVIOUS
<1>2. PICK u : u = SubSeq(t, i, j) OBVIOUS
<1>3. j \in i .. Len(t) /\ j <= k /\ i \in Int /\ j \in Int /\ k \in Int OBVIOUS
<1>4. /\ s \in Seq(Chars) /\ Len(s) = k - i + 1
      /\ u \in Seq(Chars) /\ Len(u) = j - i + 1
      /\ \A m \in 1 .. k - i + 1 : s[m] = t[i + m - 1]
      /\ \A m \in 1 .. j - i + 1 : u[m] = t[i + m - 1]
  BY <1>1, <1>2, <1>3, PartOfText
<1>5. Len(u) \in 1 .. Len(s) BY <1>3, <1>4
<1>6. \A m \in 1 .. Len(u) : u[m] = s[m] BY <1>3, <1>4
<1> QED BY <1>1, <1>2, <1>4, <1>5, <1>6, PieceStart

\* The longest piece at i: it exists, and a piece that one more character spoils
\* is it.
LEMMA LongestPiece ==
  ASSUME NEW t \in Seq(Chars), NEW i \in 1 .. Len(t)
  PROVE  /\ PieceEnd(t, i) \in i .. Len(t)
         /\ IsPiece(SubSeq(t, i, PieceEnd(t, i)))
         /\ \A k \in PieceEnd(t, i) + 1 .. Len(t) : ~IsPiece(SubSeq(t, i, k))
<1> DEFINE T == {n \in Nat : n <= Len(t) - i /\ IsPiece(SubSeq(t, i, Len(t) - n))}
<1>1. Len(t) \in Nat /\ i \in Int /\ i <= Len(t) OBVIOUS
<1>2. Len(t) - i \in T
  <2>1. Len(t) - (Len(t) - i) = i /\ Len(t) - i \in Nat BY <1>1
  <2>2. Len(SubSeq(t, i, i)) = 1
    <3>1. i \in i .. Len(t) /\ i - i + 1 = 1 BY <1>1
    <3> QED BY <3>1, PartOfText
  <2>3. IsPiece(SubSeq(t, i, i)) BY <2>2 DEF IsPiece
  <2> QED BY <2>1, <2>3
<1>3. PICK n \in T : \A m \in T : n <= m
  <2>1. T \in SUBSET Nat /\ T # {} BY <1>2
  <2> HIDE DEF T
  <2> QED BY <2>1, LeastNumber
<1>4. /\ Len(t) - n \in i .. Len(t) /\ IsPiece(SubSeq(t, i, Len(t) - n)) BY <1>1, <1>3
<1>5. ASSUME NEW k \in Len(t) - n + 1 .. Len(t), IsPiece(SubSeq(t, i, k)) PROVE FALSE
  <2>1. Len(t) - k \in Nat /\ Len(t) - (Len(t) - k) = k /\ Len(t) - k <= Len(t) - i
        /\ ~(n <= Len(t) - k)
    BY <1>1, <1>3
  <2>2. Len(t) - k \in T BY <1>5, <2>1
  <2> QED BY <1>3, <2>1, <2>2
<1>6. \E j \in i .. Len(t) : /\ IsPiece(SubSeq(t, i, j))
                             /\ \A k \in j + 1 .. Len(t) : ~IsPiece(SubSeq(t, i, k))
  BY <1>4, <1>5
<1> QED BY <1>6 DEF PieceEnd

LEMMA PieceEndsAt ==
  ASSUME NEW t \in Seq(Chars), NEW i \in 1 .. Len(t), NEW j \in i .. Len(t),
         IsPiece(SubSeq(t, i, j)), j < Len(t) => ~IsPiece(SubSeq(t, i, j + 1))
  PROVE  PieceEnd(t, i) = j
<1> DEFINE e == PieceEnd(t, i)
<1>1. /\ e \in i .. Len(t) /\ IsPiece(SubSeq(t, i, e))
      /\ \A k \in e + 1 .. Len(t) : ~IsPiece(SubSeq(t, i, k))
  BY LongestPiece
<1> SUFFICES e = j OBVIOUS
<1> HIDE DEF e
<1>2. i \in Int /\ j \in Int /\ e \in Int /\ Len(t) \in Nat BY <1>1
<1>3. CASE e < j
  <2>1. j \in e + 1 .. Len(t) BY <1>2, <1>3
  <2> QED BY <1>1, <2>1
<1>4. CASE j < e
  <2>1. j + 1 \in i .. e /\ j < Len(t) BY <1>1, <1>2, <1>4
  <2>2. IsPiece(SubSeq(t, i, j + 1)) BY <1>1, <2>1, PieceClosed
  <2> QED BY <2>1, <2>2
<1> QED BY <1>2, <1>3, <1>4

LEMMA PieceEndsBeyond ==
  ASSUME NEW t \in Seq(Chars), NEW i \in 1 .. Len(t), NEW j \in i .. Len(t),
         IsPiece(SubSeq(t, i, j))
  PROVE  PieceEnd(t, i) \in j .. Len(t)
<1> DEFINE e == PieceEnd(t, i)
<1>1. /\ e \in i .. Len(t)
      /\ \A k \in e + 1 .. Len(t) : ~IsPiece(SubSeq(t, i, k))
  BY LongestPiece
<1> SUFFICES e \in j .. Len(t) OBVIOUS
<1> HIDE DEF e
<1>2. i \in Int /\ j \in Int /\ e \in Int /\ Len(t) \in Nat BY <1>1
<1>3. CASE e < j
  <2>1. j \in e + 1 .. Len(t) BY <1>2, <1>3
  <2> QED BY <1>1, <2>1
<1> QED BY <1>1, <1>2, <1>3
-----------------------------------------------------------------------------
(* The tokens of a text.                                                   *)

\* The equation of TokensFrom, and that a function satisfies it: it is made
\* from the end of the text backwards.
Onward(t, g, i) == IF i = Len(t) + 1 THEN << >>
                   ELSE TokenOf(SubSeq(t, i, PieceEnd(t, i))) \o g[PieceEnd(t, i) + 1]

LEMMA FromExists ==
  ASSUME NEW t \in Seq(Chars)
  PROVE  \E g : g = [i \in 1 .. Len(t) + 1 |-> Onward(t, g, i)]
<1> DEFINE Domain(n) == Len(t) + 1 - n .. Len(t) + 1
           T == {n \in Nat : n <= Len(t) =>
                   \E g : g = [i \in Domain(n) |-> Onward(t, g, i)]}
<1>1. Len(t) \in Nat OBVIOUS
<1>2. 0 \in T
  <2> DEFINE g == [i \in Domain(0) |-> << >>]
  <2>1. \A i \in Domain(0) : i = Len(t) + 1 BY <1>1
  <2>2. \A i \in Domain(0) : Onward(t, g, i) = << >> BY <2>1 DEF Onward
  <2>3. g = [i \in Domain(0) |-> Onward(t, g, i)] BY <2>2
  <2> QED BY <2>3
<1>3. ASSUME NEW n \in T PROVE n + 1 \in T
  <2> SUFFICES ASSUME n + 1 <= Len(t)
               PROVE  \E g : g = [i \in Domain(n + 1) |-> Onward(t, g, i)]
    OBVIOUS
  <2>1. n \in Nat /\ n <= Len(t) BY <1>1
  <2>2. PICK g : g = [i \in Domain(n) |-> Onward(t, g, i)] BY <2>1
  <2> DEFINE low == Len(t) - n
             h == [i \in Domain(n + 1) |-> IF i = low THEN Onward(t, g, i) ELSE g[i]]
  <2>3. /\ low \in 1 .. Len(t) /\ Domain(n + 1) = low .. Len(t) + 1
        /\ Domain(n) = low + 1 .. Len(t) + 1
    BY <1>1, <2>1
  <2>4. ASSUME NEW i \in low .. Len(t) + 1, i # Len(t) + 1
        PROVE  /\ PieceEnd(t, i) + 1 \in low + 1 .. Len(t) + 1
               /\ h[PieceEnd(t, i) + 1] = g[PieceEnd(t, i) + 1]
    <3> HIDE DEF T, low
    <3>1. i \in 1 .. Len(t) BY <1>1, <2>3, <2>4
    <3>2. PieceEnd(t, i) \in i .. Len(t) BY <3>1, LongestPiece
    <3>3. PICK e : e = PieceEnd(t, i) + 1 OBVIOUS
    <3>4. e \in low + 1 .. Len(t) + 1 /\ e \in low .. Len(t) + 1 /\ e # low
      BY <1>1, <2>3, <3>1, <3>2, <3>3
    <3>5. h[e] = g[e] BY <2>3, <3>4
    <3> QED BY <3>3, <3>4, <3>5
  <2>5. ASSUME NEW i \in low .. Len(t) + 1 PROVE Onward(t, h, i) = Onward(t, g, i)
    <3>1. CASE i = Len(t) + 1 BY <3>1 DEF Onward
    <3>2. CASE i # Len(t) + 1
      <4>1. h[PieceEnd(t, i) + 1] = g[PieceEnd(t, i) + 1] BY <2>4, <3>2
      <4> HIDE DEF h
      <4> QED BY <3>2, <4>1 DEF Onward
    <3> QED BY <3>1, <3>2
  <2>6. ASSUME NEW i \in low .. Len(t) + 1 PROVE h[i] = Onward(t, g, i)
    <3>1. CASE i = low BY <2>3, <3>1
    <3>2. CASE i # low
      <4>1. i \in low + 1 .. Len(t) + 1 BY <1>1, <2>3, <3>2
      <4>2. h[i] = g[i] BY <2>3, <3>2
      <4> QED BY <2>2, <2>3, <4>1, <4>2
    <3> QED BY <3>1, <3>2
  <2>7. h = [i \in Domain(n + 1) |-> h[i]] OBVIOUS
  <2>8. \A i \in Domain(n + 1) : h[i] = Onward(t, h, i) BY <2>3, <2>5, <2>6
  <2> HIDE DEF h
  <2>9. h = [i \in Domain(n + 1) |-> Onward(t, h, i)] BY <2>7, <2>8
  <2> QED BY <2>9
<1>4. T \in SUBSET Nat OBVIOUS
<1> HIDE DEF T
<1>5. Len(t) \in T BY <1>1, <1>2, <1>3, <1>4, Induction
<1>6. PICK g : g = [i \in Domain(Len(t)) |-> Onward(t, g, i)] BY <1>1, <1>5 DEF T
<1>7. Domain(Len(t)) = 1 .. Len(t) + 1 BY <1>1
<1> QED BY <1>6, <1>7

LEMMA FromUnfolds ==
  ASSUME NEW t \in Seq(Chars), NEW i \in 1 .. Len(t) + 1
  PROVE  TokensFrom(t)[i] = Onward(t, TokensFrom(t), i)
<1>1. TokensFrom(t) = CHOOSE g : g = [k \in 1 .. Len(t) + 1 |-> Onward(t, g, k)]
  BY DEF TokensFrom, Onward
<1>2. TokensFrom(t) = [k \in 1 .. Len(t) + 1 |-> Onward(t, TokensFrom(t), k)]
  BY <1>1, FromExists
<1> QED BY <1>2

\* What a token of a text can be.
Types == {Reserved[w] : w \in DOMAIN Reserved} \cup {p[2] : p \in Pairs}
           \cup {"malformed", "numbersym", "identsym", "commentsym"}
Tok == [type : Types, lexeme : Seq(Chars)]

LEMMA KindsApart ==
  ASSUME NEW c
  PROVE  /\ c \in Digits => c \notin Blanks
         /\ c \in Letters => c \notin Blanks /\ c \notin Digits
         /\ c \in Others \/ c \in DOMAIN Single \/ c \in Openers
              => c \notin Blanks /\ c \notin Digits /\ c \notin Letters
         /\ c \in Others => c \notin DOMAIN Single /\ c \notin Openers
  BY AlphabetAssumption

LEMMA SingleDomain ==
  DOMAIN Single = {"+", "-", "*", "=", "(", ")", ",", ";", "."}
  BY DEF Single

\* An operator is one character of Single, or begins with one of Openers, and
\* has one meaning.
LEMMA PairStart ==
  ASSUME NEW p \in Pairs
  PROVE  p[1][1] \in DOMAIN Single \cup Openers
<1>1. CASE \E c \in DOMAIN Single : p = << <<c>>, Single[c] >> BY <1>1
<1> QED BY <1>1, PairForm DEF Openers

LEMMA ShortPair ==
  ASSUME NEW p \in Pairs
  PROVE  \/ \E c \in DOMAIN Single : p = << <<c>>, Single[c] >>
         \/ p[1] \in {<<"/">>, <<"<">>, <<">">>}
         \/ Len(p[1]) = 2
<1>1. CASE p = << <<"<", "=">>, "leqsym">> \/ p = << <<"<", ">">>, "neqsym">>
  BY <1>1
<1>2. CASE p = << <<">", "=">>, "geqsym">> \/ p = << <<":", "=">>, "becomessym">>
  BY <1>2
<1>3. CASE p = << <<"/">>, "slashsym">> \/ p = << <<"<">>, "lessym">>
           \/ p = << <<">">>, "gtrsym">>
  BY <1>3
<1> QED BY <1>1, <1>2, <1>3, PairForm

LEMMA PairMeaning ==
  ASSUME NEW p \in Pairs, NEW q \in Pairs, p[1] = q[1]
  PROVE  p[2] = q[2]
<1>1. CASE \E c \in DOMAIN Single : p = << <<c>>, Single[c] >>
  <2>1. PICK c \in DOMAIN Single : p = << <<c>>, Single[c] >> BY <1>1
  <2>2. q[1] = <<c>> BY <2>1
  <2>3. c # "/" /\ c # "<" /\ c # ">" BY SingleDomain
  <2>4. <<c>> # <<"/">> /\ <<c>> # <<"<">> /\ <<c>> # <<">">> /\ Len(<<c>>) = 1
    BY <2>3
  <2>5. PICK d \in DOMAIN Single : q = << <<d>>, Single[d] >>
    BY <2>2, <2>4, ShortPair
  <2>6. c = d BY <2>2, <2>5
  <2> QED BY <2>1, <2>5, <2>6
<1>2. CASE \E c \in DOMAIN Single : q = << <<c>>, Single[c] >>
  <2>1. PICK c \in DOMAIN Single : q = << <<c>>, Single[c] >> BY <1>2
  <2>2. p[1] = <<c>> BY <2>1
  <2>3. c # "/" /\ c # "<" /\ c # ">" BY SingleDomain
  <2>4. <<c>> # <<"/">> /\ <<c>> # <<"<">> /\ <<c>> # <<">">> /\ Len(<<c>>) = 1
    BY <2>3
  <2>5. PICK d \in DOMAIN Single : p = << <<d>>, Single[d] >>
    BY <2>2, <2>4, ShortPair
  <2>6. c = d BY <2>2, <2>5
  <2> QED BY <2>1, <2>5, <2>6
<1> DEFINE Rest == {<< <<"<", "=">>, "leqsym">>, << <<"<", ">">>, "neqsym">>,
                    << <<">", "=">>, "geqsym">>, << <<":", "=">>, "becomessym">>,
                    << <<"/">>, "slashsym">>, << <<"<">>, "lessym">>,
                    << <<">">>, "gtrsym">>}
<1>3. CASE p \in Rest /\ q \in Rest BY <1>3
<1> QED BY <1>1, <1>2, <1>3, PairForm

\* TokenOf, form by form.
LEMMA PlainTokens ==
  ASSUME NEW s \in Seq(Chars)
  PROVE  /\ s[1] \in Blanks => TokenOf(s) = << >>
         /\ s[1] \in Digits =>
              TokenOf(s) = IF Elements(s) \subseteq Digits /\ Len(s) <= MaxNumber
                           THEN << [type |-> "numbersym", lexeme |-> s] >> ELSE Malformed
         /\ s[1] \in Letters =>
              TokenOf(s) = IF Len(s) > MaxIdent THEN Malformed
                           ELSE IF s \notin DOMAIN Reserved
                           THEN << [type |-> "identsym", lexeme |-> s] >>
                           ELSE IF Reserved[s] = "nulsym" THEN << >>
                           ELSE << [type |-> Reserved[s], lexeme |-> << >>] >>
<1>1. IsComment(s) => s[1] = "/" BY Opening
<1>2. IsComment(s) => s[1] \notin Blanks /\ s[1] \notin Digits /\ s[1] \notin Letters
  BY <1>1, KindsApart DEF Openers
<1>3. CASE s[1] \in Blanks
  <2>1. s[1] \notin Digits /\ s[1] \notin Letters /\ ~IsComment(s)
    BY <1>2, <1>3, KindsApart
  <2> QED BY <1>3, <2>1 DEF TokenOf
<1>4. CASE s[1] \in Digits
  <2>1. s[1] \notin Blanks /\ s[1] \notin Letters /\ ~IsComment(s)
    BY <1>2, <1>4, KindsApart
  <2> QED BY <1>4, <2>1 DEF TokenOf
<1>5. CASE s[1] \in Letters
  <2>1. s[1] \notin Blanks /\ s[1] \notin Digits /\ ~IsComment(s)
    BY <1>2, <1>5, KindsApart
  <2> QED BY <1>5, <2>1 DEF TokenOf
<1> QED BY <1>3, <1>4, <1>5

LEMMA CommentToken ==
  ASSUME NEW s \in Seq(Chars), IsComment(s)
  PROVE  TokenOf(s) = << [type |-> "commentsym", lexeme |-> << >>] >>
<1>1. s[1] = "/" BY Opening
<1>2. s[1] \notin Blanks /\ s[1] \notin Digits /\ s[1] \notin Letters
  BY <1>1, KindsApart DEF Openers
<1> QED BY <1>2 DEF TokenOf

LEMMA OperatorToken ==
  ASSUME NEW s \in Seq(Chars), NEW p \in Pairs, p[1] = s
  PROVE  TokenOf(s) = << [type |-> p[2], lexeme |-> << >>] >>
<1>1. s[1] \notin Blanks /\ s[1] \notin Digits /\ s[1] \notin Letters
  BY PairStart, KindsApart
<1>2. ~IsComment(s)
  <2>1. Len(s) \in 1 .. 2 BY PairLength
  <2> QED BY <2>1, Opening
<1>3. (CHOOSE q \in Pairs : q[1] = s) \in Pairs /\ (CHOOSE q \in Pairs : q[1] = s)[1] = s
  OBVIOUS
<1>4. (CHOOSE q \in Pairs : q[1] = s)[2] = p[2] BY <1>3, PairMeaning
<1>5. \E q \in Pairs : q[1] = s OBVIOUS
<1> QED BY <1>1, <1>2, <1>4, <1>5 DEF TokenOf

LEMMA NoToken ==
  ASSUME NEW s \in Seq(Chars), s[1] \in Others \cup DOMAIN Single \cup Openers,
         ~IsComment(s), \A p \in Pairs : p[1] # s
  PROVE  TokenOf(s) = Malformed
<1>1. s[1] \notin Blanks /\ s[1] \notin Digits /\ s[1] \notin Letters
  BY KindsApart
<1> QED BY <1>1 DEF TokenOf

\* A piece stands for one token at most.
LEMMA TokenOfType ==
  ASSUME NEW s \in Seq(Chars), s # << >>
  PROVE  TokenOf(s) = << >> \/ \E k \in Tok : TokenOf(s) = <<k>>
<1>0. << >> \in Seq(Chars) OBVIOUS
<1>1. [type |-> "malformed", lexeme |-> << >>] \in Tok BY <1>0 DEF Tok, Types
<1>2. CASE s[1] \in Blanks BY <1>2, PlainTokens
<1>3. CASE s[1] \in Digits
  <2>1. [type |-> "numbersym", lexeme |-> s] \in Tok BY DEF Tok, Types
  <2> QED BY <1>1, <1>3, <2>1, PlainTokens DEF Malformed
<1>4. CASE s[1] \in Letters
  <2>1. [type |-> "identsym", lexeme |-> s] \in Tok BY DEF Tok, Types
  <2>2. s \in DOMAIN Reserved => [type |-> Reserved[s], lexeme |-> << >>] \in Tok
    BY <1>0 DEF Tok, Types
  <2> QED BY <1>1, <1>4, <2>1, <2>2, PlainTokens DEF Malformed
<1>5. CASE IsComment(s)
  <2>1. [type |-> "commentsym", lexeme |-> << >>] \in Tok BY <1>0 DEF Tok, Types
  <2> QED BY <1>5, <2>1, CommentToken
<1>6. CASE \E p \in Pairs : p[1] = s
  <2>1. PICK p \in Pairs : p[1] = s BY <1>6
  <2>2. [type |-> p[2], lexeme |-> << >>] \in Tok BY <1>0 DEF Tok, Types
  <2> QED BY <2>1, <2>2, OperatorToken
<1>7. CASE s[1] \in Others \cup DOMAIN Single \cup Openers
  BY <1>1, <1>5, <1>6, <1>7, NoToken DEF Malformed
<1>8. s[1] \in Chars
  <2>1. Len(s) \in Nat /\ Len(s) # 0 OBVIOUS
  <2>2. 1 \in 1 .. Len(s) BY <2>1
  <2> QED BY <2>2, ElementOfSeq
<1> QED BY <1>2, <1>3, <1>4, <1>7, <1>8 DEF Chars

\* Sequences of one element, and two sequences joined, whatever they are of.
LEMMA OneElement == ASSUME NEW S, NEW k \in S PROVE <<k>> \in Seq(S) OBVIOUS

LEMMA Joined ==
  ASSUME NEW S, NEW a \in Seq(S), NEW b \in Seq(S), NEW v, v = a \o b
  PROVE  /\ v \in Seq(S) /\ Len(v) = Len(a) + Len(b)
         /\ Len(b) >= 1 => v[Len(a) + 1] = b[1]
<1>1. /\ v \in Seq(S) /\ Len(v) = Len(a) + Len(b)
      /\ \A i \in 1 .. Len(a) + Len(b) :
            v[i] = IF i <= Len(a) THEN a[i] ELSE b[i - Len(a)]
  BY ConcatProperties
<1>2. PICK n \in Nat : n = Len(a) OBVIOUS
<1>3. Len(b) >= 1 => n + 1 \in 1 .. n + Len(b) /\ ~(n + 1 <= n) /\ n + 1 - n = 1
  OBVIOUS
<1> QED BY <1>1, <1>2, <1>3

LEMMA JoinedThrice ==
  ASSUME NEW S, NEW a \in Seq(S), NEW b \in Seq(S), NEW c \in Seq(S)
  PROVE  (a \o b) \o c = a \o (b \o c)
  BY ConcatAssociative

LEMMA TokensJoined ==
  ASSUME NEW a \in Seq(Tok), NEW b \in Seq(Tok), NEW c \in Seq(Tok),
         NEW x, NEW y, x = a \o y, y = b \o c
  PROVE  x = (a \o b) \o c
<1>1. (a \o b) \o c = a \o (b \o c) BY JoinedThrice
<1> QED BY <1>1

LEMMA TokenOfSeq ==
  ASSUME NEW s \in Seq(Chars), s # << >>
  PROVE  TokenOf(s) \in Seq(Tok)
<1>1. PICK ts : ts = TokenOf(s) OBVIOUS
<1>2. ts = << >> \/ \E k \in Tok : ts = <<k>> BY <1>1, TokenOfType
<1>3. CASE ts = << >> BY <1>1, <1>3, EmptySeq
<1>4. CASE \E k \in Tok : ts = <<k>>
  <2>1. PICK k \in Tok : ts = <<k>> BY <1>4
  <2> QED BY <1>1, <2>1, OneElement
<1> QED BY <1>1, <1>2, <1>3, <1>4

LEMMA FromType ==
  ASSUME NEW t \in Seq(Chars), NEW i \in 1 .. Len(t) + 1
  PROVE  TokensFrom(t)[i] \in Seq(Tok)
<1> DEFINE T == {n \in Nat : \A k \in 1 .. Len(t) + 1 :
                    Len(t) + 1 - k <= n => TokensFrom(t)[k] \in Seq(Tok)}
<1>1. Len(t) \in Nat OBVIOUS
<1>2. ASSUME NEW k \in 1 .. Len(t) + 1,
             \A m \in k + 1 .. Len(t) + 1 : TokensFrom(t)[m] \in Seq(Tok)
      PROVE  TokensFrom(t)[k] \in Seq(Tok)
  <2>1. TokensFrom(t)[k] = Onward(t, TokensFrom(t), k) BY FromUnfolds
  <2>2. CASE k = Len(t) + 1 BY <2>1, <2>2 DEF Onward
  <2>3. CASE k # Len(t) + 1
    <3>1. k \in 1 .. Len(t) BY <1>1, <2>3
    <3>2. PICK e \in k .. Len(t) : e = PieceEnd(t, k) BY <3>1, LongestPiece
    <3>3. PICK s : s = SubSeq(t, k, e) OBVIOUS
    <3>4. s \in Seq(Chars) /\ Len(s) = e - k + 1 BY <3>1, <3>3, PartOfText
    <3>5. s # << >>
      <4>1. Len(s) >= 1 BY <1>1, <3>1, <3>4
      <4> QED BY <4>1
    <3>6. TokenOf(s) \in Seq(Tok) BY <3>4, <3>5, TokenOfSeq
    <3>7. e + 1 \in k + 1 .. Len(t) + 1 BY <1>1, <3>1
    <3>8. TokensFrom(t)[e + 1] \in Seq(Tok) BY <1>2, <3>7
    <3>9. TokenOf(s) \o TokensFrom(t)[e + 1] \in Seq(Tok)
      BY <3>6, <3>8, ConcatProperties
    <3> QED BY <2>1, <2>3, <3>2, <3>3, <3>9 DEF Onward
  <2> QED BY <2>2, <2>3
<1>3. 0 \in T
  <2>1. ASSUME NEW k \in 1 .. Len(t) + 1, Len(t) + 1 - k <= 0
        PROVE  TokensFrom(t)[k] \in Seq(Tok)
    <3>1. k = Len(t) + 1 BY <1>1, <2>1
    <3>2. \A m \in k + 1 .. Len(t) + 1 : TokensFrom(t)[m] \in Seq(Tok) BY <1>1, <3>1
    <3> QED BY <1>2, <3>2
  <2> QED BY <2>1
<1>4. ASSUME NEW n \in T PROVE n + 1 \in T
  <2>1. ASSUME NEW k \in 1 .. Len(t) + 1, Len(t) + 1 - k <= n + 1
        PROVE  TokensFrom(t)[k] \in Seq(Tok)
    <3>1. ASSUME NEW m \in k + 1 .. Len(t) + 1 PROVE TokensFrom(t)[m] \in Seq(Tok)
      <4>1. m \in 1 .. Len(t) + 1 /\ Len(t) + 1 - m <= n BY <1>1, <2>1
      <4> QED BY <4>1
    <3> QED BY <1>2, <3>1
  <2>2. n + 1 \in Nat OBVIOUS
  <2> QED BY <2>1, <2>2
<1>5. T \in SUBSET Nat OBVIOUS
<1> HIDE DEF T
<1>6. Len(t) + 1 \in T BY <1>1, <1>3, <1>4, <1>5, Induction
<1>7. Len(t) + 1 - i <= Len(t) + 1 BY <1>1
<1> QED BY <1>6, <1>7 DEF T
-----------------------------------------------------------------------------
(* Beginnings of a text.                                                   *)

Part(t, q) == SubSeq(t, 1, q)

LEMMA PartFacts ==
  ASSUME NEW t \in Seq(Chars), NEW q \in 0 .. Len(t)
  PROVE  /\ Part(t, q) \in Seq(Chars) /\ Len(Part(t, q)) = q
         /\ \A i \in 1 .. q : \A j \in i .. q :
               SubSeq(Part(t, q), i, j) = SubSeq(t, i, j)
<1>1. Len(t) \in Nat OBVIOUS
<1>2. PICK p : p = Part(t, q) OBVIOUS
<1>3. p \in Seq(Chars) /\ Len(p) = q /\ \A m \in 1 .. q : p[m] = t[m]
  <2>1. CASE q = 0 BY <1>2, <2>1, SubSeqEmpty DEF Part
  <2>2. CASE q > 0
    <3>1. 1 \in 1 .. Len(t) /\ q \in 1 .. Len(t) BY <1>1, <2>2
    <3>2. /\ p \in Seq(Chars) /\ Len(p) = q - 1 + 1
          /\ \A m \in 1 .. q - 1 + 1 : p[m] = t[1 + m - 1]
      BY <1>2, <3>1, PartOfText DEF Part
    <3> QED BY <1>1, <3>2
  <2> QED BY <1>1, <2>1, <2>2
<1>4. ASSUME NEW i \in 1 .. q, NEW j \in i .. q PROVE SubSeq(p, i, j) = SubSeq(t, i, j)
  <2>1. i \in 1 .. Len(t) /\ j \in i .. Len(t) /\ i \in 1 .. Len(p) /\ j \in i .. Len(p)
    BY <1>1, <1>3
  <2>2. /\ SubSeq(p, i, j) \in Seq(Chars) /\ Len(SubSeq(p, i, j)) = j - i + 1
        /\ \A m \in 1 .. j - i + 1 : SubSeq(p, i, j)[m] = p[i + m - 1]
    BY <1>3, <2>1, PartOfText
  <2>3. /\ SubSeq(t, i, j) \in Seq(Chars) /\ Len(SubSeq(t, i, j)) = j - i + 1
        /\ \A m \in 1 .. j - i + 1 : SubSeq(t, i, j)[m] = t[i + m - 1]
    BY <2>1, PartOfText
  <2>4. \A m \in 1 .. j - i + 1 : i + m - 1 \in 1 .. q OBVIOUS
  <2>5. \A m \in 1 .. j - i + 1 : SubSeq(p, i, j)[m] = SubSeq(t, i, j)[m]
    BY <1>3, <2>2, <2>3, <2>4
  <2> QED BY <2>2, <2>3, <2>5, SeqEqual
<1> QED BY <1>2, <1>3, <1>4

\* toks are the tokens of t up to p, whatever part of the text beyond p is read:
\* p is where a lexeme ends.
GoodAt(t, p, toks) ==
  /\ toks \in Seq(Tok)
  /\ \A q \in p .. Len(t) :
       TokensFrom(Part(t, q))[1] = toks \o TokensFrom(Part(t, q))[p + 1]

\* However much is read beyond p, t is no well-formed text.
BadAt(t, p) ==
  \A q \in p .. Len(t) :
    \E k \in 1 .. Len(TokensFrom(Part(t, q))[1]) :
      TokensFrom(Part(t, q))[1][k] = Malformed[1]

LEMMA GoodStart == ASSUME NEW t \in Seq(Chars) PROVE GoodAt(t, 0, << >>)
<1>1. ASSUME NEW q \in 0 .. Len(t)
      PROVE  TokensFrom(Part(t, q))[1] = << >> \o TokensFrom(Part(t, q))[0 + 1]
  <2>1. Part(t, q) \in Seq(Chars) /\ Len(Part(t, q)) = q BY PartFacts
  <2>2. 1 \in 1 .. Len(Part(t, q)) + 1 BY <2>1
  <2>3. TokensFrom(Part(t, q))[1] \in Seq(Tok) BY <2>1, <2>2, FromType
  <2> QED BY <2>3, ConcatEmptySeq
<1> QED BY <1>1 DEF GoodAt

\* A piece that one more character spoils is the first of what is left of the
\* text.
LEMMA FirstPiece ==
  ASSUME NEW t \in Seq(Chars), NEW p \in 0 .. Len(t), NEW e \in p + 1 .. Len(t),
         IsPiece(SubSeq(t, p + 1, e)),
         e < Len(t) => ~IsPiece(SubSeq(t, p + 1, e + 1)),
         NEW q \in e .. Len(t)
  PROVE  TokensFrom(Part(t, q))[p + 1]
           = TokenOf(SubSeq(t, p + 1, e)) \o TokensFrom(Part(t, q))[e + 1]
<1>1. Len(t) \in Nat OBVIOUS
<1>2. PICK u : u = Part(t, q) OBVIOUS
<1>3. q \in 0 .. Len(t) BY <1>1
<1>4. /\ u \in Seq(Chars) /\ Len(u) = q
      /\ \A i \in 1 .. q : \A j \in i .. q : SubSeq(u, i, j) = SubSeq(t, i, j)
  BY <1>2, <1>3, PartFacts
<1>5. p + 1 \in 1 .. Len(u) /\ e \in p + 1 .. Len(u) /\ p + 1 \in 1 .. q /\ e \in p + 1 .. q
  BY <1>1, <1>4
<1>6. SubSeq(u, p + 1, e) = SubSeq(t, p + 1, e) BY <1>4, <1>5
<1>7. e < Len(u) => ~IsPiece(SubSeq(u, p + 1, e + 1))
  <2> SUFFICES ASSUME e < Len(u) PROVE ~IsPiece(SubSeq(u, p + 1, e + 1)) OBVIOUS
  <2>1. e + 1 \in p + 1 .. q /\ e < Len(t) BY <1>1, <1>4
  <2>2. SubSeq(u, p + 1, e + 1) = SubSeq(t, p + 1, e + 1) BY <1>4, <1>5, <2>1
  <2> QED BY <2>1, <2>2
<1>8. PieceEnd(u, p + 1) = e BY <1>4, <1>5, <1>6, <1>7, PieceEndsAt
<1>9. p + 1 \in 1 .. Len(u) + 1 /\ p + 1 # Len(u) + 1 BY <1>1, <1>4, <1>5
<1>10. TokensFrom(u)[p + 1] = Onward(u, TokensFrom(u), p + 1) BY <1>4, <1>9, FromUnfolds
<1> QED BY <1>2, <1>6, <1>8, <1>9, <1>10 DEF Onward

\* A lexeme that the next character ends adds its token.
LEMMA LexemeEnds ==
  ASSUME NEW t \in Seq(Chars), NEW p \in 0 .. Len(t), NEW e \in p + 1 .. Len(t),
         NEW toks, GoodAt(t, p, toks),
         IsPiece(SubSeq(t, p + 1, e)),
         e < Len(t) => ~IsPiece(SubSeq(t, p + 1, e + 1))
  PROVE  GoodAt(t, e, toks \o TokenOf(SubSeq(t, p + 1, e)))
<1>1. Len(t) \in Nat /\ p + 1 \in 1 .. Len(t) OBVIOUS
<1>2. PICK s : s = SubSeq(t, p + 1, e) OBVIOUS
<1>3. TokenOf(s) \in Seq(Tok)
  <2>1. s \in Seq(Chars) /\ Len(s) = e - (p + 1) + 1 BY <1>1, <1>2, PartOfText
  <2>2. Len(s) >= 1 BY <1>1, <2>1
  <2>3. s # << >> BY <2>2
  <2> QED BY <2>1, <2>3, TokenOfSeq
<1>4. toks \in Seq(Tok) BY DEF GoodAt
<1>5. ASSUME NEW q \in e .. Len(t)
      PROVE  TokensFrom(Part(t, q))[1] = (toks \o TokenOf(s)) \o TokensFrom(Part(t, q))[e + 1]
  <2>1. q \in p .. Len(t) /\ q \in 0 .. Len(t) BY <1>1
  <2>2. TokensFrom(Part(t, q))[1] = toks \o TokensFrom(Part(t, q))[p + 1]
    BY <2>1 DEF GoodAt
  <2>3. TokensFrom(Part(t, q))[p + 1] = TokenOf(s) \o TokensFrom(Part(t, q))[e + 1]
    BY <1>2, FirstPiece
  <2>4. Part(t, q) \in Seq(Chars) /\ Len(Part(t, q)) = q BY <2>1, PartFacts
  <2>5. e + 1 \in 1 .. Len(Part(t, q)) + 1 BY <1>1, <2>4
  <2>6. TokensFrom(Part(t, q))[e + 1] \in Seq(Tok) BY <2>4, <2>5, FromType
  <2>7. PICK x : x = TokensFrom(Part(t, q))[1] OBVIOUS
  <2>8. PICK y : y = TokensFrom(Part(t, q))[p + 1] OBVIOUS
  <2>9. PICK c : c = TokensFrom(Part(t, q))[e + 1] OBVIOUS
  <2>10. PICK b : b = TokenOf(s) OBVIOUS
  <2>11. toks \in Seq(Tok) /\ b \in Seq(Tok) /\ c \in Seq(Tok) BY <1>3, <1>4, <2>6, <2>9, <2>10
  <2>12. x = toks \o y BY <2>2, <2>7, <2>8
  <2>13. y = b \o c BY <2>3, <2>8, <2>9, <2>10
  <2>14. x = (toks \o b) \o c BY <2>11, <2>12, <2>13, TokensJoined, SMTT(60)
  <2> QED BY <2>7, <2>9, <2>10, <2>14
<1>6. toks \o TokenOf(s) \in Seq(Tok) BY <1>3, <1>4, ConcatProperties
<1> QED BY <1>2, <1>5, <1>6 DEF GoodAt

\* A lexeme that is refused is Malformed, wherever the piece of text it begins
\* ends.
LEMMA LexemeSpoilt ==
  ASSUME NEW t \in Seq(Chars), NEW p \in 0 .. Len(t), NEW e \in p + 1 .. Len(t),
         NEW toks, GoodAt(t, p, toks),
         \A j \in p + 1 .. Len(t) :
            TokenOf(SubSeq(t, p + 1, j)) = Malformed
            \/ (j < e /\ IsPiece(SubSeq(t, p + 1, e)))
  PROVE  BadAt(t, e)
<1>1. Len(t) \in Nat /\ p + 1 \in 1 .. Len(t) OBVIOUS
<1>2. ASSUME NEW q \in e .. Len(t)
      PROVE  \E k \in 1 .. Len(TokensFrom(Part(t, q))[1]) :
                TokensFrom(Part(t, q))[1][k] = Malformed[1]
  <2>1. q \in p .. Len(t) /\ q \in 0 .. Len(t) BY <1>1
  <2>2. PICK u : u = Part(t, q) OBVIOUS
  <2>3. /\ u \in Seq(Chars) /\ Len(u) = q
        /\ \A i \in 1 .. q : \A j \in i .. q : SubSeq(u, i, j) = SubSeq(t, i, j)
    BY <2>1, <2>2, PartFacts
  <2>4. TokensFrom(u)[1] = toks \o TokensFrom(u)[p + 1] BY <2>1, <2>2 DEF GoodAt
  <2>5. p + 1 \in 1 .. Len(u) /\ p + 1 \in 1 .. q /\ e \in p + 1 .. Len(u)
        /\ e \in p + 1 .. q
    BY <1>1, <2>3
  <2>6. PICK j \in p + 1 .. q : j = PieceEnd(u, p + 1) BY <2>3, <2>5, LongestPiece
  <2>7. SubSeq(u, p + 1, j) = SubSeq(t, p + 1, j) /\ SubSeq(u, p + 1, e) = SubSeq(t, p + 1, e)
    BY <2>3, <2>5
  <2>8. ~(j < e /\ IsPiece(SubSeq(t, p + 1, e)))
    <3> SUFFICES ASSUME IsPiece(SubSeq(t, p + 1, e)) PROVE ~(j < e) OBVIOUS
    <3>1. j \in e .. Len(u) BY <2>3, <2>5, <2>6, <2>7, PieceEndsBeyond
    <3> QED BY <1>1, <2>3, <3>1
  <2>9. j \in p + 1 .. Len(t) BY <1>1
  <2>10. TokenOf(SubSeq(u, p + 1, j)) = Malformed BY <2>7, <2>8, <2>9
  <2>11. p + 1 \in 1 .. Len(u) + 1 /\ p + 1 # Len(u) + 1 /\ j + 1 \in 1 .. Len(u) + 1
    BY <1>1, <2>3
  <2>12. TokensFrom(u)[p + 1] = Malformed \o TokensFrom(u)[j + 1]
    BY <2>3, <2>6, <2>10, <2>11, FromUnfolds DEF Onward
  <2>13. PICK r \in Seq(Tok) : r = TokensFrom(u)[j + 1] BY <2>3, <2>11, FromType
  <2>14. PICK m : m = Malformed[1] OBVIOUS
  <2>15. Malformed = <<m>> BY <2>14 DEF Malformed
  <2>16. m \in Tok BY <2>14, EmptySeq DEF Malformed, Tok, Types
  <2>17. PICK w : w = <<m>> \o r OBVIOUS
  <2>18. <<m>> \in Seq(Tok) /\ Len(<<m>>) = 1 /\ <<m>>[1] = m BY <2>16
  <2>19. w \in Seq(Tok) /\ Len(w) = 1 + Len(r) /\ w[1] = m
    BY <2>17, <2>18, ConcatProperties
  <2>20. toks \in Seq(Tok) /\ Len(toks) \in Nat /\ Len(r) \in Nat BY DEF GoodAt
  <2>21. PICK v : v = toks \o w OBVIOUS
  <2>22. v \in Seq(Tok) /\ Len(v) = Len(toks) + Len(w) /\ v[Len(toks) + 1] = w[1]
    <3>1. toks \in Seq(Tok) /\ w \in Seq(Tok) /\ Len(w) >= 1 BY <2>19, <2>20
    <3>2. PICK a \in Seq(Tok) : a = toks BY <3>1
    <3>3. v = a \o w BY <2>21, <3>2
    <3>4. v \in Seq(Tok) /\ Len(v) = Len(a) + Len(w) /\ v[Len(a) + 1] = w[1]
      BY <3>1, <3>2, <3>3, Joined
    <3> QED BY <3>2, <3>4
  <2>23. TokensFrom(u)[1] = v BY <2>4, <2>12, <2>13, <2>15, <2>17, <2>21
  <2>24. Len(toks) + 1 \in 1 .. Len(v) BY <2>19, <2>20, <2>22
  <2> QED BY <2>2, <2>14, <2>19, <2>22, <2>23, <2>24
<1> QED BY <1>2 DEF BadAt

\* The text ends in a piece: its token is all that may be missing.
LEMMA TextEnds ==
  ASSUME NEW t \in Seq(Chars), NEW p \in 0 .. Len(t) - 1, NEW toks, GoodAt(t, p, toks),
         IsPiece(SubSeq(t, p + 1, Len(t)))
  PROVE  \/ toks = TokensOf(t)
         \/ toks = SubSeq(TokensOf(t), 1, Len(TokensOf(t)) - 1)
<1>1. Len(t) \in Nat /\ p + 1 \in 1 .. Len(t) /\ Len(t) \in p + 1 .. Len(t)
      /\ p \in 0 .. Len(t) /\ Len(t) \in p .. Len(t)
  OBVIOUS
<1>2. Part(t, Len(t)) = t BY SubSeqFull DEF Part
<1>3. TokensFrom(t)[p + 1] = TokenOf(SubSeq(t, p + 1, Len(t))) \o TokensFrom(t)[Len(t) + 1]
  <2>1. PICK n : n = Len(t) OBVIOUS
  <2>2. p \in 0 .. Len(t) /\ n \in p + 1 .. Len(t) /\ n \in n .. Len(t) /\ ~(n < Len(t))
    BY <1>1, <2>1
  <2>3. TokensFrom(Part(t, n))[p + 1]
          = TokenOf(SubSeq(t, p + 1, n)) \o TokensFrom(Part(t, n))[n + 1]
    BY <2>1, <2>2, FirstPiece
  <2> QED BY <1>2, <2>1, <2>3
<1>4. TokensFrom(t)[Len(t) + 1] = << >>
  <2>1. Len(t) + 1 \in 1 .. Len(t) + 1 BY <1>1
  <2> QED BY <2>1, FromUnfolds DEF Onward
<1>5. TokensOf(t) = toks \o TokensFrom(t)[p + 1] BY <1>1, <1>2 DEF GoodAt, TokensOf
<1>6. PICK s : s = SubSeq(t, p + 1, Len(t)) OBVIOUS
<1>7. s \in Seq(Chars) /\ s # << >>
  <2>1. s \in Seq(Chars) /\ Len(s) = Len(t) - (p + 1) + 1 BY <1>1, <1>6, PartOfText
  <2>2. Len(s) >= 1 BY <1>1, <2>1
  <2> QED BY <2>1, <2>2
<1>8. toks \in Seq(Tok) BY DEF GoodAt
<1>9. TokenOf(s) \in Seq(Tok) BY <1>7, TokenOfSeq
<1>10. TokensOf(t) = toks \o TokenOf(s) BY <1>3, <1>4, <1>5, <1>6, <1>9, ConcatEmptySeq
<1>11. CASE TokenOf(s) = << >> BY <1>8, <1>10, <1>11, ConcatEmptySeq
<1>12. CASE \E k \in Tok : TokenOf(s) = <<k>>
  <2>1. PICK k \in Tok : TokenOf(s) = <<k>> BY <1>12
  <2>2. <<k>> \in Seq(Tok) /\ Len(<<k>>) = 1 OBVIOUS
  <2>3. PICK v : v = toks \o <<k>> OBVIOUS
  <2>4. /\ v \in Seq(Tok) /\ Len(v) = Len(toks) + 1
        /\ \A i \in 1 .. Len(toks) : v[i] = toks[i]
    BY <1>8, <2>2, <2>3, ConcatProperties
  <2>5. Len(toks) \in Nat /\ Len(v) - 1 = Len(toks) BY <1>8, <2>4
  <2>6. SubSeq(v, 1, Len(toks)) = toks
    <3>1. CASE Len(toks) = 0
      <4>1. toks = << >> BY <1>8, <3>1
      <4> QED BY <2>4, <3>1, <4>1, SubSeqEmpty
    <3>2. CASE Len(toks) > 0
      <4>1. 1 \in 1 .. Len(v) /\ Len(toks) \in 1 .. Len(v) BY <2>4, <2>5, <3>2
      <4>2. \A i \in 1 .. Len(toks) : v[i] \in Tok BY <1>8, <2>4
      <4>3. /\ SubSeq(v, 1, Len(toks)) \in Seq(Tok)
            /\ Len(SubSeq(v, 1, Len(toks))) = Len(toks) - 1 + 1
            /\ \A i \in 1 .. Len(toks) - 1 + 1 : SubSeq(v, 1, Len(toks))[i] = v[1 + i - 1]
        BY <2>5, <3>2, <4>2, SubSeqProperties
      <4>4. Len(SubSeq(v, 1, Len(toks))) = Len(toks) BY <2>5, <4>3
      <4>5. \A i \in 1 .. Len(toks) : SubSeq(v, 1, Len(toks))[i] = toks[i]
        <5> TAKE i \in 1 .. Len(toks)
        <5>1. i \in 1 .. Len(toks) - 1 + 1 /\ 1 + i - 1 = i BY <2>5
        <5> QED BY <2>4, <4>3, <5>1
      <4> QED BY <1>8, <4>3, <4>4, <4>5, SeqEqual
    <3> QED BY <2>5, <3>1, <3>2
  <2> QED BY <1>10, <2>1, <2>3, <2>5, <2>6
<1> QED BY <1>7, <1>11, <1>12, TokenOfType

-----------------------------------------------------------------------------
(* One character more.                                                     *)

LEMMA Extension ==
  ASSUME NEW s \in Seq(Chars), NEW c \in Chars, NEW w, w = Append(s, c)
  PROVE  /\ w \in Seq(Chars) /\ Len(s) \in Nat /\ Len(w) = Len(s) + 1
         /\ w[Len(s) + 1] = c /\ \A m \in 1 .. Len(s) : w[m] = s[m]
         /\ c \in Elements(w) /\ Elements(w) \subseteq Elements(s) \cup {c}
         /\ s = << >> => w = <<c>>
<1>1. /\ w \in Seq(Chars) /\ Len(s) \in Nat /\ Len(w) = Len(s) + 1
      /\ w[Len(s) + 1] = c /\ \A m \in 1 .. Len(s) : w[m] = s[m]
  OBVIOUS
<1>2. c \in Elements(w)
  <2>1. Len(s) + 1 \in 1 .. Len(w) BY <1>1
  <2> QED BY <1>1, <2>1 DEF Elements
<1>3. ASSUME NEW x \in Elements(w) PROVE x \in Elements(s) \cup {c}
  <2>1. PICK m \in 1 .. Len(w) : x = w[m] BY <1>3 DEF Elements
  <2>2. m \in 1 .. Len(s) \/ m = Len(s) + 1 BY <1>1, <2>1
  <2> QED BY <1>1, <2>1, <2>2 DEF Elements
<1>4. s = << >> => w = <<c>> OBVIOUS
<1> QED BY <1>1, <1>2, <1>3, <1>4

LEMMA TwoElements ==
  ASSUME NEW a \in Chars, NEW c \in Chars
  PROVE  Append(<<a>>, c) = <<a, c>>
<1>1. PICK s : s = <<a>> OBVIOUS
<1>2. s \in Seq(Chars) /\ Len(s) = 1 /\ s[1] = a BY <1>1
<1>3. PICK w : w = Append(s, c) OBVIOUS
<1>4. 1 \in 1 .. 1 /\ 1 + 1 = 2 OBVIOUS
<1>5. w \in Seq(Chars) /\ Len(w) = 2 /\ w[1] = a /\ w[2] = c
  BY <1>2, <1>3, <1>4, Extension
<1>6. w = <<w[1], w[2]>> BY <1>5
<1> QED BY <1>1, <1>3, <1>5, <1>6

\* The texts of the operators.
LEMMA PairShape ==
  ASSUME NEW p \in Pairs
  PROVE  \/ \E d \in DOMAIN Single : p[1] = <<d>>
         \/ p[1] = <<"/">> \/ p[1] = <<"<">> \/ p[1] = <<">">>
         \/ p[1] \in {<<"<", "=">>, <<"<", ">">>, <<">", "=">>, <<":", "=">>}
<1>1. ASSUME NEW d \in DOMAIN Single, p = << <<d>>, Single[d] >> PROVE p[1] = <<d>>
  BY <1>1
<1> QED BY <1>1, PairForm

\* What a number, an identifier, a blank, an operator and a comment cannot go
\* on with.
LEMMA WordStops ==
  ASSUME NEW s \in Seq(Chars), NEW c \in Chars, NEW w, w = Append(s, c),
         s # << >>, s[1] \in AlphaNum \cup Blanks, s[1] \in Blanks \/ c \notin AlphaNum
  PROVE  ~IsPiece(w)
<1>1. /\ w \in Seq(Chars) /\ Len(w) >= 2 /\ w[1] = s[1] /\ c \in Elements(w)
      /\ s[1] \in Elements(w)
  <2>1. Len(s) \in Nat /\ Len(s) >= 1 BY EmptySeq
  <2>2. 1 \in 1 .. Len(s) /\ 1 \in 1 .. Len(w) BY <2>1, Extension
  <2> QED BY <2>1, <2>2, Extension DEF Elements
<1>2. w[1] \notin DOMAIN Single \cup Openers BY <1>1, KindsApart DEF AlphaNum
<1>3. ~(Elements(w) \subseteq AlphaNum)
  BY <1>1, KindsApart DEF AlphaNum
<1>4. ~OpensComment(w) BY <1>1, <1>2, Opening DEF Openers
<1>5. \A p \in Pairs : p[1] # w BY <1>2, PairStart
<1> QED BY <1>1, <1>3, <1>4, <1>5 DEF IsPiece

LEMMA OperatorStops ==
  ASSUME NEW s \in Seq(Chars), NEW c \in Chars, NEW w, w = Append(s, c),
         NEW p \in Pairs, p[1] = s,
         s = <<"<">> => c \notin {"=", ">"}, s = <<">">> => c # "=", s = <<"/">> => c # "*"
  PROVE  ~IsPiece(w)
<1>0. Len(s) \in 1 .. 2 BY PairLength
<1>1. /\ w \in Seq(Chars) /\ Len(w) = Len(s) + 1 /\ w[1] = s[1] /\ s[1] \in Elements(w)
      /\ w[Len(s) + 1] = c
  <2>1. 1 \in 1 .. Len(s) /\ 1 \in 1 .. Len(w) BY <1>0, Extension
  <2> QED BY <2>1, Extension DEF Elements
<1>2. ~(Elements(w) \subseteq AlphaNum)
  BY <1>1, PairStart, KindsApart DEF AlphaNum
<1>3. Len(s) = 2 => s[1] # "/" /\ Len(w) = 3
  <2> SUFFICES ASSUME Len(s) = 2 PROVE s[1] # "/" /\ Len(w) = 3 OBVIOUS
  <2>1. Len(w) = 3 BY <1>1
  <2>2. p[1] \in {<<"<", "=">>, <<"<", ">">>, <<">", "=">>, <<":", "=">>}
    <3>1. ASSUME NEW d, p[1] = <<d>> PROVE FALSE BY <3>1
    <3> QED BY <3>1, PairShape
  <2>3. s[1] # "/" BY <2>2
  <2> QED BY <2>1, <2>3
<1>4. Len(s) = 1 => s = <<s[1]>> /\ w = <<s[1], c>>
  <2> SUFFICES ASSUME Len(s) = 1 PROVE s = <<s[1]>> /\ w = <<s[1], c>> OBVIOUS
  <2>1. PICK a : a = s[1] OBVIOUS
  <2>2. s = <<a>> BY <2>1
  <2>3. a \in Chars
    <3>1. 1 \in 1 .. Len(s) OBVIOUS
    <3> QED BY <2>1, <3>1, ElementOfSeq
  <2>4. Append(<<a>>, c) = <<a, c>> BY <2>3, TwoElements
  <2> QED BY <2>1, <2>2, <2>4
<1>5. ~OpensComment(w)
  <2> SUFFICES ASSUME w[1] = "/", w[2] = "*" PROVE FALSE BY <1>1, Opening
  <2>1. Len(s) = 1 BY <1>0, <1>1, <1>3
  <2>2. s = <<"/">> /\ c = "*" BY <1>1, <1>4, <2>1
  <2> QED BY <2>2
<1>6. ASSUME NEW q \in Pairs, q[1] = w PROVE FALSE
  <2>1. Len(w) \in 1 .. 2 BY <1>6, PairLength
  <2>2. Len(s) = 1 /\ Len(w) = 2 BY <1>0, <1>1, <2>1
  <2>3. w = <<s[1], c>> /\ s = <<s[1]>> BY <1>4, <2>2
  <2>4. ~ \E d \in DOMAIN Single : q = << <<d>>, Single[d] >> BY <1>6, <2>2
  <2>5. w \in {<<"<", "=">>, <<"<", ">">>, <<">", "=">>, <<":", "=">>}
    <3>1. q[1] \in {<<"<", "=">>, <<"<", ">">>, <<">", "=">>, <<":", "=">>}
          \/ q[1] \in {<<"/">>, <<"<">>, <<">">>}
      BY <2>4, PairForm
    <3>2. ~(q[1] \in {<<"/">>, <<"<">>, <<">">>}) BY <1>6, <2>2
    <3> QED BY <1>6, <3>1, <3>2
  <2>6. s # <<":">>
    <3> SUFFICES ASSUME p[1] = <<":">> PROVE FALSE OBVIOUS
    <3>1. ASSUME NEW d \in DOMAIN Single, p = << <<d>>, Single[d] >> PROVE FALSE
      <4>1. d # ":" BY SingleDomain
      <4>2. <<d>> = <<":">> BY <3>1
      <4> QED BY <4>1, <4>2
    <3>2. p[1] \notin {<<"<", "=">>, <<"<", ">">>, <<">", "=">>, <<":", "=">>,
                       <<"/">>, <<"<">>, <<">">>}
      OBVIOUS
    <3> QED BY <3>1, <3>2, PairForm
  <2>7. \/ s[1] = "<" /\ c \in {"=", ">"}
        \/ s[1] = ">" /\ c = "="
        \/ s[1] = ":"
    BY <2>3, <2>5
  <2> QED BY <2>3, <2>6, <2>7
<1>7. Len(w) # 1 BY <1>0, <1>1
<1> QED BY <1>2, <1>5, <1>6, <1>7 DEF IsPiece

LEMMA CommentGrows ==
  ASSUME NEW s \in Seq(Chars), NEW c \in Chars, NEW w, w = Append(s, c), OpensComment(s)
  PROVE  /\ IsComment(s) => ~IsPiece(w)
         /\ ~IsComment(s) => OpensComment(w)
         /\ IsComment(w) => Len(s) >= 3 /\ s[Len(s)] = "*" /\ c = "/"
         /\ ~IsComment(s) /\ Len(s) >= 3 /\ s[Len(s)] = "*" /\ c = "/" => IsComment(w)
<1>1. /\ w \in Seq(Chars) /\ Len(s) \in Nat /\ Len(w) = Len(s) + 1
      /\ w[Len(s) + 1] = c /\ \A m \in 1 .. Len(s) : w[m] = s[m]
  BY Extension
<1>2. /\ Len(s) >= 2 /\ s[1] = "/" /\ s[2] = "*"
      /\ \A m \in 3 .. Len(s) - 2 : ~(s[m] = "*" /\ s[m + 1] = "/")
  BY Opening
<1>3. w[1] = "/" /\ w[2] = "*" /\ w[Len(s)] = s[Len(s)]
  <2>1. 1 \in 1 .. Len(s) /\ 2 \in 1 .. Len(s) /\ Len(s) \in 1 .. Len(s) BY <1>1, <1>2
  <2> QED BY <1>1, <1>2, <2>1
<1>4. ASSUME IsComment(s) PROVE ~IsPiece(w)
  <2>1. Len(s) >= 4 /\ s[Len(s) - 1] = "*" /\ s[Len(s)] = "/" BY <1>4, Opening
  <2>2. PICK m : m = Len(s) - 1 OBVIOUS
  <2>3. m \in 3 .. Len(w) - 2 /\ m \in 1 .. Len(s) /\ m + 1 = Len(s) BY <1>1, <2>1, <2>2
  <2>4. w[m] = "*" /\ w[m + 1] = "/" BY <1>1, <1>3, <2>1, <2>2, <2>3
  <2>5. ~OpensComment(w) BY <1>1, <2>3, <2>4, Opening
  <2>6. ~(Elements(w) \subseteq AlphaNum)
    <3>1. 1 \in 1 .. Len(w) BY <1>1
    <3>2. "/" \in Elements(w) BY <1>3, <3>1 DEF Elements
    <3> QED BY <3>2, KindsApart DEF Openers, AlphaNum
  <2>7. \A p \in Pairs : p[1] # w
    <3>1. ~(Len(w) \in 1 .. 2) BY <1>1, <2>1
    <3> QED BY <3>1, PairLength
  <2>8. Len(w) # 1 BY <1>1, <2>1
  <2> QED BY <2>5, <2>6, <2>7, <2>8 DEF IsPiece
<1>5. ASSUME ~IsComment(s) PROVE OpensComment(w)
  <2>1. ASSUME NEW m \in 3 .. Len(w) - 2, w[m] = "*", w[m + 1] = "/" PROVE FALSE
    <3>1. m \in 1 .. Len(s) /\ m + 1 \in 1 .. Len(s) BY <1>1
    <3>2. s[m] = "*" /\ s[m + 1] = "/" BY <1>1, <2>1, <3>1
    <3>3. CASE m \in 3 .. Len(s) - 2 BY <1>2, <3>2, <3>3
    <3>4. CASE m \notin 3 .. Len(s) - 2
      <4>1. m = Len(s) - 1 /\ m + 1 = Len(s) /\ Len(s) >= 4 BY <1>1, <3>4
      <4>2. s[Len(s) - 1] = "*" /\ s[Len(s)] = "/" BY <3>2, <4>1
      <4> QED BY <1>5, <4>1, <4>2, Opening
    <3> QED BY <3>3, <3>4
  <2>2. Len(w) >= 2 BY <1>1, <1>2
  <2> QED BY <1>1, <1>3, <2>1, <2>2, Opening
<1>6. Len(w) - 1 = Len(s) /\ Len(w) = Len(s) + 1 BY <1>1
<1>7. IsComment(w) => Len(s) >= 3 /\ s[Len(s)] = "*" /\ c = "/"
  <2> SUFFICES ASSUME IsComment(w) PROVE Len(s) >= 3 /\ s[Len(s)] = "*" /\ c = "/" OBVIOUS
  <2>1. Len(w) >= 4 /\ w[Len(w) - 1] = "*" /\ w[Len(w)] = "/" BY <1>1, Opening
  <2>2. Len(s) >= 3 BY <1>1, <2>1
  <2> QED BY <1>1, <1>3, <1>6, <2>1, <2>2
<1>8. ~IsComment(s) /\ Len(s) >= 3 /\ s[Len(s)] = "*" /\ c = "/" => IsComment(w)
  <2> SUFFICES ASSUME ~IsComment(s), Len(s) >= 3, s[Len(s)] = "*", c = "/" PROVE IsComment(w)
    OBVIOUS
  <2>1. Len(w) >= 4 BY <1>1
  <2>2. w[Len(w) - 1] = "*" /\ w[Len(w)] = "/" BY <1>1, <1>3, <1>6
  <2> QED BY <1>1, <1>5, <2>1, <2>2, Opening
<1> QED BY <1>4, <1>5, <1>7, <1>8

\* What no lexeme begins with.
LEMMA Refused ==
  ASSUME NEW u \in Seq(Chars),
         u[1] \in Others \/ (u[1] = ":" /\ (Len(u) >= 2 => u[2] # "="))
  PROVE  TokenOf(u) = Malformed
<1>1. u[1] \in Others \cup DOMAIN Single \cup Openers BY DEF Openers
<1>2. ~IsComment(u)
  <2>1. u[1] # "/" BY AlphabetAssumption DEF Openers
  <2> QED BY <2>1, Opening
<1>3. ASSUME NEW p \in Pairs, p[1] = u PROVE FALSE
  <2>1. u[1] \notin Others BY <1>3, PairStart, KindsApart
  <2>2. u[1] = ":" /\ (Len(u) >= 2 => u[2] # "=") BY <2>1
  <2>3. CASE \E d \in DOMAIN Single : p = << <<d>>, Single[d] >>
    <3>1. PICK d \in DOMAIN Single : p = << <<d>>, Single[d] >> BY <2>3
    <3>2. p[1] = <<d>> BY <3>1
    <3>3. u[1] = d BY <1>3, <3>2
    <3> QED BY <2>2, <3>3, SingleDomain
  <2>4. CASE p = << <<":", "=">>, "becomessym">>
    <3>1. p[1] = <<":", "=">> BY <2>4
    <3>2. Len(u) = 2 /\ u[2] = "=" BY <1>3, <3>1
    <3> QED BY <2>2, <3>2
  <2>5. CASE p \in {<< <<"<", "=">>, "leqsym">>, << <<"<", ">">>, "neqsym">>,
                    << <<">", "=">>, "geqsym">>, << <<"/">>, "slashsym">>,
                    << <<"<">>, "lessym">>, << <<">">>, "gtrsym">>}
    BY <1>3, <2>2, <2>5
  <2> QED BY <2>3, <2>4, <2>5, PairForm
<1> QED BY <1>1, <1>2, <1>3, NoToken

-----------------------------------------------------------------------------
(* The automaton reads the first piece of what is left of the text.        *)

\* What is read of a lexeme, state by state; the states after an operator are
\* those of OTHER.
Reading(s) ==
  CASE state = "START" -> s = << >>
    [] state = "DIGIT" -> /\ s # << >> /\ Elements(s) \subseteq Digits
                          /\ Len(s) <= MaxNumber /\ buffer = s /\ type = "numbersym"
    [] state = "ALPHA" -> /\ s # << >> /\ s[1] \in Letters /\ Elements(s) \subseteq AlphaNum
                          /\ Len(s) <= MaxIdent /\ buffer = s
    [] state = "COLON" -> s = <<":">> /\ type = "becomessym"
    [] state = "LCOMM" -> /\ OpensComment(s) /\ ~IsComment(s)
                          /\ Len(s) >= 3 => s[Len(s)] # "*"
    [] state = "COMM" -> /\ OpensComment(s) /\ ~IsComment(s)
                         /\ Len(s) >= 3 /\ s[Len(s)] = "*"
    [] state = "RCOMM" -> IsComment(s)
    [] OTHER -> /\ <<s, type>> \in Pairs
                /\ state = "DIV" <=> s = <<"/">>
                /\ state = "LESS" <=> s = <<"<">>
                /\ state = "LARE" <=> s = <<">">>

InLexeme == /\ running /\ ~eof
            /\ \E st \in 0 .. pos : /\ GoodAt(text, st, tokens)
                                    /\ Reading(SubSeq(text, st + 1, pos))
AtEnd == /\ eof /\ pos = Len(text)
         /\ \/ tokens = TokensOf(text)
            \/ tokens = SubSeq(TokensOf(text), 1, Len(TokensOf(text)) - 1)

\* The token table holds the tokens of the lexemes that ended, and the state
\* what was read since; once a lexeme was refused nothing is claimed of a text
\* that is not well formed.
TokensInv == \/ BadAt(text, pos)
             \/ InLexeme
             \/ ~running /\ ~eof /\ GoodAt(text, pos, tokens)
             \/ ~running /\ AtEnd

\* What the invariant says between two lexemes.
LEMMA TokensFollow == TypeOK /\ TokensInv => TokensRight
<1> SUFFICES ASSUME TypeOK, TokensInv, ~running, IsWellFormed(TokensOf(Scanned))
             PROVE  \/ tokens = TokensOf(Scanned)
                    \/ eof /\ tokens = SubSeq(TokensOf(Scanned), 1, Len(TokensOf(Scanned)) - 1)
  BY DEF TokensRight
<1>1. text \in Seq(Chars) /\ pos \in 0 .. Len(text) /\ Len(text) \in Nat /\ pos \in pos .. Len(text)
  <2>1. text \in Seq(Chars) BY ScannerAssumption DEF TypeOK
  <2> QED BY <2>1 DEF TypeOK
<1>2. Scanned = Part(text, pos) BY DEF Scanned, Part
<1>3. ~BadAt(text, pos)
  <2> SUFFICES ASSUME BadAt(text, pos) PROVE FALSE OBVIOUS
  <2>1. PICK ts : ts = TokensFrom(Part(text, pos))[1] OBVIOUS
  <2>2. PICK k \in 1 .. Len(ts) : ts[k] = Malformed[1] BY <1>1, <2>1 DEF BadAt
  <2>3. Malformed[1] \in Elements(ts) BY <2>2 DEF Elements
  <2> QED BY <1>2, <2>1, <2>3 DEF IsWellFormed, TokensOf
<1>4. CASE GoodAt(text, pos, tokens)
  <2>1. Part(text, pos) \in Seq(Chars) /\ Len(Part(text, pos)) = pos BY <1>1, PartFacts
  <2>2. pos + 1 \in 1 .. Len(Part(text, pos)) + 1 BY <1>1, <2>1
  <2>3. TokensFrom(Part(text, pos))[pos + 1] = << >>
    BY <2>1, <2>2, FromUnfolds DEF Onward
  <2>4. TokensOf(Scanned) = tokens \o << >> BY <1>1, <1>2, <1>4, <2>3 DEF GoodAt, TokensOf
  <2> QED BY <1>4, <2>4, ConcatEmptySeq DEF GoodAt
<1>5. CASE AtEnd
  <2>1. Scanned = text BY <1>1, <1>5, SubSeqFull DEF Scanned, AtEnd
  <2> QED BY <1>5, <2>1 DEF AtEnd
<1> QED BY <1>3, <1>4, <1>5 DEF TokensInv, InLexeme

LEMMA InitTokens == Init => TokensInv
<1> SUFFICES ASSUME Init PROVE TokensInv OBVIOUS
<1>1. text \in Seq(Chars) BY ScannerAssumption DEF Init
<1>2. GoodAt(text, 0, << >>) BY <1>1, GoodStart
<1>3. pos = 0 /\ tokens = << >> /\ ~running /\ ~eof BY DEF Init
<1> QED BY <1>2, <1>3 DEF TokensInv

\* What was read of a lexeme and the character it is to go on with.
LEMMA NextPart ==
  ASSUME TypeOK, NEW states, In(states), NEW st \in 0 .. pos,
         NEW s, s = SubSeq(text, st + 1, pos),
         NEW w, w = SubSeq(text, st + 1, pos + 1)
  PROVE  /\ text \in Seq(Chars) /\ Len(text) \in Nat /\ pos \in Nat /\ pos + 1 \in 1 .. Len(text)
         /\ st \in 0 .. Len(text) /\ pos + 1 \in st + 1 .. Len(text)
         /\ s \in Seq(Chars) /\ Len(s) = pos - st /\ Char \in Chars
         /\ w = Append(s, Char)
         /\ s # << >> => pos \in st + 1 .. Len(text)
<1>1. text \in Seq(Chars) /\ Len(text) \in Nat
  <2>1. text \in Seq(Chars) BY ScannerAssumption DEF TypeOK
  <2> QED BY <2>1
<1>2. pos \in Nat /\ pos < Len(text) BY <1>1 DEF TypeOK, In
<1>3. /\ pos + 1 \in 1 .. Len(text) /\ st \in 0 .. Len(text)
      /\ st + 1 \in 1 .. Len(text) /\ pos + 1 \in st + 1 .. Len(text)
  BY <1>1, <1>2
<1>4. s \in Seq(Chars) /\ Len(s) = pos - st /\ \A m \in 1 .. Len(s) : s[m] = text[st + m]
  <2>1. CASE st = pos
    <3>1. s = << >> BY <1>2, <2>1, SubSeqEmpty
    <3>2. pos - st = 0 BY <1>2, <2>1
    <3>3. s \in Seq(Chars) /\ Len(s) = 0 BY <3>1, EmptySeq
    <3>4. \A m \in 1 .. Len(s) : FALSE BY <3>3
    <3>5. Len(s) = pos - st BY <3>2, <3>3
    <3> QED BY <3>3, <3>4, <3>5
  <2>2. CASE st # pos
    <3>1. pos \in st + 1 .. Len(text) BY <1>2, <2>2
    <3>2. /\ s \in Seq(Chars) /\ Len(s) = pos - (st + 1) + 1
          /\ \A m \in 1 .. pos - (st + 1) + 1 : s[m] = text[(st + 1) + m - 1]
      BY <1>1, <1>3, <3>1, PartOfText
    <3>3. pos - (st + 1) + 1 = pos - st BY <1>2
    <3>4. \A m \in 1 .. Len(s) : (st + 1) + m - 1 = st + m BY <1>2, <3>2
    <3> QED BY <3>2, <3>3, <3>4
  <2> QED BY <2>1, <2>2
<1>5. /\ w \in Seq(Chars) /\ Len(w) = (pos - st) + 1
      /\ \A m \in 1 .. Len(w) : w[m] = text[st + m]
  <2>1. /\ w \in Seq(Chars) /\ Len(w) = (pos + 1) - (st + 1) + 1
        /\ \A m \in 1 .. (pos + 1) - (st + 1) + 1 : w[m] = text[(st + 1) + m - 1]
    BY <1>1, <1>3, PartOfText
  <2>2. (pos + 1) - (st + 1) + 1 = (pos - st) + 1 BY <1>2
  <2>3. \A m \in 1 .. Len(w) : (st + 1) + m - 1 = st + m BY <1>2, <2>1
  <2> QED BY <2>1, <2>2, <2>3
<1>6. Char \in Chars BY <1>1, <1>3, ElementOfSeq DEF Char
<1>7. w = Append(s, Char)
  <2>1. PICK v : v = Append(s, Char) OBVIOUS
  <2>2. /\ v \in Seq(Chars) /\ Len(s) \in Nat /\ Len(v) = Len(s) + 1
        /\ v[Len(s) + 1] = Char /\ \A m \in 1 .. Len(s) : v[m] = s[m]
    BY <1>4, <1>6, <2>1, Extension
  <2>3. Len(v) = Len(w) BY <1>4, <1>5, <2>2
  <2>4. ASSUME NEW m \in 1 .. Len(v) PROVE v[m] = w[m]
    <3>1. w[m] = text[st + m] BY <1>5, <2>3
    <3>2. CASE m \in 1 .. Len(s) BY <1>4, <2>2, <3>1, <3>2
    <3>3. CASE m \notin 1 .. Len(s)
      <4>1. m = Len(s) + 1 /\ st + m = pos + 1 BY <1>2, <1>4, <2>2, <3>3
      <4> QED BY <2>2, <3>1, <4>1 DEF Char
    <3> QED BY <3>2, <3>3
  <2>5. v = w BY <1>5, <2>2, <2>3, <2>4, SeqEqual
  <2> QED BY <2>1, <2>5
<1>8. s # << >> => pos \in st + 1 .. Len(text)
  <2> SUFFICES ASSUME st = pos PROVE s = << >> BY <1>2
  <2> QED BY <1>2, SubSeqEmpty
<1> QED BY <1>1, <1>2, <1>3, <1>4, <1>6, <1>7, <1>8

\* Ways a step keeps the invariant: the lexeme goes on, ends, or is refused.
LEMMA LexemeGoesOn ==
  ASSUME TypeOK, ~eof, NEW states, In(states), NEW st \in 0 .. pos,
         GoodAt(text, st, tokens),
         NEW w, w = SubSeq(text, st + 1, pos + 1),
         NEW newState, NEW newType, Shift(newState, newType), Reading(w)'
  PROVE  TokensInv'
<1>1. pos \in Nat BY NextPart
<1>2. /\ pos' = pos + 1 /\ text' = text /\ tokens' = tokens /\ running' /\ ~eof'
  BY DEF Shift, Advance, In
<1>3. st \in 0 .. pos' BY <1>1, <1>2
<1>4. SubSeq(text', st + 1, pos') = w BY <1>2
<1>5. Reading(SubSeq(text, st + 1, pos))' BY <1>4 DEF Reading
<1>6. GoodAt(text, st, tokens)' BY <1>2
<1>7. InLexeme' BY <1>2, <1>3, <1>5, <1>6 DEF InLexeme
<1> QED BY <1>7 DEF TokensInv

LEMMA LexemeIsRead ==
  ASSUME TypeOK, ~eof, NEW states, In(states), NEW st \in 0 .. pos,
         GoodAt(text, st, tokens),
         NEW s, s = SubSeq(text, st + 1, pos), s # << >>, IsPiece(s),
         ~IsPiece(Append(s, Char)),
         NEW newType, Accept(newType), tokens' = tokens \o TokenOf(s)
  PROVE  TokensInv'
<1>1. PICK w : w = SubSeq(text, st + 1, pos + 1) OBVIOUS
<1>2. /\ text \in Seq(Chars) /\ st \in 0 .. Len(text)
      /\ pos \in st + 1 .. Len(text) /\ w = Append(s, Char)
  BY <1>1, NextPart
<1>3. GoodAt(text, pos, tokens \o TokenOf(s)) BY <1>1, <1>2, LexemeEnds
<1>4. pos' = pos /\ text' = text /\ ~running' /\ ~eof' BY DEF Accept, Rewind
<1>5. GoodAt(text, pos, tokens)' BY <1>3, <1>4
<1> QED BY <1>4, <1>5 DEF TokensInv

\* Whatever piece of the text is read from st on, it is no lexeme: none ends
\* before e, where the automaton gives up.
Spoilt(st, e) ==
  \A j \in st + 1 .. Len(text) :
    TokenOf(SubSeq(text, st + 1, j)) = Malformed
    \/ (j < e /\ IsPiece(SubSeq(text, st + 1, e)))

LEMMA LexemeIsRefused ==
  ASSUME TypeOK, NEW states, In(states), NEW st \in 0 .. pos,
         GoodAt(text, st, tokens), Spoilt(st, pos + 1), Reject
  PROVE  TokensInv'
<1>1. /\ text \in Seq(Chars) /\ st \in 0 .. Len(text) /\ pos + 1 \in st + 1 .. Len(text)
  BY NextPart
<1>2. BadAt(text, pos + 1) BY <1>1, LexemeSpoilt DEF Spoilt
<1>3. pos' = pos + 1 /\ text' = text BY DEF Reject, Advance
<1>4. BadAt(text, pos)' BY <1>2, <1>3
<1> QED BY <1>4 DEF TokensInv

LEMMA BadStays ==
  ASSUME TypeOK, BadAt(text, pos), text' = text, pos' = pos \/ pos' = pos + 1
  PROVE  TokensInv'
<1>1. text \in Seq(Chars) BY ScannerAssumption DEF TypeOK
<1>2. pos \in Nat /\ Len(text) \in Nat BY <1>1 DEF TypeOK
<1>3. \A q \in pos' .. Len(text) : q \in pos .. Len(text) BY <1>2
<1>4. BadAt(text, pos)' BY <1>3 DEF BadAt
<1> QED BY <1>4 DEF TokensInv

-----------------------------------------------------------------------------
(* Every action keeps it.                                                  *)

LEMMA StartReads ==
  ASSUME Inv, ~eof, NEW st \in 0 .. pos, GoodAt(text, st, tokens),
         Reading(SubSeq(text, st + 1, pos)), Start
  PROVE  TokensInv'
<1>1. TypeOK /\ In({"START"}) /\ state = "START" BY CharType DEF Start, Inv
<1>2. PICK s : s = SubSeq(text, st + 1, pos) OBVIOUS
<1>3. PICK w : w = SubSeq(text, st + 1, pos + 1) OBVIOUS
<1>4. s = << >> BY <1>1, <1>2 DEF Reading
<1>5. /\ text \in Seq(Chars) /\ Len(text) \in Nat /\ pos \in Nat /\ pos + 1 \in 1 .. Len(text)
      /\ st \in 0 .. Len(text) /\ pos + 1 \in st + 1 .. Len(text)
      /\ Len(s) = pos - st /\ Char \in Chars /\ w = Append(s, Char)
  BY <1>1, <1>2, <1>3, NextPart
<1>6. st = pos
  <2>1. Len(s) = 0 BY <1>4
  <2> QED BY <1>5, <2>1
<1>7. w = <<Char>> /\ w \in Seq(Chars) /\ Len(w) = 1 /\ w[1] = Char /\ Elements(w) \subseteq {Char}
  <2>1. s \in Seq(Chars) BY <1>4
  <2>2. w \in Seq(Chars) /\ Elements(w) \subseteq Elements(s) \cup {Char} /\ w = <<Char>>
    <3>1. s \in Seq(Chars) /\ Char \in Chars /\ w = Append(s, Char) BY <1>5, <2>1
    <3>2. w \in Seq(Chars) BY <3>1, Extension
    <3>3. Elements(w) \subseteq Elements(s) \cup {Char} BY <3>1, Extension
    <3>4. w = <<Char>> BY <1>4, <3>1
    <3> QED BY <3>2, <3>3, <3>4
  <2>3. Elements(s) = {} BY <1>4 DEF Elements
  <2> QED BY <2>2, <2>3
<1>8. buffer = << >>
  <2>1. Filled("START") /\ buffer \in Seq(Chars) BY <1>1 DEF Inv, BufferInv, In, TypeOK
  <2> QED BY <2>1 DEF Filled
<1>9. ASSUME NEW newState, NEW newType, Shift(newState, newType), Reading(w)'
      PROVE  TokensInv'
  BY <1>1, <1>3, <1>9, LexemeGoesOn
<1>10. ASSUME NEW newState, NEW newType, Shift(newState, newType)
       PROVE  state' = newState /\ type' = newType /\ buffer' = w
  BY <1>1, <1>4, <1>5, <1>8, <1>10 DEF Shift, Forgets
<1>11. CASE Char \in Blanks /\ SkipBlank
  <2>1. IsPiece(w) BY <1>7 DEF IsPiece
  <2>2. pos + 1 < Len(text) => ~IsPiece(SubSeq(text, st + 1, (pos + 1) + 1))
    <3> SUFFICES ASSUME pos + 1 < Len(text)
                 PROVE  ~IsPiece(SubSeq(text, st + 1, (pos + 1) + 1))
      OBVIOUS
    <3>1. pos + 1 \in 1 .. Len(text) - 1 /\ st + 1 = pos + 1 BY <1>5, <1>6
    <3>2. SubSeq(text, pos + 1, (pos + 1) + 1) = <<text[pos + 1], text[(pos + 1) + 1]>>
      BY <1>5, <3>1, Neighbours
    <3>3. text[(pos + 1) + 1] \in Chars
      <4>1. (pos + 1) + 1 \in 1 .. Len(text) BY <1>5, <3>1
      <4> QED BY <1>5, <4>1, ElementOfSeq
    <3>4. PICK c \in Chars : c = text[(pos + 1) + 1] BY <3>3
    <3>5. PICK v : v = Append(w, c) OBVIOUS
    <3>6. v = <<Char, c>> BY <1>5, <1>7, <3>4, <3>5, TwoElements
    <3>7. w # << >> /\ w[1] \in Blanks BY <1>7, <1>11
    <3>8. ~IsPiece(v) BY <1>7, <3>5, <3>7, WordStops
    <3> QED BY <3>1, <3>2, <3>4, <3>6, <3>8 DEF Char
  <2>3. TokenOf(w) = << >> BY <1>7, <1>11, PlainTokens
  <2>4. GoodAt(text, pos + 1, tokens \o TokenOf(w)) BY <1>3, <1>5, <2>1, <2>2, LexemeEnds
  <2>5. tokens \o TokenOf(w) = tokens BY <2>3, ConcatEmptySeq DEF GoodAt
  <2>6. pos' = pos + 1 /\ text' = text /\ tokens' = tokens /\ ~running' /\ ~eof'
    BY <1>11 DEF SkipBlank, Advance
  <2>7. GoodAt(text, pos, tokens)' BY <2>4, <2>5, <2>6
  <2> QED BY <2>6, <2>7 DEF TokensInv
<1>12. CASE Char \in Digits /\ Shift("DIGIT", "numbersym")
  <2>1. w # << >> /\ Elements(w) \subseteq Digits /\ Len(w) <= MaxNumber
    BY <1>7, <1>12, Limits
  <2>2. Reading(w)' BY <1>10, <1>12, <2>1 DEF Reading
  <2> QED BY <1>9, <1>12, <2>2
<1>13. CASE Char \in Letters /\ Shift("ALPHA", "identsym")
  <2>1. w # << >> /\ Elements(w) \subseteq AlphaNum /\ Len(w) <= MaxIdent
    BY <1>7, <1>13, Limits DEF AlphaNum
  <2>2. Reading(w)' BY <1>7, <1>10, <1>13, <2>1 DEF Reading
  <2> QED BY <1>9, <1>13, <2>2
<1>14. CASE Char \in DOMAIN Single /\ Shift("SINGLE", Single[Char])
  <2>1. <<w, Single[Char]>> \in Pairs BY <1>7, <1>14 DEF Pairs
  <2>2. w # <<"/">> /\ w # <<"<">> /\ w # <<">">> BY <1>7, <1>14, SingleDomain
  <2>3. Reading(w)' BY <1>10, <1>14, <2>1, <2>2 DEF Reading
  <2> QED BY <1>9, <1>14, <2>3
<1>15. CASE Char = "/" /\ Shift("DIV", "slashsym")
  <2>1. <<w, "slashsym">> \in Pairs BY <1>7, <1>15 DEF Pairs
  <2>2. w = <<"/">> /\ w # <<"<">> /\ w # <<">">> BY <1>7, <1>15
  <2>3. Reading(w)' BY <1>10, <1>15, <2>1, <2>2 DEF Reading
  <2> QED BY <1>9, <1>15, <2>3
<1>16. CASE Char = "<" /\ Shift("LESS", "lessym")
  <2>1. <<w, "lessym">> \in Pairs BY <1>7, <1>16 DEF Pairs
  <2>2. w = <<"<">> /\ w # <<"/">> /\ w # <<">">> BY <1>7, <1>16
  <2>3. Reading(w)' BY <1>10, <1>16, <2>1, <2>2 DEF Reading
  <2> QED BY <1>9, <1>16, <2>3
<1>17. CASE Char = ">" /\ Shift("LARE", "gtrsym")
  <2>1. <<w, "gtrsym">> \in Pairs BY <1>7, <1>17 DEF Pairs
  <2>2. w = <<">">> /\ w # <<"/">> /\ w # <<"<">> BY <1>7, <1>17
  <2>3. Reading(w)' BY <1>10, <1>17, <2>1, <2>2 DEF Reading
  <2> QED BY <1>9, <1>17, <2>3
<1>18. CASE Char = ":" /\ Shift("COLON", "becomessym")
  <2>1. w = <<":">> BY <1>7, <1>18
  <2>2. Reading(w)' BY <1>10, <1>18, <2>1 DEF Reading
  <2> QED BY <1>9, <1>18, <2>2
<1>19. CASE Char \in Others /\ Reject
  <2>1. ASSUME NEW j \in st + 1 .. Len(text)
        PROVE  TokenOf(SubSeq(text, st + 1, j)) = Malformed
    <3>1. st + 1 \in 1 .. Len(text) BY <1>5, <1>6
    <3>2. PICK u : u = SubSeq(text, st + 1, j) OBVIOUS
    <3>3. /\ u \in Seq(Chars)
          /\ \A m \in 1 .. j - (st + 1) + 1 : u[m] = text[(st + 1) + m - 1]
      BY <1>5, <3>1, <3>2, PartOfText
    <3>4. 1 \in 1 .. j - (st + 1) + 1 /\ (st + 1) + 1 - 1 = pos + 1 BY <1>5, <1>6
    <3>5. u[1] = Char BY <3>3, <3>4 DEF Char
    <3> QED BY <1>19, <3>2, <3>3, <3>5, Refused
  <2>2. Spoilt(st, pos + 1) BY <2>1 DEF Spoilt
  <2> QED BY <1>1, <1>19, <2>2, LexemeIsRefused
<1> QED BY <1>11, <1>12, <1>13, <1>14, <1>15, <1>16, <1>17, <1>18, <1>19 DEF Start

-----------------------------------------------------------------------------
(* Numbers and identifiers.                                                *)

\* putLexeme puts the token of what was read.
LEMMA PutsToken ==
  ASSUME NEW toks \in Seq(Tok), NEW s \in Seq(Chars), s # << >>, NEW k, TokenOf(s) = <<k>>
  PROVE  Append(toks, k) = toks \o TokenOf(s)
<1>1. k \in Tok
  <2>1. TokenOf(s) # << >> OBVIOUS
  <2>2. PICK k2 \in Tok : TokenOf(s) = <<k2>> BY <2>1, TokenOfType
  <2>3. <<k>> = <<k2>> BY <2>2
  <2>4. k = k2 BY <2>3
  <2> QED BY <2>2, <2>4
<1>2. Append(toks, k) = toks \o <<k>> BY <1>1, AppendIsConcat
<1> QED BY <1>2

\* A piece of the text that begins with s and goes on with Char.
Continues(s, u) == /\ u \in Seq(Chars) /\ u[1] = s[1]
                   /\ u[Len(s) + 1] = Char /\ Char \in Elements(u) /\ Len(u) >= Len(s) + 1

LEMMA PiecesContinue ==
  ASSUME TypeOK, NEW states, In(states), NEW st \in 0 .. pos,
         SubSeq(text, st + 1, pos) # << >>, NEW j \in pos + 1 .. Len(text)
  PROVE  Continues(SubSeq(text, st + 1, pos), SubSeq(text, st + 1, j))
<1>0. PICK s : s = SubSeq(text, st + 1, pos) OBVIOUS
<1>10. PICK u : u = SubSeq(text, st + 1, j) OBVIOUS
<1>1. PICK w : w = SubSeq(text, st + 1, pos + 1) OBVIOUS
<1>2. /\ text \in Seq(Chars) /\ Len(text) \in Nat /\ pos \in Nat /\ pos + 1 \in 1 .. Len(text)
      /\ st \in 0 .. Len(text) /\ s \in Seq(Chars) /\ Len(s) = pos - st
      /\ pos \in st + 1 .. Len(text)
  BY <1>0, <1>1, NextPart
<1>3. st \in Nat /\ st + 1 \in 1 .. Len(text) /\ j \in st + 1 .. Len(text) /\ j >= st + 1
  BY <1>2
<1>4. /\ u \in Seq(Chars) /\ Len(u) = j - (st + 1) + 1
      /\ \A m \in 1 .. j - (st + 1) + 1 : u[m] = text[(st + 1) + m - 1]
  BY <1>2, <1>3, <1>10, PartOfText
<1>5. Len(u) = j - st /\ Len(u) >= 1 /\ j - (st + 1) + 1 = j - st BY <1>3, <1>4
<1>6. \A m \in 1 .. j - st : u[m] = text[st + m]
  <2> TAKE m \in 1 .. j - st
  <2>1. (st + 1) + m - 1 = st + m BY <1>3
  <2> QED BY <1>4, <1>5, <2>1
<1>7. s[1] = text[st + 1]
  <2>1. /\ \A m \in 1 .. pos - (st + 1) + 1 : s[m] = text[(st + 1) + m - 1]
    BY <1>0, <1>2, <1>3, PartOfText
  <2>2. 1 \in 1 .. pos - (st + 1) + 1 /\ (st + 1) + 1 - 1 = st + 1 BY <1>2, <1>3
  <2> QED BY <2>1, <2>2
<1>8. u[1] = s[1]
  <2>1. 1 \in 1 .. j - st BY <1>3
  <2> QED BY <1>6, <1>7, <2>1
<1>9. u[Len(s) + 1] = Char /\ Char \in Elements(u) /\ Len(u) >= Len(s) + 1
  <2>1. PICK m : m = Len(s) + 1 OBVIOUS
  <2>2. m \in 1 .. j - st /\ m \in 1 .. Len(u) /\ st + m = pos + 1
    BY <1>2, <1>3, <1>5, <2>1
  <2>3. u[m] = Char BY <1>6, <2>2 DEF Char
  <2>4. Char \in Elements(u) BY <2>2, <2>3 DEF Elements
  <2>5. Len(u) >= m BY <1>5, <2>2
  <2> QED BY <2>1, <2>3, <2>4, <2>5
<1> QED BY <1>0, <1>4, <1>8, <1>9, <1>10 DEF Continues

LEMMA DigitReads ==
  ASSUME Inv, ~eof, NEW st \in 0 .. pos, GoodAt(text, st, tokens),
         Reading(SubSeq(text, st + 1, pos)), Digit
  PROVE  TokensInv'
<1>1. TypeOK /\ In({"DIGIT"}) /\ state = "DIGIT" BY CharType DEF Digit, Inv
<1>2. PICK s : s = SubSeq(text, st + 1, pos) OBVIOUS
<1>3. PICK w : w = SubSeq(text, st + 1, pos + 1) OBVIOUS
<1>4. /\ s # << >> /\ Elements(s) \subseteq Digits
      /\ Len(s) <= MaxNumber /\ buffer = s /\ type = "numbersym"
  BY <1>1, <1>2 DEF Reading
<1>5. /\ s \in Seq(Chars) /\ Len(s) = pos - st /\ Char \in Chars /\ w = Append(s, Char)
      /\ pos + 1 \in st + 1 .. Len(text) /\ pos \in Nat /\ Len(text) \in Nat
  BY <1>1, <1>2, <1>3, NextPart
<1>6. s[1] \in Digits
  <2>1. Len(s) \in Nat /\ Len(s) # 0 BY <1>4, <1>5, EmptySeq
  <2>2. 1 \in 1 .. Len(s) BY <2>1
  <2> QED BY <1>4, <2>2 DEF Elements
<1>7. /\ w \in Seq(Chars) /\ Len(w) = Len(s) + 1 /\ w # << >>
      /\ Elements(w) \subseteq Elements(s) \cup {Char}
  <2>1. w \in Seq(Chars) /\ Len(w) = Len(s) + 1 /\ Len(s) \in Nat
        /\ Elements(w) \subseteq Elements(s) \cup {Char}
    BY <1>5, Extension
  <2>2. w # << >> BY <2>1, EmptySeq
  <2> QED BY <2>1, <2>2
<1>8. CASE Char \in Digits /\ Len(buffer) + 1 <= MaxNumber /\ Shift("DIGIT", type)
  <2>1. state' = "DIGIT" /\ type' = "numbersym" /\ buffer' = w
    BY <1>1, <1>4, <1>5, <1>8 DEF Shift, Forgets
  <2>2. Elements(w) \subseteq Digits /\ Len(w) <= MaxNumber BY <1>4, <1>7, <1>8
  <2>3. Reading(w)' BY <1>7, <2>1, <2>2 DEF Reading
  <2> QED BY <1>1, <1>3, <1>8, <2>3, LexemeGoesOn
<1>9. CASE Char \notin Letters \cup Digits /\ Accept(type)
  <2>1. IsPiece(s) BY <1>4 DEF IsPiece, AlphaNum
  <2>2. ~IsPiece(Append(s, Char))
    BY <1>4, <1>5, <1>6, <1>9, WordStops DEF AlphaNum
  <2>3. TokenOf(s) = << [type |-> "numbersym", lexeme |-> s] >>
    BY <1>4, <1>5, <1>6, PlainTokens
  <2>4. tokens' = Append(tokens, [type |-> "numbersym", lexeme |-> s])
    BY <1>4, <1>9 DEF Accept, Put, Printable
  <2>5. tokens' = tokens \o TokenOf(s) BY <1>4, <1>5, <2>3, <2>4, PutsToken DEF GoodAt
  <2> QED BY <1>1, <1>2, <1>4, <1>9, <2>1, <2>2, <2>5, LexemeIsRead
<1>10. CASE Reject /\ Char \in AlphaNum /\ (Char \in Digits => Len(buffer) + 1 > MaxNumber)
  <2>1. IsPiece(w) BY <1>4, <1>7, <1>10 DEF IsPiece, AlphaNum
  <2>2. ASSUME NEW j \in st + 1 .. Len(text), ~(j < pos + 1)
        PROVE  TokenOf(SubSeq(text, st + 1, j)) = Malformed
    <3>1. PICK u : u = SubSeq(text, st + 1, j) OBVIOUS
    <3>2. j \in pos + 1 .. Len(text) BY <1>5, <2>2
    <3>3. Continues(s, u)
      <4>1. SubSeq(text, st + 1, pos) # << >> BY <1>2, <1>4
      <4>2. Continues(SubSeq(text, st + 1, pos), SubSeq(text, st + 1, j))
        BY <1>1, <3>2, <4>1, PiecesContinue
      <4> QED BY <1>2, <3>1, <4>2
    <3>4. ~(Elements(u) \subseteq Digits /\ Len(u) <= MaxNumber)
      <4>1. CASE Char \notin Digits BY <3>3, <4>1 DEF Continues
      <4>2. CASE Char \in Digits
        <5>1. Len(s) + 1 > MaxNumber BY <1>4, <1>10, <4>2
        <5>2. Len(u) \in Nat /\ Len(s) \in Nat /\ Len(u) >= Len(s) + 1
          BY <1>5, <3>3 DEF Continues
        <5> QED BY <5>1, <5>2, Limits
      <4> QED BY <4>1, <4>2
    <3> QED BY <1>6, <3>1, <3>3, <3>4, PlainTokens DEF Continues
  <2>3. Spoilt(st, pos + 1) BY <1>3, <2>1, <2>2 DEF Spoilt
  <2> QED BY <1>1, <1>10, <2>3, LexemeIsRefused
<1>11. \/ Char \in Digits /\ Len(buffer) + 1 <= MaxNumber /\ Shift("DIGIT", type)
       \/ Char \notin Letters \cup Digits /\ Accept(type)
       \/ Reject /\ Char \in AlphaNum /\ (Char \in Digits => Len(buffer) + 1 > MaxNumber)
  BY KindsApart DEF Digit, AlphaNum
<1> QED BY <1>8, <1>9, <1>10, <1>11

LEMMA AlphaReads ==
  ASSUME Inv, ~eof, NEW st \in 0 .. pos, GoodAt(text, st, tokens),
         Reading(SubSeq(text, st + 1, pos)), Alpha
  PROVE  TokensInv'
<1>1. TypeOK /\ In({"ALPHA"}) /\ state = "ALPHA" BY CharType DEF Alpha, Inv
<1>2. PICK s : s = SubSeq(text, st + 1, pos) OBVIOUS
<1>3. PICK w : w = SubSeq(text, st + 1, pos + 1) OBVIOUS
<1>4. /\ s # << >> /\ s[1] \in Letters /\ Elements(s) \subseteq AlphaNum
      /\ Len(s) <= MaxIdent /\ buffer = s
  BY <1>1, <1>2 DEF Reading
<1>5. /\ s \in Seq(Chars) /\ Len(s) = pos - st /\ Char \in Chars /\ w = Append(s, Char)
      /\ pos + 1 \in st + 1 .. Len(text) /\ pos \in Nat /\ Len(text) \in Nat
  BY <1>1, <1>2, <1>3, NextPart
<1>6. /\ w \in Seq(Chars) /\ Len(w) = Len(s) + 1 /\ w # << >> /\ w[1] = s[1]
      /\ Elements(w) \subseteq Elements(s) \cup {Char}
  <2>1. w \in Seq(Chars) /\ Len(w) = Len(s) + 1 /\ Len(s) \in Nat
        /\ Elements(w) \subseteq Elements(s) \cup {Char}
    BY <1>5, Extension
  <2>5. \A m \in 1 .. Len(s) : w[m] = s[m] BY <1>5, Extension
  <2>2. w # << >> BY <2>1, EmptySeq
  <2>3. Len(s) # 0 BY <1>4, <1>5, EmptySeq
  <2>4. 1 \in 1 .. Len(s) BY <2>1, <2>3
  <2> QED BY <2>1, <2>2, <2>4, <2>5
<1>7. CASE Char \in AlphaNum /\ IdentFits /\ Shift("ALPHA", type)
  <2>1. state' = "ALPHA" /\ buffer' = w
    BY <1>1, <1>4, <1>5, <1>7 DEF Shift, Forgets
  <2>2. Elements(w) \subseteq AlphaNum /\ Len(w) <= MaxIdent
    BY <1>4, <1>6, <1>7 DEF IdentFits
  <2>3. Reading(w)' BY <1>4, <1>6, <2>1, <2>2 DEF Reading
  <2> QED BY <1>1, <1>3, <1>7, <2>3, LexemeGoesOn
<1>8. CASE Char \notin AlphaNum /\ Accept(Word)
  <2>1. IsPiece(s) BY <1>4 DEF IsPiece
  <2>2. ~IsPiece(Append(s, Char)) BY <1>4, <1>5, <1>8, WordStops DEF AlphaNum
  <2>3. TokenOf(s) = IF s \notin DOMAIN Reserved
                     THEN << [type |-> "identsym", lexeme |-> s] >>
                     ELSE IF Reserved[s] = "nulsym" THEN << >>
                     ELSE << [type |-> Reserved[s], lexeme |-> << >>] >>
    <3>1. ~(Len(s) > MaxIdent) BY <1>4, <1>5, Limits
    <3> QED BY <1>4, <1>5, <3>1, PlainTokens
  <2>4. tokens \in Seq(Tok) BY DEF GoodAt
  <2>5. CASE s \notin DOMAIN Reserved
    <3>1. tokens' = Append(tokens, [type |-> "identsym", lexeme |-> s])
      BY <1>4, <1>8, <2>5 DEF Accept, Put, Printable, Word
    <3>2. TokenOf(s) = << [type |-> "identsym", lexeme |-> s] >> BY <2>3, <2>5
    <3> QED BY <1>1, <1>2, <1>4, <1>5, <1>8, <2>1, <2>2, <2>4, <3>1, <3>2, PutsToken,
               LexemeIsRead
  <2>6. CASE s \in DOMAIN Reserved /\ Reserved[s] = "nulsym"
    <3>1. tokens' = tokens BY <1>4, <1>8, <2>6 DEF Accept, Put, Word
    <3>2. TokenOf(s) = << >> BY <2>3, <2>6
    <3>3. tokens' = tokens \o TokenOf(s) BY <2>4, <3>1, <3>2, ConcatEmptySeq
    <3> QED BY <1>1, <1>2, <1>4, <1>8, <2>1, <2>2, <3>3, LexemeIsRead
  <2>7. CASE s \in DOMAIN Reserved /\ Reserved[s] # "nulsym"
    <3>1. Reserved[s] \notin Printable BY <2>7, AlphabetAssumption DEF Printable
    <3>2. tokens' = Append(tokens, [type |-> Reserved[s], lexeme |-> << >>])
      BY <1>4, <1>8, <2>7, <3>1 DEF Accept, Put, Word
    <3>3. TokenOf(s) = << [type |-> Reserved[s], lexeme |-> << >>] >> BY <2>3, <2>7
    <3> QED BY <1>1, <1>2, <1>4, <1>5, <1>8, <2>1, <2>2, <2>4, <3>2, <3>3, PutsToken,
               LexemeIsRead
  <2> QED BY <2>5, <2>6, <2>7
<1>9. CASE Char \in AlphaNum /\ ~IdentFits /\ Reject
  <2>1. IsPiece(w) BY <1>4, <1>6, <1>9 DEF IsPiece
  <2>2. ASSUME NEW j \in st + 1 .. Len(text), ~(j < pos + 1)
        PROVE  TokenOf(SubSeq(text, st + 1, j)) = Malformed
    <3>1. PICK u : u = SubSeq(text, st + 1, j) OBVIOUS
    <3>2. j \in pos + 1 .. Len(text) BY <1>5, <2>2
    <3>3. Continues(s, u)
      <4>1. SubSeq(text, st + 1, pos) # << >> BY <1>2, <1>4
      <4>2. Continues(SubSeq(text, st + 1, pos), SubSeq(text, st + 1, j))
        BY <1>1, <3>2, <4>1, PiecesContinue
      <4> QED BY <1>2, <3>1, <4>2
    <3>4. Len(u) > MaxIdent
      <4>1. Len(s) + 1 > MaxIdent BY <1>4, <1>5, <1>9, Limits DEF IdentFits
      <4>2. Len(u) \in Nat /\ Len(s) \in Nat /\ Len(u) >= Len(s) + 1
        BY <1>5, <3>3 DEF Continues
      <4> QED BY <4>1, <4>2, Limits
    <3> QED BY <1>4, <3>1, <3>3, <3>4, PlainTokens DEF Continues
  <2>3. Spoilt(st, pos + 1) BY <1>3, <2>1, <2>2 DEF Spoilt
  <2> QED BY <1>1, <1>9, <2>3, LexemeIsRefused
<1> QED BY <1>7, <1>8, <1>9 DEF Alpha, AlphaNum

-----------------------------------------------------------------------------
(* Operators and comments.                                                 *)

LEMMA PairNotEmpty == ASSUME NEW p \in Pairs PROVE p[1] # << >>
<1>1. Len(p[1]) \in 1 .. 2 BY PairLength
<1>2. Len(p[1]) # 0 BY <1>1
<1> QED BY <1>2, EmptySeq

\* The token of an operator, and that the automaton puts it: an operator is no
\* number, no identifier and not "null".
LEMMA OperatorPuts ==
  ASSUME NEW toks \in Seq(Tok), toks = tokens, NEW s \in Seq(Chars), s # << >>,
         <<s, type>> \in Pairs, Accept(type)
  PROVE  tokens' = tokens \o TokenOf(s)
<1>1. PICK p \in Pairs : p[1] = s /\ p[2] = type
  <2>1. <<s, type>>[1] = s /\ <<s, type>>[2] = type OBVIOUS
  <2> QED BY <2>1
<1>2. TokenOf(s) = << [type |-> type, lexeme |-> << >>] >> BY <1>1, OperatorToken
<1>3. type \notin Printable /\ type # "nulsym"
  <2>1. CASE \E c \in DOMAIN Single : p = << <<c>>, Single[c] >>
    <3>1. PICK c \in DOMAIN Single : type = Single[c] BY <1>1, <2>1
    <3>2. Single[c] \notin Printable /\ Single[c] # "nulsym" BY DEF Single, Printable
    <3> QED BY <3>1, <3>2
  <2>2. CASE p \in {<< <<"<", "=">>, "leqsym">>, << <<"<", ">">>, "neqsym">>,
                    << <<">", "=">>, "geqsym">>, << <<":", "=">>, "becomessym">>,
                    << <<"/">>, "slashsym">>, << <<"<">>, "lessym">>,
                    << <<">">>, "gtrsym">>}
    BY <1>1, <2>2 DEF Printable
  <2> QED BY <2>1, <2>2, PairForm
<1>4. tokens' = Append(tokens, [type |-> type, lexeme |-> << >>])
  BY <1>3 DEF Accept, Put
<1> QED BY <1>2, <1>4, PutsToken

\* An operator that Char does not lengthen.
LEMMA OperatorReads ==
  ASSUME TypeOK, ~eof, NEW states, In(states), NEW st \in 0 .. pos, GoodAt(text, st, tokens),
         NEW s, s = SubSeq(text, st + 1, pos), <<s, type>> \in Pairs,
         s = <<"<">> => Char \notin {"=", ">"}, s = <<">">> => Char # "=",
         s = <<"/">> => Char # "*",
         Accept(type)
  PROVE  TokensInv'
<1>1. PICK w : w = SubSeq(text, st + 1, pos + 1) OBVIOUS
<1>2. s \in Seq(Chars) /\ Char \in Chars BY <1>1, NextPart
<1>3. PICK p \in Pairs : p[1] = s
  <2>1. <<s, type>>[1] = s OBVIOUS
  <2> QED BY <2>1
<1>4. s # << >> BY <1>3, PairNotEmpty
<1>5. IsPiece(s) BY <1>3 DEF IsPiece
<1>6. PICK w2 : w2 = Append(s, Char) OBVIOUS
<1>7. ~IsPiece(w2) BY <1>2, <1>3, <1>6, OperatorStops
<1>8. tokens' = tokens \o TokenOf(s) BY <1>2, <1>4, OperatorPuts DEF GoodAt
<1> QED BY <1>4, <1>5, <1>6, <1>7, <1>8, LexemeIsRead

LEMMA OperatorStates ==
  ASSUME state \in {"SINGLE", "LEQ", "GEQ", "NEQ", "BECOMES", "DIV", "LESS", "LARE"},
         NEW s, Reading(s)
  PROVE  /\ <<s, type>> \in Pairs
         /\ state = "DIV" <=> s = <<"/">>
         /\ state = "LESS" <=> s = <<"<">>
         /\ state = "LARE" <=> s = <<">">>
  BY DEF Reading

LEMMA OperatorsRead ==
  ASSUME Inv, ~eof, NEW st \in 0 .. pos, GoodAt(text, st, tokens),
         Reading(SubSeq(text, st + 1, pos)),
         Operator \/ Less \/ Greater \/ Colon \/ Slash
  PROVE  TokensInv'
<1>1. PICK states : /\ In(states)
                    /\ \/ Operator /\ states = {"SINGLE", "LEQ", "GEQ", "NEQ", "BECOMES"}
                       \/ Less /\ states = {"LESS"}
                       \/ Greater /\ states = {"LARE"}
                       \/ Colon /\ states = {"COLON"}
                       \/ Slash /\ states = {"DIV"}
  BY DEF Operator, Less, Greater, Colon, Slash
<1>2. TypeOK /\ state \in states BY <1>1, CharType DEF Inv
<1>3. PICK s : s = SubSeq(text, st + 1, pos) OBVIOUS
<1>4. PICK w : w = SubSeq(text, st + 1, pos + 1) OBVIOUS
<1>5. /\ s \in Seq(Chars) /\ Char \in Chars /\ w = Append(s, Char)
      /\ Len(s) = pos - st /\ pos \in Nat /\ Len(text) \in Nat
      /\ pos + 1 \in st + 1 .. Len(text) /\ text \in Seq(Chars) /\ st \in 0 .. Len(text)
  BY <1>1, <1>2, <1>3, <1>4, NextPart
<1>16. Len(s) = pos - st /\ pos \in Nat /\ st \in Int /\ Len(text) \in Nat
  BY <1>5
<1>6. Reading(s) BY <1>3
<1>7. ASSUME NEW newState, NEW newType, Shift(newState, newType), Reading(w)'
      PROVE  TokensInv'
  BY <1>1, <1>2, <1>4, <1>7, LexemeGoesOn
<1>8. ASSUME NEW a \in Chars, s = <<a>> PROVE w = <<a, Char>>
  BY <1>5, <1>8, TwoElements
<1>9. {"<", ">", ":", "/"} \subseteq Chars BY DEF Chars, Openers
<1>10. ASSUME <<s, type>> \in Pairs, s = <<"<">> => Char \notin {"=", ">"},
              s = <<">">> => Char # "=", s = <<"/">> => Char # "*", Accept(type)
       PROVE  TokensInv'
  BY <1>1, <1>2, <1>3, <1>10, OperatorReads
<1>11. CASE Operator
  <2>1. state \in {"SINGLE", "LEQ", "GEQ", "NEQ", "BECOMES"} BY <1>11, CharType DEF Operator, Inv
  <2>2. <<s, type>> \in Pairs /\ s # <<"/">> /\ s # <<"<">> /\ s # <<">">>
    BY <1>6, <2>1, OperatorStates
  <2> QED BY <1>10, <1>11, <2>2 DEF Operator
<1>12. CASE Less
  <2>1. state = "LESS" BY <1>12, CharType DEF Less, Inv
  <2>2. <<s, type>> \in Pairs /\ s = <<"<">> BY <1>6, <2>1, OperatorStates
  <2>3. s # <<"/">> /\ s # <<">">> BY <2>2
  <2>4. w = <<"<", Char>> BY <1>8, <1>9, <2>2
  <2>5. CASE Char = "=" /\ Shift("LEQ", "leqsym")
    <3>1. state' = "LEQ" /\ type' = "leqsym" BY <2>5 DEF Shift
    <3>2. <<w, "leqsym">> \in Pairs BY <2>4, <2>5 DEF Pairs
    <3>3. w # <<"/">> /\ w # <<"<">> /\ w # <<">">> BY <2>4
    <3>4. Reading(w)' BY <3>1, <3>2, <3>3 DEF Reading
    <3> QED BY <1>7, <2>5, <3>4
  <2>6. CASE Char = ">" /\ Shift("NEQ", "neqsym")
    <3>1. state' = "NEQ" /\ type' = "neqsym" BY <2>6 DEF Shift
    <3>2. <<w, "neqsym">> \in Pairs BY <2>4, <2>6 DEF Pairs
    <3>3. w # <<"/">> /\ w # <<"<">> /\ w # <<">">> BY <2>4
    <3>4. Reading(w)' BY <3>1, <3>2, <3>3 DEF Reading
    <3> QED BY <1>7, <2>6, <3>4
  <2>7. CASE Char \notin {"=", ">"} /\ Accept(type) BY <1>10, <2>2, <2>3, <2>7
  <2> QED BY <1>12, <2>5, <2>6, <2>7 DEF Less
<1>13. CASE Greater
  <2>1. state = "LARE" BY <1>13, CharType DEF Greater, Inv
  <2>2. <<s, type>> \in Pairs /\ s = <<">">> BY <1>6, <2>1, OperatorStates
  <2>3. s # <<"/">> /\ s # <<"<">> BY <2>2
  <2>4. w = <<">", Char>> BY <1>8, <1>9, <2>2
  <2>5. CASE Char = "=" /\ Shift("GEQ", "geqsym")
    <3>1. state' = "GEQ" /\ type' = "geqsym" BY <2>5 DEF Shift
    <3>2. <<w, "geqsym">> \in Pairs BY <2>4, <2>5 DEF Pairs
    <3>3. w # <<"/">> /\ w # <<"<">> /\ w # <<">">> BY <2>4
    <3>4. Reading(w)' BY <3>1, <3>2, <3>3 DEF Reading
    <3> QED BY <1>7, <2>5, <3>4
  <2>6. CASE Char # "=" /\ Accept(type) BY <1>10, <2>2, <2>3, <2>6
  <2> QED BY <1>13, <2>5, <2>6 DEF Greater
<1>14. CASE Slash
  <2>1. state = "DIV" BY <1>14, CharType DEF Slash, Inv
  <2>2. <<s, type>> \in Pairs /\ s = <<"/">> BY <1>6, <2>1, OperatorStates
  <2>3. s # <<"<">> /\ s # <<">">> BY <2>2
  <2>4. w = <<"/", Char>> BY <1>8, <1>9, <2>2
  <2>5. CASE Char = "*" /\ Shift("LCOMM", type)
    <3>1. state' = "LCOMM" BY <2>5 DEF Shift
    <3>2. w \in Seq(Chars) BY <1>5, Extension
    <3>3. Len(w) = 2 /\ w[1] = "/" /\ w[2] = "*" BY <2>4, <2>5
    <3>4. OpensComment(w) /\ ~IsComment(w) BY <3>2, <3>3, Opening
    <3>5. Reading(w)' BY <3>1, <3>3, <3>4 DEF Reading
    <3> QED BY <1>7, <2>5, <3>5
  <2>6. CASE Char # "*" /\ Accept(type) BY <1>10, <2>2, <2>3, <2>6
  <2> QED BY <1>14, <2>5, <2>6 DEF Slash
<1>15. CASE Colon
  <2>1. state = "COLON" BY <1>15, CharType DEF Colon, Inv
  <2>2. s = <<":">> /\ type = "becomessym" BY <1>6, <2>1 DEF Reading
  <2>3. w = <<":", Char>> BY <1>8, <1>9, <2>2
  <2>4. CASE Char = "=" /\ Shift("BECOMES", type)
    <3>1. state' = "BECOMES" /\ type' = "becomessym" BY <2>2, <2>4 DEF Shift
    <3>2. <<w, "becomessym">> \in Pairs BY <2>3, <2>4 DEF Pairs
    <3>3. w # <<"/">> /\ w # <<"<">> /\ w # <<">">> BY <2>3
    <3>4. Reading(w)' BY <3>1, <3>2, <3>3 DEF Reading
    <3> QED BY <1>7, <2>4, <3>4
  <2>5. CASE Char # "=" /\ Reject
    <3>1. ASSUME NEW j \in st + 1 .. Len(text)
          PROVE  TokenOf(SubSeq(text, st + 1, j)) = Malformed
      <4>1. CASE j \in pos + 1 .. Len(text)
        <5>1. SubSeq(text, st + 1, pos) # << >>
          <6>1. s # << >> BY <2>2
          <6> QED BY <1>3, <6>1
        <5>2. PICK u : u = SubSeq(text, st + 1, j) OBVIOUS
        <5>3. Continues(s, u)
          <6>1. Continues(SubSeq(text, st + 1, pos), SubSeq(text, st + 1, j))
            BY <1>1, <1>2, <4>1, <5>1, PiecesContinue
          <6> QED BY <1>3, <5>2, <6>1
        <5>4. s[1] = ":" /\ Len(s) = 1 BY <2>2
        <5>5. u \in Seq(Chars) /\ u[1] = ":" /\ u[2] = Char
          BY <5>3, <5>4 DEF Continues
        <5> QED BY <2>5, <5>2, <5>5, Refused
      <4>2. CASE j \notin pos + 1 .. Len(text)
        <5>1. Len(s) = 1 BY <2>2
        <5>2. j = pos
          <6>1. pos - st = 1 BY <1>16, <5>1
          <6>2. st + 1 = pos BY <1>16, <6>1
          <6> QED BY <1>16, <4>2, <6>2
        <5>3. s[1] = ":" /\ ~(Len(s) >= 2) BY <2>2
        <5>4. TokenOf(s) = Malformed BY <1>5, <5>3, Refused
        <5> QED BY <1>3, <5>2, <5>4
      <4> QED BY <4>1, <4>2
    <3>2. Spoilt(st, pos + 1) BY <3>1 DEF Spoilt
    <3> QED BY <1>1, <1>2, <2>5, <3>2, LexemeIsRefused
  <2> QED BY <1>15, <2>4, <2>5 DEF Colon
<1> QED BY <1>11, <1>12, <1>13, <1>14, <1>15

LEMMA CommentNotEmpty == ASSUME NEW s \in Seq(Chars), IsComment(s) PROVE s # << >>
<1>1. Len(s) >= 4 BY Opening
<1>2. Len(s) # 0 BY <1>1
<1> QED BY <1>2, EmptySeq

LEMMA CommentsRead ==
  ASSUME Inv, ~eof, NEW st \in 0 .. pos, GoodAt(text, st, tokens),
         Reading(SubSeq(text, st + 1, pos)), Comment \/ Star \/ CommentEnd
  PROVE  TokensInv'
<1>1. PICK states : /\ In(states)
                    /\ \/ Comment /\ states = {"LCOMM"}
                       \/ Star /\ states = {"COMM"}
                       \/ CommentEnd /\ states = {"RCOMM"}
  BY DEF Comment, Star, CommentEnd
<1>2. TypeOK /\ state \in states BY <1>1, CharType DEF Inv
<1>3. PICK s : s = SubSeq(text, st + 1, pos) OBVIOUS
<1>4. PICK w : w = SubSeq(text, st + 1, pos + 1) OBVIOUS
<1>5. s \in Seq(Chars) /\ Char \in Chars /\ w = Append(s, Char)
  BY <1>1, <1>2, <1>3, <1>4, NextPart
<1>6. Reading(s) BY <1>3
<1>7. ASSUME NEW newState, NEW newType, Shift(newState, newType), Reading(w)'
      PROVE  TokensInv'
  BY <1>1, <1>2, <1>4, <1>7, LexemeGoesOn
<1>8. /\ w \in Seq(Chars) /\ Len(s) \in Nat /\ Len(w) = Len(s) + 1 /\ w[Len(w)] = Char
  <2>1. /\ w \in Seq(Chars) /\ Len(s) \in Nat /\ Len(w) = Len(s) + 1 /\ w[Len(s) + 1] = Char
    BY <1>5, Extension
  <2> QED BY <2>1
<1>9. ASSUME OpensComment(s), ~IsComment(s)
      PROVE  /\ OpensComment(w) /\ Len(w) >= 3 /\ w # << >>
             /\ IsComment(w) <=> Len(s) >= 3 /\ s[Len(s)] = "*" /\ Char = "/"
  <2>1. Len(s) >= 2 BY <1>5, <1>9, Opening
  <2>2. Len(w) >= 3 /\ Len(w) # 0 BY <1>8, <2>1
  <2>3. w # << >> BY <1>8, <2>2
  <2>4. OpensComment(w) /\ (IsComment(w) <=> Len(s) >= 3 /\ s[Len(s)] = "*" /\ Char = "/")
    BY <1>5, <1>9, CommentGrows
  <2> QED BY <2>2, <2>3, <2>4
<1>10. CASE Comment
  <2>1. state = "LCOMM" BY <1>10, CharType DEF Comment, Inv
  <2>2. OpensComment(s) /\ ~IsComment(s) /\ (Len(s) >= 3 => s[Len(s)] # "*")
    BY <1>6, <2>1 DEF Reading
  <2>3. OpensComment(w) /\ ~IsComment(w) /\ Len(w) >= 3 BY <1>9, <2>2
  <2>4. CASE Char = "*" /\ Shift("COMM", type)
    <3>1. state' = "COMM" BY <2>4 DEF Shift
    <3>2. w[Len(w)] = "*" BY <1>8, <2>4
    <3>3. Reading(w)' BY <2>3, <3>1, <3>2 DEF Reading
    <3> QED BY <1>7, <2>4, <3>3
  <2>5. CASE Char # "*" /\ Shift("LCOMM", type)
    <3>1. state' = "LCOMM" BY <2>5 DEF Shift
    <3>2. w[Len(w)] # "*" BY <1>8, <2>5
    <3>3. Reading(w)' BY <2>3, <3>1, <3>2 DEF Reading
    <3> QED BY <1>7, <2>5, <3>3
  <2> QED BY <1>10, <2>4, <2>5 DEF Comment
<1>11. CASE Star
  <2>1. state = "COMM" BY <1>11, CharType DEF Star, Inv
  <2>2. OpensComment(s) /\ ~IsComment(s) /\ Len(s) >= 3 /\ s[Len(s)] = "*"
    BY <1>6, <2>1 DEF Reading
  <2>3. OpensComment(w) /\ Len(w) >= 3 /\ (IsComment(w) <=> Char = "/") BY <1>9, <2>2
  <2>4. CASE Char = "*" /\ Shift("COMM", type)
    <3>1. state' = "COMM" BY <2>4 DEF Shift
    <3>2. w[Len(w)] = "*" /\ ~IsComment(w) BY <1>8, <2>3, <2>4
    <3>3. Reading(w)' BY <2>3, <3>1, <3>2 DEF Reading
    <3> QED BY <1>7, <2>4, <3>3
  <2>5. CASE Char = "/" /\ Shift("RCOMM", type)
    <3>1. state' = "RCOMM" BY <2>5 DEF Shift
    <3>2. IsComment(w) BY <2>3, <2>5
    <3>3. Reading(w)' BY <3>1, <3>2 DEF Reading
    <3> QED BY <1>7, <2>5, <3>3
  <2>6. CASE Char # "*" /\ Char # "/" /\ Shift("LCOMM", type)
    <3>1. state' = "LCOMM" BY <2>6 DEF Shift
    <3>2. w[Len(w)] # "*" /\ ~IsComment(w) BY <1>8, <2>3, <2>6
    <3>3. Reading(w)' BY <2>3, <3>1, <3>2 DEF Reading
    <3> QED BY <1>7, <2>6, <3>3
  <2> QED BY <1>11, <2>4, <2>5, <2>6 DEF Star, AfterStar
<1>12. CASE CommentEnd
  <2>1. state = "RCOMM" BY <1>12, CharType DEF CommentEnd, Inv
  <2>2. IsComment(s) BY <1>6, <2>1 DEF Reading
  <2>3. OpensComment(s) BY <2>2 DEF IsComment
  <2>4. IsPiece(s) BY <2>3 DEF IsPiece
  <2>5. PICK w2 : w2 = Append(s, Char) OBVIOUS
  <2>6. ~IsPiece(w2) BY <1>5, <2>2, <2>3, <2>5, CommentGrows
  <2>7. s # << >> BY <1>5, <2>2, CommentNotEmpty
  <2>8. TokenOf(s) = << [type |-> "commentsym", lexeme |-> << >>] >>
    BY <1>5, <2>2, CommentToken
  <2>9. tokens' = Append(tokens, [type |-> "commentsym", lexeme |-> << >>])
    BY <1>12 DEF CommentEnd, Accept, Put, Printable
  <2>10. tokens \in Seq(Tok) BY DEF GoodAt
  <2>11. tokens' = tokens \o TokenOf(s) BY <1>5, <2>7, <2>8, <2>9, <2>10, PutsToken
  <2>12. Accept("commentsym") BY <1>12 DEF CommentEnd
  <2> QED BY <1>1, <1>2, <1>3, <2>4, <2>5, <2>6, <2>7, <2>11, <2>12, LexemeIsRead
<1> QED BY <1>10, <1>11, <1>12

-----------------------------------------------------------------------------
(* The whole automaton.                                                    *)

\* What was read of a lexeme is a piece of text.
LEMMA ReadingIsPiece ==
  ASSUME Inv, running, NEW s \in Seq(Chars), s # << >>, Reading(s)
  PROVE  IsPiece(s)
<1>1. state \in States \ {"ACCEPT", "REJECT"} BY DEF Inv, TypeOK, BufferInv, Filled, States
<1>2. state # "START" BY DEF Reading
<1>3. CASE state = "DIGIT" BY <1>3 DEF Reading, IsPiece, AlphaNum
<1>4. CASE state = "ALPHA" BY <1>4 DEF Reading, IsPiece
<1>5. CASE state = "COLON"
  <2>1. s = <<":">> BY <1>5 DEF Reading
  <2>2. Len(s) = 1 BY <2>1
  <2> QED BY <2>2 DEF IsPiece
<1>6. CASE state \in {"LCOMM", "COMM", "RCOMM"}
  BY <1>6 DEF Reading, IsPiece, IsComment
<1>7. CASE state \in {"SINGLE", "LEQ", "GEQ", "NEQ", "BECOMES", "DIV", "LESS", "LARE"}
  <2>1. <<s, type>> \in Pairs BY <1>7, OperatorStates
  <2>2. <<s, type>>[1] = s OBVIOUS
  <2> QED BY <2>1, <2>2 DEF IsPiece
<1> QED BY <1>1, <1>2, <1>3, <1>4, <1>5, <1>6, <1>7 DEF States

LEMMA EndKeepsTokens == Inv /\ TokensInv /\ EndOfFile => TokensInv'
<1> SUFFICES ASSUME Inv, TokensInv, EndOfFile PROVE TokensInv' OBVIOUS
<1>1. /\ TypeOK /\ running /\ pos = Len(text) /\ eof' /\ ~running'
      /\ UNCHANGED <<text, pos, tokens>>
  BY DEF Inv, EndOfFile
<1>2. text \in Seq(Chars) /\ Len(text) \in Nat
  <2>1. text \in Seq(Chars) BY <1>1, ScannerAssumption DEF TypeOK
  <2> QED BY <2>1
<1>3. CASE BadAt(text, pos) BY <1>1, <1>3, BadStays
<1>4. CASE InLexeme
  <2>1. PICK st \in 0 .. pos : GoodAt(text, st, tokens) /\ Reading(SubSeq(text, st + 1, pos))
    BY <1>4 DEF InLexeme
  <2>2. PICK s : s = SubSeq(text, st + 1, pos) OBVIOUS
  <2>3. \/ tokens = TokensOf(text)
        \/ tokens = SubSeq(TokensOf(text), 1, Len(TokensOf(text)) - 1)
    <3>1. CASE st = Len(text)
      <4>1. Len(text) \in Len(text) .. Len(text) /\ Len(text) + 1 \in 1 .. Len(text) + 1 BY <1>2
      <4>2. Part(text, Len(text)) = text BY <1>2, SubSeqFull DEF Part
      <4>3. TokensFrom(text)[Len(text) + 1] = << >> BY <1>2, <4>1, FromUnfolds DEF Onward
      <4>4. TokensOf(text) = tokens \o << >>
        BY <2>1, <3>1, <4>1, <4>2, <4>3 DEF GoodAt, TokensOf
      <4> QED BY <2>1, <4>4, ConcatEmptySeq DEF GoodAt
    <3>2. CASE st # Len(text)
      <4>1. /\ st \in 0 .. Len(text) - 1 /\ st + 1 \in 1 .. Len(text)
            /\ Len(text) \in st + 1 .. Len(text)
        BY <1>1, <1>2, <3>2
      <4>2. s \in Seq(Chars) /\ Len(s) = Len(text) - (st + 1) + 1
        BY <1>1, <1>2, <2>2, <4>1, PartOfText
      <4>3. Len(s) >= 1
        <5>1. Len(text) - (st + 1) + 1 >= 1 BY <1>2, <4>1
        <5> QED BY <4>2, <5>1
      <4>4. s # << >> BY <4>2, <4>3, EmptySeq
      <4>5. IsPiece(s) BY <1>1, <2>1, <2>2, <4>2, <4>4, ReadingIsPiece
      <4> QED BY <1>1, <1>2, <2>1, <2>2, <4>1, <4>5, TextEnds
    <3> QED BY <3>1, <3>2
  <2>4. AtEnd' BY <1>1, <2>3 DEF AtEnd
  <2> QED BY <1>1, <2>4 DEF TokensInv
<1> QED BY <1>1, <1>3, <1>4 DEF TokensInv

LEMMA ResetKeepsTokens == Inv /\ TokensInv /\ Reset => TokensInv'
<1> SUFFICES ASSUME Inv, TokensInv, Reset PROVE TokensInv' OBVIOUS
<1>1. /\ TypeOK /\ ~running /\ ~eof /\ running' /\ ~eof' /\ state' = "START"
      /\ UNCHANGED <<text, pos, tokens>>
  BY DEF Inv, Reset
<1>2. CASE BadAt(text, pos) BY <1>1, <1>2, BadStays
<1>3. CASE GoodAt(text, pos, tokens)
  <2>1. pos \in Nat
    <3>1. text \in Seq(Chars) BY <1>1, ScannerAssumption DEF TypeOK
    <3> QED BY <1>1, <3>1 DEF TypeOK
  <2>2. SubSeq(text, pos + 1, pos) = << >> BY <2>1, SubSeqEmpty
  <2>3. SubSeq(text', pos' + 1, pos') = << >> BY <1>1, <2>2
  <2>4. Reading(SubSeq(text, pos + 1, pos))' BY <1>1, <2>3 DEF Reading
  <2>5. GoodAt(text, pos, tokens)' BY <1>1, <1>3
  <2>6. pos' \in 0 .. pos' BY <1>1, <2>1
  <2>7. InLexeme' BY <1>1, <2>4, <2>5, <2>6 DEF InLexeme
  <2> QED BY <2>7 DEF TokensInv
<1> QED BY <1>1, <1>2, <1>3 DEF TokensInv, InLexeme, AtEnd

\* Every step of the scanner keeps TokensInv.
LEMMA NextTokens == Inv /\ TokensInv /\ [Next]_vars => TokensInv'
<1> SUFFICES ASSUME Inv, TokensInv, [Next]_vars PROVE TokensInv' OBVIOUS
<1>1. CASE Reset BY <1>1, ResetKeepsTokens
<1>2. CASE EndOfFile BY <1>2, EndKeepsTokens
<1>3. CASE UNCHANGED vars
  <2>1. UNCHANGED <<text, pos, eof, state, running, type, buffer, tokens>> BY <1>3 DEF vars
  <2>2. CASE BadAt(text, pos) BY <2>1, <2>2, BadStays DEF Inv
  <2>3. CASE InLexeme
    <3>1. \A s : Reading(s)' <=> Reading(s) BY <2>1 DEF Reading
    <3>2. \A st : GoodAt(text, st, tokens)' <=> GoodAt(text, st, tokens) BY <2>1
    <3>3. InLexeme' BY <2>1, <2>3, <3>1, <3>2 DEF InLexeme
    <3> QED BY <3>3 DEF TokensInv
  <2>4. CASE ~running /\ ~eof /\ GoodAt(text, pos, tokens) BY <2>1, <2>4 DEF TokensInv
  <2>5. CASE ~running /\ AtEnd BY <2>1, <2>5 DEF TokensInv, AtEnd
  <2> QED BY <2>2, <2>3, <2>4, <2>5 DEF TokensInv
<1>4. CASE \/ Start \/ Digit \/ Alpha \/ Operator \/ Less \/ Greater \/ Colon \/ Slash
           \/ Comment \/ Star \/ CommentEnd
  <2>1. running /\ text' = text /\ (pos' = pos \/ pos' = pos + 1)
    BY <1>4 DEF Start, Digit, Alpha, Operator, Less, Greater, Colon, Slash, Comment, Star,
                CommentEnd, In, Shift, Accept, Reject, SkipBlank, Advance, Rewind
  <2>2. CASE BadAt(text, pos) BY <2>1, <2>2, BadStays DEF Inv
  <2>3. CASE InLexeme
    <3>1. ~eof BY <2>3 DEF InLexeme
    <3>2. PICK st \in 0 .. pos : GoodAt(text, st, tokens) /\ Reading(SubSeq(text, st + 1, pos))
      BY <2>3 DEF InLexeme
    <3>3. CASE Start BY <3>1, <3>2, <3>3, StartReads
    <3>4. CASE Digit BY <3>1, <3>2, <3>4, DigitReads
    <3>5. CASE Alpha BY <3>1, <3>2, <3>5, AlphaReads
    <3>6. CASE Operator \/ Less \/ Greater \/ Colon \/ Slash
      BY <3>1, <3>2, <3>6, OperatorsRead
    <3>7. CASE Comment \/ Star \/ CommentEnd BY <3>1, <3>2, <3>7, CommentsRead
    <3> QED BY <1>4, <3>3, <3>4, <3>5, <3>6, <3>7
  <2> QED BY <2>1, <2>2, <2>3 DEF TokensInv
<1> QED BY <1>1, <1>2, <1>3, <1>4 DEF Next

\* For every text, the token table holds between two lexemes exactly the
\* longest-match tokens of what was read, unless that is no well-formed text,
\* and at the end of the file lacks the last one at most (getNextLexeme,
\* transition, accept and reject).
THEOREM TokensAreRight == Spec => []TokensRight
<1>1. Inv => TypeOK BY DEF Inv
<1> QED BY <1>1, InitScanner, NextScanner, InitTokens, NextTokens, TokensFollow, PTL DEF Spec
=============================================================================
