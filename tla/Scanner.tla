-------------------------------- MODULE Scanner --------------------------------
(***************************************************************************)
(* The scanner: scanner_run calls getNextLexeme until the end of the file, *)
(* and getNextLexeme runs the automaton of dfa.c from D_START until it     *)
(* accepts or rejects.  Accepting gives back the character that ended the  *)
(* lexeme; rejecting does not.                                             *)
(*                                                                         *)
(* A step reads one character.  A lexeme is the sequence of its            *)
(* characters; `buffer` is curLexeme.buffer up to indexBuffer.             *)
(***************************************************************************)
EXTENDS Integers, Sequences, FiniteSets

CONSTANTS Letters, Digits, Blanks, Others,  \* Others: no lexeme begins with these
          Texts,      \* the source files
          Reserved,   \* wsym, as a function of the words of resWord
          MaxIdent,   \* MAX_IDENT_LENGTH
          MaxNumber,  \* MAX_NUMBER_LENGTH
          MaxBuffer   \* MAX_BUFFER_SIZE

Newline == "\n"
Single == [c \in {"+", "-", "*", "=", "(", ")", ",", ";", "."} |->
             CASE c = "+" -> "plussym"   [] c = "-" -> "minussym"
               [] c = "*" -> "multsym"   [] c = "=" -> "eqlsym"
               [] c = "(" -> "lparentsym" [] c = ")" -> "rparentsym"
               [] c = "," -> "commasym"  [] c = ";" -> "semicolonsym"
               [] c = "." -> "periodsym"]
Openers == {"/", "<", ">", ":"}
Chars == Letters \cup Digits \cup Blanks \cup Others \cup DOMAIN Single \cup Openers

ASSUME ScannerAssumption ==
  /\ Texts \subseteq Seq(Chars)
  /\ MaxIdent \in Nat /\ MaxBuffer \in Nat /\ MaxNumber \in 1 .. MaxIdent
  /\ MaxIdent >= 3 /\ MaxBuffer = MaxIdent + 2

\* A character is of one kind only, and a reserved word is a token without a
\* text of its own.
ASSUME AlphabetAssumption ==
  /\ Letters \cap Digits = {} /\ (Letters \cup Digits) \cap Blanks = {}
  /\ (Letters \cup Digits \cup Blanks) \cap Others = {}
  /\ (Letters \cup Digits \cup Blanks \cup Others) \cap (DOMAIN Single \cup Openers) = {}
  /\ \A w \in DOMAIN Reserved : Reserved[w] \notin {"identsym", "numbersym", "malformed"}

VARIABLES text,       \* the file
          pos,        \* how many characters of it are read
          eof,        \* feof
          state,      \* DFAState
          running,    \* in the loop of getNextLexeme
          type, buffer,
          line, column, lastLineLength,
          tokens      \* tokenTable

vars == <<text, pos, eof, state, running, type, buffer, line, column,
          lastLineLength, tokens>>

Init == /\ text \in Texts /\ pos = 0 /\ eof = FALSE
        /\ state = "START" /\ running = FALSE /\ type = "nulsym" /\ buffer = << >>
        /\ line = 1 /\ column = 1 /\ lastLineLength = 0
        /\ tokens = << >>

\* resetMachine, at the start of getNextLexeme.
Reset == /\ ~running /\ ~eof
         /\ running' = TRUE /\ state' = "START" /\ type' = "nulsym" /\ buffer' = << >>
         /\ UNCHANGED <<text, pos, eof, line, column, lastLineLength, tokens>>

\* The next character is the end of the file: getNextLexeme gives up what it
\* has read of a lexeme.
EndOfFile == /\ running /\ pos = Len(text)
             /\ eof' = TRUE /\ running' = FALSE
             /\ UNCHANGED <<text, pos, state, type, buffer, line, column,
                            lastLineLength, tokens>>

-----------------------------------------------------------------------------
(* Reading a character, and giving it back.                                *)

Char == text[pos + 1]
In(states) == running /\ pos < Len(text) /\ state \in states

\* getNextChar and the count of lines and columns.
Advance ==
  /\ pos' = pos + 1
  /\ IF Char = Newline
     THEN line' = line + 1 /\ column' = 1 /\ lastLineLength' = column + 1
     ELSE column' = column + 1 /\ UNCHANGED <<line, lastLineLength>>

\* Mutant of Rewind: the newline given back is not given back to its line.
RewindInLine ==
  /\ pos' = pos
  /\ IF Char = Newline
     THEN column' = 0 /\ lastLineLength' = column + 1 /\ line' = line + 1
     ELSE UNCHANGED <<line, column, lastLineLength>>

\* The character is read and given back: when it is a newline, the column
\* becomes lastLineLength, which counts the newline.
Rewind ==
  /\ pos' = pos
  /\ IF Char = Newline
     THEN column' = column + 1 /\ lastLineLength' = column + 1
     ELSE UNCHANGED <<column, lastLineLength>>
  /\ line' = line

\* Inside a comment the buffer starts again with every character, except the
\* star that may end the comment.
Forgets(newState) == state = "COMM" \/ (state = "LCOMM" /\ newState = "LCOMM")

\* The lexeme goes on.
Shift(newState, newType) ==
  /\ Advance
  /\ state' = newState /\ type' = newType
  /\ buffer' = IF Forgets(newState) THEN << >> ELSE Append(buffer, Char)
  /\ UNCHANGED <<text, eof, running, tokens>>

Printable == {"identsym", "numbersym"}

\* putLexeme; the text of a lexeme goes with identifiers and numbers only.
Put(newType) ==
  tokens' = IF newType = "nulsym" THEN tokens
            ELSE Append(tokens, [type |-> newType,
                                 lexeme |-> IF newType \in Printable THEN buffer ELSE << >>])

\* accept: the character before which the lexeme ends is given back.
Accept(newType) ==
  /\ Rewind
  /\ state' = "ACCEPT" /\ running' = FALSE /\ type' = newType
  /\ buffer' = buffer
  /\ Put(newType)
  /\ UNCHANGED <<text, eof>>

\* reject: the character is gone, with what was read before.
Reject == /\ Advance
          /\ state' = "REJECT" /\ running' = FALSE /\ type' = "nulsym"
          /\ buffer' = Append(buffer, Char)
          /\ UNCHANGED <<text, eof, tokens>>

-----------------------------------------------------------------------------
(* transition: one action per state, or per states alike.                  *)

\* Mutant of SkipBlank: accept() as for any other lexeme, which gives the
\* blank back.
RewindBlank == Accept("nulsym")

\* A blank is accepted and not given back.
SkipBlank == /\ Advance
             /\ state' = "ACCEPT" /\ running' = FALSE /\ type' = "nulsym"
             /\ buffer' = Append(buffer, Char)
             /\ UNCHANGED <<text, eof, tokens>>

Start ==
  /\ In({"START"})
  /\ \/ Char \in Blanks /\ SkipBlank
     \/ Char \in Digits /\ Shift("DIGIT", "numbersym")
     \/ Char \in Letters /\ Shift("ALPHA", "identsym")
     \/ Char \in DOMAIN Single /\ Shift("SINGLE", Single[Char])
     \/ Char = "/" /\ Shift("DIV", "slashsym")
     \/ Char = "<" /\ Shift("LESS", "lessym")
     \/ Char = ">" /\ Shift("LARE", "gtrsym")
     \/ Char = ":" /\ Shift("COLON", "becomessym")
     \/ Char \in Others /\ Reject

Digit ==
  /\ In({"DIGIT"})
  /\ \/ Char \in Digits /\ Len(buffer) + 1 <= MaxNumber /\ Shift("DIGIT", type)
     \/ Char \in Digits /\ Len(buffer) + 1 > MaxNumber /\ Reject
     \/ Char \in Letters /\ Reject
     \/ Char \notin Letters \cup Digits /\ Accept(type)

\* Mutant of IdentFits: one character too many.
IdentFitsBuffer == Len(buffer) + 1 < MaxBuffer

IdentFits == Len(buffer) + 1 <= MaxIdent

\* updateReservedWords; "null" is one of them, and is dropped.
Word == IF buffer \in DOMAIN Reserved THEN Reserved[buffer] ELSE "identsym"

Alpha ==
  /\ In({"ALPHA"})
  /\ \/ Char \in Letters \cup Digits /\ IdentFits /\ Shift("ALPHA", type)
     \/ Char \in Letters \cup Digits /\ ~IdentFits /\ Reject
     \/ Char \notin Letters \cup Digits /\ Accept(Word)

\* The operators of one character, and those whose second one is read.
Operator == In({"SINGLE", "LEQ", "GEQ", "NEQ", "BECOMES"}) /\ Accept(type)

Less == /\ In({"LESS"})
        /\ \/ Char = "=" /\ Shift("LEQ", "leqsym")
           \/ Char = ">" /\ Shift("NEQ", "neqsym")
           \/ Char \notin {"=", ">"} /\ Accept(type)

Greater == /\ In({"LARE"})
           /\ \/ Char = "=" /\ Shift("GEQ", "geqsym")
              \/ Char # "=" /\ Accept(type)

Colon == /\ In({"COLON"})
         /\ \/ Char = "=" /\ Shift("BECOMES", type)
            \/ Char # "=" /\ Reject

Slash == /\ In({"DIV"})
         /\ \/ Char = "*" /\ Shift("LCOMM", type)
            \/ Char # "*" /\ Accept(type)

Comment == /\ In({"LCOMM"})
           /\ Shift(IF Char = "*" THEN "COMM" ELSE "LCOMM", type)

\* Mutant of AfterStar: a second star ends the hope for the end of the comment.
AfterOneStar(c) == IF c = "/" THEN "RCOMM" ELSE "LCOMM"

AfterStar(c) == CASE c = "*" -> "COMM" [] c = "/" -> "RCOMM" [] OTHER -> "LCOMM"

Star == In({"COMM"}) /\ Shift(AfterStar(Char), type)

CommentEnd == In({"RCOMM"}) /\ Accept("commentsym")

Next == \/ Reset \/ EndOfFile \/ Start \/ Digit \/ Alpha \/ Operator \/ Less
        \/ Greater \/ Colon \/ Slash \/ Comment \/ Star \/ CommentEnd

\* scanner_run loops until feof.
Spec == Init /\ [][Next]_vars /\ WF_vars(Next)

-----------------------------------------------------------------------------
(* What the tokens of a text are: each is the longest piece of text, from  *)
(* where the one before it ends, that has the form of a lexeme.            *)

AlphaNum == Letters \cup Digits
Elements(s) == {s[i] : i \in 1 .. Len(s)}

\* A comment or the beginning of one.
OpensComment(s) == /\ Len(s) >= 2 /\ SubSeq(s, 1, 2) = <<"/", "*">>
                   /\ \A i \in 3 .. Len(s) - 2 : SubSeq(s, i, i + 1) # <<"*", "/">>
IsComment(s) == /\ OpensComment(s) /\ Len(s) >= 4
                /\ SubSeq(s, Len(s) - 1, Len(s)) = <<"*", "/">>

Pairs == {<< <<"<", "=">>, "leqsym">>, << <<"<", ">">>, "neqsym">>,
          << <<">", "=">>, "geqsym">>, << <<":", "=">>, "becomessym">>,
          << <<"/">>, "slashsym">>, << <<"<">>, "lessym">>, << <<">">>, "gtrsym">>}
          \cup {<< <<c>>, Single[c] >> : c \in DOMAIN Single}

\* The token a piece of text stands for, as a sequence: none for a blank, and
\* Malformed for what is no lexeme.
Malformed == << [type |-> "malformed", lexeme |-> << >>] >>
TokenOf(s) ==
  CASE s[1] \in Blanks -> << >>
    [] s[1] \in Digits -> IF Elements(s) \subseteq Digits /\ Len(s) <= MaxNumber
                          THEN << [type |-> "numbersym", lexeme |-> s] >> ELSE Malformed
    [] s[1] \in Letters -> IF Len(s) > MaxIdent THEN Malformed
                           ELSE IF s \notin DOMAIN Reserved
                           THEN << [type |-> "identsym", lexeme |-> s] >>
                           ELSE IF Reserved[s] = "nulsym" THEN << >>
                           ELSE << [type |-> Reserved[s], lexeme |-> << >>] >>
    [] IsComment(s) -> << [type |-> "commentsym", lexeme |-> << >>] >>
    [] OTHER -> IF \E p \in Pairs : p[1] = s
                THEN << [type |-> (CHOOSE p \in Pairs : p[1] = s)[2], lexeme |-> << >>] >>
                ELSE Malformed

IsPiece(s) == \/ Len(s) = 1
              \/ Elements(s) \subseteq AlphaNum
              \/ OpensComment(s)
              \/ \E p \in Pairs : p[1] = s

\* Where the longest piece that begins at i ends, and the tokens of t from
\* each of its positions on.
PieceEnd(t, i) == CHOOSE j \in i .. Len(t) :
                    /\ IsPiece(SubSeq(t, i, j))
                    /\ \A k \in j + 1 .. Len(t) : ~IsPiece(SubSeq(t, i, k))
TokensFrom(t) ==
  LET from[i \in 1 .. Len(t) + 1] ==
        IF i = Len(t) + 1 THEN << >>
        ELSE TokenOf(SubSeq(t, i, PieceEnd(t, i))) \o from[PieceEnd(t, i) + 1]
  IN  from
TokensOf(t) == TokensFrom(t)[1]

IsWellFormed(ts) == Malformed[1] \notin Elements(ts)

Scanned == SubSeq(text, 1, pos)

-----------------------------------------------------------------------------
(* Properties.                                                             *)

States == {"START", "DIGIT", "ALPHA", "SINGLE", "DIV", "LCOMM", "COMM", "RCOMM",
           "LESS", "LARE", "LEQ", "GEQ", "NEQ", "COLON", "BECOMES", "ACCEPT", "REJECT"}

\* Lines and columns count from 1, also after a newline is given back
\* (getNextLexeme), and the scanner never reads past the end of the file.
TypeOK == /\ text \in Texts /\ pos \in 0 .. Len(text)
          /\ eof \in BOOLEAN /\ running \in BOOLEAN
          /\ state \in States
          /\ buffer \in Seq(Chars)
          /\ line \in Nat \ {0} /\ column \in Nat \ {0}
          /\ lastLineLength \in Nat

\* getNextLexeme stores a character and the NUL after it before transition
\* sees the character, so the room must be there in every state in which it
\* goes on: no lexeme, and no comment however long, overruns curLexeme.buffer.
BufferFits == /\ Len(buffer) + 1 <= MaxBuffer
              /\ running => Len(buffer) + 2 <= MaxBuffer

LastLine == {i \in 1 .. pos : \A j \in i .. pos : text[j] # Newline}
NextIsNewline == pos < Len(text) /\ text[pos + 1] = Newline

\* The line and the column that error messages quote are those of the next
\* character, whatever was given back across the end of a line; only before a
\* newline that was given back is the column one too high.
LocationRight ==
  /\ line = 1 + Cardinality({i \in 1 .. pos : text[i] = Newline})
  /\ \/ column = 1 + Cardinality(LastLine)
     \/ NextIsNewline /\ column = 2 + Cardinality(LastLine)

\* Between two lexemes of a well-formed text the token table holds exactly
\* the longest-match tokens of what was read, and at the end of the file at
\* most the last one is missing: giving back the character that ended a lexeme
\* loses none and repeats none, and a comment ends at the first star and slash
\* whatever stars it holds.
TokensRight ==
  ~running => LET expected == TokensOf(Scanned)
              IN  IsWellFormed(expected) =>
                    \/ tokens = expected
                    \/ eof /\ tokens = SubSeq(expected, 1, Len(expected) - 1)

\* Every file is read to its end, although the scanner gives characters back.
Terminates == <>eof

\* dfa_run is said to "run DFA until to the end of file": the tokens of a
\* well-formed file are those of all of it.  getNextLexeme drops the lexeme the
\* file ends with when no character follows it.
WholeFileScanned ==
  eof /\ IsWellFormed(TokensOf(text)) => tokens = TokensOf(text)
=============================================================================
