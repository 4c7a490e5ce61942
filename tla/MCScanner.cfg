SPECIFICATION Spec
CONSTANTS
  Letters <- MCLetters
  Digits <- MCDigits
  Blanks <- MCBlanks
  Others <- MCOthers
  Texts <- MCTexts
  Reserved <- MCReserved
  MaxIdent = 3
  MaxNumber = 2
  MaxBuffer = 5
  MaxLength = 3
  MaxWordy = 6
INVARIANTS TypeOK BufferFits LocationRight TokensRight
PROPERTY Terminates
CHECK_DEADLOCK FALSE
