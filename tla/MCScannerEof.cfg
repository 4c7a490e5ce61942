SPECIFICATION Spec
CONSTANTS
  Letters <- MCLetters
  Digits <- MCDigits
  Blanks <- MCBlanks
  Others <- MCOthers
  Texts <- MCTexts
  Reserved <- MCReserved
  MaxIdent = 3
  MaxNumber = 2
  MaxBuffer = 5
  MaxLength = 2
  MaxWordy = 2
INVARIANT WholeFileScanned
CHECK_DEADLOCK FALSE
