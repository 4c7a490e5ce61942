------------------------------- MODULE MCScanner -------------------------------
(***************************************************************************)
(* Every text of up to MaxLength characters, and longer texts of the few   *)
(* characters that comments and words are made of.                         *)
(***************************************************************************)
EXTENDS Scanner, TLC

CONSTANTS MaxLength, MaxWordy

MCLetters == {"i", "f"}
MCDigits == {"1"}
MCBlanks == {" ", "\n"}
MCOthers == {"?"}
MCReserved == (<<"i", "f">> :> "ifsym") @@ (<<"f", "f">> :> "nulsym")

Strings(chars, n) == UNION {[1 .. k -> chars] : k \in 0 .. n}
MCTexts == Strings({"i", "f", "1", "?", " ", "\n", "*", "/", "<", ">", ":", "="}, MaxLength)
             \cup Strings({"i", "*", "/", "\n"}, MaxWordy)
=============================================================================
