------------------------------- MODULE MCCodeGen -------------------------------
(***************************************************************************)
(* Code generation for small programs.                                     *)
(***************************************************************************)
EXTENDS CodeGen
=============================================================================
