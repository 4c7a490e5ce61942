------------------------------ MODULE MCDeclarations ------------------------------
(***************************************************************************)
(* Declarations for four identifiers, two of which hash to one bucket.     *)
(***************************************************************************)
EXTENDS Declarations, TLC

CONSTANTS w, x, y, z

MCHash == (w :> 0) @@ (x :> 1) @@ (y :> 2) @@ (z :> 2)

\* Every identifier has a bucket of its own.
ApartHash == (w :> 0) @@ (x :> 1) @@ (y :> 2) @@ (z :> 3)

\* y and z hash alike, and identifiers are only compared.
Collide == Permutations({y, z})
=============================================================================
