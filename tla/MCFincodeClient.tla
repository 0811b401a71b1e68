-------------------------- MODULE MCFincodeClient --------------------------
(* The instance of FincodeClient that TLC checks.                           *)
EXTENDS FincodeClient, TLC

\* Calls differ by nothing but their name.
Symmetric == Permutations(Calls)
=============================================================================
