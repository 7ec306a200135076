---------------------------- MODULE MCExecution ----------------------------
(* Requests are alike, and so are signers.                                   *)
EXTENDS Execution, TLC
Symmetry == Permutations(Tx) \cup Permutations(Signer)
=============================================================================
