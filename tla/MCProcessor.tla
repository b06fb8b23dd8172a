---------------------------- MODULE MCProcessor ----------------------------
(* Model values for TLC.  App objects, run ids and keys are told apart by  *)
(* nothing but identity, so permuting them is a symmetry; it is used for   *)
(* the runs that check safety only.                                        *)
EXTENDS Processor, TLC

Symmetry == Permutations(Keys) \cup Permutations(Apps) \cup Permutations(Runs)
=============================================================================
