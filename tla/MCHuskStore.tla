---------------------------- MODULE MCHuskStore -----------------------------
(* Instances of HuskStore for TLC. *)
EXTENDS HuskStore, TLC

CONSTANTS k1, k2, v1, v2

\* Keys are told apart by equality only, and so are values.
KeySymmetry == Permutations(Keys) \cup Permutations(Values)

=============================================================================
