---------------------------- MODULE MCController ----------------------------
(* Instances of Controller for TLC.                                        *)
EXTENDS Controller, TLC

Symmetry == Permutations(Keys) \cup Permutations(Holders)
=============================================================================
