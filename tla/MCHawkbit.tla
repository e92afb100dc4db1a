----------------------------- MODULE MCHawkbit -----------------------------
(* Small instances of Hawkbit for TLC.                                     *)
EXTENDS Hawkbit, TLC

\* The action ids are interchangeable: nothing orders or computes with them.
ActionSymmetry == Permutations(Actions)
=============================================================================
