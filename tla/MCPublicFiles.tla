-------------------------- MODULE MCPublicFiles ---------------------------
(* Instances of PublicFiles for TLC.                                         *)
EXTENDS PublicFiles, TLC

\* Workers are interchangeable.
Symmetry == Permutations(Workers)
============================================================================
