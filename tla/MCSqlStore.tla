----------------------------- MODULE MCSqlStore -----------------------------
(* Instances of SqlStore for TLC.                                            *)
EXTENDS SqlStore

\* Workers are interchangeable, and so are contents and keys.
Symmetry == Permutations(Workers) \cup Permutations(Texts) \cup Permutations(Keys)
============================================================================
