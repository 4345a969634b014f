-------------------------- MODULE MCObjectService --------------------------
(* Instances of ObjectService for TLC.  The id "n" is short, the ids that    *)
(* object.create picks for the texts are long.                               *)
EXTENDS ObjectService, TLC

MCKeyHash == [n \in Names |-> IF n = "n" THEN "hn" ELSE "hh"]
MCContentId == [t \in Inputs |-> IF t[CHOOSE r \in Regions : TRUE] = "a" THEN "ca" ELSE "cb"]
\* Workers are interchangeable.
Symmetry == Permutations(Workers)

MCValues == StoredObjects
============================================================================
