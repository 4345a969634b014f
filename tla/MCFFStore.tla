----------------------------- MODULE MCFFStore -----------------------------
(* Instances of FFStore for TLC.  The name "n" is short: its directory is    *)
(* the digest "hn".  The name "hn" is long and used as it is, so the two     *)
(* meet in one directory.                                                    *)
EXTENDS FFStore

MCKeyHash == [n \in Names |-> IF n = "n" THEN "hn" ELSE "hhn"]
============================================================================
