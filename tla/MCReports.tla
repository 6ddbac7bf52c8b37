----------------------------- MODULE MCReports -----------------------------
(* Instances of Reports for TLC.                                           *)
EXTENDS Reports

\* Every user lives in the one city.
OneCity == [u \in Users |-> "bari"]

\* Users with an even id live in the other city.
TwoCities == [u \in Users |-> IF u % 2 = 0 THEN "lecce" ELSE "bari"]
=============================================================================
