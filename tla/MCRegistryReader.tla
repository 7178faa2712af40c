-------------------------- MODULE MCRegistryReader --------------------------
(* Small instances of RegistryReader for TLC.                              *)
EXTENDS RegistryReader

CONSTANTS c1, c2, c3

ThreeKeys == <<c2, c3, c1>>
\* A report with critical findings only, and one with high findings only.
TwoMaps == {[l \in {"critical"} |-> 1], [l \in {"high"} |-> 1]}
MinusOne == -1
=============================================================================
