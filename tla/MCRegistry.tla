----------------------------- MODULE MCRegistry -----------------------------
(* Small instances of Registry for TLC.                                    *)
EXTENDS Registry

CONSTANTS c1, c2

TwoKeys == <<c2, c1>>

OneMap == {[l \in {"critical"} |-> 1]}

MinusTwo == -2

\* Accounts are interchangeable: nothing but their roles tells them apart.
AccountSymmetry == Permutations(Address)
=============================================================================
