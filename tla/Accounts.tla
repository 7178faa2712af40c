------------------------------ MODULE Accounts ------------------------------
(***************************************************************************)
(* The accounts, and the arithmetic the contracts do on what they hold.    *)
(* A contract often keeps a sum over the accounts in one storage entry (a  *)
(* supply, a tally, a treasury) and changes it by the amount by which it   *)
(* changes one summand: SumFunction is what that entry should be.          *)
(***************************************************************************)
EXTENDS Integers, FiniteSets, Functions

CONSTANT Address    \* the accounts

\* A ledger knows finitely many accounts, and at least one.
ASSUME AccountsAssumption == IsFiniteSet(Address) /\ Address # {}

\* A function on the accounts, zero everywhere.
Zero == [a \in Address |-> 0]

\* One account stands for all where the entries of an account depend on no
\* other account's.
Solo == {CHOOSE a \in Address : TRUE}

\* Rust divides towards zero; \div rounds down.
Quotient(a, b) ==
    LET q == (IF a < 0 THEN -a ELSE a) \div (IF b < 0 THEN -b ELSE b)
    IN  IF (a < 0) = (b < 0) THEN q ELSE -q
=============================================================================
