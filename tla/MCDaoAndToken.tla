---------------------------- MODULE MCDaoAndToken ----------------------------
(* Small instances of the DAO and of the canonical token for TLC.          *)
EXTENDS DaoAndToken

MinusTwo == -2
SomeAmounts == {-1, 0, 1, 2}
=============================================================================
