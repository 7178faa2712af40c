----------------------------- MODULE TimeLocked -----------------------------
(***************************************************************************)
(* The contracts whose behaviour depends on the ledger sequence: the       *)
(* vesting contract, the locked vault and the delayed price.  They do not  *)
(* call each other: a behaviour deploys one of them, and the variables of  *)
(* the others keep their initial values.                                   *)
(***************************************************************************)
EXTENDS SecureVesting

CONSTANTS Amounts, Prices, NoUnlock, Panic, MIN_DELAY, I128_MIN

ASSUME LockAssumption ==
    /\ NoUnlock \notin 0..U32_MAX
    /\ I128_MIN \in Int /\ Amounts \subseteq Int

ASSUME OracleAssumption == MIN_DELAY \in Nat \ {0}

VARIABLES deployed, balance, unlock, price, updatedAt, signer

Lock == INSTANCE SequenceLock
Oracle == INSTANCE ProtectedOracle

timeLockedVars == <<deployed, vars, Lock!vars, Oracle!vars>>

TimeLockedInit ==
    /\ deployed \in {"vesting", "lock", "oracle"}
    /\ Init /\ Lock!Init /\ Oracle!Init

VestingNext ==
    /\ deployed = "vesting"
    /\ Next
    /\ UNCHANGED <<deployed, balance, unlock, price, updatedAt, signer>>

LockNext ==
    /\ deployed = "lock"
    /\ Lock!Next
    /\ UNCHANGED <<deployed, admin, treasury, treasuryBalance, schedule, paid, returned, stranded,
                   price, updatedAt, signer>>

OracleNext ==
    /\ deployed = "oracle"
    /\ Oracle!Next
    /\ UNCHANGED <<deployed, treasury, treasuryBalance, schedule, paid, returned, stranded,
                   balance, unlock>>

\* A contract that is not deployed answers nobody: its fairness is void.
TimeLockedSpec ==
    /\ TimeLockedInit
    /\ [][VestingNext \/ LockNext \/ OracleNext]_timeLockedVars
    /\ deployed = "vesting" => Fairness
    /\ deployed = "lock" => Lock!Fairness

\* The properties of the vault and of the price, see their modules.
LockedOrEmpty == Lock!LockedOrEmpty
FundsReachable == Lock!FundsReachable
ReadsAgreeWithinLedger == Oracle!ReadsAgreeWithinLedger
=============================================================================
