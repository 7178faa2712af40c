---------------------------- MODULE SequenceLock ----------------------------
(***************************************************************************)
(* A vault locked until a ledger sequence                                  *)
(* (secure/sequence_lock/src/lib.rs).  One action is one invocation; a     *)
(* panic rolls it back, so it is a step that is not taken.                 *)
(***************************************************************************)
EXTENDS Integers

CONSTANTS
    Address,
    Amounts,      \* amounts a user may pass: i128 of either sign
    NoUnlock,
    I128_MIN, I128_MAX, U32_MAX

VARIABLES
    balance,      \* DataKey::Balance(user)
    unlock,       \* DataKey::UnlockSequence(user)
    sequence      \* env.ledger().sequence()

vars == <<balance, unlock, sequence>>

Init ==
    /\ balance = [u \in Address |-> 0]
    /\ unlock = [u \in Address |-> NoUnlock]
    /\ sequence = 0

\* Needs the user's signature and nothing else: the lock of an earlier deposit
\* is overwritten, by an earlier sequence too, and a negative amount lowers
\* the balance whatever the lock.  The lock does not bind its owner.
deposit(u, amount, unlock_sequence) ==
    /\ balance[u] + amount \in I128_MIN..I128_MAX
    /\ balance' = [balance EXCEPT ![u] = @ + amount]
    /\ unlock' = [unlock EXCEPT ![u] = unlock_sequence]
    /\ UNCHANGED sequence

\* Mutant: strictly after the unlock sequence.
withdraw_after(u) ==
    /\ unlock[u] # NoUnlock
    /\ sequence > unlock[u]
    /\ balance' = [balance EXCEPT ![u] = 0]
    /\ unlock' = [unlock EXCEPT ![u] = NoUnlock]
    /\ UNCHANGED sequence

\* Mutant: the balance is released and not reset.
withdraw_twice(u) ==
    /\ unlock[u] # NoUnlock
    /\ sequence >= unlock[u]
    /\ unlock' = [unlock EXCEPT ![u] = NoUnlock]
    /\ UNCHANGED <<balance, sequence>>

\* Needs the user's signature.
withdraw(u) ==
    /\ unlock[u] # NoUnlock
    /\ sequence >= unlock[u]
    /\ balance' = [balance EXCEPT ![u] = 0]
    /\ unlock' = [unlock EXCEPT ![u] = NoUnlock]
    /\ UNCHANGED sequence

CloseLedger ==
    /\ sequence < U32_MAX
    /\ sequence' = sequence + 1
    /\ UNCHANGED <<balance, unlock>>

Next ==
    \/ \E u \in Address, n \in Amounts, s \in 0..U32_MAX : deposit(u, n, s)
    \/ \E u \in Address : withdraw(u)
    \/ CloseLedger

Spec == Init /\ [][Next]_vars

\* Ledgers keep closing and a user goes on asking for the funds.
Fairness == WF_vars(CloseLedger) /\ \A u \in Address : WF_vars(withdraw(u))

-----------------------------------------------------------------------------
\* The two keys of an account go together: whatever was deposited, of either
\* sign, and however often the lock was overwritten, a balance that is not 0
\* has an unlock sequence.  Without one withdraw panics for ever; a balance
\* that outlives its lock would be released twice.
LockedOrEmpty == \A u \in Address : balance[u] # 0 => unlock[u] \in 0..U32_MAX

\* No funds are stranded: whatever was deposited, re-deposited and unlocked
\* at the very end of the sequence range, the balance can be taken out.
FundsReachable == \A u \in Address : balance[u] # 0 ~> balance[u] = 0
=============================================================================
