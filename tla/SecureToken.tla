----------------------------- MODULE SecureToken -----------------------------
(***************************************************************************)
(* The canonical token (secure/secure_token/src/lib.rs): admin mint, burn  *)
(* and transfer by the holder, total supply kept beside the balances.      *)
(* One action is one invocation; a panic rolls it back, so it is a step    *)
(* that is not taken.                                                      *)
(***************************************************************************)
EXTENDS Accounts

CONSTANTS
    Amounts,         \* amounts callers pass: any i128, also 0 and negative
    NoAddress, NoEvent,
    I128_MIN, I128_MAX   \* DaoAndToken assumes of all these what SecureDao does

VARIABLES
    admin,        \* DataKey::Admin
    balance,      \* DataKey::Balance(account)
    totalSupply,  \* DataKey::TotalSupply
    signer,       \* who authorised the last invocation
    event,        \* what the last invocation published
    replayed      \* balances as a reader of the events computes them

vars == <<admin, balance, totalSupply, signer, event, replayed>>

Init ==
    /\ admin = NoAddress
    /\ balance = [a \in Address |-> 0]
    /\ totalSupply = 0
    /\ signer = NoAddress
    /\ event = NoEvent
    /\ replayed = [a \in Address |-> 0]

fits_i128(n) == n >= I128_MIN /\ n <= I128_MAX

\* An indexer applies the event of every invocation to its own balances.
Replay(old, e) ==
    CASE e.kind = "mint" -> [old EXCEPT ![e.to] = @ + e.amount]
      [] e.kind = "burn" -> [old EXCEPT ![e.from] = @ - e.amount]
      [] e.kind = "transfer" -> LET paid == [old EXCEPT ![e.from] = @ - e.amount]
                                IN  [paid EXCEPT ![e.to] = @ + e.amount]

publish(e) == event' = e /\ replayed' = Replay(replayed, e)

initialize(auth, a) ==
    /\ admin = NoAddress
    /\ admin' = a
    /\ signer' = auth
    /\ event' = NoEvent
    /\ UNCHANGED <<balance, totalSupply, replayed>>

\* Mutant: anyone may mint.
mint_unprotected(auth, to, amount) ==
    /\ amount > 0
    /\ admin # NoAddress
    /\ fits_i128(balance[to] + amount)
    /\ fits_i128(totalSupply + amount)
    /\ balance' = [balance EXCEPT ![to] = balance[to] + amount]
    /\ totalSupply' = totalSupply + amount
    /\ signer' = auth
    /\ publish([kind |-> "mint", to |-> to, amount |-> amount])
    /\ UNCHANGED admin

mint(auth, to, amount) ==
    /\ amount > 0
    /\ admin # NoAddress /\ auth = admin
    /\ fits_i128(balance[to] + amount)
    /\ fits_i128(totalSupply + amount)
    /\ balance' = [balance EXCEPT ![to] = balance[to] + amount]
    /\ totalSupply' = totalSupply + amount
    /\ signer' = auth
    /\ publish([kind |-> "mint", to |-> to, amount |-> amount])
    /\ UNCHANGED admin

\* Mutant: checked_sub alone, which an i128 survives below zero.
burn_below_zero(auth, from, amount) ==
    /\ amount > 0
    /\ auth = from
    /\ fits_i128(balance[from] - amount)
    /\ fits_i128(totalSupply - amount)
    /\ balance' = [balance EXCEPT ![from] = balance[from] - amount]
    /\ totalSupply' = totalSupply - amount
    /\ signer' = auth
    /\ publish([kind |-> "burn", from |-> from, amount |-> amount])
    /\ UNCHANGED admin

\* Mutant: no event.
burn_silent(auth, from, amount) ==
    /\ amount > 0
    /\ auth = from
    /\ fits_i128(balance[from] - amount)
    /\ balance[from] - amount >= 0
    /\ fits_i128(totalSupply - amount)
    /\ balance' = [balance EXCEPT ![from] = balance[from] - amount]
    /\ totalSupply' = totalSupply - amount
    /\ signer' = auth
    /\ UNCHANGED <<admin, event, replayed>>

burn(auth, from, amount) ==
    /\ amount > 0
    /\ auth = from
    /\ fits_i128(balance[from] - amount)
    /\ balance[from] - amount >= 0
    /\ fits_i128(totalSupply - amount)
    /\ balance' = [balance EXCEPT ![from] = balance[from] - amount]
    /\ totalSupply' = totalSupply - amount
    /\ signer' = auth
    /\ publish([kind |-> "burn", from |-> from, amount |-> amount])
    /\ UNCHANGED admin

\* Mutant: from = to is let through; both balances were read before either
\* is written, so the second write wins.
transfer_to_self(auth, from, to, amount) ==
    /\ amount > 0
    /\ auth = from
    /\ fits_i128(balance[from] - amount)
    /\ balance[from] - amount >= 0
    /\ fits_i128(balance[to] + amount)
    /\ balance' = [balance EXCEPT ![from] = balance[from] - amount,
                                  ![to] = balance[to] + amount]
    /\ signer' = auth
    /\ publish([kind |-> "transfer", from |-> from, to |-> to, amount |-> amount])
    /\ UNCHANGED <<admin, totalSupply>>

transfer(auth, from, to, amount) ==
    /\ amount > 0
    /\ from # to
    /\ auth = from
    /\ fits_i128(balance[from] - amount)
    /\ balance[from] - amount >= 0
    /\ fits_i128(balance[to] + amount)
    /\ balance' = [balance EXCEPT ![from] = balance[from] - amount,
                                  ![to] = balance[to] + amount]
    /\ signer' = auth
    /\ publish([kind |-> "transfer", from |-> from, to |-> to, amount |-> amount])
    /\ UNCHANGED <<admin, totalSupply>>

Invoke(auth) ==
    \/ \E a \in Address : initialize(auth, a)
    \/ \E a \in Address, n \in Amounts : mint(auth, a, n)
    \/ \E a \in Address, n \in Amounts : burn(auth, a, n)
    \/ \E a, b \in Address, n \in Amounts : transfer(auth, a, b, n)

Next == \E auth \in Address : Invoke(auth)

Spec == Init /\ [][Next]_vars

-----------------------------------------------------------------------------
\* Every storage key holds a value of its Rust type, and no account is ever
\* overdrawn although i128 would allow it.
TypeOK ==
    /\ admin \in Address \cup {NoAddress}
    /\ balance \in [Address -> 0..I128_MAX]
    /\ totalSupply \in 0..I128_MAX
    /\ signer \in Address \cup {NoAddress}
    /\ replayed \in [Address -> Int]

\* "Total supply tracked on mint/burn": the supply is the sum of all
\* balances.
SupplyIsSumOfBalances == SumFunction(balance) = totalSupply

\* "Events emitted on every state change": a reader that replays the events
\* has every balance right.
EventsTellTheBalances == replayed = balance

\* Nobody's tokens move without the holder's signature, and nothing is
\* created without the admin's.
Consent ==
    [][/\ \A a \in Address : balance'[a] < balance[a] => signer' = a
       /\ totalSupply' > totalSupply => admin # NoAddress /\ signer' = admin]_vars

\* secure/secure_token/src/lib.rs:4 says that mint and burn are both gated
\* by admin.require_auth().
BurnIsAdminGated ==
    [][totalSupply' < totalSupply => signer' = admin]_vars
=============================================================================
