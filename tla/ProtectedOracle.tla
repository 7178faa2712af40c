--------------------------- MODULE ProtectedOracle ---------------------------
(***************************************************************************)
(* A price that is readable MIN_DELAY ledgers after its update             *)
(* (secure/protected_oracle/src/lib.rs).  One action is one invocation; a  *)
(* panic rolls it back, so it is a step that is not taken.                 *)
(***************************************************************************)
EXTENDS Integers

CONSTANTS
    Address,
    Prices,       \* prices an admin may set; 0 is what an absent price reads
    NoAddress, Panic,
    MIN_DELAY, U32_MAX

VARIABLES
    admin,        \* DataKey::Admin
    price,        \* DataKey::Price, absent read as 0
    updatedAt,    \* DataKey::UpdatedAt, absent read as 0
    sequence,     \* env.ledger().sequence()
    signer        \* who authorised the last invocation

vars == <<admin, price, updatedAt, sequence, signer>>

Init ==
    /\ admin = NoAddress
    /\ price = 0
    /\ updatedAt = 0
    /\ sequence = 0
    /\ signer = NoAddress

initialize(auth, a) ==
    /\ admin = NoAddress
    /\ admin' = a
    /\ signer' = auth
    /\ UNCHANGED <<price, updatedAt, sequence>>

\* Mutant: the time of an update is stored once.
set_price_first_time(caller, p) ==
    /\ admin # NoAddress /\ caller = admin
    /\ price' = p
    /\ updatedAt' = IF updatedAt = 0 THEN sequence ELSE updatedAt
    /\ signer' = caller
    /\ UNCHANGED <<admin, sequence>>

set_price(caller, p) ==
    /\ admin # NoAddress /\ caller = admin
    /\ price' = p
    /\ updatedAt' = sequence
    /\ signer' = caller
    /\ UNCHANGED <<admin, sequence>>

\* updated_at + MIN_DELAY is checked arithmetic.
get_price ==
    IF updatedAt + MIN_DELAY > U32_MAX \/ sequence < updatedAt + MIN_DELAY THEN Panic ELSE price

CloseLedger ==
    /\ sequence < U32_MAX
    /\ sequence' = sequence + 1
    /\ UNCHANGED <<admin, price, updatedAt, signer>>

Next ==
    \/ \E auth \in Address : \E a \in Address : initialize(auth, a)
    \/ \E a \in Address, p \in Prices : set_price(a, p)
    \/ CloseLedger

Spec == Init /\ [][Next]_vars

-----------------------------------------------------------------------------
\* No price can be moved under a reader: two successful reads that no ledger
\* separates agree, whatever the admin did in between.
ReadsAgreeWithinLedger ==
    [][(get_price # Panic /\ get_price' # Panic /\ sequence' = sequence) => get_price' = get_price]_vars
=============================================================================
