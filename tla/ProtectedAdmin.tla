--------------------------- MODULE ProtectedAdmin ---------------------------
(***************************************************************************)
(* Admin rotation, upgrade and self-owned profiles                         *)
(* (secure/protected_admin/src/lib.rs).  One action is one invocation;     *)
(* a panic rolls it back, so it is a step that is not taken.               *)
(***************************************************************************)
EXTENDS Integers

CONSTANTS
    Address,
    Profiles,              \* Profile values an account may store
    WasmHashes,            \* code an admin may install
    NoAddress, NoProfile, FirstWasm,
    PROPOSAL_TTL_LEDGERS,
    U32_MAX                \* largest ledger sequence

VARIABLES
    admin,          \* DataKey::Admin
    pendingAdmin,   \* DataKey::PendingAdmin
    pendingExpiry,  \* DataKey::PendingExpiry, 0 when absent
    profile,        \* DataKey::Profile(account)
    wasm,           \* the code of the contract
    sequence,       \* env.ledger().sequence()
    signer,         \* who authorised the last invocation
    proposedAt      \* history: ledger of the latest propose_admin

pendingVars == <<pendingAdmin, pendingExpiry, proposedAt>>
vars == <<admin, pendingVars, profile, wasm, sequence, signer>>

Init ==
    /\ admin = NoAddress
    /\ pendingAdmin = NoAddress
    /\ pendingExpiry = 0
    /\ profile = [a \in Address |-> NoProfile]
    /\ wasm = FirstWasm
    /\ sequence = 0
    /\ signer = NoAddress
    /\ proposedAt = 0

\* current_admin.require_auth(), in propose_admin, set_admin and upgrade.
require_admin(auth) == admin # NoAddress /\ auth = admin

initialize(auth, a) ==
    /\ admin = NoAddress
    /\ admin' = a
    /\ signer' = auth
    /\ UNCHANGED <<pendingVars, profile, wasm, sequence>>

\* Mutant: the expiry of an overwritten proposal is kept.
propose_admin_keep_expiry(auth, a) ==
    /\ require_admin(auth)
    /\ sequence + PROPOSAL_TTL_LEDGERS <= U32_MAX
    /\ pendingAdmin' = a
    /\ pendingExpiry' = IF pendingAdmin = NoAddress
                        THEN sequence + PROPOSAL_TTL_LEDGERS ELSE pendingExpiry
    /\ proposedAt' = sequence
    /\ signer' = auth
    /\ UNCHANGED <<admin, profile, wasm, sequence>>

\* sequence + PROPOSAL_TTL_LEDGERS is checked arithmetic.
propose_admin(auth, a) ==
    /\ require_admin(auth)
    /\ sequence + PROPOSAL_TTL_LEDGERS <= U32_MAX
    /\ pendingAdmin' = a
    /\ pendingExpiry' = sequence + PROPOSAL_TTL_LEDGERS
    /\ proposedAt' = sequence
    /\ signer' = auth
    /\ UNCHANGED <<admin, profile, wasm, sequence>>

\* Mutant: no lifetime check.
accept_admin_any_time(auth) ==
    /\ pendingAdmin # NoAddress
    /\ auth = pendingAdmin
    /\ admin' = pendingAdmin
    /\ pendingAdmin' = NoAddress
    /\ pendingExpiry' = 0
    /\ signer' = auth
    /\ UNCHANGED <<profile, wasm, sequence, proposedAt>>

accept_admin(auth) ==
    /\ pendingAdmin # NoAddress
    /\ sequence <= pendingExpiry
    /\ auth = pendingAdmin
    /\ admin' = pendingAdmin
    /\ pendingAdmin' = NoAddress
    /\ pendingExpiry' = 0
    /\ signer' = auth
    /\ UNCHANGED <<profile, wasm, sequence, proposedAt>>

\* Leaves a pending proposal as it is.
set_admin(auth, a) ==
    /\ require_admin(auth)
    /\ admin' = a
    /\ signer' = auth
    /\ UNCHANGED <<pendingVars, profile, wasm, sequence>>

upgrade(auth, hash) ==
    /\ require_admin(auth)
    /\ wasm' = hash
    /\ signer' = auth
    /\ UNCHANGED <<admin, pendingVars, profile, sequence>>

\* Mutant: anyone may write any profile.
set_profile_unsigned(auth, a, p) ==
    /\ profile' = [profile EXCEPT ![a] = p]
    /\ signer' = auth
    /\ UNCHANGED <<admin, pendingVars, wasm, sequence>>

set_profile(auth, a, p) ==
    /\ auth = a
    /\ profile' = [profile EXCEPT ![a] = p]
    /\ signer' = auth
    /\ UNCHANGED <<admin, pendingVars, wasm, sequence>>

delete_profile(auth, a) ==
    /\ auth = a
    /\ profile' = [profile EXCEPT ![a] = NoProfile]
    /\ signer' = auth
    /\ UNCHANGED <<admin, pendingVars, wasm, sequence>>

CloseLedger ==
    /\ sequence < U32_MAX
    /\ sequence' = sequence + 1
    /\ UNCHANGED <<admin, pendingVars, profile, wasm, signer>>

Invoke(auth) ==
    \/ \E a \in Address : initialize(auth, a)
    \/ \E a \in Address : propose_admin(auth, a)
    \/ accept_admin(auth)
    \/ \E a \in Address : set_admin(auth, a)
    \/ \E h \in WasmHashes : upgrade(auth, h)
    \/ \E a \in Address, p \in Profiles : set_profile(auth, a, p)
    \/ \E a \in Address : delete_profile(auth, a)

Next == (\E auth \in Address : Invoke(auth)) \/ CloseLedger

Spec == Init /\ [][Next]_vars

-----------------------------------------------------------------------------
\* Every storage key holds a value of its Rust type; a pending proposal and
\* its expiry are stored and removed together.
TypeOK ==
    /\ admin \in Address \cup {NoAddress}
    /\ pendingAdmin \in Address \cup {NoAddress}
    /\ pendingExpiry \in 0..U32_MAX
    /\ profile \in [Address -> Profiles \cup {NoProfile}]
    /\ wasm \in WasmHashes \cup {FirstWasm}
    /\ sequence \in 0..U32_MAX
    /\ signer \in Address \cup {NoAddress}
    /\ proposedAt \in 0..U32_MAX
    /\ pendingAdmin # NoAddress => pendingExpiry = proposedAt + PROPOSAL_TTL_LEDGERS

\* Admin power moves only by a signature that may move it: of the admin in
\* office, or of the address the stored proposal names, within
\* PROPOSAL_TTL_LEDGERS ledgers of the latest propose_admin, which that
\* one acceptance uses up; there is never again no admin.
AdminHandover ==
    [][(admin # NoAddress /\ admin' # admin) =>
        /\ admin' # NoAddress
        /\ \/ signer' = admin
           \/ /\ signer' = pendingAdmin /\ admin' = pendingAdmin
              /\ sequence <= proposedAt + PROPOSAL_TTL_LEDGERS
              /\ pendingAdmin' = NoAddress]_vars

\* The code changes only by the admin's signature, a profile only by its
\* owner's.
OwnersOnly ==
    [][/\ wasm' # wasm => admin # NoAddress /\ signer' = admin
       /\ \A a \in Address : profile'[a] # profile[a] => signer' = a]_vars

\* The admin, the code and the profiles change by the right signature only.
SignedChanges == AdminHandover /\ OwnersOnly
=============================================================================
