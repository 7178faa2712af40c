------------------------------ MODULE Contract ------------------------------
(***************************************************************************)
(* The setting of the fixture families (vulnerable/).  A behaviour         *)
(* deploys one contract: the fixture of a crate (its lib.rs) or the        *)
(* corrected mirror (its secure.rs).  Fixtures do not call each other, so  *)
(* one storage, one clock and one history serve all of them.               *)
(*                                                                         *)
(* One action is one invocation.  A panic, a failed assertion, a checked   *)
(* overflow or a missing signature rolls the invocation back, so it is a   *)
(* step that is not taken.  In the families, Crate_f_lib models f of       *)
(* lib.rs and Crate_f models f of secure.rs (or of the secure module);     *)
(* where both read the same, Crate_f models both.                          *)
(***************************************************************************)
EXTENDS Accounts, Sequences, SequencesExt

CONSTANTS
    None,         \* an absent storage entry
    LastLedger    \* bound on the ledgers of a behaviour

\* An absent entry is no number, no Boolean and no account, as an Option tells
\* it from them; ledgers are counted from zero.
ASSUME ContractAssumption ==
    /\ None \notin Int /\ None \notin BOOLEAN /\ None \notin Address
    /\ LastLedger \in Nat

VARIABLES
    crate,        \* the crate whose contract is deployed
    code,         \* "lib" or "secure"
    store,        \* its storage: one field per storage key
    past,         \* history: what an observer of the invocations knows
    now           \* env.ledger(): the sequence, or the timestamp

vars == <<crate, code, store, past, now>>

Lib == code = "lib"
Secure == code = "secure"

Write(s) == store' = s /\ UNCHANGED <<crate, code, past, now>>

WriteAnd(s, p) == store' = s /\ past' = p /\ UNCHANGED <<crate, code, now>>

Observe(p) == past' = p /\ UNCHANGED <<crate, code, store, now>>

CloseLedger ==
    /\ now < LastLedger
    /\ now' = now + 1
    /\ UNCHANGED <<crate, code, store, past>>

\* The observer's sums stay within Cap, which no correct contract reaches.
Cap == 9
Capped(n) == IF n > Cap THEN Cap ELSE IF n < -Cap THEN -Cap ELSE n

\* The token contract (external): moves an amount the sender holds, never a
\* negative one.
token_moves(held, amount) == 0 <= amount /\ amount <= held

\* Whole stands for the 10000 basis points of a rate.
Whole == 2

\* Arithmetic on u64 that stops at the ends of the type.
saturating_sub(a, b) == IF a > b THEN a - b ELSE 0
=============================================================================
