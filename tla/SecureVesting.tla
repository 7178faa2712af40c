---------------------------- MODULE SecureVesting ----------------------------
(***************************************************************************)
(* Linear vesting with a cliff and revocation                              *)
(* (secure/secure_vesting/src/lib.rs).  One action is one invocation; a    *)
(* panic rolls it back, so it is a step that is not taken.                 *)
(***************************************************************************)
EXTENDS Accounts

CONSTANTS
    Totals,       \* totals an admin may grant: i128, also 0 or negative
    NoAddress, NoSchedule, NotRevoked,
    I128_MAX, U32_MAX

Ledgers == 0..U32_MAX

VestingSchedule ==
    [total : 1..I128_MAX, claimed : 0..I128_MAX, cliff_ledger : Ledgers,
     end_ledger : Ledgers, revoked_at : Ledgers \cup {NotRevoked}]

ASSUME VestingAssumption ==
    /\ I128_MAX \in Int /\ I128_MAX > 0
    /\ U32_MAX \in Nat /\ NotRevoked \notin Ledgers
    /\ Totals \subseteq Int /\ \A n \in Totals : n <= I128_MAX
    /\ NoSchedule \notin VestingSchedule

VARIABLES
    admin,            \* DataKey::Admin
    treasury,         \* DataKey::Treasury
    treasuryBalance,  \* DataKey::TreasuryBalance
    schedule,         \* DataKey::Schedule(beneficiary)
    sequence,         \* env.ledger().sequence()
    paid,             \* what claim has returned to each beneficiary
    returned,         \* beneficiaries revoked since the last initialize
    stranded          \* what had vested at a revocation and was not claimed

vars == <<admin, treasury, treasuryBalance, schedule, sequence, paid, returned, stranded>>

Init ==
    /\ admin = NoAddress
    /\ treasury = NoAddress
    /\ treasuryBalance = 0
    /\ schedule = [a \in Address |-> NoSchedule]
    /\ sequence = 0
    /\ paid = [a \in Address |-> 0]
    /\ returned = {}
    /\ stranded = [a \in Address |-> 0]

\* Open to everyone and at any time: nothing is tested before the writes.
initialize(auth, a, t) ==
    /\ auth = a
    /\ admin' = a
    /\ treasury' = t
    /\ treasuryBalance' = 0
    /\ returned' = {}
    /\ UNCHANGED <<schedule, sequence, paid, stranded>>

require_admin_auth(auth) == admin # NoAddress /\ auth = admin

create_schedule(auth, b, total, cliff, end) ==
    /\ require_admin_auth(auth)
    /\ total > 0
    /\ cliff < end
    /\ schedule[b] = NoSchedule
    /\ schedule' = [schedule EXCEPT ![b] =
           [total |-> total, claimed |-> 0, cliff_ledger |-> cliff,
            end_ledger |-> end, revoked_at |-> NotRevoked]]
    /\ UNCHANGED <<admin, treasury, treasuryBalance, sequence, paid, returned, stranded>>

\* Mutant: the clock of a revoked schedule runs on.
effective_now_running(s) == sequence

effective_now(s) ==
    IF s.revoked_at # NotRevoked /\ sequence > s.revoked_at THEN s.revoked_at ELSE sequence

\* total * elapsed is checked: vested_for_schedule panics when it overflows.
vesting_computable(s) ==
    \/ effective_now(s) < s.cliff_ledger
    \/ effective_now(s) >= s.end_ledger
    \/ s.total * (effective_now(s) - s.cliff_ledger) <= I128_MAX

\* Mutant: rounded up.
vested_for_schedule_ceil(s) ==
    LET duration == s.end_ledger - s.cliff_ledger
    IN  IF effective_now(s) < s.cliff_ledger THEN 0
        ELSE (s.total * (effective_now(s) - s.cliff_ledger) + duration) \div duration

vested_for_schedule(s) ==
    IF effective_now(s) < s.cliff_ledger THEN 0
    ELSE IF effective_now(s) >= s.end_ledger THEN s.total
    ELSE (s.total * (effective_now(s) - s.cliff_ledger)) \div (s.end_ledger - s.cliff_ledger)

\* Mutant: a beneficiary may claim once.
claim_once(b) ==
    LET s == schedule[b] IN
    /\ s # NoSchedule /\ s.revoked_at = NotRevoked
    /\ vesting_computable(s)
    /\ vested_for_schedule(s) > 0 /\ s.claimed = 0
    /\ schedule' = [schedule EXCEPT ![b].claimed = vested_for_schedule(s)]
    /\ paid' = [paid EXCEPT ![b] = @ + (vested_for_schedule(s) - s.claimed)]
    /\ UNCHANGED <<admin, treasury, treasuryBalance, sequence, returned, stranded>>

\* Mutant: earlier claims are not subtracted.
claim_gross(b) ==
    LET s == schedule[b] IN
    /\ s # NoSchedule /\ s.revoked_at = NotRevoked
    /\ vesting_computable(s)
    /\ vested_for_schedule(s) > s.claimed
    /\ schedule' = [schedule EXCEPT ![b].claimed = vested_for_schedule(s)]
    /\ paid' = [paid EXCEPT ![b] = @ + vested_for_schedule(s)]
    /\ UNCHANGED <<admin, treasury, treasuryBalance, sequence, returned, stranded>>

\* Needs the beneficiary's signature.
claim(b) ==
    LET s == schedule[b] IN
    /\ s # NoSchedule /\ s.revoked_at = NotRevoked
    /\ vesting_computable(s)
    /\ vested_for_schedule(s) > s.claimed
    /\ schedule' = [schedule EXCEPT ![b].claimed = vested_for_schedule(s)]
    /\ paid' = [paid EXCEPT ![b] = @ + (vested_for_schedule(s) - s.claimed)]
    /\ UNCHANGED <<admin, treasury, treasuryBalance, sequence, returned, stranded>>

revoke(auth, b) ==
    LET s == schedule[b] IN
    /\ require_admin_auth(auth)
    /\ s # NoSchedule /\ s.revoked_at = NotRevoked
    /\ vesting_computable(s)
    /\ treasuryBalance + (s.total - vested_for_schedule(s)) <= I128_MAX
    /\ treasuryBalance' = treasuryBalance + (s.total - vested_for_schedule(s))
    /\ schedule' = [schedule EXCEPT ![b].revoked_at = sequence]
    /\ returned' = returned \cup {b}
    /\ stranded' = [stranded EXCEPT ![b] = vested_for_schedule(s) - s.claimed]
    /\ UNCHANGED <<admin, treasury, sequence, paid>>

CloseLedger ==
    /\ sequence < U32_MAX
    /\ sequence' = sequence + 1
    /\ UNCHANGED <<admin, treasury, treasuryBalance, schedule, paid, returned, stranded>>

Invoke(auth) ==
    \/ \E a, t \in Address : initialize(auth, a, t)
    \/ \E b \in Address, n \in Totals, c, e \in Ledgers : create_schedule(auth, b, n, c, e)
    \/ \E b \in Address : revoke(auth, b)

Next ==
    \/ \E auth \in Address : Invoke(auth)
    \/ \E b \in Address : claim(b)
    \/ CloseLedger

Spec == Init /\ [][Next]_vars

\* Ledgers keep closing and beneficiaries keep claiming.
Fairness == WF_vars(CloseLedger) /\ \A b \in Address : WF_vars(claim(b))

-----------------------------------------------------------------------------
\* Every storage key holds a value of its Rust type, and a schedule never
\* pays more than its total.
TypeOK ==
    /\ admin \in Address \cup {NoAddress} /\ treasury \in Address \cup {NoAddress}
    /\ treasuryBalance \in 0..I128_MAX
    /\ schedule \in [Address -> VestingSchedule \cup {NoSchedule}]
    /\ sequence \in Ledgers
    /\ \A a \in Address : schedule[a] # NoSchedule => schedule[a].claimed <= schedule[a].total

\* A beneficiary has been paid what the schedule records as claimed, and
\* never more than is vested: not after a revocation either, and whatever
\* the rounding of the claims in between.
PaidIsVested ==
    \A b \in Address : schedule[b] # NoSchedule =>
        /\ paid[b] = schedule[b].claimed
        /\ vesting_computable(schedule[b]) => paid[b] <= vested_for_schedule(schedule[b])

\* A revoked grant is split for good: what the treasury got back for it and
\* what vested_amount reports for it ever after make up the total.
GivenBack ==
    [b \in Address |-> IF b \in returned
                       THEN schedule[b].total - vested_for_schedule(schedule[b]) ELSE 0]

RevokedIsSplit == SumFunction(GivenBack) = treasuryBalance

\* claim panics once a schedule is revoked, so what had vested by then and
\* was not claimed stays with nobody: it is neither paid later nor returned.
StrandedForGood ==
    \A b \in Address : (schedule[b] # NoSchedule /\ schedule[b].revoked_at # NotRevoked) =>
        vested_for_schedule(schedule[b]) = paid[b] + stranded[b]

\* Every grant is paid out as it vests; a revoked one is split in three: what
\* was paid, what the treasury got back, and what had vested and was left
\* unclaimed, which claim pays to nobody ever after ("schedule revoked").
PaidReturnedOrStranded == TypeOK /\ PaidIsVested /\ RevokedIsSplit /\ StrandedForGood

\* Every grant that is not revoked is paid in full in the end, although the
\* product in the middle of the schedule may overflow and panic.
PaidInFull ==
    \A b \in Address : schedule[b] # NoSchedule ~>
        /\ schedule[b] # NoSchedule
        /\ schedule[b].revoked_at # NotRevoked \/ paid[b] = schedule[b].total
=============================================================================
