------------------------------ MODULE Rewards -------------------------------
(***************************************************************************)
(* Vesting schedules and staking rewards: what an account may take depends *)
(* on the ledgers that have passed.  past.paid adds up what claim paid or  *)
(* returned to each account.                                               *)
(***************************************************************************)
EXTENDS Contract

Totals == {-1, 3}
Ledgers == 0..2

\* Nothing before the cliff, everything from the end on, linear in between.
Linear(s, at) ==
    IF at < s.cliff THEN 0
    ELSE IF at >= s.end THEN s.total
    ELSE Quotient(s.total * (at - s.cliff), s.end - s.cliff)

Credit(u, n) == [past EXCEPT !.paid[u] = Capped(@ + n)]

NoSchedules == [u \in Address |-> None]

\* An absent schedule is none of the three kinds of schedule.
ASSUME ScheduleAssumption ==
    /\ None \notin [total : Totals, claimed : Nat, cliff : Nat, end : Nat, revoked_at : Nat \cup {None}]
    /\ None \notin [total : Totals, claimed : Nat, cliff : Nat, end : Nat]
    /\ None \notin [total : Totals, claimed : Nat, start : Int, cliff : Nat, end : Nat]

-----------------------------------------------------------------------------
(* revoked_vesting_claim                                                   *)
Revoked_Init ==
    /\ crate = "revoked_vesting_claim"
    /\ store = [admin |-> None, schedule |-> NoSchedules]
    /\ past = [paid |-> Zero]

\* Vesting stops at the ledger of the revocation.
Revoked_vested_for_schedule(s) ==
    Linear(s, IF s.revoked_at # None /\ now > s.revoked_at THEN s.revoked_at ELSE now)

Revoked_initialize(admin) == Write([store EXCEPT !.admin = admin])

Revoked_create_schedule(u, total, cliff, end) ==
    /\ store.admin # None
    /\ store.schedule[u] = None
    /\ Write([store EXCEPT !.schedule[u] =
                [total |-> total, claimed |-> 0, cliff |-> cliff, end |-> end, revoked_at |-> None]])

\* revoked and revoked_at are written together: one field stands for both.
Revoked_revoke(u) ==
    /\ store.admin # None
    /\ store.schedule[u] # None
    /\ store.schedule[u].revoked_at = None
    /\ Write([store EXCEPT !.schedule[u].revoked_at = now])

\* Returns the unclaimed part and records nothing.
Revoked_claim_lib(u) ==
    /\ store.schedule[u] # None
    /\ LET s == store.schedule[u]
           vested == Revoked_vested_for_schedule(s)
       IN  Observe(Credit(u, saturating_sub(vested, s.claimed)))

Revoked_claim(u) ==
    /\ store.schedule[u] # None
    /\ store.schedule[u].revoked_at = None
    /\ LET s == store.schedule[u]
           vested == Revoked_vested_for_schedule(s)
       IN  /\ vested > s.claimed
           /\ WriteAnd([store EXCEPT !.schedule[u].claimed = vested], Credit(u, vested - s.claimed))

Revoked_Next ==
    /\ crate = "revoked_vesting_claim"
    /\ \E u \in Solo, n \in Totals, c \in Ledgers, e \in Ledgers :
        \/ Lib /\ (Revoked_initialize(u) \/ Revoked_create_schedule(u, n, c, e)
                   \/ Revoked_revoke(u) \/ Revoked_claim_lib(u))
        \/ Secure /\ (Revoked_initialize(u) \/ Revoked_create_schedule(u, n, c, e)
                      \/ Revoked_revoke(u) \/ Revoked_claim(u))
        \/ CloseLedger

\* What was paid is recorded, and never more than was vested when vesting
\* stopped: a revocation freezes both sides.
Revoked_PaidIsVested ==
    \A u \in Address : store.schedule[u] # None =>
        LET s == store.schedule[u]
        IN  /\ past.paid[u] = s.claimed
            /\ past.paid[u] <= Max({0, Revoked_vested_for_schedule(s)})

-----------------------------------------------------------------------------
(* vesting_claimed_not_subtracted                                          *)
Subtract_Init ==
    /\ crate = "vesting_claimed_not_subtracted"
    /\ store = [admin |-> None, schedule |-> NoSchedules]
    /\ past = [paid |-> Zero]

Subtract_vested_for_schedule(s) == Linear(s, now)

Subtract_initialize(admin) == Write([store EXCEPT !.admin = admin])

Subtract_create_schedule(u, total, cliff, end) ==
    /\ store.admin # None
    /\ store.schedule[u] = None
    /\ Write([store EXCEPT !.schedule[u] =
                [total |-> total, claimed |-> 0, cliff |-> cliff, end |-> end]])

Subtract_claim_lib(u) ==
    /\ store.schedule[u] # None
    /\ Observe(Credit(u, Subtract_vested_for_schedule(store.schedule[u])))

Subtract_claim(u) ==
    /\ store.schedule[u] # None
    /\ LET s == store.schedule[u]
           vested == Subtract_vested_for_schedule(s)
       IN  /\ vested > s.claimed
           /\ WriteAnd([store EXCEPT !.schedule[u].claimed = vested], Credit(u, vested - s.claimed))

Subtract_claimed_amount(u) == store.schedule[u].claimed

Subtract_Next ==
    /\ crate = "vesting_claimed_not_subtracted"
    /\ \E u \in Solo, n \in Totals, c \in Ledgers, e \in Ledgers :
        \/ Lib /\ (Subtract_initialize(u) \/ Subtract_create_schedule(u, n, c, e)
                   \/ Subtract_claim_lib(u))
        \/ Secure /\ (Subtract_initialize(u) \/ Subtract_create_schedule(u, n, c, e)
                      \/ Subtract_claim(u))
        \/ CloseLedger

\* The claims of an account add up to what it can read as claimed, and to no
\* more than its grant.
Subtract_PaidIsClaimed ==
    \A u \in Address : store.schedule[u] # None =>
        /\ past.paid[u] = Subtract_claimed_amount(u)
        /\ past.paid[u] <= Max({0, store.schedule[u].total})

-----------------------------------------------------------------------------
(* vesting_cliff_after_end.  Anyone may register a schedule.               *)
Cliff_Init ==
    /\ crate = "vesting_cliff_after_end"
    /\ store = [schedule |-> NoSchedules]
    /\ past = [paid |-> Zero]

Cliff_initialize_lib(u, total, start, cliff, end) ==
    Write([store EXCEPT !.schedule[u] =
              [total |-> total, claimed |-> 0, start |-> start, cliff |-> cliff, end |-> end]])

Cliff_initialize(u, total, start, cliff, end) ==
    /\ total > 0
    /\ start <= cliff /\ cliff <= end /\ start < end
    /\ store.schedule[u] = None
    /\ Cliff_initialize_lib(u, total, start, cliff, end)

Cliff_vested_for_schedule_lib(s) == Linear(s, now)

Cliff_vested_for_schedule(s) == Linear(s, now)

Cliff_claim(u) ==
    /\ store.schedule[u] # None
    /\ LET s == store.schedule[u]
           vested == Cliff_vested_for_schedule_lib(s)
       IN  /\ vested > s.claimed
           /\ WriteAnd([store EXCEPT !.schedule[u].claimed = vested], Credit(u, vested - s.claimed))

Cliff_vested_amount(u) == Cliff_vested_for_schedule(store.schedule[u])

Cliff_Next ==
    /\ crate = "vesting_cliff_after_end"
    /\ \E u \in Solo, n \in Totals, s \in 0..1, c \in Ledgers, e \in Ledgers :
        \/ Lib /\ (Cliff_initialize_lib(u, n, s, c, e) \/ Cliff_claim(u))
        \/ Secure /\ (Cliff_initialize(u, n, s, c, e) \/ Cliff_claim(u))
        \/ CloseLedger

\* A registered schedule is paid once, and has vested completely at its end.
Cliff_CompleteAtEnd ==
    \A u \in Address : store.schedule[u] # None =>
        /\ past.paid[u] = store.schedule[u].claimed
        /\ now >= store.schedule[u].end => Cliff_vested_amount(u) = store.schedule[u].total

-----------------------------------------------------------------------------
(* underfunded_reward_pool.  REWARD_RATE and the stakes are small; a       *)
(* product that leaves u64 counts as no reward, and none does here.        *)
(* past.forfeited is what stakers gave up by staking again.                *)
REWARD_RATE == 1

Pool_Init ==
    /\ crate = "underfunded_reward_pool"
    /\ store = [stake |-> Zero, last |-> Zero, pool |-> 0]
    /\ past = [paid |-> Zero, funded |-> 0, forfeited |-> Zero]

Pool_calculate_reward(u) == store.stake[u] * REWARD_RATE * (now - store.last[u])

\* Open to everyone, at any time.  Mirror and fixture are the same here.
Pool_initialize(balance) ==
    WriteAnd([store EXCEPT !.pool = balance], [past EXCEPT !.paid = Zero, !.funded = balance])

\* Replaces the stake and restarts its window.
Pool_stake(u, n) ==
    WriteAnd([store EXCEPT !.stake[u] = n, !.last[u] = now],
             [past EXCEPT !.forfeited[u] = Capped(@ + Pool_calculate_reward(u))])

\* last_claim is written before the pool is tested: a panic takes it back.
Pool_claim_rewards_lib(u) ==
    /\ Pool_calculate_reward(u) <= store.pool
    /\ WriteAnd([store EXCEPT !.last[u] = now, !.pool = @ - Pool_calculate_reward(u)],
                Credit(u, Pool_calculate_reward(u)))

Pool_claim_rewards(u) ==
    /\ ~ store.pool < Pool_calculate_reward(u)
    /\ WriteAnd([store EXCEPT !.last[u] = now, !.pool = @ - Pool_calculate_reward(u)],
                Credit(u, Pool_calculate_reward(u)))

Pool_Next ==
    /\ crate = "underfunded_reward_pool"
    /\ \E u \in Address, n \in 0..2 :
        \/ Lib /\ (Pool_initialize(n) \/ Pool_stake(u, n) \/ Pool_claim_rewards_lib(u))
        \/ Secure /\ (Pool_initialize(n) \/ Pool_stake(u, n) \/ Pool_claim_rewards(u))
        \/ CloseLedger

\* The pool pays what it was given and no more.
Pool_Solvent == store.pool >= 0 /\ store.pool + SumFunction(past.paid) = past.funded

\* A reward window ends in a claim that pays all of it out of the pool, or in
\* the staker's own stake(), which forfeits it unpaid (lib.rs:124-130): no other
\* step moves the last claim, and none of them both.
Pool_WindowEnds ==
    \A u \in Address : store'.last[u] # store.last[u] =>
        \/ /\ past'.paid[u] = past.paid[u] + Pool_calculate_reward(u)
           /\ store'.pool = store.pool - Pool_calculate_reward(u)
           /\ past'.forfeited = past.forfeited
        \/ /\ past'.forfeited[u] = Capped(past.forfeited[u] + Pool_calculate_reward(u))
           /\ past'.paid = past.paid /\ store'.pool = store.pool

-----------------------------------------------------------------------------
(* zero_reward_rate.  past.announced is the rate of the latest             *)
(* RewardRateChanged event; MaxStake bounds the stakes.                    *)
MaxStake == 2

Rate_Init ==
    /\ crate = "zero_reward_rate"
    /\ store = [admin |-> None, rate |-> 0, stake |-> Zero, at |-> [u \in Address |-> None]]
    /\ past = [announced |-> None, first |-> 0, paid |-> Zero]

Rate_initialize_lib(admin, rate) ==
    /\ store.admin = None
    /\ WriteAnd([store EXCEPT !.admin = admin, !.rate = rate], [past EXCEPT !.first = rate])

Rate_initialize(admin, rate) == rate # 0 /\ Rate_initialize_lib(admin, rate)

Rate_set_reward_rate_lib(rate) ==
    /\ store.admin # None
    /\ Write([store EXCEPT !.rate = rate])

Rate_set_reward_rate(rate) ==
    /\ store.admin # None
    /\ rate # 0
    /\ WriteAnd([store EXCEPT !.rate = rate], [past EXCEPT !.announced = rate])

Rate_stake(u, n) ==
    /\ store.stake[u] + n \in -MaxStake..MaxStake
    /\ Write([store EXCEPT !.stake[u] = @ + n, !.at[u] = now])

Rate_claim_rewards(u) ==
    LET last == IF store.at[u] = None THEN now ELSE store.at[u]
        reward == store.stake[u] * store.rate * (now - last)
    IN  WriteAnd([store EXCEPT !.at[u] = now], [past EXCEPT !.paid[u] = IF reward = 0 THEN @ ELSE 1])

Rate_get_reward_rate == store.rate

Rate_Next ==
    /\ crate = "zero_reward_rate"
    /\ \E u \in Solo, n \in -1..1 :
        \/ Lib /\ (Rate_initialize_lib(u, n) \/ Rate_set_reward_rate_lib(n)
                   \/ Rate_stake(u, n) \/ Rate_claim_rewards(u))
        \/ Secure /\ (Rate_initialize(u, n) \/ Rate_set_reward_rate(n)
                      \/ Rate_stake(u, n) \/ Rate_claim_rewards(u))
        \/ CloseLedger

\* Stakers can follow the rate: it is the announced one, or the first, and
\* rewards are never switched off.
Rate_IsAnnounced ==
    store.admin # None =>
        /\ Rate_get_reward_rate = IF past.announced = None THEN past.first ELSE past.announced
        /\ Rate_get_reward_rate # 0
-----------------------------------------------------------------------------
(* validator_commission_uncapped                                           *)
Commission_Init ==
    /\ crate = "validator_commission_uncapped"
    /\ store = [bps |-> 0, rewards |-> 0]
    /\ past = [total |-> 0]

Commission_init == WriteAnd([bps |-> 0, rewards |-> 0], [total |-> 0])

Commission_set_commission_lib(bps) == Write([store EXCEPT !.bps = bps])

Commission_set_commission(bps) == bps \in 0..Whole /\ Commission_set_commission_lib(bps)

Commission_get_commission == store.bps

Commission_delegator(total) == total - Quotient(total * Commission_get_commission, Whole)

Commission_distribute_rewards_lib(total) ==
    WriteAnd([store EXCEPT !.rewards = Commission_delegator(total)], [total |-> total])

Commission_distribute_rewards(total) ==
    /\ Commission_get_commission \in 0..Whole
    /\ Commission_delegator(total) >= 0
    /\ Commission_distribute_rewards_lib(total)

Commission_get_delegator_rewards == store.rewards

Commission_Next ==
    /\ crate = "validator_commission_uncapped"
    /\ \E n \in -1..3 :
        \/ Lib /\ (Commission_init \/ Commission_set_commission_lib(n)
                   \/ Commission_distribute_rewards_lib(n))
        \/ Secure /\ (Commission_init \/ Commission_set_commission(n)
                      \/ Commission_distribute_rewards(n))

\* The delegators' part and the commission are parts of what was distributed:
\* neither is negative.
Commission_IsAPart ==
    past.total >= 0 => Commission_get_delegator_rewards \in 0..past.total

-----------------------------------------------------------------------------
(* slash_without_evidence.  The list of evidence ids is kept as a set: it  *)
(* is only searched.  past.slashed is who lost stake, past.proven who ever *)
(* had finalized evidence.                                                 *)
Report == {1, 2}

Slash_Init ==
    /\ crate = "slash_without_evidence"
    /\ store = [admin |-> None, stake |-> Zero, treasury |-> 0,
                evidence |-> [r \in Report |-> None], ids |-> {}]
    /\ past = [taken |-> 0, slashed |-> {}, proven |-> {}]

Slash_initialize(admin) == store.admin = None /\ Write([store EXCEPT !.admin = admin])

\* A second registration overwrites the stake.
Slash_register_scanner(scanner, stake) ==
    stake > 0 /\ Write([store EXCEPT !.stake[scanner] = stake])

Slash_slash_lib(scanner, amount) ==
    /\ store.admin # None
    /\ amount > 0
    /\ store.stake[scanner] >= amount
    /\ store.treasury + amount <= 3                      \* bound on the treasury
    /\ WriteAnd([store EXCEPT !.stake[scanner] = @ - amount, !.treasury = @ + amount],
                [past EXCEPT !.taken = @ + amount, !.slashed = @ \cup {scanner}])

Slash_submit_evidence(scanner, report) ==
    /\ store.admin # None
    /\ Write([store EXCEPT !.evidence[report] = [scanner |-> scanner, finalized |-> FALSE],
                           !.ids = @ \cup {report}])

Slash_finalize_evidence(report) ==
    /\ store.admin # None
    /\ store.evidence[report] # None
    /\ WriteAnd([store EXCEPT !.evidence[report].finalized = TRUE],
                [past EXCEPT !.proven = @ \cup {store.evidence[report].scanner}])

Slash_has_finalized_evidence(scanner) ==
    \E id \in store.ids :
        store.evidence[id] # None /\ store.evidence[id].scanner = scanner
                                  /\ store.evidence[id].finalized

Slash_slash(scanner, amount) ==
    Slash_has_finalized_evidence(scanner) /\ Slash_slash_lib(scanner, amount)

Slash_get_treasury == store.treasury

Slash_Next ==
    /\ crate = "slash_without_evidence"
    /\ \E u \in Address, n \in 0..1, r \in Report :
        \/ Lib /\ (Slash_initialize(u) \/ Slash_register_scanner(u, n) \/ Slash_slash_lib(u, n))
        \/ Secure /\ (Slash_initialize(u) \/ Slash_register_scanner(u, n) \/ Slash_slash(u, n)
                      \/ Slash_submit_evidence(u, r) \/ Slash_finalize_evidence(r))

\* Nobody loses stake without evidence finalized against them, and what was
\* taken is in the treasury.
Slash_OnlyProven ==
    past.slashed \subseteq past.proven /\ Slash_get_treasury = past.taken

-----------------------------------------------------------------------------
(* reward_checkpoint_missing.  PREC stands for the scale of the            *)
(* accumulator; past.base is the accumulator at the latest stake.          *)
PREC == 2
MaxAcc == 3

Checkpoint_Init ==
    /\ crate = "reward_checkpoint_missing"
    /\ store = [acc |-> 0, stake |-> Zero, debt |-> Zero]
    /\ past = [base |-> Zero, paid |-> Zero]

Checkpoint_get_acc == store.acc

Checkpoint_get_stake(u) == store.stake[u]

Checkpoint_get_debt(u) == store.debt[u]

Checkpoint_initialize(acc) ==
    WriteAnd([store EXCEPT !.acc = acc], [past EXCEPT !.base = [u \in Address |-> 0], !.paid = Zero])

Checkpoint_add_rewards(delta) ==
    /\ Checkpoint_get_acc + delta <= MaxAcc
    /\ Write([store EXCEPT !.acc = @ + delta])

\* Overwrites the stake and leaves the debt where it was.
Checkpoint_stake_lib(u, amount) ==
    WriteAnd([store EXCEPT !.stake[u] = amount],
             [past EXCEPT !.base[u] = Checkpoint_get_acc, !.paid[u] = 0])

Checkpoint_stake(u, amount) ==
    /\ Checkpoint_get_stake(u) + amount <= 3             \* bound on the stake
    /\ LET total == Checkpoint_get_stake(u) + amount
       IN  WriteAnd([store EXCEPT !.stake[u] = total,
                                  !.debt[u] = (Checkpoint_get_acc * total) \div PREC],
                    [past EXCEPT !.base[u] = Checkpoint_get_acc, !.paid[u] = 0])

Checkpoint_claim_rewards(u) ==
    LET entitled == (Checkpoint_get_acc * Checkpoint_get_stake(u)) \div PREC
        pending == saturating_sub(entitled, Checkpoint_get_debt(u))
    IN  WriteAnd([store EXCEPT !.debt[u] = entitled], [past EXCEPT !.paid[u] = Capped(@ + pending)])

Checkpoint_Next ==
    /\ crate = "reward_checkpoint_missing"
    /\ \E u \in Solo, n \in 0..2 :
        \/ Lib /\ (Checkpoint_initialize(n) \/ Checkpoint_add_rewards(n)
                   \/ Checkpoint_stake_lib(u, n) \/ Checkpoint_claim_rewards(u))
        \/ Secure /\ (Checkpoint_initialize(n) \/ Checkpoint_add_rewards(n)
                      \/ Checkpoint_stake(u, n) \/ Checkpoint_claim_rewards(u))

\* A stake earns from the accumulator of its own deposit on: whatever was
\* claimed since then is the growth since then, rounded.
Checkpoint_EarnsFromDeposit ==
    \A u \in Address : Checkpoint_get_acc >= past.base[u] =>
        past.paid[u] * PREC
            <= (Checkpoint_get_acc - past.base[u]) * Checkpoint_get_stake(u) + PREC
=============================================================================
