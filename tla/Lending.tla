------------------------------ MODULE Lending -------------------------------
(***************************************************************************)
(* Lending markets: debt, collateral and the interest or rewards they      *)
(* accrue between invocations.  Percentages and basis points are scaled    *)
(* down to small fractions.                                                *)
(***************************************************************************)
EXTENDS Contract

MaxDebt == 3     \* bound on what one account borrows or deposits

-----------------------------------------------------------------------------
(* repay_for_reward_grief                                                  *)
Grief_Init ==
    /\ crate = "repay_for_reward_grief"
    /\ store = [admin |-> None, rate |-> 0, debt |-> Zero, accrued |-> Zero,
                checkpoint |-> [u \in Address |-> None]]
    /\ past = <<>>

Grief_initialize(admin, rate) ==
    /\ store.admin = None
    /\ rate > 0
    /\ Write([store EXCEPT !.admin = admin, !.rate = rate])

Grief_borrow(u, n) ==
    /\ n > 0
    /\ store.debt[u] + n <= MaxDebt
    /\ Write([store EXCEPT !.debt[u] = @ + n, !.checkpoint[u] = now])

Grief_get_reward_checkpoint(u) == IF store.checkpoint[u] = None THEN now ELSE store.checkpoint[u]

\* What claim_rewards would pay now.
Grief_Claimable(u) ==
    store.accrued[u] + store.debt[u] * store.rate * (now - Grief_get_reward_checkpoint(u))

Grief_repay_for_lib(u, n) ==
    /\ 0 < n /\ n <= store.debt[u]
    /\ Write([store EXCEPT !.debt[u] = @ - n, !.checkpoint[u] = now])

Grief_repay_for(u, n) ==
    /\ 0 < n /\ n <= store.debt[u]
    /\ Write([store EXCEPT !.accrued[u] = Grief_Claimable(u), !.debt[u] = @ - n, !.checkpoint[u] = now])

Grief_claim_rewards(u) == Write([store EXCEPT !.accrued[u] = 0, !.checkpoint[u] = now])

Grief_Next ==
    /\ crate = "repay_for_reward_grief"
    /\ \E u \in Solo, n \in 0..2 :
        \/ Lib /\ (Grief_initialize(u, n) \/ Grief_borrow(u, n) \/ Grief_repay_for_lib(u, n)
                   \/ Grief_claim_rewards(u))
        \/ Secure /\ (Grief_initialize(u, n) \/ Grief_borrow(u, n) \/ Grief_repay_for(u, n)
                      \/ Grief_claim_rewards(u))
        \/ CloseLedger

\* A repayment, by whomever, neither takes from nor adds to the reward that
\* the borrower had earned.
Grief_RepaymentKeepsReward ==
    \A u \in Address : store'.debt[u] < store.debt[u] => Grief_Claimable(u)' = Grief_Claimable(u)

-----------------------------------------------------------------------------
(* interest_index_reset.  The index starts at INDEX_SCALE and grows by     *)
(* half per ledger; flip changes with every initialize, which may be       *)
(* called again by anyone.                                                 *)
INDEX_SCALE == 2

Index_Init ==
    /\ crate = "interest_index_reset"
    /\ store = [supply |-> 0, index |-> INDEX_SCALE, last |-> 0, debt |-> Zero, total_debt |-> 0]
    /\ past = [flip |-> FALSE]

\* The storage after accrue_index.
Index_accrue_index(s) ==
    IF now <= s.last THEN s
    ELSE [s EXCEPT !.index = @ + (@ * (now - s.last)) \div 2, !.last = now]

Index_debt_value(u) == (store.debt[u] * store.index) \div INDEX_SCALE

Index_initialize(n) ==
    /\ n > 0
    /\ WriteAnd([store EXCEPT !.supply = n, !.index = INDEX_SCALE, !.last = now],
                [flip |-> ~past.flip])

Index_borrow(u, n) ==
    /\ n > 0
    /\ store.supply >= n
    /\ store.debt[u] + n <= MaxDebt
    /\ Write([Index_accrue_index(store) EXCEPT !.debt[u] = @ + n, !.total_debt = @ + n, !.supply = @ - n])

Index_deposit_lib(n) ==
    /\ n > 0
    /\ store.supply + n <= MaxDebt
    /\ Write(IF store.supply = 0
             THEN [store EXCEPT !.index = INDEX_SCALE, !.last = now, !.supply = n]
             ELSE [store EXCEPT !.supply = @ + n])

Index_deposit(n) ==
    /\ n > 0
    /\ store.supply + n <= MaxDebt
    /\ LET s == IF store.supply = 0 /\ store.total_debt > 0 THEN Index_accrue_index(store) ELSE store
       IN  Write([s EXCEPT !.supply = @ + n])

\* A negative amount passes the test and adds to the supply.
Index_withdraw(n) ==
    /\ n <= store.supply
    /\ store.supply - n <= MaxDebt
    /\ Write([store EXCEPT !.supply = @ - n])

\* borrow_index and debt are queries that write the accrued index.
Index_borrow_index == Write(Index_accrue_index(store))

Index_Next ==
    /\ crate = "interest_index_reset"
    /\ \E u \in Solo, n \in -1..2 :
        \/ Lib /\ (Index_initialize(n) \/ Index_borrow(u, n) \/ Index_deposit_lib(n)
                   \/ Index_withdraw(n) \/ Index_borrow_index)
        \/ Secure /\ (Index_initialize(n) \/ Index_borrow(u, n) \/ Index_deposit(n)
                      \/ Index_withdraw(n) \/ Index_borrow_index)
        \/ CloseLedger

\* Debt never becomes cheaper: apart from a new initialize, no invocation
\* lowers what a borrower owes, and the total is the sum of the principals.
Index_DebtKeepsGrowing ==
    /\ past' = past => \A u \in Address : Index_debt_value(u)' >= Index_debt_value(u)
    /\ store'.total_debt = SumFunction(store'.debt)

-----------------------------------------------------------------------------
(* collateral_factor_over_100, with FULL for 100 per cent                  *)
FULL == 2
Factors == -1..(FULL + 1)

Factor_Init ==
    /\ crate = "collateral_factor_over_100"
    /\ store = [admin |-> None, factor |-> 0, collateral |-> Zero, debt |-> Zero]
    /\ past = <<>>

Factor_initialize_vulnerable(admin, factor) ==
    /\ store.admin = None
    /\ Write([store EXCEPT !.admin = admin, !.factor = factor])

Factor_initialize(admin, factor) ==
    /\ 0 < factor /\ factor <= FULL
    /\ Factor_initialize_vulnerable(admin, factor)

Factor_set_collateral_factor_vulnerable(admin, factor) ==
    /\ store.admin = admin
    /\ Write([store EXCEPT !.factor = factor])

Factor_set_collateral_factor(admin, factor) ==
    /\ 0 < factor /\ factor <= FULL
    /\ Factor_set_collateral_factor_vulnerable(admin, factor)

Factor_deposit_collateral(u, n) ==
    /\ n > 0
    /\ store.collateral[u] + n <= MaxDebt
    /\ Write([store EXCEPT !.collateral[u] = @ + n])

Factor_borrow(u, n) ==
    /\ n > 0
    /\ store.collateral[u] * store.factor >= (store.debt[u] + n) * FULL
    /\ Write([store EXCEPT !.debt[u] = @ + n])

Factor_get_position(u) == [collateral |-> store.collateral[u], debt |-> store.debt[u]]

Factor_Next ==
    /\ crate = "collateral_factor_over_100"
    /\ \E u \in Address, n \in 0..2, f \in Factors :
        \/ Lib /\ (Factor_initialize_vulnerable(u, f) \/ Factor_set_collateral_factor_vulnerable(u, f)
                   \/ Factor_deposit_collateral(u, n) \/ Factor_borrow(u, n))
        \/ Secure /\ (Factor_initialize(u, f) \/ Factor_set_collateral_factor(u, f)
                      \/ Factor_deposit_collateral(u, n) \/ Factor_borrow(u, n))

\* Every position stays covered, whatever the factor was at each borrow.
Factor_Covered ==
    \A u \in Address : Factor_get_position(u).debt <= Factor_get_position(u).collateral

-----------------------------------------------------------------------------
(* borrow_without_accrual, with interest of one half per ledger            *)
BORROW_LIMIT == 4

Accrual_Init ==
    /\ crate = "borrow_without_accrual"
    /\ store = [debt |-> Zero, last |-> Zero]
    /\ past = <<>>

Accrual_projected_debt(u) ==
    store.debt[u] + (store.debt[u] * Max({0, now - store.last[u]})) \div 2

Accrual_accrue_borrower(u) ==
    IF store.debt[u] # 0 /\ now <= store.last[u] THEN store
    ELSE [store EXCEPT !.debt[u] = Accrual_projected_debt(u), !.last[u] = now]

\* LastMarketLedger is written and never read: it is left out.
Accrual_initialize(u, n) ==
    /\ 0 < n /\ n <= BORROW_LIMIT
    /\ Write([store EXCEPT !.debt[u] = n, !.last[u] = now])

Accrual_borrow_lib(u, n) ==
    /\ n > 0
    /\ store.debt[u] + n <= BORROW_LIMIT
    /\ Write([store EXCEPT !.debt[u] = @ + n])

Accrual_borrow(u, n) ==
    /\ n > 0
    /\ Accrual_accrue_borrower(u).debt[u] + n <= BORROW_LIMIT
    /\ Write([Accrual_accrue_borrower(u) EXCEPT !.debt[u] = @ + n])

Accrual_Next ==
    /\ crate = "borrow_without_accrual"
    /\ \E u \in Address, n \in 1..2 :
        \/ Lib /\ (Accrual_initialize(u, n) \/ Accrual_borrow_lib(u, n))
        \/ Secure /\ (Accrual_initialize(u, n) \/ Accrual_borrow(u, n))
        \/ CloseLedger

\* Whoever borrows is within the limit with all interest counted.
Accrual_WithinLimit ==
    \A u \in Address :
        store'.debt[u] > store.debt[u] => Accrual_projected_debt(u)' <= BORROW_LIMIT
-----------------------------------------------------------------------------
(* uncapped_rate.  past.by_admin tells whether update_rate set the rate,   *)
(* past.over whether a claim under such a rate paid above the cap.         *)
RATE_CAP == 1       \* MAX_RATE

Uncapped_Init ==
    /\ crate = "uncapped_rate"
    /\ store = [admin |-> None, rate |-> 0, stake |-> Zero, staked_at |-> Zero]
    /\ past = [by_admin |-> FALSE, over |-> FALSE]

\* Anyone may call initialize, again too, with any rate.
Uncapped_initialize(admin, rate) ==
    WriteAnd([store EXCEPT !.admin = admin, !.rate = rate], [past EXCEPT !.by_admin = FALSE])

Uncapped_require_admin == store.admin # None

Uncapped_update_rate_lib(rate) ==
    /\ Uncapped_require_admin
    /\ WriteAnd([store EXCEPT !.rate = rate], [past EXCEPT !.by_admin = TRUE])

Uncapped_update_rate(rate) == rate <= RATE_CAP /\ Uncapped_update_rate_lib(rate)

Uncapped_stake(u, n) == Write([store EXCEPT !.stake[u] = n, !.staked_at[u] = now])

Uncapped_staked_amount(u) == store.stake[u]

Uncapped_current_rate == store.rate

\* The rate of now pays for every ledger since the last claim.
Uncapped_claim_rewards(u) ==
    LET weight == Uncapped_staked_amount(u) * (now - store.staked_at[u])
    IN  WriteAnd([store EXCEPT !.staked_at[u] = now],
                 [past EXCEPT !.over = @ \/ (past.by_admin
                                             /\ weight * Uncapped_current_rate > weight * RATE_CAP)])

Uncapped_Next ==
    /\ crate = "uncapped_rate"
    /\ \E u \in Solo, n \in 0..2 :
        \/ Lib /\ (Uncapped_initialize(u, n) \/ Uncapped_update_rate_lib(n) \/ Uncapped_stake(u, n)
                   \/ Uncapped_claim_rewards(u))
        \/ Secure /\ (Uncapped_initialize(u, n) \/ Uncapped_update_rate(n) \/ Uncapped_stake(u, n)
                      \/ Uncapped_claim_rewards(u))
        \/ CloseLedger

\* However often the admin changes the rate, no claim pays more for a ledger
\* than the cap, even for the ledgers before the change.
Uncapped_PaysWithinCap == ~past.over

-----------------------------------------------------------------------------
(* liquidation_dust_rounding.  past: the debt borrowed and the             *)
(* liquidations since.                                                     *)
CLOSE_FACTOR == 50
SCALE == 100
MaxRounds == 2      \* bound on the liquidations of one debt

Round_Init ==
    /\ crate = "liquidation_dust_rounding"
    /\ store = [debt |-> Zero, collateral |-> Zero]
    /\ past = [borrowed |-> Zero, rounds |-> Zero]

\* A second borrow replaces the position; nothing bounds debt by collateral.
Round_borrow(u, debt, collateral) ==
    WriteAnd([store EXCEPT !.debt[u] = debt, !.collateral[u] = collateral],
             [past EXCEPT !.borrowed[u] = debt, !.rounds[u] = 0])

Round_get_debt(u) == store.debt[u]

Round_get_collateral(u) == store.collateral[u]

Round_liquidates(u, repay, seize) ==
    /\ past.rounds[u] < MaxRounds
    /\ WriteAnd([store EXCEPT !.debt[u] = @ - repay, !.collateral[u] = @ - seize],
                [past EXCEPT !.rounds[u] = @ + 1])

Round_liquidate_lib(u) ==
    Round_liquidates(u, Quotient(Round_get_debt(u) * CLOSE_FACTOR, SCALE),
                        Quotient(Round_get_collateral(u) * CLOSE_FACTOR, SCALE))

ceil_div(a, b) == Quotient(a + b - 1, b)

Round_liquidate(u) ==
    LET debt == Round_get_debt(u)
        calc == ceil_div(debt * CLOSE_FACTOR, SCALE)
        repay == IF calc = 0 /\ debt > 0 THEN debt ELSE Max({calc, 0})
        seize == ceil_div(Round_get_collateral(u) * CLOSE_FACTOR, SCALE)
    IN  Round_liquidates(u, Min({repay, debt}), Min({seize, Round_get_collateral(u)}))

Round_Next ==
    /\ crate = "liquidation_dust_rounding"
    /\ \E u \in Solo, debt \in -2..4, collateral \in {-1, 1, 4} :
        \/ Lib /\ (Round_borrow(u, debt, collateral) \/ Round_liquidate_lib(u))
        \/ Secure /\ (Round_borrow(u, debt, collateral) \/ Round_liquidate(u))

\* Every liquidation takes at least half of the debt, so that no debt stays
\* behind as dust however small it gets.
Round_EachHalves ==
    \A u \in Address : past.borrowed[u] >= 0 => store.debt[u] * 2^past.rounds[u] <= past.borrowed[u]
-----------------------------------------------------------------------------
(* mixed_collateral_decimals.  The 10 of 10^decimals is scaled down to     *)
(* BASE; past.worth sums the exact worth of the deposits in units of       *)
(* 1/BASE dollar.  Deposits are positive: no token moves with them.        *)
BASE == 2
Symbols == {"usdc", "wbtc"}

Mixed_Init ==
    /\ crate = "mixed_collateral_decimals"
    /\ store = [price |-> [t \in Symbols |-> 0], decimals |-> [t \in Symbols |-> 0],
                collateral |-> 0, debt |-> 0]
    /\ past = [worth |-> 0]

\* Anyone may register a token, and change a registered one.
Mixed_register_token(t, price, decimals) ==
    Write([store EXCEPT !.price[t] = price, !.decimals[t] = decimals])

to_usd(raw, price, decimals) == Quotient(raw * price, BASE^decimals)

Mixed_deposits(t, n, credit) ==
    /\ store.collateral + credit <= MaxDebt
    /\ WriteAnd([store EXCEPT !.collateral = @ + credit],
                [past EXCEPT !.worth = Capped(@ + n * store.price[t] * BASE^(1 - store.decimals[t]))])

Mixed_deposit_lib(t, n) == Mixed_deposits(t, n, n)

Mixed_deposit(t, n) == Mixed_deposits(t, n, to_usd(n, store.price[t], store.decimals[t]))

Mixed_borrow(n) ==
    /\ store.collateral >= store.debt + n
    /\ store.debt + n >= -1
    /\ Write([store EXCEPT !.debt = @ + n])

Mixed_get_debt == store.debt

Mixed_Next ==
    /\ crate = "mixed_collateral_decimals"
    /\ \E t \in Symbols, n \in 1..2, price \in 1..2, decimals \in 0..1 :
        \/ Lib /\ (Mixed_register_token(t, price, decimals) \/ Mixed_deposit_lib(t, n)
                   \/ Mixed_borrow(n - 1) \/ Mixed_borrow(-1))
        \/ Secure /\ (Mixed_register_token(t, price, decimals) \/ Mixed_deposit(t, n)
                      \/ Mixed_borrow(n - 1) \/ Mixed_borrow(-1))

\* No debt exceeds what the deposits were worth when they were made, each at
\* its own token's price and decimals.
Mixed_DebtIsCovered == Mixed_get_debt * BASE <= past.worth

-----------------------------------------------------------------------------
(* borrow_cap_asset_mixup.  An unset cap does not limit borrow (i128::MAX) *)
(* and reads as 0.  The fixture keeps one cap and one total: it uses only  *)
(* the entry of Mixup_Any.  past: each asset's own cap and loans.          *)
Mixup_Any == "all"
Mixup_Assets == {"asset1", "asset2"}

Mixup_Init ==
    /\ crate = "borrow_cap_asset_mixup"
    /\ store = [cap |-> [k \in Mixup_Assets \cup {Mixup_Any} |-> None],
                total |-> [k \in Mixup_Assets \cup {Mixup_Any} |-> 0]]
    /\ past = [cap |-> [k \in Mixup_Assets |-> None], loans |-> [k \in Mixup_Assets |-> 0]]

\* Nobody signs.
Mixup_caps(key, asset, cap) ==
    WriteAnd([store EXCEPT !.cap[key] = cap], [past EXCEPT !.cap[asset] = cap])

Mixup_set_borrow_cap_lib(asset, cap) == Mixup_caps(Mixup_Any, asset, cap)

Mixup_set_borrow_cap(asset, cap) == Mixup_caps(asset, asset, cap)

Mixup_get_borrow_cap(key) == IF store.cap[key] = None THEN 0 ELSE store.cap[key]

Mixup_get_total_borrowed(key) == store.total[key]

Mixup_borrows(key, asset, n) ==
    LET total == Mixup_get_total_borrowed(key) + n
    IN  /\ store.cap[key] = None \/ total <= Mixup_get_borrow_cap(key)
        /\ past.loans[asset] + n \in 0..2
        /\ WriteAnd([store EXCEPT !.total[key] = total], [past EXCEPT !.loans[asset] = @ + n])

Mixup_borrow_lib(asset, n) == Mixup_borrows(Mixup_Any, asset, n)

Mixup_borrow(asset, n) == Mixup_borrows(asset, asset, n)

Mixup_Next ==
    /\ crate = "borrow_cap_asset_mixup"
    /\ \E asset \in Mixup_Assets, n \in {-1, 1}, cap \in 0..1 :
        \/ Lib /\ (Mixup_set_borrow_cap_lib(asset, cap) \/ Mixup_borrow_lib(asset, n))
        \/ Secure /\ (Mixup_set_borrow_cap(asset, cap) \/ Mixup_borrow(asset, n))

\* A loan leaves the asset within its own cap, whatever caps and loans the
\* other assets have.
Mixup_LoansWithinOwnCap ==
    \A a \in Mixup_Assets :
        past'.loans[a] > past.loans[a] => past.cap[a] = None \/ past'.loans[a] <= past.cap[a]
-----------------------------------------------------------------------------
(* collateral_withdraw_no_health_check.  Amounts may be negative in every  *)
(* call; past.taken tells that a deposit took collateral out.              *)
HealthBound == 4        \* bound on collateral and debt

Health_Init ==
    /\ crate = "collateral_withdraw_no_health_check"
    /\ store = [collateral |-> Zero, debt |-> Zero]
    /\ past = [taken |-> {}]

\* 7500 of 10000 basis points.
Health_borrow_limit(collateral) == Quotient(collateral * 3, 4)

Health_assert_healthy(collateral, debt) == Health_borrow_limit(collateral) >= debt

Health_set_collateral(u, n) ==
    n \in -HealthBound..HealthBound /\ Write([store EXCEPT !.collateral[u] = n])

Health_set_debt(u, n) ==
    n \in -HealthBound..HealthBound /\ Write([store EXCEPT !.debt[u] = n])

Health_deposit(u, n) ==
    /\ store.collateral[u] + n \in -HealthBound..HealthBound
    /\ WriteAnd([store EXCEPT !.collateral[u] = @ + n],
                [taken |-> IF n < 0 THEN past.taken \cup {u} ELSE past.taken])

Health_borrow(u, n) ==
    /\ Health_assert_healthy(store.collateral[u], store.debt[u] + n)
    /\ Health_set_debt(u, store.debt[u] + n)

Health_withdraw_lib(u, n) ==
    /\ store.collateral[u] >= n
    /\ Health_set_collateral(u, store.collateral[u] - n)

Health_withdraw(u, n) ==
    /\ Health_assert_healthy(store.collateral[u] - n, store.debt[u])
    /\ Health_withdraw_lib(u, n)

Health_position(u) ==
    <<store.collateral[u], store.debt[u], Health_borrow_limit(store.collateral[u])>>

Health_Next ==
    /\ crate = "collateral_withdraw_no_health_check"
    /\ \E u \in Solo, n \in {-2, -1, 1, 2} :
         \/ Lib /\ (Health_deposit(u, n) \/ Health_borrow(u, n) \/ Health_withdraw_lib(u, n))
         \/ Secure /\ (Health_deposit(u, n) \/ Health_borrow(u, n) \/ Health_withdraw(u, n))

\* Whatever an account borrows and withdraws in whatever order, its collateral
\* covers its debt; only a deposit of a negative amount escapes the check.
Health_DebtIsCovered ==
    \A u \in Address \ past.taken : Health_position(u)[3] >= Health_position(u)[2]
=============================================================================
