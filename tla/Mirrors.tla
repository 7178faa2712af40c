------------------------------- MODULE Mirrors -------------------------------
(***************************************************************************)
(* The small contracts of secure/.  They have no fixture beside them: code *)
(* is "secure" and each operation has one definition.  MirrorAmounts are   *)
(* i128, and one below zero is refused only where the code refuses it.     *)
(***************************************************************************)
EXTENDS Contract, Functions

MirrorFunds == -1..2    \* bound on a balance
MirrorAmounts == {-1, 1, 2}

\* transfer of secure_vault, secure_transfer and secure_pausable: both
\* balances are read before either is written, so the second write decides
\* what a transfer to oneself leaves.
Mirror_moved(b, u, v, amount) ==
    [[b EXCEPT ![u] = b[u] - amount] EXCEPT ![v] = b[v] + amount]

\* What an observer notes of a transfer.
Mirror_noted(u, v, amount) == IF u = v THEN [past EXCEPT !.self = @ + amount] ELSE past

-----------------------------------------------------------------------------
(* secure_vault.  past.issued is what was minted less what was burned,     *)
(* past.self what was transferred to oneself.                              *)
Vault_Init ==
    /\ crate = "secure_vault"
    /\ store = [balance |-> Zero]
    /\ past = [issued |-> 0, self |-> 0]

Vault_mint(u, amount) ==
    /\ store.balance[u] + amount \in MirrorFunds
    /\ WriteAnd([store EXCEPT !.balance[u] = @ + amount], [past EXCEPT !.issued = @ + amount])

Vault_burn(u, amount) ==
    /\ store.balance[u] - amount >= 0
    /\ store.balance[u] - amount \in MirrorFunds
    /\ WriteAnd([store EXCEPT !.balance[u] = @ - amount], [past EXCEPT !.issued = @ - amount])

Vault_transfer(u, v, amount) ==
    LET moved == Mirror_moved(store.balance, u, v, amount)
    IN  /\ store.balance[u] - amount >= 0
        /\ \A a \in Address : moved[a] \in MirrorFunds
        /\ WriteAnd([store EXCEPT !.balance = moved], Mirror_noted(u, v, amount))

Vault_Next ==
    /\ crate = "secure_vault"
    /\ past.self \in MirrorFunds
    /\ \E u, v \in Address, amount \in MirrorAmounts :
        Vault_mint(u, amount) \/ Vault_burn(u, amount) \/ Vault_transfer(u, v, amount)

\* The balances exceed what was issued by what was transferred to oneself, and
\* by nothing else: line 82 writes the recipient's balance over the sender's,
\* so a transfer to oneself creates tokens.  An amount below zero is accepted
\* by all three calls, although docs/threat_model.md:125 lists "reject negative
\* amounts" as done by this contract; between two accounts it moves as much.
Vault_SumIsExplained == SumFunction(store.balance) = past.issued + past.self

-----------------------------------------------------------------------------
(* secure_transfer: refuses a transfer to oneself, but no overdraft.       *)
Transfer_Init ==
    /\ crate = "secure_transfer"
    /\ store = [balance |-> Zero]
    /\ past = [issued |-> 0]

Transfer_mint(u, amount) ==
    /\ store.balance[u] + amount \in MirrorFunds
    /\ WriteAnd([store EXCEPT !.balance[u] = @ + amount], [past EXCEPT !.issued = @ + amount])

Transfer_transfer(u, v, amount) ==
    LET moved == Mirror_moved(store.balance, u, v, amount)
    IN  /\ u # v
        /\ \A a \in Address : moved[a] \in MirrorFunds
        /\ Write([store EXCEPT !.balance = moved])

Transfer_Next ==
    /\ crate = "secure_transfer"
    /\ \E u, v \in Address, amount \in MirrorAmounts :
        Transfer_mint(u, amount) \/ Transfer_transfer(u, v, amount)

\* The balances add up to what was minted, whatever was transferred.  They say
\* nothing of who may hold less than zero: an amount below zero moves tokens
\* the other way, the case docs/vulnerabilities.md:886-888 names this contract
\* as the remedy for.
Transfer_Conserves == SumFunction(store.balance) = past.issued

-----------------------------------------------------------------------------
(* secure_burn: neither call limits the amount.                            *)
Burn_Init ==
    /\ crate = "secure_burn"
    /\ store = [balance |-> Zero]
    /\ past = [issued |-> 0]

Burn_mint(u, amount) ==
    /\ store.balance[u] + amount \in MirrorFunds
    /\ WriteAnd([store EXCEPT !.balance[u] = @ + amount], [past EXCEPT !.issued = @ + amount])

\* Signed by u.
Burn_burn(u, amount) ==
    /\ store.balance[u] - amount \in MirrorFunds
    /\ WriteAnd([store EXCEPT !.balance[u] = @ - amount], [past EXCEPT !.issued = @ - amount])

Burn_Next ==
    /\ crate = "secure_burn"
    /\ \E u \in Address, amount \in MirrorAmounts : Burn_mint(u, amount) \/ Burn_burn(u, amount)

\* The balances add up to what was minted less what was burned.
Burn_Conserves == SumFunction(store.balance) = past.issued

-----------------------------------------------------------------------------
(* secure_pausable.  A transfer may overdraw an account: checked_sub on    *)
(* i128 succeeds below zero.  past.issued and past.self are as above.      *)
Pausable_Init ==
    /\ crate = "secure_pausable"
    /\ store = [admin |-> None, paused |-> FALSE, balance |-> Zero]
    /\ past = [pausedBy |-> None, issued |-> 0, self |-> 0]

Pausable_initialize(u) ==
    store.admin = None /\ Write([store EXCEPT !.admin = u, !.paused = FALSE])

\* admin.require_auth() on the stored admin.
Pausable_require_admin(signer) == store.admin # None /\ signer = store.admin

Pausable_mint(u, amount, signer) ==
    /\ Pausable_require_admin(signer)
    /\ store.balance[u] + amount \in MirrorFunds
    /\ WriteAnd([store EXCEPT !.balance[u] = @ + amount], [past EXCEPT !.issued = @ + amount])

Pausable_pause(signer) ==
    /\ Pausable_require_admin(signer)
    /\ WriteAnd([store EXCEPT !.paused = TRUE], [past EXCEPT !.pausedBy = signer])

Pausable_unpause(signer) ==
    /\ Pausable_require_admin(signer)
    /\ WriteAnd([store EXCEPT !.paused = FALSE], [past EXCEPT !.pausedBy = None])

Pausable_transfer(u, v, amount) ==
    LET moved == Mirror_moved(store.balance, u, v, amount)
    IN  /\ ~store.paused
        /\ \A a \in Address : moved[a] \in MirrorFunds
        /\ WriteAnd([store EXCEPT !.balance = moved], Mirror_noted(u, v, amount))

Pausable_set_admin(u, signer) ==
    Pausable_require_admin(signer) /\ Write([store EXCEPT !.admin = u])

Pausable_Next ==
    /\ crate = "secure_pausable"
    /\ past.self \in MirrorFunds
    /\ \E u, v \in Address, amount \in MirrorAmounts :
        \/ Pausable_initialize(u)
        \/ Pausable_mint(u, amount, v)
        \/ Pausable_pause(u)
        \/ Pausable_unpause(u)
        \/ Pausable_transfer(u, v, amount)
        \/ Pausable_set_admin(u, v)

\* While the pause lasts nothing moves from one account to another: only the
\* admin's mint may change a balance.  A hand-over of the role ends no pause.
Pausable_PauseHolds ==
    past.pausedBy # None /\ past'.pausedBy # None =>
        Cardinality({u \in Address : store'.balance[u] # store.balance[u]}) <= 1

\* The balances add up to what the admin minted and what was transferred to
\* oneself.  An overdraft is part of that sum: what one account is below zero
\* the others hold on top of the issue, although transfer says
\* expect("insufficient balance").
Pausable_SumIsExplained == SumFunction(store.balance) = past.issued + past.self

-----------------------------------------------------------------------------
(* secure_escrow.  Deposits and withdrawals are not limited.               *)
Escrow_Init ==
    /\ crate = "secure_escrow"
    /\ store = [escrow |-> Zero]
    /\ past = [net |-> 0]

Escrow_deposit(u, amount) ==
    /\ store.escrow[u] + amount \in MirrorFunds
    /\ WriteAnd([store EXCEPT !.escrow[u] = @ + amount], [past EXCEPT !.net = @ + amount])

Escrow_withdraw(u, amount) ==
    /\ store.escrow[u] - amount \in MirrorFunds
    /\ WriteAnd([store EXCEPT !.escrow[u] = @ - amount], [past EXCEPT !.net = @ - amount])

Escrow_Next ==
    /\ crate = "secure_escrow"
    /\ \E u \in Address, amount \in MirrorAmounts : Escrow_deposit(u, amount) \/ Escrow_withdraw(u, amount)

\* The escrow balances add up to the deposits less the withdrawals.
Escrow_Conserves == SumFunction(store.escrow) = past.net

-----------------------------------------------------------------------------
(* dust_griefing.                                                          *)
MIN_DEPOSIT == 2
MaxDust == 6            \* bound on a balance

Dust_Init ==
    /\ crate = "dust_griefing"
    /\ store = [balance |-> Zero]
    /\ past = [net |-> 0]

Dust_deposit(u, amount) ==
    /\ amount >= MIN_DEPOSIT
    /\ store.balance[u] + amount \in -MaxDust..MaxDust
    /\ WriteAnd([store EXCEPT !.balance[u] = @ + amount], [past EXCEPT !.net = @ + amount])

Dust_Next ==
    /\ crate = "dust_griefing"
    /\ \E u \in Address, amount \in -1..3 : Dust_deposit(u, amount)

\* The balances are the deposits, and an account that was never worth the
\* minimum has no entry.
Dust_EntriesAreWorthIt ==
    /\ SumFunction(store.balance) = past.net
    /\ \A u \in Address : store.balance[u] # 0 => store.balance[u] >= MIN_DEPOSIT

-----------------------------------------------------------------------------
(* secure_staking.  A stake replaces the earlier one and restarts its      *)
(* clock; a claim is paid at the rate of the day.  Persistent entries that *)
(* expire are restored, so the extensions change no value.  past.ledgers   *)
(* counts the ledgers for which a stake was paid.                          *)
MAX_RATE == 2

Staking_Init ==
    /\ crate = "secure_staking"
    /\ store = [admin |-> None, stake |-> Zero, stakedAt |-> Zero, rewardRate |-> 0]
    /\ past = [ledgers |-> Zero]

Staking_initialize(u, rate) ==
    /\ store.admin = None
    /\ rate <= MAX_RATE
    /\ Write([store EXCEPT !.admin = u, !.rewardRate = rate])

Staking_update_rate(caller, rate) ==
    /\ store.admin # None
    /\ caller = store.admin
    /\ rate <= MAX_RATE
    /\ Write([store EXCEPT !.rewardRate = rate])

Staking_stake(u, amount) ==
    /\ amount > 0
    /\ Write([store EXCEPT !.stake[u] = amount, !.stakedAt[u] = now])

Staking_paid(u) == IF store.stake[u] * store.rewardRate > 0 THEN now - store.stakedAt[u] ELSE 0

Staking_claim_rewards(u) ==
    WriteAnd([store EXCEPT !.stakedAt[u] = now],
             [past EXCEPT !.ledgers[u] = Capped(@ + Staking_paid(u))])

Staking_Next ==
    /\ crate = "secure_staking"
    /\ \/ CloseLedger
       \/ \E u \in Solo, caller \in Address, amount \in 0..2 :
            \/ Staking_initialize(caller, amount)
            \/ Staking_update_rate(caller, amount)
            \/ Staking_stake(u, amount)
            \/ Staking_claim_rewards(u)

\* A stake is paid for a ledger at most once, and for none before it was made.
Staking_LedgersPaidOnce ==
    \A u \in Address : past.ledgers[u] + (now - store.stakedAt[u]) <= now

-----------------------------------------------------------------------------
(* secure_lending.  The ratio 150 : 100 is 3 : 2, the threshold 120 : 100  *)
(* is 6 : 5.  The collateral has no price, so only the borrower's own      *)
(* calls change a position.  past.left and past.forgiven are the           *)
(* collateral and the debt that were cleared.                              *)
MIN_COLLATERAL_RATIO == 15
LIQUIDATION_THRESHOLD == 12
HUNDRED == 10
MaxPosition == 5        \* bound on a collateral, and on what is cleared

Position_Init ==
    /\ crate = "secure_lending"
    /\ store = [collateral |-> Zero, debt |-> Zero]
    /\ past = [left |-> 0, forgiven |-> 0]

\* Both entries are set to zero.
Position_clear(u) ==
    WriteAnd([store EXCEPT !.collateral[u] = 0, !.debt[u] = 0],
             [left |-> past.left + store.collateral[u], forgiven |-> past.forgiven + store.debt[u]])

\* May be called again.
Position_initialize(u) ==
    /\ past.left + store.collateral[u] <= MaxPosition
    /\ Position_clear(u)

Position_deposit_collateral(u, amount) ==
    /\ amount > 0
    /\ store.collateral[u] + amount <= MaxPosition
    /\ Write([store EXCEPT !.collateral[u] = @ + amount])

Position_borrow(u, amount) ==
    /\ amount > 0
    /\ store.collateral[u] * HUNDRED >= (store.debt[u] + amount) * MIN_COLLATERAL_RATIO
    /\ Write([store EXCEPT !.debt[u] = @ + amount])

Position_repay(u, amount) ==
    /\ amount > 0
    /\ amount <= store.debt[u]
    /\ Write([store EXCEPT !.debt[u] = @ - amount])

Position_liquidatable(u) ==
    /\ store.debt[u] # 0
    /\ store.collateral[u] * HUNDRED < store.debt[u] * LIQUIDATION_THRESHOLD

\* By anyone; it panics unless the position is liquidatable.
Position_liquidate(u) == IF Position_liquidatable(u) THEN Position_clear(u) ELSE UNCHANGED vars

Position_Next ==
    /\ crate = "secure_lending"
    /\ \E u \in Address, amount \in -1..3 :
        \/ Position_initialize(u)
        \/ Position_deposit_collateral(u, amount)
        \/ Position_borrow(u, amount)
        \/ Position_repay(u, amount)
        \/ Position_liquidate(u)

\* No sequence of calls makes a position liquidatable: the collateral covers
\* the debt by the ratio of borrow, and liquidate never runs.  A borrower who
\* initialises again walks away from the debt, and leaves collateral by the same
\* ratio for it.
Position_DebtsAreCovered ==
    /\ \A u \in Address : ~Position_liquidatable(u)
    /\ past.left * HUNDRED >= past.forgiven * MIN_COLLATERAL_RATIO
-----------------------------------------------------------------------------
(* secure_airdrop.  root is the set of leaves, and a proof exists for a    *)
(* leaf of it only (leaf_hash and hash_pair do not collide).  The token is *)
(* called in the middle of claim; store.calls holds the claims whose       *)
(* transfer has not come back.  store.reentry says whether the host lets   *)
(* the token call in again, chosen at the start.                           *)
MaxCalls == 2           \* bound on nested claims

Airdrop_Init ==
    /\ crate = "secure_airdrop"
    /\ \E root \in SUBSET (Address \X {1, 2}), reentry \in BOOLEAN :
        store = [admin |-> None, merkleRoot |-> root, claimed |-> {}, calls |-> <<>>,
                 held |-> 0, reentry |-> reentry]
    /\ past = [paid |-> Zero]

Airdrop_leaf_hash(u, amount) == <<u, amount>>

Airdrop_verify_merkle_proof(u, amount) == Airdrop_leaf_hash(u, amount) \in store.merkleRoot

Airdrop_is_claimed(u) == u \in store.claimed

Airdrop_mark_claimed(s, u) == [s EXCEPT !.claimed = @ \cup {u}]

Airdrop_initialize(u) == store.admin = None /\ Write([store EXCEPT !.admin = u])

Airdrop_fund(amount) ==
    /\ store.admin # None
    /\ store.calls = <<>>
    /\ store.held + amount \in 0..4
    /\ Write([store EXCEPT !.held = @ + amount])

\* claim up to the call of the token: the flag is written before it.
Airdrop_claim(u, amount) ==
    /\ store.admin # None
    /\ store.calls = <<>> \/ (store.reentry /\ Len(store.calls) < MaxCalls)
    /\ ~Airdrop_is_claimed(u)
    /\ Airdrop_verify_merkle_proof(u, amount)
    /\ store.held >= amount + FoldSeq(LAMBDA c, n : c.amount + n, 0, store.calls)
    /\ Write([Airdrop_mark_claimed(store, u) EXCEPT
                !.calls = Append(@, [to |-> u, amount |-> amount])])

\* The innermost transfer comes back.
Airdrop_transfer ==
    /\ store.calls # <<>>
    /\ LET c == Last(store.calls)
       IN  WriteAnd([store EXCEPT !.held = @ - c.amount, !.calls = Front(@)],
                    [past EXCEPT !.paid[c.to] = @ + c.amount])

Airdrop_Next ==
    /\ crate = "secure_airdrop"
    /\ \/ \E u \in Address, amount \in 1..2 : Airdrop_claim(u, amount)
       \/ \E u \in Solo : Airdrop_initialize(u)
       \/ Airdrop_fund(2)
       \/ Airdrop_transfer

\* An account is paid one leaf of the tree at most, however the token calls
\* back into claim.
Airdrop_OneLeafPaid ==
    \A u \in Address : past.paid[u] > 0 => <<u, past.paid[u]>> \in store.merkleRoot

-----------------------------------------------------------------------------
(* paginated_airdrop, with one unit for each user.  Two callers walk the   *)
(* list, each from the index the last batch returned (past.cursor), while  *)
(* users register and others ask for a batch from any index: past.stray is *)
(* what those credited.                                                    *)
MAX_BATCH == 2
Walkers == {"first", "second"}
MaxUsers == 3           \* bound on the list
MaxStray == 1           \* bound on what stray batches credit an account

Pages_Init ==
    /\ crate = "paginated_airdrop"
    /\ store = [users |-> <<>>, balance |-> Zero]
    /\ past = [cursor |-> [w \in Walkers |-> 0], stray |-> Zero]

\* A user may register twice.
Pages_register(u) ==
    /\ Len(store.users) < MaxUsers
    /\ Write([store EXCEPT !.users = Append(@, u)])

\* The indices of the batch, from zero as in the code.
Pages_batch(start, count, max) ==
    LET batch == IF count < max THEN count ELSE max
        end == IF start + batch < Len(store.users) THEN start + batch ELSE Len(store.users)
    IN  [credited |-> start..(end - 1), end |-> end]

\* How often a batch credits u.
Pages_credit(b, u) == Cardinality({i \in b.credited : store.users[i + 1] = u})

Pages_distribute(w, b) ==
    WriteAnd([store EXCEPT !.balance = [u \in Address |-> @[u] + Pages_credit(b, u)]],
             [past EXCEPT !.cursor[w] = b.end])

\* The batch with its bounds taken as inclusive: the next one starts on the
\* last user of this one.
Pages_distribute_batch_overlapping(w, count) ==
    LET b == Pages_batch(past.cursor[w], count, MAX_BATCH)
    IN  Pages_distribute(w, [b EXCEPT !.end = IF @ > 0 THEN @ - 1 ELSE 0])

Pages_distribute_batch(w, count) ==
    Pages_distribute(w, Pages_batch(past.cursor[w], count, MAX_BATCH))

\* The code takes any start from any caller and keeps no record of it.
Pages_distribute_batch_from(start, count) ==
    LET b == Pages_batch(start, count, MAX_BATCH)
    IN  /\ \A u \in Address : past.stray[u] + Pages_credit(b, u) <= MaxStray
        /\ WriteAnd([store EXCEPT !.balance = [u \in Address |-> @[u] + Pages_credit(b, u)]],
                    [past EXCEPT !.stray = [u \in Address |-> @[u] + Pages_credit(b, u)]])

Pages_Next ==
    /\ crate = "paginated_airdrop"
    /\ \/ \E u \in Address : Pages_register(u)
       \/ \E w \in Walkers, count \in 0..3 : Pages_distribute_batch(w, count)
       \/ \E start \in 0..MaxUsers, count \in 0..3 : Pages_distribute_batch_from(start, count)

\* A walk credits every registration before its cursor once and no other,
\* although users register and other callers distribute in between.  A batch
\* from any other index credits once more whom it names.
Pages_WalksCreditOnce ==
    \A u \in Address :
        store.balance[u] = past.stray[u] +
            Cardinality({at \in Walkers \X (1..Len(store.users)) :
                            at[2] <= past.cursor[at[1]] /\ store.users[at[2]] = u})
=============================================================================
