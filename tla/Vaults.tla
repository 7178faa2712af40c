------------------------------- MODULE Vaults -------------------------------
(***************************************************************************)
(* Vaults that hand out shares of what they hold.  T and S below are the   *)
(* total assets and the total shares.                                      *)
(***************************************************************************)
EXTENDS Contract

MaxAssets == 4      \* bound on what a vault holds
Sums == -1..2

\* The assets behind one share do not fall when (T, S) becomes (t, s).
NotDiluted(T, S, t, s) == t * S >= T * s

(* admin_skim_donations.  past sums what was injected, donated and         *)
(* skimmed.  donate counts a donation and moves nothing into the raw       *)
(* balance, from which skim takes it all the same.                         *)
Skim_Init ==
    /\ crate = "admin_skim_donations"
    /\ store = [admin |-> None, accounted |-> 0, raw |-> 0, donations |-> 0]
    /\ past = [injected |-> 0, donated |-> 0, skimmed |-> 0]

Skim_initialize_lib(admin) ==
    store.admin = None /\ Write([store EXCEPT !.admin = admin, !.accounted = 0, !.raw = 0])

Skim_initialize(admin) ==
    /\ store.admin = None
    /\ WriteAnd([admin |-> admin, accounted |-> 0, raw |-> 0, donations |-> 0],
                [injected |-> 0, donated |-> 0, skimmed |-> 0])

Skim_deposit(n) ==
    /\ n > 0 /\ store.accounted + n <= MaxAssets
    /\ Write([store EXCEPT !.accounted = @ + n, !.raw = @ + n])

Skim_inject_excess(n) ==
    /\ n > 0 /\ past.injected + n <= MaxAssets
    /\ WriteAnd([store EXCEPT !.raw = @ + n], [past EXCEPT !.injected = @ + n])

Skim_donate(n) ==
    /\ n > 0 /\ past.donated + n <= MaxAssets
    /\ WriteAnd([store EXCEPT !.donations = @ + n], [past EXCEPT !.donated = @ + n])

\* Takes whatever is not accounted for.
Skim_skim_lib ==
    /\ store.admin # None
    /\ store.raw > store.accounted
    /\ WriteAnd([store EXCEPT !.raw = store.accounted],
                [past EXCEPT !.skimmed = @ + store.raw - store.accounted])

Skim_skim ==
    /\ store.admin # None
    /\ store.donations > 0
    /\ WriteAnd([store EXCEPT !.donations = 0, !.raw = @ - store.donations],
                [past EXCEPT !.skimmed = @ + store.donations])

Skim_Next ==
    /\ crate = "admin_skim_donations"
    /\ \E u \in Solo, n \in 0..2 :
        \/ Lib /\ (Skim_initialize_lib(u) \/ Skim_deposit(n) \/ Skim_inject_excess(n)
                   \/ Skim_skim_lib)
        \/ Secure /\ (Skim_initialize(u) \/ Skim_deposit(n) \/ Skim_inject_excess(n)
                      \/ Skim_donate(n) \/ Skim_skim)

\* The admin skims what was donated by name, each donation once, and nothing
\* that merely arrived.  A donation never reached the raw balance, so what was
\* skimmed beyond the injected excess is missing from the deposits: see
\* Skim_DepositsUntouched.
Skim_OnlyDonations ==
    store.admin # None =>
        /\ past.skimmed + store.donations = past.donated
        /\ store.raw + past.skimmed = store.accounted + past.injected

\* admin_skim_donations/src/lib.rs:255 says of a skim after a donation "user
\* deposits untouched": then the raw balance covers the deposits.
Skim_DepositsUntouched == store.accounted > 0 => store.raw >= store.accounted

-----------------------------------------------------------------------------
(* rebasing_token_accounting.  past.live is the vault's balance in a token *)
(* that rebases.                                                           *)
Rebase_Init ==
    /\ crate = "rebasing_token_accounting"
    /\ store = [shares |-> Zero, tokens |-> 0, total |-> 0, live |-> 0]
    /\ past = [live |-> 0]

\* MaxAssets bounds the shares of an account and the tokens; a deposit into a
\* vault that was rebased below zero makes negative shares.
Rebase_new_shares(n) ==
    IF store.total = 0 \/ store.tokens = 0 THEN n ELSE Quotient(n * store.total, store.tokens)

Rebase_deposit_lib(u, n) ==
    /\ n > 0
    /\ store.shares[u] + Rebase_new_shares(n) \in -MaxAssets..MaxAssets /\ store.tokens + n <= MaxAssets
    /\ WriteAnd([store EXCEPT !.shares[u] = @ + Rebase_new_shares(n),
                              !.total = @ + Rebase_new_shares(n),
                              !.tokens = @ + n, !.live = @ + n],
                [live |-> past.live + n])

Rebase_deposit(u, n) ==
    /\ n > 0
    /\ store.shares[u] + Rebase_new_shares(n) \in -MaxAssets..MaxAssets /\ store.tokens + n <= MaxAssets
    /\ WriteAnd([store EXCEPT !.shares[u] = @ + Rebase_new_shares(n),
                              !.total = @ + Rebase_new_shares(n), !.tokens = @ + n],
                [live |-> past.live + n])

Rebase_tokens_out(n) == Quotient(n * store.tokens, store.total)

Rebase_withdraw_lib(u, n) ==
    /\ n > 0
    /\ store.shares[u] >= n
    /\ store.total # 0
    /\ WriteAnd([store EXCEPT !.shares[u] = @ - n, !.total = @ - n,
                              !.tokens = @ - Rebase_tokens_out(n), !.live = @ - Rebase_tokens_out(n)],
                [live |-> past.live - Rebase_tokens_out(n)])

Rebase_withdraw(u, n) ==
    /\ n > 0
    /\ store.shares[u] >= n
    /\ store.total # 0
    /\ WriteAnd([store EXCEPT !.shares[u] = @ - n, !.total = @ - n,
                              !.tokens = @ - Rebase_tokens_out(n)],
                [live |-> past.live - Rebase_tokens_out(n)])

\* A rebase that the accounting of lib.rs does not see.
Rebase_vulnerable_entry_lib(delta) ==
    /\ past.live + delta \in -1..MaxAssets
    /\ WriteAnd([store EXCEPT !.live = @ + delta], [live |-> past.live + delta])

Rebase_rebase(delta) ==
    /\ past.live + delta \in -1..MaxAssets
    /\ WriteAnd([store EXCEPT !.tokens = @ + delta], [live |-> past.live + delta])

Rebase_Next ==
    /\ crate = "rebasing_token_accounting"
    /\ \E u \in Address, n \in 0..2, delta \in {-1, 1} :
        \/ Lib /\ (Rebase_deposit_lib(u, n) \/ Rebase_withdraw_lib(u, n)
                   \/ Rebase_vulnerable_entry_lib(delta))
        \/ Secure /\ (Rebase_deposit(u, n) \/ Rebase_withdraw(u, n) \/ Rebase_rebase(delta))

\* The shares together own exactly what the vault holds, after any rebase.
Rebase_SharesOwnTheBalance ==
    /\ store.tokens = past.live
    /\ store.total = SumFunction(store.shares)

\* A deposit or a withdrawal of one account takes nothing from the others.
\* A rebase leaves every account the shares it had, so that all bear it in
\* proportion: downwards it makes every share worth less.
Rebase_OthersKeepTheirs ==
    IF store'.total = store.total THEN store'.shares = store.shares
    ELSE (store.total > 0 /\ store.tokens >= 0)
             => NotDiluted(store.tokens, store.total, store'.tokens, store'.total)

-----------------------------------------------------------------------------
(* rescue_primary_asset.  past.held is the vault's balance in each token.  *)
(* withdraw subtracts with checked_sub, which on a signed type lets an     *)
(* account go below zero at the expense of the others.                     *)
RescueToken == {"managed", "other"}

Rescue_Init ==
    /\ crate = "rescue_primary_asset"
    /\ store = [admin |-> None, token |-> None, balance |-> Zero]
    /\ past = [held |-> [t \in RescueToken |-> IF t = "managed" THEN 0 ELSE 2]]

Rescue_initialize(admin) ==
    store.admin = None /\ Write([store EXCEPT !.admin = admin, !.token = "managed"])

Rescue_deposit(u, n) ==
    /\ store.token # None
    /\ n >= 0 /\ past.held["managed"] + n <= MaxAssets
    /\ store.balance[u] + n <= MaxAssets
    /\ WriteAnd([store EXCEPT !.balance[u] = @ + n], [past EXCEPT !.held["managed"] = @ + n])

Rescue_withdraw(u, n) ==
    /\ store.token # None
    /\ token_moves(past.held["managed"], n)
    /\ store.balance[u] - n >= -2                        \* bound on an overdraft
    /\ WriteAnd([store EXCEPT !.balance[u] = @ - n], [past EXCEPT !.held["managed"] = @ - n])

Rescue_rescue_token_lib(t, n) ==
    /\ store.admin # None
    /\ token_moves(past.held[t], n)
    /\ Observe([past EXCEPT !.held[t] = @ - n])

Rescue_rescue_token(t, n) == t # store.token /\ Rescue_rescue_token_lib(t, n)

Rescue_Next ==
    /\ crate = "rescue_primary_asset"
    /\ \E u \in Address, n \in Sums, t \in RescueToken :
        \/ Lib /\ (Rescue_initialize(u) \/ Rescue_deposit(u, n) \/ Rescue_withdraw(u, n)
                   \/ Rescue_rescue_token_lib(t, n))
        \/ Secure /\ (Rescue_initialize(u) \/ Rescue_deposit(u, n) \/ Rescue_withdraw(u, n)
                      \/ Rescue_rescue_token(t, n))

Owed(balance) == [u \in Address |-> IF balance[u] > 0 THEN balance[u] ELSE 0]
Overdrawn(balance) == [u \in Address |-> IF balance[u] < 0 THEN -balance[u] ELSE 0]

\* What the accounts are owed is what the vault holds, but for what others
\* have overdrawn: expect("insufficient funds") stops no overdraft as long as
\* the vault has the tokens.  No rescue takes a part of it.
Rescue_OwedIsHeld ==
    store.token # None =>
        SumFunction(Owed(store.balance))
            = past.held[store.token] + SumFunction(Overdrawn(store.balance))

-----------------------------------------------------------------------------
(* unprotected_emergency_withdraw.  past.signer signed the latest deposit  *)
(* or withdrawal.                                                          *)
Emergency_Init ==
    /\ crate = "unprotected_emergency_withdraw"
    /\ store = [admin |-> None, balance |-> Zero, unlock |-> [u \in Address |-> None]]
    /\ past = [signer |-> None]

Emergency_initialize(admin) == store.admin = None /\ Write([store EXCEPT !.admin = admin])

Emergency_deposit(u, n, unlock) ==
    /\ store.balance[u] + n \in Sums
    /\ WriteAnd([store EXCEPT !.balance[u] = @ + n, !.unlock[u] = unlock], [signer |-> u])

Emergency_empties(u, signer) ==
    WriteAnd([store EXCEPT !.balance[u] = 0, !.unlock[u] = None], [signer |-> signer])

Emergency_withdraw(u) ==
    /\ store.unlock[u] # None => now >= store.unlock[u]
    /\ Emergency_empties(u, u)

Emergency_emergency_withdraw_lib(u, signer) == Emergency_empties(u, signer)

Emergency_emergency_withdraw(u, signer) ==
    store.admin # None /\ signer = store.admin /\ Emergency_empties(u, signer)

Emergency_Next ==
    /\ crate = "unprotected_emergency_withdraw"
    /\ \E u, v \in Address, n \in {-1, 1}, l \in {0, 2} :
        \/ Lib /\ (Emergency_initialize(u) \/ Emergency_deposit(u, n, l)
                   \/ Emergency_withdraw(u) \/ Emergency_emergency_withdraw_lib(u, v))
        \/ Secure /\ (Emergency_initialize(u) \/ Emergency_deposit(u, n, l)
                      \/ Emergency_withdraw(u) \/ Emergency_emergency_withdraw(u, v))
        \/ CloseLedger

\* Nobody but the owner and the admin changes what an account holds or how
\* long it is locked.  The owner is not bound by the lock: a negative deposit
\* lowers a locked balance, and one with an earlier ledger lifts the lock.
Emergency_ByOwnerOrAdmin ==
    \A u \in Address :
        (store'.balance[u] # store.balance[u] \/ store'.unlock[u] # store.unlock[u])
            => past'.signer \in {u, store.admin}

-----------------------------------------------------------------------------
(* Three vaults store TotalAssets, TotalShares and Shares(user) and read   *)
(* the totals as one while they are absent.                                *)
Pool_of_shares == [assets |-> None, total |-> None, shares |-> Zero]

Assets == IF store.assets = None THEN 1 ELSE store.assets
Total == IF store.total = None THEN 1 ELSE store.total

Seeded(assets, shares) ==
    /\ assets > 0 /\ shares > 0
    /\ store.assets = None
    /\ Write([store EXCEPT !.assets = assets, !.total = shares])

\* assets come in (or go out) and shares are minted to (or burnt from) u.
Exchange(u, assets, shares) ==
    Write([assets |-> Assets + assets, total |-> Total + shares,
           shares |-> [store.shares EXCEPT ![u] = @ + shares]])

PriceKept ==
    (store'.assets # store.assets /\ store.assets # None /\ Assets > 0 /\ Total >= 0)
        => NotDiluted(Assets, Total, store'.assets, store'.total)

(* withdraw_rounding_leak.  seed_shares sets an account's shares and       *)
(* leaves the total alone.                                                 *)
Leak_Init ==
    crate = "withdraw_rounding_leak" /\ store = Pool_of_shares /\ past = [none |-> TRUE]

Leak_initialize(assets, shares) == Seeded(assets, shares)

Leak_seed_shares(u, n) == Write([store EXCEPT !.shares[u] = n])

Leak_burns(u, assets, burnt) ==
    /\ store.shares[u] >= burnt
    /\ Assets - assets >= -2                             \* bound on the assets
    /\ Total - burnt >= -2
    /\ Exchange(u, -assets, -burnt)

Leak_withdraw_lib(u, assets) ==
    /\ assets > 0 /\ Assets # 0
    /\ Leak_burns(u, assets, Quotient(assets * Total, Assets))

Leak_withdraw(u, assets) ==
    /\ assets > 0 /\ Assets # 0
    /\ LET burnt == Quotient(assets * Total + Assets - 1, Assets)
       IN  burnt > 0 /\ Leak_burns(u, assets, burnt)

Leak_Next ==
    /\ crate = "withdraw_rounding_leak"
    /\ \E u \in Address, n \in 0..3, m \in 1..2 :
        \/ Lib /\ (Leak_initialize(n, m) \/ Leak_seed_shares(u, m) \/ Leak_withdraw_lib(u, n))
        \/ Secure /\ (Leak_initialize(n, m) \/ Leak_seed_shares(u, m) \/ Leak_withdraw(u, n))

-----------------------------------------------------------------------------
(* zero_share_rounding                                                     *)
ZeroShare_Init ==
    crate = "zero_share_rounding" /\ store = Pool_of_shares /\ past = [none |-> TRUE]

ZeroShare_initialize(assets, shares) == Seeded(assets, shares)

ZeroShare_minted(n) == Quotient(n * Total, Assets)

ZeroShare_deposit_lib(u, n) ==
    /\ n > 0
    /\ Assets + n <= 6                                   \* bound on the assets
    /\ Exchange(u, n, ZeroShare_minted(n))

ZeroShare_deposit(u, n) == ZeroShare_minted(n) > 0 /\ ZeroShare_deposit_lib(u, n)

ZeroShare_shares_of(u) == store.shares[u]

ZeroShare_Next ==
    /\ crate = "zero_share_rounding"
    /\ \E u \in Address, n \in 0..3, m \in 1..2 :
        \/ Lib /\ (ZeroShare_initialize(n, m) \/ ZeroShare_deposit_lib(u, n))
        \/ Secure /\ (ZeroShare_initialize(n, m) \/ ZeroShare_deposit(u, n))

\* Whoever pays in owns more than before, and the others no less.
ZeroShare_DepositorGains ==
    (store.assets # None /\ store'.assets # store.assets) =>
        /\ \E u \in Address : store'.shares[u] > ZeroShare_shares_of(u)
        /\ PriceKept

-----------------------------------------------------------------------------
(* free_share_rounding                                                     *)
FreeShare_Init ==
    crate = "free_share_rounding" /\ store = Pool_of_shares /\ past = [none |-> TRUE]

FreeShare_initialize(assets, shares) == Seeded(assets, shares)

FreeShare_issues(u, shares, required) ==
    /\ shares > 0
    /\ Total + shares <= 6                               \* bound on the shares
    /\ Exchange(u, required, shares)

FreeShare_mint_lib(u, shares) == FreeShare_issues(u, shares, Quotient(shares * Assets, Total))

\* The price is rounded up.
FreeShare_mint(u, shares) ==
    FreeShare_issues(u, shares, Quotient(shares * Assets + Total - 1, Total))

FreeShare_Next ==
    /\ crate = "free_share_rounding"
    /\ \E u \in Address, n \in 0..3, m \in 1..3 :
        \/ Lib /\ (FreeShare_initialize(n, m) \/ FreeShare_mint_lib(u, n))
        \/ Secure /\ (FreeShare_initialize(n, m) \/ FreeShare_mint(u, n))

\* Minting never makes the existing shares worth less.
FreeShare_PriceKept ==
    (store.total # None /\ store'.total # store.total)
        => NotDiluted(Assets, Total, store'.assets, store'.total)

-----------------------------------------------------------------------------
(* empty_vault_share_inflation.  VIRTUAL_OFFSET is two here.               *)
VIRTUAL_OFFSET == 2

Inflation_Init ==
    /\ crate = "empty_vault_share_inflation"
    /\ store = [assets |-> 0, total |-> 0, shares |-> Zero]
    /\ past = [none |-> TRUE]

Inflation_mints(u, n, minted) ==
    /\ n > 0 /\ store.assets + n <= MaxAssets
    /\ minted > 0
    /\ Write([assets |-> store.assets + n, total |-> store.total + minted,
              shares |-> [store.shares EXCEPT ![u] = @ + minted]])

Inflation_deposit_lib(u, n) ==
    Inflation_mints(u, n, IF store.total = 0 THEN n ELSE Quotient(n * store.total, store.assets))

Inflation_deposit(u, n) ==
    Inflation_mints(u, n, Quotient(n * (store.total + VIRTUAL_OFFSET), store.assets + VIRTUAL_OFFSET))

Inflation_donate(n) ==
    /\ n > 0 /\ store.assets + n <= MaxAssets
    /\ Write([store EXCEPT !.assets = @ + n])

Inflation_Next ==
    /\ crate = "empty_vault_share_inflation"
    /\ \E u \in Address, n \in 0..2 :
        \/ Lib /\ (Inflation_deposit_lib(u, n) \/ Inflation_donate(n))
        \/ Secure /\ (Inflation_deposit(u, n) \/ Inflation_donate(n))

\* Counting the virtual assets and shares, no deposit makes a share worth
\* less, the first deposit after a donation included.
Inflation_PriceKept ==
    NotDiluted(store.assets + VIRTUAL_OFFSET, store.total + VIRTUAL_OFFSET,
               store'.assets + VIRTUAL_OFFSET, store'.total + VIRTUAL_OFFSET)

-----------------------------------------------------------------------------
(* vault_donation_accounting                                               *)
Donation_Init ==
    /\ crate = "vault_donation_accounting"
    /\ store = [assets |-> 0, total |-> 0, shares |-> Zero]
    /\ past = [deposited |-> Zero]

\* LiveBalance in lib.rs, ManagedAssets in secure.rs.
Donation_deposit(u, n) ==
    LET minted == IF store.total = 0 THEN n ELSE Quotient(n * store.total, store.assets)
    IN  /\ n > 0 /\ store.assets + n <= MaxAssets
        /\ minted > 0
        /\ WriteAnd([assets |-> store.assets + n, total |-> store.total + minted,
                     shares |-> [store.shares EXCEPT ![u] = @ + minted]],
                    [past EXCEPT !.deposited[u] = @ + n])

Donation_donate_lib(n) ==
    /\ n > 0 /\ store.assets + n <= MaxAssets
    /\ Write([store EXCEPT !.assets = @ + n])

\* A donation is not managed: it changes nothing.
Donation_donate(n) == n > 0 /\ store.assets + n <= MaxAssets /\ Write(store)

Donation_shares_of(u) == store.shares[u]

Donation_Next ==
    /\ crate = "vault_donation_accounting"
    /\ \E u \in Address, n \in 0..2 :
        \/ Lib /\ (Donation_deposit(u, n) \/ Donation_donate_lib(n))
        \/ Secure /\ (Donation_deposit(u, n) \/ Donation_donate(n))

\* Whatever is donated between two deposits, an account owns one share for
\* each unit it deposited.
Donation_SharesAreDeposits ==
    \A u \in Address : Donation_shares_of(u) = past.deposited[u]

-----------------------------------------------------------------------------
(* deposit_cap_wrong_amount.  FeeToken keeps a tenth of a transfer;        *)
(* past.held is the vault's balance in it.                                 *)
DEPOSIT_CAP == 3

Cap_Init ==
    /\ crate = "deposit_cap_wrong_amount"
    /\ store = [credited |-> 0, token |-> None]
    /\ past = [held |-> 0, wallet |-> 0]

Cap_initialize(token) == Write([store EXCEPT !.token = token])

Cap_token_mint(n) == past.wallet + n \in 0..6 /\ Observe([past EXCEPT !.wallet = @ + n])

Cap_token_transfer(n) ==
    LET received == Quotient(n * 90, 100)
    IN  [held |-> past.held + received, wallet |-> past.wallet - n]

Cap_deposit_lib(n) ==
    /\ n > 0
    /\ n <= DEPOSIT_CAP
    /\ store.token # None
    /\ past.wallet >= n
    /\ store.credited <= DEPOSIT_CAP                     \* bound on the deposits
    /\ WriteAnd([store EXCEPT !.credited = @ + Cap_token_transfer(n).held - past.held],
                Cap_token_transfer(n))

Cap_deposit(n) ==
    /\ n > 0
    /\ store.token # None
    /\ past.wallet >= n
    /\ LET received == Cap_token_transfer(n).held - past.held
       IN  /\ store.credited + received <= DEPOSIT_CAP
           /\ WriteAnd([store EXCEPT !.credited = @ + received], Cap_token_transfer(n))

Cap_total_credited == store.credited

Cap_Next ==
    /\ crate = "deposit_cap_wrong_amount"
    /\ \E u \in Solo, n \in 0..3 :
        \/ Cap_token_mint(n)
        \/ Lib /\ (Cap_initialize(u) \/ Cap_deposit_lib(n))
        \/ Secure /\ (Cap_initialize(u) \/ Cap_deposit(n))

\* The deposits together stay within the cap, and what is credited arrived.
Cap_WithinCap == Cap_total_credited <= DEPOSIT_CAP /\ Cap_total_credited = past.held
-----------------------------------------------------------------------------
(* sequence_as_timestamp.  The clock counts seconds; a ledger closes every *)
(* LedgerSeconds of them, so the sequence runs behind the seconds.         *)
(* past.due is the second at which the depositor's lock ends.              *)
LedgerSeconds == 2

Units_Init ==
    /\ crate = "sequence_as_timestamp"
    /\ store = [balance |-> 0, unlock |-> None]
    /\ past = [due |-> None]

Units_sequence == now \div LedgerSeconds

\* A second deposit moves the end of the lock for the first one too.
Units_deposits(n, unlock, duration) ==
    /\ store.balance + n \in Sums
    /\ WriteAnd([balance |-> store.balance + n, unlock |-> unlock],
                [past EXCEPT !.due = now + duration])

Units_deposit_lib(n, duration) == Units_deposits(n, Units_sequence + duration, duration)

Units_deposit(n, duration) == Units_deposits(n, now + duration, duration)

Units_open_lib == store.unlock # None /\ Units_sequence >= store.unlock

Units_open == store.unlock # None /\ now >= store.unlock

Units_withdraws ==
    WriteAnd([balance |-> 0, unlock |-> None], [past EXCEPT !.due = None])

Units_withdraw_lib == Units_open_lib /\ Units_withdraws

Units_withdraw == Units_open /\ Units_withdraws

Units_Next ==
    /\ crate = "sequence_as_timestamp"
    /\ \E n \in -1..1, duration \in 0..2 :
        \/ Lib /\ (Units_deposit_lib(n, duration) \/ Units_withdraw_lib)
        \/ Secure /\ (Units_deposit(n, duration) \/ Units_withdraw)
        \/ CloseLedger

\* A deposit can be withdrawn from the second its duration has passed, not
\* before and not later.
Units_OpenWhenDue ==
    LET open == IF Lib THEN Units_open_lib ELSE Units_open
    IN  open <=> (past.due # None /\ now >= past.due)
=============================================================================
