------------------------------- MODULE Calls --------------------------------
(***************************************************************************)
(* Fixtures on calls out of a contract: what the callee may do before the  *)
(* caller resumes, and what its answer is taken for.  Where a callee calls *)
(* back, store.reentry tells whether the host lets it (external: today's   *)
(* host refuses, and the invocation fails); the mirrors are checked under  *)
(* both.                                                                   *)
(***************************************************************************)
EXTENDS Contract, Functions

MaxPool == 3            \* bound on a pool, a balance or an escrow

-----------------------------------------------------------------------------
(* reentrancy.  past.deposited is what an account put in, net.             *)
Reenter_Init ==
    /\ crate = "reentrancy"
    /\ \E host \in BOOLEAN :
        store = [balance |-> 0, withdrawn |-> 0, reenter |-> FALSE, reentry |-> host]
    /\ past = [deposited |-> 0]

Reenter_deposit(n) ==
    /\ store.balance + n \in -1..MaxPool
    /\ past.deposited + n \in -1..MaxPool
    /\ WriteAnd([store EXCEPT !.balance = @ + n], [deposited |-> past.deposited + n])

Reenter_configure(reenter) == Write([store EXCEPT !.reenter = reenter])

\* on_withdraw withdraws the same amount once more; its flag stops a third time.
Reenter_on_withdraw == store.reenter => store.reentry

Reenter_calls == IF store.reenter THEN 2 ELSE 1

\* Overdrawing is not refused: checked_sub fails at the end of i128 only.
\* The balance read before the callback is written after it.
Reenter_withdraw_lib(n) ==
    /\ Reenter_on_withdraw
    /\ store.balance - n \in -1..MaxPool
    /\ store.withdrawn + Reenter_calls * n \in -1..MaxPool
    /\ Write([store EXCEPT !.balance = @ - n, !.withdrawn = @ + Reenter_calls * n,
                           !.reenter = FALSE])

Reenter_withdraw(n) ==
    /\ Reenter_on_withdraw
    /\ store.balance - Reenter_calls * n \in -1..MaxPool
    /\ store.withdrawn + Reenter_calls * n \in -1..MaxPool
    /\ Write([store EXCEPT !.balance = @ - Reenter_calls * n,
                           !.withdrawn = @ + Reenter_calls * n, !.reenter = FALSE])

Reenter_get_balance == store.balance

Reenter_get_withdrawn == store.withdrawn

Reenter_Next ==
    /\ crate = "reentrancy"
    /\ \E n \in -1..2, reenter \in BOOLEAN :
        \/ Reenter_configure(reenter)
        \/ Lib /\ (Reenter_deposit(n) \/ Reenter_withdraw_lib(n))
        \/ Secure /\ (Reenter_deposit(n) \/ Reenter_withdraw(n))

\* Every withdrawal is charged to the balance, a nested one too.
Reenter_WithdrawalsCharged == Reenter_get_balance + Reenter_get_withdrawn = past.deposited

-----------------------------------------------------------------------------
(* recursive_hook_depth.  past.minted is the supply, past.deepest the      *)
(* depth of the deepest transfer that went through.                        *)
MAX_HOOK_DEPTH == 1

Hook_Init ==
    /\ crate = "recursive_hook_depth"
    /\ \E host \in BOOLEAN :
        store = [balance |-> Zero, recurse |-> [u \in Address |-> FALSE], hook_count |-> 0,
                 hook_depth |-> 0, reentry |-> host]
    /\ past = [minted |-> 0, deepest |-> 0]

Hook_mint(u, n) ==
    /\ past.minted + n \in 0..2 /\ store.balance[u] + n \in -1..2
    /\ WriteAnd([store EXCEPT !.balance[u] = @ + n], [past EXCEPT !.minted = @ + n])

Hook_configure(u, recurse) == Write([store EXCEPT !.recurse[u] = recurse])

\* A receiver that recurses sends the amount back, once: its flag is cleared first.
Hook_on_xfer(from, to) ==
    (IF store.recurse[to] THEN {to} ELSE {})
        \union (IF store.recurse[to] /\ store.recurse[from] THEN {from} ELSE {})

Hook_depth(from, to) == 1 + Cardinality(Hook_on_xfer(from, to))

\* Transfers of an odd depth move the amount, of an even depth return it.
Hook_moved(from, to, n) ==
    LET d == Hook_depth(from, to)
        b == [store.balance EXCEPT ![from] = @ - n]
        after == IF d = 2 THEN store.balance ELSE [b EXCEPT ![to] = @ + n]
    IN  /\ store.balance[from] >= n
        /\ d > 1 => store.reentry /\ store.balance[to] >= 0
        /\ \A u \in Address : after[u] \in -1..2
        /\ WriteAnd([store EXCEPT !.balance = after,
                                  !.recurse = [u \in Address |-> @[u] /\ u \notin Hook_on_xfer(from, to)],
                                  !.hook_count = IF Lib THEN Capped(@ + d) ELSE @],
                    [past EXCEPT !.deepest = IF d > @ THEN d ELSE @])

Hook_transfer_lib(from, to, n) == store.hook_count < 3 /\ Hook_moved(from, to, n)

\* The nested transfer finds the depth at its limit; the invocation fails.
Hook_transfer(from, to, n) ==
    /\ store.hook_depth < MAX_HOOK_DEPTH
    /\ Hook_depth(from, to) <= MAX_HOOK_DEPTH
    /\ Hook_moved(from, to, n)

Hook_balance(u) == store.balance[u]

Hook_Next ==
    /\ crate = "recursive_hook_depth"
    /\ \E from, to \in Address, n \in {-1, 1}, recurse \in BOOLEAN :
        \/ Hook_configure(to, recurse)
        \/ Lib /\ (Hook_mint(to, n) \/ Hook_transfer_lib(from, to, n))
        \/ Secure /\ (Hook_mint(to, n) \/ Hook_transfer(from, to, n))

\* No transfer runs inside another, the depth is back at zero after each, and
\* the balances add up to the supply.
Hook_Flat ==
    /\ past.deepest <= MAX_HOOK_DEPTH
    /\ store.hook_depth = 0
    /\ SumFunction([u \in Address |-> Hook_balance(u)]) = past.minted

-----------------------------------------------------------------------------
(* callback_before_invariant.  past.net is what was put in less what was   *)
(* lent.                                                                   *)
Callback_Init ==
    /\ crate = "callback_before_invariant"
    /\ store = [reserve |-> None, balance |-> 0, inflates |-> FALSE]
    /\ past = [net |-> 0]

Callback_reserve == IF store.reserve = None THEN 0 ELSE store.reserve

Callback_initialize(n) ==
    /\ store.reserve = None
    /\ WriteAnd([reserve |-> n, balance |-> n, inflates |-> FALSE], [net |-> n])

Callback_set_callback_inflates(inflates) == Write([store EXCEPT !.inflates = inflates])

\* The balance the callback leaves of the one it finds.
Callback_run_callback(n) ==
    IF store.inflates /\ n < Callback_reserve THEN Callback_reserve ELSE n

Callback_run_callback_lib(n) == Callback_run_callback(n)

Callback_balance == store.balance

\* The reserve is checked on what the callback left.
Callback_flash_loan_lib(n) ==
    LET post == Callback_run_callback_lib(Callback_balance - n)
    IN  /\ n <= Callback_balance
        /\ post >= Callback_reserve
        /\ post \in -1..MaxPool /\ past.net - n \in -MaxPool..MaxPool
        /\ WriteAnd([store EXCEPT !.balance = post], [net |-> past.net - n])

\* The reserve is checked on what the loan leaves, whatever the callback does.
Callback_flash_loan(n) ==
    LET post == Callback_run_callback(Callback_balance - n)
    IN  /\ n <= Callback_balance
        /\ Callback_balance - n >= Callback_reserve
        /\ post \in -1..MaxPool /\ past.net - n \in -MaxPool..MaxPool
        /\ WriteAnd([store EXCEPT !.balance = post], [net |-> past.net - n])

Callback_deposit(n) ==
    /\ Callback_balance + n \in -1..MaxPool /\ past.net + n \in -MaxPool..MaxPool
    /\ WriteAnd([store EXCEPT !.balance = @ + n], [net |-> past.net + n])

Callback_Next ==
    /\ crate = "callback_before_invariant"
    /\ \E n \in -1..2, inflates \in BOOLEAN :
        \/ Lib /\ (Callback_initialize(n) \/ Callback_set_callback_inflates(inflates)
                   \/ Callback_flash_loan_lib(n) \/ Callback_deposit(n))
        \/ Secure /\ (Callback_initialize(n) \/ Callback_set_callback_inflates(inflates)
                      \/ Callback_flash_loan(n) \/ Callback_deposit(n))

\* The pool's balance is what was put in less what was lent: no callback makes
\* up for a loan by writing the balance.
Callback_BalanceIsReal == Callback_balance = past.net

-----------------------------------------------------------------------------
(* ignored_return.  The token is the crate's mock, whose transfer returns  *)
(* silently when told to fail; both contracts then mark the escrow as      *)
(* released.  past.minted is what the escrow was given.                    *)
Ignored_Init ==
    /\ crate = "ignored_return"
    /\ store = [released |-> None, amount |-> 0, fails |-> FALSE, escrow |-> 0, recipient |-> 0]
    /\ past = [minted |-> 0, failing |-> FALSE]

Ignored_mint(n) ==
    /\ past.minted + n <= MaxPool
    /\ WriteAnd([store EXCEPT !.escrow = @ + n], [past EXCEPT !.minted = @ + n])

Ignored_set_fail(fail) == Write([store EXCEPT !.fails = fail])

Ignored_initialize(n) ==
    /\ store.released = None
    /\ Write([store EXCEPT !.released = FALSE, !.amount = n])

\* What the token's transfer makes of the balances.
Ignored_transfer(s, n) ==
    IF s.fails THEN s ELSE [s EXCEPT !.escrow = @ - n, !.recipient = @ + n]

\* past.failing says whether the token was told to fail at the release.
Ignored_release ==
    /\ store.released = FALSE
    /\ store.fails \/ store.escrow >= store.amount
    /\ WriteAnd([Ignored_transfer(store, store.amount) EXCEPT !.released = TRUE],
                [past EXCEPT !.failing = store.fails])

Ignored_Next ==
    /\ crate = "ignored_return"
    /\ \E n \in -1..2, fail \in BOOLEAN :
        \/ n > 0 /\ Ignored_mint(n)
        \/ Ignored_set_fail(fail)
        \/ Lib /\ (Ignored_initialize(n) \/ Ignored_release)
        \/ Secure /\ (Ignored_initialize(n) \/ Ignored_release)

\* The recipient has nothing before the release, and after it either the amount
\* or, when the token was told to fail, nothing still: the flag is set, the
\* funds stay in the escrow and no second release can move them.  secure.rs:9-11,
\* 47-49 and 81-83 say that Released "is never set to true unless the transfer
\* actually succeeded"; that holds of a token that panics, not of this mock.
Ignored_ReleasedOnce ==
    /\ store.escrow + store.recipient = past.minted
    /\ store.released # TRUE => store.recipient = 0
    /\ store.released = TRUE => store.recipient = IF past.failing THEN 0 ELSE store.amount

-----------------------------------------------------------------------------
(* cross_call_error_swallowed.  past.moved is what the token really moved  *)
(* for an account.                                                         *)
Swallow_Init ==
    /\ crate = "cross_call_error_swallowed"
    /\ store = [credit |-> Zero, fails |-> FALSE]
    /\ past = [moved |-> Zero]

Swallow_initialize == Write([store EXCEPT !.fails = FALSE])

Swallow_set_transfer_fails(fails) == Write([store EXCEPT !.fails = fails])

Swallow_do_token_transfer == ~store.fails

Swallow_deposit_lib(u, n) ==
    /\ store.credit[u] + n \in -1..2
    /\ WriteAnd([store EXCEPT !.credit[u] = @ + n],
                IF Swallow_do_token_transfer THEN [moved |-> [past.moved EXCEPT ![u] = @ + n]]
                                             ELSE past)

Swallow_deposit(u, n) == Swallow_do_token_transfer /\ Swallow_deposit_lib(u, n)

Swallow_credit_balance(u) == store.credit[u]

Swallow_Next ==
    /\ crate = "cross_call_error_swallowed"
    /\ \E u \in Address, n \in {-1, 1}, fails \in BOOLEAN :
        \/ Lib /\ (Swallow_initialize \/ Swallow_set_transfer_fails(fails)
                   \/ (past.moved[u] + n \in -1..2 /\ Swallow_deposit_lib(u, n)))
        \/ Secure /\ (Swallow_initialize \/ Swallow_set_transfer_fails(fails)
                      \/ Swallow_deposit(u, n))

\* An account is credited exactly with what the token moved.
Swallow_CreditIsMoved == \A u \in Address : Swallow_credit_balance(u) = past.moved[u]
-----------------------------------------------------------------------------
(* flash_repay_wrong_token.  The tokens are external: store.pool holds the *)
(* lender's balance in each.  past.due is what was deposited and the fees  *)
(* of the loans, in each token.                                            *)
FlashTokens == {"asset", "worthless"}

Repay_Init ==
    /\ crate = "flash_repay_wrong_token"
    /\ store = [pool |-> [t \in FlashTokens |-> 0], repaid |-> FALSE]
    /\ past = [due |-> [t \in FlashTokens |-> 0]]

Repay_deposit(t, n) ==
    /\ n >= 0
    /\ store.pool[t] + n <= MaxPool
    /\ WriteAnd([store EXCEPT !.pool[t] = @ + n], [due |-> [past.due EXCEPT ![t] = @ + n]])

\* Whole stands for the hundred parts of which the fee is one.
Repay_fee(n) == n \div Whole

\* What the borrower pays back in each token: an honest one, and those of Mode.
Repay_on_flash_loan(mode, t, n) ==
    CASE mode = "Honest" -> [u \in FlashTokens |-> IF u = t THEN n + Repay_fee(n) ELSE 0]
      [] mode = "WorthlessOnly" -> [u \in FlashTokens |-> IF u = "worthless" THEN n + Repay_fee(n) ELSE 0]
      [] mode = "FeeShortfall" ->
            [u \in FlashTokens |-> (IF u = t THEN n + Repay_fee(n) - 1 ELSE 0)
                                   + (IF u = "worthless" THEN n + Repay_fee(n) ELSE 0)]

Repay_lent(t, n, paid) ==
    LET after == [v \in FlashTokens |-> store.pool[v] - (IF v = t THEN n ELSE 0) + paid[v]]
    IN  /\ 0 <= n /\ n <= store.pool[t]
        /\ \A u \in FlashTokens : 0 <= paid[u] /\ after[u] <= MaxPool
        /\ WriteAnd([pool |-> after, repaid |-> TRUE],
                    [due |-> [past.due EXCEPT ![t] = @ + Repay_fee(n)]])

\* The growth is measured in the token the caller names.
Repay_flash_loan_lib(t, n, repay_token, mode) ==
    LET paid == Repay_on_flash_loan(mode, t, n)
    IN  paid[repay_token] >= n + Repay_fee(n) /\ Repay_lent(t, n, paid)

Repay_flash_loan(t, n, repay_token, mode) ==
    LET paid == Repay_on_flash_loan(mode, t, n)
    IN  paid[t] - n >= Repay_fee(n) /\ Repay_lent(t, n, paid)

Repay_is_repaid == store.repaid

Repay_Next ==
    /\ crate = "flash_repay_wrong_token"
    /\ \E t, repay_token \in FlashTokens, n \in -1..2,
          mode \in {"Honest", "WorthlessOnly", "FeeShortfall"} :
        \/ Lib /\ (Repay_deposit(t, n) \/ Repay_flash_loan_lib(t, n, repay_token, mode))
        \/ Secure /\ (Repay_deposit(t, n) \/ Repay_flash_loan(t, n, repay_token, mode))

\* In every token the lender holds the deposits and the fees of its loans,
\* whatever a borrower pays in another.
Repay_HeldInKind ==
    /\ \A t \in FlashTokens : store.pool[t] >= past.due[t]
    /\ (\E t \in FlashTokens : store.pool[t] # past.due[t]) => Repay_is_repaid

-----------------------------------------------------------------------------
(* flash_fee_not_collected.  callback.require_auth() runs no code that can *)
(* write the pool's balance, so a loan that takes anything out fails.      *)
FlashFee_Init ==
    /\ crate = "flash_fee_not_collected"
    /\ store = [balance |-> 0]
    /\ past = [lent |-> FALSE]

FlashFee_initialize(n) == WriteAnd([balance |-> n], [lent |-> FALSE])

FlashFee_get_balance == store.balance

FlashFee_set_balance(n) == WriteAnd([balance |-> n], [lent |-> FALSE])

\* FEE_RATE / FEE_SCALE, as one part of Whole.
FlashFee_fee(n) == Quotient(n, Whole)

FlashFee_loan(n, required) ==
    /\ n <= FlashFee_get_balance
    /\ FlashFee_get_balance - n >= required
    /\ FlashFee_get_balance - n <= MaxPool
    /\ WriteAnd([balance |-> FlashFee_get_balance - n], [lent |-> TRUE])

FlashFee_flash_loan_lib(n) == FlashFee_loan(n, FlashFee_get_balance)

FlashFee_flash_loan(n) == FlashFee_loan(n, FlashFee_get_balance + FlashFee_fee(n))

FlashFee_Next ==
    /\ crate = "flash_fee_not_collected"
    /\ \E n \in -2..2 :
        \/ Lib /\ (FlashFee_initialize(n) \/ FlashFee_set_balance(n)
                   \/ FlashFee_flash_loan_lib(n))
        \/ Secure /\ (FlashFee_initialize(n) \/ FlashFee_set_balance(n)
                      \/ FlashFee_flash_loan(n))

\* A loan never leaves the pool with less.
FlashFee_NothingLeaves == past'.lent => store'.balance >= store.balance

-----------------------------------------------------------------------------
(* flash_receiver_unchecked.  The ledger contract counts repayments in     *)
(* temporary storage until a loan consumes them; the caller of the mirror  *)
(* names the ledger, which may be one that answers as it likes.            *)
(* past.owed is what was deposited, and the fees of the loans.             *)
FLASH_FEE == 1

Receiver_Init ==
    /\ crate = "flash_receiver_unchecked"
    /\ store = [pool |-> 0, recorded |-> 0]
    /\ past = [owed |-> 0]

Receiver_record_repayment(n) ==
    /\ store.recorded + n \in 0..MaxPool
    /\ Write([store EXCEPT !.recorded = @ + n])

\* The entry is temporary: it may expire before it is consumed (external).
Receiver_expire == store.recorded # 0 /\ Write([store EXCEPT !.recorded = 0])

Receiver_deposit(n) ==
    /\ store.pool + n \in -1..MaxPool /\ past.owed + n \in -MaxPool..MaxPool
    /\ WriteAnd([store EXCEPT !.pool = @ + n], [owed |-> past.owed + n])

\* The answer of each receiver, and what it records at the ledger.
Receiver_on_flash_loan(receiver, n) ==
    CASE receiver = "ignoring"       -> [ok |-> FALSE, recorded |-> 0]
      [] receiver = "failing"        -> [ok |-> FALSE, recorded |-> 0]
      [] receiver = "principal_only" -> [ok |-> TRUE, recorded |-> n]
      [] receiver = "full_repay"     -> [ok |-> TRUE, recorded |-> n + FLASH_FEE]

Receiver_flash_loan_lib(receiver, n, ledger) ==
    LET recorded == store.recorded + Receiver_on_flash_loan(receiver, n).recorded
    IN  /\ store.pool >= n
        /\ store.pool - n \in -1..MaxPool /\ past.owed + FLASH_FEE <= MaxPool
        /\ recorded \in -MaxPool..MaxPool
        /\ WriteAnd([pool |-> store.pool - n, recorded |-> recorded],
                    [owed |-> past.owed + FLASH_FEE])

\* consume_repayment removes the entry and returns it.
Receiver_consume_repayment(receiver, n, ledger) ==
    IF ledger = "own" THEN n + FLASH_FEE
    ELSE store.recorded + Receiver_on_flash_loan(receiver, n).recorded

Receiver_flash_loan(receiver, n, ledger) ==
    LET answer == Receiver_on_flash_loan(receiver, n)
        repaid == Receiver_consume_repayment(receiver, n, ledger)
        recorded == IF ledger = "own" THEN store.recorded + answer.recorded ELSE 0
    IN  /\ store.pool >= n
        /\ answer.ok
        /\ repaid >= n + FLASH_FEE
        /\ store.pool - n + repaid <= MaxPool /\ past.owed + FLASH_FEE <= MaxPool
        /\ recorded \in -MaxPool..MaxPool
        /\ WriteAnd([pool |-> store.pool - n + repaid, recorded |-> recorded],
                    [owed |-> past.owed + FLASH_FEE])

Receiver_pool_balance == store.pool

Receiver_Next ==
    /\ crate = "flash_receiver_unchecked"
    /\ \/ Receiver_expire
       \/ \E receiver \in {"ignoring", "failing", "principal_only", "full_repay"},
             n \in -1..2, ledger \in {"shared", "own"} :
            \/ n > 0 /\ Receiver_record_repayment(n)
            \/ Lib /\ (Receiver_deposit(n) \/ Receiver_flash_loan_lib(receiver, n, ledger))
            \/ Secure /\ (Receiver_deposit(n) \/ Receiver_flash_loan(receiver, n, ledger))

\* The pool's books show at least the deposits and the fee of every loan.
Receiver_FeesCollected == Receiver_pool_balance >= past.owed

-----------------------------------------------------------------------------
(* flash_loan_no_check.  The same ledger of repayments; past.deposited is  *)
(* what was put in.                                                        *)
NoCheck_Init ==
    /\ crate = "flash_loan_no_check"
    /\ store = [pool |-> 0, recorded |-> 0]
    /\ past = [deposited |-> 0]

NoCheck_record_repayment(n) ==
    /\ store.recorded + n \in 0..MaxPool
    /\ Write([store EXCEPT !.recorded = @ + n])

NoCheck_deposit(n) ==
    /\ store.pool + n \in -1..MaxPool /\ past.deposited + n \in -MaxPool..MaxPool
    /\ WriteAnd([store EXCEPT !.pool = @ + n], [deposited |-> past.deposited + n])

\* What the borrower records.
NoCheck_on_flash_loan(borrower, n) == IF borrower = "honest" THEN n ELSE 0

NoCheck_flash_loan_lib(borrower, n) ==
    LET recorded == store.recorded + NoCheck_on_flash_loan(borrower, n)
    IN  /\ store.pool >= n
        /\ store.pool - n <= MaxPool /\ recorded \in -MaxPool..MaxPool
        /\ Write([pool |-> store.pool - n, recorded |-> recorded])

\* consume_repayment returns everything recorded, also by others.
NoCheck_consume_repayment(borrower, n) ==
    store.recorded + NoCheck_on_flash_loan(borrower, n)

NoCheck_flash_loan(borrower, n) ==
    LET repaid == NoCheck_consume_repayment(borrower, n)
    IN  /\ store.pool >= n
        /\ repaid >= n
        /\ store.pool - n + repaid <= MaxPool
        /\ Write([pool |-> store.pool - n + repaid, recorded |-> 0])

NoCheck_pool_balance == store.pool

NoCheck_Next ==
    /\ crate = "flash_loan_no_check"
    /\ \E borrower \in {"honest", "dishonest"}, n \in -1..2 :
        \/ n > 0 /\ NoCheck_record_repayment(n)
        \/ Lib /\ (NoCheck_deposit(n) \/ NoCheck_flash_loan_lib(borrower, n))
        \/ Secure /\ (NoCheck_deposit(n) \/ NoCheck_flash_loan(borrower, n))

\* No loan leaves the pool with less than was deposited.
NoCheck_PoolKept == NoCheck_pool_balance >= past.deposited
=============================================================================
