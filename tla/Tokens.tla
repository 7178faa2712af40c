------------------------------- MODULE Tokens -------------------------------
(***************************************************************************)
(* Fixtures on token ledgers, batches, clocks, storage lifetimes and       *)
(* randomness.                                                             *)
(***************************************************************************)
EXTENDS Contract, Functions

Holdings == -1..2       \* bound on a balance; the fixtures let some go negative
MaxIssued == 3          \* bound on the tokens minted, where balances only shrink

\* Both balances are read before either is written: with from = to the second
\* write wins.
ReadThenWrite(balance, op) ==
    [balance EXCEPT ![op.from] = balance[op.from] - op.amount,
                    ![op.to] = balance[op.to] + op.amount]

\* The receiver's balance is read after the sender's was written.
WriteThenRead(balance, op) ==
    LET paid == [balance EXCEPT ![op.from] = @ - op.amount]
    IN  [paid EXCEPT ![op.to] = @ + op.amount]

TransferOps == [from : Address, to : Address, amount : {-1, 1}]

Bounded(balance) == \A u \in Address : balance[u] \in Holdings

-----------------------------------------------------------------------------
(* caller_supplied_ledger.  past.early tells whether a withdrawal took     *)
(* more than the ledgers that have really closed allow.                    *)
Supplied_Init ==
    /\ crate = "caller_supplied_ledger"
    /\ store = [balance |-> 0, released |-> 0, lock |-> None]
    /\ past = [early |-> FALSE]

\* A second deposit restarts the clock and the count of what was released.
Supplied_deposit(n, duration, cliff) ==
    /\ store.balance + n \in Holdings
    /\ Write([balance |-> store.balance + n, released |-> 0,
              lock |-> [since |-> now, duration |-> duration, cliff |-> cliff]])

Supplied_balance == store.balance

Supplied_released == store.released

Supplied_lock_duration == store.lock.duration

Supplied_cliff_duration == store.lock.cliff

Supplied_deposit_ledger == store.lock.since

\* May n be taken at this ledger?  Vesting is on what the balance is now.
Supplied_allows(n, ledger) ==
    LET elapsed == ledger - Supplied_deposit_ledger
        vested == IF elapsed >= Supplied_lock_duration THEN Supplied_balance
                  ELSE Quotient(elapsed * Supplied_balance, Supplied_lock_duration)
    IN  /\ ledger >= Supplied_deposit_ledger + Supplied_cliff_duration
        /\ n <= vested - Supplied_released

Supplied_withdrawn(n) ==
    /\ Supplied_balance - n \in Holdings /\ Supplied_released + n \in Holdings
    /\ WriteAnd([store EXCEPT !.released = @ + n, !.balance = @ - n],
                [early |-> past.early \/ ~Supplied_allows(n, now)])

\* The caller names the ledger.
Supplied_withdraw_lib(n, ledger) ==
    store.lock # None /\ Supplied_allows(n, ledger) /\ Supplied_withdrawn(n)

Supplied_withdraw(n, ledger) ==
    store.lock # None /\ Supplied_allows(n, now) /\ Supplied_withdrawn(n)

Supplied_Next ==
    /\ crate = "caller_supplied_ledger"
    /\ \/ CloseLedger
       \/ \E n \in {-1, 1, 2}, duration \in {0, 2}, cliff \in 0..1, ledger \in 0..4 :
            \/ Lib /\ (Supplied_deposit(n, duration, cliff) \/ Supplied_withdraw_lib(n, ledger))
            \/ Secure /\ (Supplied_deposit(n, duration, cliff) \/ Supplied_withdraw(n, ledger))

\* Nothing is released ahead of the ledgers that have really closed.
Supplied_VestsByRealLedgers == ~past.early

-----------------------------------------------------------------------------
(* batch_pause_bypass.  past.minted counts the admin's mints.              *)
Batch_Init ==
    /\ crate = "batch_pause_bypass"
    /\ store = [admin |-> None, paused |-> FALSE, balance |-> Zero]
    /\ past = [minted |-> 0]

Batch_initialize(u) ==
    store.admin = None /\ Write([store EXCEPT !.admin = u, !.paused = FALSE])

Batch_pause == store.admin # None /\ Write([store EXCEPT !.paused = TRUE])

Batch_unpause == store.admin # None /\ Write([store EXCEPT !.paused = FALSE])

\* The pause does not stop the admin's mint.
Batch_mint(u, n) ==
    /\ store.admin # None
    /\ store.balance[u] + n \in Holdings /\ past.minted < 2
    /\ WriteAnd([store EXCEPT !.balance[u] = @ + n], [minted |-> past.minted + 1])

Batch_is_paused == store.paused

Batch_balance(u) == store.balance[u]

Batch_set(balance) == Bounded(balance) /\ Write([store EXCEPT !.balance = balance])

\* lib.rs never checks that the sender holds the amount.
Batch_transfer_lib(op) == ~Batch_is_paused /\ Batch_set(ReadThenWrite(store.balance, op))

Batch_batch_transfer_lib(op1, op2) ==
    Batch_set(ReadThenWrite(ReadThenWrite(store.balance, op1), op2))

Batch_check_not_paused == ~Batch_is_paused

Batch_internal_transfer(balance, op) == Batch_check_not_paused /\ balance[op.from] >= op.amount

Batch_transfer(op) ==
    Batch_internal_transfer(store.balance, op) /\ Batch_set(ReadThenWrite(store.balance, op))

Batch_batch_transfer(op1, op2) ==
    /\ Batch_internal_transfer(store.balance, op1)
    /\ Batch_internal_transfer(ReadThenWrite(store.balance, op1), op2)
    /\ Batch_set(ReadThenWrite(ReadThenWrite(store.balance, op1), op2))

Batch_Next ==
    /\ crate = "batch_pause_bypass"
    /\ \/ \E u \in Address, n \in {-1, 1} :
            \/ Lib /\ (Batch_initialize(u) \/ Batch_pause \/ Batch_unpause
                       \/ Batch_mint(u, n))
            \/ Secure /\ (Batch_initialize(u) \/ Batch_pause \/ Batch_unpause \/ Batch_mint(u, n))
       \/ \E op1, op2 \in TransferOps :
            \/ Lib /\ (Batch_transfer_lib(op1) \/ Batch_batch_transfer_lib(op1, op2))
            \/ Secure /\ (Batch_transfer(op1) \/ Batch_batch_transfer(op1, op2))

\* While the contract is paused no balance changes, except by the admin's mint.
Batch_PausedMovesNothing ==
    (Batch_is_paused /\ past' = past) => \A u \in Address : Batch_balance(u)' = Batch_balance(u)

-----------------------------------------------------------------------------
(* incomplete_blacklist.  past.minted counts the mints.                    *)
Blacklist_Init ==
    /\ crate = "incomplete_blacklist"
    /\ store = [balance |-> Zero, blacklisted |-> {}]
    /\ past = [minted |-> 0]

Blacklist_mint(u, n) ==
    /\ store.balance[u] + n \in Holdings /\ past.minted < 2
    /\ WriteAnd([store EXCEPT !.balance[u] = @ + n], [minted |-> past.minted + 1])

Blacklist_blacklist(u) == Write([store EXCEPT !.blacklisted = @ \union {u}])

Blacklist_balance(u) == store.balance[u]

Blacklist_transfer_lib(op) ==
    /\ op.to \notin store.blacklisted
    /\ Bounded(ReadThenWrite(store.balance, op))
    /\ Write([store EXCEPT !.balance = ReadThenWrite(@, op)])

Blacklist_transfer(op) == op.from \notin store.blacklisted /\ Blacklist_transfer_lib(op)

Blacklist_Next ==
    /\ crate = "incomplete_blacklist"
    /\ \E u \in Address, n \in {-1, 1}, op \in TransferOps :
        \/ Lib /\ (Blacklist_mint(u, n) \/ Blacklist_blacklist(u) \/ Blacklist_transfer_lib(op))
        \/ Secure /\ (Blacklist_mint(u, n) \/ Blacklist_blacklist(u) \/ Blacklist_transfer(op))

\* An account on the list keeps its balance, except for mints, as sender and as
\* receiver.
Blacklist_ListedIsFrozen ==
    past' = past =>
        \A u \in store.blacklisted : Blacklist_balance(u)' = Blacklist_balance(u)

-----------------------------------------------------------------------------
(* batch_partial_failure.  past.last is the last batch: its length and how *)
(* many of its transfers happened.  past.supply is what was minted.        *)
Partial_Init ==
    /\ crate = "batch_partial_failure"
    /\ store = [balance |-> Zero, success_count |-> 0, complete |-> FALSE]
    /\ past = [supply |-> 0, last |-> [asked |-> 0, done |-> 0]]

Partial_mint(u, n) ==
    /\ store.balance[u] + n \in Holdings
    /\ WriteAnd([store EXCEPT !.balance[u] = @ + n], [past EXCEPT !.supply = @ + n])

Partial_covered(balance, op) == balance[op.from] >= op.amount

\* A transfer that is not covered is skipped.
Partial_skip(balance, op) ==
    IF Partial_covered(balance, op) THEN WriteThenRead(balance, op) ELSE balance

\* No signature is asked for.
Partial_execute_batch_lib(op1, op2) ==
    LET first == Partial_skip(store.balance, op1)
        second == Partial_skip(first, op2)
        done == (IF Partial_covered(store.balance, op1) THEN 1 ELSE 0)
                + (IF Partial_covered(first, op2) THEN 1 ELSE 0)
    IN  /\ Bounded(second)
        /\ WriteAnd([balance |-> second, success_count |-> done, complete |-> TRUE],
                    [past EXCEPT !.last = [asked |-> 2, done |-> done]])

Partial_execute_batch(op1, op2) ==
    LET first == WriteThenRead(store.balance, op1)
    IN  /\ Partial_covered(store.balance, op1)
        /\ Partial_covered(first, op2)
        /\ Bounded(WriteThenRead(first, op2))
        /\ WriteAnd([store EXCEPT !.balance = WriteThenRead(first, op2)],
                    [past EXCEPT !.last = [asked |-> 2, done |-> 2]])

Partial_balance(u) == store.balance[u]

Partial_Next ==
    /\ crate = "batch_partial_failure"
    /\ \/ \E u \in Address, n \in {-1, 1} :
            (Lib /\ Partial_mint(u, n)) \/ (Secure /\ Partial_mint(u, n))
       \/ \E op1, op2 \in TransferOps :
            \/ Lib /\ Partial_execute_batch_lib(op1, op2)
            \/ Secure /\ Partial_execute_batch(op1, op2)

\* A batch happens as a whole or not at all, and moves the supply around.
Partial_AllOrNothing ==
    /\ past.last.done = past.last.asked
    /\ SumFunction([u \in Address |-> Partial_balance(u)]) = past.supply

-----------------------------------------------------------------------------
(* ttl_bump_index_only.  An entry is the last ledger it lives in; set and  *)
(* extend_ttl as the host does them (external).                            *)
MIN_TTL == 1            \* what the host gives a new entry
TTL_THRESHOLD == 1
TTL_EXTEND_TO == 2

Ttl_Init ==
    /\ crate = "ttl_bump_index_only"
    /\ store = [index |-> None, record |-> None]
    /\ past = <<>>

Ttl_live(until) == until # None /\ now <= until

\* A live entry keeps its lifetime, a new or an expired one gets the minimum.
Ttl_set(until) == IF Ttl_live(until) THEN until ELSE now + MIN_TTL

\* Refused on an entry that does not live.
Ttl_bump(until) == IF until - now < TTL_THRESHOLD THEN now + TTL_EXTEND_TO ELSE until

Ttl_register ==
    Write([index |-> Ttl_set(store.index), record |-> Ttl_set(store.record)])

Ttl_refresh_lib ==
    /\ Ttl_live(store.index)
    /\ Write([store EXCEPT !.index = Ttl_bump(@)])

Ttl_refresh ==
    /\ Ttl_live(store.index) /\ Ttl_live(store.record)
    /\ Write([index |-> Ttl_bump(store.index), record |-> Ttl_bump(store.record)])

Ttl_is_indexed == Ttl_live(store.index)

\* Does the read of an indexed account find its record?
Ttl_get_record == Ttl_live(store.record)

Ttl_Next ==
    /\ crate = "ttl_bump_index_only"
    /\ \/ CloseLedger
       \/ Lib /\ (Ttl_register \/ Ttl_refresh_lib)
       \/ Secure /\ (Ttl_register \/ Ttl_refresh)

\* An account that is indexed has its record: the two expire together.
Ttl_IndexedHasRecord == Ttl_is_indexed <=> Ttl_get_record

-----------------------------------------------------------------------------
(* weak_randomness.  Nonces are 0 and 1, their exclusive or is the sum     *)
(* modulo 2; a hash stands for its nonce (sha256, external).               *)
Nonces == 0..1

Lottery_Init ==
    /\ crate = "weak_randomness"
    /\ store = [participants |-> <<>>, commit |-> [u \in Address |-> None],
                reveal |-> [u \in Address |-> None], seed |-> 0, reveal_count |-> 0,
                winner |-> None]
    /\ past = [nonces |-> <<>>, drawn |-> None]

Lottery_winner == store.winner

\* An account may enter more than once.
Lottery_enter_lib(u) ==
    /\ Len(store.participants) < 2
    /\ Write([store EXCEPT !.participants = Append(@, u)])

Lottery_pick_winner_lib ==
    /\ store.participants # <<>>
    /\ Write([store EXCEPT !.winner = store.participants[(now % Len(store.participants)) + 1]])

\* May be repeated, also after a reveal: a new entry, and a new commitment.
Lottery_commit(u, nonce) ==
    /\ Len(store.participants) < 2
    /\ Write([store EXCEPT !.participants = Append(@, u), !.commit[u] = nonce])

\* May be repeated: the nonce is counted, and mixed in, once more.
Lottery_reveal(u, nonce) ==
    /\ store.commit[u] = nonce
    /\ store.reveal_count < 3
    /\ WriteAnd([store EXCEPT !.seed = (@ + nonce) % 2, !.reveal_count = @ + 1,
                              !.reveal[u] = nonce],
                [past EXCEPT !.nonces = Append(@, nonce)])

Lottery_draw ==
    /\ store.participants # <<>>
    /\ store.reveal_count = Len(store.participants)
    /\ WriteAnd([store EXCEPT !.winner = store.participants[(store.seed % Len(store.participants)) + 1]],
                [past EXCEPT !.drawn = [of |-> store.participants, seed |-> store.seed,
                                        silent |-> {u \in Range(store.participants) :
                                                        store.reveal[u] = None}]])

Lottery_Next ==
    /\ crate = "weak_randomness"
    /\ \/ CloseLedger
       \/ Lib /\ ((\E u \in Address : Lottery_enter_lib(u)) \/ Lottery_pick_winner_lib)
       \/ Secure /\ (Lottery_draw
                     \/ \E u \in Address, nonce \in Nonces :
                            Lottery_commit(u, nonce) \/ Lottery_reveal(u, nonce))

\* The seed is made of the revealed nonces alone, and the winner is the
\* participant it picks when as many reveals as entries were made.
Lottery_DrawnFromReveals ==
    /\ store.seed = SumFunction(past.nonces) % 2
    /\ past.drawn # None =>
           Lottery_winner = past.drawn.of[(past.drawn.seed % Len(past.drawn.of)) + 1]

\* What draw asserts ("not all participants have revealed"): nobody whose
\* nonce is missing takes part in a draw.
Lottery_AllRevealed == past.drawn # None => past.drawn.silent = {}
-----------------------------------------------------------------------------
(* fee_on_transfer: a vault over a token, which is the crate's FeeToken or *)
(* StandardToken.  The 90 % that FeeToken delivers are scaled down to one  *)
(* half; past.held is what the vault holds in each token, store.wallet what    *)
(* the depositor holds.                                                    *)
FeeIn_Init ==
    /\ crate = "fee_on_transfer"
    /\ store = [token |-> None, balance |-> 0, wallet |-> [t \in {"fee", "standard"} |-> 0]]
    /\ past = [held |-> [t \in {"fee", "standard"} |-> 0]]

\* May be called again, with another token.
FeeIn_initialize(token) == Write([store EXCEPT !.token = token])

FeeIn_mint(token, n) ==
    /\ store.wallet[token] + n \in Holdings
    /\ Write([store EXCEPT !.wallet[token] = @ + n])

\* What arrives of a transfer of n; nothing refuses a negative one.
FeeIn_received(token, n) == IF token = "fee" THEN Quotient(n, 2) ELSE n

FeeIn_balance == store.balance

\* The transfer to the vault, and the credit.
FeeIn_deposits(n, credit) ==
    /\ store.wallet[store.token] >= n
    /\ store.wallet[store.token] - n \in Holdings
    /\ WriteAnd([store EXCEPT !.wallet[store.token] = @ - n, !.balance = FeeIn_balance + credit],
                [past EXCEPT !.held[store.token] = @ + FeeIn_received(store.token, n)])

FeeIn_deposit_lib(n) == store.token # None /\ FeeIn_deposits(n, n)

FeeIn_deposit(n) ==
    /\ store.token # None
    /\ LET pre == past.held[store.token]
           post == pre + FeeIn_received(store.token, n)
       IN  FeeIn_deposits(n, post - pre)

FeeIn_Next ==
    /\ crate = "fee_on_transfer"
    /\ \E t \in {"fee", "standard"}, n \in -1..2 :
        /\ FeeIn_balance \in Holdings
        /\ \A k \in {"fee", "standard"} : past.held[k] \in 0..2
        /\ \/ FeeIn_mint(t, n)
           \/ Lib /\ (FeeIn_initialize(t) \/ FeeIn_deposit_lib(n))
           \/ Secure /\ (FeeIn_initialize(t) \/ FeeIn_deposit(n))

\* What the depositor is owed was received, whichever tokens it came in.
FeeIn_OwedIsHeld == FeeIn_balance <= past.held["fee"] + past.held["standard"]

-----------------------------------------------------------------------------
(* self_deposit.  The contract itself signs nothing.  Amounts are          *)
(* positive: with a negative one transfer_from still reaches the contract. *)
ThisContract == "this contract"
Holders == Solo \cup {ThisContract}

SelfIn_Init ==
    /\ crate = "self_deposit"
    /\ store = [balance |-> [a \in Holders |-> 0], allowance |-> [a \in Holders |-> 0]]
    /\ past = [minted |-> 0]

SelfIn_mint(to, n) ==
    /\ store.balance[to] + n \in Holdings
    /\ WriteAnd([store EXCEPT !.balance[to] = @ + n],
                IF to = ThisContract THEN [past EXCEPT !.minted = @ + n] ELSE past)

\* One spender stands for all.
SelfIn_approve(owner, n) == owner # ThisContract /\ Write([store EXCEPT !.allowance[owner] = n])

SelfIn_balance(a) == store.balance[a]

SelfIn_allowance(a) == store.allowance[a]

\* transfer does not look at the balance.
SelfIn_transfer_lib(op) ==
    /\ op.from # ThisContract
    /\ \A a \in Holders : ReadThenWrite(store.balance, op)[a] \in Holdings
    /\ Write([store EXCEPT !.balance = ReadThenWrite(store.balance, op)])

SelfIn_transfer(op) == op.to # ThisContract /\ SelfIn_transfer_lib(op)

SelfIn_transfer_from_lib(op) ==
    /\ SelfIn_allowance(op.from) >= op.amount
    /\ SelfIn_balance(op.from) >= op.amount
    /\ \A a \in Holders : WriteThenRead(store.balance, op)[a] \in Holdings
    /\ Write([balance |-> WriteThenRead(store.balance, op),
              allowance |-> [store.allowance EXCEPT ![op.from] = @ - op.amount]])

SelfIn_transfer_from(op) == op.to # ThisContract /\ SelfIn_transfer_from_lib(op)

SelfIn_Next ==
    /\ crate = "self_deposit"
    /\ \E op \in [from : Holders, to : Holders, amount : 1..2] :
        \/ Lib /\ (SelfIn_mint(op.to, op.amount) \/ SelfIn_approve(op.from, op.amount)
                   \/ SelfIn_transfer_lib(op) \/ SelfIn_transfer_from_lib(op))
        \/ Secure /\ (SelfIn_mint(op.to, op.amount) \/ SelfIn_approve(op.from, op.amount)
                      \/ SelfIn_transfer(op) \/ SelfIn_transfer_from(op))

\* The contract, which cannot send, holds only what was minted to it.
SelfIn_NothingStranded == SelfIn_balance(ThisContract) <= past.minted
-----------------------------------------------------------------------------
(* negative_fee_bps.  past.by_admin tells whether set_fee set the rate,    *)
(* past.gain what transfers under such rates created.                      *)
Negative_Init ==
    /\ crate = "negative_fee_bps"
    /\ store = [admin |-> None, fee_bps |-> 0, balance |-> Zero]
    /\ past = [by_admin |-> FALSE, gain |-> 0]

\* Anyone may call initialize, again too, with any rate.
Negative_initialize(admin, bps) ==
    WriteAnd([store EXCEPT !.admin = admin, !.fee_bps = bps], [past EXCEPT !.by_admin = FALSE])

Negative_mint(to, n) ==
    /\ store.balance[to] + n \in Holdings
    /\ Write([store EXCEPT !.balance[to] = @ + n])

Negative_set_fee_lib(bps) ==
    /\ store.admin # None
    /\ bps <= Whole
    /\ WriteAnd([store EXCEPT !.fee_bps = bps], [past EXCEPT !.by_admin = TRUE])

Negative_set_fee(bps) == bps >= 0 /\ Negative_set_fee_lib(bps)

Negative_current_fee_bps == store.fee_bps

\* Nobody receives the fee; transfer does not look at the balance.
Negative_transfer(from, to, n) ==
    LET fee == Quotient(n * Negative_current_fee_bps, Whole)
        paid == [store.balance EXCEPT ![from] = @ - n]
        after == [paid EXCEPT ![to] = @ + (n - fee)]
    IN  /\ \A u \in Address : after[u] \in Holdings
        /\ WriteAnd([store EXCEPT !.balance = after],
                    IF past.by_admin /\ n > 0 THEN [past EXCEPT !.gain = Capped(@ + Max({0, -fee}))]
                    ELSE past)

Negative_Next ==
    /\ crate = "negative_fee_bps"
    /\ past.gain < Cap
    /\ \E u \in Solo, from, to \in Address, n \in {-1, 1, 2}, bps \in -Whole..(Whole + 1) :
        \/ Lib /\ (Negative_initialize(u, bps) \/ Negative_mint(to, n) \/ Negative_set_fee_lib(bps)
                   \/ Negative_transfer(from, to, n))
        \/ Secure /\ (Negative_initialize(u, bps) \/ Negative_mint(to, n) \/ Negative_set_fee(bps)
                      \/ Negative_transfer(from, to, n))

\* Under no rate that the admin may set does a transfer create tokens.
Negative_FeesNeverPay == past.gain = 0

-----------------------------------------------------------------------------
(* fee_precision_loss, with FEE_BPS of BPS_DENOM scaled down to one half.  *)
(* past: the transfers made and the tokens minted.                         *)
Precision_Init ==
    /\ crate = "fee_precision_loss"
    /\ store = [balance |-> Zero, fees |-> 0]
    /\ past = [transfers |-> 0, minted |-> 0]

Precision_mint(u, n) ==
    /\ n > 0
    /\ past.minted + n <= MaxIssued
    /\ WriteAnd([store EXCEPT !.balance[u] = @ + n], [past EXCEPT !.minted = @ + n])

Precision_balance(u) == store.balance[u]

Precision_fees_collected == store.fees

Precision_transfers(op, fee) ==
    LET paid == [store.balance EXCEPT ![op.from] = @ - op.amount]
    IN  /\ op.amount > 0
        /\ Precision_balance(op.from) >= op.amount
        /\ past.transfers < MaxIssued
        /\ WriteAnd([balance |-> [paid EXCEPT ![op.to] = @ + (op.amount - fee)],
                     fees |-> Precision_fees_collected + fee],
                    [past EXCEPT !.transfers = @ + 1])

Precision_transfer_lib(op) == Precision_transfers(op, op.amount \div 2)

Precision_transfer(op) == Precision_transfers(op, Max({1, op.amount \div 2}))

Precision_Next ==
    /\ crate = "fee_precision_loss"
    /\ \E op \in [from : Address, to : Address, amount : 0..2] :
        \/ Lib /\ (Precision_mint(op.to, op.amount) \/ Precision_transfer_lib(op))
        \/ Secure /\ (Precision_mint(op.to, op.amount) \/ Precision_transfer(op))

\* Every transfer, however small, pays a fee, and the fees and the balances
\* add up to what was minted.
Precision_EachTransferPays ==
    /\ Precision_fees_collected >= past.transfers
    /\ Precision_fees_collected + SumFunction(store.balance) = past.minted
=============================================================================
