------------------------------ MODULE Oracles -------------------------------
(***************************************************************************)
(* Fixtures on prices: their window, their age, their scale and where they *)
(* come from.                                                              *)
(***************************************************************************)
EXTENDS Contract, Functions

-----------------------------------------------------------------------------
(* twap_window_too_short.  past.moved is what the last observation did to  *)
(* the average, past.among how many were averaged after it, past.seen how  *)
(* many there have been, up to MIN_TWAP_WINDOW.                            *)
MIN_TWAP_WINDOW == 3    \* stands for 10
TwapPrices == {1, 3}    \* a low and a high price
TwapRange == 2          \* between them

Twap_Init ==
    /\ crate = "twap_window_too_short"
    /\ store = [admin |-> None, window |-> 0, obs |-> <<>>]
    /\ past = [moved |-> 0, among |-> 0, seen |-> 0]

Twap_initialize_lib(u, window) ==
    /\ store.admin = None
    /\ window > 0
    /\ Write([admin |-> u, window |-> window, obs |-> <<>>])

Twap_initialize(u, window) ==
    window >= MIN_TWAP_WINDOW /\ Twap_initialize_lib(u, window)

\* get_twap: it answers as soon as something was observed.
Twap_average(obs) ==
    Quotient(SumFunction([i \in DOMAIN obs |-> obs[i].price]), Len(obs))

\* The window counts observations: several may be of one ledger, and the first
\* ones are averaged over fewer.
Twap_record_price(u, price) ==
    LET all == Append(store.obs, [ledger |-> now, price |-> price])
        obs == IF Len(all) > store.window THEN Tail(all) ELSE all
    IN  /\ u = store.admin
        /\ price > 0
        /\ WriteAnd([store EXCEPT !.obs = obs],
                    [moved |-> IF store.obs = <<>> THEN 0
                               ELSE Twap_average(obs) - Twap_average(store.obs),
                     among |-> Len(obs),
                     seen |-> IF past.seen < MIN_TWAP_WINDOW THEN past.seen + 1 ELSE past.seen])

Twap_Next ==
    /\ crate = "twap_window_too_short"
    /\ \/ CloseLedger
       \/ \E u \in Address, window \in 0..4, price \in TwapPrices :
            \/ Lib /\ (Twap_initialize_lib(u, window) \/ Twap_record_price(u, price))
            \/ Secure /\ (Twap_initialize(u, window) \/ Twap_record_price(u, price))

\* One observation has one share of the average, and moves it by a share of the
\* price range and less than a unit of truncation.  Once MIN_TWAP_WINDOW prices
\* were recorded, as many at least are averaged.  Before that the share is
\* larger: the second price moves the average by half the range, although
\* secure.rs:81-82 says "at most 1 / MIN_TWAP_WINDOW of its range" of every update.
Twap_OneObservationIsOneShare ==
    /\ past.among >= past.seen
    /\ past.moved * past.among <= TwapRange + past.among
    /\ -past.moved * past.among <= TwapRange + past.among

-----------------------------------------------------------------------------
(* future_oracle_timestamp.  The crate's oracle and the contract that      *)
(* reads it.  past.age is how old the price of the last valuation was.     *)
MAX_STALENESS == 1      \* stands for 300 seconds

Future_Init ==
    /\ crate = "future_oracle_timestamp"
    /\ store = [oracle |-> None, collateral |-> 0, admin |-> None, price |-> 0, published |-> 0]
    /\ past = [age |-> 0]

Future_init_oracle(u) == store.admin = None /\ Write([store EXCEPT !.admin = u])

Future_set_price(price) ==
    /\ store.admin # None
    /\ Write([store EXCEPT !.price = price, !.published = now])

Future_set_price_at(price, time) ==
    /\ store.admin # None
    /\ Write([store EXCEPT !.price = price, !.published = time])

Future_publish_time == store.published

Future_init(oracle) == store.oracle = None /\ Write([store EXCEPT !.oracle = oracle])

Future_deposit(n) ==
    /\ store.collateral + n \in -1..1
    /\ Write([store EXCEPT !.collateral = @ + n])

\* The value is collateral * price.
Future_get_value_lib ==
    /\ store.oracle # None
    /\ saturating_sub(now, Future_publish_time) <= MAX_STALENESS
    /\ Observe([age |-> now - Future_publish_time])

Future_get_value ==
    /\ store.oracle # None
    /\ Future_publish_time <= now
    /\ now - Future_publish_time <= MAX_STALENESS
    /\ Observe([age |-> now - Future_publish_time])

Future_Next ==
    /\ crate = "future_oracle_timestamp"
    /\ \/ CloseLedger
       \/ \E u \in Solo, n \in {-1, 1}, price \in 1..2, time \in 0..(LastLedger + 1) :
            \/ Future_init_oracle(u) \/ Future_set_price(price) \/ Future_set_price_at(price, time)
            \/ Lib /\ (Future_init("oracle") \/ Future_deposit(n) \/ Future_get_value_lib)
            \/ Secure /\ (Future_init("oracle") \/ Future_deposit(n) \/ Future_get_value)

\* A valuation uses a price of the recent past, never of the future.
Future_PriceOfRecentPast == past.age \in 0..MAX_STALENESS

-----------------------------------------------------------------------------
(* stale_oracle.  As above, with an oracle that stamps its own prices.     *)
Stale_Init ==
    /\ crate = "stale_oracle"
    /\ store = [oracle |-> None, collateral |-> 0, admin |-> None, price |-> 0, updated |-> 0]
    /\ past = [age |-> 0]

Stale_init_oracle(u) == store.admin = None /\ Write([store EXCEPT !.admin = u])

Stale_set_price(price) ==
    /\ store.admin # None
    /\ Write([store EXCEPT !.price = price, !.updated = now])

Stale_last_updated == store.updated

Stale_init(oracle) == store.oracle = None /\ Write([store EXCEPT !.oracle = oracle])

Stale_deposit_collateral(n) ==
    /\ store.collateral + n \in -1..1
    /\ Write([store EXCEPT !.collateral = @ + n])

Stale_get_collateral_value_lib ==
    store.oracle # None /\ Observe([age |-> now - Stale_last_updated])

Stale_get_collateral_value ==
    /\ saturating_sub(now, Stale_last_updated) <= MAX_STALENESS
    /\ Stale_get_collateral_value_lib

Stale_Next ==
    /\ crate = "stale_oracle"
    /\ \/ CloseLedger
       \/ \E u \in Solo, n \in {-1, 1}, price \in 1..2 :
            \/ Stale_init_oracle(u) \/ Stale_set_price(price)
            \/ Lib /\ (Stale_init("oracle") \/ Stale_deposit_collateral(n)
                       \/ Stale_get_collateral_value_lib)
            \/ Secure /\ (Stale_init("oracle") \/ Stale_deposit_collateral(n)
                          \/ Stale_get_collateral_value)

\* The oracle's stamp never runs ahead of the ledger, so the saturating
\* difference is the price's age, and no valuation uses an old price.
Stale_PriceOfRecentPast == past.age \in 0..MAX_STALENESS /\ Stale_last_updated <= now

-----------------------------------------------------------------------------
(* oracle_price_scale_mismatch.  Powers of 2 stand for powers of 10 and    *)
(* exponent 1 for the 7 that prices are normalised to.  past.credited is   *)
(* the last deposit: what it credited and its exact worth, twice each.     *)
Feeds == {"usd"}        \* a deposit reads one feed: one stands for all

Scale_Init ==
    /\ crate = "oracle_price_scale_mismatch"
    /\ store = [price |-> [f \in Feeds |-> 0], exponent |-> [f \in Feeds |-> None],
                collateral |-> 0, debt |-> 0]
    /\ past = [amount |-> 0, credited |-> 0, worth |-> 0]

Scale_exponent(f) == IF store.exponent[f] = None THEN 1 ELSE store.exponent[f]

Scale_set_oracle(f, price, exponent) ==
    Write([store EXCEPT !.price[f] = price, !.exponent[f] = exponent])

Scale_normalise(price, exponent) ==
    IF exponent >= 1 THEN Quotient(price, 2 ^ (exponent - 1)) ELSE price * 2 ^ (1 - exponent)

Scale_credit(f, n, value) ==
    /\ store.collateral + value \in -2..2
    /\ WriteAnd([store EXCEPT !.collateral = @ + value],
                [amount |-> n, credited |-> 2 * value,
                 worth |-> n * store.price[f] * 2 ^ (2 - Scale_exponent(f))])

Scale_deposit_lib(f, n) == Scale_credit(f, n, n * store.price[f])

Scale_deposit(f, n) == Scale_credit(f, n, n * Scale_normalise(store.price[f], Scale_exponent(f)))

Scale_borrow(n) ==
    /\ store.collateral >= store.debt + n
    /\ store.debt + n \in -1..2
    /\ Write([store EXCEPT !.debt = @ + n])

Scale_Next ==
    /\ crate = "oracle_price_scale_mismatch"
    /\ \E f \in Feeds, price \in {1, 2}, exponent \in 0..2, n \in {-1, 1} :
        \/ Lib /\ (Scale_set_oracle(f, price, exponent) \/ Scale_deposit_lib(f, n)
                   \/ Scale_borrow(n))
        \/ Secure /\ (Scale_set_oracle(f, price, exponent) \/ Scale_deposit(f, n)
                      \/ Scale_borrow(n))

\* Whatever the exponent of its feed, a deposit is credited at its worth, less
\* at most a unit of the normalised scale for each token.
Scale_CreditedAtWorth ==
    past.amount > 0 => past.worth - past.credited \in 0..(2 * past.amount - 1)

-----------------------------------------------------------------------------
(* untrusted_oracle_setter.                                                *)
OracleContracts == {"trusted", "rogue"}

Setter_Init ==
    /\ crate = "untrusted_oracle_setter"
    /\ store = [admin |-> None, oracle |-> None, allowlist |-> {},
                price |-> [o \in OracleContracts |-> 0]]
    /\ past = [setBy |-> None]

Setter_initialize(u) == store.admin = None /\ Write([store EXCEPT !.admin = u])

Setter_set_oracle_lib(u, o) == WriteAnd([store EXCEPT !.oracle = o], [setBy |-> u])

\* store.price stands for what each oracle contract answers.
Setter_mock_oracle_price_lib(o, price) == Write([store EXCEPT !.price[o] = price])

\* u signs.
Setter_add_to_allowlist(u, o) ==
    /\ store.admin # None /\ u = store.admin
    /\ Write([store EXCEPT !.allowlist = @ \union {o}])

Setter_set_oracle(u, o) ==
    /\ store.admin # None /\ u = store.admin
    /\ o \in store.allowlist
    /\ Setter_set_oracle_lib(u, o)

Setter_Next ==
    /\ crate = "untrusted_oracle_setter"
    /\ \E u \in Address, o \in OracleContracts, price \in 0..1 :
        \/ Lib /\ (Setter_initialize(u) \/ Setter_set_oracle_lib(u, o)
                   \/ Setter_mock_oracle_price_lib(o, price) \/ Setter_add_to_allowlist(u, o))
        \/ Secure /\ (Setter_initialize(u) \/ Setter_set_oracle(u, o)
                      \/ Setter_add_to_allowlist(u, o))

\* The oracle in use was set by the admin and is on the allowlist still.
Setter_OracleIsListed ==
    store.oracle # None =>
        store.oracle \in store.allowlist /\ past.setBy = store.admin
-----------------------------------------------------------------------------
(* inactive_circuit_breaker.  Whole stands for 10000 basis points.         *)
(* past.breached says that an update was refused for its size.             *)
BreakerPrices == 0..4
MAX_MOVE == 1           \* the configured max_move_bps, in parts of Whole

Breaker_Init ==
    /\ crate = "inactive_circuit_breaker"
    /\ store = [admin |-> None, price |-> 0, max_move_bps |-> 0, paused |-> FALSE]
    /\ past = [breached |-> FALSE]

Breaker_initialize(u, price, max_move) ==
    /\ store.admin = None
    /\ price > 0 /\ max_move > 0
    /\ Write([admin |-> u, price |-> price, max_move_bps |-> max_move, paused |-> FALSE])

\* The threshold is read and dropped.
Breaker_update_price_lib(u, price) ==
    /\ store.admin # None /\ u = store.admin
    /\ price > 0
    /\ Write([store EXCEPT !.price = price])

Breaker_move_bps(old, new) == Quotient((IF new > old THEN new - old ELSE old - new) * Whole, old)

\* Beyond the threshold the mirror sets Paused and panics: the panic undoes the
\* pause with the rest, and only the caller has seen the breach.
Breaker_update_price(u, price) ==
    /\ store.admin # None /\ u = store.admin
    /\ price > 0
    /\ IF Breaker_move_bps(store.price, price) <= store.max_move_bps
       THEN Write([store EXCEPT !.price = price])
       ELSE Observe([breached |-> TRUE])

\* swap_out answers amount_in * price and liquidate debt / price; both write
\* nothing.
Breaker_swap_out == store.admin # None /\ ~store.paused /\ UNCHANGED vars

Breaker_liquidate == store.price # 0 /\ Breaker_swap_out

Breaker_force_pause(u) ==
    store.admin # None /\ u = store.admin /\ Write([store EXCEPT !.paused = TRUE])

Breaker_unpause(u) ==
    store.admin # None /\ u = store.admin /\ Write([store EXCEPT !.paused = FALSE])

Breaker_Next ==
    /\ crate = "inactive_circuit_breaker"
    /\ \E u \in Address, price \in BreakerPrices :
        \/ Lib /\ (Breaker_initialize(u, price, MAX_MOVE) \/ Breaker_update_price_lib(u, price)
                   \/ Breaker_swap_out \/ Breaker_liquidate)
        \/ Secure /\ (Breaker_initialize(u, price, MAX_MOVE) \/ Breaker_update_price(u, price)
                      \/ Breaker_swap_out \/ Breaker_liquidate
                      \/ Breaker_force_pause(u) \/ Breaker_unpause(u))

\* No update moves the price by more than the threshold, and one that would is
\* as if it had never been called: price and pause stay as they were.  The pause
\* that secure.rs:5-7 and :70 announce ("swap_out and liquidate are blocked until
\* an admin explicitly unpauses the market") is lost with the panic; the test
\* of it (lib.rs:276-280) pauses by force_pause.
Breaker_MovesAreBounded ==
    /\ (store.admin # None /\ store'.price # store.price) =>
           LET delta == store'.price - store.price
           IN  /\ delta * Whole < (store.max_move_bps + 1) * store.price
               /\ -delta * Whole < (store.max_move_bps + 1) * store.price
    /\ past' # past => store' = store
-----------------------------------------------------------------------------
(* oracle_confidence_ignored.  past.low is the low end of the lowest band  *)
(* acted upon, past.prices holds the prices.                               *)
ConfidenceParts == 4    \* stands for 10000 basis points
MAX_CONFIDENCE == 1     \* stands for 500 of them

Confidence_Init ==
    /\ crate = "oracle_confidence_ignored"
    /\ store = [last |-> 0, liquidated |-> {}]
    /\ past = [low |-> None, prices |-> {}]

Confidence_consume_price_lib(u, oracle, threshold) ==
    WriteAnd([last |-> oracle.price,
              liquidated |-> IF oracle.price < threshold
                             THEN store.liquidated \cup {u} ELSE store.liquidated],
             LET low == oracle.price - oracle.confidence
             IN  [low |-> IF past.low = None \/ low < past.low THEN low ELSE past.low,
                  prices |-> past.prices \cup {oracle.price}])

Confidence_consume_price(u, oracle, threshold) ==
    /\ oracle.price > 0
    /\ Quotient(oracle.confidence * ConfidenceParts, oracle.price) <= MAX_CONFIDENCE
    /\ Confidence_consume_price_lib(u, oracle, threshold)

Confidence_last_price == store.last

Confidence_is_liquidated(u) == u \in store.liquidated

Confidence_Next ==
    /\ crate = "oracle_confidence_ignored"
    /\ \E u \in Address, oracle \in [price : {-1, 0, 1, 3}, confidence : {-1, 0, 1, 2}],
          threshold \in {0, 2} :
         \/ Lib /\ Confidence_consume_price_lib(u, oracle, threshold)
         \/ Secure /\ Confidence_consume_price(u, oracle, threshold)

\* A price that was acted upon is positive at the low end of its band, and
\* nobody was liquidated by any other.
Confidence_BandsArePositive ==
    /\ past.low # None => past.low > 0
    /\ past.prices = {} => \A u \in Address : ~Confidence_is_liquidated(u)
    /\ Confidence_last_price \in past.prices \cup {0}
=============================================================================
