------------------------------ MODULE Markets -------------------------------
(***************************************************************************)
(* Marketplaces, auctions and escrows: who gets the item, who gets the     *)
(* money, and when.                                                        *)
(***************************************************************************)
EXTENDS Contract

Prices == -1..2
Ids == {1, 2}
MaxTrades == 2      \* bound on the sales, approvals or bids of a behaviour

\* An absent status is none of the statuses, as an Option tells it from them.
ASSUME StatusAssumption == None \notin {"Active", "Canceled", "Filled"}

(* canceled_listing_fillable.  lib.rs keeps ActiveOrder, CanceledOrder and *)
(* Filled; secure.rs keeps Order and OrderStatus.  past counts the fills   *)
(* and holds the orders their seller canceled.                             *)
Order_Init ==
    /\ crate = "canceled_listing_fillable"
    /\ store = [order |-> [i \in Ids |-> None], status |-> [i \in Ids |-> None],
                canceled |-> {}, filled |-> {}]
    /\ past = [fills |-> [i \in Ids |-> 0], canceled |-> {}]

Order_create_order_lib(seller, i, price) ==
    /\ store.order[i] = None
    /\ Write([store EXCEPT !.order[i] = [seller |-> seller, price |-> price]])

Order_create_order(seller, i, price) ==
    /\ store.order[i] = None
    /\ Write([store EXCEPT !.order[i] = [seller |-> seller, price |-> price],
                           !.status[i] = "Active"])

Order_cancel_lib(seller, i) ==
    /\ store.order[i] # None
    /\ store.order[i].seller = seller
    /\ WriteAnd([store EXCEPT !.canceled = @ \cup {i}], [past EXCEPT !.canceled = @ \cup {i}])

Order_cancel(seller, i) ==
    /\ store.order[i] # None
    /\ store.order[i].seller = seller
    /\ store.status[i] = "Active"
    /\ WriteAnd([store EXCEPT !.status[i] = "Canceled"], [past EXCEPT !.canceled = @ \cup {i}])

\* Looks at the active order only, and frees its id.
Order_fill_order_lib(buyer, i) ==
    /\ store.order[i] # None
    /\ past.fills[i] < MaxTrades
    /\ WriteAnd([store EXCEPT !.filled = @ \cup {i}, !.order[i] = None],
                [past EXCEPT !.fills[i] = @ + 1])

Order_fill_order(buyer, i) ==
    /\ store.status[i] = "Active"
    /\ store.order[i] # None
    /\ WriteAnd([store EXCEPT !.status[i] = "Filled"], [past EXCEPT !.fills[i] = @ + 1])

Order_is_filled(i) == store.status[i] = "Filled"

Order_is_canceled(i) == store.status[i] = "Canceled"

Order_Next ==
    /\ crate = "canceled_listing_fillable"
    /\ \E u \in Address, i \in Ids :
        \/ Lib /\ (Order_create_order_lib(u, i, 1) \/ Order_cancel_lib(u, i) \/ Order_fill_order_lib(u, i))
        \/ Secure /\ (Order_create_order(u, i, 1) \/ Order_cancel(u, i) \/ Order_fill_order(u, i))

\* An order is canceled for good or filled once, never both.
Order_CanceledIsFinal ==
    \A i \in Ids :
        /\ i \in past.canceled <=> Order_is_canceled(i)
        /\ past.fills[i] = IF Order_is_filled(i) THEN 1 ELSE 0

-----------------------------------------------------------------------------
(* buy_without_listing, with one token.  past.asked is the latest price    *)
(* the owner listed, past.sold the price of the latest sale.               *)
Buy_Init ==
    /\ crate = "buy_without_listing"
    /\ store = [owner |-> None, balance |-> Zero, listing |-> None]
    /\ past = [asked |-> None, sold |-> None, funded |-> 0]

Buy_mint(owner) == Write([store EXCEPT !.owner = owner])

Buy_fund(buyer, n) ==
    /\ store.balance[buyer] + n \in -1..MaxTrades
    /\ WriteAnd([store EXCEPT !.balance[buyer] = @ + n], [past EXCEPT !.funded = @ + n])

Buy_list(seller, price) ==
    /\ store.owner # None
    /\ store.owner = seller
    /\ WriteAnd([store EXCEPT !.listing = [seller |-> seller, price |-> price]],
                [past EXCEPT !.asked = price, !.sold = None])

\* The buyer's balance is written before the seller's is read.
Buy_pays(buyer, seller, price) ==
    LET balance == [[store.balance EXCEPT ![buyer] = @ - price] EXCEPT ![seller] = @ + price]
    IN  /\ store.balance[buyer] >= price
        /\ \A u \in Address : balance[u] \in -1..(MaxTrades + 1)
        /\ WriteAnd([store EXCEPT !.owner = buyer, !.listing = None, !.balance = balance],
                    [past EXCEPT !.sold = price])

Buy_buy_lib(buyer, seller, price) ==
    /\ store.owner # None
    /\ store.owner = seller
    /\ Buy_pays(buyer, seller, price)

Buy_buy(buyer, seller, max_price) ==
    /\ store.listing # None
    /\ max_price >= store.listing.price
    /\ Buy_pays(buyer, store.listing.seller, store.listing.price)

Buy_balance_of(u) == store.balance[u]

Buy_Next ==
    /\ crate = "buy_without_listing"
    /\ \E u, v \in Address, n \in Prices :
        \/ Lib /\ (Buy_mint(u) \/ Buy_fund(u, n) \/ Buy_buy_lib(u, v, n))
        \/ Secure /\ (Buy_mint(u) \/ Buy_fund(u, n) \/ Buy_list(u, n) \/ Buy_buy(u, v, n))

\* A token is sold at the price listed for it, once per listing, and the
\* money only changes hands.
Buy_AtListedPrice ==
    /\ past.sold # None => past.sold = past.asked /\ store.listing = None
    /\ SumFunction([u \in Address |-> Buy_balance_of(u)]) = past.funded

-----------------------------------------------------------------------------
(* royalty_recipient_mutable.  past.due is the recipient configured when   *)
(* the listing was made, past.wrong says that somebody else was paid.      *)
Royalty_Init ==
    /\ crate = "royalty_recipient_mutable"
    /\ store = [recipient |-> None, listing |-> [i \in Ids |-> None], paid |-> 0]
    /\ past = [due |-> [i \in Ids |-> None], wrong |-> FALSE, total |-> 0]

Royalty_set_royalty_recipient(r) == Write([store EXCEPT !.recipient = r])

Royalty_lists(i, price, bps, r) ==
    /\ bps \in 0..Whole
    /\ WriteAnd([store EXCEPT !.listing[i] = [price |-> price, bps |-> bps, recipient |-> r]],
                [past EXCEPT !.due[i] = store.recipient])

Royalty_create_listing_lib(i, price, bps) == Royalty_lists(i, price, bps, None)

\* The recipient is copied into the listing.
Royalty_create_listing(i, price, bps) ==
    store.recipient # None /\ Royalty_lists(i, price, bps, store.recipient)

Royalty_pays(i, r) ==
    LET royalty == Quotient(store.listing[i].price * store.listing[i].bps, Whole)
    IN  /\ store.paid + royalty \in -2..MaxTrades
        /\ WriteAnd([store EXCEPT !.paid = @ + royalty, !.listing[i] = None],
                    [past EXCEPT !.wrong = @ \/ r # past.due[i], !.total = @ + royalty])

Royalty_settle_lib(i) ==
    store.listing[i] # None /\ store.recipient # None /\ Royalty_pays(i, store.recipient)

Royalty_settle(i) == store.listing[i] # None /\ Royalty_pays(i, store.listing[i].recipient)

Royalty_royalties_paid == store.paid

Royalty_Next ==
    /\ crate = "royalty_recipient_mutable"
    /\ \E u \in Address, i \in {1}, n \in {-1, 2}, b \in -1..2 :
        \/ Lib /\ (Royalty_set_royalty_recipient(u) \/ Royalty_create_listing_lib(i, n, b)
                   \/ Royalty_settle_lib(i))
        \/ Secure /\ (Royalty_set_royalty_recipient(u) \/ Royalty_create_listing(i, n, b)
                      \/ Royalty_settle(i))

\* The royalty goes to the recipient the listing was made under, whatever is
\* configured between the listing and the sale.
Royalty_ToListedRecipient == ~past.wrong /\ Royalty_royalties_paid = past.total

-----------------------------------------------------------------------------
(* seller_self_purchase.  past.self is what sellers bought from            *)
(* themselves.                                                             *)
Self_Init ==
    /\ crate = "seller_self_purchase"
    /\ store = [listing |-> [i \in Ids |-> None], rewards |-> Zero, volume |-> 0]
    /\ past = [self |-> 0]

Self_list(seller, i, price) ==
    price > 0 /\ Write([store EXCEPT !.listing[i] = [seller |-> seller, price |-> price]])

Self_buy_lib(buyer, i) ==
    /\ store.listing[i] # None
    /\ store.volume < MaxTrades
    /\ LET l == store.listing[i]
       IN  WriteAnd([store EXCEPT !.rewards[buyer] = @ + l.price, !.volume = @ + l.price,
                                  !.listing[i] = None],
                    [self |-> past.self + IF buyer = l.seller THEN l.price ELSE 0])

Self_buy(buyer, i) ==
    store.listing[i] # None /\ buyer # store.listing[i].seller /\ Self_buy_lib(buyer, i)

Self_rewards(u) == store.rewards[u]

Self_total_volume == store.volume

Self_Next ==
    /\ crate = "seller_self_purchase"
    /\ \E u \in Address, i \in Ids, n \in Prices :
        \/ Lib /\ (Self_list(u, i, n) \/ Self_buy_lib(u, i))
        \/ Secure /\ (Self_list(u, i, n) \/ Self_buy(u, i))

\* Reward points are volume traded between two accounts.
Self_RewardsAreTrade ==
    /\ Self_total_volume = SumFunction([u \in Address |-> Self_rewards(u)])
    /\ past.self = 0

-----------------------------------------------------------------------------
(* nft_operator_collection_mixup.  Approval(owner, operator) in lib.rs,    *)
(* Approval(owner, operator, token) in secure.rs.  past counts the         *)
(* approvals given and the moves an operator made, per token.              *)
Operator_Init ==
    /\ crate = "nft_operator_collection_mixup"
    /\ store = [owner |-> [t \in Ids |-> None], approval |-> {}]
    /\ past = [given |-> [t \in Ids |-> 0], moves |-> [t \in Ids |-> 0]]

Operator_mint(owner, t) == store.owner[t] = None /\ Write([store EXCEPT !.owner[t] = owner])

Operator_grants(key, t) ==
    /\ past.given[t] < 1
    /\ WriteAnd([store EXCEPT !.approval = @ \cup {key}], [past EXCEPT !.given[t] = @ + 1])

Operator_approve_lib(owner, operator, t) == Operator_grants(<<owner, operator>>, t)

Operator_approve(owner, operator, t) == Operator_grants(<<owner, operator, t>>, t)

Operator_moves(caller, from, to, t, key) ==
    /\ store.owner[t] # None
    /\ store.owner[t] = from
    /\ caller = from \/ key \in store.approval
    /\ past.moves[t] < MaxTrades
    /\ WriteAnd([store EXCEPT !.owner[t] = to, !.approval = @ \ (IF Len(key) = 3 THEN {key} ELSE {})],
                [past EXCEPT !.moves[t] = IF caller = from THEN @ ELSE @ + 1])

Operator_transfer_from_lib(caller, from, to, t) ==
    Operator_moves(caller, from, to, t, <<from, caller>>)

\* The approval is used up.
Operator_transfer_from(caller, from, to, t) ==
    Operator_moves(caller, from, to, t, <<from, caller, t>>)

Operator_Next ==
    /\ crate = "nft_operator_collection_mixup"
    /\ \E u, v, w \in Address, t \in Ids :
        \/ Lib /\ (Operator_mint(u, t) \/ Operator_approve_lib(u, v, t)
                   \/ Operator_transfer_from_lib(u, v, w, t))
        \/ Secure /\ (Operator_mint(u, t) \/ Operator_approve(u, v, t)
                      \/ Operator_transfer_from(u, v, w, t))

\* An operator moves a token as often as it was approved for that token.
Operator_MovesApproved == \A t \in Ids : past.moves[t] <= past.given[t]
-----------------------------------------------------------------------------
(* royalty_discount_miscalc.  past sums what the sales should pay.         *)
Discount_Init ==
    /\ crate = "royalty_discount_miscalc"
    /\ store = [royalty |-> 0, proceeds |-> 0]
    /\ past = [sales |-> 0, rebates |-> 0, due |-> 0]

Discount_pays(price, rebate, bps, royalty, proceeds) ==
    /\ price > 0
    /\ rebate >= 0 /\ rebate < price
    /\ bps \in 0..Whole
    /\ past.sales + price <= 5                           \* bound on the sales
    /\ WriteAnd([royalty |-> store.royalty + royalty, proceeds |-> store.proceeds + proceeds],
                [sales |-> past.sales + price, rebates |-> past.rebates + rebate,
                 due |-> past.due + Quotient(price * bps, Whole)])

Discount_settle_lib(price, rebate, bps) ==
    LET net == price - rebate
        royalty == Quotient(net * bps, Whole)
    IN  Discount_pays(price, rebate, bps, royalty, net - royalty)

\* The seller bears the rebate, which may leave less than nothing.
Discount_settle(price, rebate, bps) ==
    LET royalty == Quotient(price * bps, Whole)
    IN  Discount_pays(price, rebate, bps, royalty, price - royalty - rebate)

Discount_creator_royalty == store.royalty

Discount_seller_proceeds == store.proceeds

Discount_Next ==
    /\ crate = "royalty_discount_miscalc"
    /\ \E p \in 0..3, r \in -1..3, b \in -1..3 :
        \/ Lib /\ Discount_settle_lib(p, r, b)
        \/ Secure /\ Discount_settle(p, r, b)

\* The creator's royalty does not depend on the rebates, and the sales are
\* split without remainder.
Discount_RoyaltyOfPrice ==
    /\ Discount_creator_royalty = past.due
    /\ Discount_creator_royalty + Discount_seller_proceeds + past.rebates = past.sales

-----------------------------------------------------------------------------
(* auction_close_early.  past.closed_at is the ledger of the close.  A bid *)
(* needs no initialize and no open end: it is refused only once closed.    *)
Early_Init ==
    /\ crate = "auction_close_early"
    /\ store = [bidder |-> None, bid |-> 0, end |-> None, closed |-> FALSE]
    /\ past = [closed_at |-> None, winner |-> None]

Early_initialize(end) ==
    /\ store.end = None
    /\ Write([store EXCEPT !.end = end, !.bid = 0, !.closed = FALSE])

Early_bid(u, n) ==
    /\ ~store.closed
    /\ n > store.bid
    /\ Write([store EXCEPT !.bidder = u, !.bid = n])

Early_close_lib ==
    /\ ~store.closed
    /\ store.bidder # None
    /\ WriteAnd([store EXCEPT !.closed = TRUE], [closed_at |-> now, winner |-> store.bidder])

Early_close == store.end # None /\ now >= store.end /\ Early_close_lib

Early_high_bidder == store.bidder

Early_is_closed == store.closed

Early_Next ==
    /\ crate = "auction_close_early"
    /\ \E u \in Address, n \in 0..2 :
        \/ Lib /\ (Early_initialize(n) \/ Early_bid(u, n) \/ Early_close_lib)
        \/ Secure /\ (Early_initialize(n) \/ Early_bid(u, n) \/ Early_close)
        \/ CloseLedger

\* Bidders have until the end: the auction closes no earlier, and the winner
\* is still the high bidder afterwards.
Early_ClosedAfterEnd ==
    Early_is_closed => past.closed_at >= store.end /\ past.winner = Early_high_bidder

-----------------------------------------------------------------------------
(* auction_refund_block.  past.placed is what each bidder paid in,         *)
(* past.back what it took back, past.stuck that a refund stopped a bid.    *)
Refund_Init ==
    /\ crate = "auction_refund_block"
    /\ store = [bidder |-> None, bid |-> None, refund |-> Zero, blocked |-> FALSE]
    /\ past = [placed |-> Zero, back |-> Zero]

Refund_high_bid == IF store.bid = None THEN 0 ELSE store.bid

Refund_high_bidder == store.bidder

Refund_initialize == store.bid = None /\ Write([store EXCEPT !.bid = 0, !.blocked = FALSE])

Refund_set_refund_blocked(b) == Write([store EXCEPT !.blocked = b])

\* The previous bidder is paid back at once, or nobody can outbid them.
Refund_bid_lib(u, n) ==
    /\ n > Refund_high_bid
    /\ Refund_high_bid > 0 => ~store.blocked
    /\ WriteAnd([store EXCEPT !.bidder = u, !.bid = n],
                [past EXCEPT !.placed[u] = @ + n])

Refund_bid(u, n) ==
    /\ n > Refund_high_bid
    /\ WriteAnd([store EXCEPT !.bidder = u, !.bid = n,
                    !.refund = [v \in Address |->
                        IF Refund_high_bid > 0 /\ v = store.bidder THEN @[v] + Refund_high_bid ELSE @[v]]],
                [past EXCEPT !.placed[u] = @ + n])

Refund_claimable_refund(u) == store.refund[u]

Refund_claim_refund(u) ==
    /\ Refund_claimable_refund(u) # 0
    /\ WriteAnd([store EXCEPT !.refund[u] = 0],
                [past EXCEPT !.back[u] = @ + Refund_claimable_refund(u)])

Refund_Next ==
    /\ crate = "auction_refund_block"
    /\ \E u \in Address, n \in 0..3, b \in BOOLEAN :
        \/ Lib /\ (Refund_initialize \/ Refund_set_refund_blocked(b) \/ Refund_bid_lib(u, n))
        \/ Secure /\ (Refund_initialize \/ Refund_set_refund_blocked(b) \/ Refund_bid(u, n)
                      \/ Refund_claim_refund(u))

\* What a bidder paid in is the standing bid, claimable, or taken back.
Refund_NoBidLost ==
    \A u \in Address :
        past.placed[u] = past.back[u] + Refund_claimable_refund(u)
                         + IF Refund_high_bidder = u THEN Refund_high_bid ELSE 0

-----------------------------------------------------------------------------
(* auction_min_increment_missing.  past.bids counts the accepted bids.     *)
Increment_Init ==
    /\ crate = "auction_min_increment_missing"
    /\ store = [bidder |-> None, bid |-> 0, step |-> None]
    /\ past = [bids |-> 0]

Increment_initialize(step) ==
    store.step = None /\ step > 0 /\ Write([store EXCEPT !.step = step, !.bid = 0])

Increment_accepts(u, n) ==
    WriteAnd([store EXCEPT !.bidder = u, !.bid = n], [bids |-> past.bids + 1])

Increment_bid_lib(u, n) == n > store.bid /\ Increment_accepts(u, n)

Increment_bid(u, n) == store.step # None /\ n >= store.bid + store.step /\ Increment_accepts(u, n)

Increment_high_bid == store.bid

Increment_min_increment == IF store.step = None THEN 0 ELSE store.step

Increment_Next ==
    /\ crate = "auction_min_increment_missing"
    /\ \E u \in Address, n \in 0..5 :
        \/ Lib /\ ((n <= 2 /\ Increment_initialize(n)) \/ Increment_bid_lib(u, n))
        \/ Secure /\ ((n <= 2 /\ Increment_initialize(n)) \/ Increment_bid(u, n))

\* Every bid that was accepted raised the price by the increment.
Increment_EachBidRaises == Increment_high_bid >= past.bids * Increment_min_increment

-----------------------------------------------------------------------------
(* single_approval_escrow_release.  The approvals are not reset by a       *)
(* release: they hold for later deposits too.                              *)
Approval_Init ==
    /\ crate = "single_approval_escrow_release"
    /\ store = [buyer |-> None, seller |-> None, balance |-> 0,
                buyer_approved |-> FALSE, seller_approved |-> FALSE]
    /\ past = [deposited |-> 0, released |-> 0, consent |-> {}]

Approval_initialize(b, s) ==
    /\ store.buyer = None
    /\ Write([buyer |-> b, seller |-> s, balance |-> 0,
              buyer_approved |-> FALSE, seller_approved |-> FALSE])

Approval_deposit(n) ==
    /\ store.buyer # None
    /\ past.deposited + n \in -1..MaxTrades
    /\ WriteAnd([store EXCEPT !.balance = @ + n], [past EXCEPT !.deposited = @ + n])

\* A buyer who is the seller too approves as the buyer only.
Approval_approve(p) ==
    /\ store.buyer # None
    /\ \/ p = store.buyer /\ WriteAnd([store EXCEPT !.buyer_approved = TRUE],
                                      [past EXCEPT !.consent = @ \cup {p}])
       \/ p # store.buyer /\ p = store.seller
            /\ WriteAnd([store EXCEPT !.seller_approved = TRUE], [past EXCEPT !.consent = @ \cup {p}])

Approval_pays == WriteAnd([store EXCEPT !.balance = 0], [past EXCEPT !.released = @ + store.balance])

Approval_is_buyer_approved == store.buyer_approved

Approval_is_seller_approved == store.seller_approved

Approval_release_lib ==
    (Approval_is_buyer_approved \/ Approval_is_seller_approved) /\ Approval_pays

Approval_release ==
    Approval_is_buyer_approved /\ Approval_is_seller_approved /\ Approval_pays

Approval_get_balance == store.balance

Approval_Next ==
    /\ crate = "single_approval_escrow_release"
    /\ \E u, v \in Address, n \in -1..2 :
        \/ Lib /\ (Approval_initialize(u, v) \/ Approval_deposit(n)
                   \/ Approval_approve(u) \/ Approval_release_lib)
        \/ Secure /\ (Approval_initialize(u, v) \/ Approval_deposit(n)
                      \/ Approval_approve(u) \/ Approval_release)

\* Nothing is released before two different parties agreed.
Approval_BothAgreed ==
    /\ past.released # 0 => store.buyer # store.seller /\ {store.buyer, store.seller} \subseteq past.consent
    /\ Approval_get_balance + past.released = past.deposited

-----------------------------------------------------------------------------
(* escrow_balance_check.  past.overdrawn says that a release took more     *)
(* than the escrow held.                                                   *)
Overdraw_Init ==
    /\ crate = "escrow_balance_check"
    /\ store = [admin |-> None, balance |-> [i \in Ids |-> 0], beneficiary |-> [i \in Ids |-> None]]
    /\ past = [net |-> [i \in Ids |-> 0], overdrawn |-> FALSE]

Overdraw_initialize(admin) == store.admin = None /\ Write([store EXCEPT !.admin = admin])

Overdraw_deposit(i, u, n) ==
    /\ store.admin # None
    /\ store.balance[i] + n \in -1..MaxTrades
    /\ WriteAnd([store EXCEPT !.balance[i] = @ + n, !.beneficiary[i] = u],
                [past EXCEPT !.net[i] = @ + n])

Overdraw_release_lib(i, n) ==
    /\ store.admin # None
    /\ store.beneficiary[i] # None
    /\ store.balance[i] - n \in -1..MaxTrades
    /\ WriteAnd([store EXCEPT !.balance[i] = @ - n],
                [past EXCEPT !.net[i] = @ - n, !.overdrawn = @ \/ n > store.balance[i]])

Overdraw_release(i, n) == store.balance[i] >= n /\ Overdraw_release_lib(i, n)

Overdraw_escrow_balance(i) == store.balance[i]

Overdraw_Next ==
    /\ crate = "escrow_balance_check"
    /\ \E u \in Solo, i \in Ids, n \in -1..2 :
        \/ Lib /\ (Overdraw_initialize(u) \/ Overdraw_deposit(i, u, n) \/ Overdraw_release_lib(i, n))
        \/ Secure /\ (Overdraw_initialize(u) \/ Overdraw_deposit(i, u, n) \/ Overdraw_release(i, n))

\* An escrow pays from its own deposits.
Overdraw_WithinDeposits ==
    ~past.overdrawn /\ \A i \in Ids : Overdraw_escrow_balance(i) = past.net[i]
-----------------------------------------------------------------------------
(* no_slippage.  past.quoted is what an account was quoted for its next    *)
(* swap, past.short tells that a swap paid less than was quoted.           *)
ReserveBound == 4       \* bound on either reserve

Slippage_Init ==
    /\ crate = "no_slippage"
    /\ store = [a |-> 0, b |-> 0]
    /\ past = [quoted |-> [u \in Address |-> None], short |-> FALSE]

\* The pool is seeded, and may be seeded again.
Slippage_init(a, b) == Write([a |-> a, b |-> b])

Slippage_reserve_a == store.a

Slippage_reserve_b == store.b

Slippage_seeded(n) ==
    Slippage_reserve_a > 0 /\ Slippage_reserve_b > 0 /\ Slippage_reserve_a + n # 0

Slippage_calculate_out(n) == Quotient(n * Slippage_reserve_b, Slippage_reserve_a + n)

Slippage_apply_swap(u, n, out) ==
    /\ store.a + n \in -ReserveBound..ReserveBound
    /\ store.b - out \in -ReserveBound..ReserveBound
    /\ WriteAnd([a |-> store.a + n, b |-> store.b - out],
                [past EXCEPT !.quoted[u] = None,
                             !.short = @ \/ (/\ past.quoted[u] # None
                                             /\ past.quoted[u].amount = n
                                             /\ out < past.quoted[u].out)])

\* An account works out from the reserves what a swap would pay (external).
Slippage_quote(u, n) ==
    /\ Slippage_seeded(n)
    /\ Observe([past EXCEPT !.quoted[u] = [amount |-> n, out |-> Slippage_calculate_out(n)]])

Slippage_swap_lib(u, n, min) ==
    /\ Slippage_seeded(n)
    /\ Slippage_apply_swap(u, n, Slippage_calculate_out(n))

Slippage_swap(u, n, min) ==
    /\ Slippage_seeded(n)
    /\ Slippage_calculate_out(n) >= min
    /\ Slippage_apply_swap(u, n, Slippage_calculate_out(n))

\* An account swaps what it was quoted, and names the quote as its minimum.
Slippage_Next ==
    /\ crate = "no_slippage"
    /\ \/ \E a, b \in {0, 2, 4} :
            \/ Lib /\ Slippage_init(a, b)
            \/ Secure /\ Slippage_init(a, b)
       \/ \E u \in Address, n \in {-1, 1, 2} : Slippage_quote(u, n)
       \/ \E u \in Address :
            /\ past.quoted[u] # None
            /\ \/ Lib /\ Slippage_swap_lib(u, past.quoted[u].amount, past.quoted[u].out)
               \/ Secure /\ Slippage_swap(u, past.quoted[u].amount, past.quoted[u].out)

\* A swap pays what was quoted, whatever others swapped since the quote.
Slippage_PaidAsQuoted == ~past.short
=============================================================================
