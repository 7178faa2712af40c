------------------------------ MODULE Permits -------------------------------
(***************************************************************************)
(* Who may act for whom: permits, allowances, delegates, signed listings   *)
(* and signed payloads.  The crates with an allowance store the same       *)
(* entries: Balance(account), Allowance(owner, spender), Nonce(owner).     *)
(***************************************************************************)
EXTENDS Contract

Allowances == -1..1
MaxAllowed == 2        \* bound on the balances, the nonces and what is drawn
Spender == Address \ Solo   \* one owner, the others spend
NoAllowance == [o \in Address |-> Zero]

\* A bound on the balances of a behaviour.
WithinBounds(balance) == \A u \in Address : balance[u] \in -1..MaxAllowed

\* Nothing is ever checked against a balance but the amount itself, so
\* mint takes what it is given.
Mints(to, n) ==
    /\ store.balance[to] + n \in -1..MaxAllowed
    /\ WriteAnd([store EXCEPT !.balance[to] = @ + n], [past EXCEPT !.minted = @ + n])

\* The balance of the receiver is read after the sender's is written.
Moved(b, from, to, n) ==
    LET paid == [b EXCEPT ![from] = @ - n]
    IN  [paid EXCEPT ![to] = @ + n]

Draws(spender, from, to, n) ==
    /\ store.allow[from][spender] >= n
    /\ store.balance[from] >= n
    /\ past.drawn[from][spender] + n \in -1..MaxAllowed
    /\ WithinBounds(Moved(store.balance, from, to, n))
    /\ WriteAnd([store EXCEPT !.balance = Moved(@, from, to, n), !.allow[from][spender] = @ - n],
                [past EXCEPT !.drawn[from][spender] = @ + n])

\* What was drawn since the latest grant is missing from the allowance, and
\* no token appears or disappears.
GrantsAddUp ==
    /\ \A o, s \in Address : store.allow[o][s] + past.drawn[o][s] = past.granted[o][s]
    /\ SumFunction(store.balance) = past.minted

History == [minted |-> 0, drawn |-> NoAllowance, granted |-> NoAllowance]

Granted(p, o, s, n) == [p EXCEPT !.granted[o][s] = n, !.drawn[o][s] = 0]

-----------------------------------------------------------------------------
(* permit_domain_missing.  The owner signs the invocation; the digest is   *)
(* computed and dropped.  A site is a contract address and a network; the  *)
(* store is that of the site Here.  past.digests are the digests of the    *)
(* permits accepted at all sites, past.permits their number and            *)
(* past.nonces the nonces of the owners at the other sites.                *)
Here == <<"token_a", "public">>
Elsewhere == {<<"token_b", "public">>, <<"token_a", "testnet">>}

Domain_Init ==
    /\ crate = "permit_domain_missing"
    /\ store = [balance |-> Zero, allow |-> NoAllowance, nonce |-> Zero]
    /\ past = [minted |-> 0, drawn |-> NoAllowance, granted |-> NoAllowance,
               digests |-> {}, permits |-> 0, nonces |-> [w \in Elsewhere |-> Zero]]

Domain_mint(to, n) == Mints(to, n)

Domain_permit_digest_lib(o, s, n) == <<o, s, n>>

Domain_permit_digest(site, o, s, n, nonce, deadline) ==
    <<site, nonce, deadline, "permit", o, s, n>>

Accepted(p, digest) == [p EXCEPT !.digests = @ \cup {digest}, !.permits = @ + 1]

Domain_permit_lib(o, s, n) ==
    /\ past.permits < MaxAllowed
    /\ WriteAnd([store EXCEPT !.allow[o][s] = n],
                Accepted(Granted(past, o, s, n), Domain_permit_digest_lib(o, s, n)))

Domain_permit(o, s, n, deadline) ==
    /\ past.permits < MaxAllowed
    /\ now <= deadline
    /\ WriteAnd([store EXCEPT !.allow[o][s] = n, !.nonce[o] = @ + 1],
                Accepted(Granted(past, o, s, n),
                         Domain_permit_digest(Here, o, s, n, store.nonce[o], deadline)))

\* The same code, deployed a second time or on another network.
Domain_permit_elsewhere_lib(o, s, n) ==
    /\ past.permits < MaxAllowed
    /\ Observe(Accepted(past, Domain_permit_digest_lib(o, s, n)))

Domain_permit_elsewhere(w, o, s, n, deadline) ==
    /\ past.permits < MaxAllowed
    /\ now <= deadline
    /\ Observe([Accepted(past, Domain_permit_digest(w, o, s, n, past.nonces[w][o], deadline))
                   EXCEPT !.nonces[w][o] = @ + 1])

Domain_transfer_from(spender, from, to, n) == Draws(spender, from, to, n)

Domain_Next ==
    /\ crate = "permit_domain_missing"
    /\ \E o \in Solo, s \in Spender, to \in Address, n \in Allowances, d \in {0, 1}, w \in Elsewhere :
        \/ Lib /\ (Domain_mint(o, n) \/ Domain_permit_lib(o, s, n)
                   \/ Domain_permit_elsewhere_lib(o, s, n) \/ Domain_transfer_from(s, o, to, n))
        \/ Secure /\ (Domain_mint(o, n) \/ Domain_permit(o, s, n, d)
                      \/ Domain_permit_elsewhere(w, o, s, n, d) \/ Domain_transfer_from(s, o, to, n))
        \/ now = 0 /\ CloseLedger

\* No signed digest authorizes two permits: not one after the other, not at
\* two deployments and not on two networks.
Domain_DigestsDistinct == Cardinality(past.digests) = past.permits /\ GrantsAddUp

-----------------------------------------------------------------------------
(* permit_deadline_ignored.  past.late says that a permit was accepted     *)
(* after the deadline its owner had signed.                                *)
Deadline_Init ==
    /\ crate = "permit_deadline_ignored"
    /\ store = [balance |-> Zero, allow |-> NoAllowance, nonce |-> Zero]
    /\ past = [minted |-> 0, drawn |-> NoAllowance, granted |-> NoAllowance, late |-> FALSE, permits |-> 0]

Deadline_mint(to, n) == Mints(to, n)

Deadline_permit_lib(o, s, n, deadline) ==
    /\ store.nonce[o] < MaxAllowed
    /\ WriteAnd([store EXCEPT !.nonce[o] = @ + 1, !.allow[o][s] = n],
                [Granted(past, o, s, n) EXCEPT !.late = @ \/ now > deadline, !.permits = @ + 1])

Deadline_permit(o, s, n, deadline) == now <= deadline /\ Deadline_permit_lib(o, s, n, deadline)

Deadline_transfer_from(spender, from, to, n) == Draws(spender, from, to, n)

Deadline_Next ==
    /\ crate = "permit_deadline_ignored"
    /\ \E o \in Solo, s \in Spender, to \in Address, n \in Allowances, d \in {0, 1} :
        \/ Lib /\ (Deadline_mint(o, n) \/ Deadline_permit_lib(o, s, n, d)
                   \/ Deadline_transfer_from(s, o, to, n))
        \/ Secure /\ (Deadline_mint(o, n) \/ Deadline_permit(o, s, n, d)
                      \/ Deadline_transfer_from(s, o, to, n))
        \/ now = 0 /\ CloseLedger

\* Every permit used one nonce, none was accepted late, and the allowances
\* are what the permits granted.
Deadline_PermitsInTime ==
    /\ SumFunction(store.nonce) = past.permits
    /\ ~past.late
    /\ GrantsAddUp

-----------------------------------------------------------------------------
(* delegate_signer_mismatch.  past.signer is who signed the latest         *)
(* invocation.                                                             *)
Signer_Init ==
    /\ crate = "delegate_signer_mismatch"
    /\ store = [balance |-> Zero, allow |-> NoAllowance]
    /\ past = [minted |-> 0, drawn |-> NoAllowance, granted |-> NoAllowance, signer |-> None]

Signer_mint(to, n) == Mints(to, n)

Signer_approve(o, d, n) ==
    WriteAnd([store EXCEPT !.allow[o][d] = n], [Granted(past, o, d, n) EXCEPT !.signer = o])

\* The receiver's balance is read after the owner's is written here too.
Signer_draws(d, o, to, n, signer) ==
    /\ store.allow[o][d] >= n
    /\ store.balance[o] >= n
    /\ past.drawn[o][d] + n \in -1..MaxAllowed
    /\ WithinBounds(Moved(store.balance, o, to, n))
    /\ WriteAnd([store EXCEPT !.balance = Moved(@, o, to, n), !.allow[o][d] = @ - n],
                [past EXCEPT !.drawn[o][d] = @ + n, !.signer = signer])

Signer_transfer_from_lib(d, o, to, n) == Signer_draws(d, o, to, n, o)

Signer_transfer_from(d, o, to, n) == Signer_draws(d, o, to, n, d)

Signer_Next ==
    /\ crate = "delegate_signer_mismatch"
    /\ \E o \in Solo, d \in Spender, to \in Address, n \in Allowances :
        \/ Lib /\ (Signer_mint(o, n) \/ Signer_approve(o, d, n)
                   \/ Signer_transfer_from_lib(d, o, to, n))
        \/ Secure /\ (Signer_mint(o, n) \/ Signer_approve(o, d, n)
                      \/ Signer_transfer_from(d, o, to, n))

\* Only a delegate uses the delegate's allowance.
Signer_DelegateDraws ==
    \A o, d \in Address :
        (store'.allow[o][d] # store.allow[o][d] /\ past'.granted = past.granted
            /\ store'.balance # store.balance)
        => past'.signer = d

-----------------------------------------------------------------------------
(* nonzero_allowance_overwrite.  past sums, for an owner and a spender,    *)
(* what was granted, what was drawn and what an approval of zero took      *)
(* back.                                                                   *)
MaxGranted == 3        \* bound on these sums

Overwrite_Init ==
    /\ crate = "nonzero_allowance_overwrite"
    /\ store = [balance |-> Zero, allow |-> NoAllowance]
    /\ past = [minted |-> 0, drawn |-> NoAllowance, granted |-> NoAllowance, revoked |-> NoAllowance]

Overwrite_mint(to, n) == Mints(to, n)

Overwrite_approve_lib(o, s, n) ==
    LET back == IF n = 0 THEN store.allow[o][s] ELSE 0
    IN  /\ past.granted[o][s] + n \in -1..MaxGranted
        /\ past.revoked[o][s] + back \in -1..MaxGranted
        /\ WriteAnd([store EXCEPT !.allow[o][s] = n],
                    [past EXCEPT !.granted[o][s] = @ + n, !.revoked[o][s] = @ + back])

Overwrite_approve(o, s, n) == (n = 0 \/ store.allow[o][s] = 0) /\ Overwrite_approve_lib(o, s, n)

Overwrite_transfer_from(spender, from, to, n) == Draws(spender, from, to, n)

Overwrite_Next ==
    /\ crate = "nonzero_allowance_overwrite"
    /\ \E o \in Solo, s \in Spender, to \in Address, n \in -1..2 :
        \/ Lib /\ (Overwrite_mint(o, n) \/ Overwrite_approve_lib(o, s, n)
                   \/ Overwrite_transfer_from(s, o, to, n))
        \/ Secure /\ (Overwrite_mint(o, n) \/ Overwrite_approve(o, s, n)
                      \/ Overwrite_transfer_from(s, o, to, n))

\* Over all approvals, whatever was granted was drawn, was taken back by an
\* approval of zero or is still open: no approval replaces what is left of an
\* earlier one.  A spender who is quick enough still draws all of an old grant
\* and then a new one, since the allowance is zero in between.
Overwrite_GrantsAccountedFor ==
    /\ \A o, s \in Address :
           past.granted[o][s] = past.drawn[o][s] + past.revoked[o][s] + store.allow[o][s]
    /\ SumFunction(store.balance) = past.minted

-----------------------------------------------------------------------------
(* allowance_before_balance.  One contract holds both versions: the        *)
(* allowance is reduced before or after the balance is checked, and a      *)
(* failed check takes the invocation back either way.                      *)
Before_Init ==
    /\ crate = "allowance_before_balance"
    /\ store = [balance |-> Zero, allow |-> NoAllowance]
    /\ past = History

Before_mint(to, n) == Mints(to, n)

Before_approve(o, s, n) == WriteAnd([store EXCEPT !.allow[o][s] = n], Granted(past, o, s, n))

Before_transfer_from_lib(spender, from, to, n) == Draws(spender, from, to, n)

Before_transfer_from(spender, from, to, n) == Draws(spender, from, to, n)

Before_Next ==
    /\ crate = "allowance_before_balance"
    /\ \E o \in Solo, s \in Spender, to \in Address, n \in Allowances :
        \/ Before_mint(o, n)
        \/ Before_approve(o, s, n)
        \/ Before_transfer_from_lib(s, o, to, n)
        \/ Before_transfer_from(s, o, to, n)

-----------------------------------------------------------------------------
(* allowance_not_decremented                                               *)
Decrement_Init ==
    /\ crate = "allowance_not_decremented"
    /\ store = [balance |-> Zero, allow |-> NoAllowance]
    /\ past = History

Decrement_mint(to, n) == Mints(to, n)

Decrement_approve(o, s, n) ==
    WriteAnd([store EXCEPT !.allow[o][s] = n], Granted(past, o, s, n))

Decrement_transfer_from_lib(spender, from, to, n) ==
    /\ store.allow[from][spender] >= n
    /\ store.balance[from] >= n
    /\ past.drawn[from][spender] + n \in -1..MaxAllowed
    /\ WithinBounds(Moved(store.balance, from, to, n))
    /\ WriteAnd([store EXCEPT !.balance = Moved(@, from, to, n)], [past EXCEPT !.drawn[from][spender] = @ + n])

Decrement_transfer_from(spender, from, to, n) == Draws(spender, from, to, n)

Decrement_Next ==
    /\ crate = "allowance_not_decremented"
    /\ \E o \in Solo, s \in Spender, to \in Address, n \in Allowances :
        \/ Lib /\ (Decrement_mint(o, n) \/ Decrement_approve(o, s, n)
                   \/ Decrement_transfer_from_lib(s, o, to, n))
        \/ Secure /\ (Decrement_mint(o, n) \/ Decrement_approve(o, s, n)
                      \/ Decrement_transfer_from(s, o, to, n))

-----------------------------------------------------------------------------
(* listing_price_signature_gap, with one NFT.  The seller's signature is   *)
(* ideal: past.signed are the listings sellers signed (external), past.at  *)
(* the signed listing the latest sale falls under, if any.                 *)
Listing == [seller : Solo, price : {1, 2}, expiry : {0, 1}]

Listing_Init ==
    /\ crate = "listing_price_signature_gap"
    /\ store = [owner |-> None, balance |-> Zero]
    /\ past = [signed |-> {}, funded |-> 0, unsigned |-> FALSE]

Listing_sign(l) == past.signed = {} /\ Observe([past EXCEPT !.signed = {l}])

Listing_mint(owner) == Write([store EXCEPT !.owner = owner])

Listing_fund(buyer, n) ==
    /\ store.balance[buyer] + n \in -1..MaxAllowed
    /\ WriteAnd([store EXCEPT !.balance[buyer] = @ + n], [past EXCEPT !.funded = @ + n])

\* The sale itself; FillCount, which nothing reads, is left out.
Listing_sale(buyer, seller, price) ==
    /\ store.owner # None
    /\ store.owner = seller
    /\ store.balance[buyer] >= price
    /\ store.balance[seller] + price <= MaxAllowed + 1
    /\ WriteAnd([owner |-> buyer,
                 balance |-> [[store.balance EXCEPT ![buyer] = @ - price] EXCEPT ![seller] = @ + price]],
                [past EXCEPT !.unsigned = @ \/ ~\E l \in past.signed :
                    l.seller = seller /\ l.price = price /\ now <= l.expiry])

\* The signed digest covers the NFT and the seller only.
Listing_fill_listing_lib(buyer, l) ==
    /\ \E s \in past.signed : s.seller = l.seller
    /\ Listing_sale(buyer, l.seller, l.price)

Listing_secure_listing_digest(l) == l

Listing_fill_listing(buyer, l) ==
    /\ now <= l.expiry
    /\ Listing_secure_listing_digest(l) \in {Listing_secure_listing_digest(s) : s \in past.signed}
    /\ Listing_sale(buyer, l.seller, l.price)

Listing_balance_of(u) == store.balance[u]

Listing_Next ==
    /\ crate = "listing_price_signature_gap"
    /\ \E u \in Address, n \in -1..2, l \in Listing :
        \/ Listing_sign(l)
        \/ Lib /\ (Listing_mint(u) \/ Listing_fund(u, n) \/ Listing_fill_listing_lib(u, l))
        \/ Secure /\ (Listing_mint(u) \/ Listing_fund(u, n) \/ Listing_fill_listing(u, l))
        \/ now = 0 /\ CloseLedger

\* An NFT is sold at a price its seller signed, before the listing expires,
\* and the price reaches the seller.
Listing_AtSignedPrice ==
    /\ ~past.unsigned
    /\ SumFunction([u \in Address |-> Listing_balance_of(u)]) = past.funded

-----------------------------------------------------------------------------
(* replay_attack.  sig names the payload the signature was made for.       *)
Payload == {"p", "q"}

Replay_Init ==
    /\ crate = "replay_attack"
    /\ store = [count |-> [p \in Payload |-> 0], used |-> {}]
    /\ past = [executed |-> 0]

Replay_verify_signature(p, sig) == sig = p

Replay_run(s, p) ==
    /\ store.count[p] < 3                                \* bound on the executions
    /\ WriteAnd([s EXCEPT !.count[p] = @ + 1], [executed |-> past.executed + 1])

Replay_execute_signed_lib(p, sig) == Replay_verify_signature(p, sig) /\ Replay_run(store, p)

Replay_execute_signed(p, sig) ==
    /\ Replay_verify_signature(p, sig)
    /\ sig \notin store.used
    /\ Replay_run([store EXCEPT !.used = @ \cup {sig}], p)

Replay_exec_count(p) == store.count[p]

Replay_Next ==
    /\ crate = "replay_attack"
    /\ \E p, sig \in Payload :
        \/ Lib /\ Replay_execute_signed_lib(p, sig)
        \/ Secure /\ Replay_execute_signed(p, sig)

\* A signature executes its payload once.
Replay_ExecutedOnce ==
    (\A p \in Payload : Replay_exec_count(p) <= 1) /\ past.executed = Cardinality(store.used)

-----------------------------------------------------------------------------
(* expired_delegation.  signer is who signs the invocation.  While a       *)
(* delegate is stored only the delegate may act, the admin may not: an     *)
(* expired delegation stops set_value until the admin delegates again.     *)
Delegation_Init ==
    /\ crate = "expired_delegation"
    /\ store = [admin |-> None, delegate |-> None, expiry |-> 0, value |-> 0]
    /\ past = [signer |-> None]

Delegation_initialize(admin) == store.admin = None /\ Write([store EXCEPT !.admin = admin])

Delegation_require_admin(signer) == store.admin # None /\ signer = store.admin

Delegation_delegate_admin(signer, delegate, expiry) ==
    /\ Delegation_require_admin(signer)
    /\ Write([store EXCEPT !.delegate = delegate, !.expiry = expiry])

Delegation_require_admin_or_delegate_lib(signer) ==
    \/ store.delegate # None /\ signer = store.delegate
    \/ store.delegate = None /\ Delegation_require_admin(signer)

Delegation_require_admin_or_delegate(signer) ==
    \/ store.delegate # None /\ now <= store.expiry /\ signer = store.delegate
    \/ store.delegate = None /\ Delegation_require_admin(signer)

Delegation_set_value_lib(signer, value) ==
    /\ Delegation_require_admin_or_delegate_lib(signer)
    /\ WriteAnd([store EXCEPT !.value = value], [signer |-> signer])

Delegation_set_value(signer, value) ==
    /\ Delegation_require_admin_or_delegate(signer)
    /\ WriteAnd([store EXCEPT !.value = value], [signer |-> signer])

Delegation_Next ==
    /\ crate = "expired_delegation"
    /\ \E u, d \in Address, n \in 0..1 :
        \/ Lib /\ (Delegation_initialize(u) \/ Delegation_delegate_admin(u, d, n)
                   \/ Delegation_set_value_lib(u, n))
        \/ Secure /\ (Delegation_initialize(u) \/ Delegation_delegate_admin(u, d, n)
                      \/ Delegation_set_value(u, n))
        \/ CloseLedger

\* After its expiry a delegation changes nothing any more.
Delegation_Ends ==
    store'.value # store.value =>
        \/ past'.signer = store.admin
        \/ past'.signer = store.delegate /\ now <= store.expiry
=============================================================================
