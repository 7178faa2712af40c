------------------------------- MODULE Claims -------------------------------
(***************************************************************************)
(* Airdrops and vesting schedules: contracts that owe an account something *)
(* once.  past.paid adds up what the invocations of claim paid or returned *)
(* to each account.                                                        *)
(***************************************************************************)
EXTENDS Contract

Pay(p, u, n) == [p EXCEPT !.paid[u] = @ + n]

(* A Merkle root commits to a set of leaves: sha256 has no collisions, and *)
(* a proof exists exactly for the leaves of the tree.                      *)
Grants == {1, 2}
Roots == {{<<a, n>> : a \in Address} : n \in Grants}

-----------------------------------------------------------------------------
(* airdrop_expiry_ignored.  The observer also knows whether the campaign   *)
(* has been closed by reclaim_expired_funds since the last initialize.     *)
Expiry_Init ==
    /\ crate = "airdrop_expiry_ignored"
    /\ store = [admin |-> None, expiry |-> None, balance |-> 0, claimed |-> {}, root |-> None]
    /\ past = [paid |-> Zero, closed |-> FALSE]

Expiry_verify_merkle_proof(u, n, root) == <<u, n>> \in root

\* May be called again by anyone who signs as the new admin.
Expiry_initialize(admin, expiry, balance) ==
    WriteAnd([store EXCEPT !.admin = admin, !.expiry = expiry, !.balance = balance],
             [past EXCEPT !.closed = FALSE])

Expiry_set_merkle_root(root) ==
    /\ store.admin # None
    /\ Write([store EXCEPT !.root = root])

Expiry_claim_lib(u, n) ==
    /\ u \notin store.claimed
    /\ store.root # None
    /\ Expiry_verify_merkle_proof(u, n, store.root)
    /\ WriteAnd([store EXCEPT !.claimed = @ \cup {u}, !.balance = @ - n], Pay(past, u, n))

Expiry_claim(u, n) ==
    /\ store.expiry # None
    /\ now <= store.expiry
    /\ Expiry_claim_lib(u, n)

\* Needs a signature, but of any account.
Expiry_reclaim_expired_funds ==
    /\ store.expiry # None
    /\ now > store.expiry
    /\ WriteAnd([store EXCEPT !.balance = 0], [past EXCEPT !.closed = TRUE])

Expiry_Next ==
    /\ crate = "airdrop_expiry_ignored"
    /\ \E u \in Address, e \in 0..1, n \in Grants, r \in Roots :
        \/ Lib /\ Expiry_initialize(u, e, n)
        \/ Lib /\ Expiry_set_merkle_root(r)
        \/ Lib /\ Expiry_claim_lib(u, n)
        \/ Secure /\ Expiry_initialize(u, e, n)
        \/ Secure /\ Expiry_set_merkle_root(r)
        \/ Secure /\ Expiry_claim(u, n)
        \/ Secure /\ Expiry_reclaim_expired_funds
        \/ CloseLedger

\* Nobody is paid after the expiry in force, nor out of a campaign whose funds
\* were reclaimed, until it is set up again.
Expiry_ClosedPaysNobody ==
    past'.paid # past.paid => now <= store.expiry /\ ~past.closed

-----------------------------------------------------------------------------
(* airdrop_claim_before_start.  held is what the token contract credits to *)
(* the campaign; MaxHeld bounds what the admin owns.                       *)
MaxHeld == 3

Start_Init ==
    /\ crate = "airdrop_claim_before_start"
    /\ store = [admin |-> None, start |-> None, claimed |-> {}, held |-> 0]
    /\ past = [paid |-> Zero, funded |-> 0]

Start_initialize(admin, start) ==
    /\ store.admin = None
    /\ Write([store EXCEPT !.admin = admin, !.start = start])

Start_fund(n) ==
    /\ store.admin # None
    /\ token_moves(MaxHeld - past.funded, n)
    /\ WriteAnd([store EXCEPT !.held = @ + n], [past EXCEPT !.funded = @ + n])

Start_claim_lib(u, n) ==
    /\ u \notin store.claimed
    /\ store.admin # None
    /\ token_moves(store.held, n)
    /\ WriteAnd([store EXCEPT !.claimed = @ \cup {u}, !.held = @ - n], Pay(past, u, n))

Start_claim(u, n) ==
    /\ store.start # None
    /\ now >= store.start
    /\ Start_claim_lib(u, n)

Start_Next ==
    /\ crate = "airdrop_claim_before_start"
    /\ \E u \in Address, n \in -1..2 :
        \/ Lib /\ (Start_initialize(u, n + 1) \/ Start_fund(n) \/ Start_claim_lib(u, n))
        \/ Secure /\ (Start_initialize(u, n + 1) \/ Start_fund(n) \/ Start_claim(u, n))
        \/ CloseLedger

\* Nobody has claimed before the start, and what was paid is out of the fund.
Start_PaidAfterStart ==
    /\ store.claimed # {} => store.start <= now
    /\ store.held + SumFunction(past.paid) = past.funded

-----------------------------------------------------------------------------
(* airdrop_campaign_collision.  The fixture keys a claim by the account,   *)
(* its mirror by campaign and account, and puts the campaign in the leaf.  *)
CampaignIds == {1, 2}

Campaign_Init ==
    /\ crate = "airdrop_campaign_collision"
    /\ store = [admin |-> None, root |-> [c \in CampaignIds |-> None], claimed |-> {}]
    /\ past = [paid |-> [c \in CampaignIds |-> Zero], leaves |-> [c \in CampaignIds |-> {}]]

CampaignRoots == {{<<c, a, 1>> : a \in Address} : c \in CampaignIds}

Campaign_verify_merkle_proof_lib(u, n, root) == \E c \in CampaignIds : <<c, u, n>> \in root

Campaign_verify_merkle_proof_secure(c, u, n, root) == <<c, u, n>> \in root

Campaign_initialize(admin) == Write([store EXCEPT !.admin = admin])

Campaign_create_campaign(c, root) ==
    /\ store.admin # None
    /\ WriteAnd([store EXCEPT !.root[c] = root], [past EXCEPT !.leaves[c] = @ \cup root])

Campaign_claim_lib(c, u, n) ==
    /\ u \notin store.claimed
    /\ store.root[c] # None
    /\ Campaign_verify_merkle_proof_lib(u, n, store.root[c])
    /\ WriteAnd([store EXCEPT !.claimed = @ \cup {u}],
                [past EXCEPT !.paid[c][u] = @ + n])

Campaign_claim(c, u, n) ==
    /\ <<c, u>> \notin store.claimed
    /\ store.root[c] # None
    /\ Campaign_verify_merkle_proof_secure(c, u, n, store.root[c])
    /\ WriteAnd([store EXCEPT !.claimed = @ \cup {<<c, u>>}],
                [past EXCEPT !.paid[c][u] = @ + n])

Campaign_Next ==
    /\ crate = "airdrop_campaign_collision"
    /\ \E c \in CampaignIds, u \in Address, n \in Grants, r \in CampaignRoots :
        \/ Lib /\ (Campaign_initialize(u) \/ Campaign_create_campaign(c, r)
                   \/ Campaign_claim_lib(c, u, n))
        \/ Secure /\ (Campaign_initialize(u) \/ Campaign_create_campaign(c, r)
                      \/ Campaign_claim(c, u, n))

\* A leaf is good in its own campaign and once: a campaign pays an account
\* only what a root of that campaign grants it, and being paid by one campaign
\* takes nothing away from what another owes.
Campaign_OwedIsClaimable ==
    \A c \in CampaignIds, u \in Address :
        /\ past.paid[c][u] > 0 => <<c, u, past.paid[c][u]>> \in past.leaves[c]
        /\ (store.root[c] # None /\ <<c, u, 1>> \in store.root[c] /\ past.paid[c][u] = 0)
                => <<c, u>> \notin store.claimed

-----------------------------------------------------------------------------
(* merkle_leaf_missing_amount.  The fixture's leaf is the account alone;   *)
(* the mirror's is account, amount, campaign and contract, of which the    *)
(* last two are fixed per deployment.  A root is the set of leaves.        *)
Leaf_Init ==
    /\ crate = "merkle_leaf_missing_amount"
    /\ store = [admin |-> None, root |-> None, claimed |-> {}, held |-> 0]
    /\ past = [paid |-> Zero, funded |-> 0]

Leaf_verify_merkle_proof_lib(u, n) == \E m \in Grants : <<u, m>> \in store.root

Leaf_verify_merkle_proof(u, n) == <<u, n>> \in store.root

Leaf_initialize(admin, root) ==
    /\ store.admin = None
    /\ Write([store EXCEPT !.admin = admin, !.root = root])

Leaf_fund(n) ==
    /\ store.admin # None
    /\ token_moves(MaxHeld - past.funded, n)
    /\ WriteAnd([store EXCEPT !.held = @ + n], [past EXCEPT !.funded = @ + n])

Leaf_claim_lib(u, n) ==
    /\ u \notin store.claimed
    /\ store.root # None
    /\ Leaf_verify_merkle_proof_lib(u, n)
    /\ token_moves(store.held, n)
    /\ WriteAnd([store EXCEPT !.claimed = @ \cup {u}, !.held = @ - n], Pay(past, u, n))

Leaf_claim(u, n) ==
    /\ u \notin store.claimed
    /\ store.root # None
    /\ Leaf_verify_merkle_proof(u, n)
    /\ token_moves(store.held, n)
    /\ WriteAnd([store EXCEPT !.claimed = @ \cup {u}, !.held = @ - n], Pay(past, u, n))

Leaf_Next ==
    /\ crate = "merkle_leaf_missing_amount"
    /\ \E u \in Address, n \in 0..2, r \in Roots :
        \/ Lib /\ (Leaf_initialize(u, r) \/ Leaf_fund(n) \/ Leaf_claim_lib(u, n))
        \/ Secure /\ (Leaf_initialize(u, r) \/ Leaf_fund(n) \/ Leaf_claim(u, n))

\* An account was paid nothing or the amount of a leaf of its own, once.
Leaf_PaidAsListed ==
    /\ \A u \in Address : past.paid[u] > 0 => <<u, past.paid[u]>> \in store.root
    /\ store.held + SumFunction(past.paid) = past.funded

-----------------------------------------------------------------------------
(* epoch_claim_no_advance.  init and advance_epoch are open to everyone.   *)
(* past.claims lists, per account, the epochs it was paid for.             *)
MaxEpoch == 2

Epoch_Init ==
    /\ crate = "epoch_claim_no_advance"
    /\ store = [current |-> 0, reward |-> 0, last |-> Zero]
    /\ past = [claims |-> [u \in Address |-> <<>>]]

Epoch_init(epoch, reward) == Write([store EXCEPT !.current = epoch, !.reward = reward])

Epoch_advance_epoch ==
    /\ store.current < MaxEpoch
    /\ Write([store EXCEPT !.current = @ + 1])

\* The observer stops counting after MaxEpoch + 1 claims.
Epoch_Claimed(u) ==
    [past EXCEPT !.claims[u] = IF Len(@) > MaxEpoch THEN @ ELSE Append(@, store.current)]

Epoch_claim_vulnerable(u) == Observe(Epoch_Claimed(u))

Epoch_claim_secure(u) ==
    /\ store.current > store.last[u]
    /\ WriteAnd([store EXCEPT !.last[u] = store.current], Epoch_Claimed(u))

Epoch_get_last_claimed_epoch(u) == store.last[u]

Epoch_Next ==
    /\ crate = "epoch_claim_no_advance"
    /\ \E u \in Address, e \in 0..MaxEpoch :
        \/ Lib /\ (Epoch_init(e, 1) \/ Epoch_advance_epoch \/ Epoch_claim_vulnerable(u))
        \/ Secure /\ (Epoch_init(e, 1) \/ Epoch_advance_epoch \/ Epoch_claim_secure(u))

\* No epoch is paid twice to one account, also when init turns the epoch back.
Epoch_PaidOnce ==
    \A u \in Address :
        /\ IsInjective(past.claims[u])
        /\ past.claims[u] # <<>> => Epoch_get_last_claimed_epoch(u) = Last(past.claims[u])
=============================================================================
