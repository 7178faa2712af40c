------------------------------- MODULE Admins -------------------------------
(***************************************************************************)
(* Fixtures on who may act: the hand-over of an admin, roles, collectors,  *)
(* plugins and sweeps.  Where an action has a parameter signer, it is the  *)
(* account whose signature the invocation carries.                         *)
(***************************************************************************)
EXTENDS Contract, Functions

AdminFunds == -1..2     \* bound on a balance

-----------------------------------------------------------------------------
(* stale_pending_admin.  past.offer is the account the admin last offered  *)
(* the role to and has not called back.                                    *)
MaxOffers == 3          \* bound on the proposals

Pending_Init ==
    /\ crate = "stale_pending_admin"
    /\ store = [admin |-> None, pending |-> None, pending_nonce |-> None, nonce |-> 0]
    /\ past = [offer |-> None, accepted |-> None]

Pending_initialize(u) ==
    /\ store.admin = None
    /\ Write([store EXCEPT !.admin = u, !.nonce = 0])

Pending_get_admin == store.admin

Pending_get_pending_admin == store.pending

Pending_propose_admin_lib(u) ==
    /\ Pending_get_admin # None
    /\ WriteAnd([store EXCEPT !.pending = u], [past EXCEPT !.offer = u])

\* The pending entry stays.
Pending_cancel_admin_transfer_lib ==
    Pending_get_admin # None /\ Observe([past EXCEPT !.offer = None])

Pending_take ==
    WriteAnd([store EXCEPT !.admin = store.pending, !.pending = None, !.pending_nonce = None],
             [offer |-> None, accepted |-> [by |-> store.pending, offered |-> past.offer]])

Pending_accept_admin_lib(nonce) == Pending_get_pending_admin # None /\ Pending_take

Pending_propose_admin(u) ==
    /\ Pending_get_admin # None
    /\ store.nonce < MaxOffers
    /\ WriteAnd([store EXCEPT !.nonce = @ + 1, !.pending_nonce = store.nonce + 1, !.pending = u],
                [past EXCEPT !.offer = u])

Pending_cancel_admin_transfer ==
    /\ Pending_get_admin # None
    /\ WriteAnd([store EXCEPT !.pending = None, !.pending_nonce = None],
                [past EXCEPT !.offer = None])

Pending_accept_admin(nonce) ==
    /\ Pending_get_pending_admin # None
    /\ nonce = store.pending_nonce
    /\ Pending_take

Pending_Next ==
    /\ crate = "stale_pending_admin"
    /\ \E u \in Address, nonce \in 0..MaxOffers :
        \/ Lib /\ (Pending_initialize(u) \/ Pending_propose_admin_lib(u)
                   \/ Pending_cancel_admin_transfer_lib \/ Pending_accept_admin_lib(nonce))
        \/ Secure /\ (Pending_initialize(u) \/ Pending_propose_admin(u)
                      \/ Pending_cancel_admin_transfer \/ Pending_accept_admin(nonce))

\* The role is taken by the account it was last offered to, and not after the
\* offer was called back.
Pending_OfferStands == past.accepted # None => past.accepted.by = past.accepted.offered

-----------------------------------------------------------------------------
(* accept_admin_missing_auth.  past.took is the last hand-over: who signed *)
(* it and who became admin.                                                *)
Accept_Init ==
    /\ crate = "accept_admin_missing_auth"
    /\ store = [admin |-> None, pending |-> None]
    /\ past = [took |-> None]

Accept_initialize(u) == store.admin = None /\ Write([store EXCEPT !.admin = u])

Accept_get_admin == store.admin

Accept_get_pending_admin == store.pending

Accept_propose_admin(u) ==
    Accept_get_admin # None /\ Write([store EXCEPT !.pending = u])

Accept_cancel_admin_transfer ==
    Accept_get_admin # None /\ Write([store EXCEPT !.pending = None])

Accept_accept_admin_lib(signer) ==
    /\ Accept_get_pending_admin # None
    /\ WriteAnd([admin |-> store.pending, pending |-> None],
                [took |-> [signer |-> signer, admin |-> store.pending]])

Accept_accept_admin(signer) ==
    signer = Accept_get_pending_admin /\ Accept_accept_admin_lib(signer)

Accept_Next ==
    /\ crate = "accept_admin_missing_auth"
    /\ \E u \in Address :
        \/ Lib /\ (Accept_initialize(u) \/ Accept_propose_admin(u)
                   \/ Accept_cancel_admin_transfer \/ Accept_accept_admin_lib(u))
        \/ Secure /\ (Accept_initialize(u) \/ Accept_propose_admin(u)
                      \/ Accept_cancel_admin_transfer \/ Accept_accept_admin(u))

\* No account becomes admin without its own signature.
Accept_AdminConsents == past.took # None => past.took.signer = past.took.admin

-----------------------------------------------------------------------------
(* public_role_grant.  past.granted holds the operators the admin signed   *)
(* for and did not revoke.                                                 *)
Role_Init ==
    /\ crate = "public_role_grant"
    /\ store = [admin |-> None, operators |-> {}]
    /\ past = [granted |-> {}, acted |-> {}]

Role_initialize(u) == store.admin = None /\ Write([store EXCEPT !.admin = u])

Role_get_admin_lib == store.admin

Role_admin_of == store.admin

Role_is_operator(u) == u \in store.operators

\* vulnerable_entry: makes any account an operator.
Role_grant_operator_lib(signer, u, n) ==
    WriteAnd([store EXCEPT !.operators = @ \union {u}],
             [past EXCEPT !.granted = IF signer = Role_get_admin_lib THEN @ \union {u} ELSE @])

Role_grant_operator(signer, u, n) ==
    /\ n >= 0
    /\ Role_admin_of # None /\ signer = Role_admin_of
    /\ Role_grant_operator_lib(signer, u, n)

Role_revoke_operator(signer, u) ==
    /\ Role_admin_of # None /\ signer = Role_admin_of
    /\ WriteAnd([store EXCEPT !.operators = @ \ {u}], [past EXCEPT !.granted = @ \ {u}])

\* The caller is named, not signed for.
Role_operator_only_action(u) ==
    Role_is_operator(u) /\ Observe([past EXCEPT !.acted = @ \union {u}])

Role_Next ==
    /\ crate = "public_role_grant"
    /\ \E signer, u \in Address, n \in {-1, 1} :
        \/ Role_operator_only_action(u)
        \/ Lib /\ (Role_initialize(u) \/ Role_grant_operator_lib(signer, u, n))
        \/ Secure /\ (Role_initialize(u) \/ Role_grant_operator(signer, u, n)
                      \/ Role_revoke_operator(signer, u))

\* The operators are those the admin granted the role and did not take it from.
Role_OperatorsAreGranted == \A u \in Address : Role_is_operator(u) <=> u \in past.granted

-----------------------------------------------------------------------------
(* operator_role_not_enforced.  past.taken is what was withdrawn by each   *)
(* account, net.                                                           *)
Enforce_Init ==
    /\ crate = "operator_role_not_enforced"
    /\ store = [operator |-> None, balance |-> 0]
    /\ past = [deposited |-> 0, taken |-> Zero]

Enforce_init(u) == store.operator = None /\ Write([store EXCEPT !.operator = u])

Enforce_deposit(n) ==
    /\ store.balance + n \in AdminFunds /\ past.deposited + n \in AdminFunds
    /\ WriteAnd([store EXCEPT !.balance = @ + n], [past EXCEPT !.deposited = @ + n])

Enforce_balance == store.balance

Enforce_operator == store.operator

Enforce_emergency_withdraw_lib(u, n) ==
    /\ Enforce_operator # None
    /\ Enforce_balance >= n
    /\ Enforce_balance - n \in AdminFunds /\ past.taken[u] + n \in AdminFunds
    /\ WriteAnd([store EXCEPT !.balance = @ - n], [past EXCEPT !.taken[u] = @ + n])

Enforce_emergency_withdraw(u, n) == u = Enforce_operator /\ Enforce_emergency_withdraw_lib(u, n)

Enforce_Next ==
    /\ crate = "operator_role_not_enforced"
    /\ \E u \in Address, n \in {-1, 1, 2} :
        \/ Lib /\ (Enforce_init(u) \/ Enforce_deposit(n)
                   \/ Enforce_emergency_withdraw_lib(u, n))
        \/ Secure /\ (Enforce_init(u) \/ Enforce_deposit(n) \/ Enforce_emergency_withdraw(u, n))

\* What is no longer there went to the operator.
Enforce_OnlyTheOperatorTakes ==
    /\ \A u \in Address : u # Enforce_operator => past.taken[u] = 0
    /\ Enforce_balance + SumFunction(past.taken) = past.deposited

-----------------------------------------------------------------------------
(* unvalidated_plugin_call.  The plugins are external; past.ran holds      *)
(* those that were executed.                                               *)
Plugins == {"audited", "malicious"}

Plugin_Init ==
    /\ crate = "unvalidated_plugin_call"
    /\ store = [admin |-> None, approved |-> {}, call_count |-> 0, last_plugin |-> None,
                execute_count |-> 0]
    /\ past = [ran |-> {}]

Plugin_init(u) == store.admin = None /\ Write([store EXCEPT !.admin = u])

Plugin_approve_plugin(signer, p) ==
    /\ store.admin # None /\ signer = store.admin
    /\ Write([store EXCEPT !.approved = @ \union {p}])

Plugin_execute(p) == store.execute_count + (IF p = "malicious" THEN 1 ELSE 0)

Plugin_execute_count == store.execute_count

Plugin_run(p, last) ==
    /\ store.call_count < 3
    /\ WriteAnd([store EXCEPT !.execute_count = Plugin_execute(p), !.call_count = @ + 1,
                              !.last_plugin = last],
                [ran |-> past.ran \union {p}])

Plugin_dispatch_lib(p) == Plugin_run(p, p)

Plugin_dispatch(p) == p \in store.approved /\ Plugin_run(p, None)

Plugin_call_count == store.call_count

Plugin_Next ==
    /\ crate = "unvalidated_plugin_call"
    /\ \E signer \in Address, p \in Plugins :
        \/ Lib /\ Plugin_dispatch_lib(p)
        \/ Secure /\ (Plugin_init(signer) \/ Plugin_approve_plugin(signer, p) \/ Plugin_dispatch(p))

\* Only plugins the admin approved ever run.
Plugin_RanWereApproved ==
    /\ past.ran \subseteq store.approved
    /\ Plugin_execute_count <= Plugin_call_count
-----------------------------------------------------------------------------
(* unchecked_fee_collector.  past.signed holds the collectors the admin    *)
(* signed for; a fee is amount / 100, counted here in whole fees.          *)
Collector_Init ==
    /\ crate = "unchecked_fee_collector"
    /\ store = [admin |-> None, collector |-> None, fees |-> 0, approved |-> {}]
    /\ past = [signed |-> {}, paid |-> {}]

Collector_initialize(u) ==
    store.admin = None /\ Write([store EXCEPT !.admin = u, !.fees = 0])

Collector_get_collector == store.collector

Collector_get_admin == store.admin

Collector_set_collector_lib(u, signer) == Write([store EXCEPT !.collector = u])

Collector_set_collector(u, signer) ==
    /\ Collector_get_admin # None
    /\ signer = Collector_get_admin
    /\ u \in store.approved
    /\ Collector_set_collector_lib(u, signer)

Collector_add_approved(u, signer) ==
    /\ Collector_get_admin # None
    /\ signer = Collector_get_admin
    /\ WriteAnd([store EXCEPT !.approved = @ \cup {u}], [past EXCEPT !.signed = @ \cup {u}])

Collector_collect_fee(fee) ==
    store.fees + fee \in AdminFunds /\ Write([store EXCEPT !.fees = @ + fee])

\* The fixture pays whoever is stored.  The mirror has no withdrawal.
Collector_withdraw_lib ==
    /\ Collector_get_collector # None
    /\ WriteAnd([store EXCEPT !.fees = 0], [past EXCEPT !.paid = @ \cup {store.collector}])

Collector_Next ==
    /\ crate = "unchecked_fee_collector"
    /\ \E u, signer \in Address, fee \in 0..1 :
        \/ Lib /\ (Collector_initialize(u) \/ Collector_set_collector_lib(u, signer)
                   \/ Collector_add_approved(u, signer)
                   \/ Collector_collect_fee(fee) \/ Collector_withdraw_lib)
        \/ Secure /\ (Collector_initialize(u) \/ Collector_set_collector(u, signer)
                      \/ Collector_add_approved(u, signer) \/ Collector_collect_fee(fee))

\* The fees only ever stand to the credit of a collector the admin signed for.
Collector_IsApproved == store.collector # None => store.collector \in past.signed

-----------------------------------------------------------------------------
(* self_fee_collector.  OwnAddress is the contract's own address.          *)
OwnAddress == "contract"

Own_Init ==
    /\ crate = "self_fee_collector"
    /\ store = [admin |-> None, collector |-> None, fees |-> 0]
    /\ past = [owed |-> [u \in Address \cup {OwnAddress} |-> 0]]

Own_initialize(u) ==
    store.admin = None /\ Write([store EXCEPT !.admin = u, !.fees = 0])

Own_get_fees == store.fees

Own_get_collector == store.collector

Own_set_collector_lib(c) ==
    store.admin # None /\ Write([store EXCEPT !.collector = c])

Own_set_collector(c) == c # OwnAddress /\ Own_set_collector_lib(c)

Own_collect_fee(amount) ==
    /\ amount > 0
    /\ Own_get_collector # None
    /\ store.fees + amount \in AdminFunds
    /\ WriteAnd([store EXCEPT !.fees = @ + amount],
                [past EXCEPT !.owed[store.collector] = @ + amount])

Own_Next ==
    /\ crate = "self_fee_collector"
    /\ \E u \in Address, c \in Address \cup {OwnAddress}, amount \in 0..1 :
        \/ Lib /\ (Own_initialize(u) \/ Own_set_collector_lib(c)
                   \/ Own_collect_fee(amount))
        \/ Secure /\ (Own_initialize(u) \/ Own_set_collector(c) \/ Own_collect_fee(amount))

\* Every fee collected is owed to an account, none to the contract itself.
Own_FeesHaveAnOwner ==
    Own_get_fees = SumFunction([u \in Address |-> past.owed[u]])
-----------------------------------------------------------------------------
(* public_token_sweep.  Tokens are told apart by their address; past.swept *)
(* holds who signed for a sweep.                                           *)
Sweep_Init ==
    /\ crate = "public_token_sweep"
    /\ store = [admin |-> None, balance |-> Zero]
    /\ past = [signers |-> {}]

Sweep_initialize(u) == store.admin = None /\ Write([store EXCEPT !.admin = u])

Sweep_get_token_balance(token) == store.balance[token]

Sweep_get_admin == store.admin

Sweep_deposit(token, amount) ==
    /\ store.balance[token] + amount \in AdminFunds
    /\ Write([store EXCEPT !.balance[token] = @ + amount])

Sweep_sweep_tokens_lib(token, amount, signer) ==
    /\ Sweep_get_token_balance(token) >= amount
    /\ store.balance[token] - amount \in AdminFunds
    /\ WriteAnd([store EXCEPT !.balance[token] = @ - amount],
                [past EXCEPT !.signers = @ \cup {signer}])

Sweep_sweep_tokens(token, amount, signer) ==
    /\ Sweep_get_admin # None
    /\ signer = Sweep_get_admin
    /\ Sweep_sweep_tokens_lib(token, amount, signer)

Sweep_Next ==
    /\ crate = "public_token_sweep"
    /\ \E u, signer, token \in Address, amount \in {-1, 1} :
        \/ Lib /\ (Sweep_initialize(u) \/ Sweep_deposit(token, amount)
                   \/ Sweep_sweep_tokens_lib(token, amount, signer))
        \/ Secure /\ (Sweep_initialize(u) \/ Sweep_deposit(token, amount)
                      \/ Sweep_sweep_tokens(token, amount, signer))

\* Tokens are swept on the signature of the first admin and no other.
Sweep_ByTheAdmin == past.signers \subseteq {store.admin}

-----------------------------------------------------------------------------
(* admin_rugpull.  checked_sub on i128 fails on overflow only, so a        *)
(* balance may fall below zero.  past.taken is what left an account        *)
(* without its signature.                                                  *)
Rug_Init ==
    /\ crate = "admin_rugpull"
    /\ store = [admin |-> None, balance |-> Zero]
    /\ past = [taken |-> Zero]

Rug_initialize(u) == store.admin = None /\ Write([store EXCEPT !.admin = u])

Rug_get_balance(u) == store.balance[u]

Rug_deposit(u, amount) ==
    /\ Rug_get_balance(u) + amount \in AdminFunds
    /\ Write([store EXCEPT !.balance[u] = @ + amount])

Rug_withdraw(u, amount) ==
    /\ Rug_get_balance(u) - amount \in AdminFunds
    /\ Write([store EXCEPT !.balance[u] = @ - amount])

\* The recipient's balance is read after the user's is written.
Rug_admin_withdraw_lib(u, recipient, amount, signers) ==
    LET moved == [[store.balance EXCEPT ![u] = @ - amount] EXCEPT ![recipient] = @ + amount]
        lost == store.balance[u] - moved[u]
    IN  /\ store.admin \in signers
        /\ \A a \in Address : moved[a] \in AdminFunds
        /\ WriteAnd([store EXCEPT !.balance = moved],
                    [past EXCEPT !.taken[u] = IF u \in signers THEN @ ELSE Capped(@ + lost)])

Rug_admin_withdraw(u, recipient, amount, signers) ==
    u \in signers /\ Rug_admin_withdraw_lib(u, recipient, amount, signers)

Rug_Next ==
    /\ crate = "admin_rugpull"
    /\ \E u, recipient \in Address, amount \in 1..2, signers \in SUBSET Address :
        \/ Lib /\ (Rug_initialize(u) \/ Rug_deposit(u, amount)
                   \/ Rug_withdraw(u, amount)
                   \/ Rug_admin_withdraw_lib(u, recipient, amount, signers))
        \/ Secure /\ (Rug_initialize(u) \/ Rug_deposit(u, amount) \/ Rug_withdraw(u, amount)
                      \/ Rug_admin_withdraw(u, recipient, amount, signers))

\* Nothing leaves an account without that account's signature.
Rug_NothingTaken == past.taken = Zero

-----------------------------------------------------------------------------
(* hardcoded_beneficiary (both releases are in lib.rs).  An escrow         *)
(* overwrites one of the same id.  past.released is the last release: who  *)
(* got it and whom the escrow names.                                       *)
Beneficiary_Init ==
    /\ crate = "hardcoded_beneficiary"
    /\ store = [admin |-> None, beneficiary |-> None, balance |-> None, wallet |-> Zero]
    /\ past = [released |-> None]

Beneficiary_wallet_balance(u) == store.wallet[u]

Beneficiary_credit(w, u, amount) == [w EXCEPT ![u] = @ + amount]

\* What is left after a debit the wallet covers.
Beneficiary_debit(w, u, amount) == [w EXCEPT ![u] = @ - amount]

Beneficiary_initialize(u) == store.admin = None /\ Write([store EXCEPT !.admin = u])

Beneficiary_fund(u, amount) ==
    /\ Beneficiary_wallet_balance(u) + amount \in AdminFunds
    /\ Write([store EXCEPT !.wallet = Beneficiary_credit(@, u, amount)])

Beneficiary_create_escrow(u, beneficiary, amount) ==
    /\ Beneficiary_wallet_balance(u) >= amount
    /\ Beneficiary_wallet_balance(u) - amount \in AdminFunds
    /\ Write([store EXCEPT !.wallet = Beneficiary_debit(@, u, amount),
                           !.beneficiary = beneficiary, !.balance = amount])

\* The balance stays stored as zero, so a second release pays nothing.
Beneficiary_release_to(u) ==
    /\ store.admin # None
    /\ store.balance # None
    /\ store.wallet[u] + store.balance \in AdminFunds
    /\ WriteAnd([store EXCEPT !.wallet = Beneficiary_credit(@, u, store.balance), !.balance = 0],
                [released |-> [to |-> u, named |-> store.beneficiary]])

Beneficiary_release_lib(hardcoded) == Beneficiary_release_to(hardcoded)

Beneficiary_release(hardcoded) ==
    store.beneficiary # None /\ Beneficiary_release_to(store.beneficiary)

Beneficiary_Next ==
    /\ crate = "hardcoded_beneficiary"
    /\ \E u, v \in Address, amount \in 1..2 :
        \/ Beneficiary_initialize(u)
        \/ Beneficiary_fund(u, amount)
        \/ Beneficiary_create_escrow(u, v, amount)
        \/ Lib /\ Beneficiary_release_lib(u)
        \/ Secure /\ Beneficiary_release(u)

\* Every release pays the beneficiary its escrow names.
Beneficiary_PaidAsNamed == past.released # None => past.released.to = past.released.named
-----------------------------------------------------------------------------
(* partial_config_clear.  past: what was last named for each field, and    *)
(* whether an update was the last to write.                                *)
Config_Fields == {"fee_bps", "max_cap", "oracle"}

Config_Init ==
    /\ crate = "partial_config_clear"
    /\ store = [admin |-> None, config |-> None]
    /\ past = [named |-> None, updated |-> FALSE]

\* May be called again, by anyone; nothing is validated.
Config_initialize(admin, config) ==
    WriteAnd([admin |-> admin, config |-> config], [named |-> config, updated |-> FALSE])

Config_get_config == store.config

Config_validate_config(config) ==
    /\ config.fee_bps <= Whole
    /\ config.max_cap > 0
    /\ config.oracle # None

\* The fields that change names, over those of config.
Config_merge(config, change) ==
    [f \in Config_Fields |-> IF change[f] = None THEN config[f] ELSE change[f]]

Config_updates(config, change) ==
    WriteAnd([store EXCEPT !.config = config],
             [named |-> IF past.named = None THEN change ELSE Config_merge(past.named, change),
              updated |-> TRUE])

\* The actor signs and need not be the admin.
Config_update_config_lib(change) ==
    Config_updates(Config_merge([fee_bps |-> 0, max_cap |-> 0, oracle |-> None], change), change)

Config_update_config(change) ==
    /\ store.config # None
    /\ Config_validate_config(Config_merge(Config_get_config, change))
    /\ Config_updates(Config_merge(Config_get_config, change), change)

Config_Next ==
    /\ crate = "partial_config_clear"
    /\ \E u \in Address, fee \in 0..(Whole + 1), cap \in 0..1, omitted \in SUBSET Config_Fields :
        LET config == [fee_bps |-> fee, max_cap |-> cap, oracle |-> u]
            change == [f \in Config_Fields |-> IF f \in omitted THEN None ELSE config[f]]
        IN  \/ Lib /\ (Config_initialize(u, config) \/ Config_update_config_lib(change))
            \/ Secure /\ (Config_initialize(u, config) \/ Config_update_config(change))

\* Every field has the value last named for it, by whichever call, and an
\* updated configuration is a valid one.
Config_KeepsWhatIsNotNamed ==
    /\ Config_get_config = past.named
    /\ past.updated => Config_validate_config(Config_get_config)
=============================================================================
