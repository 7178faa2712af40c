------------------------------ MODULE Bridges -------------------------------
(***************************************************************************)
(* Wrapped assets and bridges: a claim here stands for value held          *)
(* elsewhere, and every message from elsewhere counts once.                *)
(***************************************************************************)
EXTENDS Contract

MaxMinted == 3      \* bound on what a behaviour mints or wraps
Amounts == 0..2

(* unwrap_without_burn.  past.held is the contract's balance in the        *)
(* underlying token.                                                       *)
Wrap_Init ==
    /\ crate = "unwrap_without_burn"
    /\ store = [token |-> None, balance |-> Zero, supply |-> 0, custody |-> 0]
    /\ past = [held |-> 0]

Wrap_initialize(token) ==
    /\ store.token = None
    /\ Write([store EXCEPT !.token = token, !.supply = 0, !.custody = 0])

Wrap_wrap(user, amount) ==
    /\ amount > 0
    /\ store.token # None
    /\ store.supply + amount <= MaxMinted
    /\ WriteAnd([store EXCEPT !.balance[user] = @ + amount, !.supply = @ + amount,
                              !.custody = @ + amount],
                [held |-> past.held + amount])

Wrap_covers(user, amount) ==
    /\ amount > 0
    /\ store.balance[user] >= amount
    /\ store.custody >= amount
    /\ store.token # None
    /\ token_moves(past.held, amount)

Wrap_unwrap_lib(user, amount) ==
    /\ Wrap_covers(user, amount)
    /\ WriteAnd([store EXCEPT !.custody = @ - amount], [held |-> past.held - amount])

Wrap_unwrap(user, amount) ==
    /\ Wrap_covers(user, amount)
    /\ WriteAnd([store EXCEPT !.balance[user] = @ - amount, !.supply = @ - amount,
                              !.custody = @ - amount],
                [held |-> past.held - amount])

Wrap_balance(user) == store.balance[user]

Wrap_total_supply == store.supply

Wrap_custody_balance == store.custody

Wrap_Next ==
    /\ crate = "unwrap_without_burn"
    /\ \E u \in Address, n \in Amounts :
        \/ Lib /\ (Wrap_initialize(u) \/ Wrap_wrap(u, n) \/ Wrap_unwrap_lib(u, n))
        \/ Secure /\ (Wrap_initialize(u) \/ Wrap_wrap(u, n) \/ Wrap_unwrap(u, n))

\* Every wrapper share is backed by one underlying token in custody.
Wrap_Backed ==
    /\ Wrap_total_supply = SumFunction([u \in Address |-> Wrap_balance(u)])
    /\ Wrap_total_supply = Wrap_custody_balance
    /\ Wrap_custody_balance = past.held

-----------------------------------------------------------------------------
(* bridge_validator_quorum_missing.  A signature is TRUE when it is the    *)
(* hash of the payload; the code does not bind it to the signer's key.     *)
(* past.named are the signers of the latest update.                        *)
ValidatorSets == {<<1>>, <<1, 2>>, <<1, 1>>}   \* a key may be listed twice

Validators_Init ==
    /\ crate = "bridge_validator_quorum_missing"
    /\ store = [validators |-> None, threshold |-> 0]
    /\ past = [named |-> {}]

Validators_initialize(vs, threshold) ==
    /\ store.validators = None
    /\ threshold \in 1..Len(vs)
    /\ Write([validators |-> vs, threshold |-> threshold])

Validators_update_validators_lib(vs, threshold, signers, sigs) ==
    /\ store.validators # None
    /\ Contains(store.validators, signers[1])
    /\ sigs[1]
    /\ WriteAnd([validators |-> vs, threshold |-> threshold], [named |-> {signers[1]}])

\* The validators among the signers with a valid signature, each once.
Validators_valid(signers, sigs) ==
    {signers[i] : i \in {j \in DOMAIN signers : Contains(store.validators, signers[j]) /\ sigs[j]}}

Validators_update_validators(vs, threshold, signers, sigs) ==
    /\ store.validators # None
    /\ Len(signers) = Len(sigs)
    /\ Cardinality(Validators_valid(signers, sigs)) >= store.threshold
    /\ threshold \in 1..Len(vs)
    /\ WriteAnd([validators |-> vs, threshold |-> threshold], [named |-> ToSet(signers)])

Validators_Next ==
    /\ crate = "bridge_validator_quorum_missing"
    /\ \E vs \in ValidatorSets, n \in 0..2, signers \in {<<1>>, <<2>>, <<1, 1>>, <<1, 2>>, <<3, 1>>},
          sigs \in {<<TRUE>>, <<FALSE>>, <<TRUE, TRUE>>, <<TRUE, FALSE>>} :
        \/ Lib /\ (Validators_initialize(vs, n)
                   \/ Validators_update_validators_lib(vs, n, signers, sigs))
        \/ Secure /\ (Validators_initialize(vs, n)
                      \/ Validators_update_validators(vs, n, signers, sigs))

\* A set is replaced only when as many different members of it as its
\* threshold are named, and the new threshold is at most the length of the new
\* list.  A key listed twice (secure.rs:100) counts for the length and not for
\* the quorum, so such a list may have a threshold nobody can meet.
Validators_QuorumReplaces ==
    (store' # store /\ store.validators # None) =>
        /\ Cardinality(past'.named \cap ToSet(store.validators)) >= store.threshold
        /\ store'.threshold \in 1..Len(store'.validators)

-----------------------------------------------------------------------------
(* bridge_chainid_missing.  "here" is this contract, "there" its           *)
(* deployment on another chain; past.signed are the messages the relayer   *)
(* signed (external).  dst_chain is signed but compared with nothing: the  *)
(* bridge address binds the message.                                       *)
ChainMessage == [bridge : {"here", "there"}, nonce : {1, 2}, amount : {1}, recipient : Address]

Chain_Init ==
    /\ crate = "bridge_chainid_missing"
    /\ store = [used |-> {}, balance |-> Zero]
    /\ past = [signed |-> {}]

Chain_relay(m) == Cardinality(past.signed) < 3 /\ Observe([signed |-> past.signed \cup {m}])

Chain_credit(m) ==
    /\ m.nonce \notin store.used
    /\ Write([used |-> store.used \cup {m.nonce},
              balance |-> [store.balance EXCEPT ![m.recipient] = @ + m.amount]])

\* The payload of lib.rs names no bridge.
Chain_mint_lib(m) ==
    /\ \E s \in past.signed : <<s.nonce, s.amount, s.recipient>> = <<m.nonce, m.amount, m.recipient>>
    /\ Chain_credit(m)

Chain_build_payload(m, bridge) == [m EXCEPT !.bridge = bridge]

Chain_mint(m) == Chain_build_payload(m, "here") \in past.signed /\ Chain_credit(m)

Chain_balance(r) == store.balance[r]

Chain_Next ==
    /\ crate = "bridge_chainid_missing"
    /\ \E m \in ChainMessage :
        \/ Chain_relay(m)
        \/ Lib /\ Chain_mint_lib(m)
        \/ Secure /\ Chain_mint(m)

\* A message signed for another bridge mints nothing here.
Chain_MintedForHere ==
    \A r \in Address :
        Chain_balance(r) <= Cardinality({m \in past.signed : m.bridge = "here" /\ m.recipient = r})

-----------------------------------------------------------------------------
(* bridge_nonce_global.  past.done are the messages processed, as source   *)
(* chain and nonce.                                                        *)
Nonce_Init ==
    /\ crate = "bridge_nonce_global"
    /\ store = [used |-> {}, balance |-> Zero]
    /\ past = [done |-> {}]

\* NonceUsed(nonce) in lib.rs, NonceUsed(src_chain, nonce) in secure.rs.
Nonce_record(key, c, n, r) ==
    /\ key \notin store.used
    /\ WriteAnd([used |-> store.used \cup {key}, balance |-> [store.balance EXCEPT ![r] = @ + 1]],
                [done |-> past.done \cup {<<c, n>>}])

Nonce_process_lib(c, n, r, sig) == sig /\ Nonce_record(<<n>>, c, n, r)

Nonce_process(c, n, r, sig) == sig /\ Nonce_record(<<c, n>>, c, n, r)

Nonce_is_nonce_used(c, n) == <<c, n>> \in store.used

Nonce_balance(r) == store.balance[r]

Nonce_Next ==
    /\ crate = "bridge_nonce_global"
    /\ \E c \in {1, 2}, n \in {1, 2}, r \in Address, sig \in BOOLEAN :
        \/ Lib /\ Nonce_process_lib(c, n, r, sig)
        \/ Secure /\ Nonce_process(c, n, r, sig)

\* No message is refused because another chain used its nonce, and each is
\* credited once.
Nonce_PerChain ==
    /\ \A c \in {1, 2}, n \in {1, 2} : Nonce_is_nonce_used(c, n) <=> <<c, n>> \in past.done
    /\ SumFunction([r \in Address |-> Nonce_balance(r)]) = Cardinality(past.done)
-----------------------------------------------------------------------------
(* bridge_partial_mint_replay.  past.redeemed are the proofs that minted.  *)
Proof_Init ==
    /\ crate = "bridge_partial_mint_replay"
    /\ store = [used |-> {}, minted |-> Zero, fails |-> FALSE]
    /\ past = [redeemed |-> 0]

Proof_initialize == Write([store EXCEPT !.fails = FALSE])

Proof_set_mint_fails(fails) == Write([store EXCEPT !.fails = fails])

\* A failing mint panics, which also takes back the mark on the proof.
Proof_do_mint(s, r) == [s EXCEPT !.minted[r] = @ + 1]

Proof_is_proof_used(p) == p \in store.used

\* lib.rs mints and then marks, secure.rs marks and then mints: one
\* invocation either way.
Proof_redeem_lib(p, r) ==
    /\ ~Proof_is_proof_used(p)
    /\ ~store.fails
    /\ LET minted == Proof_do_mint(store, r)
       IN  WriteAnd([minted EXCEPT !.used = @ \cup {p}], [redeemed |-> past.redeemed + 1])

Proof_redeem(p, r) ==
    /\ ~Proof_is_proof_used(p)
    /\ ~store.fails
    /\ LET marked == [store EXCEPT !.used = @ \cup {p}]
       IN  WriteAnd(Proof_do_mint(marked, r), [redeemed |-> past.redeemed + 1])

Proof_minted_balance(r) == store.minted[r]

Proof_Next ==
    /\ crate = "bridge_partial_mint_replay"
    /\ \E p \in {1, 2}, r \in Address, f \in BOOLEAN :
        \/ Lib /\ (Proof_initialize \/ Proof_set_mint_fails(f) \/ Proof_redeem_lib(p, r))
        \/ Secure /\ (Proof_initialize \/ Proof_set_mint_fails(f) \/ Proof_redeem(p, r))

\* Whatever mints failed before, each burn proof has minted exactly once or
\* can still be redeemed.
Proof_MintsOnce ==
    /\ SumFunction([r \in Address |-> Proof_minted_balance(r)]) = past.redeemed
    /\ past.redeemed = Cardinality({p \in {1, 2} : Proof_is_proof_used(p)})

-----------------------------------------------------------------------------
(* wrapped_asset_allowlist_bypass.  Base and Wrapper are token addresses;  *)
(* past.behind are the assets behind the deposits.                         *)
Base == {"usd", "junk"}
Wrapper == {"w", "usd"}

Allow_Init ==
    /\ crate = "wrapped_asset_allowlist_bypass"
    /\ store = [admin |-> None, allowed |-> {}, asset |-> [w \in Wrapper |-> None], balance |-> Zero]
    /\ past = [behind |-> {}]

Allow_initialize(admin) == store.admin = None /\ Write([store EXCEPT !.admin = admin])

Allow_allow_token(t) ==
    store.admin # None /\ Write([store EXCEPT !.allowed = @ \cup {t}])

\* Open to anyone.
Allow_register_wrapper_lib(w, t) == Write([store EXCEPT !.asset[w] = t])

Allow_register_wrapper(w, t) == t \in store.allowed /\ Allow_register_wrapper_lib(w, t)

Allow_credit(u, w, n) ==
    /\ n > 0
    /\ store.balance[u] + n <= MaxMinted
    /\ WriteAnd([store EXCEPT !.balance[u] = @ + n], [behind |-> past.behind \cup {store.asset[w]}])

Allow_deposit_lib(u, w, n) == w \in store.allowed /\ Allow_credit(u, w, n)

Allow_deposit(u, w, n) ==
    store.asset[w] # None /\ store.asset[w] \in store.allowed /\ Allow_credit(u, w, n)

Allow_balance(u) == store.balance[u]

Allow_Next ==
    /\ crate = "wrapped_asset_allowlist_bypass"
    /\ \E u \in Solo, w \in Wrapper, t \in Base, n \in Amounts :
        \/ Lib /\ (Allow_initialize(u) \/ Allow_allow_token(t)
                   \/ Allow_register_wrapper_lib(w, t) \/ Allow_deposit_lib(u, w, n))
        \/ Secure /\ (Allow_initialize(u) \/ Allow_allow_token(t)
                      \/ Allow_register_wrapper(w, t) \/ Allow_deposit(u, w, n))

\* Whoever registers wrappers, what backs a balance is an allowed asset.
Allow_BackedByAllowed ==
    /\ past.behind \subseteq store.allowed
    /\ (\E u \in Address : Allow_balance(u) > 0) => past.behind # {}

-----------------------------------------------------------------------------
(* fake_token_registration.  Decimals and the timestamp are left out.      *)
Token == {"t1", "t2"}
Symbol == {"USDC", "XLM"}

\* An absent entry is neither a registration nor a token.
ASSUME RegistrationAssumption ==
    None \notin [symbol : Symbol, registered_by : Address] /\ None \notin Token

Fake_Init ==
    /\ crate = "fake_token_registration"
    /\ store = [admin |-> None, token |-> [t \in Token |-> None], symbol |-> [s \in Symbol |-> None]]
    /\ past = [none |-> TRUE]

Fake_initialize(admin) == store.admin = None /\ Write([store EXCEPT !.admin = admin])

\* Any caller, any symbol, over any earlier registration.
Fake_register_token_lib(t, s, caller) ==
    Write([store EXCEPT !.token[t] = [symbol |-> s, registered_by |-> caller]])

Fake_get_token(t) == store.token[t]

Fake_is_registered(t) == Fake_get_token(t) # None

Fake_symbol_exists(s) == store.symbol[s] # None

Fake_register_token(t, s, caller) ==
    /\ store.admin # None
    /\ caller = store.admin
    /\ ~Fake_is_registered(t)
    /\ ~Fake_symbol_exists(s)
    /\ Write([store EXCEPT !.token[t] = [symbol |-> s, registered_by |-> store.admin],
                           !.symbol[s] = t])

Fake_remove_token_lib(t) == store.admin # None /\ Write([store EXCEPT !.token[t] = None])

Fake_remove_token(t) ==
    /\ store.admin # None
    /\ Write([store EXCEPT !.token[t] = None,
                 !.symbol = [s \in Symbol |->
                    IF Fake_is_registered(t) /\ s = Fake_get_token(t).symbol THEN None ELSE @[s]]])

Fake_Next ==
    /\ crate = "fake_token_registration"
    /\ \E u \in Address, t \in Token, s \in Symbol :
        \/ Lib /\ (Fake_initialize(u) \/ Fake_register_token_lib(t, s, u) \/ Fake_remove_token_lib(t))
        \/ Secure /\ (Fake_initialize(u) \/ Fake_register_token(t, s, u) \/ Fake_remove_token(t))

\* A symbol names at most one token, and the index from symbols to tokens is
\* exact after any registrations and removals.
Fake_SymbolNamesOneToken ==
    \A t \in Token, s \in Symbol :
        store.symbol[s] = t <=> (Fake_is_registered(t) /\ Fake_get_token(t).symbol = s)

-----------------------------------------------------------------------------
(* uncapped_supply.  MaxMinted stands for MAX_SUPPLY.                      *)
Supply_Init ==
    /\ crate = "uncapped_supply"
    /\ store = [admin |-> None, balance |-> Zero, supply |-> 0]
    /\ past = [minted |-> 0]

Supply_initialize_lib(admin) == store.admin = None /\ Write([store EXCEPT !.admin = admin])

Supply_initialize(admin) ==
    store.admin = None /\ Write([store EXCEPT !.admin = admin, !.supply = 0])

Supply_mint_lib(to, n) ==
    /\ store.admin # None
    /\ store.balance[to] + n \in -MaxMinted..(MaxMinted + 1)
    /\ WriteAnd([store EXCEPT !.balance[to] = @ + n], [minted |-> past.minted + n])

Supply_mint(to, n) ==
    /\ store.admin # None
    /\ store.supply + n <= MaxMinted
    /\ store.balance[to] + n \in -MaxMinted..(MaxMinted + 1)
    /\ WriteAnd([store EXCEPT !.balance[to] = @ + n, !.supply = @ + n],
                [minted |-> past.minted + n])

Supply_balance(u) == store.balance[u]

Supply_total_supply == store.supply

Supply_Next ==
    /\ crate = "uncapped_supply"
    /\ \E u \in Address, n \in -1..2 :
        \/ Lib /\ (Supply_initialize_lib(u) \/ Supply_mint_lib(u, n))
        \/ Secure /\ (Supply_initialize(u) \/ Supply_mint(u, n))

\* The supply is the sum of the balances and stays within the cap.
Supply_Capped ==
    /\ Supply_total_supply = SumFunction([u \in Address |-> Supply_balance(u)])
    /\ Supply_total_supply = past.minted
    /\ Supply_total_supply <= MaxMinted
=============================================================================
