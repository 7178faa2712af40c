# TLA+ verification of soroban-guard-contracts

This directory models the contracts of the repository in TLA+, checks them with
TLC on small instances and proves theorems about the registry and the larger
contracts of `secure/` with TLAPS, for every value of their constants.

## The system

The repository is a library of Soroban contracts: the on-chain **scan
registry** (`registry/`), reference contracts that are meant to be right
(`secure/`), fixtures that are wrong on purpose (`vulnerable/`, 188 crates, most
with a corrected mirror in `secure.rs` or in a `secure` module), and a small web
client (`lib/`, `components/`). A contract calls another one only in
`secure_airdrop` and in the fixtures about tokens, oracles, hooks and flash
loans; otherwise contracts share only the ledger (its sequence and timestamp)
and the host's authorisation.

**Execution model, used by every module.** The host runs an invocation to its
end or rolls back all of it. One invocation is therefore one action, and every
`panic!`, `expect`, failed `require_auth`, `assert!` or overflow (the release
profile sets `overflow-checks = true`) is a guard of the action. The concurrency
is that of invocations by independent accounts, in any order, between ledgers
that close at any time (`CloseLedger`). A call out of a contract is part of its
action: where the callee may call back, fail or pay late, the action chooses what
it does (`Reenter_calls`, `Hook_depth`, `Receiver_on_flash_loan`,
`Airdrop_transfer`). `require_auth` is modelled by the parameter `auth`, or by the
account the action is quantified over. Storage entries do not expire, except in
`ttl_bump_index_only`, which is about that: rent is paid from outside the
contracts.

### Inventory

| Component | State | Operations | What is hard | What makes it correct |
|---|---|---|---|---|
| `registry` | admin, scanner flags and their count, latest scan, history, severity index, scanned list, scores, metadata | initialize, add/remove_scanner, submit_scan, dispute_scan, set_metadata, nine queries | one scan is written to five entries; a counter beside the flags; saturation; paging while others write; 32-bit page arithmetic | the copies agree, history is append-only and signed, scores are earned, pages tile and stay |
| `secure_multisig` | signers, threshold, ttl, proposals | initialize, propose_action, approve, execute | approvals racing expiry and execution; u32 overflow of the expiry | M different signers, once, within the lifetime |
| `protected_admin` | admin, pending admin and expiry, profiles, code | two-step rotation, set_admin, upgrade, profiles | a pending proposal outlives the admin who made it | power moves only by a signature that may move it |
| `secure_dao` | balances, supply, proposals, ballots | mint, create_proposal, vote, queue, execute | votes racing queueing; weights read at voting time; rounding; timelock | tallies are ballots, a decision stays decided, the timelock holds, a queued proposal can be executed |
| `secure_token` | admin, balances, supply | initialize, mint, burn, transfer | balances read before they are written; signed amounts; two copies of the supply | supply is the sum, nobody is overdrawn, events tell the balances |
| `secure_vesting` | admin, treasury, schedules | initialize, create_schedule, claim, revoke | rounding and overflow of the curve; revocation between claims; a repeatable initialize | payouts never exceed what is vested, what a revoked grant had not vested goes back for good, others are paid in full |
| `sequence_lock` | balances, unlock sequences | deposit, withdraw | a deposit overwrites an earlier lock; deposits below zero | a balance always has a lock to come out by, no funds are stranded |
| `protected_oracle` | price, time of update | initialize, set_price, get_price | update and read in one ledger | reads within a ledger agree |
| `secure_vault`, `secure_transfer`, `secure_burn`, `secure_pausable`, `secure_escrow`, `dust_griefing` | balances, a pause flag | mint, burn, transfer, deposit, release, pause | self-transfer, signed balances, entries worth less than their rent | the balances add up, a pause holds |
| `secure_staking`, `secure_lending`, `secure_airdrop`, `paginated_airdrop` | stakes, positions, claims, user list | stake, claim, borrow, repay, liquidate, register, distribute_batch | overwriting and re-initialising, call-backs, batches between registrations | no ledger, leaf or user of a walk is paid twice |
| airdrops (5 crates) | campaigns, roots, epochs, claim flags | claim, close, reclaim, advance | windows, several campaigns, the leaf that is hashed | paid once, in time, what was listed |
| vesting and staking (8) | schedules, stakes, reward pools | claim, revoke, stake, slash, distribute | revocation between claims, an empty pool, a rate of zero | paid is vested, commissions are parts, slashing is proven |
| lending (8) | collateral, debt, indices, caps | deposit, borrow, repay, liquidate, accrue | interest between steps, rounding of dust, decimals, caps per asset | debt is covered, keeps growing and stays in its cap |
| vaults (11) | shares, assets, raw balance, locks | deposit, withdraw, donate, rebase, skim, rescue | rounding between shares and assets, donations between deposits | nobody's shares are worth less by another's step; the books are held |
| markets and escrows (12) | listings, orders, bids, escrows, reserves | list, buy, bid, cancel, close, release, swap | cancel racing fill, refunds of outbid bidders, quotes that age | a sale ends as both agreed |
| bridges and wrapped assets (8) | wrapped supply, nonces, validators, asset lists | wrap, unwrap, mint, process, update | replay, other chains, partial mints | minted once and backed |
| tokens (10) | balances, fees, lists, lifetimes | transfer, batch, deposit, register, draw | batches that fail half-way, fees taken on the way, expiry of one of two entries | the books agree with what is held |
| permits and allowances (9) | allowances, nonces, delegations | permit, approve, transfer_from, fill | deadlines, overwritten grants, replays | drawn is what was signed |
| admins and roles (11) | admin, pending admin, roles, collectors | propose, accept, grant, sweep, update | an offer that outlives its maker, partial updates | only who may, moves what he may |
| governance (8) | proposals, votes, queues, supply | create, vote, tally, queue, execute, cancel | supply and weights that move while votes are cast | what is executed was decided |
| scanners (7) | reports, reputations, fees, approvals | submit, approve, finalize, restore | overwritten reports, fees taken on the way, reused signatures | what is published was signed and approved |
| cross-contract calls (9) | balances, loans, hook depth | withdraw, transfer, flash_loan | call-backs, swallowed errors, half repayments | the books are right when the call is over |
| oracles (7) | prices, windows, sources | set_price, record, swap, value | stale and future prices, short windows, scale, wide error bars | a price that is used is sound |
| `components/ScanInput.tsx`, `lib/*.ts` | one form's state, an abort handle | handleScan, handleCancel | overlapping requests | see "Not modelled" |

Every hazard found in the survey is listed, with its line and the properties
that would catch it going wrong, in `PROJECT.json` under `hazards`.

## Modules

| Module | Models | State and actions |
|---|---|---|
| `Registry` | `registry/src/lib.rs` | one variable per `DataKey`; one action per state-changing function; the queries are operators returning a value or `Panic` |
| `ScanLog` | the promise of the registry | an append-only log per contract, written by approved scanners, and a view that is a function of the log |
| `RegistryReader` | a client of `get_scanned_contracts_page` (external) | walks the list page by page, between any invocations of `Registry` |
| `SecureMultisig` | `secure/secure_multisig` | `executions` counts the "executed" events |
| `ProtectedAdmin` | `secure/protected_admin` | `proposedAt` remembers when the latest proposal was made |
| `SecureDao` | `secure/secure_dao` | `ballot` keeps with the `Voted` flag what the "voted" event publishes |
| `SecureToken` | `secure/secure_token` | `replayed` is what a reader of the events computes |
| `DaoAndToken` | | the DAO and, as an instance, the token: the two keep balances under the same keys; deploys one of them per behaviour |
| `SecureVesting` | `secure/secure_vesting` | `paid` adds up what claim returned; `returned` names the revocations since the last initialize, `stranded` what they left unpaid |
| `SequenceLock` | `secure/sequence_lock` | deposits of either sign; balance and unlock sequence of an account |
| `ProtectedOracle` | `secure/protected_oracle` | `get_price` is a query |
| `Signers` | the multisig and the admin | deploys one of them per behaviour |
| `TimeLocked` | the vesting, the vault and the oracle | deploys one of them per behaviour |
| `Accounts` | | the set of accounts and the arithmetic on what they hold: sums over the accounts (`SumFunction` of the community modules) and Rust's division; extended by every module that adds up balances |
| `Contract` | the setting of the families | `crate`, `code`, `store`, `past`, `now`, the closing of a ledger and the token contract (external) |
| `Claims`, `Rewards`, `Lending`, `Vaults`, `Markets`, `Bridges`, `Tokens`, `Permits`, `Admins`, `Governance`, `Scanners`, `Calls`, `Oracles` | the families of `vulnerable/`, as in the inventory | one section per crate, see below |
| `Mirrors` | the ten small contracts of `secure/` | as the families |
| `AccountsProofs` | | the lemmas about sums and quotients the other proofs rest on |
| `RegistryProofs`, `SignersProofs`, `DaoAndTokenProofs`, `TimeLockedProofs` | | theorems and proofs of the larger contracts |
| `ControlProofs` | | the families that say who may do what, when and on what evidence: `Governance`, `Scanners`, `Calls`, `Oracles`, `Bridges`, `Permits`, `Admins`, `Markets`, crate by crate |
| `FundsProofs` | | the families that keep accounts: `Claims`, `Rewards`, `Lending`, `Vaults`, `Tokens`, `Mirrors`, crate by crate |
| `FixtureProofs` | | the twelve properties of `MCFixtures`, from the lemmas of the crates |
| `MCRegistry`, `MCRegistryReader`, `MCDaoAndToken`, `MCSigners`, `MCTimeLocked` | | instances for TLC |
| `MCFixtures` | | deploys one crate of a family per behaviour |

`signer`, `event`, `executions`, `proposedAt`, `replayed`, `paid`, `returned`,
`stranded` and, in the families, `past` are history variables: they describe what
happened, guard nothing the code guards, and let a property relate a state to an
earlier one. Definitions named after a source function with a suffix and marked
`Mutant` are plausible bugs; each is used to show that a property would notice it
(`PROJECT.json`, `mutants`) and no specification uses one.

### The families

The fixtures are small (one contract, up to a dozen functions) and many. A crate
is one section of its family's module, under a prefix of its own: for
`canceled_listing_fillable` in `Markets` the prefix is `Order`.

- A behaviour deploys **one** crate. `store` is a record with a field per storage
  key, `Order_Init` the storage before any call.
- `code` says which of the crate's two contracts is deployed. `Order_f_lib` is `f`
  of `lib.rs`, flaw included; `Order_f` is `f` of the corrected contract, and of
  both where they read the same.
- `past` is what an observer of the invocations knows: what each account was paid,
  signed, was quoted or offered.
- `Order_Next` takes every call of the deployed contract with small arguments of
  either sign where the code takes an `i128`, and closes ledgers. In `map` it stands
  for the `impl` block of the contract; a helper without an entry of its own belongs
  to the operation that uses it.
- The last definition of the section is the crate's **promise**: what its doc
  comment and its tests say the corrected contract guarantees, stated over
  `store` and `past`. Nothing is promised of `lib.rs`; it is deployed all the
  same, so that its operations are run and may stand in for the corrected ones.

`MCFixtures` gathers the promises by what they are about into twelve properties;
each is the conjunction over its crates of `Promises(crate, promise)`.

Abstractions. Addresses, hashes, severity maps and metadata are members of small
sets. `KeyOrder` is the host's iteration order of map keys. The `ContractActive`
flag always reads true because nothing writes it. `MaxHistory` stands for the
bounded size of the ledger entry that holds a history. Profiles are opaque
values. In `SecureDao` the share 1000/10 000 is `QUORUM_BPS`/`BPS`; in the families
10 000 basis points are `Whole` = 2, scales and fixed-point constants are small
numbers, each marked with what it stands for. A digest is the tuple that is
hashed, a Merkle root the set of its leaves, a proof membership. Ledger sequence
and timestamp are one clock, except in `sequence_as_timestamp`, which confuses
them. Integer widths are constants (`U32_MAX`, `I32_MIN`, `I128_MAX`, ...) in the
modules of the larger contracts: small in the runs so that the boundary is
reached, arbitrary in the proofs. The families bound their amounts instead, in
the guards (`HealthBound`, `ReserveBound`, ranges of the arguments); the only
128-bit overflow that their code handles is a panic.

## Runs

| Run | Shows |
|---|---|
| `MCRegistry_state` | the copies of a scan agree, the scanner count is exact, history is chronological, append-only and signed, scores are earned, roles and metadata are respected (`Governed`), and the registry implements `ScanLog` |
| `MCRegistryReader` | severity pages, scanned pages and history pages tile the full answers (`PagesTile`); a reader that walks the list between submissions gets a consistent list and finishes |
| `MCSigners` | the multisig: approvals are distinct signers', execution needs M of them and happens once (`ExecutedOnceByQuorum`), an expired or executed proposal never changes; the admin: power moves only by the admin or by the live proposal's address, a proposal is consumed by its acceptance, code and profiles change only by their owners (`SignedChanges`) |
| `MCDaoAndToken` | the DAO: tallies are ballots, what is queued has passed, votes precede execution (`DecidedByBallots`); finality and timelock; with fairness, what is queued is executed; or the token: supply, no overdraft, faithful events, consent |
| `MCTimeLocked` | vesting payouts, revocation and what it strands (`PaidReturnedOrStranded`), full payment; the two keys of the locked vault stay together (`LockedOrEmpty`) and its funds come out; reads of the oracle |
| `MCFixtures` | 114 crates and the ten small contracts, one per behaviour, see the table below |

| Property of `MCFixtures` | Says of the corrected code |
|---|---|
| `ClaimsAreEarned` | airdrops, vesting and staking pay what was earned, once, out of what was set aside |
| `SalesAreAsAgreed` | a sale, swap, auction or escrow ends as both sides agreed |
| `MintedIsBacked` | wrapped and bridged tokens are minted once, for this chain, against something |
| `BooksAreHeld` | the books of vaults, pools and tokens account for all that callers put in and took out; where an account may be overdrawn or a donation never arrived, they say by how much |
| `SharesKeepTheirWorth` | rounding, donations and exits take nothing from those who did not take part, a rebase is borne in proportion, a lock is moved by its owner or the admin (action property) |
| `TermsHold` | debts grow, claim windows close, a reward window ends in full payment or in the staker's own new stake, pauses and lists hold, validators change by the rules in force (action property) |
| `OnlyAsSigned` | what was drawn, handed over, swept or called was signed for, in time and for this use |
| `DecisionsStand` | what governance executes and scanners publish is what was decided |
| `CallsLeaveBooksRight` | after a call out the books are right, also when the callee calls back or fails; for `ignored_return`, that a release happens once and pays all or, after a silent failure, nothing |
| `PricesAreSound` | a price that is used is recent, in scale, from a source the admin listed, and an observation counts for its share of those averaged |
| `MirrorsAddUp` | what the balances, stakes, positions and rounds of the small contracts of `secure/` add up to, the calls the code should refuse included |
| `StepsWithinRights` | delegations end, cancellations are the proposer's or the admin's, a loan costs nothing, a stored price moves in its band and a refused one changes nothing, a pause that was made holds (action property) |

Six runs are expected to end in a violation, each of one sentence of the
repository that the code does not keep (`findings`):

- `MCRegistry_event`: the doc comment of `submit_scan` announces an event that
  is not published.
- `MCRegistry_range`: `get_scanned_contracts_page` panics on a page far out of
  range, where its doc comment promises an empty vec.
- `MCDaoAndToken_snapshot`: `secure_dao` announces that vote weight is captured when
  a proposal is created. The supply is, which fixes the denominator of the quorum;
  a ballot weighs the balance at the time of the vote. An account that holds all
  of a supply of 1 creates a proposal, gets 1 more token and votes with 2.
- `MCDaoAndToken_burn`: `secure_token` announces an admin-gated burn, and burns
  by the holder's signature.
- `MCFixtures_skim`: a test of the corrected `admin_skim_donations` says of a skim
  "user deposits untouched" and looks at the deposits on the books. What backs
  them is lowered: `donate` never adds to the raw balance that `skim` takes from.
- `MCFixtures_lottery`: the corrected `weak_randomness` announces that a draw
  waits for every reveal, and counts one participant's reveals twice.

### Bounds

- Registry: two accounts (admin, scanner and stranger roles overlap and swap),
  two contracts, two scans per contract so that rescans, rescans by somebody
  else and a full history happen, scores in -2..2 so that both saturations
  happen, `U32_MAX` = 2 so that the scanner count reaches its limit, two ledger
  times. For the queries and the reader: three contracts, reports of two
  severities and pages of two, so that full, short and empty pages, a page
  boundary crossed by a submission and a limit above the cap happen.
- Signers: three signers, a stranger, a list that repeats a signer, two
  actions, lifetimes 0, 1 and 3 with the last sequence at 4: expiry, execution in
  the last ledger, the overflow of `created_at + ttl`, overwritten proposals and
  proposals of a former admin happen.
- DAO and token: two accounts, amounts -1, 0, 1 and 2, i128 from -2 to 4; one
  proposal, quorum one half, timelock 2, last sequence 3: overflow of votes and of
  balances, negative balances, self-transfers and a queue too late for the timelock
  happen. One of the two contracts is deployed per behaviour (780 000 states). The
  snapshot run mints single tokens, so that its trace is the story told above.
- Time-locked contracts: two accounts, last sequence 3, grants of 3 with i128 up
  to 5 so that the product in the curve overflows, deposits of -1 and 1 with every
  unlock sequence, a one-ledger oracle delay.
- Families: two accounts (a party and anybody else; `Solo` where the entries of
  accounts do not interact), ledgers 0..3 (before, within, at the end of and after
  a window), sums of the observer up to `Cap` = 9, other bounds at their use. That
  they are large enough for the case a crate is about is shown crate by crate:
  replacing the corrected operation by the fixture's makes TLC find the promise
  broken, within the same bounds, for 103 of the 114 crates. For the others the
  corrected contract differs in more than one operation or in its state, so that no
  single replacement brings the flaw back. A selection of these replacements, at
  least one for each family and property, is kept under `mutants`.

`MCRegistry_state` checks safety only and uses account symmetry. Deadlock is not checked
where a contract may really have nothing left to do (a bound is reached or every
claim is paid).

### Fairness

`CloseLedger` is weakly fair: the network keeps closing ledgers. `ReadPage`,
`SecureDao!execute`, `SecureVesting!claim` and `SequenceLock!withdraw` are weakly
fair: they are retried by the party who wants their result, and nobody else can
withdraw the permission to call them (execute is open to everyone). Nothing else
is assumed to happen; the families state safety only.

## Theorems

All are proved for every value of the constants that satisfies the assumptions
named in the modules, which TLC evaluates in the runs: accounts are a finite set
(`AddressAssumption`, `MultisigAssumption`, `AccountsAssumption`), widths are
positive integers, arguments lie in their Rust types (`WidthAssumption`,
`DaoAssumption`, `VestingAssumption`, `LockAssumption`,
`AdminAssumption`), the marker of an absent entry is no entry (`AbsentAssumption`,
`NoProposalAssumption`, `ContractAssumption`, `ScheduleAssumption`,
`StatusAssumption`, `ResultAssumption`, `RegistrationAssumption`), the delay of the
oracle is at least one ledger (`OracleAssumption`).

`RegistryProofs`

- `TypeCorrect`: every storage key keeps its type; the saturating scores stay in
  i32 and the scanner count in u32. The count is bounded only because the guard
  of `add_scanner` is the overflow check.
- `ScannerCountCorrect`: the counter is the cardinality of the approved set. It
  is inductive with the type invariant; the step uses the cardinality of a set
  with one element added or removed.
- `CopiesAgree`: latest scan, history, severity index, scanned list and metadata
  agree. The conjuncts are proved together, since each test in `store_result`
  reads a different copy.
- `ScoresAreEarned`: a score is at most the number of records of its owner; the
  step needs that appending a record adds one element to the set of
  submissions, and that saturation and disputes only lower the score.
- `HistoryInOrder`: histories are chronological. The two conjuncts of
  `HistoryChronological` need each other: a new record is the newest because no
  record is later than the ledger.
- `HistoryIsAuthentic` and `RegistryIsGoverned`: action properties. The second needs
  `CopiesAgree`, since `set_metadata` reads the latest result and the claim is
  about the newest record of the history.
- `HistoryPagesTile`: the history part of `PagesTile`, under the hypothesis that
  `MaxHistory + MAX_LIMIT` fits u32.
- `WalksAreConsistent`: a reader of `RegistryReader` assembles a consistent list.
  The invariant (`WalkInv`) adds to the property what makes it inductive: while the
  walk is under way exactly `page * PageSize` addresses were received, they agree
  with the list position by position, and what was listed at the beginning is
  listed still. The last needs that the list only grows at its end
  (`ScannedGrows`); that no address comes twice is inherited from `CopiesAgree`.
- `RegistryImplementsScanLog`: `Spec => Log!Spec`. The invariant is
  `CopiesAgree`: the view of the log is a function of the histories.

`SignersProofs`

- `QuorumExecutesOnce` and `LifecycleHolds` of the multisig. `ExecutedOnceByQuorum`
  is not inductive: an `initialize` after the first proposal could replace the list
  that proposal was judged by. `ProposedAfterInitialize` excludes it. The code
  counts the entries of the approvals; that these are as many accounts is
  `DistinctAreCounted`, also for a list that names a signer twice.
- `ChangesAreSigned` of the admin, one lemma for the handover and one for code and
  profiles. The type invariant ties the stored expiry to the ledger of the latest
  `propose_admin`, which the handover needs.
- `TypesCorrect`: the type invariants of both, of the composition.

`AccountsProofs` holds the lemmas about sums. `SumFunction` folds over the accounts
in the order in which `CHOOSE` takes them. That partial sums exist (`FoldExists`),
that any element may be taken next (`FoldAny`) and that they depend on the summands
only (`FoldSame`) are inductions on the size of the sets folded. The prover takes no
induction scheme with a predicate as its parameter, so `Induct` states induction for
a set of numbers, and follows from the least counterexample (`LeastNatural`). What
the contracts cite are the consequences: zeros sum to zero (`ZeroSum`,
`SumOfZeros`), adding to or taking from one entry moves the sum by as much
(`AddedTo`, `TakenFrom`, `SumShifts`), no summand exceeds a sum of naturals
(`SumBounds`, `SummandWithinSum`).

`DaoAndTokenProofs`

- `TypeCorrect`, `BallotsDecide` and `VotesStayFinal` of the DAO. The tallies are the
  sums of what was cast on each side; a vote moves one of them. That ballots precede
  the execution by the timelock needs `BallotsInOrder`: ballots lie in the past and,
  once the proposal is queued, a timelock before `execute_after`.
- `TokenTypeCorrect` and `SupplyConserved` of the token are proved together: no
  account is overdrawn, the supply is the sum of the balances, and both stay in
  i128. A burn leaves the supply non-negative because no account holds more than
  the supply.
- `EventsAreFaithful` and `OnlyByConsent`, from the same invariant.

`TimeLockedProofs`

- `GrantsArePaidReturnedOrStranded`: what was paid is what is recorded as claimed
  and at most what has vested; what the treasury got back is the sum of what the
  revoked grants had not vested; and what had vested and was unclaimed at a
  revocation stays with nobody, since `claim` panics from then on
  (`secure_vesting/src/lib.rs:78`). The invariant compares the claims with the exact
  curve at the time up to which the grant vests, also in ledgers in which the
  product of the code overflows and the code can compute nothing
  (`ScheduleSound`); the argument is that the curve lies between 0 and the total
  and never falls (`VestedGrows`), rounding included (`DivMonotone`).
- `BalancesAreUnlockable`: balance and unlock sequence of the locked vault are written
  together and cleared together, whatever the sign of a deposit and however often
  the lock is overwritten. That the lock binds its owner is not claimed: it does not.
- `ReadsAlwaysAgree`: an action property of the oracle.

But for `TypesCorrect`, the theorems above speak of each contract's own `Spec`;
`Signers`, `TimeLocked` and `DaoAndToken` put contracts side by side for TLC.

`ControlProofs`, `FundsProofs`, `FixtureProofs`

Every property of `MCFixtures` is a theorem of its specification, under its name
with `Always` added (`BooksAreHeldAlways`, ...). What the theorems add to the run:
any finite set of accounts instead of two, any number of ledgers instead of four,
and behaviours of any length. The ranges of the arguments and the small numbers
that stand for scales, rates and bounds are definitions of the models, and stay as
they are.

- `X_Inv` is the inductive invariant of the crate with prefix X, `X_Correct` the lemma
  that it holds after a deployment and is kept by every call of the corrected
  contract. About half of the promises are inductive together with the types of
  the state. What the others need is: the books add up, over the accounts, to what
  an observer counted (`Hook`, `Wrap`, `Supply`); what is stored about an entry is
  what held when it was made (`Quorum`, `Timelock`); what is recorded as claimed is
  what was paid (`Cliff`, `Revoked`); no claim or accrual is dated in the future
  (`Pool`, `Staking`, `Index`); nothing is recorded before `initialize`
  (`Wrap_UnsetIsEmpty`, `Own_NoAdminNoFees`).
  Each is a definition of its own with a comment.
- The vaults and the loans divide. That a share is worth at least what it was worth
  is an inequality between products, proved by bounding the quotient the code
  computes before the products are compared (`FloorShares` and the lemmas after it).
- `Steps`, `StepsOwn` and `StaysDeployed` in `FixtureProofs` show that the deployed
  crate never changes and that only its own calls step. Each conjunct of a property
  is then its crate's lemma. Of the code in `lib.rs` nothing is promised and nothing
  proved, but its steps are part of the specification the theorems are about.

A remark for who changes the models: of an `EXCEPT` with two updates of one
function, the prover reads `@` in the second as the original value. TLA+ reads it
after the first update. The two differ when both hit the same entry, so the models
write such updates one after the other.

Only model-checked:

- liveness (`WalkEnds`, `QueuedIsExecuted`, `PaidInFull`, `FundsReachable`): the prover
  does not reason about fairness;
- the severity and scanned parts of `PagesTile`: they select from and flatten
  sequences, which are recursive computations over the data.

## Where the code and a sentence of the repository part

Beside the six findings, reading the corrected code for a model turned up places
where a comment, a document or a message claims more than the code does. The models
keep what the code does, the promise of the crate says in its comment what holds
instead, and no theorem claims the sentence. (Paths are under `vulnerable/<crate>/src`
unless they begin otherwise.)

| Where | The sentence | What the code does, and the property says |
|---|---|---|
| `ignored_return` | `secure.rs:9-11`, `47-49`, `81-83`: `Released` "is never set to `true` unless the transfer actually succeeded" | true of a token that panics; the crate's mock fails by returning, and the flag is set with nothing paid, for good (`Ignored_ReleasedOnce`) |
| `inactive_circuit_breaker` | `secure.rs:5-7` and `:70`: a breach sets `Paused`, so that swaps "are blocked until an admin explicitly unpauses the market" | the panic that follows takes the pause back and the market trades on at the old price; the test (`lib.rs:276-280`) pauses by `force_pause` (`Breaker_MovesAreBounded`) |
| `twap_window_too_short` | `secure.rs:81-82`: an update moves the average "by at most `1 / MIN_TWAP_WINDOW` of its range" | so on a full buffer; before that by one part in the observations so far, the second by half (`Twap_OneObservationIsOneShare`) |
| `nonzero_allowance_overwrite` | `secure.rs:21`: "prevents the race condition where spender uses both old and new allowances" (the race is `lib.rs:208-212`) | a spender who draws all of the old grant first makes the allowance zero and the new one acceptable, and draws both; what holds is that no approval replaces an open grant (`Overwrite_GrantsAccountedFor`) |
| `secure_vault` | `docs/threat_model.md:125`: "reject negative amounts" | all three calls accept them; a self-transfer reads both balances before it writes either and creates tokens (`Vault_SumIsExplained`) |
| `secure_transfer` | `docs/vulnerabilities.md:886-888` names it the corrected mirror of `negative_transfer` | negative amounts and overdrafts pass; the sum is kept (`Transfer_Conserves`) |
| `secure_pausable` | `expect("insufficient balance")` | `checked_sub` on a signed type stops no overdraft (`Pausable_SumIsExplained`) |
| `rescue_primary_asset` | `expect("insufficient funds")` | the same; what is owed exceeds what is held by what others overdrew (`Rescue_OwedIsHeld`) |
| `underfunded_reward_pool` | `lib.rs:6-7`: in the fixture "the staker loses their reward window without receiving any tokens" | a claim of the corrected contract does not lose it; `stake` again forfeits it (`lib.rs:124-130`, `Pool_WindowEnds`) |
| `bridge_validator_quorum_missing` | `secure.rs:100`: "invalid new threshold" | a key listed twice counts for the length and not for the quorum, so that a threshold may be out of reach (`Validators_QuorumReplaces`) |
| `sequence_lock`, `unprotected_emergency_withdraw` | `secure/sequence_lock/src/lib.rs:3`: "enforcing lock periods"; `lib.rs:51`: "locked until `unlock_ledger`" | it binds everybody but its owner, who may deposit a negative amount or a lock that has passed (`LockedOrEmpty`, `Emergency_ByOwnerOrAdmin`) |
| `paginated_airdrop` | "Callers advance `start` by `count`" (`secure/paginated_airdrop/src/lib.rs:38`) | any caller may name any start; each such batch credits again (`Pages_WalksCreditOnce`) |

Behaviour that no sentence contradicts, and that the models keep as it is:

- Balances are `i128`, and `checked_sub` fails only at the end of the type: a
  withdrawal without a comparison may leave an account below zero also in
  `reentrancy` and `admin_rugpull`, and several amounts may be negative
  (`caller_supplied_ledger`, `self_deposit`, `collateral_withdraw_no_health_check`).
- A self-transfer of the corrected `batch_pause_bypass` adds to the balance.
- What had vested and was not claimed when `secure_vesting` revokes a grant is paid to
  nobody (`PaidReturnedOrStranded`). A rebase downwards makes every share of
  `rebasing_token_accounting` worth less, and in a vault rebased below zero a
  deposit gives negative shares (`Rebase_OthersKeepTheirs` speaks of the others).
- Initialisers that may be repeated by anyone: `secure_vesting`, `secure_lending`
  (the borrower walks away from the debt and leaves the collateral:
  `Position_DebtsAreCovered`), `uncapped_rate`, `negative_fee_bps`, `no_slippage`,
  `quorum_current_supply`. `stake` of `secure_staking` and `create_escrow` of
  `hardcoded_beneficiary` overwrite an entry that is there.
- `liquidate` of `secure_lending` is modelled and cannot succeed in a reachable state.
- Partial effects that a test describes and that the host rolls back, since the
  invocation then panics: `underfunded_reward_pool`, `allowance_before_balance` and
  `bridge_partial_mint_replay`.
- While a delegate is stored, `expired_delegation` refuses the admin too.
- `bridge_chainid_missing` compares `dst_chain` with nothing;
  `verifier_threshold_ignored` counts a verifier's second
  approval; approvals of `single_approval_escrow_release` outlive the release.
- The corrected `admin_timelock_rewrite` executes only the latest nonce, the
  corrected `governance_target_unvalidated` may execute a proposal again.
- The corrected flash-loan contracts take the ledger that tells repayment
  from their caller. The corrected `unchecked_fee_collector` has no withdrawal.
  `update_config` of `partial_config_clear` needs no admin.

## Not modelled

- `components/ScanInput.tsx`: the form reads `quota!.remaining` while `quota` is
  `null` (`quota?.remaining !== null` holds for `undefined`), so the first render
  throws and none of the asynchronous states behind it is reachable.
- `lib/api.ts`, `lib/notifications.ts`: stateless I/O.
- `secure/protected_fee_withdraw`: an empty file.
- 74 fixture crates (listed in `PROJECT.json`). Most lack one signature or one
  check that a modelled crate of the same family has too; a few are about syntax,
  storage cost or wording, which no property of the state tells apart. Three were
  left out for a reason of their own: the flaw of `self_stake` cannot be reached,
  the corrected `timelock_eta_overwrite` does not keep what its name promises, and
  in the corrected `delete_without_tombstone` deleting an absent entry resets the
  tombstone, so that there is no promise to state.
- The Soroban host, except as the execution model above.

## Plan

1. Done: `Registry` with its abstract log and reader; `SecureMultisig`,
   `ProtectedAdmin`, `SecureDao`, `SecureToken`, the time-locked contracts; all with
   proofs. The ten small contracts of `secure/` and the fixture families.
   The properties of `MCFixtures`, proved crate by crate.
2. The scanned part of `PagesTile`, stated position by position.
3. The remaining fixtures, where one brings a hazard that no modelled crate has.
