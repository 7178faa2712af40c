------------------------------ MODULE SecureDao ------------------------------
(***************************************************************************)
(* Token-weighted governance with quorum and timelock                      *)
(* (secure/secure_dao/src/lib.rs).  One action is one invocation; a panic  *)
(* rolls it back, so it is a step that is not taken.  ballot keeps, with   *)
(* the Voted flag, what the "voted" event publishes and its ledger.        *)
(***************************************************************************)
EXTENDS Accounts

CONSTANTS
    Amounts,          \* amounts passed to mint; the code accepts any i128
    MaxProposals,     \* proposals explored; ids are 0 .. MaxProposals - 1
    MaxSupply,        \* total supply explored
    NoProposal, NoBallot, NoAddress,
    TIMELOCK_DELAY,
    QUORUM_BPS, BPS,  \* the quorum is QUORUM_BPS / BPS of the supply
    I128_MIN, I128_MAX, U32_MAX

Ids == 0..(MaxProposals - 1)
I128 == I128_MIN..I128_MAX

ASSUME DaoAssumption ==
    /\ NoAddress \notin Address
    /\ I128_MIN \in Int /\ I128_MIN < 0 /\ I128_MAX \in Int /\ I128_MAX > 0
    /\ U32_MAX \in Nat /\ TIMELOCK_DELAY \in Nat
    /\ QUORUM_BPS \in Nat \ {0} /\ BPS \in Nat \ {0}
    /\ Amounts \subseteq I128
    /\ MaxProposals \in Nat \ {0} /\ MaxSupply \in 0..I128_MAX

Proposal ==
    [proposer : Address, snapshot_supply : I128, votes_for : I128, votes_against : I128,
     queued : BOOLEAN, executed : BOOLEAN, execute_after : 0..U32_MAX]

Ballot == [support : BOOLEAN, weight : 1..I128_MAX, at : 0..U32_MAX]

ASSUME AbsentAssumption == NoProposal \notin Proposal /\ NoBallot \notin Ballot

VARIABLES
    totalSupply,   \* DataKey::TotalSupply
    balance,       \* DataKey::Balance(account)
    nextId,        \* DataKey::NextId
    proposal,      \* DataKey::Proposal(id)
    ballot,        \* DataKey::Voted(id, voter) and the event of the vote
    sequence       \* env.ledger().sequence()

tokenVars == <<totalSupply, balance>>
vars == <<tokenVars, nextId, proposal, ballot, sequence>>

Init ==
    /\ totalSupply = 0
    /\ balance = [a \in Address |-> 0]
    /\ nextId = 0
    /\ proposal = [id \in Ids |-> NoProposal]
    /\ ballot = [id \in Ids |-> [a \in Address |-> NoBallot]]
    /\ sequence = 0

fits_i128(n) == n \in I128

\* A test helper of the contract, open to everyone and without a sign check.
mint(to, amount) ==
    /\ totalSupply + amount <= MaxSupply
    /\ fits_i128(balance[to] + amount)
    /\ fits_i128(totalSupply + amount)
    /\ balance' = [balance EXCEPT ![to] = @ + amount]
    /\ totalSupply' = totalSupply + amount
    /\ UNCHANGED <<nextId, proposal, ballot, sequence>>

\* Mutant: the id counter is not advanced.
create_proposal_same_id(proposer) ==
    /\ nextId < MaxProposals
    /\ balance[proposer] >= 1
    /\ proposal' = [proposal EXCEPT ![nextId] =
           [proposer |-> proposer, snapshot_supply |-> totalSupply,
            votes_for |-> 0, votes_against |-> 0,
            queued |-> FALSE, executed |-> FALSE, execute_after |-> 0]]
    /\ UNCHANGED <<tokenVars, nextId, ballot, sequence>>

create_proposal(proposer) ==
    /\ nextId < MaxProposals
    /\ balance[proposer] >= 1
    /\ proposal' = [proposal EXCEPT ![nextId] =
           [proposer |-> proposer, snapshot_supply |-> totalSupply,
            votes_for |-> 0, votes_against |-> 0,
            queued |-> FALSE, executed |-> FALSE, execute_after |-> 0]]
    /\ nextId' = nextId + 1
    /\ UNCHANGED <<tokenVars, ballot, sequence>>

\* The proposal after a vote of the given weight.
tallied(p, support, weight) ==
    IF support THEN [p EXCEPT !.votes_for = @ + weight]
               ELSE [p EXCEPT !.votes_against = @ + weight]

\* Mutant: the Voted flag is stored and never read.
vote_again(voter, id, support) ==
    LET weight == balance[voter]
    IN  /\ proposal[id] # NoProposal
        /\ ~proposal[id].queued /\ ~proposal[id].executed
        /\ weight >= 1
        /\ fits_i128(tallied(proposal[id], support, weight).votes_for)
        /\ fits_i128(tallied(proposal[id], support, weight).votes_against)
        /\ proposal' = [proposal EXCEPT ![id] = tallied(@, support, weight)]
        /\ ballot' = [ballot EXCEPT ![id][voter] =
                          [support |-> support, weight |-> weight, at |-> sequence]]
        /\ UNCHANGED <<tokenVars, nextId, sequence>>

\* Mutant: voting goes on after the proposal is queued.
vote_late(voter, id, support) ==
    LET weight == balance[voter]
    IN  /\ ballot[id][voter] = NoBallot
        /\ proposal[id] # NoProposal
        /\ ~proposal[id].executed
        /\ weight >= 1
        /\ fits_i128(tallied(proposal[id], support, weight).votes_for)
        /\ fits_i128(tallied(proposal[id], support, weight).votes_against)
        /\ proposal' = [proposal EXCEPT ![id] = tallied(@, support, weight)]
        /\ ballot' = [ballot EXCEPT ![id][voter] =
                          [support |-> support, weight |-> weight, at |-> sequence]]
        /\ UNCHANGED <<tokenVars, nextId, sequence>>

\* The weight is the balance at the time of the vote.
vote(voter, id, support) ==
    LET weight == balance[voter]
    IN  /\ ballot[id][voter] = NoBallot
        /\ proposal[id] # NoProposal
        /\ ~proposal[id].queued /\ ~proposal[id].executed
        /\ weight >= 1
        /\ fits_i128(tallied(proposal[id], support, weight).votes_for)
        /\ fits_i128(tallied(proposal[id], support, weight).votes_against)
        /\ proposal' = [proposal EXCEPT ![id] = tallied(@, support, weight)]
        /\ ballot' = [ballot EXCEPT ![id][voter] =
                          [support |-> support, weight |-> weight, at |-> sequence]]
        /\ UNCHANGED <<tokenVars, nextId, sequence>>

\* Rust's / truncates towards zero: 0 for a small negative dividend too.
truncated_div(n, d) == IF n >= 0 THEN n \div d ELSE -((-n) \div d)

quorum_threshold(p) == truncated_div(p.snapshot_supply * QUORUM_BPS, BPS)

\* Mutant: a timelock that has already run out.
queue_no_delay(id) ==
    LET p == proposal[id]
        total_votes == p.votes_for + p.votes_against
    IN  /\ p # NoProposal
        /\ ~p.queued /\ ~p.executed
        /\ p.votes_for > p.votes_against
        /\ fits_i128(total_votes)
        /\ fits_i128(p.snapshot_supply * QUORUM_BPS)
        /\ total_votes >= quorum_threshold(p)
        /\ proposal' = [proposal EXCEPT ![id].queued = TRUE,
                                        ![id].execute_after = sequence]
        /\ UNCHANGED <<tokenVars, nextId, ballot, sequence>>

queue(id) ==
    LET p == proposal[id]
        total_votes == p.votes_for + p.votes_against
    IN  /\ p # NoProposal
        /\ ~p.queued /\ ~p.executed
        /\ p.votes_for > p.votes_against
        /\ fits_i128(total_votes)
        /\ fits_i128(p.snapshot_supply * QUORUM_BPS)
        /\ total_votes >= quorum_threshold(p)
        /\ sequence + TIMELOCK_DELAY <= U32_MAX
        /\ proposal' = [proposal EXCEPT ![id].queued = TRUE,
                                        ![id].execute_after = sequence + TIMELOCK_DELAY]
        /\ UNCHANGED <<tokenVars, nextId, ballot, sequence>>

\* Mutant: strictly after the last ledger the timelock allows for.
execute_one_late(id) ==
    /\ proposal[id] # NoProposal
    /\ proposal[id].queued
    /\ ~proposal[id].executed
    /\ sequence > proposal[id].execute_after
    /\ proposal' = [proposal EXCEPT ![id].executed = TRUE]
    /\ UNCHANGED <<tokenVars, nextId, ballot, sequence>>

execute(id) ==
    /\ proposal[id] # NoProposal
    /\ proposal[id].queued
    /\ ~proposal[id].executed
    /\ sequence >= proposal[id].execute_after
    /\ proposal' = [proposal EXCEPT ![id].executed = TRUE]
    /\ UNCHANGED <<tokenVars, nextId, ballot, sequence>>

CloseLedger ==
    /\ sequence < U32_MAX
    /\ sequence' = sequence + 1
    /\ UNCHANGED <<tokenVars, nextId, proposal, ballot>>

Next ==
    \/ \E a \in Address, n \in Amounts : mint(a, n)
    \/ \E a \in Address : create_proposal(a)
    \/ \E a \in Address, id \in Ids, s \in BOOLEAN : vote(a, id, s)
    \/ \E id \in Ids : queue(id) \/ execute(id)
    \/ CloseLedger

Spec == Init /\ [][Next]_vars

\* Ledgers keep closing, and execute is open to everyone: somebody who wants
\* a queued proposal executed can and will call it.
Fairness == WF_vars(CloseLedger) /\ \A id \in Ids : WF_vars(execute(id))

-----------------------------------------------------------------------------
\* Every storage key holds a value of its Rust type, and a proposal exists
\* for exactly the ids handed out.
TypeOK ==
    /\ totalSupply \in I128
    /\ balance \in [Address -> I128]
    /\ nextId \in 0..MaxProposals
    /\ proposal \in [Ids -> Proposal \cup {NoProposal}]
    /\ ballot \in [Ids -> [Address -> Ballot \cup {NoBallot}]]
    /\ sequence \in 0..U32_MAX
    /\ \A id \in Ids : id < nextId <=> proposal[id] # NoProposal

\* A tally is the sum of the ballots cast, one per address, each with the
\* weight its vote was published with.
Cast(id, side) ==
    [a \in Address |-> IF ballot[id][a] # NoBallot /\ ballot[id][a].support = side
                       THEN ballot[id][a].weight ELSE 0]

TalliesAreBallots ==
    \A id \in Ids : proposal[id] # NoProposal =>
        /\ SumFunction(Cast(id, TRUE)) = proposal[id].votes_for
        /\ SumFunction(Cast(id, FALSE)) = proposal[id].votes_against

\* What was queued has passed, and still has: a strict majority of the
\* ballots and the quorum of the supply at creation, no matter what was
\* minted or voted on afterwards.
QueuedHasPassed ==
    \A id \in Ids : (proposal[id] # NoProposal /\ proposal[id].queued) =>
        /\ proposal[id].votes_for > proposal[id].votes_against
        /\ proposal[id].votes_for + proposal[id].votes_against >= quorum_threshold(proposal[id])

\* "A timelock delay between queue and execute": when a proposal has been
\* executed, every ballot on it was cast at least TIMELOCK_DELAY ledgers ago,
\* so no vote and its execution share a transaction.
VotesPrecedeExecution ==
    \A id \in Ids : (proposal[id] # NoProposal /\ proposal[id].executed) =>
        \A a \in Address : ballot[id][a] # NoBallot =>
            ballot[id][a].at + TIMELOCK_DELAY <= sequence

\* The ballots, and nothing else, decide what is queued and executed.
DecidedByBallots == TalliesAreBallots /\ QueuedHasPassed /\ VotesPrecedeExecution

\* A ballot is never withdrawn or altered, and a proposal only moves
\* forward: its snapshot is fixed, queued and executed are never taken back.
VotesAreFinal ==
    [][\A id \in Ids :
        /\ \A a \in Address : ballot[id][a] # NoBallot => ballot'[id][a] = ballot[id][a]
        /\ proposal[id] # NoProposal =>
               /\ proposal'[id].snapshot_supply = proposal[id].snapshot_supply
               /\ proposal[id].queued => proposal'[id].queued
               /\ proposal[id].executed => proposal'[id] = proposal[id]]_vars

\* A proposal that is queued will be executed: the checked addition that sets
\* execute_after leaves a ledger in which execute succeeds.
QueuedIsExecuted ==
    \A id \in Ids : (proposal[id] # NoProposal /\ proposal[id].queued)
                        ~> (proposal[id] # NoProposal /\ proposal[id].executed)

(* What the documentation says and the code does not do.                   *)

\* secure/secure_dao/src/lib.rs:9 says that "Vote weight is snapshotted at
\* proposal creation time (total_supply stored on the proposal)", and line 1
\* names "vote-weight snapshots": with weights as they were at creation no
\* more can be cast than the supply stored then.  Only the supply is stored;
\* vote reads the balance of the moment it is cast.
VotesWithinSnapshot ==
    \A id \in Ids : proposal[id] # NoProposal =>
        proposal[id].votes_for + proposal[id].votes_against <= proposal[id].snapshot_supply
=============================================================================
