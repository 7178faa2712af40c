----------------------------- MODULE Governance -----------------------------
(***************************************************************************)
(* Fixtures on proposals, votes, timelocks and the calls a DAO makes.      *)
(***************************************************************************)
EXTENDS Contract, Functions

MaxVoteSupply == 3      \* bound on a voting supply
MaxVotesCast == 2       \* bound on the votes for, and against, a proposal
ProposalIds == {1}      \* no proposal's state depends on another's: the first stands for
                        \* all, and a second init lets the next one take its place;
                        \* one made before init (id 0) differs in its id only

-----------------------------------------------------------------------------
(* quorum_current_supply.  past.born is the supply when a proposal was     *)
(* created, past.last the answer of the last tally and the one its voters  *)
(* were promised.                                                          *)
Quorum_Init ==
    /\ crate = "quorum_current_supply"
    /\ store = [supply |-> 0, next |-> 0, proposals |-> [i \in ProposalIds |-> None]]
    /\ past = [born |-> [i \in ProposalIds |-> 0], last |-> [told |-> FALSE, due |-> FALSE]]

\* May be repeated: the ids start again, and the next proposal replaces an old one.
Quorum_init(n) == Write([store EXCEPT !.supply = n, !.next = 1])

Quorum_mint(n) ==
    /\ store.supply + n \in 0..MaxVoteSupply
    /\ Write([store EXCEPT !.supply = @ + n])

Quorum_burn(n) ==
    /\ store.supply - n \in 0..MaxVoteSupply
    /\ Write([store EXCEPT !.supply = @ - n])

Quorum_total_supply == store.supply

Quorum_proposal(id) == store.proposals[id]

Quorum_new(snapshot) ==
    /\ store.next \in ProposalIds
    /\ WriteAnd([store EXCEPT !.proposals[store.next] =
                                  [yes |-> 0, no |-> 0, final |-> FALSE, snapshot_supply |-> snapshot],
                              !.next = @ + 1],
                [past EXCEPT !.born[store.next] = Quorum_total_supply])

Quorum_create_proposal_lib == Quorum_new(None)

Quorum_create_proposal == Quorum_new(Quorum_total_supply)

\* A vote is counted also after the tally, with the weight the caller names.
Quorum_vote(id, yes, n) ==
    /\ Quorum_proposal(id) # None
    /\ LET p == Quorum_proposal(id)
           q == IF yes THEN [p EXCEPT !.yes = @ + n] ELSE [p EXCEPT !.no = @ + n]
       IN  /\ q.yes \in -1..MaxVotesCast /\ q.no \in -1..MaxVotesCast
           /\ Write([store EXCEPT !.proposals[id] = q])

Quorum_passes(p, supply) == p.yes + p.no >= supply \div 2 /\ p.yes > p.no

Quorum_tallied(id, supply) ==
    WriteAnd([store EXCEPT !.proposals[id].final = TRUE],
             [past EXCEPT !.last = [told |-> Quorum_passes(Quorum_proposal(id), supply),
                                    due |-> Quorum_passes(Quorum_proposal(id), past.born[id])]])

Quorum_tally_lib(id) ==
    Quorum_proposal(id) # None /\ Quorum_tallied(id, Quorum_total_supply)

Quorum_tally(id) ==
    Quorum_proposal(id) # None /\ Quorum_tallied(id, Quorum_proposal(id).snapshot_supply)

Quorum_Next ==
    /\ crate = "quorum_current_supply"
    /\ \E id \in ProposalIds, yes \in BOOLEAN, n \in {2, 3}, weight \in {-1, 1} :
        \/ Lib /\ (Quorum_init(n) \/ Quorum_mint(weight) \/ Quorum_burn(n)
                   \/ Quorum_create_proposal_lib \/ Quorum_vote(id, yes, weight)
                   \/ Quorum_tally_lib(id))
        \/ Secure /\ (Quorum_init(n) \/ Quorum_mint(weight) \/ Quorum_burn(n)
                      \/ Quorum_create_proposal \/ Quorum_vote(id, yes, weight)
                      \/ Quorum_tally(id))

\* What is minted or burned after a proposal was created, and a second init
\* between its creation and its tally, do not move its quorum.
Quorum_OfItsCreation == past.last.told = past.last.due

-----------------------------------------------------------------------------
(* delegation_weight_no_snapshot.  past.cast is the power behind yes and   *)
(* no when each vote was cast, past.last the answer of the last tally and  *)
(* the one that power decides.                                             *)
Weight_Init ==
    /\ crate = "delegation_weight_no_snapshot"
    /\ store = [balance |-> Zero, next |-> 0, proposals |-> [i \in ProposalIds |-> None]]
    /\ past = [cast |-> [i \in ProposalIds |-> [yes |-> 0, no |-> 0]],
               last |-> [told |-> FALSE, due |-> FALSE]]

Weight_init == Write([store EXCEPT !.next = 1])

Weight_set_delegated_balance(u, n) == Write([store EXCEPT !.balance[u] = n])

Weight_get_delegated_balance(u) == store.balance[u]

Weight_create_proposal ==
    /\ store.next \in ProposalIds
    /\ WriteAnd([store EXCEPT !.proposals[store.next] = [votes |-> <<>>, final |-> FALSE],
                              !.next = @ + 1],
                [past EXCEPT !.cast[store.next] = [yes |-> 0, no |-> 0]])

Weight_proposal(id) == store.proposals[id]

\* A voter may vote more than once.
Weight_vote(id, u, yes) ==
    /\ Weight_proposal(id) # None
    /\ Len(Weight_proposal(id).votes) < MaxVotesCast
    /\ LET power == Weight_get_delegated_balance(u)
       IN  WriteAnd([store EXCEPT !.proposals[id].votes =
                                      Append(@, [voter |-> u, power |-> power, vote_yes |-> yes])],
                    IF yes THEN [past EXCEPT !.cast[id].yes = @ + power]
                           ELSE [past EXCEPT !.cast[id].no = @ + power])

Weight_tallied(id, Power(_)) ==
    LET votes == Weight_proposal(id).votes
        Total(yes) == SumFunction([i \in DOMAIN votes |->
                                      IF votes[i].vote_yes = yes THEN Power(votes[i]) ELSE 0])
    IN  WriteAnd([store EXCEPT !.proposals[id].final = TRUE],
                 [past EXCEPT !.last = [told |-> Total(TRUE) > Total(FALSE),
                                        due |-> past.cast[id].yes > past.cast[id].no]])

Weight_tally_lib(id) ==
    LET Live(vote) == Weight_get_delegated_balance(vote.voter)
    IN  Weight_proposal(id) # None /\ Weight_tallied(id, Live)

Weight_tally(id) ==
    LET Snapshot(vote) == vote.power
    IN  Weight_proposal(id) # None /\ Weight_tallied(id, Snapshot)

Weight_Next ==
    /\ crate = "delegation_weight_no_snapshot"
    /\ \E u \in Address, id \in ProposalIds, yes \in BOOLEAN, n \in 0..1 :
        \/ Lib /\ (Weight_init \/ Weight_set_delegated_balance(u, n)
                   \/ Weight_create_proposal \/ Weight_vote(id, u, yes)
                   \/ Weight_tally_lib(id))
        \/ Secure /\ (Weight_init \/ Weight_set_delegated_balance(u, n)
                      \/ Weight_create_proposal \/ Weight_vote(id, u, yes) \/ Weight_tally(id))

\* A tally is decided by the power behind each vote when it was cast: what is
\* delegated away or in between the vote and the tally does not count.
Weight_OfItsVotes == past.last.told = past.last.due
-----------------------------------------------------------------------------
(* admin_timelock_rewrite.  The entries of a target depend on no other     *)
(* target's: one target stands for all.  A payload is a function name with *)
(* its arguments; its hash stands for it (sha256, external).  past.since   *)
(* is the ledger a payload was last queued in, past.ran the payload of the *)
(* last execution and the one the executor asked for.                      *)
Payloads == {"raise_fee", "upgrade"}
ActionDelay == 1
MaxActionNonce == 2     \* bound on the queued actions of a target

Timelock_Init ==
    /\ crate = "admin_timelock_rewrite"
    /\ store = [admin |-> None, delay |-> 0, nonce |-> 0, queued |-> {}]
    /\ past = [since |-> [p \in Payloads |-> None], ran |-> None]

Timelock_initialize(u, delay) ==
    /\ store.admin = None
    /\ Write([store EXCEPT !.admin = u, !.delay = delay])

Timelock_get_admin == store.admin

Timelock_get_queued_action_lib == store.queued

\* The one action of the target: an earlier one is replaced.
Timelock_queue_action_lib(p) ==
    /\ Timelock_get_admin # None
    /\ WriteAnd([store EXCEPT !.queued = {[payload |-> p, nonce |-> 0, at |-> now,
                                           delay |-> store.delay]}],
                [past EXCEPT !.since[p] = now])

Timelock_execution(action, asked) ==
    /\ now >= action.at + action.delay
    /\ WriteAnd([store EXCEPT !.queued = @ \ {action}],
                [past EXCEPT !.ran = [asked |-> asked, payload |-> action.payload,
                                      waited |-> now - past.since[action.payload]]])

\* The caller names the target only.
Timelock_execute_action_lib(p) ==
    /\ Timelock_get_admin # None
    /\ \E action \in Timelock_get_queued_action_lib : Timelock_execution(action, p)

Timelock_queue_action(p) ==
    /\ Timelock_get_admin # None
    /\ store.nonce < MaxActionNonce
    /\ WriteAnd([store EXCEPT !.nonce = @ + 1,
                              !.queued = @ \union {[payload |-> p, nonce |-> store.nonce + 1,
                                                    at |-> now, delay |-> store.delay]}],
                [past EXCEPT !.since[p] = now])

Timelock_get_queued_action(p, nonce) ==
    {action \in store.queued : action.payload = p /\ action.nonce = nonce}

\* Of the queued actions of a target only the latest can be executed.
Timelock_execute_action(p) ==
    /\ Timelock_get_admin # None
    /\ \E action \in Timelock_get_queued_action(p, store.nonce) : Timelock_execution(action, p)

Timelock_Next ==
    /\ crate = "admin_timelock_rewrite"
    /\ \/ CloseLedger
       \/ \E u \in Solo, p \in Payloads :
            \/ Lib /\ (Timelock_initialize(u, ActionDelay) \/ Timelock_queue_action_lib(p)
                       \/ Timelock_execute_action_lib(p))
            \/ Secure /\ (Timelock_initialize(u, ActionDelay) \/ Timelock_queue_action(p)
                          \/ Timelock_execute_action(p))

\* What runs is what the executor reviewed, and it has waited out the delay since
\* it was last queued: another payload queued in between runs nothing in its name.
Timelock_RunsWhatWasReviewed ==
    past.ran # None => past.ran.payload = past.ran.asked /\ past.ran.waited >= store.delay

-----------------------------------------------------------------------------
(* governance_target_unvalidated.  The invocation of the target is         *)
(* external; past.called holds the pairs that were invoked.                *)
CallTargets == {"treasury", "other"}
CallFunctions == {"pay", "ping"}

Target_Init ==
    /\ crate = "governance_target_unvalidated"
    /\ store = [next |-> 0, proposals |-> [i \in 0..1 |-> None], executed |-> {},
                targets |-> {}, functions |-> {}]
    /\ past = [called |-> {}]

Target_propose_lib(p) ==
    /\ store.next \in 0..1
    /\ Write([store EXCEPT !.proposals[store.next] = p, !.next = @ + 1])

\* Proposes a ping of a contract of the caller's choice.
Target_vulnerable_entry_lib(target) ==
    Target_propose_lib([target |-> target, function |-> "ping"])

Target_execute_lib(id) ==
    /\ store.proposals[id] # None
    /\ WriteAnd([store EXCEPT !.executed = @ \union {id}],
                [called |-> past.called \union {store.proposals[id]}])

Target_allow_target(target) == Write([store EXCEPT !.targets = @ \union {target}])

Target_allow_function(function) == Write([store EXCEPT !.functions = @ \union {function}])

Target_ensure_allowed(p) == p.target \in store.targets /\ p.function \in store.functions

Target_propose(p) == Target_ensure_allowed(p) /\ Target_propose_lib(p)

\* secure.rs keeps no record that a proposal was executed.
Target_execute(id) ==
    /\ store.proposals[id] # None
    /\ Target_ensure_allowed(store.proposals[id])
    /\ Observe([called |-> past.called \union {store.proposals[id]}])

Target_Next ==
    /\ crate = "governance_target_unvalidated"
    /\ \E target \in CallTargets, function \in CallFunctions, id \in 0..1 :
        LET p == [target |-> target, function |-> function]
        IN  \/ Lib /\ (Target_propose_lib(p) \/ Target_vulnerable_entry_lib(target)
                       \/ Target_execute_lib(id))
            \/ Secure /\ (Target_allow_target(target) \/ Target_allow_function(function)
                          \/ Target_propose(p) \/ Target_execute(id))

\* The DAO invokes only targets and functions that were allowed, whatever was
\* proposed before they were.
Target_CallsAllowed == \A p \in past.called : Target_ensure_allowed(p)
-----------------------------------------------------------------------------
(* vote_after_deadline.  past.in_time is the weight behind a proposal that *)
(* was cast by its last ledger, since it was last created.                 *)
Voting_Init ==
    /\ crate = "vote_after_deadline"
    /\ store = [proposal |-> None, voted |-> {}]
    /\ past = [in_time |-> 0]

Voting_proposal == store.proposal

\* May be repeated: the counts start again, the voters stay marked.
Voting_create(end) ==
    WriteAnd([store EXCEPT !.proposal = [yes |-> 0, no |-> 0, end_ledger |-> end]],
             [in_time |-> 0])

Voting_vote_lib(u, support, weight) ==
    /\ u \notin store.voted
    /\ Voting_proposal # None
    /\ WriteAnd([store EXCEPT !.proposal = IF support
                                           THEN [Voting_proposal EXCEPT !.yes = @ + weight]
                                           ELSE [Voting_proposal EXCEPT !.no = @ + weight],
                              !.voted = @ \union {u}],
                [in_time |-> past.in_time + (IF now <= Voting_proposal.end_ledger
                                             THEN weight ELSE 0)])

Voting_vote(u, support, weight) ==
    /\ Voting_proposal # None
    /\ now <= Voting_proposal.end_ledger
    /\ Voting_vote_lib(u, support, weight)

Voting_tally == <<Voting_proposal.yes, Voting_proposal.no, Voting_proposal.end_ledger>>

Voting_Next ==
    /\ crate = "vote_after_deadline"
    /\ \/ CloseLedger
       \/ \E u \in Address, support \in BOOLEAN, weight \in {-1, 1, 2}, end \in 0..1 :
            \/ Lib /\ (Voting_create(end) \/ Voting_vote_lib(u, support, weight))
            \/ Secure /\ (Voting_create(end) \/ Voting_vote(u, support, weight))

\* The tally holds exactly the weight cast by the end of the vote.
Voting_TallyInTime ==
    Voting_proposal # None => Voting_tally[1] + Voting_tally[2] = past.in_time

-----------------------------------------------------------------------------
(* execute_without_queue.  The proposals are independent: one stands for   *)
(* all.  past.queued is the ledger it was queued in since it was created.  *)
QueueDelay == 1         \* TIMELOCK_DELAY

Queue_Init ==
    /\ crate = "execute_without_queue"
    /\ store = [proposal |-> None]
    /\ past = [queued |-> None, waited |-> None]

Queue_create ==
    WriteAnd([proposal |-> [state |-> "Passed", execute_after |-> 0]],
             [queued |-> None, waited |-> None])

Queue_queue ==
    /\ store.proposal # None /\ store.proposal.state = "Passed"
    /\ WriteAnd([proposal |-> [state |-> "Queued", execute_after |-> now + QueueDelay]],
                [past EXCEPT !.queued = now])

Queue_done ==
    WriteAnd([store EXCEPT !.proposal.state = "Executed"],
             [past EXCEPT !.waited = IF past.queued = None THEN 0 ELSE now - past.queued])

Queue_execute_lib ==
    store.proposal # None /\ store.proposal.state = "Passed" /\ Queue_done

Queue_execute ==
    /\ store.proposal # None /\ store.proposal.state = "Queued"
    /\ now >= store.proposal.execute_after
    /\ Queue_done

Queue_get_state == store.proposal.state

Queue_Next ==
    /\ crate = "execute_without_queue"
    /\ \/ CloseLedger
       \/ Queue_create \/ Queue_queue
       \/ Lib /\ Queue_execute_lib
       \/ Secure /\ Queue_execute

\* A proposal that was executed was queued, and waited out the delay there.
Queue_ExecutedAfterDelay ==
    (store.proposal # None /\ Queue_get_state = "Executed") => past.waited >= QueueDelay

-----------------------------------------------------------------------------
(* public_proposal_cancel.  past.caller is who canceled last.              *)
Cancel_Init ==
    /\ crate = "public_proposal_cancel"
    /\ store = [guardian |-> None, proposals |-> [i \in 1..2 |-> None]]
    /\ past = [caller |-> None]

\* May be repeated: it drops every proposal.
Cancel_init(u) ==
    WriteAnd([guardian |-> u, proposals |-> [i \in 1..2 |-> None]], [caller |-> None])

Cancel_create_proposal(u, id) ==
    Write([store EXCEPT !.proposals[id] = [proposer |-> u, status |-> "Active"]])

\* Cancels every active proposal, with no signature.
Cancel_vulnerable_entry_lib(u) ==
    WriteAnd([store EXCEPT !.proposals =
                 [i \in DOMAIN @ |-> IF @[i] = None THEN None
                                     ELSE [@[i] EXCEPT !.status = "Canceled"]]],
             [caller |-> u])

Cancel_cancel_lib(u, id) ==
    /\ store.proposals[id] # None
    /\ WriteAnd([store EXCEPT !.proposals[id].status = "Canceled"], [caller |-> u])

Cancel_cancel(u, id) ==
    /\ store.guardian # None
    /\ store.proposals[id] # None
    /\ u \in {store.proposals[id].proposer, store.guardian}
    /\ Cancel_cancel_lib(u, id)

Cancel_get_status(id) == store.proposals[id].status

Cancel_Next ==
    /\ crate = "public_proposal_cancel"
    /\ \E u \in Address, id \in 1..2 :
        \/ Cancel_init(u) \/ Cancel_create_proposal(u, id)
        \/ Lib /\ (Cancel_vulnerable_entry_lib(u) \/ Cancel_cancel_lib(u, id))
        \/ Secure /\ Cancel_cancel(u, id)

\* A proposal is canceled by its proposer or by the guardian.
Cancel_ByItsOwn ==
    \A id \in 1..2 :
        (/\ store.proposals[id] # None /\ Cancel_get_status(id) = "Active"
         /\ store'.proposals[id] # None /\ Cancel_get_status(id)' = "Canceled")
            => past'.caller \in {store.proposals[id].proposer, store.guardian}

-----------------------------------------------------------------------------
(* proposal_id_collision.  past.filed holds the payloads in the order they *)
(* were proposed with the votes each received.                             *)
Titles == {"audit", "fees"}

Collision_Init ==
    /\ crate = "proposal_id_collision"
    /\ store = [next |-> 0, proposals |-> [k \in Titles |-> None], numbered |-> <<>>]
    /\ past = [filed |-> <<>>]

\* Keyed by the proposer and the title: one proposer stands for all.
Collision_propose_lib(title, payload) ==
    /\ Len(past.filed) < 2
    /\ WriteAnd([store EXCEPT !.proposals[title] = [payload |-> payload, votes |-> 0]],
                [filed |-> Append(past.filed, [payload |-> payload, votes |-> 0])])

Collision_vulnerable_entry_lib(payload) == Collision_propose_lib("audit", payload)

Collision_vote_lib(title) ==
    /\ store.proposals[title] # None
    /\ store.proposals[title].votes < 2
    /\ Write([store EXCEPT !.proposals[title].votes = @ + 1])

Collision_propose(title, payload) ==
    /\ Len(past.filed) < 2
    /\ WriteAnd([store EXCEPT !.numbered = Append(@, [payload |-> payload, votes |-> 0]),
                              !.next = @ + 1],
                [filed |-> Append(past.filed, [payload |-> payload, votes |-> 0])])

\* Ids start at 0, sequences at 1.
Collision_get(id) == store.numbered[id + 1]

Collision_vote(id) ==
    /\ id < store.next
    /\ Collision_get(id).votes < 2
    /\ WriteAnd([store EXCEPT !.numbered[id + 1].votes = @ + 1],
                [filed |-> [past.filed EXCEPT ![id + 1].votes = @ + 1]])

Collision_Next ==
    /\ crate = "proposal_id_collision"
    /\ \E title \in Titles, payload \in Payloads, id \in 0..1 :
        \/ Lib /\ (Collision_propose_lib(title, payload) \/ Collision_vulnerable_entry_lib(payload)
                   \/ Collision_vote_lib(title))
        \/ Secure /\ (Collision_propose(title, payload) \/ Collision_vote(id))

\* No proposal takes the place, or the votes, of another.
Collision_EachKeepsItsVotes ==
    /\ store.next = Len(past.filed)
    /\ \A id \in 0..(store.next - 1) : Collision_get(id) = past.filed[id + 1]
=============================================================================
