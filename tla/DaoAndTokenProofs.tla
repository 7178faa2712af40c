-------------------------- MODULE DaoAndTokenProofs --------------------------
(***************************************************************************)
(* Theorems about the two contracts that keep token balances, SecureDao    *)
(* and SecureToken, for every set of holders, any number of proposals,     *)
(* every quorum, delay and integer width.  They do not call each other;    *)
(* what they share is the storage keys Balance and TotalSupply.            *)
(*                                                                         *)
(* DecidedByBallots is not inductive: a vote relies on nothing being cast  *)
(* before its proposal exists, an execution on the timelock having been    *)
(* measured from the last ballot.  BallotsInOrder adds both.               *)
(***************************************************************************)
EXTENDS DaoAndToken, AccountsProofs

\* Ballots are cast on proposals, in the past, and before the timelock of a
\* queued proposal starts to run.
BallotsInOrder ==
    \A id \in Ids, a \in Address : ballot[id][a] # NoBallot =>
        /\ proposal[id] # NoProposal
        /\ ballot[id][a].at <= sequence
        /\ proposal[id].queued => ballot[id][a].at + TIMELOCK_DELAY <= proposal[id].execute_after

Inv == TypeOK /\ DecidedByBallots /\ BallotsInOrder

-----------------------------------------------------------------------------
LEMMA Constants ==
    /\ I128_MIN \in Int /\ I128_MAX \in Int /\ I128_MIN < 0 /\ I128_MAX > 0
    /\ U32_MAX \in Nat /\ TIMELOCK_DELAY \in Nat /\ MaxProposals \in Nat
    /\ \A n \in Amounts : n \in Int
BY DaoAssumption DEF I128

\* A proposal that exists is a record with the fields of the Rust struct.
LEMMA StoredProposal ==
    ASSUME TypeOK, NEW id \in Ids, proposal[id] # NoProposal
    PROVE  /\ proposal[id] \in Proposal
           /\ proposal[id].votes_for \in Int /\ proposal[id].votes_against \in Int
           /\ proposal[id].queued \in BOOLEAN /\ proposal[id].executed \in BOOLEAN
           /\ proposal[id].execute_after \in Nat
BY Constants DEF TypeOK, Proposal, I128

LEMMA StoredBallot ==
    ASSUME TypeOK, NEW id \in Ids, NEW a \in Address, ballot[id][a] # NoBallot
    PROVE  /\ ballot[id][a] \in Ballot /\ ballot[id][a].support \in BOOLEAN
           /\ ballot[id][a].weight \in Nat /\ ballot[id][a].at \in Nat
BY Constants DEF TypeOK, Ballot

\* What is cast on each side is a function the totals are taken of.
LEMMA CastType ==
    ASSUME TypeOK, NEW id \in Ids, NEW side \in BOOLEAN
    PROVE  Cast(id, side) \in [Address -> Int]
<1>1. ASSUME NEW a \in Address
      PROVE  (IF ballot[id][a] # NoBallot /\ ballot[id][a].support = side
              THEN ballot[id][a].weight ELSE 0) \in Int
    BY <1>1, StoredBallot
<1> QED BY <1>1 DEF Cast

\* Replacing one stored proposal by another record keeps the types and the
\* ids handed out.
LEMMA ReplacedProposal ==
    ASSUME TypeOK, NEW id \in Ids, proposal[id] # NoProposal, NEW p \in Proposal,
           proposal' = [proposal EXCEPT ![id] = p]
    PROVE  /\ proposal' \in [Ids -> Proposal \cup {NoProposal}]
           /\ proposal'[id] = p /\ p # NoProposal
           /\ \A k \in Ids : k # id => proposal'[k] = proposal[k]
           /\ \A k \in Ids : proposal'[k] # NoProposal <=> proposal[k] # NoProposal
BY AbsentAssumption DEF TypeOK

-----------------------------------------------------------------------------
LEMMA InitHolds == Init => Inv
<1> SUFFICES ASSUME Init PROVE Inv
    OBVIOUS
<1>1. TypeOK
    BY Constants DEF Init, TypeOK, I128, Ids
<1>2. DecidedByBallots
    BY DEF Init, DecidedByBallots, TalliesAreBallots, QueuedHasPassed, VotesPrecedeExecution
<1>3. BallotsInOrder
    BY DEF Init, BallotsInOrder
<1> QED BY <1>1, <1>2, <1>3 DEF Inv

\* Neither the token nor the clock touches what was decided.
LEMMA OtherKeeps ==
    ASSUME Inv, TypeOK', UNCHANGED <<proposal, ballot>>, sequence' >= sequence
    PROVE  Inv'
<1>1. sequence \in Nat /\ sequence' \in Nat /\ TIMELOCK_DELAY \in Nat
    BY Constants DEF Inv, TypeOK
<1>2. TalliesAreBallots'
    <2>1. \A id \in Ids, side \in BOOLEAN : Cast(id, side)' = Cast(id, side)
        BY DEF Cast
    <2> QED BY <2>1 DEF Inv, DecidedByBallots, TalliesAreBallots
<1>3. QueuedHasPassed'
    BY DEF Inv, DecidedByBallots, QueuedHasPassed, quorum_threshold
<1>4. VotesPrecedeExecution'
    <2> SUFFICES ASSUME NEW id \in Ids, proposal[id] # NoProposal, proposal[id].executed,
                        NEW a \in Address, ballot[id][a] # NoBallot
                 PROVE  ballot[id][a].at + TIMELOCK_DELAY <= sequence'
        BY DEF VotesPrecedeExecution
    <2>1. ballot[id][a].at + TIMELOCK_DELAY <= sequence /\ ballot[id][a].at \in Nat
        BY StoredBallot DEF Inv, DecidedByBallots, VotesPrecedeExecution
    <2> QED BY <1>1, <2>1
<1>5. BallotsInOrder'
    <2> SUFFICES ASSUME NEW id \in Ids, NEW a \in Address, ballot[id][a] # NoBallot
                 PROVE  /\ proposal[id] # NoProposal
                        /\ ballot[id][a].at <= sequence'
                        /\ proposal[id].queued =>
                               ballot[id][a].at + TIMELOCK_DELAY <= proposal[id].execute_after
        BY DEF BallotsInOrder
    <2>1. ballot[id][a].at <= sequence /\ ballot[id][a].at \in Nat
        BY StoredBallot DEF Inv, BallotsInOrder
    <2> QED BY <1>1, <2>1 DEF Inv, BallotsInOrder
<1> QED BY <1>2, <1>3, <1>4, <1>5 DEF Inv, DecidedByBallots

LEMMA MintKeeps ==
    ASSUME Inv, NEW to \in Address, NEW n \in Amounts, mint(to, n)
    PROVE  Inv'
<1>1. TypeOK'
    BY Constants DEF Inv, TypeOK, mint, fits_i128, I128
<1>2. sequence' >= sequence
    BY DEF mint, Inv, TypeOK
<1> QED BY <1>1, <1>2, OtherKeeps DEF mint

LEMMA CloseLedgerKeeps ==
    ASSUME Inv, CloseLedger
    PROVE  Inv'
<1>1. TypeOK' /\ sequence' >= sequence
    BY Constants DEF Inv, TypeOK, CloseLedger, tokenVars
<1> QED BY <1>1, OtherKeeps DEF CloseLedger

\* A new proposal starts from zero, and nothing was cast on its id.
LEMMA CreateKeeps ==
    ASSUME Inv, NEW who \in Address, create_proposal(who)
    PROVE  Inv'
<1> DEFINE p == [proposer |-> who, snapshot_supply |-> totalSupply,
                 votes_for |-> 0, votes_against |-> 0,
                 queued |-> FALSE, executed |-> FALSE, execute_after |-> 0]
<1>1. nextId \in Ids /\ proposal[nextId] = NoProposal /\ nextId + 1 \in 0..MaxProposals
    BY Constants DEF Inv, TypeOK, create_proposal, Ids
<1>2. p \in Proposal
    <2>1. 0 \in I128 /\ 0 \in 0..U32_MAX /\ totalSupply \in I128 /\ FALSE \in BOOLEAN
        BY Constants DEF I128, Inv, TypeOK
    <2> QED BY <2>1 DEF Proposal
<1>3. /\ p # NoProposal /\ p.votes_for = 0 /\ p.votes_against = 0 /\ ~p.queued /\ ~p.executed
    BY <1>2, AbsentAssumption
<1>4. proposal' = [proposal EXCEPT ![nextId] = p]
    BY DEF create_proposal
<1> HIDE DEF p
<1>5. /\ proposal' \in [Ids -> Proposal \cup {NoProposal}] /\ proposal'[nextId] = p
      /\ \A k \in Ids : k # nextId => proposal'[k] = proposal[k]
    BY <1>1, <1>2, <1>4 DEF Inv, TypeOK
<1>6. UNCHANGED <<tokenVars, ballot, sequence>> /\ nextId' = nextId + 1
    BY DEF create_proposal
<1>7. TypeOK'
    <2>1. \A k \in Ids : k < nextId' <=> proposal'[k] # NoProposal
        <3> SUFFICES ASSUME NEW k \in Ids PROVE k < nextId' <=> proposal'[k] # NoProposal
            OBVIOUS
        <3>1. CASE k = nextId
            BY <1>1, <1>3, <1>5, <1>6, <3>1 DEF Ids
        <3>2. CASE k # nextId
            BY <1>1, <1>5, <1>6, <3>2, Constants DEF Inv, TypeOK, Ids
        <3> QED BY <3>1, <3>2
    <2> QED BY <1>1, <1>5, <1>6, <2>1 DEF Inv, TypeOK, tokenVars
<1>8. TalliesAreBallots'
    <2> SUFFICES ASSUME NEW id \in Ids, proposal'[id] # NoProposal
                 PROVE  /\ SumFunction(Cast(id, TRUE)) = proposal'[id].votes_for
                        /\ SumFunction(Cast(id, FALSE)) = proposal'[id].votes_against
        BY <1>6 DEF TalliesAreBallots, Cast
    <2>1. CASE id = nextId
        <3>1. \A a \in Address : ballot[id][a] = NoBallot
            BY <1>1, <2>1 DEF Inv, BallotsInOrder
        <3>2. \A a \in Address : Cast(id, TRUE)[a] = 0 /\ Cast(id, FALSE)[a] = 0
            BY <3>1 DEF Cast
        <3> QED BY <1>3, <1>5, <2>1, <3>2, CastType, SumOfZeros DEF Inv
    <2>2. CASE id # nextId
        BY <1>5, <2>2 DEF Inv, DecidedByBallots, TalliesAreBallots
    <2> QED BY <2>1, <2>2
<1>9. QueuedHasPassed'
    BY <1>3, <1>5 DEF Inv, DecidedByBallots, QueuedHasPassed, quorum_threshold
<1>10. VotesPrecedeExecution'
    BY <1>3, <1>5, <1>6 DEF Inv, DecidedByBallots, VotesPrecedeExecution
<1>11. BallotsInOrder'
    BY <1>1, <1>5, <1>6 DEF Inv, BallotsInOrder
<1> QED BY <1>7, <1>8, <1>9, <1>10, <1>11 DEF Inv, DecidedByBallots

\* A vote adds its weight to one tally and to what was cast on that side.
LEMMA VoteKeeps ==
    ASSUME Inv, NEW voter \in Address, NEW id \in Ids, NEW support \in BOOLEAN,
           vote(voter, id, support)
    PROVE  Inv'
<1> DEFINE w == balance[voter]
           p == proposal[id]
           q == tallied(p, support, w)
           b == [support |-> support, weight |-> w, at |-> sequence]
<1>1. /\ ballot[id][voter] = NoBallot /\ p # NoProposal /\ ~p.queued /\ ~p.executed
      /\ w >= 1 /\ q.votes_for \in I128 /\ q.votes_against \in I128
      /\ proposal' = [proposal EXCEPT ![id] = q]
      /\ ballot' = [ballot EXCEPT ![id][voter] = b]
      /\ UNCHANGED <<tokenVars, nextId, sequence>>
    BY DEF vote, fits_i128
<1>2. /\ p \in Proposal /\ p.votes_for \in Int /\ p.votes_against \in Int
      /\ w \in I128 /\ w \in Int /\ sequence \in 0..U32_MAX /\ sequence \in Nat
    BY <1>1, StoredProposal, Constants DEF Inv, TypeOK, I128
<1>3. /\ q \in Proposal /\ ~q.queued /\ ~q.executed
      /\ q.votes_for = p.votes_for + (IF support THEN w ELSE 0)
      /\ q.votes_against = p.votes_against + (IF support THEN 0 ELSE w)
    BY <1>1, <1>2 DEF tallied, Proposal
<1>4. b \in Ballot /\ b # NoBallot /\ b.support = support /\ b.weight = w /\ b.at = sequence
    <2>1. w \in 1..I128_MAX
        BY <1>1, <1>2, Constants DEF I128
    <2>2. b \in Ballot
        BY <1>2, <2>1 DEF Ballot
    <2> QED BY <2>2, AbsentAssumption
<1> HIDE DEF q, b
<1>5. /\ proposal' \in [Ids -> Proposal \cup {NoProposal}]
      /\ proposal'[id] = q /\ q # NoProposal
      /\ \A k \in Ids : k # id => proposal'[k] = proposal[k]
      /\ \A k \in Ids : proposal'[k] # NoProposal <=> proposal[k] # NoProposal
    BY <1>1, <1>3, ReplacedProposal DEF Inv
<1>6. /\ ballot' \in [Ids -> [Address -> Ballot \cup {NoBallot}]]
      /\ ballot'[id][voter] = b
      /\ \A k \in Ids, a \in Address : (k # id \/ a # voter) => ballot'[k][a] = ballot[k][a]
    BY <1>1, <1>4 DEF Inv, TypeOK
<1>7. TypeOK'
    BY <1>1, <1>5, <1>6 DEF Inv, TypeOK, tokenVars
<1>8. TalliesAreBallots'
    <2> SUFFICES ASSUME NEW k \in Ids, proposal'[k] # NoProposal
                 PROVE  /\ SumFunction(Cast(k, TRUE)') = proposal'[k].votes_for
                        /\ SumFunction(Cast(k, FALSE)') = proposal'[k].votes_against
        BY DEF TalliesAreBallots
    <2>1. CASE k # id
        <3>1. \A side \in BOOLEAN : Cast(k, side)' = Cast(k, side)
            BY <1>6, <2>1 DEF Cast
        <3> QED BY <1>5, <2>1, <3>1 DEF Inv, DecidedByBallots, TalliesAreBallots
    <2>2. CASE k = id
        <3>1. /\ SumFunction(Cast(id, TRUE)) = p.votes_for /\
                 SumFunction(Cast(id, FALSE)) = p.votes_against
            BY <1>1 DEF Inv, DecidedByBallots, TalliesAreBallots
        <3>2. /\ \A side \in BOOLEAN : Cast(id, side) \in [Address -> Int]
              /\ \A side \in BOOLEAN : Cast(id, side)' \in [Address -> Int]
            <4>1. \A side \in BOOLEAN : Cast(id, side) \in [Address -> Int]
                BY CastType DEF Inv
            <4>2. ASSUME NEW side \in BOOLEAN
                  PROVE  Cast(id, side)' \in [Address -> Int]
                <5>1. \A a \in Address :
                          (IF ballot'[id][a] # NoBallot /\ ballot'[id][a].support = side
                                          THEN ballot'[id][a].weight ELSE 0) \in Int
                    <6> TAKE a \in Address
                    <6>1. ballot'[id][a] \in Ballot \cup {NoBallot}
                        BY <1>6
                    <6> QED BY <6>1, Constants DEF Ballot
                <5> QED BY <5>1 DEF Cast
            <4> QED BY <4>1, <4>2
        <3>3. \A side \in BOOLEAN,
                  a \in Address : a # voter => Cast(id, side)'[a] = Cast(id, side)[a]
            BY <1>6 DEF Cast
        <3>4. Cast(id, TRUE)[voter] = 0 /\ Cast(id, FALSE)[voter] = 0
            BY <1>1 DEF Cast
        <3>5. /\ Cast(id, TRUE)'[voter] = IF support = TRUE THEN w ELSE 0
              /\ Cast(id, FALSE)'[voter] = IF support = FALSE THEN w ELSE 0
            BY <1>4, <1>6 DEF Cast
        <3>k. Cast(k, TRUE)' = Cast(id, TRUE)' /\ Cast(k, FALSE)' = Cast(id, FALSE)'
            BY <2>2 DEF Cast
        <3>w. w \in Int /\ w >= 0 /\ 0 + w = w
            BY <1>1, <1>2
        <3>6. CASE support = TRUE
            <4>0. Cast(id, TRUE)'[voter] = w /\ Cast(id, FALSE)'[voter] = 0
                BY <3>5, <3>6
            <4>1. SumFunction(Cast(id, TRUE)') = p.votes_for + w
                <5>1. PICK f, g : f = Cast(id, TRUE) /\ g = Cast(id, TRUE)'
                    OBVIOUS
                <5>2. /\ f \in [Address -> Int] /\ g \in [Address -> Int] /\ w \in Int
                      /\ g[voter] = f[voter] + w /\ \A a \in Address : a # voter => g[a] = f[a]
                    BY <3>2, <3>3, <3>4, <3>w, <4>0, <5>1
                <5> HIDE DEF p, w
                <5>3. SumFunction(g) = SumFunction(f) + w
                    BY <5>2, SumShifts
                <5> QED BY <3>1, <5>1, <5>3
            <4>2. SumFunction(Cast(id, FALSE)') = p.votes_against
                <5>1. \A a \in Address : Cast(id, FALSE)'[a] = Cast(id, FALSE)[a]
                    BY <3>3, <3>4, <4>0
                <5> QED BY <3>1, <3>2, <5>1, SameSum
            <4>3. q.votes_for = p.votes_for + w /\ q.votes_against = p.votes_against
                BY <1>2, <1>3, <3>6
            <4> QED BY <1>5, <2>2, <3>k, <4>1, <4>2, <4>3
        <3>7. CASE support = FALSE
            <4>0. Cast(id, TRUE)'[voter] = 0 /\ Cast(id, FALSE)'[voter] = w
                BY <3>5, <3>7
            <4>1. SumFunction(Cast(id, FALSE)') = p.votes_against + w
                <5>1. PICK f, g : f = Cast(id, FALSE) /\ g = Cast(id, FALSE)'
                    OBVIOUS
                <5>2. /\ f \in [Address -> Int] /\ g \in [Address -> Int] /\ w \in Int
                      /\ g[voter] = f[voter] + w /\ \A a \in Address : a # voter => g[a] = f[a]
                    BY <3>2, <3>3, <3>4, <3>w, <4>0, <5>1
                <5> HIDE DEF p, w
                <5>3. SumFunction(g) = SumFunction(f) + w
                    BY <5>2, SumShifts
                <5> QED BY <3>1, <5>1, <5>3
            <4>2. SumFunction(Cast(id, TRUE)') = p.votes_for
                <5>1. \A a \in Address : Cast(id, TRUE)'[a] = Cast(id, TRUE)[a]
                    BY <3>3, <3>4, <4>0
                <5> QED BY <3>1, <3>2, <5>1, SameSum
            <4>3. q.votes_for = p.votes_for /\ q.votes_against = p.votes_against + w
                BY <1>2, <1>3, <3>7
            <4> QED BY <1>5, <2>2, <3>k, <4>1, <4>2, <4>3
        <3> QED BY <3>6, <3>7
    <2> QED BY <2>1, <2>2
<1>9. QueuedHasPassed'
    BY <1>3, <1>5 DEF Inv, DecidedByBallots, QueuedHasPassed, quorum_threshold
<1>10. VotesPrecedeExecution'
    BY <1>1, <1>3, <1>5, <1>6 DEF Inv, DecidedByBallots, VotesPrecedeExecution
<1>11. BallotsInOrder'
    <2> SUFFICES ASSUME NEW k \in Ids, NEW a \in Address, ballot'[k][a] # NoBallot
                 PROVE  /\ proposal'[k] # NoProposal
                        /\ ballot'[k][a].at <= sequence'
                        /\ proposal'[k].queued =>
                               ballot'[k][a].at + TIMELOCK_DELAY <= proposal'[k].execute_after
        BY DEF BallotsInOrder
    <2>1. CASE k = id /\ a = voter
        BY <1>1, <1>2, <1>3, <1>4, <1>5, <1>6, <2>1
    <2>2. CASE k = id /\ a # voter
        BY <1>1, <1>3, <1>5, <1>6, <2>2 DEF Inv, BallotsInOrder
    <2>3. CASE k # id
        BY <1>1, <1>5, <1>6, <2>3 DEF Inv, BallotsInOrder
    <2> QED BY <2>1, <2>2, <2>3
<1> QED BY <1>7, <1>8, <1>9, <1>10, <1>11 DEF Inv, DecidedByBallots

\* The timelock is measured from now, and every ballot lies in the past.
LEMMA QueueKeeps ==
    ASSUME Inv, NEW id \in Ids, queue(id)
    PROVE  Inv'
<1> DEFINE p == proposal[id]
           after == sequence + TIMELOCK_DELAY
           q == [p EXCEPT !.queued = TRUE, !.execute_after = after]
<1>1. /\ p # NoProposal /\ ~p.executed /\ p.votes_for > p.votes_against
      /\ p.votes_for + p.votes_against >= quorum_threshold(p)
      /\ after <= U32_MAX /\ UNCHANGED <<tokenVars, nextId, ballot, sequence>>
    BY DEF queue
<1>2. p \in Proposal /\ sequence \in Nat /\ after \in 0..U32_MAX /\ TIMELOCK_DELAY \in Nat
    BY <1>1, StoredProposal, Constants DEF Inv, TypeOK
<1>3. proposal' = [proposal EXCEPT ![id] = q]
    BY <1>2 DEF queue, Inv, TypeOK, Proposal
<1>4. /\ q \in Proposal /\ ~q.executed /\ q.execute_after = after
      /\ q.votes_for = p.votes_for /\ q.votes_against = p.votes_against
      /\ q.snapshot_supply = p.snapshot_supply
    BY <1>1, <1>2 DEF Proposal
<1> HIDE DEF q
<1>5. /\ proposal' \in [Ids -> Proposal \cup {NoProposal}]
      /\ proposal'[id] = q /\ q # NoProposal
      /\ \A k \in Ids : k # id => proposal'[k] = proposal[k]
      /\ \A k \in Ids : proposal'[k] # NoProposal <=> proposal[k] # NoProposal
    BY <1>1, <1>3, <1>4, ReplacedProposal DEF Inv
<1>6. TypeOK'
    BY <1>1, <1>5 DEF Inv, TypeOK, tokenVars
<1>7. TalliesAreBallots'
    <2>1. \A k \in Ids, side \in BOOLEAN : Cast(k, side)' = Cast(k, side)
        BY <1>1 DEF Cast
    <2> QED BY <1>1, <1>4, <1>5, <2>1 DEF Inv, DecidedByBallots, TalliesAreBallots
<1>8. QueuedHasPassed'
    <2>1. quorum_threshold(q) = quorum_threshold(p)
        BY <1>4 DEF quorum_threshold
    <2>2. ASSUME NEW k \in Ids, k # id, proposal'[k] # NoProposal, proposal'[k].queued
          PROVE  /\ proposal'[k].votes_for > proposal'[k].votes_against
                 /\ proposal'[k].votes_for + proposal'[k].votes_against
                        >= quorum_threshold(proposal'[k])
        BY <1>5, <2>2 DEF Inv, DecidedByBallots, QueuedHasPassed
    <2> QED BY <1>1, <1>4, <1>5, <2>1, <2>2 DEF QueuedHasPassed, quorum_threshold
<1>9. VotesPrecedeExecution'
    BY <1>1, <1>4, <1>5 DEF Inv, DecidedByBallots, VotesPrecedeExecution
<1>10. BallotsInOrder'
    <2> SUFFICES ASSUME NEW k \in Ids, NEW a \in Address, ballot[k][a] # NoBallot
                 PROVE  /\ proposal'[k] # NoProposal
                        /\ ballot[k][a].at <= sequence
                        /\ proposal'[k].queued =>
                               ballot[k][a].at + TIMELOCK_DELAY <= proposal'[k].execute_after
        BY <1>1 DEF BallotsInOrder
    <2>1. ballot[k][a].at <= sequence /\ ballot[k][a].at \in Nat /\ proposal[k] # NoProposal
        BY StoredBallot DEF Inv, BallotsInOrder
    <2>2. CASE k = id
        <3>1. ballot[k][a].at + TIMELOCK_DELAY <= after
            BY <1>2, <2>1
        <3> QED BY <1>4, <1>5, <2>1, <2>2, <3>1
    <2>3. CASE k # id
        BY <1>5, <2>1, <2>3 DEF Inv, BallotsInOrder
    <2> QED BY <2>2, <2>3
<1> QED BY <1>6, <1>7, <1>8, <1>9, <1>10 DEF Inv, DecidedByBallots

\* The timelock has run out, so every ballot is at least the delay old.
LEMMA ExecuteKeeps ==
    ASSUME Inv, NEW id \in Ids, execute(id)
    PROVE  Inv'
<1> DEFINE p == proposal[id]
           q == [p EXCEPT !.executed = TRUE]
<1>1. /\ p # NoProposal /\ p.queued /\ sequence >= p.execute_after
      /\ proposal' = [proposal EXCEPT ![id] = q]
      /\ UNCHANGED <<tokenVars, nextId, ballot, sequence>>
    BY DEF execute
<1>2. p \in Proposal /\ p.execute_after \in Nat /\ sequence \in Nat /\ TIMELOCK_DELAY \in Nat
    BY <1>1, StoredProposal, Constants DEF Inv, TypeOK
<1>3. /\ q \in Proposal /\ q.queued /\ q.execute_after = p.execute_after
      /\ q.votes_for = p.votes_for /\ q.votes_against = p.votes_against
      /\ q.snapshot_supply = p.snapshot_supply
    BY <1>1, <1>2 DEF Proposal
<1> HIDE DEF q
<1>4. /\ proposal' \in [Ids -> Proposal \cup {NoProposal}]
      /\ proposal'[id] = q /\ q # NoProposal
      /\ \A k \in Ids : k # id => proposal'[k] = proposal[k]
      /\ \A k \in Ids : proposal'[k] # NoProposal <=> proposal[k] # NoProposal
    BY <1>1, <1>3, ReplacedProposal DEF Inv
<1>5. TypeOK'
    BY <1>1, <1>4 DEF Inv, TypeOK, tokenVars
<1>6. TalliesAreBallots'
    <2>1. \A k \in Ids, side \in BOOLEAN : Cast(k, side)' = Cast(k, side)
        BY <1>1 DEF Cast
    <2>2. ASSUME NEW k \in Ids, proposal'[k] # NoProposal
          PROVE  /\ proposal[k] # NoProposal
                 /\ proposal'[k].votes_for = proposal[k].votes_for
                 /\ proposal'[k].votes_against = proposal[k].votes_against
        BY <1>3, <1>4, <2>2
    <2>3. ASSUME NEW k \in Ids, proposal[k] # NoProposal
          PROVE  /\ SumFunction(Cast(k, TRUE)) = proposal[k].votes_for
                 /\ SumFunction(Cast(k, FALSE)) = proposal[k].votes_against
        BY <2>3 DEF Inv, DecidedByBallots, TalliesAreBallots
    <2>4. ASSUME NEW k \in Ids, proposal'[k] # NoProposal
          PROVE  /\ SumFunction(Cast(k, TRUE)') = proposal'[k].votes_for
                 /\ SumFunction(Cast(k, FALSE)') = proposal'[k].votes_against
        BY <2>1, <2>2, <2>3, <2>4
    <2> QED BY <2>4 DEF TalliesAreBallots
<1>7. QueuedHasPassed'
    <2>1. ASSUME NEW k \in Ids, proposal'[k] # NoProposal, proposal'[k].queued
          PROVE  /\ proposal'[k].votes_for > proposal'[k].votes_against
                 /\ proposal'[k].votes_for + proposal'[k].votes_against
                        >= quorum_threshold(proposal'[k])
        <3>1. /\ proposal[k] # NoProposal /\ proposal[k].queued
              /\ proposal'[k].votes_for = proposal[k].votes_for
              /\ proposal'[k].votes_against = proposal[k].votes_against
              /\ proposal'[k].snapshot_supply = proposal[k].snapshot_supply
            BY <1>1, <1>3, <1>4, <2>1
        <3>2. quorum_threshold(proposal'[k]) = quorum_threshold(proposal[k])
            BY <3>1 DEF quorum_threshold
        <3> QED BY <3>1, <3>2 DEF Inv, DecidedByBallots, QueuedHasPassed
    <2> QED BY <2>1 DEF QueuedHasPassed, quorum_threshold
<1>8. VotesPrecedeExecution'
    <2> SUFFICES ASSUME NEW k \in Ids, proposal'[k] # NoProposal, proposal'[k].executed,
                        NEW a \in Address, ballot[k][a] # NoBallot
                 PROVE  ballot[k][a].at + TIMELOCK_DELAY <= sequence
        BY <1>1 DEF VotesPrecedeExecution
    <2>1. CASE k = id
        <3>1. ballot[k][a].at + TIMELOCK_DELAY <= p.execute_after /\ ballot[k][a].at \in Nat
            BY <1>1, <2>1, StoredBallot DEF Inv, BallotsInOrder
        <3> QED BY <1>1, <1>2, <3>1
    <2>2. CASE k # id
        BY <1>4, <2>2 DEF Inv, DecidedByBallots, VotesPrecedeExecution
    <2> QED BY <2>1, <2>2
<1>9. BallotsInOrder'
    BY <1>1, <1>3, <1>4 DEF Inv, BallotsInOrder
<1> QED BY <1>5, <1>6, <1>7, <1>8, <1>9 DEF Inv, DecidedByBallots

LEMMA StepKeeps == Inv /\ [Next]_vars => Inv'
<1> SUFFICES ASSUME Inv, [Next]_vars PROVE Inv'
    OBVIOUS
<1>1. ASSUME NEW a \in Address, NEW n \in Amounts, mint(a, n) PROVE Inv'
    BY <1>1, MintKeeps
<1>2. ASSUME NEW a \in Address, create_proposal(a) PROVE Inv'
    BY <1>2, CreateKeeps
<1>3. ASSUME NEW a \in Address, NEW id \in Ids, NEW s \in BOOLEAN, vote(a, id, s) PROVE Inv'
    BY <1>3, VoteKeeps
<1>4. ASSUME NEW id \in Ids, queue(id) PROVE Inv'
    BY <1>4, QueueKeeps
<1>5. ASSUME NEW id \in Ids, execute(id) PROVE Inv'
    BY <1>5, ExecuteKeeps
<1>6. CASE CloseLedger
    BY <1>6, CloseLedgerKeeps
<1>7. CASE UNCHANGED vars
    <2>1. TypeOK' /\ sequence' >= sequence
        BY <1>7, Constants DEF Inv, TypeOK, vars, tokenVars
    <2> QED BY <1>7, <2>1, OtherKeeps DEF vars
<1> QED BY <1>1, <1>2, <1>3, <1>4, <1>5, <1>6, <1>7 DEF Next

LEMMA InvHolds == Spec => []Inv
BY InitHolds, StepKeeps, PTL DEF Spec

-----------------------------------------------------------------------------
\* Every reachable state stores values of the declared types, and a proposal
\* exists for exactly the ids handed out.
THEOREM TypeCorrect == Spec => []TypeOK
<1>1. Inv => TypeOK
    BY DEF Inv
<1> QED BY <1>1, InvHolds, PTL

\* Whatever is minted, voted and queued in whatever order: the tallies are
\* the sums of the ballots, what is queued has a majority and the quorum, and
\* what is executed was voted on at least the timelock ago.
THEOREM BallotsDecide == Spec => []DecidedByBallots
<1>1. Inv => DecidedByBallots
    BY DEF Inv
<1> QED BY <1>1, InvHolds, PTL

\* What a step leaves in place of ballots and proposals.
FinalStep ==
    \A id \in Ids :
        /\ \A a \in Address : ballot[id][a] # NoBallot => ballot'[id][a] = ballot[id][a]
        /\ proposal[id] # NoProposal =>
               /\ proposal'[id].snapshot_supply = proposal[id].snapshot_supply
               /\ proposal[id].queued => proposal'[id].queued
               /\ proposal[id].executed => proposal'[id] = proposal[id]

LEMMA StepIsFinal ==
    ASSUME TypeOK, Next
    PROVE  FinalStep
<1>0. /\ proposal \in [Ids -> Proposal \cup {NoProposal}]
      /\ ballot \in [Ids -> [Address -> Ballot \cup {NoBallot}]]
    BY DEF TypeOK
<1>1. ASSUME UNCHANGED <<proposal, ballot>>
      PROVE  FinalStep
    BY <1>1 DEF FinalStep
<1>2. ASSUME NEW a \in Address, create_proposal(a) PROVE FinalStep
    <2>1. nextId \in Ids /\ proposal[nextId] = NoProposal
        BY <1>2, Constants DEF TypeOK, create_proposal, Ids
    <2> QED BY <1>0, <1>2, <2>1 DEF create_proposal, FinalStep
<1>3. ASSUME NEW a \in Address, NEW k \in Ids, NEW s \in BOOLEAN, vote(a, k, s) PROVE FinalStep
    <2>1. /\ \A id \in Ids,
             x \in Address : ballot[id][x] # NoBallot => ballot'[id][x] = ballot[id][x]
        BY <1>0, <1>3 DEF vote
    <2>2. /\ proposal[k] \in Proposal /\ ~proposal[k].executed /\ ~proposal[k].queued
          /\ proposal'[k] = tallied(proposal[k], s, balance[a])
          /\ \A id \in Ids : id # k => proposal'[id] = proposal[id]
        BY <1>0, <1>3 DEF vote
    <2>3. proposal'[k].snapshot_supply = proposal[k].snapshot_supply
        BY <2>2 DEF tallied, Proposal
    <2> QED BY <2>1, <2>2, <2>3 DEF FinalStep
<1>4. ASSUME NEW k \in Ids, queue(k) PROVE FinalStep
    <2>1. /\ proposal[k] \in Proposal /\ ~proposal[k].executed /\ ~proposal[k].queued
          /\ ballot' = ballot
          /\ proposal'[k] = [proposal[k] EXCEPT !.queued = TRUE,
                                                !.execute_after = sequence + TIMELOCK_DELAY]
          /\ \A id \in Ids : id # k => proposal'[id] = proposal[id]
        BY <1>0, <1>4 DEF queue
    <2>2. proposal'[k].snapshot_supply = proposal[k].snapshot_supply
        BY <2>1 DEF Proposal
    <2> QED BY <2>1, <2>2 DEF FinalStep
<1>5. ASSUME NEW k \in Ids, execute(k) PROVE FinalStep
    <2>1. /\ proposal[k] \in Proposal /\ ~proposal[k].executed
          /\ ballot' = ballot
          /\ proposal'[k] = [proposal[k] EXCEPT !.executed = TRUE]
          /\ \A id \in Ids : id # k => proposal'[id] = proposal[id]
        BY <1>0, <1>5 DEF execute
    <2>2. /\ proposal'[k].snapshot_supply = proposal[k].snapshot_supply
          /\ proposal'[k].queued = proposal[k].queued
        BY <2>1 DEF Proposal
    <2> QED BY <2>1, <2>2 DEF FinalStep
<1> QED BY <1>1, <1>2, <1>3, <1>4, <1>5 DEF Next, mint, CloseLedger

\* A ballot, a snapshot and a decision are never taken back.
THEOREM VotesStayFinal == Spec => VotesAreFinal
<1>1. TypeOK /\ [Next]_vars => [FinalStep]_vars
    BY StepIsFinal
<1>2. Spec => [][FinalStep]_vars
    BY <1>1, TypeCorrect, PTL DEF Spec
<1> QED BY <1>2, PTL DEF FinalStep, VotesAreFinal

-----------------------------------------------------------------------------
(* The canonical token.  TypeOK is not inductive alone: that a burn leaves *)
(* the supply non-negative follows from the supply being the sum of the    *)
(* balances, and that this sum fits from TypeOK, so the two go together.   *)

TokenInv == Token!TypeOK /\ Token!SupplyIsSumOfBalances

\* The sum of the token's module is the sum.
LEMMA TokenSum ==
    /\ Token!SupplyIsSumOfBalances <=> SumFunction(held) = issued
    /\ Token!SupplyIsSumOfBalances' <=> SumFunction(held') = issued'
BY Zenon DEF Token!SupplyIsSumOfBalances, Token!SumFunction, Token!SumFunctionOnSet,
       Token!FoldFunctionOnSet, Token!MapThenFoldSet, SumFunction, SumFunctionOnSet,
       FoldFunctionOnSet, MapThenFoldSet

LEMMA TokenInitially == Token!Init => TokenInv
<1> SUFFICES ASSUME Token!Init PROVE TokenInv
    OBVIOUS
<1>1. Token!TypeOK
    BY Constants DEF Token!Init, Token!TypeOK
<1>2. Token!SupplyIsSumOfBalances
    BY SumOfZeros, TokenSum DEF Token!Init
<1> QED BY <1>1, <1>2 DEF TokenInv

\* The balances an invocation starts from.
LEMMA Balances ==
    ASSUME TokenInv
    PROVE  /\ held \in [Address -> 0..I128_MAX] /\ held \in [Address -> Int]
           /\ replayed \in [Address -> Int] /\ issued \in 0..I128_MAX
           /\ \A a \in Address : held[a] \in 0..I128_MAX /\ held[a] <= issued
           /\ I128_MIN \in Int /\ I128_MAX \in Int /\ I128_MAX > 0
           /\ \A n \in Amounts : n \in Int
<1>1. /\ held \in [Address -> 0..I128_MAX] /\ held \in [Address -> Int]
      /\ replayed \in [Address -> Int] /\ issued \in 0..I128_MAX
    BY Constants DEF TokenInv, Token!TypeOK
<1>2. \A a \in Address : held[a] <= issued
    <2>1. held \in [Address -> Nat]
        BY <1>1, Constants
    <2> QED BY <2>1, SummandWithinSum, TokenSum DEF TokenInv
<1> QED BY <1>1, <1>2, Constants

LEMMA TokenMint ==
    ASSUME TokenInv, NEW auth \in Address, NEW to \in Address, NEW n \in Amounts,
        Token!mint(auth, to, n)
    PROVE  TokenInv'
<1>1. /\ n \in Int /\ n > 0 /\ held[to] + n <= I128_MAX /\ issued + n <= I128_MAX
      /\ held' = [held EXCEPT ![to] = held[to] + n] /\ issued' = issued + n
      /\ admin' = admin /\ signer' = auth
      /\ replayed' = Token!Replay(replayed, [kind |-> "mint", to |-> to, amount |-> n])
    BY Balances DEF Token!mint, Token!fits_i128, Token!publish
<1>2. held[to] + n \in 0..I128_MAX /\ issued + n \in 0..I128_MAX
    BY <1>1, Balances
<1>3. /\ held' \in [Address -> 0..I128_MAX] /\ held' \in [Address -> Int]
      /\ held'[to] = held[to] + n
      /\ \A x \in Address : x # to => held'[x] = held[x]
    BY <1>1, <1>2, Balances
<1>4. Token!SupplyIsSumOfBalances'
    <2>1. n \in Int /\ held \in [Address -> Int]
        BY <1>1, Balances
    <2>2. SumFunction(held') = SumFunction(held) + n
        BY <1>3, <2>1, SumShifts
    <2> QED BY <1>1, <2>2, TokenSum DEF TokenInv
<1>5. replayed' \in [Address -> Int]
    BY <1>1, Balances DEF Token!Replay
<1>6. Token!TypeOK'
    BY <1>1, <1>2, <1>3, <1>5 DEF TokenInv, Token!TypeOK
<1> QED BY <1>4, <1>6 DEF TokenInv

\* That the supply does not fall below zero is where the sum is needed.
LEMMA TokenBurn ==
    ASSUME TokenInv, NEW auth \in Address, NEW from \in Address, NEW n \in Amounts,
        Token!burn(auth, from, n)
    PROVE  TokenInv'
<1>1. /\ n \in Int /\ n > 0 /\ held[from] - n >= 0
      /\ held' = [held EXCEPT ![from] = held[from] - n] /\ issued' = issued - n
      /\ admin' = admin /\ signer' = auth
      /\ replayed' = Token!Replay(replayed, [kind |-> "burn", from |-> from, amount |-> n])
    BY Balances DEF Token!burn, Token!fits_i128, Token!publish
<1>2. /\ held[from] - n \in 0..I128_MAX /\ issued - n \in 0..I128_MAX
      /\ -n \in Int /\ held[from] - n = held[from] + (-n)
      /\ issued - n = issued + (-n) /\ issued + (-n) <= I128_MAX
    BY <1>1, Balances
<1>3. /\ held' \in [Address -> 0..I128_MAX] /\ held' \in [Address -> Int]
      /\ held'[from] = held[from] + (-n) /\ held'[from] >= 0
      /\ \A x \in Address : x # from => held'[x] = held[x]
    BY <1>1, <1>2, Balances
<1>4. Token!SupplyIsSumOfBalances'
    <2>1. SumFunction(held') = SumFunction(held) + (-n)
        BY <1>2, <1>3, Balances, SumShifts
    <2> QED BY <1>1, <1>2, <2>1, TokenSum DEF TokenInv
<1>5. replayed' \in [Address -> Int]
    BY <1>1, Balances DEF Token!Replay
<1>6. Token!TypeOK'
    BY <1>1, <1>2, <1>3, <1>5 DEF TokenInv, Token!TypeOK
<1> QED BY <1>4, <1>6 DEF TokenInv

\* The sum moves down by n at the sender and up by n at the receiver.
LEMMA TokenTransfer ==
    ASSUME TokenInv, NEW auth \in Address, NEW from \in Address, NEW to \in Address,
        NEW n \in Amounts,
           Token!transfer(auth, from, to, n)
    PROVE  TokenInv'
<1>1. /\ n \in Int /\ n > 0 /\ from # to /\ held[from] - n >= 0 /\ held[to] + n <= I128_MAX
      /\ held' = [held EXCEPT ![from] = held[from] - n, ![to] = held[to] + n]
      /\ issued' = issued /\ admin' = admin /\ signer' = auth
      /\ replayed' = Token!Replay(replayed,
                                  [kind |-> "transfer", from |-> from, to |-> to, amount |-> n])
    BY Balances DEF Token!transfer, Token!fits_i128, Token!publish
<1>2. /\ held[from] - n \in 0..I128_MAX /\ held[to] + n \in 0..I128_MAX
      /\ -n \in Int /\ held[from] - n = held[from] + (-n)
      /\ issued + (-n) \in Int /\ issued + (-n) <= I128_MAX
      /\ (issued + (-n)) + n = issued /\ issued <= I128_MAX
    BY <1>1, Balances
<1>3. /\ held' \in [Address -> 0..I128_MAX] /\ held' \in [Address -> Int]
      /\ held'[from] = held[from] + (-n) /\ held'[to] = held[to] + n
      /\ \A x \in Address : x # from /\ x # to => held'[x] = held[x]
    BY <1>1, <1>2, Balances
<1> DEFINE b == [held EXCEPT ![from] = held[from] + (-n)]
<1>4. /\ b \in [Address -> Int] /\ b[from] = held[from] + (-n) /\ b[from] >= 0
      /\ \A x \in Address : x # from => b[x] = held[x]
    BY <1>1, <1>2, Balances
<1> HIDE DEF b
<1>5. SumFunction(b) = SumFunction(held) + (-n)
    BY <1>2, <1>4, Balances, SumShifts
<1>6. Token!SupplyIsSumOfBalances'
    <2>1. held'[to] = b[to] + n /\ \A x \in Address : x # to => held'[x] = b[x]
        BY <1>1, <1>3, <1>4
    <2>2. SumFunction(held') = SumFunction(b) + n
        <3>1. n \in Int /\ b \in [Address -> Int] /\ held' \in [Address -> Int]
            BY <1>1, <1>3, <1>4
        <3> QED BY <2>1, <3>1, SumShifts
    <2>3. SumFunction(held) = issued
        BY TokenSum DEF TokenInv
    <2> QED BY <1>1, <1>2, <1>5, <2>2, <2>3, TokenSum
<1>7. replayed' \in [Address -> Int]
    <2>1. PICK paid : paid = [replayed EXCEPT ![from] = @ - n]
        OBVIOUS
    <2>2. replayed' = [paid EXCEPT ![to] = @ + n]
        BY <1>1, <2>1 DEF Token!Replay
    <2>3. paid \in [Address -> Int]
        BY <1>1, <2>1, Balances
    <2>4. paid[to] + n \in Int
        BY <1>1, <2>3
    <2> QED BY <2>2, <2>3, <2>4
<1>8. Token!TypeOK'
    BY <1>1, <1>3, <1>7 DEF TokenInv, Token!TypeOK
<1> QED BY <1>6, <1>8 DEF TokenInv

LEMMA TokenKept == TokenInv /\ [Token!Next]_(Token!vars) => TokenInv'
<1> SUFFICES ASSUME TokenInv, [Token!Next]_(Token!vars) PROVE TokenInv'
    OBVIOUS
<1>1. ASSUME NEW auth \in Address, NEW a \in Address, Token!initialize(auth, a) PROVE TokenInv'
    BY <1>1 DEF TokenInv, Token!TypeOK, Token!SupplyIsSumOfBalances, Token!initialize
<1>2. ASSUME NEW auth \in Address, NEW to \in Address, NEW n \in Amounts, Token!mint(auth, to, n)
      PROVE  TokenInv'
    BY <1>2, TokenMint
<1>3. ASSUME NEW auth \in Address, NEW from \in Address, NEW n \in Amounts,
          Token!burn(auth, from, n)
      PROVE  TokenInv'
    BY <1>3, TokenBurn
<1>4. ASSUME NEW auth \in Address, NEW from \in Address, NEW to \in Address, NEW n \in Amounts,
             Token!transfer(auth, from, to, n)
      PROVE  TokenInv'
    BY <1>4, TokenTransfer
<1>5. CASE UNCHANGED Token!vars
    BY <1>5 DEF TokenInv, Token!TypeOK, Token!SupplyIsSumOfBalances, Token!vars
<1> QED BY <1>1, <1>2, <1>3, <1>4, <1>5 DEF Token!Next, Token!Invoke

\* Every reachable state stores values of the declared types, and no account
\* is overdrawn although i128 would allow it.
THEOREM TokenTypeCorrect == Token!Spec => []TokenTypeOK
<1>1. TokenInv => TokenTypeOK
    BY DEF TokenInv, TokenTypeOK
<1> QED BY <1>1, TokenInitially, TokenKept, PTL DEF Token!Spec

\* The token never creates or loses a unit outside mint and burn: no account is
\* overdrawn and the supply is the sum of the balances in every reachable
\* state, for any number of accounts and any amounts.
THEOREM SupplyConserved == Token!Spec => [](TokenTypeOK /\ SupplyIsSumOfBalances)
<1>1. TokenInv => TokenTypeOK /\ SupplyIsSumOfBalances
    BY DEF TokenInv, TokenTypeOK, SupplyIsSumOfBalances
<1> QED BY <1>1, TokenInitially, TokenKept, PTL DEF Token!Spec

\* Replaying the events of the invocations gives the balances.
THEOREM EventsAreFaithful == Token!Spec => []EventsTellTheBalances
<1>1. Token!Init => EventsTellTheBalances
    BY DEF Token!Init, EventsTellTheBalances, Token!EventsTellTheBalances
<1>2. TokenInv /\ EventsTellTheBalances /\ [Token!Next]_(Token!vars) => EventsTellTheBalances'
    <2> SUFFICES ASSUME Token!TypeOK, replayed = held, [Token!Next]_(Token!vars)
            PROVE replayed' = held'
        BY DEF TokenInv, EventsTellTheBalances, Token!EventsTellTheBalances
    <2>1. ASSUME NEW auth \in Address, NEW a \in Address, NEW n \in Amounts,
              Token!mint(auth, a, n) \/ Token!burn(auth, a, n)
          PROVE  replayed' = held'
        BY <2>1 DEF Token!mint, Token!burn, Token!publish, Token!Replay
    <2>2. ASSUME NEW auth \in Address, NEW a \in Address, NEW b \in Address, NEW n \in Amounts,
                 Token!transfer(auth, a, b, n)
          PROVE  replayed' = held'
        BY <2>2 DEF Token!transfer, Token!publish, Token!Replay, Token!TypeOK
    <2> QED BY <2>1, <2>2 DEF Token!Next, Token!Invoke, Token!initialize, Token!vars
<1> QED BY <1>1, <1>2, TokenInitially, TokenKept, PTL DEF Token!Spec

\* Tokens move only by the holder's signature and are created only by the
\* admin's.
THEOREM OnlyByConsent == Token!Spec => Consent
<1> DEFINE Agreed ==
        /\ \A a \in Address : held'[a] < held[a] => signer' = a
        /\ issued' > issued => admin # NoAddress /\ signer' = admin
<1>1. TokenInv /\ [Token!Next]_(Token!vars) => [Agreed]_(Token!vars)
    <2> SUFFICES ASSUME TokenInv, Token!Next PROVE Agreed
        OBVIOUS
    <2>0. /\ Token!TypeOK /\ \A a \in Address : held[a] \in Int
          /\ issued \in Int /\ \A n \in Amounts : n \in Int
        BY Constants DEF TokenInv, Token!TypeOK
    <2>1. ASSUME NEW auth \in Address, NEW a \in Address, Token!initialize(auth, a) PROVE Agreed
        BY <2>0, <2>1 DEF Token!initialize
    <2>2. ASSUME NEW auth \in Address, NEW a \in Address, NEW n \in Amounts, Token!mint(auth, a, n)
              PROVE Agreed
        BY <2>0, <2>2 DEF Token!mint, Token!TypeOK
    <2>3. ASSUME NEW auth \in Address, NEW a \in Address, NEW n \in Amounts, Token!burn(auth, a, n)
              PROVE Agreed
        BY <2>0, <2>3 DEF Token!burn, Token!TypeOK
    <2>4. ASSUME NEW auth \in Address, NEW a \in Address, NEW b \in Address, NEW n \in Amounts,
                 Token!transfer(auth, a, b, n)
          PROVE  Agreed
        BY <2>0, <2>4 DEF Token!transfer, Token!TypeOK
    <2> QED BY <2>1, <2>2, <2>3, <2>4 DEF Token!Next, Token!Invoke
<1> QED BY <1>1, TokenInitially, TokenKept, PTL DEF Token!Spec, Consent, Token!Consent
=============================================================================
