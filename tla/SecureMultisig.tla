--------------------------- MODULE SecureMultisig ---------------------------
(***************************************************************************)
(* The M-of-N multisig with ledger-sequence expiry                         *)
(* (secure/secure_multisig/src/lib.rs).  One action is one invocation;     *)
(* a panic rolls it back, so it is a step that is not taken.               *)
(***************************************************************************)
EXTENDS Integers, FiniteSets, SequencesExt

CONSTANTS
    Address,      \* accounts, signers and strangers
    Hashes,       \* action hashes
    SignerLists,  \* lists a deployer may pass to initialize
    Ttls,         \* values of ttl_ledgers a deployer may pass
    NoProposal, NoAddress,
    U32_MAX       \* largest u32: ledger sequences, thresholds and sums

ASSUME MultisigAssumption ==
    /\ IsFiniteSet(Address) /\ NoAddress \notin Address
    /\ U32_MAX \in Nat
    /\ SignerLists \subseteq Seq(Address)
    /\ \A q \in SignerLists : Len(q) <= U32_MAX
    /\ Ttls \subseteq 0..U32_MAX

Proposal == [created_at : 0..U32_MAX, approvals : Seq(Address), executed : BOOLEAN]

ASSUME NoProposalAssumption == NoProposal \notin Proposal

VARIABLES
    signers,     \* DataKey::Signers, <<>> until initialize
    threshold,   \* DataKey::Threshold
    ttl,         \* DataKey::TtlLedgers
    proposal,    \* DataKey::Proposal(hash)
    sequence,    \* env.ledger().sequence()
    signer,      \* who authorised the last invocation, NoAddress if nobody had to
    executions   \* hash -> "executed" events published for it

config == <<signers, threshold, ttl>>
vars == <<config, proposal, sequence, signer, executions>>

Init ==
    /\ signers = <<>>
    /\ threshold = 0
    /\ ttl = 0
    /\ proposal = [h \in Hashes |-> NoProposal]
    /\ sequence = 0
    /\ signer = NoAddress
    /\ executions = [h \in Hashes |-> 0]

\* Mutant: the threshold is not compared with the number of signers.
initialize_unchecked(list, m, t) ==
    /\ signers = <<>>
    /\ m > 0
    /\ signers' = list
    /\ threshold' = m
    /\ ttl' = t
    /\ signer' = NoAddress
    /\ UNCHANGED <<proposal, sequence, executions>>

\* An empty list never passes the threshold test, so <<>> means absent.
initialize(list, m, t) ==
    /\ signers = <<>>
    /\ m > 0 /\ m <= Len(list)
    /\ signers' = list
    /\ threshold' = m
    /\ ttl' = t
    /\ signer' = NoAddress
    /\ UNCHANGED <<proposal, sequence, executions>>

assert_signer(a) == Contains(signers, a)

\* Mutant: the lifetime is never looked at.
assert_exists(p) == TRUE

\* created_at + ttl is checked arithmetic: an overflow panics as well.
assert_not_expired(p) ==
    /\ p.created_at + ttl <= U32_MAX
    /\ sequence <= p.created_at + ttl

propose_action(a, h) ==
    /\ assert_signer(a)
    /\ proposal[h] = NoProposal
    /\ proposal' = [proposal EXCEPT ![h] =
                        [created_at |-> sequence, approvals |-> <<>>, executed |-> FALSE]]
    /\ signer' = a
    /\ UNCHANGED <<config, sequence, executions>>

\* Mutant: a signer may approve the same proposal again.
approve_again(a, h) ==
    /\ assert_signer(a)
    /\ proposal[h] # NoProposal
    /\ assert_not_expired(proposal[h])
    /\ ~proposal[h].executed
    /\ Len(proposal[h].approvals) < Cardinality(Address) + 1
    /\ proposal' = [proposal EXCEPT ![h].approvals = Append(@, a)]
    /\ signer' = a
    /\ UNCHANGED <<config, sequence, executions>>

approve(a, h) ==
    /\ assert_signer(a)
    /\ proposal[h] # NoProposal
    /\ assert_not_expired(proposal[h])
    /\ ~proposal[h].executed
    /\ ~Contains(proposal[h].approvals, a)
    /\ proposal' = [proposal EXCEPT ![h].approvals = Append(@, a)]
    /\ signer' = a
    /\ UNCHANGED <<config, sequence, executions>>

\* Mutant: the flag is written but not read.
execute_again(h) ==
    /\ proposal[h] # NoProposal
    /\ assert_not_expired(proposal[h])
    /\ executions[h] < 2
    /\ Len(proposal[h].approvals) >= threshold
    /\ proposal' = [proposal EXCEPT ![h].executed = TRUE]
    /\ executions' = [executions EXCEPT ![h] = @ + 1]
    /\ signer' = NoAddress
    /\ UNCHANGED <<config, sequence>>

\* Mutant: one approval too few is enough.
execute_early(h) ==
    /\ proposal[h] # NoProposal
    /\ assert_not_expired(proposal[h])
    /\ ~proposal[h].executed
    /\ Len(proposal[h].approvals) + 1 >= threshold
    /\ proposal' = [proposal EXCEPT ![h].executed = TRUE]
    /\ executions' = [executions EXCEPT ![h] = @ + 1]
    /\ signer' = NoAddress
    /\ UNCHANGED <<config, sequence>>

\* Anyone may call it.  A proposal exists only after initialize, so the
\* threshold is present.
execute(h) ==
    /\ proposal[h] # NoProposal
    /\ assert_not_expired(proposal[h])
    /\ ~proposal[h].executed
    /\ Len(proposal[h].approvals) >= threshold
    /\ proposal' = [proposal EXCEPT ![h].executed = TRUE]
    /\ executions' = [executions EXCEPT ![h] = @ + 1]
    /\ signer' = NoAddress
    /\ UNCHANGED <<config, sequence>>

CloseLedger ==
    /\ sequence < U32_MAX
    /\ sequence' = sequence + 1
    /\ UNCHANGED <<config, proposal, signer, executions>>

Next ==
    \/ \E list \in SignerLists, m \in 0..U32_MAX, t \in Ttls : initialize(list, m, t)
    \/ \E a \in Address, h \in Hashes : propose_action(a, h) \/ approve(a, h)
    \/ \E h \in Hashes : execute(h)
    \/ CloseLedger

Spec == Init /\ [][Next]_vars

get_proposal(h) == proposal[h]

-----------------------------------------------------------------------------
\* Every storage key holds a value of its Rust type, and a stored threshold
\* lies between 1 and the length of the signer list.
TypeOK ==
    /\ signers \in Seq(Address)
    /\ threshold \in 0..U32_MAX
    /\ signers # <<>> => threshold \in 1..Len(signers)
    /\ ttl \in 0..U32_MAX
    /\ proposal \in [Hashes -> Proposal \cup {NoProposal}]
    /\ sequence \in 0..U32_MAX
    /\ signer \in Address \cup {NoAddress}
    /\ executions \in [Hashes -> Nat]

\* "Each signer can approve a proposal at most once" and only signers can:
\* the recorded approvals are distinct members of the signer list.
ApprovalsGenuine ==
    \A h \in Hashes : get_proposal(h) # NoProposal =>
        LET q == get_proposal(h).approvals
        IN  /\ \A i \in 1..Len(q) : Contains(signers, q[i])
            /\ \A i, j \in 1..Len(q) : q[i] = q[j] => i = j

\* An executed proposal carries the approvals of at least M different
\* signers, whatever was approved, expired or closed in between.
Approvers(h) == {a \in Address : Contains(proposal[h].approvals, a)}

ExecutedByQuorum ==
    \A h \in Hashes : (proposal[h] # NoProposal /\ proposal[h].executed) =>
        Cardinality(Approvers(h)) >= threshold

\* "A proposal can only be executed once": execution is announced exactly
\* once for an executed proposal and never for another.
ExecutedOnce ==
    \A h \in Hashes :
        executions[h] = IF proposal[h] # NoProposal /\ proposal[h].executed THEN 1 ELSE 0

\* Execution happens once, and by genuine approvals of a quorum.
ExecutedOnceByQuorum == ApprovalsGenuine /\ ExecutedByQuorum /\ ExecutedOnce

\* "Proposals expire", and expiry is final: a stored proposal changes only
\* within ttl_ledgers of its creation, then by one approval of the signer or
\* by its execution; after execution or expiry it never changes again, so
\* approvals of an earlier life are never replayed.
ProposalLifecycle ==
    [][\A h \in Hashes : (proposal[h] # NoProposal /\ proposal'[h] # proposal[h]) =>
        /\ sequence <= proposal[h].created_at + ttl
        /\ ~proposal[h].executed
        /\ \/ proposal'[h] = [proposal[h] EXCEPT !.approvals = Append(@, signer')]
           \/ proposal'[h] = [proposal[h] EXCEPT !.executed = TRUE]]_vars
=============================================================================
