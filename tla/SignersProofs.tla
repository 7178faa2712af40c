---------------------------- MODULE SignersProofs ----------------------------
(***************************************************************************)
(* Theorems about the multisig and the rotation of an admin, for every set *)
(* of accounts, every signer list (repeated names included), threshold and *)
(* lifetime.                                                               *)
(*                                                                         *)
(* ExecutedOnceByQuorum is inductive once it is known that nothing is      *)
(* proposed before initialize: otherwise initialize could replace the list *)
(* and the threshold under a proposal that was judged by the old ones.     *)
(***************************************************************************)
EXTENDS Signers, TLAPS, FiniteSetTheorems, SequenceTheorems

\* Proposals exist only once the contract has signers.
ProposedAfterInitialize ==
    signers = <<>> => \A h \in Hashes : proposal[h] = NoProposal

Inv == TypeOK /\ ProposedAfterInitialize /\ ExecutedOnceByQuorum

-----------------------------------------------------------------------------
\* A list without repetition has at most as many entries as there are
\* accounts in it: counting approvals counts approvers.
LEMMA DistinctAreCounted ==
    ASSUME NEW q \in Seq(Address), \A i, j \in 1..Len(q) : q[i] = q[j] => i = j,
           NEW S, S = {a \in Address : Contains(q, a)}
    PROVE  Cardinality(S) \in Nat /\ Len(q) <= Cardinality(S)
<1>1. IsFiniteSet(S)
    BY MultisigAssumption, FS_Subset
<1>2. Len(q) \in Nat /\ \A i \in 1..Len(q) : q[i] \in S
    BY DEF Contains
<1> DEFINE f == [i \in 1..Len(q) |-> q[i]]
<1>3. f \in Injection(1..Len(q), S)
    BY <1>2 DEF Injection, IsInjective
<1>4. Cardinality(1..Len(q)) <= Cardinality(S)
    <2> HIDE DEF f
    <2> QED BY <1>1, <1>3, FS_Injection
<1>5. Cardinality(1..Len(q)) = Len(q)
    <2>1. \A n \in Nat : Cardinality(1..n) = n
        <3> TAKE n \in Nat
        <3>1. Cardinality(1..n) = IF 1 > n THEN 0 ELSE n - 1 + 1
            BY FS_Interval
        <3> QED BY <3>1
    <2> QED BY <1>2, <2>1
<1> QED BY <1>1, <1>4, <1>5, FS_CardinalityType

\* A proposal that exists is a record, and is not the absent one.
LEMMA StoredProposal ==
    ASSUME TypeOK, NEW h \in Hashes, proposal[h] # NoProposal
    PROVE  /\ proposal[h] \in Proposal
           /\ proposal[h].approvals \in Seq(Address)
           /\ proposal[h].executed \in BOOLEAN
           /\ proposal[h].created_at \in 0..U32_MAX
BY DEF TypeOK, Proposal

-----------------------------------------------------------------------------
LEMMA InitHolds == Init => Inv
<1> SUFFICES ASSUME Init PROVE Inv
    OBVIOUS
<1>1. TypeOK
    BY MultisigAssumption DEF Init, TypeOK
<1>2. ProposedAfterInitialize /\ \A h \in Hashes : proposal[h] = NoProposal
    BY DEF Init, ProposedAfterInitialize
<1>3. ExecutedOnceByQuorum
    BY <1>2 DEF Init, ExecutedOnceByQuorum, ApprovalsGenuine, ExecutedByQuorum,
                ExecutedOnce, get_proposal
<1> QED BY <1>1, <1>2, <1>3 DEF Inv

\* The first initialize judges no proposal: there is none.
LEMMA InitializeKeeps ==
    ASSUME Inv, NEW list \in SignerLists, NEW m \in 0..U32_MAX, NEW t \in Ttls,
           initialize(list, m, t)
    PROVE  Inv'
<1>1. /\ list \in Seq(Address) /\ Len(list) <= U32_MAX /\ t \in 0..U32_MAX
      /\ Len(list) \in Nat /\ m > 0 /\ m <= Len(list) /\ U32_MAX \in Nat
    BY MultisigAssumption DEF initialize
<1>2. \A h \in Hashes : proposal'[h] = NoProposal /\ executions'[h] = executions[h]
                         /\ proposal[h] = NoProposal
    BY DEF initialize, Inv, ProposedAfterInitialize
<1>3. TypeOK'
    BY <1>1 DEF Inv, TypeOK, initialize
<1>4. ProposedAfterInitialize'
    BY <1>2 DEF ProposedAfterInitialize
<1>5. (ApprovalsGenuine /\ ExecutedByQuorum)'
    BY <1>2 DEF ApprovalsGenuine, ExecutedByQuorum, get_proposal
<1>6. ExecutedOnce'
    BY <1>2 DEF Inv, ExecutedOnceByQuorum, ExecutedOnce
<1> QED BY <1>3, <1>4, <1>5, <1>6 DEF Inv, ExecutedOnceByQuorum

\* A fresh proposal has no approvals and was not executed.
LEMMA ProposeKeeps ==
    ASSUME Inv, NEW a \in Address, NEW h \in Hashes, propose_action(a, h)
    PROVE  Inv'
<1> DEFINE fresh == [created_at |-> sequence, approvals |-> <<>>, executed |-> FALSE]
<1>1. fresh \in Proposal /\ fresh # NoProposal
    <2>1. sequence \in 0..U32_MAX /\ <<>> \in Seq(Address) /\ FALSE \in BOOLEAN
        BY DEF Inv, TypeOK
    <2>2. fresh \in Proposal
        BY <2>1 DEF Proposal
    <2> QED BY <2>2, NoProposalAssumption
<1>2. /\ proposal' = [proposal EXCEPT ![h] = fresh] /\ proposal[h] = NoProposal
      /\ proposal'[h] = fresh
      /\ \A g \in Hashes : g # h => proposal'[g] = proposal[g]
    BY DEF propose_action, Inv, TypeOK
<1>3. TypeOK'
    BY <1>1, <1>2 DEF Inv, TypeOK, propose_action, config
<1>4. ProposedAfterInitialize'
    BY DEF propose_action, config, assert_signer, Contains, ProposedAfterInitialize
<1>5. ApprovalsGenuine'
    <2> SUFFICES ASSUME NEW g \in Hashes, proposal'[g] # NoProposal
                 PROVE  LET q == proposal'[g].approvals
                        IN  /\ \A i \in 1..Len(q) : Contains(signers, q[i])
                            /\ \A i, j \in 1..Len(q) : q[i] = q[j] => i = j
        BY DEF ApprovalsGenuine, get_proposal, propose_action, config
    <2>1. CASE g = h
        BY <1>2, <2>1
    <2>2. CASE g # h
        BY <1>2, <2>2 DEF Inv, ExecutedOnceByQuorum, ApprovalsGenuine, get_proposal
    <2> QED BY <2>1, <2>2
<1>6. ExecutedByQuorum'
    <2> SUFFICES ASSUME NEW g \in Hashes, proposal'[g] # NoProposal, proposal'[g].executed
                 PROVE  Cardinality(Approvers(g)') >= threshold
        BY DEF ExecutedByQuorum, propose_action, config
    <2>1. g # h
        BY <1>2
    <2>2. Approvers(g)' = Approvers(g)
        BY <1>2, <2>1 DEF Approvers
    <2> QED BY <1>2, <2>1, <2>2 DEF Inv, ExecutedOnceByQuorum, ExecutedByQuorum
<1>7. ExecutedOnce'
    BY <1>2 DEF Inv, ExecutedOnceByQuorum, ExecutedOnce, propose_action
<1> QED BY <1>3, <1>4, <1>5, <1>6, <1>7 DEF Inv, ExecutedOnceByQuorum

\* An approval adds a signer the list did not name yet, to a proposal that
\* is not executed.
LEMMA ApproveKeeps ==
    ASSUME Inv, NEW a \in Address, NEW h \in Hashes, approve(a, h)
    PROVE  Inv'
<1> DEFINE p == proposal[h]
           q == p.approvals
           r == [p EXCEPT !.approvals = Append(@, a)]
<1>1. /\ p \in Proposal /\ q \in Seq(Address) /\ ~p.executed /\ p # NoProposal
      /\ ~Contains(q, a) /\ Contains(signers, a)
    BY StoredProposal DEF Inv, approve, assert_signer
<1>2. /\ r \in Proposal /\ r.approvals = Append(q, a) /\ ~r.executed
    <2>1. Append(q, a) \in Seq(Address)
        BY <1>1
    <2>2. r = [p EXCEPT !.approvals = Append(q, a)]
        OBVIOUS
    <2> HIDE DEF r
    <2> QED BY <1>1, <2>1, <2>2 DEF Proposal
<1>3. /\ proposal' = [proposal EXCEPT ![h] = r] /\ proposal'[h] = r /\ r # NoProposal
      /\ \A g \in Hashes : g # h => proposal'[g] = proposal[g]
    BY <1>2, NoProposalAssumption DEF approve, Inv, TypeOK
<1> HIDE DEF r
<1>4. TypeOK'
    BY <1>2, <1>3 DEF Inv, TypeOK, approve, config
<1>5. ProposedAfterInitialize'
    BY <1>1 DEF approve, config, Contains, ProposedAfterInitialize
<1>6. ApprovalsGenuine'
    <2> SUFFICES ASSUME NEW g \in Hashes, proposal'[g] # NoProposal
                 PROVE  LET s == proposal'[g].approvals
                        IN  /\ \A i \in 1..Len(s) : Contains(signers, s[i])
                            /\ \A i, j \in 1..Len(s) : s[i] = s[j] => i = j
        BY DEF ApprovalsGenuine, get_proposal, approve, config
    <2>1. CASE g = h
        <3>1. /\ \A i \in 1..Len(q) : Contains(signers, q[i])
              /\ \A i, j \in 1..Len(q) : q[i] = q[j] => i = j
              /\ \A i \in 1..Len(q) : q[i] # a
            BY <1>1 DEF Inv, ExecutedOnceByQuorum, ApprovalsGenuine, get_proposal, Contains
        <3>2. /\ Len(q) \in Nat /\ Len(Append(q, a)) = Len(q) + 1
              /\ Append(q, a)[Len(q) + 1] = a
              /\ \A i \in 1..Len(q) : Append(q, a)[i] = q[i]
            BY <1>1
        <3>3. \A i \in 1..(Len(q) + 1) : i \in 1..Len(q) \/ i = Len(q) + 1
            BY <3>2
        <3>4. \A i \in 1..Len(Append(q, a)) : Contains(signers, Append(q, a)[i])
            BY <1>1, <3>1, <3>2, <3>3
        <3>5. \A i, j \in 1..Len(Append(q, a)) : Append(q, a)[i] = Append(q, a)[j] => i = j
            BY <3>1, <3>2, <3>3
        <3>6. proposal'[g].approvals = Append(q, a)
            BY <1>2, <1>3, <2>1
        <3> HIDE DEF q
        <3> QED BY <3>4, <3>5, <3>6
    <2>2. CASE g # h
        BY <1>3, <2>2 DEF Inv, ExecutedOnceByQuorum, ApprovalsGenuine, get_proposal
    <2> QED BY <2>1, <2>2
<1>7. ExecutedByQuorum'
    <2> SUFFICES ASSUME NEW g \in Hashes, proposal'[g] # NoProposal, proposal'[g].executed
                 PROVE  Cardinality(Approvers(g)') >= threshold
        BY DEF ExecutedByQuorum, approve, config
    <2>1. g # h
        BY <1>2, <1>3
    <2>2. Approvers(g)' = Approvers(g)
        BY <1>3, <2>1 DEF Approvers
    <2> QED BY <1>3, <2>1, <2>2 DEF Inv, ExecutedOnceByQuorum, ExecutedByQuorum
<1>8. ExecutedOnce'
    BY <1>1, <1>2, <1>3 DEF Inv, ExecutedOnceByQuorum, ExecutedOnce, approve
<1> QED BY <1>4, <1>5, <1>6, <1>7, <1>8 DEF Inv, ExecutedOnceByQuorum

\* Execution counts entries of the list; they are distinct, so it counts
\* signers.
LEMMA ExecuteKeeps ==
    ASSUME Inv, NEW h \in Hashes, execute(h)
    PROVE  Inv'
<1> DEFINE p == proposal[h]
           q == p.approvals
           r == [p EXCEPT !.executed = TRUE]
<1>1. /\ p \in Proposal /\ q \in Seq(Address) /\ ~p.executed /\ p # NoProposal
      /\ Len(q) >= threshold
    BY StoredProposal DEF Inv, execute
<1>2. r \in Proposal /\ r.approvals = q /\ r.executed
    BY <1>1 DEF Proposal
<1>3. /\ proposal' = [proposal EXCEPT ![h] = r] /\ proposal'[h] = r /\ r # NoProposal
      /\ \A g \in Hashes : g # h => proposal'[g] = proposal[g]
    BY <1>2, NoProposalAssumption DEF execute, Inv, TypeOK
<1> HIDE DEF r
<1>4. TypeOK'
    <2>1. executions' \in [Hashes -> Nat]
        BY DEF Inv, TypeOK, execute
    <2> QED BY <1>2, <1>3, <2>1 DEF Inv, TypeOK, execute, config
<1>5. ProposedAfterInitialize'
    BY <1>1 DEF execute, config, Inv, ProposedAfterInitialize
<1>6. ApprovalsGenuine'
    <2> SUFFICES ASSUME NEW g \in Hashes, proposal'[g] # NoProposal
                 PROVE  LET s == proposal'[g].approvals
                        IN  /\ \A i \in 1..Len(s) : Contains(signers, s[i])
                            /\ \A i, j \in 1..Len(s) : s[i] = s[j] => i = j
        BY DEF ApprovalsGenuine, get_proposal, execute, config
    <2>1. proposal[g] # NoProposal /\ proposal'[g].approvals = proposal[g].approvals
        BY <1>1, <1>2, <1>3
    <2> QED BY <2>1 DEF Inv, ExecutedOnceByQuorum, ApprovalsGenuine, get_proposal
<1>7. ExecutedByQuorum'
    <2> SUFFICES ASSUME NEW g \in Hashes, proposal'[g] # NoProposal, proposal'[g].executed
                 PROVE  Cardinality(Approvers(g)') >= threshold
        BY DEF ExecutedByQuorum, execute, config
    <2>1. Approvers(g)' = Approvers(g)
        BY <1>2, <1>3 DEF Approvers
    <2>2. CASE g = h
        <3>1. \A i, j \in 1..Len(q) : q[i] = q[j] => i = j
            BY <1>1 DEF Inv, ExecutedOnceByQuorum, ApprovalsGenuine, get_proposal
        <3>2. Cardinality(Approvers(h)) \in Nat /\ Len(q) <= Cardinality(Approvers(h))
            BY <1>1, <3>1, DistinctAreCounted DEF Approvers
        <3>3. Len(q) \in Nat /\ threshold \in Int
            BY <1>1 DEF Inv, TypeOK
        <3> QED BY <1>1, <2>1, <2>2, <3>2, <3>3
    <2>3. CASE g # h
        BY <1>3, <2>1, <2>3 DEF Inv, ExecutedOnceByQuorum, ExecutedByQuorum
    <2> QED BY <2>2, <2>3
<1>8. ExecutedOnce'
    <2> SUFFICES ASSUME NEW g \in Hashes
                 PROVE  executions'[g] =
                            IF proposal'[g] # NoProposal /\ proposal'[g].executed THEN 1 ELSE 0
        BY DEF ExecutedOnce
    <2>1. executions[h] = 0
        BY <1>1 DEF Inv, ExecutedOnceByQuorum, ExecutedOnce
    <2>2. executions'[h] = 1 /\ \A k \in Hashes : k # h => executions'[k] = executions[k]
        BY <2>1 DEF execute, Inv, TypeOK
    <2> QED BY <1>2, <1>3, <2>2 DEF Inv, ExecutedOnceByQuorum, ExecutedOnce
<1> QED BY <1>4, <1>5, <1>6, <1>7, <1>8 DEF Inv, ExecutedOnceByQuorum

\* A step that changes neither the configuration nor a proposal keeps Inv.
LEMMA OtherKeeps ==
    ASSUME Inv, UNCHANGED <<config, proposal, executions>>,
           sequence' \in 0..U32_MAX, signer' \in Address \cup {NoAddress}
    PROVE  Inv'
<1>1. TypeOK'
    BY DEF Inv, TypeOK, config
<1>2. \A h \in Hashes : Approvers(h)' = Approvers(h)
    BY DEF Approvers
<1>3. ExecutedByQuorum'
    BY <1>2 DEF Inv, ExecutedOnceByQuorum, ExecutedByQuorum, config
<1>4. (ProposedAfterInitialize /\ ApprovalsGenuine /\ ExecutedOnce)'
    BY DEF Inv, ProposedAfterInitialize, ExecutedOnceByQuorum, ApprovalsGenuine,
           ExecutedOnce, get_proposal, config
<1> QED BY <1>1, <1>3, <1>4 DEF Inv, ExecutedOnceByQuorum

LEMMA StepKeeps == Inv /\ [Next]_vars => Inv'
<1> SUFFICES ASSUME Inv, [Next]_vars PROVE Inv'
    OBVIOUS
<1>1. ASSUME NEW list \in SignerLists, NEW m \in 0..U32_MAX, NEW t \in Ttls,
             initialize(list, m, t)
      PROVE  Inv'
    BY <1>1, InitializeKeeps
<1>2. ASSUME NEW a \in Address, NEW h \in Hashes, propose_action(a, h)
      PROVE  Inv'
    BY <1>2, ProposeKeeps
<1>3. ASSUME NEW a \in Address, NEW h \in Hashes, approve(a, h)
      PROVE  Inv'
    BY <1>3, ApproveKeeps
<1>4. ASSUME NEW h \in Hashes, execute(h)
      PROVE  Inv'
    BY <1>4, ExecuteKeeps
<1>5. CASE CloseLedger
    <2>1. sequence' \in 0..U32_MAX /\ signer' \in Address \cup {NoAddress}
        BY <1>5, MultisigAssumption DEF CloseLedger, Inv, TypeOK
    <2> QED BY <1>5, <2>1, OtherKeeps DEF CloseLedger
<1>6. CASE UNCHANGED vars
    <2>1. sequence' \in 0..U32_MAX /\ signer' \in Address \cup {NoAddress}
        BY <1>6 DEF vars, Inv, TypeOK
    <2> QED BY <1>6, <2>1, OtherKeeps DEF vars
<1> QED BY <1>1, <1>2, <1>3, <1>4, <1>5, <1>6 DEF Next

LEMMA InvHolds == Spec => []Inv
<1> QED BY InitHolds, StepKeeps, PTL DEF Spec

-----------------------------------------------------------------------------
\* Every reachable state of the contract stores values of the declared types,
\* with a threshold between 1 and the number of listed signers.
THEOREM TypeCorrect == Spec => []TypeOK
<1>1. Inv => TypeOK
    BY DEF Inv
<1> QED BY <1>1, InvHolds, PTL

\* Whatever list, threshold and lifetime the deployer chose, and in whatever
\* order the signers and strangers call: execution is announced exactly once
\* for an executed proposal, which carries genuine approvals of at least
\* threshold different signers.
THEOREM QuorumExecutesOnce == Spec => []ExecutedOnceByQuorum
<1>1. Inv => ExecutedOnceByQuorum
    BY DEF Inv
<1> QED BY <1>1, InvHolds, PTL

\* What one step may do to a stored proposal.
ProposalStep ==
    \A h \in Hashes : (proposal[h] # NoProposal /\ proposal'[h] # proposal[h]) =>
        /\ sequence <= proposal[h].created_at + ttl
        /\ ~proposal[h].executed
        /\ \/ proposal'[h] = [proposal[h] EXCEPT !.approvals = Append(@, signer')]
           \/ proposal'[h] = [proposal[h] EXCEPT !.executed = TRUE]

LEMMA StepIsLifecycle == Inv /\ [Next]_vars => [ProposalStep]_vars
<1> SUFFICES ASSUME Inv, Next, NEW g \in Hashes,
                    proposal[g] # NoProposal, proposal'[g] # proposal[g]
             PROVE  /\ sequence <= proposal[g].created_at + ttl
                    /\ ~proposal[g].executed
                    /\ \/ proposal'[g] = [proposal[g] EXCEPT !.approvals = Append(@, signer')]
                       \/ proposal'[g] = [proposal[g] EXCEPT !.executed = TRUE]
    BY DEF ProposalStep
<1>1. proposal \in [Hashes -> Proposal \cup {NoProposal}]
    BY DEF Inv, TypeOK
<1>2. ASSUME NEW a \in Address, NEW h \in Hashes, propose_action(a, h)
      PROVE  FALSE
    BY <1>1, <1>2 DEF propose_action
<1>3. ASSUME NEW a \in Address, NEW h \in Hashes, approve(a, h)
      PROVE  /\ sequence <= proposal[g].created_at + ttl /\ ~proposal[g].executed
             /\ proposal'[g] = [proposal[g] EXCEPT !.approvals = Append(@, signer')]
    BY <1>1, <1>3 DEF approve, assert_not_expired
<1>4. ASSUME NEW h \in Hashes, execute(h)
      PROVE  /\ sequence <= proposal[g].created_at + ttl /\ ~proposal[g].executed
             /\ proposal'[g] = [proposal[g] EXCEPT !.executed = TRUE]
    BY <1>1, <1>4 DEF execute, assert_not_expired
<1>5. /\ \A list \in SignerLists, m \in 0..U32_MAX, t \in Ttls : ~initialize(list, m, t)
      /\ ~CloseLedger
    BY DEF initialize, CloseLedger
<1> QED BY <1>2, <1>3, <1>4, <1>5 DEF Next

\* A stored proposal changes only while it lives and is not executed, by one
\* approval of whoever signs or by its execution: an expired or executed
\* proposal keeps its record for ever.
THEOREM LifecycleHolds == Spec => ProposalLifecycle
<1>1. Spec => [][ProposalStep]_vars
    BY InvHolds, StepIsLifecycle, PTL DEF Spec
<1> QED BY <1>1, PTL DEF ProposalStep, ProposalLifecycle

-----------------------------------------------------------------------------
(* The rotation of an admin.  Admin!TypeOK is inductive as it stands: it   *)
(* ties the stored expiry to the ledger of the latest propose_admin, which *)
(* is what the handover needs.                                             *)

LEMMA AdminConstants ==
    NoAddress \notin Address /\ PROPOSAL_TTL_LEDGERS \in Nat /\ U32_MAX \in Nat
BY MultisigAssumption, AdminAssumption

LEMMA AdminInit == Admin!Init => Admin!TypeOK
BY AdminConstants DEF Admin!Init, Admin!TypeOK

\* What is left alone by an action keeps its type, one action at a time.
LEMMA AdminStep ==
    ASSUME Admin!TypeOK, [Admin!Next]_(Admin!vars)
    PROVE  Admin!TypeOK'
<1> USE DEF Admin!TypeOK, Admin!pendingVars
<1>1. ASSUME NEW auth \in Address, NEW a \in Address, Admin!initialize(auth, a)
      PROVE  Admin!TypeOK'
    BY <1>1 DEF Admin!initialize
<1>2. ASSUME NEW auth \in Address, NEW a \in Address, Admin!propose_admin(auth, a)
      PROVE  Admin!TypeOK'
    <2>1. pendingExpiry' \in 0..U32_MAX /\ proposedAt' \in 0..U32_MAX
        BY <1>2, AdminConstants DEF Admin!propose_admin
    <2>2. pendingExpiry' = proposedAt' + PROPOSAL_TTL_LEDGERS
        BY <1>2 DEF Admin!propose_admin
    <2> QED BY <1>2, <2>1, <2>2 DEF Admin!propose_admin
<1>3. ASSUME NEW auth \in Address, Admin!accept_admin(auth)
      PROVE  Admin!TypeOK'
    BY <1>3, AdminConstants DEF Admin!accept_admin
<1>4. ASSUME NEW auth \in Address, NEW a \in Address, Admin!set_admin(auth, a)
      PROVE  Admin!TypeOK'
    BY <1>4 DEF Admin!set_admin
<1>5. ASSUME NEW auth \in Address, NEW h \in WasmHashes, Admin!upgrade(auth, h)
      PROVE  Admin!TypeOK'
    BY <1>5 DEF Admin!upgrade
<1>6. ASSUME NEW auth \in Address, NEW a \in Address, NEW p \in Profiles,
             Admin!set_profile(auth, a, p)
      PROVE  Admin!TypeOK'
    BY <1>6 DEF Admin!set_profile
<1>7. ASSUME NEW auth \in Address, NEW a \in Address, Admin!delete_profile(auth, a)
      PROVE  Admin!TypeOK'
    BY <1>7 DEF Admin!delete_profile
<1>8. CASE Admin!CloseLedger
    BY <1>8, AdminConstants DEF Admin!CloseLedger
<1>9. CASE UNCHANGED Admin!vars
    BY <1>9 DEF Admin!vars
<1> QED BY <1>1, <1>2, <1>3, <1>4, <1>5, <1>6, <1>7, <1>8, <1>9 DEF Admin!Next, Admin!Invoke

\* Every reachable state stores values of the declared types, and a pending
\* proposal always carries the expiry of the latest propose_admin.
THEOREM AdminTypeCorrect == Admin!Spec => []Admin!TypeOK
<1>1. Admin!Init => Admin!TypeOK
    BY AdminInit
<1>2. Admin!TypeOK /\ [Admin!Next]_(Admin!vars) => Admin!TypeOK'
    BY AdminStep
<1> QED BY <1>1, <1>2, PTL DEF Admin!Spec

-----------------------------------------------------------------------------
\* What one step may do to the admin, to the code and to the profiles.
HandoverStep ==
    (admin # NoAddress /\ admin' # admin) =>
        /\ admin' # NoAddress
        /\ \/ signer' = admin
           \/ /\ signer' = pendingAdmin /\ admin' = pendingAdmin
              /\ sequence <= proposedAt + PROPOSAL_TTL_LEDGERS
              /\ pendingAdmin' = NoAddress

OwnerStep ==
    /\ wasm' # wasm => admin # NoAddress /\ signer' = admin
    /\ \A a \in Address : profile'[a] # profile[a] => signer' = a

LEMMA StepHandsOver ==
    ASSUME Admin!TypeOK, Admin!Next
    PROVE  HandoverStep
<1> SUFFICES ASSUME admin # NoAddress, admin' # admin
             PROVE  HandoverStep
    BY DEF HandoverStep
<1>1. PICK auth \in Address : Admin!Invoke(auth)
    BY DEF Admin!Next, Admin!CloseLedger
<1>2. ASSUME NEW a \in Address, Admin!set_admin(auth, a)
      PROVE  HandoverStep
    BY <1>2, AdminConstants DEF Admin!set_admin, Admin!require_admin, HandoverStep
<1>3. CASE Admin!accept_admin(auth)
    BY <1>3 DEF Admin!accept_admin, HandoverStep, Admin!TypeOK
<1>4. /\ \A a \in Address : ~Admin!initialize(auth, a) /\ ~Admin!propose_admin(auth, a)
      /\ \A h \in WasmHashes : ~Admin!upgrade(auth, h)
      /\ \A a \in Address, p \in Profiles : ~Admin!set_profile(auth, a, p)
      /\ \A a \in Address : ~Admin!delete_profile(auth, a)
    BY DEF Admin!initialize, Admin!propose_admin, Admin!upgrade, Admin!set_profile, Admin!delete_profile
<1> QED BY <1>1, <1>2, <1>3, <1>4 DEF Admin!Invoke

LEMMA StepIsOwners ==
    ASSUME Admin!TypeOK, Admin!Next
    PROVE  OwnerStep
<1>1. CASE Admin!CloseLedger
    BY <1>1 DEF Admin!CloseLedger, OwnerStep
<1>2. ASSUME NEW auth \in Address, Admin!Invoke(auth)
      PROVE  OwnerStep
    <2>1. ASSUME NEW h \in WasmHashes, Admin!upgrade(auth, h)
          PROVE  OwnerStep
        BY <2>1 DEF Admin!upgrade, Admin!require_admin, OwnerStep
    <2>2. ASSUME NEW a \in Address, NEW p \in Profiles, Admin!set_profile(auth, a, p)
          PROVE  OwnerStep
        BY <2>2 DEF Admin!set_profile, OwnerStep, Admin!TypeOK
    <2>3. ASSUME NEW a \in Address, Admin!delete_profile(auth, a)
          PROVE  OwnerStep
        BY <2>3 DEF Admin!delete_profile, OwnerStep, Admin!TypeOK
    <2>4. ASSUME NEW a \in Address,
                 Admin!initialize(auth, a) \/ Admin!propose_admin(auth, a) \/ Admin!set_admin(auth, a)
          PROVE  OwnerStep
        BY <2>4 DEF Admin!initialize, Admin!propose_admin, Admin!set_admin, OwnerStep
    <2>5. CASE Admin!accept_admin(auth)
        BY <2>5 DEF Admin!accept_admin, OwnerStep
    <2> QED BY <1>2, <2>1, <2>2, <2>3, <2>4, <2>5 DEF Admin!Invoke
<1> QED BY <1>1, <1>2 DEF Admin!Next

\* Admin power moves by the signature of the admin in office, or of the
\* address the latest proposal names within its lifetime; the code moves by
\* the admin's signature and a profile by its owner's.
THEOREM ChangesAreSigned == Admin!Spec => SignedChanges
<1>1. Admin!TypeOK /\ [Admin!Next]_(Admin!vars) => [HandoverStep]_(Admin!vars)
    BY StepHandsOver
<1>2. Admin!TypeOK /\ [Admin!Next]_(Admin!vars) => [OwnerStep]_(Admin!vars)
    BY StepIsOwners
<1>3. Admin!Spec => [][HandoverStep]_(Admin!vars) /\ [][OwnerStep]_(Admin!vars)
    BY <1>1, <1>2, AdminTypeCorrect, PTL DEF Admin!Spec
<1>4. [][HandoverStep]_(Admin!vars) => Admin!AdminHandover
    BY PTL DEF HandoverStep, Admin!AdminHandover
<1>5. [][OwnerStep]_(Admin!vars) => Admin!OwnersOnly
    BY PTL DEF OwnerStep, Admin!OwnersOnly
<1> QED BY <1>3, <1>4, <1>5 DEF SignedChanges, Admin!SignedChanges

-----------------------------------------------------------------------------
(* Both contracts side by side: they share the clock and the signer.       *)

\* Whichever of the two is deployed, the storage of both keeps its types.
THEOREM TypesCorrect == SignersSpec => []TypesOK
<1>1. SignersInit => Inv /\ Admin!TypeOK
    BY InitHolds, AdminInit DEF SignersInit
<1>2. Inv /\ Admin!TypeOK /\ [MultisigNext \/ AdminNext]_signersVars => (Inv /\ Admin!TypeOK)'
    <2> SUFFICES ASSUME Inv, Admin!TypeOK, [MultisigNext \/ AdminNext]_signersVars
                 PROVE  Inv' /\ Admin!TypeOK'
        OBVIOUS
    <2>1. CASE MultisigNext
        <3>1. Inv'
            BY <2>1, StepKeeps DEF MultisigNext
        <3>2. sequence' \in 0..U32_MAX /\ signer' \in Address \cup {NoAddress}
            BY <3>1 DEF Inv, TypeOK
        <3>3. Admin!TypeOK'
            BY <2>1, <3>2 DEF MultisigNext, Admin!TypeOK
        <3> QED BY <3>1, <3>3
    <2>2. CASE AdminNext
        <3>1. Admin!TypeOK'
            BY <2>2, AdminStep DEF AdminNext
        <3>2. Inv'
            BY <2>2, <3>1, OtherKeeps DEF AdminNext, Admin!TypeOK
        <3> QED BY <3>1, <3>2
    <2>3. CASE UNCHANGED signersVars
        <3>1. UNCHANGED vars /\ UNCHANGED Admin!vars
            BY <2>3 DEF signersVars
        <3> QED BY <3>1, StepKeeps, AdminStep
    <2> QED BY <2>1, <2>2, <2>3
<1>3. Inv /\ Admin!TypeOK => TypesOK
    BY DEF Inv, TypesOK
<1> QED BY <1>1, <1>2, <1>3, PTL DEF SignersSpec
=============================================================================
