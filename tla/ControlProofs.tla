---------------------------- MODULE ControlProofs ----------------------------
(***************************************************************************)
(* The promises of the corrected fixtures that say who may do what, when   *)
(* and on what evidence (governance, scanners, calls, oracles, bridges,    *)
(* permits, admins, markets), crate by crate, for every set of accounts.   *)
(*                                                                         *)
(* For a crate X, X_Types gives the shape of its storage and of what the   *)
(* model remembers of the past, X_Inv adds the promise and the facts that  *)
(* make it inductive, each a definition of its own, and X_Correct says     *)
(* that every deployment is in X_Inv and that a call of the corrected      *)
(* contract stays in it.  Where the promise follows from X_Inv without     *)
(* being part of it, X_Promise says so; where it is about a step,          *)
(* X_Correct includes it.  Nothing is proved of the fixture's own code.    *)
(*                                                                         *)
(* The proof for a crate has one step per call.  Each begins with the      *)
(* storage the call writes, as a record, and the guards it passed.         *)
(* FixtureProofs puts the crates together.                                 *)
(***************************************************************************)
EXTENDS Governance, Scanners, Calls, Oracles, Bridges, Permits, Admins, Markets,
        AccountsProofs

-----------------------------------------------------------------------------
(* The last elements of a sequence.                                        *)

\* h is the last cap elements of all, or all of them.
Window(h, all, cap) ==
    /\ Len(h) = IF Len(all) <= cap THEN Len(all) ELSE cap
    /\ \A i \in 1..Len(h) : h[i] = all[Len(all) - Len(h) + i]

\* What Append and Tail leave where.
LEMMA Appended ==
    ASSUME NEW R, NEW s \in Seq(R), NEW x \in R
    PROVE  /\ Append(s, x) \in Seq(R) /\ Len(Append(s, x)) = Len(s) + 1
           /\ Append(s, x)[Len(s) + 1] = x
           /\ \A j \in 1..Len(s) : Append(s, x)[j] = s[j]
OBVIOUS

\* The tail has every element but the first, one place earlier.
LEMMA Tailed ==
    ASSUME NEW R, NEW s \in Seq(R), Len(s) > 0
    PROVE  /\ Tail(s) \in Seq(R) /\ Len(Tail(s)) = Len(s) - 1
           /\ \A j \in 1..(Len(s) - 1) : Tail(s)[j] = s[j + 1]
OBVIOUS

\* A full window drops its oldest element and takes the new one.
LEMMA WindowMoves ==
    ASSUME NEW R, NEW all \in Seq(R), NEW h \in Seq(R), NEW x \in R, NEW cap \in Nat \ {0},
           Window(h, all, cap)
    PROVE  Window(Append(IF Len(h) >= cap THEN Tail(h) ELSE h, x), Append(all, x), cap)
<1>0. PICK n \in Nat, m \in Nat : n = Len(all) /\ m = Len(h)
    OBVIOUS
<1>1. m = (IF n <= cap THEN n ELSE cap) /\ \A i \in 1..m : h[i] = all[n - m + i]
    BY <1>0 DEF Window
<1>a. PICK new : new = Append(all, x)
    OBVIOUS
<1>2. new \in Seq(R) /\ Len(new) = n + 1 /\ new[n + 1] = x /\ \A j \in 1..n : new[j] = all[j]
    BY <1>0, <1>a, Appended
<1>3. CASE m < cap
    <2>a. PICK g : g = Append(h, x)
        OBVIOUS
    <2>1. g \in Seq(R) /\ Len(g) = m + 1 /\ g[m + 1] = x /\ \A j \in 1..m : g[j] = h[j]
        BY <1>0, <2>a, Appended
    <2>2. n = m /\ n + 1 <= cap
        BY <1>1, <1>3
    <2>3. ASSUME NEW i \in 1..(m + 1) PROVE g[i] = new[(n + 1) - (m + 1) + i]
        <3>1. (n + 1) - (m + 1) + i = i /\ n - m + i = i
            BY <2>2
        <3>2. CASE i = m + 1
            BY <1>2, <2>1, <2>2, <3>1, <3>2
        <3>3. CASE i \in 1..m
            BY <1>1, <1>2, <2>1, <2>2, <3>1, <3>3
        <3> QED BY <3>2, <3>3
    <2>4. Window(g, new, cap)
        BY <1>2, <2>1, <2>2, <2>3 DEF Window
    <2> QED BY <1>0, <1>a, <1>3, <2>a, <2>4
<1>4. CASE m >= cap
    <2>1. m = cap /\ n >= cap /\ m >= 1
        BY <1>1, <1>4
    <2>b. PICK k : k = Tail(h)
        OBVIOUS
    <2>e. Len(h) > 0
        BY <1>0, <2>1
    <2>f. /\ Tail(h) \in Seq(R) /\ Len(Tail(h)) = Len(h) - 1
          /\ \A j \in 1..(Len(h) - 1) : Tail(h)[j] = h[j + 1]
        BY <2>e, Tailed
    <2>2. k \in Seq(R) /\ Len(k) = m - 1 /\ \A j \in 1..(m - 1) : k[j] = h[j + 1]
        BY <1>0, <2>b, <2>f
    <2>c. PICK g : g = Append(k, x)
        OBVIOUS
    <2>d. m - 1 + 1 = m
        BY <2>1
    <2>3. g \in Seq(R) /\ Len(g) = m /\ g[m] = x /\ \A j \in 1..(m - 1) : g[j] = k[j]
        BY <2>2, <2>c, <2>d, Appended
    <2>4. ASSUME NEW i \in 1..m PROVE g[i] = new[(n + 1) - m + i]
        <3>1. CASE i = m
            BY <1>2, <2>1, <2>3, <3>1
        <3>2. CASE i \in 1..(m - 1)
            <4>0. g[i] = h[i + 1] /\ i + 1 \in 1..m
                BY <2>1, <2>2, <2>3, <3>2
            <4>1. h[i + 1] = all[n - m + (i + 1)]
                BY <1>1, <4>0
            <4>2. (n + 1) - m + i = n - m + (i + 1) /\ n - m + (i + 1) \in 1..n
                BY <2>1, <3>2
            <4> QED BY <1>2, <4>0, <4>1, <4>2
        <3> QED BY <2>1, <3>1, <3>2
    <2>a. cap = IF n + 1 <= cap THEN n + 1 ELSE cap
        BY <2>1
    <2>5. Window(g, new, cap)
        BY <1>2, <2>1, <2>3, <2>4, <2>a DEF Window
    <2> QED BY <1>0, <1>a, <1>4, <2>b, <2>c, <2>5
<1> QED BY <1>3, <1>4

\* A window is the end of the sequence, as SubSeq cuts it.
LEMMA WindowIs ==
    ASSUME NEW R, NEW all \in Seq(R), NEW h \in Seq(R), NEW cap \in Nat \ {0},
           Window(h, all, cap)
    PROVE  h = IF Len(all) <= cap THEN all ELSE SubSeq(all, Len(all) - cap + 1, Len(all))
<1>0. PICK n \in Nat, m \in Nat : n = Len(all) /\ m = Len(h)
    OBVIOUS
<1>1. m = (IF n <= cap THEN n ELSE cap) /\ \A i \in 1..m : h[i] = all[n - m + i]
    BY <1>0 DEF Window
<1>2. CASE n <= cap
    <2>1. \A i \in 1..n : h[i] = all[i]
        BY <1>1, <1>2
    <2>2. h = all
        BY <1>0, <1>1, <1>2, <2>1, SeqEqual
    <2> QED BY <1>0, <1>2, <2>2
<1>3. CASE n > cap
    <2>1. PICK t \in Seq(R) : /\ t = SubSeq(all, n - cap + 1, n) /\ Len(t) = cap
                              /\ \A i \in 1..cap : t[i] = all[n - cap + i]
        <3>1. n - cap + 1 \in 1..n /\ n - (n - cap + 1) + 1 = cap
            BY <1>3
        <3>2. SubSeq(all, n - cap + 1, n) \in Seq(R) /\ Len(SubSeq(all, n - cap + 1, n)) = cap
            BY <1>0, <3>1
        <3>3. ASSUME NEW i \in 1..cap PROVE SubSeq(all, n - cap + 1, n)[i] = all[n - cap + i]
            <4>1. SubSeq(all, n - cap + 1, n)[i] = all[(n - cap + 1) + i - 1]
                BY <1>0, <3>1
            <4>2. (n - cap + 1) + i - 1 = n - cap + i
                OBVIOUS
            <4> QED BY <4>1, <4>2
        <3> QED BY <3>2, <3>3
    <2>2. m = cap
        BY <1>1, <1>3
    <2>3. h = t
        
        <3>1. \A i \in 1..Len(h) : h[i] = t[i]
            BY <1>0, <1>1, <2>1, <2>2, ZenonT(60)
        <3>2. Len(h) = Len(t)
            BY <1>0, <2>1, <2>2
        <3> QED BY <2>1, <3>1, <3>2, SeqEqual
    <2> QED BY <1>0, <1>3, <2>1, <2>3
<1> QED BY <1>2, <1>3


-----------------------------------------------------------------------------
(* quorum_current_supply.                                                  *)
\* A proposal, with the supply at its creation.
Quorum_Proposal == [yes : Int, no : Int, final : BOOLEAN, snapshot_supply : Int]

Quorum_Types ==
    /\ store \in [supply : Int, next : Int,
                  proposals : [ProposalIds -> Quorum_Proposal \cup {None}]]
    /\ past = [born |-> past.born, last |-> past.last]
    /\ past.born \in [ProposalIds -> Int]

\* The supply a proposal was created under is the one it keeps.
Quorum_SnapshotKept ==
    \A id \in ProposalIds : store.proposals[id] # None =>
        store.proposals[id].snapshot_supply = past.born[id]

Quorum_Inv == Quorum_Types /\ Quorum_SnapshotKept /\ Quorum_OfItsCreation

\* Every deployment is in Quorum_Inv; a call of the corrected contract, or
\* none, stays in it.
LEMMA Quorum_Correct ==
    /\ now = 0 /\ Quorum_Init => Quorum_Inv
    /\ Secure /\ Quorum_Inv /\ Quorum_Next => Quorum_Inv'
    /\ Quorum_Inv /\ UNCHANGED vars => Quorum_Inv'
<1>1. ASSUME now = 0, Quorum_Init PROVE Quorum_Inv
    <2>1. Quorum_Types
        BY <1>1, ContractAssumption DEF Quorum_Init, Quorum_Types, ProposalIds,
           Quorum_OfItsCreation, Quorum_Proposal
    <2>2. Quorum_SnapshotKept
        BY <1>1, ContractAssumption DEF Quorum_Init, Quorum_SnapshotKept, ProposalIds,
           Quorum_OfItsCreation, Quorum_Proposal
    <2>3. Quorum_OfItsCreation
        BY <1>1, ContractAssumption DEF Quorum_Init, Quorum_OfItsCreation, ProposalIds,
           Quorum_Proposal
    <2> QED BY <2>1, <2>2, <2>3 DEF Quorum_Inv
<1>2. ASSUME Secure, Quorum_Inv, Quorum_Next PROVE Quorum_Inv'
    <2>1. PICK id \in ProposalIds, yes \in BOOLEAN, n \in {2, 3}, weight \in {-1, 1} :
              Quorum_init(n) \/ Quorum_mint(weight) \/ Quorum_burn(n) \/ Quorum_create_proposal \/
              Quorum_vote(id, yes, weight) \/ Quorum_tally(id)
        BY <1>2, Zenon DEF Quorum_Next, Lib, Secure
    <2>2. CASE Quorum_init(n)
        <3>1. /\ store' = [supply |-> n, next |-> 1, proposals |-> store.proposals]
              /\ past' = past
            BY <1>2, <2>2 DEF Quorum_init, Write, Quorum_Inv, Quorum_Types
        <3> QED BY <1>2, <3>1, ContractAssumption DEF Quorum_Inv, Quorum_Types,
               Quorum_SnapshotKept, Quorum_OfItsCreation, Quorum_Proposal
    <2>3. CASE Quorum_mint(weight)
        <3>1. /\ store' = [supply |-> store.supply + weight, next |-> store.next,
                           proposals |-> store.proposals]
              /\ past' = past
              /\ store.supply + weight \in 0..MaxVoteSupply
            BY <1>2, <2>3 DEF Quorum_mint, Write, Quorum_Inv, Quorum_Types
        <3> QED BY <1>2, <3>1, ContractAssumption DEF Quorum_Inv, Quorum_Types,
               Quorum_SnapshotKept, Quorum_OfItsCreation, Quorum_Proposal
    <2>4. CASE Quorum_burn(n)
        <3>1. /\ store' = [supply |-> store.supply - n, next |-> store.next,
                           proposals |-> store.proposals]
              /\ past' = past
              /\ store.supply - n \in 0..MaxVoteSupply
            BY <1>2, <2>4 DEF Quorum_burn, Write, Quorum_Inv, Quorum_Types
        <3> QED BY <1>2, <3>1, ContractAssumption DEF Quorum_Inv, Quorum_Types,
               Quorum_SnapshotKept, Quorum_OfItsCreation, Quorum_Proposal
    <2>5. CASE Quorum_create_proposal
        <3>1. /\ store' = [supply |-> store.supply, next |-> store.next + 1,
                           proposals |-> [store.proposals EXCEPT ![store.next] = [yes |-> 0,
                                 no |-> 0, final |-> FALSE,
                                 snapshot_supply |-> Quorum_total_supply]]]
              /\ past' = [born |-> [past.born EXCEPT ![store.next] = Quorum_total_supply],
                          last |-> past.last]
              /\ store.next \in ProposalIds
            BY <1>2, <2>5 DEF Quorum_create_proposal, Quorum_new, WriteAnd, Quorum_Inv,
               Quorum_Types
        <3> QED BY <1>2, <3>1, ContractAssumption DEF Quorum_Inv, Quorum_Types,
               Quorum_SnapshotKept, Quorum_OfItsCreation, Quorum_Proposal, Quorum_total_supply
    <2>6. CASE Quorum_vote(id, yes, weight)
        <3>1. /\ store' = [supply |-> store.supply, next |-> store.next,
                           proposals |-> [store.proposals EXCEPT ![id] =
                                          (IF yes THEN [Quorum_proposal(id) EXCEPT !.yes =
                                                        @ + weight]
                                           ELSE [Quorum_proposal(id) EXCEPT !.no = @ + weight])]]
              /\ past' = past
              /\ Quorum_proposal(id) # None
              /\ (IF yes THEN [Quorum_proposal(id) EXCEPT !.yes = @ + weight]
                  ELSE [Quorum_proposal(id) EXCEPT !.no = @ + weight]).yes \in -1..MaxVotesCast
              /\ (IF yes THEN [Quorum_proposal(id) EXCEPT !.yes = @ + weight]
                  ELSE [Quorum_proposal(id) EXCEPT !.no = @ + weight]).no \in -1..MaxVotesCast
            BY <1>2, <2>6 DEF Quorum_vote, Write, Quorum_Inv, Quorum_Types
        <3> QED BY <1>2, <3>1, ContractAssumption DEF Quorum_Inv, Quorum_Types,
               Quorum_SnapshotKept, Quorum_OfItsCreation, Quorum_Proposal, Quorum_proposal,
               MaxVotesCast
    <2>7. CASE Quorum_tally(id)
        <3>1. /\ store' = [supply |-> store.supply, next |-> store.next,
                           proposals |-> [store.proposals EXCEPT ![id].final = TRUE]]
              /\ past' = [born |-> past.born,
                          last |-> [told |-> Quorum_passes(Quorum_proposal(id),
                                                           Quorum_proposal(id).snapshot_supply),
                                    due |-> Quorum_passes(Quorum_proposal(id), past.born[id])]]
              /\ Quorum_proposal(id) # None
            BY <1>2, <2>7 DEF Quorum_tally, Quorum_tallied, WriteAnd, Quorum_Inv, Quorum_Types
        <3>2. Quorum_Types'
            BY <1>2, <3>1, ContractAssumption DEF Quorum_Inv, Quorum_Types, Quorum_passes,
               Quorum_proposal, Quorum_Proposal
        <3>3. Quorum_SnapshotKept'
            BY <1>2, <3>1, ContractAssumption DEF Quorum_Inv, Quorum_Types, Quorum_SnapshotKept,
               Quorum_OfItsCreation, Quorum_Proposal, Quorum_passes, Quorum_proposal
        <3>4. Quorum_OfItsCreation'
            BY <1>2, <3>1, ContractAssumption DEF Quorum_Inv, Quorum_Types, Quorum_SnapshotKept,
               Quorum_OfItsCreation, Quorum_Proposal, Quorum_passes, Quorum_proposal
        <3> QED BY <3>2, <3>3, <3>4 DEF Quorum_Inv
    <2> QED BY <2>1, <2>2, <2>3, <2>4, <2>5, <2>6, <2>7
<1>3. Quorum_Inv /\ UNCHANGED vars => Quorum_Inv'
    BY DEF Quorum_Inv, Quorum_Types, Quorum_SnapshotKept, Quorum_OfItsCreation, vars
<1> QED BY <1>1, <1>2, <1>3

-----------------------------------------------------------------------------
(* execute_without_queue.                                                  *)
\* A proposal of the queue.
Queue_Proposal == [state : {"Passed", "Queued", "Executed"}, execute_after : Nat]

Queue_Types ==
    /\ now \in Nat
    /\ store \in [proposal : Queue_Proposal \cup {None}]
    /\ past \in [queued : Nat \cup {None}, waited : Int \cup {None}]

\* A queued proposal may run QueueDelay ledgers after it was queued.
Queue_QueuedSince ==
    store.proposal # None /\ store.proposal.state = "Queued" =>
        past.queued \in Nat /\ store.proposal.execute_after = past.queued + QueueDelay

Queue_Inv == Queue_Types /\ Queue_QueuedSince /\ Queue_ExecutedAfterDelay

\* Every deployment is in Queue_Inv; a call of the corrected contract, or none,
\* stays in it.
LEMMA Queue_Correct ==
    /\ now = 0 /\ Queue_Init => Queue_Inv
    /\ Secure /\ Queue_Inv /\ Queue_Next => Queue_Inv'
    /\ Queue_Inv /\ UNCHANGED vars => Queue_Inv'
<1>1. now = 0 /\ Queue_Init => Queue_Inv
    BY ContractAssumption DEF Queue_Init, Queue_Inv, Queue_Types, Queue_QueuedSince,
       Queue_ExecutedAfterDelay, QueueDelay, Queue_ExecutedAfterDelay, Queue_get_state,
       Queue_Proposal, Queue_Init
<1>2. ASSUME Secure, Queue_Inv, Queue_Next PROVE Queue_Inv'
    <2>1. CloseLedger \/ Queue_create \/ Queue_queue \/ Queue_execute
        BY <1>2, Zenon DEF Queue_Next, Lib, Secure
    <2>2. CASE CloseLedger
        <3>1. /\ store' = store
              /\ past' = past
              /\ now' = now + 1
            BY <1>2, <2>2 DEF CloseLedger, Queue_Inv, Queue_Types
        <3> QED BY <1>2, <3>1, ContractAssumption DEF Queue_Inv, Queue_Types, Queue_QueuedSince,
               Queue_ExecutedAfterDelay, QueueDelay, Queue_get_state, Queue_Proposal
    <2>3. CASE Queue_create
        <3>1. /\ store' = [proposal |-> [state |-> "Passed", execute_after |-> 0]]
              /\ past' = [queued |-> None, waited |-> None]
              /\ now' = now
            BY <1>2, <2>3 DEF Queue_create, WriteAnd, Queue_Inv, Queue_Types
        <3> QED BY <1>2, <3>1, ContractAssumption DEF Queue_Inv, Queue_Types, Queue_QueuedSince,
               Queue_ExecutedAfterDelay, QueueDelay, Queue_get_state, Queue_Proposal
    <2>4. CASE Queue_queue
        <3>1. /\ store' = [proposal |-> [state |-> "Queued", execute_after |-> now + QueueDelay]]
              /\ past' = [queued |-> now, waited |-> past.waited]
              /\ now' = now
              /\ store.proposal # None
              /\ store.proposal.state = "Passed"
            BY <1>2, <2>4 DEF Queue_queue, WriteAnd, Queue_Inv, Queue_Types
        <3> QED BY <1>2, <3>1, ContractAssumption DEF Queue_Inv, Queue_Types, Queue_QueuedSince,
               Queue_ExecutedAfterDelay, QueueDelay, Queue_get_state, Queue_Proposal
    <2>5. CASE Queue_execute
        <3>1. /\ store' = [proposal |-> [store.proposal EXCEPT !.state = "Executed"]]
              /\ past' = [queued |-> past.queued,
                          waited |-> IF past.queued = None THEN 0 ELSE now - past.queued]
              /\ now' = now
              /\ store.proposal # None
              /\ store.proposal.state = "Queued"
              /\ now >= store.proposal.execute_after
            BY <1>2, <2>5 DEF Queue_execute, Queue_done, WriteAnd, Queue_Inv, Queue_Types
        <3> QED BY <1>2, <3>1, ContractAssumption DEF Queue_Inv, Queue_Types, Queue_QueuedSince,
               Queue_ExecutedAfterDelay, QueueDelay, Queue_get_state, Queue_Proposal
    <2> QED BY <2>1, <2>2, <2>3, <2>4, <2>5
<1>3. Queue_Inv /\ UNCHANGED vars => Queue_Inv'
    BY DEF Queue_Inv, Queue_Types, Queue_QueuedSince, Queue_ExecutedAfterDelay, vars,
       Queue_get_state
<1> QED BY <1>1, <1>2, <1>3

-----------------------------------------------------------------------------
(* governance_target_unvalidated.                                          *)
\* A call of a function on a target.
Target_Call == [target : CallTargets, function : CallFunctions]

Target_Types ==
    /\ store \in [next : Int, proposals : [0..1 -> Target_Call \cup {None}],
                  executed : SUBSET (0..1), targets : SUBSET CallTargets,
                  functions : SUBSET CallFunctions]
    /\ past \in [called : SUBSET Target_Call]

Target_Inv == Target_Types /\ Target_CallsAllowed

\* Every deployment is in Target_Inv; a call of the corrected contract, or
\* none, stays in it.
LEMMA Target_Correct ==
    /\ now = 0 /\ Target_Init => Target_Inv
    /\ Secure /\ Target_Inv /\ Target_Next => Target_Inv'
    /\ Target_Inv /\ UNCHANGED vars => Target_Inv'
<1>1. now = 0 /\ Target_Init => Target_Inv
    BY ContractAssumption DEF Target_Init, Target_Inv, Target_Types, Target_CallsAllowed,
       Target_CallsAllowed, Target_ensure_allowed, Target_Call, Target_Init
<1>2. ASSUME Secure, Target_Inv, Target_Next PROVE Target_Inv'
    <2>1. PICK target \in CallTargets, function \in CallFunctions, id \in 0..1 :
              Target_allow_target(target) \/ Target_allow_function(function) \/
              Target_propose([target |-> target, function |-> function]) \/ Target_execute(id)
        BY <1>2, Zenon DEF Target_Next, Lib, Secure
    <2>2. CASE Target_allow_target(target)
        <3>1. /\ store' = [next |-> store.next, proposals |-> store.proposals,
                           executed |-> store.executed, targets |-> store.targets \union {target},
                           functions |-> store.functions]
              /\ past' = past
            BY <1>2, <2>2 DEF Target_allow_target, Write, Target_Inv, Target_Types
        <3> QED BY <1>2, <3>1, ContractAssumption DEF Target_Inv, Target_Types,
               Target_CallsAllowed, Target_ensure_allowed, Target_Call
    <2>3. CASE Target_allow_function(function)
        <3>1. /\ store' = [next |-> store.next, proposals |-> store.proposals,
                           executed |-> store.executed, targets |-> store.targets,
                           functions |-> store.functions \union {function}]
              /\ past' = past
            BY <1>2, <2>3 DEF Target_allow_function, Write, Target_Inv, Target_Types
        <3> QED BY <1>2, <3>1, ContractAssumption DEF Target_Inv, Target_Types,
               Target_CallsAllowed, Target_ensure_allowed, Target_Call
    <2>4. CASE Target_propose([target |-> target, function |-> function])
        <3>1. /\ store' = [next |-> store.next + 1,
                           proposals |-> [store.proposals EXCEPT ![store.next] = [target |-> target,
                                 function |-> function]],
                           executed |-> store.executed, targets |-> store.targets,
                           functions |-> store.functions]
              /\ past' = past
              /\ Target_ensure_allowed([target |-> target, function |-> function])
              /\ store.next \in 0..1
            BY <1>2, <2>4 DEF Target_propose, Target_propose_lib, Write, Target_Inv,
               Target_Types
        <3> QED BY <1>2, <3>1, ContractAssumption DEF Target_Inv, Target_Types,
               Target_CallsAllowed, Target_ensure_allowed, Target_Call
    <2>5. CASE Target_execute(id)
        <3>1. /\ store' = store
              /\ past' = [called |-> past.called \union {store.proposals[id]}]
              /\ store.proposals[id] # None
              /\ Target_ensure_allowed(store.proposals[id])
            BY <1>2, <2>5 DEF Target_execute, Observe, Target_Inv, Target_Types
        <3> QED BY <1>2, <3>1, ContractAssumption DEF Target_Inv, Target_Types,
               Target_CallsAllowed, Target_ensure_allowed, Target_Call
    <2> QED BY <2>1, <2>2, <2>3, <2>4, <2>5
<1>3. Target_Inv /\ UNCHANGED vars => Target_Inv'
    BY DEF Target_Inv, Target_Types, Target_CallsAllowed, vars, Target_ensure_allowed
<1> QED BY <1>1, <1>2, <1>3

-----------------------------------------------------------------------------
(* vote_after_deadline.                                                    *)
\* A proposal with its two tallies and its last ledger.
Voting_Proposal == [yes : Int, no : Int, end_ledger : Int]

Voting_Types ==
    /\ now \in Nat
    /\ store \in [proposal : Voting_Proposal \cup {None}, voted : SUBSET Address]
    /\ past \in [in_time : Int]

Voting_Inv == Voting_Types /\ Voting_TallyInTime

\* Every deployment is in Voting_Inv; a call of the corrected contract, or
\* none, stays in it.
LEMMA Voting_Correct ==
    /\ now = 0 /\ Voting_Init => Voting_Inv
    /\ Secure /\ Voting_Inv /\ Voting_Next => Voting_Inv'
    /\ Voting_Inv /\ UNCHANGED vars => Voting_Inv'
<1>1. now = 0 /\ Voting_Init => Voting_Inv
    BY ContractAssumption DEF Voting_Init, Voting_Inv, Voting_Types, Voting_TallyInTime,
       Voting_TallyInTime, Voting_proposal, Voting_tally, Voting_Proposal, Voting_Init
<1>2. ASSUME Secure, Voting_Inv, Voting_Next PROVE Voting_Inv'
    <2>1. \/ CloseLedger
          \/ \E u \in Address, support \in BOOLEAN, weight \in {-1, 1, 2},
             end \in 0..1 : Voting_create(end) \/ Voting_vote(u, support, weight)
        BY <1>2, Zenon DEF Voting_Next, Lib, Secure
    <2>2. CASE CloseLedger
        <3>1. /\ store' = store
              /\ past' = past
              /\ now' = now + 1
            BY <1>2, <2>2 DEF CloseLedger, Voting_Inv, Voting_Types
        <3> QED BY <1>2, <3>1, ContractAssumption DEF Voting_Inv, Voting_Types,
               Voting_TallyInTime, Voting_proposal, Voting_tally, Voting_Proposal
    <2>3. ASSUME NEW u \in Address, NEW support \in BOOLEAN, NEW weight \in {-1, 1, 2}, NEW end
                 \in 0..1,
                 Voting_create(end)
          PROVE  Voting_Inv'
        <3>1. /\ store' = [proposal |-> [yes |-> 0, no |-> 0, end_ledger |-> end],
                           voted |-> store.voted]
              /\ past' = [in_time |-> 0]
              /\ now' = now
            BY <1>2, <2>3 DEF Voting_create, WriteAnd, Voting_Inv, Voting_Types
        <3> QED BY <1>2, <3>1, ContractAssumption DEF Voting_Inv, Voting_Types,
               Voting_TallyInTime, Voting_proposal, Voting_tally, Voting_Proposal
    <2>4. ASSUME NEW u \in Address, NEW support \in BOOLEAN, NEW weight \in {-1, 1, 2}, NEW end
                 \in 0..1,
                 Voting_vote(u, support, weight)
          PROVE  Voting_Inv'
        <3>1. /\ store' =
                 [proposal |-> IF support THEN [Voting_proposal EXCEPT !.yes = @ + weight]
                  ELSE [Voting_proposal EXCEPT !.no = @ + weight],
                           voted |-> store.voted \union {u}]
              /\ past' = [in_time |-> past.in_time + (IF now <= Voting_proposal.end_ledger
                                                      THEN weight ELSE 0)]
              /\ now' = now
              /\ Voting_proposal # None
              /\ now <= Voting_proposal.end_ledger
              /\ u \notin store.voted
              /\ Voting_proposal # None
            BY <1>2, <2>4 DEF Voting_vote, Voting_vote_lib, WriteAnd, Voting_Inv, Voting_Types
        <3>2. Voting_Types'
            BY <1>2, <3>1, ContractAssumption DEF Voting_Inv, Voting_Types, Voting_proposal,
               Voting_Proposal
        <3>3. Voting_TallyInTime'
            BY <1>2, <3>1, ContractAssumption DEF Voting_Inv, Voting_Types, Voting_TallyInTime,
               Voting_proposal, Voting_tally, Voting_Proposal
        <3> QED BY <3>2, <3>3 DEF Voting_Inv
    <2> QED BY <2>1, <2>2, <2>3, <2>4
<1>3. Voting_Inv /\ UNCHANGED vars => Voting_Inv'
    BY DEF Voting_Inv, Voting_Types, Voting_TallyInTime, vars, Voting_proposal, Voting_tally
<1> QED BY <1>1, <1>2, <1>3

-----------------------------------------------------------------------------
(* proposal_id_collision.                                                  *)
\* A proposal and the votes for it.
Collision_Proposal == [payload : Payloads, votes : Nat]

Collision_Types ==
    /\ store = [next |-> store.next, proposals |-> store.proposals, numbered |-> store.numbered]
    /\ store.next \in Nat
    /\ store.numbered \in Seq(Collision_Proposal)
    /\ past \in [filed : Seq(Collision_Proposal)]

\* The numbered proposals are the filed ones, in the order of filing.
Collision_Numbered ==
    store.numbered = past.filed /\ store.next = Len(past.filed)

Collision_Inv == Collision_Types /\ Collision_Numbered /\ Collision_EachKeepsItsVotes

\* Every deployment is in Collision_Inv; a call of the corrected contract, or
\* none, stays in it.
LEMMA Collision_Correct ==
    /\ now = 0 /\ Collision_Init => Collision_Inv
    /\ Secure /\ Collision_Inv /\ Collision_Next => Collision_Inv'
    /\ Collision_Inv /\ UNCHANGED vars => Collision_Inv'
<1>1. now = 0 /\ Collision_Init => Collision_Inv
    BY ContractAssumption DEF Collision_Init, Collision_Inv, Collision_Types,
       Collision_Numbered, Collision_EachKeepsItsVotes, Collision_EachKeepsItsVotes,
       Collision_get, Collision_Proposal, Titles, Collision_Init
<1>2. ASSUME Secure, Collision_Inv, Collision_Next PROVE Collision_Inv'
    <2>1. PICK title \in Titles, payload \in Payloads, id \in 0..1 :
              Collision_propose(title, payload) \/ Collision_vote(id)
        BY <1>2, Zenon DEF Collision_Next, Lib, Secure
    <2>2. CASE Collision_propose(title, payload)
        <3>1. /\ store' = [next |-> store.next + 1, proposals |-> store.proposals,
                           numbered |-> Append(store.numbered, [payload |-> payload, votes |-> 0])]
              /\ past' = [filed |-> Append(past.filed, [payload |-> payload, votes |-> 0])]
              /\ Len(past.filed) < 2
            BY <1>2, <2>2 DEF Collision_propose, WriteAnd, Collision_Inv, Collision_Types
        <3> QED BY <1>2, <3>1, ContractAssumption DEF Collision_Inv, Collision_Types,
               Collision_Numbered, Collision_EachKeepsItsVotes, Collision_get,
               Collision_Proposal, Titles
    <2>3. CASE Collision_vote(id)
        <3>1. /\ store' = [next |-> store.next, proposals |-> store.proposals,
                           numbered |-> [store.numbered EXCEPT ![id + 1].votes = @ + 1]]
              /\ past' = [filed |-> [past.filed EXCEPT ![id + 1].votes = @ + 1]]
              /\ id < store.next
              /\ Collision_get(id).votes < 2
            BY <1>2, <2>3 DEF Collision_vote, WriteAnd, Collision_Inv, Collision_Types
        <3>2. Collision_Types'
            <4>1. id + 1 \in 1..Len(store.numbered) /\ store.numbered = past.filed
                BY <1>2, <3>1 DEF Collision_Inv, Collision_Types, Collision_Numbered
            <4>a. store.numbered[id + 1] \in Collision_Proposal
                BY <1>2, <4>1 DEF Collision_Inv, Collision_Types
            <4>2. [store.numbered[id + 1] EXCEPT !.votes = @ + 1] \in Collision_Proposal
                BY <4>a DEF Collision_Proposal
            <4>3. past.filed \in Seq(Collision_Proposal) /\ store.next \in Nat
                BY <1>2 DEF Collision_Inv, Collision_Types
            <4>4. [past.filed EXCEPT ![id + 1] =
                   [past.filed[id + 1] EXCEPT !.votes = @ + 1]] \in Seq(Collision_Proposal)
                BY <4>1, <4>2, <4>3
            <4> QED BY <3>1, <4>1, <4>3, <4>4 DEF Collision_Types
        <3>3. Collision_Numbered'
            BY <1>2, <3>1, ContractAssumption DEF Collision_Inv, Collision_Types,
               Collision_Numbered, Collision_EachKeepsItsVotes, Collision_get,
               Collision_Proposal, Titles
        <3>4. Collision_EachKeepsItsVotes'
            BY <1>2, <3>1, ContractAssumption DEF Collision_Inv, Collision_Types,
               Collision_Numbered, Collision_EachKeepsItsVotes, Collision_get,
               Collision_Proposal, Titles
        <3> QED BY <3>2, <3>3, <3>4 DEF Collision_Inv
    <2> QED BY <2>1, <2>2, <2>3
<1>3. Collision_Inv /\ UNCHANGED vars => Collision_Inv'
    BY DEF Collision_Inv, Collision_Types, Collision_Numbered, Collision_EachKeepsItsVotes,
       vars, Collision_get
<1> QED BY <1>1, <1>2, <1>3

-----------------------------------------------------------------------------
(* public_proposal_cancel.                                                 *)
\* A proposal and its proposer.
Cancel_Proposal == [proposer : Address, status : {"Active", "Canceled"}]

Cancel_Types ==
    /\ store \in [guardian : Address \cup {None}, proposals : [1..2 -> Cancel_Proposal \cup {None}]]
    /\ past \in [caller : Address \cup {None}]

Cancel_Inv == Cancel_Types

\* Every deployment is in Cancel_Inv; a call of the corrected contract, or
\* none, stays in it.
LEMMA Cancel_Correct ==
    /\ now = 0 /\ Cancel_Init => Cancel_Inv
    /\ Secure /\ Cancel_Inv /\ Cancel_Next => Cancel_Inv' /\ Cancel_ByItsOwn
    /\ Cancel_Inv /\ UNCHANGED vars => Cancel_Inv' /\ Cancel_ByItsOwn
<1>1. now = 0 /\ Cancel_Init => Cancel_Inv
    BY ContractAssumption DEF Cancel_Init, Cancel_Inv, Cancel_Types, Cancel_Proposal,
       Cancel_Init
<1>2. ASSUME Secure, Cancel_Inv, Cancel_Next PROVE Cancel_Inv' /\ Cancel_ByItsOwn
    <2>1. PICK u \in Address, id \in 1..2 :
              Cancel_init(u) \/ Cancel_create_proposal(u, id) \/ Cancel_cancel(u, id)
        BY <1>2, Zenon DEF Cancel_Next, Lib, Secure
    <2>2. CASE Cancel_init(u)
        <3>1. /\ store' = [guardian |-> u, proposals |-> [i \in 1..2 |-> None]]
              /\ past' = [caller |-> None]
            BY <1>2, <2>2 DEF Cancel_init, WriteAnd, Cancel_Inv, Cancel_Types
        <3> QED BY <1>2, <3>1, ContractAssumption DEF Cancel_Inv, Cancel_Types, Cancel_Proposal,
               Cancel_ByItsOwn, Cancel_get_status
    <2>3. CASE Cancel_create_proposal(u, id)
        <3>1. /\ store' = [guardian |-> store.guardian,
                           proposals |-> [store.proposals EXCEPT ![id] = [proposer |-> u,
                                 status |-> "Active"]]]
              /\ past' = past
            BY <1>2, <2>3 DEF Cancel_create_proposal, Write, Cancel_Inv, Cancel_Types
        <3> QED BY <1>2, <3>1, ContractAssumption DEF Cancel_Inv, Cancel_Types, Cancel_Proposal,
               Cancel_ByItsOwn, Cancel_get_status
    <2>4. CASE Cancel_cancel(u, id)
        <3>1. /\ store' = [guardian |-> store.guardian,
                           proposals |-> [store.proposals EXCEPT ![id].status = "Canceled"]]
              /\ past' = [caller |-> u]
              /\ store.guardian # None
              /\ store.proposals[id] # None
              /\ u \in {store.proposals[id].proposer, store.guardian}
              /\ store.proposals[id] # None
            BY <1>2, <2>4 DEF Cancel_cancel, Cancel_cancel_lib, WriteAnd, Cancel_Inv,
               Cancel_Types
        <3> QED BY <1>2, <3>1, ContractAssumption DEF Cancel_Inv, Cancel_Types, Cancel_Proposal,
               Cancel_ByItsOwn, Cancel_get_status
    <2> QED BY <2>1, <2>2, <2>3, <2>4
<1>3. Cancel_Inv /\ UNCHANGED vars => Cancel_Inv' /\ Cancel_ByItsOwn
    BY DEF Cancel_Inv, Cancel_Types, Cancel_ByItsOwn, vars, Cancel_get_status
<1> QED BY <1>1, <1>2, <1>3

-----------------------------------------------------------------------------
(* scanner_impersonation.                                                  *)
\* One scan of a scanner's history.
Imper_Scan == [scanner : Address, timestamp : Nat, findings : ScanFindings]

Imper_Types ==
    /\ now \in Nat
    /\ store \in [admin : Address \cup {None}, scanners : SUBSET Address,
                  latest : Imper_Scan \cup {None}, history : Seq(Imper_Scan)]
    /\ past \in [signed : Seq(Address)]

\* No scan is dated in the future.
Imper_UpToNow ==
    \A i \in DOMAIN store.history : store.history[i].timestamp <= now

Imper_Inv == Imper_Types /\ Imper_UpToNow /\ Imper_HistoryIsSigned

\* Every deployment is in Imper_Inv; a call of the corrected contract, or none,
\* stays in it.
LEMMA Imper_Correct ==
    /\ now = 0 /\ Imper_Init => Imper_Inv
    /\ Secure /\ Imper_Inv /\ Imper_Next => Imper_Inv'
    /\ Imper_Inv /\ UNCHANGED vars => Imper_Inv'
<1>1. now = 0 /\ Imper_Init => Imper_Inv
    BY ContractAssumption DEF Imper_Init, Imper_Inv, Imper_Types, Imper_UpToNow,
       Imper_HistoryIsSigned, Imper_HistoryIsSigned, Imper_get_history, Imper_get_scan,
       Imper_Scan, Imper_Init
<1>2. ASSUME Secure, Imper_Inv, Imper_Next PROVE Imper_Inv'
    <2>1. \/ CloseLedger
          \/ \E signer \in Address, u \in Address,
             findings \in ScanFindings : Imper_initialize(u) \/ Imper_add_scanner(signer, u) \/
             Imper_submit_scan(signer, u, findings)
        BY <1>2, Zenon DEF Imper_Next, Lib, Secure
    <2>2. CASE CloseLedger
        <3>1. /\ store' = store
              /\ past' = past
              /\ now' = now + 1
            BY <1>2, <2>2 DEF CloseLedger, Imper_Inv, Imper_Types
        <3>2. Imper_Types'
            BY <1>2, <3>1, ContractAssumption DEF Imper_Inv, Imper_Types, Imper_Scan
        <3>3. Imper_UpToNow'
            <4> SUFFICES ASSUME NEW i \in DOMAIN store.history
                    PROVE store.history[i].timestamp <= now + 1
                BY <3>1 DEF Imper_UpToNow
            <4>1. store.history[i].timestamp <= now
                BY <1>2 DEF Imper_Inv, Imper_UpToNow
            <4>2. store.history[i] \in Imper_Scan /\ now \in Nat
                BY <1>2 DEF Imper_Inv, Imper_Types
            <4> QED BY <4>1, <4>2 DEF Imper_Scan
        <3>4. Imper_HistoryIsSigned'
            BY <1>2, <3>1, ContractAssumption DEF Imper_Inv, Imper_Types, Imper_UpToNow,
               Imper_HistoryIsSigned, Imper_get_history, Imper_get_scan, Imper_Scan
        <3> QED BY <3>2, <3>3, <3>4 DEF Imper_Inv
    <2>3. ASSUME NEW signer \in Address, NEW u \in Address, NEW findings \in ScanFindings,
                 Imper_initialize(u)
          PROVE  Imper_Inv'
        <3>1. /\ store' = [admin |-> u, scanners |-> store.scanners, latest |-> store.latest,
                           history |-> store.history]
              /\ past' = past
              /\ now' = now
              /\ store.admin = None
            BY <1>2, <2>3 DEF Imper_initialize, Write, Imper_Inv, Imper_Types
        <3> QED BY <1>2, <3>1, ContractAssumption DEF Imper_Inv, Imper_Types, Imper_UpToNow,
               Imper_HistoryIsSigned, Imper_get_history, Imper_get_scan, Imper_Scan
    <2>4. ASSUME NEW signer \in Address, NEW u \in Address, NEW findings \in ScanFindings,
                 Imper_add_scanner(signer, u)
          PROVE  Imper_Inv'
        <3>1. /\ store' = [admin |-> store.admin, scanners |-> store.scanners \union {u},
                           latest |-> store.latest, history |-> store.history]
              /\ past' = past
              /\ now' = now
              /\ Imper_require_admin(signer)
            BY <1>2, <2>4 DEF Imper_add_scanner, Write, Imper_Inv, Imper_Types
        <3> QED BY <1>2, <3>1, ContractAssumption DEF Imper_Inv, Imper_Types, Imper_UpToNow,
               Imper_HistoryIsSigned, Imper_get_history, Imper_get_scan, Imper_Scan,
               Imper_require_admin
    <2>5. ASSUME NEW signer \in Address, NEW u \in Address, NEW findings \in ScanFindings,
                 Imper_submit_scan(signer, u, findings)
          PROVE  Imper_Inv'
        <3>1. /\ store' = [admin |-> store.admin, scanners |-> store.scanners,
                           latest |-> [scanner |-> u, timestamp |-> now, findings |-> findings],
                           history |-> Append(store.history,
                                              [scanner |-> u, timestamp |-> now,
                                               findings |-> findings])]
              /\ past' = [signed |-> Append(past.signed, signer)]
              /\ now' = now
              /\ signer = u
              /\ Imper_is_scanner(u)
              /\ Len(store.history) < MaxScans
            BY <1>2, <2>5 DEF Imper_submit_scan, Imper_submit_scan_lib, WriteAnd, Imper_Inv,
               Imper_Types
        <3> QED BY <1>2, <3>1, ContractAssumption DEF Imper_Inv, Imper_Types, Imper_UpToNow,
               Imper_HistoryIsSigned, Imper_get_history, Imper_get_scan, Imper_Scan,
               Imper_is_scanner, MaxScans
    <2> QED BY <2>1, <2>2, <2>3, <2>4, <2>5
<1>3. Imper_Inv /\ UNCHANGED vars => Imper_Inv'
    BY DEF Imper_Inv, Imper_Types, Imper_UpToNow, Imper_HistoryIsSigned, vars,
       Imper_get_history, Imper_get_scan
<1> QED BY <1>1, <1>2, <1>3

-----------------------------------------------------------------------------
(* scanner_fee_unverified.                                                 *)
Fee_Types ==
    /\ store \in [token : FeeTokens \cup {None}, registered : SUBSET Address,
                  balance : [FeeTokens -> [Address -> Int]], collected : [FeeTokens -> Int]]
    /\ past \in [received : [Address -> Nat]]

Fee_Inv == Fee_Types /\ Fee_ArrivedInFull

\* Every deployment is in Fee_Inv; a call of the corrected contract, or none,
\* stays in it.
LEMMA Fee_Correct ==
    /\ now = 0 /\ Fee_Init => Fee_Inv
    /\ Secure /\ Fee_Inv /\ Fee_Next => Fee_Inv'
    /\ Fee_Inv /\ UNCHANGED vars => Fee_Inv'
<1>1. now = 0 /\ Fee_Init => Fee_Inv
    BY ContractAssumption DEF Fee_Init, Fee_Inv, Fee_Types, Fee_ArrivedInFull,
       Fee_ArrivedInFull, Fee_is_registered, REGISTRATION_FEE, Fee_arrives, Zero, Quotient,
       Fee_Init
<1>2. ASSUME Secure, Fee_Inv, Fee_Next PROVE Fee_Inv'
    <2>1. PICK t \in FeeTokens, u \in Address :
              Fee_mint(t, u, REGISTRATION_FEE) \/ Fee_initialize(t) \/ Fee_register_scanner(u)
        BY <1>2, Zenon DEF Fee_Next, Lib, Secure
    <2>2. CASE Fee_mint(t, u, REGISTRATION_FEE)
        <3>1. /\ store' = [token |-> store.token, registered |-> store.registered,
                           balance |-> [store.balance EXCEPT ![t][u] = REGISTRATION_FEE],
                           collected |-> store.collected]
              /\ past' = past
              /\ store.balance[t][u] = 0
              /\ past.received[u] < REGISTRATION_FEE
            BY <1>2, <2>2 DEF Fee_mint, Write, Fee_Inv, Fee_Types
        <3> QED BY <1>2, <3>1, ContractAssumption DEF Fee_Inv, Fee_Types, Fee_ArrivedInFull,
               Fee_is_registered, REGISTRATION_FEE, Fee_arrives, Zero, Quotient
    <2>3. CASE Fee_initialize(t)
        <3>1. /\ store' = [token |-> t, registered |-> store.registered, balance |-> store.balance,
                           collected |-> store.collected]
              /\ past' = past
            BY <1>2, <2>3 DEF Fee_initialize, Write, Fee_Inv, Fee_Types
        <3> QED BY <1>2, <3>1, ContractAssumption DEF Fee_Inv, Fee_Types, Fee_ArrivedInFull,
               Fee_is_registered, REGISTRATION_FEE, Fee_arrives, Zero, Quotient
    <2>4. CASE Fee_register_scanner(u)
        <3>1. /\ store' = [token |-> store.token, registered |-> store.registered \union {u},
                           balance |-> [store.balance EXCEPT ![store.token][u] =
                                        @ - REGISTRATION_FEE],
                           collected |-> [store.collected EXCEPT ![store.token] =
                                          @ + Fee_arrives(store.token,
                                 REGISTRATION_FEE)]]
              /\ past' = [received |-> [past.received EXCEPT ![u] = @ + Fee_arrives(store.token,
                    REGISTRATION_FEE)]]
              /\ store.token # None
              /\ Fee_arrives(store.token, REGISTRATION_FEE) >= REGISTRATION_FEE
              /\ store.balance[store.token][u] >= REGISTRATION_FEE
            BY <1>2, <2>4 DEF Fee_register_scanner, Fee_transfer, WriteAnd, Fee_Inv, Fee_Types
        <3>2. Fee_Types'
            BY <1>2, <3>1, ContractAssumption DEF Fee_Inv, Fee_Types, REGISTRATION_FEE,
               Fee_arrives, Quotient, Whole, Zero
        <3>3. Fee_ArrivedInFull'
            BY <1>2, <3>1, ContractAssumption DEF Fee_Inv, Fee_Types, Fee_ArrivedInFull,
               Fee_is_registered, REGISTRATION_FEE, Fee_arrives, Zero, Quotient, Whole
        <3> QED BY <3>2, <3>3 DEF Fee_Inv
    <2> QED BY <2>1, <2>2, <2>3, <2>4
<1>3. Fee_Inv /\ UNCHANGED vars => Fee_Inv'
    BY DEF Fee_Inv, Fee_Types, Fee_ArrivedInFull, vars, Fee_is_registered
<1> QED BY <1>1, <1>2, <1>3

-----------------------------------------------------------------------------
(* public_archive_restore.                                                 *)
Archive_Types ==
    /\ store \in [admin : Address \cup {None}, active : BOOLEAN \cup {None}]
    /\ past \in [by : Address \cup {None}]

\* Before initialize there is no active record.
Archive_NoAdminNoRecord ==
    store.admin = None => store.active = None

Archive_Inv == Archive_Types /\ Archive_NoAdminNoRecord /\ Archive_ActiveByAdmin

\* Every deployment is in Archive_Inv; a call of the corrected contract, or
\* none, stays in it.
LEMMA Archive_Correct ==
    /\ now = 0 /\ Archive_Init => Archive_Inv
    /\ Secure /\ Archive_Inv /\ Archive_Next => Archive_Inv'
    /\ Archive_Inv /\ UNCHANGED vars => Archive_Inv'
<1>1. now = 0 /\ Archive_Init => Archive_Inv
    BY ContractAssumption DEF Archive_Init, Archive_Inv, Archive_Types, Archive_NoAdminNoRecord,
       Archive_ActiveByAdmin, Archive_ActiveByAdmin, Archive_is_active, Archive_get_admin,
       Archive_Init
<1>2. ASSUME Secure, Archive_Inv, Archive_Next PROVE Archive_Inv'
    <2>1. PICK u \in Address :
              Archive_initialize(u) \/ Archive_register(u) \/ Archive_archive(u) \/
              Archive_restore(u)
        BY <1>2, Zenon DEF Archive_Next, Lib, Secure
    <2>2. CASE Archive_initialize(u)
        <3>1. /\ store' = [admin |-> u, active |-> store.active]
              /\ past' = past
              /\ store.admin = None
            BY <1>2, <2>2 DEF Archive_initialize, Write, Archive_Inv, Archive_Types
        <3>2. Archive_Types'
            BY <1>2, <3>1, ContractAssumption DEF Archive_Inv, Archive_Types
        <3>3. Archive_NoAdminNoRecord'
            BY <1>2, <3>1, ContractAssumption DEF Archive_Inv, Archive_Types,
               Archive_NoAdminNoRecord, Archive_ActiveByAdmin, Archive_is_active,
               Archive_get_admin
        <3>4. Archive_ActiveByAdmin'
            BY <1>2, <3>1, ContractAssumption DEF Archive_Inv, Archive_Types,
               Archive_NoAdminNoRecord, Archive_ActiveByAdmin, Archive_is_active,
               Archive_get_admin
        <3> QED BY <3>2, <3>3, <3>4 DEF Archive_Inv
    <2>3. CASE Archive_register(u)
        <3>1. /\ store' = [admin |-> store.admin, active |-> TRUE]
              /\ past' = [by |-> u]
              /\ Archive_require_admin_lib(u)
            BY <1>2, <2>3 DEF Archive_register, Archive_set, WriteAnd, Archive_Inv,
               Archive_Types
        <3> QED BY <1>2, <3>1, ContractAssumption DEF Archive_Inv, Archive_Types,
               Archive_NoAdminNoRecord, Archive_ActiveByAdmin, Archive_is_active,
               Archive_get_admin, Archive_require_admin_lib, Archive_require_admin
    <2>4. CASE Archive_archive(u)
        <3>1. /\ store' = [admin |-> store.admin, active |-> FALSE]
              /\ past' = [by |-> u]
              /\ Archive_require_admin_lib(u)
            BY <1>2, <2>4 DEF Archive_archive, Archive_set, WriteAnd, Archive_Inv, Archive_Types
        <3> QED BY <1>2, <3>1, ContractAssumption DEF Archive_Inv, Archive_Types,
               Archive_NoAdminNoRecord, Archive_ActiveByAdmin, Archive_is_active,
               Archive_get_admin, Archive_require_admin_lib, Archive_require_admin
    <2>5. CASE Archive_restore(u)
        <3>1. /\ store' = [admin |-> store.admin, active |-> TRUE]
              /\ past' = [by |-> u]
              /\ Archive_require_admin(u)
            BY <1>2, <2>5 DEF Archive_restore, Archive_restore_lib, Archive_set, WriteAnd,
               Archive_Inv, Archive_Types
        <3> QED BY <1>2, <3>1, ContractAssumption DEF Archive_Inv, Archive_Types,
               Archive_NoAdminNoRecord, Archive_ActiveByAdmin, Archive_is_active,
               Archive_get_admin, Archive_require_admin
    <2> QED BY <2>1, <2>2, <2>3, <2>4, <2>5
<1>3. Archive_Inv /\ UNCHANGED vars => Archive_Inv'
    BY DEF Archive_Inv, Archive_Types, Archive_NoAdminNoRecord, Archive_ActiveByAdmin, vars,
       Archive_is_active, Archive_get_admin
<1> QED BY <1>1, <1>2, <1>3

-----------------------------------------------------------------------------
(* verifier_threshold_ignored.                                             *)
Threshold_Types ==
    /\ store \in [threshold : Int \cup {None}, approvals : Nat, finalized : BOOLEAN]
    /\ past \in [final : [approvals : Nat, threshold : Int] \cup {None}]

\* A threshold that is set is positive.
Threshold_Positive ==
    store.threshold # None => store.threshold > 0

Threshold_Inv == Threshold_Types /\ Threshold_Positive /\ Threshold_FinalIsApproved

\* Every deployment is in Threshold_Inv; a call of the corrected contract, or
\* none, stays in it.
LEMMA Threshold_Correct ==
    /\ now = 0 /\ Threshold_Init => Threshold_Inv
    /\ Secure /\ Threshold_Inv /\ Threshold_Next => Threshold_Inv'
    /\ Threshold_Inv /\ UNCHANGED vars => Threshold_Inv'
<1>1. now = 0 /\ Threshold_Init => Threshold_Inv
    BY ContractAssumption DEF Threshold_Init, Threshold_Inv, Threshold_Types,
       Threshold_Positive, Threshold_FinalIsApproved, Threshold_FinalIsApproved,
       Threshold_is_finalized, Threshold_Init
<1>2. ASSUME Secure, Threshold_Inv, Threshold_Next PROVE Threshold_Inv'
    <2>1. PICK n \in 0..3 :
              Threshold_set_threshold(n) \/ Threshold_approve \/ Threshold_finalize_report
        BY <1>2, Zenon DEF Threshold_Next, Lib, Secure
    <2>2. CASE Threshold_set_threshold(n)
        <3>1. /\ store' = [threshold |-> n, approvals |-> store.approvals,
                           finalized |-> store.finalized]
              /\ past' = past
              /\ n # 0
            BY <1>2, <2>2 DEF Threshold_set_threshold, Threshold_set_threshold_lib, Write,
               Threshold_Inv, Threshold_Types
        <3> QED BY <1>2, <3>1, ContractAssumption DEF Threshold_Inv, Threshold_Types,
               Threshold_Positive, Threshold_FinalIsApproved, Threshold_is_finalized
    <2>3. CASE Threshold_approve
        <3>1. /\ store' = [threshold |-> store.threshold, approvals |-> store.approvals + 1,
                           finalized |-> store.finalized]
              /\ past' = past
              /\ store.approvals < 3
            BY <1>2, <2>3 DEF Threshold_approve, Write, Threshold_Inv, Threshold_Types
        <3> QED BY <1>2, <3>1, ContractAssumption DEF Threshold_Inv, Threshold_Types,
               Threshold_Positive, Threshold_FinalIsApproved, Threshold_is_finalized
    <2>4. CASE Threshold_finalize_report
        <3>1. /\ store' = [threshold |-> store.threshold, approvals |-> store.approvals,
                           finalized |-> TRUE]
              /\ past' = [final |-> [approvals |-> Threshold_approval_count,
                                     threshold |-> store.threshold]]
              /\ store.threshold # None
              /\ Threshold_approval_count >= store.threshold
            BY <1>2, <2>4 DEF Threshold_finalize_report, Threshold_finalized, WriteAnd,
               Threshold_Inv, Threshold_Types
        <3> QED BY <1>2, <3>1, ContractAssumption DEF Threshold_Inv, Threshold_Types,
               Threshold_Positive, Threshold_FinalIsApproved, Threshold_is_finalized,
               Threshold_approval_count
    <2> QED BY <2>1, <2>2, <2>3, <2>4
<1>3. Threshold_Inv /\ UNCHANGED vars => Threshold_Inv'
    BY DEF Threshold_Inv, Threshold_Types, Threshold_Positive, Threshold_FinalIsApproved, vars,
       Threshold_is_finalized
<1> QED BY <1>1, <1>2, <1>3

-----------------------------------------------------------------------------
(* severity_reporter_trust.                                                *)
Trust_Types ==
    /\ store \in [reputation : [Address -> Int], risk : Int]
    /\ past \in [by : Int \cup {None}]

Trust_Inv == Trust_Types /\ Trust_RiskFromReputed

\* Every deployment is in Trust_Inv; a call of the corrected contract, or none,
\* stays in it.
LEMMA Trust_Correct ==
    /\ now = 0 /\ Trust_Init => Trust_Inv
    /\ Secure /\ Trust_Inv /\ Trust_Next => Trust_Inv'
    /\ Trust_Inv /\ UNCHANGED vars => Trust_Inv'
<1>1. now = 0 /\ Trust_Init => Trust_Inv
    BY ContractAssumption DEF Trust_Init, Trust_Inv, Trust_Types, Trust_RiskFromReputed,
       Trust_RiskFromReputed, MIN_REPUTATION, Trust_get_risk, Trust_Init, Zero
<1>2. ASSUME Secure, Trust_Inv, Trust_Next PROVE Trust_Inv'
    <2>1. PICK u \in Address, delta \in {-1, 1}, severity \in {0, 4}, n \in {-1, 2, 5} :
              Trust_add_reputation(u, delta) \/ Trust_report(u, severity)
        BY <1>2, Zenon DEF Trust_Next, Lib, Secure
    <2>2. CASE Trust_add_reputation(u, delta)
        <3>1. /\ store' = [reputation |-> [store.reputation EXCEPT ![u] = @ + delta],
                           risk |-> store.risk]
              /\ past' = past
              /\ store.reputation[u] + delta \in -1..2
            BY <1>2, <2>2 DEF Trust_add_reputation, Write, Trust_Inv, Trust_Types
        <3> QED BY <1>2, <3>1, ContractAssumption DEF Trust_Inv, Trust_Types,
               Trust_RiskFromReputed, MIN_REPUTATION, Trust_get_risk
    <2>3. CASE Trust_report(u, severity)
        <3>1. /\ store' = [reputation |-> store.reputation, risk |-> severity]
              /\ past' = [by |-> Trust_get_reputation(u)]
              /\ Trust_get_reputation(u) >= MIN_REPUTATION
            BY <1>2, <2>3 DEF Trust_report, Trust_report_lib, WriteAnd, Trust_Inv, Trust_Types
        <3> QED BY <1>2, <3>1, ContractAssumption DEF Trust_Inv, Trust_Types,
               Trust_RiskFromReputed, MIN_REPUTATION, Trust_get_risk, Trust_get_reputation
    <2> QED BY <2>1, <2>2, <2>3
<1>3. Trust_Inv /\ UNCHANGED vars => Trust_Inv'
    BY DEF Trust_Inv, Trust_Types, Trust_RiskFromReputed, vars, Trust_get_risk
<1> QED BY <1>1, <1>2, <1>3

-----------------------------------------------------------------------------
(* report_hash_unbound_contract.                                           *)
\* What a scanner signs for one report.
Unbound_Message == [target : ReportTargets, scanner : Address, hash : ReportHashes]

Unbound_Types ==
    /\ store \in [report : [ReportTargets -> ReportHashes \cup {None}]]
    /\ past \in [made : SUBSET Unbound_Message, wrong : BOOLEAN]

Unbound_Inv == Unbound_Types /\ Unbound_ReportsAsSigned

\* Every deployment is in Unbound_Inv; a call of the corrected contract, or
\* none, stays in it.
LEMMA Unbound_Correct ==
    /\ now = 0 /\ Unbound_Init => Unbound_Inv
    /\ Secure /\ Unbound_Inv /\ Unbound_Next => Unbound_Inv'
    /\ Unbound_Inv /\ UNCHANGED vars => Unbound_Inv'
<1>1. ASSUME now = 0, Unbound_Init PROVE Unbound_Inv
    <2>1. Unbound_Types
        BY <1>1, ContractAssumption DEF Unbound_Init, Unbound_Types, ReportTargets,
           Unbound_ReportsAsSigned, Unbound_get_report, Unbound_Message
    <2>2. Unbound_ReportsAsSigned
        BY <1>1, ContractAssumption DEF Unbound_Init, Unbound_ReportsAsSigned, ReportTargets,
           Unbound_get_report, Unbound_Message
    <2> QED BY <2>1, <2>2 DEF Unbound_Inv
<1>2. ASSUME Secure, Unbound_Inv, Unbound_Next PROVE Unbound_Inv'
    <2>1. PICK m \in Unbound_Message, signed \in Unbound_Message :
              Unbound_report_signature(m) \/
              (signed \in past.made /\
               Unbound_submit_report(m, Unbound_secure_report_signature(signed)))
        BY <1>2, Zenon DEF Unbound_Next, Lib, Secure, Unbound_Message
    <2>2. CASE Unbound_report_signature(m)
        <3>1. /\ store' = store
              /\ past' = [made |-> past.made \cup {m}, wrong |-> past.wrong]
            BY <1>2, <2>2 DEF Unbound_report_signature, Observe, Unbound_Inv, Unbound_Types
        <3> QED BY <1>2, <3>1, ContractAssumption DEF Unbound_Inv, Unbound_Types,
               Unbound_ReportsAsSigned, Unbound_get_report, Unbound_Message
    <2>3. CASE (signed \in past.made /\
                Unbound_submit_report(m, Unbound_secure_report_signature(signed)))
        <3>1. /\ store' = [report |-> [store.report EXCEPT ![m.target] = m.hash]]
              /\ past' = [made |-> past.made, wrong |-> past.wrong \/ m \notin past.made]
              /\ signed \in past.made
              /\ Unbound_secure_report_signature(signed) = Unbound_secure_report_signature(m)
            BY <1>2, <2>3 DEF Unbound_submit_report, Unbound_store, WriteAnd, Unbound_Inv,
               Unbound_Types
        <3> QED BY <1>2, <3>1, ContractAssumption DEF Unbound_Inv, Unbound_Types,
               Unbound_ReportsAsSigned, Unbound_get_report, Unbound_Message,
               Unbound_secure_report_signature
    <2> QED BY <2>1, <2>2, <2>3
<1>3. Unbound_Inv /\ UNCHANGED vars => Unbound_Inv'
    BY DEF Unbound_Inv, Unbound_Types, Unbound_ReportsAsSigned, vars, Unbound_get_report
<1> QED BY <1>1, <1>2, <1>3

-----------------------------------------------------------------------------
(* admin_timelock_rewrite.                                                 *)
\* A queued action with the delay it was queued under.
Timelock_Action == [payload : Payloads, nonce : Nat, at : Nat, delay : Nat]

\* What ran, what had been asked for and how long it waited.
Timelock_Run == [asked : Payloads, payload : Payloads, waited : Int]

Timelock_Types ==
    /\ now \in Nat
    /\ store \in [admin : Address \cup {None}, delay : Nat, nonce : Nat,
                  queued : SUBSET Timelock_Action]
    /\ past \in [since : [Payloads -> Nat \cup {None}], ran : Timelock_Run \cup {None}]

\* The latest queued action still carries the ledger of its queueing: no
\* rewrite moved it.
Timelock_LatestIsSince ==
    \A q \in store.queued :
        /\ q.nonce <= store.nonce /\ q.delay = store.delay
        /\ q.nonce = store.nonce => past.since[q.payload] = q.at

\* Before initialize nothing is queued and nothing ran.
Timelock_UnsetIsEmpty ==
    store.admin = None => store.queued = {} /\ past.ran = None

Timelock_Inv == Timelock_Types /\ Timelock_LatestIsSince /\ Timelock_UnsetIsEmpty /\
    Timelock_RunsWhatWasReviewed

\* Every deployment is in Timelock_Inv; a call of the corrected contract, or
\* none, stays in it.
LEMMA Timelock_Correct ==
    /\ now = 0 /\ Timelock_Init => Timelock_Inv
    /\ Secure /\ Timelock_Inv /\ Timelock_Next => Timelock_Inv'
    /\ Timelock_Inv /\ UNCHANGED vars => Timelock_Inv'
<1>1. now = 0 /\ Timelock_Init => Timelock_Inv
    BY ContractAssumption, SoloAccount DEF Timelock_Init, Timelock_Inv, Timelock_Types,
       Timelock_LatestIsSince, Timelock_UnsetIsEmpty, Timelock_RunsWhatWasReviewed,
       Timelock_RunsWhatWasReviewed, ActionDelay, Timelock_Action, Timelock_Run, Timelock_Init
<1>2. ASSUME Secure, Timelock_Inv, Timelock_Next PROVE Timelock_Inv'
    <2>1. \/ CloseLedger
          \/ \E u \in Solo, p \in Payloads : Timelock_initialize(u, ActionDelay) \/
             Timelock_queue_action(p) \/ Timelock_execute_action(p)
        BY <1>2, Zenon DEF Timelock_Next, Lib, Secure
    <2>2. CASE CloseLedger
        <3>1. /\ store' = store
              /\ past' = past
              /\ now' = now + 1
            BY <1>2, <2>2 DEF CloseLedger, Timelock_Inv, Timelock_Types
        <3> QED BY <1>2, <3>1, ContractAssumption, SoloAccount DEF Timelock_Inv, Timelock_Types,
               Timelock_LatestIsSince, Timelock_UnsetIsEmpty, Timelock_RunsWhatWasReviewed,
               ActionDelay, Timelock_Action, Timelock_Run
    <2>3. ASSUME NEW u \in Solo, NEW p \in Payloads,
                 Timelock_initialize(u, ActionDelay)
          PROVE  Timelock_Inv'
        <3>1. /\ store' = [admin |-> u, delay |-> ActionDelay, nonce |-> store.nonce,
                           queued |-> store.queued]
              /\ past' = past
              /\ now' = now
              /\ store.admin = None
            BY <1>2, <2>3 DEF Timelock_initialize, Write, Timelock_Inv, Timelock_Types
        <3> QED BY <1>2, <3>1, ContractAssumption, SoloAccount DEF Timelock_Inv, Timelock_Types,
               Timelock_LatestIsSince, Timelock_UnsetIsEmpty, Timelock_RunsWhatWasReviewed,
               ActionDelay, Timelock_Action, Timelock_Run
    <2>4. ASSUME NEW u \in Solo, NEW p \in Payloads,
                 Timelock_queue_action(p)
          PROVE  Timelock_Inv'
        <3>1. /\ store' = [admin |-> store.admin, delay |-> store.delay, nonce |-> store.nonce + 1,
                           queued |-> store.queued \union {[payload |-> p,
                                                            nonce |-> store.nonce + 1, at |-> now,
                                                            delay |-> store.delay]}]
              /\ past' = [since |-> [past.since EXCEPT ![p] = now], ran |-> past.ran]
              /\ now' = now
              /\ Timelock_get_admin # None
              /\ store.nonce < MaxActionNonce
            BY <1>2, <2>4 DEF Timelock_queue_action, WriteAnd, Timelock_Inv, Timelock_Types
        <3> QED BY <1>2, <3>1, ContractAssumption, SoloAccount DEF Timelock_Inv, Timelock_Types,
               Timelock_LatestIsSince, Timelock_UnsetIsEmpty, Timelock_RunsWhatWasReviewed,
               ActionDelay, Timelock_Action, Timelock_Run, Timelock_get_admin, MaxActionNonce
    <2>5. ASSUME NEW u \in Solo, NEW p \in Payloads,
                 Timelock_execute_action(p)
          PROVE  Timelock_Inv'
        <3>1. PICK q \in store.queued :
                  q.payload = p /\ q.nonce = store.nonce /\ Timelock_execution(q, p)
            BY <2>5 DEF Timelock_execute_action, Timelock_get_queued_action
        <3>2. /\ store' = [admin |-> store.admin, delay |-> store.delay, nonce |-> store.nonce,
                           queued |-> store.queued \ {q}]
              /\ past' = [since |-> past.since,
                          ran |-> [asked |-> p, payload |-> q.payload,
                                   waited |-> now - past.since[q.payload]]]
              /\ now' = now /\ now >= q.at + q.delay /\ store.admin # None
            BY <1>2, <2>5, <3>1 DEF Timelock_execute_action, Timelock_get_admin, Timelock_execution,
               WriteAnd, Timelock_Inv, Timelock_Types
        <3>3. /\ q \in Timelock_Action /\ past.since[q.payload] = q.at /\ q.delay = store.delay
              /\ store.delay \in Nat /\ now \in Nat
            BY <1>2, <3>1 DEF Timelock_Inv, Timelock_Types, Timelock_LatestIsSince
        <3>4. q.at \in Nat /\ q.payload = p /\ now - q.at \in Int /\ now - q.at >= store.delay
            BY <3>1, <3>2, <3>3 DEF Timelock_Action
        <3>5. Timelock_Types'
            BY <1>2, <3>2, <3>3, <3>4 DEF Timelock_Inv, Timelock_Types, Timelock_Run
        <3>6. Timelock_LatestIsSince' /\ Timelock_UnsetIsEmpty'
            BY <1>2, <3>2 DEF Timelock_Inv, Timelock_LatestIsSince, Timelock_UnsetIsEmpty
        <3>7. Timelock_RunsWhatWasReviewed'
            BY <3>2, <3>3, <3>4 DEF Timelock_RunsWhatWasReviewed
        <3> QED BY <3>5, <3>6, <3>7 DEF Timelock_Inv
    <2> QED BY <2>1, <2>2, <2>3, <2>4, <2>5
<1>3. Timelock_Inv /\ UNCHANGED vars => Timelock_Inv'
    BY DEF Timelock_Inv, Timelock_Types, Timelock_LatestIsSince, Timelock_UnsetIsEmpty,
       Timelock_RunsWhatWasReviewed, vars
<1> QED BY <1>1, <1>2, <1>3

-----------------------------------------------------------------------------
(* scan_result_overwrite.                                                  *)
\* One scan result.
Worst_Result == [severity : Int, detail : Nat]

Worst_Types ==
    /\ store \in [latest : Worst_Result \cup {None}, highest : Worst_Result \cup {None},
                  history : Seq(Worst_Result)]
    /\ past \in [submitted : Seq(Worst_Result)]

\* There is no highest result before the first submission.
Worst_NoneYet ==
    Len(past.submitted) = 0 => store.highest = None

\* The history is the end of what was submitted.
Worst_Window ==
    Window(store.history, past.submitted, HISTORY_CAP)

Worst_Inv == Worst_Types /\ Worst_NoneYet /\ Worst_Window /\ Worst_NeverForgotten

\* Every deployment is in Worst_Inv; a call of the corrected contract, or none,
\* stays in it.
LEMMA Worst_Correct ==
    /\ now = 0 /\ Worst_Init => Worst_Inv
    /\ Secure /\ Worst_Inv /\ Worst_Next => Worst_Inv'
    /\ Worst_Inv /\ UNCHANGED vars => Worst_Inv'
<1>1. ASSUME now = 0, Worst_Init PROVE Worst_Inv
    <2>1. Worst_Types
        BY <1>1, ContractAssumption DEF Worst_Init, Worst_Types, HISTORY_CAP,
           Worst_NeverForgotten, Worst_latest, Worst_rank, Worst_highest, Worst_history, Window,
           Worst_Result
    <2>2. Worst_NoneYet
        BY <1>1, ContractAssumption DEF Worst_Init, Worst_NoneYet, HISTORY_CAP,
           Worst_NeverForgotten, Worst_latest, Worst_rank, Worst_highest, Worst_history, Window,
           Worst_Result
    <2>3. Worst_Window
        BY <1>1, ContractAssumption DEF Worst_Init, Worst_Window, HISTORY_CAP,
           Worst_NeverForgotten, Worst_latest, Worst_rank, Worst_highest, Worst_history, Window,
           Worst_Result
    <2>4. Worst_NeverForgotten
        BY <1>1, ContractAssumption DEF Worst_Init, Worst_NeverForgotten, HISTORY_CAP,
           Worst_latest, Worst_rank, Worst_highest, Worst_history, Window, Worst_Result
    <2> QED BY <2>1, <2>2, <2>3, <2>4 DEF Worst_Inv
<1>2. ASSUME Secure, Worst_Inv, Worst_Next PROVE Worst_Inv'
    <2>1. PICK severity \in {0, 2, 4}, n \in 0..1 : Worst_submit(severity)
        BY <1>2, Zenon DEF Worst_Next, Lib, Secure
    <2>2. CASE Worst_submit(severity)
        <3> DEFINE result == [severity |-> severity, detail |-> Len(past.submitted)]
                   all == past.submitted
                   h == store.history
                   kept == IF Len(h) >= HISTORY_CAP THEN Tail(h) ELSE h
                   worse == store.highest = None \/ severity >= store.highest.severity
        <3>1. /\ store' = [latest |-> result, highest |-> IF worse THEN result ELSE store.highest,
                           history |-> Append(kept, result)]
              /\ past' = [submitted |-> Append(all, result)]
            BY <2>2 DEF Worst_submit, Worst_rank, WriteAnd
        <3>2. /\ all \in Seq(Worst_Result) /\ h \in Seq(Worst_Result)
              /\ store.highest \in Worst_Result \cup {None}
            BY <1>2 DEF Worst_Inv, Worst_Types
        <3>3. result \in Worst_Result /\ severity \in Int /\ result.severity = severity
            BY <3>2 DEF Worst_Result
        <3>4. kept \in Seq(Worst_Result)
            BY <3>2 DEF HISTORY_CAP
        <3>5. store'.highest \in Worst_Result
            BY <3>1, <3>2, <3>3
        <3> HIDE DEF result
        <3>6. Worst_Types'
            BY <3>1, <3>2, <3>3, <3>4, <3>5 DEF Worst_Types
        <3>7. Worst_Window'
            <4>1. HISTORY_CAP \in Nat \ {0}
                BY DEF HISTORY_CAP
            <4>2. Window(store.history, past.submitted, HISTORY_CAP)
                BY <1>2 DEF Worst_Inv, Worst_Window
            <4>3. Window(Append(IF Len(store.history) >= HISTORY_CAP THEN Tail(store.history)
                                ELSE store.history,
                                result),
                         Append(past.submitted, result), HISTORY_CAP)
                BY <3>2, <3>3, <4>1, <4>2, WindowMoves
            <4> QED BY <3>1, <4>3 DEF Worst_Window
        <3>8. Worst_NeverForgotten'
            <4> DEFINE new == Append(all, result)
                       top == IF worse THEN result ELSE store.highest
            <4>1. /\ Len(new) = Len(all) + 1 /\ new[Len(new)] = result
                  /\ \A i \in 1..Len(all) : new[i] = all[i]
                BY <3>2, <3>3
            <4>2. Len(all) > 0 => /\ \A i \in 1..Len(all) :
                                     all[i].severity <= store.highest.severity
                                  /\ \E i \in 1..Len(all) : store.highest = all[i]
                BY <1>2, <3>2 DEF Worst_Inv, Worst_NeverForgotten, Worst_rank, Worst_highest, Range
            <4>3. \A i \in 1..Len(all) : all[i] \in Worst_Result
                BY <3>2
            <4>4. Len(all) > 0 => store.highest \in Worst_Result /\ store.highest # None
                BY <4>2, <4>3, ResultAssumption DEF Worst_Result
            <4>5. \A i \in 1..Len(new) : new[i].severity <= top.severity
                <5>1. \A i \in 1..Len(all) : all[i].severity \in Int
                    BY <4>3 DEF Worst_Result
                <5>2. CASE Len(all) = 0
                    <6>1. store.highest = None
                        BY <1>2, <5>2 DEF Worst_Inv, Worst_NoneYet
                    <6> QED BY <3>2, <3>3, <4>1, <5>2, <6>1
                <5>3. CASE Len(all) > 0
                    <6>1. store.highest.severity \in Int
                        BY <4>4, <5>3 DEF Worst_Result
                    <6>2. \A i \in 1..Len(all) : all[i].severity <= top.severity
                        BY <3>3, <4>2, <4>4, <5>1, <5>3, <6>1
                    <6>3. result.severity <= top.severity
                        BY <3>3, <4>4, <5>3, <6>1
                    <6> HIDE DEF new, top
                    <6> QED BY <3>2, <4>1, <6>2, <6>3
                <5> QED BY <3>2, <5>2, <5>3
            <4>6. \E i \in 1..Len(new) : top = new[i]
                <5>1. CASE top = result
                    BY <3>2, <4>1, <5>1
                <5>2. CASE top # result
                    <6>1. top = store.highest /\ store.highest # None
                        BY <5>2
                    <6>2. Len(all) > 0
                        BY <1>2, <6>1, <3>2 DEF Worst_Inv, Worst_NoneYet
                    <6> QED BY <3>2, <4>1, <4>2, <6>1, <6>2
                <5> QED BY <5>1, <5>2
            <4>7. store'.latest = result /\ store'.highest = top /\ past'.submitted = new
                BY <3>1
            <4>8. new \in Seq(Worst_Result)
                BY <3>2, <3>3
            <4> HIDE DEF new, top
            <4>9. Len(new) > 0 => /\ store'.latest = new[Len(new)]
                                  /\ \A i \in DOMAIN new :
                                     new[i].severity <= store'.highest.severity
                                  /\ store'.highest \in Range(new)
                BY <3>2, <4>1, <4>5, <4>6, <4>7, <4>8 DEF Range
            <4>10. store'.history = IF Len(new) <= HISTORY_CAP THEN new
                       ELSE SubSeq(new, Len(new) - HISTORY_CAP + 1, Len(new))
                <5>1. store'.history \in Seq(Worst_Result) /\ HISTORY_CAP \in Nat \ {0}
                    BY <3>6 DEF Worst_Types, HISTORY_CAP
                <5>2. Window(store'.history, new, HISTORY_CAP)
                    BY <3>7, <4>7 DEF Worst_Window
                <5> QED BY <4>8, <5>1, <5>2, WindowIs
            <4> QED BY <4>7, <4>9, <4>10
                   DEF Worst_NeverForgotten, Worst_latest, Worst_rank, Worst_highest, Worst_history
        <3>9. Worst_NoneYet'
            BY <3>1, <3>2, <3>3 DEF Worst_NoneYet
        <3> QED BY <3>6, <3>7, <3>8, <3>9 DEF Worst_Inv
    <2> QED BY <2>1, <2>2
<1>3. Worst_Inv /\ UNCHANGED vars => Worst_Inv'
    BY DEF Worst_Inv, Worst_Types, Worst_NoneYet, Worst_Window, Worst_NeverForgotten, vars,
       Worst_latest, Worst_highest, Worst_history
<1> QED BY <1>1, <1>2, <1>3

-----------------------------------------------------------------------------
(* delegation_weight_no_snapshot.                                          *)
\* One vote with the power it was cast with.
Weight_Vote == [voter : Address, power : Int, vote_yes : BOOLEAN]

\* A proposal and the votes stored with it.
Weight_Proposal == [votes : Seq(Weight_Vote), final : BOOLEAN]

\* The power behind yes, or behind no.
Weight_Total(votes, yes) ==
    SumFunction([i \in DOMAIN votes |-> IF votes[i].vote_yes = yes THEN votes[i].power ELSE 0])

\* Without votes both totals are zero.
LEMMA Weight_NoVotes == \A yes \in BOOLEAN : Weight_Total(<<>>, yes) = 0
<1> SUFFICES ASSUME NEW yes \in BOOLEAN PROVE Weight_Total(<<>>, yes) = 0
    OBVIOUS
<1> DEFINE f == [i \in DOMAIN <<>> |-> IF <<>>[i].vote_yes = yes THEN <<>>[i].power ELSE 0]
<1>1. DOMAIN <<>> = {} /\ IsFiniteSet({})
    BY FS_EmptySet
<1>2. f \in [{} -> Int]
    BY <1>1
<1>3. \A x \in {} : f[x] = 0
    OBVIOUS
<1>4. SumFunction(f) = 0
    <2> HIDE DEF f
    <2> QED BY <1>1, <1>2, <1>3, SumZero
<1> QED BY <1>4 DEF Weight_Total

\* One more vote adds its power to its own side only.
LEMMA Weight_OneMore ==
    ASSUME NEW votes \in Seq(Weight_Vote), NEW vote \in Weight_Vote, NEW yes \in BOOLEAN
    PROVE  /\ Weight_Total(votes, yes) \in Int
           /\ Weight_Total(Append(votes, vote), yes) =
                  Weight_Total(votes, yes) + IF vote.vote_yes = yes THEN vote.power ELSE 0
<1>n. PICK n \in Nat : n = Len(votes)
    OBVIOUS
<1>m. PICK more : more = Append(votes, vote)
    OBVIOUS
<1>0. n = Len(votes) /\ more = Append(votes, vote) /\ more \in Seq(Weight_Vote)
    BY <1>n, <1>m
<1>1. /\ DOMAIN votes = 1..n /\ DOMAIN more = 1..(n + 1) /\ more[n + 1] = vote
      /\ \A i \in 1..n : more[i] = votes[i]
    BY <1>0
<1>2. PICK f : f = [i \in DOMAIN votes |-> IF votes[i].vote_yes = yes THEN votes[i].power ELSE 0]
    OBVIOUS
<1>3. PICK e : e = [i \in DOMAIN more |-> IF more[i].vote_yes = yes THEN more[i].power ELSE 0]
    OBVIOUS
<1>4. f \in [1..n -> Int]
    <2>1. \A i \in 1..n : votes[i] \in Weight_Vote
        BY <1>0
    <2> QED BY <1>1, <1>2, <2>1 DEF Weight_Vote
<1>5. e \in [1..(n + 1) -> Int]
    <2>1. \A i \in 1..(n + 1) : more[i] \in Weight_Vote
        BY <1>0, <1>1
    <2> QED BY <1>1, <1>3, <2>1 DEF Weight_Vote
<1>6. e[n + 1] = (IF vote.vote_yes = yes THEN vote.power ELSE 0) /\ \A y \in 1..n : e[y] = f[y]
    BY <1>1, <1>2, <1>3
<1>7. SumFunction(f) \in Int /\ SumFunction(e) = SumFunction(f) + e[n + 1]
    BY <1>4, <1>5, <1>6, SumOneMore
<1> QED BY <1>0, <1>2, <1>3, <1>6, <1>7 DEF Weight_Total

Weight_Types ==
    /\ store \in [balance : [Address -> Int], next : Int,
                  proposals : [ProposalIds -> Weight_Proposal \cup {None}]]
    /\ past = [cast |-> past.cast, last |-> past.last]
    /\ past.cast \in [ProposalIds -> [yes : Int, no : Int]]

\* The power cast for a proposal is the total of its stored votes.
Weight_CastIsTotal ==
    \A id \in ProposalIds : store.proposals[id] # None =>
        /\ past.cast[id].yes = Weight_Total(store.proposals[id].votes, TRUE)
        /\ past.cast[id].no = Weight_Total(store.proposals[id].votes, FALSE)

Weight_Inv == Weight_Types /\ Weight_CastIsTotal /\ Weight_OfItsVotes

\* Every deployment is in Weight_Inv; a call of the corrected contract, or
\* none, stays in it.
LEMMA Weight_Correct ==
    /\ now = 0 /\ Weight_Init => Weight_Inv
    /\ Secure /\ Weight_Inv /\ Weight_Next => Weight_Inv'
    /\ Weight_Inv /\ UNCHANGED vars => Weight_Inv'
<1>1. ASSUME now = 0, Weight_Init PROVE Weight_Inv
    <2>1. Weight_Types
        BY <1>1, ContractAssumption, Weight_NoVotes DEF Weight_Init, Weight_Types, Zero,
           ProposalIds, Weight_OfItsVotes
    <2>2. Weight_CastIsTotal
        BY <1>1, ContractAssumption, Weight_NoVotes DEF Weight_Init, Weight_CastIsTotal, Zero,
           ProposalIds, Weight_OfItsVotes
    <2>3. Weight_OfItsVotes
        BY <1>1, ContractAssumption, Weight_NoVotes DEF Weight_Init, Weight_OfItsVotes, Zero,
           ProposalIds
    <2> QED BY <2>1, <2>2, <2>3 DEF Weight_Inv
<1>2. ASSUME Secure, Weight_Inv, Weight_Next PROVE Weight_Inv'
    <2>1. PICK u \in Address, id \in ProposalIds, yes \in BOOLEAN, n \in 0..1 :
              Weight_init \/ Weight_set_delegated_balance(u, n) \/ Weight_create_proposal \/
              Weight_vote(id, u, yes) \/ Weight_tally(id)
        BY <1>2, Zenon DEF Weight_Next, Lib, Secure
    <2>2. CASE Weight_init
        <3>1. /\ store' = [balance |-> store.balance, next |-> 1, proposals |-> store.proposals]
              /\ past' = past
            BY <1>2, <2>2 DEF Weight_init, Write, Weight_Inv, Weight_Types
        <3>2. Weight_Types'
            BY <1>2, <3>1, ContractAssumption, Weight_NoVotes DEF Weight_Inv, Weight_Types
        <3>3. Weight_CastIsTotal'
            BY <1>2, <3>1, ContractAssumption, Weight_NoVotes DEF Weight_Inv, Weight_Types,
               Weight_CastIsTotal, Weight_OfItsVotes
        <3>4. Weight_OfItsVotes'
            BY <1>2, <3>1, ContractAssumption, Weight_NoVotes DEF Weight_Inv, Weight_Types,
               Weight_CastIsTotal, Weight_OfItsVotes
        <3> QED BY <3>2, <3>3, <3>4 DEF Weight_Inv
    <2>3. CASE Weight_set_delegated_balance(u, n)
        <3>1. /\ store' = [balance |-> [store.balance EXCEPT ![u] = n], next |-> store.next,
                           proposals |-> store.proposals]
              /\ past' = past
            BY <1>2, <2>3 DEF Weight_set_delegated_balance, Write, Weight_Inv, Weight_Types
        <3>2. Weight_Types'
            BY <1>2, <3>1, ContractAssumption, Weight_NoVotes DEF Weight_Inv, Weight_Types
        <3>3. Weight_CastIsTotal'
            BY <1>2, <3>1, ContractAssumption, Weight_NoVotes DEF Weight_Inv, Weight_Types,
               Weight_CastIsTotal, Weight_OfItsVotes
        <3>4. Weight_OfItsVotes'
            BY <1>2, <3>1, ContractAssumption, Weight_NoVotes DEF Weight_Inv, Weight_Types,
               Weight_CastIsTotal, Weight_OfItsVotes
        <3> QED BY <3>2, <3>3, <3>4 DEF Weight_Inv
    <2>4. CASE Weight_create_proposal
        <3>1. /\ store' = [balance |-> store.balance, next |-> store.next + 1,
                           proposals |-> [store.proposals EXCEPT ![store.next] = [votes |-> <<>>,
                                 final |-> FALSE]]]
              /\ past' = [cast |-> [past.cast EXCEPT ![store.next] = [yes |-> 0, no |-> 0]],
                          last |-> past.last]
              /\ store.next \in ProposalIds
            BY <1>2, <2>4 DEF Weight_create_proposal, WriteAnd, Weight_Inv, Weight_Types
        <3>2. Weight_Types'
            <4>1. [votes |-> <<>>, final |-> FALSE] \in Weight_Proposal
                BY DEF Weight_Proposal
            <4> QED BY <1>2, <3>1, <4>1 DEF Weight_Inv, Weight_Types
        <3>3. Weight_CastIsTotal'
            BY <1>2, <3>1, ContractAssumption, Weight_NoVotes DEF Weight_Inv, Weight_Types,
               Weight_CastIsTotal, Weight_OfItsVotes
        <3>4. Weight_OfItsVotes'
            BY <1>2, <3>1, ContractAssumption, Weight_NoVotes DEF Weight_Inv, Weight_Types,
               Weight_CastIsTotal, Weight_OfItsVotes
        <3> QED BY <3>2, <3>3, <3>4 DEF Weight_Inv
    <2>5. CASE Weight_vote(id, u, yes)
        <3> DEFINE p == store.proposals[id]
                   vote == [voter |-> u, power |-> store.balance[u], vote_yes |-> yes]
                   more == Append(p.votes, vote)
                   cast == IF yes THEN [yes |-> past.cast[id].yes + store.balance[u],
                                        no |-> past.cast[id].no]
                           ELSE [yes |-> past.cast[id].yes,
                                 no |-> past.cast[id].no + store.balance[u]]
        <3>0. /\ store = [balance |-> store.balance, next |-> store.next,
                          proposals |-> store.proposals]
              /\ past = [cast |-> past.cast, last |-> past.last]
              /\ store.balance \in [Address -> Int] /\ store.next \in Int
              /\ store.proposals \in [ProposalIds -> Weight_Proposal \cup {None}]
              /\ past.cast \in [ProposalIds -> [yes : Int, no : Int]] /\ p # None
            BY <1>2, <2>5 DEF Weight_vote, Weight_proposal, Weight_Inv, Weight_Types
        <3>1. /\ p = [votes |-> p.votes, final |-> p.final] /\ p.votes \in Seq(Weight_Vote) /\
                 p.final \in BOOLEAN
              /\ past.cast[id] = [yes |-> past.cast[id].yes, no |-> past.cast[id].no]
              /\ past.cast[id].yes \in Int /\ past.cast[id].no \in Int
            <4>1. p \in Weight_Proposal /\ past.cast[id] \in [yes : Int, no : Int]
                BY <3>0
            <4> QED BY <4>1 DEF Weight_Proposal
        <3>2. vote \in Weight_Vote /\ vote.vote_yes = yes /\ vote.power = store.balance[u]
            BY <3>0 DEF Weight_Vote
        <3>3. store' = [balance |-> store.balance, next |-> store.next,
                        proposals |-> [store.proposals EXCEPT ![id] = [votes |-> more,
                              final |-> p.final]]]
            <4>1. store' = [store EXCEPT !.proposals[id].votes = Append(@, vote)]
                BY <2>5 DEF Weight_vote, Weight_proposal, Weight_get_delegated_balance, WriteAnd
            <4>2. PICK w : w = more
                OBVIOUS
            <4>3. PICK r : r = [p EXCEPT !.votes = w]
                OBVIOUS
            <4>4. PICK q : q = [store.proposals EXCEPT ![id] = r]
                OBVIOUS
            <4>5. store' = [store EXCEPT !.proposals = q]
                BY <4>1, <4>2, <4>3, <4>4
            <4>6. store' = [balance |-> store.balance, next |-> store.next, proposals |-> q]
                BY <3>0, <4>5
            <4>7. r = [votes |-> w, final |-> p.final]
                BY <3>1, <4>3
            <4> QED BY <4>2, <4>4, <4>6, <4>7
        <3>4. past' = [cast |-> [past.cast EXCEPT ![id] = cast], last |-> past.last]
            <4>1. CASE yes
                <5>1. past' = [past EXCEPT !.cast[id].yes = past.cast[id].yes + store.balance[u]]
                    BY <2>5, <4>1 DEF Weight_vote, Weight_get_delegated_balance, WriteAnd
                <5>2. past' = [[cast |-> past.cast, last |-> past.last]
                                  EXCEPT !.cast[id].yes = past.cast[id].yes + store.balance[u]]
                    BY <3>0, <5>1, Zenon
                <5>3. PICK x : x = past.cast[id].yes + store.balance[u]
                    OBVIOUS
                <5>4. past' = [cast |-> [past.cast EXCEPT ![id].yes = x], last |-> past.last]
                    BY <5>2, <5>3
                <5>5. [past.cast EXCEPT ![id].yes = x] =
                          [past.cast EXCEPT ![id] = [past.cast[id] EXCEPT !.yes = x]]
                    OBVIOUS
                <5>6. [past.cast[id] EXCEPT !.yes = x] = [yes |-> x, no |-> past.cast[id].no]
                    BY <3>1
                <5> QED BY <5>3, <5>4, <5>5, <5>6, <4>1
            <4>2. CASE ~yes
                <5>1. past' = [past EXCEPT !.cast[id].no = past.cast[id].no + store.balance[u]]
                    BY <2>5, <4>2 DEF Weight_vote, Weight_get_delegated_balance, WriteAnd
                <5>2. past' = [[cast |-> past.cast, last |-> past.last]
                                  EXCEPT !.cast[id].no = past.cast[id].no + store.balance[u]]
                    BY <3>0, <5>1, Zenon
                <5>3. PICK x : x = past.cast[id].no + store.balance[u]
                    OBVIOUS
                <5>4. past' = [cast |-> [past.cast EXCEPT ![id].no = x], last |-> past.last]
                    BY <5>2, <5>3
                <5>5. [past.cast EXCEPT ![id].no = x] =
                          [past.cast EXCEPT ![id] = [past.cast[id] EXCEPT !.no = x]]
                    OBVIOUS
                <5>6. [past.cast[id] EXCEPT !.no = x] = [no |-> x, yes |-> past.cast[id].yes]
                    BY <3>1
                <5> QED BY <5>3, <5>4, <5>5, <5>6, <4>2
            <4> QED BY <4>1, <4>2
        <3>5. /\ \A y \in BOOLEAN : Weight_Total(p.votes, y) \in Int
              /\ \A y \in BOOLEAN : Weight_Total(more, y) =
                     Weight_Total(p.votes, y) + IF vote.vote_yes = y THEN vote.power ELSE 0
            BY <3>1, <3>2, Weight_OneMore
        <3>6. cast = [yes |-> Weight_Total(more, TRUE), no |-> Weight_Total(more, FALSE)]
            <4>1. /\ past.cast[id].yes = Weight_Total(p.votes, TRUE)
                  /\ past.cast[id].no = Weight_Total(p.votes, FALSE)
                BY <1>2, <3>0 DEF Weight_Inv, Weight_CastIsTotal
            <4> HIDE DEF p, vote, more
            <4>2. PICK y0, n0, w :
                      y0 = Weight_Total(p.votes, TRUE) /\ n0 = Weight_Total(p.votes, FALSE) /\
                      w = store.balance[u]
                OBVIOUS
            <4>3. y0 \in Int /\ n0 \in Int /\ w \in Int
                BY <3>0, <3>5, <4>2
            <4>4. CASE yes = TRUE
                <5>1. Weight_Total(more, TRUE) = y0 + w /\ Weight_Total(more, FALSE) = n0 + 0
                    BY <3>2, <3>5, <4>2, <4>4
                <5>2. cast = [yes |-> y0 + w, no |-> n0]
                    BY <4>1, <4>2, <4>4
                <5>3. y0 + 0 = y0 /\ n0 + 0 = n0
                    BY <4>3
                <5> QED BY <5>1, <5>2, <5>3, Zenon
            <4>5. CASE yes = FALSE
                <5>1. Weight_Total(more, TRUE) = y0 + 0 /\ Weight_Total(more, FALSE) = n0 + w
                    BY <3>2, <3>5, <4>2, <4>5
                <5>2. cast = [yes |-> y0, no |-> n0 + w]
                    BY <4>1, <4>2, <4>5
                <5>3. y0 + 0 = y0 /\ n0 + 0 = n0
                    BY <4>3
                <5> QED BY <5>1, <5>2, <5>3, Zenon
            <4> QED BY <4>4, <4>5
        <3>7. Weight_Types'
            <4>1. more \in Seq(Weight_Vote)
                BY <3>1, <3>2
            <4>2. [votes |-> more, final |-> p.final] \in Weight_Proposal
                BY <3>1, <4>1 DEF Weight_Proposal
            <4>3. cast \in [yes : Int, no : Int]
                BY <3>0, <3>1
            <4> HIDE DEF more, cast, p
            <4> QED BY <3>0, <3>3, <3>4, <4>2, <4>3 DEF Weight_Types
        <3>8. Weight_CastIsTotal'
            <4> SUFFICES ASSUME NEW i \in ProposalIds, store.proposals'[i] # None
                         PROVE  /\ past.cast'[i].yes = Weight_Total(store.proposals'[i].votes, TRUE)
                                /\ past.cast'[i].no = Weight_Total(store.proposals'[i].votes, FALSE)
                BY <3>3, <3>4 DEF Weight_CastIsTotal
            <4>1. CASE i = id
                BY <3>0, <3>3, <3>4, <3>6, <4>1
            <4>2. CASE i # id
                BY <1>2, <3>0, <3>3, <3>4, <4>2 DEF Weight_Inv, Weight_CastIsTotal
            <4> QED BY <4>1, <4>2
        <3>9. Weight_OfItsVotes'
            BY <1>2, <3>4 DEF Weight_Inv, Weight_OfItsVotes
        <3> QED BY <3>7, <3>8, <3>9 DEF Weight_Inv
    <2>6. CASE Weight_tally(id)
        <3> DEFINE p == store.proposals[id]
        <3>0. /\ store = [balance |-> store.balance, next |-> store.next,
                          proposals |-> store.proposals]
              /\ past = [cast |-> past.cast, last |-> past.last]
              /\ store.balance \in [Address -> Int] /\ store.next \in Int
              /\ store.proposals \in [ProposalIds -> Weight_Proposal \cup {None}]
              /\ past.cast \in [ProposalIds -> [yes : Int, no : Int]] /\ p # None
            BY <1>2, <2>6 DEF Weight_tally, Weight_proposal, Weight_Inv, Weight_Types
        <3>1. p = [votes |-> p.votes, final |-> p.final] /\ p.votes \in Seq(Weight_Vote)
            <4>1. p \in Weight_Proposal
                BY <3>0
            <4> QED BY <4>1 DEF Weight_Proposal
        <3>2. store' = [balance |-> store.balance, next |-> store.next,
                        proposals |-> [store.proposals EXCEPT ![id] = [votes |-> p.votes,
                              final |-> TRUE]]]
            <4>1. store' = [store EXCEPT !.proposals[id].final = TRUE]
                BY <2>6 DEF Weight_tally, Weight_tallied, WriteAnd
            <4>2. PICK r : r = [p EXCEPT !.final = TRUE]
                OBVIOUS
            <4>3. PICK q : q = [store.proposals EXCEPT ![id] = r]
                OBVIOUS
            <4>4. store' = [store EXCEPT !.proposals = q]
                BY <4>1, <4>2, <4>3
            <4>5. store' = [balance |-> store.balance, next |-> store.next, proposals |-> q]
                BY <3>0, <4>4
            <4>6. r = [votes |-> p.votes, final |-> TRUE]
                BY <3>1, <4>2
            <4> QED BY <4>3, <4>5, <4>6
        <3>3. past' = [cast |-> past.cast,
                       last |-> [told |-> Weight_Total(p.votes, TRUE) >
                                 Weight_Total(p.votes, FALSE),
                                 due |-> past.cast[id].yes > past.cast[id].no]]
            BY <2>6, <3>0 DEF Weight_tally, Weight_tallied, Weight_proposal, WriteAnd, Weight_Total
        <3>4. Weight_Types'
            <4>1. [votes |-> p.votes, final |-> TRUE] \in Weight_Proposal
                BY <3>1 DEF Weight_Proposal
            <4> QED BY <3>0, <3>2, <3>3, <4>1 DEF Weight_Types
        <3>5. Weight_CastIsTotal'
            BY <1>2, <3>0, <3>2, <3>3 DEF Weight_Inv, Weight_CastIsTotal
        <3>6. Weight_OfItsVotes'
            BY <1>2, <3>0, <3>3 DEF Weight_Inv, Weight_CastIsTotal, Weight_OfItsVotes
        <3> QED BY <3>4, <3>5, <3>6 DEF Weight_Inv
    <2> QED BY <2>1, <2>2, <2>3, <2>4, <2>5, <2>6
<1>3. Weight_Inv /\ UNCHANGED vars => Weight_Inv'
    BY DEF Weight_Inv, Weight_Types, Weight_CastIsTotal, Weight_OfItsVotes, vars
<1> QED BY <1>1, <1>2, <1>3


-----------------------------------------------------------------------------
(* reentrancy.                                                             *)
Reenter_Types ==
    /\ store \in [balance : Int, withdrawn : Int, reenter : BOOLEAN, reentry : BOOLEAN]
    /\ past \in [deposited : Int]

Reenter_Inv == Reenter_Types /\ Reenter_WithdrawalsCharged

\* Every deployment is in Reenter_Inv; a call of the corrected contract, or
\* none, stays in it.
LEMMA Reenter_Correct ==
    /\ now = 0 /\ Reenter_Init => Reenter_Inv
    /\ Secure /\ Reenter_Inv /\ Reenter_Next => Reenter_Inv'
    /\ Reenter_Inv /\ UNCHANGED vars => Reenter_Inv'
<1>1. now = 0 /\ Reenter_Init => Reenter_Inv
    BY ContractAssumption DEF Reenter_Init, Reenter_Inv, Reenter_Types,
       Reenter_WithdrawalsCharged, Reenter_WithdrawalsCharged, Reenter_get_balance,
       Reenter_get_withdrawn, Reenter_Init
<1>2. ASSUME Secure, Reenter_Inv, Reenter_Next PROVE Reenter_Inv'
    <2>1. PICK n \in -1..2, reenter \in BOOLEAN :
              Reenter_configure(reenter) \/ Reenter_deposit(n) \/ Reenter_withdraw(n)
        BY <1>2, Zenon DEF Reenter_Next, Lib, Secure
    <2>2. CASE Reenter_configure(reenter)
        <3>1. /\ store' = [balance |-> store.balance, withdrawn |-> store.withdrawn,
                           reenter |-> reenter, reentry |-> store.reentry]
              /\ past' = past
            BY <1>2, <2>2 DEF Reenter_configure, Write, Reenter_Inv, Reenter_Types
        <3> QED BY <1>2, <3>1, ContractAssumption DEF Reenter_Inv, Reenter_Types,
               Reenter_WithdrawalsCharged, Reenter_get_balance, Reenter_get_withdrawn
    <2>3. CASE Reenter_deposit(n)
        <3>1. /\ store' = [balance |-> store.balance + n, withdrawn |-> store.withdrawn,
                           reenter |-> store.reenter, reentry |-> store.reentry]
              /\ past' = [deposited |-> past.deposited + n]
              /\ store.balance + n \in -1..MaxPool
              /\ past.deposited + n \in -1..MaxPool
            BY <1>2, <2>3 DEF Reenter_deposit, WriteAnd, Reenter_Inv, Reenter_Types
        <3> QED BY <1>2, <3>1, ContractAssumption DEF Reenter_Inv, Reenter_Types,
               Reenter_WithdrawalsCharged, Reenter_get_balance, Reenter_get_withdrawn, MaxPool
    <2>4. CASE Reenter_withdraw(n)
        <3>1. /\ store' = [balance |-> store.balance - Reenter_calls * n,
                           withdrawn |-> store.withdrawn + Reenter_calls * n, reenter |-> FALSE,
                           reentry |-> store.reentry]
              /\ past' = past
              /\ Reenter_on_withdraw
              /\ store.balance - Reenter_calls * n \in -1..MaxPool
              /\ store.withdrawn + Reenter_calls * n \in -1..MaxPool
            BY <1>2, <2>4 DEF Reenter_withdraw, Write, Reenter_Inv, Reenter_Types
        <3> QED BY <1>2, <3>1, ContractAssumption DEF Reenter_Inv, Reenter_Types,
               Reenter_WithdrawalsCharged, Reenter_get_balance, Reenter_get_withdrawn,
               Reenter_calls, Reenter_on_withdraw, MaxPool
    <2> QED BY <2>1, <2>2, <2>3, <2>4
<1>3. Reenter_Inv /\ UNCHANGED vars => Reenter_Inv'
    BY DEF Reenter_Inv, Reenter_Types, Reenter_WithdrawalsCharged, vars, Reenter_get_balance,
       Reenter_get_withdrawn
<1> QED BY <1>1, <1>2, <1>3

-----------------------------------------------------------------------------
(* recursive_hook_depth.                                                   *)
Hook_Types ==
    /\ store = [balance |-> store.balance, recurse |-> store.recurse,
                hook_count |-> store.hook_count, hook_depth |-> store.hook_depth,
                reentry |-> store.reentry]
    /\ store.balance \in [Address -> Int]
    /\ store.hook_depth \in Int
    /\ store.reentry \in BOOLEAN
    /\ past \in [minted : Int, deepest : Int]

\* The balances add up to what was minted.
Hook_BookAddsUp ==
    SumFunction(store.balance) = past.minted

Hook_Inv == Hook_Types /\ Hook_BookAddsUp /\ Hook_Flat

\* Every deployment is in Hook_Inv; a call of the corrected contract, or none,
\* stays in it.
LEMMA Hook_Correct ==
    /\ now = 0 /\ Hook_Init => Hook_Inv
    /\ Secure /\ Hook_Inv /\ Hook_Next => Hook_Inv'
    /\ Hook_Inv /\ UNCHANGED vars => Hook_Inv'
<1>1. now = 0 /\ Hook_Init => Hook_Inv
    BY ContractAssumption, ZeroSum DEF Hook_Init, Hook_Inv, Hook_Types, Hook_BookAddsUp,
       Hook_Flat, Hook_Flat, MAX_HOOK_DEPTH, Hook_balance, Hook_Init
<1>2. ASSUME Secure, Hook_Inv, Hook_Next PROVE Hook_Inv'
    <2>1. PICK from \in Address, to \in Address, n \in {-1, 1}, recurse \in BOOLEAN :
              Hook_configure(to, recurse) \/ Hook_mint(to, n) \/ Hook_transfer(from, to, n)
        BY <1>2, Zenon DEF Hook_Next, Lib, Secure
    <2>2. CASE Hook_configure(to, recurse)
        <3>1. /\ store' = [balance |-> store.balance,
                           recurse |-> [store.recurse EXCEPT ![to] = recurse],
                           hook_count |-> store.hook_count, hook_depth |-> store.hook_depth,
                           reentry |-> store.reentry]
              /\ past' = past
            BY <1>2, <2>2 DEF Hook_configure, Write, Hook_Inv, Hook_Types, Added, Taken
        <3> QED BY <1>2, <3>1, ContractAssumption, ZeroSum DEF Hook_Inv, Hook_Types,
               Hook_BookAddsUp, Hook_Flat, MAX_HOOK_DEPTH, Hook_balance
    <2>3. CASE Hook_mint(to, n)
        <3>1. /\ store' = [balance |-> Added(store.balance, to, n), recurse |-> store.recurse,
                           hook_count |-> store.hook_count, hook_depth |-> store.hook_depth,
                           reentry |-> store.reentry]
              /\ past' = [minted |-> past.minted + n, deepest |-> past.deepest]
              /\ past.minted + n \in 0..2
              /\ store.balance[to] + n \in -1..2
            BY <1>2, <2>3 DEF Hook_mint, WriteAnd, Hook_Inv, Hook_Types, Added, Taken
        <3>s1. /\ Added(store.balance, to, n) \in [Address -> Int]
               /\ SumFunction(Added(store.balance, to, n)) = SumFunction(store.balance) + n /\
                  SumFunction(store.balance) \in Int
               /\ \A v \in Address :
                  Added(store.balance, to, n)[v] = store.balance[v] + (IF v = to THEN n ELSE 0)
            <4>1. store.balance \in [Address -> Int] /\ to \in Address /\ n \in Int
                BY <1>2, <3>1, ContractAssumption, ZeroSum DEF Hook_Inv, Hook_Types
            <4> QED BY <4>1, AddedTo, ZenonT(60)
        <3>2. Hook_Types'
            BY <1>2, <3>1, <3>s1, ContractAssumption, ZeroSum DEF Hook_Inv, Hook_Types
        <3>3. Hook_BookAddsUp'
            BY <1>2, <3>1, <3>s1, ContractAssumption, ZeroSum DEF Hook_Inv, Hook_Types,
               Hook_BookAddsUp, Hook_Flat, MAX_HOOK_DEPTH, Hook_balance
        <3>4. Hook_Flat'
            <4>1. [u \in Address |-> store.balance'[u]] = store.balance'
                BY <3>2 DEF Hook_Types
            <4> QED BY <1>2, <3>1, <3>3, <4>1
                   DEF Hook_Inv, Hook_Types, Hook_BookAddsUp, Hook_Flat, Hook_balance
        <3> QED BY <3>2, <3>3, <3>4 DEF Hook_Inv
    <2>4. CASE Hook_transfer(from, to, n)
        <3>0. Hook_depth(from, to) = 1
            <4>1. PICK c \in Nat : c = Cardinality(Hook_on_xfer(from, to))
                <5>1. Hook_on_xfer(from, to) \subseteq {from, to}
                    BY DEF Hook_on_xfer
                <5>a. IsFiniteSet({from})
                    BY FS_Singleton
                <5>b. IsFiniteSet({from} \cup {to}) /\ {from, to} = {from} \cup {to}
                    BY <5>a, FS_AddElement
                <5>2. IsFiniteSet({from, to})
                    BY <5>b
                <5> QED BY <5>1, <5>2, FS_Subset, FS_CardinalityType
            <4>2. 1 + c <= 1
                BY <2>4, <4>1 DEF Hook_transfer, Hook_depth, MAX_HOOK_DEPTH
            <4> QED BY <4>1, <4>2 DEF Hook_depth
        <3>1. PICK recurse0 :
                  recurse0 = [u \in Address |-> store.recurse[u] /\ u \notin Hook_on_xfer(from, to)]
            OBVIOUS
        <3>2. /\ store' = [balance |-> Added(Taken(store.balance, from, n), to, n),
                           recurse |-> recurse0,
                           hook_count |-> store.hook_count, hook_depth |-> store.hook_depth,
                           reentry |-> store.reentry]
              /\ past' = [minted |-> past.minted,
                          deepest |-> IF 1 > past.deepest THEN 1 ELSE past.deepest]
            <4>1. PICK b : b = Added(Taken(store.balance, from, n), to, n)
                OBVIOUS
            <4>2. ~Lib /\ past = [minted |-> past.minted, deepest |-> past.deepest]
                  /\ store = [balance |-> store.balance, recurse |-> store.recurse,
                              hook_count |-> store.hook_count,
                              hook_depth |-> store.hook_depth, reentry |-> store.reentry]
                BY <1>2 DEF Lib, Secure, Hook_Inv, Hook_Types
            <4>3. store' = [store EXCEPT !.balance = b, !.recurse = recurse0,
                            !.hook_count = store.hook_count]
                BY <2>4, <3>0, <3>1, <4>1, <4>2
                   DEF Hook_transfer, Hook_moved, WriteAnd, Added, Taken
            <4>4. past' = [past EXCEPT !.deepest = IF 1 > past.deepest THEN 1 ELSE past.deepest]
                BY <2>4, <3>0 DEF Hook_transfer, Hook_moved, WriteAnd
            <4> QED BY <4>1, <4>2, <4>3, <4>4
        <3>3. /\ Taken(store.balance, from, n) \in [Address -> Int] /\
                 SumFunction(store.balance) \in Int
              /\ SumFunction(Taken(store.balance, from, n)) = SumFunction(store.balance) - n
            <4>1. store.balance \in [Address -> Int] /\ n \in Int
                BY <1>2 DEF Hook_Inv, Hook_Types
            <4> QED BY <4>1, TakenFrom, ZenonT(60)
        <3>n. n \in Int
            OBVIOUS
        <3>4. /\ Added(Taken(store.balance, from, n), to, n) \in [Address -> Int]
              /\ SumFunction(Added(Taken(store.balance, from, n), to, n)) =
                 SumFunction(Taken(store.balance, from, n)) + n
            BY <3>3, <3>n, AddedTo
        <3>5. Hook_Types'
            BY <1>2, <3>2, <3>4 DEF Hook_Inv, Hook_Types
        <3>6. SumFunction(store.balance') = past.minted'
            BY <1>2, <3>2, <3>3, <3>4 DEF Hook_Inv, Hook_Types, Hook_BookAddsUp
        <3>7. [u \in Address |-> store.balance'[u]] = store.balance'
            BY <3>5 DEF Hook_Types
        <3>8. past.deepest' <= 1 /\ store.hook_depth' = 0
            BY <1>2, <3>2 DEF Hook_Inv, Hook_Types, Hook_Flat, MAX_HOOK_DEPTH
        <3> QED BY <3>5, <3>6, <3>7, <3>8
               DEF Hook_Inv, Hook_BookAddsUp, Hook_Flat, Hook_balance, MAX_HOOK_DEPTH
    <2> QED BY <2>1, <2>2, <2>3, <2>4
<1>3. Hook_Inv /\ UNCHANGED vars => Hook_Inv'
    BY DEF Hook_Inv, Hook_Types, Hook_BookAddsUp, Hook_Flat, vars, Hook_balance
<1> QED BY <1>1, <1>2, <1>3

-----------------------------------------------------------------------------
(* callback_before_invariant.                                              *)
Callback_Types ==
    /\ store \in [reserve : Int \cup {None}, balance : Int, inflates : BOOLEAN]
    /\ past \in [net : Int]

Callback_Inv == Callback_Types /\ Callback_BalanceIsReal

\* Every deployment is in Callback_Inv; a call of the corrected contract, or
\* none, stays in it.
LEMMA Callback_Correct ==
    /\ now = 0 /\ Callback_Init => Callback_Inv
    /\ Secure /\ Callback_Inv /\ Callback_Next => Callback_Inv'
    /\ Callback_Inv /\ UNCHANGED vars => Callback_Inv'
<1>1. now = 0 /\ Callback_Init => Callback_Inv
    BY ContractAssumption DEF Callback_Init, Callback_Inv, Callback_Types,
       Callback_BalanceIsReal, Callback_BalanceIsReal, Callback_balance, Callback_Init
<1>2. ASSUME Secure, Callback_Inv, Callback_Next PROVE Callback_Inv'
    <2>1. PICK n \in -1..2, inflates \in BOOLEAN :
              Callback_initialize(n) \/ Callback_set_callback_inflates(inflates) \/
              Callback_flash_loan(n) \/ Callback_deposit(n)
        BY <1>2, Zenon DEF Callback_Next, Lib, Secure
    <2>2. CASE Callback_initialize(n)
        <3>1. /\ store' = [reserve |-> n, balance |-> n, inflates |-> FALSE]
              /\ past' = [net |-> n]
              /\ store.reserve = None
            BY <1>2, <2>2 DEF Callback_initialize, WriteAnd, Callback_Inv, Callback_Types
        <3> QED BY <1>2, <3>1, ContractAssumption DEF Callback_Inv, Callback_Types,
               Callback_BalanceIsReal, Callback_balance
    <2>3. CASE Callback_set_callback_inflates(inflates)
        <3>1. /\ store' = [reserve |-> store.reserve, balance |-> store.balance,
                           inflates |-> inflates]
              /\ past' = past
            BY <1>2, <2>3 DEF Callback_set_callback_inflates, Write, Callback_Inv,
               Callback_Types
        <3> QED BY <1>2, <3>1, ContractAssumption DEF Callback_Inv, Callback_Types,
               Callback_BalanceIsReal, Callback_balance
    <2>4. CASE Callback_flash_loan(n)
        <3>1. /\ store' = [reserve |-> store.reserve,
                           balance |-> (Callback_run_callback(Callback_balance - n)),
                           inflates |-> store.inflates]
              /\ past' = [net |-> past.net - n]
              /\ n <= Callback_balance
              /\ Callback_balance - n >= Callback_reserve
              /\ (Callback_run_callback(Callback_balance - n)) \in -1..MaxPool
              /\ past.net - n \in -MaxPool..MaxPool
            BY <1>2, <2>4 DEF Callback_flash_loan, WriteAnd, Callback_Inv, Callback_Types
        <3> QED BY <1>2, <3>1, ContractAssumption DEF Callback_Inv, Callback_Types,
               Callback_BalanceIsReal, Callback_balance, Callback_run_callback,
               Callback_reserve, MaxPool
    <2>5. CASE Callback_deposit(n)
        <3>1. /\ store' = [reserve |-> store.reserve, balance |-> store.balance + n,
                           inflates |-> store.inflates]
              /\ past' = [net |-> past.net + n]
              /\ Callback_balance + n \in -1..MaxPool
              /\ past.net + n \in -MaxPool..MaxPool
            BY <1>2, <2>5 DEF Callback_deposit, WriteAnd, Callback_Inv, Callback_Types
        <3> QED BY <1>2, <3>1, ContractAssumption DEF Callback_Inv, Callback_Types,
               Callback_BalanceIsReal, Callback_balance, MaxPool
    <2> QED BY <2>1, <2>2, <2>3, <2>4, <2>5
<1>3. Callback_Inv /\ UNCHANGED vars => Callback_Inv'
    BY DEF Callback_Inv, Callback_Types, Callback_BalanceIsReal, vars, Callback_balance
<1> QED BY <1>1, <1>2, <1>3

-----------------------------------------------------------------------------
(* ignored_return.                                                         *)
Ignored_Types ==
    /\ store \in [released : BOOLEAN \cup {None}, amount : Int, fails : BOOLEAN, escrow : Int,
                  recipient : Int]
    /\ past \in [minted : Int, failing : BOOLEAN]

Ignored_Inv == Ignored_Types /\ Ignored_ReleasedOnce

\* Every deployment is in Ignored_Inv; a call of the corrected contract, or
\* none, stays in it.
LEMMA Ignored_Correct ==
    /\ now = 0 /\ Ignored_Init => Ignored_Inv
    /\ Secure /\ Ignored_Inv /\ Ignored_Next => Ignored_Inv'
    /\ Ignored_Inv /\ UNCHANGED vars => Ignored_Inv'
<1>1. now = 0 /\ Ignored_Init => Ignored_Inv
    BY ContractAssumption DEF Ignored_Init, Ignored_Inv, Ignored_Types, Ignored_ReleasedOnce,
       Ignored_ReleasedOnce, Ignored_Init
<1>2. ASSUME Secure, Ignored_Inv, Ignored_Next PROVE Ignored_Inv'
    <2>1. PICK n \in -1..2, fail \in BOOLEAN :
              (n > 0 /\ Ignored_mint(n)) \/ Ignored_set_fail(fail) \/ Ignored_initialize(n) \/
              Ignored_release
        BY <1>2, Zenon DEF Ignored_Next, Lib, Secure
    <2>2. CASE (n > 0 /\ Ignored_mint(n))
        <3>1. /\ store = [released |-> store.released, amount |-> store.amount,
                          fails |-> store.fails,
                          escrow |-> store.escrow, recipient |-> store.recipient]
              /\ past = [minted |-> past.minted, failing |-> past.failing]
              /\ store.escrow \in Int /\ store.recipient \in Int /\ past.minted \in Int
            BY <1>2 DEF Ignored_Inv, Ignored_Types
        <3>2. store.escrow + store.recipient = past.minted
            BY <1>2, Zenon DEF Ignored_Inv, Ignored_ReleasedOnce
        <3>3. PICK e \in Int, m \in Int :
                  e = store.escrow + n /\ m = past.minted + n /\ e + store.recipient = m
            BY <3>1, <3>2
        <3>4. store' = [store EXCEPT !.escrow = e] /\ past' = [past EXCEPT !.minted = m]
            BY <2>2, <3>3 DEF Ignored_mint, WriteAnd
        <3>5. /\ store' = [released |-> store.released, amount |-> store.amount,
                           fails |-> store.fails,
                           escrow |-> e, recipient |-> store.recipient]
              /\ past' = [minted |-> m, failing |-> past.failing]
            BY <3>1, <3>4
        <3>6. /\ store'.released = store.released /\ store'.amount = store.amount /\
                 store'.escrow = e
              /\ store'.recipient = store.recipient /\ past'.minted = m /\
                 past'.failing = past.failing
            BY <3>5
        <3>7. Ignored_Types'
            BY <1>2, <3>3, <3>5 DEF Ignored_Inv, Ignored_Types
        <3>8. Ignored_ReleasedOnce'
            BY <1>2, <3>3, <3>6, Zenon DEF Ignored_Inv, Ignored_ReleasedOnce
        <3> QED BY <3>7, <3>8 DEF Ignored_Inv
    <2>3. CASE Ignored_set_fail(fail)
        <3>1. /\ store' = [released |-> store.released, amount |-> store.amount, fails |-> fail,
                           escrow |-> store.escrow, recipient |-> store.recipient]
              /\ past' = past
            BY <1>2, <2>3 DEF Ignored_set_fail, Write, Ignored_Inv, Ignored_Types
        <3> QED BY <1>2, <3>1, ContractAssumption DEF Ignored_Inv, Ignored_Types,
               Ignored_ReleasedOnce
    <2>4. CASE Ignored_initialize(n)
        <3>1. /\ store' = [released |-> FALSE, amount |-> n, fails |-> store.fails,
                           escrow |-> store.escrow, recipient |-> store.recipient]
              /\ past' = past
              /\ store.released = None
            BY <1>2, <2>4 DEF Ignored_initialize, Write, Ignored_Inv, Ignored_Types
        <3>2. Ignored_Types'
            BY <1>2, <3>1, ContractAssumption DEF Ignored_Inv, Ignored_Types
        <3>3. Ignored_ReleasedOnce'
            BY <1>2, <3>1, ContractAssumption DEF Ignored_Inv, Ignored_Types,
               Ignored_ReleasedOnce
        <3> QED BY <3>2, <3>3 DEF Ignored_Inv
    <2>5. CASE Ignored_release
        <3>a. /\ store = [released |-> store.released, amount |-> store.amount,
                          fails |-> store.fails,
                          escrow |-> store.escrow, recipient |-> store.recipient]
              /\ past = [minted |-> past.minted, failing |-> past.failing] /\
                 store.fails \in BOOLEAN
              /\ store.amount \in Int /\ store.escrow \in Int /\ past.minted \in Int
            BY <1>2 DEF Ignored_Inv, Ignored_Types
        <3>b. store.released = FALSE
            BY <2>5 DEF Ignored_release
        <3>c. store.recipient = 0 /\ store.escrow + store.recipient = past.minted
            BY <1>2, <3>b, Zenon DEF Ignored_Inv, Ignored_ReleasedOnce
        <3>0. /\ store = [released |-> store.released, amount |-> store.amount,
                          fails |-> store.fails,
                          escrow |-> store.escrow, recipient |-> store.recipient]
              /\ past = [minted |-> past.minted, failing |-> past.failing]
              /\ store.recipient = 0 /\ store.fails \in BOOLEAN
              /\ store.amount \in Int /\ store.escrow \in Int /\ past.minted = store.escrow
            BY <3>a, <3>c
        <3>1. past' = [minted |-> past.minted, failing |-> store.fails]
            BY <2>5, <3>0 DEF Ignored_release, WriteAnd
        <3>2. PICK e \in Int, r \in Int : /\ e = IF store.fails THEN store.escrow
                                             ELSE store.escrow - store.amount
                                          /\ r = IF store.fails THEN 0 ELSE store.amount
            BY <3>0
        <3>3. PICK s : s = [released |-> store.released, amount |-> store.amount,
                            fails |-> store.fails,
                            escrow |-> e, recipient |-> r]
            OBVIOUS
        <3>4. Ignored_transfer(store, store.amount) = s
            <4>1. CASE store.fails
                BY <3>0, <3>2, <3>3, <4>1 DEF Ignored_transfer
            <4>2. CASE ~store.fails
                <5>1. store.recipient + store.amount = r
                    BY <3>0, <3>2, <4>2
                <5>2. Ignored_transfer(store, store.amount) = [store EXCEPT !.escrow = e,
                                                               !.recipient = r]
                    BY <3>2, <4>2, <5>1 DEF Ignored_transfer
                <5> QED BY <3>0, <3>3, <5>2
            <4> QED BY <4>1, <4>2
        <3>5. store' = [released |-> TRUE, amount |-> store.amount, fails |-> store.fails,
                        escrow |-> e, recipient |-> r]
            <4>1. store' = [s EXCEPT !.released = TRUE]
                BY <2>5, <3>4 DEF Ignored_release, WriteAnd
            <4> QED BY <3>3, <4>1
        <3>6. Ignored_Types'
            BY <1>2, <3>0, <3>1, <3>2, <3>5 DEF Ignored_Inv, Ignored_Types
        <3>7. e + r = past.minted
            BY <3>0, <3>2
        <3>8. Ignored_ReleasedOnce'
            BY <3>1, <3>2, <3>5, <3>7 DEF Ignored_ReleasedOnce
        <3> QED BY <3>6, <3>8 DEF Ignored_Inv
    <2> QED BY <2>1, <2>2, <2>3, <2>4, <2>5
<1>3. Ignored_Inv /\ UNCHANGED vars => Ignored_Inv'
    BY DEF Ignored_Inv, Ignored_Types, Ignored_ReleasedOnce, vars
<1> QED BY <1>1, <1>2, <1>3

-----------------------------------------------------------------------------
(* cross_call_error_swallowed.                                             *)
Swallow_Types ==
    /\ store \in [credit : [Address -> Int], fails : BOOLEAN]
    /\ past \in [moved : [Address -> Int]]

Swallow_Inv == Swallow_Types /\ Swallow_CreditIsMoved

\* Every deployment is in Swallow_Inv; a call of the corrected contract, or
\* none, stays in it.
LEMMA Swallow_Correct ==
    /\ now = 0 /\ Swallow_Init => Swallow_Inv
    /\ Secure /\ Swallow_Inv /\ Swallow_Next => Swallow_Inv'
    /\ Swallow_Inv /\ UNCHANGED vars => Swallow_Inv'
<1>1. now = 0 /\ Swallow_Init => Swallow_Inv
    BY ContractAssumption DEF Swallow_Init, Swallow_Inv, Swallow_Types, Swallow_CreditIsMoved,
       Swallow_CreditIsMoved, Swallow_credit_balance, Swallow_Init, Zero
<1>2. ASSUME Secure, Swallow_Inv, Swallow_Next PROVE Swallow_Inv'
    <2>1. PICK u \in Address, n \in {-1, 1}, fails \in BOOLEAN :
              Swallow_initialize \/ Swallow_set_transfer_fails(fails) \/ Swallow_deposit(u, n)
        BY <1>2, Zenon DEF Swallow_Next, Lib, Secure
    <2>2. CASE Swallow_initialize
        <3>1. /\ store' = [credit |-> store.credit, fails |-> FALSE]
              /\ past' = past
            BY <1>2, <2>2 DEF Swallow_initialize, Write, Swallow_Inv, Swallow_Types
        <3> QED BY <1>2, <3>1, ContractAssumption DEF Swallow_Inv, Swallow_Types,
               Swallow_CreditIsMoved, Swallow_credit_balance
    <2>3. CASE Swallow_set_transfer_fails(fails)
        <3>1. /\ store' = [credit |-> store.credit, fails |-> fails]
              /\ past' = past
            BY <1>2, <2>3 DEF Swallow_set_transfer_fails, Write, Swallow_Inv, Swallow_Types
        <3> QED BY <1>2, <3>1, ContractAssumption DEF Swallow_Inv, Swallow_Types,
               Swallow_CreditIsMoved, Swallow_credit_balance
    <2>4. CASE Swallow_deposit(u, n)
        <3>1. /\ store' = [credit |-> [store.credit EXCEPT ![u] = @ + n], fails |-> store.fails]
              /\ past' = IF Swallow_do_token_transfer
                 THEN [moved |-> [past.moved EXCEPT ![u] = @ + n]] ELSE past
              /\ Swallow_do_token_transfer
              /\ store.credit[u] + n \in -1..2
            BY <1>2, <2>4 DEF Swallow_deposit, Swallow_deposit_lib, WriteAnd, Swallow_Inv,
               Swallow_Types
        <3> QED BY <1>2, <3>1, ContractAssumption DEF Swallow_Inv, Swallow_Types,
               Swallow_CreditIsMoved, Swallow_credit_balance, Swallow_do_token_transfer
    <2> QED BY <2>1, <2>2, <2>3, <2>4
<1>3. Swallow_Inv /\ UNCHANGED vars => Swallow_Inv'
    BY DEF Swallow_Inv, Swallow_Types, Swallow_CreditIsMoved, vars, Swallow_credit_balance
<1> QED BY <1>1, <1>2, <1>3

-----------------------------------------------------------------------------
(* flash_repay_wrong_token.                                                *)
Repay_Types ==
    /\ store \in [pool : [FlashTokens -> Int], repaid : BOOLEAN]
    /\ past \in [due : [FlashTokens -> Int]]

Repay_Inv == Repay_Types /\ Repay_HeldInKind

\* Every deployment is in Repay_Inv; a call of the corrected contract, or none,
\* stays in it.
LEMMA Repay_Correct ==
    /\ now = 0 /\ Repay_Init => Repay_Inv
    /\ Secure /\ Repay_Inv /\ Repay_Next => Repay_Inv'
    /\ Repay_Inv /\ UNCHANGED vars => Repay_Inv'
<1>1. now = 0 /\ Repay_Init => Repay_Inv
    BY ContractAssumption DEF Repay_Init, Repay_Inv, Repay_Types, Repay_HeldInKind,
       Repay_HeldInKind, FlashTokens, Repay_is_repaid, Repay_Init
<1>2. ASSUME Secure, Repay_Inv, Repay_Next PROVE Repay_Inv'
    <2>1. PICK t \in FlashTokens, repay_token \in FlashTokens, n \in -1..2,
              mode \in {"Honest", "WorthlessOnly", "FeeShortfall"} :
              Repay_deposit(t, n) \/ Repay_flash_loan(t, n, repay_token, mode)
        BY <1>2, Zenon DEF Repay_Next, Lib, Secure
    <2>2. CASE Repay_deposit(t, n)
        <3>1. /\ store' = [pool |-> [store.pool EXCEPT ![t] = @ + n], repaid |-> store.repaid]
              /\ past' = [due |-> [past.due EXCEPT ![t] = @ + n]]
              /\ n >= 0
              /\ store.pool[t] + n <= MaxPool
            BY <1>2, <2>2 DEF Repay_deposit, WriteAnd, Repay_Inv, Repay_Types
        <3> QED BY <1>2, <3>1, ContractAssumption DEF Repay_Inv, Repay_Types, Repay_HeldInKind,
               FlashTokens, Repay_is_repaid, MaxPool
    <2>3. CASE Repay_flash_loan(t, n, repay_token, mode)
        <3>1. /\ store' =
                 [pool |-> [v \in FlashTokens |-> store.pool[v] - (IF v = t THEN n
                       ELSE 0) + (Repay_on_flash_loan(mode, t, n))[v]],
                           repaid |-> TRUE]
              /\ past' = [due |-> [past.due EXCEPT ![t] = @ + Repay_fee(n)]]
              /\ (Repay_on_flash_loan(mode, t, n))[t] - n >= Repay_fee(n)
              /\ 0 <= n
              /\ n <= store.pool[t]
              /\ \A u \in FlashTokens : 0 <= (Repay_on_flash_loan(mode, t, n))[u] /\
                 [v \in FlashTokens |-> store.pool[v] - (IF v = t THEN n
                                                         ELSE 0) + (Repay_on_flash_loan(mode, t,
                                                               n))[v]][u] <=
                 MaxPool
            BY <1>2, <2>3 DEF Repay_flash_loan, Repay_lent, WriteAnd, Repay_Inv, Repay_Types
        <3> QED BY <1>2, <3>1, ContractAssumption DEF Repay_Inv, Repay_Types, Repay_HeldInKind,
               FlashTokens, Repay_is_repaid, Repay_on_flash_loan, Repay_fee, MaxPool, Whole
    <2> QED BY <2>1, <2>2, <2>3
<1>3. Repay_Inv /\ UNCHANGED vars => Repay_Inv'
    BY DEF Repay_Inv, Repay_Types, Repay_HeldInKind, vars, Repay_is_repaid
<1> QED BY <1>1, <1>2, <1>3

-----------------------------------------------------------------------------
(* flash_fee_not_collected.                                                *)
FlashFee_Types ==
    /\ store \in [balance : Int]
    /\ past \in [lent : BOOLEAN]

FlashFee_Inv == FlashFee_Types

\* Every deployment is in FlashFee_Inv; a call of the corrected contract, or
\* none, stays in it.
LEMMA FlashFee_Correct ==
    /\ now = 0 /\ FlashFee_Init => FlashFee_Inv
    /\ Secure /\ FlashFee_Inv /\ FlashFee_Next => FlashFee_Inv' /\ FlashFee_NothingLeaves
    /\ FlashFee_Inv /\ UNCHANGED vars => FlashFee_Inv' /\ FlashFee_NothingLeaves
<1>1. now = 0 /\ FlashFee_Init => FlashFee_Inv
    BY ContractAssumption DEF FlashFee_Init, FlashFee_Inv, FlashFee_Types, FlashFee_Init
<1>2. ASSUME Secure, FlashFee_Inv, FlashFee_Next PROVE FlashFee_Inv' /\ FlashFee_NothingLeaves
    <2>1. PICK n \in -2..2 :
              FlashFee_initialize(n) \/ FlashFee_set_balance(n) \/ FlashFee_flash_loan(n)
        BY <1>2, Zenon DEF FlashFee_Next, Lib, Secure
    <2>2. CASE FlashFee_initialize(n)
        <3>1. /\ store' = [balance |-> n]
              /\ past' = [lent |-> FALSE]
            BY <1>2, <2>2 DEF FlashFee_initialize, WriteAnd, FlashFee_Inv, FlashFee_Types
        <3> QED BY <1>2, <3>1, ContractAssumption DEF FlashFee_Inv, FlashFee_Types,
               FlashFee_NothingLeaves
    <2>3. CASE FlashFee_set_balance(n)
        <3>1. /\ store' = [balance |-> n]
              /\ past' = [lent |-> FALSE]
            BY <1>2, <2>3 DEF FlashFee_set_balance, WriteAnd, FlashFee_Inv, FlashFee_Types
        <3> QED BY <1>2, <3>1, ContractAssumption DEF FlashFee_Inv, FlashFee_Types,
               FlashFee_NothingLeaves
    <2>4. CASE FlashFee_flash_loan(n)
        <3>1. /\ store' = [balance |-> FlashFee_get_balance - n]
              /\ past' = [lent |-> TRUE]
              /\ n <= FlashFee_get_balance
              /\ FlashFee_get_balance - n >= (FlashFee_get_balance + FlashFee_fee(n))
              /\ FlashFee_get_balance - n <= MaxPool
            BY <1>2, <2>4 DEF FlashFee_flash_loan, FlashFee_loan, WriteAnd, FlashFee_Inv,
               FlashFee_Types
        <3> QED BY <1>2, <3>1, ContractAssumption DEF FlashFee_Inv, FlashFee_Types,
               FlashFee_get_balance, FlashFee_fee, MaxPool, Quotient, Whole,
               FlashFee_NothingLeaves
    <2> QED BY <2>1, <2>2, <2>3, <2>4
<1>3. FlashFee_Inv /\ UNCHANGED vars => FlashFee_Inv' /\ FlashFee_NothingLeaves
    BY DEF FlashFee_Inv, FlashFee_Types, FlashFee_NothingLeaves, vars
<1> QED BY <1>1, <1>2, <1>3

-----------------------------------------------------------------------------
(* flash_receiver_unchecked.                                               *)
Receiver_Types ==
    /\ store \in [pool : Int, recorded : Int]
    /\ past \in [owed : Int]

Receiver_Inv == Receiver_Types /\ Receiver_FeesCollected

\* Every deployment is in Receiver_Inv; a call of the corrected contract, or
\* none, stays in it.
LEMMA Receiver_Correct ==
    /\ now = 0 /\ Receiver_Init => Receiver_Inv
    /\ Secure /\ Receiver_Inv /\ Receiver_Next => Receiver_Inv'
    /\ Receiver_Inv /\ UNCHANGED vars => Receiver_Inv'
<1>1. now = 0 /\ Receiver_Init => Receiver_Inv
    BY ContractAssumption DEF Receiver_Init, Receiver_Inv, Receiver_Types,
       Receiver_FeesCollected, Receiver_FeesCollected, Receiver_pool_balance, Receiver_Init
<1>2. ASSUME Secure, Receiver_Inv, Receiver_Next PROVE Receiver_Inv'
    <2>1. \/ Receiver_expire
          \/ \E receiver \in {"ignoring", "failing", "principal_only", "full_repay"}, n \in -1..2,
             ledger \in {"shared", "own"} : (n > 0 /\ Receiver_record_repayment(n)) \/
             Receiver_deposit(n) \/ Receiver_flash_loan(receiver, n, ledger)
        BY <1>2, Zenon DEF Receiver_Next, Lib, Secure
    <2>2. CASE Receiver_expire
        <3>1. /\ store' = [pool |-> store.pool, recorded |-> 0]
              /\ past' = past
              /\ store.recorded # 0
            BY <1>2, <2>2 DEF Receiver_expire, Write, Receiver_Inv, Receiver_Types
        <3> QED BY <1>2, <3>1, ContractAssumption DEF Receiver_Inv, Receiver_Types,
               Receiver_FeesCollected, Receiver_pool_balance
    <2>3. ASSUME NEW receiver \in {"ignoring", "failing", "principal_only", "full_repay"}, NEW n
                 \in -1..2, NEW ledger \in {"shared", "own"},
                 (n > 0 /\ Receiver_record_repayment(n))
          PROVE  Receiver_Inv'
        <3>1. /\ store' = [pool |-> store.pool, recorded |-> store.recorded + n]
              /\ past' = past
              /\ n > 0
              /\ store.recorded + n \in 0..MaxPool
            BY <1>2, <2>3 DEF Receiver_record_repayment, Write, Receiver_Inv, Receiver_Types
        <3> QED BY <1>2, <3>1, ContractAssumption DEF Receiver_Inv, Receiver_Types,
               Receiver_FeesCollected, Receiver_pool_balance, MaxPool
    <2>4. ASSUME NEW receiver \in {"ignoring", "failing", "principal_only", "full_repay"}, NEW n
                 \in -1..2, NEW ledger \in {"shared", "own"},
                 Receiver_deposit(n)
          PROVE  Receiver_Inv'
        <3>1. /\ store' = [pool |-> store.pool + n, recorded |-> store.recorded]
              /\ past' = [owed |-> past.owed + n]
              /\ store.pool + n \in -1..MaxPool
              /\ past.owed + n \in -MaxPool..MaxPool
            BY <1>2, <2>4 DEF Receiver_deposit, WriteAnd, Receiver_Inv, Receiver_Types
        <3> QED BY <1>2, <3>1, ContractAssumption DEF Receiver_Inv, Receiver_Types,
               Receiver_FeesCollected, Receiver_pool_balance, MaxPool
    <2>5. ASSUME NEW receiver \in {"ignoring", "failing", "principal_only", "full_repay"}, NEW n
                 \in -1..2, NEW ledger \in {"shared", "own"},
                 Receiver_flash_loan(receiver, n, ledger)
          PROVE  Receiver_Inv'
        <3>1. /\ store' =
                 [pool |-> store.pool - n + (Receiver_consume_repayment(receiver, n, ledger)),
                           recorded |-> (IF ledger = "own"
                                         THEN store.recorded + (Receiver_on_flash_loan(receiver,
                                               n)).recorded
                                         ELSE 0)]
              /\ past' = [owed |-> past.owed + FLASH_FEE]
              /\ store.pool >= n
              /\ (Receiver_on_flash_loan(receiver, n)).ok
              /\ (Receiver_consume_repayment(receiver, n, ledger)) >= n + FLASH_FEE
              /\ store.pool - n + (Receiver_consume_repayment(receiver, n, ledger)) <= MaxPool
              /\ past.owed + FLASH_FEE <= MaxPool
              /\ (IF ledger = "own"
                  THEN store.recorded + (Receiver_on_flash_loan(receiver, n)).recorded
                  ELSE 0) \in -MaxPool..MaxPool
            BY <1>2, <2>5 DEF Receiver_flash_loan, WriteAnd, Receiver_Inv, Receiver_Types
        <3> QED BY <1>2, <3>1, ContractAssumption DEF Receiver_Inv, Receiver_Types,
               Receiver_FeesCollected, Receiver_pool_balance, Receiver_consume_repayment,
               Receiver_on_flash_loan, FLASH_FEE, MaxPool
    <2> QED BY <2>1, <2>2, <2>3, <2>4, <2>5
<1>3. Receiver_Inv /\ UNCHANGED vars => Receiver_Inv'
    BY DEF Receiver_Inv, Receiver_Types, Receiver_FeesCollected, vars, Receiver_pool_balance
<1> QED BY <1>1, <1>2, <1>3

-----------------------------------------------------------------------------
(* flash_loan_no_check.                                                    *)
NoCheck_Types ==
    /\ store \in [pool : Int, recorded : Int]
    /\ past \in [deposited : Int]

NoCheck_Inv == NoCheck_Types /\ NoCheck_PoolKept

\* Every deployment is in NoCheck_Inv; a call of the corrected contract, or
\* none, stays in it.
LEMMA NoCheck_Correct ==
    /\ now = 0 /\ NoCheck_Init => NoCheck_Inv
    /\ Secure /\ NoCheck_Inv /\ NoCheck_Next => NoCheck_Inv'
    /\ NoCheck_Inv /\ UNCHANGED vars => NoCheck_Inv'
<1>1. now = 0 /\ NoCheck_Init => NoCheck_Inv
    BY ContractAssumption DEF NoCheck_Init, NoCheck_Inv, NoCheck_Types, NoCheck_PoolKept,
       NoCheck_PoolKept, NoCheck_pool_balance, NoCheck_Init
<1>2. ASSUME Secure, NoCheck_Inv, NoCheck_Next PROVE NoCheck_Inv'
    <2>1. PICK borrower \in {"honest", "dishonest"}, n \in -1..2 :
              (n > 0 /\ NoCheck_record_repayment(n)) \/ NoCheck_deposit(n) \/
              NoCheck_flash_loan(borrower, n)
        BY <1>2, Zenon DEF NoCheck_Next, Lib, Secure
    <2>2. CASE (n > 0 /\ NoCheck_record_repayment(n))
        <3>1. /\ store' = [pool |-> store.pool, recorded |-> store.recorded + n]
              /\ past' = past
              /\ n > 0
              /\ store.recorded + n \in 0..MaxPool
            BY <1>2, <2>2 DEF NoCheck_record_repayment, Write, NoCheck_Inv, NoCheck_Types
        <3> QED BY <1>2, <3>1, ContractAssumption DEF NoCheck_Inv, NoCheck_Types,
               NoCheck_PoolKept, NoCheck_pool_balance, MaxPool
    <2>3. CASE NoCheck_deposit(n)
        <3>1. /\ store' = [pool |-> store.pool + n, recorded |-> store.recorded]
              /\ past' = [deposited |-> past.deposited + n]
              /\ store.pool + n \in -1..MaxPool
              /\ past.deposited + n \in -MaxPool..MaxPool
            BY <1>2, <2>3 DEF NoCheck_deposit, WriteAnd, NoCheck_Inv, NoCheck_Types
        <3> QED BY <1>2, <3>1, ContractAssumption DEF NoCheck_Inv, NoCheck_Types,
               NoCheck_PoolKept, NoCheck_pool_balance, MaxPool
    <2>4. CASE NoCheck_flash_loan(borrower, n)
        <3>1. /\ store' = [pool |-> store.pool - n + (NoCheck_consume_repayment(borrower, n)),
                           recorded |-> 0]
              /\ past' = past
              /\ store.pool >= n
              /\ (NoCheck_consume_repayment(borrower, n)) >= n
              /\ store.pool - n + (NoCheck_consume_repayment(borrower, n)) <= MaxPool
            BY <1>2, <2>4 DEF NoCheck_flash_loan, Write, NoCheck_Inv, NoCheck_Types
        <3> QED BY <1>2, <3>1, ContractAssumption DEF NoCheck_Inv, NoCheck_Types,
               NoCheck_PoolKept, NoCheck_pool_balance, NoCheck_consume_repayment, MaxPool,
               NoCheck_on_flash_loan
    <2> QED BY <2>1, <2>2, <2>3, <2>4
<1>3. NoCheck_Inv /\ UNCHANGED vars => NoCheck_Inv'
    BY DEF NoCheck_Inv, NoCheck_Types, NoCheck_PoolKept, vars, NoCheck_pool_balance
<1> QED BY <1>1, <1>2, <1>3


-----------------------------------------------------------------------------
(* twap_window_too_short.                                                  *)
\* One observation.
Twap_Observation == [ledger : Nat, price : TwapPrices]

\* The averages a buffer of up to four observations can have.
LEMMA Twap_Averages ==
    ASSUME NEW obs \in Seq(Twap_Observation), Len(obs) \in 1..4
    PROVE  /\ \A i \in 1..Len(obs) : obs[i].price \in {1, 3}
           /\ Len(obs) = 1 => Twap_average(obs) = Quotient(obs[1].price, 1)
           /\ Len(obs) = 2 => Twap_average(obs) = Quotient(obs[1].price + obs[2].price, 2)
           /\ Len(obs) = 3 => Twap_average(obs) =
                  Quotient(obs[1].price + obs[2].price + obs[3].price, 3)
           /\ Len(obs) = 4 => Twap_average(obs) =
                  Quotient(obs[1].price + obs[2].price + obs[3].price + obs[4].price, 4)
<1>1. PICK n : n = Len(obs)
    OBVIOUS
<1>2. n \in 1..4 /\ DOMAIN obs = 1..n
    BY <1>1
<1>3. PICK f : f = [i \in DOMAIN obs |-> obs[i].price]
    OBVIOUS
<1>4. \A i \in 1..n : obs[i].price \in {1, 3}
    <2>1. \A i \in 1..n : obs[i] \in Twap_Observation
        BY <1>1, <1>2
    <2> QED BY <2>1 DEF Twap_Observation, TwapPrices
<1>5. f \in [1..n -> Int] /\ \A i \in 1..n : f[i] = obs[i].price
    BY <1>2, <1>3, <1>4
<1>6. Twap_average(obs) = Quotient(SumFunction(f), n)
    BY <1>1, <1>3 DEF Twap_average
<1>7. CASE n = 1
    BY <1>1, <1>4, <1>5, <1>6, <1>7, SumOfFew
<1>8. CASE n = 2
    BY <1>1, <1>4, <1>5, <1>6, <1>8, SumOfFew
<1>9. CASE n = 3
    BY <1>1, <1>4, <1>5, <1>6, <1>9, SumOfFew
<1>10. CASE n = 4
    BY <1>1, <1>4, <1>5, <1>6, <1>10, SumOfFew
<1> QED BY <1>2, <1>7, <1>8, <1>9, <1>10

\* What one share of the price range and a unit of truncation allow.
Twap_Share(moved, n) == moved * n <= 2 + n /\ -moved * n <= 2 + n

\* One observation more, the window not being full.
LEMMA Twap_Grows ==
    ASSUME NEW obs \in Seq(Twap_Observation), NEW new \in Seq(Twap_Observation),
           Len(obs) \in 1..3, Len(new) = Len(obs) + 1, \A i \in 1..Len(obs) : new[i] = obs[i]
    PROVE  /\ Twap_average(new) - Twap_average(obs) \in Int
           /\ Twap_Share(Twap_average(new) - Twap_average(obs), Len(new))
<1>1. PICK a, b, c, d : a = new[1].price /\ b = new[2].price /\ c = new[3].price /\ d = new[4].price
    OBVIOUS
<1>2. PICK q, r : q = Twap_average(obs) /\ r = Twap_average(new)
    OBVIOUS
<1>3. CASE Len(obs) = 1
    <2>1. a \in {1, 3} /\ b \in {1, 3} /\ q = Quotient(a, 1) /\ r = Quotient(a + b, 2)
        BY <1>1, <1>2, <1>3, Twap_Averages
    <2>a. PICK k \in Nat, l \in Nat : k = a /\ l = a + b
        BY <2>1
    <2>2. q = k \div 1 /\ r = l \div 2
        BY <2>1, <2>a, QuotientIsDiv
    <2>3. r - q \in Int /\ (r - q) * 2 <= 4 /\ -(r - q) * 2 <= 4
        BY <2>1, <2>a, <2>2
    <2> QED BY <1>2, <1>3, <2>3 DEF Twap_Share
<1>4. CASE Len(obs) = 2
    <2>1. /\ a \in {1, 3} /\ b \in {1, 3} /\ c \in {1, 3}
          /\ q = Quotient(a + b, 2) /\ r = Quotient(a + b + c, 3)
        BY <1>1, <1>2, <1>4, Twap_Averages
    <2>a. PICK k \in Nat, l \in Nat : k = a + b /\ l = a + b + c
        BY <2>1
    <2>2. q = k \div 2 /\ r = l \div 3
        BY <2>1, <2>a, QuotientIsDiv
    <2>3. r - q \in Int /\ (r - q) * 3 <= 5 /\ -(r - q) * 3 <= 5
        BY <2>1, <2>a, <2>2
    <2> QED BY <1>2, <1>4, <2>3 DEF Twap_Share
<1>5. CASE Len(obs) = 3
    <2>1. /\ a \in {1, 3} /\ b \in {1, 3} /\ c \in {1, 3} /\ d \in {1, 3}
          /\ q = Quotient(a + b + c, 3) /\ r = Quotient(a + b + c + d, 4)
        BY <1>1, <1>2, <1>5, Twap_Averages
    <2>a. PICK k \in Nat, l \in Nat : k = a + b + c /\ l = a + b + c + d
        BY <2>1
    <2>2. q = k \div 3 /\ r = l \div 4
        BY <2>1, <2>a, QuotientIsDiv
    <2>3. r - q \in Int /\ (r - q) * 4 <= 6 /\ -(r - q) * 4 <= 6
        BY <2>1, <2>a, <2>2
    <2> QED BY <1>2, <1>5, <2>3 DEF Twap_Share
<1> QED BY <1>3, <1>4, <1>5

\* One observation replaces the oldest of a full window.
LEMMA Twap_Slides ==
    ASSUME NEW obs \in Seq(Twap_Observation), NEW new \in Seq(Twap_Observation),
           Len(obs) \in {3, 4}, Len(new) = Len(obs),
           \A i \in 1..(Len(obs) - 1) : new[i] = obs[i + 1]
    PROVE  /\ Twap_average(new) - Twap_average(obs) \in Int
           /\ Twap_Share(Twap_average(new) - Twap_average(obs), Len(new))
<1>1. PICK a, b, c, d : a = obs[1].price /\ b = obs[2].price /\ c = obs[3].price /\ d = obs[4].price
    OBVIOUS
<1>2. PICK q, r, e : q = Twap_average(obs) /\ r = Twap_average(new) /\ e = new[Len(new)].price
    OBVIOUS
<1>3. CASE Len(obs) = 3
    <2>1. /\ a \in {1, 3} /\ b \in {1, 3} /\ c \in {1, 3} /\ e \in {1, 3}
          /\ q = Quotient(a + b + c, 3) /\ r = Quotient(b + c + e, 3)
        BY <1>1, <1>2, <1>3, Twap_Averages
    <2>a. PICK k \in Nat, l \in Nat : k = a + b + c /\ l = b + c + e
        BY <2>1
    <2>2. q = k \div 3 /\ r = l \div 3
        BY <2>1, <2>a, QuotientIsDiv
    <2>3. r - q \in Int /\ (r - q) * 3 <= 5 /\ -(r - q) * 3 <= 5
        BY <2>1, <2>a, <2>2
    <2> QED BY <1>2, <1>3, <2>3 DEF Twap_Share
<1>4. CASE Len(obs) = 4
    <2>1. /\ a \in {1, 3} /\ b \in {1, 3} /\ c \in {1, 3} /\ d \in {1, 3} /\ e \in {1, 3}
          /\ q = Quotient(a + b + c + d, 4) /\ r = Quotient(b + c + d + e, 4)
        BY <1>1, <1>2, <1>4, Twap_Averages
    <2>a. PICK k \in Nat, l \in Nat : k = a + b + c + d /\ l = b + c + d + e
        BY <2>1
    <2>2. q = k \div 4 /\ r = l \div 4
        BY <2>1, <2>a, QuotientIsDiv
    <2>3. r - q \in Int /\ (r - q) * 4 <= 6 /\ -(r - q) * 4 <= 6
        BY <2>1, <2>a, <2>2
    <2> QED BY <1>2, <1>4, <2>3 DEF Twap_Share
<1> QED BY <1>3, <1>4

Twap_Types ==
    /\ now \in Nat
    /\ store \in [admin : Address \cup {None}, window : Int, obs : Seq(Twap_Observation)]
    /\ past \in [moved : Int, among : Int, seen : 0..MIN_TWAP_WINDOW]

\* An initialized oracle keeps at most a window of observations.
Twap_WithinWindow ==
    /\ store.admin = None => past.seen = 0
    /\ store.admin # None => store.window \in {3, 4} /\ Len(store.obs) <= store.window
                              /\ past.seen <= Len(store.obs)

Twap_Inv == Twap_Types /\ Twap_WithinWindow /\ Twap_OneObservationIsOneShare

\* Every deployment is in Twap_Inv; a call of the corrected contract, or none,
\* stays in it.
LEMMA Twap_Correct ==
    /\ now = 0 /\ Twap_Init => Twap_Inv
    /\ Secure /\ Twap_Inv /\ Twap_Next => Twap_Inv'
    /\ Twap_Inv /\ UNCHANGED vars => Twap_Inv'
<1>1. ASSUME now = 0, Twap_Init PROVE Twap_Inv
    <2>1. <<>> \in Seq(Twap_Observation)
        OBVIOUS
    <2>2. Twap_Types /\ Twap_WithinWindow
        BY <1>1, <2>1, ContractAssumption
           DEF Twap_Init, Twap_Types, Twap_WithinWindow, MIN_TWAP_WINDOW
    <2>3. Twap_OneObservationIsOneShare
        BY <1>1 DEF Twap_Init, Twap_OneObservationIsOneShare, TwapRange
    <2> QED BY <2>2, <2>3 DEF Twap_Inv
<1>2. ASSUME Secure, Twap_Inv, Twap_Next PROVE Twap_Inv'
    <2>1. \/ CloseLedger
          \/ \E u \in Address, window \in 0..4, price \in TwapPrices : Twap_initialize(u, window) \/
             Twap_record_price(u, price)
        BY <1>2, Zenon DEF Twap_Next, Lib, Secure
    <2>2. CASE CloseLedger
        <3>1. /\ store' = store
              /\ past' = past
              /\ now' = now + 1
            BY <1>2, <2>2 DEF CloseLedger, Twap_Inv, Twap_Types
        <3> QED BY <1>2, <3>1, ContractAssumption DEF Twap_Inv, Twap_Types, Twap_WithinWindow,
               Twap_OneObservationIsOneShare
    <2>3. ASSUME NEW u \in Address, NEW window \in 0..4, NEW price \in TwapPrices,
                 Twap_initialize(u, window)
          PROVE  Twap_Inv'
        <3>1. /\ store' = [admin |-> u, window |-> window, obs |-> <<>>] /\ past' = past /\
                 now' = now
              /\ store.admin = None /\ window >= 3
            BY <1>2, <2>3 DEF Twap_initialize, Twap_initialize_lib, Write, MIN_TWAP_WINDOW
        <3>2. <<>> \in Seq(Twap_Observation) /\ Len(<<>>) = 0 /\ u # None /\ window \in {3, 4} /\
                  past.seen = 0
            BY <1>2, <3>1, ContractAssumption DEF Twap_Inv, Twap_WithinWindow
        <3>3. Twap_Types' /\ Twap_WithinWindow'
            BY <1>2, <3>1, <3>2 DEF Twap_Inv, Twap_Types, Twap_WithinWindow
        <3>4. Twap_OneObservationIsOneShare'
            BY <1>2, <3>1 DEF Twap_Inv, Twap_OneObservationIsOneShare
        <3> QED BY <3>3, <3>4 DEF Twap_Inv
    <2>4. ASSUME NEW u \in Address, NEW window \in 0..4, NEW price \in TwapPrices,
                 Twap_record_price(u, price)
          PROVE  Twap_Inv'
        <3>1. PICK x : x = [ledger |-> now, price |-> price]
            OBVIOUS
        <3>2. PICK all : all = Append(store.obs, x)
            OBVIOUS
        <3>3. PICK obs : obs = IF Len(all) > store.window THEN Tail(all) ELSE all
            OBVIOUS
        <3>4. PICK moved : moved = IF store.obs = <<>> THEN 0
                                   ELSE Twap_average(obs) - Twap_average(store.obs)
            OBVIOUS
        <3>5. PICK seen : seen = IF past.seen < 3 THEN past.seen + 1 ELSE past.seen
            OBVIOUS
        <3>6. /\ store' = [admin |-> store.admin, window |-> store.window, obs |-> obs]
              /\ past' = [moved |-> moved, among |-> Len(obs), seen |-> seen] /\ now' = now
              /\ u = store.admin
            BY <1>2, <2>4, <3>1, <3>2, <3>3, <3>4, <3>5
               DEF Twap_record_price, WriteAnd, Twap_Inv, Twap_Types,
               MIN_TWAP_WINDOW
        <3>7. /\ store.obs \in Seq(Twap_Observation) /\ now \in Nat /\
                 store.admin \in Address \cup {None}
              /\ store.window \in {3, 4} /\ Len(store.obs) <= store.window /\ store.admin # None
              /\ past.seen \in 0..3 /\ past.seen <= Len(store.obs) /\ Len(store.obs) \in Nat
            BY <1>2, <3>6, ContractAssumption
               DEF Twap_Inv, Twap_Types, Twap_WithinWindow, MIN_TWAP_WINDOW
        <3>8. x \in Twap_Observation
            BY <3>1, <3>7 DEF Twap_Observation
        <3>9. /\ all \in Seq(Twap_Observation) /\ Len(all) = Len(store.obs) + 1 /\ Len(all) > 0
              /\ \A i \in 1..Len(store.obs) : all[i] = store.obs[i]
            BY <3>2, <3>7, <3>8, Appended
        <3>10. /\ obs \in Seq(Twap_Observation) /\ Len(obs) <= store.window /\ seen <= Len(obs)
               /\ moved \in Int /\ Twap_Share(moved, Len(obs))
            <4>1. CASE Len(store.obs) < store.window
                <5>1. obs = all
                    BY <3>3, <3>7, <3>9, <4>1
                <5>2. moved \in Int /\ Twap_Share(moved, Len(obs))
                    <6>1. CASE Len(store.obs) = 0
                        <7>1. store.obs = <<>> /\ Len(obs) = 1
                            BY <3>7, <3>9, <5>1, <6>1
                        <7> QED BY <3>4, <7>1 DEF Twap_Share
                    <6>2. CASE Len(store.obs) # 0
                        <7>0. Len(<<>>) = 0
                            OBVIOUS
                        <7>2. store.obs # <<>>
                            BY <6>2, <7>0, Zenon
                        <7>a. PICK n, w : n = Len(store.obs) /\ w = store.window
                            OBVIOUS
                        <7>b. n \in Nat /\ w \in {3, 4} /\ n < w /\ n # 0
                            BY <3>7, <4>1, <6>2, <7>a
                        <7>c. n \in 1..3
                            BY <7>b
                        <7>3. Len(store.obs) \in 1..3
                            BY <7>a, <7>c
                        <7>1. Len(store.obs) \in 1..3 /\ store.obs # <<>>
                            BY <7>2, <7>3
                        <7> QED BY <3>4, <3>7, <3>9, <5>1, <7>1, Twap_Grows
                    <6> QED BY <6>1, <6>2
                <5>3. seen <= Len(obs) /\ Len(obs) <= store.window
                    BY <3>5, <3>7, <3>9, <4>1, <5>1
                <5> QED BY <3>9, <5>1, <5>2, <5>3
            <4>2. CASE Len(store.obs) = store.window
                <5>1. obs = Tail(all)
                    BY <3>3, <3>7, <3>9, <4>2
                <5>2. /\ obs \in Seq(Twap_Observation) /\ Len(obs) = Len(all) - 1
                      /\ \A i \in 1..(Len(all) - 1) : obs[i] = all[i + 1]
                    BY <3>9, <5>1, Tailed
                <5>a. PICK n : n = Len(store.obs)
                    OBVIOUS
                <5>b. n \in {3, 4} /\ Len(all) = n + 1 /\ Len(obs) = n
                    BY <3>7, <3>9, <4>2, <5>2, <5>a
                <5>c. \A i \in 1..(n - 1) : obs[i] = store.obs[i + 1]
                    BY <3>9, <5>2, <5>a, <5>b
                <5>d. Len(<<>>) = 0 /\ n # 0
                    BY <5>b
                <5>e. store.obs # <<>>
                    BY <5>a, <5>d, Zenon
                <5>3. /\ Len(obs) = Len(store.obs) /\ Len(store.obs) \in {3, 4} /\ store.obs # <<>>
                      /\ \A i \in 1..(Len(store.obs) - 1) : obs[i] = store.obs[i + 1]
                    BY <5>a, <5>b, <5>c, <5>e
                <5>4. moved \in Int /\ Twap_Share(moved, Len(obs))
                    BY <3>4, <3>7, <5>2, <5>3, Twap_Slides
                <5>5. seen <= Len(obs)
                    <6>1. past.seen \in 0..3
                        BY <3>7
                    <6>2. seen \in 0..3
                        BY <3>5, <6>1
                    <6> QED BY <5>b, <6>2
                <5> QED BY <4>2, <5>2, <5>3, <5>4, <5>5
            <4> QED BY <3>7, <4>1, <4>2
        <3>11. seen \in 0..3 /\ Len(obs) \in Int
            BY <3>5, <3>7, <3>10
        <3>12. Twap_Types' /\ Twap_WithinWindow'
            BY <3>6, <3>7, <3>10, <3>11 DEF Twap_Types, Twap_WithinWindow, MIN_TWAP_WINDOW
        <3>13. Twap_OneObservationIsOneShare'
            <4>1. past'.moved = moved /\ past'.among = Len(obs) /\ past'.seen = seen
                BY <3>6
            <4> QED BY <3>10, <3>11, <4>1 DEF Twap_OneObservationIsOneShare, Twap_Share, TwapRange
        <3> QED BY <3>12, <3>13 DEF Twap_Inv
    <2> QED BY <2>1, <2>2, <2>3, <2>4
<1>3. Twap_Inv /\ UNCHANGED vars => Twap_Inv'
    BY DEF Twap_Inv, Twap_Types, Twap_WithinWindow, Twap_OneObservationIsOneShare, vars
<1> QED BY <1>1, <1>2, <1>3

-----------------------------------------------------------------------------
(* future_oracle_timestamp.                                                *)
Future_Types ==
    /\ now \in Nat
    /\ store \in [oracle : {"oracle", None}, collateral : Int, admin : Address \cup {None},
                  price : Int, published : Int]
    /\ past \in [age : Int]

Future_Inv == Future_Types /\ Future_PriceOfRecentPast

\* Every deployment is in Future_Inv; a call of the corrected contract, or
\* none, stays in it.
LEMMA Future_Correct ==
    /\ now = 0 /\ Future_Init => Future_Inv
    /\ Secure /\ Future_Inv /\ Future_Next => Future_Inv'
    /\ Future_Inv /\ UNCHANGED vars => Future_Inv'
<1>1. now = 0 /\ Future_Init => Future_Inv
    BY ContractAssumption, SoloAccount DEF Future_Init, Future_Inv, Future_Types,
       Future_PriceOfRecentPast, Future_PriceOfRecentPast, MAX_STALENESS, Future_Init
<1>2. ASSUME Secure, Future_Inv, Future_Next PROVE Future_Inv'
    <2>1. \/ CloseLedger
          \/ \E u \in Solo, n \in {-1, 1}, price \in 1..2,
             time \in 0..(LastLedger + 1) : Future_init_oracle(u) \/ Future_set_price(price) \/
             Future_set_price_at(price, time) \/ Future_init("oracle") \/ Future_deposit(n) \/
             Future_get_value
        BY <1>2, Zenon DEF Future_Next, Lib, Secure
    <2>2. CASE CloseLedger
        <3>1. /\ store' = store
              /\ past' = past
              /\ now' = now + 1
            BY <1>2, <2>2 DEF CloseLedger, Future_Inv, Future_Types
        <3> QED BY <1>2, <3>1, ContractAssumption, SoloAccount DEF Future_Inv, Future_Types,
               Future_PriceOfRecentPast, MAX_STALENESS
    <2>3. ASSUME NEW u \in Solo, NEW n \in {-1, 1}, NEW price \in 1..2, NEW time \in
                 0..(LastLedger + 1),
                 Future_init_oracle(u)
          PROVE  Future_Inv'
        <3>1. /\ store' = [oracle |-> store.oracle, collateral |-> store.collateral, admin |-> u,
                           price |-> store.price, published |-> store.published]
              /\ past' = past
              /\ now' = now
              /\ store.admin = None
            BY <1>2, <2>3 DEF Future_init_oracle, Write, Future_Inv, Future_Types
        <3> QED BY <1>2, <3>1, ContractAssumption, SoloAccount DEF Future_Inv, Future_Types,
               Future_PriceOfRecentPast, MAX_STALENESS
    <2>4. ASSUME NEW u \in Solo, NEW n \in {-1, 1}, NEW price \in 1..2, NEW time \in
                 0..(LastLedger + 1),
                 Future_set_price(price)
          PROVE  Future_Inv'
        <3>1. /\ store' = [oracle |-> store.oracle, collateral |-> store.collateral,
                           admin |-> store.admin, price |-> price, published |-> now]
              /\ past' = past
              /\ now' = now
              /\ store.admin # None
            BY <1>2, <2>4 DEF Future_set_price, Write, Future_Inv, Future_Types
        <3> QED BY <1>2, <3>1, ContractAssumption, SoloAccount DEF Future_Inv, Future_Types,
               Future_PriceOfRecentPast, MAX_STALENESS
    <2>5. ASSUME NEW u \in Solo, NEW n \in {-1, 1}, NEW price \in 1..2, NEW time \in
                 0..(LastLedger + 1),
                 Future_set_price_at(price, time)
          PROVE  Future_Inv'
        <3>1. /\ store' = [oracle |-> store.oracle, collateral |-> store.collateral,
                           admin |-> store.admin, price |-> price, published |-> time]
              /\ past' = past
              /\ now' = now
              /\ store.admin # None
            BY <1>2, <2>5 DEF Future_set_price_at, Write, Future_Inv, Future_Types
        <3> QED BY <1>2, <3>1, ContractAssumption, SoloAccount DEF Future_Inv, Future_Types,
               Future_PriceOfRecentPast, MAX_STALENESS
    <2>6. ASSUME NEW u \in Solo, NEW n \in {-1, 1}, NEW price \in 1..2, NEW time \in
                 0..(LastLedger + 1),
                 Future_init("oracle")
          PROVE  Future_Inv'
        <3>1. /\ store' = [oracle |-> "oracle", collateral |-> store.collateral,
                           admin |-> store.admin, price |-> store.price,
                           published |-> store.published]
              /\ past' = past
              /\ now' = now
              /\ store.oracle = None
            BY <1>2, <2>6 DEF Future_init, Write, Future_Inv, Future_Types
        <3> QED BY <1>2, <3>1, ContractAssumption, SoloAccount DEF Future_Inv, Future_Types,
               Future_PriceOfRecentPast, MAX_STALENESS
    <2>7. ASSUME NEW u \in Solo, NEW n \in {-1, 1}, NEW price \in 1..2, NEW time \in
                 0..(LastLedger + 1),
                 Future_deposit(n)
          PROVE  Future_Inv'
        <3>1. /\ store' = [oracle |-> store.oracle, collateral |-> store.collateral + n,
                           admin |-> store.admin, price |-> store.price,
                           published |-> store.published]
              /\ past' = past
              /\ now' = now
              /\ store.collateral + n \in -1..1
            BY <1>2, <2>7 DEF Future_deposit, Write, Future_Inv, Future_Types
        <3> QED BY <1>2, <3>1, ContractAssumption, SoloAccount DEF Future_Inv, Future_Types,
               Future_PriceOfRecentPast, MAX_STALENESS
    <2>8. ASSUME NEW u \in Solo, NEW n \in {-1, 1}, NEW price \in 1..2, NEW time \in
                 0..(LastLedger + 1),
                 Future_get_value
          PROVE  Future_Inv'
        <3>1. /\ store' = store
              /\ past' = [age |-> now - Future_publish_time]
              /\ now' = now
              /\ store.oracle # None
              /\ Future_publish_time <= now
              /\ now - Future_publish_time <= MAX_STALENESS
            BY <1>2, <2>8 DEF Future_get_value, Observe, Future_Inv, Future_Types
        <3> QED BY <1>2, <3>1, ContractAssumption, SoloAccount DEF Future_Inv, Future_Types,
               Future_PriceOfRecentPast, MAX_STALENESS, Future_publish_time
    <2> QED BY <2>1, <2>2, <2>3, <2>4, <2>5, <2>6, <2>7, <2>8
<1>3. Future_Inv /\ UNCHANGED vars => Future_Inv'
    BY DEF Future_Inv, Future_Types, Future_PriceOfRecentPast, vars
<1> QED BY <1>1, <1>2, <1>3

-----------------------------------------------------------------------------
(* stale_oracle.                                                           *)
Stale_Types ==
    /\ now \in Nat
    /\ store \in [oracle : {"oracle", None}, collateral : Int, admin : Address \cup {None},
                  price : Int, updated : Nat]
    /\ past \in [age : Int]

Stale_Inv == Stale_Types /\ Stale_PriceOfRecentPast

\* Every deployment is in Stale_Inv; a call of the corrected contract, or none,
\* stays in it.
LEMMA Stale_Correct ==
    /\ now = 0 /\ Stale_Init => Stale_Inv
    /\ Secure /\ Stale_Inv /\ Stale_Next => Stale_Inv'
    /\ Stale_Inv /\ UNCHANGED vars => Stale_Inv'
<1>1. now = 0 /\ Stale_Init => Stale_Inv
    BY ContractAssumption, SoloAccount DEF Stale_Init, Stale_Inv, Stale_Types,
       Stale_PriceOfRecentPast, Stale_PriceOfRecentPast, MAX_STALENESS, Stale_last_updated,
       Stale_Init
<1>2. ASSUME Secure, Stale_Inv, Stale_Next PROVE Stale_Inv'
    <2>1. \/ CloseLedger
          \/ \E u \in Solo, n \in {-1, 1}, price \in 1..2 : Stale_init_oracle(u) \/
             Stale_set_price(price) \/ Stale_init("oracle") \/ Stale_deposit_collateral(n) \/
             Stale_get_collateral_value
        BY <1>2, Zenon DEF Stale_Next, Lib, Secure
    <2>2. CASE CloseLedger
        <3>1. /\ store' = store
              /\ past' = past
              /\ now' = now + 1
            BY <1>2, <2>2 DEF CloseLedger, Stale_Inv, Stale_Types
        <3> QED BY <1>2, <3>1, ContractAssumption, SoloAccount DEF Stale_Inv, Stale_Types,
               Stale_PriceOfRecentPast, MAX_STALENESS, Stale_last_updated
    <2>3. ASSUME NEW u \in Solo, NEW n \in {-1, 1}, NEW price \in 1..2,
                 Stale_init_oracle(u)
          PROVE  Stale_Inv'
        <3>1. /\ store' = [oracle |-> store.oracle, collateral |-> store.collateral, admin |-> u,
                           price |-> store.price, updated |-> store.updated]
              /\ past' = past
              /\ now' = now
              /\ store.admin = None
            BY <1>2, <2>3 DEF Stale_init_oracle, Write, Stale_Inv, Stale_Types
        <3> QED BY <1>2, <3>1, ContractAssumption, SoloAccount DEF Stale_Inv, Stale_Types,
               Stale_PriceOfRecentPast, MAX_STALENESS, Stale_last_updated
    <2>4. ASSUME NEW u \in Solo, NEW n \in {-1, 1}, NEW price \in 1..2,
                 Stale_set_price(price)
          PROVE  Stale_Inv'
        <3>1. /\ store' = [oracle |-> store.oracle, collateral |-> store.collateral,
                           admin |-> store.admin, price |-> price, updated |-> now]
              /\ past' = past
              /\ now' = now
              /\ store.admin # None
            BY <1>2, <2>4 DEF Stale_set_price, Write, Stale_Inv, Stale_Types
        <3> QED BY <1>2, <3>1, ContractAssumption, SoloAccount DEF Stale_Inv, Stale_Types,
               Stale_PriceOfRecentPast, MAX_STALENESS, Stale_last_updated
    <2>5. ASSUME NEW u \in Solo, NEW n \in {-1, 1}, NEW price \in 1..2,
                 Stale_init("oracle")
          PROVE  Stale_Inv'
        <3>1. /\ store' = [oracle |-> "oracle", collateral |-> store.collateral,
                           admin |-> store.admin, price |-> store.price, updated |-> store.updated]
              /\ past' = past
              /\ now' = now
              /\ store.oracle = None
            BY <1>2, <2>5 DEF Stale_init, Write, Stale_Inv, Stale_Types
        <3> QED BY <1>2, <3>1, ContractAssumption, SoloAccount DEF Stale_Inv, Stale_Types,
               Stale_PriceOfRecentPast, MAX_STALENESS, Stale_last_updated
    <2>6. ASSUME NEW u \in Solo, NEW n \in {-1, 1}, NEW price \in 1..2,
                 Stale_deposit_collateral(n)
          PROVE  Stale_Inv'
        <3>1. /\ store' = [oracle |-> store.oracle, collateral |-> store.collateral + n,
                           admin |-> store.admin, price |-> store.price, updated |-> store.updated]
              /\ past' = past
              /\ now' = now
              /\ store.collateral + n \in -1..1
            BY <1>2, <2>6 DEF Stale_deposit_collateral, Write, Stale_Inv, Stale_Types
        <3> QED BY <1>2, <3>1, ContractAssumption, SoloAccount DEF Stale_Inv, Stale_Types,
               Stale_PriceOfRecentPast, MAX_STALENESS, Stale_last_updated
    <2>7. ASSUME NEW u \in Solo, NEW n \in {-1, 1}, NEW price \in 1..2,
                 Stale_get_collateral_value
          PROVE  Stale_Inv'
        <3>1. /\ store' = store
              /\ past' = [age |-> now - Stale_last_updated]
              /\ now' = now
              /\ saturating_sub(now, Stale_last_updated) <= MAX_STALENESS
              /\ store.oracle # None
            BY <1>2, <2>7 DEF Stale_get_collateral_value, Stale_get_collateral_value_lib,
               Observe, Stale_Inv, Stale_Types
        <3> QED BY <1>2, <3>1, ContractAssumption, SoloAccount DEF Stale_Inv, Stale_Types,
               Stale_PriceOfRecentPast, MAX_STALENESS, Stale_last_updated, saturating_sub
    <2> QED BY <2>1, <2>2, <2>3, <2>4, <2>5, <2>6, <2>7
<1>3. Stale_Inv /\ UNCHANGED vars => Stale_Inv'
    BY DEF Stale_Inv, Stale_Types, Stale_PriceOfRecentPast, vars, Stale_last_updated
<1> QED BY <1>1, <1>2, <1>3

-----------------------------------------------------------------------------
(* oracle_price_scale_mismatch.                                            *)
Scale_Types ==
    /\ store \in [price : [Feeds -> {0, 1, 2}], exponent : [Feeds -> {0, 1, 2, None}],
                  collateral : Int, debt : Int]
    /\ past \in [amount : Int, credited : Int, worth : Int]

Scale_Inv == Scale_Types /\ Scale_CreditedAtWorth

\* Every deployment is in Scale_Inv; a call of the corrected contract, or none,
\* stays in it.
LEMMA Scale_Correct ==
    /\ now = 0 /\ Scale_Init => Scale_Inv
    /\ Secure /\ Scale_Inv /\ Scale_Next => Scale_Inv'
    /\ Scale_Inv /\ UNCHANGED vars => Scale_Inv'
<1>1. now = 0 /\ Scale_Init => Scale_Inv
    BY ContractAssumption DEF Scale_Init, Scale_Inv, Scale_Types, Scale_CreditedAtWorth,
       Scale_CreditedAtWorth, Feeds, Scale_Init
<1>2. ASSUME Secure, Scale_Inv, Scale_Next PROVE Scale_Inv'
    <2>1. PICK f \in Feeds, price \in {1, 2}, exponent \in 0..2, n \in {-1, 1} :
              Scale_set_oracle(f, price, exponent) \/ Scale_deposit(f, n) \/ Scale_borrow(n)
        BY <1>2, Zenon DEF Scale_Next, Lib, Secure
    <2>2. CASE Scale_set_oracle(f, price, exponent)
        <3>1. /\ store' = [price |-> [store.price EXCEPT ![f] = price],
                           exponent |-> [store.exponent EXCEPT ![f] = exponent],
                           collateral |-> store.collateral, debt |-> store.debt]
              /\ past' = past
            BY <1>2, <2>2 DEF Scale_set_oracle, Write, Scale_Inv, Scale_Types
        <3> QED BY <1>2, <3>1, ContractAssumption DEF Scale_Inv, Scale_Types,
               Scale_CreditedAtWorth, Feeds
    <2>3. CASE Scale_deposit(f, n)
        <3> DEFINE p == store.price[f]
                   e == Scale_exponent(f)
                   value == n * Scale_normalise(p, e)
        <3>0. p \in {0, 1, 2} /\ e \in {0, 1, 2} /\ n \in {-1, 1}
            BY <1>2, ContractAssumption DEF Scale_Inv, Scale_Types, Scale_exponent
        <3>1. /\ store' = [price |-> store.price, exponent |-> store.exponent,
                           collateral |-> store.collateral + value, debt |-> store.debt]
              /\ past' = [amount |-> n, credited |-> 2 * value, worth |-> n * p * 2 ^ (2 - e)]
            BY <1>2, <2>3 DEF Scale_deposit, Scale_credit, WriteAnd, Scale_Inv, Scale_Types
        <3> HIDE DEF p, e
        <3>2. Scale_normalise(p, e) \in Int /\
                  (p * 2 ^ (2 - e)) - 2 * Scale_normalise(p, e) \in 0..1 /\ p * 2 ^ (2 - e) \in Int
            <4>1. CASE e = 0
                BY <3>0, <4>1 DEF Scale_normalise, Quotient
            <4>2. CASE e = 1
                BY <3>0, <4>2 DEF Scale_normalise, Quotient
            <4>3. CASE e = 2
                BY <3>0, <4>3 DEF Scale_normalise, Quotient
            <4> QED BY <3>0, <4>1, <4>2, <4>3
        <3>a. PICK v, w : v = Scale_normalise(p, e) /\ w = p * 2 ^ (2 - e)
            OBVIOUS
        <3>b. v \in Int /\ w \in Int /\ w - 2 * v \in 0..1
            BY <3>2, <3>a
        <3>c. n * p * 2 ^ (2 - e) = n * w /\ n * w \in Int
            BY <3>0, <3>a, <3>b
        <3>3. value = n * v /\ n * v \in Int /\ 2 * (n * v) \in Int
            BY <3>0, <3>a, <3>b
        <3>4. Scale_Types'
            <4> HIDE DEF value
            <4>1. value \in Int /\ 2 * value \in Int /\ n \in Int
                BY <3>0, <3>3
            <4> QED BY <1>2, <3>1, <3>c, <4>1 DEF Scale_Inv, Scale_Types
        <3>5. Scale_CreditedAtWorth'
            <4>1. n > 0 => n * w - 2 * (n * v) \in 0..(2 * n - 1)
                BY <3>0, <3>b
            <4> QED BY <3>1, <3>3, <3>c, <4>1 DEF Scale_CreditedAtWorth
        <3> QED BY <3>4, <3>5 DEF Scale_Inv
    <2>4. CASE Scale_borrow(n)
        <3>1. /\ store' = [price |-> store.price, exponent |-> store.exponent,
                           collateral |-> store.collateral, debt |-> store.debt + n]
              /\ past' = past
              /\ store.collateral >= store.debt + n
              /\ store.debt + n \in -1..2
            BY <1>2, <2>4 DEF Scale_borrow, Write, Scale_Inv, Scale_Types
        <3> QED BY <1>2, <3>1, ContractAssumption DEF Scale_Inv, Scale_Types,
               Scale_CreditedAtWorth, Feeds
    <2> QED BY <2>1, <2>2, <2>3, <2>4
<1>3. Scale_Inv /\ UNCHANGED vars => Scale_Inv'
    BY DEF Scale_Inv, Scale_Types, Scale_CreditedAtWorth, vars
<1> QED BY <1>1, <1>2, <1>3

-----------------------------------------------------------------------------
(* untrusted_oracle_setter.                                                *)
Setter_Types ==
    /\ store = [admin |-> store.admin, oracle |-> store.oracle, allowlist |-> store.allowlist,
                price |-> store.price]
    /\ store.admin \in Address \cup {None}
    /\ store.oracle \in OracleContracts \cup {None}
    /\ store.allowlist \in SUBSET OracleContracts
    /\ past \in [setBy : Address \cup {None}]

\* Before initialize no oracle is set.
Setter_Unset ==
    store.admin = None => store.oracle = None

Setter_Inv == Setter_Types /\ Setter_Unset /\ Setter_OracleIsListed

\* Every deployment is in Setter_Inv; a call of the corrected contract, or
\* none, stays in it.
LEMMA Setter_Correct ==
    /\ now = 0 /\ Setter_Init => Setter_Inv
    /\ Secure /\ Setter_Inv /\ Setter_Next => Setter_Inv'
    /\ Setter_Inv /\ UNCHANGED vars => Setter_Inv'
<1>1. now = 0 /\ Setter_Init => Setter_Inv
    BY ContractAssumption DEF Setter_Init, Setter_Inv, Setter_Types, Setter_Unset,
       Setter_OracleIsListed, Setter_OracleIsListed, Setter_Init
<1>2. ASSUME Secure, Setter_Inv, Setter_Next PROVE Setter_Inv'
    <2>1. PICK u \in Address, o \in OracleContracts, price \in 0..1 :
              Setter_initialize(u) \/ Setter_set_oracle(u, o) \/ Setter_add_to_allowlist(u, o)
        BY <1>2, Zenon DEF Setter_Next, Lib, Secure
    <2>2. CASE Setter_initialize(u)
        <3>1. /\ store' = [admin |-> u, oracle |-> store.oracle, allowlist |-> store.allowlist,
                           price |-> store.price]
              /\ past' = past
              /\ store.admin = None
            BY <1>2, <2>2 DEF Setter_initialize, Write, Setter_Inv, Setter_Types
        <3> QED BY <1>2, <3>1, ContractAssumption DEF Setter_Inv, Setter_Types, Setter_Unset,
               Setter_OracleIsListed
    <2>3. CASE Setter_set_oracle(u, o)
        <3>1. /\ store' = [admin |-> store.admin, oracle |-> o, allowlist |-> store.allowlist,
                           price |-> store.price]
              /\ past' = [setBy |-> u]
              /\ store.admin # None
              /\ u = store.admin
              /\ o \in store.allowlist
            BY <1>2, <2>3 DEF Setter_set_oracle, Setter_set_oracle_lib, WriteAnd, Setter_Inv,
               Setter_Types
        <3> QED BY <1>2, <3>1, ContractAssumption DEF Setter_Inv, Setter_Types, Setter_Unset,
               Setter_OracleIsListed
    <2>4. CASE Setter_add_to_allowlist(u, o)
        <3>1. /\ store' = [admin |-> store.admin, oracle |-> store.oracle,
                           allowlist |-> store.allowlist \union {o}, price |-> store.price]
              /\ past' = past
              /\ store.admin # None
              /\ u = store.admin
            BY <1>2, <2>4 DEF Setter_add_to_allowlist, Write, Setter_Inv, Setter_Types
        <3> QED BY <1>2, <3>1, ContractAssumption DEF Setter_Inv, Setter_Types, Setter_Unset,
               Setter_OracleIsListed
    <2> QED BY <2>1, <2>2, <2>3, <2>4
<1>3. Setter_Inv /\ UNCHANGED vars => Setter_Inv'
    BY DEF Setter_Inv, Setter_Types, Setter_Unset, Setter_OracleIsListed, vars
<1> QED BY <1>1, <1>2, <1>3

-----------------------------------------------------------------------------
(* inactive_circuit_breaker.                                               *)
Breaker_Types ==
    /\ store \in [admin : Address \cup {None}, price : BreakerPrices, max_move_bps : 0..MAX_MOVE,
                  paused : BOOLEAN]
    /\ past \in [breached : BOOLEAN]

\* An initialized oracle has a positive price and the whole band.
Breaker_Priced ==
    store.admin # None => store.price > 0 /\ store.max_move_bps = MAX_MOVE

Breaker_Inv == Breaker_Types /\ Breaker_Priced

\* Every deployment is in Breaker_Inv; a call of the corrected contract, or
\* none, stays in it.
LEMMA Breaker_Correct ==
    /\ now = 0 /\ Breaker_Init => Breaker_Inv
    /\ Secure /\ Breaker_Inv /\ Breaker_Next => Breaker_Inv' /\ Breaker_MovesAreBounded
    /\ Breaker_Inv /\ UNCHANGED vars => Breaker_Inv' /\ Breaker_MovesAreBounded
<1>1. ASSUME now = 0, Breaker_Init PROVE Breaker_Inv
    <2>1. Breaker_Types
        BY <1>1, ContractAssumption DEF Breaker_Init, Breaker_Types, MAX_MOVE, BreakerPrices
    <2>2. Breaker_Priced
        BY <1>1, ContractAssumption DEF Breaker_Init, Breaker_Priced, MAX_MOVE, BreakerPrices
    <2> QED BY <2>1, <2>2 DEF Breaker_Inv
<1>2. ASSUME Secure, Breaker_Inv, Breaker_Next PROVE Breaker_Inv' /\ Breaker_MovesAreBounded
    <2>1. PICK u \in Address, price \in BreakerPrices :
              Breaker_initialize(u, price, MAX_MOVE) \/ Breaker_update_price(u, price) \/
              Breaker_swap_out \/ Breaker_liquidate \/ Breaker_force_pause(u) \/ Breaker_unpause(u)
        BY <1>2, Zenon DEF Breaker_Next, Lib, Secure
    <2>2. CASE Breaker_initialize(u, price, MAX_MOVE)
        <3>1. /\ store' = [admin |-> u, price |-> price, max_move_bps |-> MAX_MOVE,
                           paused |-> FALSE]
              /\ past' = past
              /\ store.admin = None
              /\ price > 0
              /\ MAX_MOVE > 0
            BY <1>2, <2>2 DEF Breaker_initialize, Write, Breaker_Inv, Breaker_Types
        <3> QED BY <1>2, <3>1, ContractAssumption DEF Breaker_Inv, Breaker_Types,
               Breaker_Priced, MAX_MOVE, BreakerPrices, Breaker_MovesAreBounded, Whole
    <2>3. CASE Breaker_update_price(u, price)
        <3>1. store.admin # None /\ u = store.admin
            BY <1>2, <2>3 DEF Breaker_update_price
        <3>2. CASE Breaker_move_bps(store.price, price) <= store.max_move_bps
            <4>0. /\ store' = [admin |-> store.admin, price |-> price,
                               max_move_bps |-> store.max_move_bps,
                               paused |-> store.paused]
                  /\ past' = past /\ price > 0
                BY <1>2, <2>3, <3>2 DEF Breaker_update_price, Write, Breaker_Inv, Breaker_Types
            <4>1. PICK old, new, m : old = store.price /\ new = price /\ m = store.max_move_bps
                OBVIOUS
            <4>2. old \in Nat \ {0} /\ new \in Nat /\ m \in Nat
                BY <1>2, <3>1, <4>1
                   DEF Breaker_Inv, Breaker_Types, Breaker_Priced, BreakerPrices, MAX_MOVE
            <4>a. (IF new > old THEN new - old ELSE old - new) \in Nat
                BY <4>2
            <4>3. PICK d \in Nat : d = IF new > old THEN new - old ELSE old - new
                BY <4>a
            <4>4. Quotient(d * 2, old) <= m
                BY <3>2, <4>1, <4>3 DEF Breaker_move_bps, Whole
            <4>b. d * 2 \in Nat
                OBVIOUS
            <4>5. (d * 2) \div old <= m
                BY <4>2, <4>4, <4>b, QuotientIsDiv
            <4>6. d * 2 < (m + 1) * old
                BY <4>2, <4>5, <4>b, DivBound
            <4>7. PICK bound \in Int : bound = (m + 1) * old
                BY <4>2
            <4>8. (new - old) * 2 < bound /\ -(new - old) * 2 < bound
                BY <4>2, <4>3, <4>6, <4>7
            <4>9. store'.price = new
                BY <4>0, <4>1
            <4>10. Breaker_MovesAreBounded
                BY <4>0, <4>1, <4>7, <4>8, <4>9 DEF Breaker_MovesAreBounded, Whole
            <4>11. Breaker_Inv'
                BY <1>2, <3>1, <4>0 DEF Breaker_Inv, Breaker_Types, Breaker_Priced
            <4> QED BY <4>10, <4>11
        <3>3. CASE ~(Breaker_move_bps(store.price, price) <= store.max_move_bps)
            <4>1. store' = store /\ past' = [breached |-> TRUE]
                BY <1>2, <2>3, <3>3 DEF Breaker_update_price, Observe
            <4>2. Breaker_Inv'
                BY <1>2, <4>1 DEF Breaker_Inv, Breaker_Types, Breaker_Priced
            <4>3. Breaker_MovesAreBounded
                BY <4>1 DEF Breaker_MovesAreBounded
            <4> QED BY <4>2, <4>3
        <3> QED BY <3>2, <3>3
    <2>4. CASE Breaker_swap_out
        <3>1. store' = store /\ past' = past
            BY <2>4 DEF Breaker_swap_out, vars
        <3> QED BY <1>2, <3>1
               DEF Breaker_Inv, Breaker_Types, Breaker_Priced, Breaker_MovesAreBounded
    <2>5. CASE Breaker_liquidate
        <3>1. store' = store /\ past' = past
            BY <2>5 DEF Breaker_liquidate, Breaker_swap_out, vars
        <3> QED BY <1>2, <3>1
               DEF Breaker_Inv, Breaker_Types, Breaker_Priced, Breaker_MovesAreBounded
    <2>6. CASE Breaker_force_pause(u)
        <3>1. /\ store' = [admin |-> store.admin, price |-> store.price,
                           max_move_bps |-> store.max_move_bps, paused |-> TRUE]
              /\ past' = past
              /\ store.admin # None
              /\ u = store.admin
            BY <1>2, <2>6 DEF Breaker_force_pause, Write, Breaker_Inv, Breaker_Types
        <3> QED BY <1>2, <3>1, ContractAssumption DEF Breaker_Inv, Breaker_Types,
               Breaker_Priced, MAX_MOVE, BreakerPrices, Breaker_MovesAreBounded, Whole
    <2>7. CASE Breaker_unpause(u)
        <3>1. /\ store' = [admin |-> store.admin, price |-> store.price,
                           max_move_bps |-> store.max_move_bps, paused |-> FALSE]
              /\ past' = past
              /\ store.admin # None
              /\ u = store.admin
            BY <1>2, <2>7 DEF Breaker_unpause, Write, Breaker_Inv, Breaker_Types
        <3> QED BY <1>2, <3>1, ContractAssumption DEF Breaker_Inv, Breaker_Types,
               Breaker_Priced, MAX_MOVE, BreakerPrices, Breaker_MovesAreBounded, Whole
    <2> QED BY <2>1, <2>2, <2>3, <2>4, <2>5, <2>6, <2>7
<1>3. Breaker_Inv /\ UNCHANGED vars => Breaker_Inv' /\ Breaker_MovesAreBounded
    BY DEF Breaker_Inv, Breaker_Types, Breaker_MovesAreBounded, Breaker_Priced, vars
<1> QED BY <1>1, <1>2, <1>3

-----------------------------------------------------------------------------
(* oracle_confidence_ignored.                                              *)
Confidence_Types ==
    /\ store \in [last : Int, liquidated : SUBSET Address]
    /\ past \in [low : Int \cup {None}, prices : SUBSET Int]

Confidence_Inv == Confidence_Types /\ Confidence_BandsArePositive

\* Every deployment is in Confidence_Inv; a call of the corrected contract, or
\* none, stays in it.
LEMMA Confidence_Correct ==
    /\ now = 0 /\ Confidence_Init => Confidence_Inv
    /\ Secure /\ Confidence_Inv /\ Confidence_Next => Confidence_Inv'
    /\ Confidence_Inv /\ UNCHANGED vars => Confidence_Inv'
<1>1. now = 0 /\ Confidence_Init => Confidence_Inv
    BY ContractAssumption DEF Confidence_Init, Confidence_Inv, Confidence_Types,
       Confidence_BandsArePositive, Confidence_BandsArePositive, Confidence_is_liquidated,
       Confidence_last_price, Confidence_Init
<1>2. ASSUME Secure, Confidence_Inv, Confidence_Next PROVE Confidence_Inv'
    <2>1. PICK u \in Address, oracle \in [price : {-1, 0, 1, 3}, confidence : {-1, 0, 1, 2}],
              threshold \in {0, 2} :
              Confidence_consume_price(u, oracle, threshold)
        BY <1>2, Zenon DEF Confidence_Next, Lib, Secure
    <2>2. CASE Confidence_consume_price(u, oracle, threshold)
        <3>1. /\ store' = [last |-> oracle.price,
                           liquidated |-> IF oracle.price < threshold THEN store.liquidated \cup {u}
                           ELSE store.liquidated]
              /\ past' = [low |-> IF past.low = None \/
                          (oracle.price - oracle.confidence) < past.low
                          THEN (oracle.price - oracle.confidence) ELSE past.low,
                          prices |-> past.prices \cup {oracle.price}]
              /\ oracle.price > 0
              /\ Quotient(oracle.confidence * ConfidenceParts, oracle.price) <= MAX_CONFIDENCE
            BY <1>2, <2>2 DEF Confidence_consume_price, Confidence_consume_price_lib, WriteAnd,
               Confidence_Inv, Confidence_Types
        <3> QED BY <1>2, <3>1, ContractAssumption DEF Confidence_Inv, Confidence_Types,
               Confidence_BandsArePositive, Confidence_is_liquidated, Confidence_last_price,
               Quotient, ConfidenceParts, MAX_CONFIDENCE
    <2> QED BY <2>1, <2>2
<1>3. Confidence_Inv /\ UNCHANGED vars => Confidence_Inv'
    BY DEF Confidence_Inv, Confidence_Types, Confidence_BandsArePositive, vars,
       Confidence_is_liquidated, Confidence_last_price
<1> QED BY <1>1, <1>2, <1>3


-----------------------------------------------------------------------------
(* unwrap_without_burn.                                                    *)
Wrap_Types ==
    /\ store = [token |-> store.token, balance |-> store.balance, supply |-> store.supply,
                custody |-> store.custody]
    /\ store.balance \in [Address -> Int]
    /\ store.supply \in Int
    /\ store.custody \in Int
    /\ past \in [held : Int]

\* The wrapped balances add up to the supply.
Wrap_AddsUp ==
    SumFunction(store.balance) = store.supply

\* Before initialize nothing is wrapped.
Wrap_UnsetIsEmpty ==
    store.token = None => store.supply = 0

Wrap_Inv == Wrap_Types /\ Wrap_AddsUp /\ Wrap_UnsetIsEmpty /\ Wrap_Backed

\* Every deployment is in Wrap_Inv; a call of the corrected contract, or none,
\* stays in it.
LEMMA Wrap_Correct ==
    /\ now = 0 /\ Wrap_Init => Wrap_Inv
    /\ Secure /\ Wrap_Inv /\ Wrap_Next => Wrap_Inv'
    /\ Wrap_Inv /\ UNCHANGED vars => Wrap_Inv'
<1>1. now = 0 /\ Wrap_Init => Wrap_Inv
    BY ContractAssumption, ZeroSum DEF Wrap_Init, Wrap_Inv, Wrap_Types, Wrap_AddsUp,
       Wrap_UnsetIsEmpty, Wrap_Backed, Wrap_Backed, Wrap_total_supply, Wrap_balance,
       Wrap_custody_balance, Amounts, Wrap_Init
<1>2. ASSUME Secure, Wrap_Inv, Wrap_Next PROVE Wrap_Inv'
    <2>1. PICK u \in Address, n \in Amounts :
              Wrap_initialize(u) \/ Wrap_wrap(u, n) \/ Wrap_unwrap(u, n)
        BY <1>2, Zenon DEF Wrap_Next, Lib, Secure
    <2>2. CASE Wrap_initialize(u)
        <3>1. /\ store' = [token |-> u, balance |-> store.balance, supply |-> 0, custody |-> 0]
              /\ past' = past
              /\ store.token = None
            BY <1>2, <2>2 DEF Wrap_initialize, Write, Wrap_Inv, Wrap_Types, Added, Taken
        <3> QED BY <1>2, <3>1, ContractAssumption, ZeroSum DEF Wrap_Inv, Wrap_Types,
               Wrap_AddsUp, Wrap_UnsetIsEmpty, Wrap_Backed, Wrap_total_supply, Wrap_balance,
               Wrap_custody_balance, Amounts
    <2>3. CASE Wrap_wrap(u, n)
        <3>1. /\ store' = [token |-> store.token, balance |-> Added(store.balance, u, n),
                           supply |-> store.supply + n, custody |-> store.custody + n]
              /\ past' = [held |-> past.held + n]
              /\ n > 0
              /\ store.token # None
              /\ store.supply + n <= MaxMinted
            BY <1>2, <2>3 DEF Wrap_wrap, WriteAnd, Wrap_Inv, Wrap_Types, Added, Taken
        <3>s1. /\ Added(store.balance, u, n) \in [Address -> Int]
               /\ SumFunction(Added(store.balance, u, n)) = SumFunction(store.balance) + n /\
                  SumFunction(store.balance) \in Int
               /\ \A v \in Address :
                  Added(store.balance, u, n)[v] = store.balance[v] + (IF v = u THEN n ELSE 0)
            <4>1. store.balance \in [Address -> Int] /\ u \in Address /\ n \in Int
                BY <1>2, <3>1, ContractAssumption, ZeroSum DEF Wrap_Inv, Wrap_Types, Amounts
            <4> QED BY <4>1, AddedTo
        <3>2. Wrap_Types'
            BY <1>2, <3>1, <3>s1, ContractAssumption, ZeroSum DEF Wrap_Inv, Wrap_Types,
               MaxMinted, Amounts
        <3>3. Wrap_AddsUp'
            BY <1>2, <3>1, <3>s1, ContractAssumption, ZeroSum DEF Wrap_Inv, Wrap_Types,
               Wrap_AddsUp, Wrap_UnsetIsEmpty, Wrap_Backed, Wrap_total_supply, Wrap_balance,
               Wrap_custody_balance, Amounts, MaxMinted
        <3>4. Wrap_UnsetIsEmpty'
            BY <1>2, <3>1, <3>s1, ContractAssumption, ZeroSum DEF Wrap_Inv, Wrap_Types,
               Wrap_AddsUp, Wrap_UnsetIsEmpty, Wrap_Backed, Wrap_total_supply, Wrap_balance,
               Wrap_custody_balance, Amounts, MaxMinted
        <3>5. Wrap_Backed'
            <4>1. [v \in Address |-> store.balance'[v]] = store.balance'
                BY <3>2 DEF Wrap_Types
            <4> QED BY <1>2, <3>1, <3>3, <4>1
                   DEF Wrap_Inv, Wrap_Types, Wrap_AddsUp, Wrap_Backed, Wrap_balance,
                   Wrap_total_supply, Wrap_custody_balance, Wrap_UnsetIsEmpty
        <3> QED BY <3>2, <3>3, <3>4, <3>5 DEF Wrap_Inv
    <2>4. CASE Wrap_unwrap(u, n)
        <3>1. /\ store' = [token |-> store.token, balance |-> Taken(store.balance, u, n),
                           supply |-> store.supply - n, custody |-> store.custody - n]
              /\ past' = [held |-> past.held - n]
              /\ Wrap_covers(u, n)
            BY <1>2, <2>4 DEF Wrap_unwrap, WriteAnd, Wrap_Inv, Wrap_Types, Added, Taken
        <3>s1. /\ Taken(store.balance, u, n) \in [Address -> Int]
               /\ SumFunction(Taken(store.balance, u, n)) = SumFunction(store.balance) - n /\
                  SumFunction(store.balance) \in Int
               /\ \A v \in Address :
                  Taken(store.balance, u, n)[v] = store.balance[v] - (IF v = u THEN n ELSE 0)
            <4>1. store.balance \in [Address -> Int] /\ u \in Address /\ n \in Int
                BY <1>2, <3>1, ContractAssumption, ZeroSum DEF Wrap_Inv, Wrap_Types, Amounts
            <4> QED BY <4>1, TakenFrom
        <3>2. Wrap_Types'
            BY <1>2, <3>1, <3>s1, ContractAssumption, ZeroSum DEF Wrap_Inv, Wrap_Types,
               Wrap_covers, token_moves, Amounts
        <3>3. Wrap_AddsUp'
            BY <1>2, <3>1, <3>s1, ContractAssumption, ZeroSum DEF Wrap_Inv, Wrap_Types,
               Wrap_AddsUp, Wrap_UnsetIsEmpty, Wrap_Backed, Wrap_total_supply, Wrap_balance,
               Wrap_custody_balance, Amounts, Wrap_covers, token_moves
        <3>4. Wrap_UnsetIsEmpty'
            BY <1>2, <3>1, <3>s1, ContractAssumption, ZeroSum DEF Wrap_Inv, Wrap_Types,
               Wrap_AddsUp, Wrap_UnsetIsEmpty, Wrap_Backed, Wrap_total_supply, Wrap_balance,
               Wrap_custody_balance, Amounts, Wrap_covers, token_moves
        <3>5. Wrap_Backed'
            <4>1. [v \in Address |-> store.balance'[v]] = store.balance'
                BY <3>2 DEF Wrap_Types
            <4> QED BY <1>2, <3>1, <3>3, <4>1
                   DEF Wrap_Inv, Wrap_Types, Wrap_AddsUp, Wrap_Backed, Wrap_balance,
                   Wrap_total_supply, Wrap_custody_balance, Wrap_UnsetIsEmpty
        <3> QED BY <3>2, <3>3, <3>4, <3>5 DEF Wrap_Inv
    <2> QED BY <2>1, <2>2, <2>3, <2>4
<1>3. Wrap_Inv /\ UNCHANGED vars => Wrap_Inv'
    BY DEF Wrap_Inv, Wrap_Types, Wrap_AddsUp, Wrap_UnsetIsEmpty, Wrap_Backed, vars,
       Wrap_total_supply, Wrap_balance, Wrap_custody_balance
<1> QED BY <1>1, <1>2, <1>3

-----------------------------------------------------------------------------
(* uncapped_supply.                                                        *)
Supply_Types ==
    /\ store = [admin |-> store.admin, balance |-> store.balance, supply |-> store.supply]
    /\ store.balance \in [Address -> Int]
    /\ store.supply \in Int
    /\ past \in [minted : Int]

\* The balances add up to the supply.
Supply_AddsUp ==
    SumFunction(store.balance) = store.supply

\* Before initialize nothing is minted.
Supply_UnsetIsEmpty ==
    store.admin = None => store.supply = 0

Supply_Inv == Supply_Types /\ Supply_AddsUp /\ Supply_UnsetIsEmpty /\ Supply_Capped

\* Every deployment is in Supply_Inv; a call of the corrected contract, or
\* none, stays in it.
LEMMA Supply_Correct ==
    /\ now = 0 /\ Supply_Init => Supply_Inv
    /\ Secure /\ Supply_Inv /\ Supply_Next => Supply_Inv'
    /\ Supply_Inv /\ UNCHANGED vars => Supply_Inv'
<1>1. now = 0 /\ Supply_Init => Supply_Inv
    BY ContractAssumption, ZeroSum DEF Supply_Init, Supply_Inv, Supply_Types, Supply_AddsUp,
       Supply_UnsetIsEmpty, Supply_Capped, Supply_Capped, Supply_total_supply, Supply_balance,
       MaxMinted, Supply_Init
<1>2. ASSUME Secure, Supply_Inv, Supply_Next PROVE Supply_Inv'
    <2>1. PICK u \in Address, n \in -1..2 : Supply_initialize(u) \/ Supply_mint(u, n)
        BY <1>2, Zenon DEF Supply_Next, Lib, Secure
    <2>2. CASE Supply_initialize(u)
        <3>1. /\ store' = [admin |-> u, balance |-> store.balance, supply |-> 0]
              /\ past' = past
              /\ store.admin = None
            BY <1>2, <2>2 DEF Supply_initialize, Write, Supply_Inv, Supply_Types, Added, Taken
        <3> QED BY <1>2, <3>1, ContractAssumption, ZeroSum DEF Supply_Inv, Supply_Types,
               Supply_AddsUp, Supply_UnsetIsEmpty, Supply_Capped, Supply_total_supply,
               Supply_balance, MaxMinted
    <2>3. CASE Supply_mint(u, n)
        <3>1. /\ store' = [admin |-> store.admin, balance |-> Added(store.balance, u, n),
                           supply |-> store.supply + n]
              /\ past' = [minted |-> past.minted + n]
              /\ store.admin # None
              /\ store.supply + n <= MaxMinted
              /\ store.balance[u] + n \in -MaxMinted..(MaxMinted + 1)
            BY <1>2, <2>3 DEF Supply_mint, WriteAnd, Supply_Inv, Supply_Types, Added, Taken
        <3>s1. /\ Added(store.balance, u, n) \in [Address -> Int]
               /\ SumFunction(Added(store.balance, u, n)) = SumFunction(store.balance) + n /\
                  SumFunction(store.balance) \in Int
               /\ \A v \in Address :
                  Added(store.balance, u, n)[v] = store.balance[v] + (IF v = u THEN n ELSE 0)
            <4>1. store.balance \in [Address -> Int] /\ u \in Address /\ n \in Int
                BY <1>2, <3>1, ContractAssumption, ZeroSum DEF Supply_Inv, Supply_Types
            <4> QED BY <4>1, AddedTo
        <3> QED BY <1>2, <3>1, <3>s1, ContractAssumption, ZeroSum DEF Supply_Inv, Supply_Types,
               Supply_AddsUp, Supply_UnsetIsEmpty, Supply_Capped, Supply_total_supply,
               Supply_balance, MaxMinted
    <2> QED BY <2>1, <2>2, <2>3
<1>3. Supply_Inv /\ UNCHANGED vars => Supply_Inv'
    BY DEF Supply_Inv, Supply_Types, Supply_AddsUp, Supply_UnsetIsEmpty, Supply_Capped, vars,
       Supply_total_supply, Supply_balance
<1> QED BY <1>1, <1>2, <1>3

-----------------------------------------------------------------------------
(* bridge_nonce_global.                                                    *)
Nonce_Types ==
    /\ store = [used |-> store.used, balance |-> store.balance]
    /\ store.balance \in [Address -> Int]
    /\ past = [done |-> past.done]

\* The used nonces are the messages done, and each of them minted one token.
Nonce_UsedIsDone ==
    store.used = past.done /\ IsFiniteSet(past.done) /\
        SumFunction(store.balance) = Cardinality(past.done)

Nonce_Inv == Nonce_Types /\ Nonce_UsedIsDone /\ Nonce_PerChain

\* Every deployment is in Nonce_Inv; a call of the corrected contract, or none,
\* stays in it.
LEMMA Nonce_Correct ==
    /\ now = 0 /\ Nonce_Init => Nonce_Inv
    /\ Secure /\ Nonce_Inv /\ Nonce_Next => Nonce_Inv'
    /\ Nonce_Inv /\ UNCHANGED vars => Nonce_Inv'
<1>1. now = 0 /\ Nonce_Init => Nonce_Inv
    <2> SUFFICES ASSUME Nonce_Init PROVE Nonce_Inv
        OBVIOUS
    <2>1. Nonce_Types /\ Nonce_UsedIsDone
        BY ZeroSum, FS_EmptySet DEF Nonce_Init, Nonce_Types, Nonce_UsedIsDone
    <2>2. [r \in Address |-> store.balance[r]] = store.balance
        BY <2>1 DEF Nonce_Types
    <2> QED BY <2>1, <2>2
           DEF Nonce_Inv, Nonce_UsedIsDone, Nonce_PerChain, Nonce_balance, Nonce_is_nonce_used
<1>2. ASSUME Secure, Nonce_Inv, Nonce_Next PROVE Nonce_Inv'
    <2>1. PICK c \in {1, 2}, n \in {1, 2}, r \in Address, sig \in BOOLEAN :
              Nonce_process(c, n, r, sig)
        BY <1>2, Zenon DEF Nonce_Next, Lib, Secure
    <2>2. CASE Nonce_process(c, n, r, sig)
        <3>1. PICK key, done : key = <<c, n>> /\ done = past.done
            OBVIOUS
        <3>2. /\ store.balance \in [Address -> Int] /\ r \in Address /\ 1 \in Int /\
                 store.used = done
              /\ IsFiniteSet(done) /\ SumFunction(store.balance) = Cardinality(done)
            BY <1>2, <3>1 DEF Nonce_Inv, Nonce_Types, Nonce_UsedIsDone
        <3>3. /\ key \notin done
              /\ store' = [used |-> done \cup {key}, balance |-> Added(store.balance, r, 1)]
              /\ past' = [done |-> done \cup {key}]
            BY <2>2, <3>1, <3>2 DEF Nonce_process, Nonce_record, WriteAnd, Added
        <3>4. /\ Added(store.balance, r, 1) \in [Address -> Int]
              /\ SumFunction(Added(store.balance, r, 1)) = SumFunction(store.balance) + 1
            BY <3>2, AddedTo
        <3>5. IsFiniteSet(done \cup {key}) /\ Cardinality(done \cup {key}) = Cardinality(done) + 1
            BY <3>2, <3>3, FS_AddElement
        <3>6. Nonce_Types' /\ Nonce_UsedIsDone'
            BY <3>2, <3>3, <3>4, <3>5 DEF Nonce_Types, Nonce_UsedIsDone
        <3>7. [u \in Address |-> store.balance'[u]] = store.balance'
            BY <3>6 DEF Nonce_Types
        <3> QED BY <3>6, <3>7
               DEF Nonce_Inv, Nonce_UsedIsDone, Nonce_PerChain, Nonce_balance, Nonce_is_nonce_used
    <2> QED BY <2>1, <2>2
<1>3. Nonce_Inv /\ UNCHANGED vars => Nonce_Inv'
    BY DEF Nonce_Inv, Nonce_Types, Nonce_UsedIsDone, Nonce_PerChain, vars, Nonce_is_nonce_used,
       Nonce_balance
<1> QED BY <1>1, <1>2, <1>3

-----------------------------------------------------------------------------
(* bridge_partial_mint_replay.                                             *)
Proof_Types ==
    /\ store \in [used : SUBSET {1, 2}, minted : [Address -> Int], fails : BOOLEAN]
    /\ past \in [redeemed : Int]

\* What was minted is one token for each proof used.
Proof_Counted ==
    SumFunction(store.minted) = past.redeemed /\ IsFiniteSet(store.used) /\
        past.redeemed = Cardinality(store.used)

Proof_Inv == Proof_Types /\ Proof_Counted /\ Proof_MintsOnce

\* Counting the used proofs gives the promise.
LEMMA Proof_Follows == Proof_Types /\ Proof_Counted => Proof_MintsOnce
<1> SUFFICES ASSUME Proof_Types, Proof_Counted PROVE Proof_MintsOnce
    OBVIOUS
<1>1. [r \in Address |-> store.minted[r]] = store.minted
    BY DEF Proof_Types
<1>2. {p \in {1, 2} : p \in store.used} = store.used
    BY DEF Proof_Types
<1> QED BY <1>1, <1>2 DEF Proof_Counted, Proof_MintsOnce, Proof_minted_balance, Proof_is_proof_used

\* The same after a step.
LEMMA Proof_FollowsNext == Proof_Types' /\ Proof_Counted' => Proof_MintsOnce'
<1> SUFFICES ASSUME Proof_Types', Proof_Counted' PROVE Proof_MintsOnce'
    OBVIOUS
<1>1. [r \in Address |-> store'.minted[r]] = store'.minted
    BY DEF Proof_Types
<1>2. {p \in {1, 2} : p \in store'.used} = store'.used
    BY DEF Proof_Types
<1> QED BY <1>1, <1>2 DEF Proof_Counted, Proof_MintsOnce, Proof_minted_balance, Proof_is_proof_used

\* Every deployment is in Proof_Inv; a call of the corrected contract, or none,
\* stays in it.
LEMMA Proof_Correct ==
    /\ now = 0 /\ Proof_Init => Proof_Inv
    /\ Secure /\ Proof_Inv /\ Proof_Next => Proof_Inv'
    /\ Proof_Inv /\ UNCHANGED vars => Proof_Inv'
<1>1. now = 0 /\ Proof_Init => Proof_Inv
    <2> SUFFICES ASSUME Proof_Init PROVE Proof_Inv
        OBVIOUS
    <2>1. Proof_Types /\ Proof_Counted
        BY ZeroSum, FS_EmptySet DEF Proof_Init, Proof_Types, Proof_Counted
    <2> QED BY <2>1, Proof_Follows DEF Proof_Inv
<1>2. ASSUME Secure, Proof_Inv, Proof_Next PROVE Proof_Inv'
    <2>1. PICK p \in {1, 2}, r \in Address, f \in BOOLEAN :
              Proof_initialize \/ Proof_set_mint_fails(f) \/ Proof_redeem(p, r)
        BY <1>2, Zenon DEF Proof_Next, Lib, Secure
    <2>2. CASE Proof_initialize
        <3>1. /\ store' = [used |-> store.used, minted |-> store.minted, fails |-> FALSE]
              /\ past' = past
            BY <1>2, <2>2 DEF Proof_initialize, Write, Proof_Inv, Proof_Types, Added, Taken
        <3> QED BY <1>2, <3>1, ContractAssumption, ZeroSum DEF Proof_Inv, Proof_Types,
               Proof_Counted, Proof_MintsOnce, Proof_minted_balance, Proof_is_proof_used
    <2>3. CASE Proof_set_mint_fails(f)
        <3>1. /\ store' = [used |-> store.used, minted |-> store.minted, fails |-> f]
              /\ past' = past
            BY <1>2, <2>3 DEF Proof_set_mint_fails, Write, Proof_Inv, Proof_Types, Added, Taken
        <3> QED BY <1>2, <3>1, ContractAssumption, ZeroSum DEF Proof_Inv, Proof_Types,
               Proof_Counted, Proof_MintsOnce, Proof_minted_balance, Proof_is_proof_used
    <2>4. CASE Proof_redeem(p, r)
        <3>1. /\ store = [used |-> store.used, minted |-> store.minted, fails |-> store.fails]
              /\ store.minted \in [Address -> Int] /\ r \in Address /\ 1 \in Int /\
                 store.used \in SUBSET {1, 2}
              /\ store.fails \in BOOLEAN /\ past.redeemed \in Int
              /\ IsFiniteSet(store.used) /\ SumFunction(store.minted) = past.redeemed /\
                 past.redeemed = Cardinality(store.used)
            BY <1>2 DEF Proof_Inv, Proof_Types, Proof_Counted
        <3>2. PICK m : m = [store EXCEPT !.used = store.used \cup {p}]
            OBVIOUS
        <3>3. m = [used |-> store.used \cup {p}, minted |-> store.minted, fails |-> store.fails]
            BY <3>1, <3>2
        <3>4. m.minted = store.minted
            BY <3>3
        <3>5. /\ p \notin store.used
              /\ store' = [m EXCEPT !.minted = Added(store.minted, r, 1)]
              /\ past' = [redeemed |-> past.redeemed + 1]
            BY <2>4, <3>2, <3>4
               DEF Proof_redeem, Proof_do_mint, Proof_is_proof_used, WriteAnd, Added
        <3>6. store' = [used |-> store.used \cup {p}, minted |-> Added(store.minted, r, 1),
                        fails |-> store.fails]
            BY <3>3, <3>5
        <3>7. /\ Added(store.minted, r, 1) \in [Address -> Int]
              /\ SumFunction(Added(store.minted, r, 1)) = SumFunction(store.minted) + 1
            BY <3>1, AddedTo
        <3>8. IsFiniteSet(store.used \cup {p}) /\
                  Cardinality(store.used \cup {p}) = Cardinality(store.used) + 1
            BY <3>1, <3>5, FS_AddElement
        <3>a. /\ store.used' = store.used \cup {p} /\ store.minted' = Added(store.minted, r, 1)
              /\ store.used' \in SUBSET {1, 2} /\ past.redeemed' = past.redeemed + 1 /\
                 past.redeemed' \in Int
            BY <3>1, <3>5, <3>6
        <3>b. Proof_Counted'
            BY <3>1, <3>7, <3>8, <3>a DEF Proof_Counted
        <3>c. past' = [redeemed |-> past.redeemed'] /\
                  store' = [used |-> store.used', minted |-> store.minted', fails |-> store.fails]
            BY <3>5, <3>6, <3>a
        <3>9. Proof_Types' /\ Proof_Counted'
            BY <3>1, <3>7, <3>a, <3>b, <3>c DEF Proof_Types
        <3> QED BY <3>9, Proof_FollowsNext DEF Proof_Inv
    <2> QED BY <2>1, <2>2, <2>3, <2>4
<1>3. Proof_Inv /\ UNCHANGED vars => Proof_Inv'
    BY DEF Proof_Inv, Proof_Types, Proof_Counted, Proof_MintsOnce, vars, Proof_minted_balance,
       Proof_is_proof_used
<1> QED BY <1>1, <1>2, <1>3

-----------------------------------------------------------------------------
(* wrapped_asset_allowlist_bypass.                                         *)
Allow_Types ==
    /\ store = [admin |-> store.admin, allowed |-> store.allowed, asset |-> store.asset,
                balance |-> store.balance]
    /\ store.balance \in [Address -> Int]
    /\ past = [behind |-> past.behind]

Allow_Inv == Allow_Types /\ Allow_BackedByAllowed

\* Every deployment is in Allow_Inv; a call of the corrected contract, or none,
\* stays in it.
LEMMA Allow_Correct ==
    /\ now = 0 /\ Allow_Init => Allow_Inv
    /\ Secure /\ Allow_Inv /\ Allow_Next => Allow_Inv'
    /\ Allow_Inv /\ UNCHANGED vars => Allow_Inv'
<1>1. now = 0 /\ Allow_Init => Allow_Inv
    BY ContractAssumption, SoloAccount DEF Allow_Init, Allow_Inv, Allow_Types,
       Allow_BackedByAllowed, Allow_BackedByAllowed, Allow_balance, Wrapper, Base, Amounts,
       Allow_Init, Zero
<1>2. ASSUME Secure, Allow_Inv, Allow_Next PROVE Allow_Inv'
    <2>1. PICK u \in Solo, w \in Wrapper, t \in Base, n \in Amounts :
              Allow_initialize(u) \/ Allow_allow_token(t) \/ Allow_register_wrapper(w, t) \/
              Allow_deposit(u, w, n)
        BY <1>2, Zenon DEF Allow_Next, Lib, Secure
    <2>2. CASE Allow_initialize(u)
        <3>1. /\ store' = [admin |-> u, allowed |-> store.allowed, asset |-> store.asset,
                           balance |-> store.balance]
              /\ past' = past
              /\ store.admin = None
            BY <1>2, <2>2 DEF Allow_initialize, Write, Allow_Inv, Allow_Types
        <3> QED BY <1>2, <3>1, ContractAssumption, SoloAccount DEF Allow_Inv, Allow_Types,
               Allow_BackedByAllowed, Allow_balance, Wrapper, Base, Amounts
    <2>3. CASE Allow_allow_token(t)
        <3>1. /\ store' = [admin |-> store.admin, allowed |-> store.allowed \cup {t},
                           asset |-> store.asset, balance |-> store.balance]
              /\ past' = past
              /\ store.admin # None
            BY <1>2, <2>3 DEF Allow_allow_token, Write, Allow_Inv, Allow_Types
        <3> QED BY <1>2, <3>1, ContractAssumption, SoloAccount DEF Allow_Inv, Allow_Types,
               Allow_BackedByAllowed, Allow_balance, Wrapper, Base, Amounts
    <2>4. CASE Allow_register_wrapper(w, t)
        <3>1. /\ store' = [admin |-> store.admin, allowed |-> store.allowed,
                           asset |-> [store.asset EXCEPT ![w] = t], balance |-> store.balance]
              /\ past' = past
              /\ t \in store.allowed
            BY <1>2, <2>4 DEF Allow_register_wrapper, Allow_register_wrapper_lib, Write,
               Allow_Inv, Allow_Types
        <3> QED BY <1>2, <3>1, ContractAssumption, SoloAccount DEF Allow_Inv, Allow_Types,
               Allow_BackedByAllowed, Allow_balance, Wrapper, Base, Amounts
    <2>5. CASE Allow_deposit(u, w, n)
        <3>1. /\ store' = [admin |-> store.admin, allowed |-> store.allowed, asset |-> store.asset,
                           balance |-> [store.balance EXCEPT ![u] = @ + n]]
              /\ past' = [behind |-> past.behind \cup {store.asset[w]}]
              /\ store.asset[w] # None
              /\ store.asset[w] \in store.allowed
              /\ n > 0
              /\ store.balance[u] + n <= MaxMinted
            BY <1>2, <2>5 DEF Allow_deposit, Allow_credit, WriteAnd, Allow_Inv, Allow_Types
        <3>2. Allow_Types'
            BY <1>2, <3>1, ContractAssumption, SoloAccount DEF Allow_Inv, Allow_Types,
               MaxMinted, Wrapper, Base, Amounts
        <3>3. Allow_BackedByAllowed'
            BY <1>2, <3>1, ContractAssumption, SoloAccount DEF Allow_Inv, Allow_Types,
               Allow_BackedByAllowed, Allow_balance, Wrapper, Base, Amounts, MaxMinted
        <3> QED BY <3>2, <3>3 DEF Allow_Inv
    <2> QED BY <2>1, <2>2, <2>3, <2>4, <2>5
<1>3. Allow_Inv /\ UNCHANGED vars => Allow_Inv'
    BY DEF Allow_Inv, Allow_Types, Allow_BackedByAllowed, vars, Allow_balance
<1> QED BY <1>1, <1>2, <1>3

-----------------------------------------------------------------------------
(* fake_token_registration.                                                *)
\* What is registered of a token.
Fake_Registration == [symbol : Symbol, registered_by : Address]

Fake_Types ==
    /\ store \in [admin : Address \cup {None}, token : [Token -> Fake_Registration \cup {None}],
                  symbol : [Symbol -> Token \cup {None}]]
    /\ past = [none |-> past.none]

Fake_Inv == Fake_Types /\ Fake_SymbolNamesOneToken

\* Every deployment is in Fake_Inv; a call of the corrected contract, or none,
\* stays in it.
LEMMA Fake_Correct ==
    /\ now = 0 /\ Fake_Init => Fake_Inv
    /\ Secure /\ Fake_Inv /\ Fake_Next => Fake_Inv'
    /\ Fake_Inv /\ UNCHANGED vars => Fake_Inv'
<1>1. now = 0 /\ Fake_Init => Fake_Inv
    BY RegistrationAssumption
       DEF Fake_Init, Fake_Inv, Fake_Types, Fake_SymbolNamesOneToken, Fake_is_registered,
       Fake_get_token
<1>2. ASSUME Secure, Fake_Inv, Fake_Next PROVE Fake_Inv'
    <2>1. PICK u \in Address, t \in Token, s \in Symbol :
              Fake_initialize(u) \/ Fake_register_token(t, s, u) \/ Fake_remove_token(t)
        BY <1>2, Zenon DEF Fake_Next, Lib, Secure
    <2>2. CASE Fake_initialize(u)
        <3>1. /\ store' = [admin |-> u, token |-> store.token, symbol |-> store.symbol]
              /\ past' = past
              /\ store.admin = None
            BY <1>2, <2>2 DEF Fake_initialize, Write, Fake_Inv, Fake_Types
        <3> QED BY <1>2, <3>1, ContractAssumption, RegistrationAssumption DEF Fake_Inv,
               Fake_Types, Fake_SymbolNamesOneToken, Fake_is_registered, Fake_get_token
    <2>3. CASE Fake_register_token(t, s, u)
        <3>1. PICK r : r = [symbol |-> s, registered_by |-> store.admin]
            OBVIOUS
        <3>2. PICK tok, sym :
                  tok = [store.token EXCEPT ![t] = r] /\ sym = [store.symbol EXCEPT ![s] = t]
            OBVIOUS
        <3>3. /\ store = [admin |-> store.admin, token |-> store.token, symbol |-> store.symbol]
              /\ store.admin \in Address \cup {None} /\
                 store.token \in [Token -> Fake_Registration \cup {None}]
              /\ store.symbol \in [Symbol -> Token \cup {None}]
            BY <1>2 DEF Fake_Inv, Fake_Types
        <3>4. /\ store.admin # None /\ store.token[t] = None /\ store.symbol[s] = None
              /\ store' = [store EXCEPT !.token = tok, !.symbol = sym] /\ past' = past
            BY <2>3, <3>1, <3>2
               DEF Fake_register_token, Fake_is_registered, Fake_get_token, Fake_symbol_exists,
               Write
        <3>5. store' = [admin |-> store.admin, token |-> tok, symbol |-> sym]
            BY <3>3, <3>4
        <3>6. r \in Fake_Registration /\ r # None /\ r.symbol = s
            BY <3>1, <3>3, <3>4, RegistrationAssumption DEF Fake_Registration
        <3>7. /\ tok \in [Token -> Fake_Registration \cup {None}] /\
                 sym \in [Symbol -> Token \cup {None}]
              /\ \A x \in Token : tok[x] = IF x = t THEN r ELSE store.token[x]
              /\ \A y \in Symbol : sym[y] = IF y = s THEN t ELSE store.symbol[y]
            BY <3>2, <3>3, <3>6
        <3>8. Fake_Types'
            BY <1>2, <3>3, <3>4, <3>5, <3>7 DEF Fake_Types, Fake_Inv
        <3>9. ASSUME NEW x \in Token, NEW y \in Symbol
                  PROVE (sym[y] = x) <=> (tok[x] # None /\ tok[x].symbol = y)
            <4>1. /\ (store.symbol[y] = x) <=> (store.token[x] # None /\ store.token[x].symbol = y)
                  /\ (store.symbol[s] = x) <=> (store.token[x] # None /\ store.token[x].symbol = s)
                BY <1>2 DEF Fake_Inv, Fake_SymbolNamesOneToken, Fake_is_registered, Fake_get_token
            <4>2. (store.symbol[y] = t) <=> (store.token[t] # None /\ store.token[t].symbol = y)
                BY <1>2 DEF Fake_Inv, Fake_SymbolNamesOneToken, Fake_is_registered, Fake_get_token
            <4> QED BY <3>4, <3>6, <3>7, <4>1, <4>2, RegistrationAssumption
        <3>a. Fake_SymbolNamesOneToken'
            BY <3>5, <3>9 DEF Fake_SymbolNamesOneToken, Fake_is_registered, Fake_get_token
        <3> QED BY <3>8, <3>a DEF Fake_Inv
    <2>4. CASE Fake_remove_token(t)
        <3>1. PICK tok, sym :
                  /\ tok = [store.token EXCEPT ![t] = None]
                  /\ sym = [s2 \in Symbol |-> IF store.token[t] # None /\
                            s2 = store.token[t].symbol THEN None
                                               ELSE store.symbol[s2]]
            OBVIOUS
        <3>3. /\ store = [admin |-> store.admin, token |-> store.token, symbol |-> store.symbol]
              /\ store.admin \in Address \cup {None} /\
                 store.token \in [Token -> Fake_Registration \cup {None}]
              /\ store.symbol \in [Symbol -> Token \cup {None}]
            BY <1>2 DEF Fake_Inv, Fake_Types
        <3>4. store' = [store EXCEPT !.token = tok, !.symbol = sym] /\ past' = past
            BY <2>4, <3>1 DEF Fake_remove_token, Fake_is_registered, Fake_get_token, Write
        <3>5. store' = [admin |-> store.admin, token |-> tok, symbol |-> sym]
            BY <3>3, <3>4
        <3>7. /\ tok \in [Token -> Fake_Registration \cup {None}] /\
                 sym \in [Symbol -> Token \cup {None}]
              /\ \A x \in Token : tok[x] = IF x = t THEN None ELSE store.token[x]
              /\ \A y \in Symbol : sym[y] = IF store.token[t] # None /\
                 y = store.token[t].symbol THEN None ELSE store.symbol[y]
            BY <3>1, <3>3
        <3>8. Fake_Types'
            BY <1>2, <3>3, <3>4, <3>5, <3>7 DEF Fake_Types, Fake_Inv
        <3>9. ASSUME NEW x \in Token, NEW y \in Symbol
                  PROVE (sym[y] = x) <=> (tok[x] # None /\ tok[x].symbol = y)
            <4>1. (store.symbol[y] = x) <=> (store.token[x] # None /\ store.token[x].symbol = y)
                BY <1>2 DEF Fake_Inv, Fake_SymbolNamesOneToken, Fake_is_registered, Fake_get_token
            <4>2. (store.symbol[y] = t) <=> (store.token[t] # None /\ store.token[t].symbol = y)
                BY <1>2 DEF Fake_Inv, Fake_SymbolNamesOneToken, Fake_is_registered, Fake_get_token
            <4> QED BY <3>7, <4>1, <4>2, RegistrationAssumption
        <3>a. Fake_SymbolNamesOneToken'
            BY <3>5, <3>9 DEF Fake_SymbolNamesOneToken, Fake_is_registered, Fake_get_token
        <3> QED BY <3>8, <3>a DEF Fake_Inv
    <2> QED BY <2>1, <2>2, <2>3, <2>4
<1>3. Fake_Inv /\ UNCHANGED vars => Fake_Inv'
    BY DEF Fake_Inv, Fake_Types, Fake_SymbolNamesOneToken, vars, Fake_is_registered,
       Fake_get_token
<1> QED BY <1>1, <1>2, <1>3

-----------------------------------------------------------------------------
(* bridge_chainid_missing.                                                 *)
\* The messages of D to r.
Chain_For(D, r) == {m \in D : m.recipient = r}

\* The messages of D to r that name this bridge.
Chain_Here(D, r) == {m \in D : m.bridge = "here" /\ m.recipient = r}

\* D are the messages that minted: signed, for this bridge, one per nonce.
Chain_Minting(D, signed, used, balance) ==
    /\ D \subseteq signed
    /\ \A m \in D : m.bridge = "here" /\ m.nonce \in used
    /\ \A r \in Address : balance[r] = Cardinality(Chain_For(D, r))

\* Minting each message of D once, and only those signed for this bridge, gives
\* a recipient no more than was signed for it.
LEMMA Chain_MintedIsSigned ==
    ASSUME NEW D, NEW signed, NEW used, NEW balance, IsFiniteSet(signed),
           Chain_Minting(D, signed, used, balance), NEW r \in Address
    PROVE  balance[r] <= Cardinality(Chain_Here(signed, r))
<1>1. Chain_For(D, r) \subseteq Chain_Here(signed, r) /\ Chain_Here(signed, r) \subseteq signed
    BY DEF Chain_Minting, Chain_For, Chain_Here
<1>2. IsFiniteSet(Chain_Here(signed, r))
    BY <1>1, FS_Subset
<1>3. Cardinality(Chain_For(D, r)) <= Cardinality(Chain_Here(signed, r))
    BY <1>1, <1>2, FS_Subset
<1> QED BY <1>3 DEF Chain_Minting

Chain_Types ==
    /\ store = [used |-> store.used, balance |-> store.balance]
    /\ store.balance \in [Address -> Int]
    /\ past \in [signed : SUBSET ChainMessage]

\* There is a set of messages each of which was minted exactly once.
Chain_MintedOnce ==
    /\ IsFiniteSet(past.signed)
    /\ \E D : Chain_Minting(D, past.signed, store.used, store.balance)

Chain_Inv == Chain_Types /\ Chain_MintedOnce /\ Chain_MintedForHere

\* That set gives the promise.
LEMMA Chain_Follows == Chain_MintedOnce => Chain_MintedForHere
<1> SUFFICES ASSUME Chain_MintedOnce, NEW r \in Address
             PROVE  store.balance[r] <= Cardinality(Chain_Here(past.signed, r))
    BY DEF Chain_MintedForHere, Chain_balance, Chain_Here
<1>1. PICK D : Chain_Minting(D, past.signed, store.used, store.balance)
    BY DEF Chain_MintedOnce
<1> QED BY <1>1, Chain_MintedIsSigned DEF Chain_MintedOnce

\* The same after a step.
LEMMA Chain_FollowsNext == Chain_MintedOnce' => Chain_MintedForHere'
<1> SUFFICES ASSUME Chain_MintedOnce', NEW r \in Address
             PROVE  store'.balance[r] <= Cardinality(Chain_Here(past'.signed, r))
    BY DEF Chain_MintedForHere, Chain_balance, Chain_Here
<1>1. PICK D : Chain_Minting(D, past'.signed, store'.used, store'.balance)
    BY DEF Chain_MintedOnce
<1> QED BY <1>1, Chain_MintedIsSigned DEF Chain_MintedOnce

\* Every deployment is in Chain_Inv; a call of the corrected contract, or none,
\* stays in it.
LEMMA Chain_Correct ==
    /\ now = 0 /\ Chain_Init => Chain_Inv
    /\ Secure /\ Chain_Inv /\ Chain_Next => Chain_Inv'
    /\ Chain_Inv /\ UNCHANGED vars => Chain_Inv'
<1>1. now = 0 /\ Chain_Init => Chain_Inv
    <2> SUFFICES ASSUME Chain_Init PROVE Chain_Inv
        OBVIOUS
    <2>1. Chain_Types /\ IsFiniteSet(past.signed)
        BY ZeroSum, FS_EmptySet DEF Chain_Init, Chain_Types
    <2>2. \A r \in Address : Chain_For({}, r) = {}
        BY DEF Chain_For
    <2>3. \A r \in Address : store.balance[r] = 0
        BY DEF Chain_Init, Zero
    <2>4. Chain_Minting({}, past.signed, store.used, store.balance)
        BY <2>2, <2>3, FS_EmptySet DEF Chain_Minting
    <2>5. Chain_MintedOnce
        BY <2>1, <2>4 DEF Chain_MintedOnce
    <2> QED BY <2>1, <2>5, Chain_Follows DEF Chain_Inv
<1>2. ASSUME Secure, Chain_Inv, Chain_Next PROVE Chain_Inv'
    <2>1. PICK m \in ChainMessage : Chain_relay(m) \/ Chain_mint(m)
        BY <1>2, Zenon DEF Chain_Next, Lib, Secure
    <2>2. CASE Chain_relay(m)
        <3>1. store' = store /\ past' = [signed |-> past.signed \cup {m}]
            BY <2>2 DEF Chain_relay, Observe
        <3>2. Chain_Types'
            BY <1>2, <3>1 DEF Chain_Inv, Chain_Types
        <3>3. IsFiniteSet(past.signed) /\ IsFiniteSet(past.signed \cup {m})
            BY <1>2, FS_AddElement DEF Chain_Inv, Chain_MintedOnce
        <3>4. PICK D : Chain_Minting(D, past.signed, store.used, store.balance)
            BY <1>2 DEF Chain_Inv, Chain_MintedOnce
        <3>5. Chain_Minting(D, past.signed \cup {m}, store.used, store.balance)
            BY <3>4 DEF Chain_Minting
        <3>6. past.signed' = past.signed \cup {m} /\ store.used' = store.used /\
                  store.balance' = store.balance
            BY <3>1
        <3>7. Chain_MintedOnce'
            BY <3>3, <3>5, <3>6 DEF Chain_MintedOnce
        <3> QED BY <3>2, <3>7, Chain_FollowsNext DEF Chain_Inv
    <2>3. CASE Chain_mint(m)
        <3>0. m.recipient \in Address /\ m.amount = 1 /\
                  m = [bridge |-> m.bridge, nonce |-> m.nonce, amount |-> m.amount,
                       recipient |-> m.recipient]
            BY DEF ChainMessage
        <3>1. PICK h, b :
                  h = [m EXCEPT !.bridge = "here"] /\
                  b = [store.balance EXCEPT ![m.recipient] = store.balance[m.recipient] + 1]
            OBVIOUS
        <3>2. h.bridge = "here" /\ h.nonce = m.nonce /\ h.recipient = m.recipient
            BY <3>0, <3>1
        <3>3. /\ h \in past.signed /\ m.nonce \notin store.used /\ past' = past
              /\ store' = [used |-> store.used \cup {m.nonce}, balance |-> b]
            BY <2>3, <3>0, <3>1 DEF Chain_mint, Chain_build_payload, Chain_credit, Write
        <3>4. store.balance \in [Address -> Int] /\ IsFiniteSet(past.signed) /\
                  past = [signed |-> past.signed]
            BY <1>2 DEF Chain_Inv, Chain_Types, Chain_MintedOnce
        <3>5. b \in [Address -> Int] /\
                  \A r \in Address : b[r] = IF r = m.recipient THEN store.balance[r] + 1
                  ELSE store.balance[r]
            BY <3>0, <3>1, <3>4
        <3>6. Chain_Types'
            BY <1>2, <3>3, <3>5 DEF Chain_Inv, Chain_Types
        <3>7. PICK D : Chain_Minting(D, past.signed, store.used, store.balance)
            BY <1>2 DEF Chain_Inv, Chain_MintedOnce
        <3>8. h \notin D
            BY <3>2, <3>3, <3>7 DEF Chain_Minting
        <3>9. ASSUME NEW r \in Address PROVE b[r] = Cardinality(Chain_For(D \cup {h}, r))
            <4>1. store.balance[r] = Cardinality(Chain_For(D, r)) /\
                      Chain_For(D, r) \subseteq past.signed
                BY <3>7 DEF Chain_Minting, Chain_For
            <4>2. IsFiniteSet(Chain_For(D, r)) /\ h \notin Chain_For(D, r)
                BY <3>4, <3>8, <4>1, FS_Subset DEF Chain_For
            <4>3. CASE r = m.recipient
                <5>1. Chain_For(D \cup {h}, r) = Chain_For(D, r) \cup {h}
                    BY <3>2, <4>3 DEF Chain_For
                <5>2. Cardinality(Chain_For(D, r) \cup {h}) = Cardinality(Chain_For(D, r)) + 1
                    BY <4>2, FS_AddElement
                <5> QED BY <3>5, <4>1, <4>3, <5>1, <5>2
            <4>4. CASE r # m.recipient
                <5>1. Chain_For(D \cup {h}, r) = Chain_For(D, r)
                    BY <3>2, <4>4 DEF Chain_For
                <5> QED BY <3>5, <4>1, <4>4, <5>1
            <4> QED BY <4>3, <4>4
        <3>a. Chain_Minting(D \cup {h}, past.signed, store.used \cup {m.nonce}, b)
            BY <3>2, <3>3, <3>7, <3>9 DEF Chain_Minting
        <3>b. past.signed' = past.signed /\ store.used' = store.used \cup {m.nonce} /\
                  store.balance' = b
            BY <3>3
        <3>c. Chain_MintedOnce'
            BY <3>4, <3>a, <3>b DEF Chain_MintedOnce
        <3> QED BY <3>6, <3>c, Chain_FollowsNext DEF Chain_Inv
    <2> QED BY <2>1, <2>2, <2>3
<1>3. Chain_Inv /\ UNCHANGED vars => Chain_Inv'
    BY DEF Chain_Inv, Chain_Types, Chain_MintedOnce, Chain_MintedForHere, vars, Chain_balance
<1> QED BY <1>1, <1>2, <1>3


-----------------------------------------------------------------------------
(* bridge_validator_quorum_missing.                                        *)
\* Each signer counted towards the quorum is a distinct validator among those
\* named: a name given twice, or one outside the set, adds nothing.
LEMMA Validators_QuorumIsNamed ==
    ASSUME NEW signers \in Seq({1, 2, 3}), NEW sigs, store.validators \in Seq({1, 2})
    PROVE  /\ Cardinality(Validators_valid(signers, sigs)) \in Nat
           /\ Cardinality(ToSet(signers) \cap ToSet(store.validators)) \in Nat
           /\ Cardinality(Validators_valid(signers, sigs)) <=
              Cardinality(ToSet(signers) \cap ToSet(store.validators))
<1> DEFINE named == ToSet(signers) \cap ToSet(store.validators)
<1>1. Validators_valid(signers, sigs) \subseteq named
    BY DEF Validators_valid, ToSet, Contains
<1>2. named \subseteq 1..2
    BY DEF ToSet
<1>3. IsFiniteSet(1..2)
    BY FS_Interval, 1 \in Int, 2 \in Int, Zenon
<1> HIDE DEF named
<1>4. IsFiniteSet(named)
    BY <1>2, <1>3, FS_Subset
<1>5. IsFiniteSet(Validators_valid(signers, sigs)) /\
          Cardinality(Validators_valid(signers, sigs)) <= Cardinality(named)
    BY <1>1, <1>4, FS_Subset
<1>6. Cardinality(Validators_valid(signers, sigs)) \in Nat /\ Cardinality(named) \in Nat
    BY <1>4, <1>5, FS_CardinalityType
<1> QED BY <1>5, <1>6 DEF named

\* The sets and the signers of a call are sequences of keys.
LEMMA Validators_Sequences ==
    /\ ValidatorSets \subseteq Seq({1, 2})
    /\ {<<1>>, <<2>>, <<1, 1>>, <<1, 2>>, <<3, 1>>} \subseteq Seq({1, 2, 3})
<1>1. <<1>> \in Seq({1, 2}) /\ <<1, 2>> \in Seq({1, 2}) /\ <<1, 1>> \in Seq({1, 2})
    OBVIOUS
<1>2. /\ <<1>> \in Seq({1, 2, 3}) /\ <<2>> \in Seq({1, 2, 3}) /\ <<1, 1>> \in Seq({1, 2, 3})
      /\ <<1, 2>> \in Seq({1, 2, 3}) /\ <<3, 1>> \in Seq({1, 2, 3})
    OBVIOUS
<1> QED BY <1>1, <1>2, Zenon DEF ValidatorSets

Validators_Types ==
    /\ store = [validators |-> store.validators, threshold |-> store.threshold]
    /\ store.threshold \in Int
    /\ past = [named |-> past.named]

\* A validator set on record is a list of keys.
Validators_AreKeys ==
    store.validators # None => store.validators \in Seq({1, 2})

Validators_Inv == Validators_Types /\ Validators_AreKeys

\* Every deployment is in Validators_Inv; a call of the corrected contract, or
\* none, stays in it.
LEMMA Validators_Correct ==
    /\ now = 0 /\ Validators_Init => Validators_Inv
    /\ Secure /\ Validators_Inv /\ Validators_Next => Validators_Inv' /\ Validators_QuorumReplaces
    /\ Validators_Inv /\ UNCHANGED vars => Validators_Inv' /\ Validators_QuorumReplaces
<1>1. now = 0 /\ Validators_Init => Validators_Inv
    BY ContractAssumption DEF Validators_Init, Validators_Inv, Validators_Types,
       Validators_AreKeys, ValidatorSets, Validators_Init
<1>2. ASSUME Secure, Validators_Inv, Validators_Next
          PROVE Validators_Inv' /\ Validators_QuorumReplaces
    <2>1. PICK vs \in ValidatorSets, n \in 0..2,
              signers \in {<<1>>, <<2>>, <<1, 1>>, <<1, 2>>, <<3, 1>>},
              sigs \in {<<TRUE>>, <<FALSE>>, <<TRUE, TRUE>>, <<TRUE, FALSE>>} :
              Validators_initialize(vs, n) \/ Validators_update_validators(vs, n, signers, sigs)
        BY <1>2, Zenon DEF Validators_Next, Lib, Secure
    <2>2. CASE Validators_initialize(vs, n)
        <3>1. store.validators = None /\ n \in Int /\ vs \in Seq({1, 2}) /\
                  past = [named |-> past.named]
            BY <1>2, <2>1, <2>2, Validators_Sequences
               DEF Validators_initialize, Validators_Inv, Validators_Types
        <3>2. store' = [validators |-> vs, threshold |-> n] /\ past' = past
            BY <2>2 DEF Validators_initialize, Write
        <3> QED BY <3>1, <3>2
               DEF Validators_Inv, Validators_Types, Validators_AreKeys, Validators_QuorumReplaces
    <2>3. CASE Validators_update_validators(vs, n, signers, sigs)
        <3>a. store.validators \in Seq({1, 2}) /\ store.threshold \in Int
            BY <1>2, <2>3 DEF Validators_update_validators, Validators_Inv, Validators_Types,
               Validators_AreKeys
        <3>b. vs \in Seq({1, 2}) /\ signers \in Seq({1, 2, 3})
            BY Validators_Sequences, Zenon
        <3>1. /\ store.validators \in Seq({1, 2}) /\ store.threshold \in Int /\ n \in Int /\
                 vs \in Seq({1, 2})
              /\ signers \in Seq({1, 2, 3})
            BY <3>a, <3>b
        <3>2. PICK named : named = ToSet(signers)
            OBVIOUS
        <3>3. /\ store' = [validators |-> vs, threshold |-> n] /\ past' = [named |-> named]
              /\ store.validators # None /\ n \in 1..Len(vs)
              /\ Cardinality(Validators_valid(signers, sigs)) >= store.threshold
            BY <2>3, <3>2 DEF Validators_update_validators, WriteAnd
        <3>4. PICK c, d :
                  c = Cardinality(named \cap ToSet(store.validators)) /\
                  d = Cardinality(Validators_valid(signers, sigs))
            OBVIOUS
        <3>5. c \in Nat /\ d \in Nat /\ d <= c
            BY <3>1, <3>2, <3>4, Validators_QuorumIsNamed
        <3>6. c >= store.threshold
            BY <3>1, <3>3, <3>4, <3>5
        <3>7. Validators_Inv'
            BY <3>1, <3>3 DEF Validators_Inv, Validators_Types, Validators_AreKeys
        <3> QED BY <3>3, <3>4, <3>6, <3>7 DEF Validators_QuorumReplaces
    <2> QED BY <2>1, <2>2, <2>3
<1>3. Validators_Inv /\ UNCHANGED vars => Validators_Inv' /\ Validators_QuorumReplaces
    BY DEF Validators_Inv, Validators_Types, Validators_QuorumReplaces, Validators_AreKeys, vars
<1> QED BY <1>1, <1>2, <1>3

\* The entries of a book of accounts by pairs.
Put(f, o, s, v) == [f EXCEPT ![o][s] = v]

\* A book with an amount for every owner and spender.
Pairs == [Address -> [Address -> Int]]

\* Balances that add up to what was minted, and allowances that make up, with
\* what was drawn, what was granted.
Books(b, allow, drawn, granted, minted) ==
    /\ b \in [Address -> Int] /\ SumFunction(b) = minted /\ minted \in Int
    /\ allow \in Pairs /\ drawn \in Pairs /\ granted \in Pairs
    /\ \A o, s \in Address : allow[o][s] + drawn[o][s] = granted[o][s]

\* Book e is book f with v written for o and s.
Differs(f, e, o, s, v) ==
    e \in Pairs /\ \A p, q \in Address : e[p][q] = IF p = o /\ q = s THEN v ELSE f[p][q]

\* Put writes one entry and leaves the others.
LEMMA PutAt ==
    ASSUME NEW f \in Pairs, NEW o \in Address, NEW s \in Address, NEW v \in Int
    PROVE  Differs(f, Put(f, o, s, v), o, s, v)
<1>1. PICK row : row = [f[o] EXCEPT ![s] = v]
    OBVIOUS
<1>2. row \in [Address -> Int] /\ \A q \in Address : row[q] = IF q = s THEN v ELSE f[o][q]
    BY <1>1 DEF Pairs
<1>3. Put(f, o, s, v) = [f EXCEPT ![o] = row]
    BY <1>1 DEF Put
<1> QED BY <1>2, <1>3 DEF Pairs, Differs

\* The books of a fresh token agree.
LEMMA NoBooks == Books(Zero, NoAllowance, NoAllowance, NoAllowance, 0)
<1>1. NoAllowance \in Pairs /\ \A o, s \in Address : NoAllowance[o][s] = 0
    BY DEF NoAllowance, Zero, Pairs
<1> QED BY <1>1, ZeroSum DEF Books

\* Minting keeps the books in agreement.
LEMMA BooksMinted ==
    ASSUME NEW b, NEW allow, NEW drawn, NEW granted, NEW minted,
           Books(b, allow, drawn, granted, minted), NEW u \in Address, NEW n \in Int
    PROVE  Books(Added(b, u, n), allow, drawn, granted, minted + n)
<1>1. b \in [Address -> Int] /\ SumFunction(b) = minted /\ minted \in Int
    BY DEF Books
<1>2. Added(b, u, n) \in [Address -> Int] /\ SumFunction(Added(b, u, n)) = minted + n
    BY <1>1, AddedTo
<1> QED BY <1>1, <1>2 DEF Books

\* A new allowance that starts its own count of what is drawn keeps them in
\* agreement.
LEMMA BooksGranted ==
    ASSUME NEW b, NEW allow, NEW drawn, NEW granted, NEW minted,
           Books(b, allow, drawn, granted, minted), NEW o \in Address, NEW s \in Address,
               NEW n \in Int
    PROVE  Books(b, Put(allow, o, s, n), Put(drawn, o, s, 0), Put(granted, o, s, n), minted)
<1>1. allow \in Pairs /\ drawn \in Pairs /\ granted \in Pairs /\ 0 \in Int
    BY DEF Books
<1>2. PICK a : a = Put(allow, o, s, n)
    OBVIOUS
<1>3. PICK d : d = Put(drawn, o, s, 0)
    OBVIOUS
<1>4. PICK g : g = Put(granted, o, s, n)
    OBVIOUS
<1>5. Differs(allow, a, o, s, n)
    BY <1>1, <1>2, PutAt
<1>6. Differs(drawn, d, o, s, 0)
    BY <1>1, <1>3, PutAt
<1>7. Differs(granted, g, o, s, n)
    BY <1>1, <1>4, PutAt
<1>8. ASSUME NEW p \in Address, NEW q \in Address PROVE a[p][q] + d[p][q] = g[p][q]
    BY <1>5, <1>6, <1>7 DEF Books, Differs
<1>9. Books(b, a, d, g, minted)
    BY <1>5, <1>6, <1>7, <1>8 DEF Books, Differs
<1> QED BY <1>2, <1>3, <1>4, <1>9

\* A draw that lowers the allowance by what it moves keeps them in agreement.
LEMMA BooksDrawn ==
    ASSUME NEW b, NEW allow, NEW drawn, NEW granted, NEW minted,
           Books(b, allow, drawn, granted, minted),
           NEW o \in Address, NEW s \in Address, NEW to \in Address, NEW n \in Int
    PROVE  Books(Moved(b, o, to, n), Put(allow, o, s, allow[o][s] - n),
                 Put(drawn, o, s, drawn[o][s] + n), granted, minted)
<1>1. /\ allow \in Pairs /\ drawn \in Pairs /\ b \in [Address -> Int] /\ SumFunction(b) = minted
      /\ minted \in Int
    BY DEF Books
<1>2. PICK v \in Int, w \in Int : v = allow[o][s] - n /\ w = drawn[o][s] + n
    <2>1. allow[o][s] \in Int /\ drawn[o][s] \in Int
        BY <1>1 DEF Pairs
    <2> QED BY <2>1
<1>3. PICK a : a = Put(allow, o, s, v)
    OBVIOUS
<1>4. PICK d : d = Put(drawn, o, s, w)
    OBVIOUS
<1>5. Differs(allow, a, o, s, v)
    BY <1>1, <1>3, PutAt
<1>6. Differs(drawn, d, o, s, w)
    BY <1>1, <1>4, PutAt
<1>7. ASSUME NEW p \in Address, NEW q \in Address PROVE a[p][q] + d[p][q] = granted[p][q]
    <2>1. allow[p][q] + drawn[p][q] = granted[p][q] /\ allow[p][q] \in Int /\ drawn[p][q] \in Int
        BY <1>1 DEF Books, Pairs
    <2>2. CASE p = o /\ q = s
        <3>1. a[p][q] = v /\ d[p][q] = w
            BY <1>5, <1>6, <2>2 DEF Differs
        <3> QED BY <1>2, <2>1, <2>2, <3>1
    <2>3. CASE ~(p = o /\ q = s)
        <3>1. a[p][q] = allow[p][q] /\ d[p][q] = drawn[p][q]
            BY <1>5, <1>6, <2>3 DEF Differs
        <3> QED BY <2>1, <3>1
    <2> QED BY <2>2, <2>3
<1>8. Moved(b, o, to, n) = Added(Taken(b, o, n), to, n)
    BY DEF Moved, Added, Taken
<1>9. /\ Taken(b, o, n) \in [Address -> Int] /\ SumFunction(Taken(b, o, n)) = minted - n
    BY <1>1, TakenFrom
<1>10. /\ Added(Taken(b, o, n), to, n) \in [Address -> Int]
       /\ SumFunction(Added(Taken(b, o, n), to, n)) = (minted - n) + n
    BY <1>9, AddedTo
<1>11. (minted - n) + n = minted
    BY <1>1
<1>12. Books(Moved(b, o, to, n), a, d, granted, minted)
    BY <1>5, <1>6, <1>7, <1>8, <1>10, <1>11 DEF Books, Differs
<1> QED BY <1>2, <1>3, <1>4, <1>12

\* What was granted less what was taken back.
Open(granted, revoked) ==
    [o \in Address |-> [s \in Address |-> granted[o][s] - revoked[o][s]]]

\* An approval over zero, or of zero, keeps grants, draws and what was taken
\* back in agreement.
LEMMA BooksReplaced ==
    ASSUME NEW b, NEW allow, NEW drawn, NEW granted \in Pairs, NEW revoked \in Pairs, NEW minted,
           Books(b, allow, drawn, Open(granted, revoked), minted),
           NEW o \in Address, NEW s \in Address, NEW n \in Int, NEW back \in Int,
           n = n + allow[o][s] - back
    PROVE  /\ Put(granted, o, s, granted[o][s] + n) \in Pairs
           /\ Put(revoked, o, s, revoked[o][s] + back) \in Pairs
           /\ Books(b, Put(allow, o, s, n), drawn,
                    Open(Put(granted, o, s, granted[o][s] + n),
                         Put(revoked, o, s, revoked[o][s] + back)),
                    minted)
<1>1. /\ allow \in Pairs /\ drawn \in Pairs /\ b \in [Address -> Int] /\ SumFunction(b) = minted
      /\ minted \in Int
    BY DEF Books
<1>2. PICK v \in Int, w \in Int : v = granted[o][s] + n /\ w = revoked[o][s] + back
    <2>1. granted[o][s] \in Int /\ revoked[o][s] \in Int
        BY DEF Pairs
    <2> QED BY <2>1
<1>3. PICK a : a = Put(allow, o, s, n)
    OBVIOUS
<1>4. PICK g : g = Put(granted, o, s, v)
    OBVIOUS
<1>5. PICK r : r = Put(revoked, o, s, w)
    OBVIOUS
<1>6. Differs(allow, a, o, s, n)
    BY <1>1, <1>3, PutAt
<1>7. Differs(granted, g, o, s, v)
    BY <1>4, PutAt
<1>8. Differs(revoked, r, o, s, w)
    BY <1>5, PutAt
<1>9. ASSUME NEW p \in Address, NEW q \in Address PROVE a[p][q] + drawn[p][q] = g[p][q] - r[p][q]
    <2>1. /\ allow[p][q] + drawn[p][q] = granted[p][q] - revoked[p][q] /\ allow[p][q] \in Int
          /\ drawn[p][q] \in Int /\ granted[p][q] \in Int /\ revoked[p][q] \in Int
        BY <1>1 DEF Books, Pairs, Open
    <2>2. CASE p = o /\ q = s
        <3>1. a[p][q] = n /\ g[p][q] = v /\ r[p][q] = w
            BY <1>6, <1>7, <1>8, <2>2 DEF Differs
        <3> QED BY <1>2, <2>1, <2>2, <3>1
    <2>3. CASE ~(p = o /\ q = s)
        <3>1. a[p][q] = allow[p][q] /\ g[p][q] = granted[p][q] /\ r[p][q] = revoked[p][q]
            BY <1>6, <1>7, <1>8, <2>3 DEF Differs
        <3> QED BY <2>1, <3>1
    <2> QED BY <2>2, <2>3
<1>10. a \in Pairs /\ g \in Pairs /\ r \in Pairs
    BY <1>6, <1>7, <1>8 DEF Differs
<1>11. Open(g, r) \in Pairs /\ \A p, q \in Address : Open(g, r)[p][q] = g[p][q] - r[p][q]
    BY <1>10 DEF Open, Pairs
<1>12. Books(b, a, drawn, Open(g, r), minted)
    BY <1>1, <1>9, <1>10, <1>11 DEF Books
<1> QED BY <1>2, <1>3, <1>4, <1>5, <1>10, <1>12

\* The owner and the spender are addresses.
LEMMA OwnerAndSpender == (\A o \in Solo : o \in Address) /\ (\A s \in Spender : s \in Address)
BY SoloAccount DEF Spender

-----------------------------------------------------------------------------
(* allowance_before_balance.                                               *)
Before_Types ==
    /\ store = [balance |-> store.balance, allow |-> store.allow]
    /\ past = [minted |-> past.minted, drawn |-> past.drawn, granted |-> past.granted]

\* Balances, allowances and what was drawn agree.
Before_Books ==
    Books(store.balance, store.allow, past.drawn, past.granted, past.minted)

Before_Inv == Before_Types /\ Before_Books /\ GrantsAddUp

\* Every deployment is in Before_Inv; a call of the corrected contract, or
\* none, stays in it.
LEMMA Before_Correct ==
    /\ now = 0 /\ Before_Init => Before_Inv
    /\ Secure /\ Before_Inv /\ Before_Next => Before_Inv'
    /\ Before_Inv /\ UNCHANGED vars => Before_Inv'
<1>1. now = 0 /\ Before_Init => Before_Inv
    <2> SUFFICES ASSUME Before_Init PROVE Before_Inv
        OBVIOUS
    <2>1. Before_Types /\ Before_Books
        BY NoBooks DEF Before_Init, Before_Types, Before_Books, History
    <2>2. GrantsAddUp
        BY <2>1 DEF Before_Books, Books, GrantsAddUp
    <2> QED BY <2>1, <2>2 DEF Before_Inv
<1>2. ASSUME Secure, Before_Inv, Before_Next PROVE Before_Inv'
    <2>1. PICK o \in Solo, s \in Spender, to \in Address, n \in Allowances :
              Before_mint(o, n) \/ Before_approve(o, s, n) \/ Before_transfer_from(s, o, to, n) \/
              Before_transfer_from_lib(s, o, to, n)
        BY <1>2, Zenon DEF Before_Next, Lib, Secure
    <2>2. CASE Before_mint(o, n)
        <3>0. /\ store = [balance |-> store.balance, allow |-> store.allow]
              /\ past = [minted |-> past.minted, drawn |-> past.drawn, granted |-> past.granted]
            BY <1>2 DEF Before_Inv, Before_Types
        <3>1. store' = [balance |-> Added(store.balance, o, n), allow |-> store.allow]
            BY <2>2, <3>0 DEF Before_mint, Mints, WriteAnd, Added, Put
        <3>2. past' = [minted |-> past.minted + n, drawn |-> past.drawn, granted |-> past.granted]
            BY <2>2, <3>0 DEF Before_mint, Mints, WriteAnd, Put
        <3>3. Books(Added(store.balance, o, n), store.allow, past.drawn, past.granted,
                    past.minted + n)
            <4>1. Books(store.balance, store.allow, past.drawn, past.granted, past.minted)
                BY <1>2 DEF Before_Inv, Before_Books
            <4>2. o \in Address /\ n \in Int
                BY OwnerAndSpender DEF Allowances
            <4> QED BY <4>1, <4>2, BooksMinted
        <3>4. Before_Types' /\ Before_Books'
            BY <1>2, <3>1, <3>2, <3>3 DEF Before_Types, Before_Books
        <3>5. GrantsAddUp'
            BY <3>4 DEF Before_Books, Books, GrantsAddUp
        <3> QED BY <3>4, <3>5 DEF Before_Inv
    <2>3. CASE Before_approve(o, s, n)
        <3>0. /\ store = [balance |-> store.balance, allow |-> store.allow]
              /\ past = [minted |-> past.minted, drawn |-> past.drawn, granted |-> past.granted]
            BY <1>2 DEF Before_Inv, Before_Types
        <3>1. store' = [balance |-> store.balance, allow |-> Put(store.allow, o, s, n)]
            BY <2>3, <3>0 DEF Before_approve, WriteAnd, Added, Put
        <3>2. past' = [minted |-> past.minted, drawn |-> Put(past.drawn, o, s, 0), granted |->
                 Put(past.granted, o, s, n)]
            <4>1. PICK dr, gr : dr = Put(past.drawn, o, s, 0) /\ gr = Put(past.granted, o, s, n)
                OBVIOUS
            <4>2. PICK p : p = [past EXCEPT !.granted = gr, !.drawn = dr]
                OBVIOUS
            <4>3. p = [minted |-> past.minted, drawn |-> dr, granted |-> gr]
                BY <3>0, <4>2
            <4>4. p = Granted(past, o, s, n)
                BY <4>1, <4>2 DEF Granted, Put
            <4>5. past' = p
                BY <2>3, <4>4 DEF Before_approve, WriteAnd
            <4> QED BY <4>1, <4>3, <4>5
        <3>3. Books(store.balance, Put(store.allow, o, s, n), Put(past.drawn, o, s, 0),
                    Put(past.granted, o, s, n), past.minted)
            <4>1. Books(store.balance, store.allow, past.drawn, past.granted, past.minted)
                BY <1>2 DEF Before_Inv, Before_Books
            <4>2. o \in Address /\ s \in Address /\ n \in Int
                BY OwnerAndSpender DEF Allowances
            <4> QED BY <4>1, <4>2, BooksGranted
        <3>4. Before_Types' /\ Before_Books'
            BY <1>2, <3>1, <3>2, <3>3 DEF Before_Types, Before_Books
        <3>5. GrantsAddUp'
            BY <3>4 DEF Before_Books, Books, GrantsAddUp
        <3> QED BY <3>4, <3>5 DEF Before_Inv
    <2>4. CASE Before_transfer_from(s, o, to, n)
        <3>0. /\ store = [balance |-> store.balance, allow |-> store.allow]
              /\ past = [minted |-> past.minted, drawn |-> past.drawn, granted |-> past.granted]
            BY <1>2 DEF Before_Inv, Before_Types
        <3>1. store' = [balance |-> Moved(store.balance, o, to, n), allow |-> Put(store.allow, o, s,
                 store.allow[o][s] - n)]
            BY <2>4, <3>0 DEF Before_transfer_from, Draws, WriteAnd, Added, Put
        <3>2. past' = [minted |-> past.minted,
                       drawn |-> Put(past.drawn, o, s, past.drawn[o][s] + n),
                 granted |-> past.granted]
            BY <2>4, <3>0 DEF Before_transfer_from, Draws, WriteAnd, Put
        <3>3. Books(Moved(store.balance, o, to, n), Put(store.allow, o, s, store.allow[o][s] - n),
                    Put(past.drawn, o, s, past.drawn[o][s] + n), past.granted, past.minted)
            <4>1. Books(store.balance, store.allow, past.drawn, past.granted, past.minted)
                BY <1>2 DEF Before_Inv, Before_Books
            <4>2. o \in Address /\ s \in Address /\ to \in Address /\ n \in Int
                BY OwnerAndSpender DEF Allowances
            <4> QED BY <4>1, <4>2, BooksDrawn
        <3>4. Before_Types' /\ Before_Books'
            BY <1>2, <3>1, <3>2, <3>3 DEF Before_Types, Before_Books
        <3>5. GrantsAddUp'
            BY <3>4 DEF Before_Books, Books, GrantsAddUp
        <3> QED BY <3>4, <3>5 DEF Before_Inv
    <2>5. CASE Before_transfer_from_lib(s, o, to, n)
        <3>0. /\ store = [balance |-> store.balance, allow |-> store.allow]
              /\ past = [minted |-> past.minted, drawn |-> past.drawn, granted |-> past.granted]
            BY <1>2 DEF Before_Inv, Before_Types
        <3>1. store' = [balance |-> Moved(store.balance, o, to, n), allow |-> Put(store.allow, o, s,
                 store.allow[o][s] - n)]
            BY <2>5, <3>0 DEF Before_transfer_from_lib, Draws, WriteAnd, Added, Put
        <3>2. past' = [minted |-> past.minted,
                       drawn |-> Put(past.drawn, o, s, past.drawn[o][s] + n),
                 granted |-> past.granted]
            BY <2>5, <3>0 DEF Before_transfer_from_lib, Draws, WriteAnd, Put
        <3>3. Books(Moved(store.balance, o, to, n), Put(store.allow, o, s, store.allow[o][s] - n),
                    Put(past.drawn, o, s, past.drawn[o][s] + n), past.granted, past.minted)
            <4>1. Books(store.balance, store.allow, past.drawn, past.granted, past.minted)
                BY <1>2 DEF Before_Inv, Before_Books
            <4>2. o \in Address /\ s \in Address /\ to \in Address /\ n \in Int
                BY OwnerAndSpender DEF Allowances
            <4> QED BY <4>1, <4>2, BooksDrawn
        <3>4. Before_Types' /\ Before_Books'
            BY <1>2, <3>1, <3>2, <3>3 DEF Before_Types, Before_Books
        <3>5. GrantsAddUp'
            BY <3>4 DEF Before_Books, Books, GrantsAddUp
        <3> QED BY <3>4, <3>5 DEF Before_Inv
    <2> QED BY <2>1, <2>2, <2>3, <2>4, <2>5
<1>3. Before_Inv /\ UNCHANGED vars => Before_Inv'
    BY DEF Before_Inv, Before_Types, Before_Books, GrantsAddUp, vars
<1> QED BY <1>1, <1>2, <1>3

-----------------------------------------------------------------------------
(* allowance_not_decremented.                                              *)
Decrement_Types ==
    /\ store = [balance |-> store.balance, allow |-> store.allow]
    /\ past = [minted |-> past.minted, drawn |-> past.drawn, granted |-> past.granted]

\* Balances, allowances and what was drawn agree.
Decrement_Books ==
    Books(store.balance, store.allow, past.drawn, past.granted, past.minted)

Decrement_Inv == Decrement_Types /\ Decrement_Books /\ GrantsAddUp

\* Every deployment is in Decrement_Inv; a call of the corrected contract, or
\* none, stays in it.
LEMMA Decrement_Correct ==
    /\ now = 0 /\ Decrement_Init => Decrement_Inv
    /\ Secure /\ Decrement_Inv /\ Decrement_Next => Decrement_Inv'
    /\ Decrement_Inv /\ UNCHANGED vars => Decrement_Inv'
<1>1. now = 0 /\ Decrement_Init => Decrement_Inv
    <2> SUFFICES ASSUME Decrement_Init PROVE Decrement_Inv
        OBVIOUS
    <2>1. Decrement_Types /\ Decrement_Books
        BY NoBooks DEF Decrement_Init, Decrement_Types, Decrement_Books, History
    <2>2. GrantsAddUp
        BY <2>1 DEF Decrement_Books, Books, GrantsAddUp
    <2> QED BY <2>1, <2>2 DEF Decrement_Inv
<1>2. ASSUME Secure, Decrement_Inv, Decrement_Next PROVE Decrement_Inv'
    <2>1. PICK o \in Solo, s \in Spender, to \in Address, n \in Allowances :
              Decrement_mint(o, n) \/ Decrement_approve(o, s, n) \/
              Decrement_transfer_from(s, o, to, n)
        BY <1>2, Zenon DEF Decrement_Next, Lib, Secure
    <2>2. CASE Decrement_mint(o, n)
        <3>0. /\ store = [balance |-> store.balance, allow |-> store.allow]
              /\ past = [minted |-> past.minted, drawn |-> past.drawn, granted |-> past.granted]
            BY <1>2 DEF Decrement_Inv, Decrement_Types
        <3>1. store' = [balance |-> Added(store.balance, o, n), allow |-> store.allow]
            BY <2>2, <3>0 DEF Decrement_mint, Mints, WriteAnd, Added, Put
        <3>2. past' = [minted |-> past.minted + n, drawn |-> past.drawn, granted |-> past.granted]
            BY <2>2, <3>0 DEF Decrement_mint, Mints, WriteAnd, Put
        <3>3. Books(Added(store.balance, o, n), store.allow, past.drawn, past.granted,
                    past.minted + n)
            <4>1. Books(store.balance, store.allow, past.drawn, past.granted, past.minted)
                BY <1>2 DEF Decrement_Inv, Decrement_Books
            <4>2. o \in Address /\ n \in Int
                BY OwnerAndSpender DEF Allowances
            <4> QED BY <4>1, <4>2, BooksMinted
        <3>4. Decrement_Types' /\ Decrement_Books'
            BY <1>2, <3>1, <3>2, <3>3 DEF Decrement_Types, Decrement_Books
        <3>5. GrantsAddUp'
            BY <3>4 DEF Decrement_Books, Books, GrantsAddUp
        <3> QED BY <3>4, <3>5 DEF Decrement_Inv
    <2>3. CASE Decrement_approve(o, s, n)
        <3>0. /\ store = [balance |-> store.balance, allow |-> store.allow]
              /\ past = [minted |-> past.minted, drawn |-> past.drawn, granted |-> past.granted]
            BY <1>2 DEF Decrement_Inv, Decrement_Types
        <3>1. store' = [balance |-> store.balance, allow |-> Put(store.allow, o, s, n)]
            BY <2>3, <3>0 DEF Decrement_approve, WriteAnd, Added, Put
        <3>2. past' = [minted |-> past.minted, drawn |-> Put(past.drawn, o, s, 0), granted |->
                 Put(past.granted, o, s, n)]
            <4>1. PICK dr, gr : dr = Put(past.drawn, o, s, 0) /\ gr = Put(past.granted, o, s, n)
                OBVIOUS
            <4>2. PICK p : p = [past EXCEPT !.granted = gr, !.drawn = dr]
                OBVIOUS
            <4>3. p = [minted |-> past.minted, drawn |-> dr, granted |-> gr]
                BY <3>0, <4>2
            <4>4. p = Granted(past, o, s, n)
                BY <4>1, <4>2 DEF Granted, Put
            <4>5. past' = p
                BY <2>3, <4>4 DEF Decrement_approve, WriteAnd
            <4> QED BY <4>1, <4>3, <4>5
        <3>3. Books(store.balance, Put(store.allow, o, s, n), Put(past.drawn, o, s, 0),
                    Put(past.granted, o, s, n), past.minted)
            <4>1. Books(store.balance, store.allow, past.drawn, past.granted, past.minted)
                BY <1>2 DEF Decrement_Inv, Decrement_Books
            <4>2. o \in Address /\ s \in Address /\ n \in Int
                BY OwnerAndSpender DEF Allowances
            <4> QED BY <4>1, <4>2, BooksGranted
        <3>4. Decrement_Types' /\ Decrement_Books'
            BY <1>2, <3>1, <3>2, <3>3 DEF Decrement_Types, Decrement_Books
        <3>5. GrantsAddUp'
            BY <3>4 DEF Decrement_Books, Books, GrantsAddUp
        <3> QED BY <3>4, <3>5 DEF Decrement_Inv
    <2>4. CASE Decrement_transfer_from(s, o, to, n)
        <3>0. /\ store = [balance |-> store.balance, allow |-> store.allow]
              /\ past = [minted |-> past.minted, drawn |-> past.drawn, granted |-> past.granted]
            BY <1>2 DEF Decrement_Inv, Decrement_Types
        <3>1. store' = [balance |-> Moved(store.balance, o, to, n), allow |-> Put(store.allow, o, s,
                 store.allow[o][s] - n)]
            BY <2>4, <3>0 DEF Decrement_transfer_from, Draws, WriteAnd, Added, Put
        <3>2. past' = [minted |-> past.minted,
                       drawn |-> Put(past.drawn, o, s, past.drawn[o][s] + n),
                 granted |-> past.granted]
            BY <2>4, <3>0 DEF Decrement_transfer_from, Draws, WriteAnd, Put
        <3>3. Books(Moved(store.balance, o, to, n), Put(store.allow, o, s, store.allow[o][s] - n),
                    Put(past.drawn, o, s, past.drawn[o][s] + n), past.granted, past.minted)
            <4>1. Books(store.balance, store.allow, past.drawn, past.granted, past.minted)
                BY <1>2 DEF Decrement_Inv, Decrement_Books
            <4>2. o \in Address /\ s \in Address /\ to \in Address /\ n \in Int
                BY OwnerAndSpender DEF Allowances
            <4> QED BY <4>1, <4>2, BooksDrawn
        <3>4. Decrement_Types' /\ Decrement_Books'
            BY <1>2, <3>1, <3>2, <3>3 DEF Decrement_Types, Decrement_Books
        <3>5. GrantsAddUp'
            BY <3>4 DEF Decrement_Books, Books, GrantsAddUp
        <3> QED BY <3>4, <3>5 DEF Decrement_Inv
    <2> QED BY <2>1, <2>2, <2>3, <2>4
<1>3. Decrement_Inv /\ UNCHANGED vars => Decrement_Inv'
    BY DEF Decrement_Inv, Decrement_Types, Decrement_Books, GrantsAddUp, vars
<1> QED BY <1>1, <1>2, <1>3

-----------------------------------------------------------------------------
(* nonzero_allowance_overwrite.                                            *)
Overwrite_Types ==
    /\ store = [balance |-> store.balance, allow |-> store.allow]
    /\ past = [minted |-> past.minted, drawn |-> past.drawn, granted |-> past.granted,
               revoked |-> past.revoked]

\* Balances, allowances and what was drawn agree.
Overwrite_Books ==
    Books(store.balance, store.allow, past.drawn, Open(past.granted, past.revoked), past.minted)

\* What was granted and what was taken back are kept for every owner and
\* spender.
Overwrite_Sums ==
    past.granted \in Pairs /\ past.revoked \in Pairs

Overwrite_Inv == Overwrite_Types /\ Overwrite_Books /\ Overwrite_Sums

\* The agreement of the books is the promise.
LEMMA Overwrite_Promise == Overwrite_Inv => Overwrite_GrantsAccountedFor
<1> SUFFICES ASSUME Overwrite_Sums, Overwrite_Books PROVE Overwrite_GrantsAccountedFor
    BY DEF Overwrite_Inv
<1>1. ASSUME NEW o \in Address, NEW s \in Address
      PROVE  past.granted[o][s] = past.drawn[o][s] + past.revoked[o][s] + store.allow[o][s]
    <2>1. /\ store.allow[o][s] + past.drawn[o][s] = past.granted[o][s] - past.revoked[o][s]
          /\ store.allow[o][s] \in Int /\ past.drawn[o][s] \in Int
          /\ past.granted[o][s] \in Int /\ past.revoked[o][s] \in Int
        BY DEF Overwrite_Sums, Overwrite_Books, Books, Pairs, Open
    <2> QED BY <2>1
<1> QED BY <1>1 DEF Overwrite_Books, Books, Overwrite_GrantsAccountedFor

\* Every deployment is in Overwrite_Inv; a call of the corrected contract, or
\* none, stays in it.
LEMMA Overwrite_Correct ==
    /\ now = 0 /\ Overwrite_Init => Overwrite_Inv
    /\ Secure /\ Overwrite_Inv /\ Overwrite_Next => Overwrite_Inv'
    /\ Overwrite_Inv /\ UNCHANGED vars => Overwrite_Inv'
<1>1. now = 0 /\ Overwrite_Init => Overwrite_Inv
    <2> SUFFICES ASSUME Overwrite_Init PROVE Overwrite_Inv
        OBVIOUS
    <2>1. Overwrite_Types /\ Overwrite_Sums
        BY NoBooks DEF Overwrite_Init, Overwrite_Types, Overwrite_Sums, Books
    <2>2. NoAllowance \in Pairs /\ \A o, s \in Address : NoAllowance[o][s] = 0
        BY DEF NoAllowance, Zero, Pairs
    <2>3. Open(NoAllowance, NoAllowance) = NoAllowance
        BY DEF Open, NoAllowance, Zero
    <2>4. Overwrite_Books
        BY <2>3, NoBooks DEF Overwrite_Init, Overwrite_Books
    <2> QED BY <2>1, <2>4 DEF Overwrite_Inv
<1>2. ASSUME Secure, Overwrite_Inv, Overwrite_Next PROVE Overwrite_Inv'
    <2>1. PICK o \in Solo, s \in Spender, to \in Address, n \in -1..2 :
              Overwrite_mint(o, n) \/ Overwrite_approve(o, s, n) \/
              Overwrite_transfer_from(s, o, to, n)
        BY <1>2, Zenon DEF Overwrite_Next, Lib, Secure
    <2>2. CASE Overwrite_mint(o, n)
        <3>0. /\ store = [balance |-> store.balance, allow |-> store.allow]
              /\ past = [minted |-> past.minted, drawn |-> past.drawn, granted |-> past.granted,
                         revoked |->
                 past.revoked]
            BY <1>2 DEF Overwrite_Inv, Overwrite_Types
        <3>1. store' = [balance |-> Added(store.balance, o, n), allow |-> store.allow]
            BY <2>2, <3>0 DEF Overwrite_mint, Mints, WriteAnd, Added, Put
        <3>2. past' = [minted |-> past.minted + n, drawn |-> past.drawn, granted |-> past.granted,
                 revoked |-> past.revoked]
            BY <2>2, <3>0 DEF Overwrite_mint, Mints, WriteAnd, Put
        <3>3. Books(Added(store.balance, o, n), store.allow, past.drawn,
                    Open(past.granted, past.revoked), past.minted + n)
            <4>1. Books(store.balance, store.allow, past.drawn, Open(past.granted, past.revoked),
                        past.minted)
                BY <1>2 DEF Overwrite_Inv, Overwrite_Books
            <4>2. o \in Address /\ n \in Int
                BY OwnerAndSpender DEF Allowances
            <4> QED BY <4>1, <4>2, BooksMinted
        <3>4. Overwrite_Types' /\ Overwrite_Books'
            BY <1>2, <3>1, <3>2, <3>3 DEF Overwrite_Types, Overwrite_Books
        <3>6. Overwrite_Sums'
            BY <1>2, <3>2 DEF Overwrite_Inv, Overwrite_Sums
        <3> QED BY <3>4, <3>6 DEF Overwrite_Inv
    <2>3. CASE Overwrite_approve(o, s, n)
        <3>0. /\ store = [balance |-> store.balance, allow |-> store.allow]
              /\ past = [minted |-> past.minted, drawn |-> past.drawn, granted |-> past.granted,
                         revoked |-> past.revoked]
              /\ past.granted \in Pairs /\ past.revoked \in Pairs /\ store.allow \in Pairs
              /\ Books(store.balance, store.allow, past.drawn, Open(past.granted, past.revoked),
                       past.minted)
              /\ o \in Address /\ s \in Address /\ n \in Int
            BY <1>2, OwnerAndSpender
               DEF Overwrite_Inv, Overwrite_Types, Overwrite_Sums, Overwrite_Books, Books
        <3>a. store.allow[o][s] \in Int
            BY <3>0 DEF Pairs
        <3>b. PICK back \in Int : back = IF n = 0 THEN store.allow[o][s] ELSE 0
            BY <3>0, <3>a
        <3>c. n = n + store.allow[o][s] - back
            BY <3>0, <3>a, <3>b, <2>3 DEF Overwrite_approve
        <3>d. PICK a, g, r : /\ a = Put(store.allow, o, s, n)
                             /\ g = Put(past.granted, o, s, past.granted[o][s] + n)
                             /\ r = Put(past.revoked, o, s, past.revoked[o][s] + back)
            OBVIOUS
        <3>1. store' = [store EXCEPT !.allow = a]
            BY <2>3, <3>d DEF Overwrite_approve, Overwrite_approve_lib, WriteAnd, Put
        <3>2. past' = [past EXCEPT !.granted = g, !.revoked = r]
            BY <2>3, <3>b, <3>d DEF Overwrite_approve, Overwrite_approve_lib, WriteAnd, Put
        <3>e. /\ store' = [balance |-> store.balance, allow |-> a]
              /\ past' = [minted |-> past.minted, drawn |-> past.drawn, granted |-> g,
                          revoked |-> r]
            BY <3>0, <3>1, <3>2
        <3>3. g \in Pairs /\ r \in Pairs /\
                  Books(store.balance, a, past.drawn, Open(g, r), past.minted)
            BY <3>0, <3>b, <3>c, <3>d, BooksReplaced
        <3>4. Overwrite_Types' /\ Overwrite_Books' /\ Overwrite_Sums'
            BY <3>e, <3>3 DEF Overwrite_Types, Overwrite_Books, Overwrite_Sums
        <3> QED BY <3>4 DEF Overwrite_Inv
    <2>4. CASE Overwrite_transfer_from(s, o, to, n)
        <3>0. /\ store = [balance |-> store.balance, allow |-> store.allow]
              /\ past = [minted |-> past.minted, drawn |-> past.drawn, granted |-> past.granted,
                         revoked |->
                 past.revoked]
            BY <1>2 DEF Overwrite_Inv, Overwrite_Types
        <3>1. store' = [balance |-> Moved(store.balance, o, to, n), allow |-> Put(store.allow, o, s,
                 store.allow[o][s] - n)]
            BY <2>4, <3>0 DEF Overwrite_transfer_from, Draws, WriteAnd, Added, Put
        <3>2. past' = [minted |-> past.minted,
                       drawn |-> Put(past.drawn, o, s, past.drawn[o][s] + n),
                 granted |-> past.granted, revoked |-> past.revoked]
            BY <2>4, <3>0 DEF Overwrite_transfer_from, Draws, WriteAnd, Put
        <3>3. Books(Moved(store.balance, o, to, n), Put(store.allow, o, s, store.allow[o][s] - n),
                    Put(past.drawn, o, s, past.drawn[o][s] + n), Open(past.granted, past.revoked),
                    past.minted)
            <4>1. Books(store.balance, store.allow, past.drawn, Open(past.granted, past.revoked),
                        past.minted)
                BY <1>2 DEF Overwrite_Inv, Overwrite_Books
            <4>2. o \in Address /\ s \in Address /\ to \in Address /\ n \in Int
                BY OwnerAndSpender DEF Allowances
            <4> QED BY <4>1, <4>2, BooksDrawn
        <3>4. Overwrite_Types' /\ Overwrite_Books'
            BY <1>2, <3>1, <3>2, <3>3 DEF Overwrite_Types, Overwrite_Books
        <3>6. Overwrite_Sums'
            BY <1>2, <3>2 DEF Overwrite_Inv, Overwrite_Sums
        <3> QED BY <3>4, <3>6 DEF Overwrite_Inv
    <2> QED BY <2>1, <2>2, <2>3, <2>4
<1>3. Overwrite_Inv /\ UNCHANGED vars => Overwrite_Inv'
    BY DEF Overwrite_Inv, Overwrite_Types, Overwrite_Books, Overwrite_Sums, vars
<1> QED BY <1>1, <1>2, <1>3

-----------------------------------------------------------------------------
(* delegate_signer_mismatch.                                               *)
Signer_Types ==
    /\ store = [balance |-> store.balance, allow |-> store.allow]
    /\ past = [minted |-> past.minted, drawn |-> past.drawn, granted |-> past.granted,
               signer |-> past.signer]

\* Balances, allowances and what was drawn agree.
Signer_Books ==
    Books(store.balance, store.allow, past.drawn, past.granted, past.minted)

Signer_Inv == Signer_Types /\ Signer_Books

\* Every deployment is in Signer_Inv; a call of the corrected contract, or
\* none, stays in it.
LEMMA Signer_Correct ==
    /\ now = 0 /\ Signer_Init => Signer_Inv
    /\ Secure /\ Signer_Inv /\ Signer_Next => Signer_Inv' /\ Signer_DelegateDraws
    /\ Signer_Inv /\ UNCHANGED vars => Signer_Inv' /\ Signer_DelegateDraws
<1>1. now = 0 /\ Signer_Init => Signer_Inv
    BY NoBooks DEF Signer_Init, Signer_Inv, Signer_Types, Signer_Books
<1>2. ASSUME Secure, Signer_Inv, Signer_Next PROVE Signer_Inv' /\ Signer_DelegateDraws
    <2>1. PICK o \in Solo, d \in Spender, to \in Address, n \in Allowances :
              Signer_mint(o, n) \/ Signer_approve(o, d, n) \/ Signer_transfer_from(d, o, to, n)
        BY <1>2, Zenon DEF Signer_Next, Lib, Secure
    <2>2. CASE Signer_mint(o, n)
        <3>0. /\ store = [balance |-> store.balance, allow |-> store.allow]
              /\ past = [minted |-> past.minted, drawn |-> past.drawn, granted |-> past.granted,
                         signer |->
                 past.signer]
            BY <1>2 DEF Signer_Inv, Signer_Types
        <3>1. store' = [balance |-> Added(store.balance, o, n), allow |-> store.allow]
            BY <2>2, <3>0 DEF Signer_mint, Mints, WriteAnd, Added, Put
        <3>2. past' = [minted |-> past.minted + n, drawn |-> past.drawn, granted |-> past.granted,
                 signer |-> past.signer]
            BY <2>2, <3>0 DEF Signer_mint, Mints, WriteAnd, Put
        <3>3. Books(Added(store.balance, o, n), store.allow, past.drawn, past.granted,
                    past.minted + n)
            <4>1. Books(store.balance, store.allow, past.drawn, past.granted, past.minted)
                BY <1>2 DEF Signer_Inv, Signer_Books
            <4>2. o \in Address /\ n \in Int
                BY OwnerAndSpender DEF Allowances
            <4> QED BY <4>1, <4>2, BooksMinted
        <3>4. Signer_Types' /\ Signer_Books'
            BY <1>2, <3>1, <3>2, <3>3 DEF Signer_Types, Signer_Books
        <3>5. GrantsAddUp'
            BY <3>4 DEF Signer_Books, Books, GrantsAddUp
        <3>6. Signer_DelegateDraws
            BY <3>0, <3>1 DEF Signer_DelegateDraws
        <3> QED BY <3>4, <3>6 DEF Signer_Inv
    <2>3. CASE Signer_approve(o, d, n)
        <3>0. /\ store = [balance |-> store.balance, allow |-> store.allow]
              /\ past = [minted |-> past.minted, drawn |-> past.drawn, granted |-> past.granted,
                         signer |->
                 past.signer]
            BY <1>2 DEF Signer_Inv, Signer_Types
        <3>1. store' = [balance |-> store.balance, allow |-> Put(store.allow, o, d, n)]
            BY <2>3, <3>0 DEF Signer_approve, WriteAnd, Added, Put
        <3>2. past' = [minted |-> past.minted, drawn |-> Put(past.drawn, o, d, 0), granted |->
                 Put(past.granted, o, d, n), signer |-> o]
            <4>1. PICK dr, gr : dr = Put(past.drawn, o, d, 0) /\ gr = Put(past.granted, o, d, n)
                OBVIOUS
            <4>2. PICK p : p = [past EXCEPT !.granted = gr, !.drawn = dr]
                OBVIOUS
            <4>3. p = [minted |-> past.minted, drawn |-> dr, granted |-> gr, signer |-> past.signer]
                BY <3>0, <4>2
            <4>4. p = Granted(past, o, d, n)
                BY <4>1, <4>2 DEF Granted, Put
            <4>5. PICK x_signer : x_signer = o
                OBVIOUS
            <4>6. p.signer = past.signer
                BY <4>3
            <4>7. past' = [p EXCEPT !.signer = x_signer]
                BY <2>3, <4>4, <4>5, <4>6 DEF Signer_approve, WriteAnd
            <4>8. past' = [minted |-> past.minted, drawn |-> dr, granted |-> gr,
                           signer |-> x_signer]
                BY <4>3, <4>7
            <4> QED BY <4>1, <4>5, <4>8
        <3>3. Books(store.balance, Put(store.allow, o, d, n), Put(past.drawn, o, d, 0),
                    Put(past.granted, o, d, n), past.minted)
            <4>1. Books(store.balance, store.allow, past.drawn, past.granted, past.minted)
                BY <1>2 DEF Signer_Inv, Signer_Books
            <4>2. o \in Address /\ d \in Address /\ n \in Int
                BY OwnerAndSpender DEF Allowances
            <4> QED BY <4>1, <4>2, BooksGranted
        <3>4. Signer_Types' /\ Signer_Books'
            BY <1>2, <3>1, <3>2, <3>3 DEF Signer_Types, Signer_Books
        <3>5. GrantsAddUp'
            BY <3>4 DEF Signer_Books, Books, GrantsAddUp
        <3>6. Signer_DelegateDraws
            BY <3>0, <3>1 DEF Signer_DelegateDraws
        <3> QED BY <3>4, <3>6 DEF Signer_Inv
    <2>4. CASE Signer_transfer_from(d, o, to, n)
        <3>0. /\ store = [balance |-> store.balance, allow |-> store.allow]
              /\ past = [minted |-> past.minted, drawn |-> past.drawn, granted |-> past.granted,
                         signer |->
                 past.signer]
            BY <1>2 DEF Signer_Inv, Signer_Types
        <3>1. store' = [balance |-> Moved(store.balance, o, to, n), allow |-> Put(store.allow, o, d,
                 store.allow[o][d] - n)]
            BY <2>4, <3>0 DEF Signer_transfer_from, Signer_draws, WriteAnd, Added, Put
        <3>2. past' = [minted |-> past.minted,
                       drawn |-> Put(past.drawn, o, d, past.drawn[o][d] + n),
                 granted |-> past.granted, signer |-> d]
            BY <2>4, <3>0 DEF Signer_transfer_from, Signer_draws, WriteAnd, Put
        <3>3. Books(Moved(store.balance, o, to, n), Put(store.allow, o, d, store.allow[o][d] - n),
                    Put(past.drawn, o, d, past.drawn[o][d] + n), past.granted, past.minted)
            <4>1. Books(store.balance, store.allow, past.drawn, past.granted, past.minted)
                BY <1>2 DEF Signer_Inv, Signer_Books
            <4>2. o \in Address /\ d \in Address /\ to \in Address /\ n \in Int
                BY OwnerAndSpender DEF Allowances
            <4> QED BY <4>1, <4>2, BooksDrawn
        <3>4. Signer_Types' /\ Signer_Books'
            BY <1>2, <3>1, <3>2, <3>3 DEF Signer_Types, Signer_Books
        <3>5. GrantsAddUp'
            BY <3>4 DEF Signer_Books, Books, GrantsAddUp
        <3>6. Signer_DelegateDraws
            <4> SUFFICES ASSUME NEW p \in Address, NEW q \in Address,
                    store'.allow[p][q] # store.allow[p][q]
                         PROVE  past'.signer = q
                BY DEF Signer_DelegateDraws
            <4>1. /\ store.allow \in Pairs /\ o \in Address /\ d \in Address
                  /\ store.allow[o][d] \in Int /\ n \in Int
                BY <1>2, OwnerAndSpender DEF Signer_Inv, Signer_Books, Books, Pairs, Allowances
            <4>2. PICK v \in Int : v = store.allow[o][d] - n
                BY <4>1
            <4>3. Differs(store.allow, Put(store.allow, o, d, v), o, d, v)
                BY <4>1, PutAt
            <4>4. p = o /\ q = d
                BY <3>1, <4>2, <4>3 DEF Differs
            <4> QED BY <3>2, <4>4
        <3> QED BY <3>4, <3>6 DEF Signer_Inv
    <2> QED BY <2>1, <2>2, <2>3, <2>4
<1>3. Signer_Inv /\ UNCHANGED vars => Signer_Inv' /\ Signer_DelegateDraws
    BY DEF Signer_Inv, Signer_Types, Signer_DelegateDraws, Signer_Books, vars
<1> QED BY <1>1, <1>2, <1>3

\* The digest of a permit that a site accepted, with a nonce below the
\* owner's nonce there.
Used(digest, here, there) ==
    \E w \in {Here} \cup Elsewhere, o \in Address, s \in Address, n \in Int, k \in Int, t \in Int :
        /\ digest = <<w, k, t, "permit", o, s, n>>
        /\ k < IF w = Here THEN here[o] ELSE there[w][o]

\* The other deployments are other sites.
LEMMA Sites == Here \notin Elsewhere
BY DEF Here, Elsewhere

\* A digest used under some nonces is used under later ones.
LEMMA UsedGrows ==
    ASSUME NEW here \in [Address -> Int], NEW mine \in [Address -> Int],
           NEW there \in [Elsewhere -> [Address -> Int]],
               NEW theirs \in [Elsewhere -> [Address -> Int]],
           \A v \in Address : here[v] <= mine[v],
           \A w \in Elsewhere : \A v \in Address : there[w][v] <= theirs[w][v],
           NEW digest, Used(digest, here, there)
    PROVE  Used(digest, mine, theirs)
<1>1. PICK w \in {Here} \cup Elsewhere, o \in Address, s \in Address, n \in Int, k \in Int,
          t \in Int :
          /\ digest = <<w, k, t, "permit", o, s, n>>
          /\ k < IF w = Here THEN here[o] ELSE there[w][o]
    BY DEF Used
<1>2. k < IF w = Here THEN mine[o] ELSE theirs[w][o]
    <2>1. CASE w = Here
        BY <1>1, <2>1
    <2>2. CASE w # Here
        <3>1. there[w][o] \in Int /\ theirs[w][o] \in Int /\ there[w][o] <= theirs[w][o]
            BY <2>2
        <3> QED BY <1>1, <2>2, <3>1
    <2> QED BY <2>1, <2>2
<1> QED BY <1>1, <1>2 DEF Used

\* A permit accepted here leaves its digest used.
LEMMA UsedHere ==
    ASSUME NEW here, NEW there, NEW o \in Address, NEW s \in Address, NEW n \in Int, NEW t \in Int,
           NEW k \in Int, here[o] = k + 1
    PROVE  Used(<<Here, k, t, "permit", o, s, n>>, here, there)
<1>1. k < here[o] /\ Here \in {Here} \cup Elsewhere
    OBVIOUS
<1> QED BY <1>1 DEF Used

\* A permit accepted elsewhere leaves its digest used.
LEMMA UsedThere ==
    ASSUME NEW here, NEW there, NEW w \in Elsewhere, NEW o \in Address, NEW s \in Address,
        NEW n \in Int,
           NEW t \in Int, NEW k \in Int, there[w][o] = k + 1
    PROVE  Used(<<w, k, t, "permit", o, s, n>>, here, there)
<1>1. k < there[w][o] /\ w \in {Here} \cup Elsewhere /\ w # Here
    BY Sites
<1> QED BY <1>1 DEF Used

\* The digest under the owner's present nonce here was not used at any site.
LEMMA FreshHere ==
    ASSUME NEW here \in [Address -> Int], NEW there, NEW old, \A x \in old : Used(x, here, there),
           NEW o \in Address, NEW s \in Address, NEW n \in Int, NEW d \in Int
    PROVE  <<Here, here[o], d, "permit", o, s, n>> \notin old
<1> SUFFICES ASSUME <<Here, here[o], d, "permit", o, s, n>> \in old PROVE FALSE
    OBVIOUS
<1>1. PICK w \in {Here} \cup Elsewhere, a \in Address, b \in Address, m \in Int, k \in Int,
          t \in Int :
          /\ <<Here, here[o], d, "permit", o, s, n>> = <<w, k, t, "permit", a, b, m>>
          /\ k < IF w = Here THEN here[a] ELSE there[w][a]
    BY DEF Used
<1>2. w = Here /\ k = here[o] /\ a = o
    BY <1>1
<1> QED BY <1>1, <1>2

\* The same for a nonce at another site.
LEMMA FreshThere ==
    ASSUME NEW here, NEW there \in [Elsewhere -> [Address -> Int]], NEW old,
           \A x \in old : Used(x, here, there), NEW site \in Elsewhere,
           NEW o \in Address, NEW s \in Address, NEW n \in Int, NEW d \in Int
    PROVE  <<site, there[site][o], d, "permit", o, s, n>> \notin old
<1> SUFFICES ASSUME <<site, there[site][o], d, "permit", o, s, n>> \in old PROVE FALSE
    OBVIOUS
<1>1. PICK w \in {Here} \cup Elsewhere, a \in Address, b \in Address, m \in Int, k \in Int,
          t \in Int :
          /\ <<site, there[site][o], d, "permit", o, s, n>> = <<w, k, t, "permit", a, b, m>>
          /\ k < IF w = Here THEN here[a] ELSE there[w][a]
    BY DEF Used
<1>2. w = site /\ k = there[site][o] /\ a = o /\ w # Here
    BY <1>1, Sites
<1> QED BY <1>1, <1>2

-----------------------------------------------------------------------------
(* permit_domain_missing.                                                  *)
Domain_Types ==
    /\ store = [balance |-> store.balance, allow |-> store.allow, nonce |-> store.nonce]
    /\ past = [minted |-> past.minted, drawn |-> past.drawn, granted |-> past.granted,
               digests |-> past.digests, permits |-> past.permits, nonces |-> past.nonces]

\* Balances, allowances and what was drawn agree.
Domain_Books ==
    Books(store.balance, store.allow, past.drawn, past.granted, past.minted)

\* As many digests were signed as permits went through.
Domain_Counted ==
    /\ store.nonce \in [Address -> Int] /\ past.nonces \in [Elsewhere -> [Address -> Int]]
    /\ IsFiniteSet(past.digests) /\ Cardinality(past.digests) = past.permits /\ past.permits \in Int

\* The nonce in a digest that was used lies below its owner's nonce: no later
\* permit can repeat it.
Domain_DigestsUsed ==
    \A d \in past.digests : Used(d, store.nonce, past.nonces)

Domain_Inv == Domain_Types /\ Domain_Books /\ Domain_Counted /\ Domain_DigestsUsed /\
    Domain_DigestsDistinct

\* Every deployment is in Domain_Inv; a call of the corrected contract, or
\* none, stays in it.
LEMMA Domain_Correct ==
    /\ now = 0 /\ Domain_Init => Domain_Inv
    /\ Secure /\ Domain_Inv /\ Domain_Next => Domain_Inv'
    /\ Domain_Inv /\ UNCHANGED vars => Domain_Inv'
<1>1. now = 0 /\ Domain_Init => Domain_Inv
    <2> SUFFICES ASSUME Domain_Init PROVE Domain_Inv
        OBVIOUS
    <2>1. Domain_Types /\ Domain_Books
        BY NoBooks DEF Domain_Init, Domain_Types, Domain_Books
    <2>2. GrantsAddUp
        BY <2>1 DEF Domain_Books, Books, GrantsAddUp
    <2>3. Domain_Counted /\ Domain_DigestsUsed
        <3>1. Zero \in [Address -> Int]
            BY ZeroSum
        <3>2. [w \in Elsewhere |-> Zero] \in [Elsewhere -> [Address -> Int]]
            BY <3>1
        <3> QED BY <3>1, <3>2, FS_EmptySet DEF Domain_Init, Domain_Counted, Domain_DigestsUsed
    <2> QED BY <2>1, <2>2, <2>3 DEF Domain_Inv, Domain_DigestsDistinct, Domain_Counted
<1>2. ASSUME Secure, Domain_Inv, Domain_Next PROVE Domain_Inv'
    <2>1. PICK o \in Solo, s \in Spender, to \in Address, n \in Allowances, d \in {0, 1},
              w \in Elsewhere :
              Domain_mint(o, n) \/ Domain_permit(o, s, n, d) \/
              Domain_permit_elsewhere(w, o, s, n, d) \/ Domain_transfer_from(s, o, to, n) \/
              (now = 0 /\ CloseLedger)
        BY <1>2, ZenonT(60) DEF Domain_Next, Lib, Secure
    <2>2. CASE Domain_mint(o, n)
        <3>0. /\ store = [balance |-> store.balance, allow |-> store.allow, nonce |-> store.nonce]
              /\ past = [minted |-> past.minted, drawn |-> past.drawn, granted |-> past.granted,
                         digests |->
                 past.digests, permits |-> past.permits, nonces |-> past.nonces]
            BY <1>2 DEF Domain_Inv, Domain_Types
        <3>1. store' = [balance |-> Added(store.balance, o, n), allow |-> store.allow, nonce |->
                 store.nonce]
            BY <2>2, <3>0 DEF Domain_mint, Mints, WriteAnd, Added, Put
        <3>2. past' = [minted |-> past.minted + n, drawn |-> past.drawn, granted |-> past.granted,
                 digests |-> past.digests, permits |-> past.permits, nonces |-> past.nonces]
            BY <2>2, <3>0 DEF Domain_mint, Mints, WriteAnd, Put
        <3>3. Books(Added(store.balance, o, n), store.allow, past.drawn, past.granted,
                    past.minted + n)
            <4>1. Books(store.balance, store.allow, past.drawn, past.granted, past.minted)
                BY <1>2 DEF Domain_Inv, Domain_Books
            <4>2. o \in Address /\ n \in Int
                BY OwnerAndSpender DEF Allowances
            <4> QED BY <4>1, <4>2, BooksMinted
        <3>4. Domain_Types' /\ Domain_Books'
            BY <1>2, <3>1, <3>2, <3>3 DEF Domain_Types, Domain_Books
        <3>5. GrantsAddUp'
            BY <3>4 DEF Domain_Books, Books, GrantsAddUp
        <3>6. store.nonce' = store.nonce /\ past.digests' = past.digests /\
                  past.permits' = past.permits
              /\ past.nonces' = past.nonces
            BY <3>1, <3>2
        <3>7. Domain_Counted'
            BY <1>2, <3>6 DEF Domain_Inv, Domain_Counted
        <3>8. Domain_DigestsUsed'
            BY <1>2, <3>6 DEF Domain_Inv, Domain_DigestsUsed
        <3> QED BY <3>4, <3>5, <3>7, <3>8 DEF Domain_Inv, Domain_DigestsDistinct, Domain_Counted
    <2>3. CASE Domain_permit(o, s, n, d)
        <3>0. /\ store = [balance |-> store.balance, allow |-> store.allow, nonce |-> store.nonce]
              /\ past = [minted |-> past.minted, drawn |-> past.drawn, granted |-> past.granted,
                         digests |->
                 past.digests, permits |-> past.permits, nonces |-> past.nonces]
            BY <1>2 DEF Domain_Inv, Domain_Types
        <3>1. store' = [balance |-> store.balance, allow |-> Put(store.allow, o, s, n), nonce |->
                 Added(store.nonce, o, 1)]
            BY <2>3, <3>0 DEF Domain_permit, Accepted, Domain_permit_digest, WriteAnd, Added, Put
        <3>2. past' = [minted |-> past.minted, drawn |-> Put(past.drawn, o, s, 0), granted |->
                 Put(past.granted, o, s, n),
                     digests |-> past.digests \cup {<<Here, store.nonce[o], d,
                 "permit", o, s, n>>}, permits |-> past.permits + 1, nonces |-> past.nonces]
            <4>1. PICK dr, gr : dr = Put(past.drawn, o, s, 0) /\ gr = Put(past.granted, o, s, n)
                OBVIOUS
            <4>2. PICK p : p = [past EXCEPT !.granted = gr, !.drawn = dr]
                OBVIOUS
            <4>3. p = [minted |-> past.minted, drawn |-> dr, granted |-> gr,
                       digests |-> past.digests, permits |-> past.permits, nonces |-> past.nonces]
                BY <3>0, <4>2
            <4>4. p = Granted(past, o, s, n)
                BY <4>1, <4>2 DEF Granted, Put
            <4>5. PICK x_digests, x_permits :
                      x_digests = past.digests \cup {<<Here, store.nonce[o], d, "permit", o, s,
                                                       n>>} /\
                      x_permits = past.permits + 1
                OBVIOUS
            <4>6. p.digests = past.digests /\ p.permits = past.permits
                BY <4>3
            <4>7. past' = [p EXCEPT !.digests = x_digests, !.permits = x_permits]
                BY <2>3, <4>4, <4>5, <4>6
                   DEF Domain_permit, Accepted, Domain_permit_digest, WriteAnd
            <4>8. past' = [minted |-> past.minted, drawn |-> dr, granted |-> gr,
                           digests |-> x_digests, permits |-> x_permits, nonces |-> past.nonces]
                BY <4>3, <4>7
            <4> QED BY <4>1, <4>5, <4>8
        <3>3. Books(store.balance, Put(store.allow, o, s, n), Put(past.drawn, o, s, 0),
                    Put(past.granted, o, s, n), past.minted)
            <4>1. Books(store.balance, store.allow, past.drawn, past.granted, past.minted)
                BY <1>2 DEF Domain_Inv, Domain_Books
            <4>2. o \in Address /\ s \in Address /\ n \in Int
                BY OwnerAndSpender DEF Allowances
            <4> QED BY <4>1, <4>2, BooksGranted
        <3>4. Domain_Types' /\ Domain_Books'
            BY <1>2, <3>1, <3>2, <3>3 DEF Domain_Types, Domain_Books
        <3>5. GrantsAddUp'
            BY <3>4 DEF Domain_Books, Books, GrantsAddUp
        <3>a. PICK here, there, old :
                  here = store.nonce /\ there = past.nonces /\ old = past.digests
            OBVIOUS
        <3>b. /\ here \in [Address -> Int] /\ there \in [Elsewhere -> [Address -> Int]] /\
                 past.permits \in Int
              /\ IsFiniteSet(old) /\ Cardinality(old) = past.permits /\
                 \A x \in old : Used(x, here, there)
              /\ o \in Address /\ s \in Address /\ n \in Int /\ d \in Int
            BY <1>2, <3>a, OwnerAndSpender
               DEF Domain_Inv, Domain_Counted, Domain_DigestsUsed, Allowances
        <3>c. PICK k, mine : k \in Int /\ k = here[o] /\ mine = Added(here, o, 1)
            BY <3>b
        <3>r. k \in Int
            BY <3>c
        <3>d. PICK new : new = <<Here, k, d, "permit", o, s, n>>
            OBVIOUS
        <3>e. mine \in [Address -> Int] /\
                  \A v \in Address : mine[v] = here[v] + (IF v = o THEN 1 ELSE 0)
            <4>1. here \in [Address -> Int] /\ o \in Address /\ 1 \in Int /\
                      mine = Added(here, o, 1)
                BY <3>b, <3>c
            <4>2. Added(here, o, 1) \in [Address -> Int] /\
                      \A v \in Address : Added(here, o, 1)[v] = here[v] + (IF v = o THEN 1 ELSE 0)
                BY <4>1, AddedTo
            <4> QED BY <4>1, <4>2
        <3>f. new \notin old
            BY <3>b, <3>c, <3>d, FreshHere
        <3>g. mine[o] = k + 1
            BY <3>b, <3>c, <3>e
        <3>h. Used(new, mine, there)
            BY <3>b, <3>r, <3>d, <3>g, UsedHere
        <3>i. \A v \in Address : here[v] <= mine[v]
            BY <3>b, <3>e
        <3>j. ASSUME NEW x \in old PROVE Used(x, mine, there)
            <4>1. \A x1 \in Elsewhere : \A v \in Address : there[x1][v] <= there[x1][v]
                BY <3>b
            <4> QED BY <3>b, <3>e, <3>i, <3>j, <4>1, UsedGrows
        <3>k. /\ store.nonce' = mine /\ past.nonces' = there /\ past.digests' = old \cup {new}
              /\ past.permits' = past.permits + 1
            BY <3>1, <3>2, <3>a, <3>c, <3>d
        <3>7. Domain_Counted'
            <4>1. IsFiniteSet(old \cup {new}) /\ Cardinality(old \cup {new}) = past.permits + 1
                BY <3>b, <3>f, FS_AddElement
            <4>2. past.permits + 1 \in Int
                BY <3>b
            <4> QED BY <3>b, <3>e, <3>k, <4>1, <4>2 DEF Domain_Counted
        <3>8. Domain_DigestsUsed'
            BY <3>h, <3>j, <3>k DEF Domain_DigestsUsed
        <3> QED BY <3>4, <3>5, <3>7, <3>8 DEF Domain_Inv, Domain_DigestsDistinct, Domain_Counted
    <2>4. CASE Domain_permit_elsewhere(w, o, s, n, d)
        <3>0. /\ store = [balance |-> store.balance, allow |-> store.allow, nonce |-> store.nonce]
              /\ past = [minted |-> past.minted, drawn |-> past.drawn, granted |-> past.granted,
                         digests |-> past.digests, permits |-> past.permits, nonces |-> past.nonces]
            BY <1>2 DEF Domain_Inv, Domain_Types
        <3>a. PICK here, there, old :
                  here = store.nonce /\ there = past.nonces /\ old = past.digests
            OBVIOUS
        <3>b. /\ here \in [Address -> Int] /\ there \in [Elsewhere -> [Address -> Int]] /\
                 past.permits \in Int
              /\ IsFiniteSet(old) /\ Cardinality(old) = past.permits /\
                 \A x \in old : Used(x, here, there)
              /\ o \in Address /\ s \in Address /\ n \in Int /\ d \in Int
            BY <1>2, <3>a, OwnerAndSpender
               DEF Domain_Inv, Domain_Counted, Domain_DigestsUsed, Allowances
        <3>c. PICK k, mine : k \in Int /\
                  k = there[w][o] /\ mine = [there EXCEPT ![w][o] = there[w][o] + 1]
            BY <3>b
        <3>r. k \in Int
            BY <3>c
        <3>d. PICK new : new = <<w, k, d, "permit", o, s, n>>
            OBVIOUS
        <3>e. mine \in [Elsewhere -> [Address -> Int]] /\ mine[w][o] = k + 1
            <4>1. PICK row : row = [there[w] EXCEPT ![o] = k + 1]
                OBVIOUS
            <4>2. row \in [Address -> Int] /\ row[o] = k + 1
                BY <3>b, <3>c, <4>1
            <4>3. mine = [there EXCEPT ![w] = row]
                BY <3>c, <4>1
            <4> QED BY <3>b, <4>2, <4>3
        <3>i. \A x \in Elsewhere : \A v \in Address : there[x][v] <= mine[x][v]
            BY <3>b, <3>c
        <3>f. new \notin old
            BY <3>b, <3>c, <3>d, FreshThere
        <3>h. Used(new, here, mine)
            BY <3>b, <3>r, <3>d, <3>e, UsedThere
        <3>j. ASSUME NEW x \in old PROVE Used(x, here, mine)
            <4>1. \A v \in Address : here[v] <= here[v]
                BY <3>b
            <4> QED BY <3>b, <3>e, <3>i, <3>j, <4>1, UsedGrows
        <3>l. PICK p : p = [past EXCEPT !.digests = old \cup {new}, !.permits = past.permits + 1]
            OBVIOUS
        <3>m. p = [minted |-> past.minted, drawn |-> past.drawn, granted |-> past.granted,
                   digests |-> old \cup {new}, permits |-> past.permits + 1, nonces |-> past.nonces]
            BY <3>0, <3>l
        <3>n. p = Accepted(past, Domain_permit_digest(w, o, s, n, past.nonces[w][o], d))
            BY <3>a, <3>c, <3>d, <3>l DEF Accepted, Domain_permit_digest
        <3>p. store' = store /\ past' = [p EXCEPT !.nonces = mine]
            <4>1. p.nonces = there
                BY <3>a, <3>m
            <4>2. store' = store /\ past' = [p EXCEPT !.nonces[w][o] = @ + 1]
                BY <2>4, <3>n DEF Domain_permit_elsewhere, Observe
            <4> QED BY <3>c, <4>1, <4>2
        <3>1. store' = store /\
                  past' = [minted |-> past.minted, drawn |-> past.drawn, granted |-> past.granted,
                           digests |-> old \cup {new}, permits |-> past.permits + 1,
                           nonces |-> mine]
            BY <3>m, <3>p
        <3>4. Domain_Types' /\ Domain_Books'
            BY <1>2, <3>1 DEF Domain_Inv, Domain_Types, Domain_Books
        <3>5. GrantsAddUp'
            BY <3>4 DEF Domain_Books, Books, GrantsAddUp
        <3>k. /\ store.nonce' = here /\ past.nonces' = mine /\ past.digests' = old \cup {new}
              /\ past.permits' = past.permits + 1
            BY <3>1, <3>a
        <3>7. Domain_Counted'
            <4>1. IsFiniteSet(old \cup {new}) /\ Cardinality(old \cup {new}) = past.permits + 1
                BY <3>b, <3>f, FS_AddElement
            <4>2. past.permits + 1 \in Int
                BY <3>b
            <4> QED BY <3>b, <3>e, <3>k, <4>1, <4>2 DEF Domain_Counted
        <3>8. Domain_DigestsUsed'
            BY <3>h, <3>j, <3>k DEF Domain_DigestsUsed
        <3> QED BY <3>4, <3>5, <3>7, <3>8 DEF Domain_Inv, Domain_DigestsDistinct, Domain_Counted
    <2>5. CASE Domain_transfer_from(s, o, to, n)
        <3>0. /\ store = [balance |-> store.balance, allow |-> store.allow, nonce |-> store.nonce]
              /\ past = [minted |-> past.minted, drawn |-> past.drawn, granted |-> past.granted,
                         digests |->
                 past.digests, permits |-> past.permits, nonces |-> past.nonces]
            BY <1>2 DEF Domain_Inv, Domain_Types
        <3>1. store' = [balance |-> Moved(store.balance, o, to, n), allow |-> Put(store.allow, o, s,
                 store.allow[o][s] - n), nonce |-> store.nonce]
            BY <2>5, <3>0 DEF Domain_transfer_from, Draws, WriteAnd, Added, Put
        <3>2. past' = [minted |-> past.minted,
                       drawn |-> Put(past.drawn, o, s, past.drawn[o][s] + n),
                 granted |-> past.granted, digests |-> past.digests, permits |-> past.permits,
                     nonces
                 |-> past.nonces]
            BY <2>5, <3>0 DEF Domain_transfer_from, Draws, WriteAnd, Put
        <3>3. Books(Moved(store.balance, o, to, n), Put(store.allow, o, s, store.allow[o][s] - n),
                    Put(past.drawn, o, s, past.drawn[o][s] + n), past.granted, past.minted)
            <4>1. Books(store.balance, store.allow, past.drawn, past.granted, past.minted)
                BY <1>2 DEF Domain_Inv, Domain_Books
            <4>2. o \in Address /\ s \in Address /\ to \in Address /\ n \in Int
                BY OwnerAndSpender DEF Allowances
            <4> QED BY <4>1, <4>2, BooksDrawn
        <3>4. Domain_Types' /\ Domain_Books'
            BY <1>2, <3>1, <3>2, <3>3 DEF Domain_Types, Domain_Books
        <3>5. GrantsAddUp'
            BY <3>4 DEF Domain_Books, Books, GrantsAddUp
        <3>6. store.nonce' = store.nonce /\ past.digests' = past.digests /\
                  past.permits' = past.permits
              /\ past.nonces' = past.nonces
            BY <3>1, <3>2
        <3>7. Domain_Counted'
            BY <1>2, <3>6 DEF Domain_Inv, Domain_Counted
        <3>8. Domain_DigestsUsed'
            BY <1>2, <3>6 DEF Domain_Inv, Domain_DigestsUsed
        <3> QED BY <3>4, <3>5, <3>7, <3>8 DEF Domain_Inv, Domain_DigestsDistinct, Domain_Counted
    <2>6. CASE (now = 0 /\ CloseLedger)
        <3>1. store' = store /\ past' = past
            BY <2>6 DEF CloseLedger
        <3> QED BY <1>2, <3>1
               DEF Domain_Inv, Domain_Types, Domain_Books, Domain_Counted, Domain_DigestsUsed,
               Domain_DigestsDistinct, GrantsAddUp
    <2> QED BY <2>1, <2>2, <2>3, <2>4, <2>5, <2>6
<1>3. Domain_Inv /\ UNCHANGED vars => Domain_Inv'
    BY DEF Domain_Inv, Domain_Types, Domain_Books, Domain_Counted, Domain_DigestsUsed,
       Domain_DigestsDistinct, vars, GrantsAddUp
<1> QED BY <1>1, <1>2, <1>3

-----------------------------------------------------------------------------
(* permit_deadline_ignored.                                                *)
Deadline_Types ==
    /\ now \in Nat
    /\ store = [balance |-> store.balance, allow |-> store.allow, nonce |-> store.nonce]
    /\ past = [minted |-> past.minted, drawn |-> past.drawn, granted |-> past.granted,
               late |-> past.late, permits |-> past.permits]

\* Balances, allowances and what was drawn agree.
Deadline_Books ==
    Books(store.balance, store.allow, past.drawn, past.granted, past.minted)

\* The nonces count the permits, none of which was late.
Deadline_Counted ==
    /\ store.nonce \in [Address -> Int] /\ SumFunction(store.nonce) = past.permits
    /\ past.late = FALSE

Deadline_Inv == Deadline_Types /\ Deadline_Books /\ Deadline_Counted /\ Deadline_PermitsInTime

\* Every deployment is in Deadline_Inv; a call of the corrected contract, or
\* none, stays in it.
LEMMA Deadline_Correct ==
    /\ now = 0 /\ Deadline_Init => Deadline_Inv
    /\ Secure /\ Deadline_Inv /\ Deadline_Next => Deadline_Inv'
    /\ Deadline_Inv /\ UNCHANGED vars => Deadline_Inv'
<1>1. now = 0 /\ Deadline_Init => Deadline_Inv
    <2> SUFFICES ASSUME now = 0, Deadline_Init PROVE Deadline_Inv
        OBVIOUS
    <2>1. Deadline_Types /\ Deadline_Books
        BY NoBooks DEF Deadline_Init, Deadline_Types, Deadline_Books
    <2>2. GrantsAddUp
        BY <2>1 DEF Deadline_Books, Books, GrantsAddUp
    <2>3. Deadline_Counted /\ store.nonce = Zero
        BY ZeroSum DEF Deadline_Init, Deadline_Counted
    <2>4. [u \in Address |-> store.nonce[u]] = store.nonce
        BY <2>3 DEF Deadline_Counted
    <2> QED BY <2>1, <2>2, <2>3, <2>4 DEF Deadline_Inv, Deadline_PermitsInTime, Deadline_Counted
<1>2. ASSUME Secure, Deadline_Inv, Deadline_Next PROVE Deadline_Inv'
    <2>1. PICK o \in Solo, s \in Spender, to \in Address, n \in Allowances, d \in {0, 1} :
              Deadline_mint(o, n) \/ Deadline_permit(o, s, n, d) \/
              Deadline_transfer_from(s, o, to, n) \/ (now = 0 /\ CloseLedger)
        BY <1>2, Zenon DEF Deadline_Next, Lib, Secure
    <2>2. CASE Deadline_mint(o, n)
        <3>0. /\ store = [balance |-> store.balance, allow |-> store.allow, nonce |-> store.nonce]
              /\ past = [minted |-> past.minted, drawn |-> past.drawn, granted |-> past.granted,
                         late |->
                 past.late, permits |-> past.permits]
            BY <1>2 DEF Deadline_Inv, Deadline_Types
        <3>1. store' = [balance |-> Added(store.balance, o, n), allow |-> store.allow, nonce |->
                 store.nonce]
            BY <2>2, <3>0 DEF Deadline_mint, Mints, WriteAnd, Added, Put
        <3>2. past' = [minted |-> past.minted + n, drawn |-> past.drawn, granted |-> past.granted,
                       late
                 |-> past.late, permits |-> past.permits]
            BY <2>2, <3>0 DEF Deadline_mint, Mints, WriteAnd, Put
        <3>3. Books(Added(store.balance, o, n), store.allow, past.drawn, past.granted,
                    past.minted + n)
            <4>1. Books(store.balance, store.allow, past.drawn, past.granted, past.minted)
                BY <1>2 DEF Deadline_Inv, Deadline_Books
            <4>2. o \in Address /\ n \in Int
                BY OwnerAndSpender DEF Allowances
            <4> QED BY <4>1, <4>2, BooksMinted
        <3>n. now' = now /\ now \in Nat
            BY <1>2, <2>2 DEF Deadline_Inv, Deadline_Types, WriteAnd, Deadline_mint, Mints
        <3>4. Deadline_Types' /\ Deadline_Books'
            BY <1>2, <3>n, <3>1, <3>2, <3>3 DEF Deadline_Types, Deadline_Books
        <3>5. GrantsAddUp'
            BY <3>4 DEF Deadline_Books, Books, GrantsAddUp
        <3>6. Deadline_Counted'
            BY <1>2, <3>1, <3>2 DEF Deadline_Inv, Deadline_Counted
        <3>7. [u \in Address |-> store.nonce'[u]] = store.nonce'
            BY <3>6 DEF Deadline_Counted
        <3> QED BY <3>4, <3>5, <3>6, <3>7 DEF Deadline_Inv, Deadline_PermitsInTime, Deadline_Counted
    <2>3. CASE Deadline_permit(o, s, n, d)
        <3>0. /\ store = [balance |-> store.balance, allow |-> store.allow, nonce |-> store.nonce]
              /\ past = [minted |-> past.minted, drawn |-> past.drawn, granted |-> past.granted,
                         late |->
                 past.late, permits |-> past.permits]
            BY <1>2 DEF Deadline_Inv, Deadline_Types
        <3>1. store' = [balance |-> store.balance, allow |-> Put(store.allow, o, s, n), nonce |->
                 Added(store.nonce, o, 1)]
            BY <2>3, <3>0 DEF Deadline_permit, Deadline_permit_lib, WriteAnd, Added, Put
        <3>2. past' = [minted |-> past.minted, drawn |-> Put(past.drawn, o, s, 0), granted |->
                 Put(past.granted, o, s, n), late |-> past.late, permits |-> past.permits + 1]
            <4>1. PICK dr, gr : dr = Put(past.drawn, o, s, 0) /\ gr = Put(past.granted, o, s, n)
                OBVIOUS
            <4>2. PICK p : p = [past EXCEPT !.granted = gr, !.drawn = dr]
                OBVIOUS
            <4>3. p = [minted |-> past.minted, drawn |-> dr, granted |-> gr, late |-> past.late,
                       permits |-> past.permits]
                BY <3>0, <4>2
            <4>4. p = Granted(past, o, s, n)
                BY <4>1, <4>2 DEF Granted, Put
            <4>5. PICK x_late, x_permits : x_late = past.late /\ x_permits = past.permits + 1
                OBVIOUS
            <4>6. p.late = past.late /\ p.permits = past.permits
                BY <4>3
            <4>a. (now > d) = FALSE /\ past.late = FALSE
                BY <1>2, <2>3 DEF Deadline_permit, Deadline_Inv, Deadline_Types, Deadline_Counted
            <4>b. x_late = (p.late \/ now > d)
                BY <4>5, <4>6, <4>a
            <4>7. past' = [p EXCEPT !.late = x_late, !.permits = x_permits]
                BY <2>3, <4>4, <4>5, <4>6, <4>b DEF Deadline_permit, Deadline_permit_lib, WriteAnd
            <4>8. past' = [minted |-> past.minted, drawn |-> dr, granted |-> gr, late |-> x_late,
                           permits |-> x_permits]
                BY <4>3, <4>7
            <4> QED BY <4>1, <4>5, <4>8
        <3>3. Books(store.balance, Put(store.allow, o, s, n), Put(past.drawn, o, s, 0),
                    Put(past.granted, o, s, n), past.minted)
            <4>1. Books(store.balance, store.allow, past.drawn, past.granted, past.minted)
                BY <1>2 DEF Deadline_Inv, Deadline_Books
            <4>2. o \in Address /\ s \in Address /\ n \in Int
                BY OwnerAndSpender DEF Allowances
            <4> QED BY <4>1, <4>2, BooksGranted
        <3>n. now' = now /\ now \in Nat
            BY <1>2, <2>3 DEF Deadline_Inv, Deadline_Types, WriteAnd, Deadline_permit,
               Deadline_permit_lib
        <3>4. Deadline_Types' /\ Deadline_Books'
            BY <1>2, <3>n, <3>1, <3>2, <3>3 DEF Deadline_Types, Deadline_Books
        <3>5. GrantsAddUp'
            BY <3>4 DEF Deadline_Books, Books, GrantsAddUp
        <3>6. Deadline_Counted'
            <4>1. /\ store.nonce \in [Address -> Int] /\ o \in Address /\ 1 \in Int
                  /\ SumFunction(store.nonce) = past.permits /\ past.late = FALSE
                BY <1>2, OwnerAndSpender DEF Deadline_Inv, Deadline_Counted
            <4>2. /\ Added(store.nonce, o, 1) \in [Address -> Int]
                  /\ SumFunction(Added(store.nonce, o, 1)) = SumFunction(store.nonce) + 1
                BY <4>1, AddedTo
            <4> QED BY <3>1, <3>2, <4>1, <4>2 DEF Deadline_Counted
        <3>7. [u \in Address |-> store.nonce'[u]] = store.nonce'
            BY <3>6 DEF Deadline_Counted
        <3> QED BY <3>4, <3>5, <3>6, <3>7 DEF Deadline_Inv, Deadline_PermitsInTime, Deadline_Counted
    <2>4. CASE Deadline_transfer_from(s, o, to, n)
        <3>0. /\ store = [balance |-> store.balance, allow |-> store.allow, nonce |-> store.nonce]
              /\ past = [minted |-> past.minted, drawn |-> past.drawn, granted |-> past.granted,
                         late |->
                 past.late, permits |-> past.permits]
            BY <1>2 DEF Deadline_Inv, Deadline_Types
        <3>1. store' = [balance |-> Moved(store.balance, o, to, n), allow |-> Put(store.allow, o, s,
                 store.allow[o][s] - n), nonce |-> store.nonce]
            BY <2>4, <3>0 DEF Deadline_transfer_from, Draws, WriteAnd, Added, Put
        <3>2. past' = [minted |-> past.minted,
                       drawn |-> Put(past.drawn, o, s, past.drawn[o][s] + n),
                 granted |-> past.granted, late |-> past.late, permits |-> past.permits]
            BY <2>4, <3>0 DEF Deadline_transfer_from, Draws, WriteAnd, Put
        <3>3. Books(Moved(store.balance, o, to, n), Put(store.allow, o, s, store.allow[o][s] - n),
                    Put(past.drawn, o, s, past.drawn[o][s] + n), past.granted, past.minted)
            <4>1. Books(store.balance, store.allow, past.drawn, past.granted, past.minted)
                BY <1>2 DEF Deadline_Inv, Deadline_Books
            <4>2. o \in Address /\ s \in Address /\ to \in Address /\ n \in Int
                BY OwnerAndSpender DEF Allowances
            <4> QED BY <4>1, <4>2, BooksDrawn
        <3>n. now' = now /\ now \in Nat
            BY <1>2, <2>4 DEF Deadline_Inv, Deadline_Types, WriteAnd, Deadline_transfer_from, Draws
        <3>4. Deadline_Types' /\ Deadline_Books'
            BY <1>2, <3>n, <3>1, <3>2, <3>3 DEF Deadline_Types, Deadline_Books
        <3>5. GrantsAddUp'
            BY <3>4 DEF Deadline_Books, Books, GrantsAddUp
        <3>6. Deadline_Counted'
            BY <1>2, <3>1, <3>2 DEF Deadline_Inv, Deadline_Counted
        <3>7. [u \in Address |-> store.nonce'[u]] = store.nonce'
            BY <3>6 DEF Deadline_Counted
        <3> QED BY <3>4, <3>5, <3>6, <3>7 DEF Deadline_Inv, Deadline_PermitsInTime, Deadline_Counted
    <2>5. CASE (now = 0 /\ CloseLedger)
        <3>1. store' = store /\ past' = past /\ now' = now + 1
            BY <2>5 DEF CloseLedger
        <3> QED BY <1>2, <3>1 DEF Deadline_Inv, Deadline_Types, Deadline_Books, Deadline_Counted,
               Deadline_PermitsInTime, GrantsAddUp
    <2> QED BY <2>1, <2>2, <2>3, <2>4, <2>5
<1>3. Deadline_Inv /\ UNCHANGED vars => Deadline_Inv'
    BY DEF Deadline_Inv, Deadline_Types, Deadline_Books, Deadline_Counted,
       Deadline_PermitsInTime, vars, GrantsAddUp
<1> QED BY <1>1, <1>2, <1>3

-----------------------------------------------------------------------------
(* expired_delegation.                                                     *)
Delegation_Types ==
    /\ now \in Nat
    /\ store \in [admin : Address \cup {None}, delegate : Address \cup {None}, expiry : Int,
                  value : Int]
    /\ past \in [signer : Address \cup {None}]

Delegation_Inv == Delegation_Types

\* Every deployment is in Delegation_Inv; a call of the corrected contract, or
\* none, stays in it.
LEMMA Delegation_Correct ==
    /\ now = 0 /\ Delegation_Init => Delegation_Inv
    /\ Secure /\ Delegation_Inv /\ Delegation_Next => Delegation_Inv' /\ Delegation_Ends
    /\ Delegation_Inv /\ UNCHANGED vars => Delegation_Inv' /\ Delegation_Ends
<1>1. now = 0 /\ Delegation_Init => Delegation_Inv
    BY ContractAssumption DEF Delegation_Init, Delegation_Inv, Delegation_Types, Delegation_Init
<1>2. ASSUME Secure, Delegation_Inv, Delegation_Next PROVE Delegation_Inv' /\ Delegation_Ends
    <2>1. PICK u \in Address, d \in Address, n \in 0..1 :
              Delegation_initialize(u) \/ Delegation_delegate_admin(u, d, n) \/
              Delegation_set_value(u, n) \/ CloseLedger
        BY <1>2, Zenon DEF Delegation_Next, Lib, Secure
    <2>2. CASE Delegation_initialize(u)
        <3>1. /\ store' = [admin |-> u, delegate |-> store.delegate, expiry |-> store.expiry,
                           value |-> store.value]
              /\ past' = past
              /\ now' = now
              /\ store.admin = None
            BY <1>2, <2>2 DEF Delegation_initialize, Write, Delegation_Inv, Delegation_Types
        <3> QED BY <1>2, <3>1, ContractAssumption DEF Delegation_Inv, Delegation_Types,
               Delegation_Ends
    <2>3. CASE Delegation_delegate_admin(u, d, n)
        <3>1. /\ store' = [admin |-> store.admin, delegate |-> d, expiry |-> n,
                           value |-> store.value]
              /\ past' = past
              /\ now' = now
              /\ Delegation_require_admin(u)
            BY <1>2, <2>3 DEF Delegation_delegate_admin, Write, Delegation_Inv, Delegation_Types
        <3> QED BY <1>2, <3>1, ContractAssumption DEF Delegation_Inv, Delegation_Types,
               Delegation_require_admin, Delegation_Ends
    <2>4. CASE Delegation_set_value(u, n)
        <3>1. /\ store' = [admin |-> store.admin, delegate |-> store.delegate,
                           expiry |-> store.expiry, value |-> n]
              /\ past' = [signer |-> u]
              /\ now' = now
              /\ Delegation_require_admin_or_delegate(u)
            BY <1>2, <2>4 DEF Delegation_set_value, WriteAnd, Delegation_Inv, Delegation_Types
        <3> QED BY <1>2, <3>1, ContractAssumption DEF Delegation_Inv, Delegation_Types,
               Delegation_require_admin_or_delegate, Delegation_require_admin, Delegation_Ends
    <2>5. CASE CloseLedger
        <3>1. /\ store' = store
              /\ past' = past
              /\ now' = now + 1
            BY <1>2, <2>5 DEF CloseLedger, Delegation_Inv, Delegation_Types
        <3> QED BY <1>2, <3>1, ContractAssumption DEF Delegation_Inv, Delegation_Types,
               Delegation_Ends
    <2> QED BY <2>1, <2>2, <2>3, <2>4, <2>5
<1>3. Delegation_Inv /\ UNCHANGED vars => Delegation_Inv' /\ Delegation_Ends
    BY DEF Delegation_Inv, Delegation_Types, Delegation_Ends, vars
<1> QED BY <1>1, <1>2, <1>3

-----------------------------------------------------------------------------
(* replay_attack.                                                          *)
Replay_Types ==
    /\ store \in [count : [Payload -> Int], used : SUBSET Payload]
    /\ past \in [executed : Int]

\* A used payload ran once and no other ran.
Replay_UsedOnce ==
    /\ IsFiniteSet(store.used)
    /\ \A p \in Payload : store.count[p] = IF p \in store.used THEN 1 ELSE 0

Replay_Inv == Replay_Types /\ Replay_UsedOnce /\ Replay_ExecutedOnce

\* Every deployment is in Replay_Inv; a call of the corrected contract, or
\* none, stays in it.
LEMMA Replay_Correct ==
    /\ now = 0 /\ Replay_Init => Replay_Inv
    /\ Secure /\ Replay_Inv /\ Replay_Next => Replay_Inv'
    /\ Replay_Inv /\ UNCHANGED vars => Replay_Inv'
<1>1. now = 0 /\ Replay_Init => Replay_Inv
    BY ContractAssumption, FS_EmptySet DEF Replay_Init, Replay_Inv, Replay_Types,
       Replay_UsedOnce, Replay_ExecutedOnce, Replay_ExecutedOnce, Replay_exec_count, Replay_Init
<1>2. ASSUME Secure, Replay_Inv, Replay_Next PROVE Replay_Inv'
    <2>1. PICK p \in Payload, sig \in Payload : Replay_execute_signed(p, sig)
        BY <1>2, Zenon DEF Replay_Next, Lib, Secure
    <2>2. CASE Replay_execute_signed(p, sig)
        <3>0. /\ store = [count |-> store.count, used |-> store.used] /\
                 store.count \in [Payload -> Int]
              /\ store.used \in SUBSET Payload /\ IsFiniteSet(store.used) /\ past.executed \in Int
              /\ \A q \in Payload : store.count[q] = IF q \in store.used THEN 1 ELSE 0
              /\ past.executed = Cardinality(store.used)
            BY <1>2 DEF Replay_Inv, Replay_Types, Replay_UsedOnce, Replay_ExecutedOnce
        <3>1. PICK s : s = [store EXCEPT !.used = store.used \cup {p}]
            OBVIOUS
        <3>2. s = [count |-> store.count, used |-> store.used \cup {p}]
            BY <3>0, <3>1
        <3>3. p \notin store.used /\ past' = [executed |-> past.executed + 1] /\
                  store' = [s EXCEPT !.count[p] = s.count[p] + 1]
            BY <2>2, <3>1 DEF Replay_execute_signed, Replay_verify_signature, Replay_run, WriteAnd
        <3>a. PICK m : m = [store.count EXCEPT ![p] = store.count[p] + 1]
            OBVIOUS
        <3>4. store' = [count |-> m, used |-> store.used \cup {p}]
            <4>1. s.count = store.count
                BY <3>2
            <4>2. store' = [s EXCEPT !.count = m]
                BY <3>3, <3>a, <4>1
            <4> QED BY <3>2, <4>2
        <3>5. m \in [Payload -> Int] /\
                  \A q \in Payload : m[q] = IF q \in store.used \cup {p} THEN 1 ELSE 0
            BY <3>0, <3>3, <3>a
        <3>6. IsFiniteSet(store.used \cup {p}) /\
                  Cardinality(store.used \cup {p}) = Cardinality(store.used) + 1
            BY <3>0, <3>3, FS_AddElement
        <3>b. /\ store.count' = m /\ store.used' = store.used \cup {p} /\
                 past.executed' = past.executed + 1
              /\ store.used \cup {p} \in SUBSET Payload
            BY <3>0, <3>3, <3>4
        <3>e. past' = [executed |-> past.executed + 1] /\ past.executed + 1 \in Int
            BY <3>0, <3>3
        <3>7. Replay_Types'
            BY <3>4, <3>5, <3>b, <3>e DEF Replay_Types
        <3>c. Replay_UsedOnce'
            BY <3>5, <3>6, <3>b DEF Replay_UsedOnce
        <3>d. \A q \in Payload : m[q] <= 1
            BY <3>5
        <3>8. Replay_ExecutedOnce'
            BY <3>0, <3>6, <3>b, <3>d DEF Replay_ExecutedOnce, Replay_exec_count
        <3> QED BY <3>7, <3>8, <3>c DEF Replay_Inv
    <2> QED BY <2>1, <2>2
<1>3. Replay_Inv /\ UNCHANGED vars => Replay_Inv'
    BY DEF Replay_Inv, Replay_Types, Replay_UsedOnce, Replay_ExecutedOnce, vars,
       Replay_exec_count
<1> QED BY <1>1, <1>2, <1>3

-----------------------------------------------------------------------------
(* listing_price_signature_gap.                                            *)
Listing_Types ==
    /\ store = [owner |-> store.owner, balance |-> store.balance]
    /\ store.balance \in [Address -> Int]
    /\ past \in [signed : SUBSET Listing, funded : Int, unsigned : BOOLEAN]

\* The balances add up to what was funded.
Listing_AddsUp ==
    SumFunction(store.balance) = past.funded

Listing_Inv == Listing_Types /\ Listing_AddsUp /\ Listing_AtSignedPrice

\* Every deployment is in Listing_Inv; a call of the corrected contract, or
\* none, stays in it.
LEMMA Listing_Correct ==
    /\ now = 0 /\ Listing_Init => Listing_Inv
    /\ Secure /\ Listing_Inv /\ Listing_Next => Listing_Inv'
    /\ Listing_Inv /\ UNCHANGED vars => Listing_Inv'
<1>1. now = 0 /\ Listing_Init => Listing_Inv
    BY ContractAssumption, ZeroSum, SoloAccount DEF Listing_Init, Listing_Inv, Listing_Types,
       Listing_AddsUp, Listing_AtSignedPrice, Listing_AtSignedPrice, Listing_balance_of,
       Listing_Init
<1>2. ASSUME Secure, Listing_Inv, Listing_Next PROVE Listing_Inv'
    <2>1. PICK u \in Address, n \in -1..2, l \in Listing :
              Listing_sign(l) \/ Listing_mint(u) \/ Listing_fund(u, n) \/
              Listing_fill_listing(u, l) \/ (now = 0 /\ CloseLedger)
        BY <1>2, Zenon DEF Listing_Next, Lib, Secure
    <2>2. CASE Listing_sign(l)
        <3>1. /\ store' = store
              /\ past' = [signed |-> {l}, funded |-> past.funded, unsigned |-> past.unsigned]
              /\ past.signed = {}
            BY <1>2, <2>2 DEF Listing_sign, Observe, Listing_Inv, Listing_Types, Added, Taken
        <3> QED BY <1>2, <3>1, ContractAssumption, ZeroSum, SoloAccount DEF Listing_Inv,
               Listing_Types, Listing_AddsUp, Listing_AtSignedPrice, Listing_balance_of
    <2>3. CASE Listing_mint(u)
        <3>1. /\ store' = [owner |-> u, balance |-> store.balance]
              /\ past' = past
            BY <1>2, <2>3 DEF Listing_mint, Write, Listing_Inv, Listing_Types, Added, Taken
        <3> QED BY <1>2, <3>1, ContractAssumption, ZeroSum, SoloAccount DEF Listing_Inv,
               Listing_Types, Listing_AddsUp, Listing_AtSignedPrice, Listing_balance_of
    <2>4. CASE Listing_fund(u, n)
        <3>1. /\ store' = [owner |-> store.owner, balance |-> Added(store.balance, u, n)]
              /\ past' = [signed |-> past.signed, funded |-> past.funded + n,
                          unsigned |-> past.unsigned]
              /\ store.balance[u] + n \in -1..MaxAllowed
            BY <1>2, <2>4 DEF Listing_fund, WriteAnd, Listing_Inv, Listing_Types, Added, Taken
        <3>s1. /\ Added(store.balance, u, n) \in [Address -> Int]
               /\ SumFunction(Added(store.balance, u, n)) = SumFunction(store.balance) + n /\
                  SumFunction(store.balance) \in Int
               /\ \A v \in Address :
                  Added(store.balance, u, n)[v] = store.balance[v] + (IF v = u THEN n ELSE 0)
            <4>1. store.balance \in [Address -> Int] /\ u \in Address /\ n \in Int
                BY <1>2, <3>1, ContractAssumption, ZeroSum, SoloAccount DEF Listing_Inv,
                   Listing_Types
            <4> QED BY <4>1, AddedTo
        <3> QED BY <1>2, <3>1, <3>s1, ContractAssumption, ZeroSum, SoloAccount DEF Listing_Inv,
               Listing_Types, Listing_AddsUp, Listing_AtSignedPrice, Listing_balance_of,
               MaxAllowed
    <2>5. CASE Listing_fill_listing(u, l)
        <3>0. /\ l.seller \in Address /\ l.price \in Int /\
                 store = [owner |-> store.owner, balance |-> store.balance]
              /\ past = [signed |-> past.signed, funded |-> past.funded, unsigned |-> past.unsigned]
              /\ store.balance \in [Address -> Int] /\ past.unsigned = FALSE /\ l \in past.signed
            BY <1>2, <2>5, SoloAccount
               DEF Listing_fill_listing, Listing_secure_listing_digest, Listing, Listing_Inv,
               Listing_Types, Listing_AtSignedPrice
        <3>1. store' = [owner |-> u,
                        balance |-> Added(Taken(store.balance, u, l.price), l.seller, l.price)]
            BY <2>5 DEF Listing_fill_listing, Listing_sale, WriteAnd, Added, Taken
        <3>2. past' = past
            <4>1. \E m \in past.signed : m.seller = l.seller /\ m.price = l.price /\ now <= m.expiry
                BY <2>5, <3>0 DEF Listing_fill_listing
            <4>2. past' = [past EXCEPT !.unsigned = FALSE]
                BY <2>5, <3>0, <4>1 DEF Listing_fill_listing, Listing_sale, WriteAnd
            <4> QED BY <3>0, <4>2
        <3>3. /\ Taken(store.balance, u, l.price) \in [Address -> Int] /\
                 SumFunction(store.balance) \in Int
              /\ SumFunction(Taken(store.balance, u, l.price)) =
                 SumFunction(store.balance) - l.price
            BY <3>0, TakenFrom
        <3>4. /\ Added(Taken(store.balance, u, l.price), l.seller, l.price) \in [Address -> Int]
              /\ SumFunction(Added(Taken(store.balance, u, l.price), l.seller, l.price)) =
                     SumFunction(Taken(store.balance, u, l.price)) + l.price
            BY <3>0, <3>3, AddedTo, ZenonT(60)
        <3>5. SumFunction(store.balance') = SumFunction(store.balance)
            BY <3>0, <3>1, <3>3, <3>4
        <3>6. Listing_Types' /\ Listing_AddsUp'
            BY <1>2, <3>1, <3>2, <3>4, <3>5 DEF Listing_Inv, Listing_Types, Listing_AddsUp
        <3>7. [v \in Address |-> store.balance'[v]] = store.balance'
            BY <3>6 DEF Listing_Types
        <3> QED BY <3>0, <3>2, <3>6, <3>7
               DEF Listing_Inv, Listing_AddsUp, Listing_AtSignedPrice, Listing_balance_of
    <2>6. CASE (now = 0 /\ CloseLedger)
        <3>1. /\ store' = store
              /\ past' = past
              /\ now = 0
            BY <1>2, <2>6 DEF CloseLedger, Listing_Inv, Listing_Types, Added, Taken
        <3> QED BY <1>2, <3>1, ContractAssumption, ZeroSum, SoloAccount DEF Listing_Inv,
               Listing_Types, Listing_AddsUp, Listing_AtSignedPrice, Listing_balance_of
    <2> QED BY <2>1, <2>2, <2>3, <2>4, <2>5, <2>6
<1>3. Listing_Inv /\ UNCHANGED vars => Listing_Inv'
    BY DEF Listing_Inv, Listing_Types, Listing_AddsUp, Listing_AtSignedPrice, vars,
       Listing_balance_of
<1> QED BY <1>1, <1>2, <1>3


-----------------------------------------------------------------------------
(* stale_pending_admin.                                                    *)
Pending_Types ==
    /\ store = [admin |-> store.admin, pending |-> store.pending,
                pending_nonce |-> store.pending_nonce, nonce |-> store.nonce]
    /\ store.nonce \in Int
    /\ past = [offer |-> past.offer, accepted |-> past.accepted]

\* A pending admin holds the offer that stands.
Pending_IsOffered ==
    store.pending # None => store.pending = past.offer

Pending_Inv == Pending_Types /\ Pending_IsOffered /\ Pending_OfferStands

\* Every deployment is in Pending_Inv; a call of the corrected contract, or
\* none, stays in it.
LEMMA Pending_Correct ==
    /\ now = 0 /\ Pending_Init => Pending_Inv
    /\ Secure /\ Pending_Inv /\ Pending_Next => Pending_Inv'
    /\ Pending_Inv /\ UNCHANGED vars => Pending_Inv'
<1>1. now = 0 /\ Pending_Init => Pending_Inv
    BY ContractAssumption DEF Pending_Init, Pending_Inv, Pending_Types, Pending_IsOffered,
       Pending_OfferStands, Pending_OfferStands, MaxOffers, Pending_Init
<1>2. ASSUME Secure, Pending_Inv, Pending_Next PROVE Pending_Inv'
    <2>1. PICK u \in Address, nonce \in 0..MaxOffers :
              Pending_initialize(u) \/ Pending_propose_admin(u) \/ Pending_cancel_admin_transfer \/
              Pending_accept_admin(nonce)
        BY <1>2, Zenon DEF Pending_Next, Lib, Secure
    <2>2. CASE Pending_initialize(u)
        <3>1. /\ store' = [admin |-> u, pending |-> store.pending,
                           pending_nonce |-> store.pending_nonce, nonce |-> 0]
              /\ past' = past
              /\ store.admin = None
            BY <1>2, <2>2 DEF Pending_initialize, Write, Pending_Inv, Pending_Types
        <3> QED BY <1>2, <3>1, ContractAssumption DEF Pending_Inv, Pending_Types,
               Pending_IsOffered, Pending_OfferStands, MaxOffers
    <2>3. CASE Pending_propose_admin(u)
        <3>1. /\ store' = [admin |-> store.admin, pending |-> u, pending_nonce |-> store.nonce + 1,
                           nonce |-> store.nonce + 1]
              /\ past' = [offer |-> u, accepted |-> past.accepted]
              /\ Pending_get_admin # None
              /\ store.nonce < MaxOffers
            BY <1>2, <2>3 DEF Pending_propose_admin, WriteAnd, Pending_Inv, Pending_Types
        <3> QED BY <1>2, <3>1, ContractAssumption DEF Pending_Inv, Pending_Types,
               Pending_IsOffered, Pending_OfferStands, MaxOffers, Pending_get_admin
    <2>4. CASE Pending_cancel_admin_transfer
        <3>1. /\ store' = [admin |-> store.admin, pending |-> None, pending_nonce |-> None,
                           nonce |-> store.nonce]
              /\ past' = [offer |-> None, accepted |-> past.accepted]
              /\ Pending_get_admin # None
            BY <1>2, <2>4 DEF Pending_cancel_admin_transfer, WriteAnd, Pending_Inv,
               Pending_Types
        <3> QED BY <1>2, <3>1, ContractAssumption DEF Pending_Inv, Pending_Types,
               Pending_IsOffered, Pending_OfferStands, MaxOffers, Pending_get_admin
    <2>5. CASE Pending_accept_admin(nonce)
        <3>1. /\ store' = [admin |-> store.pending, pending |-> None, pending_nonce |-> None,
                           nonce |-> store.nonce]
              /\ past' = [offer |-> None,
                          accepted |-> [by |-> store.pending, offered |-> past.offer]]
              /\ Pending_get_pending_admin # None
              /\ nonce = store.pending_nonce
            BY <1>2, <2>5 DEF Pending_accept_admin, Pending_take, WriteAnd, Pending_Inv,
               Pending_Types
        <3> QED BY <1>2, <3>1, ContractAssumption DEF Pending_Inv, Pending_Types,
               Pending_IsOffered, Pending_OfferStands, MaxOffers, Pending_get_pending_admin
    <2> QED BY <2>1, <2>2, <2>3, <2>4, <2>5
<1>3. Pending_Inv /\ UNCHANGED vars => Pending_Inv'
    BY DEF Pending_Inv, Pending_Types, Pending_IsOffered, Pending_OfferStands, vars
<1> QED BY <1>1, <1>2, <1>3

-----------------------------------------------------------------------------
(* accept_admin_missing_auth.                                              *)
Accept_Types ==
    /\ store = [admin |-> store.admin, pending |-> store.pending]
    /\ past = [took |-> past.took]

Accept_Inv == Accept_Types /\ Accept_AdminConsents

\* Every deployment is in Accept_Inv; a call of the corrected contract, or
\* none, stays in it.
LEMMA Accept_Correct ==
    /\ now = 0 /\ Accept_Init => Accept_Inv
    /\ Secure /\ Accept_Inv /\ Accept_Next => Accept_Inv'
    /\ Accept_Inv /\ UNCHANGED vars => Accept_Inv'
<1>1. now = 0 /\ Accept_Init => Accept_Inv
    BY ContractAssumption DEF Accept_Init, Accept_Inv, Accept_Types, Accept_AdminConsents,
       Accept_AdminConsents, Accept_Init
<1>2. ASSUME Secure, Accept_Inv, Accept_Next PROVE Accept_Inv'
    <2>1. PICK u \in Address :
              Accept_initialize(u) \/ Accept_propose_admin(u) \/ Accept_cancel_admin_transfer \/
              Accept_accept_admin(u)
        BY <1>2, Zenon DEF Accept_Next, Lib, Secure
    <2>2. CASE Accept_initialize(u)
        <3>1. /\ store' = [admin |-> u, pending |-> store.pending]
              /\ past' = past
              /\ store.admin = None
            BY <1>2, <2>2 DEF Accept_initialize, Write, Accept_Inv, Accept_Types
        <3> QED BY <1>2, <3>1, ContractAssumption DEF Accept_Inv, Accept_Types,
               Accept_AdminConsents
    <2>3. CASE Accept_propose_admin(u)
        <3>1. /\ store' = [admin |-> store.admin, pending |-> u]
              /\ past' = past
              /\ Accept_get_admin # None
            BY <1>2, <2>3 DEF Accept_propose_admin, Write, Accept_Inv, Accept_Types
        <3> QED BY <1>2, <3>1, ContractAssumption DEF Accept_Inv, Accept_Types,
               Accept_AdminConsents, Accept_get_admin
    <2>4. CASE Accept_cancel_admin_transfer
        <3>1. /\ store' = [admin |-> store.admin, pending |-> None]
              /\ past' = past
              /\ Accept_get_admin # None
            BY <1>2, <2>4 DEF Accept_cancel_admin_transfer, Write, Accept_Inv, Accept_Types
        <3> QED BY <1>2, <3>1, ContractAssumption DEF Accept_Inv, Accept_Types,
               Accept_AdminConsents, Accept_get_admin
    <2>5. CASE Accept_accept_admin(u)
        <3>1. /\ store' = [admin |-> store.pending, pending |-> None]
              /\ past' = [took |-> [signer |-> u, admin |-> store.pending]]
              /\ u = Accept_get_pending_admin
              /\ Accept_get_pending_admin # None
            BY <1>2, <2>5 DEF Accept_accept_admin, Accept_accept_admin_lib, WriteAnd,
               Accept_Inv, Accept_Types
        <3> QED BY <1>2, <3>1, ContractAssumption DEF Accept_Inv, Accept_Types,
               Accept_AdminConsents, Accept_get_pending_admin
    <2> QED BY <2>1, <2>2, <2>3, <2>4, <2>5
<1>3. Accept_Inv /\ UNCHANGED vars => Accept_Inv'
    BY DEF Accept_Inv, Accept_Types, Accept_AdminConsents, vars
<1> QED BY <1>1, <1>2, <1>3

-----------------------------------------------------------------------------
(* public_role_grant.                                                      *)
Role_Types ==
    /\ store = [admin |-> store.admin, operators |-> store.operators]
    /\ store.operators \in SUBSET Address
    /\ past \in [granted : SUBSET Address, acted : SUBSET Address]

Role_Inv == Role_Types /\ Role_OperatorsAreGranted

\* Every deployment is in Role_Inv; a call of the corrected contract, or none,
\* stays in it.
LEMMA Role_Correct ==
    /\ now = 0 /\ Role_Init => Role_Inv
    /\ Secure /\ Role_Inv /\ Role_Next => Role_Inv'
    /\ Role_Inv /\ UNCHANGED vars => Role_Inv'
<1>1. now = 0 /\ Role_Init => Role_Inv
    BY ContractAssumption DEF Role_Init, Role_Inv, Role_Types, Role_OperatorsAreGranted,
       Role_OperatorsAreGranted, Role_is_operator, Role_Init
<1>2. ASSUME Secure, Role_Inv, Role_Next PROVE Role_Inv'
    <2>1. PICK signer \in Address, u \in Address, n \in {-1, 1} :
              Role_operator_only_action(u) \/ Role_initialize(u) \/
              Role_grant_operator(signer, u, n) \/ Role_revoke_operator(signer, u)
        BY <1>2, Zenon DEF Role_Next, Lib, Secure
    <2>2. CASE Role_operator_only_action(u)
        <3>1. /\ store' = store
              /\ past' = [granted |-> past.granted, acted |-> past.acted \union {u}]
              /\ Role_is_operator(u)
            BY <1>2, <2>2 DEF Role_operator_only_action, Observe, Role_Inv, Role_Types
        <3> QED BY <1>2, <3>1, ContractAssumption DEF Role_Inv, Role_Types,
               Role_OperatorsAreGranted, Role_is_operator
    <2>3. CASE Role_initialize(u)
        <3>1. /\ store' = [admin |-> u, operators |-> store.operators]
              /\ past' = past
              /\ store.admin = None
            BY <1>2, <2>3 DEF Role_initialize, Write, Role_Inv, Role_Types
        <3> QED BY <1>2, <3>1, ContractAssumption DEF Role_Inv, Role_Types,
               Role_OperatorsAreGranted, Role_is_operator
    <2>4. CASE Role_grant_operator(signer, u, n)
        <3>1. /\ store' = [admin |-> store.admin, operators |-> store.operators \union {u}]
              /\ past' = [granted |-> IF signer = Role_get_admin_lib THEN past.granted \union {u}
                          ELSE past.granted,
                          acted |-> past.acted]
              /\ n >= 0
              /\ Role_admin_of # None
              /\ signer = Role_admin_of
            BY <1>2, <2>4 DEF Role_grant_operator, Role_grant_operator_lib, WriteAnd, Role_Inv,
               Role_Types
        <3> QED BY <1>2, <3>1, ContractAssumption DEF Role_Inv, Role_Types,
               Role_OperatorsAreGranted, Role_is_operator, Role_get_admin_lib, Role_admin_of
    <2>5. CASE Role_revoke_operator(signer, u)
        <3>1. /\ store' = [admin |-> store.admin, operators |-> store.operators \ {u}]
              /\ past' = [granted |-> past.granted \ {u}, acted |-> past.acted]
              /\ Role_admin_of # None
              /\ signer = Role_admin_of
            BY <1>2, <2>5 DEF Role_revoke_operator, WriteAnd, Role_Inv, Role_Types
        <3> QED BY <1>2, <3>1, ContractAssumption DEF Role_Inv, Role_Types,
               Role_OperatorsAreGranted, Role_is_operator, Role_admin_of
    <2> QED BY <2>1, <2>2, <2>3, <2>4, <2>5
<1>3. Role_Inv /\ UNCHANGED vars => Role_Inv'
    BY DEF Role_Inv, Role_Types, Role_OperatorsAreGranted, vars, Role_is_operator
<1> QED BY <1>1, <1>2, <1>3

-----------------------------------------------------------------------------
(* operator_role_not_enforced.                                             *)
Enforce_Types ==
    /\ store \in [operator : Address \cup {None}, balance : Int]
    /\ past \in [deposited : Int, taken : [Address -> Int]]

Enforce_Inv == Enforce_Types /\ Enforce_OnlyTheOperatorTakes

\* Every deployment is in Enforce_Inv; a call of the corrected contract, or
\* none, stays in it.
LEMMA Enforce_Correct ==
    /\ now = 0 /\ Enforce_Init => Enforce_Inv
    /\ Secure /\ Enforce_Inv /\ Enforce_Next => Enforce_Inv'
    /\ Enforce_Inv /\ UNCHANGED vars => Enforce_Inv'
<1>1. ASSUME now = 0, Enforce_Init PROVE Enforce_Inv
    <2>1. Enforce_Types
        BY <1>1, ContractAssumption, ZeroSum DEF Enforce_Init, Enforce_Types, Zero,
           Enforce_OnlyTheOperatorTakes, Enforce_operator, Enforce_balance
    <2>2. Enforce_OnlyTheOperatorTakes
        BY <1>1, ContractAssumption, ZeroSum DEF Enforce_Init, Enforce_OnlyTheOperatorTakes,
           Zero, Enforce_operator, Enforce_balance
    <2> QED BY <2>1, <2>2 DEF Enforce_Inv
<1>2. ASSUME Secure, Enforce_Inv, Enforce_Next PROVE Enforce_Inv'
    <2>1. PICK u \in Address, n \in {-1, 1, 2} :
              Enforce_init(u) \/ Enforce_deposit(n) \/ Enforce_emergency_withdraw(u, n)
        BY <1>2, Zenon DEF Enforce_Next, Lib, Secure
    <2>2. CASE Enforce_init(u)
        <3>1. /\ store' = [operator |-> u, balance |-> store.balance]
              /\ past' = past
              /\ store.operator = None
            BY <1>2, <2>2 DEF Enforce_init, Write, Enforce_Inv, Enforce_Types, Added, Taken
        <3> QED BY <1>2, <3>1, ContractAssumption, ZeroSum DEF Enforce_Inv, Enforce_Types,
               Enforce_OnlyTheOperatorTakes, Enforce_operator, Enforce_balance
    <2>3. CASE Enforce_deposit(n)
        <3>1. /\ store' = [operator |-> store.operator, balance |-> store.balance + n]
              /\ past' = [deposited |-> past.deposited + n, taken |-> past.taken]
              /\ store.balance + n \in AdminFunds
              /\ past.deposited + n \in AdminFunds
            BY <1>2, <2>3 DEF Enforce_deposit, WriteAnd, Enforce_Inv, Enforce_Types, Added,
               Taken
        <3>2. Enforce_Types'
            BY <1>2, <3>1, ContractAssumption, ZeroSum DEF Enforce_Inv, Enforce_Types,
               AdminFunds
        <3>3. Enforce_OnlyTheOperatorTakes'
            <4>1. SumFunction(past.taken) \in Int
                BY <1>2, SumInt, AccountsAssumption DEF Enforce_Inv, Enforce_Types
            <4> QED BY <1>2, <3>1, <4>1
                   DEF Enforce_Inv, Enforce_Types, Enforce_OnlyTheOperatorTakes, Enforce_balance,
                   Enforce_operator
        <3> QED BY <3>2, <3>3 DEF Enforce_Inv
    <2>4. CASE Enforce_emergency_withdraw(u, n)
        <3>1. /\ store' = [operator |-> store.operator, balance |-> store.balance - n]
              /\ past' = [deposited |-> past.deposited, taken |-> Added(past.taken, u, n)]
              /\ u = Enforce_operator
              /\ Enforce_operator # None
              /\ Enforce_balance >= n
              /\ Enforce_balance - n \in AdminFunds
              /\ past.taken[u] + n \in AdminFunds
            BY <1>2, <2>4 DEF Enforce_emergency_withdraw, Enforce_emergency_withdraw_lib,
               WriteAnd, Enforce_Inv, Enforce_Types, Added, Taken
        <3>s1. /\ Added(past.taken, u, n) \in [Address -> Int]
               /\ SumFunction(Added(past.taken, u, n)) = SumFunction(past.taken) + n /\
                  SumFunction(past.taken) \in Int
               /\ \A v \in Address :
                  Added(past.taken, u, n)[v] = past.taken[v] + (IF v = u THEN n ELSE 0)
            <4>1. past.taken \in [Address -> Int] /\ u \in Address /\ n \in Int
                BY <1>2, <3>1, ContractAssumption, ZeroSum DEF Enforce_Inv, Enforce_Types
            <4>2. /\ Added(past.taken, u, n) \in [Address -> Int] /\ SumFunction(past.taken) \in Int
                  /\ SumFunction(Added(past.taken, u, n)) = SumFunction(past.taken) + n
                  /\ \A v \in Address :
                     Added(past.taken, u, n)[v] = past.taken[v] + (IF v = u THEN n ELSE 0)
                BY <4>1, AddedTo, ZenonT(60)
            <4> QED BY <4>2, Zenon
        <3> QED BY <1>2, <3>1, <3>s1, ContractAssumption, ZeroSum DEF Enforce_Inv,
               Enforce_Types, Enforce_OnlyTheOperatorTakes, Enforce_operator, Enforce_balance,
               AdminFunds
    <2> QED BY <2>1, <2>2, <2>3, <2>4
<1>3. Enforce_Inv /\ UNCHANGED vars => Enforce_Inv'
    BY DEF Enforce_Inv, Enforce_Types, Enforce_OnlyTheOperatorTakes, vars, Enforce_operator,
       Enforce_balance
<1> QED BY <1>1, <1>2, <1>3

-----------------------------------------------------------------------------
(* unvalidated_plugin_call.                                                *)
Plugin_Types ==
    /\ store = [admin |-> store.admin, approved |-> store.approved, call_count |-> store.call_count,
                last_plugin |-> store.last_plugin, execute_count |-> store.execute_count]
    /\ store.approved \in SUBSET Plugins
    /\ store.call_count \in Int
    /\ store.execute_count \in Int
    /\ past \in [ran : SUBSET Plugins]

Plugin_Inv == Plugin_Types /\ Plugin_RanWereApproved

\* Every deployment is in Plugin_Inv; a call of the corrected contract, or
\* none, stays in it.
LEMMA Plugin_Correct ==
    /\ now = 0 /\ Plugin_Init => Plugin_Inv
    /\ Secure /\ Plugin_Inv /\ Plugin_Next => Plugin_Inv'
    /\ Plugin_Inv /\ UNCHANGED vars => Plugin_Inv'
<1>1. now = 0 /\ Plugin_Init => Plugin_Inv
    BY ContractAssumption DEF Plugin_Init, Plugin_Inv, Plugin_Types, Plugin_RanWereApproved,
       Plugin_RanWereApproved, Plugin_execute_count, Plugin_call_count, Plugins, Plugin_Init
<1>2. ASSUME Secure, Plugin_Inv, Plugin_Next PROVE Plugin_Inv'
    <2>1. PICK signer \in Address, p \in Plugins :
              Plugin_init(signer) \/ Plugin_approve_plugin(signer, p) \/ Plugin_dispatch(p)
        BY <1>2, Zenon DEF Plugin_Next, Lib, Secure
    <2>2. CASE Plugin_init(signer)
        <3>1. /\ store' = [admin |-> signer, approved |-> store.approved,
                           call_count |-> store.call_count, last_plugin |-> store.last_plugin,
                           execute_count |-> store.execute_count]
              /\ past' = past
              /\ store.admin = None
            BY <1>2, <2>2 DEF Plugin_init, Write, Plugin_Inv, Plugin_Types
        <3> QED BY <1>2, <3>1, ContractAssumption DEF Plugin_Inv, Plugin_Types,
               Plugin_RanWereApproved, Plugin_execute_count, Plugin_call_count, Plugins
    <2>3. CASE Plugin_approve_plugin(signer, p)
        <3>1. /\ store' = [admin |-> store.admin, approved |-> store.approved \union {p},
                           call_count |-> store.call_count, last_plugin |-> store.last_plugin,
                           execute_count |-> store.execute_count]
              /\ past' = past
              /\ store.admin # None
              /\ signer = store.admin
            BY <1>2, <2>3 DEF Plugin_approve_plugin, Write, Plugin_Inv, Plugin_Types
        <3> QED BY <1>2, <3>1, ContractAssumption DEF Plugin_Inv, Plugin_Types,
               Plugin_RanWereApproved, Plugin_execute_count, Plugin_call_count, Plugins
    <2>4. CASE Plugin_dispatch(p)
        <3>1. /\ store' = [admin |-> store.admin, approved |-> store.approved,
                           call_count |-> store.call_count + 1, last_plugin |-> None,
                           execute_count |-> Plugin_execute(p)]
              /\ past' = [ran |-> past.ran \union {p}]
              /\ p \in store.approved
              /\ store.call_count < 3
            BY <1>2, <2>4 DEF Plugin_dispatch, Plugin_run, WriteAnd, Plugin_Inv, Plugin_Types
        <3> QED BY <1>2, <3>1, ContractAssumption DEF Plugin_Inv, Plugin_Types,
               Plugin_RanWereApproved, Plugin_execute_count, Plugin_call_count, Plugins,
               Plugin_execute
    <2> QED BY <2>1, <2>2, <2>3, <2>4
<1>3. Plugin_Inv /\ UNCHANGED vars => Plugin_Inv'
    BY DEF Plugin_Inv, Plugin_Types, Plugin_RanWereApproved, vars, Plugin_execute_count,
       Plugin_call_count
<1> QED BY <1>1, <1>2, <1>3

-----------------------------------------------------------------------------
(* unchecked_fee_collector.                                                *)
Collector_Types ==
    /\ store = [admin |-> store.admin, collector |-> store.collector, fees |-> store.fees,
                approved |-> store.approved]
    /\ store.collector \in Address \cup {None}
    /\ store.approved \in SUBSET Address
    /\ past = [signed |-> past.signed, paid |-> past.paid]
    /\ past.signed \in SUBSET Address

\* Each approved collector was signed for.
Collector_ApprovedIsSigned ==
    store.approved \subseteq past.signed

Collector_Inv == Collector_Types /\ Collector_ApprovedIsSigned /\ Collector_IsApproved

\* Every deployment is in Collector_Inv; a call of the corrected contract, or
\* none, stays in it.
LEMMA Collector_Correct ==
    /\ now = 0 /\ Collector_Init => Collector_Inv
    /\ Secure /\ Collector_Inv /\ Collector_Next => Collector_Inv'
    /\ Collector_Inv /\ UNCHANGED vars => Collector_Inv'
<1>1. now = 0 /\ Collector_Init => Collector_Inv
    BY ContractAssumption DEF Collector_Init, Collector_Inv, Collector_Types,
       Collector_ApprovedIsSigned, Collector_IsApproved, Collector_IsApproved, Collector_Init
<1>2. ASSUME Secure, Collector_Inv, Collector_Next PROVE Collector_Inv'
    <2>1. PICK u \in Address, signer \in Address, fee \in 0..1 :
              Collector_initialize(u) \/ Collector_set_collector(u, signer) \/
              Collector_add_approved(u, signer) \/ Collector_collect_fee(fee)
        BY <1>2, Zenon DEF Collector_Next, Lib, Secure
    <2>2. CASE Collector_initialize(u)
        <3>1. /\ store' = [admin |-> u, collector |-> store.collector, fees |-> 0,
                           approved |-> store.approved]
              /\ past' = past
              /\ store.admin = None
            BY <1>2, <2>2 DEF Collector_initialize, Write, Collector_Inv, Collector_Types
        <3> QED BY <1>2, <3>1, ContractAssumption DEF Collector_Inv, Collector_Types,
               Collector_ApprovedIsSigned, Collector_IsApproved
    <2>3. CASE Collector_set_collector(u, signer)
        <3>1. /\ store' = [admin |-> store.admin, collector |-> u, fees |-> store.fees,
                           approved |-> store.approved]
              /\ past' = past
              /\ Collector_get_admin # None
              /\ signer = Collector_get_admin
              /\ u \in store.approved
            BY <1>2, <2>3 DEF Collector_set_collector, Collector_set_collector_lib, Write,
               Collector_Inv, Collector_Types
        <3> QED BY <1>2, <3>1, ContractAssumption DEF Collector_Inv, Collector_Types,
               Collector_ApprovedIsSigned, Collector_IsApproved, Collector_get_admin
    <2>4. CASE Collector_add_approved(u, signer)
        <3>1. /\ store' = [admin |-> store.admin, collector |-> store.collector,
                           fees |-> store.fees, approved |-> store.approved \cup {u}]
              /\ past' = [signed |-> past.signed \cup {u}, paid |-> past.paid]
              /\ Collector_get_admin # None
              /\ signer = Collector_get_admin
            BY <1>2, <2>4 DEF Collector_add_approved, WriteAnd, Collector_Inv, Collector_Types
        <3> QED BY <1>2, <3>1, ContractAssumption DEF Collector_Inv, Collector_Types,
               Collector_ApprovedIsSigned, Collector_IsApproved, Collector_get_admin
    <2>5. CASE Collector_collect_fee(fee)
        <3>1. /\ store' = [admin |-> store.admin, collector |-> store.collector,
                           fees |-> store.fees + fee, approved |-> store.approved]
              /\ past' = past
              /\ store.fees + fee \in AdminFunds
            BY <1>2, <2>5 DEF Collector_collect_fee, Write, Collector_Inv, Collector_Types
        <3> QED BY <1>2, <3>1, ContractAssumption DEF Collector_Inv, Collector_Types,
               Collector_ApprovedIsSigned, Collector_IsApproved, AdminFunds
    <2> QED BY <2>1, <2>2, <2>3, <2>4, <2>5
<1>3. Collector_Inv /\ UNCHANGED vars => Collector_Inv'
    BY DEF Collector_Inv, Collector_Types, Collector_ApprovedIsSigned, Collector_IsApproved,
       vars
<1> QED BY <1>1, <1>2, <1>3

-----------------------------------------------------------------------------
(* public_token_sweep.                                                     *)
Sweep_Types ==
    /\ store = [admin |-> store.admin, balance |-> store.balance]
    /\ store.admin \in Address \cup {None}
    /\ past \in [signers : SUBSET Address]

\* Nothing is swept before there is an admin.
Sweep_NoAdminNoSweep ==
    store.admin = None => past.signers = {}

Sweep_Inv == Sweep_Types /\ Sweep_NoAdminNoSweep /\ Sweep_ByTheAdmin

\* Every deployment is in Sweep_Inv; a call of the corrected contract, or none,
\* stays in it.
LEMMA Sweep_Correct ==
    /\ now = 0 /\ Sweep_Init => Sweep_Inv
    /\ Secure /\ Sweep_Inv /\ Sweep_Next => Sweep_Inv'
    /\ Sweep_Inv /\ UNCHANGED vars => Sweep_Inv'
<1>1. now = 0 /\ Sweep_Init => Sweep_Inv
    BY ContractAssumption DEF Sweep_Init, Sweep_Inv, Sweep_Types, Sweep_NoAdminNoSweep,
       Sweep_ByTheAdmin, Sweep_ByTheAdmin, Sweep_Init, Zero
<1>2. ASSUME Secure, Sweep_Inv, Sweep_Next PROVE Sweep_Inv'
    <2>1. PICK u \in Address, signer \in Address, token \in Address, amount \in {-1, 1} :
              Sweep_initialize(u) \/ Sweep_deposit(token, amount) \/
              Sweep_sweep_tokens(token, amount, signer)
        BY <1>2, Zenon DEF Sweep_Next, Lib, Secure
    <2>2. CASE Sweep_initialize(u)
        <3>1. /\ store' = [admin |-> u, balance |-> store.balance]
              /\ past' = past
              /\ store.admin = None
            BY <1>2, <2>2 DEF Sweep_initialize, Write, Sweep_Inv, Sweep_Types
        <3> QED BY <1>2, <3>1, ContractAssumption DEF Sweep_Inv, Sweep_Types,
               Sweep_NoAdminNoSweep, Sweep_ByTheAdmin
    <2>3. CASE Sweep_deposit(token, amount)
        <3>1. /\ store' = [admin |-> store.admin,
                           balance |-> [store.balance EXCEPT ![token] = @ + amount]]
              /\ past' = past
              /\ store.balance[token] + amount \in AdminFunds
            BY <1>2, <2>3 DEF Sweep_deposit, Write, Sweep_Inv, Sweep_Types
        <3> QED BY <1>2, <3>1, ContractAssumption DEF Sweep_Inv, Sweep_Types,
               Sweep_NoAdminNoSweep, Sweep_ByTheAdmin, AdminFunds
    <2>4. CASE Sweep_sweep_tokens(token, amount, signer)
        <3>1. /\ store' = [admin |-> store.admin,
                           balance |-> [store.balance EXCEPT ![token] = @ - amount]]
              /\ past' = [signers |-> past.signers \cup {signer}]
              /\ Sweep_get_admin # None
              /\ signer = Sweep_get_admin
              /\ Sweep_get_token_balance(token) >= amount
              /\ store.balance[token] - amount \in AdminFunds
            BY <1>2, <2>4 DEF Sweep_sweep_tokens, Sweep_sweep_tokens_lib, WriteAnd, Sweep_Inv,
               Sweep_Types
        <3> QED BY <1>2, <3>1, ContractAssumption DEF Sweep_Inv, Sweep_Types,
               Sweep_NoAdminNoSweep, Sweep_ByTheAdmin, Sweep_get_admin, Sweep_get_token_balance,
               AdminFunds
    <2> QED BY <2>1, <2>2, <2>3, <2>4
<1>3. Sweep_Inv /\ UNCHANGED vars => Sweep_Inv'
    BY DEF Sweep_Inv, Sweep_Types, Sweep_NoAdminNoSweep, Sweep_ByTheAdmin, vars
<1> QED BY <1>1, <1>2, <1>3

-----------------------------------------------------------------------------
(* admin_rugpull.                                                          *)
Rug_Types ==
    /\ store = [admin |-> store.admin, balance |-> store.balance]
    /\ past = [taken |-> past.taken]

Rug_Inv == Rug_Types /\ Rug_NothingTaken

\* Every deployment is in Rug_Inv; a call of the corrected contract, or none,
\* stays in it.
LEMMA Rug_Correct ==
    /\ now = 0 /\ Rug_Init => Rug_Inv
    /\ Secure /\ Rug_Inv /\ Rug_Next => Rug_Inv'
    /\ Rug_Inv /\ UNCHANGED vars => Rug_Inv'
<1>1. now = 0 /\ Rug_Init => Rug_Inv
    BY ContractAssumption DEF Rug_Init, Rug_Inv, Rug_Types, Rug_NothingTaken, Rug_NothingTaken,
       Zero, Rug_Init
<1>2. ASSUME Secure, Rug_Inv, Rug_Next PROVE Rug_Inv'
    <2>1. PICK u \in Address, recipient \in Address, amount \in 1..2, signers \in SUBSET Address :
              Rug_initialize(u) \/ Rug_deposit(u, amount) \/ Rug_withdraw(u, amount) \/
              Rug_admin_withdraw(u, recipient, amount, signers)
        BY <1>2, Zenon DEF Rug_Next, Lib, Secure
    <2>2. CASE Rug_initialize(u)
        <3>1. /\ store' = [admin |-> u, balance |-> store.balance]
              /\ past' = past
              /\ store.admin = None
            BY <1>2, <2>2 DEF Rug_initialize, Write, Rug_Inv, Rug_Types
        <3> QED BY <1>2, <3>1, ContractAssumption DEF Rug_Inv, Rug_Types, Rug_NothingTaken, Zero
    <2>3. CASE Rug_deposit(u, amount)
        <3>1. /\ store' = [admin |-> store.admin,
                           balance |-> [store.balance EXCEPT ![u] = @ + amount]]
              /\ past' = past
              /\ Rug_get_balance(u) + amount \in AdminFunds
            BY <1>2, <2>3 DEF Rug_deposit, Write, Rug_Inv, Rug_Types
        <3> QED BY <1>2, <3>1, ContractAssumption DEF Rug_Inv, Rug_Types, Rug_NothingTaken,
               Zero, Rug_get_balance, AdminFunds
    <2>4. CASE Rug_withdraw(u, amount)
        <3>1. /\ store' = [admin |-> store.admin,
                           balance |-> [store.balance EXCEPT ![u] = @ - amount]]
              /\ past' = past
              /\ Rug_get_balance(u) - amount \in AdminFunds
            BY <1>2, <2>4 DEF Rug_withdraw, Write, Rug_Inv, Rug_Types
        <3> QED BY <1>2, <3>1, ContractAssumption DEF Rug_Inv, Rug_Types, Rug_NothingTaken,
               Zero, Rug_get_balance, AdminFunds
    <2>5. CASE Rug_admin_withdraw(u, recipient, amount, signers)
        <3>0. store = [admin |-> store.admin, balance |-> store.balance] /\
                  past = [taken |-> past.taken] /\ past.taken = Zero
            BY <1>2 DEF Rug_Inv, Rug_Types, Rug_NothingTaken
        <3>1. PICK b : b =
                  [[store.balance EXCEPT ![u] = @ - amount] EXCEPT ![recipient] = @ + amount]
            OBVIOUS
        <3>2. /\ store' = [store EXCEPT !.balance = b]
              /\ u \in signers /\ past' = [past EXCEPT !.taken[u] = past.taken[u]]
            BY <2>5, <3>1 DEF Rug_admin_withdraw, Rug_admin_withdraw_lib, WriteAnd
        <3>3. [past.taken EXCEPT ![u] = past.taken[u]] = past.taken
            BY <3>0 DEF Zero
        <3>4. past' = past /\ store' = [admin |-> store.admin, balance |-> b]
            BY <3>0, <3>2, <3>3
        <3> QED BY <3>0, <3>4 DEF Rug_Inv, Rug_Types, Rug_NothingTaken
    <2> QED BY <2>1, <2>2, <2>3, <2>4, <2>5
<1>3. Rug_Inv /\ UNCHANGED vars => Rug_Inv'
    BY DEF Rug_Inv, Rug_Types, Rug_NothingTaken, vars
<1> QED BY <1>1, <1>2, <1>3

-----------------------------------------------------------------------------
(* hardcoded_beneficiary.                                                  *)
Beneficiary_Types ==
    /\ store = [admin |-> store.admin, beneficiary |-> store.beneficiary, balance |-> store.balance,
                wallet |-> store.wallet]
    /\ past = [released |-> past.released]

Beneficiary_Inv == Beneficiary_Types /\ Beneficiary_PaidAsNamed

\* Every deployment is in Beneficiary_Inv; a call of the corrected contract, or
\* none, stays in it.
LEMMA Beneficiary_Correct ==
    /\ now = 0 /\ Beneficiary_Init => Beneficiary_Inv
    /\ Secure /\ Beneficiary_Inv /\ Beneficiary_Next => Beneficiary_Inv'
    /\ Beneficiary_Inv /\ UNCHANGED vars => Beneficiary_Inv'
<1>1. now = 0 /\ Beneficiary_Init => Beneficiary_Inv
    BY ContractAssumption DEF Beneficiary_Init, Beneficiary_Inv, Beneficiary_Types,
       Beneficiary_PaidAsNamed, Beneficiary_PaidAsNamed, Beneficiary_Init, Zero
<1>2. ASSUME Secure, Beneficiary_Inv, Beneficiary_Next PROVE Beneficiary_Inv'
    <2>1. PICK u \in Address, v \in Address, amount \in 1..2 :
              Beneficiary_initialize(u) \/ Beneficiary_fund(u, amount) \/
              Beneficiary_create_escrow(u, v, amount) \/ Beneficiary_release(u)
        BY <1>2, Zenon DEF Beneficiary_Next, Lib, Secure
    <2>2. CASE Beneficiary_initialize(u)
        <3>1. /\ store' = [admin |-> u, beneficiary |-> store.beneficiary,
                           balance |-> store.balance, wallet |-> store.wallet]
              /\ past' = past
              /\ store.admin = None
            BY <1>2, <2>2 DEF Beneficiary_initialize, Write, Beneficiary_Inv, Beneficiary_Types
        <3> QED BY <1>2, <3>1, ContractAssumption DEF Beneficiary_Inv, Beneficiary_Types,
               Beneficiary_PaidAsNamed
    <2>3. CASE Beneficiary_fund(u, amount)
        <3>1. /\ store' = [admin |-> store.admin, beneficiary |-> store.beneficiary,
                           balance |-> store.balance,
                           wallet |-> Beneficiary_credit(store.wallet, u, amount)]
              /\ past' = past
              /\ Beneficiary_wallet_balance(u) + amount \in AdminFunds
            BY <1>2, <2>3 DEF Beneficiary_fund, Write, Beneficiary_Inv, Beneficiary_Types
        <3> QED BY <1>2, <3>1, ContractAssumption DEF Beneficiary_Inv, Beneficiary_Types,
               Beneficiary_PaidAsNamed, Beneficiary_credit, Beneficiary_wallet_balance,
               AdminFunds
    <2>4. CASE Beneficiary_create_escrow(u, v, amount)
        <3>1. /\ store' = [admin |-> store.admin, beneficiary |-> v, balance |-> amount,
                           wallet |-> Beneficiary_debit(store.wallet, u, amount)]
              /\ past' = past
              /\ Beneficiary_wallet_balance(u) >= amount
              /\ Beneficiary_wallet_balance(u) - amount \in AdminFunds
            BY <1>2, <2>4 DEF Beneficiary_create_escrow, Write, Beneficiary_Inv,
               Beneficiary_Types
        <3> QED BY <1>2, <3>1, ContractAssumption DEF Beneficiary_Inv, Beneficiary_Types,
               Beneficiary_PaidAsNamed, Beneficiary_debit, Beneficiary_wallet_balance,
               AdminFunds
    <2>5. CASE Beneficiary_release(u)
        <3>1. /\ store' = [admin |-> store.admin, beneficiary |-> store.beneficiary, balance |-> 0,
                           wallet |-> Beneficiary_credit(store.wallet, store.beneficiary,
                                                         store.balance)]
              /\ past' = [released |-> [to |-> store.beneficiary, named |-> store.beneficiary]]
              /\ store.beneficiary # None
              /\ store.admin # None
              /\ store.balance # None
              /\ store.wallet[store.beneficiary] + store.balance \in AdminFunds
            BY <1>2, <2>5 DEF Beneficiary_release, Beneficiary_release_to, WriteAnd,
               Beneficiary_Inv, Beneficiary_Types
        <3> QED BY <1>2, <3>1, ContractAssumption DEF Beneficiary_Inv, Beneficiary_Types,
               Beneficiary_PaidAsNamed, Beneficiary_credit, AdminFunds
    <2> QED BY <2>1, <2>2, <2>3, <2>4, <2>5
<1>3. Beneficiary_Inv /\ UNCHANGED vars => Beneficiary_Inv'
    BY DEF Beneficiary_Inv, Beneficiary_Types, Beneficiary_PaidAsNamed, vars
<1> QED BY <1>1, <1>2, <1>3

-----------------------------------------------------------------------------
(* self_fee_collector.                                                     *)
\* The part of a book that belongs to addresses.
Own_Owed(owed) == [u \in Address |-> owed[u]]

Own_Types ==
    /\ store = [admin |-> store.admin, collector |-> store.collector, fees |-> store.fees]
    /\ store.collector \in Address \cup {None}
    /\ store.fees \in Int
    /\ past \in [owed : [Address \cup {OwnAddress} -> Int]]

\* Before initialize there is no collector and no fee.
Own_NoAdminNoFees ==
    store.admin = None => store.collector = None /\ store.fees = 0

Own_Inv == Own_Types /\ Own_NoAdminNoFees /\ Own_FeesHaveAnOwner

\* Every deployment is in Own_Inv; a call of the corrected contract, or none,
\* stays in it.
LEMMA Own_Correct ==
    /\ now = 0 /\ Own_Init => Own_Inv
    /\ Secure /\ Own_Inv /\ Own_Next => Own_Inv'
    /\ Own_Inv /\ UNCHANGED vars => Own_Inv'
<1>1. now = 0 /\ Own_Init => Own_Inv
    <2> SUFFICES ASSUME Own_Init PROVE Own_Inv
        OBVIOUS
    <2>1. Own_Types /\ store.fees = 0
        BY DEF Own_Init, Own_Types
    <2>3. Own_NoAdminNoFees
        BY DEF Own_Init, Own_NoAdminNoFees
    <2>2. [u \in Address |-> past.owed[u]] = Zero
        BY DEF Own_Init, Zero
    <2> QED BY <2>1, <2>2, <2>3, ZeroSum DEF Own_Inv, Own_FeesHaveAnOwner, Own_get_fees
<1>2. ASSUME Secure, Own_Inv, Own_Next PROVE Own_Inv'
    <2>1. PICK u \in Address, c \in Address \cup {OwnAddress}, amount \in 0..1 :
              Own_initialize(u) \/ Own_set_collector(c) \/ Own_collect_fee(amount)
        BY <1>2, Zenon DEF Own_Next, Lib, Secure
    <2>2. CASE Own_initialize(u)
        <3>1. /\ store' = [admin |-> u, collector |-> store.collector, fees |-> 0]
              /\ past' = past
              /\ store.admin = None
            BY <1>2, <2>2 DEF Own_initialize, Write, Own_Inv, Own_Types
        <3>2. Own_Types'
            BY <1>2, <3>1, ContractAssumption, ZeroSum DEF Own_Inv, Own_Types, OwnAddress
        <3>3. Own_NoAdminNoFees'
            BY <1>2, <3>1, ContractAssumption, ZeroSum DEF Own_Inv, Own_Types,
               Own_NoAdminNoFees, Own_FeesHaveAnOwner, Own_get_fees, OwnAddress
        <3>4. Own_FeesHaveAnOwner'
            BY <1>2, <3>1, ContractAssumption, ZeroSum DEF Own_Inv, Own_Types,
               Own_NoAdminNoFees, Own_FeesHaveAnOwner, Own_get_fees, OwnAddress
        <3> QED BY <3>2, <3>3, <3>4 DEF Own_Inv
    <2>3. CASE Own_set_collector(c)
        <3>1. /\ store' = [admin |-> store.admin, collector |-> c, fees |-> store.fees]
              /\ past' = past
              /\ c # OwnAddress
              /\ store.admin # None
            BY <1>2, <2>3 DEF Own_set_collector, Own_set_collector_lib, Write, Own_Inv,
               Own_Types
        <3> QED BY <1>2, <3>1, ContractAssumption, ZeroSum DEF Own_Inv, Own_Types,
               Own_NoAdminNoFees, Own_FeesHaveAnOwner, Own_get_fees, OwnAddress
    <2>4. CASE Own_collect_fee(amount)
        <3>1. /\ store.admin = store.admin /\ amount \in Int /\ store.collector \in Address
              /\ past.owed \in [Address \cup {OwnAddress} -> Int] /\ store.fees \in Int
              /\ store = [admin |-> store.admin, collector |-> store.collector, fees |-> store.fees]
              /\ past = [owed |-> past.owed] /\ store.fees = SumFunction(Own_Owed(past.owed))
            BY <1>2, <2>4 DEF Own_Inv, Own_Types, Own_collect_fee, Own_get_collector,
               Own_FeesHaveAnOwner, Own_get_fees, Own_Owed
        <3>2. PICK e : e =
                  [past.owed EXCEPT ![store.collector] = past.owed[store.collector] + amount]
            OBVIOUS
        <3>3. /\ store' = [admin |-> store.admin, collector |-> store.collector,
                           fees |-> store.fees + amount]
              /\ past' = [owed |-> e]
            BY <2>4, <3>1, <3>2 DEF Own_collect_fee, WriteAnd
        <3>4. Own_Owed(past.owed) \in [Address -> Int]
            BY <3>1 DEF Own_Owed
        <3>5. e \in [Address \cup {OwnAddress} -> Int] /\
                  Own_Owed(e) = Added(Own_Owed(past.owed), store.collector, amount)
            BY <3>1, <3>2 DEF Own_Owed, Added
        <3>6. SumFunction(Own_Owed(e)) = SumFunction(Own_Owed(past.owed)) + amount
            BY <3>1, <3>4, <3>5, AddedTo
        <3>7. Own_Types'
            BY <3>1, <3>3, <3>5 DEF Own_Types
        <3>8. Own_FeesHaveAnOwner'
            <4>1. store.fees' = SumFunction(Own_Owed(past.owed'))
                BY <3>1, <3>3, <3>6
            <4> QED BY <4>1 DEF Own_FeesHaveAnOwner, Own_get_fees, Own_Owed
        <3>9. Own_NoAdminNoFees'
            BY <1>2, <3>1, <3>3, ContractAssumption DEF Own_Inv, Own_NoAdminNoFees
        <3> QED BY <3>7, <3>8, <3>9 DEF Own_Inv
    <2> QED BY <2>1, <2>2, <2>3, <2>4
<1>3. Own_Inv /\ UNCHANGED vars => Own_Inv'
    BY DEF Own_Inv, Own_Types, Own_NoAdminNoFees, Own_FeesHaveAnOwner, vars, Own_get_fees
<1> QED BY <1>1, <1>2, <1>3

-----------------------------------------------------------------------------
(* partial_config_clear.                                                   *)
Config_Types ==
    /\ store = [admin |-> store.admin, config |-> store.config]
    /\ past = [named |-> past.named, updated |-> past.updated]
    /\ past.updated \in BOOLEAN

Config_Inv == Config_Types /\ Config_KeepsWhatIsNotNamed

\* Every deployment is in Config_Inv; a call of the corrected contract, or
\* none, stays in it.
LEMMA Config_Correct ==
    /\ now = 0 /\ Config_Init => Config_Inv
    /\ Secure /\ Config_Inv /\ Config_Next => Config_Inv'
    /\ Config_Inv /\ UNCHANGED vars => Config_Inv'
<1>1. now = 0 /\ Config_Init => Config_Inv
    BY ContractAssumption DEF Config_Init, Config_Inv, Config_Types, Config_KeepsWhatIsNotNamed,
       Config_KeepsWhatIsNotNamed, Config_get_config, Config_validate_config, Whole, Config_Init
<1>2. ASSUME Secure, Config_Inv, Config_Next PROVE Config_Inv'
    <2>1. PICK u, config, change : Config_initialize(u, config) \/ Config_update_config(change)
        BY <1>2, Zenon DEF Config_Next, Lib, Secure
    <2>2. CASE Config_initialize(u, config)
        <3>1. store' = [admin |-> u, config |-> config] /\
                  past' = [named |-> config, updated |-> FALSE]
            BY <2>2 DEF Config_initialize, WriteAnd
        <3> QED BY <3>1 DEF Config_Inv, Config_Types, Config_KeepsWhatIsNotNamed, Config_get_config
    <2>3. CASE Config_update_config(change)
        <3>1. PICK merged : merged = Config_merge(store.config, change)
            OBVIOUS
        <3>2. store = [admin |-> store.admin, config |-> store.config] /\ store.config = past.named
            BY <1>2 DEF Config_Inv, Config_Types, Config_KeepsWhatIsNotNamed, Config_get_config
        <3>3. /\ store.config # None /\ Config_validate_config(merged)
              /\ store' = [store EXCEPT !.config = merged]
              /\ past' = [named |-> merged, updated |-> TRUE]
            BY <2>3, <3>1, <3>2
               DEF Config_update_config, Config_updates, Config_get_config, WriteAnd
        <3>4. store' = [admin |-> store.admin, config |-> merged]
            BY <3>2, <3>3
        <3>5. Config_Types' /\ Config_get_config' = merged /\ past'.named = merged
            BY <3>3, <3>4 DEF Config_Types, Config_get_config
        <3> QED BY <3>3, <3>5 DEF Config_Inv, Config_KeepsWhatIsNotNamed, Config_validate_config
    <2> QED BY <2>1, <2>2, <2>3
<1>3. Config_Inv /\ UNCHANGED vars => Config_Inv'
    BY DEF Config_Inv, Config_Types, Config_KeepsWhatIsNotNamed, vars, Config_get_config
<1> QED BY <1>1, <1>2, <1>3


-----------------------------------------------------------------------------
(* canceled_listing_fillable.                                              *)
\* An order: who sells, and for how much.
Order_Entry == [seller : Address, price : Int]

Order_Types ==
    /\ store = [order |-> store.order, status |-> store.status, canceled |-> store.canceled,
                filled |-> store.filled]
    /\ store.order \in [Ids -> Order_Entry \cup {None}]
    /\ store.status \in [Ids -> {"Active", "Canceled", "Filled", None}]
    /\ past \in [fills : [Ids -> Int], canceled : SUBSET Ids]

\* An order that was never created was neither canceled nor filled.
Order_UnsetIsOpen ==
    \A i \in Ids : store.order[i] = None => store.status[i] \notin {"Canceled", "Filled"}

Order_Inv == Order_Types /\ Order_UnsetIsOpen /\ Order_CanceledIsFinal

\* Every deployment is in Order_Inv; a call of the corrected contract, or none,
\* stays in it.
LEMMA Order_Correct ==
    /\ now = 0 /\ Order_Init => Order_Inv
    /\ Secure /\ Order_Inv /\ Order_Next => Order_Inv'
    /\ Order_Inv /\ UNCHANGED vars => Order_Inv'
<1>1. ASSUME now = 0, Order_Init PROVE Order_Inv
    <2>1. Order_Types
        BY <1>1, ContractAssumption, StatusAssumption DEF Order_Init, Order_Types, Ids,
           Order_CanceledIsFinal, Order_is_canceled, Order_is_filled, Order_Entry
    <2>2. Order_UnsetIsOpen
        BY <1>1, ContractAssumption, StatusAssumption DEF Order_Init, Order_UnsetIsOpen, Ids,
           Order_CanceledIsFinal, Order_is_canceled, Order_is_filled, Order_Entry
    <2>3. Order_CanceledIsFinal
        BY <1>1, ContractAssumption, StatusAssumption DEF Order_Init, Order_CanceledIsFinal,
           Ids, Order_is_canceled, Order_is_filled, Order_Entry
    <2> QED BY <2>1, <2>2, <2>3 DEF Order_Inv
<1>2. ASSUME Secure, Order_Inv, Order_Next PROVE Order_Inv'
    <2>1. PICK u \in Address, i \in Ids :
              Order_create_order(u, i, 1) \/ Order_cancel(u, i) \/ Order_fill_order(u, i)
        BY <1>2, Zenon DEF Order_Next, Lib, Secure
    <2>2. CASE Order_create_order(u, i, 1)
        <3>1. /\ store' = [order |-> [store.order EXCEPT ![i] = [seller |-> u, price |-> 1]],
                           status |-> [store.status EXCEPT ![i] = "Active"],
                           canceled |-> store.canceled, filled |-> store.filled]
              /\ past' = past
              /\ store.order[i] = None
            BY <1>2, <2>2 DEF Order_create_order, Write, Order_Inv, Order_Types
        <3> QED BY <1>2, <3>1, ContractAssumption, StatusAssumption DEF Order_Inv, Order_Types,
               Order_UnsetIsOpen, Order_CanceledIsFinal, Ids, Order_is_canceled,
               Order_is_filled, Order_Entry
    <2>3. CASE Order_cancel(u, i)
        <3>1. /\ store' = [order |-> store.order,
                           status |-> [store.status EXCEPT ![i] = "Canceled"],
                           canceled |-> store.canceled, filled |-> store.filled]
              /\ past' = [fills |-> past.fills, canceled |-> past.canceled \cup {i}]
              /\ store.order[i] # None
              /\ store.order[i].seller = u
              /\ store.status[i] = "Active"
            BY <1>2, <2>3 DEF Order_cancel, WriteAnd, Order_Inv, Order_Types
        <3> QED BY <1>2, <3>1, ContractAssumption, StatusAssumption DEF Order_Inv, Order_Types,
               Order_UnsetIsOpen, Order_CanceledIsFinal, Ids, Order_is_canceled,
               Order_is_filled, Order_Entry
    <2>4. CASE Order_fill_order(u, i)
        <3>1. /\ store' = [order |-> store.order, status |-> [store.status EXCEPT ![i] = "Filled"],
                           canceled |-> store.canceled, filled |-> store.filled]
              /\ past' = [fills |-> [past.fills EXCEPT ![i] = @ + 1], canceled |-> past.canceled]
              /\ store.status[i] = "Active"
              /\ store.order[i] # None
            BY <1>2, <2>4 DEF Order_fill_order, WriteAnd, Order_Inv, Order_Types
        <3> QED BY <1>2, <3>1, ContractAssumption, StatusAssumption DEF Order_Inv, Order_Types,
               Order_UnsetIsOpen, Order_CanceledIsFinal, Ids, Order_is_canceled,
               Order_is_filled, Order_Entry
    <2> QED BY <2>1, <2>2, <2>3, <2>4
<1>3. Order_Inv /\ UNCHANGED vars => Order_Inv'
    BY DEF Order_Inv, Order_Types, Order_UnsetIsOpen, Order_CanceledIsFinal, vars,
       Order_is_canceled, Order_is_filled
<1> QED BY <1>1, <1>2, <1>3

-----------------------------------------------------------------------------
(* buy_without_listing.                                                    *)
\* A listing: who sells, and for how much.
Buy_Listing == [seller : Address, price : Int]

Buy_Types ==
    /\ store \in [owner : Address \cup {None}, balance : [Address -> Int],
                  listing : Buy_Listing \cup {None}]
    /\ past \in [asked : Int \cup {None}, sold : Int \cup {None}, funded : Int]

\* The price on the listing is the one the seller asked last.
Buy_ListedIsAsked ==
    store.listing # None => store.listing.price = past.asked

Buy_Inv == Buy_Types /\ Buy_ListedIsAsked /\ Buy_AtListedPrice

\* Every deployment is in Buy_Inv; a call of the corrected contract, or none,
\* stays in it.
LEMMA Buy_Correct ==
    /\ now = 0 /\ Buy_Init => Buy_Inv
    /\ Secure /\ Buy_Inv /\ Buy_Next => Buy_Inv'
    /\ Buy_Inv /\ UNCHANGED vars => Buy_Inv'
<1>1. now = 0 /\ Buy_Init => Buy_Inv
    BY ContractAssumption, ZeroSum DEF Buy_Init, Buy_Inv, Buy_Types, Buy_ListedIsAsked,
       Buy_AtListedPrice, Buy_AtListedPrice, Buy_balance_of, Buy_Listing, Prices, Buy_Init
<1>2. ASSUME Secure, Buy_Inv, Buy_Next PROVE Buy_Inv'
    <2>1. PICK u \in Address, v \in Address, n \in Prices :
              Buy_mint(u) \/ Buy_fund(u, n) \/ Buy_list(u, n) \/ Buy_buy(u, v, n)
        BY <1>2, Zenon DEF Buy_Next, Lib, Secure
    <2>2. CASE Buy_mint(u)
        <3>1. /\ store' = [owner |-> u, balance |-> store.balance, listing |-> store.listing]
              /\ past' = past
            BY <1>2, <2>2 DEF Buy_mint, Write, Buy_Inv, Buy_Types, Added, Taken
        <3> QED BY <1>2, <3>1, ContractAssumption, ZeroSum DEF Buy_Inv, Buy_Types,
               Buy_ListedIsAsked, Buy_AtListedPrice, Buy_balance_of, Buy_Listing, Prices
    <2>3. CASE Buy_fund(u, n)
        <3>1. /\ store' = [owner |-> store.owner, balance |-> Added(store.balance, u, n),
                           listing |-> store.listing]
              /\ past' = [asked |-> past.asked, sold |-> past.sold, funded |-> past.funded + n]
              /\ store.balance[u] + n \in -1..MaxTrades
            BY <1>2, <2>3 DEF Buy_fund, WriteAnd, Buy_Inv, Buy_Types, Added, Taken
        <3>s1. /\ Added(store.balance, u, n) \in [Address -> Int]
               /\ SumFunction(Added(store.balance, u, n)) = SumFunction(store.balance) + n /\
                  SumFunction(store.balance) \in Int
               /\ \A w \in Address :
                  Added(store.balance, u, n)[w] = store.balance[w] + (IF w = u THEN n ELSE 0)
            <4>1. store.balance \in [Address -> Int] /\ u \in Address /\ n \in Int
                BY <1>2, <3>1, ContractAssumption, ZeroSum DEF Buy_Inv, Buy_Types, Buy_Listing,
                   Prices
            <4> QED BY <4>1, AddedTo, ZenonT(60)
        <3> QED BY <1>2, <3>1, <3>s1, ContractAssumption, ZeroSum DEF Buy_Inv, Buy_Types,
               Buy_ListedIsAsked, Buy_AtListedPrice, Buy_balance_of, Buy_Listing, Prices,
               MaxTrades
    <2>4. CASE Buy_list(u, n)
        <3>1. /\ store' = [owner |-> store.owner, balance |-> store.balance,
                           listing |-> [seller |-> u, price |-> n]]
              /\ past' = [asked |-> n, sold |-> None, funded |-> past.funded]
              /\ store.owner # None
              /\ store.owner = u
            BY <1>2, <2>4 DEF Buy_list, WriteAnd, Buy_Inv, Buy_Types, Added, Taken
        <3> QED BY <1>2, <3>1, ContractAssumption, ZeroSum DEF Buy_Inv, Buy_Types,
               Buy_ListedIsAsked, Buy_AtListedPrice, Buy_balance_of, Buy_Listing, Prices
    <2>5. CASE Buy_buy(u, v, n)
        <3>1. /\ store.listing # None /\ store.listing.seller \in Address /\
                 store.listing.price \in Int
              /\ store.listing.price = past.asked /\ store.balance \in [Address -> Int]
              /\ past = [asked |-> past.asked, sold |-> past.sold, funded |-> past.funded]
              /\ store = [owner |-> store.owner, balance |-> store.balance,
                          listing |-> store.listing]
              /\ SumFunction(store.balance) = past.funded /\ past.funded \in Int
            <4>1. store.listing # None
                BY <2>5 DEF Buy_buy
            <4>2. [q \in Address |-> store.balance[q]] = store.balance
                BY <1>2 DEF Buy_Inv, Buy_Types
            <4> QED BY <1>2, <4>1, <4>2
                   DEF Buy_Inv, Buy_Types, Buy_Listing, Buy_ListedIsAsked, Buy_AtListedPrice,
                       Buy_balance_of
        <3>2. PICK s \in Address, p \in Int : s = store.listing.seller /\ p = store.listing.price
            BY <3>1
        <3>3. PICK b : b = Added(Taken(store.balance, u, p), s, p)
            OBVIOUS
        <3>4. /\ store' = [store EXCEPT !.owner = u, !.listing = None, !.balance = b]
              /\ past' = [past EXCEPT !.sold = p]
            BY <2>5, <3>2, <3>3 DEF Buy_buy, Buy_pays, WriteAnd, Added, Taken
        <3>5. /\ store' = [owner |-> u, balance |-> b, listing |-> None]
              /\ past' = [asked |-> past.asked, sold |-> p, funded |-> past.funded]
            BY <3>1, <3>4
        <3>6. Taken(store.balance, u, p) \in [Address -> Int] /\
                  SumFunction(Taken(store.balance, u, p)) = past.funded - p
            BY <3>1, TakenFrom
        <3>7. b \in [Address -> Int] /\ SumFunction(b) = past.funded
            <4>1. b \in [Address -> Int] /\
                      SumFunction(b) = SumFunction(Taken(store.balance, u, p)) + p
                BY <3>3, <3>6, AddedTo
            <4> QED BY <3>1, <3>6, <4>1
        <3>8. Buy_Types' /\ [q \in Address |-> b[q]] = b
            BY <1>2, <3>5, <3>7 DEF Buy_Inv, Buy_Types
        <3> QED BY <3>1, <3>2, <3>5, <3>7, <3>8
               DEF Buy_Inv, Buy_ListedIsAsked, Buy_AtListedPrice, Buy_balance_of
    <2> QED BY <2>1, <2>2, <2>3, <2>4, <2>5
<1>3. Buy_Inv /\ UNCHANGED vars => Buy_Inv'
    BY DEF Buy_Inv, Buy_Types, Buy_ListedIsAsked, Buy_AtListedPrice, vars, Buy_balance_of
<1> QED BY <1>1, <1>2, <1>3

-----------------------------------------------------------------------------
(* royalty_recipient_mutable.                                              *)
Royalty_Types ==
    /\ store = [recipient |-> store.recipient, listing |-> store.listing, paid |-> store.paid]
    /\ past = [due |-> past.due, wrong |-> past.wrong, total |-> past.total]
    /\ past.wrong \in BOOLEAN

\* A listing still names the recipient its royalty is due to.
Royalty_ListedIsDue ==
    /\ store.listing = [i \in Ids |-> store.listing[i]] /\ past.due = [i \in Ids |-> past.due[i]]
    /\ \A i \in Ids : store.listing[i] # None => store.listing[i].recipient = past.due[i]

Royalty_Inv == Royalty_Types /\ Royalty_ListedIsDue /\ Royalty_ToListedRecipient

\* Every deployment is in Royalty_Inv; a call of the corrected contract, or
\* none, stays in it.
LEMMA Royalty_Correct ==
    /\ now = 0 /\ Royalty_Init => Royalty_Inv
    /\ Secure /\ Royalty_Inv /\ Royalty_Next => Royalty_Inv'
    /\ Royalty_Inv /\ UNCHANGED vars => Royalty_Inv'
<1>1. now = 0 /\ Royalty_Init => Royalty_Inv
    BY ContractAssumption DEF Royalty_Init, Royalty_Inv, Royalty_Types, Royalty_ListedIsDue,
       Royalty_ToListedRecipient, Ids, Royalty_ToListedRecipient, Royalty_royalties_paid,
       Royalty_Init
<1>2. ASSUME Secure, Royalty_Inv, Royalty_Next PROVE Royalty_Inv'
    <2>1. PICK u \in Address, i \in {1}, n \in {-1, 2}, b \in -1..2 :
              Royalty_set_royalty_recipient(u) \/ Royalty_create_listing(i, n, b) \/
              Royalty_settle(i)
        BY <1>2, Zenon DEF Royalty_Next, Lib, Secure
    <2>2. CASE Royalty_set_royalty_recipient(u)
        <3>1. /\ store' = [recipient |-> u, listing |-> store.listing, paid |-> store.paid]
              /\ past' = past
            BY <1>2, <2>2 DEF Royalty_set_royalty_recipient, Write, Royalty_Inv, Royalty_Types
        <3> QED BY <1>2, <3>1, ContractAssumption DEF Royalty_Inv, Royalty_Types,
               Royalty_ListedIsDue, Royalty_ToListedRecipient, Ids, Royalty_royalties_paid
    <2>3. CASE Royalty_create_listing(i, n, b)
        <3>1. /\ store' = [recipient |-> store.recipient,
                           listing |-> [store.listing EXCEPT ![i] = [price |-> n, bps |-> b,
                                 recipient |-> store.recipient]],
                           paid |-> store.paid]
              /\ past' = [due |-> [past.due EXCEPT ![i] = store.recipient], wrong |-> past.wrong,
                          total |-> past.total]
              /\ store.recipient # None
              /\ b \in 0..Whole
            BY <1>2, <2>3 DEF Royalty_create_listing, Royalty_lists, WriteAnd, Royalty_Inv,
               Royalty_Types
        <3> QED BY <1>2, <3>1, ContractAssumption DEF Royalty_Inv, Royalty_Types,
               Royalty_ListedIsDue, Royalty_ToListedRecipient, Ids, Royalty_royalties_paid,
               Whole
    <2>4. CASE Royalty_settle(i)
        <3>1. /\ store' = [recipient |-> store.recipient,
                           listing |-> [store.listing EXCEPT ![i] = None],
                           paid |-> store.paid + (Quotient(store.listing[i].price * store.listing[i].bps,
                                                           Whole))]
              /\ past' = [due |-> past.due, wrong |-> past.wrong \/
                          store.listing[i].recipient # past.due[i],
                          total |-> past.total + (Quotient(store.listing[i].price * store.listing[i].bps,
                                                           Whole))]
              /\ store.listing[i] # None
              /\ store.paid + (Quotient(store.listing[i].price * store.listing[i].bps,
                                        Whole)) \in -2..MaxTrades
            BY <1>2, <2>4 DEF Royalty_settle, Royalty_pays, WriteAnd, Royalty_Inv, Royalty_Types
        <3> QED BY <1>2, <3>1, ContractAssumption DEF Royalty_Inv, Royalty_Types,
               Royalty_ListedIsDue, Royalty_ToListedRecipient, Ids, Royalty_royalties_paid,
               Quotient, Whole, MaxTrades
    <2> QED BY <2>1, <2>2, <2>3, <2>4
<1>3. Royalty_Inv /\ UNCHANGED vars => Royalty_Inv'
    BY DEF Royalty_Inv, Royalty_Types, Royalty_ListedIsDue, Royalty_ToListedRecipient, vars,
       Royalty_royalties_paid
<1> QED BY <1>1, <1>2, <1>3

-----------------------------------------------------------------------------
(* seller_self_purchase.                                                   *)
\* A listing: who sells, and for how much.
Self_Listing == [seller : Address, price : Int]

Self_Types ==
    /\ store \in [listing : [Ids -> Self_Listing \cup {None}], rewards : [Address -> Int],
                  volume : Int]
    /\ past \in [self : Int]

Self_Inv == Self_Types /\ Self_RewardsAreTrade

\* Every deployment is in Self_Inv; a call of the corrected contract, or none,
\* stays in it.
LEMMA Self_Correct ==
    /\ now = 0 /\ Self_Init => Self_Inv
    /\ Secure /\ Self_Inv /\ Self_Next => Self_Inv'
    /\ Self_Inv /\ UNCHANGED vars => Self_Inv'
<1>1. now = 0 /\ Self_Init => Self_Inv
    BY ContractAssumption, ZeroSum DEF Self_Init, Self_Inv, Self_Types, Self_RewardsAreTrade,
       Self_RewardsAreTrade, Self_total_volume, Self_rewards, Self_Listing, Ids, Prices,
       Self_Init
<1>2. ASSUME Secure, Self_Inv, Self_Next PROVE Self_Inv'
    <2>1. PICK u \in Address, i \in Ids, n \in Prices : Self_list(u, i, n) \/ Self_buy(u, i)
        BY <1>2, Zenon DEF Self_Next, Lib, Secure
    <2>2. CASE Self_list(u, i, n)
        <3>1. /\ store' = [listing |-> [store.listing EXCEPT ![i] = [seller |-> u, price |-> n]],
                           rewards |-> store.rewards, volume |-> store.volume]
              /\ past' = past
              /\ n > 0
            BY <1>2, <2>2 DEF Self_list, Write, Self_Inv, Self_Types, Added, Taken
        <3> QED BY <1>2, <3>1, ContractAssumption, ZeroSum DEF Self_Inv, Self_Types,
               Self_RewardsAreTrade, Self_total_volume, Self_rewards, Self_Listing, Ids, Prices
    <2>3. CASE Self_buy(u, i)
        <3>1. /\ store' = [listing |-> [store.listing EXCEPT ![i] = None],
                           rewards |-> [store.rewards EXCEPT ![u] = @ + store.listing[i].price],
                           volume |-> store.volume + store.listing[i].price]
              /\ past' = [self |-> past.self + IF u = store.listing[i].seller
                          THEN store.listing[i].price ELSE 0]
              /\ store.listing[i] # None
              /\ u # store.listing[i].seller
              /\ store.listing[i] # None
              /\ store.volume < MaxTrades
            BY <1>2, <2>3 DEF Self_buy, Self_buy_lib, WriteAnd, Self_Inv, Self_Types, Added,
               Taken
        <3>2. Self_Types'
            BY <1>2, <3>1, ContractAssumption, ZeroSum DEF Self_Inv, Self_Types, MaxTrades, Ids,
               Self_Listing, Prices
        <3>3. Self_RewardsAreTrade'
            <4>1. [q \in Address |-> store.rewards'[q]] = store.rewards' /\
                      [q \in Address |-> store.rewards[q]] = store.rewards
                BY <1>2, <3>2 DEF Self_Inv, Self_Types
            <4>2. SumFunction(store.rewards) = store.volume
                BY <1>2, <4>1 DEF Self_Inv, Self_RewardsAreTrade, Self_total_volume, Self_rewards
            <4>3. store'.rewards = Added(store.rewards, u, store.listing[i].price) /\
                      store'.volume = store.volume + store.listing[i].price
                  /\ past'.self = past.self /\ past.self = 0
                BY <1>2, <3>1 DEF Self_Inv, Self_Types, Self_RewardsAreTrade, Added
            <4>4. store.rewards \in [Address -> Int] /\ store.listing[i].price \in Int
                BY <1>2, <3>1 DEF Self_Inv, Self_Types, Self_Listing
            <4>5. SumFunction(store'.rewards) = SumFunction(store.rewards) + store.listing[i].price
                BY <4>3, <4>4, AddedTo
            <4> QED BY <4>1, <4>2, <4>3, <4>5
                   DEF Self_RewardsAreTrade, Self_total_volume, Self_rewards
        <3> QED BY <3>2, <3>3 DEF Self_Inv
    <2> QED BY <2>1, <2>2, <2>3
<1>3. Self_Inv /\ UNCHANGED vars => Self_Inv'
    BY DEF Self_Inv, Self_Types, Self_RewardsAreTrade, vars, Self_total_volume, Self_rewards
<1> QED BY <1>1, <1>2, <1>3

-----------------------------------------------------------------------------
(* royalty_discount_miscalc.                                               *)
Discount_Types ==
    /\ store \in [royalty : Int, proceeds : Int]
    /\ past \in [sales : Int, rebates : Int, due : Int]

Discount_Inv == Discount_Types /\ Discount_RoyaltyOfPrice

\* Every deployment is in Discount_Inv; a call of the corrected contract, or
\* none, stays in it.
LEMMA Discount_Correct ==
    /\ now = 0 /\ Discount_Init => Discount_Inv
    /\ Secure /\ Discount_Inv /\ Discount_Next => Discount_Inv'
    /\ Discount_Inv /\ UNCHANGED vars => Discount_Inv'
<1>1. now = 0 /\ Discount_Init => Discount_Inv
    BY ContractAssumption DEF Discount_Init, Discount_Inv, Discount_Types,
       Discount_RoyaltyOfPrice, Discount_RoyaltyOfPrice, Discount_creator_royalty,
       Discount_seller_proceeds, Discount_Init
<1>2. ASSUME Secure, Discount_Inv, Discount_Next PROVE Discount_Inv'
    <2>1. PICK p \in 0..3, r \in -1..3, b \in -1..3 : Discount_settle(p, r, b)
        BY <1>2, Zenon DEF Discount_Next, Lib, Secure
    <2>2. CASE Discount_settle(p, r, b)
        <3>1. /\ store' = [royalty |-> store.royalty + (Quotient(p * b, Whole)),
                           proceeds |-> store.proceeds + (p - (Quotient(p * b, Whole)) - r)]
              /\ past' = [sales |-> past.sales + p, rebates |-> past.rebates + r,
                          due |-> past.due + Quotient(p * b, Whole)]
              /\ p > 0
              /\ r >= 0
              /\ r < p
              /\ b \in 0..Whole
              /\ past.sales + p <= 5
            BY <1>2, <2>2 DEF Discount_settle, Discount_pays, WriteAnd, Discount_Inv,
               Discount_Types
        <3> QED BY <1>2, <3>1, ContractAssumption DEF Discount_Inv, Discount_Types,
               Discount_RoyaltyOfPrice, Discount_creator_royalty, Discount_seller_proceeds,
               Quotient, Whole
    <2> QED BY <2>1, <2>2
<1>3. Discount_Inv /\ UNCHANGED vars => Discount_Inv'
    BY DEF Discount_Inv, Discount_Types, Discount_RoyaltyOfPrice, vars,
       Discount_creator_royalty, Discount_seller_proceeds
<1> QED BY <1>1, <1>2, <1>3

-----------------------------------------------------------------------------
(* auction_close_early.                                                    *)
Early_Types ==
    /\ now \in Nat
    /\ store = [bidder |-> store.bidder, bid |-> store.bid, end |-> store.end,
                closed |-> store.closed]
    /\ store.bid \in Int
    /\ store.end \in Nat \cup {None}
    /\ store.closed \in BOOLEAN
    /\ past = [closed_at |-> past.closed_at, winner |-> past.winner]

\* Only an auction that was created is closed.
Early_ClosedHasEnd ==
    store.closed => store.end # None

Early_Inv == Early_Types /\ Early_ClosedHasEnd /\ Early_ClosedAfterEnd

\* Every deployment is in Early_Inv; a call of the corrected contract, or none,
\* stays in it.
LEMMA Early_Correct ==
    /\ now = 0 /\ Early_Init => Early_Inv
    /\ Secure /\ Early_Inv /\ Early_Next => Early_Inv'
    /\ Early_Inv /\ UNCHANGED vars => Early_Inv'
<1>1. now = 0 /\ Early_Init => Early_Inv
    BY ContractAssumption DEF Early_Init, Early_Inv, Early_Types, Early_ClosedHasEnd,
       Early_ClosedAfterEnd, Early_ClosedAfterEnd, Early_is_closed, Early_high_bidder,
       Early_Init
<1>2. ASSUME Secure, Early_Inv, Early_Next PROVE Early_Inv'
    <2>1. PICK u \in Address, n \in 0..2 :
              Early_initialize(n) \/ Early_bid(u, n) \/ Early_close \/ CloseLedger
        BY <1>2, Zenon DEF Early_Next, Lib, Secure
    <2>2. CASE Early_initialize(n)
        <3>1. /\ store' = [bidder |-> store.bidder, bid |-> 0, end |-> n, closed |-> FALSE]
              /\ past' = past
              /\ now' = now
              /\ store.end = None
            BY <1>2, <2>2 DEF Early_initialize, Write, Early_Inv, Early_Types
        <3> QED BY <1>2, <3>1, ContractAssumption DEF Early_Inv, Early_Types,
               Early_ClosedHasEnd, Early_ClosedAfterEnd, Early_is_closed, Early_high_bidder
    <2>3. CASE Early_bid(u, n)
        <3>1. /\ store' = [bidder |-> u, bid |-> n, end |-> store.end, closed |-> store.closed]
              /\ past' = past
              /\ now' = now
              /\ ~store.closed
              /\ n > store.bid
            BY <1>2, <2>3 DEF Early_bid, Write, Early_Inv, Early_Types
        <3> QED BY <1>2, <3>1, ContractAssumption DEF Early_Inv, Early_Types,
               Early_ClosedHasEnd, Early_ClosedAfterEnd, Early_is_closed, Early_high_bidder
    <2>4. CASE Early_close
        <3>1. /\ store' = [bidder |-> store.bidder, bid |-> store.bid, end |-> store.end,
                           closed |-> TRUE]
              /\ past' = [closed_at |-> now, winner |-> store.bidder]
              /\ now' = now
              /\ store.end # None
              /\ now >= store.end
              /\ ~store.closed
              /\ store.bidder # None
            BY <1>2, <2>4 DEF Early_close, Early_close_lib, WriteAnd, Early_Inv, Early_Types
        <3> QED BY <1>2, <3>1, ContractAssumption DEF Early_Inv, Early_Types,
               Early_ClosedHasEnd, Early_ClosedAfterEnd, Early_is_closed, Early_high_bidder
    <2>5. CASE CloseLedger
        <3>1. /\ store' = store
              /\ past' = past
              /\ now' = now + 1
            BY <1>2, <2>5 DEF CloseLedger, Early_Inv, Early_Types
        <3> QED BY <1>2, <3>1, ContractAssumption DEF Early_Inv, Early_Types,
               Early_ClosedHasEnd, Early_ClosedAfterEnd, Early_is_closed, Early_high_bidder
    <2> QED BY <2>1, <2>2, <2>3, <2>4, <2>5
<1>3. Early_Inv /\ UNCHANGED vars => Early_Inv'
    BY DEF Early_Inv, Early_Types, Early_ClosedHasEnd, Early_ClosedAfterEnd, vars,
       Early_is_closed, Early_high_bidder
<1> QED BY <1>1, <1>2, <1>3

-----------------------------------------------------------------------------
(* auction_refund_block.                                                   *)
Refund_Types ==
    /\ store = [bidder |-> store.bidder, bid |-> store.bid, refund |-> store.refund,
                blocked |-> store.blocked]
    /\ store.bidder \in Address \cup {None}
    /\ store.bid \in Int \cup {None}
    /\ store.refund \in [Address -> Int]
    /\ past \in [placed : [Address -> Int], back : [Address -> Int]]

\* No standing bid is negative.
Refund_BidsArePositive ==
    Refund_high_bid >= 0

Refund_Inv == Refund_Types /\ Refund_BidsArePositive /\ Refund_NoBidLost

\* Every deployment is in Refund_Inv; a call of the corrected contract, or
\* none, stays in it.
LEMMA Refund_Correct ==
    /\ now = 0 /\ Refund_Init => Refund_Inv
    /\ Secure /\ Refund_Inv /\ Refund_Next => Refund_Inv'
    /\ Refund_Inv /\ UNCHANGED vars => Refund_Inv'
<1>1. now = 0 /\ Refund_Init => Refund_Inv
    BY ContractAssumption DEF Refund_Init, Refund_Inv, Refund_Types, Refund_BidsArePositive,
       Refund_NoBidLost, Refund_high_bid, Refund_NoBidLost, Refund_claimable_refund,
       Refund_high_bidder, Refund_Init, Zero
<1>2. ASSUME Secure, Refund_Inv, Refund_Next PROVE Refund_Inv'
    <2>1. PICK u \in Address, n \in 0..3, b \in BOOLEAN :
              Refund_initialize \/ Refund_set_refund_blocked(b) \/ Refund_bid(u, n) \/
              Refund_claim_refund(u)
        BY <1>2, Zenon DEF Refund_Next, Lib, Secure
    <2>2. CASE Refund_initialize
        <3>1. /\ store' = [bidder |-> store.bidder, bid |-> 0, refund |-> store.refund,
                           blocked |-> FALSE]
              /\ past' = past
              /\ store.bid = None
            BY <1>2, <2>2 DEF Refund_initialize, Write, Refund_Inv, Refund_Types
        <3> QED BY <1>2, <3>1, ContractAssumption DEF Refund_Inv, Refund_Types,
               Refund_BidsArePositive, Refund_NoBidLost, Refund_high_bid,
               Refund_claimable_refund, Refund_high_bidder
    <2>3. CASE Refund_set_refund_blocked(b)
        <3>1. /\ store' = [bidder |-> store.bidder, bid |-> store.bid, refund |-> store.refund,
                           blocked |-> b]
              /\ past' = past
            BY <1>2, <2>3 DEF Refund_set_refund_blocked, Write, Refund_Inv, Refund_Types
        <3> QED BY <1>2, <3>1, ContractAssumption DEF Refund_Inv, Refund_Types,
               Refund_BidsArePositive, Refund_NoBidLost, Refund_high_bid,
               Refund_claimable_refund, Refund_high_bidder
    <2>4. CASE Refund_bid(u, n)
        <3>1. /\ store' = [bidder |-> u, bid |-> n,
                           refund |-> [v \in Address |-> IF Refund_high_bid > 0 /\
                                       v = store.bidder THEN store.refund[v] + Refund_high_bid
                                       ELSE store.refund[v]],
                           blocked |-> store.blocked]
              /\ past' = [placed |-> [past.placed EXCEPT ![u] = @ + n], back |-> past.back]
              /\ n > Refund_high_bid
            BY <1>2, <2>4 DEF Refund_bid, WriteAnd, Refund_Inv, Refund_Types
        <3> QED BY <1>2, <3>1, ContractAssumption DEF Refund_Inv, Refund_Types,
               Refund_BidsArePositive, Refund_NoBidLost, Refund_high_bid,
               Refund_claimable_refund, Refund_high_bidder
    <2>5. CASE Refund_claim_refund(u)
        <3>1. /\ store' = [bidder |-> store.bidder, bid |-> store.bid,
                           refund |-> [store.refund EXCEPT ![u] = 0], blocked |-> store.blocked]
              /\ past' = [placed |-> past.placed,
                          back |-> [past.back EXCEPT ![u] = @ + Refund_claimable_refund(u)]]
              /\ Refund_claimable_refund(u) # 0
            BY <1>2, <2>5 DEF Refund_claim_refund, WriteAnd, Refund_Inv, Refund_Types
        <3> QED BY <1>2, <3>1, ContractAssumption DEF Refund_Inv, Refund_Types,
               Refund_BidsArePositive, Refund_NoBidLost, Refund_high_bid,
               Refund_claimable_refund, Refund_high_bidder
    <2> QED BY <2>1, <2>2, <2>3, <2>4, <2>5
<1>3. Refund_Inv /\ UNCHANGED vars => Refund_Inv'
    BY DEF Refund_Inv, Refund_Types, Refund_BidsArePositive, Refund_NoBidLost, vars,
       Refund_high_bid, Refund_claimable_refund, Refund_high_bidder
<1> QED BY <1>1, <1>2, <1>3

-----------------------------------------------------------------------------
(* auction_min_increment_missing.                                          *)
Increment_Types ==
    /\ store = [bidder |-> store.bidder, bid |-> store.bid, step |-> store.step]
    /\ store.bid \in Int
    /\ store.step \in Int \cup {None}
    /\ past \in [bids : Int]

\* Nobody bids before the auction is created.
Increment_UnsetHasNone ==
    /\ store.step = None => past.bids = 0
    /\ past.bids >= 0 /\ store.bid >= 0

Increment_Inv == Increment_Types /\ Increment_UnsetHasNone /\ Increment_EachBidRaises

\* Every deployment is in Increment_Inv; a call of the corrected contract, or
\* none, stays in it.
LEMMA Increment_Correct ==
    /\ now = 0 /\ Increment_Init => Increment_Inv
    /\ Secure /\ Increment_Inv /\ Increment_Next => Increment_Inv'
    /\ Increment_Inv /\ UNCHANGED vars => Increment_Inv'
<1>1. now = 0 /\ Increment_Init => Increment_Inv
    BY ContractAssumption DEF Increment_Init, Increment_Inv, Increment_Types,
       Increment_UnsetHasNone, Increment_EachBidRaises, Increment_EachBidRaises,
       Increment_high_bid, Increment_min_increment, Increment_Init
<1>2. ASSUME Secure, Increment_Inv, Increment_Next PROVE Increment_Inv'
    <2>1. PICK u \in Address, n \in 0..5 :
              (n <= 2 /\ Increment_initialize(n)) \/ Increment_bid(u, n)
        BY <1>2, Zenon DEF Increment_Next, Lib, Secure
    <2>2. CASE (n <= 2 /\ Increment_initialize(n))
        <3>1. /\ store' = [bidder |-> store.bidder, bid |-> 0, step |-> n]
              /\ past' = past
              /\ n <= 2
              /\ store.step = None
              /\ n > 0
            BY <1>2, <2>2 DEF Increment_initialize, Write, Increment_Inv, Increment_Types
        <3> QED BY <1>2, <3>1, ContractAssumption DEF Increment_Inv, Increment_Types,
               Increment_UnsetHasNone, Increment_EachBidRaises, Increment_high_bid,
               Increment_min_increment
    <2>3. CASE Increment_bid(u, n)
        <3>1. /\ store' = [bidder |-> u, bid |-> n, step |-> store.step]
              /\ past' = [bids |-> past.bids + 1]
              /\ store.step # None
              /\ n >= store.bid + store.step
            BY <1>2, <2>3 DEF Increment_bid, Increment_accepts, WriteAnd, Increment_Inv,
               Increment_Types
        <3> QED BY <1>2, <3>1, ContractAssumption DEF Increment_Inv, Increment_Types,
               Increment_UnsetHasNone, Increment_EachBidRaises, Increment_high_bid,
               Increment_min_increment
    <2> QED BY <2>1, <2>2, <2>3
<1>3. Increment_Inv /\ UNCHANGED vars => Increment_Inv'
    BY DEF Increment_Inv, Increment_Types, Increment_UnsetHasNone, Increment_EachBidRaises,
       vars, Increment_high_bid, Increment_min_increment
<1> QED BY <1>1, <1>2, <1>3

-----------------------------------------------------------------------------
(* single_approval_escrow_release.                                         *)
Approval_Types ==
    /\ store \in [buyer : Address \cup {None}, seller : Address \cup {None}, balance : Int,
                  buyer_approved : BOOLEAN, seller_approved : BOOLEAN]
    /\ past \in [deposited : Int, released : Int, consent : SUBSET Address]

\* An approval on record was given by the party it is recorded for, the parties
\* differ, and nothing moves before the escrow has a buyer.
Approval_IsConsent ==
    /\ store.buyer_approved => store.buyer \in past.consent
    /\ store.seller_approved => store.seller \in past.consent /\ store.seller # store.buyer
    /\ store.buyer = None => past.deposited = 0 /\ past.released = 0

Approval_Inv == Approval_Types /\ Approval_IsConsent /\ Approval_BothAgreed

\* Every deployment is in Approval_Inv; a call of the corrected contract, or
\* none, stays in it.
LEMMA Approval_Correct ==
    /\ now = 0 /\ Approval_Init => Approval_Inv
    /\ Secure /\ Approval_Inv /\ Approval_Next => Approval_Inv'
    /\ Approval_Inv /\ UNCHANGED vars => Approval_Inv'
<1>1. now = 0 /\ Approval_Init => Approval_Inv
    BY ContractAssumption DEF Approval_Init, Approval_Inv, Approval_Types, Approval_IsConsent,
       Approval_BothAgreed, Approval_BothAgreed, Approval_get_balance, Approval_Init
<1>2. ASSUME Secure, Approval_Inv, Approval_Next PROVE Approval_Inv'
    <2>1. PICK u \in Address, v \in Address, n \in -1..2 :
              Approval_initialize(u, v) \/ Approval_deposit(n) \/ Approval_approve(u) \/
              Approval_release
        BY <1>2, Zenon DEF Approval_Next, Lib, Secure
    <2>2. CASE Approval_initialize(u, v)
        <3>1. /\ store' = [buyer |-> u, seller |-> v, balance |-> 0, buyer_approved |-> FALSE,
                           seller_approved |-> FALSE]
              /\ past' = past
              /\ store.buyer = None
            BY <1>2, <2>2 DEF Approval_initialize, Write, Approval_Inv, Approval_Types
        <3> QED BY <1>2, <3>1, ContractAssumption DEF Approval_Inv, Approval_Types,
               Approval_IsConsent, Approval_BothAgreed, Approval_get_balance
    <2>3. CASE Approval_deposit(n)
        <3>1. /\ store' = [buyer |-> store.buyer, seller |-> store.seller,
                           balance |-> store.balance + n, buyer_approved |-> store.buyer_approved,
                           seller_approved |-> store.seller_approved]
              /\ past' = [deposited |-> past.deposited + n, released |-> past.released,
                          consent |-> past.consent]
              /\ store.buyer # None
              /\ past.deposited + n \in -1..MaxTrades
            BY <1>2, <2>3 DEF Approval_deposit, WriteAnd, Approval_Inv, Approval_Types
        <3> QED BY <1>2, <3>1, ContractAssumption DEF Approval_Inv, Approval_Types,
               Approval_IsConsent, Approval_BothAgreed, Approval_get_balance, MaxTrades
    <2>4. CASE Approval_approve(u)
        <3>1. CASE u = store.buyer
            <4>1. /\ store' = [buyer |-> store.buyer, seller |-> store.seller,
                               balance |-> store.balance,
                               buyer_approved |-> TRUE, seller_approved |-> store.seller_approved]
                  /\ past' = [deposited |-> past.deposited, released |-> past.released,
                              consent |-> past.consent \cup {u}]
                BY <1>2, <2>4, <3>1 DEF Approval_approve, WriteAnd, Approval_Inv, Approval_Types
            <4> QED BY <1>2, <3>1, <4>1
                   DEF Approval_Inv, Approval_Types, Approval_IsConsent, Approval_BothAgreed,
                       Approval_get_balance
        <3>2. CASE u # store.buyer
            <4>1. /\ store' = [buyer |-> store.buyer, seller |-> store.seller,
                               balance |-> store.balance,
                               buyer_approved |-> store.buyer_approved, seller_approved |-> TRUE]
                  /\ past' = [deposited |-> past.deposited, released |-> past.released,
                              consent |-> past.consent \cup {u}]
                  /\ u = store.seller /\ store.buyer # None
                BY <1>2, <2>4, <3>2 DEF Approval_approve, WriteAnd, Approval_Inv, Approval_Types
            <4> QED BY <1>2, <3>2, <4>1
                   DEF Approval_Inv, Approval_Types, Approval_IsConsent, Approval_BothAgreed,
                       Approval_get_balance
        <3> QED BY <3>1, <3>2
    <2>5. CASE Approval_release
        <3>1. /\ store' = [buyer |-> store.buyer, seller |-> store.seller, balance |-> 0,
                           buyer_approved |-> store.buyer_approved,
                           seller_approved |-> store.seller_approved]
              /\ past' = [deposited |-> past.deposited, released |-> past.released + store.balance,
                          consent |-> past.consent]
              /\ Approval_is_buyer_approved
              /\ Approval_is_seller_approved
            BY <1>2, <2>5 DEF Approval_release, Approval_pays, WriteAnd, Approval_Inv,
               Approval_Types
        <3> QED BY <1>2, <3>1, ContractAssumption DEF Approval_Inv, Approval_Types,
               Approval_IsConsent, Approval_BothAgreed, Approval_get_balance,
               Approval_is_buyer_approved, Approval_is_seller_approved
    <2> QED BY <2>1, <2>2, <2>3, <2>4, <2>5
<1>3. Approval_Inv /\ UNCHANGED vars => Approval_Inv'
    BY DEF Approval_Inv, Approval_Types, Approval_IsConsent, Approval_BothAgreed, vars,
       Approval_get_balance
<1> QED BY <1>1, <1>2, <1>3

-----------------------------------------------------------------------------
(* escrow_balance_check.                                                   *)
Overdraw_Types ==
    /\ store = [admin |-> store.admin, balance |-> store.balance, beneficiary |-> store.beneficiary]
    /\ store.balance \in [Ids -> Int]
    /\ past \in [net : [Ids -> Int], overdrawn : BOOLEAN]

Overdraw_Inv == Overdraw_Types /\ Overdraw_WithinDeposits

\* Every deployment is in Overdraw_Inv; a call of the corrected contract, or
\* none, stays in it.
LEMMA Overdraw_Correct ==
    /\ now = 0 /\ Overdraw_Init => Overdraw_Inv
    /\ Secure /\ Overdraw_Inv /\ Overdraw_Next => Overdraw_Inv'
    /\ Overdraw_Inv /\ UNCHANGED vars => Overdraw_Inv'
<1>1. ASSUME now = 0, Overdraw_Init PROVE Overdraw_Inv
    <2>1. Overdraw_Types
        BY <1>1, ContractAssumption DEF Overdraw_Init, Overdraw_Types, Ids,
           Overdraw_WithinDeposits, Overdraw_escrow_balance
    <2>2. Overdraw_WithinDeposits
        BY <1>1, ContractAssumption DEF Overdraw_Init, Overdraw_WithinDeposits, Ids,
           Overdraw_escrow_balance
    <2> QED BY <2>1, <2>2 DEF Overdraw_Inv
<1>2. ASSUME Secure, Overdraw_Inv, Overdraw_Next PROVE Overdraw_Inv'
    <2>1. PICK u \in Solo, i \in Ids, n \in -1..2 :
              Overdraw_initialize(u) \/ Overdraw_deposit(i, u, n) \/ Overdraw_release(i, n)
        BY <1>2, Zenon DEF Overdraw_Next, Lib, Secure
    <2>2. CASE Overdraw_initialize(u)
        <3>1. /\ store' = [admin |-> u, balance |-> store.balance,
                           beneficiary |-> store.beneficiary]
              /\ past' = past
              /\ store.admin = None
            BY <1>2, <2>2 DEF Overdraw_initialize, Write, Overdraw_Inv, Overdraw_Types
        <3> QED BY <1>2, <3>1, ContractAssumption DEF Overdraw_Inv, Overdraw_Types,
               Overdraw_WithinDeposits, Ids, Overdraw_escrow_balance
    <2>3. CASE Overdraw_deposit(i, u, n)
        <3>1. /\ store' = [admin |-> store.admin, balance |-> [store.balance EXCEPT ![i] = @ + n],
                           beneficiary |-> [store.beneficiary EXCEPT ![i] = u]]
              /\ past' = [net |-> [past.net EXCEPT ![i] = @ + n], overdrawn |-> past.overdrawn]
              /\ store.admin # None
              /\ store.balance[i] + n \in -1..MaxTrades
            BY <1>2, <2>3 DEF Overdraw_deposit, WriteAnd, Overdraw_Inv, Overdraw_Types
        <3> QED BY <1>2, <3>1, ContractAssumption DEF Overdraw_Inv, Overdraw_Types,
               Overdraw_WithinDeposits, Ids, Overdraw_escrow_balance, MaxTrades
    <2>4. CASE Overdraw_release(i, n)
        <3>1. /\ store' = [admin |-> store.admin, balance |-> [store.balance EXCEPT ![i] = @ - n],
                           beneficiary |-> store.beneficiary]
              /\ past' = [net |-> [past.net EXCEPT ![i] = @ - n], overdrawn |-> past.overdrawn \/
                          n > store.balance[i]]
              /\ store.balance[i] >= n
              /\ store.admin # None
              /\ store.beneficiary[i] # None
              /\ store.balance[i] - n \in -1..MaxTrades
            BY <1>2, <2>4 DEF Overdraw_release, Overdraw_release_lib, WriteAnd, Overdraw_Inv,
               Overdraw_Types
        <3> QED BY <1>2, <3>1, ContractAssumption DEF Overdraw_Inv, Overdraw_Types,
               Overdraw_WithinDeposits, Ids, Overdraw_escrow_balance, MaxTrades
    <2> QED BY <2>1, <2>2, <2>3, <2>4
<1>3. Overdraw_Inv /\ UNCHANGED vars => Overdraw_Inv'
    BY DEF Overdraw_Inv, Overdraw_Types, Overdraw_WithinDeposits, vars, Overdraw_escrow_balance
<1> QED BY <1>1, <1>2, <1>3

-----------------------------------------------------------------------------
(* nft_operator_collection_mixup.                                          *)
\* The approvals of one token.
Operator_For(approval, t) == {k \in approval : k[3] = t}

Operator_Types ==
    /\ store = [owner |-> store.owner, approval |-> store.approval]
    /\ past \in [given : [Ids -> Int], moves : [Ids -> Int]]

\* The moves made and the approvals left are within the approvals given: using
\* one spends it.
Operator_UsedWasGiven ==
    /\ store.owner = [t \in Ids |-> store.owner[t]] /\ IsFiniteSet(store.approval)
    /\ \A t \in Ids : past.moves[t] + Cardinality(Operator_For(store.approval, t)) <= past.given[t]

Operator_Inv == Operator_Types /\ Operator_UsedWasGiven /\ Operator_MovesApproved

\* Giving or spending one approval moves the count of its token by one and that
\* of no other.
LEMMA Operator_ApprovedFor ==
    ASSUME NEW A, NEW key, NEW s, NEW t, IsFiniteSet(A), key[3] = s
    PROVE  /\ IsFiniteSet(Operator_For(A, t)) /\ IsFiniteSet(Operator_For(A \cup {key}, t))
           /\ Cardinality(Operator_For(A, t)) \in Nat
           /\ Cardinality(Operator_For(A \cup {key}, t)) <=
              Cardinality(Operator_For(A, t)) + (IF t = s THEN 1 ELSE 0)
           /\ Cardinality(Operator_For(A \ {key}, t)) <=
                  Cardinality(Operator_For(A, t)) - (IF t = s /\ key \in A THEN 1 ELSE 0)
<1>1. PICK F : F = Operator_For(A, t)
    OBVIOUS
<1>2. F \subseteq A /\ IsFiniteSet(F) /\ Cardinality(F) \in Nat
    BY <1>1, FS_Subset, FS_CardinalityType DEF Operator_For
<1>3. CASE t = s
    <2>1. Operator_For(A \cup {key}, t) = F \cup {key} /\ Operator_For(A \ {key}, t) = F \ {key}
          /\ (key \in F <=> key \in A)
        BY <1>1, <1>3 DEF Operator_For
    <2>2. IsFiniteSet(F \cup {key}) /\ Cardinality(F \cup {key}) <= Cardinality(F) + 1
        BY <1>2, FS_AddElement
    <2>3. Cardinality(F \ {key}) = IF key \in F THEN Cardinality(F) - 1 ELSE Cardinality(F)
        BY <1>2, FS_RemoveElement
    <2>4. Cardinality(F \ {key}) <= Cardinality(F) - (IF key \in A THEN 1 ELSE 0)
        BY <1>2, <2>1, <2>3
    <2> QED BY <1>1, <1>2, <1>3, <2>1, <2>2, <2>4
<1>4. CASE t # s
    <2>1. Operator_For(A \cup {key}, t) = F /\ Operator_For(A \ {key}, t) = F
        BY <1>1, <1>4 DEF Operator_For
    <2> QED BY <1>1, <1>2, <1>4, <2>1
<1> QED BY <1>3, <1>4

\* So no token moved more often than it was approved.
LEMMA Operator_Follows == Operator_Types /\ Operator_UsedWasGiven => Operator_MovesApproved
<1> SUFFICES ASSUME Operator_Types, Operator_UsedWasGiven, NEW t \in Ids
        PROVE past.moves[t] <= past.given[t]
    BY DEF Operator_MovesApproved
<1>1. IsFiniteSet(Operator_For(store.approval, t))
    BY FS_Subset DEF Operator_UsedWasGiven, Operator_For
<1>2. Cardinality(Operator_For(store.approval, t)) \in Nat
    BY <1>1, FS_CardinalityType
<1> QED BY <1>2 DEF Operator_UsedWasGiven, Operator_Types

\* Every deployment is in Operator_Inv; a call of the corrected contract, or
\* none, stays in it.
LEMMA Operator_Correct ==
    /\ now = 0 /\ Operator_Init => Operator_Inv
    /\ Secure /\ Operator_Inv /\ Operator_Next => Operator_Inv'
    /\ Operator_Inv /\ UNCHANGED vars => Operator_Inv'
<1>1. now = 0 /\ Operator_Init => Operator_Inv
    <2> SUFFICES ASSUME Operator_Init PROVE Operator_Inv
        OBVIOUS
    <2>1. \A t \in Ids : Operator_For({}, t) = {}
        BY DEF Operator_For
    <2>2. Operator_Types /\ Operator_UsedWasGiven
        BY <2>1, FS_EmptySet DEF Operator_Init, Operator_Types, Operator_UsedWasGiven
    <2> QED BY <2>2, Operator_Follows DEF Operator_Inv
<1>2. ASSUME Secure, Operator_Inv, Operator_Next PROVE Operator_Inv'
    <2>1. PICK u \in Address, v \in Address, w \in Address, t \in Ids :
              Operator_mint(u, t) \/ Operator_approve(u, v, t) \/ Operator_transfer_from(u, v, w, t)
        BY <1>2, Zenon DEF Operator_Next, Lib, Secure
    <2>2. CASE Operator_mint(u, t)
        <3>1. PICK o : o = [store.owner EXCEPT ![t] = u]
            OBVIOUS
        <3>2. store' = [owner |-> o, approval |-> store.approval] /\ past' = past /\
                  o = [s \in Ids |-> o[s]]
            BY <1>2, <2>2, <3>1
               DEF Operator_mint, Write, Operator_Inv, Operator_Types, Operator_UsedWasGiven
        <3>3. Operator_Types' /\ Operator_UsedWasGiven'
            BY <1>2, <3>2 DEF Operator_Inv, Operator_Types, Operator_UsedWasGiven
        <3> QED BY <1>2, <3>2, <3>3 DEF Operator_Inv, Operator_MovesApproved
    <2>3. CASE Operator_approve(u, v, t)
        <3>1. PICK key, g : key = <<u, v, t>> /\ g = [past.given EXCEPT ![t] = past.given[t] + 1]
            OBVIOUS
        <3>2. store' = [store EXCEPT !.approval = store.approval \cup {key}] /\
                  past' = [past EXCEPT !.given = g]
            BY <2>3, <3>1 DEF Operator_approve, Operator_grants, WriteAnd
        <3>3. /\ store' = [owner |-> store.owner, approval |-> store.approval \cup {key}]
              /\ past' = [given |-> g, moves |-> past.moves]
            BY <1>2, <3>2 DEF Operator_Inv, Operator_Types
        <3>4. g \in [Ids -> Int] /\ \A s \in Ids : g[s] = past.given[s] + (IF s = t THEN 1 ELSE 0)
            BY <1>2, <3>1 DEF Operator_Inv, Operator_Types
        <3>5. IsFiniteSet(store.approval) /\ key[3] = t /\ IsFiniteSet(store.approval \cup {key})
            BY <1>2, <3>1, FS_AddElement DEF Operator_Inv, Operator_UsedWasGiven
        <3>6. ASSUME NEW s \in Ids
                  PROVE past.moves[s] + Cardinality(Operator_For(store.approval \cup {key}, s)) <=
                  g[s]
            <4>1. /\ Cardinality(Operator_For(store.approval, s)) \in Nat
                  /\ Cardinality(Operator_For(store.approval \cup {key}, s)) \in Nat
                  /\ Cardinality(Operator_For(store.approval \cup {key}, s)) <=
                     Cardinality(Operator_For(store.approval, s)) + (IF s = t THEN 1 ELSE 0)
                BY <3>5, Operator_ApprovedFor, FS_CardinalityType, ZenonT(60)
            <4>2. past.moves[s] \in Int /\ past.given[s] \in Int /\
                      past.moves[s] + Cardinality(Operator_For(store.approval, s)) <= past.given[s]
                BY <1>2 DEF Operator_Inv, Operator_Types, Operator_UsedWasGiven
            <4> QED BY <3>4, <4>1, <4>2
        <3>7. Operator_Types' /\ Operator_UsedWasGiven'
            BY <1>2, <3>3, <3>4, <3>5, <3>6 DEF Operator_Inv, Operator_Types, Operator_UsedWasGiven
        <3>8. Operator_MovesApproved'
            <4> SUFFICES ASSUME NEW s \in Ids PROVE past.moves[s] <= g[s]
                BY <3>3 DEF Operator_MovesApproved
            <4> QED BY <1>2, <3>4 DEF Operator_Inv, Operator_Types, Operator_MovesApproved
        <3> QED BY <3>7, <3>8 DEF Operator_Inv
    <2>4. CASE Operator_transfer_from(u, v, w, t)
        <3>1. PICK key : key = <<v, u, t>>
            OBVIOUS
        <3>2. PICK o, m : o = [store.owner EXCEPT ![t] = w]
                          /\ m = [past.moves EXCEPT ![t] = IF u = v THEN past.moves[t]
                                  ELSE past.moves[t] + 1]
            OBVIOUS
        <3>3. /\ store' = [store EXCEPT !.owner = o, !.approval = store.approval \ {key}]
              /\ past' = [past EXCEPT !.moves = m] /\ (u = v \/ key \in store.approval)
            <4>1. Len(key) = 3
                BY <3>1
            <4>2. Operator_moves(u, v, w, t, key)
                BY <2>4, <3>1 DEF Operator_transfer_from
            <4> QED BY <3>2, <4>1, <4>2 DEF Operator_moves, WriteAnd
        <3>4. /\ store' = [owner |-> o, approval |-> store.approval \ {key}] /\
                 past' = [given |-> past.given, moves |-> m]
              /\ o = [s \in Ids |-> o[s]]
            BY <1>2, <3>2, <3>3 DEF Operator_Inv, Operator_Types, Operator_UsedWasGiven
        <3>5. m \in [Ids -> Int] /\
                  \A s \in Ids : m[s] = past.moves[s] + (IF s = t /\ u # v THEN 1 ELSE 0)
            BY <1>2, <3>2 DEF Operator_Inv, Operator_Types
        <3>6. IsFiniteSet(store.approval) /\ key[3] = t /\ IsFiniteSet(store.approval \ {key})
            BY <1>2, <3>1, FS_Difference DEF Operator_Inv, Operator_UsedWasGiven
        <3>7. ASSUME NEW s \in Ids
                  PROVE m[s] + Cardinality(Operator_For(store.approval \ {key}, s)) <= past.given[s]
            <4>1. /\ Cardinality(Operator_For(store.approval, s)) \in Nat
                  /\ Cardinality(Operator_For(store.approval \ {key}, s)) <=
                         Cardinality(Operator_For(store.approval, s)) - (IF s = t /\
                               key \in store.approval THEN 1 ELSE 0)
                BY <3>6, Operator_ApprovedFor
            <4>2. Cardinality(Operator_For(store.approval \ {key}, s)) \in Nat
                BY <3>6, FS_Subset, FS_CardinalityType DEF Operator_For
            <4>3. past.moves[s] \in Int /\ past.given[s] \in Int /\
                      past.moves[s] + Cardinality(Operator_For(store.approval, s)) <= past.given[s]
                BY <1>2 DEF Operator_Inv, Operator_Types, Operator_UsedWasGiven
            <4> QED BY <3>3, <3>5, <4>1, <4>2, <4>3
        <3>8. Operator_Types' /\ Operator_UsedWasGiven'
            BY <1>2, <3>4, <3>5, <3>6, <3>7 DEF Operator_Inv, Operator_Types, Operator_UsedWasGiven
        <3>9. Operator_MovesApproved'
            <4> SUFFICES ASSUME NEW s \in Ids PROVE m[s] <= past.given[s]
                BY <3>4 DEF Operator_MovesApproved
            <4>1. Cardinality(Operator_For(store.approval \ {key}, s)) \in Nat
                BY <3>6, FS_Subset, FS_CardinalityType DEF Operator_For
            <4> QED BY <1>2, <3>5, <3>7, <4>1 DEF Operator_Inv, Operator_Types
        <3> QED BY <3>8, <3>9 DEF Operator_Inv
    <2> QED BY <2>1, <2>2, <2>3, <2>4
<1>3. Operator_Inv /\ UNCHANGED vars => Operator_Inv'
    BY DEF Operator_Inv, Operator_Types, Operator_UsedWasGiven, Operator_MovesApproved, vars
<1> QED BY <1>1, <1>2, <1>3

-----------------------------------------------------------------------------
(* no_slippage.                                                            *)
\* What an account was quoted: the amount in and the amount out.
Slippage_Quote == [amount : {-1, 1, 2}, out : Int]

Slippage_Types ==
    /\ store \in [a : Int, b : Int]
    /\ past \in [quoted : [Address -> Slippage_Quote \cup {None}], short : BOOLEAN]

Slippage_Inv == Slippage_Types /\ Slippage_PaidAsQuoted

\* Every deployment is in Slippage_Inv; a call of the corrected contract, or
\* none, stays in it.
LEMMA Slippage_Correct ==
    /\ now = 0 /\ Slippage_Init => Slippage_Inv
    /\ Secure /\ Slippage_Inv /\ Slippage_Next => Slippage_Inv'
    /\ Slippage_Inv /\ UNCHANGED vars => Slippage_Inv'
<1>1. now = 0 /\ Slippage_Init => Slippage_Inv
    BY ContractAssumption DEF Slippage_Init, Slippage_Inv, Slippage_Types,
       Slippage_PaidAsQuoted, Slippage_PaidAsQuoted, Slippage_Init
<1>2. ASSUME Secure, Slippage_Inv, Slippage_Next PROVE Slippage_Inv'
    <2>1. \/ \E a \in {0, 2, 4}, b \in {0, 2, 4} : Slippage_init(a, b)
          \/ \E u \in Address, n \in {-1, 1, 2} : Slippage_quote(u, n)
          \/ \E u \in Address :
             (past.quoted[u] # None /\ Slippage_swap(u, past.quoted[u].amount, past.quoted[u].out))
        BY <1>2, Zenon DEF Slippage_Next, Lib, Secure
    <2>2. ASSUME NEW a \in {0, 2, 4}, NEW b \in {0, 2, 4},
                 Slippage_init(a, b)
          PROVE  Slippage_Inv'
        <3>1. /\ store' = [a |-> a, b |-> b]
              /\ past' = past
            BY <1>2, <2>2 DEF Slippage_init, Write, Slippage_Inv, Slippage_Types
        <3> QED BY <1>2, <3>1, ContractAssumption DEF Slippage_Inv, Slippage_Types,
               Slippage_PaidAsQuoted
    <2>3. ASSUME NEW u \in Address, NEW n \in {-1, 1, 2},
                 Slippage_quote(u, n)
          PROVE  Slippage_Inv'
        <3>1. PICK out \in Int : out = Slippage_calculate_out(n)
            <4>1. n * store.b \in Int /\ store.a + n \in Int /\ store.a + n # 0
                BY <1>2, <2>3 DEF Slippage_quote, Slippage_seeded, Slippage_reserve_a, Slippage_Inv,
                   Slippage_Types
            <4> QED BY <4>1, QuotientInt
                   DEF Slippage_calculate_out, Slippage_reserve_a, Slippage_reserve_b
        <3>2. PICK q : q = [amount |-> n, out |-> out]
            OBVIOUS
        <3>3. store' = store /\ past' = [past EXCEPT !.quoted[u] = q]
            BY <2>3, <3>1, <3>2 DEF Slippage_quote, Observe
        <3>4. q \in Slippage_Quote
            BY <3>2 DEF Slippage_Quote
        <3>5. past' = [quoted |-> [past.quoted EXCEPT ![u] = q], short |-> past.short]
            BY <1>2, <3>3 DEF Slippage_Inv, Slippage_Types
        <3> QED BY <1>2, <3>3, <3>4, <3>5 DEF Slippage_Inv, Slippage_Types, Slippage_PaidAsQuoted
    <2>4. ASSUME NEW u \in Address,
                 (past.quoted[u] # None /\
                  Slippage_swap(u, past.quoted[u].amount, past.quoted[u].out))
          PROVE  Slippage_Inv'
        <3>1. PICK n \in {-1, 1, 2}, min \in Int :
                  n = past.quoted[u].amount /\ min = past.quoted[u].out
            BY <1>2, <2>4 DEF Slippage_Inv, Slippage_Types, Slippage_Quote
        <3>2. PICK out \in Int : out = Slippage_calculate_out(n)
            <4>1. n * store.b \in Int /\ store.a + n \in Int /\ store.a + n # 0
                BY <1>2, <2>4, <3>1
                   DEF Slippage_swap, Slippage_seeded, Slippage_reserve_a, Slippage_Inv,
                   Slippage_Types
            <4> QED BY <4>1, QuotientInt
                   DEF Slippage_calculate_out, Slippage_reserve_a, Slippage_reserve_b
        <3>3. Slippage_apply_swap(u, n, out) /\ out >= min
            BY <2>4, <3>1, <3>2 DEF Slippage_swap
        <3>4. PICK q : q = [past.quoted EXCEPT ![u] = None]
            OBVIOUS
        <3>5. PICK s \in BOOLEAN :
                  s = (past.short \/ (/\ past.quoted[u] # None /\ past.quoted[u].amount = n
                                                    /\ out < past.quoted[u].out))
            OBVIOUS
        <3>6. ~s
            <4>1. ~past.short
                BY <1>2 DEF Slippage_Inv, Slippage_PaidAsQuoted
            <4>2. ~(out < past.quoted[u].out)
                BY <3>1, <3>3
            <4> QED BY <3>5, <4>1, <4>2
        <3>7. store' = [a |-> store.a + n, b |-> store.b - out] /\
                  past' = [past EXCEPT !.quoted = q, !.short = s]
            BY <3>3, <3>4, <3>5 DEF Slippage_apply_swap, WriteAnd
        <3>8. past' = [quoted |-> q, short |-> s]
            BY <1>2, <3>7 DEF Slippage_Inv, Slippage_Types
        <3>9. q \in [Address -> Slippage_Quote \cup {None}]
            BY <1>2, <3>4 DEF Slippage_Inv, Slippage_Types
        <3> QED BY <1>2, <3>6, <3>7, <3>8, <3>9
               DEF Slippage_Inv, Slippage_Types, Slippage_PaidAsQuoted
    <2> QED BY <2>1, <2>2, <2>3, <2>4
<1>3. Slippage_Inv /\ UNCHANGED vars => Slippage_Inv'
    BY DEF Slippage_Inv, Slippage_Types, Slippage_PaidAsQuoted, vars
<1> QED BY <1>1, <1>2, <1>3
=============================================================================
