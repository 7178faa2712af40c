------------------------------ MODULE Scanners ------------------------------
(***************************************************************************)
(* Fixtures of scan registries: who reports, what it costs, what stays on  *)
(* record.                                                                 *)
(***************************************************************************)
EXTENDS Contract, Functions

-----------------------------------------------------------------------------
(* scanner_impersonation.  One contract is scanned; past.signed holds the  *)
(* scanners behind the history, in order, as they signed it.               *)
MaxScans == 2           \* bound on a history
ScanFindings == {"clean", "critical"}

Imper_Init ==
    /\ crate = "scanner_impersonation"
    /\ store = [admin |-> None, scanners |-> {}, latest |-> None, history |-> <<>>]
    /\ past = [signed |-> <<>>]

Imper_initialize(u) == store.admin = None /\ Write([store EXCEPT !.admin = u])

\* signer signs the invocation.
Imper_require_admin(signer) == store.admin # None /\ signer = store.admin

Imper_require_admin_lib(signer) == Imper_require_admin(signer)

Imper_add_scanner_lib(signer, u) ==
    Imper_require_admin_lib(signer) /\ Write([store EXCEPT !.scanners = @ \union {u}])

Imper_add_scanner(signer, u) ==
    Imper_require_admin(signer) /\ Write([store EXCEPT !.scanners = @ \union {u}])

Imper_is_scanner(u) == u \in store.scanners

\* Needs no signature of the scanner.
Imper_submit_scan_lib(signer, scanner, findings) ==
    LET result == [scanner |-> scanner, timestamp |-> now, findings |-> findings]
    IN  /\ Imper_is_scanner(scanner)
        /\ Len(store.history) < MaxScans
        /\ WriteAnd([store EXCEPT !.latest = result, !.history = Append(@, result)],
                    [signed |-> Append(past.signed, signer)])

Imper_submit_scan(signer, scanner, findings) ==
    signer = scanner /\ Imper_submit_scan_lib(signer, scanner, findings)

Imper_get_scan == store.latest

Imper_get_history == store.history

Imper_Next ==
    /\ crate = "scanner_impersonation"
    /\ \/ now < 1 /\ CloseLedger
       \/ \E signer, u \in Address, findings \in ScanFindings :
            \/ Lib /\ (Imper_initialize(u) \/ Imper_add_scanner_lib(signer, u)
                       \/ Imper_submit_scan_lib(signer, u, findings))
            \/ Secure /\ (Imper_initialize(u) \/ Imper_add_scanner(signer, u)
                          \/ Imper_submit_scan(signer, u, findings))

\* Every entry of the history was signed by the scanner it names, the entries
\* are in order of time, and the latest scan is the last of them.
Imper_HistoryIsSigned ==
    LET h == Imper_get_history
    IN  /\ Len(h) = Len(past.signed)
        /\ \A i \in DOMAIN h : h[i].scanner = past.signed[i]
        /\ \A i, j \in DOMAIN h : i <= j => h[i].timestamp <= h[j].timestamp
        /\ Imper_get_scan = IF h = <<>> THEN None ELSE h[Len(h)]

-----------------------------------------------------------------------------
(* scanner_fee_unverified.  The registry may be deployed with the crate's  *)
(* fee token, which keeps a part of every transfer, or with the standard   *)
(* one.  past.received is what arrived from each scanner.                  *)
REGISTRATION_FEE == 2
FeeTokens == {"FeeToken", "StandardToken"}

Fee_Init ==
    /\ crate = "scanner_fee_unverified"
    /\ store = [token |-> None, registered |-> {},
                balance |-> [t \in FeeTokens |-> Zero], collected |-> [t \in FeeTokens |-> 0]]
    /\ past = [received |-> Zero]

\* May be repeated: another token takes the place of the first.
Fee_initialize(t) == Write([store EXCEPT !.token = t])

Fee_mint(t, u, n) ==
    /\ store.balance[t][u] = 0 /\ past.received[u] < REGISTRATION_FEE
    /\ Write([store EXCEPT !.balance[t][u] = n])

\* What arrives of a transfer: 90 of 100, or all.
Fee_arrives(t, n) == IF t = "FeeToken" THEN Quotient(n, Whole) ELSE n

Fee_transfer(t, u, n) ==
    /\ store.balance[t][u] >= n
    /\ WriteAnd([store EXCEPT !.balance[t][u] = @ - n, !.collected[t] = @ + Fee_arrives(t, n),
                              !.registered = @ \union {u}],
                [received |-> [past.received EXCEPT ![u] = @ + Fee_arrives(t, n)]])

Fee_register_scanner_lib(u) ==
    store.token # None /\ Fee_transfer(store.token, u, REGISTRATION_FEE)

\* Registers for any amount.
Fee_vulnerable_entry_lib(u, n) ==
    store.token # None /\ Fee_transfer(store.token, u, n)

Fee_register_scanner(u) ==
    /\ store.token # None
    /\ Fee_arrives(store.token, REGISTRATION_FEE) >= REGISTRATION_FEE
    /\ Fee_transfer(store.token, u, REGISTRATION_FEE)

Fee_is_registered(u) == u \in store.registered

Fee_Next ==
    /\ crate = "scanner_fee_unverified"
    /\ \E t \in FeeTokens, u \in Address :
        \/ Fee_mint(t, u, REGISTRATION_FEE)
        \/ Lib /\ (Fee_initialize(t) \/ Fee_register_scanner_lib(u)
                   \/ Fee_vulnerable_entry_lib(u, 1))
        \/ Secure /\ (Fee_initialize(t) \/ Fee_register_scanner(u))

\* A registered scanner's fee has arrived in full.
Fee_ArrivedInFull == \A u \in Address : Fee_is_registered(u) => past.received[u] >= REGISTRATION_FEE

-----------------------------------------------------------------------------
(* public_archive_restore.  Records are independent; past.by is who signed *)
(* the last change of a record.                                            *)
Archive_Init ==
    /\ crate = "public_archive_restore"
    /\ store = [admin |-> None, active |-> None]
    /\ past = [by |-> None]

Archive_initialize(u) == store.admin = None /\ Write([store EXCEPT !.admin = u])

Archive_require_admin(signer) == store.admin # None /\ signer = store.admin

Archive_require_admin_lib(signer) == Archive_require_admin(signer)

Archive_set(signer, active) == WriteAnd([store EXCEPT !.active = active], [by |-> signer])

Archive_register(signer) == Archive_require_admin_lib(signer) /\ Archive_set(signer, TRUE)

Archive_archive(signer) == Archive_require_admin_lib(signer) /\ Archive_set(signer, FALSE)

\* Restores also what was never registered.
Archive_restore_lib(signer) == Archive_set(signer, TRUE)

Archive_restore(signer) == Archive_require_admin(signer) /\ Archive_restore_lib(signer)

Archive_is_active == store.active = TRUE

Archive_get_admin == store.admin

Archive_Next ==
    /\ crate = "public_archive_restore"
    /\ \E u \in Address :
        \/ Lib /\ (Archive_initialize(u) \/ Archive_register(u) \/ Archive_archive(u)
                   \/ Archive_restore_lib(u))
        \/ Secure /\ (Archive_initialize(u) \/ Archive_register(u) \/ Archive_archive(u)
                      \/ Archive_restore(u))

\* A record is active because the admin said so last.
Archive_ActiveByAdmin == Archive_is_active => past.by = Archive_get_admin

-----------------------------------------------------------------------------
(* scan_result_overwrite.  A severity is its rank, 0 to 4; the detail of a *)
(* result tells it from the others.  past.submitted holds them in order.   *)
HISTORY_CAP == 2        \* stands for 50
MaxResults == 4         \* bound on the submissions

\* A stored result is not an absent one.
ASSUME ResultAssumption == None \notin [severity : Int, detail : Nat]

Worst_Init ==
    /\ crate = "scan_result_overwrite"
    /\ store = [latest |-> None, highest |-> None, history |-> <<>>]
    /\ past = [submitted |-> <<>>]

Worst_submit_lib(severity) ==
    LET result == [severity |-> severity, detail |-> Len(past.submitted)]
    IN  /\ Len(past.submitted) < MaxResults
        /\ WriteAnd([store EXCEPT !.latest = result],
                    [submitted |-> Append(past.submitted, result)])

\* Informational (0) for a positive amount, Critical (4) otherwise.
Worst_vulnerable_entry_lib(n) == Worst_submit_lib(IF n > 0 THEN 0 ELSE 4)

Worst_rank(result) == result.severity

Worst_submit(severity) ==
    LET result == [severity |-> severity, detail |-> Len(past.submitted)]
        worse == store.highest = None \/ Worst_rank(result) >= Worst_rank(store.highest)
        kept == IF Len(store.history) >= HISTORY_CAP THEN Tail(store.history) ELSE store.history
    IN  /\ Len(past.submitted) < MaxResults
        /\ WriteAnd([latest |-> result, highest |-> IF worse THEN result ELSE store.highest,
                     history |-> Append(kept, result)],
                    [submitted |-> Append(past.submitted, result)])

Worst_latest == store.latest

Worst_highest == store.highest

Worst_history == store.history

Worst_Next ==
    /\ crate = "scan_result_overwrite"
    /\ \E severity \in {0, 2, 4}, n \in 0..1 :
        \/ Lib /\ (Worst_submit_lib(severity) \/ Worst_vulnerable_entry_lib(n))
        \/ Secure /\ Worst_submit(severity)

\* The worst result ever submitted stays on record after the history has
\* dropped it, and the history is the last submissions, in order.
Worst_NeverForgotten ==
    LET all == past.submitted
        n == Len(all)
    IN  /\ n > 0 => /\ Worst_latest = all[n]
                    /\ \A i \in DOMAIN all : Worst_rank(all[i]) <= Worst_rank(Worst_highest)
                    /\ Worst_highest \in Range(all)
        /\ Worst_history = IF n <= HISTORY_CAP THEN all ELSE SubSeq(all, n - HISTORY_CAP + 1, n)

-----------------------------------------------------------------------------
(* verifier_threshold_ignored.  Reports are independent.  past.final is    *)
(* the approvals and the threshold when a report was finalized.            *)
Threshold_Init ==
    /\ crate = "verifier_threshold_ignored"
    /\ store = [threshold |-> None, approvals |-> 0, finalized |-> FALSE]
    /\ past = [final |-> None]

\* Any account that signs may set it.
Threshold_set_threshold_lib(n) == Write([store EXCEPT !.threshold = n])

Threshold_set_threshold(n) == n # 0 /\ Threshold_set_threshold_lib(n)

\* A verifier may approve again.
Threshold_approve == store.approvals < 3 /\ Write([store EXCEPT !.approvals = @ + 1])

Threshold_approval_count == store.approvals

Threshold_is_finalized == store.finalized

Threshold_finalized(threshold) ==
    WriteAnd([store EXCEPT !.finalized = TRUE],
             [final |-> [approvals |-> Threshold_approval_count, threshold |-> threshold]])

Threshold_finalize_report_lib ==
    /\ Threshold_approval_count # 0
    /\ Threshold_finalized(IF store.threshold = None THEN 1 ELSE store.threshold)

Threshold_finalize_report ==
    /\ store.threshold # None
    /\ Threshold_approval_count >= store.threshold
    /\ Threshold_finalized(store.threshold)

Threshold_Next ==
    /\ crate = "verifier_threshold_ignored"
    /\ \E n \in 0..3 :
        \/ Lib /\ (Threshold_set_threshold_lib(n) \/ Threshold_approve
                   \/ Threshold_finalize_report_lib)
        \/ Secure /\ (Threshold_set_threshold(n) \/ Threshold_approve
                      \/ Threshold_finalize_report)

\* A report is final only with the approvals of the threshold in force, at
\* least one.
Threshold_FinalIsApproved ==
    Threshold_is_finalized => past.final.approvals >= past.final.threshold
                              /\ past.final.approvals > 0

-----------------------------------------------------------------------------
(* severity_reporter_trust.  past.by is the reputation of the last         *)
(* reporter of the target's risk.                                          *)
MIN_REPUTATION == 1     \* stands for 10

Trust_Init ==
    /\ crate = "severity_reporter_trust"
    /\ store = [reputation |-> Zero, risk |-> 0]
    /\ past = [by |-> None]

\* Anyone may add, with any sign.
Trust_add_reputation(u, delta) ==
    /\ store.reputation[u] + delta \in -1..2
    /\ Write([store EXCEPT !.reputation[u] = @ + delta])

Trust_get_reputation(u) == store.reputation[u]

Trust_report_lib(u, severity) ==
    WriteAnd([store EXCEPT !.risk = severity], [by |-> Trust_get_reputation(u)])

\* The reporter's own risk, with the amount as severity, 0 to 4.
Trust_vulnerable_entry_lib(u, n) ==
    Trust_report_lib(u, IF n >= 4 THEN 4 ELSE IF n > 0 THEN n ELSE 0)

Trust_report(u, severity) ==
    Trust_get_reputation(u) >= MIN_REPUTATION /\ Trust_report_lib(u, severity)

Trust_get_risk == store.risk

Trust_Next ==
    /\ crate = "severity_reporter_trust"
    /\ \E u \in Address, delta \in {-1, 1}, severity \in {0, 4}, n \in {-1, 2, 5} :
        \/ Lib /\ (Trust_add_reputation(u, delta) \/ Trust_report_lib(u, severity)
                   \/ Trust_vulnerable_entry_lib(u, n))
        \/ Secure /\ (Trust_add_reputation(u, delta) \/ Trust_report(u, severity))

\* A contract's risk was last set by a scanner with the reputation for it then.
Trust_RiskFromReputed ==
    /\ past.by # None => past.by >= MIN_REPUTATION
    /\ Trust_get_risk # 0 => past.by # None
-----------------------------------------------------------------------------
(* report_hash_unbound_contract.  A signature is the digest of a message;  *)
(* past.made holds the messages that were signed.                          *)
ReportTargets == {"first", "second"}
ReportHashes == {"clean", "dirty"}

Unbound_Init ==
    /\ crate = "report_hash_unbound_contract"
    /\ store = [report |-> [t \in ReportTargets |-> None]]
    /\ past = [made |-> {}, wrong |-> FALSE]

Unbound_vulnerable_report_signature(m) == [hash |-> m.hash]

\* The nonce is part of the message and is kept nowhere: one value stands for all.
Unbound_secure_report_signature(m) == m

\* A scanner has the digest of its report on a target computed.
Unbound_report_signature(m) == Observe([past EXCEPT !.made = @ \cup {m}])

Unbound_store(m) ==
    WriteAnd([store EXCEPT !.report[m.target] = m.hash],
             [past EXCEPT !.wrong = @ \/ m \notin past.made])

Unbound_submit_report_lib(m, signature) ==
    signature = Unbound_vulnerable_report_signature(m) /\ Unbound_store(m)

Unbound_submit_report(m, signature) ==
    signature = Unbound_secure_report_signature(m) /\ Unbound_store(m)

Unbound_get_report(t) == store.report[t]

Unbound_Next ==
    /\ crate = "report_hash_unbound_contract"
    /\ \E m, signed \in [target : ReportTargets, scanner : Address, hash : ReportHashes] :
         \/ Unbound_report_signature(m)
         \/ /\ signed \in past.made
            /\ \/ Lib /\ Unbound_submit_report_lib(m, Unbound_vulnerable_report_signature(signed))
               \/ Secure /\ Unbound_submit_report(m, Unbound_secure_report_signature(signed))

\* A signature made for one target and one scanner stores no report on another
\* target or by another scanner.
Unbound_ReportsAsSigned ==
    /\ ~past.wrong
    /\ \A t \in ReportTargets :
         Unbound_get_report(t) # None =>
             \E m \in past.made : m.target = t /\ m.hash = Unbound_get_report(t)
=============================================================================
