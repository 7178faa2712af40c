--------------------------- MODULE RegistryProofs ---------------------------
(***************************************************************************)
(* Theorems about Registry, and about a reader that walks its pages, for   *)
(* every set of accounts and contracts, every integer width and bound and  *)
(* every page size.                                                        *)
(***************************************************************************)
EXTENDS RegistryReader, TLAPS, FiniteSetTheorems

\* The saturating arithmetic of ScannerScore stays within i32.
LEMMA SaturatingInRange ==
    ASSUME NEW n \in I32_MIN..I32_MAX
    PROVE  saturating_add(n) \in I32_MIN..I32_MAX /\ saturating_sub(n) \in I32_MIN..I32_MAX
BY WidthAssumption DEF saturating_add, saturating_sub

\* push_unique keeps a list of contracts a list of contracts.
LEMMA PushUniqueType ==
    ASSUME NEW q \in Seq(Contracts), NEW c \in Contracts
    PROVE  push_unique(q, c) \in Seq(Contracts)
BY DEF push_unique

\* A step of the contract is one of its invocations or the close of a ledger.
LEMMA TypeInit == Init => TypeOK
BY WidthAssumption, LimitAssumption DEF Init, TypeOK

LEMMA TypeStep == TypeOK /\ [Next]_vars => TypeOK'
<1> SUFFICES ASSUME TypeOK, [Next]_vars PROVE TypeOK'
    OBVIOUS
<1> USE DEF TypeOK
<1>1. ASSUME NEW auth \in Address, NEW a \in Address, initialize(auth, a) PROVE TypeOK'
    BY <1>1 DEF initialize, scanVars
<1>2. ASSUME NEW auth \in Address, NEW s \in Address, add_scanner(auth, s) PROVE TypeOK'
    <2>1. scannerCount' \in 0..U32_MAX
        BY <1>2, WidthAssumption DEF add_scanner, count_after_add
    <2>2. event' \in Event
        BY <1>2 DEF add_scanner, Event
    <2> QED BY <1>2, <2>1, <2>2 DEF add_scanner, scanVars
<1>3. ASSUME NEW auth \in Address, NEW s \in Address, remove_scanner(auth, s) PROVE TypeOK'
    <2>1. scannerCount' \in 0..U32_MAX
        BY <1>3, WidthAssumption DEF remove_scanner
    <2>2. event' \in Event
        BY <1>3 DEF remove_scanner, Event
    <2> QED BY <1>3, <2>1, <2>2 DEF remove_scanner, scanVars
<1>4. ASSUME NEW auth \in Address, NEW s \in Address, NEW c \in Contracts,
             NEW h \in Hashes, NEW m \in SeverityMaps, submit_scan(auth, s, c, h, m)
      PROVE  TypeOK'
    <2> DEFINE r == [scanner |-> s, timestamp |-> now, findings_hash |-> h, severity_counts |-> m]
    <2>1. r \in ScanResult
        BY <1>4 DEF submit_scan, ScanResult
    <2>2. r.scanner = s
        OBVIOUS
    <2>3. store_result(c, r)
        BY <1>4 DEF submit_scan
    <2> HIDE DEF r
    <2>4. scanned' \in Seq(Contracts)
        BY <2>3, PushUniqueType DEF store_result
    <2>5. score' \in [Address -> I32_MIN..I32_MAX]
        BY <2>2, <2>3, SaturatingInRange DEF store_result
    <2>6. history' \in [Contracts -> Seq(ScanResult)] /\ latest' \in [Contracts -> ScanResult \cup {NoScan}]
        BY <2>1, <2>3 DEF store_result
    <2>7. severityIndex' \subseteq Contracts
        BY <2>3 DEF store_result
    <2> QED BY <1>4, <2>4, <2>5, <2>6, <2>7 DEF submit_scan
<1>5. ASSUME NEW auth \in Address, NEW s \in Address, dispute_scan(auth, s) PROVE TypeOK'
    BY <1>5, SaturatingInRange DEF dispute_scan, scanVars
<1>6. ASSUME NEW auth \in Address, NEW s \in Address, NEW c \in Contracts,
             NEW m \in MetadataValues, set_metadata(auth, s, c, m)
      PROVE  TypeOK'
    BY <1>6 DEF set_metadata, scanVars
<1>7. CASE CloseLedger
    BY <1>7, LimitAssumption DEF CloseLedger, scanVars
<1>8. CASE UNCHANGED vars
    BY <1>8 DEF vars, scanVars
<1> QED BY <1>1, <1>2, <1>3, <1>4, <1>5, <1>6, <1>7, <1>8 DEF Next, Invoke

\* Every storage key of the registry keeps its type for ever; in particular
\* scores saturate within i32 and the scanner count stays a u32.
THEOREM TypeCorrect == Spec => []TypeOK
BY TypeInit, TypeStep, PTL DEF Spec

-----------------------------------------------------------------------------
(* The copies of a scan.  LatestIsNewest is inductive with TypeOK alone;   *)
(* IndexesAgree needs its three conjuncts together, and MetadataBacked     *)
(* needs both: set_metadata reads latest, the claim is about scanned.      *)

\* What a list and a contract look like after push_unique.
LEMMA PushUniqueContains ==
    ASSUME NEW q \in Seq(Contracts), NEW c \in Contracts
    PROVE  \A d \in Contracts : Contains(push_unique(q, c), d) <=> (Contains(q, d) \/ d = c)
<1>1. CASE Contains(q, c)
    BY <1>1 DEF push_unique
<1>2. CASE ~Contains(q, c)
    <2> DEFINE n == Len(q)
               t == Append(q, c)
    <2>1. push_unique(q, c) = t
        BY <1>2 DEF push_unique
    <2>2. n \in Nat /\ Len(t) = n + 1 /\ t[n + 1] = c /\ \A i \in 1..n : t[i] = q[i]
        OBVIOUS
    <2>3. \A d \in Contracts : Contains(t, d) <=> (Contains(q, d) \/ d = c)
        <3> SUFFICES ASSUME NEW d \in Contracts
                     PROVE  Contains(t, d) <=> (Contains(q, d) \/ d = c)
            OBVIOUS
        <3> HIDE DEF t
        <3>1. ASSUME Contains(t, d) PROVE Contains(q, d) \/ d = c
            BY <2>2, <3>1 DEF Contains
        <3>2. ASSUME Contains(q, d) PROVE Contains(t, d)
            BY <2>2, <3>2 DEF Contains
        <3>3. ASSUME d = c PROVE Contains(t, d)
            BY <2>2, <3>3 DEF Contains
        <3> QED BY <3>1, <3>2, <3>3
    <2> QED BY <2>1, <2>3
<1> QED BY <1>1, <1>2

LEMMA PushUniqueInjective ==
    ASSUME NEW q \in Seq(Contracts), NEW c \in Contracts,
           \A i, j \in 1..Len(q) : q[i] = q[j] => i = j
    PROVE  LET t == push_unique(q, c)
           IN  \A i, j \in 1..Len(t) : t[i] = t[j] => i = j
<1>1. CASE Contains(q, c)
    BY <1>1 DEF push_unique
<1>2. CASE ~Contains(q, c)
    BY <1>2 DEF push_unique, Contains
<1> QED BY <1>1, <1>2

LEMMA ScanInvInit == Init => ScanCopiesAgree
<1> SUFFICES ASSUME Init PROVE ScanCopiesAgree
    OBVIOUS
<1>1. LatestIsNewest /\ MetadataBacked
    BY DEF Init, LatestIsNewest, MetadataBacked
<1>2. IndexesAgree
    BY DEF Init, IndexesAgree, Contains
<1> QED BY <1>1, <1>2 DEF ScanCopiesAgree

\* Steps that touch neither the scans nor the metadata.
LEMMA ScanInvFrame ==
    ASSUME ScanCopiesAgree, UNCHANGED <<scanVars, metadata>> PROVE ScanCopiesAgree'
BY DEF ScanCopiesAgree, LatestIsNewest, IndexesAgree, MetadataBacked, scanVars

LEMMA ScanInvSubmit ==
    ASSUME TypeOK, ScanCopiesAgree, NEW c \in Contracts, NEW r \in ScanResult,
           store_result(c, r), UNCHANGED metadata
    PROVE  ScanCopiesAgree'
<1> USE DEF ScanCopiesAgree
<1>0. /\ history \in [Contracts -> Seq(ScanResult)] /\ scanned \in Seq(Contracts)
      /\ latest \in [Contracts -> ScanResult \cup {NoScan}] /\ severityIndex \subseteq Contracts
    BY DEF TypeOK
<1>1. /\ latest' = [latest EXCEPT ![c] = r] /\ history' = [history EXCEPT ![c] = Append(@, r)]
      /\ severityIndex' = severityIndex \cup {c} /\ scanned' = push_unique(scanned, c)
    BY DEF store_result
<1>2. /\ history'[c] # <<>> /\ Last(history'[c]) = r
      /\ \A d \in Contracts \ {c} : history'[d] = history[d] /\ latest'[d] = latest[d]
      /\ latest'[c] = r
    BY <1>0, <1>1 DEF Last
<1>3. LatestIsNewest'
    BY <1>2 DEF LatestIsNewest
<1>4. \A d \in Contracts : Contains(scanned', d) <=> (Contains(scanned, d) \/ d = c)
    BY <1>0, <1>1, PushUniqueContains
<1>5. IndexesAgree'
    <2>1. \A i, j \in 1..Len(scanned') : scanned'[i] = scanned'[j] => i = j
        BY <1>0, <1>1, PushUniqueInjective DEF IndexesAgree
    <2>2. \A d \in Contracts : history'[d] # <<>> <=> d \in severityIndex'
        BY <1>1, <1>2 DEF IndexesAgree
    <2>3. \A d \in Contracts : d \in severityIndex' <=> Contains(scanned', d)
        BY <1>1, <1>4 DEF IndexesAgree
    <2> QED BY <2>1, <2>2, <2>3 DEF IndexesAgree
<1>6. MetadataBacked'
    BY <1>4 DEF MetadataBacked
<1> QED BY <1>3, <1>5, <1>6

LEMMA ScanInvStep == TypeOK /\ ScanCopiesAgree /\ [Next]_vars => ScanCopiesAgree'
<1> SUFFICES ASSUME TypeOK, ScanCopiesAgree, [Next]_vars PROVE ScanCopiesAgree'
    OBVIOUS
<1>1. ASSUME NEW auth \in Address, NEW a \in Address,
             initialize(auth, a) \/ add_scanner(auth, a) \/ remove_scanner(auth, a) \/ dispute_scan(auth, a)
      PROVE  ScanCopiesAgree'
    BY <1>1, ScanInvFrame DEF initialize, add_scanner, remove_scanner, dispute_scan
<1>2. ASSUME NEW auth \in Address, NEW s \in Address, NEW c \in Contracts,
             NEW h \in Hashes, NEW m \in SeverityMaps, submit_scan(auth, s, c, h, m)
      PROVE  ScanCopiesAgree'
    <2> DEFINE r == [scanner |-> s, timestamp |-> now, findings_hash |-> h, severity_counts |-> m]
    <2>1. r \in ScanResult
        BY <1>2 DEF submit_scan, ScanResult, TypeOK
    <2>2. store_result(c, r) /\ UNCHANGED metadata
        BY <1>2 DEF submit_scan
    <2> QED BY <2>1, <2>2, ScanInvSubmit
<1>3. ASSUME NEW auth \in Address, NEW s \in Address, NEW c \in Contracts,
             NEW m \in MetadataValues, set_metadata(auth, s, c, m)
      PROVE  ScanCopiesAgree'
    <2>1. UNCHANGED scanVars /\ metadata' = [metadata EXCEPT ![c] = m] /\ latest[c] # NoScan
        BY <1>3 DEF set_metadata
    <2>2. LatestIsNewest' /\ IndexesAgree'
        BY <2>1 DEF ScanCopiesAgree, LatestIsNewest, IndexesAgree, scanVars
    <2>3. Contains(scanned, c)
        BY <2>1 DEF ScanCopiesAgree, LatestIsNewest, IndexesAgree
    <2>4. \A d \in Contracts : metadata'[d] # NoMetadata => metadata[d] # NoMetadata \/ d = c
        BY <2>1 DEF TypeOK
    <2>5. MetadataBacked'
        BY <2>1, <2>3, <2>4 DEF ScanCopiesAgree, MetadataBacked, scanVars
    <2> QED BY <2>2, <2>5 DEF ScanCopiesAgree
<1>4. CASE CloseLedger
    BY <1>4, ScanInvFrame DEF CloseLedger
<1>5. CASE UNCHANGED vars
    BY <1>5, ScanInvFrame DEF vars
<1> QED BY <1>1, <1>2, <1>3, <1>4, <1>5 DEF Next, Invoke

\* The latest scan, the history, the severity index, the scanned list and
\* the metadata of the registry agree in every reachable state.
THEOREM CopiesAgree == Spec => []ScanCopiesAgree
<1>1. Init => TypeOK /\ ScanCopiesAgree
    BY TypeInit, ScanInvInit
<1>2. TypeOK /\ ScanCopiesAgree /\ [Next]_vars => (TypeOK /\ ScanCopiesAgree)'
    BY TypeStep, ScanInvStep
<1> QED BY <1>1, <1>2, PTL DEF Spec

-----------------------------------------------------------------------------
(* The scanner count and the scores: counters that must equal, or stay     *)
(* below, the size of a set the code never computes.                       *)

Approved == {a \in Address : scanner[a]}

LEMMA CountInit == Init => ScannerCountExact
<1> SUFFICES ASSUME Init PROVE ScannerCountExact
    OBVIOUS
<1>1. Approved = {}
    BY DEF Init, Approved
<1> QED BY <1>1, FS_EmptySet DEF Init, ScannerCountExact, Approved

LEMMA CountStep == TypeOK /\ ScannerCountExact /\ [Next]_vars => ScannerCountExact'
<1> SUFFICES ASSUME TypeOK, ScannerCountExact, [Next]_vars PROVE ScannerCountExact'
    OBVIOUS
<1>0. IsFiniteSet(Approved) /\ scannerCount = Cardinality(Approved) /\ scannerCount \in Nat
    BY AddressAssumption, FS_Subset DEF Approved, ScannerCountExact, TypeOK
<1>1. ASSUME NEW auth \in Address, NEW s \in Address, add_scanner(auth, s) PROVE ScannerCountExact'
    <2>1. Approved' = Approved \cup {s}
        BY <1>1 DEF add_scanner, Approved, TypeOK
    <2>2. scannerCount' = Cardinality(Approved \cup {s})
        BY <1>0, <1>1, FS_AddElement DEF add_scanner, count_after_add, Approved
    <2> QED BY <2>1, <2>2 DEF ScannerCountExact, Approved
<1>2. ASSUME NEW auth \in Address, NEW s \in Address, remove_scanner(auth, s) PROVE ScannerCountExact'
    <2>1. Approved' = Approved \ {s}
        BY <1>2 DEF remove_scanner, Approved, TypeOK
    <2>2. CASE scanner[s]
        <3>1. s \in Approved /\ Cardinality(Approved \ {s}) = Cardinality(Approved) - 1
            BY <1>0, <2>2, FS_RemoveElement DEF Approved
        <3>2. Cardinality(Approved \ {s}) \in Nat
            BY <1>0, FS_Subset, FS_CardinalityType
        <3>3. scannerCount' = scannerCount - 1
            BY <1>0, <1>2, <2>2, <3>1, <3>2 DEF remove_scanner
        <3> QED BY <1>0, <2>1, <3>1, <3>3 DEF ScannerCountExact, Approved
    <2>3. CASE ~scanner[s]
        <3>1. Approved \ {s} = Approved
            BY <2>3 DEF Approved
        <3> QED BY <1>0, <1>2, <2>1, <2>3, <3>1 DEF remove_scanner, ScannerCountExact, Approved
    <2> QED BY <2>2, <2>3
<1>3. CASE UNCHANGED <<scanner, scannerCount>>
    BY <1>3 DEF ScannerCountExact
<1> QED BY <1>1, <1>2, <1>3
        DEF Next, Invoke, initialize, submit_scan, dispute_scan, set_metadata, CloseLedger, vars

\* ScannerCount is the number of approved scanners after any sequence of
\* additions and removals, repeated ones included.
THEOREM ScannerCountCorrect == Spec => []ScannerCountExact
<1>1. Init => TypeOK /\ ScannerCountExact
    BY TypeInit, CountInit
<1>2. TypeOK /\ ScannerCountExact /\ [Next]_vars => (TypeOK /\ ScannerCountExact)'
    BY TypeStep, CountStep
<1> QED BY <1>1, <1>2, PTL DEF Spec

LEMMA SubmissionsFinite == \A s : IsFiniteSet(Submissions(s))
<1>1. IsFiniteSet(1..MaxHistory)
    BY FS_Interval, LimitAssumption
<1>2. IsFiniteSet(Contracts \X (1..MaxHistory))
    BY <1>1, FS_Product, ContractsAssumption
<1> QED BY <1>2, FS_Subset DEF Submissions

\* A stored result adds one submission of its scanner and no other.
LEMMA SubmissionsAfterStore ==
    ASSUME TypeOK, NEW c \in Contracts, NEW r \in ScanResult, store_result(c, r), NEW s \in Address
    PROVE  /\ r.scanner # s => Submissions(s)' = Submissions(s)
           /\ r.scanner = s => Submissions(s)' = Submissions(s) \cup {<<c, Len(history[c]) + 1>>}
           /\ <<c, Len(history[c]) + 1>> \notin Submissions(s)
<1> DEFINE n == Len(history[c])
<1>1. /\ n \in Nat /\ n < MaxHistory /\ MaxHistory \in Nat
      /\ history'[c] = Append(history[c], r)
      /\ \A d \in Contracts \ {c} : history'[d] = history[d]
    BY LimitAssumption, WidthAssumption DEF TypeOK, store_result
<1>2. /\ Len(history'[c]) = n + 1 /\ history'[c][n + 1] = r
      /\ \A i \in 1..n : history'[c][i] = history[c][i]
    BY <1>1 DEF TypeOK
<1>3. \A d \in Contracts, i \in 1..MaxHistory :
          (i <= Len(history'[d]) /\ history'[d][i].scanner = s) <=>
          \/ i <= Len(history[d]) /\ history[d][i].scanner = s
          \/ d = c /\ i = n + 1 /\ r.scanner = s
    <2> SUFFICES ASSUME NEW d \in Contracts, NEW i \in 1..MaxHistory
                 PROVE  (i <= Len(history'[d]) /\ history'[d][i].scanner = s) <=>
                        \/ i <= Len(history[d]) /\ history[d][i].scanner = s
                        \/ d = c /\ i = n + 1 /\ r.scanner = s
        OBVIOUS
    <2>1. CASE d # c
        BY <1>1, <2>1
    <2>2. CASE d = c
        <3>1. CASE i \in 1..n
            BY <1>1, <1>2, <2>2, <3>1
        <3>2. CASE i = n + 1
            BY <1>1, <1>2, <2>2, <3>2
        <3>3. CASE i > n + 1
            BY <1>1, <1>2, <2>2, <3>3
        <3> QED BY <1>1, <3>1, <3>2, <3>3
    <2> QED BY <2>1, <2>2
<1>4. <<c, n + 1>> \in Contracts \X (1..MaxHistory)
    BY <1>1
<1>5. \A p \in Contracts \X (1..MaxHistory) :
          p[1] \in Contracts /\ p[2] \in 1..MaxHistory /\ p = <<p[1], p[2]>>
    OBVIOUS
<1>6. \A p \in Contracts \X (1..MaxHistory) :
          p \in Submissions(s)' <=> (p \in Submissions(s) \/ (p = <<c, n + 1>> /\ r.scanner = s))
    BY <1>3, <1>5 DEF Submissions
<1>7. <<c, n + 1>> \notin Submissions(s)
    BY <1>1 DEF Submissions
<1>8. /\ Submissions(s) \subseteq Contracts \X (1..MaxHistory)
      /\ Submissions(s)' \subseteq Contracts \X (1..MaxHistory)
    BY DEF Submissions
<1> QED BY <1>4, <1>6, <1>7, <1>8

LEMMA ScoreInit == Init => ScoreEarned
BY SubmissionsFinite, FS_CardinalityType DEF Init, ScoreEarned

LEMMA ScoreStep == TypeOK /\ ScoreEarned /\ [Next]_vars => ScoreEarned'
<1> SUFFICES ASSUME TypeOK, ScoreEarned, [Next]_vars, NEW s \in Address
             PROVE  score'[s] <= Cardinality(Submissions(s))'
    BY DEF ScoreEarned
<1>0. /\ IsFiniteSet(Submissions(s)) /\ Cardinality(Submissions(s)) \in Nat
      /\ score[s] \in I32_MIN..I32_MAX /\ score[s] <= Cardinality(Submissions(s))
    BY SubmissionsFinite, FS_CardinalityType DEF TypeOK, ScoreEarned
<1>1. ASSUME NEW auth \in Address, NEW t \in Address, NEW c \in Contracts,
             NEW h \in Hashes, NEW m \in SeverityMaps, submit_scan(auth, t, c, h, m)
      PROVE  score'[s] <= Cardinality(Submissions(s))'
    <2> DEFINE r == [scanner |-> t, timestamp |-> now, findings_hash |-> h, severity_counts |-> m]
    <2>1. r \in ScanResult /\ r.scanner = t
        BY <1>1 DEF submit_scan, ScanResult, TypeOK
    <2>2. store_result(c, r)
        BY <1>1 DEF submit_scan
    <2> HIDE DEF r
    <2>3. score' = [score EXCEPT ![t] = saturating_add(@)]
        BY <2>1, <2>2 DEF store_result
    <2>4. CASE s = t
        <3>1. Cardinality(Submissions(s) \cup {<<c, Len(history[c]) + 1>>})
                  = Cardinality(Submissions(s)) + 1
            BY <1>0, <2>1, <2>2, SubmissionsAfterStore, FS_AddElement
        <3>2. Cardinality(Submissions(s))' = Cardinality(Submissions(s)) + 1
            BY <2>1, <2>2, <2>4, <3>1, SubmissionsAfterStore
        <3>3. score'[s] <= score[s] + 1
            BY <1>0, <2>3, <2>4, WidthAssumption DEF saturating_add, TypeOK
        <3>4. score'[s] \in Int
            BY <1>0, <2>3, <2>4, SaturatingInRange, WidthAssumption DEF TypeOK
        <3> QED BY <1>0, <3>2, <3>3, <3>4, WidthAssumption
    <2>5. CASE s # t
        <3>1. Submissions(s)' = Submissions(s)
            BY <2>1, <2>2, <2>5, SubmissionsAfterStore
        <3>2. score'[s] = score[s]
            BY <2>3, <2>5 DEF TypeOK
        <3> QED BY <1>0, <3>1, <3>2
    <2> QED BY <2>4, <2>5
<1>2. ASSUME NEW auth \in Address, NEW t \in Address, dispute_scan(auth, t)
      PROVE  score'[s] <= Cardinality(Submissions(s))'
    <2>1. Submissions(s)' = Submissions(s)
        BY <1>2 DEF dispute_scan, scanVars, Submissions
    <2>2. score'[s] <= score[s] /\ score'[s] \in Int
        BY <1>0, <1>2, WidthAssumption DEF dispute_scan, saturating_sub, TypeOK
    <2> QED BY <1>0, <2>1, <2>2, WidthAssumption
<1>3. CASE UNCHANGED <<score, history>>
    BY <1>0, <1>3 DEF Submissions
<1> QED BY <1>1, <1>2, <1>3
        DEF Next, Invoke, initialize, add_scanner, remove_scanner, set_metadata, CloseLedger, vars, scanVars

\* No score exceeds the scans of its owner on record, through disputes,
\* rescans and saturation at either end of i32.
THEOREM ScoresAreEarned == Spec => []ScoreEarned
<1>1. Init => TypeOK /\ ScoreEarned
    BY TypeInit, ScoreInit
<1>2. TypeOK /\ ScoreEarned /\ [Next]_vars => (TypeOK /\ ScoreEarned)'
    BY TypeStep, ScoreStep
<1> QED BY <1>1, <1>2, PTL DEF Spec

-----------------------------------------------------------------------------
(* The log the registry implements.                                        *)

\* What store_result does to one history, seen through IsPrefix and Last.
LEMMA AppendFacts ==
    ASSUME NEW q \in Seq(ScanResult), NEW r \in ScanResult
    PROVE  /\ Append(q, r) \in Seq(ScanResult) /\ Len(Append(q, r)) = Len(q) + 1
           /\ Append(q, r)[Len(q) + 1] = r
           /\ \A i \in 1..Len(q) : Append(q, r)[i] = q[i]
           /\ IsPrefix(q, Append(q, r)) /\ IsPrefix(q, q)
BY DEF IsPrefix

\* An invocation extends a history only with a record of the signer, who is
\* an approved scanner, at the ledger's time; nothing recorded is altered.
THEOREM HistoryIsAuthentic == Spec => HistoryAuthentic
<1> DEFINE Authentic ==
        \A c \in Contracts :
            /\ IsPrefix(history[c], history'[c])
            /\ \A i \in (Len(history[c]) + 1)..Len(history'[c]) :
                   /\ history'[c][i].scanner = signer'
                   /\ scanner[signer']
                   /\ history'[c][i].timestamp = now
<1>1. TypeOK /\ [Next]_vars => [Authentic]_vars
    <2> SUFFICES ASSUME TypeOK, Next PROVE Authentic
        OBVIOUS
    <2>1. ASSUME history' = history PROVE Authentic
        BY <2>1, AppendFacts DEF TypeOK, IsPrefix
    <2>2. ASSUME NEW auth \in Address, NEW s \in Address, NEW c \in Contracts,
                 NEW h \in Hashes, NEW m \in SeverityMaps, submit_scan(auth, s, c, h, m)
          PROVE  Authentic
        <3> DEFINE r == [scanner |-> s, timestamp |-> now, findings_hash |-> h, severity_counts |-> m]
        <3>1. /\ r \in ScanResult /\ r.scanner = s /\ r.timestamp = now
              /\ store_result(c, r) /\ signer' = s /\ scanner[s]
            BY <2>2 DEF submit_scan, ScanResult, TypeOK, is_scanner
        <3> HIDE DEF r
        <3>2. /\ history'[c] = Append(history[c], r)
              /\ \A d \in Contracts \ {c} : history'[d] = history[d]
              /\ \A d \in Contracts : history[d] \in Seq(ScanResult)
            BY <3>1 DEF store_result, TypeOK
        <3>3. SUFFICES ASSUME NEW d \in Contracts
                       PROVE  /\ IsPrefix(history[d], history'[d])
                              /\ \A i \in (Len(history[d]) + 1)..Len(history'[d]) :
                                     /\ history'[d][i].scanner = signer'
                                     /\ scanner[signer']
                                     /\ history'[d][i].timestamp = now
            OBVIOUS
        <3>4. CASE d = c
            <4>1. \A i \in (Len(history[c]) + 1)..Len(history'[c]) : i = Len(history[c]) + 1
                BY <3>1, <3>2, AppendFacts
            <4>2. history'[c][Len(history[c]) + 1] = r /\ IsPrefix(history[c], history'[c])
                BY <3>1, <3>2, AppendFacts
            <4> QED BY <3>1, <3>4, <4>1, <4>2
        <3>5. CASE d # c
            BY <3>1, <3>2, <3>5, AppendFacts
        <3> QED BY <3>4, <3>5
    <2> QED BY <2>1, <2>2
            DEF Next, Invoke, initialize, add_scanner, remove_scanner, dispute_scan,
                set_metadata, CloseLedger, scanVars
<1>2. TypeOK /\ [Next]_vars => TypeOK'
    BY TypeStep
<1> QED BY <1>1, <1>2, TypeInit, PTL DEF Spec, HistoryAuthentic

LEMMA AnswersFollow == TypeOK /\ ScanCopiesAgree => answers = Log!ViewOf(history)
<1> SUFFICES ASSUME TypeOK, ScanCopiesAgree PROVE answers = Log!ViewOf(history)
    OBVIOUS
<1>1. \A c \in Contracts : get_scan(c) = IF history[c] = <<>> THEN NoScan ELSE history[c][Len(history[c])]
    BY DEF ScanCopiesAgree, LatestIsNewest, Last, get_scan
<1>2. severityIndex = {c \in Contracts : history[c] # <<>>}
    BY DEF TypeOK, ScanCopiesAgree, IndexesAgree
<1>3. ToSet(scanned) = {c \in Contracts : history[c] # <<>>}
    <2>0. DOMAIN scanned = 1..Len(scanned) /\ \A i \in 1..Len(scanned) : scanned[i] \in Contracts
        BY DEF TypeOK
    <2>1. \A c \in Contracts : c \in ToSet(scanned) <=> Contains(scanned, c)
        BY <2>0 DEF ToSet, Contains
    <2>2. ToSet(scanned) \subseteq Contracts
        BY <2>0 DEF ToSet
    <2> QED BY <2>1, <2>2 DEF ScanCopiesAgree, IndexesAgree
<1> QED BY <1>1, <1>2, <1>3 DEF answers, Log!ViewOf, get_all_scanned_contracts

\* The registry implements ScanLog: what its queries answer is a function of
\* an append-only log that only approved scanners extend.
THEOREM RegistryImplementsScanLog == Spec => ImplementsScanLog
<1> DEFINE Inv == TypeOK /\ ScanCopiesAgree
<1>1. Init => Inv
    BY TypeInit, ScanInvInit
<1>2. Inv /\ [Next]_vars => Inv'
    BY TypeStep, ScanInvStep
<1>3. Init => Log!Init
    <2> SUFFICES ASSUME Init PROVE Log!Init
        OBVIOUS
    <2>1. answers = Log!ViewOf(history)
        BY <1>1, AnswersFollow
    <2>2. Approved = {} /\ history = [c \in Contracts |-> <<>>]
        BY DEF Init, Approved
    <2> QED BY <2>1, <2>2 DEF Log!Init, Approved
<1>4. Inv' => (answers = Log!ViewOf(history))'
    BY AnswersFollow, PTL
<1>5. Inv /\ Inv' /\ [Next]_vars => [Log!Next]_(Log!vars)
    <2> SUFFICES ASSUME Inv, Inv', [Next]_vars PROVE [Log!Next]_(Log!vars)
        OBVIOUS
    <2>0. answers = Log!ViewOf(history) /\ (answers = Log!ViewOf(history))'
        BY <1>4, AnswersFollow
    <2>1. ASSUME UNCHANGED <<history, scanner>> PROVE UNCHANGED Log!vars
        <3>1. UNCHANGED Approved
            BY <2>1 DEF Approved
        <3>2. Log!ViewOf(history)' = Log!ViewOf(history)
            BY <2>1, <3>1 DEF Log!ViewOf
        <3> QED BY <2>0, <2>1, <3>1, <3>2 DEF Log!vars, Approved
    <2>2. ASSUME NEW auth \in Address, NEW s \in Address, add_scanner(auth, s) PROVE Log!Next
        <3>1. Approved' = Approved \cup {s} /\ history' = history
            BY <2>2 DEF add_scanner, Approved, TypeOK, scanVars
        <3>2. Log!Approve(s)
            BY <3>1 DEF Log!Approve, Approved
        <3> QED BY <2>0, <3>2 DEF Log!Next, Approved
    <2>3. ASSUME NEW auth \in Address, NEW s \in Address, remove_scanner(auth, s) PROVE Log!Next
        <3>1. Approved' = Approved \ {s} /\ history' = history
            BY <2>3 DEF remove_scanner, Approved, TypeOK, scanVars
        <3>2. Log!Dismiss(s)
            BY <3>1 DEF Log!Dismiss, Approved
        <3> QED BY <2>0, <3>2 DEF Log!Next, Approved
    <2>4. ASSUME NEW auth \in Address, NEW s \in Address, NEW c \in Contracts,
                 NEW h \in Hashes, NEW m \in SeverityMaps, submit_scan(auth, s, c, h, m)
          PROVE  Log!Next
        <3> DEFINE r == [scanner |-> s, timestamp |-> now, findings_hash |-> h, severity_counts |-> m]
        <3>1. /\ r \in ScanResult /\ r.scanner \in Approved
              /\ store_result(c, r) /\ scanner' = scanner
            BY <2>4 DEF submit_scan, ScanResult, TypeOK, is_scanner, Approved
        <3> HIDE DEF r
        <3>2. history' = [history EXCEPT ![c] = Append(@, r)] /\ Approved' = Approved
            BY <3>1 DEF store_result, Approved
        <3>3. PICK q \in ScanResult : q = r
            BY <3>1
        <3>4. Log!Record(c, q)
            BY <3>1, <3>2, <3>3 DEF Log!Record, Approved
        <3> QED BY <2>0, <3>4 DEF Log!Next
    <2> QED BY <2>1, <2>2, <2>3, <2>4
            DEF Next, Invoke, initialize, dispute_scan, set_metadata, CloseLedger, vars, scanVars
<1> QED BY <1>1, <1>2, <1>3, <1>5, PTL DEF Spec, ImplementsScanLog, Log!Spec

-----------------------------------------------------------------------------
(* Histories in the order of time.  A record carries the time of its       *)
(* ledger, which is at least that of every earlier ledger.                 *)

LEMMA ChronologicalInit == Init => HistoryChronological
BY DEF Init, HistoryChronological

LEMMA ChronologicalFrame ==
    ASSUME TypeOK, HistoryChronological, history' = history, now' \in Nat, now' >= now
    PROVE  HistoryChronological'
<1>1. \A c \in Contracts : \A i \in 1..Len(history[c]) : history[c][i].timestamp <= now'
    <2> TAKE c \in Contracts
    <2> TAKE i \in 1..Len(history[c])
    <2>1. history[c] \in Seq(ScanResult) /\ now \in Nat
        BY LimitAssumption DEF TypeOK
    <2>2. history[c][i] \in ScanResult
        BY <2>1
    <2>3. history[c][i].timestamp \in Nat
        BY <2>2, LimitAssumption DEF ScanResult
    <2>4. history[c][i].timestamp <= now
        BY DEF HistoryChronological
    <2> QED BY <2>1, <2>3, <2>4
<1> QED BY <1>1 DEF HistoryChronological

LEMMA ChronologicalStep == TypeOK /\ HistoryChronological /\ [Next]_vars => HistoryChronological'
<1> SUFFICES ASSUME TypeOK, HistoryChronological, [Next]_vars PROVE HistoryChronological'
    OBVIOUS
<1>0. now \in Nat /\ now >= now
    BY LimitAssumption DEF TypeOK
<1>1. ASSUME NEW auth \in Address, NEW s \in Address, NEW c \in Contracts,
             NEW h \in Hashes, NEW m \in SeverityMaps, submit_scan(auth, s, c, h, m)
      PROVE  HistoryChronological'
    <2> DEFINE r == [scanner |-> s, timestamp |-> now, findings_hash |-> h, severity_counts |-> m]
               n == Len(history[c])
    <2>1. r \in ScanResult /\ r.timestamp = now /\ store_result(c, r) /\ now' = now
        BY <1>1 DEF submit_scan, ScanResult, TypeOK
    <2> HIDE DEF r
    <2>2. /\ history'[c] = Append(history[c], r) /\ history[c] \in Seq(ScanResult)
          /\ \A d \in Contracts : d # c => history'[d] = history[d]
        BY <2>1 DEF store_result, TypeOK
    <2>3. /\ n \in Nat /\ Len(history'[c]) = n + 1 /\ history'[c][n + 1] = r
          /\ \A i \in 1..n : history'[c][i] = history[c][i]
        BY <2>1, <2>2, AppendFacts
    <2>4. \A i \in 1..(n + 1) : history'[c][i].timestamp <= now
        <3> TAKE i \in 1..(n + 1)
        <3>1. CASE i = n + 1
            BY <1>0, <2>1, <2>3, <3>1
        <3>2. CASE i # n + 1
            <4>1. i \in 1..n
                BY <2>3, <3>2
            <4>2. history[c][i].timestamp <= now
                BY <4>1 DEF HistoryChronological
            <4> QED BY <2>3, <4>1, <4>2
        <3> QED BY <3>1, <3>2
    <2>5. \A i, j \in 1..(n + 1) :
              i <= j => history'[c][i].timestamp <= history'[c][j].timestamp
        <3> TAKE i, j \in 1..(n + 1)
        <3> HAVE i <= j
        <3>1. CASE j = n + 1
            BY <2>1, <2>3, <2>4, <3>1
        <3>2. CASE j # n + 1
            <4>1. i \in 1..n /\ j \in 1..n
                BY <2>3, <3>2
            <4> QED BY <2>3, <4>1 DEF HistoryChronological
        <3> QED BY <3>1, <3>2
    <2> QED BY <2>1, <2>2, <2>3, <2>4, <2>5 DEF HistoryChronological
<1>2. CASE CloseLedger
    <2>1. history' = history /\ now' \in Nat /\ now' >= now
        BY <1>0, <1>2 DEF CloseLedger, scanVars
    <2> QED BY <2>1, ChronologicalFrame
<1>3. CASE UNCHANGED <<history, now>>
    BY <1>0, <1>3, ChronologicalFrame
<1> QED BY <1>1, <1>2, <1>3
        DEF Next, Invoke, initialize, add_scanner, remove_scanner, dispute_scan,
            set_metadata, vars, scanVars

\* get_history answers oldest to newest, and never from the future.
THEOREM HistoryInOrder == Spec => []HistoryChronological
<1>1. Init => TypeOK /\ HistoryChronological
    BY TypeInit, ChronologicalInit
<1>2. TypeOK /\ HistoryChronological /\ [Next]_vars => (TypeOK /\ HistoryChronological)'
    BY TypeStep, ChronologicalStep
<1> QED BY <1>1, <1>2, PTL DEF Spec

-----------------------------------------------------------------------------
(* Who may change what.                                                    *)

\* What one step may do to roles, scores and metadata.
GovernedStep ==
    /\ scanner' # scanner => signer' = admin
    /\ \A s \in Address : score'[s] < score[s] => signer' = admin
    /\ \A s \in Address : score'[s] > score[s] => Submissions(s)' # Submissions(s)
    /\ admin # NoAddress => admin' = admin
    /\ \A c \in Contracts : metadata'[c] # metadata[c] =>
           history[c] # <<>> /\ signer' = Last(history[c]).scanner

LEMMA StepIsGoverned ==
    ASSUME TypeOK, ScanCopiesAgree, Next
    PROVE  GovernedStep
<1>0. /\ \A s \in Address : score[s] \in Int /\ score[s] \in I32_MIN..I32_MAX
      /\ score \in [Address -> I32_MIN..I32_MAX]
    BY WidthAssumption DEF TypeOK
<1>1. ASSUME NEW auth \in Address, NEW a \in Address,
             initialize(auth, a) \/ add_scanner(auth, a) \/ remove_scanner(auth, a)
      PROVE  GovernedStep
    <2>1. UNCHANGED <<score, metadata>>
        BY <1>1 DEF initialize, add_scanner, remove_scanner
    <2>2. (scanner' # scanner => signer' = admin) /\ (admin # NoAddress => admin' = admin)
        BY <1>1 DEF initialize, add_scanner, remove_scanner, require_admin
    <2> QED BY <1>0, <2>1, <2>2 DEF GovernedStep
<1>2. ASSUME NEW auth \in Address, NEW t \in Address, NEW c \in Contracts,
             NEW h \in Hashes, NEW m \in SeverityMaps, submit_scan(auth, t, c, h, m)
      PROVE  GovernedStep
    <2> DEFINE r == [scanner |-> t, timestamp |-> now, findings_hash |-> h, severity_counts |-> m]
    <2>1. r \in ScanResult /\ r.scanner = t
        BY <1>2 DEF submit_scan, ScanResult, TypeOK
    <2>2. store_result(c, r) /\ UNCHANGED <<admin, scanner, metadata>>
        BY <1>2 DEF submit_scan
    <2> HIDE DEF r
    <2>3. score' = [score EXCEPT ![t] = saturating_add(@)]
        BY <2>1, <2>2 DEF store_result
    <2>4. score'[t] >= score[t] /\ \A s \in Address : s # t => score'[s] = score[s]
        <3>1. /\ score'[t] = saturating_add(score[t])
              /\ \A s \in Address : s # t => score'[s] = score[s]
            BY <1>0, <2>3
        <3>2. saturating_add(score[t]) >= score[t]
            BY <1>0, WidthAssumption DEF saturating_add
        <3> QED BY <3>1, <3>2
    <2>5. Submissions(t)' # Submissions(t)
        <3>1. /\ Submissions(t)' = Submissions(t) \cup {<<c, Len(history[c]) + 1>>}
              /\ <<c, Len(history[c]) + 1>> \notin Submissions(t)
            BY <2>1, <2>2, SubmissionsAfterStore
        <3> QED BY <3>1
    <2>6. \A s \in Address : ~(score'[s] < score[s])
        <3> TAKE s \in Address
        <3>1. score'[t] \in Int /\ score[t] \in Int
            BY <1>0, <2>3, SaturatingInRange, WidthAssumption
        <3>2. CASE s = t
            BY <2>4, <3>1, <3>2
        <3>3. CASE s # t
            BY <1>0, <2>4, <3>3
        <3> QED BY <3>2, <3>3
    <2>7. ASSUME NEW s \in Address, score'[s] > score[s]
          PROVE  Submissions(s)' # Submissions(s)
        <3>1. s = t
            BY <1>0, <2>4, <2>7
        <3>2. Submissions(s)' = Submissions(t)' /\ Submissions(s) = Submissions(t)
            BY <3>1 DEF Submissions
        <3> QED BY <2>5, <3>2
    <2> QED BY <2>2, <2>6, <2>7 DEF GovernedStep
<1>3. ASSUME NEW auth \in Address, NEW t \in Address, dispute_scan(auth, t)
      PROVE  GovernedStep
    <2>1. /\ UNCHANGED <<admin, scanner, metadata>> /\ signer' = admin
          /\ score' = [score EXCEPT ![t] = saturating_sub(@)]
        BY <1>3 DEF dispute_scan, require_admin
    <2>2. \A s \in Address : ~(score'[s] > score[s])
        BY <1>0, <2>1, WidthAssumption DEF saturating_sub
    <2> QED BY <2>1, <2>2 DEF GovernedStep
<1>4. ASSUME NEW auth \in Address, NEW s \in Address, NEW c \in Contracts,
             NEW m \in MetadataValues, set_metadata(auth, s, c, m)
      PROVE  GovernedStep
    <2>1. /\ UNCHANGED <<admin, scanner, score>> /\ signer' = s
          /\ metadata' = [metadata EXCEPT ![c] = m]
          /\ latest[c] # NoScan /\ latest[c].scanner = s
        BY <1>4 DEF set_metadata
    <2>2. history[c] # <<>> /\ Last(history[c]).scanner = s
        BY <2>1 DEF ScanCopiesAgree, LatestIsNewest
    <2>3. \A d \in Contracts : metadata'[d] # metadata[d] => d = c
        BY <2>1 DEF TypeOK
    <2> QED BY <1>0, <2>1, <2>2, <2>3 DEF GovernedStep
<1>5. CASE CloseLedger
    BY <1>0, <1>5 DEF CloseLedger, GovernedStep
<1> QED BY <1>1, <1>2, <1>3, <1>4, <1>5 DEF Next, Invoke

\* Roles and disputes are the admin's alone, a score rises only with a scan
\* on record, the admin never changes, and metadata moves only by the
\* signature of the newest record's scanner.
THEOREM RegistryIsGoverned == Spec => Governed
<1>1. Init => TypeOK /\ ScanCopiesAgree
    BY TypeInit, ScanInvInit
<1>2. TypeOK /\ ScanCopiesAgree /\ [Next]_vars => (TypeOK /\ ScanCopiesAgree)'
    BY TypeStep, ScanInvStep
<1>3. TypeOK /\ ScanCopiesAgree /\ [Next]_vars => [GovernedStep]_vars
    BY StepIsGoverned
<1>4. Spec => [][GovernedStep]_vars
    BY <1>1, <1>2, <1>3, PTL DEF Spec
<1> QED BY <1>4, PTL DEF GovernedStep, Governed

-----------------------------------------------------------------------------
(* The pages of a history.                                                 *)

\* A client that advances its offset by what it received reads a history to
\* its end, whatever its limit.  The hypothesis keeps offset + limit within
\* u32; a history that large does not fit a ledger entry.
THEOREM HistoryPagesTile ==
    ASSUME MaxHistory + MAX_LIMIT <= U32_MAX
    PROVE  Spec => []HistoryPagesContiguous
<1>1. TypeOK => HistoryPagesContiguous
    <2> SUFFICES ASSUME TypeOK, NEW c \in Contracts, NEW limit \in 1..(MAX_LIMIT + 1),
                        NEW offset \in 0..MaxHistory
                 PROVE  LET page_ == get_history_page(c, offset, limit)
                        IN  /\ offset < get_history_len(c) <=> page_ # <<>>
                            /\ Len(page_) <= MAX_LIMIT
                            /\ \A i \in 1..Len(page_) : page_[i] = get_history(c)[offset + i]
        BY DEF HistoryPagesContiguous
    <2> DEFINE answer == get_history_page(c, offset, limit)
               total == Len(history[c])
               most == least(limit, MAX_LIMIT)
               end == least(offset + most, total)
    <2>1. history[c] \in Seq(ScanResult) /\ total \in Nat /\ offset \in Nat
        BY LimitAssumption DEF TypeOK
    <2>2. most \in 1..MAX_LIMIT
        BY LimitAssumption DEF least
    <2> HIDE DEF most
    <2>3. MAX_LIMIT \in Nat /\ offset + most <= U32_MAX
        BY <2>1, <2>2, LimitAssumption, WidthAssumption
    <2>4. CASE offset >= total
        <3>1. answer = <<>>
            BY <2>4 DEF get_history_page
        <3>2. ~(offset < total) /\ Len(<<>>) = 0
            BY <2>1, <2>4
        <3> QED BY <2>3, <3>1, <3>2 DEF get_history_len
    <2>5. CASE offset < total
        <3>1. ~(offset >= total) /\ ~(offset + most > U32_MAX)
            BY <2>1, <2>2, <2>3, <2>5, LimitAssumption, WidthAssumption
        <3>2. answer = SubSeq(history[c], offset + 1, end)
            BY <3>1 DEF get_history_page, slice, most
        <3>3. end \in (offset + 1)..total /\ end - offset <= MAX_LIMIT
            BY <2>1, <2>2, <2>3, <2>5 DEF least
        <3> HIDE DEF end
        <3>4. /\ Len(answer) = end - offset /\ answer \in Seq(ScanResult)
              /\ \A i \in 1..(end - offset) : answer[i] = history[c][offset + i]
            BY <2>1, <3>2, <3>3
        <3>5. end - offset > 0
            BY <2>1, <3>3
        <3>6. answer # <<>>
            BY <3>4, <3>5
        <3> HIDE DEF answer
        <3>7. /\ Len(answer) <= MAX_LIMIT
              /\ \A i \in 1..Len(answer) : answer[i] = history[c][offset + i]
            BY <3>3, <3>4
        <3> QED BY <2>5, <3>6, <3>7 DEF get_history_len, get_history, answer
    <2> QED BY <2>1, <2>4, <2>5
<1> QED BY <1>1, TypeCorrect, PTL

-----------------------------------------------------------------------------
(* The walk of a reader over the pages of the scanned list.  What it has   *)
(* received is a prefix of the list at any later time, because the list    *)
(* only grows at its end; that the walk misses nothing needs more: between *)
(* two requests exactly page * PageSize addresses have been received, and  *)
(* whatever was listed when the walk began is listed still.                *)

\* q agrees with t at every position of q.
Begins(q, t) == Len(q) <= Len(t) /\ \A i \in 1..Len(q) : q[i] = t[i]

WalkInv ==
    /\ walking \in BOOLEAN /\ page \in Nat /\ seen \in Seq(Contracts)
    /\ Begins(seen, scanned)
    /\ before \subseteq ToSet(scanned)
    /\ walking => Len(seen) = page * PageSize
    /\ (~walking /\ page > 0) => before \subseteq ToSet(seen)

LEMMA BeginsIsPrefix ==
    ASSUME NEW q \in Seq(Contracts), NEW t \in Seq(Contracts), Begins(q, t)
    PROVE  IsPrefix(q, t) /\ ToSet(q) \subseteq ToSet(t)
<1>1. SubSeq(q, 1, Len(q)) = SubSeq(t, 1, Len(q))
    BY DEF Begins
<1>2. ToSet(q) \subseteq ToSet(t)
    BY DEF Begins, ToSet
<1> QED BY <1>1, <1>2 DEF IsPrefix, Begins

\* The list only grows at its end.
LEMMA ScannedGrows ==
    ASSUME TypeOK, [Next]_vars
    PROVE  Begins(scanned, scanned')
<1>0. scanned \in Seq(Contracts)
    BY DEF TypeOK
<1>1. CASE scanned' = scanned
    BY <1>0, <1>1 DEF Begins
<1>2. ASSUME NEW auth \in Address, NEW s \in Address, NEW c \in Contracts,
             NEW h \in Hashes, NEW m \in SeverityMaps, submit_scan(auth, s, c, h, m)
      PROVE  Begins(scanned, scanned')
    <2>1. scanned' = scanned \/ scanned' = Append(scanned, c)
        BY <1>2 DEF submit_scan, store_result, push_unique
    <2>2. Begins(scanned, scanned) /\ Begins(scanned, Append(scanned, c))
        BY <1>0 DEF Begins
    <2> QED BY <2>1, <2>2
<1> QED BY <1>1, <1>2
        DEF Next, Invoke, initialize, add_scanner, remove_scanner, dispute_scan,
            set_metadata, CloseLedger, vars, scanVars

\* What a page that is not a panic holds, when it starts within the list.
LEMMA PageFacts ==
    ASSUME TypeOK, NEW p \in Nat, p * PageSize <= Len(scanned),
           get_scanned_contracts_page(p, PageSize) # Panic
    PROVE  LET answer == get_scanned_contracts_page(p, PageSize)
               start == p * PageSize
               end == least(start + PageSize, Len(scanned))
           IN  /\ answer \in Seq(Contracts) /\ Len(answer) = end - start
               /\ start \in Nat /\ end \in start..Len(scanned)
               /\ \A i \in 1..(end - start) : answer[i] = scanned[start + i]
<1> DEFINE start == p * PageSize
           end == least(start + PageSize, Len(scanned))
<1>1. PageSize \in Nat /\ start \in Nat /\ scanned \in Seq(Contracts) /\ Len(scanned) \in Nat
    BY PageSizeAssumption, WidthAssumption DEF TypeOK
<1>2. get_scanned_contracts_page(p, PageSize) = SubSeq(scanned, start + 1, end)
    BY DEF get_scanned_contracts_page, slice
<1> HIDE DEF start
<1>3. start <= Len(scanned)
    BY DEF start
<1>4. end \in start..Len(scanned)
    BY <1>1, <1>3 DEF least
<1> HIDE DEF end
<1>5. /\ SubSeq(scanned, start + 1, end) \in Seq(Contracts)
      /\ Len(SubSeq(scanned, start + 1, end)) = end - start
      /\ \A i \in 1..(end - start) : SubSeq(scanned, start + 1, end)[i] = scanned[start + i]
    BY <1>1, <1>3, <1>4
<1> QED BY <1>1, <1>2, <1>4, <1>5 DEF start, end

\* A page is received after what was received before.
LEMMA ConcatFacts ==
    ASSUME NEW q \in Seq(Contracts), NEW t \in Seq(Contracts)
    PROVE  /\ q \o t \in Seq(Contracts) /\ Len(q \o t) = Len(q) + Len(t)
           /\ \A i \in 1..Len(q) : (q \o t)[i] = q[i]
           /\ \A i \in 1..Len(t) : (q \o t)[Len(q) + i] = t[i]
OBVIOUS

LEMMA WalkStep ==
    ASSUME TypeOK, TypeOK', WalkInv, [ReaderNext]_allVars
    PROVE  WalkInv'
<1>0. /\ scanned \in Seq(Contracts) /\ scanned' \in Seq(Contracts)
      /\ PageSize \in Nat /\ PageSize > 0
    BY PageSizeAssumption, WidthAssumption DEF TypeOK
<1>1. CASE [Next]_vars /\ UNCHANGED readerVars
    <2>1. Begins(scanned, scanned')
        BY <1>1, ScannedGrows
    <2>2. ToSet(scanned) \subseteq ToSet(scanned')
        BY <1>0, <2>1, BeginsIsPrefix
    <2>3. Begins(seen, scanned')
        BY <1>0, <2>1 DEF WalkInv, Begins
    <2>4. UNCHANGED <<walking, page, seen, before>>
        BY <1>1 DEF readerVars
    <2> QED BY <2>2, <2>3, <2>4 DEF WalkInv
<1>2. CASE Begin
    <2>1. /\ walking' = TRUE /\ page' = 0 /\ seen' = <<>> /\ scanned' = scanned
          /\ before' = ToSet(scanned)
        BY <1>2 DEF Begin, get_all_scanned_contracts, vars, scanVars
    <2>2. Begins(<<>>, scanned) /\ <<>> \in Seq(Contracts) /\ Len(<<>>) = 0
        BY <1>0 DEF Begins
    <2>3. 0 * PageSize = 0
        BY <1>0
    <2> QED BY <2>1, <2>2, <2>3 DEF WalkInv
<1>3. CASE ReadPage
    <2> DEFINE answer == get_scanned_contracts_page(page, PageSize)
               start == page * PageSize
               end == least(start + PageSize, Len(scanned))
    <2>1. /\ walking /\ answer # Panic /\ seen' = seen \o answer /\ page' = page + 1
          /\ walking' = (Len(answer) = PageSize) /\ scanned' = scanned /\ before' = before
        BY <1>3 DEF ReadPage, vars, scanVars
    <2>2. /\ seen \in Seq(Contracts) /\ page \in Nat /\ Len(seen) = start
          /\ Len(seen) <= Len(scanned) /\ before \subseteq ToSet(scanned)
          /\ \A i \in 1..Len(seen) : seen[i] = scanned[i]
        BY <2>1 DEF WalkInv, Begins
    <2>3. /\ answer \in Seq(Contracts) /\ Len(answer) = end - start
          /\ start \in Nat /\ end \in start..Len(scanned)
          /\ \A i \in 1..(end - start) : answer[i] = scanned[start + i]
        BY <2>1, <2>2, PageFacts
    <2>4. (page + 1) * PageSize = start + PageSize /\ Len(scanned) \in Nat
        BY <1>0, <2>2
    <2>5. end = start + PageSize \/ end = Len(scanned)
        BY DEF least
    <2> HIDE DEF answer, start, end
    <2>6. seen' \in Seq(Contracts) /\ Len(seen') = end
        <3>1. seen \o answer \in Seq(Contracts) /\ Len(seen \o answer) = Len(seen) + Len(answer)
            BY <2>2, <2>3, ConcatFacts
        <3>2. start + (end - start) = end
            BY <2>3
        <3>3. Len(seen) + Len(answer) = start + (end - start)
            BY <2>2, <2>3
        <3> QED BY <2>1, <3>1, <3>2, <3>3
    <2>7. \A i \in 1..end : seen'[i] = scanned[i]
        <3> TAKE i \in 1..end
        <3>0. /\ \A k \in 1..Len(seen) : seen'[k] = seen[k]
              /\ \A k \in 1..Len(answer) : seen'[Len(seen) + k] = answer[k]
            BY <2>1, <2>2, <2>3, ConcatFacts
        <3>1. CASE i <= start
            <4>1. i \in 1..Len(seen)
                BY <2>2, <2>3, <3>1
            <4> QED BY <2>2, <3>0, <4>1
        <3>2. CASE i > start
            <4>1. (i - start) \in 1..(end - start) /\ i = start + (i - start)
                BY <2>3, <3>2
            <4>2. seen'[start + (i - start)] = answer[i - start]
                BY <2>2, <2>3, <3>0, <4>1
            <4> QED BY <2>3, <4>1, <4>2
        <3> QED BY <2>3, <3>1, <3>2
    <2>8. Begins(seen', scanned')
        BY <2>1, <2>3, <2>6, <2>7 DEF Begins
    <2>9. ASSUME walking' PROVE Len(seen') = page' * PageSize
        <3>1. end - start = PageSize
            BY <2>1, <2>3, <2>9
        <3>2. end = start + PageSize
            BY <1>0, <2>3, <3>1
        <3> QED BY <2>1, <2>4, <2>6, <3>2
    <2>10. ASSUME ~walking' PROVE before' \subseteq ToSet(seen')
        <3>1. end = Len(scanned)
            <4>1. end - start # PageSize
                BY <2>1, <2>3, <2>10
            <4>2. end # start + PageSize
                BY <1>0, <2>3, <4>1
            <4> QED BY <2>5, <4>2
        <3>2. ToSet(scanned) \subseteq ToSet(seen')
            BY <1>0, <2>6, <2>7, <3>1 DEF ToSet
        <3> QED BY <2>1, <2>2, <3>2
    <2>11. walking' \in BOOLEAN /\ page' \in Nat
        BY <2>1, <2>2
    <2> QED BY <2>1, <2>2, <2>6, <2>8, <2>9, <2>10, <2>11 DEF WalkInv
<1> QED BY <1>1, <1>2, <1>3 DEF ReaderNext, allVars

LEMMA WalkIsConsistent ==
    ASSUME TypeOK, ScanCopiesAgree, WalkInv
    PROVE  WalkConsistent
<1>1. scanned \in Seq(Contracts) /\ seen \in Seq(Contracts) /\ Begins(seen, scanned)
    BY DEF TypeOK, WalkInv
<1>2. IsPrefix(seen, scanned)
    BY <1>1, BeginsIsPrefix
<1>3. \A i, j \in 1..Len(scanned) : scanned[i] = scanned[j] => i = j
    BY DEF ScanCopiesAgree, IndexesAgree
<1>4. \A i \in 1..Len(seen) : i \in 1..Len(scanned) /\ seen[i] = scanned[i]
    BY <1>1 DEF Begins
<1> QED BY <1>2, <1>3, <1>4 DEF WalkConsistent, WalkInv

\* A list assembled page by page, while scanners go on submitting, names no
\* contract twice, none that was not scanned, and none of the contracts that
\* were listed when the walk began is missing at its end.
THEOREM WalksAreConsistent == ReaderSpec => []WalkConsistent
<1> DEFINE RInv == TypeOK /\ ScanCopiesAgree /\ WalkInv
<1>1. ReaderInit => RInv
    <2> SUFFICES ASSUME ReaderInit PROVE RInv
        OBVIOUS
    <2>1. TypeOK /\ ScanCopiesAgree
        BY TypeInit, ScanInvInit DEF ReaderInit
    <2>2. scanned = <<>> /\ seen = <<>> /\ walking = FALSE /\ page = 0 /\ before = {}
        BY DEF ReaderInit, Init
    <2>3. Begins(<<>>, <<>>) /\ <<>> \in Seq(Contracts)
        BY DEF Begins
    <2> QED BY <2>1, <2>2, <2>3 DEF WalkInv
<1>2. RInv /\ [ReaderNext]_allVars => RInv'
    <2> SUFFICES ASSUME RInv, [ReaderNext]_allVars PROVE RInv'
        OBVIOUS
    <2>1. [Next]_vars
        BY DEF ReaderNext, Begin, ReadPage, allVars
    <2>2. (TypeOK /\ ScanCopiesAgree)'
        BY <2>1, TypeStep, ScanInvStep
    <2> QED BY <2>2, WalkStep
<1>3. RInv => WalkConsistent
    BY WalkIsConsistent
<1> QED BY <1>1, <1>2, <1>3, PTL DEF ReaderSpec
=============================================================================
