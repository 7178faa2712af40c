------------------------------ MODULE Registry ------------------------------
(***************************************************************************)
(* The on-chain scan registry (registry/src/lib.rs).                       *)
(*                                                                         *)
(* One action is one contract invocation.  The host runs an invocation to  *)
(* its end or rolls all of it back, so a panic is a step that is not       *)
(* taken: every early panic of the code is a guard here.  signer is the    *)
(* address whose authorisation the invocation carries (require_auth) and   *)
(* event is what the invocation published; both describe the last          *)
(* invocation only and guard nothing.                                      *)
(***************************************************************************)
EXTENDS Integers, FiniteSets, SequencesExt

CONSTANTS
    Address,        \* the accounts that may sign an invocation
    Contracts,      \* the addresses a scan may be about
    KeyOrder,       \* Contracts in the order a host Map iterates its keys
    Hashes,         \* findings hashes a caller may pass, EmptyHash included
    EmptyHash,      \* the empty string
    SeverityMaps,   \* severity_counts a caller may pass: label -> u32
    MetadataValues, \* ContractMetadata a caller may pass
    NoAddress, NoScan, NoMetadata, NoEvent, Panic,   \* absent values
    U32_MAX,        \* largest u32, and largest usize of the wasm32 target
    I32_MIN, I32_MAX,
    MAX_LIMIT,      \* get_history_page caps its limit here (50)
    MAX_BATCH,      \* get_latest_scans_batch refuses more than this (20)
    MaxHistory,     \* scans that fit the ledger entry of one ScanHistory
    MaxTime         \* last ledger timestamp that is explored

ASSUME AddressAssumption == IsFiniteSet(Address) /\ NoAddress \notin Address

ASSUME ContractsAssumption ==
    /\ IsFiniteSet(Contracts)
    /\ KeyOrder \in [1..Cardinality(Contracts) -> Contracts]
    /\ \A c \in Contracts : \E i \in DOMAIN KeyOrder : KeyOrder[i] = c

ASSUME WidthAssumption ==
    /\ U32_MAX \in Nat /\ U32_MAX > 0
    /\ I32_MIN \in Int /\ I32_MAX \in Int /\ I32_MIN < 0 /\ I32_MAX > 0

ASSUME LimitAssumption ==
    /\ MAX_LIMIT \in Nat \ {0} /\ MAX_BATCH \in Nat
    /\ MaxHistory \in 1..U32_MAX /\ MaxTime \in Nat

ScanResult ==
    [scanner : Address, timestamp : 0..MaxTime,
     findings_hash : Hashes \ {EmptyHash}, severity_counts : SeverityMaps]

Event == [topic : {"added", "removed", "submitted"}, scanner : Address]

ASSUME AbsentAssumption ==
    NoScan \notin ScanResult /\ NoMetadata \notin MetadataValues /\ NoEvent \notin Event

VARIABLES
    admin,          \* DataKey::Admin
    scanner,        \* DataKey::Scanner(a), absent read as false
    scannerCount,   \* DataKey::ScannerCount
    latest,         \* DataKey::LatestScan(c)
    history,        \* DataKey::ScanHistory(c)
    severityIndex,  \* DataKey::SeverityIndex, a Map used as a set
    scanned,        \* DataKey::ScannedContracts
    score,          \* DataKey::ScannerScore(a)
    metadata,       \* DataKey::Metadata(c)
    now,            \* env.ledger().timestamp()
    signer,         \* who authorised the last invocation
    event           \* what the last invocation published

scanVars == <<latest, history, severityIndex, scanned>>
vars == <<admin, scanner, scannerCount, scanVars, score, metadata, now, signer, event>>

Init ==
    /\ admin = NoAddress
    /\ scanner = [a \in Address |-> FALSE]
    /\ scannerCount = 0
    /\ latest = [c \in Contracts |-> NoScan]
    /\ history = [c \in Contracts |-> <<>>]
    /\ severityIndex = {}
    /\ scanned = <<>>
    /\ score = [a \in Address |-> 0]
    /\ metadata = [c \in Contracts |-> NoMetadata]
    /\ now = 0
    /\ signer = NoAddress
    /\ event = NoEvent

-----------------------------------------------------------------------------
(* Invocations that change the state.                                      *)

\* Mutant: the stored admin is read but its authorisation is not required.
require_admin_no_auth(auth) == admin # NoAddress

require_admin(auth) == admin # NoAddress /\ auth = admin

\* Mutants: plain addition, and a subtraction that wraps around.
plain_add(n) == n + 1
wrapping_sub(n) == IF n - 1 < I32_MIN THEN I32_MAX ELSE n - 1

saturating_add(n) == IF n + 1 > I32_MAX THEN I32_MAX ELSE n + 1
saturating_sub(n) == IF n - 1 < I32_MIN THEN I32_MIN ELSE n - 1

initialize(auth, a) ==
    /\ admin = NoAddress
    /\ admin' = a
    /\ signer' = auth
    /\ event' = NoEvent
    /\ UNCHANGED <<scanner, scannerCount, scanVars, score, metadata, now>>

\* Mutant: the count grows with every call, whatever flag was stored.
count_every_add(s) == scannerCount + 1

\* ScannerCount after an addition of s.
count_after_add(s) == IF scanner[s] THEN scannerCount ELSE scannerCount + 1

\* count + 1 is checked: an overflow panics and rolls the approval back.
add_scanner(auth, s) ==
    /\ require_admin(auth)
    /\ ~scanner[s] => scannerCount < U32_MAX
    /\ scanner' = [scanner EXCEPT ![s] = TRUE]
    /\ scannerCount' = count_after_add(s)
    /\ signer' = auth
    /\ event' = [topic |-> "added", scanner |-> s]
    /\ UNCHANGED <<admin, scanVars, score, metadata, now>>

remove_scanner(auth, s) ==
    /\ require_admin(auth)
    /\ scanner' = [scanner EXCEPT ![s] = FALSE]
    /\ scannerCount' = IF scanner[s] /\ scannerCount > 0 THEN scannerCount - 1 ELSE scannerCount
    /\ signer' = auth
    /\ event' = [topic |-> "removed", scanner |-> s]
    /\ UNCHANGED <<admin, scanVars, score, metadata, now>>

is_scanner(s) == scanner[s]

\* No operation ever writes DataKey::ContractActive, so it always reads true.
contract_active(c) == TRUE

\* Mutants: no membership test, and insertion at the front.
push_always(seq, c) == Append(seq, c)
push_front(seq, c) == IF Contains(seq, c) THEN seq ELSE <<c>> \o seq

push_unique(seq, c) == IF Contains(seq, c) THEN seq ELSE Append(seq, c)

\* Mutant: LatestScan is written only by the first scan of a contract.
store_result_first_wins(c, r) ==
    /\ Len(history[c]) < MaxHistory
    /\ latest' = [latest EXCEPT ![c] = IF @ = NoScan THEN r ELSE @]
    /\ history' = [history EXCEPT ![c] = Append(@, r)]
    /\ severityIndex' = severityIndex \cup {c}
    /\ scanned' = push_unique(scanned, c)
    /\ score' = [score EXCEPT ![r.scanner] = saturating_add(@)]

\* Mutant: push_front on the history instead of push_back.
store_result_newest_first(c, r) ==
    /\ Len(history[c]) < MaxHistory
    /\ latest' = [latest EXCEPT ![c] = r]
    /\ history' = [history EXCEPT ![c] = <<r>> \o @]
    /\ severityIndex' = severityIndex \cup {c}
    /\ scanned' = push_unique(scanned, c)
    /\ score' = [score EXCEPT ![r.scanner] = saturating_add(@)]

\* The history of a contract is one ledger entry of bounded size.
store_result(c, r) ==
    /\ Len(history[c]) < MaxHistory
    /\ latest' = [latest EXCEPT ![c] = r]
    /\ history' = [history EXCEPT ![c] = Append(@, r)]
    /\ severityIndex' = severityIndex \cup {c}
    /\ scanned' = push_unique(scanned, c)
    /\ score' = [score EXCEPT ![r.scanner] = saturating_add(@)]

\* Mutant: the approval is checked but the scanner need not have signed.
submit_scan_unsigned(auth, s, c, hash, counts) ==
    /\ hash # EmptyHash
    /\ is_scanner(s)
    /\ contract_active(c)
    /\ store_result(c, [scanner |-> s, timestamp |-> now,
                        findings_hash |-> hash, severity_counts |-> counts])
    /\ signer' = auth
    /\ event' = NoEvent
    /\ UNCHANGED <<admin, scanner, scannerCount, metadata, now>>

\* Nothing is published: event' = NoEvent is what the code does.
submit_scan(auth, s, c, hash, counts) ==
    /\ hash # EmptyHash
    /\ auth = s
    /\ is_scanner(s)
    /\ contract_active(c)
    /\ store_result(c, [scanner |-> s, timestamp |-> now,
                        findings_hash |-> hash, severity_counts |-> counts])
    /\ signer' = auth
    /\ event' = NoEvent
    /\ UNCHANGED <<admin, scanner, scannerCount, metadata, now>>

dispute_scan(auth, s) ==
    /\ require_admin(auth)
    /\ score' = [score EXCEPT ![s] = saturating_sub(@)]
    /\ signer' = auth
    /\ event' = NoEvent
    /\ UNCHANGED <<admin, scanner, scannerCount, scanVars, metadata, now>>

\* Mutant: any approved scanner may describe any contract.
set_metadata_any_scanner(auth, s, c, m) ==
    /\ auth = s
    /\ is_scanner(s)
    /\ metadata' = [metadata EXCEPT ![c] = m]
    /\ signer' = auth
    /\ event' = NoEvent
    /\ UNCHANGED <<admin, scanner, scannerCount, scanVars, score, now>>

\* Only the latest scan is consulted: neither an earlier submitter of the
\* contract nor the scanner's present approval is looked at.
set_metadata(auth, s, c, m) ==
    /\ auth = s
    /\ latest[c] # NoScan
    /\ latest[c].scanner = s
    /\ metadata' = [metadata EXCEPT ![c] = m]
    /\ signer' = auth
    /\ event' = NoEvent
    /\ UNCHANGED <<admin, scanner, scannerCount, scanVars, score, now>>

\* The next ledger closes: its timestamp never goes back.
CloseLedger ==
    /\ now < MaxTime
    /\ now' = now + 1
    /\ UNCHANGED <<admin, scanner, scannerCount, scanVars, score, metadata, signer, event>>

Invoke(auth) ==
    \/ \E a \in Address : initialize(auth, a)
    \/ \E s \in Address : add_scanner(auth, s)
    \/ \E s \in Address : remove_scanner(auth, s)
    \/ \E s \in Address, c \in Contracts, h \in Hashes, m \in SeverityMaps :
           submit_scan(auth, s, c, h, m)
    \/ \E s \in Address : dispute_scan(auth, s)
    \/ \E s \in Address, c \in Contracts, m \in MetadataValues : set_metadata(auth, s, c, m)

Next == (\E auth \in Address : Invoke(auth)) \/ CloseLedger

Spec == Init /\ [][Next]_vars

-----------------------------------------------------------------------------
(* Queries.  Each returns what the caller receives, or Panic.              *)

get_severity_count(counts, label) == IF label \in DOMAIN counts THEN counts[label] ELSE 0

least(m, n) == IF m < n THEN m ELSE n

get_scan(c) == latest[c]
get_history(c) == history[c]
get_history_len(c) == Len(history[c])
get_scanner_score(s) == score[s]
get_all_scanned_contracts == scanned
get_metadata(c) == metadata[c]
get_admin == IF admin = NoAddress THEN Panic ELSE admin

\* Elements start .. end - 1 of a host Vec, counted from 0.
slice(seq, start, end) == SubSeq(seq, start + 1, end)

\* Mutant: the second threshold is forgotten.
severity_matches_critical(min_critical, min_high) ==
    LET meets(c) ==
            /\ c \in severityIndex
            /\ latest[c] # NoScan
            /\ get_severity_count(latest[c].severity_counts, "critical") >= min_critical
    IN SelectSeq(KeyOrder, meets)

severity_matches(min_critical, min_high) ==
    LET meets(c) ==
            /\ c \in severityIndex
            /\ latest[c] # NoScan
            /\ get_severity_count(latest[c].severity_counts, "critical") >= min_critical
            /\ get_severity_count(latest[c].severity_counts, "high") >= min_high
    IN SelectSeq(KeyOrder, meets)

get_scans_by_min_severity(min_critical, min_high, page, page_size) ==
    LET matches == severity_matches(min_critical, min_high)
        start == page * page_size
    IN  CASE page_size = 0 -> matches
          [] page_size > 0 /\ start > U32_MAX -> Panic
          [] page_size > 0 /\ start \in Len(matches)..U32_MAX -> <<>>
          [] page_size > 0 /\ start < Len(matches) ->
                 IF start + page_size > U32_MAX THEN Panic
                 ELSE slice(matches, start, least(start + page_size, Len(matches)))

\* Mutant: the limit of the caller is not capped.
get_history_page_uncapped(c, offset, limit) ==
    IF offset >= Len(history[c]) THEN <<>>
    ELSE slice(history[c], offset, least(offset + limit, Len(history[c])))

get_history_page(c, offset, limit) ==
    LET effective_limit == least(limit, MAX_LIMIT)
        total == Len(history[c])
    IN  IF offset >= total THEN <<>>
        ELSE IF offset + effective_limit > U32_MAX THEN Panic
        ELSE slice(history[c], offset, least(offset + effective_limit, total))

get_latest_scans_batch(contracts) ==
    IF Len(contracts) > MAX_BATCH THEN Panic
    ELSE [i \in DOMAIN contracts |-> latest[contracts[i]]]

\* Mutant: an exclusive end computed as if it were inclusive.
get_scanned_contracts_page_short(page, page_size) ==
    LET start == page * page_size
    IN  IF start + page_size > U32_MAX THEN Panic
        ELSE slice(scanned, start, least(start + page_size - 1, Len(scanned)))

\* Mutant: all.get(i).unwrap() instead of a break at the end of the list.
get_scanned_contracts_page_unwrap(page, page_size) ==
    LET start == page * page_size
    IN  IF start + page_size > Len(scanned) THEN Panic
        ELSE slice(scanned, start, start + page_size)

\* Both page * page_size (u32) and start + page_size (usize, 32 bits on the
\* wasm target) are checked, and evaluated before the list is looked at.
get_scanned_contracts_page(page, page_size) ==
    LET start == page * page_size
    IN  IF start + page_size > U32_MAX THEN Panic
        ELSE slice(scanned, start, least(start + page_size, Len(scanned)))

-----------------------------------------------------------------------------
(* Properties.                                                             *)

\* Every storage key holds a value of its Rust type, and a stored score
\* stays within i32.
TypeOK ==
    /\ admin \in Address \cup {NoAddress}
    /\ scanner \in [Address -> BOOLEAN]
    /\ scannerCount \in 0..U32_MAX
    /\ latest \in [Contracts -> ScanResult \cup {NoScan}]
    /\ history \in [Contracts -> Seq(ScanResult)]
    /\ severityIndex \subseteq Contracts
    /\ scanned \in Seq(Contracts)
    /\ score \in [Address -> I32_MIN..I32_MAX]
    /\ metadata \in [Contracts -> MetadataValues \cup {NoMetadata}]
    /\ now \in 0..MaxTime
    /\ signer \in Address \cup {NoAddress}
    /\ event \in Event \cup {NoEvent}

\* ScannerCount is maintained by increments and a saturating decrement, each
\* guarded by the flag it read; it must still be the number of approved
\* addresses after any sequence of repeated additions and removals.
ScannerCountExact == scannerCount = Cardinality({a \in Address : scanner[a]})

\* store_result keeps four copies of one fact in four storage entries: the
\* latest result is the newest of the history ...
LatestIsNewest ==
    \A c \in Contracts :
        latest[c] = IF history[c] = <<>> THEN NoScan ELSE Last(history[c])

\* ... and the severity index, the scanned list and the histories name the
\* same contracts, the list naming each exactly once.
IndexesAgree ==
    /\ \A c \in Contracts : history[c] # <<>> <=> c \in severityIndex
    /\ \A c \in Contracts : c \in severityIndex <=> Contains(scanned, c)
    /\ \A i, j \in 1..Len(scanned) : scanned[i] = scanned[j] => i = j

\* get_history_page promises "oldest to newest": the timestamps of a history
\* never decrease, and none lies in the future.
HistoryChronological ==
    \A c \in Contracts :
        /\ \A i, j \in 1..Len(history[c]) :
               i <= j => history[c][i].timestamp <= history[c][j].timestamp
        /\ \A i \in 1..Len(history[c]) : history[c][i].timestamp <= now

\* A reputation can be earned only by submitting: whatever disputes and
\* saturation do, a score never exceeds the scans its owner has on record.
Submissions(s) ==
    {p \in Contracts \X (1..MaxHistory) :
        p[2] <= Len(history[p[1]]) /\ history[p[1]][p[2]].scanner = s}

ScoreEarned == \A s \in Address : score[s] <= Cardinality(Submissions(s))

\* Metadata exists only for a contract that somebody has scanned, although
\* set_metadata never looks at the scanned list or the history.
MetadataBacked == \A c \in Contracts : metadata[c] # NoMetadata => Contains(scanned, c)

\* The six entries that speak of one scan agree after every invocation: a
\* rescan, a full history or a change of roles leaves none of them behind.
ScanCopiesAgree == LatestIsNewest /\ IndexesAgree /\ MetadataBacked

\* A client that asks for page 0, 1, 2, ... of the severity query, with any
\* page size, gets every matching contract once and in the order of the
\* unpaginated answer; the last page may be short and the next one is empty.
\* The contracts are those whose LATEST scan meets both thresholds.
Pages(page(_), n) == FlattenSeq([i \in 1..n |-> page(i - 1)])

SeverityPagesTile ==
    \A mc, mh \in 0..1 :
        LET all == get_scans_by_min_severity(mc, mh, 0, 0)
            n == Len(all)
        IN  /\ ToSet(all) = {c \in Contracts :
                    /\ history[c] # <<>>
                    /\ get_severity_count(Last(history[c]).severity_counts, "critical") >= mc
                    /\ get_severity_count(Last(history[c]).severity_counts, "high") >= mh}
            /\ \A size \in 1..Cardinality(Contracts) :
                   LET page(p) == get_scans_by_min_severity(mc, mh, p, size)
                   IN  Pages(page, n + 1) = all

\* The same for the pages of the scanned list.
ScannedPagesTile ==
    \A size \in 1..Cardinality(Contracts) :
        LET page(p) == get_scanned_contracts_page(p, size)
        IN  Pages(page, Len(scanned) + 1) = get_all_scanned_contracts

\* A client that advances its offset by the number of records it received
\* reads the whole history, also when its limit is above the cap of the
\* code: no page before the end is empty, and none skips a record.
HistoryPagesContiguous ==
    \A c \in Contracts, limit \in 1..(MAX_LIMIT + 1), offset \in 0..MaxHistory :
        LET page == get_history_page(c, offset, limit)
        IN  /\ offset < get_history_len(c) <=> page # <<>>
            /\ Len(page) <= MAX_LIMIT
            /\ \A i \in 1..Len(page) : page[i] = get_history(c)[offset + i]

\* All paginated queries tile their unpaginated answers.
PagesTile == SeverityPagesTile /\ ScannedPagesTile /\ HistoryPagesContiguous

\* History is append-only and authentic: a step leaves every stored history
\* as a prefix of the new one, and a record it adds names a scanner that was
\* approved and signed, and carries the ledger's own time.
HistoryAuthentic ==
    [][\A c \in Contracts :
        /\ IsPrefix(history[c], history'[c])
        /\ \A i \in (Len(history[c]) + 1)..Len(history'[c]) :
               /\ history'[c][i].scanner = signer'
               /\ scanner[signer']
               /\ history'[c][i].timestamp = now]_vars

\* Scanner management and disputes are the admin's alone: the approved set
\* changes, or a score falls, only in a step the admin in office signed, and
\* a scanner score rises only in a step that records a scan of that scanner.
\* Metadata changes only by the signature of the scanner of the newest record,
\* and a new scan by somebody else leaves it in place.
Governed ==
    [][/\ scanner' # scanner => signer' = admin
       /\ \A s \in Address : score'[s] < score[s] => signer' = admin
       /\ \A s \in Address : score'[s] > score[s] =>
              Submissions(s)' # Submissions(s)
       /\ admin # NoAddress => admin' = admin
       /\ \A c \in Contracts : metadata'[c] # metadata[c] =>
              history[c] # <<>> /\ signer' = Last(history[c]).scanner]_vars

(* What the documentation of the registry says and the code does not do.   *)

\* registry/src/lib.rs:183 says that submit_scan emits ("scan", "submitted").
SubmitEmitsEvent ==
    [][history' # history => event' # NoEvent /\ event'.topic = "submitted"]_vars

\* registry/src/lib.rs:466 says that get_scanned_contracts_page returns an
\* empty vec when the page is out of range.
OutOfRangePageIsEmpty ==
    \A page, page_size \in 0..U32_MAX :
        page * page_size >= Len(scanned) => get_scanned_contracts_page(page, page_size) = <<>>

-----------------------------------------------------------------------------
\* The answers of the queries, as ScanLog names them.
answers ==
    [scan    |-> [c \in Contracts |-> get_scan(c)],
     indexed |-> severityIndex,
     listed  |-> ToSet(get_all_scanned_contracts)]

Log == INSTANCE ScanLog WITH
           Results <- ScanResult,
           log <- history,
           approved <- {a \in Address : scanner[a]},
           view <- answers

\* The registry implements the log: every invocation is a step of the log or
\* invisible to its readers, and the answers follow from the log at once.
ImplementsScanLog == Log!Spec
=============================================================================
