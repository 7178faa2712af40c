--------------------------- MODULE RegistryReader ---------------------------
(***************************************************************************)
(* A reader that lists every scanned contract through                      *)
(* get_scanned_contracts_page, one page per invocation, while scanners go  *)
(* on submitting between two of its requests.  The reader is not part of   *)
(* the repository: it is the use the paginated query is written for.       *)
(***************************************************************************)
EXTENDS Registry

CONSTANT PageSize    \* the page_size of the reader, never 0

ASSUME PageSizeAssumption == PageSize \in 1..U32_MAX

VARIABLES
    walking,   \* the walk is under way
    page,      \* the page requested next
    seen,      \* the addresses received so far, in the order received
    before     \* the contracts that were listed when the walk began

readerVars == <<walking, page, seen, before>>
allVars == <<vars, readerVars>>

ReaderInit ==
    /\ Init
    /\ walking = FALSE
    /\ page = 0
    /\ seen = <<>>
    /\ before = {}

Begin ==
    /\ ~walking
    /\ walking' = TRUE
    /\ page' = 0
    /\ seen' = <<>>
    /\ before' = ToSet(get_all_scanned_contracts)
    /\ UNCHANGED vars

\* One invocation; a page shorter than PageSize ends the walk.
ReadPage ==
    LET answer == get_scanned_contracts_page(page, PageSize)
    IN  /\ walking
        /\ answer # Panic
        /\ seen' = seen \o answer
        /\ page' = page + 1
        /\ walking' = (Len(answer) = PageSize)
        /\ UNCHANGED <<vars, before>>

ReaderNext == (Next /\ UNCHANGED readerVars) \/ Begin \/ ReadPage

\* A client that has begun keeps asking; nothing else need ever happen.
ReaderSpec == ReaderInit /\ [][ReaderNext]_allVars /\ WF_allVars(ReadPage)

-----------------------------------------------------------------------------
\* The answer is a consistent list although it was assembled over many
\* ledgers: no address twice, none that was not scanned, and at the end none
\* missing that was listed when the walk began.
WalkConsistent ==
    /\ \A i, j \in 1..Len(seen) : seen[i] = seen[j] => i = j
    /\ IsPrefix(seen, scanned)
    /\ (~walking /\ page > 0) => before \subseteq ToSet(seen)

\* Submissions cannot keep a reader busy for ever, and no page it asks for
\* panics: every walk that has begun comes to its end.
WalkEnds == walking ~> ~walking
=============================================================================
