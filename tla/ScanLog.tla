------------------------------ MODULE ScanLog ------------------------------
(***************************************************************************)
(* What the registry promises its readers, without its storage layout: an  *)
(* append-only log of scans per contract, written by approved scanners,    *)
(* and a view of it that is at every moment a function of the log.         *)
(***************************************************************************)
EXTENDS Naturals, Sequences

CONSTANTS Address, Contracts, Results, NoScan

VARIABLES
    log,       \* contract -> the scans recorded for it, oldest first
    approved,  \* the scanners that may write
    view       \* what the queries answer

\* The answers the log determines: the current scan of each contract, the
\* contracts known to the index and to the list.
ViewOf(l) ==
    [scan    |-> [c \in Contracts |-> IF l[c] = <<>> THEN NoScan ELSE l[c][Len(l[c])]],
     indexed |-> {c \in Contracts : l[c] # <<>>},
     listed  |-> {c \in Contracts : l[c] # <<>>}]

vars == <<log, approved, view>>

Init ==
    /\ log = [c \in Contracts |-> <<>>]
    /\ approved = {}
    /\ view = ViewOf(log)

Approve(a) == approved' = approved \cup {a} /\ log' = log
Dismiss(a) == approved' = approved \ {a} /\ log' = log

Record(c, r) ==
    /\ r.scanner \in approved
    /\ log' = [log EXCEPT ![c] = Append(@, r)]
    /\ approved' = approved

Next ==
    /\ \/ \E a \in Address : Approve(a) \/ Dismiss(a)
       \/ \E c \in Contracts, r \in Results : Record(c, r)
    /\ view' = ViewOf(log)'

Spec == Init /\ [][Next]_vars
=============================================================================
