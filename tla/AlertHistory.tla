---------------------------- MODULE AlertHistory ----------------------------
(***************************************************************************)
(* An operator reads the alert history (GET / of                           *)
(* apps/api/src/routes/alerts.ts and apps/web/src/routes/(app)/alerts)     *)
(* page by page while the detection poller goes on storing and trimming.   *)
(* A page is a LIMIT and an OFFSET into all the alerts, newest first, so   *)
(* what is stored or trimmed between two pages moves the alerts that the   *)
(* next one shows.                                                         *)
(*                                                                         *)
(* The poller is DetectionPoller's; the alerts' rowids are added to it.    *)
(***************************************************************************)
EXTENDS DetectionPoller, Functions

CONSTANT Limit   \* limit of the page's load: 50

ASSUME LimitAssumption == Limit \in Nat \ {0}
ASSUME KeysAssumption == IsFiniteSet(Box) /\ IsFiniteSet(Channel)

VARIABLES
    table,    \* the place of each row of detection_alerts in rowid order
    reader    \* the page /alerts

readerVars == <<vars, table, reader>>

Alert == [key : Key, row : Row]

Alerts(h) == UNION {{[key |-> k, row |-> r] : r \in h[k]} : k \in Key}

\* A page that shows nothing.  owed and missed are kept for the property: the
\* alerts there were at the first page that no page has shown yet, and those of
\* them that the pages have passed.
NoPage == [open |-> FALSE, offset |-> 0, total |-> 0, some |-> FALSE,
           owed |-> {}, missed |-> {}]

-----------------------------------------------------------------------------
(* GET /                                                                   *)

FiredAt(a) == a.row.evt.ts

\* Mutant: ORDER BY fired_at.
OldestBefore(a, b) ==
    FiredAt(a) < FiredAt(b) \/ (FiredAt(a) = FiredAt(b) /\ table[a] < table[b])

\* ORDER BY fired_at DESC over the whole table: no index serves it, and the
\* sorter leaves rows of one fired_at in the order of their rowids.
Before(a, b) ==
    FiredAt(a) > FiredAt(b) \/ (FiredAt(a) = FiredAt(b) /\ table[a] < table[b])

\* The first n alerts.
Leading(n) ==
    {a \in DOMAIN table : Cardinality({h \in DOMAIN table : Before(h, a)}) < n}

\* LIMIT ? OFFSET ?
Page(offset) == Leading(offset + Limit) \ Leading(offset)

-----------------------------------------------------------------------------
(* The page.                                                               *)

\* load: the answer's rows and total, which the server has read at once; the
\* first page begins a new reading.
Loaded(offset) ==
    LET owed == (IF offset = 0 THEN DOMAIN table ELSE reader.owed) \ Page(offset)
    IN [open |-> TRUE, offset |-> offset, total |-> Cardinality(DOMAIN table),
        some |-> Page(offset) # {},
        owed |-> owed, missed |-> owed \cap Leading(offset + Limit)]

\* load, when the request fails: no alert and a total of 0, at the same offset.
LoadFailed(offset) ==
    [reader EXCEPT !.open = TRUE, !.offset = offset, !.total = 0, !.some = FALSE]

hasPrev == reader.offset > 0

hasNext == reader.offset + Limit < reader.total

prevOffset == IF reader.offset < Limit THEN 0 ELSE reader.offset - Limit

nextOffset == reader.offset + Limit

Show(offset) ==
    /\ reader' \in {Loaded(offset), LoadFailed(offset)}
    /\ UNCHANGED <<vars, table>>

OpenAlerts == Show(0)

ReloadAlerts == reader.open /\ Show(reader.offset)

\* The links are left out of a page without alerts.
NextPage == reader.some /\ hasNext /\ Show(nextOffset)

PreviousPage == reader.some /\ hasPrev /\ Show(prevOffset)

-----------------------------------------------------------------------------

\* Where an alert stands among the kept ones: only the order of the rowids
\* matters.
Place(kept, a) == Cardinality({b \in kept : table[b] <= table[a]})

\* A row that is stored gets the rowid after the last there is; those that one
\* answer brings, in the order of the answer.
TableFollows ==
    LET stored == Alerts(history')
        kept == stored \cap DOMAIN table
        new == stored \ DOMAIN table
    IN  \E order \in Bijection(new, 1 .. Cardinality(new)) :
           table' = [a \in stored |-> IF a \in new THEN Cardinality(kept) + order[a]
                                      ELSE Place(kept, a)]

\* What is gone cannot be shown any more.
ServerStep ==
    /\ Next /\ TableFollows
    /\ reader' = [reader EXCEPT !.owed = @ \cap Alerts(history'),
                                !.missed = @ \cap Alerts(history')]

ReaderNext == OpenAlerts \/ ReloadAlerts \/ NextPage \/ PreviousPage

HistoryNext == ServerStep \/ ReaderNext

HistorySpec ==
    Init /\ table = <<>> /\ reader = NoPage /\ [][HistoryNext]_readerVars

\* The poller's fairness; nobody needs to read.
FairHistorySpec == HistorySpec /\ Fairness

-----------------------------------------------------------------------------

\* The type invariant; the table holds what the poller keeps, each row once.
HistoryTypeOK ==
    /\ TypeOK
    /\ table \in [Alerts(history) -> Nat \ {0}]
    /\ \A a, b \in DOMAIN table : table[a] = table[b] => a = b
    /\ reader \in [open : BOOLEAN, offset : Nat, total : Nat, some : BOOLEAN,
                   owed : SUBSET Alert, missed : SUBSET Alert]

\* Whoever pages through the history, back and forth, passes no alert by that
\* was there when he began and still is, whatever is stored and trimmed in
\* between: an alert only moves on to later pages, for a channel is trimmed only
\* by as many as it has just stored, and newer ones.  A box that is deleted, or
\* a crash before the trimming, breaks that (alerts.ts:258-266,
\* detectionPoller.ts:147-167).
NonePassedBy ==
    (crashes = 0 /\ \A b \in Box : boxes[b] # "deleted") => reader.missed = {}

=============================================================================
