---------------------------- MODULE BoxListPage ----------------------------
(***************************************************************************)
(* The page /boxes (apps/web/src/routes/(app)/boxes/+page.svelte): while   *)
(* the tab is visible the list is asked for every 15 seconds, and at once  *)
(* when it becomes visible.  An answer 401 sends the tab to /login, also   *)
(* when the page that asked has been left.  What the list says is left     *)
(* out.                                                                    *)
(***************************************************************************)
EXTENDS Integers

CONSTANT MaxRefreshes   \* bound: requests for the list under way

ASSUME RefreshesAssumption == MaxRefreshes \in Nat

VARIABLE boxList

NoBoxList ==
    [open |-> FALSE, visible |-> FALSE,
     timers |-> 0,           \* intervals that run
     intervalId |-> FALSE,   \* intervalId holds one of them
     asked |-> 0]            \* refreshBoxes calls that wait for an answer

BoxListInit == boxList = NoBoxList

-----------------------------------------------------------------------------

StopPolling(page) ==
    [page EXCEPT !.timers = IF page.intervalId THEN @ - 1 ELSE @,
                 !.intervalId = FALSE]

StartPolling(page) ==
    [StopPolling(page) EXCEPT !.timers = @ + 1, !.intervalId = TRUE]

RefreshBoxes(page) == [page EXCEPT !.asked = @ + 1]

\* The $effect on data, with the clean-up of its last run.
BoxData(page) ==
    LET clean == StopPolling(page)
    IN IF page.visible THEN StartPolling(clean) ELSE clean

\* Mutant: a tab that is hidden keeps its timer.
PollsHidden(page) ==
    IF page.visible THEN StartPolling(RefreshBoxes(page)) ELSE page

\* onVisibilityChange
VisibilityChange(page) ==
    IF page.visible THEN StartPolling(RefreshBoxes(page)) ELSE StopPolling(page)

-----------------------------------------------------------------------------

SetBoxList(page) == page.asked <= MaxRefreshes /\ boxList' = page

\* load has answered, in a tab that may be hidden.
OpenBoxList(visible) ==
    SetBoxList(BoxData([boxList EXCEPT !.open = TRUE, !.visible = visible]))

\* load answers again.
ReloadBoxList == boxList.open /\ SetBoxList(BoxData(boxList))

HideOrShow ==
    /\ boxList.open
    /\ SetBoxList(VisibilityChange([boxList EXCEPT !.visible = ~ @]))

\* The interval fires.
PollBoxList == boxList.timers > 0 /\ SetBoxList(RefreshBoxes(boxList))

\* An answer other than 401, or none.
BoxListAnswered ==
    /\ boxList.asked > 0
    /\ boxList' = [boxList EXCEPT !.asked = @ - 1]

\* The clean-up of the $effect; what was asked goes on.
CloseBoxList ==
    boxList' = [StopPolling(boxList) EXCEPT !.open = FALSE, !.visible = FALSE]

BoxListNext ==
    ReloadBoxList \/ HideOrShow \/ PollBoxList \/ BoxListAnswered

-----------------------------------------------------------------------------

BoxListTypeOK ==
    boxList \in [open : BOOLEAN, visible : BOOLEAN, timers : Nat,
                 intervalId : BOOLEAN, asked : 0 .. MaxRefreshes]

\* The list is polled by one timer exactly while it is seen: none is left behind
\* by a change of the data, a tab hidden and shown, or a page that was left, and
\* none is missing afterwards (boxes/+page.svelte:46-84).
PolledWhileSeen ==
    boxList.timers = (IF boxList.open /\ boxList.visible THEN 1 ELSE 0)

=============================================================================
