------------------------------ MODULE GridView ------------------------------
(***************************************************************************)
(* The page /dashboard/grid (apps/web/src/routes/(app)/dashboard/grid) and *)
(* its cells (lib/components/dashboard/GridCell.svelte).  A cell plays its *)
(* camera with a player (an Hls instance) that it may create only after it *)
(* has awaited the import of hls.js; meanwhile the user goes on choosing.  *)
(* One flag per cell, cancelled, tells a start that continues whether it   *)
(* was overtaken.  Safari's native player is left out: it is set at once.  *)
(***************************************************************************)
EXTENDS Integers, Sequences, SequencesExt, HlsLoader, CameraList

CONSTANTS
    NoCamera,    \* null
    Layout,      \* the numbers of cells there may be: 1, 4 and 9 in the page
    DefaultLayout,
    MaxStarts    \* bound: starts of one cell that wait for the import

ASSUME CameraAssumption == NoCamera \notin Camera
ASSUME LayoutAssumption ==
    Layout \subseteq Nat \ {0} /\ DefaultLayout \in Layout /\ MaxStarts \in Nat

VARIABLES
    listed,      \* data.cameras of the page
    cells,       \* the mounted cells; <<>> while the page is not open
    store        \* localStorage: the camera ids of the cells, <<>> if absent

gridVars == <<listed, cells, store>>

Cell == [camera : Camera \cup {NoCamera},
         starts : Seq(Camera),      \* initHls calls that await the import
         live   : Seq(Camera),      \* players created and not destroyed
         hls    : Nat,              \* hlsInstance: its place in live, or 0
         cancelled : BOOLEAN,
         failed : BOOLEAN]          \* errorMessage is set: no video element

EmptyCell == [camera |-> NoCamera, starts |-> <<>>, live |-> <<>>, hls |-> 0,
              cancelled |-> TRUE, failed |-> FALSE]

GridInit == listed = {} /\ cells = <<>> /\ store = <<>>

GridOpen == cells # <<>>

-----------------------------------------------------------------------------
(* A cell.                                                                 *)

\* Mutant: destroy() is called, and hlsInstance keeps the destroyed player.
TakeDownKept(cell) ==
    [cell EXCEPT !.live = IF cell.hls = 0 THEN @ ELSE RemoveAt(@, cell.hls)]

\* hlsInstance.destroy(), hlsInstance = null
TakeDown(cell) ==
    [cell EXCEPT !.live = IF cell.hls = 0 THEN @ ELSE RemoveAt(@, cell.hls),
                 !.hls = 0]

\* Mutant: destroyHls does not tell a start that is under way.
DestroyUntold(cell) == TakeDown(cell)

\* destroyHls
DestroyHls(cell) == [TakeDown(cell) EXCEPT !.cancelled = TRUE]

\* After the import: new Hls(), unless the start was cancelled.
CreateHls(cell, camera) ==
    IF cell.cancelled THEN cell
    ELSE [cell EXCEPT !.live = Append(@, camera), !.hls = Len(cell.live) + 1]

\* initHls up to the import.  Without a video element, which an error has
\* replaced, it returns at once.
InitHls(cell, camera) ==
    IF cell.failed THEN cell
    ELSE LET fresh == [DestroyHls(cell) EXCEPT !.cancelled = FALSE]
         IN IF HlsLoaded THEN CreateHls(fresh, camera)
            ELSE [fresh EXCEPT !.starts = Append(@, camera)]

\* The $effect on assignedCamera.
Show(cell, camera) ==
    LET shown == [cell EXCEPT !.camera = camera]
    IN IF camera = NoCamera THEN [DestroyHls(shown) EXCEPT !.failed = FALSE]
       ELSE InitHls(shown, camera)

\* The waiting starts continue in their order, unless they are cancelled: each
\* creates a player, and hlsInstance is the last one's.
Resume(cell) ==
    IF cell.cancelled \/ cell.starts = <<>> THEN [cell EXCEPT !.starts = <<>>]
    ELSE [cell EXCEPT !.starts = <<>>, !.live = @ \o cell.starts,
                      !.hls = Len(cell.live) + Len(cell.starts)]

\* The import is rejected: a start that is not cancelled shows the error.
Reject(cell) ==
    [cell EXCEPT !.failed = @ \/ (cell.starts # <<>> /\ ~ cell.cancelled),
                 !.starts = <<>>]

-----------------------------------------------------------------------------
(* The page.                                                               *)

\* persistGridState, the $effect on cellCount and assignments.
Persist(cs) == store' = [i \in 1 .. Len(cs) |-> cs[i].camera]

\* The cells get their cameras: those that exist already only if they change.
Assigned(old, cameras) ==
    [i \in 1 .. Len(cameras) |->
        LET cell == IF i <= Len(old) THEN old[i] ELSE EmptyCell
        IN IF cell.camera = cameras[i] THEN cell ELSE Show(cell, cameras[i])]

SetCells(cs) ==
    /\ cells' = cs
    /\ \A i \in 1 .. Len(cs) : Len(cs[i].starts) <= MaxStarts
    /\ Import(\E i \in 1 .. Len(cs) : cs[i].starts # <<>>)
    /\ Persist(cs)

\* restoreGridState: the cameras of the store that are listed.
Restored(cameras) ==
    IF store = <<>> THEN [i \in 1 .. DefaultLayout |-> NoCamera]
    ELSE [i \in 1 .. Len(store) |->
             IF store[i] \in cameras THEN store[i] ELSE NoCamera]

\* The page is mounted with the cameras that load returned, none if it failed.
OpenGrid(cameras) ==
    /\ ~ GridOpen
    /\ listed' = cameras
    /\ SetCells(Assigned(<<>>, Restored(cameras)))

\* handleAssign: a camera is chosen in a cell, or none.
Assign(i, camera) ==
    /\ camera # cells[i].camera
    /\ SetCells([cells EXCEPT ![i] = Show(@, camera)])
    /\ UNCHANGED listed

\* handleLayoutChange: cells are kept, added empty, or unmounted.
LayoutChange(n) ==
    /\ GridOpen /\ n # Len(cells)
    /\ SetCells(Assigned(cells, [i \in 1 .. n |->
           IF i <= Len(cells) THEN cells[i].camera ELSE NoCamera]))
    /\ UNCHANGED listed

\* A player reports a fatal error: the cell shows it instead of the video.
FatalError(i) ==
    /\ cells[i].live # <<>> /\ ~ cells[i].failed
    /\ cells' = [cells EXCEPT ![i].failed = TRUE]
    /\ UNCHANGED <<listed, store, hlsModule>>

\* onDestroy of every cell.
CloseGrid == cells' = <<>> /\ UNCHANGED <<listed, store>>

GridNext ==
    \/ \E i \in 1 .. Len(cells) :
           \/ \E c \in listed \cup {NoCamera} : Assign(i, c)
           \/ FatalError(i)
    \/ \E n \in Layout : LayoutChange(n)

-----------------------------------------------------------------------------

GridTypeOK ==
    /\ listed \subseteq Camera
    /\ cells \in Seq(Cell) /\ Len(cells) \in Layout \cup {0}
    /\ store \in Seq(Camera \cup {NoCamera}) /\ Len(store) \in Layout \cup {0}
    /\ \A i \in 1 .. Len(cells) : cells[i].hls <= Len(cells[i].live)

\* Once no import is awaited, a cell that shows no error refers to a player of
\* the camera chosen in it, and an empty cell to none: a start that the user
\* overtook by choosing another camera, or none, does not take the cell over
\* (GridCell.svelte:97).
PlaysItsCamera ==
    \A i \in 1 .. Len(cells) :
        LET cell == cells[i]
        IN (cell.starts = <<>> /\ ~ cell.failed) =>
               IF cell.camera = NoCamera THEN cell.hls = 0
               ELSE cell.hls # 0 /\ cell.live[cell.hls] = cell.camera

=============================================================================
