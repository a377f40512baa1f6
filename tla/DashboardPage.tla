--------------------------- MODULE DashboardPage ---------------------------
(***************************************************************************)
(* The page /dashboard: a list of cameras, asked for again every 30        *)
(* seconds, and a map of those that have coordinates                       *)
(* (apps/web/src/routes/(app)/dashboard/+page.svelte and                   *)
(* lib/components/dashboard/CameraMap.svelte).  Every answer puts a new    *)
(* CameraMap in the place of the old one.  It awaits the import of Leaflet *)
(* before it makes its map; when it was replaced meanwhile, its container  *)
(* is gone, so that it makes none.                                         *)
(***************************************************************************)
EXTENDS Integers, Sequences, SequencesExt, CameraList

CONSTANT MaxAsked   \* bound: requests of a page's timer under way

ASSUME AskedAssumption == MaxAsked \in Nat

VARIABLES dash, leafletModule

dashVars == <<dash, leafletModule>>

Leaflet == INSTANCE HlsLoader WITH hlsModule <- leafletModule

NoDashboard ==
    [open |-> FALSE,
     list |-> NoCameras,       \* refreshedCameras ?? data.cameras
     timers |-> 0,             \* intervals that run
     asked |-> 0,              \* refreshCameras calls that wait for an answer
     map |-> "none",           \* the mounted CameraMap
     maps |-> <<>>]            \* Leaflet maps not removed: the cameras on each

Dashboard == [open : BOOLEAN, list : CameraLists, timers : Nat,
              asked : 0 .. MaxAsked,
              map : {"none", "awaiting", "made", "failed"},
              maps : Seq(SUBSET Camera)]

DashInit == dash = NoDashboard /\ Leaflet!HlsInit

-----------------------------------------------------------------------------
(* CameraMap.                                                              *)

\* onMount after the import: L.map and its markers.
MakeMap(page) ==
    [page EXCEPT !.map = "made", !.maps = Append(@, page.list.geocoded)]

\* onMount
MountMap(page) ==
    IF Leaflet!HlsLoaded THEN MakeMap(page) ELSE [page EXCEPT !.map = "awaiting"]

\* Mutant: nothing is done when the component goes.
KeepMap(page) == [page EXCEPT !.map = "none"]

\* onDestroy: the map of this CameraMap, made last, is removed.
RemoveMap(page) ==
    [page EXCEPT !.map = "none",
                 !.maps = IF page.map = "made" THEN Front(@) ELSE @]

-----------------------------------------------------------------------------
(* The page.                                                               *)

SetDashboard(page) ==
    /\ dash' = page
    /\ Leaflet!Import(page.map = "awaiting")

\* load gives the list, an empty one if it failed; onMount sets the interval.
OpenDashboard(list) ==
    SetDashboard(MountMap([NoDashboard EXCEPT !.open = TRUE, !.list = list,
                                              !.timers = 1]))

\* The interval fires.
AskCameras ==
    /\ dash.timers > 0 /\ dash.asked < MaxAsked
    /\ dash' = [dash EXCEPT !.asked = @ + 1]
    /\ UNCHANGED leafletModule

\* refreshCameras goes on; a failure leaves the page as it is.
CamerasAnswered(ok, list) ==
    /\ dash.asked > 0
    /\ LET page == [dash EXCEPT !.asked = @ - 1]
       IN SetDashboard(IF ok THEN MountMap([RemoveMap(page) EXCEPT !.list = list])
                       ELSE page)

\* The page goes: its answers find nobody.
CloseDashboard ==
    /\ dash' = [RemoveMap(dash) EXCEPT !.open = FALSE, !.list = NoCameras,
                                       !.timers = 0, !.asked = 0]
    /\ UNCHANGED leafletModule

\* Leaflet has arrived, or could not be had.  A CameraMap that was replaced while it
\* waited has no container left: L.map throws there and creates nothing.
LeafletSettles(ok) ==
    /\ leafletModule = "fetching"
    /\ leafletModule' = IF ok THEN "loaded" ELSE "absent"
    /\ dash' = IF dash.map # "awaiting" THEN dash
               ELSE IF ok THEN MakeMap(dash) ELSE [dash EXCEPT !.map = "failed"]

DashNext ==
    \/ AskCameras
    \/ \E list \in CameraLists : CamerasAnswered(TRUE, list)
    \/ CamerasAnswered(FALSE, NoCameras)
    \/ \E ok \in BOOLEAN : LeafletSettles(ok)

-----------------------------------------------------------------------------

DashTypeOK == dash \in Dashboard /\ leafletModule \in Leaflet!HlsModule

\* There is one map at a time, of the cameras the page lists, and none once the
\* page has gone, though the list is renewed while Leaflet is still being
\* fetched and requests overlap (dashboard/+page.svelte:32-46,
\* CameraMap.svelte:41-138).
OneMap ==
    /\ dash.map = "made" => dash.maps = <<dash.list.geocoded>>
    /\ dash.map # "made" => dash.maps = <<>>

=============================================================================
