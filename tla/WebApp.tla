------------------------------- MODULE WebApp -------------------------------
(***************************************************************************)
(* One tab of the web app: the map, the multi-view grid, the list of boxes *)
(* or a box's page, one at a time, over the modules the browser loads once *)
(* for the tab.  Leaving a page unmounts its components; what they have    *)
(* asked for goes on.                                                      *)
(***************************************************************************)
EXTENDS GridView, ChannelPanel, DashboardPage, BoxListPage

CONSTANT MaxVisits   \* bound: pages visited

ASSUME VisitsAssumption == MaxVisits \in Nat

VARIABLE visits

vars == <<gridVars, panelVars, hlsModule, dashVars, boxList, visits>>

Init ==
    GridInit /\ PanelInit /\ HlsInit /\ DashInit /\ BoxListInit /\ visits = 0

NoPage == ~ GridOpen /\ ~ boxOpen /\ ~ dash.open /\ ~ boxList.open

\* SvelteKit mounts a page when the one before is gone.
Visit == NoPage /\ visits < MaxVisits /\ visits' = visits + 1

\* load gives the cameras, or none when the list could not be had.
EnterGrid ==
    /\ Visit /\ \E cameras \in {Camera, {}} : OpenGrid(cameras)
    /\ UNCHANGED <<panelVars, dashVars, boxList>>

EnterBox ==
    Visit /\ OpenBox /\ UNCHANGED <<gridVars, dashVars, boxList>>

EnterDashboard ==
    /\ Visit /\ \E list \in CameraLists : OpenDashboard(list)
    /\ UNCHANGED <<gridVars, panelVars, hlsModule, boxList>>

EnterBoxList ==
    /\ Visit /\ \E visible \in BOOLEAN : OpenBoxList(visible)
    /\ UNCHANGED <<gridVars, panelVars, hlsModule, dashVars>>

LeaveGrid ==
    /\ GridOpen /\ CloseGrid
    /\ UNCHANGED <<panelVars, hlsModule, dashVars, boxList, visits>>

LeaveBox ==
    /\ boxOpen /\ CloseBox
    /\ UNCHANGED <<gridVars, hlsModule, dashVars, boxList, visits>>

LeaveDashboard ==
    /\ dash.open /\ CloseDashboard
    /\ UNCHANGED <<gridVars, panelVars, hlsModule, boxList, visits>>

LeaveBoxList ==
    /\ boxList.open /\ CloseBoxList
    /\ UNCHANGED <<gridVars, panelVars, hlsModule, dashVars, visits>>

\* 401: the document is unloaded, with whatever page it shows.  Only the store
\* and the server are left.
SessionExpired ==
    /\ boxList.asked > 0
    /\ boxList' = NoBoxList /\ dash' = NoDashboard
    /\ CloseGrid /\ LeavePanel /\ rows' = [c \in Channel |-> FreshRow]
    /\ hlsModule' = "absent" /\ leafletModule' = "absent"
    /\ UNCHANGED visits

\* hls.js has arrived: every import that waits for it continues.
HlsArrives ==
    /\ hlsModule = "fetching" /\ hlsModule' = "loaded"
    /\ cells' = [i \in DOMAIN cells |-> Resume(cells[i])]
    /\ rows' = [c \in Channel |-> ResumePreviews(rows[c])]
    /\ UNCHANGED <<listed, store, serverVars, pageVars, dashVars, boxList, visits>>

HlsFails ==
    /\ hlsModule = "fetching" /\ hlsModule' = "absent"
    /\ cells' = [i \in DOMAIN cells |-> Reject(cells[i])]
    /\ rows' = [c \in Channel |-> RejectPreviews(rows[c])]
    /\ UNCHANGED <<listed, store, serverVars, pageVars, dashVars, boxList, visits>>

Next ==
    \/ EnterGrid \/ EnterBox \/ EnterDashboard \/ EnterBoxList
    \/ LeaveGrid \/ LeaveBox \/ LeaveDashboard \/ LeaveBoxList
    \/ SessionExpired \/ HlsArrives \/ HlsFails
    \/ GridNext /\ UNCHANGED <<panelVars, dashVars, boxList, visits>>
    \/ PanelNext /\ UNCHANGED <<gridVars, dashVars, boxList, visits>>
    \/ DashNext /\ UNCHANGED <<gridVars, panelVars, hlsModule, boxList, visits>>
    \/ BoxListNext /\ UNCHANGED <<gridVars, panelVars, hlsModule, dashVars, visits>>

Spec == Init /\ [][Next]_vars

-----------------------------------------------------------------------------

\* The type invariant of the tab.
TypeOK ==
    /\ GridTypeOK /\ PanelTypeOK /\ DashTypeOK /\ BoxListTypeOK
    /\ hlsModule \in HlsModule /\ visits \in 0 .. MaxVisits

=============================================================================
