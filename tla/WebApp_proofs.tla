---------------------------- MODULE WebApp_proofs ----------------------------
(* Proofs about a tab of the web app and its four pages.                   *)
EXTENDS WebApp, FiniteSetTheorems, SequenceTheorems, TLAPS

-----------------------------------------------------------------------------
(* The list of boxes.                                                      *)

BoxListInv ==
    /\ BoxListTypeOK /\ PolledWhileSeen
    /\ boxList.timers = (IF boxList.intervalId THEN 1 ELSE 0)
    /\ boxList.visible => boxList.open

ListPage == [open : BOOLEAN, visible : BOOLEAN, timers : Nat,
             intervalId : BOOLEAN, asked : Nat]

LEMMA TimerFields ==
    ASSUME NEW page \in ListPage, NEW n \in Nat, NEW b \in BOOLEAN
    PROVE  LET new == [page EXCEPT !.timers = n, !.intervalId = b]
           IN  /\ new \in ListPage /\ new.timers = n /\ new.intervalId = b
               /\ new.open = page.open /\ new.visible = page.visible
               /\ new.asked = page.asked
<1> DEFINE new == [page EXCEPT !.timers = n, !.intervalId = b]
<1>1. new \in ListPage
  BY DEF ListPage
<1>2. DOMAIN page = {"open", "visible", "timers", "intervalId", "asked"}
  BY DEF ListPage
<1>3. /\ new.timers = n /\ new.intervalId = b
      /\ new.open = page.open /\ new.visible = page.visible /\ new.asked = page.asked
  BY <1>2, Zenon
<1> QED BY <1>1, <1>3

LEMMA SeenFields ==
    ASSUME NEW page \in ListPage, NEW o \in BOOLEAN, NEW v \in BOOLEAN
    PROVE  LET new == [page EXCEPT !.open = o, !.visible = v]
           IN  /\ new \in ListPage /\ new.open = o /\ new.visible = v
               /\ new.timers = page.timers /\ new.intervalId = page.intervalId
               /\ new.asked = page.asked
<1> DEFINE new == [page EXCEPT !.open = o, !.visible = v]
<1>1. new \in ListPage
  BY DEF ListPage
<1>2. DOMAIN page = {"open", "visible", "timers", "intervalId", "asked"}
  BY DEF ListPage
<1>3. /\ new.open = o /\ new.visible = v
      /\ new.timers = page.timers /\ new.intervalId = page.intervalId
      /\ new.asked = page.asked
  BY <1>2, Zenon
<1> QED BY <1>1, <1>3

LEMMA AskedFields ==
    ASSUME NEW page \in ListPage, NEW n \in Nat
    PROVE  LET new == [page EXCEPT !.asked = n]
           IN  /\ new \in ListPage /\ new.open = page.open /\ new.visible = page.visible
               /\ new.timers = page.timers /\ new.intervalId = page.intervalId
               /\ new.asked = n
<1> DEFINE new == [page EXCEPT !.asked = n]
<1>1. new \in ListPage
  BY DEF ListPage
<1>2. DOMAIN page = {"open", "visible", "timers", "intervalId", "asked"}
  BY DEF ListPage
<1>3. /\ new.open = page.open /\ new.visible = page.visible
      /\ new.timers = page.timers /\ new.intervalId = page.intervalId /\ new.asked = n
  BY <1>2, Zenon
<1> QED BY <1>1, <1>3

\* One timer, if the page knows of one.
Polling(page) == page \in ListPage /\ page.timers = IF page.intervalId THEN 1 ELSE 0

LEMMA PollingKept ==
    ASSUME NEW page, Polling(page)
    PROVE  /\ Polling(StopPolling(page)) /\ StopPolling(page).timers = 0
           /\ Polling(StartPolling(page)) /\ StartPolling(page).timers = 1
           /\ \A other \in {StopPolling(page), StartPolling(page)} :
                 /\ other.open = page.open /\ other.visible = page.visible
                 /\ other.asked = page.asked
           /\ Polling(RefreshBoxes(page)) /\ RefreshBoxes(page).timers = page.timers
           /\ RefreshBoxes(page).open = page.open
           /\ RefreshBoxes(page).visible = page.visible
<1>1. /\ Polling(StopPolling(page)) /\ StopPolling(page).timers = 0
      /\ StopPolling(page).open = page.open /\ StopPolling(page).visible = page.visible
      /\ StopPolling(page).asked = page.asked
  <2>1. (IF page.intervalId THEN page.timers - 1 ELSE page.timers) = 0
    BY DEF Polling
  <2>2. StopPolling(page) = [page EXCEPT !.timers = 0, !.intervalId = FALSE]
    BY <2>1 DEF StopPolling
  <2> DEFINE new == [page EXCEPT !.timers = 0, !.intervalId = FALSE]
  <2>3. /\ new \in ListPage /\ new.timers = 0 /\ new.intervalId = FALSE
        /\ new.open = page.open /\ new.visible = page.visible /\ new.asked = page.asked
    <3>1. page \in ListPage
      BY DEF Polling
    <3> QED BY <3>1, TimerFields
  <2> HIDE DEF new
  <2>4. Polling(new)
    BY <2>3 DEF Polling
  <2> QED BY <2>2, <2>3, <2>4 DEF new
<1>2. /\ Polling(StartPolling(page)) /\ StartPolling(page).timers = 1
      /\ StartPolling(page).open = page.open /\ StartPolling(page).visible = page.visible
      /\ StartPolling(page).asked = page.asked
  <2> DEFINE clean == StopPolling(page)
  <2>1. StartPolling(page) = [clean EXCEPT !.timers = 1, !.intervalId = TRUE]
    BY <1>1 DEF StartPolling
  <2>2. /\ clean \in ListPage /\ clean.open = page.open /\ clean.visible = page.visible
        /\ clean.asked = page.asked
    BY <1>1 DEF Polling
  <2> HIDE DEF clean
  <2> DEFINE new == [clean EXCEPT !.timers = 1, !.intervalId = TRUE]
  <2>3. /\ new \in ListPage /\ new.timers = 1 /\ new.intervalId = TRUE
        /\ new.open = page.open /\ new.visible = page.visible /\ new.asked = page.asked
    BY <2>2, TimerFields
  <2> HIDE DEF new
  <2>4. Polling(new)
    BY <2>3 DEF Polling
  <2> QED BY <2>1, <2>3, <2>4 DEF new
<1>3. /\ Polling(RefreshBoxes(page)) /\ RefreshBoxes(page).timers = page.timers
      /\ RefreshBoxes(page).open = page.open /\ RefreshBoxes(page).visible = page.visible
  <2>1. page.asked + 1 \in Nat
    BY DEF Polling, ListPage
  <2> QED BY <2>1, AskedFields DEF Polling, RefreshBoxes
<1> QED BY <1>1, <1>2, <1>3

LEMMA PollingNow ==
    ASSUME BoxListInv
    PROVE  Polling(boxList) /\ boxList.asked \in 0 .. MaxRefreshes
<1>1. boxList.asked \in 0 .. MaxRefreshes
  BY DEF BoxListInv, BoxListTypeOK
<1>2. boxList \in ListPage
  BY RefreshesAssumption DEF BoxListInv, BoxListTypeOK, ListPage
<1> QED BY <1>1, <1>2 DEF BoxListInv, Polling

LEMMA PollingNext ==
    ASSUME NEW page, Polling(page), SetBoxList(page), page.visible => page.open,
           page.timers = (IF page.open /\ page.visible THEN 1 ELSE 0)
    PROVE  BoxListInv'
<1>1. boxList' = page /\ page.asked <= MaxRefreshes /\ page \in ListPage
  BY DEF SetBoxList, Polling
<1>2. BoxListTypeOK'
  BY <1>1, RefreshesAssumption DEF BoxListTypeOK, ListPage
<1> QED BY <1>1, <1>2 DEF BoxListInv, PolledWhileSeen, Polling

LEMMA BoxDataPolls ==
    ASSUME NEW page, Polling(page)
    PROVE  /\ Polling(BoxData(page))
           /\ BoxData(page).open = page.open /\ BoxData(page).visible = page.visible
           /\ BoxData(page).timers = IF page.visible THEN 1 ELSE 0
BY PollingKept DEF BoxData

LEMMA BoxListStep ==
    ASSUME BoxListInv,
           \/ BoxListNext \/ CloseBoxList
           \/ ~ boxList.open /\ \E visible \in BOOLEAN : OpenBoxList(visible)
    PROVE  BoxListInv'
<1>0. /\ boxList.timers = (IF boxList.open /\ boxList.visible THEN 1 ELSE 0)
      /\ boxList.visible => boxList.open
      /\ Polling(boxList) /\ boxList \in ListPage /\ boxList.asked \in 0 .. MaxRefreshes
      /\ boxList.timers = (IF boxList.intervalId THEN 1 ELSE 0)
      /\ boxList.open \in BOOLEAN /\ boxList.visible \in BOOLEAN
  BY PollingNow DEF BoxListInv, PolledWhileSeen, Polling, ListPage
<1>1. ASSUME NEW visible \in BOOLEAN, ~ boxList.open, OpenBoxList(visible) PROVE BoxListInv'
  <2> DEFINE page == [boxList EXCEPT !.open = TRUE, !.visible = visible]
  <2>1. Polling(page) /\ page.open = TRUE /\ page.visible = visible
    BY <1>0, SeenFields DEF Polling
  <2> HIDE DEF page
  <2> QED BY <1>1, <2>1, BoxDataPolls, PollingNext DEF OpenBoxList, page
<1>2. CASE ReloadBoxList
  BY <1>0, <1>2, BoxDataPolls, PollingNext DEF ReloadBoxList
<1>3. CASE HideOrShow
  <2> DEFINE page == [boxList EXCEPT !.visible = ~ @]
  <2>1. DOMAIN boxList = {"open", "visible", "timers", "intervalId", "asked"}
    BY <1>0 DEF ListPage
  <2>2a. /\ page.open = boxList.open /\ page.visible = (~ boxList.visible)
         /\ page.timers = boxList.timers /\ page.intervalId = boxList.intervalId
    BY <2>1, Zenon
  <2>2b. page \in ListPage
    BY <1>0 DEF ListPage
  <2>3. boxList.open /\ SetBoxList(VisibilityChange(page))
    BY <1>3 DEF HideOrShow
  <2> HIDE DEF page
  <2>2. Polling(page) /\ page.open = boxList.open /\ page.visible = (~ boxList.visible)
    BY <1>0, <2>2a, <2>2b DEF Polling
  <2>4. CASE page.visible
    <3> DEFINE asking == RefreshBoxes(page)
    <3>1. /\ Polling(asking) /\ asking.open = TRUE /\ asking.visible = TRUE
      <4>1. page.open = TRUE /\ page.visible = TRUE
        BY <1>0, <2>2, <2>3, <2>4
      <4> QED BY <2>2, <4>1, PollingKept
    <3>2. SetBoxList(StartPolling(asking))
      BY <2>3, <2>4 DEF VisibilityChange
    <3> HIDE DEF asking
    <3>3. /\ Polling(StartPolling(asking)) /\ StartPolling(asking).timers = 1
          /\ StartPolling(asking).open = TRUE /\ StartPolling(asking).visible = TRUE
      BY <3>1, PollingKept
    <3> QED BY <3>2, <3>3, PollingNext
  <2>5. CASE ~ page.visible
    BY <2>2, <2>3, <2>5, PollingKept, PollingNext DEF VisibilityChange
  <2> QED BY <2>4, <2>5
<1>4. CASE PollBoxList
  BY <1>0, <1>4, PollingKept, PollingNext DEF PollBoxList
<1>5. CASE BoxListAnswered
  <2> DEFINE page == [boxList EXCEPT !.asked = boxList.asked - 1]
  <2>1. boxList.asked - 1 \in Nat /\ boxList.asked - 1 <= MaxRefreshes
    BY <1>0, <1>5, RefreshesAssumption DEF BoxListAnswered
  <2>2. /\ page \in ListPage /\ page.open = boxList.open /\ page.visible = boxList.visible
        /\ page.timers = boxList.timers /\ page.intervalId = boxList.intervalId
        /\ page.asked <= MaxRefreshes
    BY <1>0, <2>1, AskedFields
  <2>3. boxList' = page
    BY <1>5 DEF BoxListAnswered
  <2> HIDE DEF page
  <2> QED BY <1>0, <2>2, <2>3, PollingNext DEF Polling, SetBoxList
<1>6. CASE CloseBoxList
  <2> DEFINE clean == StopPolling(boxList)
             page == [clean EXCEPT !.open = FALSE, !.visible = FALSE]
  <2>1. Polling(clean) /\ clean.timers = 0 /\ clean.asked = boxList.asked
    BY <1>0, PollingKept
  <2>2. boxList' = page
    BY <1>6 DEF CloseBoxList
  <2> HIDE DEF clean
  <2>3. /\ Polling(page) /\ page.timers = 0 /\ page.open = FALSE /\ page.visible = FALSE
        /\ page.asked = boxList.asked
    <3>1. /\ page \in ListPage /\ page.open = FALSE /\ page.visible = FALSE
          /\ page.timers = clean.timers /\ page.intervalId = clean.intervalId
          /\ page.asked = clean.asked
      BY <2>1, SeenFields DEF Polling
    <3> HIDE DEF page
    <3> QED BY <2>1, <3>1 DEF Polling
  <2>4. page.asked <= MaxRefreshes
    BY <1>0, <2>3, RefreshesAssumption
  <2> HIDE DEF page
  <2> QED BY <2>2, <2>3, <2>4, PollingNext DEF SetBoxList
<1> QED BY <1>1, <1>2, <1>3, <1>4, <1>5, <1>6 DEF BoxListNext

LEMMA NoBoxListInv ==
    ASSUME boxList' = NoBoxList
    PROVE  BoxListInv'
BY RefreshesAssumption DEF NoBoxList, BoxListInv, BoxListTypeOK, PolledWhileSeen

-----------------------------------------------------------------------------
(* The map.                                                                *)

DashInv == DashTypeOK /\ OneMap

LEMMA NoDashInv ==
    /\ NoDashboard \in Dashboard
    /\ NoDashboard.map = "none" /\ NoDashboard.maps = <<>>
BY AskedAssumption DEF NoDashboard, Dashboard, NoCameras, CameraLists

\* A page of which OneMap holds.
MapOf(page) ==
    /\ page \in Dashboard
    /\ page.map = "made" => page.maps = <<page.list.geocoded>>
    /\ page.map # "made" => page.maps = <<>>

LEMMA MapChanges ==
    ASSUME NEW page, MapOf(page)
    PROVE  /\ MapOf(RemoveMap(page)) /\ RemoveMap(page).map = "none"
           /\ page.map # "made" => MapOf(MakeMap(page)) /\ MapOf(MountMap(page))
           /\ page.map # "made" => MapOf([page EXCEPT !.map = "failed"])
<1>1. MapOf(RemoveMap(page)) /\ RemoveMap(page).map = "none"
  <2>1. page.map = "made" => Front(page.maps) = <<>>
    <3> SUFFICES ASSUME page.map = "made" PROVE SubSeq(page.maps, 1, Len(page.maps) - 1) = <<>>
      BY DEF Front
    <3>1. page.maps \in Seq(SUBSET Camera) /\ Len(page.maps) = 1
      BY DEF MapOf, Dashboard
    <3> QED BY <3>1, SubSeqEmpty
  <2>2. page.map # "made" => page.maps = <<>>
    BY DEF MapOf
  <2>3. RemoveMap(page) = [page EXCEPT !.map = "none", !.maps = <<>>]
    BY <2>1, <2>2 DEF RemoveMap
  <2>4. <<>> \in Seq(SUBSET Camera) /\ page \in Dashboard
    BY DEF MapOf
  <2>5. /\ [page EXCEPT !.map = "none", !.maps = <<>>] \in Dashboard
        /\ [page EXCEPT !.map = "none", !.maps = <<>>].map = "none"
        /\ [page EXCEPT !.map = "none", !.maps = <<>>].maps = <<>>
    BY <2>4 DEF Dashboard
  <2> QED BY <2>3, <2>5 DEF MapOf
<1>2. ASSUME page.map # "made"
      PROVE  MapOf(MakeMap(page))
  <2>1. page.list.geocoded \in SUBSET Camera
    BY DEF MapOf, Dashboard, CameraLists
  <2>2. Append(page.maps, page.list.geocoded) = <<page.list.geocoded>>
    <3>1. page.maps = <<>>
      BY <1>2 DEF MapOf
    <3> QED BY <3>1
  <2>3. <<page.list.geocoded>> \in Seq(SUBSET Camera)
    BY <2>1
  <2> QED BY <1>2, <2>2, <2>3 DEF MakeMap, MapOf, Dashboard
<1>3. ASSUME page.map # "made"
      PROVE  MapOf([page EXCEPT !.map = "failed"]) /\ MapOf([page EXCEPT !.map = "awaiting"])
  BY <1>3 DEF MapOf, Dashboard
<1> QED BY <1>1, <1>2, <1>3 DEF MountMap

LEMMA DashStep ==
    ASSUME DashInv,
           \/ DashNext \/ CloseDashboard
           \/ \E list \in CameraLists : OpenDashboard(list)
    PROVE  DashInv'
<1>1. MapOf(dash) /\ leafletModule \in Leaflet!HlsModule
  BY DEF DashInv, DashTypeOK, OneMap, MapOf
<1>2. ASSUME NEW page, MapOf(page), SetDashboard(page)
      PROVE  DashInv'
  BY <1>1, <1>2 DEF SetDashboard, Leaflet!Import, Leaflet!HlsModule, DashInv, DashTypeOK,
                    OneMap, MapOf
<1>3. ASSUME NEW page, MapOf(page), dash' = page, leafletModule' \in Leaflet!HlsModule
      PROVE  DashInv'
  BY <1>3 DEF DashInv, DashTypeOK, OneMap, MapOf
<1>4. ASSUME NEW list \in CameraLists, OpenDashboard(list) PROVE DashInv'
  <2> DEFINE page == [NoDashboard EXCEPT !.open = TRUE, !.list = list, !.timers = 1]
  <2>1. MapOf(page) /\ page.map # "made"
    BY NoDashInv DEF MapOf, Dashboard
  <2> HIDE DEF page
  <2> QED BY <1>2, <1>4, <2>1, MapChanges DEF OpenDashboard, page
<1>5. CASE AskCameras
  <2>1. MapOf([dash EXCEPT !.asked = @ + 1])
    BY <1>1, <1>5, AskedAssumption DEF AskCameras, MapOf, Dashboard
  <2> QED BY <1>1, <1>3, <1>5, <2>1 DEF AskCameras
<1>6. ASSUME NEW ok \in BOOLEAN, NEW list \in CameraLists, CamerasAnswered(ok, list)
      PROVE  DashInv'
  <2> DEFINE page == [dash EXCEPT !.asked = @ - 1]
  <2>1. MapOf(page)
    BY <1>1, <1>6, AskedAssumption DEF CamerasAnswered, MapOf, Dashboard
  <2> DEFINE bare == [RemoveMap(page) EXCEPT !.list = list]
  <2>2. MapOf(bare) /\ bare.map # "made"
    <3>1. MapOf(RemoveMap(page)) /\ RemoveMap(page).map = "none"
      BY <2>1, MapChanges
    <3> HIDE DEF page
    <3> QED BY <3>1 DEF MapOf, Dashboard
  <2>3. SetDashboard(IF ok THEN MountMap(bare) ELSE page)
    BY <1>6 DEF CamerasAnswered
  <2> HIDE DEF bare, page
  <2> QED BY <1>2, <2>1, <2>2, <2>3, MapChanges
<1>7. CASE CloseDashboard
  <2>1. MapOf(RemoveMap(dash)) /\ RemoveMap(dash).map = "none"
    BY <1>1, MapChanges
  <2>2. NoCameras \in CameraLists
    BY DEF NoCameras, CameraLists
  <2> DEFINE bare == RemoveMap(dash)
  <2>3. MapOf([bare EXCEPT !.open = FALSE, !.list = NoCameras, !.timers = 0, !.asked = 0])
    <3>1. bare \in Dashboard /\ bare.map = "none" /\ bare.maps = <<>>
      BY <2>1 DEF MapOf
    <3> HIDE DEF bare
    <3> DEFINE page == [bare EXCEPT !.open = FALSE, !.list = NoCameras, !.timers = 0, !.asked = 0]
    <3>2. 0 \in 0 .. MaxAsked
      BY AskedAssumption
    <3>3. page \in Dashboard
      BY <2>2, <3>1, <3>2 DEF Dashboard
    <3>4. page.map = "none" /\ page.maps = <<>>
      BY <3>1 DEF Dashboard
    <3> HIDE DEF page
    <3>5. MapOf(page)
      BY <3>3, <3>4 DEF MapOf
    <3> QED BY <3>5 DEF page
  <2> QED BY <1>1, <1>3, <1>7, <2>3 DEF CloseDashboard
<1>8. ASSUME NEW ok \in BOOLEAN, LeafletSettles(ok) PROVE DashInv'
  <2>1. leafletModule' \in Leaflet!HlsModule
    BY <1>8 DEF LeafletSettles, Leaflet!HlsModule
  <2>2. MapOf(dash') 
    BY <1>1, <1>8, MapChanges DEF LeafletSettles
  <2> QED BY <1>3, <2>1, <2>2
<1>9. NoCameras \in CameraLists
  BY DEF NoCameras, CameraLists
<1> QED BY <1>4, <1>5, <1>6, <1>7, <1>8, <1>9 DEF DashNext

-----------------------------------------------------------------------------
(* The rows of a box's page.                                               *)

\* The mounts of a preview that await hls.js and were not cancelled.
Awaited(row) == {i \in DOMAIN row.imports : ~ row.imports[i]}

\* There is a player, or a mount that may still create one, only for the preview
\* that is mounted, and not both.
Media(row) ==
    /\ row.players = (IF row.hls THEN 1 ELSE 0)
    /\ row.hls => row.preview
    /\ \A i, j \in Awaited(row) : i = j
    /\ Awaited(row) # {} => row.preview /\ ~ row.hls

Snapshot(row) == row.urls = IF row.snapshot = "shown" THEN 1 ELSE 0

RowInv(row, dto) ==
    /\ row \in Row /\ Media(row) /\ Snapshot(row)
    /\ row.request = "none" => row.status = dto

PanelInv == PanelTypeOK /\ \A c \in Channel : RowInv(rows[c], shown[c])

LEMMA RowDomain ==
    ASSUME NEW row \in Row
    PROVE  /\ DOMAIN row = {"status", "request", "error", "preview", "imports", "hls",
                            "players", "snapshot", "urls"}
           /\ row.hls \in BOOLEAN /\ row.preview \in BOOLEAN /\ row.players \in Nat
           /\ row.imports \in Seq(BOOLEAN) /\ row.urls \in Nat /\ row.error \in BOOLEAN
           /\ row.status \in ChannelDto /\ row.request \in {"none", "sent", "obeyed"}
           /\ row.snapshot \in {"none", "loading", "shown"}
BY DEF Row

\* What a preview has is about four fields.
LEMMA MediaSame ==
    ASSUME NEW row, NEW new, Media(row), new.preview = row.preview,
           new.imports = row.imports, new.hls = row.hls, new.players = row.players
    PROVE  Media(new)
BY DEF Media, Awaited

\* Imports that are all cancelled, or none.
LEMMA NoneAwaited ==
    ASSUME NEW new, new.players = 0, new.hls = FALSE, Awaited(new) = {}
    PROVE  Media(new)
BY DEF Media

LEMMA FreshRowType == FreshRow \in Row /\ Media(FreshRow) /\ Snapshot(FreshRow)
<1>1. FreshRow \in Row
  BY DEF FreshRow, Row, ChannelDto
<1>2. FreshRow.players = 0 /\ FreshRow.hls = FALSE /\ Awaited(FreshRow) = {}
  BY DEF FreshRow, Awaited
<1>3. Snapshot(FreshRow)
  BY DEF FreshRow, Snapshot
<1> QED BY <1>1, <1>2, <1>3, NoneAwaited

LEMMA CloseKeeps ==
    ASSUME NEW row \in Row, Media(row), Snapshot(row)
    PROVE  /\ ClosePreview(row) \in Row
           /\ Media(ClosePreview(row)) /\ Snapshot(ClosePreview(row))
           /\ ClosePreview(row).players = 0 /\ Awaited(ClosePreview(row)) = {}
           /\ ClosePreview(row).imports \in Seq(BOOLEAN)
           /\ ClosePreview(row).request = row.request
           /\ ClosePreview(row).status = row.status
<1> DEFINE all == [i \in DOMAIN row.imports |-> TRUE]
           new == [row EXCEPT !.preview = FALSE, !.hls = FALSE, !.players = 0,
                              !.imports = all]
<1>1. (IF row.hls THEN row.players - 1 ELSE row.players) = 0
  BY DEF Media
<1>2. ClosePreview(row) = new
  BY <1>1 DEF ClosePreview
<1>3. all \in Seq(BOOLEAN)
  <2>1. row.imports \in Seq(BOOLEAN)
    BY RowDomain
  <2>2. DOMAIN row.imports = 1 .. Len(row.imports) /\ Len(row.imports) \in Nat
    BY <2>1, LenProperties
  <2>3. all \in [1 .. Len(row.imports) -> BOOLEAN]
    BY <2>2
  <2> HIDE DEF all
  <2> QED BY <2>2, <2>3, IsASeq
<1>4. DOMAIN all = DOMAIN row.imports /\ \A i \in DOMAIN all : all[i] = TRUE
  OBVIOUS
<1> HIDE DEF all
<1>5. new \in Row
  BY <1>3 DEF Row
<1>6. /\ new.preview = FALSE /\ new.hls = FALSE /\ new.players = 0 /\ new.imports = all
      /\ new.request = row.request /\ new.status = row.status
      /\ new.snapshot = row.snapshot /\ new.urls = row.urls
  BY RowDomain, Zenon
<1> HIDE DEF new
<1>7. Awaited(new) = {}
  BY <1>4, <1>6 DEF Awaited
<1>8. Media(new) /\ Snapshot(new)
  BY <1>6, <1>7, NoneAwaited DEF Snapshot
<1> QED BY <1>2, <1>3, <1>5, <1>6, <1>7, <1>8

LEMMA UnmountKeeps ==
    ASSUME NEW row \in Row, Media(row), Snapshot(row)
    PROVE  RowInv(Unmount(row), "absent")
<1> DEFINE closed == ClosePreview(row)
           imports == closed.imports
           new == [FreshRow EXCEPT !.players = 0, !.imports = imports]
<1>2. closed.players = 0 /\ Awaited(closed) = {} /\ imports \in Seq(BOOLEAN)
  BY CloseKeeps
<1>1. Unmount(row) = new
  <2>1. Unmount(row) = [FreshRow EXCEPT !.players = closed.players, !.imports = imports]
    BY DEF Unmount
  <2> HIDE DEF closed
  <2> QED BY <1>2, <2>1
<1> HIDE DEF imports
<1>3. new \in Row
  <2>1. FreshRow \in Row /\ 0 \in Nat
    BY FreshRowType
  <2> QED BY <1>2, <2>1 DEF Row
<1>4. /\ new.status = FreshRow.status /\ new.hls = FreshRow.hls /\ new.urls = FreshRow.urls
      /\ new.players = 0 /\ new.imports = imports
      /\ new.snapshot = FreshRow.snapshot
  BY FreshRowType, RowDomain, Zenon
<1>5. FreshRow.status = "absent" /\ FreshRow.hls = FALSE
  BY DEF FreshRow
<1> HIDE DEF new
<1>6. Media(new)
  BY <1>2, <1>4, <1>5, NoneAwaited DEF Awaited, imports
<1>7. Snapshot(new)
  BY <1>4, FreshRowType DEF Snapshot
<1> QED BY <1>1, <1>3, <1>4, <1>5, <1>6, <1>7 DEF RowInv

LEMMA OpenKeeps ==
    ASSUME NEW row \in Row, Media(row), Snapshot(row), row.preview = FALSE
    PROVE  /\ OpenPreview(row) \in Row
           /\ Media(OpenPreview(row)) /\ Snapshot(OpenPreview(row))
           /\ OpenPreview(row).request = row.request
           /\ OpenPreview(row).status = row.status
<1>0. row.hls = FALSE /\ row.players = 0 /\ Awaited(row) = {}
  BY RowDomain DEF Media
<1>1. CASE HlsLoaded
  <2> DEFINE new == [row EXCEPT !.preview = TRUE, !.hls = TRUE, !.players = 1]
  <2>1. OpenPreview(row) = new
    BY <1>0, <1>1 DEF OpenPreview
  <2>2. new \in Row
    BY DEF Row
  <2>3. /\ new.preview = TRUE /\ new.hls = TRUE /\ new.players = 1
        /\ new.imports = row.imports /\ new.request = row.request /\ new.status = row.status
        /\ new.snapshot = row.snapshot /\ new.urls = row.urls
    BY RowDomain, Zenon
  <2> HIDE DEF new
  <2>4. Awaited(new) = {}
    BY <1>0, <2>3 DEF Awaited
  <2>5. Media(new) /\ Snapshot(new)
    BY <2>3, <2>4 DEF Media, Snapshot
  <2> QED BY <2>1, <2>2, <2>3, <2>5
<1>2. CASE ~ HlsLoaded
  <2> DEFINE more == Append(row.imports, FALSE)
             new == [row EXCEPT !.preview = TRUE, !.imports = more]
  <2>1. OpenPreview(row) = new
    BY <1>2 DEF OpenPreview
  <2>2. /\ more \in Seq(BOOLEAN)
        /\ DOMAIN more = DOMAIN row.imports \cup {Len(row.imports) + 1}
        /\ \A i \in DOMAIN row.imports : more[i] = row.imports[i]
    <3>1. row.imports \in Seq(BOOLEAN)
      BY RowDomain
    <3>2. Len(row.imports) \in Nat /\ DOMAIN row.imports = 1 .. Len(row.imports)
      BY <3>1, LenProperties
    <3>3. FALSE \in BOOLEAN
      OBVIOUS
    <3>4. /\ more \in Seq(BOOLEAN) /\ Len(more) = Len(row.imports) + 1
          /\ \A i \in 1 .. Len(row.imports) : more[i] = row.imports[i]
      BY <3>1, <3>3, AppendProperties, Zenon
    <3> HIDE DEF more
    <3>5. DOMAIN more = 1 .. Len(more)
      BY <3>4, LenProperties
    <3> QED BY <3>2, <3>4, <3>5
  <2> HIDE DEF more
  <2>3. new \in Row
    BY <2>2 DEF Row
  <2>4. /\ new.preview = TRUE /\ new.hls = row.hls /\ new.players = row.players
        /\ new.imports = more /\ new.request = row.request /\ new.status = row.status
        /\ new.snapshot = row.snapshot /\ new.urls = row.urls
    BY RowDomain, Zenon
  <2> HIDE DEF new
  <2>5. Awaited(new) \subseteq {Len(row.imports) + 1}
    BY <1>0, <2>2, <2>4 DEF Awaited
  <2>6. Media(new) /\ Snapshot(new)
    BY <1>0, <2>4, <2>5 DEF Media, Snapshot
  <2> QED BY <2>1, <2>3, <2>4, <2>6
<1> QED BY <1>1, <1>2

LEMMA ResumeKeeps ==
    ASSUME NEW row, NEW dto, RowInv(row, dto)
    PROVE  RowInv(ResumePreviews(row), dto) /\ RowInv(RejectPreviews(row), dto)
<1>0. row \in Row /\ Media(row) /\ Snapshot(row) /\ <<>> \in Seq(BOOLEAN)
  BY DEF RowInv
<1>1. RowInv(RejectPreviews(row), dto)
  <2> DEFINE new == [row EXCEPT !.imports = <<>>]
  <2>1. new \in Row
    BY <1>0 DEF Row
  <2>2. /\ new.preview = row.preview /\ new.hls = row.hls /\ new.players = row.players
        /\ new.imports = <<>> /\ new.request = row.request /\ new.status = row.status
        /\ new.snapshot = row.snapshot /\ new.urls = row.urls
    BY <1>0, RowDomain, Zenon
  <2>3. RejectPreviews(row) = new
    BY DEF RejectPreviews
  <2> HIDE DEF new
  <2>4. Awaited(new) = {}
    BY <2>2 DEF Awaited
  <2> QED BY <1>0, <2>1, <2>2, <2>3, <2>4 DEF RowInv, Media, Snapshot
<1>2. CASE Awaited(row) = {}
  <2>1. ResumePreviews(row) = [row EXCEPT !.imports = <<>>, !.hls = row.hls,
                                          !.players = row.players]
    <3>1. row.players + 0 = row.players /\ row.hls \in BOOLEAN
      BY <1>0, RowDomain
    <3>2. Cardinality({}) = 0
      BY FS_EmptySet
    <3> QED BY <1>2, <3>1, <3>2 DEF ResumePreviews, Awaited
  <2>2. [row EXCEPT !.imports = <<>>, !.hls = row.hls, !.players = row.players]
          = [row EXCEPT !.imports = <<>>]
    BY <1>0 DEF Row
  <2> QED BY <1>1, <2>1, <2>2 DEF RejectPreviews
<1>3. CASE Awaited(row) # {}
  <2>1. PICK i : Awaited(row) = {i}
    BY <1>0, <1>3 DEF Media
  <2>2. row.preview = TRUE /\ row.hls = FALSE /\ row.players = 0
    BY <1>0, <1>3, RowDomain DEF Media
  <2>3. Cardinality(Awaited(row)) = 1
    BY <2>1, FS_Singleton
  <2> DEFINE new == [row EXCEPT !.imports = <<>>, !.hls = TRUE, !.players = 1]
  <2>4. ResumePreviews(row) = new
    <3>1. ResumePreviews(row) =
            [row EXCEPT !.imports = <<>>,
                        !.hls = row.hls \/ (Awaited(row) # {} /\ row.preview),
                        !.players = row.players + Cardinality(Awaited(row))]
      BY DEF ResumePreviews, Awaited
    <3>2. (row.hls \/ (Awaited(row) # {} /\ row.preview)) = TRUE
      BY <1>3, <2>2
    <3>3. row.players + Cardinality(Awaited(row)) = 1
      BY <2>2, <2>3
    <3> QED BY <3>1, <3>2, <3>3, Zenon
  <2>5. new \in Row
    BY <1>0 DEF Row
  <2>6. /\ new.preview = row.preview /\ new.hls = TRUE /\ new.players = 1
        /\ new.imports = <<>> /\ new.request = row.request /\ new.status = row.status
        /\ new.snapshot = row.snapshot /\ new.urls = row.urls
    BY <1>0, RowDomain, Zenon
  <2> HIDE DEF new
  <2>7. Awaited(new) = {}
    BY <2>6 DEF Awaited
  <2>8. Media(new)
    BY <2>2, <2>6, <2>7 DEF Media
  <2>9. Snapshot(new)
    BY <1>0, <2>6 DEF Snapshot
  <2>10. new.request = "none" => new.status = dto
    BY <2>6 DEF RowInv
  <2>11. RowInv(new, dto)
    BY <2>5, <2>8, <2>9, <2>10 DEF RowInv
  <2> QED BY <1>1, <2>4, <2>11
<1> QED BY <1>1, <1>2, <1>3

LEMMA FollowKeeps ==
    ASSUME NEW row \in Row, NEW dto \in ChannelDto, Media(row), Snapshot(row)
    PROVE  RowInv(Follow(row, dto), dto)
<1>1. CASE row.request = "none"
  <2> DEFINE new == [row EXCEPT !.status = dto]
  <2>1. new \in Row
    BY DEF Row
  <2>2. /\ new.preview = row.preview /\ new.hls = row.hls /\ new.players = row.players
        /\ new.imports = row.imports /\ new.status = dto
        /\ new.snapshot = row.snapshot /\ new.urls = row.urls
    BY RowDomain, Zenon
  <2>3. Follow(row, dto) = new
    BY <1>1 DEF Follow
  <2> HIDE DEF new
  <2>4. Media(new)
    BY <2>2, MediaSame
  <2>5. Snapshot(new)
    BY <2>2 DEF Snapshot
  <2> QED BY <2>1, <2>2, <2>3, <2>4, <2>5 DEF RowInv
<1>2. CASE row.request # "none"
  BY <1>2 DEF Follow, RowInv
<1> QED BY <1>1, <1>2

LEMMA SentLate ==
    ASSUME NEW cs \in SUBSET Channel
    PROVE  Sent(cs) \subseteq Channel \X BOOLEAN
<1> DEFINE on(c) == rows[c].status = "online"
<1>1. \A c \in Channel : on(c) \in BOOLEAN
  OBVIOUS
<1>2. Sent(cs) = {<<c, on(c)>> : c \in {d \in cs : rows[d].request = "sent"}}
  BY DEF Sent
<1> HIDE DEF on
<1> QED BY <1>1, <1>2

\* The rows stay as they are, and so does what the page shows.
LEMMA RowsSame ==
    ASSUME PanelInv, UNCHANGED <<shown, rows>>, PanelTypeOK'
    PROVE  PanelInv'
BY DEF PanelInv

\* One row changes.
LEMMA RowSet ==
    ASSUME PanelInv, NEW c \in Channel, NEW new, RowInv(new, shown[c]),
           rows' = [rows EXCEPT ![c] = new], UNCHANGED <<pageVars, db, recent>>,
           running' \in [Channel -> BOOLEAN], late' \subseteq Channel \X BOOLEAN
    PROVE  PanelInv'
<1>1. new \in Row
  BY DEF RowInv
<1>2. rows' \in [Channel -> Row]
  BY <1>1 DEF PanelInv, PanelTypeOK
<1>3. PanelTypeOK'
  BY <1>2 DEF PanelInv, PanelTypeOK, pageVars
<1>4. ASSUME NEW d \in Channel PROVE RowInv(rows[d], shown[d])'
  BY DEF PanelInv, PanelTypeOK, pageVars
<1> QED BY <1>3, <1>4 DEF PanelInv

\* Every row changes, with what the page shows.
LEMMA RowsSet ==
    ASSUME PanelInv, rows' \in [Channel -> Row], PanelTypeOK',
           \A c \in Channel : RowInv(rows'[c], shown'[c])
    PROVE  PanelInv'
BY DEF PanelInv

LEMMA PanelStep ==
    ASSUME PanelInv, PanelNext \/ OpenBox \/ CloseBox
    PROVE  PanelInv'
<1>1. /\ running \in [Channel -> BOOLEAN] /\ late \subseteq Channel \X BOOLEAN
      /\ db \in [Channel -> ChannelDto] /\ recent \in BOOLEAN
      /\ boxOpen \in BOOLEAN /\ shown \in [Channel -> ChannelDto]
      /\ load \in [at : {"idle", "list", "sync", "relist", "ready"},
                   got : [Channel -> ChannelDto]]
      /\ syncing \in {"no", "request", "reload"}
      /\ rows \in [Channel -> Row]
  BY DEF PanelInv, PanelTypeOK
<1>2. \A c \in Channel : /\ rows[c] \in Row /\ Media(rows[c]) /\ Snapshot(rows[c])
                         /\ RowInv(rows[c], shown[c])
  BY DEF PanelInv, RowInv
<1>3. NoChannels \in [Channel -> ChannelDto]
  BY DEF NoChannels, ChannelDto
<1>4. load.got \in [Channel -> ChannelDto]
  BY <1>1
<1>5. ASSUME Mirror PROVE /\ db' \in [Channel -> ChannelDto] /\ recent' \in BOOLEAN
                          /\ UNCHANGED <<running, late>>
  BY <1>5 DEF Mirror, ChannelDto, Status
<1>6. CASE PollerSync
  BY <1>1, <1>5, <1>6, RowsSame DEF PollerSync, pageVars, PanelTypeOK
<1>7. CASE Age
  BY <1>1, <1>7, RowsSame DEF Age, pageVars, PanelTypeOK
<1>8. ASSUME NEW c \in Channel, NEW on \in BOOLEAN, LateCommand(c, on) PROVE PanelInv'
  BY <1>1, <1>8, RowsSame DEF LateCommand, pageVars, PanelTypeOK
<1>9. ASSUME NEW c \in Channel, PreviewToggle(c) PROVE PanelInv'
  <2> DEFINE new == IF rows[c].preview THEN ClosePreview(rows[c]) ELSE OpenPreview(rows[c])
  <2>1. rows[c].preview \in BOOLEAN
    BY <1>2, RowDomain
  <2>2. RowInv(new, shown[c])
    BY <1>2, <2>1, CloseKeeps, OpenKeeps DEF RowInv
  <2>3. rows' = [rows EXCEPT ![c] = new] /\ UNCHANGED <<serverVars, pageVars>>
    BY <1>9 DEF PreviewToggle
  <2> HIDE DEF new
  <2> QED BY <1>1, <2>2, <2>3, RowSet DEF serverVars
<1>10. ASSUME NEW c \in Channel, HandleToggle(c) PROVE PanelInv'
  <2> DEFINE row == rows[c]
             status == Flip(row.status)
             new == [row EXCEPT !.status = status, !.request = "sent", !.error = FALSE]
  <2>1. status \in ChannelDto /\ row \in Row /\ Media(row) /\ Snapshot(row)
    BY <1>2 DEF Flip, ChannelDto, Status
  <2>2. rows' = [rows EXCEPT ![c] = new]
    BY <1>1, <1>10 DEF HandleToggle
  <2> HIDE DEF row, status
  <2>3. new \in Row
    BY <2>1 DEF Row
  <2>4. /\ new.preview = row.preview /\ new.hls = row.hls /\ new.players = row.players
        /\ new.imports = row.imports /\ new.request = "sent"
        /\ new.snapshot = row.snapshot /\ new.urls = row.urls
    BY <2>1, RowDomain, Zenon
  <2> HIDE DEF new
  <2>5. Media(new)
    BY <2>1, <2>4, MediaSame
  <2>6. RowInv(new, shown[c])
    BY <2>1, <2>3, <2>4, <2>5 DEF RowInv, Snapshot
  <2> QED BY <1>1, <1>10, <2>2, <2>6, RowSet DEF HandleToggle, serverVars
<1>11. ASSUME NEW c \in Channel, Obey(c) PROVE PanelInv'
  <2> DEFINE row == rows[c]
             new == [row EXCEPT !.request = "obeyed"]
             on == row.status = "online"
  <2>1. row \in Row /\ Media(row) /\ Snapshot(row) /\ on \in BOOLEAN
    BY <1>2
  <2>2. rows' = [rows EXCEPT ![c] = new]
    BY <1>1, <1>11 DEF Obey
  <2>3. running' = [running EXCEPT ![c] = on]
    BY <1>11 DEF Obey
  <2> HIDE DEF row, on
  <2>4. running' \in [Channel -> BOOLEAN]
    BY <1>1, <2>1, <2>3
  <2>5. new \in Row
    BY <2>1 DEF Row
  <2>6. /\ new.preview = row.preview /\ new.hls = row.hls /\ new.players = row.players
        /\ new.imports = row.imports /\ new.request = "obeyed"
        /\ new.snapshot = row.snapshot /\ new.urls = row.urls
    BY <2>1, RowDomain, Zenon
  <2> HIDE DEF new
  <2>7. Media(new)
    BY <2>1, <2>6, MediaSame
  <2>8. RowInv(new, shown[c])
    BY <2>1, <2>5, <2>6, <2>7 DEF RowInv, Snapshot
  <2> QED BY <1>1, <1>11, <2>2, <2>4, <2>8, RowSet DEF Obey
<1>12. ASSUME NEW c \in Channel, NEW status \in ChannelDto, NEW error \in BOOLEAN,
              EndToggle(c, status, error), UNCHANGED <<pageVars, db, recent, running>>,
              late' \subseteq Channel \X BOOLEAN
       PROVE  PanelInv'
  <2> DEFINE row == rows[c]
             ended == [row EXCEPT !.status = status, !.request = "none", !.error = error]
             new == Follow(ended, shown[c])
  <2>1. row \in Row /\ Media(row) /\ Snapshot(row) /\ shown[c] \in ChannelDto
    BY <1>1, <1>2
  <2>2. rows' = [rows EXCEPT ![c] = new]
    BY <1>1, <1>12 DEF EndToggle
  <2> HIDE DEF row
  <2>3. ended \in Row
    BY <2>1 DEF Row
  <2>4. /\ ended.preview = row.preview /\ ended.hls = row.hls
        /\ ended.players = row.players /\ ended.imports = row.imports
        /\ ended.snapshot = row.snapshot /\ ended.urls = row.urls
    BY <2>1, RowDomain, Zenon
  <2> HIDE DEF ended
  <2>5. Media(ended) /\ Snapshot(ended)
    BY <2>1, <2>4, MediaSame DEF Snapshot
  <2>6. RowInv(new, shown[c])
    BY <2>1, <2>3, <2>5, FollowKeeps
  <2> HIDE DEF new
  <2> QED BY <1>1, <1>12, <2>2, <2>6, RowSet
<1>13. ASSUME NEW c \in Channel, ToggleSucceeds(c) PROVE PanelInv'
  <2>1. rows[c].status \in ChannelDto
    BY <1>2, RowDomain
  <2> QED BY <1>1, <1>12, <1>13, <2>1 DEF ToggleSucceeds, serverVars
<1>14. ASSUME NEW c \in Channel, ToggleFails(c) PROVE PanelInv'
  <2>1. Flip(rows[c].status) \in ChannelDto
    BY DEF Flip, ChannelDto, Status
  <2>2. late' \subseteq Channel \X BOOLEAN
    BY <1>1, <1>14, SentLate DEF ToggleFails
  <2> QED BY <1>1, <1>12, <1>14, <2>1, <2>2 DEF ToggleFails
<1>15. ASSUME NEW c \in Channel, NEW snapshot \in {"none", "loading", "shown"},
              NEW urls \in Nat, urls = (IF snapshot = "shown" THEN 1 ELSE 0),
              rows' = [rows EXCEPT ![c] = [rows[c] EXCEPT !.snapshot = snapshot,
                                                          !.urls = urls]],
              UNCHANGED <<serverVars, pageVars>>
       PROVE  PanelInv'
  <2> DEFINE row == rows[c]
             new == [row EXCEPT !.snapshot = snapshot, !.urls = urls]
  <2>1. row \in Row /\ Media(row) /\ (row.request = "none" => row.status = shown[c])
    BY <1>2 DEF RowInv
  <2>2. rows' = [rows EXCEPT ![c] = new]
    BY <1>15
  <2> HIDE DEF row
  <2>3. new \in Row
    BY <2>1 DEF Row
  <2>4. /\ new.preview = row.preview /\ new.hls = row.hls /\ new.players = row.players
        /\ new.imports = row.imports /\ new.request = row.request
        /\ new.status = row.status /\ new.snapshot = snapshot /\ new.urls = urls
    BY <2>1, RowDomain, Zenon
  <2> HIDE DEF new
  <2>5. Media(new)
    BY <2>1, <2>4, MediaSame
  <2>6. RowInv(new, shown[c])
    BY <1>15, <2>1, <2>3, <2>4, <2>5 DEF RowInv, Snapshot
  <2> QED BY <1>1, <1>15, <2>2, <2>6, RowSet DEF serverVars
<1>16. ASSUME NEW c \in Channel, HandleSnapshot(c) PROVE PanelInv'
  <2> DEFINE snapshot == IF rows[c].snapshot = "shown" THEN "none" ELSE "loading"
             urls == IF rows[c].snapshot = "shown" THEN rows[c].urls - 1 ELSE rows[c].urls
  <2>1. snapshot \in {"none", "loading", "shown"} /\ urls = 0 /\ snapshot # "shown"
    BY <1>2 DEF Snapshot
  <2>2. rows' = [rows EXCEPT ![c] = [rows[c] EXCEPT !.snapshot = snapshot, !.urls = urls]]
    BY <1>1, <1>16 DEF HandleSnapshot
  <2>3. UNCHANGED <<serverVars, pageVars>>
    BY <1>16 DEF HandleSnapshot
  <2> HIDE DEF snapshot, urls
  <2>4. urls \in Nat /\ urls = (IF snapshot = "shown" THEN 1 ELSE 0)
    BY <2>1
  <2> QED BY <1>15, <2>1, <2>2, <2>3, <2>4
<1>17. ASSUME NEW c \in Channel, NEW ok \in BOOLEAN, SnapshotAnswered(c, ok)
       PROVE  PanelInv'
  <2> DEFINE snapshot == IF ok THEN "shown" ELSE "none"
             urls == IF ok THEN rows[c].urls + 1 ELSE rows[c].urls
  <2>1. /\ snapshot \in {"none", "loading", "shown"} /\ urls \in Nat
        /\ urls = (IF snapshot = "shown" THEN 1 ELSE 0)
    BY <1>2, <1>17 DEF Snapshot, SnapshotAnswered
  <2>2. rows' = [rows EXCEPT ![c] = [rows[c] EXCEPT !.snapshot = snapshot, !.urls = urls]]
    BY <1>1, <1>17 DEF SnapshotAnswered
  <2> HIDE DEF snapshot, urls
  <2> QED BY <1>15, <1>17, <2>1, <2>2 DEF SnapshotAnswered
<1>18. ASSUME BeginLoad
       PROVE  load' \in [at : {"idle", "list", "sync", "relist", "ready"},
                         got : [Channel -> ChannelDto]]
  BY <1>3, <1>18 DEF BeginLoad
<1>19. CASE OpenBox
  BY <1>1, <1>18, <1>19, RowsSame DEF OpenBox, serverVars, PanelTypeOK
<1>20. CASE Reload
  BY <1>1, <1>18, <1>20, RowsSame DEF Reload, serverVars, PanelTypeOK
<1>21. ASSUME NEW ok \in BOOLEAN, LoadList(ok) PROVE PanelInv'
  <2>1. load' \in [at : {"idle", "list", "sync", "relist", "ready"},
                   got : [Channel -> ChannelDto]]
    BY <1>1, <1>3, <1>21 DEF LoadList
  <2> QED BY <1>1, <1>21, <2>1, RowsSame DEF LoadList, serverVars, PanelTypeOK
<1>22. ASSUME NEW ok \in BOOLEAN, LoadSync(ok) PROVE PanelInv'
  <2>1. load' \in [at : {"idle", "list", "sync", "relist", "ready"},
                   got : [Channel -> ChannelDto]]
    BY <1>1, <1>22 DEF LoadSync
  <2>2. /\ running' \in [Channel -> BOOLEAN] /\ late' \subseteq Channel \X BOOLEAN
        /\ db' \in [Channel -> ChannelDto] /\ recent' \in BOOLEAN
    BY <1>1, <1>5, <1>22 DEF LoadSync, serverVars
  <2> QED BY <1>1, <1>22, <2>1, <2>2, RowsSame DEF LoadSync, PanelTypeOK
<1>23. ASSUME NEW ok \in BOOLEAN, LoadRelist(ok) PROVE PanelInv'
  <2>1. load' \in [at : {"idle", "list", "sync", "relist", "ready"},
                   got : [Channel -> ChannelDto]]
    BY <1>1, <1>4, <1>23 DEF LoadRelist
  <2> QED BY <1>1, <1>23, <2>1, RowsSame DEF LoadRelist, serverVars, PanelTypeOK
<1>24. CASE HandleSync
  BY <1>1, <1>24, RowsSame DEF HandleSync, serverVars, PanelTypeOK
<1>25. ASSUME NEW ok \in BOOLEAN, SyncAnswered(ok) PROVE PanelInv'
  <2>1. /\ running' \in [Channel -> BOOLEAN] /\ late' \subseteq Channel \X BOOLEAN
        /\ db' \in [Channel -> ChannelDto] /\ recent' \in BOOLEAN
    BY <1>1, <1>5, <1>25 DEF SyncAnswered, serverVars
  <2>2. load' \in [at : {"idle", "list", "sync", "relist", "ready"},
                   got : [Channel -> ChannelDto]]
    BY <1>1, <1>18, <1>25 DEF SyncAnswered
  <2>3. syncing' \in {"no", "request", "reload"}
    BY <1>25 DEF SyncAnswered
  <2> QED BY <1>1, <1>25, <2>1, <2>2, <2>3, RowsSame DEF SyncAnswered, PanelTypeOK
<1>26. Idle \in [at : {"idle", "list", "sync", "relist", "ready"},
                 got : [Channel -> ChannelDto]]
  BY <1>3 DEF Idle
<1>27. CASE ShowChannels
  <2> DEFINE row(c) == IF load.got[c] = "absent" THEN Unmount(rows[c])
                       ELSE Follow(rows[c], load.got[c])
  <2>1. ASSUME NEW c \in Channel PROVE RowInv(row(c), load.got[c])
    <3>1. load.got[c] \in ChannelDto
      BY <1>4
    <3> QED BY <1>2, <3>1, UnmountKeeps, FollowKeeps
  <2>2. rows' = [c \in Channel |-> row(c)]
    BY <1>27 DEF ShowChannels
  <2> HIDE DEF row
  <2>3. rows' \in [Channel -> Row]
    BY <2>1, <2>2 DEF RowInv
  <2>4. late' \subseteq Channel \X BOOLEAN
    BY <1>1, <1>27, SentLate DEF ShowChannels
  <2>5. shown' = load.got /\ load' = Idle /\ syncing' \in {"no", "request", "reload"}
    BY <1>1, <1>27 DEF ShowChannels
  <2>6. PanelTypeOK'
    BY <1>1, <1>4, <1>26, <1>27, <2>3, <2>4, <2>5 DEF ShowChannels, PanelTypeOK
  <2>7. \A c \in Channel : RowInv(rows'[c], shown'[c])
    BY <2>1, <2>2, <2>5
  <2> QED BY <2>3, <2>6, <2>7, RowsSet
<1>28. CASE CloseBox
  <2>1. \A c \in Channel : RowInv(Unmount(rows[c]), "absent")
    BY <1>2, UnmountKeeps
  <2>2. rows' = [c \in Channel |-> Unmount(rows[c])] /\ shown' = NoChannels
    BY <1>28 DEF CloseBox, LeavePanel
  <2>3. rows' \in [Channel -> Row]
    BY <2>1, <2>2 DEF RowInv
  <2>4. PanelTypeOK'
    BY <1>1, <1>3, <1>26, <1>28, <2>2, <2>3, SentLate
    DEF CloseBox, LeavePanel, PanelTypeOK
  <2>5. \A c \in Channel : RowInv(rows'[c], shown'[c])
    BY <2>1, <2>2 DEF NoChannels
  <2> QED BY <2>3, <2>4, <2>5, RowsSet
<1> QED
  BY <1>6, <1>7, <1>8, <1>9, <1>10, <1>11, <1>13, <1>14, <1>16, <1>17, <1>19, <1>20,
     <1>21, <1>22, <1>23, <1>24, <1>25, <1>27, <1>28 DEF PanelNext

\* A 401 leaves new rows.
LEMMA PanelExpires ==
    ASSUME PanelInv, LeavePanel, rows' = [c \in Channel |-> FreshRow]
    PROVE  PanelInv'
<1>1. NoChannels \in [Channel -> ChannelDto]
  BY DEF NoChannels, ChannelDto
<1>2. Idle \in [at : {"idle", "list", "sync", "relist", "ready"},
                got : [Channel -> ChannelDto]]
  BY <1>1 DEF Idle
<1>3. rows' \in [Channel -> Row]
  BY FreshRowType
<1>4. PanelTypeOK'
  BY <1>1, <1>2, <1>3, SentLate DEF LeavePanel, PanelInv, PanelTypeOK
<1>5. RowInv(FreshRow, "absent")
  BY FreshRowType DEF RowInv, FreshRow
<1>6. \A c \in Channel : RowInv(rows'[c], shown'[c])
  BY <1>5 DEF LeavePanel, NoChannels
<1> QED BY <1>3, <1>4, <1>6, RowsSet

\* hls.js settles.
LEMMA PanelResumes ==
    ASSUME PanelInv, UNCHANGED <<serverVars, pageVars>>,
           \/ rows' = [c \in Channel |-> ResumePreviews(rows[c])]
           \/ rows' = [c \in Channel |-> RejectPreviews(rows[c])]
    PROVE  PanelInv'
<1>1. ASSUME NEW c \in Channel PROVE RowInv(rows'[c], shown[c])
  BY ResumeKeeps DEF PanelInv
<1>2. rows' \in [Channel -> Row]
  BY ResumeKeeps DEF PanelInv, RowInv
<1>3. PanelTypeOK'
  BY <1>2 DEF PanelInv, PanelTypeOK, serverVars, pageVars
<1> QED BY <1>1, <1>2, <1>3, RowsSet DEF pageVars

LEMMA PanelStarts == PanelInit => PanelInv
<1> SUFFICES ASSUME PanelInit PROVE PanelInv
  OBVIOUS
<1>1. NoChannels \in [Channel -> ChannelDto] /\ \A c \in Channel : NoChannels[c] = "absent"
  BY DEF NoChannels, ChannelDto
<1>2. Idle \in [at : {"idle", "list", "sync", "relist", "ready"},
                got : [Channel -> ChannelDto]]
  BY <1>1 DEF Idle
<1>3. PanelTypeOK
  BY <1>1, <1>2, FreshRowType DEF PanelInit, PanelTypeOK
<1>4. RowInv(FreshRow, "absent")
  BY FreshRowType DEF RowInv, FreshRow
<1> QED BY <1>1, <1>3, <1>4 DEF PanelInit, PanelInv

-----------------------------------------------------------------------------
(* The cells of the grid.                                                  *)

\* A cell with a camera and no error has a player of this camera, unless a start
\* for it awaits hls.js; this is then the last one, and it was not overtaken.
CellInv(cell) ==
    /\ cell \in Cell
    /\ cell.hls <= Len(cell.live)
    /\ cell.camera = NoCamera => cell.hls = 0 /\ cell.cancelled
    /\ cell.camera # NoCamera /\ ~ cell.failed =>
           IF cell.starts = <<>> THEN cell.hls # 0 /\ cell.live[cell.hls] = cell.camera
           ELSE ~ cell.cancelled /\ cell.starts[Len(cell.starts)] = cell.camera

\* Nothing awaits hls.js once it is there.
GridInv ==
    /\ listed \subseteq Camera
    /\ cells \in Seq(Cell) /\ Len(cells) \in Layout \cup {0}
    /\ store \in Seq(Camera \cup {NoCamera}) /\ Len(store) \in Layout \cup {0}
    /\ \A i \in 1 .. Len(cells) :
           CellInv(cells[i]) /\ (HlsLoaded => cells[i].starts = <<>>)

CellOf(camera, starts, live, hls, cancelled, failed) ==
    [camera |-> camera, starts |-> starts, live |-> live, hls |-> hls,
     cancelled |-> cancelled, failed |-> failed]

LEMMA CellFields ==
    ASSUME NEW camera, NEW starts, NEW live, NEW hls, NEW cancelled, NEW failed
    PROVE  LET cell == CellOf(camera, starts, live, hls, cancelled, failed)
           IN  /\ cell.camera = camera /\ cell.starts = starts /\ cell.live = live
               /\ cell.hls = hls /\ cell.cancelled = cancelled /\ cell.failed = failed
BY Zenon DEF CellOf

LEMMA CellType ==
    ASSUME NEW camera \in Camera \cup {NoCamera}, NEW starts \in Seq(Camera),
           NEW live \in Seq(Camera), NEW hls \in Nat, NEW cancelled \in BOOLEAN,
           NEW failed \in BOOLEAN
    PROVE  CellOf(camera, starts, live, hls, cancelled, failed) \in Cell
BY DEF CellOf, Cell

LEMMA CellIs ==
    ASSUME NEW cell \in Cell
    PROVE  /\ cell = CellOf(cell.camera, cell.starts, cell.live, cell.hls,
                            cell.cancelled, cell.failed)
           /\ cell.camera \in Camera \cup {NoCamera} /\ cell.starts \in Seq(Camera)
           /\ cell.live \in Seq(Camera) /\ cell.hls \in Nat
           /\ cell.cancelled \in BOOLEAN /\ cell.failed \in BOOLEAN
<1>1. /\ cell.camera \in Camera \cup {NoCamera} /\ cell.starts \in Seq(Camera)
      /\ cell.live \in Seq(Camera) /\ cell.hls \in Nat
      /\ cell.cancelled \in BOOLEAN /\ cell.failed \in BOOLEAN
  BY DEF Cell
<1>2. cell = [camera |-> cell.camera, starts |-> cell.starts, live |-> cell.live,
              hls |-> cell.hls, cancelled |-> cell.cancelled, failed |-> cell.failed]
  BY DEF Cell
<1> QED BY <1>1, <1>2 DEF CellOf

\* The truth values as names: the provers keep formulas and terms apart.
Yes == TRUE
No == FALSE

LEMMA YesNo == Yes \in BOOLEAN /\ No \in BOOLEAN /\ Yes /\ ~ No
BY DEF Yes, No

LEMMA Removed ==
    ASSUME NEW S, NEW seq \in Seq(S), NEW i \in 1 .. Len(seq)
    PROVE  RemoveAt(seq, i) \in Seq(S)
<1>1. Len(seq) \in Nat /\ \A j \in 1 .. Len(seq) : seq[j] \in S
  BY LenProperties, ElementOfSeq
<1>2. SubSeq(seq, 1, i - 1) \in Seq(S)
  <2>1. \A j \in 1 .. i - 1 : seq[j] \in S
    BY <1>1
  <2>2. 1 \in Int /\ i - 1 \in Int
    BY <1>1
  <2> QED BY <2>1, <2>2, SubSeqProperties
<1>3. SubSeq(seq, i + 1, Len(seq)) \in Seq(S)
  <2>1. \A j \in i + 1 .. Len(seq) : seq[j] \in S
    BY <1>1
  <2>2. i + 1 \in Int /\ Len(seq) \in Int
    BY <1>1
  <2> QED BY <2>1, <2>2, SubSeqProperties
<1>4. RemoveAt(seq, i) = SubSeq(seq, 1, i - 1) \o SubSeq(seq, i + 1, Len(seq))
  BY DEF RemoveAt
<1> HIDE DEF RemoveAt
<1> QED BY <1>2, <1>3, <1>4, ConcatProperties

LEMMA TakeDownIs ==
    ASSUME NEW a, NEW s, NEW l \in Seq(Camera), NEW h \in Nat, NEW x, NEW f, h <= Len(l)
    PROVE  \E live \in Seq(Camera) :
               TakeDown(CellOf(a, s, l, h, x, f)) = CellOf(a, s, live, 0, x, f)
<1> DEFINE cell == CellOf(a, s, l, h, x, f)
           live == IF h = 0 THEN l ELSE RemoveAt(l, h)
<1>1. live \in Seq(Camera)
  <2>1. Len(l) \in Nat
    BY LenProperties
  <2> QED BY <2>1, Removed
<1>2. cell.hls = h /\ cell.live = l
  BY CellFields
<1>3. TakeDown(cell) = [cell EXCEPT !.live = live, !.hls = 0]
  BY <1>2 DEF TakeDown
<1> HIDE DEF live
<1>4. [cell EXCEPT !.live = live, !.hls = 0] = [[cell EXCEPT !.live = live] EXCEPT !.hls = 0]
  OBVIOUS
<1>5. [cell EXCEPT !.live = live] = CellOf(a, s, live, h, x, f)
  BY DEF CellOf
<1>6. [CellOf(a, s, live, h, x, f) EXCEPT !.hls = 0] = CellOf(a, s, live, 0, x, f)
  BY DEF CellOf
<1> QED BY <1>1, <1>3, <1>4, <1>5, <1>6

LEMMA DestroyHlsIs ==
    ASSUME NEW a, NEW s, NEW l \in Seq(Camera), NEW h \in Nat, NEW x, NEW f, h <= Len(l)
    PROVE  \E live \in Seq(Camera) :
               DestroyHls(CellOf(a, s, l, h, x, f)) = CellOf(a, s, live, 0, Yes, f)
<1>1. PICK live \in Seq(Camera) :
          TakeDown(CellOf(a, s, l, h, x, f)) = CellOf(a, s, live, 0, x, f)
  BY TakeDownIs
<1>2. [CellOf(a, s, live, 0, x, f) EXCEPT !.cancelled = Yes]
        = CellOf(a, s, live, 0, Yes, f)
  BY DEF CellOf
<1>3. DestroyHls(CellOf(a, s, l, h, x, f))
        = [TakeDown(CellOf(a, s, l, h, x, f)) EXCEPT !.cancelled = Yes]
  BY DEF DestroyHls, Yes
<1> QED BY <1>1, <1>2, <1>3

\* A camera, or none, is chosen in a cell.
LEMMA ShowKeeps ==
    ASSUME NEW cell, CellInv(cell), NEW camera \in Camera \cup {NoCamera},
           HlsLoaded => cell.starts = <<>>
    PROVE  /\ CellInv(Show(cell, camera)) /\ Show(cell, camera).camera = camera
           /\ HlsLoaded => Show(cell, camera).starts = <<>>
<1> DEFINE s == cell.starts
           l == cell.live
           h == cell.hls
           x == cell.cancelled
           f == cell.failed
           chosen == CellOf(camera, s, l, h, x, f)
<1>1. /\ s \in Seq(Camera) /\ l \in Seq(Camera) /\ h \in Nat /\ h <= Len(l)
      /\ x \in BOOLEAN /\ f \in BOOLEAN /\ Len(l) \in Nat
  BY CellIs, LenProperties DEF CellInv
<1>2. [cell EXCEPT !.camera = camera] = chosen
  <2>1. [CellOf(cell.camera, s, l, h, x, f) EXCEPT !.camera = camera] = chosen
    BY DEF CellOf
  <2> QED BY <2>1, CellIs DEF CellInv
<1> HIDE DEF s, l, h, x, f
<1>3. PICK live \in Seq(Camera) : DestroyHls(chosen) = CellOf(camera, s, live, 0, Yes, f)
  BY <1>1, DestroyHlsIs
<1>4. CASE camera = NoCamera
  <2> DEFINE new == CellOf(camera, s, live, 0, Yes, No)
  <2>1. [CellOf(camera, s, live, 0, Yes, f) EXCEPT !.failed = No] = new
    BY DEF CellOf
  <2>2. Show(cell, camera) = new
    BY <1>2, <1>3, <1>4, <2>1 DEF Show, No
  <2>3. new \in Cell
    <3>1. 0 \in Nat
      OBVIOUS
    <3> QED BY <1>1, <3>1, YesNo, CellType
  <2>4. new.camera = camera /\ new.hls = 0 /\ new.cancelled = Yes /\ new.live = live
        /\ new.starts = s
    BY CellFields
  <2> HIDE DEF new
  <2>5. CellInv(new)
    BY <1>4, <2>3, <2>4, YesNo, LenProperties DEF CellInv
  <2> QED BY <2>2, <2>4, <2>5 DEF s
<1>5. CASE camera # NoCamera /\ f
  <2>1. Show(cell, camera) = chosen
    <3>1. chosen.failed = f
      BY CellFields
    <3> QED BY <1>2, <1>5, <3>1 DEF Show, InitHls
  <2>2. chosen \in Cell
    BY <1>1, CellType
  <2>3. chosen.camera = camera /\ chosen.hls = h /\ chosen.live = l /\ chosen.starts = s
        /\ chosen.failed = f
    BY CellFields
  <2> HIDE DEF chosen
  <2>4. CellInv(chosen)
    BY <1>1, <1>5, <2>2, <2>3 DEF CellInv
  <2> QED BY <2>1, <2>3, <2>4 DEF s
<1>6. CASE camera # NoCamera /\ ~ f
  <2> DEFINE fresh == CellOf(camera, s, live, 0, No, f)
  <2>1. [CellOf(camera, s, live, 0, Yes, f) EXCEPT !.cancelled = No] = fresh
    BY DEF CellOf
  <2>2. fresh.cancelled = No /\ fresh.live = live /\ fresh.starts = s
    BY CellFields
  <2>3. chosen.failed = f
    BY CellFields
  <2>4. Show(cell, camera) = IF HlsLoaded THEN CreateHls(fresh, camera)
                             ELSE [fresh EXCEPT !.starts = Append(@, camera)]
    BY <1>2, <1>3, <1>6, <2>1, <2>3 DEF Show, InitHls, No
  <2>5. camera \in Camera /\ Len(live) \in Nat
    BY <1>6, LenProperties
  <2>6. CASE HlsLoaded
    <3> DEFINE players == Append(live, camera)
               hls == Len(live) + 1
               new == CellOf(camera, s, players, hls, No, f)
    <3>1. players \in Seq(Camera) /\ Len(players) = hls /\ players[hls] = camera
      BY <2>5, AppendProperties
    <3>2. CreateHls(fresh, camera) = [fresh EXCEPT !.live = players, !.hls = hls]
      BY <2>2, YesNo DEF CreateHls
    <3> HIDE DEF players, hls
    <3>3. [fresh EXCEPT !.live = players, !.hls = hls]
            = [[fresh EXCEPT !.live = players] EXCEPT !.hls = hls]
      <4> HIDE DEF fresh
      <4> QED OBVIOUS
    <3>4. [fresh EXCEPT !.live = players] = CellOf(camera, s, players, 0, No, f)
      BY DEF CellOf
    <3>5. [CellOf(camera, s, players, 0, No, f) EXCEPT !.hls = hls] = new
      BY DEF CellOf
    <3>6. Show(cell, camera) = new
      BY <2>4, <2>6, <3>2, <3>3, <3>4, <3>5
    <3>7. hls \in Nat /\ hls # 0
      BY <2>5 DEF hls
    <3>8. new \in Cell
      BY <1>1, <3>1, <3>7, YesNo, CellType
    <3>9. new.camera = camera /\ new.hls = hls /\ new.live = players /\ new.starts = s
      BY CellFields
    <3>10. s = <<>>
      BY <2>6 DEF s
    <3> HIDE DEF new
    <3>11. CellInv(new)
      BY <1>6, <3>1, <3>7, <3>8, <3>9, <3>10 DEF CellInv
    <3> QED BY <3>6, <3>9, <3>10, <3>11
  <2>7. CASE ~ HlsLoaded
    <3> DEFINE starts == Append(s, camera)
               new == CellOf(camera, starts, live, 0, No, f)
    <3>1. /\ starts \in Seq(Camera) /\ starts # <<>>
          /\ Len(starts) = Len(s) + 1 /\ starts[Len(s) + 1] = camera
      BY <1>1, <2>5, AppendProperties
    <3>2. [fresh EXCEPT !.starts = Append(@, camera)] = [fresh EXCEPT !.starts = starts]
      BY <2>2
    <3> HIDE DEF starts
    <3>3. [fresh EXCEPT !.starts = starts] = new
      BY DEF CellOf
    <3>4. Show(cell, camera) = new
      BY <2>4, <2>7, <3>2, <3>3
    <3>5. new \in Cell
      <4>1. 0 \in Nat
        OBVIOUS
      <4> QED BY <1>1, <3>1, <4>1, YesNo, CellType
    <3>6. new.camera = camera /\ new.hls = 0 /\ new.live = live /\ new.starts = starts
          /\ new.cancelled = No
      BY CellFields
    <3> HIDE DEF new
    <3>7. CellInv(new)
      BY <1>6, <2>5, <3>1, <3>5, <3>6, YesNo DEF CellInv
    <3> QED BY <2>7, <3>4, <3>6, <3>7
  <2> QED BY <2>6, <2>7
<1> QED BY <1>1, <1>4, <1>5, <1>6

\* hls.js is there: the last start that waited is the one the cell refers to.
LEMMA ResumeCellKeeps ==
    ASSUME NEW cell, CellInv(cell)
    PROVE  CellInv(Resume(cell)) /\ Resume(cell).starts = <<>>
<1> DEFINE a == cell.camera
           s == cell.starts
           l == cell.live
           h == cell.hls
           x == cell.cancelled
           f == cell.failed
<1>1. /\ a \in Camera \cup {NoCamera}
      /\ s \in Seq(Camera) /\ l \in Seq(Camera) /\ h \in Nat /\ h <= Len(l)
      /\ x \in BOOLEAN /\ f \in BOOLEAN /\ Len(l) \in Nat /\ Len(s) \in Nat
      /\ <<>> \in Seq(Camera)
  BY CellIs, LenProperties DEF CellInv
<1>2. cell = CellOf(a, s, l, h, x, f)
  BY CellIs DEF CellInv
<1>3. CASE x \/ s = <<>>
  <2> DEFINE new == CellOf(a, <<>>, l, h, x, f)
  <2>1. [CellOf(a, s, l, h, x, f) EXCEPT !.starts = <<>>] = new
    <3> HIDE DEF a, s, l, h, x, f
    <3> QED BY DEF CellOf
  <2>2. Resume(cell) = new
    BY <1>2, <1>3, <2>1 DEF Resume
  <2>3. /\ new.camera = a /\ new.starts = <<>> /\ new.live = l /\ new.hls = h
        /\ new.cancelled = x /\ new.failed = f
    BY CellFields
  <2>4. new \in Cell
    BY <1>1, CellType
  <2> HIDE DEF new
  <2>5. CellInv(new)
    BY <1>1, <1>3, <2>3, <2>4 DEF CellInv
  <2> QED BY <2>2, <2>3, <2>5
<1>4. CASE ~ (x \/ s = <<>>)
  <2> DEFINE players == l \o s
             hls == Len(l) + Len(s)
             new == CellOf(a, <<>>, players, hls, x, f)
  <2>1. Resume(cell) = [cell EXCEPT !.starts = <<>>, !.live = players, !.hls = hls]
    BY <1>4 DEF Resume
  <2>2. Len(s) # 0
    BY <1>1, <1>4, EmptySeq
  <2>3. /\ players \in Seq(Camera) /\ Len(players) = hls /\ hls \in Nat /\ hls # 0
        /\ players[hls] = s[Len(s)]
    <3> HIDE DEF s, l
    <3>1. /\ players \in Seq(Camera) /\ Len(players) = Len(l) + Len(s)
          /\ \A i \in 1 .. Len(l) + Len(s) :
                 players[i] = IF i <= Len(l) THEN l[i] ELSE s[i - Len(l)]
      BY <1>1, ConcatProperties
    <3> HIDE DEF players
    <3>2. hls \in 1 .. Len(l) + Len(s) /\ hls \in Nat /\ hls # 0 /\ ~ (hls <= Len(l))
          /\ hls - Len(l) = Len(s)
      BY <1>1, <2>2
    <3> QED BY <3>1, <3>2
  <2> HIDE DEF a, s, l, h, x, f, players, hls
  <2>4. [cell EXCEPT !.starts = <<>>, !.live = players, !.hls = hls]
          = [[[cell EXCEPT !.starts = <<>>] EXCEPT !.live = players] EXCEPT !.hls = hls]
    OBVIOUS
  <2>5. [CellOf(a, s, l, h, x, f) EXCEPT !.starts = <<>>] = CellOf(a, <<>>, l, h, x, f)
    BY DEF CellOf
  <2>6. [CellOf(a, <<>>, l, h, x, f) EXCEPT !.live = players]
          = CellOf(a, <<>>, players, h, x, f)
    BY DEF CellOf
  <2>7. [CellOf(a, <<>>, players, h, x, f) EXCEPT !.hls = hls] = new
    BY DEF CellOf
  <2>8. Resume(cell) = new
    BY <1>2, <2>1, <2>4, <2>5, <2>6, <2>7
  <2>9. /\ new.camera = a /\ new.starts = <<>> /\ new.live = players /\ new.hls = hls
        /\ new.cancelled = x /\ new.failed = f
    BY CellFields
  <2>10. new \in Cell
    BY <1>1, <2>3, CellType
  <2> HIDE DEF new
  <2>11. a # NoCamera /\ (~ f => s[Len(s)] = a)
    BY <1>4 DEF CellInv, a, s, x, f
  <2>12. CellInv(new)
    BY <1>1, <2>3, <2>9, <2>10, <2>11 DEF CellInv
  <2> QED BY <2>8, <2>9, <2>12
<1> QED BY <1>3, <1>4

\* It could not be had: a start that waited, and was not overtaken, is an error.
LEMMA RejectCellKeeps ==
    ASSUME NEW cell, CellInv(cell)
    PROVE  CellInv(Reject(cell)) /\ Reject(cell).starts = <<>>
<1> DEFINE a == cell.camera
           s == cell.starts
           l == cell.live
           h == cell.hls
           x == cell.cancelled
           f == cell.failed
           g == f \/ (s # <<>> /\ ~ x)
           new == CellOf(a, <<>>, l, h, x, g)
<1>1. /\ a \in Camera \cup {NoCamera}
      /\ s \in Seq(Camera) /\ l \in Seq(Camera) /\ h \in Nat /\ h <= Len(l)
      /\ x \in BOOLEAN /\ f \in BOOLEAN /\ g \in BOOLEAN /\ <<>> \in Seq(Camera)
  BY CellIs DEF CellInv
<1>2. cell = CellOf(a, s, l, h, x, f)
  BY CellIs DEF CellInv
<1>3. Reject(cell) = [cell EXCEPT !.failed = g, !.starts = <<>>]
  BY DEF Reject
<1>4. ~ g => ~ f /\ (s = <<>> \/ x)
  OBVIOUS
<1> HIDE DEF a, s, l, h, x, f, g
<1>5. [cell EXCEPT !.failed = g, !.starts = <<>>]
        = [[cell EXCEPT !.failed = g] EXCEPT !.starts = <<>>]
  OBVIOUS
<1>6. [CellOf(a, s, l, h, x, f) EXCEPT !.failed = g] = CellOf(a, s, l, h, x, g)
  BY DEF CellOf
<1>7. [CellOf(a, s, l, h, x, g) EXCEPT !.starts = <<>>] = new
  BY DEF CellOf
<1>8. Reject(cell) = new
  BY <1>2, <1>3, <1>5, <1>6, <1>7
<1>9. /\ new.camera = a /\ new.starts = <<>> /\ new.live = l /\ new.hls = h
      /\ new.cancelled = x /\ new.failed = g
  BY CellFields
<1>10. new \in Cell
  BY <1>1, CellType
<1> HIDE DEF new
<1>11. /\ a = NoCamera => h = 0 /\ x
       /\ a # NoCamera /\ ~ g => h # 0 /\ l[h] = a
  BY <1>4 DEF CellInv, a, s, l, h, x, f
<1>12. CellInv(new)
  BY <1>1, <1>9, <1>10, <1>11 DEF CellInv
<1> QED BY <1>8, <1>9, <1>12

\* A player's fatal error.
LEMMA FatalCellKeeps ==
    ASSUME NEW cell, CellInv(cell)
    PROVE  /\ CellInv([cell EXCEPT !.failed = TRUE])
           /\ [cell EXCEPT !.failed = TRUE].starts = cell.starts
<1> DEFINE a == cell.camera
           s == cell.starts
           l == cell.live
           h == cell.hls
           x == cell.cancelled
           f == cell.failed
           new == CellOf(a, s, l, h, x, Yes)
<1>1. /\ a \in Camera \cup {NoCamera}
      /\ s \in Seq(Camera) /\ l \in Seq(Camera) /\ h \in Nat /\ h <= Len(l)
      /\ x \in BOOLEAN /\ f \in BOOLEAN
  BY CellIs DEF CellInv
<1>2. cell = CellOf(a, s, l, h, x, f)
  BY CellIs DEF CellInv
<1>3. a = NoCamera => h = 0 /\ x
  BY DEF CellInv
<1>4. [cell EXCEPT !.failed = TRUE] = new
  <2>1. [CellOf(a, s, l, h, x, f) EXCEPT !.failed = Yes] = new
    <3> HIDE DEF a, s, l, h, x, f
    <3> QED BY DEF CellOf
  <2> QED BY <1>2, <2>1 DEF Yes
<1>5. /\ new.camera = a /\ new.starts = s /\ new.live = l /\ new.hls = h
      /\ new.cancelled = x /\ new.failed = Yes
  BY CellFields
<1>6. new \in Cell
  BY <1>1, YesNo, CellType
<1> HIDE DEF new, a, s, l, h, x, f
<1>7. CellInv(new)
  BY <1>1, <1>3, <1>5, <1>6, YesNo DEF CellInv
<1> QED BY <1>4, <1>5, <1>7 DEF s

LEMMA EmptyCellType == CellInv(EmptyCell) /\ EmptyCell.starts = <<>>
<1>1. EmptyCell = CellOf(NoCamera, <<>>, <<>>, 0, Yes, No)
  BY DEF EmptyCell, CellOf, Yes, No
<1> DEFINE new == CellOf(NoCamera, <<>>, <<>>, 0, Yes, No)
<1>2. /\ new.camera = NoCamera /\ new.starts = <<>> /\ new.live = <<>> /\ new.hls = 0
      /\ new.cancelled = Yes
  BY CellFields
<1>3. new \in Cell
  <2>1. NoCamera \in Camera \cup {NoCamera} /\ <<>> \in Seq(Camera) /\ 0 \in Nat
    OBVIOUS
  <2> QED BY <2>1, YesNo, CellType
<1> HIDE DEF new
<1>4. CellInv(new)
  BY <1>2, <1>3, YesNo DEF CellInv
<1> QED BY <1>1, <1>2, <1>4 DEF new

-----------------------------------------------------------------------------
(* The grid.                                                               *)

\* Cells that may follow each other: none awaits a module that is there.
GoodCells(cs) ==
    /\ cs \in Seq(Cell)
    /\ \A i \in 1 .. Len(cs) : CellInv(cs[i]) /\ (HlsLoaded => cs[i].starts = <<>>)

LEMMA SetCellsKeeps ==
    ASSUME GridInv, NEW cs, GoodCells(cs), Len(cs) \in Layout, SetCells(cs),
           listed' \subseteq Camera
    PROVE  GridInv'
<1>1. cells' = cs /\ store' = [i \in 1 .. Len(cs) |-> cs[i].camera]
  BY DEF SetCells, Persist
<1>2. hlsModule' = "loaded" => HlsLoaded
  BY DEF SetCells, Import, HlsLoaded
<1>3. cs \in Seq(Cell) /\ Len(cs) \in Nat
  BY LenProperties DEF GoodCells
<1>4. ASSUME NEW i \in 1 .. Len(cs) PROVE cs[i].camera \in Camera \cup {NoCamera}
  BY <1>3, <1>4, ElementOfSeq, CellIs
<1>5. store' \in Seq(Camera \cup {NoCamera}) /\ Len(store') = Len(cs)
  <2>1. store' \in [1 .. Len(cs) -> Camera \cup {NoCamera}]
    BY <1>1, <1>4
  <2>2. store' \in Seq(Camera \cup {NoCamera})
    BY <1>3, <2>1, IsASeq
  <2>3. DOMAIN store' = 1 .. Len(cs) /\ DOMAIN store' = 1 .. Len(store')
        /\ Len(store') \in Nat
    BY <2>1, <2>2, LenProperties
  <2>4. Len(store') = Len(cs)
    BY <1>3, <2>3
  <2> QED BY <2>2, <2>4
<1>6. \A i \in 1 .. Len(cs) :
          CellInv(cs[i]) /\ (hlsModule' = "loaded" => cs[i].starts = <<>>)
  BY <1>2 DEF GoodCells
<1> QED BY <1>1, <1>3, <1>5, <1>6 DEF GridInv, HlsLoaded

LEMMA AssignedKeeps ==
    ASSUME NEW old, GoodCells(old), NEW cameras \in Seq(Camera \cup {NoCamera})
    PROVE  GoodCells(Assigned(old, cameras))
           /\ Len(Assigned(old, cameras)) = Len(cameras)
<1> DEFINE cell(i) == IF i <= Len(old) THEN old[i] ELSE EmptyCell
           next(i) == IF cell(i).camera = cameras[i] THEN cell(i)
                      ELSE Show(cell(i), cameras[i])
           new == Assigned(old, cameras)
<1>1. new = [i \in 1 .. Len(cameras) |-> next(i)]
  BY DEF Assigned
<1>2. Len(old) \in Nat /\ Len(cameras) \in Nat
  BY LenProperties DEF GoodCells
<1>3. ASSUME NEW i \in 1 .. Len(cameras)
      PROVE  CellInv(next(i)) /\ (HlsLoaded => next(i).starts = <<>>)
  <2>1. CellInv(cell(i)) /\ (HlsLoaded => cell(i).starts = <<>>)
    BY <1>2, EmptyCellType DEF GoodCells
  <2>2. cameras[i] \in Camera \cup {NoCamera}
    BY <1>3, ElementOfSeq
  <2> HIDE DEF cell
  <2> QED BY <2>1, <2>2, ShowKeeps
<1> HIDE DEF next, new
<1>4. new \in [1 .. Len(cameras) -> Cell]
  BY <1>1, <1>3 DEF CellInv
<1>5. new \in Seq(Cell)
  BY <1>2, <1>4, IsASeq
<1>6. Len(new) = Len(cameras)
  <2>1. DOMAIN new = 1 .. Len(cameras) /\ DOMAIN new = 1 .. Len(new) /\ Len(new) \in Nat
    BY <1>4, <1>5, LenProperties
  <2> QED BY <1>2, <2>1
<1>7. GoodCells(new)
  BY <1>1, <1>3, <1>5, <1>6 DEF GoodCells
<1> QED BY <1>6, <1>7 DEF new

LEMMA ChosenSeq ==
    ASSUME NEW S, NEW n \in Nat, NEW chosen, chosen \in [1 .. n -> S]
    PROVE  chosen \in Seq(S) /\ Len(chosen) = n
<1>1. chosen \in Seq(S)
  BY IsASeq
<1>2. DOMAIN chosen = 1 .. n /\ DOMAIN chosen = 1 .. Len(chosen) /\ Len(chosen) \in Nat
  BY <1>1, LenProperties
<1> QED BY <1>1, <1>2

LEMMA GridStep ==
    ASSUME GridInv, GridNext \/ (\E cameras \in {Camera, {}} : OpenGrid(cameras))
    PROVE  GridInv'
<1>1. GoodCells(cells) /\ Len(cells) \in Nat
  BY LenProperties DEF GridInv, GoodCells
<1>2. \A i \in 1 .. Len(cells) : cells[i].camera \in Camera \cup {NoCamera}
  BY <1>1, CellIs DEF GoodCells, CellInv
<1>3. ASSUME NEW cameras \in {Camera, {}}, OpenGrid(cameras) PROVE GridInv'
  <2> DEFINE chosen == Restored(cameras)
             none == <<>>
  <2>1. DefaultLayout \in Nat /\ Len(store) \in Nat /\ store \in Seq(Camera \cup {NoCamera})
    BY LayoutAssumption, LenProperties DEF GridInv
  <2>2. chosen \in Seq(Camera \cup {NoCamera}) /\ Len(chosen) \in Layout
    <3>1. CASE store = <<>>
      <4>1. chosen \in [1 .. DefaultLayout -> Camera \cup {NoCamera}]
        BY <3>1 DEF Restored
      <4> HIDE DEF chosen
      <4> QED BY <2>1, <4>1, ChosenSeq, LayoutAssumption
    <3>2. CASE store # <<>>
      <4>1. chosen \in [1 .. Len(store) -> Camera \cup {NoCamera}]
        BY <3>2 DEF Restored
      <4>2. Len(store) \in Layout
        BY <2>1, <3>2, EmptySeq DEF GridInv
      <4> HIDE DEF chosen
      <4> QED BY <2>1, <4>1, <4>2, ChosenSeq
    <3> QED BY <3>1, <3>2
  <2>3. GoodCells(none)
    BY DEF GoodCells
  <2>4. listed' = cameras /\ SetCells(Assigned(none, chosen))
    BY <1>3 DEF OpenGrid
  <2> HIDE DEF chosen, none
  <2>5. GoodCells(Assigned(none, chosen)) /\ Len(Assigned(none, chosen)) \in Layout
    BY <2>2, <2>3, AssignedKeeps
  <2> QED BY <2>4, <2>5, SetCellsKeeps
<1>4. ASSUME NEW i \in 1 .. Len(cells), NEW c \in listed \cup {NoCamera}, Assign(i, c)
      PROVE  GridInv'
  <2> DEFINE cell == Show(cells[i], c)
             new == [cells EXCEPT ![i] = cell]
  <2>1. c \in Camera \cup {NoCamera}
    BY DEF GridInv
  <2>2. CellInv(cell) /\ (HlsLoaded => cell.starts = <<>>)
    BY <1>1, <2>1, ShowKeeps DEF GoodCells
  <2>3. SetCells(new) /\ listed' = listed
    BY <1>4 DEF Assign
  <2> HIDE DEF cell
  <2>4. cell \in Cell
    BY <2>2 DEF CellInv
  <2>5. new \in Seq(Cell) /\ Len(new) = Len(cells)
    BY <1>1, <2>4, ExceptSeq DEF GoodCells
  <2>6. \A j \in 1 .. Len(cells) : new[j] = IF j = i THEN cell ELSE cells[j]
    BY <1>1, LenProperties DEF GoodCells
  <2> HIDE DEF new
  <2>7. GoodCells(new)
    BY <1>1, <2>2, <2>5, <2>6 DEF GoodCells
  <2>8. Len(new) \in Layout
    BY <1>1, <2>5 DEF GridInv
  <2> QED BY <2>3, <2>7, <2>8, SetCellsKeeps DEF GridInv
<1>5. ASSUME NEW n \in Layout, LayoutChange(n) PROVE GridInv'
  <2> DEFINE chosen == [i \in 1 .. n |-> IF i <= Len(cells) THEN cells[i].camera
                                         ELSE NoCamera]
  <2>1. n \in Nat
    BY LayoutAssumption
  <2>2. chosen \in [1 .. n -> Camera \cup {NoCamera}]
    BY <1>1, <1>2, <2>1
  <2>3. SetCells(Assigned(cells, chosen)) /\ listed' = listed
    BY <1>5 DEF LayoutChange
  <2> HIDE DEF chosen
  <2>4. chosen \in Seq(Camera \cup {NoCamera}) /\ Len(chosen) \in Layout
    BY <1>5, <2>1, <2>2, ChosenSeq
  <2>5. GoodCells(Assigned(cells, chosen)) /\ Len(Assigned(cells, chosen)) \in Layout
    BY <1>1, <2>4, AssignedKeeps
  <2> QED BY <2>3, <2>5, SetCellsKeeps DEF GridInv
<1>6. ASSUME NEW i \in 1 .. Len(cells), FatalError(i) PROVE GridInv'
  <2> DEFINE cell == [cells[i] EXCEPT !.failed = TRUE]
             new == [cells EXCEPT ![i] = cell]
  <2>1. CellInv(cell) /\ (HlsLoaded => cell.starts = <<>>)
    BY <1>1, FatalCellKeeps DEF GoodCells
  <2>2. cells' = new /\ UNCHANGED <<listed, store, hlsModule>>
    BY <1>6 DEF FatalError
  <2> HIDE DEF cell
  <2>3. cell \in Cell
    BY <2>1 DEF CellInv
  <2>4. new \in Seq(Cell) /\ Len(new) = Len(cells)
    BY <1>1, <2>3, ExceptSeq DEF GoodCells
  <2>5. \A j \in 1 .. Len(cells) : new[j] = IF j = i THEN cell ELSE cells[j]
    BY <1>1, LenProperties DEF GoodCells
  <2> HIDE DEF new
  <2>6. GoodCells(new)
    BY <1>1, <2>1, <2>4, <2>5 DEF GoodCells
  <2> QED BY <2>2, <2>4, <2>6 DEF GridInv, GoodCells, HlsLoaded
<1> QED BY <1>3, <1>4, <1>5, <1>6 DEF GridNext

\* Other pages leave the grid alone.
LEMMA GridSame ==
    ASSUME GridInv, UNCHANGED gridVars, hlsModule' = "loaded" => HlsLoaded
    PROVE  GridInv'
BY DEF GridInv, gridVars, HlsLoaded

LEMMA GridGone ==
    ASSUME GridInv, CloseGrid
    PROVE  GridInv'
BY DEF GridInv, CloseGrid

\* hls.js settles.
LEMMA GridSettles ==
    ASSUME GridInv, UNCHANGED <<listed, store>>,
           \/ cells' = [i \in DOMAIN cells |-> Resume(cells[i])]
           \/ cells' = [i \in DOMAIN cells |-> Reject(cells[i])]
    PROVE  GridInv'
<1>1. cells \in Seq(Cell) /\ DOMAIN cells = 1 .. Len(cells) /\ Len(cells) \in Nat
  BY LenProperties DEF GridInv
<1>2. ASSUME NEW i \in 1 .. Len(cells)
      PROVE  CellInv(cells'[i]) /\ cells'[i].starts = <<>>
  BY <1>1, ResumeCellKeeps, RejectCellKeeps DEF GridInv
<1>3. cells' \in [1 .. Len(cells) -> Cell]
  BY <1>1, <1>2 DEF CellInv
<1>4. cells' \in Seq(Cell) /\ Len(cells') = Len(cells)
  BY <1>1, <1>3, ChosenSeq
<1> QED BY <1>2, <1>4 DEF GridInv, HlsLoaded

-----------------------------------------------------------------------------
(* The tab.                                                                *)

\* The inductive invariant of a tab.
TabInv ==
    /\ GridInv /\ PanelInv /\ DashInv /\ BoxListInv
    /\ hlsModule \in HlsModule /\ visits \in 0 .. MaxVisits

\* The steps of a box's page leave hls.js as it is, or begin to fetch it.
LEMMA PanelLoads ==
    ASSUME PanelNext \/ OpenBox, hlsModule \in HlsModule
    PROVE  hlsModule' \in HlsModule /\ (hlsModule' = "loaded" => HlsLoaded)
<1>1. CASE UNCHANGED hlsModule
  BY <1>1 DEF HlsLoaded
<1>2. ASSUME NEW c \in Channel, PreviewToggle(c) PROVE hlsModule' \in {hlsModule, "fetching"}
  BY <1>2 DEF PreviewToggle, Import
<1> QED
  BY <1>1, <1>2 DEF PanelNext, OpenBox, PollerSync, Age, LateCommand, HandleToggle, Obey,
     ToggleSucceeds, ToggleFails, HandleSnapshot, SnapshotAnswered, Reload, ShowChannels,
     HandleSync, LoadList, LoadSync, LoadRelist, SyncAnswered, HlsModule, HlsLoaded

\* So do those of the grid.
LEMMA GridLoads ==
    ASSUME GridNext \/ (\E cameras \in {Camera, {}} : OpenGrid(cameras)),
           hlsModule \in HlsModule
    PROVE  hlsModule' \in HlsModule
<1>1. ASSUME NEW cs, SetCells(cs) PROVE hlsModule' \in HlsModule
  BY <1>1 DEF SetCells, Import, HlsModule
<1> QED BY <1>1 DEF GridNext, OpenGrid, Assign, LayoutChange, FatalError

LEMMA TabInit == Init => TabInv
<1> SUFFICES ASSUME Init PROVE TabInv
  OBVIOUS
<1>1. GridInv
  BY DEF Init, GridInit, GridInv
<1>2. PanelInv
  BY PanelStarts DEF Init
<1>3. DashInv
  BY NoDashInv DEF Init, DashInit, DashInv, DashTypeOK, OneMap, Leaflet!HlsInit,
                   Leaflet!HlsModule
<1>4. BoxListInv
  BY RefreshesAssumption DEF Init, BoxListInit, NoBoxList, BoxListInv, BoxListTypeOK,
                             PolledWhileSeen
<1>5. hlsModule \in HlsModule /\ visits \in 0 .. MaxVisits
  BY VisitsAssumption DEF Init, HlsInit, HlsModule
<1> QED BY <1>1, <1>2, <1>3, <1>4, <1>5 DEF TabInv

LEMMA TabStep == TabInv /\ [Next]_vars => TabInv'
<1> SUFFICES ASSUME TabInv, [Next]_vars PROVE TabInv'
  OBVIOUS
<1>1. /\ GridInv /\ PanelInv /\ DashInv /\ BoxListInv
      /\ hlsModule \in HlsModule /\ visits \in 0 .. MaxVisits
  BY DEF TabInv
<1>2. UNCHANGED gridVars /\ (hlsModule' = "loaded" => HlsLoaded) => GridInv'
  BY <1>1, GridSame
<1>3. UNCHANGED panelVars => PanelInv'
  BY <1>1 DEF panelVars, serverVars, pageVars, PanelInv, PanelTypeOK
<1>4. UNCHANGED dashVars => DashInv'
  BY <1>1 DEF dashVars, DashInv, DashTypeOK, OneMap
<1>5. UNCHANGED boxList => BoxListInv'
  BY <1>1 DEF BoxListInv, BoxListTypeOK, PolledWhileSeen
<1>6. Visit => visits' \in 0 .. MaxVisits
  BY <1>1, VisitsAssumption DEF Visit
<1>7. UNCHANGED hlsModule => (hlsModule' = "loaded" => HlsLoaded)
  BY DEF HlsLoaded
<1>8. CASE EnterGrid
  <2>1. GridInv' /\ hlsModule' \in HlsModule
    BY <1>1, <1>8, GridStep, GridLoads DEF EnterGrid
  <2> QED BY <1>3, <1>4, <1>5, <1>6, <1>8, <2>1 DEF EnterGrid, TabInv
<1>9. CASE EnterBox
  <2>1. PanelInv' /\ hlsModule' \in HlsModule /\ (hlsModule' = "loaded" => HlsLoaded)
    BY <1>1, <1>9, PanelStep, PanelLoads DEF EnterBox
  <2> QED BY <1>2, <1>4, <1>5, <1>6, <1>9, <2>1 DEF EnterBox, TabInv
<1>10. CASE EnterDashboard
  <2>1. DashInv'
    BY <1>1, <1>10, DashStep DEF EnterDashboard
  <2> QED BY <1>1, <1>2, <1>3, <1>5, <1>6, <1>7, <1>10, <2>1 DEF EnterDashboard, TabInv
<1>11. CASE EnterBoxList
  <2>1. ~ boxList.open
    BY <1>11 DEF EnterBoxList, Visit, NoPage
  <2>2. BoxListInv'
    BY <1>1, <1>11, <2>1, BoxListStep DEF EnterBoxList
  <2> QED BY <1>1, <1>2, <1>3, <1>4, <1>6, <1>7, <1>11, <2>2 DEF EnterBoxList, TabInv
<1>12. CASE LeaveGrid
  <2>1. GridInv'
    BY <1>1, <1>12, GridGone DEF LeaveGrid
  <2> QED BY <1>1, <1>3, <1>4, <1>5, <1>12, <2>1 DEF LeaveGrid, TabInv
<1>13. CASE LeaveBox
  <2>1. PanelInv'
    BY <1>1, <1>13, PanelStep DEF LeaveBox
  <2> QED BY <1>1, <1>2, <1>4, <1>5, <1>7, <1>13, <2>1 DEF LeaveBox, TabInv
<1>14. CASE LeaveDashboard
  <2>1. DashInv'
    BY <1>1, <1>14, DashStep DEF LeaveDashboard
  <2> QED BY <1>1, <1>2, <1>3, <1>5, <1>7, <1>14, <2>1 DEF LeaveDashboard, TabInv
<1>15. CASE LeaveBoxList
  <2>1. BoxListInv'
    BY <1>1, <1>15, BoxListStep DEF LeaveBoxList
  <2> QED BY <1>1, <1>2, <1>3, <1>4, <1>7, <1>15, <2>1 DEF LeaveBoxList, TabInv
<1>16. CASE SessionExpired
  <2>1. GridInv' /\ PanelInv'
    BY <1>1, <1>16, GridGone, PanelExpires DEF SessionExpired
  <2>2. DashInv'
    BY <1>16, NoDashInv DEF SessionExpired, DashInv, DashTypeOK, OneMap, Leaflet!HlsModule
  <2>3. BoxListInv'
    BY <1>16, NoBoxListInv DEF SessionExpired
  <2>4. hlsModule' \in HlsModule /\ visits' \in 0 .. MaxVisits
    BY <1>1, <1>16 DEF SessionExpired, HlsModule
  <2> QED BY <2>1, <2>2, <2>3, <2>4 DEF TabInv
<1>17. CASE HlsArrives
  <2>1. GridInv' /\ PanelInv'
    BY <1>1, <1>17, GridSettles, PanelResumes DEF HlsArrives
  <2>2. hlsModule' \in HlsModule /\ visits' \in 0 .. MaxVisits
    BY <1>1, <1>17 DEF HlsArrives, HlsModule
  <2> QED BY <1>4, <1>5, <1>17, <2>1, <2>2 DEF HlsArrives, TabInv
<1>18. CASE HlsFails
  <2>1. GridInv' /\ PanelInv'
    BY <1>1, <1>18, GridSettles, PanelResumes DEF HlsFails
  <2>2. hlsModule' \in HlsModule /\ visits' \in 0 .. MaxVisits
    BY <1>1, <1>18 DEF HlsFails, HlsModule
  <2> QED BY <1>4, <1>5, <1>18, <2>1, <2>2 DEF HlsFails, TabInv
<1>19. CASE GridNext /\ UNCHANGED <<panelVars, dashVars, boxList, visits>>
  <2>1. GridInv' /\ hlsModule' \in HlsModule
    BY <1>1, <1>19, GridStep, GridLoads
  <2> QED BY <1>1, <1>3, <1>4, <1>5, <1>19, <2>1 DEF TabInv
<1>20. CASE PanelNext /\ UNCHANGED <<gridVars, dashVars, boxList, visits>>
  <2>1. PanelInv' /\ hlsModule' \in HlsModule /\ (hlsModule' = "loaded" => HlsLoaded)
    BY <1>1, <1>20, PanelStep, PanelLoads
  <2> QED BY <1>1, <1>2, <1>4, <1>5, <1>20, <2>1 DEF TabInv
<1>21. CASE DashNext /\ UNCHANGED <<gridVars, panelVars, hlsModule, boxList, visits>>
  <2>1. DashInv'
    BY <1>1, <1>21, DashStep
  <2> QED BY <1>1, <1>2, <1>3, <1>5, <1>7, <1>21, <2>1 DEF TabInv
<1>22. CASE BoxListNext /\ UNCHANGED <<gridVars, panelVars, hlsModule, dashVars, visits>>
  <2>1. BoxListInv'
    BY <1>1, <1>22, BoxListStep
  <2> QED BY <1>1, <1>2, <1>3, <1>4, <1>7, <1>22, <2>1 DEF TabInv
<1>23. CASE UNCHANGED vars
  BY <1>1, <1>2, <1>3, <1>4, <1>5, <1>7, <1>23 DEF vars, TabInv
<1> QED
  BY <1>8, <1>9, <1>10, <1>11, <1>12, <1>13, <1>14, <1>15, <1>16, <1>17, <1>18, <1>19,
     <1>20, <1>21, <1>22, <1>23 DEF Next

\* TabInv holds of every reachable state of the tab, whatever page it shows and
\* whatever was asked for by the pages before.
THEOREM TabInvariant == Spec => []TabInv
BY TabInit, TabStep, PTL DEF Spec

\* Every variable of the four pages has its type.
THEOREM TypeCorrect == Spec => []TypeOK
<1>1. TabInv => TypeOK
  BY DEF TabInv, TypeOK, GridTypeOK, GridInv, CellInv, PanelInv, DashInv, BoxListInv
<1> QED BY <1>1, TabInvariant, PTL

\* A cell of the grid plays the camera that is chosen in it, and an empty cell
\* nothing, once no import is awaited (GridCell.svelte:97): for any number of
\* cells and of starts that wait.
THEOREM CellsPlayTheirCamera == Spec => []PlaysItsCamera
<1>1. TabInv => PlaysItsCamera
  BY DEF TabInv, GridInv, CellInv, PlaysItsCamera
<1> QED BY <1>1, TabInvariant, PTL

\* A row of a box's page that is not toggling shows what the page's data say of
\* its channel (ChannelRow.svelte:31-38).
THEOREM RowsShowServer == Spec => []RowShowsServer
<1>1. TabInv => RowShowsServer
  BY DEF TabInv, PanelInv, RowInv, RowShowsServer, Toggling
<1> QED BY <1>1, TabInvariant, PTL

\* A row has a player only for the preview that is mounted, and one object URL
\* for the snapshot that is shown (ChannelPreview.svelte:62, :95).
THEOREM PlayersReleased == Spec => []MediaReleased
<1>1. TabInv => MediaReleased
  <2> SUFFICES ASSUME TabInv, NEW c \in Channel
               PROVE  /\ rows[c].players <= (IF rows[c].preview THEN 1 ELSE 0)
                      /\ rows[c].urls = (IF rows[c].snapshot = "shown" THEN 1 ELSE 0)
    BY DEF MediaReleased
  <2>1. rows[c] \in Row /\ Media(rows[c]) /\ Snapshot(rows[c])
    BY DEF TabInv, PanelInv, RowInv
  <2> QED BY <2>1 DEF Media, Snapshot
<1> QED BY <1>1, TabInvariant, PTL

\* The dashboard has one map, of the cameras it lists (CameraMap.svelte:41-138).
THEOREM MapsReplaced == Spec => []OneMap
<1>1. TabInv => OneMap
  BY DEF TabInv, DashInv
<1> QED BY <1>1, TabInvariant, PTL

\* The list of boxes is polled by one interval while it is seen, and by none
\* otherwise (boxes/+page.svelte).
THEOREM ListPolledWhileSeen == Spec => []PolledWhileSeen
<1>1. TabInv => PolledWhileSeen
  BY DEF TabInv, BoxListInv
<1> QED BY <1>1, TabInvariant, PTL

=============================================================================
