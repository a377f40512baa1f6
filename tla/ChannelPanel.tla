---------------------------- MODULE ChannelPanel ----------------------------
(***************************************************************************)
(* The channels of one box on its page, /boxes/[id]: its load with the     *)
(* lazy sync ((app)/boxes/[id]/+page.server.ts), the list and its rows     *)
(* (ChannelList, ChannelRow, ChannelPreview .svelte) and the routes they   *)
(* call (apps/api/src/routes/channels.ts).  A row keeps a copy of what the *)
(* page's data say of the channel, for the time of a toggle.               *)
(*                                                                         *)
(* The box obeys a command some time after it was sent, also after the     *)
(* route's time-out has answered in its place.  Neither route nor row      *)
(* writes the cameras table: only a sync does.                             *)
(***************************************************************************)
EXTENDS Integers, Sequences, FiniteSets, HlsLoader

CONSTANTS
    Channel,      \* the channels the box lists
    MaxPreviews   \* bound: previews of a row that wait for the import

ASSUME PreviewAssumption == MaxPreviews \in Nat

VARIABLES
    running,   \* at the box: is the channel running
    late,      \* commands whose request has ended, still on their way
    db,        \* status in cameras, by channel
    recent,    \* last_synced_at is not older than CHANNEL_SYNC_TTL_MS
    boxOpen,   \* the page is mounted
    load,      \* the page's load: how far it is, and the channels it has got
    shown,     \* data.channels of the page
    syncing,   \* ChannelList's isSyncing: no, until the answer, until the reload
    rows       \* the rows' local state

serverVars == <<running, late, db, recent>>
pageVars == <<boxOpen, load, shown, syncing>>
panelVars == <<serverVars, pageVars, rows>>

Status == {"online", "offline"}
ChannelDto == Status \cup {"absent"}

\* Neither a toggle, nor a snapshot, nor a preview.
FreshRow == [status |-> "absent", request |-> "none", error |-> FALSE,
             preview |-> FALSE, imports |-> <<>>, hls |-> FALSE, players |-> 0,
             snapshot |-> "none", urls |-> 0]

Row == [status   : ChannelDto,
        request  : {"none", "sent", "obeyed"},  \* isToggling unless "none"
        error    : BOOLEAN,                     \* toggleError
        preview  : BOOLEAN,                     \* showPreview
        imports  : Seq(BOOLEAN),   \* the mounts that await hls.js: cancelled?
        hls      : BOOLEAN,        \* hlsInstance of the mounted preview
        players  : Nat,            \* players created and not destroyed
        snapshot : {"none", "loading", "shown"},
        urls     : Nat]            \* object URLs it has not revoked so far

NoChannels == [c \in Channel |-> "absent"]
Idle == [at |-> "idle", got |-> NoChannels]

PanelInit ==
    /\ running \in [Channel -> BOOLEAN] /\ late = {}
    /\ db = NoChannels /\ recent = FALSE
    /\ boxOpen = FALSE /\ load = Idle /\ shown = NoChannels /\ syncing = "no"
    /\ rows = [c \in Channel |-> FreshRow]

Mounted(c) == shown[c] # "absent"
Toggling(c) == rows[c].request # "none"

-----------------------------------------------------------------------------
(* The server and the box.                                                 *)

\* syncChannelsForBox, when it succeeds, for the statuses; "error" counts as
\* "offline".
Mirror ==
    /\ db' = [c \in Channel |-> IF running[c] THEN "online" ELSE "offline"]
    /\ recent' = TRUE
    /\ UNCHANGED <<running, late>>

\* The channel sync poller, or somebody else's sync.
PollerSync == Mirror /\ UNCHANGED <<pageVars, rows, hlsModule>>

Age ==
    /\ recent /\ recent' = FALSE
    /\ UNCHANGED <<running, late, db, pageVars, rows, hlsModule>>

LateCommand(c, on) ==
    /\ <<c, on>> \in late
    /\ late' = late \ {<<c, on>>} /\ running' = [running EXCEPT ![c] = on]
    /\ UNCHANGED <<db, recent, pageVars, rows, hlsModule>>

-----------------------------------------------------------------------------
(* ChannelPreview: one mount after the other in a row.                     *)

OpenPreview(row) ==
    IF HlsLoaded
    THEN [row EXCEPT !.preview = TRUE, !.hls = TRUE, !.players = @ + 1]
    ELSE [row EXCEPT !.preview = TRUE, !.imports = Append(@, FALSE)]

\* Mutant: the clean-up destroys what there is, and does not cancel.
CloseUncancelled(row) ==
    [row EXCEPT !.preview = FALSE, !.hls = FALSE,
                !.players = IF row.hls THEN @ - 1 ELSE @]

\* The clean-up of onMount: it cancels the import of its own mount.
ClosePreview(row) ==
    [row EXCEPT !.preview = FALSE, !.hls = FALSE,
                !.players = IF row.hls THEN @ - 1 ELSE @,
                !.imports = [i \in DOMAIN @ |-> TRUE]]

\* After the import, in each mount that awaited it.
ResumePreviews(row) ==
    LET started == {i \in DOMAIN row.imports : ~ row.imports[i]}
    IN [row EXCEPT !.imports = <<>>,
                   !.hls = @ \/ (started # {} /\ row.preview),
                   !.players = @ + Cardinality(started)]

RejectPreviews(row) == [row EXCEPT !.imports = <<>>]

\* handlePreviewToggle
PreviewToggle(c) ==
    /\ Mounted(c)
    /\ LET row == IF rows[c].preview THEN ClosePreview(rows[c])
                  ELSE OpenPreview(rows[c])
       IN /\ Len(row.imports) <= MaxPreviews
          /\ rows' = [rows EXCEPT ![c] = row]
          /\ Import(row.imports # <<>>)
    /\ UNCHANGED <<serverVars, pageVars>>

-----------------------------------------------------------------------------
(* ChannelRow.                                                             *)

\* Mutant: the effect is untracked but for the data of a row that is new.
FollowNewRow(row, dto) ==
    IF row.request = "none" /\ row.status = "absent"
    THEN [row EXCEPT !.status = dto] ELSE row

\* The $effect: outside a toggle the local copy is what the data say.  It reads
\* isToggling, so it also runs when a toggle ends.
Follow(row, dto) ==
    IF row.request = "none" THEN [row EXCEPT !.status = dto] ELSE row

\* A row leaves the list, or the page is left.  Nobody revokes the object URL it
\* may have left; the next row counts its own.
Unmount(row) ==
    [FreshRow EXCEPT !.players = ClosePreview(row).players,
                     !.imports = ClosePreview(row).imports]

\* The commands of the rows in cs that are sent: they go on without the row.
Sent(cs) == {<<c, rows[c].status = "online">> :
                c \in {d \in cs : rows[d].request = "sent"}}

Flip(status) == IF status = "online" THEN "offline" ELSE "online"

\* handleToggle up to the request
HandleToggle(c) ==
    /\ Mounted(c) /\ ~ Toggling(c)
    /\ rows' = [rows EXCEPT ![c].status = Flip(@), ![c].request = "sent",
                            ![c].error = FALSE]
    /\ UNCHANGED <<serverVars, pageVars, hlsModule>>

\* POST /:channelId/start or /stop reaches the box, which obeys.
Obey(c) ==
    /\ rows[c].request = "sent"
    /\ running' = [running EXCEPT ![c] = rows[c].status = "online"]
    /\ rows' = [rows EXCEPT ![c].request = "obeyed"]
    /\ UNCHANGED <<late, db, recent, pageVars, hlsModule>>

EndToggle(c, status, error) ==
    rows' = [rows EXCEPT ![c] =
        Follow([@ EXCEPT !.status = status, !.request = "none",
                         !.error = error], shown[c])]

\* The request is answered 200.
ToggleSucceeds(c) ==
    /\ rows[c].request = "obeyed"
    /\ EndToggle(c, rows[c].status, FALSE)
    /\ UNCHANGED <<serverVars, pageVars, hlsModule>>

\* It fails, or its ten seconds are over: the row rolls back.
ToggleFails(c) ==
    /\ Toggling(c)
    /\ late' = late \cup Sent({c})
    /\ EndToggle(c, Flip(rows[c].status), TRUE)
    /\ UNCHANGED <<running, db, recent, pageVars, hlsModule>>

\* handleSnapshot up to the request, or with a snapshot shown: it is closed.
HandleSnapshot(c) ==
    /\ Mounted(c) /\ rows[c].snapshot # "loading"
    /\ rows' = [rows EXCEPT
           ![c].snapshot = IF @ = "shown" THEN "none" ELSE "loading",
           ![c].urls = IF rows[c].snapshot = "shown" THEN @ - 1 ELSE @]
    /\ UNCHANGED <<serverVars, pageVars, hlsModule>>

SnapshotAnswered(c, ok) ==
    /\ rows[c].snapshot = "loading"
    /\ rows' = [rows EXCEPT ![c].snapshot = IF ok THEN "shown" ELSE "none",
                            ![c].urls = IF ok THEN @ + 1 ELSE @]
    /\ UNCHANGED <<serverVars, pageVars, hlsModule>>

-----------------------------------------------------------------------------
(* The page.                                                               *)

BeginLoad == load' = [at |-> "list", got |-> NoChannels]

OpenBox ==
    /\ ~ boxOpen /\ boxOpen' = TRUE /\ BeginLoad
    /\ UNCHANGED <<serverVars, shown, syncing, rows, hlsModule>>

\* invalidateAll after a form action: a load under way is given up.
Reload ==
    /\ boxOpen /\ BeginLoad
    /\ UNCHANGED <<serverVars, boxOpen, shown, syncing, rows, hlsModule>>

\* loadChannels: GET / answers.  Without channels, or with an old sync, a sync
\* comes next.
LoadList(ok) ==
    /\ load.at = "list"
    /\ load' = IF ok
               THEN [at |-> IF db = NoChannels \/ ~ recent THEN "sync" ELSE "ready",
                     got |-> db]
               ELSE [at |-> "ready", got |-> NoChannels]
    /\ UNCHANGED <<serverVars, boxOpen, shown, syncing, rows, hlsModule>>

\* Whatever POST /sync answers, the list is asked again.
LoadSync(ok) ==
    /\ load.at = "sync" /\ load' = [load EXCEPT !.at = "relist"]
    /\ IF ok THEN Mirror ELSE UNCHANGED serverVars
    /\ UNCHANGED <<boxOpen, shown, syncing, rows, hlsModule>>

LoadRelist(ok) ==
    /\ load.at = "relist"
    /\ load' = [at |-> "ready", got |-> IF ok THEN db ELSE load.got]
    /\ UNCHANGED <<serverVars, boxOpen, shown, syncing, rows, hlsModule>>

\* The page gets the data: rows appear, disappear, or follow them.
ShowChannels ==
    /\ load.at = "ready" /\ load' = Idle
    /\ shown' = load.got
    /\ rows' = [c \in Channel |->
                   IF load.got[c] = "absent" THEN Unmount(rows[c])
                   ELSE Follow(rows[c], load.got[c])]
    /\ syncing' = IF syncing = "reload" THEN "no" ELSE syncing
    /\ late' = late \cup Sent({c \in Channel : load.got[c] = "absent"})
    /\ UNCHANGED <<running, db, recent, boxOpen, hlsModule>>

\* handleSync up to the request
HandleSync ==
    /\ boxOpen /\ syncing = "no" /\ syncing' = "request"
    /\ UNCHANGED <<serverVars, boxOpen, load, shown, rows, hlsModule>>

SyncAnswered(ok) ==
    /\ syncing = "request"
    /\ syncing' = IF ok THEN "reload" ELSE "no"
    /\ IF ok THEN Mirror /\ BeginLoad ELSE UNCHANGED <<serverVars, load>>
    /\ UNCHANGED <<boxOpen, shown, rows, hlsModule>>

\* The user leaves: the requests under way go on at the server.
LeavePanel ==
    /\ boxOpen' = FALSE /\ load' = Idle /\ shown' = NoChannels /\ syncing' = "no"
    /\ late' = late \cup Sent(Channel)
    /\ UNCHANGED <<running, db, recent>>

CloseBox == LeavePanel /\ rows' = [c \in Channel |-> Unmount(rows[c])]

PanelNext ==
    \/ PollerSync \/ Age
    \/ \E c \in Channel, on \in BOOLEAN : LateCommand(c, on)
    \/ \E c \in Channel :
           \/ PreviewToggle(c) \/ HandleToggle(c) \/ Obey(c)
           \/ ToggleSucceeds(c) \/ ToggleFails(c)
           \/ HandleSnapshot(c) \/ \E ok \in BOOLEAN : SnapshotAnswered(c, ok)
    \/ Reload \/ ShowChannels \/ HandleSync
    \/ \E ok \in BOOLEAN :
           LoadList(ok) \/ LoadSync(ok) \/ LoadRelist(ok) \/ SyncAnswered(ok)

-----------------------------------------------------------------------------

PanelTypeOK ==
    /\ running \in [Channel -> BOOLEAN] /\ late \subseteq Channel \X BOOLEAN
    /\ db \in [Channel -> ChannelDto] /\ recent \in BOOLEAN
    /\ boxOpen \in BOOLEAN /\ shown \in [Channel -> ChannelDto]
    /\ load \in [at : {"idle", "list", "sync", "relist", "ready"},
                 got : [Channel -> ChannelDto]]
    /\ syncing \in {"no", "request", "reload"}
    /\ rows \in [Channel -> Row]

\* A row that is not toggling shows what the page's data say of its channel,
\* in whatever order toggles, their failures and reloads came: a roll-back does
\* not bring back a status that a reload has replaced meanwhile
\* (ChannelRow.svelte:31-38, 57-81).
RowShowsServer ==
    \A c \in Channel : ~ Toggling(c) => rows[c].status = shown[c]

\* What a row has taken it gives back: there is a player only for a preview
\* that is mounted, also when it was closed, or the page left, while hls.js was
\* still being fetched (ChannelPreview.svelte:62, :95), and, as long as the row is
\* mounted, one object URL for the snapshot that is shown, none otherwise
\* (ChannelRow.svelte:89-128).
MediaReleased ==
    \A c \in Channel :
        /\ rows[c].players <= (IF rows[c].preview THEN 1 ELSE 0)
        /\ rows[c].urls = (IF rows[c].snapshot = "shown" THEN 1 ELSE 0)

\* What acceptance.md:62-72 (AC-005) says of a toggle: when the request succeeds
\* the row keeps the state it showed at once.
ToggleKept ==
    [][\A c \in Channel :
          (Toggling(c) /\ boxOpen' /\ ~ Toggling(c)' /\ ~ rows'[c].error
              /\ shown'[c] # "absent")
          => rows'[c].status = rows[c].status]_rows

=============================================================================
