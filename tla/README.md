# simple_cctv_dashboard in TLA+

TLA+ modules for the server and the web application of
`simple_cctv_dashboard`, model-checked with TLC
on small instances and, where a theorem is stated, proved with TLAPS for every
value of the constants. All paths below are relative to the repository.

## 1. The system

A dashboard shows the cameras (channels) of several AI boxes. One Bun process
serves the API, keeps everything in one SQLite file and runs three pollers; a
SvelteKit web application talks to the API. The boxes are HTTP servers that are
not part of the repository.

```
  web app --HTTP, SSE--> API routes ---.
                                        >-- services --> SQLite (boxes, cameras,
  status poller ----.                  /                 detection_alerts, cursors,
  channel poller ----+-- box client --'                  tokens, destinations)
  detection poller -'        |
        |                    +--HTTP--> boxes
        '--> alert dispatcher --> SSE clients
```

What makes it hard is not parallelism: JavaScript runs one piece of code at a
time, and SQLite statements are synchronous. It is that every `await` lets
anything else run, that `setInterval` starts a tick whether or not the last one
has ended, that few statements are in a transaction, and that boxes answer when
they like or not at all.

| part | state it keeps | operations | talks to | what is hard | what makes it correct |
|---|---|---|---|---|---|
| detection poller (`apps/api/src/workers/detectionPoller.ts`) | `detection_alerts`, `detection_cursor` | tick: ask, filter, insert, move cursor, trim, broadcast | boxes, dispatcher, the tables other parts write | overlapping ticks, crash between statements, box deleted during an await | nothing skipped, nothing stored or broadcast twice without a reason, history bounded |
| alert history (`routes/alerts.ts`, web `/alerts`) | a page: offset and rows | load, next, previous | the poller's table | offsets into a table that is stored to and trimmed between pages | no alert is passed by |
| status poller (`workers/boxStatusPoller.ts`) | a Map of failures; `boxes.status` | tick: health check, count, give up | boxes | stale rows, overlapping ticks share the Map | a box is given up after a streak of failures, and only then |
| box service and pages (`services/boxService.ts`, `routes/boxes.ts`, web `lib/api/boxes.ts`, `/boxes/...`) | `boxes` | register, update, delete, refresh tokens, show | boxes | check, then await, then insert; errors translated four times on their way | answers and pages true, deleted means deleted |
| channel sync (`services/channelSyncService.ts`, `workers/channelSyncPoller.ts`, `routes/channels.ts`) | `cameras`, a lock per box | tick in batches, POST /sync, position, upsert | boxes | locks released on all paths, time-out against late answer, sync beside sync, half an answer | cameras mirror the box and keep their place, no lock stays behind |
| alert dispatcher and routes (`services/alertDispatcher.ts`, `routes/alerts.ts`) | SSE registry, subscriptions, destinations | register, broadcast, subscribe, settings | browsers, push services, Telegram | streams that end unnoticed, one failing destination among several, a registry changed while it is walked | every connected, interested client is told; what is gone is forgotten |
| sessions (`routes/auth.ts`, `middleware/requireAuth.ts`, `packages/shared/src/jwt`, web `hooks.server.ts`, `login`, `logout`) | blacklist of token ids; cookies | login, refresh, logout, clean-up | the database | checks and writes with awaits between them, expiry | an ended session stays ended |
| rate limit (`middleware/rateLimit.ts`) | a bucket per address | count | | window boundary | no more than two windows' worth in a window's time |
| web: alert stream, grid, map, channel rows, lists (`apps/web/src/lib`, `routes/(app)`) | connection, timers, players, maps, optimistic state | connect, reconnect, close, play, toggle, poll | API | callbacks that come after close or after a newer start; modules imported late | one connection, player, map and timer, none after close |
| schema, migrations, seed (`packages/db/src`) | the tables, `__migrations`, the first account | migrate, seed | | killed between statements, two at once | whole files, the columns the code names, one account |
| box client, vault, configuration, logging | none | one request, one conversion | | | |

`PROJECT.json` lists every component with its files and what is modelled of it,
and every hazard of the code at its line with the properties that cover it.

## 2. Modules

| module | stands for |
|---|---|
| `DetectionPoller` | the detection poller and what touches its tables |
| `AlertLog` | what it promises: a log per channel, without ticks, cursors or tables |
| `AlertHistory` | `DetectionPoller` with the page that reads the alerts |
| `BoxRegistry` | the `boxes` table: registration, deletion, refresh, status poller |
| `BoxPages` | `BoxRegistry` with what the operator is shown |
| `ChannelSync` | synchronisation of cameras: lock, poller, request, transaction |
| `CameraPlace` | `ChannelSync` with the cameras' coordinates |
| `AlertRoutes` | operators: the rows behind the alert routes |
| `AlertDelivery` | dispatcher, streams, the browser's end of them, toasts, web push, Telegram |
| `Schema` | the database's schema, as the migrations build it and as the code declares it |
| `Deployment` | migration runner and seed |
| `AuthSession` | login, refresh, logout, blacklist, rate limit, cookies |
| `AuthServer` | `Deployment` and `AuthSession` put together |
| `HlsLoader`, `CameraList` | what web pages share: a module loaded once per tab, the list of cameras |
| `GridView`, `ChannelPanel`, `DashboardPage`, `BoxListPage` | four pages of the web application |
| `WebApp` | one tab that goes from page to page |
| `..._proofs` | theorems: `DetectionPoller`, `AlertHistory`, `BoxRegistry` (with `BoxPages`), `ChannelSync`, `CameraPlace`, `AlertDelivery`, `AuthServer`, `WebApp` |
| `MC...` | definitions for TLC: symmetry sets and owners; the constants are in the `.cfg` files |

```
  AlertLog <--implements-- DetectionPoller <--- AlertHistory
                           BoxRegistry     <--- BoxPages
                           ChannelSync     <--- CameraPlace (implements ChannelSync)
  AlertRoutes <--- AlertDelivery
  Schema <--- Deployment, AuthSession <--- AuthServer
  HlsLoader, CameraList <--- GridView, ChannelPanel, DashboardPage, BoxListPage <--- WebApp
```

In all of them **a step is the code between two awaits** of one tick, job or
request: that code runs without interruption, so its effect on the state is one
action. Several ticks of one poller may be under way, as `setInterval` waits
for none; the set `Tick` bounds how many. Where statements of one step are not
in a transaction, a crash may come between them, and the step has crash actions
that leave a prefix of it behind. `Crash` means that the process ends, by a
signal as by a failure (`index.ts` stops the timers and exits at once, with
ticks under way), and that a new process starts with its memory empty. `deleted`
boxes stay so: every registration draws a new id.

Variables marked `(history)` are read by no action; they are there for the
properties. Definitions that begin with a comment `Mutant:` are variants with a
plausible bug. Nothing uses them; they show, put in the place of the definition
that follows them, that the properties can fail.

### DetectionPoller

State: the boxes' status and which cameras are online, as the tick reads them;
`feed`, what a box would report; `cursor` and `history`, the two tables;
`inserted` and `pushed`, how often each detection was stored and broadcast;
`tick`, for each tick its place (`decrypt`, `poll`, `answered`), the boxes and
channels it still has to visit and the answer it holds.

`StartTick` reads the active boxes. `Decrypted` is the code after the vault's
await: it reads the online channels. `BoxAnswers` is the moment the box composes
its answer, `HandleNew` or `HandleNothing` the moment the tick receives it: in
between anything may happen. `HandleNew` is one step of filter, INSERTs, cursor,
trim and broadcast, in that order; `CrashInserting` and `CrashAfterCursor` are
that step broken off. `PollFails` is the `catch` of one channel.

The rest of the system is in it as far as it touches what the poller reads:
deletion with its cascades, changes of a box's status, changes of a camera's
status, each possible at any time.

Assumed of boxes: the detections of one frame appear together, and frames in
the order of their timestamps. Where a box breaks this, the strict comparison
with the cursor loses what comes late; the code has no defence against that.
Timestamps are numbers 1, 2, ...: only their order matters. Detections without
a number as timestamp are dropped by the filter and left out.

`AlertLog` says what a reader of the alerts may rely on. A detection is
*acknowledged* once it is stored and the cursor has passed it; `Acknowledge`
takes over any set of detections newer than all before and with it every older
one that the source still holds. `ImplementsLog` is the refinement.

### AlertHistory

`table` gives each row of any channel its place in the order of the rowids (the
rowids themselves grow without bound, and only their order is read); every step
of the poller that stores, trims or deletes moves it along. A page is LIMIT and
OFFSET into the rows ordered by time: the alerts that fewer than OFFSET + LIMIT
others precede, but not fewer than OFFSET. `Loaded` is one read of the server; the page
then goes on to the next one or back, or reloads. For the property the reader
carries what it is `owed`, the alerts there were at its first page, and what it
has `missed` of them.

`NonePassedBy` rests on something the code nowhere says: the trim of a channel
deletes no more rows than the same step has just stored, and only older ones, so
an alert that stays moves to later offsets and never to earlier ones. A page may
show an alert twice but skips none. The premise of the property names the two
cases where this fails: a box that is deleted takes its rows from the earlier
pages, and a crash before the trim leaves more to a later one than it stores.
Neither can be seen by the page.

### BoxRegistry

State: the status of each row, where each registration and each refresh request
is, the ticks of the status poller, its Map of failures, and `streak`, the number
of checks of the box that have failed since the last one that succeeded (up to
`MaxFails`; it is the properties' and no action reads it). A registration and
the id it draws are one thing; `"failed"` is the route's rethrown SQLite error
(500), `"conflict"` its 409, `"noKey"` an API key that was not obtained or whose
box had gone.

`Register` is the lookup of the URL, `LoggedIn` the box's answer, `Inserted` or
`InsertFails` the INSERT after the encryption. Encrypted values are left out,
and so is `onBoxRegistered`, which nothing sets in production.

### BoxPages

The pages keep nothing of their own, so they are functions of `BoxRegistry`'s
state. A failure is translated four times on its way to the operator: the box's
answer becomes a `BoxApiError` (`#request`), the route gives it a status, the
fetch helper a kind, the page a message or a redirect. `PagesTellTruth` follows
all four: after a redirect the new box's page shows the box, unless somebody
has deleted it; "already registered" means that another registration of the URL
won; no failure of a box sends the operator to the login page; a refresh that is
reported as done has left the box active.

### ChannelSync and CameraPlace

State: the boxes' status, what each box lists, the camera rows, the list that
was upserted last with its version and that of the poller's last one
(`applied`, a history variable), the locks, the boxes left to each tick's later batches, and
for each caller and box the job under way (`preparing`, `listing`, `listed`).
`version` counts the changes of a box's list, to tell an older from a newer one.
A caller is a tick, which skips locked boxes and locks those it syncs, or a
request, which does neither. `Ask` stands for the decryptions and the requests
for position and beacons, each limited to a second and never failing.
`ListFails` is the rejected or timed-out list, possible also when the list is on
its way. `Upsert` is the transaction. A list names a channel once: a box that
lists one twice would make its INSERTs break the unique index and its sync fail
as a whole.

`CamerasMirrorList` alone would hold if lists were applied in any order, as
`applied` is what was applied last. `PollerAppliesInOrder` is what relates one
list to the next: `applied.polled` never goes back, so that no list of a tick that
timed out, or whose lock was given away, arrives behind a newer one. A request
holds no lock and may put an older list in place of a newer one; the poller's next
list repairs that (`EventuallySynced`).

`CameraPlace` adds `coords`, the coordinates of the rows, and `boxGps`, the
position that each job has read for its box. A listed channel gets the place it
tells itself, or its box's, or keeps what it has (`COALESCE`). Latitude and
longitude are two columns read and written one by one; the property needs that a
row never ends up with one of the two, or with the halves of two places, and
never loses a place it has.

### AlertDelivery

`BroadcastAll` is the dispatcher's `broadcastAll`, which writes to the
registered streams of every user with toasts on; `Dispatch` is `dispatch` for
one user, up to its first await; its pushes go on afterwards, one subscription
at a time. A connection has a server's end (`request`, `open`, `closed`,
`aborted`), a heartbeat, a `wire` and a flag that says whether it is cut. The
server learns of a cut later than the browser and in either of two ways: the
runtime cancels the stream, after which enqueue throws, or fires the abort
listener; the heartbeat meets the first. A tab has the source it refers to, all
sources not yet closed (so that a second one would show), pending timers and the
toasts on its screen.

The constant `Assembled` says how the process is put together. `TRUE` is how the
unit tests do it, with one dispatcher for routes and poller. `FALSE` is
`index.ts`, which calls `createApp` without a dispatcher and makes one for the
poller: GET /stream then registers nowhere. The same properties are checked of
both.

Times are left out: a timer that is set may fire. The destinations' rows are
those of `AlertRoutes`; a user may write them at any moment.

### Schema, Deployment, AuthSession, AuthServer

`Schema` translates each migration file to what its statements add, and
`schema.ts` to the columns, keys and references the code names. `Deployment`
runs the files: look up, run and record in one transaction, next file; the
runner may be killed at each of its steps and two may run at once. A seed looks
for the account, hashes for a while, and inserts.

`AuthSession` has a clock. A login or refresh mints a pair of tokens named by a
number; `born` gives its time, and a token is a member of
`Pair \X {"access", "refresh"}`. A request is several steps, as verifying,
comparing and signing are awaited: between the check of the blacklist and the
write to it another request may do the same. `bucket` is the rate limit's entry
for the one address all web logins come from; it is in the memory of the API's
process, and `RestartApi` empties it, together with `passes`, what the property
counts, and drops the requests the process was at work on. The blacklist is in the
database and stays. The cookie jar is one browser's,
as the hook and the form actions of the web server fill and empty it. Passwords
and signatures are right or wrong.

`AuthServer` composes them: the API starts on a database that is migrated and
seeded, and another seed may run later.

### The web application

`GridView` is the page of players: `cells` with the `initHls` calls that wait
for the module, the players created and not destroyed, and the one flag
(`cancelled`) by which a start that continues learns that it was overtaken;
`store` is the layout kept in localStorage. `ChannelPanel` is the page of a box:
its rows with their optimistic toggles, previews, snapshots, and the routes they
call, down to the box that obeys a command some time after the route's time-out
has answered for it. `DashboardPage` is the map, asked anew every 30 seconds,
`BoxListPage` the list that polls while the tab is visible. `WebApp` is one tab
that shows one of them at a time: what a page has asked for goes on after it was
left, and `hls.js` and Leaflet are loaded once for the tab, so that an import
may be under way across pages.

Safari's native player, markup and texts are left out. A list of boxes or
cameras is the set of what it names.

## 3. Runs

Bounds are stated in the `.cfg` files. Each run ends within about two minutes.

| run | instance | distinct states | shows |
|---|---|---|---|
| `DetectionSafety` | 1 box, 1 channel, 2 ticks, 2 detections a frame, 2 frames, history of 2, 1 crash, fairness | 183 thousand | no detection skipped; stored twice only after a crash; broadcast once; the newest kept; `AlertLog` implemented; everything stored in the end |
| `DetectionOverlap` | the same, no crash | | **violation**: a channel is polled by two ticks at once |
| `AlertHistory` | 1 box, 2 channels, 1 tick, 2 frames, history of 1, pages of 1, fairness | 267 thousand | no page passes an alert by; a channel that answers is served even if the other never does |
| `BoxRegistry` | 2 registrations of 1 URL, 2 ticks, 1 refresh, 2 failures, 1 crash, fairness | 311 thousand | answers and pages are true; given up only after the streak, and in the end; deleted stays deleted |
| `BoxRegistry409` | the same, no crash | | **violation**: a lost race is answered with 500 |
| `ChannelSync` | 1 box, 1 channel, 2 states, 2 ticks, 1 request, 2 changes, 2 places, 1 crash, fairness | 203 thousand | one sync per box among ticks; lock held exactly while syncing; cameras mirror the list applied last, the poller's lists are applied in their order, a deleted box keeps no camera; cameras keep their place; a box that answers is synced |
| `ChannelSyncErrorKept` | 2 channels, no crash | | **violation**: an unlisted row keeps its sync_error after a successful sync |
| `AlertDelivery` | 1 user, 1 tab, 2 connections, 1 subscription, 2 toasts, 2 alerts, 2 faults, 1 write, fairness | 175 thousand | an open stream hears each alert; one source per tab, none after close; a tab reconnects; connections that are gone are removed |
| `AlertsUnheard` | the same, `Assembled = FALSE` | | **violation**: an open stream hears no alert |
| `AuthServer` | 2 runners, 2 seeds, 2 requests, 2 pairs, 3 logins, lives of 1 and 2, clock to 2, 1 restart of the API | 1.4 million | the schema is whole and what the code names; the account exists once and stays; logins are limited; an ended session stays ended |
| `WebApp` | 2 cameras, layouts of 1 and 2, 1 channel, 2 waiting starts or previews, 2 visits | 3.2 million | a cell plays its camera and nothing else; a row shows what the server said; a preview has one player at most and none once closed or left, a mounted row one object URL while its snapshot is shown; one map, and none once its page is left; one timer, and only while the list is seen |
| `ToggleKept` | the same | | **violation**: a confirmed toggle is undone on the page |

**Why the bounds are enough.** Two ticks, requests, connections or registrations
are the fewest that can race, and in these modules every race is between two:
each step looks at shared tables and at its own local state, never at a third
actor's. Two frames give an older and a newer answer; two detections in a frame
and a history of two give answers that exceed the history and rows of equal
timestamps; a history of one with two channels trims on every second frame while
the reader turns pages. One crash lets the second process start from every
prefix the first can leave. Two alerts and two faults let a connection be cut
before, between and after alerts, and its successor as well. A clock that
reaches 2 lets an access token (life 1) run out while its session goes on, and
then the refresh token, its entry in the blacklist and the window (2). Two
visits let what one page left under way arrive at another. The theorems below
have none of these bounds.

Three things a run leaves out for its size, or a property for its subject:

- `ChannelSync` has one box. With two, and requests, the liveness run is beyond
  five minutes. So a batch that is not a tick's first never starts in it with a
  box in it, and what holds of a box that a later batch syncs after it was given up
  or deleted is said by the theorems alone (`LockedWhileSyncingAlways`,
  `CamerasMirrorListAlways`, `ConcurrencyLimitedAlways`), which have any number of
  boxes and any batch size.
- `PlaysItsCamera` is about the player a cell refers to: the last camera chosen is
  the one that plays, and none plays when none is chosen. A start that was
  overtaken may create a player of its own, which the cell drops without destroying it,
  and cells that are unmounted leave the state; section 5 names that leak.
- `OneMap` is about the page's own map. A `CameraMap` that was replaced while
  Leaflet was fetched continues with a container that is gone: `L.map` throws
  there (`CameraMap.svelte:52`), so that nothing is created and the model has no
  step for it. `MediaReleased` says nothing of a snapshot's URL once its row is
  unmounted, nor of a snapshot that is answered then.

**Deadlock** is checked except in `AlertDelivery`, `AlertsUnheard` and
`AuthServer`: those systems really stop, the first two once the tab is closed
and the bounds on alerts, faults and writes are used up, the last when the clock
has reached its bound and no pair is left to mint. **Symmetry** is used where it
is sound, in the runs that check only invariants and action properties: runners,
seeds and requests are interchangeable in `AuthServer`, cameras in `WebApp`.

**Disagreements with the documents.** The five violations are statements of
`.moai/specs` that the code does not keep; `PROJECT.json` quotes the lines. In
short: a channel is polled again before the last poll has ended, since
`setInterval` waits for none; the losing registration of a race gets 500; rows a
box no longer lists keep the error of an earlier failure; the process as
assembled broadcasts alerts through a dispatcher no stream is registered with; and
a toggle the API has confirmed is undone by the page's own effect. Two more have
no run here, as passing runs already say what happens: `DuplicatesNeedCrashes`
allows a detection to be stored again after a crash between the INSERTs and the
cursor (`SPEC-ALERTS-001/spec.md:156` excludes it), and `LockedWhileSyncing` is
about ticks only, as POST /sync ignores the lock
(`SPEC-BOX-CHANNELS-001/spec.md:112`). Beside these, the header of
`channelSyncService.ts` names `withAuthRetry`, which has no caller, and ten
seconds where the code waits eight.

**Fairness.** `StartTick` is weakly fair over all ticks together: the timer keeps
firing, and a slot is free unless all are under way. Steps of a tick or job are
weakly fair one by one: an await on the process's own work (decryption,
encryption) ends, and a request settles, with an answer *or* an error, as the
runtime limits the time of a request and channel sync its own. No request is
assumed to succeed. `EventuallyStored` and `EventuallySynced` speak of boxes that
answer again and again, and say so in the property (`Answering`, strong
fairness of the answer), so that the others may fail for ever. Crashes are
bounded in number, so some process runs for ever; deletions and failures are
never forced. Requests from clients (`DeleteBox`, `StartManual`, `Register`,
`StartRefresh`, and all the reader does in `AlertHistory`) have no fairness.
In `AlertDelivery` the server's steps are weakly fair for each connection (a
request is answered, a heartbeat's interval fires, an enqueue that throws is
followed by the removal), the runtime tells the server of a cut connection
sooner or later by one of its two ways, and a tab's timers fire and its sources
learn of errors. Alerts, faults, the user's writes and the closing of a tab are
not forced. `AuthServer` and `WebApp` state no fairness: nothing in them has to
happen.

## 4. Proofs

`DetectionPoller_proofs` proves, for any sets of boxes, channels, ticks and
detections and any bounds (assuming only that the bounds are natural numbers and
that a frame has finitely many detections):

| theorem | statement |
|---|---|
| `TypeCorrect` | `Spec => []TypeOK` |
| `DuplicatesNeedCrashesAlways` | `Spec => []DuplicatesNeedCrashes` |
| `NothingSkippedAlways` | `Spec => []NothingSkipped` |
| `BroadcastOnceAlways` | `Spec => []BroadcastOnce` |
| `NoOrphansAlways` | `Spec => []NoOrphans` |
| `CursorNeverGoesBack` | `Spec => CursorAdvances` |
| `PollerImplementsLog` | `Spec => ImplementsLog` |

All but the first rest on one inductive invariant. That nothing is skipped is not inductive:
one must know what a tick may still do with the answer it holds. `IInv` adds that
no detection is newer than its channel's last frame (`NoneFromTheFuture`); that
an answer under way holds every detection the box still has up to the answer's
last one, so that moving the cursor to it passes over nothing
(`AnswersComplete`); that what is beyond the cursor was stored at most once for
every crash (`StoredAhead`), since only a crash between INSERT and cursor leaves
such rows; and that whatever was broadcast the cursor has passed
(`PushedPassed`). Each action has one step, and under it one per conjunct it can
disturb. The refinement is proved action by action: the steps that handle new
detections acknowledge them, a crash after some INSERTs stutters, deletion
removes.

The history needs more. That the trim deletes the oldest rows of one moment does
not say that what is kept *now* is newer than what was trimmed *earlier*: a late
answer might bring something older. `HistInv`, proved on top of `IInv`, says that
every row is a copy that was counted (`RowsCounted`), that a copy that is no longer
there has been passed by the cursor and is not newer than any row
(`TrimmedOldest`), that a box which still holds anything holds its last frame
(`FeedHasLatest`), and that a row a crash left beyond the cursor is not beyond
what an answer under way holds (`AheadReported`): else the trim could take such a
row, which is stored anew later. `HistoryBounded` follows from the trim alone.

| theorem of `DetectionPoller_proofs` | statement |
|---|---|
| `HistoryBoundedAlways` | `Spec => []HistoryBounded` |
| `HistoryKeepsNewestAlways` | `Spec => []HistoryKeepsNewest` |

`BoxRegistry_proofs`, for any ids, URLs, ticks and failure limit:

| theorem | statement |
|---|---|
| `TypeCorrect` | `Spec => []TypeOK` |
| `UrlUniqueAlways` | `Spec => []UrlUnique` |
| `AnswersAreTrueAlways` | `Spec => []AnswersAreTrue` |
| `LosersHaveWinnersAlways` | `Spec => []LosersHaveWinners` |
| `NoResurrectionEver` | `Spec => NoResurrection` |
| `GivenUpAfterStreakEver` | `Spec => GivenUpAfterStreak` |
| `PagesTellTruthEver` | `Spec => PagesTellTruth` |

The first four are conjuncts or consequences of `RowInv`, which says of every
request, from the place it has come to, whether its row can exist: before the
INSERT there is none and none was deleted, after it there is one or it was
deleted. `NoResurrection` follows because no step takes an id out of `deleted` and
`RowInv` leaves a deleted id no row. For `GivenUpAfterStreak` the counter must be
tied to what really happened: `CountInv` says that it never exceeds the length of
the streak of failed checks, through resets, overlapping ticks and restarts, and a
step that gives a box up has counted to the limit.

`ChannelSync_proofs`, for any finite set of boxes, any channels, callers and batch
size:

| theorem | statement |
|---|---|
| `TypeCorrect` | `Spec => []TypeOK` |
| `OnePollerSyncAlways` | `Spec => []OnePollerSync` |
| `LockedWhileSyncingAlways` | `Spec => []LockedWhileSyncing` |
| `CamerasMirrorListAlways` | `Spec => []CamerasMirrorList` |
| `NoOrphanCamerasAlways` | `Spec => []NoOrphanCameras` |
| `NoHardDeleteEver` | `Spec => NoHardDelete` |
| `PollerAppliesInOrderEver` | `Spec => PollerAppliesInOrder` |
| `ConcurrencyLimitedAlways` | `Spec => []ConcurrencyLimited` |

The two statements about the lock are inductive only together (`LockInv`): that a
box is locked whenever it is synced is what keeps a second tick out. The same
holds of the two about cameras (`CameraInv`). The order of lists rests on
`OrderInv`: no list under way to the poller is newer than the box's last, and none
is older than the one the poller applied last; `LockInv` excludes a second list of
the poller's, and what requests apply is no part of it. The limit needs the boxes
to be finite, for a batch to have a size.

The pages keep no state, so that `PagesTellTruthEver` is a theorem about the same
specification, proved in the same module from `RowInv`: what a page shows depends
on the place its request has come to, and `RowInv` says what rows there are then.
Each error status is followed through the four translations.

`CameraPlace_proofs`, for any set of places beside:

| theorem | statement |
|---|---|
| `PlacedImplementsSync` | `PlacedSpec => Spec`: with the coordinates forgotten it is `ChannelSync`, so all theorems above hold of it |
| `CamerasArePlacedEver` | `PlacedSpec => CamerasArePlaced` |

The second rests on `PlaceInv`: coordinates are kept for exactly the rows there
are, and what a job has read of its box is a whole position or none. A step that
writes a row then finds a whole new position, or leaves the whole old one.

`AlertHistory_proofs`, for any finite sets of boxes and channels, any page size
and whatever `DetectionPoller_proofs` allows:

| theorem | statement |
|---|---|
| `HistoryInvariant` | `HistorySpec => []PageInv` |
| `HistoryTypesCorrect` | `HistorySpec => []HistoryTypeOK` |
| `NoAlertPassedBy` | `HistorySpec => []NonePassedBy` |

`NonePassedBy` speaks of what a page has missed; the invariant must say where the
alerts still owed stand. `PageInv` is `TableInv` (the table has a place for every
alert that is kept, none twice, and the reader is owed only what is kept) and
`OwedBehind`: without a crash or a deletion so far, what is owed stands behind the
page asked for last, and behind the whole of it if it was shown. That a step
of the server keeps `OwedBehind` is the lemma `NoneMovesForward`: for each alert
that stays, at least as many stand before it afterwards. It counts: a channel
that trims keeps of the rows it stores in that step at least as many as it deletes
of the older ones (`TrimMakesRoom`), since without a crash it held no more than
the limit before.
What arrives is newer than what is there: this comes from the poller's `IInv`
(`BehindCursor`); `HistorySpec => Spec` (`HistoryPolls`) makes it available here.

`AlertDelivery_proofs`, for any users, tabs, connections, endpoints and chats:

| theorem | statement |
|---|---|
| `DeliveryInvariant` | `Spec => []DeliveryInv` |
| `TypeCorrect` | `Spec => []TypeOK` |
| `SourcesSingle` | `Spec => []OneSource` |
| `ControllersOwned` | `Spec => []OwnersOnly` |
| `StreamsHearAlerts` | `ASSUME Assembled PROVE Spec => []OpenStreamsHear` |
| `LiveSubscriptionsStay` | `Spec => LiveSubscriptionKept`: a subscription the push service has never given up is deleted by its user only |

`OneSource` counts sources and timers, which a late event may add to. `SourceInv`
is what excludes it: a source that is not closed is the one the tab refers to, on
a connection of that tab; a tab with a live source has no timer; a closed tab has
neither. `OpenStreamsHear` needs `RegistryInv`: with one dispatcher, an open
stream is registered under the user its tab belongs to. A broadcast reaches the
registered controllers only, so that the two together let no open stream miss an
alert, whichever of the two ways of learning of a cut comes first.
`StreamsHearAlerts` has the hypothesis `Assembled` because the code keeps the
statement only then: the process as `index.ts` assembles it breaks it, which is
what the run `AlertsUnheard` shows. All else is proved of both assemblies.

`AuthServer_proofs`, for any runners, seeds and requests, any
number of pairs, lives of tokens, window and limit:

| theorem | statement |
|---|---|
| `AuthInvariant` | `Spec => []AuthInv` |
| `TypeCorrect` | `Spec => []TypeOK` |
| `MigrationsWhole` | `Spec => []MigratedWhole` |
| `MigratedIsComplete` | `Spec => []DoneIsComplete`: a runner that has ended leaves all files' schema |
| `MigratedMatchesCode` | `Spec => []SchemaMatchesCode` |
| `AccountStays` | `Spec => []AccountKept` |
| `LoginsLimited` | `Spec => []RateLimited` |
| `GivenUpStaysBanned` | `Spec => []EndedStaysBanned` |
| `GivenUpNeverAccepted` | `Spec => EndedStaysEnded` |

`AuthInv` has a part for each.

- Migrations: that the database is what the first files build is inductive only
  with `RunnersKnow`, that every file before a runner's own is recorded; else a
  runner that lags behind might run a file out of turn.
- Account: `SeedInv` says that there is one row at most, and that a seed past its
  lookup is on a database that some file has made: from the first file on `users` has
  the UNIQUE name (`UsersKey`) without which `INSERT OR IGNORE` would add a second.
- Schema: what a file does depends on the tables there are, as `CREATE TABLE IF
  NOT EXISTS` skips one that exists. `FileAdds` says that a file whose tables no
  statement before names adds all its statements, and `SchemaComplete` that all
  seven are such files; so the schema is the union of the 22 statements, which
  `SchemaAgrees` compares with the code's. `SchemaAfter` and `After` are recursive
  functions; that they are functions at all, and equal to what the lemmas say, is
  shown by a least counterexample (`LeastNat`), without an induction theorem.
- Sessions: `EndedStaysEnded` is about the step that accepts a token, so one needs
  that a token given up is in the blacklist until it expires
  (`EndedStaysBanned`). The clean-up deletes rows by their own expiry, and this
  keeps the former only as no row runs out before its token (`RowsLast`): a row
  is dated from the moment of the logout, a token from its signing, and
  nothing that is presented was signed in the future (`AllMinted`). `PastGuard`
  says what a request between its check and its write has shown.
- Rate limit: two windows that follow one another may each pass the limit, and a
  span that lies across both sees both. `RateInv` says so of the two it can
  touch, the bucket's own and the one of the same length before it, and of every
  earlier span. All this is within one life of the API's process: a restart forgets
  the bucket, and as many logins may pass again. The lemmas count sets of passes.

`WebApp_proofs`, for any cameras, channels and layouts, and any number of starts,
previews and visits:

| theorem | statement |
|---|---|
| `TabInvariant` | `Spec => []TabInv` |
| `TypeCorrect` | `Spec => []TypeOK` |
| `CellsPlayTheirCamera` | `Spec => []PlaysItsCamera` |
| `RowsShowServer` | `Spec => []RowShowsServer` |
| `PlayersReleased` | `Spec => []MediaReleased` |
| `MapsReplaced` | `Spec => []OneMap` |
| `ListPolledWhileSeen` | `Spec => []PolledWhileSeen` |

`TabInv` is a conjunction of one invariant per page, and each page's step lemma is
used for its own actions and for those of the tab. `CellInv` says which start a
cell's player comes from: a cell with a camera and no error has its player, unless
a start awaits the module, and the last one that does is for this camera and was
not overtaken. That one flag for all starts is enough for this is the point of
the proof. `Media` says the same of a preview: a player, or one mount that may
still create it, never both, and only while it is mounted. `BoxListInv` ties the
number of intervals to the variable that holds one.

**Only model-checked.**

- Liveness: `EventuallyStored` (of `DetectionPoller` and of `AlertHistory`),
  `DownIsGivenUp`, `EventuallySynced`, `Reconnects` and `GhostsReaped`. Proofs
  under fairness are out of the prover's reach.
- The violations of section 3, which are counterexamples.

Every other property of a run is a theorem. Proved, though no run lists them:
`NoOrphans`, `CursorAdvances`, `HistoryBounded`, `UrlUnique`,
`LosersHaveWinners`, `NoOrphanCameras` (a part of `CamerasMirrorList`),
`NoHardDelete`, `ConcurrencyLimited`, `OwnersOnly`, `LiveSubscriptionKept`,
`DoneIsComplete` and `EndedStaysBanned`.

## 5. Not modelled, and the plan

Next, in the order of what they would say:

1. An abstract specification of delivery, per user a log of alerts and what each
   stream has been given of it, with `AlertDelivery` shown to implement it
   under `Assembled`.
2. An abstract specification of sessions, a set of pairs that live, with
   `AuthServer` shown to implement it but for the overlapping refreshes named
   below.
3. Action properties of the pages: that a late answer of a preview or a snapshot
   changes no other row (`WebApp`).

Left out, with the reason:

- **Web push in the browser** (`apps/web/src/lib/webpush.ts`). The route answers
  `{key}`, and `subscribe` reads `vapidPublicKey ?? publicKey` (lines 51-52): it
  always throws before it asks the browser. There is no behaviour to model; what
  the server does with a subscription is in `AlertDelivery`.
- **The models page.** The interface reads `modelId` while the API sends `id`, so
  its list has no keys and a deletion asks for `/models/undefined`. It has no
  other state than the list of the last answer.
- **The settings page.** Its state is one flag, `savingChannel`, which whichever
  request ends first clears; a failed save is not rolled back on the page.
- **Playlist rewriting and the HLS proxy**: a function of a text and a request
  passed on; no state.
- **Beacons**: counted and stored the way positions are (`CameraPlace`).
- **PATCH of a box**: fields that no other step reads.
- **`withAuthRetry`, `markDelivered`**: without a caller in production.
  (`dispatch` has none either, but it is the only sender of web push, so that it
  is modelled.)
- **Vault, logging, configuration, clamping of intervals, form checks, layout**:
  conversions and wording.

Seen while modelling and covered by no property, for whoever works on the code:

- A user without stored destinations is shown toast as switched on (the route's
  defaults), while the dispatcher finds no row and sends nothing.
- Two refreshes with one refresh token that overlap both succeed
  (`auth.ts:270`): the check of the blacklist and the write to it have the signing
  between them.
- A logout whose access token has expired leaves the refresh token valid. The web
  application never calls /refresh, and all its logins share the rate limit's
  bucket `unknown`. An answer to an older page load may delete the cookies a newer
  login has set.
- A box in status error is asked by no poller again: it takes an operator's
  refresh. The refresh does not reset the count of failures: those before it still
  count towards giving the box up (`GivenUpAfterStreak` allows it, as its streak is
  one of checks, and no refresh is a check).
- A cell that has shown an error (`GridCell.svelte:73`) has no video element any
  more, so that choosing another camera does not play it. A start overtaken
  between import and attachment leaves its player undestroyed
  (`GridCell.svelte:77`).
- A camera list that could not be loaded counts as empty and wipes the stored
  grid. Snapshot URLs are not revoked when the page is left. Answers of two
  refreshes of a list are shown in the order in which they arrive.
- A later page of the alert history that has become empty shows no links back.
- The abort timer of a list is armed before position and beacons are awaited
  (`channelSyncService.ts:366`), so that these use up the list's time.
- An answer 204 of a box fails in the schema check, outside of `BoxApiError`.
  Base URLs that differ in the host's case are two boxes.
