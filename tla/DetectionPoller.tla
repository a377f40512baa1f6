--------------------------- MODULE DetectionPoller ---------------------------
(***************************************************************************)
(* The detection poller (apps/api/src/workers/detectionPoller.ts).  Every  *)
(* interval a tick asks each active box for the detections of its online   *)
(* channels, stores the new ones as alerts, moves the channel's cursor,    *)
(* trims the history and broadcasts the new alerts.                        *)
(*                                                                         *)
(* JavaScript interleaves only at an await, and setInterval starts a tick  *)
(* whether or not the last one has ended, so a step here is the code       *)
(* between two awaits of one tick.  The code after the awaited response    *)
(* is one such step, but its SQLite statements are not in a transaction:   *)
(* a crash may leave any prefix of them behind.                            *)
(***************************************************************************)
EXTENDS Integers, FiniteSets, FiniteSetsExt

CONSTANTS
    Box,          \* the ids of the registered boxes
    Channel,      \* the channel ids a box may have
    Obj,          \* what tells apart the detections of one video frame
    Tick,         \* the ticks that may be under way at once
    MaxTs,        \* bound: frames a channel produces
    MaxHistory,   \* MAX_HISTORY_COUNT
    MaxCrashes,   \* bound: crashes of the server process
    None          \* no box or no channel

ASSUME BoundsAssumption ==
    MaxTs \in Nat /\ MaxHistory \in Nat \ {0} /\ MaxCrashes \in Nat
ASSUME ObjAssumption == IsFiniteSet(Obj)

VARIABLES
    boxes,      \* the status of each box's row, "deleted" once it has none
    online,     \* the <<box, channel>> pairs whose camera row is online
    feed,       \* the detections each box would report for a channel
    latest,     \* the timestamp of the last frame with a detection
    cursor,     \* detection_cursor.last_seen_timestamp, 0 without a row
    history,    \* the rows of detection_alerts
    inserted,   \* how often each detection was inserted (kept past trimming)
    pushed,     \* how often each detection was broadcast
    tick,       \* where each tick is
    crashes     \* how often the process has crashed

db == <<boxes, online>>
source == <<feed, latest>>
alerts == <<cursor, history, inserted, pushed>>
vars == <<db, source, alerts, tick, crashes>>

Key == Box \X Channel
Event == [ts : 1 .. MaxTs, obj : Obj]
Row == [evt : Event, copy : Nat]
Status == {"active", "error", "deleted"}

Idle == [pc |-> "idle", boxes |-> {}, box |-> None, chans |-> {},
         chan |-> None, resp |-> {}]

Never == [e \in Event |-> 0]

KeyOf(t) == <<tick[t].box, tick[t].chan>>

-----------------------------------------------------------------------------
(* What the poller reads.                                                  *)

ActiveBoxes == {b \in Box : boxes[b] = "active"}

OnlineChannels(b) == {c \in Channel : <<b, c>> \in online}

\* Mutant: a detection at the cursor counts as new.
NewEventsFromCursor(k, resp) == {e \in resp : e.ts >= cursor[k]}

\* Mutant: whatever is not at the cursor counts as new.
NewEventsOffCursor(k, resp) == {e \in resp : e.ts # cursor[k]}

NewEvents(k, resp) == {e \in resp : e.ts > cursor[k]}

\* PRAGMA foreign_keys: an alert or a cursor needs its box's row.
HasBoxRow(b) == boxes[b] # "deleted"

-----------------------------------------------------------------------------
(* Where the loops over boxes and channels go next.  SQLite's order of the *)
(* rows is not stated by the queries, so any order is possible.            *)

NextChannel(bs, b, cs) ==
    {[pc |-> "poll", boxes |-> bs, box |-> b, chans |-> cs \ {c},
      chan |-> c, resp |-> {}] : c \in cs}

NextBox(bs) ==
    {[pc |-> "decrypt", boxes |-> bs \ {b}, box |-> b, chans |-> {},
      chan |-> None, resp |-> {}] : b \in bs}

Advance(bs, b, cs) ==
    IF cs # {} THEN NextChannel(bs, b, cs)
    ELSE IF bs # {} THEN NextBox(bs)
    ELSE {Idle}

GoOn(t) ==
    \E s \in Advance(tick[t].boxes, tick[t].box, tick[t].chans) :
        tick' = [tick EXCEPT ![t] = s]

-----------------------------------------------------------------------------
(* The statements of the section that stores new detections.               *)

CountIn(count, S) == [e \in Event |-> count[e] + IF e \in S THEN 1 ELSE 0]

RowsFor(k, S) == {[evt |-> e, copy |-> inserted[k][e] + 1] : e \in S}

Insert(k, S) == inserted' = [inserted EXCEPT ![k] = CountIn(@, S)]

Broadcast(k, S) == pushed' = [pushed EXCEPT ![k] = CountIn(@, S)]

\* Mutant: the cursor jumps to the box's last frame, not to the last handled.
CursorToLatest(k, S) == cursor' = [cursor EXCEPT ![k] = latest[k]]

\* Mutant: the cursor is set one past the last handled timestamp.
CursorPastLast(k, S) ==
    \E m \in {e.ts : e \in S} :
        /\ \A e \in S : e.ts <= m
        /\ cursor' = [cursor EXCEPT ![k] = m + 1]

\* The cursor moves to the largest timestamp among the new detections.
UpsertCursor(k, S) ==
    \E m \in {e.ts : e \in S} :
        /\ \A e \in S : e.ts <= m
        /\ cursor' = [cursor EXCEPT ![k] = m]

\* Mutant: the newest rows go first (ORDER BY fired_at DESC).
TrimNewest(rows) ==
    IF Cardinality(rows) <= MaxHistory THEN {rows}
    ELSE {keep \in kSubset(MaxHistory, rows) :
             \A r \in keep, d \in rows \ keep : r.evt.ts <= d.evt.ts}

\* The rows that remain: those in excess go, oldest fired_at first; rows with
\* one timestamp go in any order.
TrimHistory(rows) ==
    IF Cardinality(rows) <= MaxHistory THEN {rows}
    ELSE {keep \in kSubset(MaxHistory, rows) :
             \A r \in keep, d \in rows \ keep : d.evt.ts <= r.evt.ts}

-----------------------------------------------------------------------------
(* Steps of a tick.                                                        *)

\* setInterval fires; a tick that finds no active box ends at once.
StartTick(t) ==
    /\ tick[t] = Idle
    /\ \E s \in Advance(ActiveBoxes, None, {}) : tick' = [tick EXCEPT ![t] = s]
    /\ UNCHANGED <<db, source, alerts, crashes>>

\* The box's token is decrypted (or is not: the request then carries none);
\* the online channels are read now, after the await.
Decrypted(t) ==
    /\ tick[t].pc = "decrypt"
    /\ \E s \in Advance(tick[t].boxes, tick[t].box, OnlineChannels(tick[t].box)) :
          tick' = [tick EXCEPT ![t] = s]
    /\ UNCHANGED <<db, source, alerts, crashes>>

\* The box composes its answer to getDetections, which is now on its way.
BoxAnswers(t) ==
    /\ tick[t].pc = "poll"
    /\ tick' = [tick EXCEPT ![t].pc = "answered", ![t].resp = feed[KeyOf(t)]]
    /\ UNCHANGED <<db, source, alerts, crashes>>

\* Mutant: the error is caught around the whole tick, which it ends.
PollFailsEndsTick(t) ==
    /\ tick[t].pc = "poll"
    /\ tick' = [tick EXCEPT ![t] = Idle]
    /\ UNCHANGED <<db, source, alerts, crashes>>

\* getDetections rejects: the error stays with this channel.
PollFails(t) ==
    /\ tick[t].pc = "poll"
    /\ GoOn(t)
    /\ UNCHANGED <<db, source, alerts, crashes>>

\* The answer holds nothing new, or the box was deleted during the await and
\* the first INSERT fails on its foreign key.
HandleNothing(t) ==
    LET k == KeyOf(t) IN
    /\ tick[t].pc = "answered"
    /\ NewEvents(k, tick[t].resp) = {} \/ ~HasBoxRow(tick[t].box)
    /\ GoOn(t)
    /\ UNCHANGED <<db, source, alerts, crashes>>

\* The answer holds new detections: insert them, move the cursor, trim the
\* history, broadcast.
HandleNew(t) ==
    LET k == KeyOf(t)
        new == NewEvents(k, tick[t].resp)
    IN
    /\ tick[t].pc = "answered"
    /\ new # {} /\ HasBoxRow(tick[t].box)
    /\ Insert(k, new)
    /\ UpsertCursor(k, new)
    /\ \E rows \in TrimHistory(history[k] \cup RowsFor(k, new)) :
          history' = [history EXCEPT ![k] = rows]
    /\ Broadcast(k, new)
    /\ GoOn(t)
    /\ UNCHANGED <<db, source, crashes>>

-----------------------------------------------------------------------------
(* Crashes.  The process is started again and its pollers start afresh.    *)

Restart ==
    /\ crashes < MaxCrashes
    /\ crashes' = crashes + 1
    /\ tick' = [t \in Tick |-> Idle]
    /\ UNCHANGED <<db, source>>

\* Between two awaits of every tick.
Crash ==
    /\ Restart
    /\ UNCHANGED alerts

\* Mutant: each alert is broadcast as it is inserted, before the cursor moves.
CrashInsertingAfterPush(t) ==
    LET k == KeyOf(t)
        new == NewEvents(k, tick[t].resp)
    IN
    /\ tick[t].pc = "answered" /\ HasBoxRow(tick[t].box)
    /\ \E S \in SUBSET new :
          /\ S # {}
          /\ Insert(k, S)
          /\ history' = [history EXCEPT ![k] = @ \cup RowsFor(k, S)]
          /\ Broadcast(k, S)
    /\ Restart
    /\ UNCHANGED cursor

\* After some of the INSERTs, before the cursor moves.
CrashInserting(t) ==
    LET k == KeyOf(t)
        new == NewEvents(k, tick[t].resp)
    IN
    /\ tick[t].pc = "answered" /\ HasBoxRow(tick[t].box)
    /\ \E S \in SUBSET new :
          /\ S # {}
          /\ Insert(k, S)
          /\ history' = [history EXCEPT ![k] = @ \cup RowsFor(k, S)]
    /\ Restart
    /\ UNCHANGED <<cursor, pushed>>

\* After the cursor has moved, before the history is trimmed or with only
\* some of the alerts broadcast.
CrashAfterCursor(t) ==
    LET k == KeyOf(t)
        new == NewEvents(k, tick[t].resp)
        rows == history[k] \cup RowsFor(k, new)
    IN
    /\ tick[t].pc = "answered"
    /\ new # {} /\ HasBoxRow(tick[t].box)
    /\ Insert(k, new)
    /\ UpsertCursor(k, new)
    /\ \/ /\ history' = [history EXCEPT ![k] = rows]
          /\ UNCHANGED pushed
       \/ /\ \E keep \in TrimHistory(rows) : history' = [history EXCEPT ![k] = keep]
          /\ \E S \in SUBSET new : Broadcast(k, S)
    /\ Restart

-----------------------------------------------------------------------------
(* What the rest of the system does meanwhile.                             *)

\* The box reports the detections of one frame; frames come in time order, and
\* only the order of their timestamps matters.
Detect(k, S) ==
    LET ts == latest[k] + 1 IN
    /\ ts <= MaxTs /\ S # {}
    /\ latest' = [latest EXCEPT ![k] = ts]
    /\ feed' = [feed EXCEPT ![k] = @ \cup {[ts |-> ts, obj |-> o] : o \in S}]
    /\ UNCHANGED <<db, alerts, tick, crashes>>

\* The box forgets the detections up to some time.
Expire(k, ts) ==
    /\ \E e \in feed[k] : e.ts <= ts
    /\ feed' = [feed EXCEPT ![k] = {e \in @ : e.ts > ts}]
    /\ UNCHANGED <<db, latest, alerts, tick, crashes>>

\* The status poller or an operator moves the box between active and error.
ChangeStatus(b) ==
    /\ boxes[b] # "deleted"
    /\ boxes' = [boxes EXCEPT ![b] = IF @ = "active" THEN "error" ELSE "active"]
    /\ UNCHANGED <<online, source, alerts, tick, crashes>>

\* Channel synchronisation writes a camera's status.
SyncCamera(k) ==
    /\ boxes[k[1]] # "deleted"
    /\ online' = IF k \in online THEN online \ {k} ELSE online \cup {k}
    /\ UNCHANGED <<boxes, source, alerts, tick, crashes>>

\* deleteBox; ON DELETE CASCADE takes the box's cameras, alerts and cursors.
DeleteBox(b) ==
    /\ boxes[b] # "deleted"
    /\ boxes' = [boxes EXCEPT ![b] = "deleted"]
    /\ online' = {k \in online : k[1] # b}
    /\ cursor' = [k \in Key |-> IF k[1] = b THEN 0 ELSE cursor[k]]
    /\ history' = [k \in Key |-> IF k[1] = b THEN {} ELSE history[k]]
    /\ inserted' = [k \in Key |-> IF k[1] = b THEN Never ELSE inserted[k]]
    /\ UNCHANGED <<source, pushed, tick, crashes>>

-----------------------------------------------------------------------------

Init ==
    /\ boxes = [b \in Box |-> "active"]
    /\ online = Key
    /\ feed = [k \in Key |-> {}]
    /\ latest = [k \in Key |-> 0]
    /\ cursor = [k \in Key |-> 0]
    /\ history = [k \in Key |-> {}]
    /\ inserted = [k \in Key |-> Never]
    /\ pushed = [k \in Key |-> Never]
    /\ tick = [t \in Tick |-> Idle]
    /\ crashes = 0

TickStep(t) ==
    \/ StartTick(t)
    \/ Decrypted(t)
    \/ BoxAnswers(t)
    \/ PollFails(t)
    \/ HandleNothing(t)
    \/ HandleNew(t)

CrashStep ==
    \/ Crash
    \/ \E t \in Tick : CrashInserting(t) \/ CrashAfterCursor(t)

EnvironmentStep ==
    \/ \E k \in Key, S \in SUBSET Obj : Detect(k, S)
    \/ \E k \in Key, ts \in 1 .. MaxTs : Expire(k, ts)
    \/ \E b \in Box : ChangeStatus(b) \/ DeleteBox(b)
    \/ \E k \in Key : SyncCamera(k)

Next ==
    \/ \E t \in Tick : TickStep(t)
    \/ CrashStep
    \/ EnvironmentStep

Spec == Init /\ [][Next]_vars

\* setInterval keeps firing, an await of the process's own work ends, and every
\* request settles, one way or the other.
Fairness ==
    /\ WF_vars(\E t \in Tick : StartTick(t))
    /\ \A t \in Tick : WF_vars(Decrypted(t))
    /\ \A t \in Tick : WF_vars(BoxAnswers(t) \/ PollFails(t))
    /\ \A t \in Tick : WF_vars(HandleNothing(t) \/ HandleNew(t))

FairSpec == Spec /\ Fairness

-----------------------------------------------------------------------------
(* Properties.                                                             *)

TickState ==
    [pc : {"idle", "decrypt", "poll", "answered"}, boxes : SUBSET Box,
     box : Box \cup {None}, chans : SUBSET Channel,
     chan : Channel \cup {None}, resp : SUBSET Event]

\* Every variable has its type, and a tick that awaits an answer knows which
\* box and channel it asked for.
TypeOK ==
    /\ boxes \in [Box -> Status]
    /\ online \in SUBSET Key
    /\ feed \in [Key -> SUBSET Event]
    /\ latest \in [Key -> 0 .. MaxTs]
    /\ cursor \in [Key -> 0 .. MaxTs]
    /\ history \in [Key -> SUBSET Row]
    /\ inserted \in [Key -> [Event -> Nat]]
    /\ pushed \in [Key -> [Event -> Nat]]
    /\ tick \in [Tick -> TickState]
    /\ crashes \in Nat
    /\ \A t \in Tick :
          /\ tick[t].pc # "idle" => tick[t].box \in Box
          /\ tick[t].pc \in {"poll", "answered"} => tick[t].chan \in Channel

\* A detection becomes an alert at most once, plus once for every crash: the
\* cursor is read after the await, so ticks that overlap on one channel do not
\* store what the other has stored, and only a crash between the INSERTs and
\* the cursor's UPSERT makes the poller store a detection again.
DuplicatesNeedCrashes ==
    \A k \in Key, e \in Event : inserted[k][e] <= crashes + 1

\* No detection is skipped: what the box still reports and the cursor has
\* passed was stored, in whatever order overlapping ticks handle their answers.
NothingSkipped ==
    \A k \in Key : \A e \in feed[k] :
        e.ts <= cursor[k] => inserted[k][e] >= 1

\* A detection is broadcast at most once, across crashes too: the broadcast
\* comes after the cursor's UPSERT, so a detection that is stored again after a
\* crash had not been broadcast before it.
BroadcastOnce ==
    \A k \in Key, e \in Event : pushed[k][e] <= 1

\* The cursor and the alerts of a box go with its row, and a tick that was
\* waiting for the box's answer does not bring them back.
NoOrphans ==
    \A k \in Key :
        boxes[k[1]] = "deleted" => cursor[k] = 0 /\ history[k] = {}

\* As long as the process has not crashed, no channel keeps more alerts than
\* MAX_HISTORY_COUNT, however many an answer brings at once.
HistoryBounded ==
    crashes = 0 => \A k \in Key : Cardinality(history[k]) <= MaxHistory

\* The alerts kept are the newest: none is older than one that was trimmed.
HistoryKeepsNewest ==
    \A k \in Key : \A e \in Event, r \in history[k] :
        Cardinality({x \in history[k] : x.evt = e}) < inserted[k][e]
            => e.ts <= r.evt.ts

\* The cursor of a box that is still registered never goes back.
CursorAdvances ==
    [][\A k \in Key : boxes'[k[1]] # "deleted" => cursor'[k] >= cursor[k]]_vars

\* A channel that is asked over and over answers at last.
Answering(k) == SF_vars(\E t \in Tick : KeyOf(t) = k /\ BoxAnswers(t))

\* What an answering channel reports is stored, unless the box forgets it
\* first, leaves the active state or the channel goes offline: failing requests
\* and crashes delay it and no more, and other channels, though every request
\* to them fails, do not hold it up.
EventuallyStored ==
    \A k \in Key :
        Answering(k) =>
            \A e \in Event :
                e \in feed[k] ~>
                    \/ inserted[k][e] >= 1 \/ e \notin feed[k]
                    \/ boxes[k[1]] # "active" \/ k \notin online

\* SPEC-ALERTS-001 REQ-ALERT-001: no poll of a channel starts while another
\* poll of it is under way.
NoOverlappingPolls ==
    \A t, u \in Tick :
        /\ tick[t].pc \in {"poll", "answered"}
        /\ tick[u].pc \in {"poll", "answered"}
        /\ KeyOf(t) = KeyOf(u)
        => t = u

-----------------------------------------------------------------------------
(* What the poller promises its readers, as an AlertLog: a detection is     *)
(* acknowledged once it is stored and the cursor has passed it.            *)

acknowledged ==
    [k \in Key |-> {e \in Event : inserted[k][e] >= 1 /\ e.ts <= cursor[k]}]

removed == {k \in Key : boxes[k[1]] = "deleted"}

Log == INSTANCE AlertLog WITH Log <- Key, held <- feed, newest <- latest

\* The poller implements the log: detections are acknowledged in time order,
\* each once, and none that the box still reports is passed over.
ImplementsLog == Log!Spec

=============================================================================
