----------------------------- MODULE ChannelSync -----------------------------
(***************************************************************************)
(* Channel synchronisation: syncChannelsForBox and its lock                *)
(* (apps/api/src/services/channelSyncService.ts), the poller that runs it  *)
(* for the active boxes in batches (workers/channelSyncPoller.ts), and the *)
(* request that runs it for one box (routes/channels.ts, POST /sync).      *)
(*                                                                         *)
(* A step is the code between two awaits of one job.  A job fetches a      *)
(* box's list of channels and upserts it into the cameras table in one     *)
(* transaction.  Names and beacon counts are left out; CameraPlace adds    *)
(* the coordinates.                                                        *)
(***************************************************************************)
EXTENDS Integers, FiniteSets, FiniteSetsExt, Functions

CONSTANTS
    Box,           \* the ids of the boxes
    Channel,       \* the channel ids a box may list
    Reported,      \* the channel states a box may report
    Tick,          \* the ticks of the poller that may be under way at once
    Manual,        \* the POST /sync requests that may be under way at once
    Concurrency,   \* CHANNEL_SYNC_CONCURRENCY
    MaxVersion,    \* bound: changes of a box's channel list
    MaxCrashes     \* bound: crashes of the server process

ChannelStatus ==
    {"STOPPED", "CONNECTING", "RUNNING", "PAUSED", "ERROR", "RETRYING"}

ASSUME BoundsAssumption ==
    Concurrency \in Nat \ {0} /\ MaxVersion \in Nat /\ MaxCrashes \in Nat
ASSUME ReportedAssumption == Reported \subseteq ChannelStatus \cup {"unknown"}
ASSUME CallerAssumption == Tick \cap Manual = {}
ASSUME BoxAssumption == IsFiniteSet(Box)

VARIABLES
    boxes,     \* the status of each box's row, "deleted" once it has none
    channels,  \* what each box lists now: the states of its channels
    version,   \* how often each box's list has changed
    cameras,   \* the camera rows of each box, by channel
    applied,   \* (history) the list last upserted for each box, its version,
               \* and that of the one the poller upserted last
    locks,     \* syncInProgress
    todo,      \* the boxes in the batches each tick has yet to start
    job,       \* the sync each tick or request runs for each box
    crashes    \* how often the process has crashed

source == <<channels, version>>
store == <<cameras, applied>>
work == <<locks, todo, job>>
vars == <<boxes, source, store, work, crashes>>

Caller == Tick \cup Manual

\* The channel lists a box may give.
Lists == UNION {[C -> Reported] : C \in SUBSET Channel}

NoList == [ch \in {} |-> "unknown"]

NotApplied == [list |-> NoList, version |-> 0, polled |-> 0]

NoJob == [pc |-> "none", list |-> NoList, version |-> 0]
Preparing == [NoJob EXCEPT !.pc = "preparing"]

\* Mutant: the foreign keys are not enforced.
NoForeignKeys(b) == TRUE

\* PRAGMA foreign_keys: a camera needs its box's row.
HasBoxRow(b) == boxes[b] # "deleted"

ActiveBoxes == {b \in Box : boxes[b] = "active"}

IdleCaller(c) == \A b \in Box : job[c][b] = NoJob

-----------------------------------------------------------------------------
(* The lock.                                                               *)

\* Mutant: the lock is given whether or not it is held.
AlwaysAcquire(b) == TRUE

\* isSyncInProgress and acquireSyncLock, with no await between them.
CanAcquire(b) == b \notin locks

\* Mutant: a request, too, releases the lock, which a tick may hold.
EndJobUnlocking(c, b) ==
    /\ job' = [job EXCEPT ![c][b] = NoJob]
    /\ locks' = locks \ {b}

\* The end of a job: finally, the poller releases the lock it took; a request
\* took none.
EndJob(c, b) ==
    /\ job' = [job EXCEPT ![c][b] = NoJob]
    /\ locks' = IF c \in Tick THEN locks \ {b} ELSE locks

\* Mutant: a failed sync returns without releasing the lock.
FailWithLock(c, b) ==
    /\ job' = [job EXCEPT ![c][b] = NoJob]
    /\ UNCHANGED locks

FailJob(c, b) == EndJob(c, b)

-----------------------------------------------------------------------------
(* The transaction.                                                        *)

\* Mutant: a state that is not RUNNING is stored as the box words it.
PassStatusOn(s) == IF s = "RUNNING" THEN "online" ELSE s

mapChannelStatus(s) ==
    CASE s = "RUNNING" -> "online"
      [] s = "ERROR" -> "error"
      [] OTHER -> "offline"

\* Mutant: rows the list lacks are left alone.
UpsertForgets(rows, list) ==
    [ch \in DOMAIN rows \cup DOMAIN list |->
        IF ch \in DOMAIN list
        THEN [status |-> mapChannelStatus(list[ch]), syncError |-> FALSE]
        ELSE rows[ch]]

\* Listed channels are inserted or updated; a row the list lacks goes offline
\* and keeps its sync_error.
UpsertRows(rows, list) ==
    [ch \in DOMAIN rows \cup DOMAIN list |->
        IF ch \in DOMAIN list
        THEN [status |-> mapChannelStatus(list[ch]), syncError |-> FALSE]
        ELSE [rows[ch] EXCEPT !.status = "offline"]]

\* UPDATE cameras SET sync_error = ... WHERE box_id = ...
RowsWithError(rows) == [ch \in DOMAIN rows |-> [rows[ch] EXCEPT !.syncError = TRUE]]

AppliedBy(c, j, last) ==
    [list |-> j.list, version |-> j.version,
     polled |-> IF c \in Tick THEN j.version ELSE last.polled]

-----------------------------------------------------------------------------
(* Callers: ticks of the poller, and requests.                             *)

Batches(S) == kSubset(IF Cardinality(S) < Concurrency THEN Cardinality(S)
                      ELSE Concurrency, S)

\* The jobs of a batch start together; a box that is locked is skipped, and a
\* box without a row makes its job end before it has begun.
StartBatch(t, S) ==
    \E batch \in Batches(S) :
        LET started == {b \in batch : CanAcquire(b) /\ boxes[b] # "deleted"} IN
        /\ todo' = [todo EXCEPT ![t] = S \ batch]
        /\ locks' = locks \cup started
        /\ job' = [job EXCEPT ![t] =
                      [b \in Box |-> IF b \in started THEN Preparing ELSE NoJob]]

\* setInterval fires; without active boxes the tick ends at once.
StartTick(t) ==
    /\ todo[t] = {} /\ IdleCaller(t)
    /\ StartBatch(t, ActiveBoxes)
    /\ UNCHANGED <<boxes, source, store, crashes>>

\* Promise.all of a batch is fulfilled: the next batch starts, of boxes that
\* were active when the tick began.
NextBatch(t) ==
    /\ todo[t] # {} /\ IdleCaller(t)
    /\ StartBatch(t, todo[t])
    /\ UNCHANGED <<boxes, source, store, crashes>>

\* POST /sync: an unknown box is a 404; the lock is neither asked nor taken.
StartManual(m, b) ==
    /\ IdleCaller(m) /\ boxes[b] # "deleted"
    /\ job' = [job EXCEPT ![m][b] = Preparing]
    /\ UNCHANGED <<boxes, source, store, locks, todo, crashes>>

-----------------------------------------------------------------------------
(* Steps of a job.                                                         *)

\* The credentials are decrypted, and the box has told its position and its
\* beacons or has let a second pass: channels.list is called.
Ask(c, b) ==
    /\ job[c][b].pc = "preparing"
    /\ job' = [job EXCEPT ![c][b].pc = "listing"]
    /\ UNCHANGED <<boxes, source, store, locks, todo, crashes>>

\* The box composes its list, which is now on its way.
BoxLists(c, b) ==
    /\ job[c][b].pc = "listing"
    /\ job' = [job EXCEPT ![c][b] =
                  [pc |-> "listed", list |-> channels[b], version |-> version[b]]]
    /\ UNCHANGED <<boxes, source, store, locks, todo, crashes>>

\* The call fails or its time is up, though the list may be on its way: it is
\* then never looked at.
ListFails(c, b) ==
    /\ job[c][b].pc \in {"listing", "listed"}
    /\ cameras' = [cameras EXCEPT ![b] = RowsWithError(@)]
    /\ FailJob(c, b)
    /\ UNCHANGED <<boxes, source, applied, todo, crashes>>

\* The list is upserted.
Upsert(c, b) ==
    /\ job[c][b].pc = "listed"
    /\ HasBoxRow(b)
    /\ cameras' = [cameras EXCEPT ![b] = UpsertRows(@, job[c][b].list)]
    /\ applied' = [applied EXCEPT ![b] = AppliedBy(c, job[c][b], @)]
    /\ EndJob(c, b)
    /\ UNCHANGED <<boxes, source, todo, crashes>>

\* The box was deleted meanwhile: the INSERTs fail on their foreign key, or the
\* list is empty and there is nothing to do.
UpsertNothing(c, b) ==
    /\ job[c][b].pc = "listed"
    /\ ~HasBoxRow(b)
    /\ FailJob(c, b)
    /\ UNCHANGED <<boxes, source, store, todo, crashes>>

-----------------------------------------------------------------------------
(* The rest of the system and of the world.                                *)

\* The process crashes, between two steps as the transaction is atomic, and is
\* started again: the lock is in memory.
Crash ==
    /\ crashes < MaxCrashes
    /\ crashes' = crashes + 1
    /\ locks' = {}
    /\ todo' = [t \in Tick |-> {}]
    /\ job' = [c \in Caller |-> [b \in Box |-> NoJob]]
    /\ UNCHANGED <<boxes, source, store>>

\* A channel appears, disappears or changes its state.
ChangeChannels(b, list) ==
    /\ version[b] < MaxVersion /\ list # channels[b]
    /\ version' = [version EXCEPT ![b] = @ + 1]
    /\ channels' = [channels EXCEPT ![b] = list]
    /\ UNCHANGED <<boxes, store, work, crashes>>

\* The status poller gives a box up, or an operator refreshes it.
ChangeStatus(b) ==
    /\ boxes[b] # "deleted"
    /\ boxes' = [boxes EXCEPT ![b] = IF @ = "active" THEN "error" ELSE "active"]
    /\ UNCHANGED <<source, store, work, crashes>>

\* deleteBox; ON DELETE CASCADE takes the cameras.
DeleteBox(b) ==
    /\ boxes[b] # "deleted"
    /\ boxes' = [boxes EXCEPT ![b] = "deleted"]
    /\ cameras' = [cameras EXCEPT ![b] = NoList]
    /\ applied' = [applied EXCEPT ![b] = NotApplied]
    /\ UNCHANGED <<source, work, crashes>>

-----------------------------------------------------------------------------

Init ==
    /\ boxes = [b \in Box |-> "active"]
    /\ channels = [b \in Box |-> NoList]
    /\ version = [b \in Box |-> 0]
    /\ cameras = [b \in Box |-> NoList]
    /\ applied = [b \in Box |-> NotApplied]
    /\ locks = {}
    /\ todo = [t \in Tick |-> {}]
    /\ job = [c \in Caller |-> [b \in Box |-> NoJob]]
    /\ crashes = 0

JobStep(c, b) ==
    \/ Ask(c, b)
    \/ BoxLists(c, b)
    \/ ListFails(c, b)
    \/ Upsert(c, b)
    \/ UpsertNothing(c, b)

Next ==
    \/ \E t \in Tick : StartTick(t) \/ NextBatch(t)
    \/ \E m \in Manual, b \in Box : StartManual(m, b)
    \/ \E c \in Caller, b \in Box : JobStep(c, b)
    \/ \E b \in Box, list \in Lists : ChangeChannels(b, list)
    \/ \E b \in Box : ChangeStatus(b) \/ DeleteBox(b)
    \/ Crash

Spec == Init /\ [][Next]_vars

\* setInterval keeps firing, batches follow one another, and every await of a
\* job is limited in time.
Fairness ==
    /\ WF_vars(\E t \in Tick : StartTick(t))
    /\ \A t \in Tick : WF_vars(NextBatch(t))
    /\ \A c \in Caller, b \in Box :
          /\ WF_vars(Ask(c, b))
          /\ WF_vars(BoxLists(c, b) \/ ListFails(c, b))
          /\ WF_vars(Upsert(c, b) \/ UpsertNothing(c, b))

FairSpec == Spec /\ Fairness

-----------------------------------------------------------------------------
(* Properties.                                                             *)

CameraRow == [status : {"online", "offline", "error"}, syncError : BOOLEAN]

TypeOK ==
    /\ boxes \in [Box -> {"active", "error", "deleted"}]
    /\ channels \in [Box -> Lists]
    /\ version \in [Box -> 0 .. MaxVersion]
    /\ cameras \in [Box -> UNION {[C -> CameraRow] : C \in SUBSET Channel}]
    /\ applied \in [Box -> [list : Lists, version : 0 .. MaxVersion,
                            polled : 0 .. MaxVersion]]
    /\ locks \in SUBSET Box
    /\ todo \in [Tick -> SUBSET Box]
    /\ job \in [Caller -> [Box -> [pc : {"none", "preparing", "listing", "listed"},
                                   list : Lists, version : 0 .. MaxVersion]]]
    /\ crashes \in Nat

Syncing(c, b) == job[c][b] # NoJob

\* The ticks of the poller, however they overlap, never sync one box twice at
\* a time.
OnePollerSync ==
    \A t, u \in Tick, b \in Box : Syncing(t, b) /\ Syncing(u, b) => t = u

\* A box is locked exactly while a tick syncs it: no failure, deletion or crash
\* leaves a lock behind, and no request takes one away.
LockedWhileSyncing == locks = {b \in Box : \E t \in Tick : Syncing(t, b)}

\* Never are more than CHANNEL_SYNC_CONCURRENCY jobs of one tick under way.
ConcurrencyLimited ==
    \A t \in Tick : Cardinality({b \in Box : Syncing(t, b)}) <= Concurrency

\* A deleted box has no cameras, and a sync that was under way brings none back.
NoOrphanCameras ==
    \A b \in Box : boxes[b] = "deleted" => DOMAIN cameras[b] = {}

\* The cameras mirror the list upserted last: a listed channel has the status
\* it was listed with and any other row is offline, whichever syncs have failed
\* since; and no sync leaves a camera of a box that was deleted meanwhile.
CamerasMirrorList ==
    /\ \A b \in Box :
          /\ DOMAIN applied[b].list \subseteq DOMAIN cameras[b]
          /\ \A ch \in DOMAIN cameras[b] :
                cameras[b][ch].status =
                    IF ch \in DOMAIN applied[b].list
                    THEN mapChannelStatus(applied[b].list[ch]) ELSE "offline"
    /\ NoOrphanCameras

\* REQ-CHAN-004: no camera row of a box that stays is ever deleted.
NoHardDelete ==
    [][\A b \in Box :
          boxes'[b] # "deleted" => DOMAIN cameras[b] \subseteq DOMAIN cameras'[b]]_vars

\* The poller's syncs of a box are upserted in the order the box listed its
\* channels in, through overlapping ticks, lists that arrive late, crashes, and
\* requests, which sync the same box and hold no lock: only a request may put
\* an older list in place of a newer one.
PollerAppliesInOrder ==
    [][\A b \in Box :
          boxes'[b] # "deleted" => applied'[b].polled >= applied[b].polled]_vars

\* A box that is asked over and over lists its channels at last, in time.
Answering(b) ==
    /\ SF_vars(\E t \in Tick : BoxLists(t, b))
    /\ SF_vars(\E t \in Tick : Upsert(t, b))

\* Each list a box has come to is upserted, or a later one, unless the box
\* leaves the active state: failing syncs of this or other boxes, overlapping
\* ticks and crashes do not stop that.
EventuallySynced ==
    \A b \in Box :
        Answering(b) =>
            \A v \in 1 .. MaxVersion :
                version[b] >= v ~> applied[b].version >= v \/ boxes[b] # "active"

\* SPEC-BOX-CHANNELS-001 REQ-CHAN-004: a sync that succeeds leaves no sync_error,
\* on the rows the box no longer lists as well.
SuccessClearsErrors ==
    [][\A b \in Box :
          applied'[b].version > applied[b].version =>
              \A ch \in DOMAIN cameras'[b] : ~cameras'[b][ch].syncError]_vars

=============================================================================
