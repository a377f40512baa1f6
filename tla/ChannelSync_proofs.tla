------------------------- MODULE ChannelSync_proofs -------------------------
(* Proofs of the safety properties of ChannelSync.                         *)
EXTENDS ChannelSync, FiniteSetTheorems, TLAPS

-----------------------------------------------------------------------------
(* Type correctness.                                                       *)

CameraRows == UNION {[C -> CameraRow] : C \in SUBSET Channel}

JobState == [pc : {"none", "preparing", "listing", "listed"},
             list : Lists, version : 0 .. MaxVersion]

AppliedLists == [list : Lists, version : 0 .. MaxVersion, polled : 0 .. MaxVersion]

LEMMA EmptyList == NoList \in Lists /\ DOMAIN NoList = {} /\ NoList \in CameraRows
<1>1. NoList \in [{} -> Reported] /\ NoList \in [{} -> CameraRow] /\ {} \in SUBSET Channel
  BY DEF NoList
<1>2. DOMAIN NoList = {}
  BY DEF NoList
<1> QED BY <1>1, <1>2 DEF Lists, CameraRows

LEMMA StartsTyped == NoJob \in JobState /\ Preparing \in JobState /\ Preparing # NoJob
  BY EmptyList, BoundsAssumption DEF NoJob, Preparing, JobState

LEMMA NotAppliedTyped == NotApplied \in AppliedLists
  BY EmptyList, BoundsAssumption DEF NotApplied, AppliedLists

LEMMA AppliedByTyped ==
    ASSUME NEW c \in Caller, NEW j \in JobState, NEW last \in AppliedLists
    PROVE  AppliedBy(c, j, last) \in AppliedLists
  BY DEF AppliedBy, JobState, AppliedLists

LEMMA StatusTyped ==
    ASSUME NEW s PROVE mapChannelStatus(s) \in {"online", "offline", "error"}
  BY DEF mapChannelStatus

\* What the transaction leaves: a row for every channel that had one or is
\* listed, with the listed status or offline.
LEMMA UpsertRowsIs ==
    ASSUME NEW rows \in CameraRows, NEW list \in Lists
    PROVE  /\ UpsertRows(rows, list) \in CameraRows
           /\ DOMAIN UpsertRows(rows, list) = DOMAIN rows \cup DOMAIN list
           /\ \A ch \in DOMAIN rows \cup DOMAIN list :
                 UpsertRows(rows, list)[ch].status =
                     IF ch \in DOMAIN list THEN mapChannelStatus(list[ch]) ELSE "offline"
<1>1. PICK C \in SUBSET Channel : rows \in [C -> CameraRow]
  BY DEF CameraRows
<1>2. PICK D \in SUBSET Channel : list \in [D -> Reported]
  BY DEF Lists
<1> DEFINE new(ch) == IF ch \in D
                      THEN [status |-> mapChannelStatus(list[ch]), syncError |-> FALSE]
                      ELSE [rows[ch] EXCEPT !.status = "offline"]
<1>3. UpsertRows(rows, list) = [ch \in C \cup D |-> new(ch)]
  BY <1>1, <1>2 DEF UpsertRows
<1>4. \A ch \in C \cup D : new(ch) \in CameraRow
  BY <1>1, StatusTyped DEF CameraRow
<1>5. UpsertRows(rows, list) \in [C \cup D -> CameraRow]
  BY <1>3, <1>4
<1>6. \A ch \in C \cup D :
         new(ch).status = IF ch \in D THEN mapChannelStatus(list[ch]) ELSE "offline"
  BY <1>1 DEF CameraRow
<1> HIDE DEF new
<1> QED BY <1>1, <1>2, <1>3, <1>5, <1>6 DEF CameraRows

\* Noting an error changes nothing else.
LEMMA RowsWithErrorIs ==
    ASSUME NEW rows \in CameraRows
    PROVE  /\ RowsWithError(rows) \in CameraRows
           /\ DOMAIN RowsWithError(rows) = DOMAIN rows
           /\ \A ch \in DOMAIN rows : RowsWithError(rows)[ch].status = rows[ch].status
<1>1. PICK C \in SUBSET Channel : rows \in [C -> CameraRow]
  BY DEF CameraRows
<1>2. RowsWithError(rows) \in [C -> CameraRow]
  BY <1>1 DEF RowsWithError, CameraRow
<1>3. \A ch \in C : RowsWithError(rows)[ch].status = rows[ch].status
  BY <1>1 DEF RowsWithError, CameraRow
<1> QED BY <1>1, <1>2, <1>3 DEF CameraRows

\* A batch: some boxes of the tick leave todo, and some of them that were not
\* locked get a job and a lock.
LEMMA StartBatchIs ==
    ASSUME TypeOK, NEW t \in Tick, NEW S \in SUBSET Box, StartBatch(t, S)
    PROVE  \E batch \in Batches(S), started \in SUBSET Box :
              /\ started \subseteq batch /\ started \cap locks = {}
              /\ todo' = [todo EXCEPT ![t] = S \ batch]
              /\ locks' = locks \cup started
              /\ job' = [job EXCEPT ![t] =
                            [b \in Box |-> IF b \in started THEN Preparing ELSE NoJob]]
<1>1. \A batch \in Batches(S) : batch \subseteq S
  BY DEF Batches, kSubset
<1>2. PICK batch \in Batches(S) :
         LET started == {b \in batch : CanAcquire(b) /\ boxes[b] # "deleted"} IN
         /\ todo' = [todo EXCEPT ![t] = S \ batch]
         /\ locks' = locks \cup started
         /\ job' = [job EXCEPT ![t] =
                       [b \in Box |-> IF b \in started THEN Preparing ELSE NoJob]]
  BY DEF StartBatch
<1> DEFINE started == {b \in batch : CanAcquire(b) /\ boxes[b] # "deleted"}
<1>3. started \in SUBSET Box /\ started \subseteq batch /\ started \cap locks = {}
  BY <1>1 DEF CanAcquire
<1>4. /\ todo' = [todo EXCEPT ![t] = S \ batch]
      /\ locks' = locks \cup started
      /\ job' = [job EXCEPT ![t] =
                    [b \in Box |-> IF b \in started THEN Preparing ELSE NoJob]]
  BY <1>2
<1> HIDE DEF started
<1> QED BY <1>3, <1>4

LEMMA StartBatchTyped ==
    ASSUME TypeOK, NEW t \in Tick, NEW S \in SUBSET Box, StartBatch(t, S)
    PROVE  /\ locks' \in SUBSET Box
           /\ todo' \in [Tick -> SUBSET Box]
           /\ job' \in [Caller -> [Box -> JobState]]
<1>1. PICK batch \in Batches(S), started \in SUBSET Box :
         /\ todo' = [todo EXCEPT ![t] = S \ batch]
         /\ locks' = locks \cup started
         /\ job' = [job EXCEPT ![t] =
                       [b \in Box |-> IF b \in started THEN Preparing ELSE NoJob]]
  BY StartBatchIs
<1>2. locks' \in SUBSET Box /\ todo' \in [Tick -> SUBSET Box]
  BY <1>1 DEF TypeOK
<1>3. [b \in Box |-> IF b \in started THEN Preparing ELSE NoJob] \in [Box -> JobState]
  BY StartsTyped
<1>4. job' \in [Caller -> [Box -> JobState]]
  BY <1>1, <1>3 DEF TypeOK, JobState
<1> QED BY <1>2, <1>4

LEMMA EndJobTyped ==
    ASSUME TypeOK, NEW c \in Caller, NEW b \in Box, EndJob(c, b)
    PROVE  /\ locks' \in SUBSET Box
           /\ job' \in [Caller -> [Box -> JobState]]
<1>1. locks' \in SUBSET Box
  BY DEF EndJob, TypeOK
<1>2. job' \in [Caller -> [Box -> JobState]]
  <2>1. job \in [Caller -> [Box -> JobState]]
    BY DEF TypeOK, JobState
  <2> QED BY <2>1, StartsTyped DEF EndJob
<1> QED BY <1>1, <1>2

LEMMA TypeStep == TypeOK /\ [Next]_vars => TypeOK'
<1> SUFFICES ASSUME TypeOK, [Next]_vars PROVE TypeOK'
  OBVIOUS
<1> USE DEF source, store, work
<1>a. /\ job \in [Caller -> [Box -> JobState]]
      /\ cameras \in [Box -> CameraRows]
      /\ applied \in [Box -> AppliedLists]
  BY DEF TypeOK, JobState, CameraRows, AppliedLists
<1>1. ASSUME NEW t \in Tick, StartTick(t) PROVE TypeOK'
  <2>1. ActiveBoxes \in SUBSET Box
    BY DEF ActiveBoxes
  <2> QED BY <1>1, <2>1, StartBatchTyped DEF StartTick, TypeOK, JobState
<1>2. ASSUME NEW t \in Tick, NextBatch(t) PROVE TypeOK'
  <2>1. todo[t] \in SUBSET Box
    BY DEF TypeOK
  <2> QED BY <1>2, <2>1, StartBatchTyped DEF NextBatch, TypeOK, JobState
<1>3. ASSUME NEW m \in Manual, NEW b \in Box, StartManual(m, b) PROVE TypeOK'
  <2>1. job' \in [Caller -> [Box -> JobState]]
    BY <1>3, <1>a, StartsTyped DEF StartManual, Caller
  <2> QED BY <1>3, <2>1 DEF StartManual, TypeOK, JobState
<1>4. ASSUME NEW c \in Caller, NEW b \in Box, Ask(c, b) PROVE TypeOK'
  <2>1. job' \in [Caller -> [Box -> JobState]]
    BY <1>4, <1>a DEF Ask, JobState
  <2> QED BY <1>4, <2>1 DEF Ask, TypeOK, JobState
<1>5. ASSUME NEW c \in Caller, NEW b \in Box, BoxLists(c, b) PROVE TypeOK'
  <2>1. [pc |-> "listed", list |-> channels[b], version |-> version[b]] \in JobState
    BY DEF TypeOK, JobState
  <2>2. job' \in [Caller -> [Box -> JobState]]
    BY <1>5, <1>a, <2>1 DEF BoxLists
  <2> QED BY <1>5, <2>2 DEF BoxLists, TypeOK, JobState
<1>6. ASSUME NEW c \in Caller, NEW b \in Box, ListFails(c, b) PROVE TypeOK'
  <2>1. cameras' \in [Box -> CameraRows]
    BY <1>6, <1>a, RowsWithErrorIs DEF ListFails
  <2> QED BY <1>6, <2>1, EndJobTyped DEF ListFails, FailJob, TypeOK, JobState, CameraRows
<1>7. ASSUME NEW c \in Caller, NEW b \in Box, Upsert(c, b) PROVE TypeOK'
  <2>0. job[c][b] \in JobState
    BY <1>a
  <2>1. cameras' \in [Box -> CameraRows]
    BY <1>7, <1>a, <2>0, UpsertRowsIs DEF Upsert, JobState
  <2>2. applied' \in [Box -> AppliedLists]
    BY <1>7, <1>a, <2>0, AppliedByTyped DEF Upsert
  <2> QED
    BY <1>7, <2>1, <2>2, EndJobTyped DEF Upsert, TypeOK, JobState, CameraRows, AppliedLists
<1>8. ASSUME NEW c \in Caller, NEW b \in Box, UpsertNothing(c, b) PROVE TypeOK'
  BY <1>8, EndJobTyped DEF UpsertNothing, FailJob, TypeOK, JobState
<1>9. ASSUME NEW b \in Box, NEW list \in Lists, ChangeChannels(b, list) PROVE TypeOK'
  BY <1>9, BoundsAssumption DEF ChangeChannels, TypeOK
<1>10. ASSUME NEW b \in Box, ChangeStatus(b) PROVE TypeOK'
  BY <1>10 DEF ChangeStatus, TypeOK
<1>11. ASSUME NEW b \in Box, DeleteBox(b) PROVE TypeOK'
  <2>1. cameras' \in [Box -> CameraRows]
    BY <1>11, <1>a, EmptyList DEF DeleteBox
  <2>2. applied' \in [Box -> AppliedLists]
    BY <1>11, <1>a, NotAppliedTyped DEF DeleteBox
  <2> QED BY <1>11, <2>1, <2>2 DEF DeleteBox, TypeOK, CameraRows, AppliedLists
<1>12. CASE Crash
  <2>1. job' \in [Caller -> [Box -> JobState]]
    BY <1>12, StartsTyped DEF Crash
  <2> QED BY <1>12, <2>1 DEF Crash, TypeOK, JobState
<1>13. CASE UNCHANGED vars
  BY <1>13 DEF vars, TypeOK
<1> QED
  BY <1>1, <1>2, <1>3, <1>4, <1>5, <1>6, <1>7, <1>8, <1>9, <1>10, <1>11, <1>12, <1>13
  DEF Next, JobStep

LEMMA InitTyped == Init => TypeOK
<1> SUFFICES ASSUME Init PROVE TypeOK
  OBVIOUS
<1>1. /\ cameras \in [Box -> CameraRows] /\ channels \in [Box -> Lists]
      /\ applied \in [Box -> AppliedLists]
  BY EmptyList, NotAppliedTyped DEF Init
<1>2. job \in [Caller -> [Box -> JobState]]
  BY StartsTyped DEF Init
<1> QED BY <1>1, <1>2, BoundsAssumption DEF Init, TypeOK, JobState, CameraRows, AppliedLists

\* Every variable keeps its type, for any number of boxes, channels, ticks and
\* requests: in particular a camera's status is one of the three the database
\* allows, whatever states the box lists.
THEOREM TypeCorrect == Spec => []TypeOK
<1>1. Init => TypeOK
  BY InitTyped
<1>2. TypeOK /\ [Next]_vars => TypeOK'
  BY TypeStep
<1> QED BY <1>1, <1>2, PTL DEF Spec

-----------------------------------------------------------------------------
(* The lock: it is held exactly while a tick syncs, and by one tick.       *)

LockInv == OnePollerSync /\ LockedWhileSyncing

\* A new batch gives jobs to boxes that were not locked, and locks them.
LEMMA StartBatchLocks ==
    ASSUME TypeOK, LockInv, NEW t \in Tick, NEW S \in SUBSET Box,
           IdleCaller(t), StartBatch(t, S)
    PROVE  LockInv'
<1>1. PICK batch \in Batches(S), started \in SUBSET Box :
         /\ started \cap locks = {}
         /\ locks' = locks \cup started
         /\ job' = [job EXCEPT ![t] =
                       [b \in Box |-> IF b \in started THEN Preparing ELSE NoJob]]
  BY StartBatchIs
<1>2. \A u \in Tick \ {t}, b \in Box : Syncing(u, b)' <=> Syncing(u, b)
  BY <1>1 DEF Syncing
<1>3. \A b \in Box : ~Syncing(t, b)
  BY DEF IdleCaller, Syncing
<1>4. \A b \in Box : Syncing(t, b)' <=> b \in started
  <2>1. \A b \in Box : job'[t][b] = IF b \in started THEN Preparing ELSE NoJob
    BY <1>1 DEF TypeOK, Caller
  <2> QED BY <2>1, StartsTyped DEF Syncing
<1>5. locks = {b \in Box : \E u \in Tick : Syncing(u, b)}
  BY DEF LockInv, LockedWhileSyncing
<1>6. OnePollerSync'
  <2> SUFFICES ASSUME NEW u \in Tick, NEW v \in Tick, NEW b \in Box,
                      Syncing(u, b)', Syncing(v, b)'
               PROVE  u = v
    BY DEF OnePollerSync
  <2>1. CASE b \in started
    BY <2>1, <1>1, <1>2, <1>5
  <2>2. CASE b \notin started
    BY <2>2, <1>2, <1>4 DEF LockInv, OnePollerSync
  <2> QED BY <2>1, <2>2
<1>7. \A b \in Box : b \in locks' <=> \E u \in Tick : Syncing(u, b)'
  BY <1>1, <1>2, <1>3, <1>4, <1>5
<1> QED BY <1>1, <1>5, <1>6, <1>7 DEF LockInv, LockedWhileSyncing

\* The end of a tick's job unlocks the box, that of a request's job does not.
LEMMA EndJobLocks ==
    ASSUME TypeOK, LockInv, NEW c \in Caller, NEW b \in Box,
           job[c][b].pc # "none", EndJob(c, b)
    PROVE  LockInv'
<1>1. \A d \in Caller, e \in Box :
         Syncing(d, e)' <=> Syncing(d, e) /\ ~(d = c /\ e = b)
  BY DEF EndJob, Syncing, TypeOK
<1>2. Syncing(c, b)
  BY DEF Syncing, NoJob
<1>3. OnePollerSync'
  BY <1>1 DEF LockInv, OnePollerSync, Caller
<1>4. CASE c \in Tick
  <2>1. locks' = locks \ {b}
    BY <1>4 DEF EndJob
  <2>2. \A e \in Box : e \in locks' <=> \E u \in Tick : Syncing(u, e)'
    BY <1>1, <1>2, <1>4, <2>1 DEF LockInv, OnePollerSync, LockedWhileSyncing, Caller
  <2> QED BY <1>3, <2>1, <2>2 DEF LockInv, LockedWhileSyncing
<1>5. CASE c \notin Tick
  <2>1. \A u \in Tick, e \in Box : Syncing(u, e)' <=> Syncing(u, e)
    BY <1>1, <1>5 DEF Caller
  <2>2. locks' = locks
    BY <1>5 DEF EndJob
  <2> QED BY <1>3, <2>1, <2>2 DEF LockInv, LockedWhileSyncing
<1> QED BY <1>4, <1>5

\* A job that goes on, or is a request's, concerns no lock.
LEMMA OtherJobsLocks ==
    ASSUME LockInv, UNCHANGED locks,
           \A u \in Tick, b \in Box : Syncing(u, b)' <=> Syncing(u, b)
    PROVE  LockInv'
  BY DEF LockInv, OnePollerSync, LockedWhileSyncing

LEMMA LockStep == TypeOK /\ LockInv /\ [Next]_vars => LockInv'
<1> SUFFICES ASSUME TypeOK, LockInv, [Next]_vars PROVE LockInv'
  OBVIOUS
<1> USE DEF source, store, work
<1>1. ASSUME NEW t \in Tick, StartTick(t) PROVE LockInv'
  BY <1>1, StartBatchLocks DEF StartTick, ActiveBoxes
<1>2. ASSUME NEW t \in Tick, NextBatch(t) PROVE LockInv'
  BY <1>2, StartBatchLocks DEF NextBatch, TypeOK
<1>3. ASSUME NEW m \in Manual, NEW b \in Box, StartManual(m, b) PROVE LockInv'
  <2>1. \A u \in Tick, e \in Box : Syncing(u, e)' <=> Syncing(u, e)
    BY <1>3, CallerAssumption DEF StartManual, Syncing, TypeOK, Caller
  <2> QED BY <1>3, <2>1, OtherJobsLocks DEF StartManual
<1>4. ASSUME NEW c \in Caller, NEW b \in Box, Ask(c, b) \/ BoxLists(c, b)
      PROVE LockInv'
  <2>1. job[c][b] # NoJob /\ job'[c][b] # NoJob
    BY <1>4 DEF Ask, BoxLists, NoJob, TypeOK
  <2>2. \A d \in Caller, e \in Box :
           (d # c \/ e # b) => job'[d][e] = job[d][e]
    <3>1. CASE Ask(c, b)
      BY <3>1 DEF Ask, TypeOK
    <3>2. CASE BoxLists(c, b)
      BY <3>2 DEF BoxLists, TypeOK
    <3> QED BY <1>4, <3>1, <3>2
  <2>3. \A u \in Tick, e \in Box : Syncing(u, e)' <=> Syncing(u, e)
    BY <2>1, <2>2 DEF Syncing, Caller
  <2> QED BY <1>4, <2>3, OtherJobsLocks DEF Ask, BoxLists
<1>5. ASSUME NEW c \in Caller, NEW b \in Box,
             ListFails(c, b) \/ Upsert(c, b) \/ UpsertNothing(c, b)
      PROVE LockInv'
  BY <1>5, EndJobLocks DEF ListFails, Upsert, UpsertNothing, FailJob
<1>6. CASE Crash
  BY <1>6 DEF Crash, LockInv, OnePollerSync, LockedWhileSyncing, Syncing, Caller
<1>7. CASE UNCHANGED <<job, locks>>
  BY <1>7, OtherJobsLocks DEF Syncing
<1> QED
  BY <1>1, <1>2, <1>3, <1>4, <1>5, <1>6, <1>7
  DEF Next, JobStep, ChangeChannels, ChangeStatus, DeleteBox, vars

LEMMA LockInvariance == Spec => [](TypeOK /\ LockInv)
<1>1. Init => TypeOK /\ LockInv
  <2>1. Init => TypeOK
    BY InitTyped
  <2>2. Init => LockInv
    BY DEF Init, LockInv, OnePollerSync, LockedWhileSyncing, Syncing, Caller
  <2> QED BY <2>1, <2>2
<1> QED BY <1>1, TypeStep, LockStep, PTL DEF Spec

\* However many ticks overlap, one at most syncs a box.
THEOREM OnePollerSyncAlways == Spec => []OnePollerSync
<1>1. LockInv => OnePollerSync
  BY DEF LockInv
<1> QED BY <1>1, LockInvariance, PTL

\* A box is locked exactly while a tick syncs it: no failure, deletion or crash
\* leaves a lock behind, and no request takes one away.
THEOREM LockedWhileSyncingAlways == Spec => []LockedWhileSyncing
<1>1. LockInv => LockedWhileSyncing
  BY DEF LockInv
<1> QED BY <1>1, LockInvariance, PTL

-----------------------------------------------------------------------------
(* The cameras.                                                            *)

\* CamerasMirrorList, its parts apart.
StatusesMirror ==
    \A b \in Box :
        /\ DOMAIN applied[b].list \subseteq DOMAIN cameras[b]
        /\ \A ch \in DOMAIN cameras[b] :
              cameras[b][ch].status =
                  IF ch \in DOMAIN applied[b].list
                  THEN mapChannelStatus(applied[b].list[ch]) ELSE "offline"

CameraInv == StatusesMirror /\ NoOrphanCameras

LEMMA CameraStep == TypeOK /\ CameraInv /\ [Next]_vars => CameraInv'
<1> SUFFICES ASSUME TypeOK, CameraInv, [Next]_vars PROVE CameraInv'
  OBVIOUS
<1> USE DEF source, store, work
<1>a. /\ cameras \in [Box -> CameraRows]
      /\ job \in [Caller -> [Box -> JobState]]
  BY DEF TypeOK, CameraRows, JobState
<1>1. ASSUME NEW c \in Caller, NEW b \in Box, ListFails(c, b) PROVE CameraInv'
  <2>1. cameras' = [cameras EXCEPT ![b] = RowsWithError(@)] /\ UNCHANGED <<boxes, applied>>
    BY <1>1 DEF ListFails
  <2>2. \A e \in Box : /\ DOMAIN cameras'[e] = DOMAIN cameras[e]
                       /\ \A ch \in DOMAIN cameras[e] :
                             cameras'[e][ch].status = cameras[e][ch].status
    BY <1>a, <2>1, RowsWithErrorIs
  <2>3. StatusesMirror'
    BY <2>1, <2>2 DEF CameraInv, StatusesMirror
  <2>4. NoOrphanCameras'
    BY <2>1, <2>2 DEF CameraInv, NoOrphanCameras
  <2> QED BY <2>3, <2>4 DEF CameraInv
<1>2. ASSUME NEW c \in Caller, NEW b \in Box, Upsert(c, b) PROVE CameraInv'
  <2> DEFINE list == job[c][b].list
  <2>1. list \in Lists
    BY <1>a DEF JobState
  <2>2. /\ cameras' = [cameras EXCEPT ![b] = UpsertRows(cameras[b], list)]
        /\ applied' = [applied EXCEPT ![b] = AppliedBy(c, job[c][b], applied[b])]
        /\ AppliedBy(c, job[c][b], applied[b]).list = list
        /\ boxes' = boxes /\ boxes[b] # "deleted"
    BY <1>2 DEF Upsert, HasBoxRow, AppliedBy
  <2>3. cameras[b] \in CameraRows
    BY <1>a
  <2> HIDE DEF list
  <2>4. /\ cameras'[b] = UpsertRows(cameras[b], list) /\ applied'[b].list = list
        /\ \A e \in Box \ {b} : cameras'[e] = cameras[e] /\ applied'[e] = applied[e]
    BY <2>2 DEF TypeOK
  <2>5. StatusesMirror'
    <3> SUFFICES ASSUME NEW e \in Box
                 PROVE  /\ DOMAIN applied'[e].list \subseteq DOMAIN cameras'[e]
                        /\ \A ch \in DOMAIN cameras'[e] :
                              cameras'[e][ch].status =
                                  IF ch \in DOMAIN applied'[e].list
                                  THEN mapChannelStatus(applied'[e].list[ch]) ELSE "offline"
      BY DEF StatusesMirror, mapChannelStatus
    <3>1. CASE e = b
      <4> DEFINE rows == UpsertRows(cameras[b], list)
      <4>1. /\ DOMAIN rows = DOMAIN cameras[b] \cup DOMAIN list
            /\ \A ch \in DOMAIN cameras[b] \cup DOMAIN list :
                  rows[ch].status =
                      IF ch \in DOMAIN list THEN mapChannelStatus(list[ch]) ELSE "offline"
        BY <2>1, <2>3, UpsertRowsIs
      <4>2. cameras'[e] = rows /\ applied'[e].list = list
        BY <3>1, <2>4
      <4> HIDE DEF rows
      <4> QED BY <4>1, <4>2
    <3>2. CASE e # b
      BY <3>2, <2>4 DEF CameraInv, StatusesMirror
    <3> QED BY <3>1, <3>2
  <2>6. NoOrphanCameras'
    BY <2>2, <2>4 DEF CameraInv, NoOrphanCameras
  <2> QED BY <2>5, <2>6 DEF CameraInv
<1>3. ASSUME NEW b \in Box, DeleteBox(b) PROVE CameraInv'
  <2>1. /\ cameras'[b] = NoList /\ applied'[b].list = NoList
        /\ \A e \in Box \ {b} : /\ cameras'[e] = cameras[e] /\ applied'[e] = applied[e]
                                /\ boxes'[e] = boxes[e]
    BY <1>3 DEF DeleteBox, TypeOK, NotApplied
  <2>2. StatusesMirror'
    BY <2>1, EmptyList DEF CameraInv, StatusesMirror, mapChannelStatus
  <2>3. NoOrphanCameras'
    BY <2>1, EmptyList DEF CameraInv, NoOrphanCameras
  <2> QED BY <2>2, <2>3 DEF CameraInv
<1>4. ASSUME NEW b \in Box, ChangeStatus(b) PROVE CameraInv'
  BY <1>4 DEF ChangeStatus, TypeOK, CameraInv, StatusesMirror, NoOrphanCameras
<1>5. CASE UNCHANGED <<boxes, cameras, applied>>
  BY <1>5 DEF CameraInv, StatusesMirror, NoOrphanCameras
<1> QED
  BY <1>1, <1>2, <1>3, <1>4, <1>5
  DEF Next, JobStep, StartTick, NextBatch, StartManual, Ask, BoxLists,
      UpsertNothing, ChangeChannels, Crash, vars

LEMMA CameraInvariance == Spec => []CameraInv
<1>1. Init => CameraInv
  BY EmptyList DEF Init, NotApplied, CameraInv, StatusesMirror, NoOrphanCameras
<1> QED BY <1>1, InitTyped, TypeStep, CameraStep, PTL DEF Spec

\* The cameras mirror the list upserted last, whichever syncs have failed since,
\* and a deleted box has none.
THEOREM CamerasMirrorListAlways == Spec => []CamerasMirrorList
<1>1. CameraInv => CamerasMirrorList
  BY DEF CameraInv, StatusesMirror, CamerasMirrorList
<1> QED BY <1>1, CameraInvariance, PTL

\* A deleted box has no cameras, and a sync that was under way brings none back.
THEOREM NoOrphanCamerasAlways == Spec => []NoOrphanCameras
<1>1. CameraInv => NoOrphanCameras
  BY DEF CameraInv
<1> QED BY <1>1, CameraInvariance, PTL

\* No step deletes a camera row of a box that stays.
THEOREM NoHardDeleteEver == Spec => NoHardDelete
<1> DEFINE Kept == \A b \in Box :
              boxes'[b] # "deleted" => DOMAIN cameras[b] \subseteq DOMAIN cameras'[b]
<1>1. TypeOK /\ [Next]_vars => [Kept]_vars
  <2> SUFFICES ASSUME TypeOK, Next PROVE Kept
    OBVIOUS
  <2>a. /\ cameras \in [Box -> CameraRows]
        /\ job \in [Caller -> [Box -> JobState]]
    BY DEF TypeOK, CameraRows, JobState
  <2>1. ASSUME NEW c \in Caller, NEW b \in Box, ListFails(c, b) PROVE Kept
    BY <2>1, <2>a, RowsWithErrorIs DEF ListFails
  <2>2. ASSUME NEW c \in Caller, NEW b \in Box, Upsert(c, b) PROVE Kept
    <3> DEFINE list == job[c][b].list
               rows == UpsertRows(cameras[b], list)
    <3>1. list \in Lists /\ cameras[b] \in CameraRows
      BY <2>a DEF JobState
    <3>2. cameras' = [cameras EXCEPT ![b] = rows]
      BY <2>2 DEF Upsert
    <3> HIDE DEF list
    <3>3. DOMAIN rows = DOMAIN cameras[b] \cup DOMAIN list
      BY <3>1, UpsertRowsIs
    <3>4. DOMAIN cameras[b] \subseteq DOMAIN rows
      BY <3>3
    <3> HIDE DEF rows
    <3>5. cameras'[b] = rows /\ \A e \in Box \ {b} : cameras'[e] = cameras[e]
      BY <3>2, <2>a
    <3> QED BY <3>4, <3>5
  <2>3. ASSUME NEW b \in Box, DeleteBox(b) PROVE Kept
    BY <2>3, <2>a DEF DeleteBox, TypeOK
  <2>4. CASE UNCHANGED cameras
    BY <2>4
  <2> QED
    BY <2>1, <2>2, <2>3, <2>4
    DEF Next, JobStep, StartTick, NextBatch, StartManual, Ask, BoxLists,
        UpsertNothing, ChangeChannels, ChangeStatus, Crash, store
<1> QED BY <1>1, TypeCorrect, PTL DEF Spec, NoHardDelete

-----------------------------------------------------------------------------
(* The order of the poller's upserts.                                      *)

\* Lists are not newer than the box's, and an answer under way to the poller is
\* not older than what the poller upserted last.
OrderInv ==
    /\ \A b \in Box : applied[b].polled <= version[b]
    /\ \A t \in Tick, b \in Box :
          job[t][b].pc = "listed" => applied[b].polled <= job[t][b].version
    /\ \A t \in Tick, b \in Box :
          job[t][b].pc = "listed" => job[t][b].version <= version[b]

\* Steps that put no answer under way and upsert nothing.
LEMMA OrderStays ==
    ASSUME OrderInv,
           \A b \in Box : applied'[b].polled = applied[b].polled,
           \A b \in Box : version'[b] = version[b],
           \A c \in Caller, b \in Box :
               job'[c][b].pc = "listed" => job'[c][b] = job[c][b]
    PROVE  OrderInv'
  BY DEF OrderInv, Caller

LEMMA OrderStep == TypeOK /\ LockInv /\ OrderInv /\ [Next]_vars => OrderInv'
<1> SUFFICES ASSUME TypeOK, LockInv, OrderInv, [Next]_vars PROVE OrderInv'
  OBVIOUS
<1> USE DEF source, store, work
<1>0. /\ \A b \in Box : version[b] \in Nat /\ applied[b].polled \in Nat
      /\ \A c \in Caller, b \in Box : job[c][b].version \in Nat
  BY BoundsAssumption DEF TypeOK
<1>1. ASSUME NEW t \in Tick, NEW S \in SUBSET Box, StartBatch(t, S),
             UNCHANGED <<version, applied>>
      PROVE OrderInv'
  <2>1. PICK started \in SUBSET Box :
           job' = [job EXCEPT ![t] =
                      [b \in Box |-> IF b \in started THEN Preparing ELSE NoJob]]
    BY <1>1, StartBatchIs
  <2>2. \A c \in Caller, b \in Box :
           job'[c][b].pc = "listed" => job'[c][b] = job[c][b]
    BY <2>1 DEF Preparing, NoJob, TypeOK, Caller
  <2> QED BY <1>1, <2>2, OrderStays
<1>2. ASSUME NEW m \in Manual, NEW b \in Box, StartManual(m, b) PROVE OrderInv'
  <2>1. \A c \in Caller, e \in Box :
           job'[c][e].pc = "listed" => job'[c][e] = job[c][e]
    BY <1>2 DEF StartManual, Preparing, NoJob, TypeOK, Caller
  <2> QED BY <1>2, <2>1, OrderStays DEF StartManual
<1>3. ASSUME NEW c \in Caller, NEW b \in Box, Ask(c, b) PROVE OrderInv'
  <2>1. \A d \in Caller, e \in Box :
           job'[d][e].pc = "listed" => job'[d][e] = job[d][e]
    BY <1>3 DEF Ask, TypeOK
  <2> QED BY <1>3, <2>1, OrderStays DEF Ask
<1>4. ASSUME NEW c \in Caller, NEW b \in Box, BoxLists(c, b) PROVE OrderInv'
  <2>1. /\ job'[c][b].version = version[b]
        /\ \A d \in Caller, e \in Box :
              (d # c \/ e # b) => job'[d][e] = job[d][e]
        /\ UNCHANGED <<version, applied>>
    BY <1>4 DEF BoxLists, TypeOK
  <2> QED BY <1>0, <2>1 DEF OrderInv, Caller
<1>5. ASSUME NEW c \in Caller, NEW b \in Box, EndJob(c, b) PROVE
         /\ job'[c][b] = NoJob
         /\ \A d \in Caller, e \in Box :
               (d # c \/ e # b) => job'[d][e] = job[d][e]
  BY <1>5 DEF EndJob, TypeOK
<1>6. ASSUME NEW c \in Caller, NEW b \in Box, ListFails(c, b) \/ UpsertNothing(c, b)
      PROVE OrderInv'
  <2>1. \A d \in Caller, e \in Box :
           job'[d][e].pc = "listed" => job'[d][e] = job[d][e]
    BY <1>5, <1>6 DEF ListFails, UpsertNothing, FailJob, NoJob
  <2> QED BY <1>6, <2>1, OrderStays DEF ListFails, UpsertNothing
<1>7. ASSUME NEW c \in Caller, NEW b \in Box, Upsert(c, b) PROVE OrderInv'
  <2>1. /\ EndJob(c, b) /\ version' = version /\ job[c][b].pc = "listed"
        /\ applied'[b].polled = IF c \in Tick THEN job[c][b].version ELSE applied[b].polled
        /\ \A e \in Box \ {b} : applied'[e] = applied[e]
    BY <1>7 DEF Upsert, AppliedBy, TypeOK
  <2>2. \A d \in Caller, e \in Box :
           job'[d][e].pc = "listed" => (d # c \/ e # b) /\ job'[d][e] = job[d][e]
    BY <2>1, <1>5 DEF NoJob
  <2>3. ASSUME c \in Tick, NEW t \in Tick, job'[t][b].pc = "listed" PROVE FALSE
    <3>1. Syncing(t, b) /\ Syncing(c, b) /\ t # c
      BY <2>1, <2>2, <2>3 DEF Syncing, NoJob, Caller
    <3> QED BY <3>1, <2>3 DEF LockInv, OnePollerSync
  <2>4. \A e \in Box : applied'[e].polled <= version'[e]
    BY <2>1 DEF OrderInv
  <2>5. \A t \in Tick, e \in Box :
           job'[t][e].pc = "listed" => job'[t][e].version <= version'[e]
    BY <2>1, <2>2 DEF OrderInv, Caller
  <2>6. \A t \in Tick, e \in Box :
           job'[t][e].pc = "listed" => applied'[e].polled <= job'[t][e].version
    BY <2>1, <2>2, <2>3 DEF OrderInv, Caller
  <2> QED BY <2>4, <2>5, <2>6 DEF OrderInv
<1>8. ASSUME NEW b \in Box, NEW list \in Lists, ChangeChannels(b, list) PROVE OrderInv'
  <2>1. /\ \A e \in Box : version'[e] \in Nat /\ version[e] <= version'[e]
        /\ UNCHANGED <<applied, job>>
    BY <1>8, <1>0 DEF ChangeChannels, TypeOK
  <2> QED BY <1>0, <2>1 DEF OrderInv, Caller
<1>9. ASSUME NEW b \in Box, DeleteBox(b) PROVE OrderInv'
  <2>1. /\ applied'[b].polled = 0 /\ UNCHANGED <<version, job>>
        /\ \A e \in Box \ {b} : applied'[e] = applied[e]
    BY <1>9 DEF DeleteBox, NotApplied, TypeOK
  <2> QED BY <1>0, <2>1 DEF OrderInv, Caller
<1>10. CASE Crash
  <2>1. \A d \in Caller, e \in Box : job'[d][e].pc # "listed"
    BY <1>10 DEF Crash, NoJob
  <2> QED BY <1>10, <2>1, OrderStays DEF Crash
<1>11. CASE UNCHANGED <<version, applied, job>>
  BY <1>11 DEF OrderInv
<1>12. ASSUME NEW t \in Tick, StartTick(t) \/ NextBatch(t) PROVE OrderInv'
  <2>1. ActiveBoxes \in SUBSET Box /\ todo[t] \in SUBSET Box
    BY DEF ActiveBoxes, TypeOK
  <2> QED BY <1>1, <1>12, <2>1 DEF StartTick, NextBatch
<1> QED
  BY <1>2, <1>3, <1>4, <1>6, <1>7, <1>8, <1>9, <1>10, <1>11, <1>12
  DEF Next, JobStep, ChangeStatus, vars

\* The poller never upserts an older list of a box after a newer one of its
\* own, whichever ticks overlap and whatever requests sync the box beside it.
THEOREM PollerAppliesInOrderEver == Spec => PollerAppliesInOrder
<1> DEFINE Ordered == \A b \in Box :
              boxes'[b] # "deleted" => applied'[b].polled >= applied[b].polled
<1>1. Init => OrderInv
  BY DEF Init, OrderInv, NotApplied, NoJob, Caller
<1>2. TypeOK /\ OrderInv /\ [Next]_vars => [Ordered]_vars
  <2> SUFFICES ASSUME TypeOK, OrderInv, Next PROVE Ordered
    OBVIOUS
  <2>0. \A b \in Box : applied[b].polled \in Nat
    BY BoundsAssumption DEF TypeOK
  <2>1. ASSUME NEW c \in Caller, NEW b \in Box, Upsert(c, b) PROVE Ordered
    <3>1. /\ applied'[b].polled = IF c \in Tick THEN job[c][b].version ELSE applied[b].polled
          /\ job[c][b].pc = "listed" /\ job[c][b].version \in Nat
          /\ \A e \in Box \ {b} : applied'[e] = applied[e]
      BY <2>1, BoundsAssumption DEF Upsert, AppliedBy, TypeOK
    <3> QED BY <2>0, <3>1 DEF OrderInv
  <2>2. ASSUME NEW b \in Box, DeleteBox(b) PROVE Ordered
    BY <2>0, <2>2 DEF DeleteBox, TypeOK
  <2>3. CASE UNCHANGED applied
    BY <2>0, <2>3
  <2> QED
    BY <2>1, <2>2, <2>3
    DEF Next, JobStep, StartTick, NextBatch, StartManual, Ask, BoxLists, ListFails,
        UpsertNothing, ChangeChannels, ChangeStatus, Crash, store
<1> QED BY <1>1, <1>2, LockInvariance, OrderStep, PTL DEF Spec, PollerAppliesInOrder

-----------------------------------------------------------------------------
(* The limit of jobs under way.                                            *)

\* The boxes a caller syncs.
SyncedBy(c) == {b \in Box : Syncing(c, b)}

\* A tick syncs no more boxes after a step than before it.
LEMMA LimitStays ==
    ASSUME ConcurrencyLimited,
           \A t \in Tick, b \in Box : Syncing(t, b)' => Syncing(t, b)
    PROVE  ConcurrencyLimited'
<1> SUFFICES ASSUME NEW t \in Tick PROVE Cardinality(SyncedBy(t)') <= Concurrency
  BY DEF ConcurrencyLimited, SyncedBy
<1>1. SyncedBy(t)' \in SUBSET SyncedBy(t)
  BY DEF SyncedBy
<1>2. SyncedBy(t) \in SUBSET Box
  BY DEF SyncedBy
<1>3. IsFiniteSet(SyncedBy(t))
  BY <1>2, BoxAssumption, FS_Subset
<1>4. /\ IsFiniteSet(SyncedBy(t)')
      /\ Cardinality(SyncedBy(t)') <= Cardinality(SyncedBy(t))
  BY <1>1, <1>3, FS_Subset
<1>5. Cardinality(SyncedBy(t)) <= Concurrency
  BY DEF ConcurrencyLimited, SyncedBy
<1>6. Cardinality(SyncedBy(t)) \in Nat /\ Cardinality(SyncedBy(t)') \in Nat
  BY <1>3, <1>4, FS_CardinalityType
<1> QED BY <1>4, <1>5, <1>6, BoundsAssumption

LEMMA BatchLimited ==
    ASSUME NEW S \in SUBSET Box, NEW batch \in Batches(S)
    PROVE  batch \in SUBSET Box /\ Cardinality(batch) <= Concurrency
<1>1. Cardinality(S) \in Nat
  BY BoxAssumption, FS_Subset, FS_CardinalityType
<1> QED BY <1>1, BoundsAssumption DEF Batches, kSubset

LEMMA LimitStep == TypeOK /\ ConcurrencyLimited /\ [Next]_vars => ConcurrencyLimited'
<1> SUFFICES ASSUME TypeOK, ConcurrencyLimited, [Next]_vars PROVE ConcurrencyLimited'
  OBVIOUS
<1> USE DEF source, store, work
<1>1. ASSUME NEW t \in Tick, NEW S \in SUBSET Box, StartBatch(t, S)
      PROVE  ConcurrencyLimited'
  <2>1. PICK batch \in Batches(S), started \in SUBSET Box :
           /\ started \subseteq batch /\ started \cap locks = {}
           /\ todo' = [todo EXCEPT ![t] = S \ batch]
           /\ locks' = locks \cup started
           /\ job' = [job EXCEPT ![t] =
                         [b \in Box |-> IF b \in started THEN Preparing ELSE NoJob]]
    BY <1>1, StartBatchIs
  <2>2. SyncedBy(t)' \in SUBSET batch
    <3>1. \A b \in Box : job'[t][b] = IF b \in started THEN Preparing ELSE NoJob
      BY <2>1 DEF TypeOK, Caller
    <3> QED BY <2>1, <3>1 DEF SyncedBy, Syncing
  <2>3. Cardinality(SyncedBy(t)') <= Concurrency
    <3>1. batch \in SUBSET Box /\ Cardinality(batch) <= Concurrency
      BY BatchLimited
    <3>2. IsFiniteSet(batch)
      BY <3>1, BoxAssumption, FS_Subset
    <3>3. IsFiniteSet(SyncedBy(t)') /\ Cardinality(SyncedBy(t)') <= Cardinality(batch)
      BY <2>2, <3>2, FS_Subset
    <3>4. Cardinality(batch) \in Nat /\ Cardinality(SyncedBy(t)') \in Nat
      BY <3>2, <3>3, FS_CardinalityType
    <3> QED BY <3>1, <3>3, <3>4, BoundsAssumption
  <2>4. \A u \in Tick \ {t}, b \in Box : job'[u][b] = job[u][b]
    BY <2>1 DEF TypeOK, Caller
  <2>5. ASSUME NEW u \in Tick \ {t} PROVE SyncedBy(u)' = SyncedBy(u)
    BY <2>4 DEF SyncedBy, Syncing
  <2>6. \A u \in Tick : Cardinality(SyncedBy(u)) <= Concurrency
    BY DEF ConcurrencyLimited, SyncedBy
  <2>7. \A u \in Tick : Cardinality(SyncedBy(u)') <= Concurrency
    BY <2>3, <2>5, <2>6
  <2> QED BY <2>7 DEF ConcurrencyLimited, SyncedBy
<1>2. ASSUME NEW t \in Tick, StartTick(t) \/ NextBatch(t) PROVE ConcurrencyLimited'
  <2>1. ActiveBoxes \in SUBSET Box /\ todo[t] \in SUBSET Box
    BY DEF ActiveBoxes, TypeOK
  <2> QED BY <1>1, <1>2, <2>1 DEF StartTick, NextBatch
<1>3. ASSUME NEW m \in Manual, NEW b \in Box, StartManual(m, b)
      PROVE  ConcurrencyLimited'
  <2>1. \A u \in Tick, e \in Box : job'[u][e] = job[u][e]
    BY <1>3, CallerAssumption DEF StartManual, TypeOK, Caller
  <2> QED BY <2>1, LimitStays DEF Syncing
<1>4. ASSUME NEW c \in Caller, NEW b \in Box, job[c][b] # NoJob,
             \A d \in Caller, e \in Box :
                 (d # c \/ e # b) => job'[d][e] = job[d][e]
      PROVE  ConcurrencyLimited'
  BY <1>4, LimitStays DEF Syncing, Caller
<1>5. ASSUME NEW c \in Caller, NEW b \in Box, JobStep(c, b) PROVE ConcurrencyLimited'
  <2>1. job[c][b] # NoJob
    BY <1>5 DEF JobStep, Ask, BoxLists, ListFails, Upsert, UpsertNothing, NoJob
  <2>2. CASE EndJob(c, b)
    <3>1. \A d \in Caller, e \in Box :
             (d # c \/ e # b) => job'[d][e] = job[d][e]
      BY <2>2 DEF EndJob, TypeOK
    <3> QED BY <1>4, <2>1, <3>1
  <2>3. CASE Ask(c, b)
    <3>1. \A d \in Caller, e \in Box :
             (d # c \/ e # b) => job'[d][e] = job[d][e]
      BY <2>3 DEF Ask, TypeOK
    <3> QED BY <1>4, <2>1, <3>1
  <2>4. CASE BoxLists(c, b)
    <3>1. \A d \in Caller, e \in Box :
             (d # c \/ e # b) => job'[d][e] = job[d][e]
      BY <2>4 DEF BoxLists, TypeOK
    <3> QED BY <1>4, <2>1, <3>1
  <2> QED
    BY <1>5, <2>2, <2>3, <2>4 DEF JobStep, ListFails, Upsert, UpsertNothing, FailJob
<1>6. CASE Crash
  <2>1. \A t \in Tick, b \in Box : ~Syncing(t, b)'
    BY <1>6 DEF Crash, Syncing, Caller
  <2> QED BY <2>1, LimitStays
<1>7. CASE UNCHANGED job
  BY <1>7, LimitStays DEF Syncing
<1> QED
  BY <1>2, <1>3, <1>5, <1>6, <1>7
  DEF Next, ChangeChannels, ChangeStatus, DeleteBox, vars

\* Never are more than CHANNEL_SYNC_CONCURRENCY jobs of one tick under way.
THEOREM ConcurrencyLimitedAlways == Spec => []ConcurrencyLimited
<1>1. Init => ConcurrencyLimited
  <2> SUFFICES ASSUME Init, NEW t \in Tick PROVE Cardinality(SyncedBy(t)) <= Concurrency
    BY DEF ConcurrencyLimited, SyncedBy
  <2>1. SyncedBy(t) = {}
    BY DEF Init, SyncedBy, Syncing, Caller
  <2> QED BY <2>1, FS_EmptySet, BoundsAssumption
<1> QED BY <1>1, TypeCorrect, LimitStep, PTL DEF Spec

=============================================================================
