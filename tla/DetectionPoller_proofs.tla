----------------------- MODULE DetectionPoller_proofs -----------------------
(* Proofs of the safety properties of DetectionPoller.                     *)
EXTENDS DetectionPoller, FiniteSetTheorems, TLAPS

-----------------------------------------------------------------------------
(* Type correctness.                                                       *)

\* What TypeOK says of one tick.
WellFormed(s) ==
    /\ s \in TickState
    /\ s.pc # "idle" => s.box \in Box
    /\ s.pc \in {"poll", "answered"} => s.chan \in Channel

\* Wherever the loops over boxes and channels go next, the tick is well formed
\* and holds no answer yet.
LEMMA AdvanceWellFormed ==
    ASSUME NEW bs \in SUBSET Box, NEW b \in Box \cup {None},
           NEW cs \in SUBSET Channel, cs # {} => b \in Box,
           NEW s \in Advance(bs, b, cs)
    PROVE  WellFormed(s) /\ s.pc # "answered"
<1>1. CASE cs # {}
  <2>1. PICK c \in cs :
          s = [pc |-> "poll", boxes |-> bs, box |-> b, chans |-> cs \ {c},
               chan |-> c, resp |-> {}]
    BY <1>1 DEF Advance, NextChannel
  <2> QED BY <2>1, <1>1 DEF WellFormed, TickState
<1>2. CASE cs = {} /\ bs # {}
  <2>1. PICK a \in bs :
          s = [pc |-> "decrypt", boxes |-> bs \ {a}, box |-> a, chans |-> {},
               chan |-> None, resp |-> {}]
    BY <1>2 DEF Advance, NextBox
  <2> QED BY <2>1 DEF WellFormed, TickState
<1>3. CASE cs = {} /\ bs = {}
  BY <1>3 DEF Advance, Idle, WellFormed, TickState
<1> QED BY <1>1, <1>2, <1>3

\* A tick that goes on leaves every tick well formed, the others unchanged,
\* and holds no answer.
LEMMA GoOnWellFormed ==
    ASSUME TypeOK, NEW t \in Tick, tick[t].pc # "idle", GoOn(t)
    PROVE  /\ tick' \in [Tick -> TickState]
           /\ \A u \in Tick : WellFormed(tick'[u])
           /\ \A u \in Tick \ {t} : tick'[u] = tick[u]
           /\ tick'[t].pc # "answered"
<1>1. \A u \in Tick : WellFormed(tick[u])
  BY DEF TypeOK, WellFormed
<1>2. PICK s \in Advance(tick[t].boxes, tick[t].box, tick[t].chans) :
        tick' = [tick EXCEPT ![t] = s]
  BY DEF GoOn
<1>3. WellFormed(s) /\ s.pc # "answered"
  <2>1. /\ tick[t].boxes \in SUBSET Box /\ tick[t].box \in Box
        /\ tick[t].chans \in SUBSET Channel
    BY <1>1 DEF WellFormed, TickState
  <2> QED BY <2>1, <1>2, AdvanceWellFormed
<1> QED BY <1>1, <1>2, <1>3 DEF TypeOK, WellFormed

\* The counts and the rows of a channel stay of their types.
LEMMA InsertType ==
    ASSUME TypeOK, NEW k \in Key, NEW S \in SUBSET Event
    PROVE  /\ Insert(k, S) => inserted' \in [Key -> [Event -> Nat]]
           /\ Broadcast(k, S) => pushed' \in [Key -> [Event -> Nat]]
           /\ history[k] \cup RowsFor(k, S) \in SUBSET Row
<1>1. /\ CountIn(inserted[k], S) \in [Event -> Nat]
      /\ CountIn(pushed[k], S) \in [Event -> Nat]
  BY DEF TypeOK, CountIn
<1>2. RowsFor(k, S) \in SUBSET Row
  <2>1. \A e \in Event : inserted[k][e] + 1 \in Nat
    BY DEF TypeOK
  <2> QED BY <2>1 DEF RowsFor, Row
<1> QED BY <1>1, <1>2 DEF TypeOK, Insert, Broadcast

\* The new detections of an awaited answer are detections of a channel, and
\* the cursor moves to one of them that none is later than.
LEMMA StoredNew ==
    ASSUME TypeOK, NEW t \in Tick, tick[t].pc = "answered"
    PROVE  /\ KeyOf(t) \in Key
           /\ NewEvents(KeyOf(t), tick[t].resp) \in SUBSET Event
           /\ tick[t].resp \in SUBSET Event
  BY DEF TypeOK, TickState, KeyOf, Key, NewEvents

LEMMA CursorMoves ==
    ASSUME TypeOK, NEW k \in Key, NEW S \in SUBSET Event, UpsertCursor(k, S)
    PROVE  \E e \in S :
               /\ \A f \in S : f.ts <= e.ts
               /\ e.ts \in 1 .. MaxTs
               /\ cursor' = [cursor EXCEPT ![k] = e.ts]
               /\ cursor' \in [Key -> 0 .. MaxTs]
<1>1. PICK e \in S : /\ \A f \in S : f.ts <= e.ts
                     /\ cursor' = [cursor EXCEPT ![k] = e.ts]
  BY DEF UpsertCursor
<1>2. e.ts \in 1 .. MaxTs
  BY DEF Event
<1>3. cursor' \in [Key -> 0 .. MaxTs]
  BY <1>1, <1>2, BoundsAssumption DEF TypeOK
<1> QED BY <1>1, <1>2, <1>3

\* Trimming keeps some of the rows.
LEMMA TrimKeepsRows ==
    ASSUME NEW rows, NEW keep \in TrimHistory(rows)
    PROVE  keep \subseteq rows
  BY DEF TrimHistory, kSubset


\* Storing an answer's new detections keeps the types of all it writes.
LEMMA StoreType ==
    ASSUME TypeOK, NEW k \in Key, NEW S \in SUBSET Event, NEW rows,
           Insert(k, S), history' = [history EXCEPT ![k] = rows],
           rows \subseteq history[k] \cup RowsFor(k, S)
    PROVE  /\ inserted' \in [Key -> [Event -> Nat]]
           /\ history' \in [Key -> SUBSET Row]
<1>1. rows \in SUBSET Row
  BY InsertType
<1> QED BY <1>1, InsertType DEF TypeOK

\* A restart keeps the types.
LEMMA RestartType ==
    ASSUME TypeOK, Restart
    PROVE  /\ tick' \in [Tick -> TickState] /\ crashes' \in Nat
           /\ \A t \in Tick : WellFormed(tick'[t])
           /\ \A t \in Tick : tick'[t].pc = "idle"
  BY DEF TypeOK, Restart, Idle, WellFormed, TickState

LEMMA TypeStep == TypeOK /\ [Next]_vars => TypeOK'
<1> SUFFICES ASSUME TypeOK, [Next]_vars PROVE TypeOK'
  OBVIOUS
<1> USE DEF source, db, alerts
<1>0. ASSUME /\ tick' \in [Tick -> TickState]
             /\ \A u \in Tick : WellFormed(tick'[u])
             /\ UNCHANGED <<boxes, online, feed, latest>> /\ crashes' \in Nat
             /\ cursor' \in [Key -> 0 .. MaxTs]
             /\ history' \in [Key -> SUBSET Row]
             /\ inserted' \in [Key -> [Event -> Nat]]
             /\ pushed' \in [Key -> [Event -> Nat]]
      PROVE  TypeOK'
  BY <1>0 DEF TypeOK, WellFormed
<1>1. ASSUME NEW t \in Tick, TickStep(t) PROVE TypeOK'
  <2>1. CASE StartTick(t)
    <3>1. PICK s \in Advance(ActiveBoxes, None, {}) : tick' = [tick EXCEPT ![t] = s]
      BY <2>1 DEF StartTick
    <3>2. WellFormed(s)
      BY <3>1, AdvanceWellFormed DEF ActiveBoxes
    <3> QED BY <3>1, <3>2, <2>1, <1>0 DEF StartTick, TypeOK, WellFormed
  <2>2. CASE Decrypted(t)
    <3>1. PICK s \in Advance(tick[t].boxes, tick[t].box, OnlineChannels(tick[t].box)) :
            tick' = [tick EXCEPT ![t] = s]
      BY <2>2 DEF Decrypted
    <3>2. tick[t].boxes \in SUBSET Box /\ tick[t].box \in Box
      BY <2>2 DEF Decrypted, TypeOK, TickState
    <3>3. WellFormed(s)
      BY <3>1, <3>2, AdvanceWellFormed DEF OnlineChannels
    <3> QED BY <3>1, <3>3, <2>2, <1>0 DEF Decrypted, TypeOK, WellFormed
  <2>3. CASE BoxAnswers(t)
    <3>1. KeyOf(t) \in Key
      BY <2>3 DEF BoxAnswers, TypeOK, KeyOf, Key
    <3>2. feed[KeyOf(t)] \in SUBSET Event
      BY <3>1 DEF TypeOK
    <3>3. /\ tick' \in [Tick -> TickState]
          /\ \A u \in Tick : WellFormed(tick'[u])
      <4>1. /\ tick[t] \in TickState /\ tick[t].box \in Box
            /\ tick[t].chan \in Channel
        BY <2>3 DEF BoxAnswers, TypeOK
      <4>2. tick' = [tick EXCEPT ![t] = [tick[t] EXCEPT !.pc = "answered",
                                                        !.resp = feed[KeyOf(t)]]]
        BY <2>3 DEF BoxAnswers
      <4>3. WellFormed([tick[t] EXCEPT !.pc = "answered", !.resp = feed[KeyOf(t)]])
        BY <4>1, <3>2 DEF WellFormed, TickState
      <4> QED BY <4>2, <4>3 DEF TypeOK, WellFormed
    <3> QED BY <3>3, <2>3, <1>0 DEF BoxAnswers, TypeOK
  <2>4. CASE PollFails(t)
    BY <2>4, GoOnWellFormed, <1>0 DEF PollFails, TypeOK
  <2>5. CASE HandleNothing(t)
    BY <2>5, GoOnWellFormed, <1>0 DEF HandleNothing, TypeOK
  <2>6. CASE HandleNew(t)
    <3> DEFINE k == KeyOf(t)
               new == NewEvents(k, tick[t].resp)
    <3>1. k \in Key /\ new \in SUBSET Event
      BY <2>6, StoredNew DEF HandleNew
    <3>2. PICK rows \in TrimHistory(history[k] \cup RowsFor(k, new)) :
            history' = [history EXCEPT ![k] = rows]
      BY <2>6 DEF HandleNew
    <3>3. /\ Insert(k, new) /\ UpsertCursor(k, new) /\ Broadcast(k, new) /\ GoOn(t)
          /\ tick[t].pc = "answered"
          /\ UNCHANGED <<boxes, online, feed, latest, crashes>>
      BY <2>6 DEF HandleNew
    <3>4. rows \subseteq history[k] \cup RowsFor(k, new)
      BY <3>2, TrimKeepsRows
    <3>5. inserted' \in [Key -> [Event -> Nat]] /\ history' \in [Key -> SUBSET Row]
      BY <3>1, <3>2, <3>3, <3>4, StoreType
    <3>6. pushed' \in [Key -> [Event -> Nat]]
      BY <3>1, <3>3, InsertType
    <3>7. cursor' \in [Key -> 0 .. MaxTs]
      BY <3>1, <3>3, CursorMoves
    <3>8. tick' \in [Tick -> TickState] /\ \A u \in Tick : WellFormed(tick'[u])
      BY <3>3, GoOnWellFormed
    <3> QED BY <3>3, <3>5, <3>6, <3>7, <3>8, <1>0 DEF TypeOK
  <2> QED BY <1>1, <2>1, <2>2, <2>3, <2>4, <2>5, <2>6 DEF TickStep
<1>2. CASE Crash
  BY <1>2, RestartType, <1>0 DEF Crash, Restart, TypeOK
<1>3. ASSUME NEW t \in Tick, CrashInserting(t) PROVE TypeOK'
  <2> DEFINE k == KeyOf(t)
             new == NewEvents(k, tick[t].resp)
  <2>1. k \in Key /\ new \in SUBSET Event
    BY <1>3, StoredNew DEF CrashInserting
  <2>2. PICK S \in SUBSET new :
          Insert(k, S) /\ history' = [history EXCEPT ![k] = @ \cup RowsFor(k, S)]
    BY <1>3 DEF CrashInserting
  <2>3. inserted' \in [Key -> [Event -> Nat]] /\ history' \in [Key -> SUBSET Row]
    <3>1. history' = [history EXCEPT ![k] = history[k] \cup RowsFor(k, S)]
      BY <2>2
    <3> QED BY <2>1, <2>2, <3>1, StoreType
  <2>4. Restart /\ UNCHANGED <<boxes, online, feed, latest, cursor, pushed>>
    BY <1>3 DEF CrashInserting, Restart
  <2> QED BY <2>3, <2>4, RestartType, <1>0 DEF TypeOK
<1>4. ASSUME NEW t \in Tick, CrashAfterCursor(t) PROVE TypeOK'
  <2> DEFINE k == KeyOf(t)
             new == NewEvents(k, tick[t].resp)
             all == history[k] \cup RowsFor(k, new)
  <2>1. k \in Key /\ new \in SUBSET Event
    BY <1>4, StoredNew DEF CrashAfterCursor
  <2>2. /\ Insert(k, new) /\ UpsertCursor(k, new) /\ Restart
        /\ UNCHANGED <<boxes, online, feed, latest>>
    BY <1>4 DEF CrashAfterCursor, Restart
  <2>3. cursor' \in [Key -> 0 .. MaxTs]
    BY <2>1, <2>2, CursorMoves
  <2>4. \E rows : rows \subseteq all /\ history' = [history EXCEPT ![k] = rows]
    BY <1>4, TrimKeepsRows DEF CrashAfterCursor
  <2>5. inserted' \in [Key -> [Event -> Nat]] /\ history' \in [Key -> SUBSET Row]
    BY <2>1, <2>2, <2>4, StoreType
  <2>6. pushed' \in [Key -> [Event -> Nat]]
    <3>1. (UNCHANGED pushed) \/ (\E S \in SUBSET new : Broadcast(k, S))
      BY <1>4 DEF CrashAfterCursor
    <3> QED BY <3>1, <2>1, InsertType DEF TypeOK
  <2> QED BY <2>2, <2>3, <2>5, <2>6, RestartType, <1>0 DEF TypeOK
<1>5. ASSUME NEW k \in Key, NEW S \in SUBSET Obj, Detect(k, S) PROVE TypeOK'
  <2> DEFINE ts == latest[k] + 1
             frame == {[ts |-> ts, obj |-> o] : o \in S}
  <2>1. ts \in 1 .. MaxTs
    BY <1>5, BoundsAssumption DEF Detect, TypeOK
  <2>2. frame \in SUBSET Event
    BY <2>1 DEF Event
  <2>3. feed' \in [Key -> SUBSET Event] /\ latest' \in [Key -> 0 .. MaxTs]
    BY <1>5, <2>1, <2>2 DEF Detect, TypeOK
  <2> QED BY <2>3, <1>5 DEF Detect, TypeOK
<1>6. ASSUME NEW k \in Key, NEW ts \in 1 .. MaxTs, Expire(k, ts) PROVE TypeOK'
  BY <1>6 DEF Expire, TypeOK
<1>7. ASSUME NEW b \in Box, ChangeStatus(b) PROVE TypeOK'
  BY <1>7 DEF ChangeStatus, TypeOK, Status
<1>8. ASSUME NEW b \in Box, DeleteBox(b) PROVE TypeOK'
  <2>1. Never \in [Event -> Nat] /\ 0 \in 0 .. MaxTs
    BY BoundsAssumption DEF Never
  <2>2. /\ cursor' \in [Key -> 0 .. MaxTs] /\ history' \in [Key -> SUBSET Row]
        /\ inserted' \in [Key -> [Event -> Nat]]
    BY <2>1, <1>8 DEF DeleteBox, TypeOK
  <2>3. boxes' \in [Box -> Status] /\ online' \in SUBSET Key
    BY <1>8 DEF DeleteBox, TypeOK, Status
  <2> QED BY <2>2, <2>3, <1>8 DEF DeleteBox, TypeOK
<1>9. ASSUME NEW k \in Key, SyncCamera(k) PROVE TypeOK'
  BY <1>9 DEF SyncCamera, TypeOK
<1>10. CASE UNCHANGED vars
  BY <1>10 DEF vars, TypeOK
<1> QED
  BY <1>1, <1>2, <1>3, <1>4, <1>5, <1>6, <1>7, <1>8, <1>9, <1>10
  DEF Next, CrashStep, EnvironmentStep

\* Every variable keeps its type, and a tick that awaits an answer knows which
\* box and channel it asked for, whatever the number of boxes, channels and
\* ticks.
THEOREM TypeCorrect == Spec => []TypeOK
<1>1. Init => TypeOK
  <2>1. Never \in [Event -> Nat]
    BY DEF Never
  <2> QED BY <2>1, BoundsAssumption DEF Init, TypeOK, Status, Idle, TickState
<1>2. TypeOK /\ [Next]_vars => TypeOK'
  BY TypeStep
<1> QED BY <1>1, <1>2, PTL DEF Spec


-----------------------------------------------------------------------------
(* The inductive invariant.  What a detection's counts say depends on       *)
(* whether the cursor has passed it, and an answer under way is complete up *)
(* to its last detection.                                                   *)

Passed(k, e) == e.ts <= cursor[k]

\* Nothing is known of a channel that is later than its last frame.
NoneFromTheFuture ==
    /\ \A k \in Key : cursor[k] <= latest[k]
    /\ \A k \in Key : \A e \in feed[k] : e.ts <= latest[k]
    /\ \A t \in Tick : tick[t].pc = "answered" =>
          \A e \in tick[t].resp : e.ts <= latest[KeyOf(t)]

\* An answer lacks nothing the box still reports that is as old as something
\* the answer holds.
AnswersComplete ==
    \A t \in Tick : tick[t].pc = "answered" =>
        \A e \in tick[t].resp : \A f \in feed[KeyOf(t)] :
            f.ts <= e.ts => f \in tick[t].resp

\* Only a crash leaves behind a detection that was stored but not passed.
StoredAhead ==
    \A k \in Key, e \in Event :
        inserted[k][e] <= crashes + (IF Passed(k, e) THEN 1 ELSE 0)

\* What was broadcast has been passed.
PushedPassed ==
    \A k \in Key, e \in Event :
        boxes[k[1]] # "deleted" /\ ~Passed(k, e) => pushed[k][e] = 0

IInv ==
    /\ TypeOK
    /\ NoneFromTheFuture
    /\ AnswersComplete
    /\ NothingSkipped
    /\ StoredAhead
    /\ BroadcastOnce
    /\ PushedPassed
    /\ NoOrphans


\* An answer under way is touched by no step but the one that handles it.
AnswersKept == \A t \in Tick : tick'[t].pc = "answered" => tick'[t] = tick[t]

LEMMA GoOnKeepsAnswers ==
    ASSUME TypeOK, NEW t \in Tick, tick[t].pc # "idle", GoOn(t)
    PROVE  AnswersKept
  BY GoOnWellFormed DEF AnswersKept

\* A step that leaves the source and the answers alone keeps what is known of
\* them, if it moves no cursor past the last frame.
LEMMA AnswersStay ==
    ASSUME IInv, AnswersKept, UNCHANGED <<feed, latest>>,
           \A k \in Key : cursor'[k] <= latest[k]
    PROVE  NoneFromTheFuture' /\ AnswersComplete'
<1>1. \A t \in Tick : tick'[t].pc = "answered" => KeyOf(t)' = KeyOf(t)
  BY DEF AnswersKept, KeyOf
<1> QED BY <1>1 DEF IInv, NoneFromTheFuture, AnswersComplete, AnswersKept

\* Storing the new detections of an answer and moving the cursor keeps every
\* count and passes over nothing, whether or not the process then crashes.
LEMMA Store ==
    ASSUME IInv, NEW t \in Tick, tick[t].pc = "answered",
           NEW k, k = KeyOf(t), NEW new, new = NewEvents(k, tick[t].resp),
           HasBoxRow(tick[t].box),
           Insert(k, new), UpsertCursor(k, new),
           UNCHANGED pushed \/ \E S \in SUBSET new : Broadcast(k, S),
           UNCHANGED <<boxes, feed, latest>>,
           crashes' = crashes \/ crashes' = crashes + 1
    PROVE  /\ \A j \in Key : cursor'[j] >= cursor[j] /\ cursor'[j] <= latest[j]
           /\ NothingSkipped' /\ StoredAhead' /\ BroadcastOnce' /\ PushedPassed'
           /\ boxes[k[1]] # "deleted" /\ \A j \in Key \ {k} : cursor'[j] = cursor[j]
<1> USE DEF IInv
<1>1. k \in Key /\ new \in SUBSET Event /\ new \subseteq tick[t].resp
  BY StoredNew DEF NewEvents
<1>2. PICK last \in new :
        /\ \A e \in new : e.ts <= last.ts
        /\ last.ts \in 1 .. MaxTs
        /\ cursor' = [cursor EXCEPT ![k] = last.ts]
  BY <1>1, CursorMoves
<1>3. last.ts > cursor[k] /\ last.ts <= latest[k]
  BY <1>1 DEF NewEvents, NoneFromTheFuture
<1>4. cursor \in [Key -> 0 .. MaxTs] /\ latest \in [Key -> 0 .. MaxTs] /\ MaxTs \in Nat
  BY BoundsAssumption DEF TypeOK
<1>5. \A j \in Key : cursor'[j] >= cursor[j] /\ cursor'[j] <= latest[j]
  BY <1>1, <1>2, <1>3, <1>4 DEF NoneFromTheFuture
<1>6. boxes[k[1]] # "deleted" /\ \A j \in Key \ {k} : cursor'[j] = cursor[j]
  BY <1>1, <1>2, <1>4 DEF HasBoxRow, KeyOf
<1>7. /\ \A j \in Key \ {k} : inserted'[j] = inserted[j]
      /\ \A e \in Event : inserted'[k][e] = inserted[k][e] + IF e \in new THEN 1 ELSE 0
  BY <1>1 DEF Insert, CountIn, TypeOK
<1>8. \A j \in Key, e \in Event : inserted[j][e] \in Nat /\ pushed[j][e] \in Nat
  BY DEF TypeOK
<1>9. \A e \in Event : e.ts \in 1 .. MaxTs
  BY DEF Event
<1>10. NothingSkipped'
  <2> SUFFICES ASSUME NEW j \in Key, NEW e \in feed[j], e.ts <= cursor'[j]
               PROVE  inserted'[j][e] >= 1
    BY DEF NothingSkipped
  <2>0. e \in Event
    BY DEF TypeOK
  <2>1. CASE e.ts <= cursor[j]
    BY <2>0, <2>1, <1>7, <1>8 DEF NothingSkipped
  <2>2. CASE ~(e.ts <= cursor[j])
    <3>1. j = k /\ e.ts <= last.ts
      BY <2>2, <1>1, <1>2, <1>4
    <3>2. e \in tick[t].resp
      BY <3>1, <1>1 DEF AnswersComplete
    <3>3. e \in new
      BY <3>1, <3>2, <2>0, <2>2, <1>4, <1>9 DEF NewEvents
    <3> QED BY <3>1, <3>3, <2>0, <1>7, <1>8
  <2> QED BY <2>1, <2>2
<1>11. \A e \in new : ~Passed(k, e) /\ Passed(k, e)'
  BY <1>1, <1>2, <1>4, <1>9 DEF NewEvents, Passed
<1>12. \A j \in Key, e \in Event : Passed(j, e) => Passed(j, e)'
  BY <1>4, <1>5, <1>9, <1>2 DEF Passed
<1>13. crashes \in Nat
  BY DEF TypeOK
<1>14. StoredAhead'
  <2> SUFFICES ASSUME NEW j \in Key, NEW e \in Event
               PROVE  inserted'[j][e] <= crashes' + (IF Passed(j, e)' THEN 1 ELSE 0)
    BY DEF StoredAhead
  <2>1. inserted[j][e] <= crashes + (IF Passed(j, e) THEN 1 ELSE 0)
    BY DEF StoredAhead
  <2>2. CASE j = k /\ e \in new
    <3>1. inserted'[j][e] = inserted[j][e] + 1
      BY <2>2, <1>7
    <3>2. inserted[j][e] <= crashes /\ Passed(j, e)'
      BY <2>1, <2>2, <1>11, <1>13, <1>8
    <3> QED BY <3>1, <3>2, <1>8, <1>13
  <2>3. CASE ~(j = k /\ e \in new)
    <3>1. inserted'[j][e] = inserted[j][e]
      BY <2>3, <1>7, <1>8
    <3> QED BY <3>1, <2>1, <1>8, <1>12, <1>13
  <2> QED BY <2>2, <2>3
<1>15. PICK S \in SUBSET new :
         /\ \A j \in Key \ {k} : pushed'[j] = pushed[j]
         /\ \A e \in Event : pushed'[k][e] = pushed[k][e] + IF e \in S THEN 1 ELSE 0
  <2>1. CASE UNCHANGED pushed
    <3> WITNESS {} \in SUBSET new
    <3> QED BY <2>1, <1>1, <1>8
  <2>2. CASE \E S \in SUBSET new : Broadcast(k, S)
    <3>1. PICK S \in SUBSET new : Broadcast(k, S)
      BY <2>2
    <3>2. /\ \A j \in Key \ {k} : pushed'[j] = pushed[j]
          /\ pushed'[k] = CountIn(pushed[k], S)
      BY <3>1, <1>1 DEF Broadcast, TypeOK
    <3> WITNESS S \in SUBSET new
    <3> QED BY <3>2 DEF CountIn
  <2> QED BY <2>1, <2>2
<1>16. \A e \in S : pushed[k][e] = 0
  BY <1>1, <1>6, <1>11, <1>15 DEF PushedPassed
<1>17. BroadcastOnce'
  <2> SUFFICES ASSUME NEW j \in Key, NEW e \in Event PROVE pushed'[j][e] <= 1
    BY DEF BroadcastOnce
  <2>1. CASE j = k /\ e \in S
    BY <2>1, <1>15, <1>16
  <2>2. CASE ~(j = k /\ e \in S)
    BY <2>2, <1>15, <1>8 DEF BroadcastOnce
  <2> QED BY <2>1, <2>2
<1>18. PushedPassed'
  <2> SUFFICES ASSUME NEW j \in Key, NEW e \in Event,
                      boxes[j[1]] # "deleted", ~Passed(j, e)'
               PROVE  pushed'[j][e] = 0
    BY DEF PushedPassed
  <2>1. ~(j = k /\ e \in S) /\ ~Passed(j, e)
    BY <1>11, <1>12, <1>15
  <2> QED BY <2>1, <1>15, <1>8 DEF PushedPassed
<1> QED BY <1>5, <1>6, <1>10, <1>14, <1>17, <1>18


\* The parts of the invariant that only relate counts, cursors and boxes stay
\* when these stay, and the number of crashes does not fall.
LEMMA CountsStay ==
    ASSUME IInv, UNCHANGED <<inserted, pushed, cursor, history>>,
           \A b \in Box : boxes[b] = "deleted" <=> boxes'[b] = "deleted",
           crashes' = crashes \/ crashes' = crashes + 1,
           \A k \in Key : \A e \in feed'[k] : e \in feed[k] \/ e.ts > cursor[k],
           \A k \in Key : feed'[k] \subseteq Event
    PROVE  /\ NothingSkipped' /\ StoredAhead' /\ BroadcastOnce' /\ PushedPassed'
           /\ NoOrphans'
<1> USE DEF IInv
<1>1. cursor \in [Key -> 0 .. MaxTs] /\ MaxTs \in Nat /\ crashes \in Nat
  BY BoundsAssumption DEF TypeOK
<1>2. NothingSkipped'
  BY <1>1 DEF NothingSkipped, Event
<1>3. StoredAhead'
  <2>1. \A k \in Key, e \in Event : inserted[k][e] \in Nat /\ (Passed(k, e)' <=> Passed(k, e))
    BY DEF TypeOK, Passed
  <2> QED BY <1>1, <2>1 DEF StoredAhead
<1>4. BroadcastOnce' /\ PushedPassed'
  BY DEF BroadcastOnce, PushedPassed, Passed, Key
<1>5. NoOrphans'
  BY DEF NoOrphans, Key
<1> QED BY <1>2, <1>3, <1>4, <1>5

LEMMA IInvStep == IInv /\ [Next]_vars => IInv'
<1> SUFFICES ASSUME IInv, [Next]_vars PROVE IInv'
  OBVIOUS
<1>0. TypeOK /\ TypeOK'
  BY TypeStep DEF IInv
<1>1. ASSUME AnswersKept, UNCHANGED <<feed, latest, inserted, pushed, cursor, history>>,
             \A b \in Box : boxes[b] = "deleted" <=> boxes'[b] = "deleted",
             crashes' = crashes \/ crashes' = crashes + 1
      PROVE  IInv'
  <2>1. \A k \in Key : cursor'[k] <= latest[k]
    BY <1>1 DEF IInv, NoneFromTheFuture
  <2>2. NoneFromTheFuture' /\ AnswersComplete'
    BY <2>1, <1>1, AnswersStay
  <2>3. /\ \A k \in Key : \A e \in feed'[k] : e \in feed[k] \/ e.ts > cursor[k]
        /\ \A k \in Key : feed'[k] \subseteq Event
    BY <1>0, <1>1 DEF TypeOK
  <2> QED BY <2>2, <2>3, <1>0, <1>1, CountsStay DEF IInv
<1>2. ASSUME NEW t \in Tick, TickStep(t) PROVE IInv'
  <2> USE DEF db, source, alerts
  <2>1. CASE StartTick(t)
    <3>1. \A s \in Advance(ActiveBoxes, None, {}) : s.pc # "answered"
      BY AdvanceWellFormed DEF ActiveBoxes
    <3>2. AnswersKept
      BY <3>1, <2>1, <1>0 DEF StartTick, AnswersKept, TypeOK
    <3> QED BY <3>2, <2>1, <1>1 DEF StartTick
  <2>2. CASE Decrypted(t)
    <3>1. tick[t].boxes \in SUBSET Box /\ tick[t].box \in Box
      BY <2>2, <1>0 DEF Decrypted, TypeOK, TickState
    <3>2. \A s \in Advance(tick[t].boxes, tick[t].box, OnlineChannels(tick[t].box)) :
             s.pc # "answered"
      BY <3>1, AdvanceWellFormed DEF OnlineChannels
    <3>3. AnswersKept
      BY <3>2, <2>2, <1>0 DEF Decrypted, AnswersKept, TypeOK
    <3> QED BY <3>3, <2>2, <1>1 DEF Decrypted
  <2>3. CASE BoxAnswers(t)
    <3>1. /\ \A u \in Tick \ {t} : tick'[u] = tick[u]
          /\ tick'[t].resp = feed[KeyOf(t)] /\ KeyOf(t)' = KeyOf(t) /\ KeyOf(t) \in Key
      BY <2>3, <1>0 DEF BoxAnswers, TypeOK, TickState, KeyOf, Key
    <3>2. UNCHANGED <<feed, latest, inserted, pushed, cursor, history, boxes, crashes>>
      BY <2>3 DEF BoxAnswers
    <3>3. NoneFromTheFuture' /\ AnswersComplete'
      BY <3>1, <3>2 DEF IInv, NoneFromTheFuture, AnswersComplete, KeyOf
    <3>4. /\ \A k \in Key : \A e \in feed'[k] : e \in feed[k]
          /\ \A k \in Key : feed'[k] \subseteq Event
      BY <3>2, <1>0 DEF TypeOK
    <3> QED BY <3>2, <3>3, <3>4, <1>0, CountsStay DEF IInv
  <2>4. CASE PollFails(t)
    BY <2>4, <1>0, <1>1, GoOnKeepsAnswers DEF PollFails
  <2>5. CASE HandleNothing(t)
    BY <2>5, <1>0, <1>1, GoOnKeepsAnswers DEF HandleNothing
  <2>6. CASE HandleNew(t)
    <3> DEFINE k == KeyOf(t)
               new == NewEvents(k, tick[t].resp)
    <3>1. /\ tick[t].pc = "answered" /\ HasBoxRow(tick[t].box) /\ GoOn(t)
          /\ Insert(k, new) /\ UpsertCursor(k, new) /\ Broadcast(k, new)
          /\ UNCHANGED <<boxes, feed, latest, crashes>>
          /\ \A j \in Key \ {k} : history'[j] = history[j]
      BY <2>6, <1>0 DEF HandleNew, TypeOK
    <3>2. /\ \A j \in Key : cursor'[j] >= cursor[j] /\ cursor'[j] <= latest[j]
          /\ NothingSkipped' /\ StoredAhead' /\ BroadcastOnce' /\ PushedPassed'
          /\ boxes[k[1]] # "deleted" /\ \A j \in Key \ {k} : cursor'[j] = cursor[j]
      BY <3>1, Store
    <3>3. NoneFromTheFuture' /\ AnswersComplete'
      BY <3>1, <3>2, <1>0, GoOnKeepsAnswers, AnswersStay
    <3>4. NoOrphans'
      BY <3>1, <3>2 DEF IInv, NoOrphans
    <3> QED BY <3>2, <3>3, <3>4, <1>0 DEF IInv
  <2> QED BY <1>2, <2>1, <2>2, <2>3, <2>4, <2>5, <2>6 DEF TickStep
<1>3. ASSUME Restart PROVE AnswersKept /\ crashes' = crashes + 1
                          /\ UNCHANGED <<boxes, feed, latest>>
  BY <1>3, <1>0, RestartType DEF AnswersKept, Restart, db, source
<1>4. CASE Crash
  BY <1>4, <1>3, <1>1 DEF Crash, alerts
<1>5. ASSUME NEW t \in Tick, CrashInserting(t) PROVE IInv'
  <2> DEFINE k == KeyOf(t)
             new == NewEvents(k, tick[t].resp)
  <2>1. PICK S \in SUBSET new : Insert(k, S)
    BY <1>5 DEF CrashInserting
  <2>2. /\ AnswersKept /\ UNCHANGED <<boxes, feed, latest, cursor, pushed>>
        /\ crashes' = crashes + 1
    BY <1>5, <1>3 DEF CrashInserting
  <2>3. k \in Key /\ S \in SUBSET Event
    BY <1>5, <1>0, StoredNew DEF CrashInserting
  <2>4. /\ \A j \in Key \ {k} : inserted'[j] = inserted[j] /\ history'[j] = history[j]
        /\ \A e \in Event : inserted'[k][e] = inserted[k][e] + IF e \in S THEN 1 ELSE 0
    BY <1>5, <2>1, <2>3, <1>0 DEF CrashInserting, Insert, CountIn, TypeOK
  <2>5. \A j \in Key, e \in Event :
           /\ inserted[j][e] \in Nat /\ inserted'[j][e] \in Nat
           /\ inserted[j][e] <= inserted'[j][e] /\ inserted'[j][e] <= inserted[j][e] + 1
    <3> SUFFICES ASSUME NEW j \in Key, NEW e \in Event
                 PROVE  /\ inserted[j][e] \in Nat /\ inserted'[j][e] \in Nat
                        /\ inserted[j][e] <= inserted'[j][e]
                        /\ inserted'[j][e] <= inserted[j][e] + 1
      OBVIOUS
    <3>1. inserted[j][e] \in Nat
      BY <1>0 DEF TypeOK
    <3>2. inserted'[j][e] = inserted[j][e] \/ inserted'[j][e] = inserted[j][e] + 1
      BY <3>1, <2>4
    <3> QED BY <3>1, <3>2
  <2>6. \A j \in Key : cursor'[j] <= latest[j]
    BY <2>2 DEF IInv, NoneFromTheFuture
  <2>7. NoneFromTheFuture' /\ AnswersComplete'
    BY <2>2, <2>6, AnswersStay
  <2>8. NothingSkipped'
    <3> SUFFICES ASSUME NEW j \in Key, NEW e \in feed[j], e.ts <= cursor[j]
                 PROVE  inserted'[j][e] >= 1
      BY <2>2 DEF NothingSkipped
    <3>1. e \in Event /\ inserted[j][e] >= 1
      BY <1>0 DEF IInv, NothingSkipped, TypeOK
    <3> QED BY <3>1, <2>5
  <2>9. StoredAhead'
    <3> SUFFICES ASSUME NEW j \in Key, NEW e \in Event
                 PROVE  inserted'[j][e] <= crashes + 1 + (IF Passed(j, e) THEN 1 ELSE 0)
      BY <2>2 DEF StoredAhead, Passed
    <3>1. inserted[j][e] <= crashes + (IF Passed(j, e) THEN 1 ELSE 0)
      BY DEF IInv, StoredAhead
    <3> QED BY <3>1, <2>5, <1>0 DEF TypeOK
  <2>10. BroadcastOnce' /\ PushedPassed'
    BY <2>2 DEF IInv, BroadcastOnce, PushedPassed, Passed
  <2>11. NoOrphans'
    <3>1. boxes[k[1]] # "deleted"
      BY <1>5 DEF CrashInserting, HasBoxRow, KeyOf
    <3> QED BY <3>1, <2>2, <2>4 DEF IInv, NoOrphans
  <2> QED BY <2>7, <2>8, <2>9, <2>10, <2>11, <1>0 DEF IInv
<1>6. ASSUME NEW t \in Tick, CrashAfterCursor(t) PROVE IInv'
  <2> DEFINE k == KeyOf(t)
             new == NewEvents(k, tick[t].resp)
  <2>1. /\ tick[t].pc = "answered" /\ HasBoxRow(tick[t].box)
        /\ Insert(k, new) /\ UpsertCursor(k, new)
        /\ (UNCHANGED pushed) \/ (\E S \in SUBSET new : Broadcast(k, S))
    BY <1>6 DEF CrashAfterCursor
  <2>2. /\ AnswersKept /\ UNCHANGED <<boxes, feed, latest>>
        /\ crashes' = crashes + 1
    BY <1>6, <1>3 DEF CrashAfterCursor
  <2>3. /\ \A j \in Key : cursor'[j] >= cursor[j] /\ cursor'[j] <= latest[j]
        /\ NothingSkipped' /\ StoredAhead' /\ BroadcastOnce' /\ PushedPassed'
        /\ boxes[k[1]] # "deleted" /\ \A j \in Key \ {k} : cursor'[j] = cursor[j]
    BY <2>1, <2>2, Store
  <2>4. NoneFromTheFuture' /\ AnswersComplete'
    BY <2>2, <2>3, AnswersStay
  <2>5. \A j \in Key \ {k} : history'[j] = history[j]
    BY <1>6, <1>0 DEF CrashAfterCursor, TypeOK
  <2>6. NoOrphans'
    BY <2>2, <2>3, <2>5 DEF IInv, NoOrphans
  <2> QED BY <2>3, <2>4, <2>6, <1>0 DEF IInv
<1>7. ASSUME NEW k \in Key, NEW S \in SUBSET Obj, Detect(k, S) PROVE IInv'
  <2> DEFINE ts == latest[k] + 1
             frame == {[ts |-> ts, obj |-> o] : o \in S}
  <2>1. /\ UNCHANGED <<boxes, inserted, pushed, cursor, history, tick, crashes>>
        /\ \A j \in Key \ {k} : feed'[j] = feed[j] /\ latest'[j] = latest[j]
        /\ feed'[k] = feed[k] \cup frame /\ latest'[k] = ts
    BY <1>7, <1>0 DEF Detect, TypeOK, db, alerts
  <2>2. /\ \A j \in Key : cursor[j] \in Nat /\ latest[j] \in Nat
        /\ \A j \in Key : \A e \in feed[j] : e.ts \in Nat
        /\ \A t \in Tick : tick[t].pc = "answered" =>
              KeyOf(t) \in Key /\ \A e \in tick[t].resp : e.ts \in Nat
    BY <1>0, StoredNew, BoundsAssumption DEF TypeOK, Event
  <2>3. NoneFromTheFuture'
    BY <2>1, <2>2 DEF IInv, NoneFromTheFuture, KeyOf
  <2>4. AnswersComplete'
    BY <2>1, <2>2 DEF IInv, NoneFromTheFuture, AnswersComplete, KeyOf
  <2>5. \A j \in Key : \A e \in feed'[j] : e \in feed[j] \/ e.ts > cursor[j]
    BY <2>1, <2>2 DEF IInv, NoneFromTheFuture
  <2>6. \A j \in Key : feed'[j] \subseteq Event
    BY <1>0 DEF TypeOK
  <2> QED BY <2>1, <2>3, <2>4, <2>5, <2>6, <1>0, CountsStay DEF IInv
<1>8. ASSUME NEW k \in Key, NEW ts \in 1 .. MaxTs, Expire(k, ts) PROVE IInv'
  <2>1. /\ UNCHANGED <<boxes, latest, inserted, pushed, cursor, history, tick, crashes>>
        /\ \A j \in Key : feed'[j] \subseteq feed[j]
    BY <1>8, <1>0 DEF Expire, TypeOK, db, alerts
  <2>2. \A t \in Tick : tick[t].pc = "answered" => KeyOf(t) \in Key
    BY <1>0, StoredNew
  <2>3. NoneFromTheFuture' /\ AnswersComplete'
    BY <2>1, <2>2 DEF IInv, NoneFromTheFuture, AnswersComplete, KeyOf
  <2>4. \A j \in Key : feed'[j] \subseteq Event
    BY <1>0 DEF TypeOK
  <2> QED BY <2>1, <2>3, <2>4, <1>0, CountsStay DEF IInv
<1>9. ASSUME NEW b \in Box, ChangeStatus(b) PROVE IInv'
  <2>1. \A a \in Box : boxes[a] = "deleted" <=> boxes'[a] = "deleted"
    BY <1>9, <1>0 DEF ChangeStatus, TypeOK, Status
  <2> QED BY <1>9, <2>1, <1>1 DEF ChangeStatus, AnswersKept, source, alerts
<1>10. ASSUME NEW b \in Box, DeleteBox(b) PROVE IInv'
  <2>1. /\ UNCHANGED <<feed, latest, pushed, tick, crashes>>
        /\ boxes' = [boxes EXCEPT ![b] = "deleted"]
        /\ \A k \in Key : k[1] = b =>
              cursor'[k] = 0 /\ history'[k] = {} /\ inserted'[k] = Never
        /\ \A k \in Key : k[1] # b =>
              /\ cursor'[k] = cursor[k] /\ history'[k] = history[k]
              /\ inserted'[k] = inserted[k]
    BY <1>10 DEF DeleteBox, source
  <2>2. \A a \in Box : boxes'[a] = IF a = b THEN "deleted" ELSE boxes[a]
    BY <2>1, <1>0 DEF TypeOK
  <2>3. \A e \in Event : Never[e] = 0 /\ e.ts \in Nat /\ e.ts >= 1
    BY DEF Never, Event
  <2>4. \A k \in Key : latest[k] \in Nat /\ k[1] \in Box
    BY <1>0, BoundsAssumption DEF TypeOK, Key
  <2>5. \A k \in Key : cursor'[k] <= latest[k]
    BY <2>1, <2>4 DEF IInv, NoneFromTheFuture
  <2>6. NoneFromTheFuture' /\ AnswersComplete'
    BY <2>1, <2>5, AnswersStay DEF AnswersKept
  <2>7. NothingSkipped'
    <3>1. \A k \in Key : feed[k] \subseteq Event
      BY <1>0 DEF TypeOK
    <3> QED BY <2>1, <2>3, <3>1 DEF IInv, NothingSkipped
  <2>8. StoredAhead'
    <3> SUFFICES ASSUME NEW k \in Key, NEW e \in Event
                 PROVE  inserted'[k][e] <= crashes + (IF Passed(k, e)' THEN 1 ELSE 0)
      BY <2>1 DEF StoredAhead
    <3>1. CASE k[1] = b
      BY <3>1, <2>1, <2>3, <1>0 DEF TypeOK
    <3>2. CASE k[1] # b
      <4>1. Passed(k, e)' <=> Passed(k, e)
        BY <3>2, <2>1 DEF Passed
      <4> QED BY <3>2, <4>1, <2>1 DEF IInv, StoredAhead
    <3> QED BY <3>1, <3>2
  <2>9. BroadcastOnce' /\ PushedPassed'
    BY <2>1, <2>2, <2>4 DEF IInv, BroadcastOnce, PushedPassed, Passed
  <2>10. NoOrphans'
    BY <2>1, <2>2, <2>4 DEF IInv, NoOrphans
  <2> QED BY <2>6, <2>7, <2>8, <2>9, <2>10, <1>0 DEF IInv
<1>11. ASSUME NEW k \in Key, SyncCamera(k) PROVE IInv'
  BY <1>11, <1>1 DEF SyncCamera, AnswersKept, source, alerts
<1>12. CASE UNCHANGED vars
  BY <1>12, <1>1 DEF vars, AnswersKept, db, source, alerts
<1> QED
  BY <1>2, <1>4, <1>5, <1>6, <1>7, <1>8, <1>9, <1>10, <1>11, <1>12
  DEF Next, CrashStep, EnvironmentStep

LEMMA IInvInit == Init => IInv
<1> SUFFICES ASSUME Init PROVE IInv
  OBVIOUS
<1>1. TypeOK
  <2>1. Never \in [Event -> Nat]
    BY DEF Never
  <2> QED BY <2>1, BoundsAssumption DEF Init, TypeOK, Status, Idle, TickState
<1>2. NoneFromTheFuture /\ AnswersComplete /\ NothingSkipped
  BY DEF Init, NoneFromTheFuture, AnswersComplete, NothingSkipped, Idle
<1>3. StoredAhead /\ BroadcastOnce /\ PushedPassed
  BY DEF Init, StoredAhead, BroadcastOnce, PushedPassed, Never
<1>4. NoOrphans
  BY DEF Init, NoOrphans, Key
<1> QED BY <1>1, <1>2, <1>3, <1>4 DEF IInv

LEMMA Invariance == Spec => []IInv
  BY IInvInit, IInvStep, PTL DEF Spec

\* A detection is stored at most once for every time the process has run,
\* whatever the ticks, boxes and channels.
THEOREM DuplicatesNeedCrashesAlways == Spec => []DuplicatesNeedCrashes
<1>1. IInv => DuplicatesNeedCrashes
  <2> SUFFICES ASSUME IInv, NEW k \in Key, NEW e \in Event
               PROVE  inserted[k][e] <= crashes + 1
    BY DEF DuplicatesNeedCrashes
  <2>1. inserted[k][e] \in Nat /\ crashes \in Nat
    BY DEF IInv, TypeOK
  <2> QED BY <2>1 DEF IInv, StoredAhead
<1> QED BY <1>1, Invariance, PTL

\* The cursor passes over no detection that its box still reports.
THEOREM NothingSkippedAlways == Spec => []NothingSkipped
<1>1. IInv => NothingSkipped
  BY DEF IInv
<1> QED BY <1>1, Invariance, PTL

\* No detection is broadcast twice, whatever crashes.
THEOREM BroadcastOnceAlways == Spec => []BroadcastOnce
<1>1. IInv => BroadcastOnce
  BY DEF IInv
<1> QED BY <1>1, Invariance, PTL

\* A deleted box has no cursor and no alert.
THEOREM NoOrphansAlways == Spec => []NoOrphans
<1>1. IInv => NoOrphans
  BY DEF IInv
<1> QED BY <1>1, Invariance, PTL


-----------------------------------------------------------------------------
(* What a step does to the cursors and to the acknowledged detections: a     *)
(* tick that handles its answer takes over the new ones, a deletion takes    *)
(* the box's away, and no other step changes any.                            *)

Takes(t) ==
    LET k == KeyOf(t)
        new == NewEvents(k, tick[t].resp)
    IN
    /\ tick[t].pc = "answered" /\ HasBoxRow(tick[t].box)
    /\ Insert(k, new) /\ UpsertCursor(k, new)
    /\ UNCHANGED pushed \/ \E S \in SUBSET new : Broadcast(k, S)
    /\ UNCHANGED <<boxes, feed, latest>>
    /\ crashes' = crashes \/ crashes' = crashes + 1

\* Inserting detections that the cursor has not passed acknowledges none.
Keeps ==
    /\ UNCHANGED <<cursor, latest>>
    /\ \A k \in Key, e \in Event :
          \/ inserted'[k][e] = inserted[k][e]
          \/ e.ts > cursor[k]
    /\ \A b \in Box : boxes'[b] = "deleted" <=> boxes[b] = "deleted"

LEMMA StepKinds ==
    ASSUME IInv, Next
    PROVE  \/ \E t \in Tick : Takes(t)
           \/ Keeps /\ UNCHANGED feed
           \/ Keeps /\ \E k \in Key, ts \in 1 .. MaxTs : Expire(k, ts)
           \/ \E k \in Key, S \in SUBSET Obj : Detect(k, S)
           \/ \E b \in Box : DeleteBox(b)
<1> USE DEF db, source, alerts
<1>0. TypeOK
  BY DEF IInv
<1>1. ASSUME NEW t \in Tick, TickStep(t)
      PROVE  Takes(t) \/ (Keeps /\ UNCHANGED feed)
  <2>1. CASE HandleNew(t)
    <3> DEFINE new == NewEvents(KeyOf(t), tick[t].resp)
    <3>1. Broadcast(KeyOf(t), new) /\ new \in SUBSET new
      BY <2>1 DEF HandleNew
    <3> QED BY <3>1, <2>1 DEF HandleNew, Takes
  <2>2. CASE ~HandleNew(t)
    <3>1. UNCHANGED <<boxes, feed, latest, cursor, inserted>>
      BY <1>1, <2>2
      DEF TickStep, StartTick, Decrypted, BoxAnswers, PollFails, HandleNothing
    <3> QED BY <3>1 DEF Keeps
  <2> QED BY <2>1, <2>2
<1>2. CASE Crash
  BY <1>2 DEF Crash, Restart, Keeps
<1>3. ASSUME NEW t \in Tick, CrashInserting(t) PROVE Keeps /\ UNCHANGED feed
  <2> DEFINE k == KeyOf(t)
             new == NewEvents(k, tick[t].resp)
  <2>1. PICK S \in SUBSET new : Insert(k, S)
    BY <1>3 DEF CrashInserting
  <2>2. k \in Key /\ S \in SUBSET Event /\ \A e \in S : e.ts > cursor[k]
    BY <1>3, <1>0, StoredNew DEF CrashInserting, NewEvents
  <2>3. \A j \in Key, e \in Event :
           inserted'[j][e] = inserted[j][e] \/ (j = k /\ e \in S)
    BY <2>1, <2>2, <1>0 DEF Insert, CountIn, TypeOK
  <2> QED BY <1>3, <2>2, <2>3 DEF CrashInserting, Restart, Keeps
<1>4. ASSUME NEW t \in Tick, CrashAfterCursor(t) PROVE Takes(t)
  BY <1>4 DEF CrashAfterCursor, Restart, Takes
<1>5. ASSUME NEW k \in Key, NEW ts \in 1 .. MaxTs, Expire(k, ts) PROVE Keeps
  BY <1>5 DEF Expire, Keeps
<1>6. ASSUME NEW b \in Box, ChangeStatus(b) PROVE Keeps /\ UNCHANGED feed
  BY <1>6, <1>0 DEF ChangeStatus, Keeps, TypeOK, Status
<1>7. ASSUME NEW k \in Key, SyncCamera(k) PROVE Keeps /\ UNCHANGED feed
  BY <1>7 DEF SyncCamera, Keeps
<1> QED
  BY <1>1, <1>2, <1>3, <1>4, <1>5, <1>6, <1>7
  DEF Next, CrashStep, EnvironmentStep

\* What taking over an answer does to the counts of its channel.
LEMMA TakesNew ==
    ASSUME IInv, NEW t \in Tick, Takes(t),
           NEW k, k = KeyOf(t), NEW new, new = NewEvents(k, tick[t].resp)
    PROVE  /\ k \in Key /\ new \in SUBSET Event /\ boxes[k[1]] # "deleted"
           /\ UNCHANGED <<boxes, feed, latest>>
           /\ \A j \in Key \ {k} : inserted'[j] = inserted[j] /\ cursor'[j] = cursor[j]
           /\ \E last \in new :
                 /\ cursor'[k] = last.ts /\ last.ts <= latest[k]
                 /\ \A e \in new : cursor[k] < e.ts /\ e.ts <= last.ts
           /\ \A e \in Event :
                 inserted'[k][e] = inserted[k][e] + IF e \in new THEN 1 ELSE 0
<1>1. TypeOK /\ tick[t].pc = "answered"
  BY DEF IInv, Takes
<1>2. /\ k \in Key /\ new \in SUBSET Event /\ new \subseteq tick[t].resp
      /\ \A e \in new : cursor[k] < e.ts
  BY <1>1, StoredNew, BoundsAssumption DEF NewEvents, TypeOK, Event
<1>3. Insert(k, new) /\ UpsertCursor(k, new)
  BY DEF Takes
<1>4. PICK last \in new :
        /\ \A e \in new : e.ts <= last.ts
        /\ cursor' = [cursor EXCEPT ![k] = last.ts]
  BY <1>1, <1>2, <1>3, CursorMoves
<1>5. last.ts <= latest[k]
  BY <1>1, <1>2 DEF IInv, NoneFromTheFuture
<1>6. /\ cursor'[k] = last.ts
      /\ \A j \in Key \ {k} : inserted'[j] = inserted[j] /\ cursor'[j] = cursor[j]
      /\ \A e \in Event : inserted'[k][e] = inserted[k][e] + IF e \in new THEN 1 ELSE 0
  BY <1>1, <1>2, <1>3, <1>4 DEF TypeOK, Insert, CountIn
<1>7. boxes[k[1]] # "deleted"
  BY DEF Takes, HasBoxRow, KeyOf
<1> QED BY <1>2, <1>4, <1>5, <1>6, <1>7 DEF Takes

\* The cursor of a registered box never goes back, in any order of ticks and
\* with crashes anywhere.
THEOREM CursorNeverGoesBack == Spec => CursorAdvances
<1> DEFINE Adv == \A k \in Key : boxes'[k[1]] # "deleted" => cursor'[k] >= cursor[k]
<1>1. IInv /\ [Next]_vars => [Adv]_vars
  <2> SUFFICES ASSUME IInv, Next PROVE Adv
    OBVIOUS
  <2>1. \A k \in Key : cursor[k] \in Int /\ k[1] \in Box
    BY BoundsAssumption DEF IInv, TypeOK, Key
  <2>2. ASSUME NEW t \in Tick, Takes(t) PROVE Adv
    <3> DEFINE key == KeyOf(t)
               new == NewEvents(key, tick[t].resp)
    <3>1. \A e \in Event : e.ts \in Int
      BY DEF Event
    <3>2. /\ new \in SUBSET Event
          /\ \A j \in Key \ {key} : cursor'[j] = cursor[j]
          /\ \E last \in new : cursor'[key] = last.ts /\ cursor[key] < last.ts
      BY <2>2, TakesNew
    <3>3. \A j \in Key : cursor'[j] >= cursor[j]
      BY <3>1, <3>2, <2>1
    <3> QED BY <3>3
  <2>3. CASE Keeps
    BY <2>1, <2>3 DEF Keeps
  <2>4. CASE UNCHANGED cursor
    BY <2>1, <2>4
  <2>5. ASSUME NEW b \in Box, DeleteBox(b) PROVE Adv
    BY <2>1, <2>5 DEF DeleteBox, IInv, TypeOK
  <2> QED BY <2>2, <2>3, <2>4, <2>5, StepKinds DEF Detect, alerts
<1> QED BY <1>1, Invariance, PTL DEF Spec, CursorAdvances

-----------------------------------------------------------------------------
(* Refinement: the poller is an AlertLog.                                   *)

\* Taking over an answer acknowledges its new detections, and with them those
\* that a crash had left stored and the cursor now passes.
LEMMA TakesAcknowledges ==
    ASSUME IInv, NEW t \in Tick, Takes(t)
    PROVE  \E S \in SUBSET Event : Log!Acknowledge(KeyOf(t), S)
<1> DEFINE k == KeyOf(t)
           new == NewEvents(k, tick[t].resp)
           S == {e \in Event : /\ inserted'[k][e] >= 1
                               /\ cursor[k] < e.ts /\ e.ts <= cursor'[k]}
<1>1. /\ k \in Key /\ new \in SUBSET Event /\ boxes[k[1]] # "deleted"
      /\ UNCHANGED <<boxes, feed, latest>>
      /\ \A j \in Key \ {k} : inserted'[j] = inserted[j] /\ cursor'[j] = cursor[j]
      /\ \A e \in Event : inserted'[k][e] = inserted[k][e] + IF e \in new THEN 1 ELSE 0
  BY TakesNew
<1>2. PICK last \in new :
        /\ cursor'[k] = last.ts /\ last.ts <= latest[k]
        /\ \A e \in new : cursor[k] < e.ts /\ e.ts <= last.ts
  BY TakesNew
<1>3. /\ \A e \in Event : e.ts \in Nat
      /\ cursor[k] \in Nat /\ latest[k] \in Nat
      /\ \A j \in Key, e \in Event : inserted[j][e] \in Nat
      /\ \A j \in Key : feed[j] \subseteq Event
  <2>1. \A e \in Event : e.ts \in Nat
    BY DEF Event
  <2>2. TypeOK
    BY DEF IInv
  <2>3. cursor[k] \in Nat /\ latest[k] \in Nat
    BY <1>1, <2>2, BoundsAssumption DEF TypeOK
  <2>4. /\ \A j \in Key, e \in Event : inserted[j][e] \in Nat
        /\ \A j \in Key : feed[j] \subseteq Event
    BY <2>2 DEF TypeOK
  <2> QED BY <2>1, <2>3, <2>4
<1>4. last.ts \in Nat /\ last \in Event
  BY <1>1, <1>3
<1>5. new \subseteq S
  <2> SUFFICES ASSUME NEW e \in new PROVE e \in S
    OBVIOUS
  <2>1. e \in Event /\ inserted'[k][e] = inserted[k][e] + 1
    BY <1>1
  <2>2. inserted'[k][e] >= 1
    BY <2>1, <1>1, <1>3
  <2>3. cursor[k] < e.ts /\ e.ts <= cursor'[k]
    BY <1>2
  <2> QED BY <2>1, <2>2, <2>3
<1>6. k \notin removed /\ S # {} /\ S \subseteq Event
  BY <1>1, <1>2, <1>5 DEF removed
<1>7. \A e \in S : e.ts <= latest[k]
  BY <1>2, <1>3, <1>4
<1>8. acknowledged[k] = {e \in Event : inserted[k][e] >= 1 /\ e.ts <= cursor[k]}
  BY <1>1 DEF acknowledged
<1>9. \A e \in S, a \in acknowledged[k] : a.ts < e.ts
  BY <1>3, <1>8
<1>10. \A h \in feed[k] : (\E e \in S : h.ts <= e.ts) => h \in acknowledged[k] \cup S
  <2> SUFFICES ASSUME NEW h \in feed[k], NEW e \in S, h.ts <= e.ts,
                      h \notin acknowledged[k]
               PROVE  h \in S
    OBVIOUS
  <2>1. h \in Event
    BY <1>1, <1>3
  <2>2. ~(h.ts <= cursor[k])
    BY <2>1, <1>1, <1>8 DEF IInv, NothingSkipped
  <2>3. h.ts <= last.ts
    BY <2>1, <1>2, <1>3, <1>4
  <2>4. h \in tick[t].resp
    BY <1>1, <2>3 DEF IInv, AnswersComplete, Takes, NewEvents
  <2>5. h \in new
    BY <2>1, <2>2, <2>4, <1>3 DEF NewEvents
  <2> QED BY <2>5, <1>5
<1>11. acknowledged' = [acknowledged EXCEPT ![k] = @ \cup S]
  <2>1. /\ acknowledged = [j \in Key |->
              {e \in Event : inserted[j][e] >= 1 /\ e.ts <= cursor[j]}]
        /\ acknowledged' = [j \in Key |->
              {e \in Event : inserted'[j][e] >= 1 /\ e.ts <= cursor'[j]}]
    BY DEF acknowledged
  <2>2. \A j \in Key \ {k} : acknowledged'[j] = acknowledged[j]
    BY <2>1, <1>1
  <2>3. \A e \in Event : e.ts <= cursor[k] =>
           inserted'[k][e] = inserted[k][e] /\ e.ts <= cursor'[k]
    <3> SUFFICES ASSUME NEW e \in Event, e.ts <= cursor[k]
                 PROVE  inserted'[k][e] = inserted[k][e] /\ e.ts <= cursor'[k]
      OBVIOUS
    <3>1. e \notin new
      BY <1>2, <1>3
    <3>2. cursor[k] < last.ts
      BY <1>2
    <3> QED BY <3>1, <3>2, <1>1, <1>2, <1>3, <1>4
  <2>4. acknowledged'[k] = acknowledged[k] \cup S
    <3>1. acknowledged'[k] = {e \in Event : inserted'[k][e] >= 1 /\ e.ts <= cursor'[k]}
      BY <2>1, <1>1
    <3>2. acknowledged[k] = {e \in Event : inserted[k][e] >= 1 /\ e.ts <= cursor[k]}
      BY <1>8
    <3>3. ASSUME NEW e \in Event
          PROVE  (inserted'[k][e] >= 1 /\ e.ts <= cursor'[k])
                     <=> (e \in acknowledged[k] \/ e \in S)
      <4>1. CASE e.ts <= cursor[k]
        <5>1. e \notin S
          BY <4>1, <1>3
        <5> QED BY <4>1, <5>1, <3>2, <2>3
      <4>2. CASE cursor[k] < e.ts
        <5>1. e \notin acknowledged[k]
          BY <4>2, <3>2, <1>3
        <5> QED BY <4>2, <5>1
      <4> QED BY <4>1, <4>2, <1>3
    <3>4. acknowledged[k] \subseteq Event /\ S \subseteq Event
      BY <3>2
    <3>5. \A e : e \in acknowledged'[k]
                     <=> e \in Event /\ inserted'[k][e] >= 1 /\ e.ts <= cursor'[k]
      BY <3>1
    <3> HIDE DEF S, k
    <3>6. acknowledged'[k] \subseteq acknowledged[k] \cup S
      BY <3>3, <3>5
    <3>7. acknowledged[k] \cup S \subseteq acknowledged'[k]
      BY <3>3, <3>4, <3>5
    <3> QED BY <3>6, <3>7
  <2>5. k \in Key
    BY <1>1
  <2>6. DOMAIN acknowledged = Key /\ DOMAIN acknowledged' = Key
    BY <2>1
  <2>7. acknowledged = [j \in Key |-> acknowledged[j]]
        /\ acknowledged' = [j \in Key |-> acknowledged'[j]]
    BY <2>1
  <2> HIDE DEF S, k
  <2> QED BY <2>2, <2>4, <2>5, <2>6, <2>7
<1>12. UNCHANGED <<feed, latest, removed>>
  BY <1>1 DEF removed
<1>13. Log!Acknowledge(k, S)
  BY <1>6, <1>7, <1>9, <1>10, <1>11, <1>12 DEF Log!Acknowledge
<1> QED BY <1>6, <1>13


LEMMA KeepsAcknowledged ==
    ASSUME IInv, Keeps PROVE UNCHANGED <<acknowledged, removed>>
<1>1. \A k \in Key, e \in Event :
         (inserted'[k][e] >= 1 /\ e.ts <= cursor'[k])
             <=> (inserted[k][e] >= 1 /\ e.ts <= cursor[k])
  <2>1. \A k \in Key : cursor[k] \in Int
    BY BoundsAssumption DEF IInv, TypeOK
  <2>2. \A e \in Event : e.ts \in Int
    BY DEF Event
  <2> QED BY <2>1, <2>2 DEF Keeps
<1>2. acknowledged' = acknowledged
  BY <1>1 DEF acknowledged
<1>3. removed' = removed
  BY DEF Keeps, removed, Key
<1> QED BY <1>2, <1>3

LEMMA DetectDetects ==
    ASSUME IInv, NEW k \in Key, NEW S \in SUBSET Obj, Detect(k, S)
    PROVE  \E F \in SUBSET Event : Log!Detect(k, F)
<1> DEFINE ts == latest[k] + 1
           F == {[ts |-> ts, obj |-> o] : o \in S}
<1> USE DEF db, alerts
<1>0. TypeOK
  BY DEF IInv
<1>1. ts \in 1 .. MaxTs /\ latest[k] \in Nat
  BY <1>0, BoundsAssumption DEF Detect, TypeOK
<1>2. F \in SUBSET Event /\ F # {} /\ \A e \in F : e.ts = ts
  <2>1. \A o \in S : [ts |-> ts, obj |-> o] \in Event
    BY <1>1 DEF Event
  <2>2. PICK o \in S : TRUE
    BY DEF Detect
  <2>3. [ts |-> ts, obj |-> o] \in F
    OBVIOUS
  <2> QED BY <2>1, <2>3
<1>3. feed' = [feed EXCEPT ![k] = @ \cup F] /\ latest' = [latest EXCEPT ![k] = ts]
  BY DEF Detect
<1>4. latest' \in [Key -> Int]
  BY <1>0, <1>1, <1>3, BoundsAssumption DEF TypeOK
<1>5. \A m \in Key : IF m = k THEN \A e \in F : e.ts <= latest'[m]
                               ELSE latest'[m] = latest[m]
  BY <1>0, <1>1, <1>2, <1>3 DEF TypeOK
<1>6. \A e \in F : e.ts > latest[k]
  BY <1>1, <1>2
<1>7. UNCHANGED <<acknowledged, removed>>
  BY DEF Detect, acknowledged, removed
<1> QED BY <1>2, <1>3, <1>4, <1>5, <1>6, <1>7 DEF Log!Detect

LEMMA ExpireExpires ==
    ASSUME IInv, NEW k \in Key, NEW ts \in 1 .. MaxTs, Expire(k, ts), Keeps
    PROVE  Log!Expire(k)
<1>0. TypeOK
  BY DEF IInv
<1>1. feed' = [feed EXCEPT ![k] = {e \in feed[k] : e.ts > ts}]
  BY DEF Expire
<1>2. feed' \in [Key -> SUBSET Event] /\ \A m \in Key \ {k} : feed'[m] = feed[m]
  BY <1>0, <1>1 DEF TypeOK
<1>3. feed'[k] = {e \in feed[k] : e.ts > ts}
  BY <1>0, <1>1 DEF TypeOK
<1>4. \A e \in feed[k] \ feed'[k], f \in feed'[k] : e.ts < f.ts
  <2>1. \A e \in feed[k] : e.ts \in Int
    BY <1>0 DEF TypeOK, Event
  <2> QED BY <2>1, <1>3
<1>5. UNCHANGED <<latest, acknowledged, removed>>
  BY KeepsAcknowledged DEF Keeps
<1> QED BY <1>2, <1>3, <1>4, <1>5 DEF Log!Expire

LEMMA DeleteRemoves ==
    ASSUME IInv, NEW b \in Box, DeleteBox(b)
    PROVE  \E R \in SUBSET Key : Log!Remove(R)
<1> DEFINE R == {k \in Key : k[1] = b}
<1>0. TypeOK
  BY DEF IInv
<1>1. \A k \in Key : k[1] \in Box
  BY DEF Key
<1>2. boxes[b] # "deleted" /\ boxes' = [boxes EXCEPT ![b] = "deleted"]
  BY DEF DeleteBox
<1>3. R \subseteq Key \ removed
  BY <1>2 DEF removed
<1>4. removed' = removed \cup R
  BY <1>0, <1>1, <1>2 DEF TypeOK, removed
<1>5. acknowledged' = [k \in Key |-> IF k \in R THEN {} ELSE acknowledged[k]]
  <2>1. acknowledged' = [k \in Key |->
           {e \in Event : inserted'[k][e] >= 1 /\ e.ts <= cursor'[k]}]
    BY DEF acknowledged
  <2>2. ASSUME NEW k \in R
        PROVE  {e \in Event : inserted'[k][e] >= 1 /\ e.ts <= cursor'[k]} = {}
    <3>1. \A e \in Event : inserted'[k][e] = 0
      BY DEF DeleteBox, Never
    <3> QED BY <3>1
  <2>3. \A k \in Key \ R : inserted'[k] = inserted[k] /\ cursor'[k] = cursor[k]
    BY DEF DeleteBox
  <2> QED BY <2>1, <2>2, <2>3 DEF acknowledged
<1>6. UNCHANGED <<feed, latest>>
  BY DEF DeleteBox, source
<1> QED BY <1>3, <1>4, <1>5, <1>6 DEF Log!Remove

\* The poller keeps the log's promise: every run of ticks, overlaps, crashes
\* and deletions is a run of AlertLog, in which each channel's detections are
\* taken over in time order, each once, and none that is still held is passed.
THEOREM PollerImplementsLog == Spec => ImplementsLog
<1>1. Init => Log!Init
  <2> SUFFICES ASSUME Init PROVE Log!Init
    OBVIOUS
  <2>1. acknowledged = [k \in Key |-> {}]
    BY DEF Init, acknowledged, Never
  <2>2. removed = {}
    BY DEF Init, removed, Key
  <2> QED BY <2>1, <2>2 DEF Init, Log!Init
<1>2. IInv /\ [Next]_vars => [Log!Next]_(Log!vars)
  <2> SUFFICES ASSUME IInv, [Next]_vars PROVE Log!Next \/ UNCHANGED Log!vars
    OBVIOUS
  <2>1. CASE UNCHANGED vars
    BY <2>1 DEF vars, db, source, alerts, Log!vars, acknowledged, removed
  <2>2. ASSUME NEW t \in Tick, Takes(t) PROVE Log!Next
    <3>1. KeyOf(t) \in Key
      BY <2>2, TakesNew
    <3> QED BY <3>1, <2>2, TakesAcknowledges DEF Log!Next
  <2>3. CASE Keeps /\ UNCHANGED feed
    BY <2>3, KeepsAcknowledged DEF Keeps, Log!vars
  <2>4. ASSUME NEW k \in Key, NEW ts \in 1 .. MaxTs, Expire(k, ts), Keeps
        PROVE  Log!Next
    BY <2>4, ExpireExpires DEF Log!Next
  <2>5. ASSUME NEW k \in Key, NEW S \in SUBSET Obj, Detect(k, S) PROVE Log!Next
    BY <2>5, DetectDetects DEF Log!Next
  <2>6. ASSUME NEW b \in Box, DeleteBox(b) PROVE Log!Next
    BY <2>6, DeleteRemoves DEF Log!Next
  <2> QED BY <2>1, <2>2, <2>3, <2>4, <2>5, <2>6, StepKinds
<1> QED BY <1>1, <1>2, Invariance, PTL DEF Spec, ImplementsLog, Log!Spec

-----------------------------------------------------------------------------
(* The history: its size, and that what is kept is the newest.             *)

\* Trimming keeps MaxHistory rows at most, none older than one it deletes.
LEMMA TrimIs ==
    ASSUME NEW rows, NEW keep \in TrimHistory(rows)
    PROVE  /\ keep \subseteq rows
           /\ Cardinality(keep) <= MaxHistory
           /\ \A r \in keep, d \in rows \ keep : d.evt.ts <= r.evt.ts
<1>1. CASE Cardinality(rows) <= MaxHistory
  BY <1>1 DEF TrimHistory
<1>2. CASE ~(Cardinality(rows) <= MaxHistory)
  BY <1>2, BoundsAssumption DEF TrimHistory, kSubset
<1> QED BY <1>1, <1>2

LEMMA BoundStep == TypeOK /\ HistoryBounded /\ [Next]_vars => HistoryBounded'
<1> SUFFICES ASSUME TypeOK, HistoryBounded, [Next]_vars PROVE HistoryBounded'
  OBVIOUS
<1> USE DEF db, source, alerts
<1>1. ASSUME NEW t \in Tick, HandleNew(t) PROVE HistoryBounded'
  <2> DEFINE k == KeyOf(t)
             new == NewEvents(k, tick[t].resp)
  <2>1. PICK keep \in TrimHistory(history[k] \cup RowsFor(k, new)) :
           history' = [history EXCEPT ![k] = keep]
    BY <1>1 DEF HandleNew
  <2>2. Cardinality(keep) <= MaxHistory
    BY TrimIs
  <2>3. crashes' = crashes /\ k \in Key
    BY <1>1, StoredNew DEF HandleNew
  <2> QED BY <2>1, <2>2, <2>3 DEF HistoryBounded, TypeOK
<1>2. CASE crashes' = crashes + 1
  BY <1>2 DEF HistoryBounded, TypeOK
<1>3. ASSUME NEW b \in Box, DeleteBox(b) PROVE HistoryBounded'
  BY <1>3, FS_EmptySet, BoundsAssumption DEF DeleteBox, HistoryBounded, TypeOK
<1>4. CASE UNCHANGED <<history, crashes>>
  BY <1>4 DEF HistoryBounded
<1> QED
  BY <1>1, <1>2, <1>3, <1>4
  DEF Next, TickStep, CrashStep, EnvironmentStep, StartTick, Decrypted, BoxAnswers,
      PollFails, HandleNothing, Crash, CrashInserting, CrashAfterCursor, Restart,
      Detect, Expire, ChangeStatus, SyncCamera, vars

\* As long as the process has not crashed, no channel keeps more alerts than
\* MAX_HISTORY_COUNT, however many an answer brings at once.
THEOREM HistoryBoundedAlways == Spec => []HistoryBounded
<1>1. Init => HistoryBounded
  BY FS_EmptySet, BoundsAssumption DEF Init, HistoryBounded
<1> QED BY <1>1, TypeCorrect, BoundStep, PTL DEF Spec

\* A copy of the detection was stored and has been trimmed.
Missing(k, e) ==
    \E c \in 1 .. inserted[k][e] : [evt |-> e, copy |-> c] \notin history[k]

\* Every row is one of the copies that were stored.
RowsCounted ==
    \A k \in Key : \A r \in history[k] : r.copy \in 1 .. inserted[k][r.evt]

\* What was trimmed has been passed, and is not newer than any row.
TrimmedOldest ==
    \A k \in Key, e \in Event :
        Missing(k, e) =>
            /\ e.ts <= cursor[k]
            /\ \A r \in history[k] : e.ts <= r.evt.ts

\* A box forgets its oldest detections first.
FeedHasLatest ==
    \A k \in Key : feed[k] # {} => \E e \in feed[k] : e.ts = latest[k]

\* A row that a crash left beyond the cursor is not beyond what an answer under
\* way holds.
AheadReported ==
    /\ \A k \in Key : \A r \in history[k] : r.evt.ts <= latest[k]
    /\ \A t \in Tick : tick[t].pc = "answered" =>
          \A r \in history[KeyOf(t)] :
              r.evt.ts > cursor[KeyOf(t)] /\ tick[t].resp # {} =>
                  \E f \in tick[t].resp : r.evt.ts <= f.ts

HistInv == RowsCounted /\ TrimmedOldest /\ FeedHasLatest /\ AheadReported

\* Some new detections of an answer are stored, and keep is what remains of
\* the rows: all of them, or the newest, all new ones passed by the cursor.
Grows(t, k, new, S, rows, keep) ==
    /\ k = KeyOf(t) /\ new = NewEvents(k, tick[t].resp) /\ tick[t].pc = "answered"
    /\ rows = history[k] \cup RowsFor(k, S)
    /\ Insert(k, S) /\ history' = [history EXCEPT ![k] = keep]
    /\ S \subseteq new /\ keep \subseteq rows
    /\ \A r \in keep, d \in rows \ keep : d.evt.ts <= r.evt.ts
    /\ cursor' \in [Key -> Int] /\ \A j \in Key : cursor'[j] >= cursor[j]
    /\ keep = rows \/ (new # {} /\ \A e \in new : e.ts <= cursor'[k])

LEMMA HistoryGrows ==
    ASSUME IInv, HistInv, NEW t \in Tick, NEW k, NEW new, NEW S, NEW rows, NEW keep,
           Grows(t, k, new, S, rows, keep)
    PROVE  RowsCounted' /\ TrimmedOldest'
<1>0. /\ k = KeyOf(t) /\ new = NewEvents(k, tick[t].resp) /\ tick[t].pc = "answered"
      /\ rows = history[k] \cup RowsFor(k, S)
      /\ Insert(k, S) /\ history' = [history EXCEPT ![k] = keep]
      /\ S \subseteq new /\ keep \subseteq rows
      /\ \A r \in keep, d \in rows \ keep : d.evt.ts <= r.evt.ts
      /\ cursor' \in [Key -> Int] /\ \A j \in Key : cursor'[j] >= cursor[j]
      /\ keep = rows \/ (new # {} /\ \A e \in new : e.ts <= cursor'[k])
  BY DEF Grows
<1> USE <1>0
<1>1. TypeOK /\ k \in Key /\ new \in SUBSET Event /\ tick[t].resp \in SUBSET Event
  BY StoredNew DEF IInv
<1>2. /\ \A j \in Key \ {k} : history'[j] = history[j] /\ inserted'[j] = inserted[j]
      /\ history'[k] = keep
      /\ \A e \in Event : inserted'[k][e] = inserted[k][e] + IF e \in S THEN 1 ELSE 0
      /\ \A j \in Key, e \in Event : inserted[j][e] \in Nat
      /\ \A j \in Key : history[j] \subseteq Row /\ cursor[j] \in Int
      /\ \A e \in Event : e.ts \in Int
  <2>1. /\ \A j \in Key, e \in Event : inserted[j][e] \in Nat
        /\ \A j \in Key : history[j] \subseteq Row /\ cursor[j] \in Int
    BY <1>1 DEF TypeOK
  <2>2. \A e \in Event : e.ts \in Int
    BY DEF Event
  <2>3. /\ \A j \in Key \ {k} : history'[j] = history[j]
        /\ history'[k] = keep
    BY <1>1 DEF TypeOK
  <2>4. inserted' = [inserted EXCEPT ![k] = CountIn(inserted[k], S)]
    BY DEF Insert
  <2>5. /\ \A j \in Key \ {k} : inserted'[j] = inserted[j]
        /\ inserted'[k] = CountIn(inserted[k], S)
    BY <2>4, <1>1 DEF TypeOK
  <2>6. \A e \in Event : inserted'[k][e] = inserted[k][e] + IF e \in S THEN 1 ELSE 0
    BY <2>5 DEF CountIn
  <2> QED BY <2>1, <2>2, <2>3, <2>5, <2>6
<1>3. \A r \in RowsFor(k, S) : /\ r.evt \in S /\ r.evt \in Event
                               /\ r.copy = inserted[k][r.evt] + 1
                               /\ r.evt.ts > cursor[k]
  BY <1>1 DEF RowsFor, NewEvents
<1>4. RowsCounted'
  <2> SUFFICES ASSUME NEW j \in Key, NEW r \in history'[j]
               PROVE  r.copy \in 1 .. inserted'[j][r.evt]
    BY DEF RowsCounted
  <2>1. CASE j # k
    BY <2>1, <1>2 DEF HistInv, RowsCounted
  <2>2. CASE j = k /\ r \in history[k]
    <3>1. r.copy \in 1 .. inserted[k][r.evt] /\ r.evt \in Event
      BY <2>2, <1>1, <1>2 DEF HistInv, RowsCounted, Row
    <3> QED BY <3>1, <2>2, <1>2
  <2>3. CASE j = k /\ r \in RowsFor(k, S)
    <3>1. inserted'[k][r.evt] = inserted[k][r.evt] + 1 /\ inserted[k][r.evt] \in Nat
      BY <2>3, <1>1, <1>2, <1>3
    <3> QED BY <3>1, <2>3, <1>3
  <2> QED BY <2>1, <2>2, <2>3, <1>2
<1>5. TrimmedOldest'
  <2> SUFFICES ASSUME NEW j \in Key, NEW e \in Event, NEW c \in 1 .. inserted'[j][e],
                      [evt |-> e, copy |-> c] \notin history'[j]
               PROVE  /\ e.ts <= cursor'[j]
                      /\ \A r \in history'[j] : e.ts <= r.evt.ts
    BY DEF TrimmedOldest, Missing
  <2> DEFINE x == [evt |-> e, copy |-> c]
  <2>1. CASE j # k
    <3>1. Missing(j, e)
      BY <2>1, <1>2 DEF Missing
    <3>2. e.ts <= cursor[j] /\ \A r \in history[j] : e.ts <= r.evt.ts
      BY <3>1 DEF HistInv, TrimmedOldest
    <3> QED BY <3>2, <2>1, <1>2
  <2>2. CASE j = k /\ x \notin rows
    <3>1. c <= inserted[k][e]
      <4>1. CASE e \in S /\ c = inserted[k][e] + 1
        BY <4>1, <2>2 DEF RowsFor
      <4>2. CASE ~(e \in S /\ c = inserted[k][e] + 1)
        BY <4>2, <2>2, <1>2
      <4> QED BY <4>1, <4>2
    <3>2. Missing(k, e)
      BY <3>1, <2>2 DEF Missing
    <3>3. e.ts <= cursor[k] /\ \A r \in history[k] : e.ts <= r.evt.ts
      BY <3>2, <1>1 DEF HistInv, TrimmedOldest
    <3>4. \A r \in RowsFor(k, S) : e.ts <= r.evt.ts
      BY <3>3, <1>1, <1>2, <1>3
    <3>5. e.ts <= cursor'[k]
      BY <3>3, <1>1, <1>2
    <3> QED BY <3>3, <3>4, <3>5, <2>2, <1>2
  <2>3. CASE j = k /\ x \in rows
    <3>1. x \in rows \ keep /\ new # {} /\ \A f \in new : f.ts <= cursor'[k]
      BY <2>3, <1>2
    <3>2. \A r \in keep : e.ts <= r.evt.ts
      BY <3>1
    <3>3. ASSUME e.ts > cursor'[k] PROVE FALSE
      <4>1. x \notin RowsFor(k, S)
        BY <3>1, <3>3, <1>1, <1>2, <1>3
      <4>2. x \in history[k] /\ x.evt.ts > cursor[k]
        BY <4>1, <3>1, <3>3, <1>1, <1>2
      <4>3. tick[t].resp # {}
        BY <3>1 DEF NewEvents
      <4>4. PICK f \in tick[t].resp : e.ts <= f.ts
        BY <4>2, <4>3 DEF HistInv, AheadReported
      <4>5. f \in new
        BY <4>2, <4>4, <1>1, <1>2 DEF NewEvents
      <4> QED BY <4>4, <4>5, <3>1, <3>3, <1>1, <1>2
    <3> QED BY <3>2, <3>3, <2>3, <1>1, <1>2
  <2> QED BY <2>1, <2>2, <2>3
<1> QED BY <1>4, <1>5

\* What a box reports stays complete, and so do the answers under way, when
\* only rows that the cursor has passed are added, or no answer is left.
LEMMA AheadKept ==
    ASSUME IInv, HistInv, AnswersKept, UNCHANGED <<feed, latest>>,
           cursor' \in [Key -> Int],
           \A j \in Key : history'[j] = {} \/ cursor'[j] >= cursor[j],
           \A j \in Key : \A r \in history'[j] :
               r \in Row /\ r.evt.ts <= latest[j],
           \/ \A u \in Tick : tick'[u].pc # "answered"
           \/ \A j \in Key : \A r \in history'[j] :
                  r \in history[j] \/ r.evt.ts <= cursor'[j]
    PROVE  FeedHasLatest' /\ AheadReported'
<1>1. FeedHasLatest'
  BY DEF HistInv, FeedHasLatest
<1>2. \A j \in Key : \A r \in history'[j] : r.evt.ts <= latest'[j]
  OBVIOUS
<1>3. ASSUME NEW u \in Tick, tick'[u].pc = "answered",
             NEW r \in history'[KeyOf(u)'], r.evt.ts > cursor'[KeyOf(u)'],
             tick'[u].resp # {}
      PROVE  \E f \in tick'[u].resp : r.evt.ts <= f.ts
  <2>1. tick'[u] = tick[u] /\ KeyOf(u)' = KeyOf(u)
    BY <1>3 DEF AnswersKept, KeyOf
  <2>2. KeyOf(u) \in Key /\ TypeOK
    BY <1>3, <2>1, StoredNew DEF IInv
  <2> DEFINE j == KeyOf(u)
  <2>3. r \in Row /\ r.evt.ts \in Int
    BY <1>3, <2>1, <2>2 DEF Row, Event
  <2>4. r \in history[j] /\ cursor'[j] >= cursor[j]
    BY <1>3, <2>1, <2>2, <2>3
  <2>5. r.evt.ts > cursor[j]
    BY <1>3, <2>1, <2>2, <2>3, <2>4 DEF TypeOK
  <2> QED BY <1>3, <2>1, <2>4, <2>5 DEF HistInv, AheadReported
<1> QED BY <1>1, <1>2, <1>3 DEF AheadReported

\* Storing detections, trimmed or not, whether or not the process then crashes.
LEMMA HistStored ==
    ASSUME IInv, HistInv, NEW t \in Tick, tick[t].pc = "answered",
           NEW k, k = KeyOf(t), NEW new, new = NewEvents(k, tick[t].resp),
           NEW S \in SUBSET new, NEW rows, rows = history[k] \cup RowsFor(k, S),
           NEW keep, keep = rows \/ (S = new /\ keep \in TrimHistory(rows)),
           Insert(k, S), history' = [history EXCEPT ![k] = keep],
           \/ new # {} /\ S = new /\ UpsertCursor(k, new)
           \/ keep = rows /\ UNCHANGED cursor
              /\ \A u \in Tick : tick'[u].pc # "answered",
           AnswersKept, UNCHANGED <<feed, latest>>
    PROVE  HistInv'
<1>1. TypeOK /\ k \in Key /\ new \in SUBSET Event /\ new \subseteq tick[t].resp
  BY StoredNew DEF IInv, NewEvents
<1>2. keep \subseteq rows /\ \A r \in keep, d \in rows \ keep : d.evt.ts <= r.evt.ts
  BY TrimIs
<1>3. /\ cursor' \in [Key -> 0 .. MaxTs] /\ \A j \in Key : cursor'[j] >= cursor[j]
      /\ UpsertCursor(k, new) => \A e \in new : e.ts <= cursor'[k]
  <2>0. cursor \in [Key -> 0 .. MaxTs] /\ MaxTs \in Nat
    BY <1>1, BoundsAssumption DEF TypeOK
  <2>1. CASE UNCHANGED cursor /\ ~UpsertCursor(k, new)
    BY <2>0, <2>1
  <2>2. CASE UpsertCursor(k, new)
    <3>1. PICK e \in new : /\ \A f \in new : f.ts <= e.ts
                           /\ cursor' = [cursor EXCEPT ![k] = e.ts]
                           /\ cursor' \in [Key -> 0 .. MaxTs]
      BY <1>1, <2>2, CursorMoves
    <3>2. e.ts > cursor[k] /\ e.ts \in Int
      BY <3>1, <1>1 DEF NewEvents, Event
    <3> QED BY <3>1, <3>2, <2>0, <1>1
  <2> QED BY <2>1, <2>2
<1>4. cursor' \in [Key -> Int]
  BY <1>3
<1>5. keep = rows \/ (new # {} /\ \A e \in new : e.ts <= cursor'[k])
  BY <1>3
<1>6. RowsCounted' /\ TrimmedOldest'
  <2>1. Grows(t, k, new, S, rows, keep)
    BY <1>2, <1>3, <1>4, <1>5 DEF Grows
  <2> QED BY <2>1, HistoryGrows
<1>7. \A r \in RowsFor(k, S) : r \in Row /\ r.evt \in S /\ r.evt.ts <= latest[k]
  <2>1. RowsFor(k, S) \in SUBSET Row
    BY <1>1, InsertType
  <2>2. \A e \in S : e.ts <= latest[k]
    BY <1>1 DEF IInv, NoneFromTheFuture
  <2> QED BY <2>1, <2>2 DEF RowsFor
<1>8. /\ \A j \in Key \ {k} : history'[j] = history[j]
      /\ history'[k] = keep
      /\ \A j \in Key : history[j] \subseteq Row
  BY <1>1 DEF TypeOK
<1>9. \A j \in Key : \A r \in history'[j] : r \in Row /\ r.evt.ts <= latest[j]
  BY <1>2, <1>7, <1>8 DEF HistInv, AheadReported
<1>10. \/ \A u \in Tick : tick'[u].pc # "answered"
       \/ \A j \in Key : \A r \in history'[j] :
              r \in history[j] \/ r.evt.ts <= cursor'[j]
  BY <1>2, <1>3, <1>7, <1>8
<1>11. FeedHasLatest' /\ AheadReported'
  BY <1>3, <1>4, <1>9, <1>10, AheadKept
<1> QED BY <1>6, <1>11 DEF HistInv

\* Rows, counts and cursors that stay keep what is known of them.
LEMMA RowsStay ==
    ASSUME HistInv, UNCHANGED <<history, inserted, cursor>>
    PROVE  RowsCounted' /\ TrimmedOldest'
  BY DEF HistInv, RowsCounted, TrimmedOldest, Missing

LEMMA HistStays ==
    ASSUME IInv, HistInv, AnswersKept,
           UNCHANGED <<history, inserted, cursor, feed, latest>>
    PROVE  HistInv'
<1>1. /\ cursor' \in [Key -> Int] /\ \A j \in Key : cursor'[j] >= cursor[j]
      /\ \A j \in Key : \A r \in history'[j] : r \in Row /\ r.evt.ts <= latest[j]
  BY DEF IInv, TypeOK, HistInv, AheadReported
<1>2. FeedHasLatest' /\ AheadReported'
  BY <1>1, AheadKept
<1> QED BY <1>2, RowsStay DEF HistInv

LEMMA HistStep == IInv /\ HistInv /\ [Next]_vars => HistInv'
<1> SUFFICES ASSUME IInv, HistInv, [Next]_vars PROVE HistInv'
  OBVIOUS
<1>0. TypeOK
  BY DEF IInv
<1> USE DEF db, source, alerts
<1>1. ASSUME NEW t \in Tick, TickStep(t) PROVE HistInv'
  <2>1. CASE StartTick(t)
    <3>1. \A s \in Advance(ActiveBoxes, None, {}) : s.pc # "answered"
      BY AdvanceWellFormed DEF ActiveBoxes
    <3>2. AnswersKept
      BY <3>1, <2>1, <1>0 DEF StartTick, AnswersKept, TypeOK
    <3> QED BY <3>2, <2>1, HistStays DEF StartTick
  <2>2. CASE Decrypted(t)
    <3>1. tick[t].boxes \in SUBSET Box /\ tick[t].box \in Box
      BY <2>2, <1>0 DEF Decrypted, TypeOK, TickState
    <3>2. \A s \in Advance(tick[t].boxes, tick[t].box, OnlineChannels(tick[t].box)) :
             s.pc # "answered"
      BY <3>1, AdvanceWellFormed DEF OnlineChannels
    <3>3. AnswersKept
      BY <3>2, <2>2, <1>0 DEF Decrypted, AnswersKept, TypeOK
    <3> QED BY <3>3, <2>2, HistStays DEF Decrypted
  <2>3. CASE BoxAnswers(t)
    <3>1. /\ \A u \in Tick \ {t} : tick'[u] = tick[u]
          /\ tick'[t].resp = feed[KeyOf(t)] /\ KeyOf(t)' = KeyOf(t) /\ KeyOf(t) \in Key
      BY <2>3, <1>0 DEF BoxAnswers, TypeOK, TickState, KeyOf, Key
    <3>2. UNCHANGED <<feed, latest, inserted, cursor, history>>
      BY <2>3 DEF BoxAnswers
    <3>3. RowsCounted' /\ TrimmedOldest'
      BY <3>2, RowsStay
    <3>4. FeedHasLatest'
      BY <3>2 DEF HistInv, FeedHasLatest
    <3>5. \A r \in history[KeyOf(t)] : feed[KeyOf(t)] # {} =>
             \E f \in feed[KeyOf(t)] : r.evt.ts <= f.ts
      BY <3>1 DEF HistInv, AheadReported, FeedHasLatest
    <3>6. \A u \in Tick \ {t} : KeyOf(u)' = KeyOf(u)
      BY <3>1 DEF KeyOf
    <3>7. AheadReported'
      BY <3>1, <3>2, <3>5, <3>6 DEF HistInv, AheadReported
    <3> QED BY <3>3, <3>4, <3>7 DEF HistInv
  <2>4. CASE PollFails(t)
    BY <2>4, <1>0, HistStays, GoOnKeepsAnswers DEF PollFails
  <2>5. CASE HandleNothing(t)
    BY <2>5, <1>0, HistStays, GoOnKeepsAnswers DEF HandleNothing
  <2>6. CASE HandleNew(t)
    <3> DEFINE k == KeyOf(t)
               new == NewEvents(k, tick[t].resp)
               rows == history[k] \cup RowsFor(k, new)
    <3>1. PICK keep \in TrimHistory(rows) : history' = [history EXCEPT ![k] = keep]
      BY <2>6 DEF HandleNew
    <3>2. /\ tick[t].pc = "answered" /\ new # {} /\ GoOn(t)
          /\ Insert(k, new) /\ UpsertCursor(k, new) /\ UNCHANGED <<feed, latest>>
      BY <2>6 DEF HandleNew
    <3>3. AnswersKept
      BY <3>2, <1>0, GoOnKeepsAnswers
    <3> HIDE DEF k, new, rows
    <3>4. k = KeyOf(t) /\ new = NewEvents(k, tick[t].resp)
          /\ rows = history[k] \cup RowsFor(k, new) /\ new \in SUBSET new
      BY DEF k, new, rows
    <3> QED BY <3>1, <3>2, <3>3, <3>4, HistStored
  <2> QED BY <1>1, <2>1, <2>2, <2>3, <2>4, <2>5, <2>6 DEF TickStep
<1>2. CASE Crash
  <2>1. AnswersKept
    BY <1>2, <1>0, RestartType DEF Crash, AnswersKept
  <2> QED BY <1>2, <2>1, HistStays DEF Crash, Restart
<1>3. ASSUME NEW t \in Tick, CrashInserting(t) PROVE HistInv'
  <2> DEFINE k == KeyOf(t)
             new == NewEvents(k, tick[t].resp)
  <2>1. PICK S \in SUBSET new :
          Insert(k, S) /\ history' = [history EXCEPT ![k] = @ \cup RowsFor(k, S)]
    BY <1>3 DEF CrashInserting
  <2> DEFINE rows == history[k] \cup RowsFor(k, S)
  <2>2. tick[t].pc = "answered" /\ UNCHANGED <<feed, latest, cursor>>
    BY <1>3 DEF CrashInserting, Restart
  <2>3. \A u \in Tick : tick'[u].pc # "answered"
    BY <1>3, <1>0, RestartType DEF CrashInserting
  <2>4. AnswersKept
    BY <2>3 DEF AnswersKept
  <2>5. history' = [history EXCEPT ![k] = rows]
    BY <2>1
  <2> HIDE DEF k, new, rows
  <2>6. k = KeyOf(t) /\ new = NewEvents(k, tick[t].resp)
        /\ rows = history[k] \cup RowsFor(k, S)
    BY DEF k, new, rows
  <2> QED BY <2>1, <2>2, <2>3, <2>4, <2>5, <2>6, HistStored
<1>4. ASSUME NEW t \in Tick, CrashAfterCursor(t) PROVE HistInv'
  <2> DEFINE k == KeyOf(t)
             new == NewEvents(k, tick[t].resp)
             rows == history[k] \cup RowsFor(k, new)
  <2>1. PICK keep : /\ keep = rows \/ keep \in TrimHistory(rows)
                    /\ history' = [history EXCEPT ![k] = keep]
    BY <1>4 DEF CrashAfterCursor
  <2>2. /\ tick[t].pc = "answered" /\ new # {}
        /\ Insert(k, new) /\ UpsertCursor(k, new) /\ UNCHANGED <<feed, latest>>
    BY <1>4 DEF CrashAfterCursor, Restart
  <2>3. AnswersKept
    BY <1>4, <1>0, RestartType DEF CrashAfterCursor, AnswersKept
  <2> HIDE DEF k, new, rows
  <2>4. k = KeyOf(t) /\ new = NewEvents(k, tick[t].resp)
        /\ rows = history[k] \cup RowsFor(k, new) /\ new \in SUBSET new
    BY DEF k, new, rows
  <2> QED BY <2>1, <2>2, <2>3, <2>4, HistStored
<1>5. ASSUME NEW k \in Key, NEW S \in SUBSET Obj, Detect(k, S) PROVE HistInv'
  <2>1. /\ S # {} /\ UNCHANGED <<history, inserted, cursor, tick>>
        /\ latest' = [latest EXCEPT ![k] = latest[k] + 1]
        /\ feed' = [feed EXCEPT ![k] = @ \cup {[ts |-> latest[k] + 1, obj |-> o] : o \in S}]
    BY <1>5 DEF Detect
  <2>2. \A j \in Key : latest[j] \in Int
    BY <1>0 DEF TypeOK
  <2>3. /\ latest'[k] = latest[k] + 1
        /\ \A j \in Key \ {k} : latest'[j] = latest[j] /\ feed'[j] = feed[j]
        /\ \E e \in feed'[k] : e.ts = latest[k] + 1
    <3>1. PICK o \in S : TRUE
      BY <2>1
    <3>2. [ts |-> latest[k] + 1, obj |-> o] \in feed'[k]
      BY <2>1, <3>1, <1>0 DEF TypeOK
    <3> QED BY <2>1, <3>2, <1>0 DEF TypeOK
  <2>4. FeedHasLatest'
    BY <2>3 DEF HistInv, FeedHasLatest
  <2>5. \A j \in Key : \A r \in history[j] : r.evt.ts \in Int
    BY <1>0 DEF TypeOK, Row, Event
  <2>6. \A j \in Key : \A r \in history'[j] : r.evt.ts <= latest'[j]
    BY <2>1, <2>2, <2>3, <2>5 DEF HistInv, AheadReported
  <2>7. AheadReported'
    BY <2>1, <2>6 DEF HistInv, AheadReported, KeyOf
  <2> QED BY <2>1, <2>4, <2>7, RowsStay DEF HistInv
<1>6. ASSUME NEW k \in Key, NEW ts \in 1 .. MaxTs, Expire(k, ts) PROVE HistInv'
  <2>1. /\ UNCHANGED <<history, inserted, cursor, tick, latest>>
        /\ feed' = [feed EXCEPT ![k] = {e \in feed[k] : e.ts > ts}]
    BY <1>6 DEF Expire
  <2>2. /\ feed'[k] = {e \in feed[k] : e.ts > ts}
        /\ \A j \in Key \ {k} : feed'[j] = feed[j]
    BY <2>1, <1>0 DEF TypeOK
  <2>3. ASSUME feed'[k] # {} PROVE \E e \in feed'[k] : e.ts = latest[k]
    <3>1. PICK e \in feed[k] : e.ts > ts
      BY <2>2, <2>3
    <3>2. PICK f \in feed[k] : f.ts = latest[k]
      BY <3>1 DEF HistInv, FeedHasLatest
    <3>3. e.ts <= f.ts /\ e.ts \in Int /\ f.ts \in Int
      BY <3>2, <1>0 DEF IInv, NoneFromTheFuture, TypeOK, Event
    <3> QED BY <3>1, <3>2, <3>3, <2>2
  <2>4. FeedHasLatest'
    BY <2>1, <2>2, <2>3 DEF HistInv, FeedHasLatest
  <2>5. AheadReported'
    BY <2>1 DEF HistInv, AheadReported, KeyOf
  <2> QED BY <2>1, <2>4, <2>5, RowsStay DEF HistInv
<1>7. ASSUME NEW b \in Box, ChangeStatus(b) \/ \E k \in Key : SyncCamera(k) PROVE HistInv'
  BY <1>7, HistStays DEF ChangeStatus, SyncCamera, AnswersKept
<1>8. ASSUME NEW b \in Box, DeleteBox(b) PROVE HistInv'
  <2>1. /\ UNCHANGED <<feed, latest, tick>>
        /\ \A k \in Key : \/ history'[k] = {} /\ inserted'[k] = Never /\ cursor'[k] = 0
                          \/ /\ history'[k] = history[k] /\ inserted'[k] = inserted[k]
                             /\ cursor'[k] = cursor[k]
        /\ cursor' = [k \in Key |-> IF k[1] = b THEN 0 ELSE cursor[k]]
    BY <1>8 DEF DeleteBox
  <2>2. RowsCounted'
    BY <2>1 DEF HistInv, RowsCounted
  <2>3. TrimmedOldest'
    <3> SUFFICES ASSUME NEW k \in Key, NEW e \in Event, Missing(k, e)'
                 PROVE  /\ e.ts <= cursor'[k]
                        /\ \A r \in history'[k] : e.ts <= r.evt.ts
      BY DEF TrimmedOldest
    <3>1. inserted'[k] # Never
      BY DEF Missing, Never
    <3>2. history'[k] = history[k] /\ inserted'[k] = inserted[k] /\ cursor'[k] = cursor[k]
      BY <2>1, <3>1
    <3>3. Missing(k, e)
      BY <3>2 DEF Missing
    <3> QED BY <3>2, <3>3 DEF HistInv, TrimmedOldest
  <2>4. /\ cursor' \in [Key -> Int] /\ AnswersKept
        /\ \A j \in Key : history'[j] = {} \/ cursor'[j] >= cursor[j]
        /\ \A j \in Key : \A r \in history'[j] : r \in Row /\ r.evt.ts <= latest[j]
        /\ \A j \in Key : \A r \in history'[j] : r \in history[j]
    <3>1. cursor' \in [Key -> Int] /\ \A j \in Key : cursor[j] \in Int
      BY <2>1, <1>0 DEF TypeOK
    <3>2. \A j \in Key : history'[j] = {} \/ cursor'[j] >= cursor[j]
      BY <2>1, <3>1
    <3>3. \A j \in Key : \A r \in history'[j] : r \in history[j]
      BY <2>1
    <3>4. \A j \in Key : \A r \in history'[j] : r \in Row /\ r.evt.ts <= latest[j]
      BY <3>3, <1>0 DEF TypeOK, HistInv, AheadReported
    <3> QED BY <2>1, <3>1, <3>2, <3>3, <3>4 DEF AnswersKept
  <2>5. FeedHasLatest' /\ AheadReported'
    BY <2>1, <2>4, AheadKept
  <2> QED BY <2>2, <2>3, <2>5 DEF HistInv
<1>9. CASE UNCHANGED vars
  BY <1>9, HistStays DEF vars, AnswersKept
<1> QED
  BY <1>1, <1>2, <1>3, <1>4, <1>5, <1>6, <1>7, <1>8, <1>9
  DEF Next, CrashStep, EnvironmentStep, Key

\* Fewer rows than copies that were stored: one of the copies is missing.
LEMMA FewerIsMissing ==
    ASSUME TypeOK, RowsCounted, NEW k \in Key, NEW e \in Event,
           Cardinality({x \in history[k] : x.evt = e}) < inserted[k][e]
    PROVE  Missing(k, e)
<1> DEFINE n == inserted[k][e]
           rows == {x \in history[k] : x.evt = e}
           copies == [c \in 1 .. n |-> [evt |-> e, copy |-> c]]
<1> SUFFICES ASSUME ~Missing(k, e) PROVE FALSE
  OBVIOUS
<1>1. n \in Nat /\ history[k] \subseteq Row
  BY DEF TypeOK
<1>2. \A c \in 1 .. n : copies[c] \in rows
  BY DEF Missing
<1>3. \A x \in rows : x.copy \in 1 .. n /\ x = copies[x.copy]
  <2> SUFFICES ASSUME NEW x \in rows PROVE x.copy \in 1 .. n /\ x = copies[x.copy]
    OBVIOUS
  <2>1. x \in Row /\ x.evt = e /\ x.copy \in 1 .. n
    BY <1>1 DEF RowsCounted
  <2>2. x = [evt |-> e, copy |-> x.copy]
    BY <2>1 DEF Row
  <2> QED BY <2>1, <2>2
<1>4. copies \in Bijection(1 .. n, rows)
  BY <1>2, <1>3 DEF Bijection, Injection, Surjection, IsInjective
<1>5. IsFiniteSet(1 .. n) /\ Cardinality(1 .. n) = n
  <2> HIDE DEF n
  <2> QED BY <1>1, FS_Interval
<1>6. ExistsBijection(1 .. n, rows)
  BY <1>4 DEF ExistsBijection
<1>7. Cardinality(rows) = n
  BY <1>5, <1>6, FS_Bijection
<1> QED BY <1>1, <1>7

LEMMA HistInvariance == Spec => [](IInv /\ HistInv)
<1>1. Init => HistInv
  BY DEF Init, HistInv, RowsCounted, TrimmedOldest, Missing, Never, FeedHasLatest,
         AheadReported, Idle
<1> QED BY <1>1, HistStep, Invariance, PTL DEF Spec

\* The alerts kept are the newest, through overlaps, crashes and deletions:
\* none is older than one that was trimmed.
THEOREM HistoryKeepsNewestAlways == Spec => []HistoryKeepsNewest
<1>1. IInv /\ HistInv => HistoryKeepsNewest
  BY FewerIsMissing DEF IInv, HistInv, TrimmedOldest, HistoryKeepsNewest
<1> QED BY <1>1, HistInvariance, PTL

=============================================================================
