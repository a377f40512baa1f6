------------------------ MODULE AlertHistory_proofs ------------------------
(* Proofs about the pages of the alert history.                            *)
EXTENDS AlertHistory, DetectionPoller_proofs

Reader == [open : BOOLEAN, offset : Nat, total : Nat, some : BOOLEAN,
           owed : SUBSET Alert, missed : SUBSET Alert]

\* The table has a row for each alert the poller keeps, and the page owes and has
\* missed only what is there.
TableInv ==
    /\ table \in [Alerts(history) -> Nat \ {0}]
    /\ \A a, b \in DOMAIN table : table[a] = table[b] => a = b
    /\ reader \in Reader
    /\ reader.owed \subseteq DOMAIN table /\ reader.missed \subseteq DOMAIN table

\* No crash and no deletion so far.
Steady == crashes = 0 /\ \A b \in Box : boxes[b] # "deleted"

\* What is owed stands behind the page that was asked for last, and behind the
\* whole of it if it was shown.
OwedBehind ==
    Steady =>
        /\ reader.missed = {}
        /\ reader.owed \cap Leading(reader.offset) = {}
        /\ reader.some => reader.owed \cap Leading(reader.offset + Limit) = {}

\* The inductive invariant, beside those of the poller.
PageInv == TableInv /\ OwedBehind

\* The rows ahead of an alert, in a table of places.
AheadIn(T, a) ==
    {h \in DOMAIN T : \/ FiredAt(h) > FiredAt(a)
                      \/ FiredAt(h) = FiredAt(a) /\ T[h] < T[a]}

LEMMA LeadingIs ==
    ASSUME NEW n
    PROVE  Leading(n) = {a \in DOMAIN table : Cardinality(AheadIn(table, a)) < n}
BY DEF Leading, Before, AheadIn

-----------------------------------------------------------------------------
(* The rows of a table are finitely many.                                  *)

AlertsOf(k, S) == {[key |-> k, row |-> r] : r \in S}

LEMMA AlertsAre ==
    ASSUME NEW h \in [Key -> SUBSET Row]
    PROVE  /\ Alerts(h) \subseteq Alert
           /\ \A a \in Alerts(h) : a.key \in Key /\ a.row \in h[a.key]
                                  /\ a = [key |-> a.key, row |-> a.row]
           /\ \A k \in Key : AlertsOf(k, h[k]) \subseteq Alerts(h)
BY DEF Alerts, Alert, AlertsOf

LEMMA AlertsOfCount ==
    ASSUME NEW k, NEW S, IsFiniteSet(S)
    PROVE  IsFiniteSet(AlertsOf(k, S)) /\ Cardinality(AlertsOf(k, S)) = Cardinality(S)
<1> DEFINE f == [r \in S |-> [key |-> k, row |-> r]]
<1>1. f \in Bijection(S, AlertsOf(k, S))
  BY DEF AlertsOf, Bijection, Injection, Surjection, IsInjective
<1>2. ExistsBijection(S, AlertsOf(k, S))
  BY <1>1 DEF ExistsBijection
<1> QED BY <1>2, FS_Bijection

LEMMA EventsFinite == IsFiniteSet(Event)
<1> DEFINE f == [p \in (1 .. MaxTs) \X Obj |-> [ts |-> p[1], obj |-> p[2]]]
<1>1. IsFiniteSet(1 .. MaxTs)
  BY BoundsAssumption, FS_Interval
<1>2. IsFiniteSet((1 .. MaxTs) \X Obj)
  BY <1>1, ObjAssumption, FS_Product
<1>3. ASSUME NEW e \in Event PROVE \E p \in (1 .. MaxTs) \X Obj : f[p] = e
  <2>1. <<e.ts, e.obj>> \in (1 .. MaxTs) \X Obj
    BY DEF Event
  <2>2. f[<<e.ts, e.obj>>] = e
    BY <2>1 DEF Event
  <2> QED BY <2>1, <2>2
<1>4. f \in Surjection((1 .. MaxTs) \X Obj, Event)
  BY <1>3 DEF Surjection, Event
<1> QED BY <1>2, <1>4, FS_Surjection

\* There are no more rows than copies of detections that were stored.
LEMMA RowsFinite ==
    ASSUME NEW h \in SUBSET Row, NEW count \in [Event -> Nat],
           \A r \in h : r.copy \in 1 .. count[r.evt]
    PROVE  IsFiniteSet(h)
<1> DEFINE copies(e) == {[evt |-> e, copy |-> c] : c \in 1 .. count[e]}
           f == [e \in Event |-> copies(e)]
<1>1. ASSUME NEW e \in Event PROVE IsFiniteSet(copies(e))
  <2> DEFINE g == [c \in 1 .. count[e] |-> [evt |-> e, copy |-> c]]
  <2>1. count[e] \in Nat
    OBVIOUS
  <2>2. IsFiniteSet(1 .. count[e])
    BY <2>1, FS_Interval
  <2>3. g \in Surjection(1 .. count[e], copies(e))
    BY DEF Surjection
  <2> QED BY <2>2, <2>3, FS_Surjection
<1>2. f \in Surjection(Event, {copies(e) : e \in Event})
  BY DEF Surjection
<1>3. IsFiniteSet({copies(e) : e \in Event})
  BY <1>2, EventsFinite, FS_Surjection
<1>4. IsFiniteSet(UNION {copies(e) : e \in Event})
  BY <1>1, <1>3, FS_UNION
<1>5. h \subseteq UNION {copies(e) : e \in Event}
  <2> SUFFICES ASSUME NEW r \in h PROVE r \in UNION {copies(e) : e \in Event}
    OBVIOUS
  <2>1. r \in Row /\ r.copy \in 1 .. count[r.evt]
    OBVIOUS
  <2>2. r.evt \in Event /\ r = [evt |-> r.evt, copy |-> r.copy]
    BY <2>1 DEF Row
  <2>3. r \in copies(r.evt)
    BY <2>1, <2>2
  <2> QED BY <2>2, <2>3
<1> QED BY <1>4, <1>5, FS_Subset

LEMMA AlertsFinite ==
    ASSUME NEW h \in [Key -> SUBSET Row], NEW count \in [Key -> [Event -> Nat]],
           \A k \in Key : \A r \in h[k] : r.copy \in 1 .. count[k][r.evt]
    PROVE  IsFiniteSet(Alerts(h))
<1> DEFINE f == [k \in Key |-> AlertsOf(k, h[k])]
<1>1. IsFiniteSet(Key)
  BY KeysAssumption, FS_Product DEF Key
<1>2. f \in Surjection(Key, {AlertsOf(k, h[k]) : k \in Key})
  BY DEF Surjection
<1>3. IsFiniteSet({AlertsOf(k, h[k]) : k \in Key})
  BY <1>1, <1>2, FS_Surjection
<1>4. \A k \in Key : IsFiniteSet(AlertsOf(k, h[k]))
  BY RowsFinite, AlertsOfCount
<1>5. IsFiniteSet(UNION {AlertsOf(k, h[k]) : k \in Key})
  BY <1>3, <1>4, FS_UNION
<1> QED BY <1>5 DEF Alerts, AlertsOf
-----------------------------------------------------------------------------
(* What becomes of the table when rows are stored and trimmed.             *)

LEMMA PlaceFacts ==
    ASSUME TableInv, NEW kept \in SUBSET DOMAIN table, IsFiniteSet(kept)
    PROVE  /\ \A a \in kept : Place(kept, a) \in 1 .. Cardinality(kept)
           /\ \A a, b \in kept : Place(kept, a) < Place(kept, b) <=> table[a] < table[b]
<1> DEFINE low(a) == {b \in kept : table[b] <= table[a]}
<1>1. \A a \in kept : table[a] \in Nat
  BY DEF TableInv
<1>2. \A a, b \in kept : table[a] = table[b] => a = b
  BY DEF TableInv
<1>3. Cardinality(kept) \in Nat
  BY FS_CardinalityType
<1>4. ASSUME NEW a \in kept
      PROVE  /\ IsFiniteSet(low(a)) /\ a \in low(a)
             /\ Cardinality(low(a)) \in 1 .. Cardinality(kept)
  <2>1. IsFiniteSet(low(a)) /\ Cardinality(low(a)) <= Cardinality(kept)
    <3>1. low(a) \in SUBSET kept
      OBVIOUS
    <3> HIDE DEF low
    <3> QED BY <3>1, FS_Subset
  <2>2. a \in low(a)
    BY <1>1
  <2> HIDE DEF low
  <2>3. Cardinality(low(a)) \in Nat /\ Cardinality(low(a)) # 0
    BY <2>1, <2>2, FS_CardinalityType, FS_EmptySet
  <2> QED BY <1>3, <2>1, <2>2, <2>3
<1>5. ASSUME NEW a \in kept, NEW b \in kept, table[a] < table[b]
      PROVE  Cardinality(low(a)) < Cardinality(low(b))
  <2>1. low(a) \in SUBSET low(b) /\ b \notin low(a)
    BY <1>1, <1>5
  <2>2. b \in low(b) /\ IsFiniteSet(low(b)) /\ Cardinality(low(b)) \in Nat
    BY <1>4
  <2>3. Cardinality(low(a)) \in Nat
    BY <1>4
  <2> HIDE DEF low
  <2>4. /\ Cardinality(low(a)) <= Cardinality(low(b))
        /\ Cardinality(low(b)) = Cardinality(low(a)) => low(b) = low(a)
    BY <2>1, <2>2, FS_Subset
  <2> QED BY <2>1, <2>2, <2>3, <2>4
<1>6. \A a \in kept : Place(kept, a) = Cardinality(low(a))
  BY DEF Place
<1> HIDE DEF low
<1>7. ASSUME NEW a \in kept, NEW b \in kept, Cardinality(low(a)) < Cardinality(low(b))
      PROVE  table[a] < table[b]
  <2>1. table[a] \in Nat /\ table[b] \in Nat
    BY <1>1
  <2>2. Cardinality(low(a)) \in Int /\ Cardinality(low(b)) \in Int
    BY <1>4
  <2>3. CASE table[b] < table[a]
    BY <1>5, <1>7, <2>2, <2>3
  <2>4. CASE table[b] = table[a]
    BY <1>2, <1>7, <2>2, <2>4
  <2> QED BY <2>1, <2>3, <2>4
<1> QED BY <1>4, <1>5, <1>6, <1>7

\* The rows that stay keep their order, and the new ones stand behind them.
LEMMA TableStep ==
    ASSUME TableInv, IsFiniteSet(Alerts(history)), IsFiniteSet(Alerts(history')),
           TableFollows
    PROVE  /\ table' \in [Alerts(history') -> Nat \ {0}]
           /\ \A a, b \in DOMAIN table' : table'[a] = table'[b] => a = b
           /\ \A a, b \in DOMAIN table' \cap DOMAIN table :
                 table'[a] < table'[b] <=> table[a] < table[b]
<1> DEFINE stored == Alerts(history')
           kept == stored \cap DOMAIN table
           new == stored \ DOMAIN table
           n == Cardinality(kept)
           place(a) == Place(kept, a)
<1>1. PICK order \in Bijection(new, 1 .. Cardinality(new)) :
         table' = [a \in stored |-> IF a \in new THEN n + order[a] ELSE place(a)]
  BY DEF TableFollows
<1>2. IsFiniteSet(kept) /\ n \in Nat /\ kept \in SUBSET DOMAIN table
  BY FS_Subset, FS_CardinalityType
<1>3. Cardinality(new) \in Nat
  BY FS_Difference, FS_CardinalityType
<1>4. \A a \in new : order[a] \in 1 .. Cardinality(new)
  BY <1>1 DEF Bijection, Injection
<1>5. \A a, b \in new : order[a] = order[b] => a = b
  BY <1>1 DEF Bijection, Injection, IsInjective
<1>6. \A a \in kept : place(a) \in 1 .. n
  BY <1>2, PlaceFacts
<1>7. \A a, b \in kept : place(a) < place(b) <=> table[a] < table[b]
  BY <1>2, PlaceFacts
<1>8. \A a, b \in kept : table[a] \in Nat /\ (table[a] = table[b] => a = b)
  BY DEF TableInv
<1>9. /\ \A a \in new : a \in stored /\ a \notin kept
      /\ \A a \in stored : a \in new \/ (a \in kept /\ a \notin new)
      /\ kept = DOMAIN table' \cap DOMAIN table /\ DOMAIN table' = stored
  BY <1>1
<1> HIDE DEF n, place, kept, new, stored
<1>10. \A a \in new : table'[a] = n + order[a] /\ table'[a] > n
  BY <1>1, <1>2, <1>3, <1>4, <1>9
<1>11. \A a \in kept : table'[a] = place(a) /\ table'[a] \in 1 .. n
  <2>1. \A a \in kept : a \in stored /\ a \notin new
    BY <1>9 DEF kept, new
  <2> QED BY <1>1, <1>6, <2>1
<1>12. \A a \in stored : table'[a] \in Nat \ {0}
  BY <1>2, <1>3, <1>4, <1>9, <1>10, <1>11
<1>13. \A a, b \in stored : table'[a] = table'[b] => a = b
  <2> SUFFICES ASSUME NEW a \in stored, NEW b \in stored, table'[a] = table'[b]
               PROVE  a = b
    OBVIOUS
  <2>1. CASE a \in new /\ b \in new
    BY <1>2, <1>3, <1>4, <1>5, <1>10, <2>1
  <2>2. CASE a \in kept /\ b \in kept
    <3>1. place(a) = place(b) /\ place(a) \in Int
      BY <1>6, <1>11, <2>2
    <3>2. ~ (table[a] < table[b]) /\ ~ (table[b] < table[a])
      BY <1>7, <2>2, <3>1
    <3> QED BY <1>8, <2>2, <3>2
  <2>3. CASE a \in new /\ b \in kept
    BY <1>2, <1>10, <1>11, <2>3
  <2>4. CASE a \in kept /\ b \in new
    BY <1>2, <1>10, <1>11, <2>4
  <2> QED BY <1>9, <2>1, <2>2, <2>3, <2>4
<1>14. table' \in [stored -> Nat \ {0}]
  BY <1>1, <1>12
<1> QED BY <1>7, <1>9, <1>11, <1>13, <1>14 DEF stored
-----------------------------------------------------------------------------
(* No alert moves to an earlier page.                                      *)

LEMMA SteadyBefore ==
    ASSUME TypeOK, Next, Steady'
    PROVE  Steady /\ (UNCHANGED history \/ \E t \in Tick : HandleNew(t))
<1> USE DEF alerts, db, source
<1>1. crashes = 0
  <2>1. crashes \in Nat /\ (crashes' = crashes \/ crashes' = crashes + 1)
    BY DEF TypeOK, Next, TickStep, CrashStep, EnvironmentStep, StartTick, Decrypted,
           BoxAnswers, PollFails, HandleNothing, HandleNew, Crash, CrashInserting,
           CrashAfterCursor, Restart, Detect, Expire, ChangeStatus, SyncCamera, DeleteBox
  <2> QED BY <2>1 DEF Steady
<1>2. ~ CrashStep
  BY <1>1 DEF Steady, CrashStep, Crash, CrashInserting, CrashAfterCursor, Restart
<1>3. ASSUME NEW b \in Box PROVE ~ DeleteBox(b)
  BY DEF DeleteBox, Steady, TypeOK
<1>4. \A b \in Box : boxes[b] # "deleted"
  <2> SUFFICES ASSUME NEW b \in Box, boxes[b] = "deleted" PROVE FALSE
    OBVIOUS
  <2>1. boxes'[b] = boxes[b]
    BY <1>2, <1>3
    DEF TypeOK, Next, TickStep, EnvironmentStep, StartTick, Decrypted, BoxAnswers,
        PollFails, HandleNothing, HandleNew, Detect, Expire, ChangeStatus, SyncCamera
  <2> QED BY <2>1 DEF Steady
<1>5. UNCHANGED history \/ \E t \in Tick : HandleNew(t)
  BY <1>2, <1>3
  DEF Next, TickStep, EnvironmentStep, StartTick, Decrypted, BoxAnswers,
      PollFails, HandleNothing, Detect, Expire, ChangeStatus, SyncCamera
<1> QED BY <1>1, <1>4, <1>5 DEF Steady

LEMMA BehindCursor ==
    ASSUME IInv, HistInv, Steady, NEW k \in Key, NEW r \in history[k]
    PROVE  r \in Row /\ r.evt.ts \in Int /\ cursor[k] \in Int /\ r.evt.ts <= cursor[k]
<1>1. TypeOK /\ crashes = 0
  BY DEF IInv, Steady
<1>2. r \in Row /\ r.evt \in Event /\ r.evt.ts \in Int /\ cursor[k] \in Int
  BY <1>1, BoundsAssumption DEF TypeOK, Row, Event
<1>3. r.copy \in 1 .. inserted[k][r.evt] /\ inserted[k][r.evt] \in Nat
  BY <1>1, <1>2 DEF HistInv, RowsCounted, TypeOK
<1>4. inserted[k][r.evt] <= crashes + (IF Passed(k, r.evt) THEN 1 ELSE 0)
  BY <1>2 DEF IInv, StoredAhead
<1>5. Passed(k, r.evt)
  BY <1>1, <1>3, <1>4
<1> QED BY <1>2, <1>5 DEF Passed

\* What is trimmed of the rows there were makes room for new rows only.
LEMMA TrimMakesRoom ==
    ASSUME NEW H, NEW R, IsFiniteSet(H), IsFiniteSet(R), H \cap R = {},
           Cardinality(H) <= MaxHistory,
           NEW keep \in TrimHistory(H \cup R), keep # H \cup R
    PROVE  /\ IsFiniteSet(H \ keep) /\ IsFiniteSet(keep \cap R)
           /\ Cardinality(H \ keep) <= Cardinality(keep \cap R)
<1>1. keep \subseteq H \cup R /\ Cardinality(keep) = MaxHistory
  BY DEF TrimHistory, kSubset
<1>2. IsFiniteSet(H \cup R)
  BY FS_Union
<1>3. IsFiniteSet(keep)
  BY <1>1, <1>2, FS_Subset
<1>4. /\ IsFiniteSet(H \ keep)
      /\ Cardinality(H \ keep) = Cardinality(H) - Cardinality(H \cap keep)
  BY FS_Difference
<1>5. /\ IsFiniteSet(keep \ H)
      /\ Cardinality(keep \ H) = Cardinality(keep) - Cardinality(keep \cap H)
  BY <1>3, FS_Difference
<1>6. keep \ H = keep \cap R /\ keep \cap H = H \cap keep
  BY <1>1
<1>7. Cardinality(H) \in Nat /\ Cardinality(H \cap keep) \in Nat
  BY FS_Intersection, FS_CardinalityType
<1>8. /\ IsFiniteSet(keep \cap R)
      /\ Cardinality(keep \cap R) = MaxHistory - Cardinality(H \cap keep)
  BY <1>1, <1>5, <1>6, Zenon
<1>9. MaxHistory \in Nat
  BY BoundsAssumption
<1> QED BY <1>4, <1>7, <1>8, <1>9

LEMMA NewRows ==
    ASSUME IInv, HistInv, Steady, NEW t \in Tick, HandleNew(t)
    PROVE  LET k == KeyOf(t)
               R == RowsFor(k, NewEvents(k, tick[t].resp))
           IN  /\ k \in Key /\ R \subseteq Row /\ IsFiniteSet(R)
               /\ \A r \in R : r.evt.ts \in Int /\ r.evt.ts > cursor[k]
               /\ history[k] \cap R = {}
<1> DEFINE k == KeyOf(t)
           new == NewEvents(k, tick[t].resp)
           R == RowsFor(k, new)
           f == [e \in new |-> [evt |-> e, copy |-> inserted[k][e] + 1]]
<1>1. TypeOK /\ tick[t].pc = "answered"
  BY DEF IInv, HandleNew
<1>2. k \in Key /\ new \in SUBSET Event
  BY <1>1, StoredNew
<1>3. \A e \in new : e.ts > cursor[k] /\ e.ts \in Int
  BY <1>2, BoundsAssumption DEF NewEvents, Event
<1>4. IsFiniteSet(new)
  BY <1>2, EventsFinite, FS_Subset
<1>5. history[k] \cup R \in SUBSET Row
  BY <1>1, <1>2, InsertType
<1> HIDE DEF k, new
<1>6. f \in Surjection(new, R)
  BY DEF Surjection, RowsFor
<1>7. IsFiniteSet(R)
  BY <1>4, <1>6, FS_Surjection
<1>8. \A r \in R : r.evt.ts \in Int /\ r.evt.ts > cursor[k]
  BY <1>3 DEF RowsFor
<1>9. \A r \in history[k] : r.evt.ts <= cursor[k] /\ cursor[k] \in Int
  BY <1>2, BehindCursor
<1>10. history[k] \cap R = {}
  BY <1>8, <1>9
<1> QED BY <1>2, <1>5, <1>7, <1>8, <1>10 DEF k, new
\* As long as nothing crashes and no box is deleted, an alert that stays has as many
\* ahead of it after a step of the poller as before.
LEMMA NoneMovesForward ==
    ASSUME IInv, HistInv, HistoryBounded, TableInv, Next, TableFollows, Steady',
           TypeOK', RowsCounted',
           NEW a \in DOMAIN table, a \in DOMAIN table'
    PROVE  Cardinality(AheadIn(table, a)) <= Cardinality(AheadIn(table', a))
<1> DEFINE before == AheadIn(table, a)
           after == AheadIn(table', a)
<1>1. TypeOK /\ RowsCounted /\ Steady
  BY SteadyBefore DEF IInv, HistInv
<1>2. IsFiniteSet(Alerts(history)) /\ IsFiniteSet(Alerts(history'))
  <2>1. IsFiniteSet(Alerts(history))
    BY <1>1, AlertsFinite DEF TypeOK, RowsCounted
  <2>2. IsFiniteSet(Alerts(history'))
    BY AlertsFinite DEF TypeOK, RowsCounted
  <2> QED BY <2>1, <2>2
<1>3. /\ DOMAIN table = Alerts(history) /\ DOMAIN table' = Alerts(history')
      /\ \A h, g \in DOMAIN table' \cap DOMAIN table :
            table'[h] < table'[g] <=> table[h] < table[g]
  BY <1>2, TableStep DEF TableInv
<1>4. \A h \in before : h \in DOMAIN table' => h \in after
  BY <1>3 DEF AheadIn
<1>5. before \in SUBSET DOMAIN table /\ after \in SUBSET DOMAIN table'
  BY DEF AheadIn
<1>6. IsFiniteSet(before) /\ IsFiniteSet(after)
  BY <1>2, <1>3, <1>5, FS_Subset
<1>7. CASE before \subseteq DOMAIN table'
  <2>1. before \in SUBSET after
    BY <1>4, <1>7
  <2> QED BY <1>6, <2>1, FS_Subset
<1>8. ASSUME NEW lost \in before, lost \notin DOMAIN table'
      PROVE  Cardinality(before) <= Cardinality(after)
  <2>1. history' # history
    BY <1>3, <1>5, <1>8
  <2>2. PICK t \in Tick : HandleNew(t)
    BY <1>1, <2>1, SteadyBefore
  <2> DEFINE k == KeyOf(t)
             H == history[k]
             R == RowsFor(k, NewEvents(k, tick[t].resp))
  <2>3. /\ k \in Key /\ R \subseteq Row /\ IsFiniteSet(R) /\ H \cap R = {}
        /\ \A r \in R : r.evt.ts \in Int /\ r.evt.ts > cursor[k]
    BY <1>1, <2>2, NewRows
  <2>4. PICK keep \in TrimHistory(H \cup R) : history' = [history EXCEPT ![k] = keep]
    BY <2>2 DEF HandleNew
  <2> HIDE DEF k, R
  <2>5. /\ history'[k] = keep /\ \A j \in Key \ {k} : history'[j] = history[j]
        /\ history \in [Key -> SUBSET Row] /\ history' \in [Key -> SUBSET Row]
    BY <1>1, <2>3, <2>4 DEF TypeOK
  <2>6. IsFiniteSet(H) /\ Cardinality(H) <= MaxHistory
    BY <1>1, <2>3, RowsFinite DEF HistoryBounded, Steady, TypeOK, RowsCounted
  <2>7. \A h \in DOMAIN table \ DOMAIN table' : h \in AlertsOf(k, H \ keep)
    <3> SUFFICES ASSUME NEW h \in DOMAIN table \ DOMAIN table'
                 PROVE  h \in AlertsOf(k, H \ keep)
      OBVIOUS
    <3>1. /\ h.key \in Key /\ h.row \in history[h.key]
          /\ h = [key |-> h.key, row |-> h.row]
      BY <1>3, <2>5, AlertsAre
    <3>2. h.row \notin history'[h.key]
      BY <1>3, <3>1 DEF Alerts
    <3>3. h.key = k
      BY <2>5, <3>1, <3>2
    <3> QED BY <2>5, <3>1, <3>2, <3>3 DEF AlertsOf
  <2> DEFINE stays == before \cap DOMAIN table'
             goes == before \ DOMAIN table'
             gained == AlertsOf(k, keep \cap R)
  <2>8. keep # H \cup R
    BY <1>5, <1>8, <2>7 DEF AlertsOf
  <2>9. /\ IsFiniteSet(H \ keep) /\ IsFiniteSet(keep \cap R)
        /\ Cardinality(H \ keep) <= Cardinality(keep \cap R)
    BY <2>3, <2>4, <2>6, <2>8, TrimMakesRoom
  <2>10. lost.row \in H /\ FiredAt(lost) >= FiredAt(a)
         /\ FiredAt(lost) \in Int /\ FiredAt(a) \in Int
    <3>1. lost.row \in H
      BY <1>5, <1>8, <2>7 DEF AlertsOf
    <3>2. a \in Alert /\ lost \in Alert
      BY <1>3, <1>5, <1>8, <2>5, AlertsAre
    <3>3. FiredAt(a) \in Int /\ FiredAt(lost) \in Int
      BY <3>2, BoundsAssumption DEF Alert, Row, Event, FiredAt
    <3> QED BY <1>8, <3>1, <3>3 DEF AheadIn
  <2>11. \A r \in R : r.evt.ts > FiredAt(a)
    <3>1. FiredAt(lost) <= cursor[k] /\ cursor[k] \in Int
      BY <1>1, <2>3, <2>10, BehindCursor DEF FiredAt
    <3> QED BY <2>3, <2>10, <3>1
  <2>12. \A g \in gained : g \in DOMAIN table' /\ g \notin DOMAIN table /\ g \in after
    <3> SUFFICES ASSUME NEW r \in keep \cap R, NEW g, g = [key |-> k, row |-> r]
                 PROVE  g \in DOMAIN table' /\ g \notin DOMAIN table /\ g \in after
      BY DEF AlertsOf
    <3>1. g \in DOMAIN table'
      BY <1>3, <2>3, <2>5 DEF Alerts
    <3>2. g \notin DOMAIN table
      <4>1. g \in Alerts(history) => g.row \in history[g.key]
        BY <2>5, AlertsAre
      <4> QED BY <1>3, <2>3, <4>1
    <3>3. FiredAt(g) > FiredAt(a)
      BY <2>11 DEF FiredAt
    <3> QED BY <3>1, <3>2, <3>3 DEF AheadIn
  <2> HIDE DEF before, after
  <2>13. /\ IsFiniteSet(gained) /\ Cardinality(gained) = Cardinality(keep \cap R)
    BY <2>9, AlertsOfCount
  <2>14. Cardinality(goes) <= Cardinality(H \ keep)
    <3>1. goes \in SUBSET AlertsOf(k, H \ keep)
      BY <1>5, <2>7
    <3>2. IsFiniteSet(AlertsOf(k, H \ keep))
          /\ Cardinality(AlertsOf(k, H \ keep)) = Cardinality(H \ keep)
      BY <2>9, AlertsOfCount
    <3> HIDE DEF goes
    <3> QED BY <3>1, <3>2, FS_Subset
  <2>15. /\ IsFiniteSet(stays) /\ IsFiniteSet(goes)
         /\ Cardinality(goes) = Cardinality(before) - Cardinality(stays)
    BY <1>6, FS_Difference, FS_Intersection
  <2>16. Cardinality(stays) + Cardinality(gained) <= Cardinality(after)
    <3>1. stays \cap gained = {}
      BY <1>5, <2>12
    <3>2. /\ IsFiniteSet(stays \cup gained)
          /\ Cardinality(stays \cup gained)
               = Cardinality(stays) + Cardinality(gained) - Cardinality(stays \cap gained)
      BY <2>13, <2>15, FS_Union
    <3>3. stays \cup gained \in SUBSET after
      BY <1>4, <2>12
    <3>4. Cardinality(stays \cup gained) <= Cardinality(after)
      BY <1>6, <3>3, FS_Subset
    <3>5. Cardinality(stays \cap gained) = 0
      BY <3>1, FS_EmptySet
    <3>6. Cardinality(stays) \in Nat /\ Cardinality(gained) \in Nat
      BY <2>13, <2>15, FS_CardinalityType
    <3> QED BY <3>2, <3>4, <3>5, <3>6
  <2>17. /\ Cardinality(before) \in Nat /\ Cardinality(after) \in Nat
         /\ Cardinality(stays) \in Nat /\ Cardinality(goes) \in Nat
         /\ Cardinality(gained) \in Nat /\ Cardinality(H \ keep) \in Nat
    BY <1>6, <2>9, <2>13, <2>15, FS_CardinalityType
  <2> HIDE DEF stays, goes, gained, H
  <2> QED BY <2>9, <2>13, <2>14, <2>15, <2>16, <2>17
<1> QED BY <1>7, <1>8
-----------------------------------------------------------------------------
(* The steps.                                                              *)

LEMMA PageStart ==
    ASSUME Init, table = <<>>, reader = NoPage
    PROVE  PageInv
<1>1. Alerts(history) = {}
  BY DEF Init, Alerts
<1>2. DOMAIN table = {}
  OBVIOUS
<1>3. table \in [Alerts(history) -> Nat \ {0}]
  BY <1>1
<1>4. reader \in Reader
  BY DEF NoPage, Reader
<1>5. reader.owed = {} /\ reader.missed = {}
  BY DEF NoPage
<1>6. TableInv
  BY <1>2, <1>3, <1>4, <1>5 DEF TableInv
<1>7. OwedBehind
  BY <1>5 DEF OwedBehind
<1> QED BY <1>6, <1>7 DEF PageInv

LEMMA ServerKeeps ==
    ASSUME IInv, HistInv, HistoryBounded, PageInv, ServerStep, TypeOK', RowsCounted'
    PROVE  PageInv'
<1>1. TableInv /\ OwedBehind /\ Next /\ TableFollows /\ TypeOK /\ RowsCounted
  BY DEF PageInv, ServerStep, IInv, HistInv
<1>2. IsFiniteSet(Alerts(history)) /\ IsFiniteSet(Alerts(history'))
  <2>1. IsFiniteSet(Alerts(history))
    BY <1>1, AlertsFinite DEF TypeOK, RowsCounted
  <2>2. IsFiniteSet(Alerts(history'))
    BY AlertsFinite DEF TypeOK, RowsCounted
  <2> QED BY <2>1, <2>2
<1>3. /\ table' \in [Alerts(history') -> Nat \ {0}]
      /\ \A a, b \in DOMAIN table' : table'[a] = table'[b] => a = b
  BY <1>1, <1>2, TableStep
<1> DEFINE owed == reader.owed \cap Alerts(history')
           missed == reader.missed \cap Alerts(history')
           new == [[reader EXCEPT !.owed = owed] EXCEPT !.missed = missed]
<1>4. reader \in Reader /\ owed \in SUBSET Alert /\ missed \in SUBSET Alert
  BY <1>1 DEF TableInv, Reader
<1>5. reader' = new
  BY DEF ServerStep
<1> HIDE DEF owed, missed
<1>6. /\ new \in Reader /\ new.owed = owed /\ new.missed = missed
      /\ new.offset = reader.offset /\ new.some = reader.some
  <2>1. new \in Reader
    BY <1>4 DEF Reader
  <2>2. DOMAIN reader = {"open", "offset", "total", "some", "owed", "missed"}
    BY <1>4 DEF Reader
  <2>3. /\ new.owed = owed /\ new.missed = missed
        /\ new.offset = reader.offset /\ new.some = reader.some
    BY <2>2, Zenon
  <2> QED BY <2>1, <2>3
<1> HIDE DEF new
<1>7. TableInv'
  <2>1. DOMAIN table' = Alerts(history')
    BY <1>3
  <2>2. reader'.owed \subseteq DOMAIN table' /\ reader'.missed \subseteq DOMAIN table'
    BY <1>5, <1>6, <2>1 DEF owed, missed
  <2> QED BY <1>3, <1>5, <1>6, <2>2 DEF TableInv, Alerts
<1>8. ASSUME Steady'
      PROVE  /\ reader'.missed = {}
             /\ (reader.owed \cap Leading(reader.offset) = {})
             /\ (reader.some => reader.owed \cap Leading(reader.offset + Limit) = {})
  <2>1. Steady
    BY <1>1, <1>8, SteadyBefore
  <2> QED BY <1>1, <1>5, <1>6, <2>1 DEF OwedBehind, missed
<1>9. ASSUME Steady', NEW a \in owed, NEW n \in Nat,
             a \in {b \in DOMAIN table' : Cardinality(AheadIn(table', b)) < n}
      PROVE  a \in Leading(n)
  <2>1. a \in DOMAIN table /\ a \in DOMAIN table'
    BY <1>1, <1>9 DEF owed, TableInv
  <2>2. Cardinality(AheadIn(table, a)) <= Cardinality(AheadIn(table', a))
    BY <1>1, <1>9, <2>1, NoneMovesForward
  <2>3. /\ Cardinality(AheadIn(table, a)) \in Nat
        /\ Cardinality(AheadIn(table', a)) \in Nat
    <3>1. IsFiniteSet(DOMAIN table) /\ IsFiniteSet(DOMAIN table')
      BY <1>1, <1>2, <1>3 DEF TableInv
    <3>2. /\ AheadIn(table, a) \in SUBSET DOMAIN table
          /\ AheadIn(table', a) \in SUBSET DOMAIN table'
      BY DEF AheadIn
    <3> QED BY <3>1, <3>2, FS_Subset, FS_CardinalityType
  <2> QED BY <1>9, <2>1, <2>2, <2>3, LeadingIs
<1>10. OwedBehind'
  <2> SUFFICES ASSUME Steady'
               PROVE  /\ reader'.missed = {}
                      /\ reader'.owed \cap Leading(reader.offset)' = {}
                      /\ reader'.some
                           => reader'.owed \cap Leading(reader.offset + Limit)' = {}
    BY DEF OwedBehind
  <2>1. /\ Leading(reader.offset)'
             = {b \in DOMAIN table' : Cardinality(AheadIn(table', b)) < reader'.offset}
        /\ Leading(reader.offset + Limit)'
             = {b \in DOMAIN table' : Cardinality(AheadIn(table', b)) < reader'.offset + Limit}
    BY DEF Leading, Before, AheadIn
  <2>2. /\ reader.offset \in Nat /\ reader.offset + Limit \in Nat
        /\ reader'.offset = reader.offset /\ reader'.owed = owed
        /\ reader'.some = reader.some
    BY <1>4, <1>5, <1>6, LimitAssumption DEF Reader
  <2>3. ASSUME NEW a \in owed
        PROVE  /\ a \notin Leading(reader.offset)'
               /\ reader.some => a \notin Leading(reader.offset + Limit)'
    BY <1>8, <1>9, <2>1, <2>2, <2>3 DEF owed
  <2> QED BY <1>8, <2>2, <2>3
<1> QED BY <1>7, <1>10 DEF PageInv
\* What the answer to a request at some offset leaves owed.
LEMMA ShowKeeps ==
    ASSUME TypeOK, RowsCounted, PageInv, NEW o \in Nat, Show(o),
           Steady /\ o # 0 => reader.owed \cap Leading(o) = {}
    PROVE  PageInv'
<1>1. TableInv /\ OwedBehind /\ UNCHANGED <<vars, table>>
  BY DEF PageInv, Show
<1>2. UNCHANGED <<boxes, history, crashes, table>>
  BY <1>1 DEF vars, db, alerts
<1>3. IsFiniteSet(DOMAIN table) /\ DOMAIN table = Alerts(history)
  BY <1>1, AlertsFinite DEF TypeOK, RowsCounted, TableInv
<1>4. Cardinality(DOMAIN table) \in Nat
  BY <1>3, FS_CardinalityType
<1>5. DOMAIN table \subseteq Alert
  BY <1>3, AlertsAre DEF TypeOK
<1>6. Leading(0) = {}
  <2>1. ASSUME NEW a \in DOMAIN table PROVE ~ (Cardinality(AheadIn(table, a)) < 0)
    <3>1. AheadIn(table, a) \in SUBSET DOMAIN table
      BY DEF AheadIn
    <3>2. Cardinality(AheadIn(table, a)) \in Nat
      BY <1>3, <3>1, FS_Subset, FS_CardinalityType
    <3> QED BY <3>2
  <2> QED BY <2>1, LeadingIs
<1>7. Steady' <=> Steady
  BY <1>2 DEF Steady
<1>8. \A n : Leading(n)' = Leading(n)
  BY <1>2 DEF Leading, Before
<1>9. CASE reader' = Loaded(o)
  <2> DEFINE base == IF o = 0 THEN DOMAIN table ELSE reader.owed
             page == Page(o)
             owed == base \ page
             missed == owed \cap Leading(o + Limit)
  <2>1. owed \subseteq DOMAIN table /\ missed \subseteq DOMAIN table
    BY <1>1 DEF TableInv
  <2>2. ASSUME Steady
        PROVE  /\ missed = {} /\ owed \cap Leading(o) = {}
               /\ owed \cap Leading(o + Limit) = {}
    <3>1. base \cap Leading(o) = {}
      BY <1>6, <2>2
    <3> QED BY <3>1 DEF Page
  <2>3. /\ reader'.offset = o /\ reader'.owed = owed /\ reader'.missed = missed
        /\ reader'.open \in BOOLEAN /\ reader'.some \in BOOLEAN
        /\ reader'.total = Cardinality(DOMAIN table)
    BY <1>9 DEF Loaded
  <2>4. reader' \in Reader
    <3>1. owed \in SUBSET Alert /\ missed \in SUBSET Alert
      BY <1>5, <2>1
    <3> HIDE DEF base, page, owed, missed
    <3> QED BY <1>4, <1>9, <2>3, <3>1 DEF Loaded, Reader
  <2> HIDE DEF base, page, owed, missed
  <2>5. TableInv'
    BY <1>1, <1>2, <2>1, <2>3, <2>4 DEF TableInv, Alerts
  <2>6. OwedBehind'
    <3> SUFFICES ASSUME Steady'
                 PROVE  /\ reader'.missed = {}
                        /\ reader'.owed \cap Leading(reader.offset)' = {}
                        /\ reader'.some
                             => reader'.owed \cap Leading(reader.offset + Limit)' = {}
      BY DEF OwedBehind
    <3>1. /\ Leading(reader.offset)' = Leading(o)
          /\ Leading(reader.offset + Limit)' = Leading(o + Limit)
      BY <1>2, <2>3 DEF Leading, Before
    <3> QED BY <1>7, <2>2, <2>3, <3>1
  <2> QED BY <2>5, <2>6 DEF PageInv
<1>10. CASE reader' = LoadFailed(o)
  <2>1. /\ reader' \in Reader /\ reader'.offset = o /\ reader'.owed = reader.owed
        /\ reader'.missed = reader.missed /\ ~ reader'.some
    BY <1>1, <1>10 DEF LoadFailed, Reader, TableInv
  <2>2. TableInv'
    BY <1>1, <1>2, <2>1 DEF TableInv, Alerts
  <2>3. OwedBehind'
    <3> SUFFICES ASSUME Steady'
                 PROVE  /\ reader'.missed = {}
                        /\ reader'.owed \cap Leading(reader.offset)' = {}
                        /\ reader'.some
                             => reader'.owed \cap Leading(reader.offset + Limit)' = {}
      BY DEF OwedBehind
    <3>1. Leading(reader.offset)' = Leading(o)
      BY <1>2, <2>1 DEF Leading, Before
    <3> QED BY <1>1, <1>6, <1>7, <2>1, <3>1 DEF OwedBehind
  <2> QED BY <2>2, <2>3 DEF PageInv
<1> QED BY <1>9, <1>10 DEF Show

LEMMA ReaderKeeps ==
    ASSUME TypeOK, RowsCounted, PageInv, ReaderNext
    PROVE  PageInv'
<1>1. /\ reader.offset \in Nat /\ Limit \in Nat /\ reader.offset + Limit \in Nat
  BY LimitAssumption DEF PageInv, TableInv, Reader
<1>2. OwedBehind
  BY DEF PageInv
<1>3. CASE OpenAlerts
  BY <1>3, ShowKeeps DEF OpenAlerts
<1>4. CASE ReloadAlerts
  BY <1>1, <1>2, <1>4, ShowKeeps DEF ReloadAlerts, OwedBehind
<1>5. CASE NextPage
  BY <1>1, <1>2, <1>5, ShowKeeps DEF NextPage, nextOffset, OwedBehind
<1>6. CASE PreviousPage
  <2>1. prevOffset \in Nat /\ prevOffset <= reader.offset
    BY <1>1 DEF prevOffset
  <2>2. Leading(prevOffset) \subseteq Leading(reader.offset)
    <3>1. ASSUME NEW a \in DOMAIN table, Cardinality(AheadIn(table, a)) < prevOffset
          PROVE  Cardinality(AheadIn(table, a)) < reader.offset
      <4>1. IsFiniteSet(DOMAIN table)
        BY AlertsFinite DEF TypeOK, RowsCounted, PageInv, TableInv
      <4>2. AheadIn(table, a) \in SUBSET DOMAIN table
        BY DEF AheadIn
      <4>3. Cardinality(AheadIn(table, a)) \in Nat
        BY <4>1, <4>2, FS_Subset, FS_CardinalityType
      <4> QED BY <1>1, <2>1, <3>1, <4>3
    <3> QED BY <3>1, LeadingIs
  <2> QED BY <1>2, <1>6, <2>1, <2>2, ShowKeeps DEF PreviousPage, OwedBehind
<1> QED BY <1>3, <1>4, <1>5, <1>6 DEF ReaderNext

-----------------------------------------------------------------------------
(* The theorems.                                                           *)

\* Readers read only: what is proved of the poller holds while somebody pages
\* through what it stores.
LEMMA HistoryPolls == HistorySpec => Spec
<1>1. [HistoryNext]_readerVars => [Next]_vars
  BY DEF HistoryNext, ServerStep, ReaderNext, OpenAlerts, ReloadAlerts, NextPage,
         PreviousPage, Show, readerVars
<1> QED BY <1>1, PTL DEF HistorySpec, Spec

\* The places of the rows and what a reader is still owed, through every step of the
\* poller and every page (alerts.ts:258-266, detectionPoller.ts:128-167).
THEOREM HistoryInvariant == HistorySpec => []PageInv
<1> DEFINE Poller == IInv /\ HistInv /\ HistoryBounded
<1>1. Init /\ table = <<>> /\ reader = NoPage => PageInv
  BY PageStart
<1>2. PageInv /\ Poller /\ Poller' /\ [HistoryNext]_readerVars => PageInv'
  <2> SUFFICES ASSUME PageInv, Poller, Poller', [HistoryNext]_readerVars PROVE PageInv'
    OBVIOUS
  <2>1. TypeOK /\ RowsCounted /\ TypeOK' /\ RowsCounted'
    BY DEF IInv, HistInv
  <2>2. CASE ServerStep
    BY <2>1, <2>2, ServerKeeps
  <2>3. CASE ReaderNext
    BY <2>1, <2>3, ReaderKeeps
  <2>4. CASE UNCHANGED readerVars
    BY <2>4 DEF readerVars, vars, db, alerts, PageInv, TableInv, OwedBehind, Steady,
                Leading, Before, Alerts
  <2> QED BY <2>2, <2>3, <2>4 DEF HistoryNext
<1>3. HistorySpec => []Poller
  BY HistoryPolls, HistInvariance, HistoryBoundedAlways, PTL
<1> HIDE DEF Poller
<1> QED BY <1>1, <1>2, <1>3, PTL DEF HistorySpec

\* The types; the table has a row, in a place of its own, for each alert the poller
\* keeps.
THEOREM HistoryTypesCorrect == HistorySpec => []HistoryTypeOK
<1>1. TypeOK /\ PageInv => HistoryTypeOK
  BY DEF PageInv, TableInv, Reader, HistoryTypeOK
<1> QED BY <1>1, HistoryInvariant, HistoryPolls, TypeCorrect, PTL

\* Whoever pages through the history passes no alert by that was there when he began
\* and still is, whatever is stored and trimmed in between, unless the process
\* crashed or a box was deleted.
THEOREM NoAlertPassedBy == HistorySpec => []NonePassedBy
<1>1. PageInv => NonePassedBy
  BY DEF PageInv, OwedBehind, Steady, NonePassedBy
<1> QED BY <1>1, HistoryInvariant, PTL

=============================================================================
