------------------------- MODULE BoxRegistry_proofs -------------------------
(* Proofs of the safety properties of BoxRegistry, and that the pages of    *)
(* boxes tell the truth.                                                   *)
EXTENDS BoxPages, TLAPS

-----------------------------------------------------------------------------
(* Type correctness.                                                       *)

RegState == [pc : {"notAsked", "lost"} \cup Pending \cup NotStored \cup Stored,
             url : Url \cup {None}]

RefreshState == [pc : {"idle", "login", "encrypt"}, id : Id \cup {None}]

TickState == [pc : {"idle", "health", "healthy"}, todo : SUBSET Id, id : Id \cup {None}]

\* What TypeOK says of the ticks.
TicksOK ==
    /\ tick \in [Tick -> TickState]
    /\ \A t \in Tick : tick[t].pc # "idle" => tick[t].id \in Id

LEMMA GoOnTyped ==
    ASSUME TicksOK, NEW t \in Tick, NEW todo \in SUBSET Id, GoOn(t, todo)
    PROVE  TicksOK'
<1>1. PICK s \in NextBox(todo) : tick' = [tick EXCEPT ![t] = s]
  BY DEF GoOn
<1>2. s \in TickState /\ (s.pc # "idle" => s.id \in Id)
  <2>1. CASE todo = {}
    BY <1>1, <2>1 DEF NextBox, Idle, TickState
  <2>2. CASE todo # {}
    <3>1. PICK i \in todo : s = [pc |-> "health", todo |-> todo \ {i}, id |-> i]
      BY <1>1, <2>2 DEF NextBox
    <3> QED BY <3>1 DEF TickState
  <2> QED BY <2>1, <2>2
<1> QED BY <1>1, <1>2 DEF TicksOK

\* An answer to a registration is one of the answers there are.
LEMMA AnswerTyped ==
    ASSUME reg \in [Id -> RegState], NEW i \in Id,
           NEW pc \in {"notAsked", "lost"} \cup Pending \cup NotStored \cup Stored,
           Answer(i, pc)
    PROVE  reg' \in [Id -> RegState]
  BY DEF Answer, RegState

LEMMA TypeStep == TypeOK /\ [Next]_vars => TypeOK'
<1> SUFFICES ASSUME TypeOK, [Next]_vars PROVE TypeOK'
  OBVIOUS
<1> USE DEF table, counters, world
<1>a. /\ reg \in [Id -> RegState] /\ refresh \in [Refresh -> RefreshState]
      /\ \A r \in Refresh : refresh[r].pc # "idle" => refresh[r].id \in Id
      /\ TicksOK
  BY DEF TypeOK, RegState, RefreshState, TickState, TicksOK
<1>1. ASSUME UNCHANGED <<table, refresh, tick, counters, world>>, reg' \in [Id -> RegState]
      PROVE  TypeOK'
  BY <1>1 DEF TypeOK, RegState
<1>2. ASSUME NEW i \in Id, NEW url \in Url, Register(i, url) PROVE TypeOK'
  <2>1. reg' \in [Id -> RegState]
    BY <1>2, <1>a DEF Register, RegState, Pending, NotStored
  <2> QED BY <1>1, <1>2, <2>1 DEF Register
<1>3. ASSUME NEW i \in Id,
             LoggedIn(i) \/ LoginRefused(i) \/ InsertFails(i) \/ ApiKeyAnswered(i)
      PROVE  TypeOK'
  <2>1. \E pc \in {"encrypt", "refused", "failed", "created", "noKey"} : Answer(i, pc)
    BY <1>3 DEF LoggedIn, LoginRefused, InsertFails, ApiKeyAnswered
  <2>2. reg' \in [Id -> RegState]
    BY <1>a, <2>1, AnswerTyped DEF Pending, NotStored, Stored
  <2> QED
    BY <1>1, <1>3, <2>2 DEF LoggedIn, LoginRefused, InsertFails, ApiKeyAnswered
<1>4. ASSUME NEW i \in Id, Inserted(i) PROVE TypeOK'
  <2>1. reg' \in [Id -> RegState]
    BY <1>a, <1>4, AnswerTyped DEF Inserted, Stored
  <2> QED BY <1>4, <2>1 DEF Inserted, TypeOK, RegState
<1>5. ASSUME NEW i \in Id, DeleteBox(i) PROVE TypeOK'
  BY <1>5 DEF DeleteBox, TypeOK
<1>6. ASSUME NEW r \in Refresh, NEW i \in Id, StartRefresh(r, i) PROVE TypeOK'
  <2>1. refresh' = [refresh EXCEPT ![r] = [pc |-> "login", id |-> i]]
    BY <1>6 DEF StartRefresh
  <2>2. /\ refresh' \in [Refresh -> RefreshState]
        /\ \A q \in Refresh : refresh'[q].pc # "idle" => refresh'[q].id \in Id
    BY <1>a, <2>1 DEF RefreshState
  <2> QED BY <1>6, <2>2 DEF StartRefresh, TypeOK, RefreshState
<1>7. ASSUME NEW r \in Refresh, RefreshLoggedIn(r) PROVE TypeOK'
  <2>1. /\ refresh' \in [Refresh -> RefreshState]
        /\ \A q \in Refresh : refresh'[q].pc # "idle" => refresh'[q].id \in Id
    BY <1>a, <1>7 DEF RefreshLoggedIn, RefreshState
  <2> QED BY <1>7, <2>1 DEF RefreshLoggedIn, TypeOK, RefreshState
<1>8. ASSUME NEW r \in Refresh, RefreshRefused(r) \/ RefreshStored(r) PROVE TypeOK'
  <2>1. refresh' = [refresh EXCEPT ![r] = NoRefresh]
    BY <1>8 DEF RefreshRefused, RefreshStored
  <2>2. /\ refresh' \in [Refresh -> RefreshState]
        /\ \A q \in Refresh : refresh'[q].pc # "idle" => refresh'[q].id \in Id
    BY <1>a, <2>1 DEF NoRefresh, RefreshState
  <2>3. row' \in [Id -> {"absent", "active", "error"}]
    BY <1>8 DEF RefreshRefused, RefreshStored, TypeOK
  <2> QED BY <1>8, <2>2, <2>3 DEF RefreshRefused, RefreshStored, TypeOK, RefreshState
<1>9. ASSUME NEW t \in Tick, StartTick(t) PROVE TypeOK'
  <2>1. TicksOK'
    BY <1>a, <1>9, GoOnTyped DEF StartTick, ActiveBoxes
  <2> QED BY <1>9, <2>1 DEF StartTick, TicksOK, TickState, TypeOK
<1>10. ASSUME NEW t \in Tick, HealthAnswered(t) PROVE TypeOK'
  <2>1. TicksOK'
    BY <1>a, <1>10 DEF HealthAnswered, TicksOK, TickState
  <2> QED BY <1>10, <2>1 DEF HealthAnswered, TicksOK, TickState, TypeOK
<1>11. ASSUME NEW t \in Tick, HandleHealthy(t) PROVE TypeOK'
  <2>1. TicksOK'
    BY <1>a, <1>11, GoOnTyped DEF HandleHealthy, TicksOK, TickState
  <2>2. failCount' \in [Id -> 0 .. MaxFails - 1] /\ streak' \in [Id -> 0 .. MaxFails]
    BY <1>11, BoundsAssumption DEF HandleHealthy, ClearCount, TypeOK
  <2> QED BY <1>11, <2>1, <2>2 DEF HandleHealthy, TicksOK, TickState, TypeOK
<1>12. ASSUME NEW t \in Tick, HealthFails(t) PROVE TypeOK'
  <2>1. TicksOK'
    BY <1>a, <1>12, GoOnTyped DEF HealthFails, TicksOK, TickState
  <2>2. failCount' \in [Id -> 0 .. MaxFails - 1] /\ streak' \in [Id -> 0 .. MaxFails]
    BY <1>12, BoundsAssumption DEF HealthFails, GivesUp, TypeOK
  <2>3. row' \in [Id -> {"absent", "active", "error"}]
    BY <1>12 DEF HealthFails, TypeOK
  <2> QED BY <1>12, <2>1, <2>2, <2>3 DEF HealthFails, TicksOK, TickState, TypeOK
<1>13. CASE Crash
  <2>1. reg' \in [Id -> RegState]
    BY <1>a, <1>13 DEF Crash, RegState
  <2>2. refresh' = [r \in Refresh |-> NoRefresh] /\ tick' = [t \in Tick |-> Idle]
    BY <1>13 DEF Crash
  <2>3. failCount' \in [Id -> 0 .. MaxFails - 1]
    BY <1>13, BoundsAssumption DEF Crash
  <2> QED BY <1>13, <2>1, <2>2, <2>3 DEF Crash, TypeOK, RegState, NoRefresh, Idle
<1>14. ASSUME NEW url \in Url, Flip(url) PROVE TypeOK'
  BY <1>14 DEF Flip, TypeOK
<1>15. CASE UNCHANGED vars
  BY <1>15 DEF vars, TypeOK
<1> QED
  BY <1>2, <1>3, <1>4, <1>5, <1>6, <1>7, <1>8, <1>9, <1>10, <1>11, <1>12, <1>13,
     <1>14, <1>15
  DEF Next, RegisterStep, RefreshStep, TickStep

LEMMA InitTyped == Init => TypeOK
  BY BoundsAssumption DEF Init, TypeOK, NotAsked, NoRefresh, Idle

\* Every variable keeps its type: in particular the failures counted for a box
\* stay below maxConsecutiveFailures, however many ticks count into one Map.
THEOREM TypeCorrect == Spec => []TypeOK
  BY InitTyped, TypeStep, PTL DEF Spec

-----------------------------------------------------------------------------
(* Rows and what the clients were told of them.                            *)

\* No row has been written for such a request.
Unstored == {"notAsked", "login", "encrypt"} \cup NotStored

RowInv ==
    /\ \A i \in Id : reg[i].pc \in Unstored => ~HasRow(i) /\ i \notin deleted
    /\ \A i \in Id : reg[i].pc \in Stored => HasRow(i) \/ i \in deleted
    /\ \A i \in deleted : ~HasRow(i)
    /\ UrlUnique
    /\ LosersHaveWinners

\* A request goes on without writing a row: who stored one stays who did, and
\* who loses loses to a row.
LEMMA RequestGoesOn ==
    ASSUME RowInv, NEW i \in Id, UNCHANGED <<row, deleted>>,
           \A j \in Id \ {i} : reg'[j] = reg[j],
           reg'[i].pc \in Unstored => reg[i].pc \in Unstored,
           reg'[i].pc \in Stored => reg[i].pc \in Stored,
           HasRow(i) \/ i \in deleted => reg'[i].url = reg[i].url,
           reg'[i].pc \in {"conflict", "failed"} =>
               \E j \in Id \ {i} : HasRow(j) /\ UrlOf(j) = reg'[i].url
    PROVE  RowInv'
<1>1. /\ \A j \in Id : reg'[j].pc \in Unstored => ~HasRow(j)' /\ j \notin deleted'
      /\ \A j \in Id : reg'[j].pc \in Stored => HasRow(j)' \/ j \in deleted'
      /\ \A j \in deleted' : ~HasRow(j)'
  BY DEF RowInv, HasRow
<1>2. \A j \in Id : HasRow(j) \/ j \in deleted => UrlOf(j)' = UrlOf(j)
  BY DEF UrlOf
<1>3. UrlUnique'
  BY <1>2 DEF RowInv, UrlUnique, HasRow
<1>4. LosersHaveWinners'
  <2> SUFFICES ASSUME NEW l \in Id, reg'[l].pc \in {"conflict", "failed"}
               PROVE  \E j \in Id \ {l} :
                         UrlOf(j)' = UrlOf(l)' /\ (HasRow(j)' \/ j \in deleted')
    BY DEF LosersHaveWinners
  <2>1. CASE l = i
    BY <2>1, <1>2 DEF UrlOf, HasRow
  <2>2. CASE l # i
    <3>1. PICK j \in Id \ {l} : UrlOf(j) = UrlOf(l) /\ (HasRow(j) \/ j \in deleted)
      BY <2>2 DEF RowInv, LosersHaveWinners
    <3> QED BY <3>1, <2>2, <1>2 DEF UrlOf, HasRow
  <2> QED BY <2>1, <2>2
<1> QED BY <1>1, <1>3, <1>4 DEF RowInv

\* A step that writes statuses only.
LEMMA StatusWritten ==
    ASSUME RowInv, UNCHANGED <<reg, deleted>>, \A i \in Id : HasRow(i)' <=> HasRow(i),
           deleted \subseteq Id
    PROVE  RowInv'
  BY DEF RowInv, UrlUnique, LosersHaveWinners, UrlOf

LEMMA RowStep == TypeOK /\ RowInv /\ [Next]_vars => RowInv'
<1> SUFFICES ASSUME TypeOK, RowInv, [Next]_vars PROVE RowInv'
  OBVIOUS
<1> USE DEF table, counters, world
<1>a. reg \in [Id -> RegState] /\ deleted \subseteq Id
  BY DEF TypeOK, RegState
<1>1. ASSUME NEW i \in Id, NEW url \in Url, Register(i, url) PROVE RowInv'
  <2>1. /\ reg[i].pc = "notAsked" /\ UNCHANGED <<row, deleted>>
        /\ \A j \in Id \ {i} : reg'[j] = reg[j]
        /\ reg'[i].pc = (IF Taken(url) THEN "conflict" ELSE "login")
        /\ reg'[i].url = url
    BY <1>1, <1>a DEF Register, NotAsked
  <2>2. ~HasRow(i) /\ i \notin deleted
    BY <2>1 DEF RowInv, Unstored
  <2>3. Taken(url) => \E j \in Id \ {i} : HasRow(j) /\ UrlOf(j) = url
    BY <2>2 DEF Taken
  <2> QED BY <2>1, <2>2, <2>3, RequestGoesOn DEF Unstored, Stored
<1>2. ASSUME NEW i \in Id, NEW pc, Answer(i, pc) PROVE
         /\ \A j \in Id \ {i} : reg'[j] = reg[j]
         /\ reg'[i].pc = pc /\ reg'[i].url = reg[i].url
  BY <1>2, <1>a DEF Answer, RegState
<1>3. ASSUME NEW i \in Id, LoggedIn(i) PROVE RowInv'
  <2>1. Answer(i, "encrypt") /\ reg[i].pc = "login" /\ UNCHANGED <<row, deleted>>
    BY <1>3 DEF LoggedIn
  <2> QED BY <1>2, <2>1, RequestGoesOn DEF Unstored, Stored
<1>4. ASSUME NEW i \in Id, LoginRefused(i) PROVE RowInv'
  <2>1. Answer(i, "refused") /\ reg[i].pc = "login" /\ UNCHANGED <<row, deleted>>
    BY <1>4 DEF LoginRefused
  <2> QED BY <1>2, <2>1, RequestGoesOn DEF Unstored, Stored
<1>5. ASSUME NEW i \in Id, InsertFails(i) PROVE RowInv'
  <2>1. /\ Answer(i, "failed") /\ reg[i].pc = "encrypt" /\ UNCHANGED <<row, deleted>>
        /\ Taken(UrlOf(i))
    BY <1>5 DEF InsertFails, UniqueIndexForbids
  <2>2. ~HasRow(i)
    BY <2>1 DEF RowInv, Unstored
  <2>3. \E j \in Id \ {i} : HasRow(j) /\ UrlOf(j) = reg[i].url
    BY <2>1, <2>2 DEF Taken, UrlOf
  <2> QED BY <1>2, <2>1, <2>3, RequestGoesOn DEF Unstored, Stored
<1>6. ASSUME NEW i \in Id, ApiKeyAnswered(i) PROVE RowInv'
  <2>1. /\ Answer(i, "created") \/ Answer(i, "noKey")
        /\ reg[i].pc = "apiKey" /\ UNCHANGED <<row, deleted>>
    BY <1>6 DEF ApiKeyAnswered
  <2> QED BY <1>2, <2>1, RequestGoesOn DEF Unstored, NotStored, Stored
<1>7. ASSUME NEW i \in Id, Inserted(i) PROVE RowInv'
  <2>1. /\ reg[i].pc = "encrypt" /\ deleted' = deleted /\ ~Taken(UrlOf(i))
        /\ \A j \in Id : HasRow(j)' <=> HasRow(j) \/ j = i
    BY <1>7 DEF Inserted, UniqueIndexForbids, HasRow, TypeOK
  <2>2. /\ \A j \in Id \ {i} : reg'[j] = reg[j]
        /\ reg'[i].pc \in {"created", "apiKey"}
        /\ \A j \in Id : UrlOf(j)' = UrlOf(j)
    <3>1. Answer(i, "created") \/ Answer(i, "apiKey")
      BY <1>7 DEF Inserted
    <3>2. /\ \A j \in Id \ {i} : reg'[j] = reg[j]
          /\ reg'[i].pc \in {"created", "apiKey"} /\ reg'[i].url = reg[i].url
      BY <3>1, <1>2
    <3> QED BY <3>2 DEF UrlOf
  <2>3. i \notin deleted
    BY <2>1 DEF RowInv, Unstored
  <2>4. UrlUnique'
    BY <2>1, <2>2 DEF RowInv, UrlUnique, Taken
  <2>5. LosersHaveWinners'
    BY <2>1, <2>2 DEF RowInv, LosersHaveWinners
  <2>6. \A j \in Id : reg'[j].pc \in Unstored => ~HasRow(j)' /\ j \notin deleted'
    BY <2>1, <2>2 DEF RowInv, Unstored, NotStored
  <2>7. \A j \in Id : reg'[j].pc \in Stored => HasRow(j)' \/ j \in deleted'
    BY <2>1, <2>2 DEF RowInv
  <2>8. \A j \in deleted' : ~HasRow(j)'
    BY <1>a, <2>1, <2>3 DEF RowInv
  <2> QED BY <2>4, <2>5, <2>6, <2>7, <2>8 DEF RowInv
<1>8. ASSUME NEW i \in Id, DeleteBox(i) PROVE RowInv'
  <2>1. /\ HasRow(i) /\ deleted' = deleted \cup {i} /\ reg' = reg
        /\ \A j \in Id : HasRow(j)' <=> HasRow(j) /\ j # i
    BY <1>8 DEF DeleteBox, HasRow, TypeOK
  <2>2. UrlUnique'
    BY <2>1 DEF RowInv, UrlUnique, UrlOf
  <2>3. LosersHaveWinners'
    BY <2>1 DEF RowInv, LosersHaveWinners, UrlOf
  <2> QED BY <1>a, <2>1, <2>2, <2>3 DEF RowInv
<1>9. ASSUME NEW r \in Refresh, RefreshStored(r) PROVE RowInv'
  <2>1. \A i \in Id : HasRow(i)' <=> HasRow(i)
    BY <1>9 DEF RefreshStored, HasRow, TypeOK
  <2> QED BY <1>9, <1>a, <2>1, StatusWritten DEF RefreshStored
<1>10. ASSUME NEW t \in Tick, HealthFails(t) PROVE RowInv'
  <2>1. \A i \in Id : HasRow(i)' <=> HasRow(i)
    BY <1>10 DEF HealthFails, HasRow, TypeOK
  <2> QED BY <1>10, <1>a, <2>1, StatusWritten DEF HealthFails
<1>11. CASE Crash
  <2>1. /\ UNCHANGED <<row, deleted>>
        /\ \A i \in Id : /\ reg'[i].pc \in {reg[i].pc, "lost"}
                         /\ UrlOf(i)' = UrlOf(i)
    BY <1>11, <1>a DEF Crash, RegState, UrlOf
  <2>2. UrlUnique'
    BY <2>1 DEF RowInv, UrlUnique, HasRow
  <2>3. LosersHaveWinners'
    BY <2>1 DEF RowInv, LosersHaveWinners, HasRow
  <2> QED BY <2>1, <2>2, <2>3 DEF RowInv, Unstored, Stored, NotStored, HasRow
<1>12. CASE UNCHANGED <<row, deleted, reg>>
  BY <1>12 DEF RowInv, UrlUnique, LosersHaveWinners, HasRow, UrlOf
<1> QED
  BY <1>1, <1>3, <1>4, <1>5, <1>6, <1>7, <1>8, <1>9, <1>10, <1>11, <1>12
  DEF Next, RegisterStep, RefreshStep, TickStep, StartRefresh, RefreshLoggedIn,
      RefreshRefused, StartTick, HealthAnswered, HandleHealthy, Flip, vars

LEMMA RowInvariance == Spec => [](TypeOK /\ RowInv)
<1>1. Init => RowInv
  BY DEF Init, RowInv, UrlUnique, LosersHaveWinners, HasRow, NotAsked, Unstored,
         Stored, NotStored
<1> QED BY <1>1, InitTyped, TypeStep, RowStep, PTL DEF Spec

\* No two rows have one URL, however many registrations of it race.
THEOREM UrlUniqueAlways == Spec => []UrlUnique
<1>1. RowInv => UrlUnique
  BY DEF RowInv
<1> QED BY <1>1, RowInvariance, PTL

\* A refused or beaten registration leaves no row behind, and one that was
\* answered with 201 left a row that only a deletion takes away.
THEOREM AnswersAreTrueAlways == Spec => []AnswersAreTrue
<1>1. RowInv => AnswersAreTrue
  BY DEF RowInv, AnswersAreTrue, Unstored
<1> QED BY <1>1, RowInvariance, PTL

\* A registration that loses lost to another of the same URL.
THEOREM LosersHaveWinnersAlways == Spec => []LosersHaveWinners
<1>1. RowInv => LosersHaveWinners
  BY DEF RowInv
<1> QED BY <1>1, RowInvariance, PTL

\* A deleted box stays deleted, whichever requests and ticks still hold its id.
THEOREM NoResurrectionEver == Spec => NoResurrection
<1> DEFINE Gone == \A i \in deleted : row'[i] = "absent"
<1>1. TypeOK /\ RowInv /\ [Next]_vars => [Gone]_vars
  <2> SUFFICES ASSUME TypeOK, RowInv, Next PROVE Gone
    OBVIOUS
  <2>1. RowInv' /\ deleted \subseteq deleted'
    <3>1. RowInv'
      BY RowStep
    <3>2. deleted \subseteq deleted'
      BY DEF Next, RegisterStep, RefreshStep, TickStep, Register, LoggedIn,
             LoginRefused, InsertFails, Inserted, ApiKeyAnswered, DeleteBox,
             StartRefresh, RefreshLoggedIn, RefreshRefused, RefreshStored, StartTick,
             HealthAnswered, HandleHealthy, HealthFails, Crash, Flip, table
    <3> QED BY <3>1, <3>2
  <2> QED BY <2>1 DEF RowInv, HasRow
<1> QED BY <1>1, RowInvariance, PTL DEF Spec, NoResurrection

-----------------------------------------------------------------------------
(* The failures counted.                                                   *)

\* The Map counts no failure that is not one of the last in a row.
CountInv == \A i \in Id : failCount[i] <= streak[i]

LEMMA CountStep == TypeOK /\ CountInv /\ [Next]_vars => CountInv'
<1> SUFFICES ASSUME TypeOK, CountInv, [Next]_vars PROVE CountInv'
  OBVIOUS
<1> USE DEF table, counters, world
<1>1. ASSUME NEW t \in Tick, HandleHealthy(t) PROVE CountInv'
  BY <1>1 DEF HandleHealthy, ClearCount, CountInv, TypeOK
<1>2. ASSUME NEW t \in Tick, HealthFails(t) PROVE CountInv'
  BY <1>2, BoundsAssumption DEF HealthFails, GivesUp, CountInv, TypeOK
<1>3. CASE Crash
  BY <1>3, BoundsAssumption DEF Crash, CountInv, TypeOK
<1>4. CASE UNCHANGED counters
  BY <1>4 DEF CountInv
<1> QED
  BY <1>1, <1>2, <1>3, <1>4
  DEF Next, RegisterStep, RefreshStep, TickStep, Register, LoggedIn, LoginRefused,
      InsertFails, Inserted, ApiKeyAnswered, DeleteBox, StartRefresh,
      RefreshLoggedIn, RefreshRefused, RefreshStored, StartTick, HealthAnswered,
      Flip, vars

\* A box is given up only at the end of maxConsecutiveFailures failed checks in a
\* row, though ticks overlap and boxes are refreshed and deleted between them.
THEOREM GivenUpAfterStreakEver == Spec => GivenUpAfterStreak
<1> DEFINE Deserved == \A i \in Id :
              row[i] = "active" /\ row'[i] = "error" => streak'[i] = MaxFails
<1>1. Init => CountInv
  BY DEF Init, CountInv
<1>2. TypeOK /\ CountInv /\ [Next]_vars => [Deserved]_vars
  <2> SUFFICES ASSUME TypeOK, CountInv, Next,
                      NEW i \in Id, row[i] = "active", row'[i] = "error"
               PROVE  streak'[i] = MaxFails
    OBVIOUS
  <2>1. PICK t \in Tick : HealthFails(t)
    BY DEF Next, RegisterStep, RefreshStep, TickStep, Register, LoggedIn, LoginRefused,
           InsertFails, Inserted, ApiKeyAnswered, DeleteBox, StartRefresh,
           RefreshLoggedIn, RefreshRefused, RefreshStored, StartTick, HealthAnswered,
           HandleHealthy, Crash, Flip, table, TypeOK
  <2>2. tick[t].id = i /\ GivesUp(failCount[i] + 1)
    BY <2>1 DEF HealthFails, TypeOK
  <2>3. streak'[i] = IF streak[i] < MaxFails THEN streak[i] + 1 ELSE streak[i]
    BY <2>1, <2>2 DEF HealthFails, TypeOK
  <2>4. /\ failCount[i] \in Int /\ streak[i] \in Int /\ MaxFails \in Int
        /\ streak[i] <= MaxFails /\ failCount[i] <= MaxFails - 1
    BY BoundsAssumption DEF TypeOK
  <2>5. failCount[i] <= streak[i] /\ failCount[i] + 1 >= MaxFails
    BY <2>2 DEF CountInv, GivesUp
  <2> QED BY <2>3, <2>4, <2>5
<1> QED BY <1>1, <1>2, TypeCorrect, CountStep, PTL DEF Spec, GivenUpAfterStreak

-----------------------------------------------------------------------------
(* What the pages show.                                                    *)

\* What a failure of the box may be shown as.
LEMMA FailureShown ==
    ASSUME NEW e \in RequestErrors
    PROVE  /\ createBox(RegisterErrorStatus(e)) \in {"auth", "upstream", "unknown"}
           /\ refreshBoxTokens(RefreshErrorStatus(e)) \in {"upstream", "unknown"}
  BY DEF RequestErrors, RegisterErrorStatus, RefreshErrorStatus, Unhandled, createBox,
         refreshBoxTokens, mapBoxErrorStatus, Ok

\* A status tells where registerBox ended.
LEMMA ShownBy ==
    ASSUME NEW i \in Id, NEW shown \in RegisterShows(i)
    PROVE  /\ shown = "redirect" => reg[i].pc = "created"
           /\ shown = "duplicate" => reg[i].pc = "conflict"
           /\ shown # "unauthorized"
<1>1. PICK s \in RegisterStatuses(reg[i].pc) :
          shown = IF createBox(s) = "ok" THEN "redirect" ELSE createBox(s)
  BY DEF RegisterShows
<1>2. CASE reg[i].pc = "created"
  <2>1. s = 201
    BY <1>1, <1>2 DEF RegisterStatuses
  <2> QED BY <1>1, <1>2, <2>1 DEF createBox, Ok
<1>3. CASE reg[i].pc = "conflict"
  <2>1. s = 409
    BY <1>1, <1>3 DEF RegisterStatuses
  <2> QED BY <1>1, <1>3, <2>1 DEF createBox, mapBoxErrorStatus, Ok
<1>4. CASE reg[i].pc = "failed"
  <2>1. s = 500
    BY <1>1, <1>4 DEF RegisterStatuses, Unhandled
  <2> QED BY <1>1, <2>1 DEF createBox, mapBoxErrorStatus, Ok
<1>5. CASE reg[i].pc \in {"refused", "noKey"}
  <2>1. PICK e \in RequestErrors : s = RegisterErrorStatus(e)
    BY <1>1, <1>5 DEF RegisterStatuses
  <2>2. createBox(s) \in {"auth", "upstream", "unknown"}
    BY <2>1, FailureShown
  <2> QED BY <1>1, <2>2
<1>6. CASE reg[i].pc \notin {"created", "conflict", "failed", "refused", "noKey"}
  BY <1>1, <1>6 DEF RegisterStatuses
<1> QED BY <1>2, <1>3, <1>4, <1>5, <1>6

\* A row is shown and may be deleted; without one, there is nothing.
LEMMA PageOf ==
    ASSUME NEW i \in Id
    PROVE  /\ HasRow(i) => /\ DetailShows(i) = "box" /\ DeleteShows(i) = "redirect"
                           /\ RefreshShows(i) = "ok"
           /\ ~HasRow(i) => RefreshShows(i) = "notFound"
<1>1. CASE HasRow(i)
  <2>1. GetStatus(i) = 200 /\ DeleteStatus(i) = 204
    BY <1>1 DEF GetStatus, DeleteStatus
  <2>2. fetchBox(200) = "ok" /\ deleteBoxById(204) = "ok" /\ refreshBoxTokens(200) = "ok"
    BY DEF fetchBox, deleteBoxById, refreshBoxTokens, Ok
  <2> QED BY <1>1, <2>1, <2>2 DEF DetailShows, DeleteShows, RefreshShows, RefreshStatus
<1>2. CASE ~HasRow(i)
  <2>1. GetStatus(i) = 404
    BY <1>2 DEF GetStatus
  <2>2. refreshBoxTokens(404) = "notFound"
    BY DEF refreshBoxTokens, mapBoxErrorStatus, Ok
  <2> QED BY <1>2, <2>1, <2>2 DEF RefreshShows, RefreshStatus
<1> QED BY <1>1, <1>2

LEMMA FormStep == RowInv => FormTellsTruth
<1> SUFFICES ASSUME RowInv, NEW i \in Id, NEW shown \in RegisterShows(i)
             PROVE  /\ shown = "redirect" /\ i \notin deleted =>
                           DetailShows(i) = "box" /\ DeleteShows(i) = "redirect"
                    /\ shown = "duplicate" =>
                           \E j \in Id \ {i} :
                               UrlOf(j) = UrlOf(i) /\ (HasRow(j) \/ j \in deleted)
                    /\ shown # "unauthorized"
  BY DEF FormTellsTruth
<1>1. ASSUME shown = "redirect", i \notin deleted
      PROVE  DetailShows(i) = "box" /\ DeleteShows(i) = "redirect"
  <2>1. HasRow(i)
    BY <1>1, ShownBy DEF RowInv, Stored
  <2> QED BY <2>1, PageOf
<1>2. ASSUME shown = "duplicate"
      PROVE  \E j \in Id \ {i} : UrlOf(j) = UrlOf(i) /\ (HasRow(j) \/ j \in deleted)
  BY <1>2, ShownBy DEF RowInv, LosersHaveWinners
<1> QED BY <1>1, <1>2, ShownBy

-----------------------------------------------------------------------------

\* A refresh under way is of a box that has a row, or had one.
RefreshInv ==
    \A r \in Refresh :
        refresh[r].pc # "idle" => HasRow(refresh[r].id) \/ refresh[r].id \in deleted

LEMMA RefreshInvStep == TypeOK /\ RefreshInv /\ [Next]_vars => RefreshInv'
<1> SUFFICES ASSUME TypeOK, RefreshInv, [Next]_vars PROVE RefreshInv'
  OBVIOUS
<1> USE DEF table, counters, world
<1>1. \A i \in Id : HasRow(i) \/ i \in deleted => HasRow(i)' \/ i \in deleted'
  <2>1. ASSUME NEW i \in Id, Inserted(i) \/ DeleteBox(i)
        PROVE  \A j \in Id : HasRow(j) \/ j \in deleted => HasRow(j)' \/ j \in deleted'
    BY <2>1 DEF Inserted, DeleteBox, HasRow, TypeOK
  <2>2. ASSUME NEW r \in Refresh, RefreshStored(r)
        PROVE  \A j \in Id : HasRow(j) \/ j \in deleted => HasRow(j)' \/ j \in deleted'
    BY <2>2 DEF RefreshStored, HasRow, TypeOK
  <2>3. ASSUME NEW t \in Tick, HealthFails(t)
        PROVE  \A j \in Id : HasRow(j) \/ j \in deleted => HasRow(j)' \/ j \in deleted'
    BY <2>3 DEF HealthFails, HasRow, TypeOK
  <2>4. CASE UNCHANGED <<row, deleted>>
    BY <2>4 DEF HasRow
  <2> QED
    BY <2>1, <2>2, <2>3, <2>4
    DEF Next, RegisterStep, RefreshStep, TickStep, Register, LoggedIn, LoginRefused,
        InsertFails, ApiKeyAnswered, StartRefresh, RefreshLoggedIn, RefreshRefused,
        StartTick, HealthAnswered, HandleHealthy, Crash, Flip, vars
<1>2. \A r \in Refresh :
          \/ refresh'[r].pc = "idle"
          \/ refresh'[r].id = refresh[r].id /\ refresh[r].pc # "idle"
          \/ refresh'[r].id \in Id /\ HasRow(refresh'[r].id)
  <2>1. ASSUME NEW r \in Refresh, NEW i \in Id, StartRefresh(r, i)
        PROVE  \A q \in Refresh : \/ refresh'[q] = refresh[q]
                                  \/ refresh'[q].id \in Id /\ HasRow(refresh'[q].id)
    BY <2>1 DEF StartRefresh, TypeOK
  <2>2. ASSUME NEW r \in Refresh, RefreshLoggedIn(r)
        PROVE  \A q \in Refresh : \/ refresh'[q] = refresh[q]
                                  \/ refresh'[q].id = refresh[q].id /\ refresh[q].pc # "idle"
    BY <2>2 DEF RefreshLoggedIn, TypeOK
  <2>3. ASSUME NEW r \in Refresh, RefreshRefused(r) \/ RefreshStored(r)
        PROVE  \A q \in Refresh : refresh'[q] = refresh[q] \/ refresh'[q].pc = "idle"
    BY <2>3 DEF RefreshRefused, RefreshStored, NoRefresh, TypeOK
  <2>4. CASE Crash
    BY <2>4 DEF Crash, NoRefresh
  <2>5. CASE UNCHANGED refresh
    BY <2>5
  <2> QED
    BY <2>1, <2>2, <2>3, <2>4, <2>5
    DEF Next, RegisterStep, RefreshStep, TickStep, Register, LoggedIn, LoginRefused,
        InsertFails, Inserted, ApiKeyAnswered, DeleteBox, StartTick, HealthAnswered,
        HandleHealthy, HealthFails, Flip, vars
<1>3. \A i \in Id : HasRow(i) => HasRow(i)' \/ i \in deleted'
  BY <1>1
<1> QED BY <1>1, <1>2, <1>3 DEF RefreshInv, HasRow, TypeOK

\* The step that ends a refresh which was being stored.
Answered(r, i) ==
    /\ refresh[r] = [pc |-> "encrypt", id |-> i]
    /\ refresh'[r] = NoRefresh /\ crashes' = crashes

LEMMA AnsweredStored ==
    ASSUME TypeOK, NEW r \in Refresh, NEW i \in Id, Answered(r, i), Next
    PROVE  RefreshStored(r)
<1> USE DEF table, counters, world
<1>1. refresh'[r] # refresh[r] /\ refresh[r].pc = "encrypt"
  BY DEF Answered, NoRefresh
<1>2. ~Crash
  BY DEF Crash, Answered, TypeOK
<1>3. PICK q \in Refresh :
          \/ \E j \in Id : StartRefresh(q, j)
          \/ RefreshLoggedIn(q) \/ RefreshRefused(q) \/ RefreshStored(q)
  BY <1>1, <1>2
  DEF Next, RegisterStep, RefreshStep, TickStep, Register, LoggedIn, LoginRefused,
      InsertFails, Inserted, ApiKeyAnswered, DeleteBox, StartTick, HealthAnswered,
      HandleHealthy, HealthFails, Flip
<1>4. q = r
  BY <1>1, <1>3
  DEF StartRefresh, RefreshLoggedIn, RefreshRefused, RefreshStored, TypeOK
<1> QED
  BY <1>1, <1>3, <1>4 DEF StartRefresh, RefreshLoggedIn, RefreshRefused, NoRefresh

\* What the pages of boxes tell an operator is true, for any number of
\* registrations, URLs, refreshes and crashes.
THEOREM PagesTellTruthEver == Spec => PagesTellTruth
<1> DEFINE Told ==
        \A r \in Refresh, i \in Id :
            Answered(r, i) => IF i \in deleted' THEN RefreshShows(i)' = "notFound"
                              ELSE RefreshShows(i)' = "ok" /\ i \in ActiveBoxes'
<1> DEFINE Shown ==
        \A i \in Id : /\ HasRow(i) => RefreshShows(i) = "ok"
                      /\ ~HasRow(i) => RefreshShows(i) = "notFound"
<1>1. RefusalTellsTruth
  BY FailureShown DEF RefusalTellsTruth, RefusedRefreshShows
<1>a. Shown
  BY PageOf
<1>b. Shown'
  BY <1>a, PTL
<1>2. Init => RefreshInv
  BY DEF Init, RefreshInv, NoRefresh
<1>3. TypeOK /\ RowInv /\ RefreshInv /\ [Next]_vars => [Told]_vars
  <2> SUFFICES ASSUME TypeOK, RowInv, RefreshInv, Next,
                      NEW r \in Refresh, NEW i \in Id, Answered(r, i)
               PROVE  IF i \in deleted' THEN RefreshShows(i)' = "notFound"
                      ELSE RefreshShows(i)' = "ok" /\ i \in ActiveBoxes'
    OBVIOUS
  <2>1. RefreshStored(r)
    BY AnsweredStored
  <2>2. RowInv'
    BY RowStep
  <2>3. /\ refresh[r].id = i /\ deleted' = deleted
        /\ row' = [row EXCEPT ![i] = IF @ = "absent" THEN @ ELSE "active"]
    BY <2>1 DEF RefreshStored, Answered
  <2>4. CASE i \in deleted'
    <3>1. ~HasRow(i)'
      BY <2>2, <2>4 DEF RowInv
    <3> QED BY <2>4, <3>1, <1>b
  <2>5. CASE i \notin deleted'
    <3>1. HasRow(i)
      BY <2>3, <2>5 DEF RefreshInv, Answered
    <3>2. HasRow(i)' /\ i \in ActiveBoxes'
      BY <2>3, <3>1 DEF HasRow, ActiveBoxes, TypeOK
    <3> QED BY <2>5, <3>2, <1>b
  <2> QED BY <2>4, <2>5
<1>4. RowInv => FormTellsTruth
  BY FormStep
<1>5. [Told]_vars => [\A r \in Refresh, i \in Id :
                        /\ refresh[r] = [pc |-> "encrypt", id |-> i]
                        /\ refresh'[r] = NoRefresh /\ crashes' = crashes
                        => IF i \in deleted' THEN RefreshShows(i)' = "notFound"
                           ELSE RefreshShows(i)' = "ok" /\ i \in ActiveBoxes']_vars
  BY DEF Answered
<1> QED
  BY <1>1, <1>2, <1>3, <1>4, <1>5, RowInvariance, RefreshInvStep, PTL
  DEF Spec, PagesTellTruth, RefreshTellsTruth

=============================================================================
