----------------------------- MODULE BoxRegistry -----------------------------
(***************************************************************************)
(* The boxes table and everyone who writes it: registration, deletion and  *)
(* token refresh (apps/api/src/services/boxService.ts, routes/boxes.ts)    *)
(* and the status poller (workers/boxStatusPoller.ts), which asks every    *)
(* active box for its health and gives it up after MaxFails failures.      *)
(*                                                                         *)
(* A step is the code between two awaits.  The encrypted password, tokens  *)
(* and API key are left out: no other step depends on them.                *)
(***************************************************************************)
EXTENDS Integers, FiniteSets

CONSTANTS
    Id,           \* a registration request and the id (ulid) it draws
    Url,          \* base_url
    Tick,         \* the ticks of the status poller that may be under way
    Refresh,      \* the refresh requests that may be under way
    MaxFails,     \* maxConsecutiveFailures
    MaxCrashes,   \* bound: crashes of the server process
    None          \* no box or no URL

ASSUME BoundsAssumption == MaxFails \in Nat \ {0} /\ MaxCrashes \in Nat

VARIABLES
    row,        \* the status of each box's row, "absent" without one
    deleted,    \* the boxes whose row was deleted
    reg,        \* where each registration request is
    refresh,    \* where each refresh request is
    tick,       \* where each tick of the status poller is
    failCount,  \* the poller's Map of consecutive failures, 0 for no entry
    streak,     \* failed checks since the last good one, up to MaxFails
    up,         \* the URLs at which a box answers
    crashes     \* how often the process has crashed

table == <<row, deleted>>
counters == <<failCount, streak>>
world == <<up, crashes>>
vars == <<table, reg, refresh, tick, counters, world>>

NotAsked == [pc |-> "notAsked", url |-> None]
NoRefresh == [pc |-> "idle", id |-> None]
Idle == [pc |-> "idle", todo |-> {}, id |-> None]

HasRow(i) == row[i] # "absent"

UrlOf(i) == reg[i].url

ActiveBoxes == {i \in Id : row[i] = "active"}

-----------------------------------------------------------------------------
(* POST /api/boxes: registerBox.                                           *)

Answer(i, pc) == reg' = [reg EXCEPT ![i].pc = pc]

\* SELECT id FROM boxes WHERE base_url = ?, and what the UNIQUE index forbids.
Taken(url) == \E i \in Id : HasRow(i) /\ UrlOf(i) = url

UniqueIndexForbids(url) == Taken(url)

\* Mutant: the row is written before the box has been asked to log in.
RegisterEagerly(i, url) ==
    /\ reg[i] = NotAsked
    /\ reg' = [reg EXCEPT ![i] = [pc |-> IF Taken(url) THEN "conflict" ELSE "login",
                                  url |-> url]]
    /\ row' = IF Taken(url) THEN row ELSE [row EXCEPT ![i] = "active"]
    /\ UNCHANGED <<deleted, refresh, tick, counters, world>>

\* The request arrives: a known URL is answered with 409, else the box is asked
\* to log the user in.
Register(i, url) ==
    /\ reg[i] = NotAsked
    /\ reg' = [reg EXCEPT ![i] = [pc |-> IF Taken(url) THEN "conflict" ELSE "login",
                                  url |-> url]]
    /\ UNCHANGED <<table, refresh, tick, counters, world>>

\* The login succeeds; the password and the token are being encrypted.
LoggedIn(i) ==
    /\ reg[i].pc = "login" /\ UrlOf(i) \in up
    /\ Answer(i, "encrypt")
    /\ UNCHANGED <<table, refresh, tick, counters, world>>

\* The login fails: 400 or 502.
LoginRefused(i) ==
    /\ reg[i].pc = "login"
    /\ Answer(i, "refused")
    /\ UNCHANGED <<table, refresh, tick, counters, world>>

\* Another registration of the URL has come first: the INSERT throws SQLite's
\* error, which the route does not know.
InsertFails(i) ==
    /\ reg[i].pc = "encrypt" /\ UniqueIndexForbids(UrlOf(i))
    /\ Answer(i, "failed")
    /\ UNCHANGED <<table, refresh, tick, counters, world>>

\* The row is there; the answer is 201 unless an API key is wanted.
Inserted(i) ==
    /\ reg[i].pc = "encrypt" /\ ~UniqueIndexForbids(UrlOf(i))
    /\ row' = [row EXCEPT ![i] = "active"]
    /\ Answer(i, "created") \/ Answer(i, "apiKey")
    /\ UNCHANGED <<deleted, refresh, tick, counters, world>>

\* The API key comes and is stored, or does not come: 502, and the row stays.
\* A row deleted meanwhile is not found: 500.
ApiKeyAnswered(i) ==
    /\ reg[i].pc = "apiKey"
    /\ \/ HasRow(i) /\ Answer(i, "created")
       \/ Answer(i, "noKey")
    /\ UNCHANGED <<table, refresh, tick, counters, world>>

\* DELETE /api/boxes/:id
DeleteBox(i) ==
    /\ HasRow(i)
    /\ row' = [row EXCEPT ![i] = "absent"]
    /\ deleted' = deleted \cup {i}
    /\ UNCHANGED <<reg, refresh, tick, counters, world>>

-----------------------------------------------------------------------------
(* POST /api/boxes/:id/refresh: refreshTokens.                             *)

StartRefresh(r, i) ==
    /\ refresh[r] = NoRefresh /\ HasRow(i)
    /\ refresh' = [refresh EXCEPT ![r] = [pc |-> "login", id |-> i]]
    /\ UNCHANGED <<table, reg, tick, counters, world>>

RefreshLoggedIn(r) ==
    /\ refresh[r].pc = "login" /\ UrlOf(refresh[r].id) \in up
    /\ refresh' = [refresh EXCEPT ![r].pc = "encrypt"]
    /\ UNCHANGED <<table, reg, tick, counters, world>>

\* 502, and the row is as it was.
RefreshRefused(r) ==
    /\ refresh[r].pc = "login"
    /\ refresh' = [refresh EXCEPT ![r] = NoRefresh]
    /\ UNCHANGED <<table, reg, tick, counters, world>>

\* Mutant: the token is stored by an upsert.
RefreshUpserts(r) ==
    /\ refresh[r].pc = "encrypt"
    /\ row' = [row EXCEPT ![refresh[r].id] = "active"]
    /\ refresh' = [refresh EXCEPT ![r] = NoRefresh]
    /\ UNCHANGED <<deleted, reg, tick, counters, world>>

\* UPDATE ... SET status = 'active' WHERE id: nothing if the row has gone (404).
RefreshStored(r) ==
    /\ refresh[r].pc = "encrypt"
    /\ row' = [row EXCEPT ![refresh[r].id] = IF @ = "absent" THEN @ ELSE "active"]
    /\ refresh' = [refresh EXCEPT ![r] = NoRefresh]
    /\ UNCHANGED <<deleted, reg, tick, counters, world>>

-----------------------------------------------------------------------------
(* The status poller.                                                      *)

NextBox(todo) ==
    IF todo = {} THEN {Idle}
    ELSE {[pc |-> "health", todo |-> todo \ {i}, id |-> i] : i \in todo}

GoOn(t, todo) == \E s \in NextBox(todo) : tick' = [tick EXCEPT ![t] = s]

\* Mutant: the counter is a local variable of the tick.
StartTickForgetting(t) ==
    /\ tick[t] = Idle
    /\ GoOn(t, ActiveBoxes)
    /\ failCount' = [i \in Id |-> 0]
    /\ UNCHANGED <<table, reg, refresh, streak, world>>

\* The rows are read once, at the start of the tick.
StartTick(t) ==
    /\ tick[t] = Idle
    /\ GoOn(t, ActiveBoxes)
    /\ UNCHANGED <<table, reg, refresh, counters, world>>

\* The box answers GET /system/health.
HealthAnswered(t) ==
    /\ tick[t].pc = "health" /\ UrlOf(tick[t].id) \in up
    /\ tick' = [tick EXCEPT ![t].pc = "healthy"]
    /\ UNCHANGED <<table, reg, refresh, counters, world>>

\* Mutant: the counter counts all failures, not the consecutive ones.
KeepCount(i) == UNCHANGED failCount

ClearCount(i) == failCount' = [failCount EXCEPT ![i] = 0]

HandleHealthy(t) ==
    LET i == tick[t].id IN
    /\ tick[t].pc = "healthy"
    /\ ClearCount(i)
    /\ streak' = [streak EXCEPT ![i] = 0]
    /\ GoOn(t, tick[t].todo)
    /\ UNCHANGED <<table, reg, refresh, world>>

\* Mutant: one failure too many is allowed.
GivesUpLate(cur) == cur > MaxFails

GivesUp(cur) == cur >= MaxFails

\* The request fails, for whatever reason; the box may have been given up or
\* deleted since the tick began.
HealthFails(t) ==
    LET i == tick[t].id
        cur == failCount[i] + 1
    IN
    /\ tick[t].pc = "health"
    /\ streak' = [streak EXCEPT ![i] = IF @ < MaxFails THEN @ + 1 ELSE @]
    /\ failCount' = [failCount EXCEPT ![i] = IF GivesUp(cur) THEN 0 ELSE cur]
    /\ row' = [row EXCEPT ![i] = IF GivesUp(cur) /\ HasRow(i) THEN "error" ELSE @]
    /\ GoOn(t, tick[t].todo)
    /\ UNCHANGED <<deleted, reg, refresh, world>>

-----------------------------------------------------------------------------
(* The rest of the world.                                                  *)

\* The process crashes and is started again; its counters are lost and its
\* clients get no answer.
Crash ==
    /\ crashes < MaxCrashes
    /\ crashes' = crashes + 1
    /\ reg' = [i \in Id |->
                 IF reg[i].pc \in {"login", "encrypt", "apiKey"}
                 THEN [reg[i] EXCEPT !.pc = "lost"] ELSE reg[i]]
    /\ refresh' = [r \in Refresh |-> NoRefresh]
    /\ tick' = [t \in Tick |-> Idle]
    /\ failCount' = [i \in Id |-> 0]
    /\ UNCHANGED <<table, streak, up>>

\* A box goes down or comes back.
Flip(url) ==
    /\ up' = IF url \in up THEN up \ {url} ELSE up \cup {url}
    /\ UNCHANGED <<table, reg, refresh, tick, counters, crashes>>

-----------------------------------------------------------------------------

Init ==
    /\ row = [i \in Id |-> "absent"]
    /\ deleted = {}
    /\ reg = [i \in Id |-> NotAsked]
    /\ refresh = [r \in Refresh |-> NoRefresh]
    /\ tick = [t \in Tick |-> Idle]
    /\ failCount = [i \in Id |-> 0]
    /\ streak = [i \in Id |-> 0]
    /\ up = Url
    /\ crashes = 0

RegisterStep(i) ==
    \/ \E url \in Url : Register(i, url)
    \/ LoggedIn(i) \/ LoginRefused(i)
    \/ InsertFails(i) \/ Inserted(i)
    \/ ApiKeyAnswered(i)

RefreshStep(r) ==
    \/ \E i \in Id : StartRefresh(r, i)
    \/ RefreshLoggedIn(r) \/ RefreshRefused(r)
    \/ RefreshStored(r)

TickStep(t) ==
    \/ StartTick(t)
    \/ HealthAnswered(t) \/ HandleHealthy(t)
    \/ HealthFails(t)

Next ==
    \/ \E i \in Id : RegisterStep(i) \/ DeleteBox(i)
    \/ \E r \in Refresh : RefreshStep(r)
    \/ \E t \in Tick : TickStep(t)
    \/ Crash
    \/ \E url \in Url : Flip(url)

Spec == Init /\ [][Next]_vars

\* setInterval keeps firing, and every health check settles.
Fairness ==
    /\ WF_vars(\E t \in Tick : StartTick(t))
    /\ \A t \in Tick : WF_vars(HealthAnswered(t) \/ HealthFails(t))
    /\ \A t \in Tick : WF_vars(HandleHealthy(t))

FairSpec == Spec /\ Fairness

-----------------------------------------------------------------------------
(* Properties.                                                             *)

Pending == {"login", "encrypt", "apiKey"}
NotStored == {"conflict", "refused", "failed"}
Stored == {"created", "noKey", "apiKey"}

TypeOK ==
    /\ row \in [Id -> {"absent", "active", "error"}]
    /\ deleted \in SUBSET Id
    /\ reg \in [Id -> [pc : {"notAsked", "lost"} \cup Pending \cup NotStored \cup Stored,
                       url : Url \cup {None}]]
    /\ refresh \in [Refresh -> [pc : {"idle", "login", "encrypt"}, id : Id \cup {None}]]
    /\ tick \in [Tick -> [pc : {"idle", "health", "healthy"}, todo : SUBSET Id,
                          id : Id \cup {None}]]
    /\ failCount \in [Id -> 0 .. MaxFails - 1]
    /\ streak \in [Id -> 0 .. MaxFails]
    /\ up \in SUBSET Url
    /\ crashes \in Nat
    /\ \A r \in Refresh : refresh[r].pc # "idle" => refresh[r].id \in Id
    /\ \A t \in Tick : tick[t].pc # "idle" => tick[t].id \in Id

\* No two rows have one URL, however registrations of it race.
UrlUnique ==
    \A i, j \in Id :
        HasRow(i) /\ HasRow(j) /\ UrlOf(i) = UrlOf(j) => i = j

\* A client is told the truth: when the login is refused or the URL is taken no
\* row is left behind (REQ-MOD-2-003), and after 201 there is one until
\* somebody deletes it.
AnswersAreTrue ==
    \A i \in Id :
        /\ reg[i].pc \in NotStored => ~HasRow(i) /\ i \notin deleted
        /\ reg[i].pc \in Stored => HasRow(i) \/ i \in deleted

\* A registration that loses to another lost to one of the same URL.
LosersHaveWinners ==
    \A i \in Id :
        reg[i].pc \in {"conflict", "failed"} =>
            \E j \in Id \ {i} :
                UrlOf(j) = UrlOf(i) /\ (HasRow(j) \/ j \in deleted)

\* A box is given up only at the end of MaxFails failed checks in a row, though
\* ticks overlap and boxes are refreshed and deleted between the checks.
GivenUpAfterStreak ==
    [][\A i \in Id :
          row[i] = "active" /\ row'[i] = "error" => streak'[i] = MaxFails]_vars

\* A deleted box stays deleted, whichever requests and ticks still hold its id.
NoResurrection == [][\A i \in deleted : row'[i] = "absent"]_vars

\* A box that is down and stays down is given up or deleted in the end,
\* whatever ticks are still under way and though a crash forgets the counts.
DownIsGivenUp ==
    \A i \in Id :
        row[i] = "active" /\ UrlOf(i) \notin up ~>
            row[i] # "active" \/ UrlOf(i) \in up

\* SPEC-BOX-001 REQ-MOD-2-004: a registration that breaks the UNIQUE constraint
\* is answered with 409, never with an internal error.
DuplicatesAnswered409 == \A i \in Id : reg[i].pc # "failed"

=============================================================================
