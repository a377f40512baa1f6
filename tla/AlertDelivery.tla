--------------------------- MODULE AlertDelivery ---------------------------
(***************************************************************************)
(* How a stored alert reaches a user: the dispatcher                       *)
(* (apps/api/src/services/alertDispatcher.ts) with its registry of SSE     *)
(* controllers, the route that opens a stream (routes/alerts.ts, GET       *)
(* /stream), the browser's end of it (apps/web/src/lib/alertStream.ts) and *)
(* its stack of toasts, and the Web Push and Telegram senders.             *)
(*                                                                         *)
(* The server learns of a broken connection in two ways, in any order and  *)
(* later than the browser: the runtime cancels the response stream, after  *)
(* which enqueue throws, or it fires the abort listener.  Times are left   *)
(* out: a timer that is set may fire.                                      *)
(***************************************************************************)
EXTENDS Integers, Sequences, SequencesExt, FiniteSets, AlertRoutes

CONSTANTS
    User,        \* the users
    Tab,         \* the open tabs of the app: one mounted toast container each
    Owner,       \* whose tab it is
    Conn,        \* the connections there may be at once
    Endpoint,    \* the push subscriptions browsers may hold
    Chat,        \* the Telegram chats
    MaxToasts,   \* MAX_TOASTS
    Assembled,   \* TRUE: as the unit tests put the parts together; FALSE: as
                 \* index.ts does, with no dispatcher given to the routes
    None,
    MaxAlerts,   \* bound: alerts
    MaxFaults,   \* bound: connections cut or refused, crashes
    MaxWrites    \* bound: writes of the settings

ASSUME OwnerAssumption == Owner \in [Tab -> User]
ASSUME NoneAssumption == None \notin Conn \cup Endpoint
ASSUME DeliveryBounds ==
    /\ MaxToasts \in Nat \ {0} /\ Assembled \in BOOLEAN
    /\ MaxAlerts \in Nat /\ MaxFaults \in Nat /\ MaxWrites \in Nat

VARIABLES
    rows,       \* alert_destinations, by user
    subs,       \* webpush_subscriptions, by user
    registry,   \* sseRegistry: the controllers registered for each user
    conn,       \* the connections: the server's stream, heartbeat, and wire
    source,     \* the EventSource each tab refers to
    live,       \* the EventSources of each tab that are not closed
    timers,     \* the reconnect timers of each tab that are pending
    closed,     \* the tabs whose container was unmounted
    toasts,     \* the toasts on each tab's screen, newest first
    alerts,     \* how many alerts there have been
    push,       \* the sendWebPush under way for each user
    gone,       \* the endpoints the push service has dropped
    missed,     \* (history) open, enabled connections an alert did not reach
    faults, writes

settings == <<rows, subs>>
browser == <<source, live, timers, closed, toasts>>
pushing == <<push, gone>>
bounds == <<faults, writes>>
vars == <<settings, registry, conn, browser, alerts, pushing, missed, bounds>>

\* A connection that is not in use.
Free == [tab |-> None, stream |-> "free", beat |-> FALSE, cut |-> FALSE,
         wire |-> <<>>]

NoPush == [todo |-> {}, alert |-> 0]

UserOf(k) == Owner[conn[k].tab]

Faulty == faults < MaxFaults /\ faults' = faults + 1

ToastAndPush ==
    [NoRows EXCEPT !["toast"] = [enabled |-> TRUE, chat |-> NoConfig],
                   !["webpush"] = [enabled |-> TRUE, chat |-> NoConfig]]

Init ==
    /\ rows \in [User -> {NoRows, ToastAndPush}]
    /\ subs \in [User -> SUBSET Endpoint]
    /\ registry = [u \in User |-> {}]
    /\ conn = [k \in Conn |-> Free]
    /\ source = [t \in Tab |-> None]
    /\ live = [t \in Tab |-> {}]
    /\ timers = [t \in Tab |-> 1]     \* the mount that is to call connect
    /\ closed = [t \in Tab |-> FALSE]
    /\ toasts = [t \in Tab |-> <<>>]
    /\ alerts = 0 /\ push = [u \in User |-> NoPush] /\ gone = {}
    /\ missed = {} /\ faults = 0 /\ writes = 0

-----------------------------------------------------------------------------
(* The server's end of a stream.                                           *)

\* The closure registerSSEClient returns.  A user without controllers and a
\* user without an entry are one.
Unregister(k) == [registry EXCEPT ![UserOf(k)] = @ \ {k}]

\* GET /stream: start() enqueues the first event, registers the controller if
\* the routes were given a dispatcher, and starts the heartbeat.
OpenStream(k) ==
    /\ conn[k].stream = "request"
    /\ conn' = [conn EXCEPT ![k].stream = "open", ![k].beat = TRUE]
    /\ registry' = IF Assembled
                   THEN [registry EXCEPT ![UserOf(k)] = @ \cup {k}]
                   ELSE registry
    /\ UNCHANGED <<settings, browser, alerts, pushing, missed, bounds>>

\* The runtime notices the broken connection and cancels the stream.
CancelStream(k) ==
    /\ conn[k].cut /\ conn[k].stream = "open"
    /\ conn' = [conn EXCEPT ![k].stream = "closed"]
    /\ UNCHANGED <<settings, registry, browser, alerts, pushing, missed, bounds>>

\* Mutant: a heartbeat that fails stops, and leaves the controller registered.
StopBeating(k) ==
    /\ conn' = [conn EXCEPT ![k].beat = FALSE]
    /\ UNCHANGED registry

ReapStream(k) ==
    /\ conn' = [conn EXCEPT ![k].beat = FALSE]
    /\ registry' = Unregister(k)

\* The heartbeat of a stream that is closed: enqueue throws.  (That of an open
\* stream changes nothing.)
Heartbeat(k) ==
    /\ conn[k].beat /\ conn[k].stream = "closed"
    /\ ReapStream(k)
    /\ UNCHANGED <<settings, browser, alerts, pushing, missed, bounds>>

\* The abort listener: the timer is cleared, the controller unregistered and
\* closed, if it was not closed already.
Abort(k) ==
    /\ conn[k].cut /\ conn[k].stream \in {"open", "closed"}
    /\ conn' = [conn EXCEPT ![k].beat = FALSE, ![k].stream = "aborted"]
    /\ registry' = Unregister(k)
    /\ UNCHANGED <<settings, browser, alerts, pushing, missed, bounds>>

\* A connection both ends have let go of is forgotten.
Forget(k) ==
    /\ conn[k].tab # None /\ k \notin live[conn[k].tab]
    /\ ~ conn[k].beat
    /\ conn[k].stream \in {"request", "closed", "aborted"}
    /\ k \notin registry[UserOf(k)]
    /\ conn' = [conn EXCEPT ![k] = Free]
    /\ missed' = missed \ {k}
    /\ UNCHANGED <<settings, registry, browser, alerts, pushing, bounds>>

-----------------------------------------------------------------------------
(* The browser's end.                                                      *)

\* connect, at the mount or by the reconnect timer.
Connect(t) ==
    /\ timers[t] > 0 /\ ~ closed[t]
    /\ timers' = [timers EXCEPT ![t] = @ - 1]
    /\ \E k \in Conn :
         /\ conn[k] = Free
         /\ conn' = [conn EXCEPT ![k].tab = t, ![k].stream = "request"]
         /\ source' = [source EXCEPT ![t] = k]
         /\ live' = [live EXCEPT ![t] = @ \cup {k}]
    /\ UNCHANGED <<settings, registry, closed, toasts, alerts, pushing, missed, bounds>>

\* The network, the proxy or the server ends a connection, or the server
\* answers 401.
Cut(k) ==
    /\ Faulty
    /\ conn[k].stream \in {"request", "open"} /\ ~ conn[k].cut
    /\ conn' = [conn EXCEPT ![k].cut = TRUE]
    /\ UNCHANGED <<settings, registry, browser, alerts, pushing, missed, writes>>

\* source?.close(); source = null.  Closing drops what is still on the wire, and
\* breaks the connection for the server.
CloseSource(t) ==
    /\ source' = [source EXCEPT ![t] = None]
    /\ live' = [live EXCEPT ![t] = @ \ {source[t]}]
    /\ conn' = IF source[t] = None THEN conn
               ELSE [conn EXCEPT ![source[t]].cut = TRUE,
                                 ![source[t]].wire = <<>>]

\* Mutant: only a connection that was refused is retried.
RetryRefused(t, k) ==
    IF conn[k].stream = "request" THEN timers[t] + 1 ELSE timers[t]

Retry(t, k) == IF closed[t] THEN timers[t] ELSE timers[t] + 1

\* The error event of an EventSource that is not closed: it is closed, and
\* connect called again after the back-off.
StreamError(t, k) ==
    /\ k \in live[t] /\ conn[k].cut
    /\ CloseSource(t)
    /\ timers' = [timers EXCEPT ![t] = Retry(t, k)]
    /\ UNCHANGED <<settings, registry, closed, toasts, alerts, pushing, missed, bounds>>

\* Mutant: close leaves the reconnect timer that is pending.
LeaveTimer(t) ==
    /\ closed' = [closed EXCEPT ![t] = TRUE]
    /\ UNCHANGED timers

StopReconnecting(t) ==
    /\ closed' = [closed EXCEPT ![t] = TRUE]
    /\ timers' = [timers EXCEPT ![t] = 0]

\* close(), when the toast container is unmounted.
Close(t) ==
    /\ ~ closed[t]
    /\ StopReconnecting(t)
    /\ CloseSource(t)
    /\ UNCHANGED <<settings, registry, toasts, alerts, pushing, missed, bounds>>

AddToast(stack, a) ==
    SubSeq(<<a>> \o stack, 1,
           IF Len(stack) < MaxToasts THEN Len(stack) + 1 ELSE MaxToasts)

\* A message event: parsed and put on top of the stack.
Receive(t, k) ==
    /\ k \in live[t] /\ conn[k].wire # <<>>
    /\ toasts' = [toasts EXCEPT ![t] = AddToast(@, Head(conn[k].wire))]
    /\ conn' = [conn EXCEPT ![k].wire = Tail(@)]
    /\ UNCHANGED <<settings, registry, source, live, timers, closed, alerts,
                   pushing, missed, bounds>>

\* The user's click or the eight seconds' timer: removeToast.
Dismiss(t) ==
    \E i \in DOMAIN toasts[t] :
        /\ toasts' = [toasts EXCEPT ![t] = RemoveAt(@, i)]
        /\ UNCHANGED <<settings, registry, conn, source, live, timers, closed,
                       alerts, pushing, missed, bounds>>

-----------------------------------------------------------------------------
(* The dispatcher.                                                         *)

\* Mutant: the first controller that throws ends the loop over the others.
PushSSEStops(users, a) ==
    /\ conn' = [k \in Conn |->
         IF \E u \in users :
              /\ k \in registry[u]
              /\ \A j \in registry[u] : conn[j].stream = "open"
         THEN [conn[k] EXCEPT !.wire = Append(@, a)] ELSE conn[k]]
    /\ registry' = [u \in User |->
         IF u \in users THEN {k \in registry[u] : conn[k].stream = "open"}
         ELSE registry[u]]

\* pushSSE for some users: enqueue puts the alert on the wire of an open
\* stream; a controller that throws is deleted and the loop goes on.
PushSSE(users, a) ==
    /\ conn' = [k \in Conn |->
         IF \E u \in users : k \in registry[u] /\ conn[k].stream = "open"
                                               /\ ~ conn[k].cut
         THEN [conn[k] EXCEPT !.wire = Append(@, a)] ELSE conn[k]]
    /\ registry' = [u \in User |->
         IF u \in users THEN {k \in registry[u] : conn[k].stream = "open"}
         ELSE registry[u]]

\* The connections that are open, and whose user has stored toasts as on.
Listening(users) ==
    {k \in Conn : /\ conn[k].stream = "open" /\ ~ conn[k].cut
                  /\ UserOf(k) \in users /\ IsOn(rows[UserOf(k)], "toast")}

NoteMissed(users, a) ==
    missed' = missed \cup {k \in Listening(users) : Last(<<0>> \o conn'[k].wire) # a}

\* broadcastAll, by the detection poller for each alert it stores.
BroadcastAll ==
    /\ alerts < MaxAlerts /\ alerts' = alerts + 1
    /\ PushSSE({u \in User : IsOn(rows[u], "toast")}, alerts')
    /\ NoteMissed(User, alerts')
    /\ UNCHANGED <<settings, browser, pushing, bounds>>

\* dispatch, for one user: the toasts, and sendWebPush started with the
\* subscriptions there are.  Telegram is asked once and changes nothing.  Only
\* the unit tests call it.
Dispatch(u) ==
    /\ Assembled
    /\ alerts < MaxAlerts /\ alerts' = alerts + 1
    /\ push[u] = NoPush
    /\ PushSSE(IF IsOn(rows[u], "toast") THEN {u} ELSE {}, alerts')
    /\ NoteMissed({u}, alerts')
    /\ push' = IF IsOn(rows[u], "webpush") /\ subs[u] # {}
               THEN [push EXCEPT ![u] = [todo |-> subs[u], alert |-> alerts']]
               ELSE push
    /\ UNCHANGED <<settings, browser, gone, bounds>>

\* 410 deletes the subscription; any other failure is logged.
AfterPush(u, e, answer) ==
    IF answer = "410" THEN [subs EXCEPT ![u] = Unsubscribe(@, e)] ELSE subs

NextEndpoint(p, e) ==
    IF p.todo = {e} THEN NoPush ELSE [p EXCEPT !.todo = @ \ {e}]

\* One notification of sendWebPush is answered, in the order of the rows read
\* before the first.
PushAnswered(u, e) ==
    /\ e \in push[u].todo
    /\ push' = [push EXCEPT ![u] = NextEndpoint(push[u], e)]
    /\ \E answer \in IF e \in gone THEN {"410", "failed"} ELSE {"sent", "failed"} :
         subs' = AfterPush(u, e, answer)
    /\ UNCHANGED <<rows, registry, conn, browser, alerts, gone, missed, bounds>>

\* The push service drops a subscription: it never comes back.
Expire(e) ==
    /\ Faulty /\ e \notin gone
    /\ gone' = gone \cup {e}
    /\ UNCHANGED <<settings, registry, conn, browser, alerts, push, missed, writes>>

-----------------------------------------------------------------------------
(* The requests that write the settings.                                   *)

Write == writes < MaxWrites /\ writes' = writes + 1

PutRow(u, channel, enabled, chat) ==
    /\ Write
    /\ AcceptsDestination(channel, enabled, chat)
    /\ rows' = [rows EXCEPT ![u] = PutDestination(@, channel, enabled, chat)]
    /\ UNCHANGED <<subs, registry, conn, browser, alerts, pushing, missed, faults>>

PostSubscription(u, e) ==
    /\ Write /\ e \notin gone
    /\ subs' = [subs EXCEPT ![u] = Subscribe(@, e)]
    /\ UNCHANGED <<rows, registry, conn, browser, alerts, pushing, missed, faults>>

DeleteSubscription(u, e) ==
    /\ Write /\ e \in subs[u]
    /\ subs' = [subs EXCEPT ![u] = Unsubscribe(@, e)]
    /\ UNCHANGED <<rows, registry, conn, browser, alerts, pushing, missed, faults>>

\* The process ends: the registry, the timers and the sends under way are lost,
\* and every connection is broken.
Crash ==
    /\ Faulty
    /\ registry' = [u \in User |-> {}]
    /\ conn' = [k \in Conn |->
         IF conn[k] = Free THEN Free
         ELSE [conn[k] EXCEPT !.beat = FALSE, !.cut = TRUE, !.stream = "aborted"]]
    /\ push' = [u \in User |-> NoPush]
    /\ UNCHANGED <<settings, browser, alerts, gone, missed, writes>>

-----------------------------------------------------------------------------
ServerStep(k) ==
    \/ OpenStream(k) \/ CancelStream(k) \/ Heartbeat(k) \/ Abort(k) \/ Forget(k)

TabStep(t) ==
    \/ Connect(t) \/ Close(t) \/ Dismiss(t)
    \/ \E k \in Conn : StreamError(t, k) \/ Receive(t, k)

UserStep(u) ==
    \/ Dispatch(u)
    \/ \E e \in Endpoint :
         PushAnswered(u, e) \/ PostSubscription(u, e) \/ DeleteSubscription(u, e)
    \/ \E channel \in DestinationChannel, enabled \in BOOLEAN,
          chat \in Chat \cup {NoConfig} :
         PutRow(u, channel, enabled, chat)

Next ==
    \/ \E k \in Conn : ServerStep(k) \/ Cut(k)
    \/ \E t \in Tab : TabStep(t)
    \/ \E u \in User : UserStep(u)
    \/ \E e \in Endpoint : Expire(e)
    \/ BroadcastAll
    \/ Crash

Spec == Init /\ [][Next]_vars

\* Timers fire, requests are served, and the runtime notices a broken connection
\* by one of the two ways.
Fairness ==
    /\ \A k \in Conn :
         /\ WF_vars(OpenStream(k)) /\ WF_vars(Heartbeat(k)) /\ WF_vars(Forget(k))
         /\ WF_vars(conn[k].stream = "open" /\ (CancelStream(k) \/ Abort(k)))
    /\ \A t \in Tab :
         WF_vars(Connect(t)) /\ WF_vars(\E k \in Conn : StreamError(t, k))

FairSpec == Spec /\ Fairness

-----------------------------------------------------------------------------
(* Properties.                                                             *)

ConnState ==
    [tab : Tab \cup {None}, beat : BOOLEAN, cut : BOOLEAN,
     stream : {"free", "request", "open", "closed", "aborted"},
     wire : Seq(1 .. MaxAlerts)]

\* The types of the variables; at most MAX_TOASTS toasts are on a screen, and a
\* row that switches Telegram on has a chat to send to (PUT /destinations).
TypeOK ==
    /\ rows \in [User -> Rows(Chat)]
    /\ \A u \in User : IsOn(rows[u], "telegram") => TelegramChat(rows[u]) \in Chat
    /\ subs \in [User -> SUBSET Endpoint]
    /\ registry \in [User -> SUBSET Conn]
    /\ conn \in [Conn -> ConnState]
    /\ source \in [Tab -> Conn \cup {None}]
    /\ live \in [Tab -> SUBSET Conn]
    /\ timers \in [Tab -> Nat]
    /\ closed \in [Tab -> BOOLEAN]
    /\ toasts \in [Tab -> Seq(1 .. MaxAlerts)]
    /\ \A t \in Tab : Len(toasts[t]) <= MaxToasts
    /\ alerts \in 0 .. MaxAlerts
    /\ push \in [User -> [todo : SUBSET Endpoint, alert : 0 .. MaxAlerts]]
    /\ gone \subseteq Endpoint /\ missed \subseteq Conn
    /\ faults \in 0 .. MaxFaults /\ writes \in 0 .. MaxWrites

\* An alert is put on the wire of every open connection of every user whose
\* stored destinations have toasts on, whatever connections ended before or end
\* beside it (registerSSEClient, its closure, pushSSE; REQ-ALERT-004).
OpenStreamsHear == missed = {}

\* A tab has one EventSource or one reconnect timer, never two, and neither after
\* close() (alertStream.ts).
OneSource ==
    \A t \in Tab :
       /\ Cardinality(live[t]) + timers[t] <= 1
       /\ closed[t] => live[t] = {} /\ timers[t] = 0

\* Only the user's own request deletes a subscription the push service has never
\* given up; a send that fails beside it does not (sendWebPush, statusCode 410).
LiveSubscriptionKept ==
    [][\A u \in User, e \in Endpoint \ gone :
         e \in subs[u] /\ e \notin subs'[u] => DeleteSubscription(u, e)]_vars

\* Once connections are no longer cut, every tab that is not closed has an open
\* stream again (connect, the error listener and its timer).
Reconnects ==
    <>[](\A t \in Tab :
            \/ closed[t]
            \/ source[t] # None /\ conn[source[t]].stream = "open"
                                /\ ~ conn[source[t]].cut)

\* A controller whose connection is broken does not stay in the registry for
\* good, by the abort listener, the heartbeat or a push.
GhostsReaped ==
    \A k \in Conn :
       conn[k].cut ~> (conn[k].tab # None => k \notin registry[UserOf(k)])

=============================================================================
