---------------------------- MODULE AlertRoutes ----------------------------
(***************************************************************************)
(* The rows behind the alert routes (apps/api/src/routes/alerts.ts): the   *)
(* destinations of a user (alert_destinations, UNIQUE(user_id, channel))   *)
(* and the Web Push subscriptions (webpush_subscriptions, UNIQUE(user_id,  *)
(* endpoint)).  Operators only: what a request reads and what it writes.   *)
(* Ids, keys and time stamps are left out.                                 *)
(***************************************************************************)

NoConfig == "null"

\* A user's missing row for a channel.
NoRow == [enabled |-> FALSE, chat |-> "no row"]

DestinationChannel == {"toast", "webpush", "telegram"}

\* A row: whether the channel is on, and the chat_id of config_json.
Row(Chat) == {NoRow} \cup [enabled : BOOLEAN, chat : Chat \cup {NoConfig}]

Rows(Chat) == [DestinationChannel -> Row(Chat)]

NoRows == [ch \in DestinationChannel |-> NoRow]

\* DEFAULT_DESTINATIONS: what a user without any row is shown.
DefaultDestinations ==
    [ch \in DestinationChannel |->
        [enabled |-> ch = "toast", chat |-> NoConfig]]

\* GET /destinations: the defaults, which are not stored, or the rows there are.
ShownDestinations(rows) ==
    IF rows = NoRows THEN DefaultDestinations ELSE rows

\* Mutant: Telegram is switched on without a chat.
AcceptsAny(channel, enabled, chat) == TRUE

\* PUT /destinations/:channel answers 400 to Telegram switched on without a chat.
AcceptsDestination(channel, enabled, chat) ==
    ~ (channel = "telegram" /\ enabled /\ chat = NoConfig)

\* The UPSERT: a request without config writes NULL over the old one.
PutDestination(rows, channel, enabled, chat) ==
    [rows EXCEPT ![channel] = [enabled |-> enabled, chat |-> chat]]

\* How the dispatcher reads the rows: destinations.find(... enabled === 1).
IsOn(rows, channel) == rows[channel] # NoRow /\ rows[channel].enabled

\* sendTelegram: the chat of an enabled row, if it has one.
TelegramChat(rows) ==
    IF IsOn(rows, "telegram") THEN rows["telegram"].chat ELSE NoConfig

\* POST /webpush/subscribe: an UPSERT on (user, endpoint).
Subscribe(subs, endpoint) == subs \cup {endpoint}

\* DELETE /webpush/subscribe, and the dispatcher's deletion after a 410.
Unsubscribe(subs, endpoint) == subs \ {endpoint}

=============================================================================
