------------------------ MODULE AlertDelivery_proofs ------------------------
(* Proofs about the way of an alert to its user.                           *)
EXTENDS AlertDelivery, FiniteSetTheorems, SequenceTheorems, TLAPS

\* A tab has the one event source it refers to, on a connection of its own, or
\* waits for one timer at most.
SourceInv ==
    \A t \in Tab : /\ live[t] \subseteq {source[t]}
                   /\ source[t] # None => source[t] \in live[t]
                   /\ \A k \in live[t] : conn[k].tab = t /\ conn[k].stream # "free"
                   /\ timers[t] <= 1
                   /\ live[t] # {} => timers[t] = 0
                   /\ closed[t] => live[t] = {} /\ timers[t] = 0

\* A controller is registered for the user whose tab opened its stream, and for
\* nobody else: what is dispatched for one user is not put on another's wire
\* (registerSSEClient and the closure it returns).
OwnersOnly ==
    \A k \in Conn, u \in User :
       k \in registry[u] => conn[k].stream # "free" /\ UserOf(k) = u

\* A connection in use is a tab's; with a dispatcher given to the routes it is
\* registered as long as its stream is open.
RegistryInv ==
    /\ OwnersOnly
    /\ \A k \in Conn :
          /\ conn[k].stream # "free" => conn[k].tab \in Tab
          /\ conn[k].stream = "free" => conn[k] = Free
          /\ Assembled /\ conn[k].stream = "open" => k \in registry[UserOf(k)]

\* The inductive invariant.
DeliveryInv ==
    /\ TypeOK /\ SourceInv /\ RegistryInv
    /\ Assembled => OpenStreamsHear

-----------------------------------------------------------------------------
(* What the assignments make of a connection.                              *)

Streams == {"free", "request", "open", "closed", "aborted"}

LEMMA ConnFields ==
    ASSUME NEW c \in ConnState
    PROVE  /\ DOMAIN c = {"tab", "beat", "cut", "stream", "wire"}
           /\ c.tab \in Tab \cup {None} /\ c.beat \in BOOLEAN /\ c.cut \in BOOLEAN
           /\ c.stream \in Streams /\ c.wire \in Seq(1 .. MaxAlerts)
BY DEF ConnState, Streams

LEMMA FreeFields ==
    /\ Free \in ConnState
    /\ Free.tab = None /\ Free.stream = "free"
BY DEF Free, ConnState

LEMMA StreamBeats ==
    ASSUME NEW c \in ConnState, NEW stream \in Streams
    PROVE  LET new == [c EXCEPT !.stream = stream]
               beating == [c EXCEPT !.stream = stream, !.beat = TRUE]
               still == [c EXCEPT !.beat = FALSE, !.stream = stream]
           IN  /\ new \in ConnState /\ new.stream = stream /\ new.tab = c.tab
               /\ new.cut = c.cut /\ new.wire = c.wire
               /\ beating \in ConnState /\ beating.stream = stream /\ beating.tab = c.tab
               /\ beating.cut = c.cut /\ beating.wire = c.wire
               /\ still \in ConnState /\ still.stream = stream /\ still.tab = c.tab
               /\ still.cut = c.cut /\ still.wire = c.wire
<1> DEFINE new == [c EXCEPT !.stream = stream]
           beating == [c EXCEPT !.stream = stream, !.beat = TRUE]
           still == [c EXCEPT !.beat = FALSE, !.stream = stream]
<1>1. new \in ConnState
  BY DEF ConnState, Streams
<1>2. beating \in ConnState
  BY DEF ConnState, Streams
<1>3. still \in ConnState
  BY DEF ConnState, Streams
<1>4. new.stream = stream /\ new.tab = c.tab /\ new.cut = c.cut /\ new.wire = c.wire
  BY ConnFields, Zenon
<1>5. /\ beating.stream = stream /\ beating.tab = c.tab
      /\ beating.cut = c.cut /\ beating.wire = c.wire
  BY ConnFields, Zenon
<1>6. /\ still.stream = stream /\ still.tab = c.tab
      /\ still.cut = c.cut /\ still.wire = c.wire
  BY ConnFields, Zenon
<1> HIDE DEF new, beating, still
<1>7. /\ new \in ConnState /\ new.stream = stream /\ new.tab = c.tab
      /\ new.cut = c.cut /\ new.wire = c.wire
      /\ beating \in ConnState /\ beating.stream = stream /\ beating.tab = c.tab
      /\ beating.cut = c.cut /\ beating.wire = c.wire
      /\ still \in ConnState /\ still.stream = stream /\ still.tab = c.tab
      /\ still.cut = c.cut /\ still.wire = c.wire
  BY <1>1, <1>2, <1>3, <1>4, <1>5, <1>6
<1> QED BY <1>7 DEF new, beating, still

LEMMA WireSet ==
    ASSUME NEW c \in ConnState, NEW wire \in Seq(1 .. MaxAlerts)
    PROVE  LET new == [c EXCEPT !.wire = wire]
           IN  /\ new \in ConnState /\ new.stream = c.stream /\ new.tab = c.tab
               /\ new.cut = c.cut /\ new.wire = wire
<1> DEFINE new == [c EXCEPT !.wire = wire]
<1>1. new \in ConnState
  BY DEF ConnState
<1>2. /\ new.stream = c.stream /\ new.tab = c.tab /\ new.cut = c.cut /\ new.wire = wire
  BY ConnFields, Zenon
<1> QED BY <1>1, <1>2

\* A heartbeat that ends, a connection that is cut, a source that is closed, and
\* the end of the process.
LEMMA ConnEnds ==
    ASSUME NEW c \in ConnState
    PROVE  LET quiet == [c EXCEPT !.beat = FALSE]
               broken == [c EXCEPT !.cut = TRUE]
               dropped == [c EXCEPT !.cut = TRUE, !.wire = <<>>]
               dead == [c EXCEPT !.beat = FALSE, !.cut = TRUE, !.stream = "aborted"]
           IN  /\ quiet \in ConnState /\ quiet.stream = c.stream /\ quiet.tab = c.tab
               /\ broken \in ConnState /\ broken.stream = c.stream /\ broken.tab = c.tab
               /\ dropped \in ConnState /\ dropped.stream = c.stream
               /\ dropped.tab = c.tab
               /\ dead \in ConnState /\ dead.stream = "aborted" /\ dead.tab = c.tab
<1> DEFINE quiet == [c EXCEPT !.beat = FALSE]
           broken == [c EXCEPT !.cut = TRUE]
           dropped == [c EXCEPT !.cut = TRUE, !.wire = <<>>]
           dead == [c EXCEPT !.beat = FALSE, !.cut = TRUE, !.stream = "aborted"]
<1>1. quiet \in ConnState
  BY DEF ConnState
<1>2. broken \in ConnState
  BY DEF ConnState
<1>3. dropped \in ConnState
  <2>1. <<>> \in Seq(1 .. MaxAlerts)
    OBVIOUS
  <2> QED BY <2>1 DEF ConnState
<1>4. dead \in ConnState
  BY DEF ConnState
<1>5. quiet.stream = c.stream /\ quiet.tab = c.tab
  BY ConnFields, Zenon
<1>6. broken.stream = c.stream /\ broken.tab = c.tab
  BY ConnFields, Zenon
<1>7. dropped.stream = c.stream /\ dropped.tab = c.tab
  BY ConnFields, Zenon
<1>8. dead.stream = "aborted" /\ dead.tab = c.tab
  BY ConnFields, Zenon
<1> HIDE DEF quiet, broken, dropped, dead
<1>9. /\ quiet \in ConnState /\ quiet.stream = c.stream /\ quiet.tab = c.tab
      /\ broken \in ConnState /\ broken.stream = c.stream /\ broken.tab = c.tab
      /\ dropped \in ConnState /\ dropped.stream = c.stream
      /\ dropped.tab = c.tab
      /\ dead \in ConnState /\ dead.stream = "aborted" /\ dead.tab = c.tab
  BY <1>1, <1>2, <1>3, <1>4, <1>5, <1>6, <1>7, <1>8
<1> QED BY <1>9 DEF quiet, broken, dropped, dead

\* connect takes a connection that is free.
LEMMA ConnTaken ==
    ASSUME NEW t \in Tab
    PROVE  LET new == [Free EXCEPT !.tab = t, !.stream = "request"]
           IN  new \in ConnState /\ new.stream = "request" /\ new.tab = t
<1> DEFINE new == [Free EXCEPT !.tab = t, !.stream = "request"]
<1>1. new \in ConnState
  BY FreeFields DEF ConnState
<1>2. new.stream = "request" /\ new.tab = t
  BY FreeFields, ConnFields, Zenon
<1> QED BY <1>1, <1>2

-----------------------------------------------------------------------------
(* The sources and the registry.                                           *)

LEMMA SourceCount ==
    ASSUME TypeOK, SourceInv
    PROVE  OneSource
<1> SUFFICES ASSUME NEW t \in Tab PROVE Cardinality(live[t]) + timers[t] <= 1
  BY DEF SourceInv, OneSource
<1>1. live[t] = {} \/ live[t] = {source[t]}
  BY DEF SourceInv
<1>2. Cardinality(live[t]) = IF live[t] = {} THEN 0 ELSE 1
  BY <1>1, FS_EmptySet, FS_Singleton
<1>3. timers[t] \in Nat /\ timers[t] <= 1 /\ (live[t] # {} => timers[t] = 0)
  BY DEF TypeOK, SourceInv
<1> QED BY <1>2, <1>3

\* The server's steps that end things: no stream is opened, no tab is changed,
\* and nothing that is open leaves the registry.
LEMMA RegistryKept ==
    ASSUME TypeOK, RegistryInv,
           \A k \in Conn :
              /\ conn'[k].tab = conn[k].tab
              /\ conn[k].stream # "free" => conn'[k].stream # "free"
              /\ conn[k].stream = "free" => conn'[k] = conn[k]
              /\ conn'[k].stream = "open" => conn[k].stream = "open",
           \A u \in User : registry'[u] \subseteq registry[u],
           \A k \in Conn, u \in User :
              k \in registry[u] /\ conn'[k].stream = "open" => k \in registry'[u]
    PROVE  RegistryInv'
<1>1. \A k \in Conn : UserOf(k)' = UserOf(k)
  BY DEF UserOf
<1>2. OwnersOnly'
  BY <1>1 DEF OwnersOnly, RegistryInv
<1>3. ASSUME NEW k \in Conn
      PROVE  /\ conn'[k].stream # "free" => conn'[k].tab \in Tab
             /\ conn'[k].stream = "free" => conn'[k] = Free
             /\ Assembled /\ conn'[k].stream = "open" => k \in registry'[UserOf(k)']
  <2>1. /\ conn'[k].stream # "free" => conn'[k].tab \in Tab
        /\ conn'[k].stream = "free" => conn'[k] = Free
    BY DEF RegistryInv
  <2>2. ASSUME Assembled, conn'[k].stream = "open" PROVE k \in registry'[UserOf(k)']
    <3>1. conn[k].tab \in Tab /\ k \in registry[UserOf(k)]
      BY <2>2 DEF RegistryInv
    <3>2. UserOf(k) \in User
      BY <3>1, OwnerAssumption DEF UserOf
    <3> QED BY <1>1, <2>2, <3>1, <3>2
  <2> QED BY <2>1, <2>2
<1> QED BY <1>2, <1>3 DEF RegistryInv

\* A source keeps its connection as long as it is not closed.
LEMMA SourceKept ==
    ASSUME SourceInv, UNCHANGED browser,
           \A t \in Tab : \A k \in live[t] :
               conn'[k].tab = conn[k].tab /\ conn'[k].stream # "free"
    PROVE  SourceInv'
BY DEF SourceInv, browser

LEMMA PushKeeps ==
    ASSUME TypeOK, NEW users \in SUBSET User, NEW a \in 1 .. MaxAlerts,
           PushSSE(users, a)
    PROVE  /\ conn' \in [Conn -> ConnState] /\ registry' \in [User -> SUBSET Conn]
           /\ \A k \in Conn : /\ conn'[k].tab = conn[k].tab
                              /\ conn'[k].stream = conn[k].stream
                              /\ conn[k].stream # "open" => conn'[k] = conn[k]
           /\ \A u \in User : registry'[u] \subseteq registry[u]
           /\ \A k \in Conn, u \in User :
                 k \in registry[u] /\ conn[k].stream = "open" => k \in registry'[u]
           /\ \A k \in Conn, u \in users :
                 k \in registry[u] /\ conn[k].stream = "open" /\ ~ conn[k].cut
                 => conn'[k].wire = Append(conn[k].wire, a)
<1> DEFINE hears(k) == \E u \in users : k \in registry[u] /\ conn[k].stream = "open"
                                                         /\ ~ conn[k].cut
           wire(k) == Append(conn[k].wire, a)
           next(k) == IF hears(k) THEN [conn[k] EXCEPT !.wire = wire(k)] ELSE conn[k]
<1>1. conn' = [k \in Conn |-> next(k)]
  BY DEF PushSSE
<1>2. ASSUME NEW k \in Conn
      PROVE  /\ next(k) \in ConnState /\ next(k).tab = conn[k].tab
             /\ next(k).stream = conn[k].stream
             /\ conn[k].stream # "open" => next(k) = conn[k]
             /\ hears(k) => next(k).wire = wire(k)
  <2>1. conn[k] \in ConnState
    BY DEF TypeOK
  <2>2. wire(k) \in Seq(1 .. MaxAlerts)
    BY <2>1, ConnFields, AppendProperties
  <2>3. conn[k].stream # "open" => ~ hears(k)
    OBVIOUS
  <2> HIDE DEF wire, hears
  <2> QED BY <2>1, <2>2, <2>3, WireSet
<1>3. \A k \in Conn, u \in users :
          k \in registry[u] /\ conn[k].stream = "open" /\ ~ conn[k].cut => hears(k)
  OBVIOUS
<1> HIDE DEF next, hears
<1>4. registry' \in [User -> SUBSET Conn]
  BY DEF PushSSE, TypeOK
<1>5. \A k \in Conn, u \in User :
          k \in registry[u] /\ conn[k].stream = "open" => k \in registry'[u]
  BY DEF PushSSE, TypeOK
<1>6. \A u \in User : registry'[u] \subseteq registry[u]
  BY DEF PushSSE, TypeOK
<1> QED BY <1>1, <1>2, <1>3, <1>4, <1>5, <1>6

\* What is on the wire last has been heard.
LEMMA LastHeard ==
    ASSUME NEW wire \in Seq(1 .. MaxAlerts), NEW a \in 1 .. MaxAlerts
    PROVE  Last(<<0>> \o Append(wire, a)) = a
<1> DEFINE heard == Append(wire, a)
<1>1. wire \in Seq(Nat) /\ a \in Nat /\ <<0>> \in Seq(Nat) /\ Len(<<0>>) = 1
  <2>1. 1 .. MaxAlerts \subseteq Nat
    OBVIOUS
  <2>2. /\ Len(wire) \in Nat /\ wire = [i \in 1 .. Len(wire) |-> wire[i]]
        /\ \A i \in 1 .. Len(wire) : wire[i] \in Nat
    BY <2>1, LenProperties, ElementOfSeq
  <2>3. [i \in 1 .. Len(wire) |-> wire[i]] \in Seq(Nat)
    BY <2>2, IsASeq
  <2> QED BY <2>1, <2>2, <2>3
<1>2. Len(wire) \in Nat /\ heard \in Seq(Nat) /\ Len(heard) = Len(wire) + 1
      /\ heard[Len(wire) + 1] = a
  BY <1>1, AppendProperties, LenProperties
<1> DEFINE all == <<0>> \o heard
<1> HIDE DEF heard
<1>3. Len(all) = Len(wire) + 2 /\ all[Len(wire) + 2] = a
  <2>1. /\ Len(all) = 1 + Len(heard)
        /\ \A i \in 1 .. 1 + Len(heard) : all[i] = IF i <= 1 THEN <<0>>[i]
                                                     ELSE heard[i - 1]
    BY <1>1, <1>2, ConcatProperties
  <2>2. Len(wire) + 2 \in 1 .. 1 + Len(heard) /\ ~ (Len(wire) + 2 <= 1)
        /\ Len(wire) + 2 - 1 = Len(wire) + 1 /\ Len(wire) + 2 = 1 + Len(heard)
    BY <1>2
  <2> HIDE DEF all
  <2> QED BY <1>2, <2>1, <2>2
<1> HIDE DEF all
<1>4. Last(all) = a
  BY <1>3 DEF Last
<1> QED BY <1>4 DEF all, heard

\* Everyone who listens has heard the alert.
LEMMA NobodyMissed ==
    ASSUME TypeOK, RegistryInv, Assembled, NEW users \in SUBSET User,
           NEW all \in SUBSET User, NEW a \in 1 .. MaxAlerts,
           PushSSE(users, a), NoteMissed(all, a),
           \A u \in all : IsOn(rows[u], "toast") => u \in users
    PROVE  missed' = missed
<1> SUFFICES ASSUME NEW k \in Listening(all)
             PROVE  Last(<<0>> \o conn'[k].wire) = a
  BY DEF NoteMissed, Listening
<1>1. /\ k \in Conn /\ conn[k].stream = "open" /\ ~ conn[k].cut
      /\ UserOf(k) \in all /\ IsOn(rows[UserOf(k)], "toast")
  BY DEF Listening
<1>2. UserOf(k) \in users /\ k \in registry[UserOf(k)]
  BY <1>1 DEF RegistryInv
<1>3. conn'[k].wire = Append(conn[k].wire, a)
  BY <1>1, <1>2, PushKeeps
<1>4. conn[k].wire \in Seq(1 .. MaxAlerts)
  BY <1>1, ConnFields DEF TypeOK
<1> QED BY <1>3, <1>4, LastHeard

-----------------------------------------------------------------------------
(* The settings, the toasts and the sources.                               *)

\* A row that switches Telegram on has a chat.
ChatSet(row) == IsOn(row, "telegram") => TelegramChat(row) \in Chat

LEMMA StartRows == \A row \in {NoRows, ToastAndPush} : row \in Rows(Chat) /\ ChatSet(row)
<1>1. NoRow \in Row(Chat)
  BY DEF Row
<1> DEFINE shown == [enabled |-> TRUE, chat |-> NoConfig]
<1>2. shown \in Row(Chat)
  BY DEF Row
<1>3. NoRows \in Rows(Chat) /\ NoRows["telegram"] = NoRow
  BY <1>1 DEF NoRows, Rows, DestinationChannel
<1>4. ToastAndPush = [NoRows EXCEPT !["toast"] = shown, !["webpush"] = shown]
  BY DEF ToastAndPush
<1> HIDE DEF shown
<1>5. ToastAndPush \in Rows(Chat) /\ ToastAndPush["telegram"] = NoRow
  BY <1>2, <1>3, <1>4 DEF Rows, DestinationChannel
<1> QED BY <1>3, <1>5 DEF ChatSet, IsOn

LEMMA PutKeeps ==
    ASSUME NEW row \in Rows(Chat), ChatSet(row), NEW channel \in DestinationChannel,
           NEW enabled \in BOOLEAN, NEW chat \in Chat \cup {NoConfig},
           AcceptsDestination(channel, enabled, chat)
    PROVE  PutDestination(row, channel, enabled, chat) \in Rows(Chat)
           /\ ChatSet(PutDestination(row, channel, enabled, chat))
<1> DEFINE put == [enabled |-> enabled, chat |-> chat]
           new == [row EXCEPT ![channel] = put]
<1>1. put \in Row(Chat)
  BY DEF Row
<1>2. put.enabled = enabled /\ put.chat = chat
  BY Zenon
<1>3. PutDestination(row, channel, enabled, chat) = new
  BY DEF PutDestination
<1> HIDE DEF put
<1>4. new \in Rows(Chat) /\ new["telegram"] = IF channel = "telegram" THEN put
                                              ELSE row["telegram"]
  BY <1>1 DEF Rows, DestinationChannel
<1> HIDE DEF new
<1>5. ChatSet(new)
  <2>1. CASE channel = "telegram"
    <3>1. IsOn(new, "telegram") => enabled
      BY <1>2, <1>4, <2>1 DEF IsOn
    <3>2. enabled => chat \in Chat
      BY <2>1 DEF AcceptsDestination
    <3> QED BY <1>2, <1>4, <2>1, <3>1, <3>2 DEF ChatSet, TelegramChat
  <2>2. CASE channel # "telegram"
    BY <1>4, <2>2 DEF ChatSet, IsOn, TelegramChat
  <2> QED BY <2>1, <2>2
<1> QED BY <1>3, <1>4, <1>5

LEMMA StackKept ==
    ASSUME NEW stack \in Seq(1 .. MaxAlerts), Len(stack) <= MaxToasts,
           NEW a \in 1 .. MaxAlerts
    PROVE  AddToast(stack, a) \in Seq(1 .. MaxAlerts)
           /\ Len(AddToast(stack, a)) <= MaxToasts
<1> DEFINE S == 1 .. MaxAlerts
           all == <<a>> \o stack
           n == IF Len(stack) < MaxToasts THEN Len(stack) + 1 ELSE MaxToasts
<1>1. Len(stack) \in Nat /\ <<a>> \in Seq(S) /\ Len(<<a>>) = 1
  BY LenProperties
<1>2. all \in Seq(S) /\ Len(all) = 1 + Len(stack)
  BY <1>1, ConcatProperties
<1>3. n \in Int /\ n <= MaxToasts /\ n <= 1 + Len(stack) /\ n >= 0
  BY <1>1, DeliveryBounds
<1> HIDE DEF S, all, n
<1>4. \A i \in 1 .. n : all[i] \in S
  BY <1>1, <1>2, <1>3, ElementOfSeq
<1>5. 1 \in Int
  OBVIOUS
<1>6. SubSeq(all, 1, n) \in Seq(S) /\ Len(SubSeq(all, 1, n)) = IF 1 <= n THEN n - 1 + 1 ELSE 0
  BY <1>3, <1>4, <1>5, SubSeqProperties
<1>7. AddToast(stack, a) = SubSeq(all, 1, n)
  BY DEF AddToast, all, n
<1> HIDE DEF AddToast
<1>8. Len(SubSeq(all, 1, n)) <= MaxToasts
  BY <1>3, <1>6, DeliveryBounds
<1> QED BY <1>6, <1>7, <1>8 DEF S

LEMMA Removed ==
    ASSUME NEW S, NEW seq \in Seq(S), NEW i \in 1 .. Len(seq)
    PROVE  RemoveAt(seq, i) \in Seq(S) /\ Len(RemoveAt(seq, i)) <= Len(seq)
<1>1. Len(seq) \in Nat /\ \A j \in 1 .. Len(seq) : seq[j] \in S
  BY LenProperties, ElementOfSeq
<1> DEFINE before == SubSeq(seq, 1, i - 1)
           after == SubSeq(seq, i + 1, Len(seq))
<1>2. before \in Seq(S) /\ Len(before) = i - 1
  <2>1. \A j \in 1 .. i - 1 : seq[j] \in S
    BY <1>1
  <2>2. 1 \in Int /\ i - 1 \in Int /\ (IF 1 <= i - 1 THEN i - 1 - 1 + 1 ELSE 0) = i - 1
    BY <1>1
  <2> HIDE DEF before
  <2> QED BY <2>1, <2>2, SubSeqProperties DEF before
<1>3. after \in Seq(S) /\ Len(after) = Len(seq) - i
  <2>1. \A j \in i + 1 .. Len(seq) : seq[j] \in S
    BY <1>1
  <2>2. /\ i + 1 \in Int /\ Len(seq) \in Int
        /\ (IF i + 1 <= Len(seq) THEN Len(seq) - (i + 1) + 1 ELSE 0) = Len(seq) - i
    BY <1>1
  <2> QED BY <2>1, <2>2, SubSeqProperties
<1>4. RemoveAt(seq, i) = before \o after
  BY DEF RemoveAt
<1> HIDE DEF RemoveAt, before, after
<1>5. before \o after \in Seq(S) /\ Len(before \o after) = Len(before) + Len(after)
  BY <1>2, <1>3, ConcatProperties
<1>6. Len(before) + Len(after) <= Len(seq)
  BY <1>1, <1>2, <1>3
<1> QED BY <1>4, <1>5, <1>6

\* close() and the error listener close the source.
LEMMA SourceClosed ==
    ASSUME TypeOK, SourceInv, NEW t \in Tab, CloseSource(t)
    PROVE  /\ conn' \in [Conn -> ConnState]
           /\ \A k \in Conn : /\ conn'[k].tab = conn[k].tab
                              /\ conn'[k].stream = conn[k].stream
           /\ source' \in [Tab -> Conn \cup {None}] /\ live' \in [Tab -> SUBSET Conn]
           /\ live'[t] = {} /\ source'[t] = None
           /\ \A k \in Conn : conn[k].stream = "free" => conn'[k] = conn[k]
           /\ \A s \in Tab : s # t => live'[s] = live[s] /\ source'[s] = source[s]
<1>1. /\ source' \in [Tab -> Conn \cup {None}] /\ live' \in [Tab -> SUBSET Conn]
      /\ live'[t] = {} /\ source'[t] = None
      /\ \A s \in Tab : s # t => live'[s] = live[s] /\ source'[s] = source[s]
  BY DEF CloseSource, TypeOK, SourceInv
<1>2. CASE source[t] = None
  BY <1>1, <1>2 DEF CloseSource, TypeOK
<1>3. CASE source[t] # None
  <2> DEFINE k == source[t]
             dropped == [conn[k] EXCEPT !.cut = TRUE, !.wire = <<>>]
  <2>1. k \in Conn /\ conn[k] \in ConnState /\ conn[k].stream # "free"
    BY <1>3 DEF TypeOK, SourceInv
  <2>2. dropped \in ConnState /\ dropped.stream = conn[k].stream /\ dropped.tab = conn[k].tab
    BY <2>1, ConnEnds
  <2>3. conn' = [conn EXCEPT ![k] = dropped]
    BY <1>3 DEF CloseSource, TypeOK
  <2> HIDE DEF dropped, k
  <2> QED BY <1>1, <2>1, <2>2, <2>3 DEF TypeOK
<1> QED BY <1>2, <1>3

-----------------------------------------------------------------------------
(* The steps.                                                              *)

LEMMA DeliveryStart == Init => DeliveryInv
<1> SUFFICES ASSUME Init PROVE DeliveryInv
  OBVIOUS
<1>1. rows \in [User -> Rows(Chat)]
      /\ \A u \in User : IsOn(rows[u], "telegram") => TelegramChat(rows[u]) \in Chat
  BY StartRows DEF Init, ChatSet
<1>2. NoPush \in [todo : SUBSET Endpoint, alert : 0 .. MaxAlerts]
  BY DeliveryBounds DEF NoPush
<1>3. <<>> \in Seq(1 .. MaxAlerts) /\ Len(<<>>) = 0
  OBVIOUS
<1>4. TypeOK
  BY <1>1, <1>2, <1>3, FreeFields, DeliveryBounds DEF Init, TypeOK
<1>5. SourceInv
  BY DEF Init, SourceInv
<1>6. RegistryInv
  BY FreeFields DEF Init, RegistryInv, OwnersOnly
<1> QED BY <1>4, <1>5, <1>6 DEF DeliveryInv, OpenStreamsHear, Init

\* The connections' steps: what they leave alone is typed as before.
LEMMA TypeKept ==
    ASSUME TypeOK, conn' \in [Conn -> ConnState], registry' \in [User -> SUBSET Conn],
           UNCHANGED <<settings, alerts, pushing>>,
           missed' \subseteq missed, faults' \in 0 .. MaxFaults, writes' = writes,
           source' \in [Tab -> Conn \cup {None}], live' \in [Tab -> SUBSET Conn],
           timers' \in [Tab -> Nat], closed' \in [Tab -> BOOLEAN],
           toasts' \in [Tab -> Seq(1 .. MaxAlerts)],
           \A t \in Tab : Len(toasts'[t]) <= MaxToasts
    PROVE  TypeOK'
BY DEF TypeOK, settings, pushing

LEMMA ServerKeeps ==
    ASSUME DeliveryInv, NEW k \in Conn, ServerStep(k) \/ Cut(k)
    PROVE  DeliveryInv'
<1>1. TypeOK /\ SourceInv /\ RegistryInv /\ (Assembled => missed = {})
  BY DEF DeliveryInv, OpenStreamsHear
<1>2. conn \in [Conn -> ConnState] /\ conn[k] \in ConnState
      /\ registry \in [User -> SUBSET Conn]
  BY <1>1 DEF TypeOK
<1>3. ASSUME UNCHANGED <<settings, browser, alerts, pushing, writes>>, missed' \subseteq missed,
             faults' \in 0 .. MaxFaults, registry' \in [User -> SUBSET Conn],
             conn' \in [Conn -> ConnState], RegistryInv',
             \A t \in Tab : \A j \in live[t] :
                 conn'[j].tab = conn[j].tab /\ conn'[j].stream # "free"
      PROVE  DeliveryInv'
  <2>1. TypeOK'
    BY <1>1, <1>3, TypeKept DEF TypeOK, browser
  <2>2. SourceInv'
    BY <1>1, <1>3, SourceKept
  <2> QED BY <1>1, <1>3, <2>1, <2>2 DEF DeliveryInv, OpenStreamsHear
<1>4. /\ faults \in 0 .. MaxFaults
      /\ \A t \in Tab : \A j \in live[t] : j \in Conn /\ conn[j].stream # "free"
  BY <1>1 DEF TypeOK, SourceInv
<1>5. \A u \in User : Unregister(k)[u] \subseteq registry[u]
  BY <1>2 DEF Unregister
<1>6. Unregister(k) \in [User -> SUBSET Conn]
  BY <1>2 DEF Unregister
<1>7. \A j \in Conn, u \in User : j \in registry[u] /\ j # k => j \in Unregister(k)[u]
  BY <1>2 DEF Unregister
<1>8. CASE OpenStream(k)
  <2> DEFINE beating == [conn[k] EXCEPT !.stream = "open", !.beat = TRUE]
  <2>1. beating \in ConnState /\ beating.stream = "open" /\ beating.tab = conn[k].tab
    BY <1>2, StreamBeats DEF Streams
  <2>2. conn' = [conn EXCEPT ![k] = beating]
    BY <1>2, <1>8 DEF OpenStream
  <2> HIDE DEF beating
  <2>3. conn' \in [Conn -> ConnState]
    BY <1>2, <2>1, <2>2
  <2>4. /\ \A j \in Conn : conn'[j].tab = conn[j].tab
        /\ \A j \in Conn : j # k => conn'[j] = conn[j]
        /\ conn'[k].stream = "open"
    BY <1>2, <2>1, <2>2
  <2>5. \A j \in Conn : UserOf(j)' = UserOf(j)
    BY <2>4 DEF UserOf
  <2>6. conn[k].stream = "request" /\ conn[k].tab \in Tab /\ UserOf(k) \in User
    BY <1>1, <1>8, OwnerAssumption DEF OpenStream, RegistryInv, UserOf
  <2>7. registry' = IF Assembled THEN [registry EXCEPT ![UserOf(k)] = @ \cup {k}]
                    ELSE registry
    BY <1>8 DEF OpenStream
  <2>8. registry' \in [User -> SUBSET Conn]
    BY <1>2, <2>7
  <2>9. \A j \in Conn, u \in User : j \in registry'[u] => j \in registry[u]
                                        \/ (j = k /\ u = UserOf(k))
    BY <1>2, <2>6, <2>7
  <2>10. \A u \in User : registry[u] \subseteq registry'[u]
    BY <1>2, <2>7
  <2>11. Assembled => k \in registry'[UserOf(k)]
    BY <1>2, <2>6, <2>7
  <2>12. OwnersOnly'
    BY <1>1, <2>4, <2>5, <2>9 DEF OwnersOnly, RegistryInv
  <2>13. ASSUME NEW j \in Conn
         PROVE  /\ conn'[j].stream # "free" => conn'[j].tab \in Tab
                /\ conn'[j].stream = "free" => conn'[j] = Free
                /\ Assembled /\ conn'[j].stream = "open" => j \in registry'[UserOf(j)']
    <3>1. CASE j = k
      BY <2>4, <2>5, <2>6, <2>11, <3>1
    <3>2. CASE j # k
      <4>1. conn'[j] = conn[j] /\ UserOf(j)' = UserOf(j)
        BY <2>4, <2>5, <3>2
      <4>2. conn[j].stream # "free" => UserOf(j) \in User
        BY <1>1, OwnerAssumption DEF RegistryInv, UserOf
      <4> QED BY <1>1, <2>10, <4>1, <4>2 DEF RegistryInv
    <3> QED BY <3>1, <3>2
  <2>14. RegistryInv'
    BY <2>12, <2>13 DEF RegistryInv
  <2>15. \A t \in Tab : \A j \in live[t] :
             conn'[j].tab = conn[j].tab /\ conn'[j].stream # "free"
    BY <1>4, <2>4
  <2> QED BY <1>3, <1>4, <1>8, <2>3, <2>8, <2>14, <2>15 DEF OpenStream, bounds
<1>9. ASSUME NEW new \in ConnState, new.tab = conn[k].tab,
             conn[k].stream # "free", new.stream # "free",
             new.stream = "open" => conn[k].stream = "open",
             conn' = [conn EXCEPT ![k] = new],
             \/ registry' = registry
             \/ registry' = Unregister(k) /\ new.stream # "open"
      PROVE  /\ conn' \in [Conn -> ConnState] /\ registry' \in [User -> SUBSET Conn]
             /\ RegistryInv'
             /\ \A t \in Tab : \A j \in live[t] :
                    conn'[j].tab = conn[j].tab /\ conn'[j].stream # "free"
  <2>1. conn' \in [Conn -> ConnState] /\ registry' \in [User -> SUBSET Conn]
    BY <1>2, <1>6, <1>9
  <2>2. \A j \in Conn : /\ conn'[j].tab = conn[j].tab
                        /\ conn[j].stream # "free" => conn'[j].stream # "free"
                        /\ conn[j].stream = "free" => conn'[j] = conn[j]
                        /\ conn'[j].stream = "open" => conn[j].stream = "open"
    BY <1>2, <1>9
  <2>3. \A u \in User : registry'[u] \subseteq registry[u]
    BY <1>5, <1>9
  <2>4. conn'[k].stream = new.stream
    BY <1>2, <1>9
  <2>5. \A j \in Conn, u \in User :
            j \in registry[u] /\ conn'[j].stream = "open" => j \in registry'[u]
    BY <1>7, <1>9, <2>4
  <2>6. \A t \in Tab : \A j \in live[t] :
            conn'[j].tab = conn[j].tab /\ conn'[j].stream # "free"
    BY <1>4, <2>2
  <2> QED BY <1>1, <2>1, <2>2, <2>3, <2>5, <2>6, RegistryKept
<1>10. CASE CancelStream(k)
  <2> DEFINE new == [conn[k] EXCEPT !.stream = "closed"]
  <2>1. new \in ConnState /\ new.stream = "closed" /\ new.tab = conn[k].tab
    BY <1>2, StreamBeats DEF Streams
  <2>2. conn' = [conn EXCEPT ![k] = new] /\ conn[k].stream = "open"
    BY <1>2, <1>10 DEF CancelStream
  <2> HIDE DEF new
  <2>3. registry' = registry
    BY <1>10 DEF CancelStream
  <2>4. /\ conn' \in [Conn -> ConnState] /\ registry' \in [User -> SUBSET Conn]
        /\ RegistryInv'
        /\ \A t \in Tab : \A j \in live[t] :
               conn'[j].tab = conn[j].tab /\ conn'[j].stream # "free"
    BY <1>9, <2>1, <2>2, <2>3
  <2> QED BY <1>3, <1>4, <1>10, <2>4 DEF CancelStream, bounds
<1>11. CASE Heartbeat(k)
  <2> DEFINE new == [conn[k] EXCEPT !.beat = FALSE]
  <2>1. new \in ConnState /\ new.stream = conn[k].stream /\ new.tab = conn[k].tab
    BY <1>2, ConnEnds
  <2>2. conn' = [conn EXCEPT ![k] = new] /\ conn[k].stream = "closed"
    BY <1>2, <1>11 DEF Heartbeat, ReapStream
  <2> HIDE DEF new
  <2>3. registry' = Unregister(k)
    BY <1>11 DEF Heartbeat, ReapStream
  <2>4. /\ conn' \in [Conn -> ConnState] /\ registry' \in [User -> SUBSET Conn]
        /\ RegistryInv'
        /\ \A t \in Tab : \A j \in live[t] :
               conn'[j].tab = conn[j].tab /\ conn'[j].stream # "free"
    BY <1>9, <2>1, <2>2, <2>3
  <2> QED BY <1>3, <1>4, <1>11, <2>4 DEF Heartbeat, bounds
<1>12. CASE Abort(k)
  <2> DEFINE new == [conn[k] EXCEPT !.beat = FALSE, !.stream = "aborted"]
  <2>1. new \in ConnState /\ new.stream = "aborted" /\ new.tab = conn[k].tab
    BY <1>2, StreamBeats DEF Streams
  <2>2. conn' = [conn EXCEPT ![k] = new] /\ conn[k].stream # "free"
    BY <1>2, <1>12 DEF Abort
  <2> HIDE DEF new
  <2>3. registry' = Unregister(k)
    BY <1>12 DEF Abort
  <2>4. /\ conn' \in [Conn -> ConnState] /\ registry' \in [User -> SUBSET Conn]
        /\ RegistryInv'
        /\ \A t \in Tab : \A j \in live[t] :
               conn'[j].tab = conn[j].tab /\ conn'[j].stream # "free"
    BY <1>9, <2>1, <2>2, <2>3
  <2> QED BY <1>3, <1>4, <1>12, <2>4 DEF Abort, bounds
<1>13. CASE Forget(k)
  <2>1. conn' = [conn EXCEPT ![k] = Free] /\ registry' = registry
    BY <1>13 DEF Forget
  <2>2. conn' \in [Conn -> ConnState] /\ registry' \in [User -> SUBSET Conn]
    BY <1>2, <2>1, FreeFields
  <2>3. conn'[k].stream = "free" /\ \A j \in Conn : j # k => conn'[j] = conn[j]
    BY <1>2, <2>1, FreeFields
  <2>4. \A j \in Conn : j # k => UserOf(j)' = UserOf(j)
    BY <2>3 DEF UserOf
  <2>5. \A u \in User : k \notin registry[u]
    BY <1>1, <1>13 DEF Forget, RegistryInv, OwnersOnly
  <2>6. OwnersOnly'
    BY <1>1, <2>1, <2>3, <2>4, <2>5 DEF RegistryInv, OwnersOnly
  <2>7. ASSUME NEW j \in Conn
        PROVE  /\ conn'[j].stream # "free" => conn'[j].tab \in Tab
               /\ conn'[j].stream = "free" => conn'[j] = Free
               /\ Assembled /\ conn'[j].stream = "open" => j \in registry'[UserOf(j)']
    BY <1>1, <2>1, <2>3, <2>4 DEF RegistryInv
  <2>8. RegistryInv'
    BY <2>6, <2>7 DEF RegistryInv
  <2>9. missed' \subseteq missed
    BY <1>13 DEF Forget
  <2>10. \A t \in Tab : k \notin live[t]
    BY <1>1, <1>13 DEF Forget, SourceInv
  <2>11. \A t \in Tab : \A j \in live[t] :
             conn'[j].tab = conn[j].tab /\ conn'[j].stream # "free"
    BY <1>4, <2>3, <2>10
  <2> QED BY <1>3, <1>4, <1>13, <2>2, <2>8, <2>9, <2>11 DEF Forget, bounds
<1>14. CASE Cut(k)
  <2> DEFINE new == [conn[k] EXCEPT !.cut = TRUE]
  <2>1. new \in ConnState /\ new.stream = conn[k].stream /\ new.tab = conn[k].tab
    BY <1>2, ConnEnds
  <2>2. conn' = [conn EXCEPT ![k] = new] /\ registry' = registry
    BY <1>2, <1>14 DEF Cut
  <2>5. conn[k].stream # "free"
    BY <1>14 DEF Cut
  <2> HIDE DEF new
  <2>3. /\ conn' \in [Conn -> ConnState] /\ registry' \in [User -> SUBSET Conn]
        /\ RegistryInv'
        /\ \A t \in Tab : \A j \in live[t] :
               conn'[j].tab = conn[j].tab /\ conn'[j].stream # "free"
    BY <1>9, <2>1, <2>2, <2>5
  <2>4. faults' \in 0 .. MaxFaults
    BY <1>4, <1>14, DeliveryBounds DEF Cut, Faulty
  <2> QED BY <1>3, <1>14, <2>3, <2>4 DEF Cut
<1> QED BY <1>8, <1>10, <1>11, <1>12, <1>13, <1>14 DEF ServerStep

LEMMA TabKeeps ==
    ASSUME DeliveryInv, NEW t \in Tab, TabStep(t)
    PROVE  DeliveryInv'
<1>1. TypeOK /\ SourceInv /\ RegistryInv /\ (Assembled => missed = {})
  BY DEF DeliveryInv, OpenStreamsHear
<1>2. /\ conn \in [Conn -> ConnState] /\ registry \in [User -> SUBSET Conn]
      /\ source \in [Tab -> Conn \cup {None}] /\ live \in [Tab -> SUBSET Conn]
      /\ timers \in [Tab -> Nat] /\ closed \in [Tab -> BOOLEAN]
      /\ toasts \in [Tab -> Seq(1 .. MaxAlerts)] /\ faults \in 0 .. MaxFaults
      /\ \A s \in Tab : Len(toasts[s]) <= MaxToasts
  BY <1>1 DEF TypeOK
<1>3. ASSUME conn' \in [Conn -> ConnState], registry' = registry,
             \A k \in Conn : /\ conn'[k].tab = conn[k].tab
                             /\ conn'[k].stream = conn[k].stream
                             /\ conn[k].stream = "free" => conn'[k] = conn[k]
      PROVE  RegistryInv'
  BY <1>1, <1>3, RegistryKept
<1>4. CASE Connect(t)
  <2>1. PICK k \in Conn :
           /\ conn[k] = Free
           /\ conn' = [conn EXCEPT ![k].tab = t, ![k].stream = "request"]
           /\ source' = [source EXCEPT ![t] = k]
           /\ live' = [live EXCEPT ![t] = @ \cup {k}]
    BY <1>4 DEF Connect
  <2>2. /\ timers[t] > 0 /\ ~ closed[t] /\ timers' = [timers EXCEPT ![t] = @ - 1]
        /\ UNCHANGED <<settings, registry, closed, toasts, alerts, pushing, missed, bounds>>
    BY <1>4 DEF Connect
  <2> DEFINE new == [Free EXCEPT !.tab = t, !.stream = "request"]
  <2>3. new \in ConnState /\ new.stream = "request" /\ new.tab = t
    BY ConnTaken
  <2>4. conn' = [conn EXCEPT ![k] = new]
    BY <1>2, <2>1
  <2> HIDE DEF new
  <2>5. conn' \in [Conn -> ConnState]
    BY <1>2, <2>3, <2>4
  <2>6. conn'[k] = new /\ \A j \in Conn : j # k => conn'[j] = conn[j]
    BY <1>2, <2>4
  <2>7. timers[t] = 1 /\ live[t] = {}
    BY <1>1, <1>2, <2>2 DEF SourceInv
  <2>8. timers' \in [Tab -> Nat] /\ timers'[t] = 0
        /\ \A s \in Tab : s # t => timers'[s] = timers[s]
    BY <1>2, <2>2, <2>7
  <2>9. /\ source' \in [Tab -> Conn \cup {None}] /\ live' \in [Tab -> SUBSET Conn]
        /\ live'[t] = {k} /\ source'[t] = k
        /\ \A s \in Tab : s # t => live'[s] = live[s] /\ source'[s] = source[s]
    BY <1>2, <2>1, <2>7
  <2>17. \A s \in Tab : \A j \in live[s] : j # k
    BY <1>1, <2>1, FreeFields DEF SourceInv
  <2>10. SourceInv'
    <3>1. \A s \in Tab : \A j \in live'[s] : conn'[j].tab = s /\ conn'[j].stream # "free"
      <4>1. conn'[k].tab = t /\ conn'[k].stream # "free"
        BY <2>3, <2>6
      <4>2. ASSUME NEW s \in Tab, s # t, NEW j \in live[s]
            PROVE  conn'[j].tab = s /\ conn'[j].stream # "free"
        <5>1. j \in Conn /\ j # k /\ conn[j].tab = s /\ conn[j].stream # "free"
          BY <1>1, <1>2, <2>17 DEF SourceInv
        <5> QED BY <2>6, <5>1
      <4> QED BY <2>9, <4>1, <4>2
    <3>2. \A s \in Tab : source'[s] # None => source'[s] \in live'[s]
      BY <1>1, <2>9 DEF SourceInv
    <3> QED BY <1>1, <2>2, <2>8, <2>9, <3>1, <3>2 DEF SourceInv
  <2>11. \A u \in User : k \notin registry[u]
    BY <1>1, <2>1, FreeFields DEF RegistryInv, OwnersOnly
  <2>12. \A j \in Conn : j # k => UserOf(j)' = UserOf(j)
    BY <2>6 DEF UserOf
  <2>13. OwnersOnly'
    BY <1>1, <2>2, <2>6, <2>11, <2>12 DEF RegistryInv, OwnersOnly
  <2>14. ASSUME NEW j \in Conn
         PROVE  /\ conn'[j].stream # "free" => conn'[j].tab \in Tab
                /\ conn'[j].stream = "free" => conn'[j] = Free
                /\ Assembled /\ conn'[j].stream = "open" => j \in registry'[UserOf(j)']
    <3>1. CASE j = k
      BY <2>3, <2>6, <3>1
    <3>2. CASE j # k
      BY <1>1, <2>2, <2>6, <2>12, <3>2 DEF RegistryInv
    <3> QED BY <3>1, <3>2
  <2>15. RegistryInv'
    BY <2>13, <2>14 DEF RegistryInv
  <2>16. TypeOK'
    BY <1>1, <1>2, <2>2, <2>5, <2>8, <2>9, TypeKept DEF bounds
  <2> QED BY <1>1, <2>2, <2>10, <2>15, <2>16 DEF DeliveryInv, OpenStreamsHear
<1>5. ASSUME CloseSource(t), timers' \in [Tab -> Nat], closed' \in [Tab -> BOOLEAN],
             timers'[t] <= 1, closed'[t] => timers'[t] = 0,
             \A s \in Tab : s # t => timers'[s] = timers[s] /\ closed'[s] = closed[s],
             UNCHANGED <<settings, registry, toasts, alerts, pushing, missed, bounds>>
      PROVE  DeliveryInv'
  <2>1. /\ conn' \in [Conn -> ConnState]
        /\ \A k \in Conn : /\ conn'[k].tab = conn[k].tab
                           /\ conn'[k].stream = conn[k].stream
        /\ source' \in [Tab -> Conn \cup {None}] /\ live' \in [Tab -> SUBSET Conn]
        /\ live'[t] = {} /\ source'[t] = None
        /\ \A k \in Conn : conn[k].stream = "free" => conn'[k] = conn[k]
        /\ \A s \in Tab : s # t => live'[s] = live[s] /\ source'[s] = source[s]
    BY <1>1, <1>5, SourceClosed
  <2>2. RegistryInv'
    BY <1>3, <1>5, <2>1
  <2>3. SourceInv'
    <3>1. \A s \in Tab : \A j \in live'[s] : conn'[j].tab = s /\ conn'[j].stream # "free"
      BY <1>1, <1>2, <2>1 DEF SourceInv
    <3>2. \A s \in Tab : source'[s] # None => source'[s] \in live'[s]
      BY <1>1, <2>1 DEF SourceInv
    <3> QED BY <1>1, <1>5, <2>1, <3>1, <3>2 DEF SourceInv
  <2>4. TypeOK'
    BY <1>1, <1>2, <1>5, <2>1, TypeKept DEF bounds
  <2> QED BY <1>1, <1>5, <2>2, <2>3, <2>4 DEF DeliveryInv, OpenStreamsHear
<1>6. CASE Close(t)
  <2>1. /\ closed' = [closed EXCEPT ![t] = TRUE] /\ timers' = [timers EXCEPT ![t] = 0]
        /\ CloseSource(t)
        /\ UNCHANGED <<settings, registry, toasts, alerts, pushing, missed, bounds>>
    BY <1>6 DEF Close, StopReconnecting
  <2>2. timers' \in [Tab -> Nat] /\ closed' \in [Tab -> BOOLEAN] /\ timers'[t] = 0
    BY <1>2, <2>1
  <2>3. \A s \in Tab : s # t => timers'[s] = timers[s] /\ closed'[s] = closed[s]
    BY <1>2, <2>1
  <2> QED BY <1>5, <2>1, <2>2, <2>3
<1>7. ASSUME NEW k \in Conn, StreamError(t, k) PROVE DeliveryInv'
  <2>1. timers[t] = 0 /\ ~ closed[t]
    BY <1>1, <1>7 DEF StreamError, SourceInv
  <2>2. timers' = [timers EXCEPT ![t] = 1] /\ closed' = closed /\ CloseSource(t)
        /\ UNCHANGED <<settings, registry, toasts, alerts, pushing, missed, bounds>>
    BY <1>2, <1>7, <2>1 DEF StreamError, Retry
  <2>3. timers' \in [Tab -> Nat] /\ timers'[t] = 1
        /\ \A s \in Tab : s # t => timers'[s] = timers[s]
    BY <1>2, <2>2
  <2> QED BY <1>2, <1>5, <2>1, <2>2, <2>3
<1>8. ASSUME UNCHANGED <<settings, registry, source, live, timers, closed, alerts,
                         pushing, missed, bounds>>,
             toasts' \in [Tab -> Seq(1 .. MaxAlerts)],
             \A s \in Tab : Len(toasts'[s]) <= MaxToasts,
             conn' \in [Conn -> ConnState],
             \A k \in Conn : /\ conn'[k].tab = conn[k].tab
                             /\ conn'[k].stream = conn[k].stream
                             /\ conn[k].stream = "free" => conn'[k] = conn[k]
      PROVE  DeliveryInv'
  <2>1. RegistryInv'
    BY <1>3, <1>8
  <2>2. SourceInv'
    <3>1. \A s \in Tab : \A j \in live[s] : conn'[j].tab = s /\ conn'[j].stream # "free"
      BY <1>1, <1>2, <1>8 DEF SourceInv
    <3> QED BY <1>1, <1>8, <3>1 DEF SourceInv
  <2>3. TypeOK'
    BY <1>1, <1>2, <1>8, TypeKept DEF bounds
  <2> QED BY <1>1, <1>8, <2>1, <2>2, <2>3 DEF DeliveryInv, OpenStreamsHear
<1>9. ASSUME NEW k \in Conn, Receive(t, k) PROVE DeliveryInv'
  <2> DEFINE wire == conn[k].wire
             new == [conn[k] EXCEPT !.wire = Tail(wire)]
             stack == AddToast(toasts[t], Head(wire))
  <2>1. conn[k] \in ConnState /\ wire \in Seq(1 .. MaxAlerts) /\ wire # <<>>
    BY <1>2, <1>9, ConnFields DEF Receive
  <2>2. Head(wire) \in 1 .. MaxAlerts /\ Tail(wire) \in Seq(1 .. MaxAlerts)
    BY <2>1, HeadTailProperties
  <2>3. stack \in Seq(1 .. MaxAlerts) /\ Len(stack) <= MaxToasts
    BY <1>2, <2>2, StackKept
  <2>4. toasts' = [toasts EXCEPT ![t] = stack] /\ conn' = [conn EXCEPT ![k] = new]
    BY <1>2, <1>9 DEF Receive
  <2>5. new \in ConnState /\ new.stream = conn[k].stream /\ new.tab = conn[k].tab
    BY <2>1, <2>2, WireSet
  <2>8. conn[k].stream # "free"
    BY <1>1, <1>9 DEF Receive, SourceInv
  <2> HIDE DEF wire, new, stack
  <2>6. /\ toasts' \in [Tab -> Seq(1 .. MaxAlerts)]
        /\ \A s \in Tab : Len(toasts'[s]) <= MaxToasts
    BY <1>2, <2>3, <2>4
  <2>7. /\ conn' \in [Conn -> ConnState]
        /\ \A j \in Conn : /\ conn'[j].tab = conn[j].tab
                           /\ conn'[j].stream = conn[j].stream
                           /\ conn[j].stream = "free" => conn'[j] = conn[j]
    BY <1>2, <2>4, <2>5, <2>8
  <2> QED BY <1>8, <1>9, <2>6, <2>7 DEF Receive
<1>10. CASE Dismiss(t)
  <2>1. PICK i \in DOMAIN toasts[t] :
           /\ toasts' = [toasts EXCEPT ![t] = RemoveAt(@, i)]
           /\ UNCHANGED <<settings, registry, conn, source, live, timers, closed,
                          alerts, pushing, missed, bounds>>
    BY <1>10 DEF Dismiss
  <2> DEFINE stack == RemoveAt(toasts[t], i)
  <2>2. toasts[t] \in Seq(1 .. MaxAlerts) /\ i \in 1 .. Len(toasts[t])
        /\ Len(toasts[t]) \in Nat
    BY <1>2, LenProperties
  <2>3. stack \in Seq(1 .. MaxAlerts) /\ Len(stack) <= Len(toasts[t])
    BY <2>2, Removed
  <2>4. toasts' = [toasts EXCEPT ![t] = stack]
    BY <2>1
  <2> HIDE DEF stack
  <2>5. Len(stack) <= MaxToasts
    <3>1. Len(stack) \in Nat
      BY <2>3, LenProperties
    <3> QED BY <1>2, <2>2, <2>3, <3>1, DeliveryBounds
  <2>6. /\ toasts' \in [Tab -> Seq(1 .. MaxAlerts)]
        /\ \A s \in Tab : Len(toasts'[s]) <= MaxToasts
    BY <1>2, <2>3, <2>4, <2>5
  <2> QED BY <1>2, <1>8, <2>1, <2>6
<1> QED BY <1>4, <1>6, <1>7, <1>9, <1>10 DEF TabStep

\* An alert goes out: by broadcastAll, or by dispatch for one user.
LEMMA AlertKeeps ==
    ASSUME DeliveryInv, alerts < MaxAlerts, alerts' = alerts + 1,
           NEW users \in SUBSET User, NEW all \in SUBSET User,
           PushSSE(users, alerts'), NoteMissed(all, alerts'),
           \A u \in all : IsOn(rows[u], "toast") => u \in users,
           push' \in [User -> [todo : SUBSET Endpoint, alert : 0 .. MaxAlerts]],
           UNCHANGED <<settings, browser, gone, bounds>>
    PROVE  DeliveryInv'
<1>1. TypeOK /\ SourceInv /\ RegistryInv /\ (Assembled => missed = {})
  BY DEF DeliveryInv, OpenStreamsHear
<1>2. alerts' \in 1 .. MaxAlerts
  BY <1>1, DeliveryBounds DEF TypeOK
<1>3. /\ conn' \in [Conn -> ConnState] /\ registry' \in [User -> SUBSET Conn]
      /\ \A k \in Conn : /\ conn'[k].tab = conn[k].tab
                         /\ conn'[k].stream = conn[k].stream
                         /\ conn[k].stream # "open" => conn'[k] = conn[k]
      /\ \A u \in User : registry'[u] \subseteq registry[u]
      /\ \A k \in Conn, u \in User :
            k \in registry[u] /\ conn[k].stream = "open" => k \in registry'[u]
  BY <1>1, <1>2, PushKeeps
<1>4. RegistryInv'
  <2>1. ASSUME NEW k \in Conn
        PROVE  /\ conn'[k].tab = conn[k].tab
               /\ conn[k].stream # "free" => conn'[k].stream # "free"
               /\ conn[k].stream = "free" => conn'[k] = conn[k]
               /\ conn'[k].stream = "open" => conn[k].stream = "open"
    BY <1>3
  <2>2. ASSUME NEW k \in Conn, NEW u \in User, k \in registry[u], conn'[k].stream = "open"
        PROVE  k \in registry'[u]
    BY <1>3, <2>2
  <2> QED BY <1>1, <1>3, <2>1, <2>2, RegistryKept
<1>5. SourceInv'
  <2>1. \A t \in Tab : \A k \in live[t] :
            conn'[k].tab = conn[k].tab /\ conn'[k].stream # "free"
    <3>1. ASSUME NEW t \in Tab, NEW k \in live[t]
          PROVE  conn'[k].tab = conn[k].tab /\ conn'[k].stream # "free"
      <4>1. k \in Conn /\ conn[k].stream # "free"
        BY <1>1 DEF SourceInv, TypeOK
      <4> QED BY <1>3, <4>1
    <3> QED BY <3>1
  <2> QED BY <1>1, <2>1, SourceKept
<1>6. missed' \subseteq Conn
  BY <1>1 DEF NoteMissed, Listening, TypeOK
<1>7. TypeOK'
  BY <1>1, <1>2, <1>3, <1>6 DEF TypeOK, settings, browser, bounds
<1>8. Assembled => missed' = {}
  BY <1>1, <1>2, NobodyMissed
<1> QED BY <1>4, <1>5, <1>7, <1>8 DEF DeliveryInv, OpenStreamsHear

\* What changes neither a connection nor a tab.
LEMMA SettingsKeep ==
    ASSUME DeliveryInv, UNCHANGED <<registry, conn, browser, missed>>, TypeOK'
    PROVE  DeliveryInv'
BY DEF DeliveryInv, SourceInv, RegistryInv, OwnersOnly, UserOf, OpenStreamsHear, browser

LEMMA NextEndpointSet ==
    ASSUME NEW p \in [todo : SUBSET Endpoint, alert : 0 .. MaxAlerts], NEW e \in Endpoint
    PROVE  NextEndpoint(p, e) \in [todo : SUBSET Endpoint, alert : 0 .. MaxAlerts]
BY DeliveryBounds DEF NextEndpoint, NoPush

LEMMA UserKeeps ==
    ASSUME DeliveryInv, NEW u \in User, UserStep(u)
    PROVE  DeliveryInv'
<1>1. TypeOK
  BY DEF DeliveryInv
<1>2. /\ rows \in [User -> Rows(Chat)] /\ \A v \in User : ChatSet(rows[v])
      /\ subs \in [User -> SUBSET Endpoint]
      /\ push \in [User -> [todo : SUBSET Endpoint, alert : 0 .. MaxAlerts]]
      /\ writes \in 0 .. MaxWrites /\ alerts \in 0 .. MaxAlerts
  BY <1>1 DEF TypeOK, ChatSet
<1>3. NoPush \in [todo : SUBSET Endpoint, alert : 0 .. MaxAlerts]
  BY DeliveryBounds DEF NoPush
<1>4. Write => writes' \in 0 .. MaxWrites
  BY <1>2, DeliveryBounds DEF Write
<1>5. CASE Dispatch(u)
  <2> DEFINE users == IF IsOn(rows[u], "toast") THEN {u} ELSE {}
  <2>1. /\ alerts < MaxAlerts /\ alerts' = alerts + 1
        /\ PushSSE(users, alerts') /\ NoteMissed({u}, alerts')
        /\ UNCHANGED <<settings, browser, gone, bounds>>
    BY <1>5 DEF Dispatch
  <2>2. push' \in [User -> [todo : SUBSET Endpoint, alert : 0 .. MaxAlerts]]
    <3>1. alerts' \in 0 .. MaxAlerts
      BY <1>2, <2>1, DeliveryBounds
    <3>2. [todo |-> subs[u], alert |-> alerts']
            \in [todo : SUBSET Endpoint, alert : 0 .. MaxAlerts]
      BY <1>2, <3>1
    <3> QED BY <1>2, <1>5, <3>2 DEF Dispatch
  <2>3. users \in SUBSET User /\ {u} \in SUBSET User
        /\ \A v \in {u} : IsOn(rows[v], "toast") => v \in users
    OBVIOUS
  <2> HIDE DEF users
  <2> QED BY <2>1, <2>2, <2>3, AlertKeeps
<1>6. ASSUME NEW e \in Endpoint, PushAnswered(u, e) PROVE DeliveryInv'
  <2>1. subs' \in [User -> SUBSET Endpoint]
    BY <1>2, <1>6 DEF PushAnswered, AfterPush, Unsubscribe
  <2>2. push' \in [User -> [todo : SUBSET Endpoint, alert : 0 .. MaxAlerts]]
    <3>1. NextEndpoint(push[u], e) \in [todo : SUBSET Endpoint, alert : 0 .. MaxAlerts]
      BY <1>2, NextEndpointSet
    <3>2. push' = [push EXCEPT ![u] = NextEndpoint(push[u], e)]
      BY <1>6 DEF PushAnswered
    <3> QED BY <1>2, <3>1, <3>2
  <2>3. UNCHANGED <<rows, registry, conn, browser, alerts, gone, missed, bounds>>
    BY <1>6 DEF PushAnswered
  <2>4. TypeOK'
    BY <1>1, <2>1, <2>2, <2>3 DEF TypeOK, browser, bounds
  <2> QED BY <2>3, <2>4, SettingsKeep
<1>7. ASSUME NEW e \in Endpoint, PostSubscription(u, e) PROVE DeliveryInv'
  <2>1. subs' \in [User -> SUBSET Endpoint]
    BY <1>2, <1>7 DEF PostSubscription, Subscribe
  <2>2. writes' \in 0 .. MaxWrites
        /\ UNCHANGED <<rows, registry, conn, browser, alerts, pushing, missed, faults>>
    BY <1>4, <1>7 DEF PostSubscription
  <2>3. TypeOK'
    BY <1>1, <2>1, <2>2 DEF TypeOK, browser, pushing
  <2> QED BY <2>2, <2>3, SettingsKeep
<1>8. ASSUME NEW e \in Endpoint, DeleteSubscription(u, e) PROVE DeliveryInv'
  <2>1. subs' \in [User -> SUBSET Endpoint]
    BY <1>2, <1>8 DEF DeleteSubscription, Unsubscribe
  <2>2. writes' \in 0 .. MaxWrites
        /\ UNCHANGED <<rows, registry, conn, browser, alerts, pushing, missed, faults>>
    BY <1>4, <1>8 DEF DeleteSubscription
  <2>3. TypeOK'
    BY <1>1, <2>1, <2>2 DEF TypeOK, browser, pushing
  <2> QED BY <2>2, <2>3, SettingsKeep
<1>9. ASSUME NEW channel \in DestinationChannel, NEW enabled \in BOOLEAN,
             NEW chat \in Chat \cup {NoConfig}, PutRow(u, channel, enabled, chat)
      PROVE  DeliveryInv'
  <2> DEFINE row == PutDestination(rows[u], channel, enabled, chat)
  <2>1. row \in Rows(Chat) /\ ChatSet(row)
    BY <1>2, <1>9, PutKeeps DEF PutRow
  <2>2. rows' = [rows EXCEPT ![u] = row]
    BY <1>9 DEF PutRow
  <2> HIDE DEF row
  <2>3. rows' \in [User -> Rows(Chat)] /\ \A v \in User : ChatSet(rows'[v])
    BY <1>2, <2>1, <2>2
  <2>4. writes' \in 0 .. MaxWrites
        /\ UNCHANGED <<subs, registry, conn, browser, alerts, pushing, missed, faults>>
    BY <1>4, <1>9 DEF PutRow
  <2>5. TypeOK'
    BY <1>1, <2>3, <2>4 DEF TypeOK, browser, pushing, ChatSet
  <2> QED BY <2>4, <2>5, SettingsKeep
<1> QED BY <1>5, <1>6, <1>7, <1>8, <1>9 DEF UserStep

LEMMA CrashKeeps ==
    ASSUME DeliveryInv, Crash
    PROVE  DeliveryInv'
<1>1. TypeOK /\ SourceInv /\ RegistryInv /\ (Assembled => missed = {})
  BY DEF DeliveryInv, OpenStreamsHear
<1> DEFINE dead(k) == [conn[k] EXCEPT !.beat = FALSE, !.cut = TRUE, !.stream = "aborted"]
           next(k) == IF conn[k] = Free THEN Free ELSE dead(k)
<1>2. ASSUME NEW k \in Conn
      PROVE  /\ next(k) \in ConnState
             /\ next(k).stream # "open"
             /\ conn[k] # Free => next(k).tab = conn[k].tab /\ next(k).stream = "aborted"
             /\ conn[k] = Free => next(k) = Free
  <2>1. conn[k] \in ConnState
    BY <1>1 DEF TypeOK
  <2>2. dead(k) \in ConnState /\ dead(k).stream = "aborted" /\ dead(k).tab = conn[k].tab
    BY <2>1, ConnEnds
  <2> HIDE DEF dead
  <2> QED BY <2>2, FreeFields
<1>3. conn' = [k \in Conn |-> next(k)]
  BY DEF Crash
<1> HIDE DEF next
<1>4. conn' \in [Conn -> ConnState] /\ registry' \in [User -> SUBSET Conn]
  BY <1>2, <1>3 DEF Crash
<1>5. push' \in [User -> [todo : SUBSET Endpoint, alert : 0 .. MaxAlerts]]
  <2>1. NoPush \in [todo : SUBSET Endpoint, alert : 0 .. MaxAlerts]
    BY DeliveryBounds DEF NoPush
  <2>2. push' = [u \in User |-> NoPush]
    BY DEF Crash
  <2> QED BY <2>1, <2>2
<1>6. faults' \in 0 .. MaxFaults
  <2>1. faults < MaxFaults /\ faults' = faults + 1
    BY DEF Crash, Faulty
  <2>2. faults \in 0 .. MaxFaults
    BY <1>1 DEF TypeOK
  <2> QED BY <2>1, <2>2, DeliveryBounds
<1>7. UNCHANGED <<settings, browser, alerts, gone, missed, writes>>
  BY DEF Crash
<1>8. TypeOK'
  BY <1>1, <1>4, <1>5, <1>6, <1>7 DEF TypeOK, settings, browser
<1>9. SourceInv'
  <2>1. \A t \in Tab : \A k \in live[t] :
            conn'[k].tab = conn[k].tab /\ conn'[k].stream # "free"
    <3>1. ASSUME NEW t \in Tab, NEW k \in live[t]
          PROVE  conn'[k].tab = conn[k].tab /\ conn'[k].stream # "free"
      <4>1. k \in Conn /\ conn[k] # Free
        BY <1>1, FreeFields DEF SourceInv, TypeOK
      <4> QED BY <1>2, <1>3, <4>1
    <3> QED BY <3>1
  <2> QED BY <1>1, <1>7, <2>1, SourceKept
<1>10. ASSUME NEW k \in Conn
       PROVE  /\ conn'[k].stream # "open"
              /\ conn'[k].stream # "free" => conn'[k].tab \in Tab
              /\ conn'[k].stream = "free" => conn'[k] = Free
  <2>1. CASE conn[k] = Free
    BY <1>2, <1>3, <2>1, FreeFields
  <2>2. CASE conn[k] # Free
    <3>1. conn[k].tab \in Tab
      BY <1>1, <2>2 DEF RegistryInv
    <3> QED BY <1>2, <1>3, <2>2, <3>1
  <2> QED BY <2>1, <2>2
<1>11. RegistryInv'
  BY <1>10 DEF Crash, RegistryInv, OwnersOnly
<1> QED BY <1>1, <1>7, <1>8, <1>9, <1>11 DEF DeliveryInv, OpenStreamsHear

LEMMA DeliveryStep == DeliveryInv /\ [Next]_vars => DeliveryInv'
<1> SUFFICES ASSUME DeliveryInv, [Next]_vars PROVE DeliveryInv'
  OBVIOUS
<1>1. TypeOK
  BY DEF DeliveryInv
<1>2. ASSUME NEW k \in Conn, ServerStep(k) \/ Cut(k) PROVE DeliveryInv'
  BY <1>2, ServerKeeps
<1>3. ASSUME NEW t \in Tab, TabStep(t) PROVE DeliveryInv'
  BY <1>3, TabKeeps
<1>4. ASSUME NEW u \in User, UserStep(u) PROVE DeliveryInv'
  BY <1>4, UserKeeps
<1>5. ASSUME NEW e \in Endpoint, Expire(e) PROVE DeliveryInv'
  <2>1. faults' \in 0 .. MaxFaults /\ gone' \subseteq Endpoint
    BY <1>1, <1>5, DeliveryBounds DEF Expire, Faulty, TypeOK
  <2>2. UNCHANGED <<settings, registry, conn, browser, alerts, push, missed, writes>>
    BY <1>5 DEF Expire
  <2>3. TypeOK'
    BY <1>1, <2>1, <2>2 DEF TypeOK, settings, browser
  <2> QED BY <2>2, <2>3, SettingsKeep
<1>6. CASE BroadcastAll
  <2> DEFINE users == {u \in User : IsOn(rows[u], "toast")}
  <2>1. /\ alerts < MaxAlerts /\ alerts' = alerts + 1
        /\ PushSSE(users, alerts') /\ NoteMissed(User, alerts')
        /\ UNCHANGED <<settings, browser, pushing, bounds>>
    BY <1>6 DEF BroadcastAll
  <2>2. push' \in [User -> [todo : SUBSET Endpoint, alert : 0 .. MaxAlerts]]
        /\ UNCHANGED <<settings, browser, gone, bounds>>
    BY <1>1, <2>1 DEF TypeOK, pushing
  <2>3. users \in SUBSET User /\ User \in SUBSET User
        /\ \A u \in User : IsOn(rows[u], "toast") => u \in users
    OBVIOUS
  <2> HIDE DEF users
  <2> QED BY <2>1, <2>2, <2>3, AlertKeeps
<1>7. CASE Crash
  BY <1>7, CrashKeeps
<1>8. CASE UNCHANGED vars
  <2>1. TypeOK'
    BY <1>1, <1>8 DEF vars, TypeOK, settings, browser, pushing, bounds
  <2>2. UNCHANGED <<registry, conn, browser, missed>>
    BY <1>8 DEF vars
  <2> QED BY <2>1, <2>2, SettingsKeep
<1> QED BY <1>2, <1>3, <1>4, <1>5, <1>6, <1>7, <1>8 DEF Next

-----------------------------------------------------------------------------
(* The theorems.                                                           *)

\* What the server, the tabs and the connections between them keep to in every
\* behaviour: TypeOK, SourceInv, RegistryInv and, with a dispatcher given to the
\* routes, that no open stream misses an alert (alertDispatcher.ts, alerts.ts,
\* alertStream.ts).
THEOREM DeliveryInvariant == Spec => []DeliveryInv
BY DeliveryStart, DeliveryStep, PTL DEF Spec

\* The variables have their types; at most MAX_TOASTS toasts are on a screen, and a
\* row that switches Telegram on has its chat (PUT /destinations).
THEOREM TypeCorrect == Spec => []TypeOK
<1>1. DeliveryInv => TypeOK
  BY DEF DeliveryInv
<1> QED BY <1>1, DeliveryInvariant, PTL

\* A tab has one EventSource or one reconnect timer, never two, and neither after
\* close() (connect, the error listener and close of alertStream.ts).
THEOREM SourcesSingle == Spec => []OneSource
<1>1. DeliveryInv => OneSource
  BY SourceCount DEF DeliveryInv
<1> QED BY <1>1, DeliveryInvariant, PTL

\* A controller is registered for its own user only (registerSSEClient): no step of
\* any connection, crash or reconnection puts one user's stream among another's.
THEOREM ControllersOwned == Spec => []OwnersOnly
<1>1. DeliveryInv => OwnersOnly
  BY DEF DeliveryInv, RegistryInv
<1> QED BY <1>1, DeliveryInvariant, PTL

\* With a dispatcher given to the routes, as the unit tests give it, an alert is put
\* on the wire of every open connection of every user with toasts on (pushSSE).
THEOREM StreamsHearAlerts == ASSUME Assembled PROVE Spec => []OpenStreamsHear
<1>1. DeliveryInv => OpenStreamsHear
  BY DEF DeliveryInv
<1> QED BY <1>1, DeliveryInvariant, PTL

LEMMA SubscriptionStays ==
    ASSUME DeliveryInv, [Next]_vars, NEW u \in User, NEW e \in Endpoint \ gone,
           e \in subs[u], e \notin subs'[u]
    PROVE  DeleteSubscription(u, e)
<1>1. subs \in [User -> SUBSET Endpoint]
  BY DEF DeliveryInv, TypeOK
<1>2. subs' # subs
  OBVIOUS
<1>3. PICK v \in User : UserStep(v)
  BY <1>2 DEF Next, vars, settings, ServerStep, OpenStream, CancelStream, Heartbeat,
              Abort, Forget, Cut, TabStep, Connect, Close, Dismiss, StreamError, Receive,
              Expire, BroadcastAll, Crash
<1>4. ~ Dispatch(v)
  BY <1>2 DEF Dispatch, settings
<1>5. ASSUME NEW channel \in DestinationChannel, NEW enabled \in BOOLEAN,
             NEW chat \in Chat \cup {NoConfig}, PutRow(v, channel, enabled, chat)
      PROVE  FALSE
  BY <1>2, <1>5 DEF PutRow
<1>6. ASSUME NEW d \in Endpoint, PushAnswered(v, d) PROVE FALSE
  <2>1. PICK answer \in IF d \in gone THEN {"410", "failed"} ELSE {"sent", "failed"} :
           subs' = AfterPush(v, d, answer)
    BY <1>6 DEF PushAnswered
  <2>2. d \in gone /\ subs' = [subs EXCEPT ![v] = @ \ {d}]
    BY <1>2, <2>1 DEF AfterPush, Unsubscribe
  <2> QED BY <1>1, <2>2
<1>7. ASSUME NEW d \in Endpoint, PostSubscription(v, d) PROVE FALSE
  BY <1>1, <1>7 DEF PostSubscription, Subscribe
<1>8. PICK d \in Endpoint : DeleteSubscription(v, d)
  BY <1>3, <1>4, <1>5, <1>6, <1>7 DEF UserStep
<1>9. subs' = [subs EXCEPT ![v] = @ \ {d}]
  BY <1>8 DEF DeleteSubscription, Unsubscribe
<1>10. v = u /\ d = e
  BY <1>1, <1>9
<1> QED BY <1>8, <1>10

\* A subscription the push service has never given up is deleted by its user's own request
\* and by nothing else: no answer of another endpoint and no failure takes it
\* (sendWebPush, statusCode 410).
THEOREM LiveSubscriptionsStay == Spec => LiveSubscriptionKept
<1>1. ASSUME DeliveryInv, [Next]_vars
      PROVE  [\A u \in User, e \in Endpoint \ gone :
                 e \in subs[u] /\ e \notin subs'[u] => DeleteSubscription(u, e)]_vars
  BY <1>1, SubscriptionStays
<1> QED BY <1>1, DeliveryInvariant, PTL DEF Spec, LiveSubscriptionKept

=============================================================================
