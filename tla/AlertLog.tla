------------------------------ MODULE AlertLog ------------------------------
(***************************************************************************)
(* What detection alerting promises, without ticks, cursors or tables: for *)
(* each channel a log that takes over the detections its source holds, in  *)
(* time order, each once, passing over none that the source still holds.   *)
(***************************************************************************)
EXTENDS Integers

CONSTANTS
    Log,      \* the channels
    Event     \* what they detect: records with a timestamp ts

VARIABLES
    held,           \* the detections each source still holds
    newest,         \* the timestamp of each source's last detection
    acknowledged,   \* the detections the log has taken over
    removed         \* the logs that were deleted

vars == <<held, newest, acknowledged, removed>>

Init ==
    /\ held = [l \in Log |-> {}]
    /\ newest = [l \in Log |-> 0]
    /\ acknowledged = [l \in Log |-> {}]
    /\ removed = {}

\* The source detects something, later than all before.
Detect(l, S) ==
    /\ S # {} /\ S \subseteq Event
    /\ \A e \in S : e.ts > newest[l]
    /\ held' = [held EXCEPT ![l] = @ \cup S]
    /\ newest' \in [Log -> Int]
    /\ \A m \in Log : IF m = l THEN \A e \in S : e.ts <= newest'[m]
                               ELSE newest'[m] = newest[m]
    /\ UNCHANGED <<acknowledged, removed>>

\* The source forgets its oldest detections.
Expire(l) ==
    /\ held' \in [Log -> SUBSET Event]
    /\ \A m \in Log \ {l} : held'[m] = held[m]
    /\ held'[l] \subseteq held[l]
    /\ \A e \in held[l] \ held'[l], f \in held'[l] : e.ts < f.ts
    /\ UNCHANGED <<newest, acknowledged, removed>>

\* The log takes over detections newer than all it has, and with them every
\* older one that the source still holds.
Acknowledge(l, S) ==
    /\ l \notin removed
    /\ S # {} /\ S \subseteq Event
    /\ \A e \in S : e.ts <= newest[l]
    /\ \A e \in S, a \in acknowledged[l] : a.ts < e.ts
    /\ \A h \in held[l] : (\E e \in S : h.ts <= e.ts)
                               => h \in acknowledged[l] \cup S
    /\ acknowledged' = [acknowledged EXCEPT ![l] = @ \cup S]
    /\ UNCHANGED <<held, newest, removed>>

\* Logs are deleted with all they hold.
Remove(R) ==
    /\ R \subseteq Log \ removed
    /\ removed' = removed \cup R
    /\ acknowledged' = [l \in Log |-> IF l \in R THEN {} ELSE acknowledged[l]]
    /\ UNCHANGED <<held, newest>>

Next ==
    \/ \E l \in Log, S \in SUBSET Event : Detect(l, S) \/ Acknowledge(l, S)
    \/ \E l \in Log : Expire(l)
    \/ \E R \in SUBSET Log : Remove(R)

Spec == Init /\ [][Next]_vars

=============================================================================
