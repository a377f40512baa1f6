------------------------------- MODULE BoxPages -------------------------------
(***************************************************************************)
(* What an operator is told of a registration, a refresh, a deletion and a *)
(* box: how a failure travels from the box through BoxClient               *)
(* (packages/shared/src/edgeai-box-client/client.ts), the routes           *)
(* (apps/api/src/routes/boxes.ts) and the fetch helpers                    *)
(* (apps/web/src/lib/api/boxes.ts) to the pages under routes/(app)/boxes.  *)
(*                                                                         *)
(* The pages keep no state of their own: what they show is a function of   *)
(* where BoxRegistry's request is and of the rows.  The operator is logged *)
(* in and the form is valid; an answer lost in a crash shows nothing.      *)
(***************************************************************************)
EXTENDS BoxRegistry

\* BoxClient, #request: what it throws.  A network failure has status 0, a JSON
\* body that is an error envelope, is malformed or breaks the schema has the
\* status of the answer; a 204 fails in schema.parse, outside of BoxApiError.
RequestErrors ==
    [api : {TRUE}, status : {0, 200, 401, 403, 500}] \cup {[api |-> FALSE, status |-> 204]}

\* The status of an error that a route's catch clause does not know.
Unhandled == 500

-----------------------------------------------------------------------------
(* Registration.                                                           *)

\* Mutant: a box that refuses the login passes for a session that has ended.
PassOn401(e) == IF e.api THEN IF e.status = 401 THEN 401 ELSE 502 ELSE Unhandled

\* POST /, catch: the box's 401 becomes a 400.
RegisterErrorStatus(e) ==
    IF e.api THEN IF e.status = 401 THEN 400 ELSE 502 ELSE Unhandled

\* The statuses with which registerBox's end at pc may be answered.
RegisterStatuses(pc) ==
    CASE pc = "created" -> {201}
      [] pc = "conflict" -> {409}
      [] pc = "failed" -> {Unhandled}
      [] pc \in {"refused", "noKey"} -> {RegisterErrorStatus(e) : e \in RequestErrors}
      [] OTHER -> {}

Ok(status) == status \in 200 .. 299

\* None of the routes' bodies has the code that tells a duplicate among the 400s.
mapBoxErrorStatus(status) ==
    CASE status = 401 -> "unauthorized"
      [] status = 404 -> "notFound"
      [] status = 502 -> "upstream"
      [] status = 409 -> "duplicate"
      [] status = 400 -> "auth"
      [] OTHER -> "unknown"

createBox(status) == IF Ok(status) THEN "ok" ELSE mapBoxErrorStatus(status)

\* The form's action: a redirect to the new box's page, or the form again with
\* the message of the error's kind.
RegisterShows(i) ==
    {IF createBox(s) = "ok" THEN "redirect" ELSE createBox(s) :
        s \in RegisterStatuses(reg[i].pc)}

-----------------------------------------------------------------------------
(* The page of a box.                                                      *)

GetStatus(i) == IF HasRow(i) THEN 200 ELSE 404

fetchBox(status) == IF Ok(status) THEN "ok" ELSE mapBoxErrorStatus(status)

\* load: the box, SvelteKit's error page, the login page, or a message.
DetailShows(i) ==
    LET result == fetchBox(GetStatus(i)) IN
    CASE result = "ok" -> "box"
      [] result \in {"notFound", "unauthorized"} -> result
      [] OTHER -> "message"

DeleteStatus(i) == IF HasRow(i) THEN 204 ELSE 404

deleteBoxById(status) == IF Ok(status) THEN "ok" ELSE mapBoxErrorStatus(status)

\* The delete action: back to the list, or an error.
DeleteShows(i) ==
    IF deleteBoxById(DeleteStatus(i)) = "ok" THEN "redirect"
    ELSE deleteBoxById(DeleteStatus(i))

-----------------------------------------------------------------------------
(* Refresh.                                                                *)

RefreshErrorStatus(e) == IF e.api THEN 502 ELSE Unhandled

\* The UPDATE has been run: the row is read back for the answer.
RefreshStatus(i) == GetStatus(i)

refreshBoxTokens(status) == IF Ok(status) THEN "ok" ELSE mapBoxErrorStatus(status)

\* The refresh action's alert, of a refresh that was stored or was refused.
RefreshShows(i) == refreshBoxTokens(RefreshStatus(i))

RefusedRefreshShows == {refreshBoxTokens(RefreshErrorStatus(e)) : e \in RequestErrors}

-----------------------------------------------------------------------------
(* Properties.                                                             *)

\* The form never lies about a box, whichever registrations, deletions and
\* crashes came between.  Sent to the new box's page, the operator finds the
\* box there and can delete it, unless somebody has deleted it; told of a
\* duplicate, he lost to another registration of the URL, not to his own; and
\* no failure of the box sends him to the login page.
FormTellsTruth ==
    \A i \in Id : \A shown \in RegisterShows(i) :
        /\ shown = "redirect" /\ i \notin deleted =>
               DetailShows(i) = "box" /\ DeleteShows(i) = "redirect"
        /\ shown = "duplicate" =>
               \E j \in Id \ {i} : UrlOf(j) = UrlOf(i) /\ (HasRow(j) \/ j \in deleted)
        /\ shown # "unauthorized"

\* A refusal of a refresh neither sends the operator to the login page nor tells
\* him that the box has gone.
RefusalTellsTruth ==
    \A r \in Refresh :
        refresh[r].pc = "login" =>
            RefusedRefreshShows \cap {"unauthorized", "notFound"} = {}

\* A refresh that ends tells of the box as it is then: refreshed, the box is
\* active and polled again; not found, somebody has deleted it while the box
\* was asked.
RefreshTellsTruth ==
    [][\A r \in Refresh, i \in Id :
          /\ refresh[r] = [pc |-> "encrypt", id |-> i]
          /\ refresh'[r] = NoRefresh /\ crashes' = crashes
          => IF i \in deleted' THEN RefreshShows(i)' = "notFound"
             ELSE RefreshShows(i)' = "ok" /\ i \in ActiveBoxes']_vars

\* What the pages of boxes tell is true.
PagesTellTruth == [](FormTellsTruth /\ RefusalTellsTruth) /\ RefreshTellsTruth

=============================================================================
