----------------------------- MODULE AuthServer -----------------------------
(***************************************************************************)
(* The deployment and the sessions put together: the database is migrated  *)
(* and seeded before the API serves, the account the tokens name is the    *)
(* row that was seeded, and a seed may run again, or end, beside the       *)
(* requests.                                                               *)
(***************************************************************************)
EXTENDS Deployment, AuthSession

VARIABLE account   \* the administrator's row when the API began to serve

vars == <<deployVars, authVars, account>>

Init == InitDeployment /\ InitAuth /\ account = {}

\* The database is ready: the API is started.
Serve ==
    /\ account = {} /\ Deployed /\ Seeded
    /\ account' = admins
    /\ UNCHANGED <<deployVars, authVars>>

Deploy ==
    /\ NextDeployment /\ UNCHANGED <<authVars, account>>

\* GET /me finds the row the token names.
Session ==
    /\ account # {}
    /\ NextAuth(account \subseteq admins) /\ UNCHANGED <<deployVars, account>>

Next == Serve \/ Deploy \/ Session

Spec == Init /\ [][Next]_vars

TypeOK ==
    /\ DeploymentTypeOK /\ AuthTypeOK /\ account \subseteq Seeder

\* The account that sessions are about is never removed or replaced while the
\* API serves, so that no valid session is answered USER_NOT_FOUND; and there is
\* one row of it at most, whichever seeds hash the password at the same time and
\* whichever file a migration was killed at.
AccountKept ==
    /\ account \subseteq admins
    /\ \A s, t \in admins : s = t

=============================================================================
