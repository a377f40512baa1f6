---------------------------- MODULE AuthSession ----------------------------
(***************************************************************************)
(* Sessions: the routes of apps/api/src/routes/auth.ts with their guards   *)
(* (middleware/requireAuth.ts, middleware/rateLimit.ts), the blacklist in  *)
(* the database, and the browser's cookies as the web server's hook and    *)
(* its login and logout actions set and delete them.                       *)
(*                                                                         *)
(* A login or a refresh mints a pair of tokens, named by its number.       *)
(* Verifying a signature, comparing a password and signing are awaited, so *)
(* a request is several steps; between two of them it may be delayed for   *)
(* any time.                                                               *)
(***************************************************************************)
EXTENDS Integers, Sequences, SequencesExt, FiniteSets

CONSTANTS
    Req,          \* the requests there may be at once
    AccessLife,   \* ACCESS_TOKEN_EXPIRY_SECONDS, in ticks
    RefreshLife,  \* REFRESH_TOKEN_EXPIRY_SECONDS
    Window,       \* windowMs of the login's rate limit
    MaxRequests,  \* maxRequests of the login's rate limit
    MaxTime,      \* bound: ticks
    MaxPairs,     \* bound: pairs of tokens minted
    MaxLogins,    \* bound: logins that pass the rate limit of one process
    MaxRestarts   \* bound: restarts of the API's process

ASSUME AuthBounds ==
    /\ AccessLife \in Nat \ {0} /\ RefreshLife \in Nat /\ AccessLife <= RefreshLife
    /\ Window \in Nat \ {0} /\ MaxRequests \in Nat
    /\ MaxTime \in Nat /\ MaxPairs \in Nat /\ MaxLogins \in Nat
    /\ MaxRestarts \in Nat

VARIABLES
    now,
    born,       \* the time each pair was signed at
    blacklist,  \* auth_token_blacklist: a token and the row's expires_at
    ended,      \* (history) the tokens given up by a logout or a refresh
    bucket,     \* the rate limit's bucket of the one address logins come from
    passes,     \* (history) the times logins passed the rate limit, since the
                \* API's process started
    jar,        \* the browser's cookies
    req,        \* the requests under way
    restarts    \* how often the API's process has restarted

limit == <<bucket, passes>>
authVars == <<now, born, blacklist, ended, limit, jar, req, restarts>>

Pair == 1 .. MaxPairs
NoPair == 0
Token == Pair \X {"access", "refresh"}

Exp(t) == born[t[1]] + (IF t[2] = "access" THEN AccessLife ELSE RefreshLife)

\* verifyToken: the time before which a token passes.
Fresh(t) == now < Exp(t)

Banned(t) == \E row \in blacklist : row.token = t

\* A cookie: the pair whose token it holds, and when its Max-Age runs out.
NoCookie == [pair |-> NoPair, until |-> 0]
NoCookies == [access |-> NoCookie, refresh |-> NoCookie]

\* setCookie of both tokens.
Cookies(p) == [access |-> [pair |-> p, until |-> now + AccessLife],
               refresh |-> [pair |-> p, until |-> now + RefreshLife]]

Idle == [kind |-> "none", pc |-> "free", access |-> NoPair, refresh |-> NoPair,
         pair |-> NoPair, at |-> 0, out |-> "none"]

NoBucket == [count |-> 0, resetAt |-> 0]

InitAuth ==
    /\ now = 0 /\ born = <<>> /\ blacklist = {} /\ ended = {}
    /\ bucket = NoBucket /\ passes = <<>>
    /\ jar = NoCookies /\ req = [q \in Req |-> Idle] /\ restarts = 0

\* Time passes, and the browser drops the cookies whose Max-Age is over.
Tick ==
    /\ now < MaxTime /\ now' = now + 1
    /\ jar' = [name \in DOMAIN jar |->
                 IF now' < jar[name].until THEN jar[name] ELSE NoCookie]
    /\ UNCHANGED <<born, blacklist, ended, limit, req, restarts>>

Answer(q, out) == req' = [req EXCEPT ![q].pc = "answered", ![q].out = out]

\* signAccessToken, signRefreshToken.
Mint == Len(born) < MaxPairs /\ born' = Append(born, now)

-----------------------------------------------------------------------------
(* POST /login.                                                            *)

\* Mutant: a bucket that is made is not kept.
FreshBucket ==
    IF now >= bucket.resetAt THEN [count |-> 1, resetAt |-> now]
    ELSE [bucket EXCEPT !.count = @ + 1]

\* createRateLimit: the attempt is counted, in a new window if the last ended.
CountedIn ==
    IF now >= bucket.resetAt THEN [count |-> 1, resetAt |-> now + Window]
    ELSE [bucket EXCEPT !.count = @ + 1]

\* The request of the login form passes the limit or is answered 429.
Attempt(q) ==
    /\ req[q].pc = "free" /\ Len(passes) < MaxLogins
    /\ bucket.count <= MaxRequests \/ now >= bucket.resetAt   \* bound: one 429 a window
    /\ bucket' = CountedIn
    /\ LET limited == bucket'.count > MaxRequests
       IN  /\ passes' = IF limited THEN passes ELSE Append(passes, now)
           /\ req' = [req EXCEPT ![q] =
                [Idle EXCEPT !.kind = "login",
                             !.pc = IF limited THEN "answered" ELSE "comparing"]]
    /\ UNCHANGED <<now, born, blacklist, ended, jar, restarts>>

\* The password was compared: 401, or two tokens and their cookies.
PasswordCompared(q) ==
    /\ req[q].pc = "comparing"
    /\ \/ Answer(q, "none") /\ UNCHANGED born
       \/ /\ Mint
          /\ req' = [req EXCEPT ![q].pc = "answered", ![q].out = "cookies",
                                ![q].pair = Len(born')]
    /\ UNCHANGED <<now, blacklist, ended, limit, jar, restarts>>

-----------------------------------------------------------------------------
(* The hook of every page, POST /logout through the web server's action,   *)
(* and POST /refresh.                                                      *)

\* What the request's guard is shown: /refresh reads the refresh token.
Shown(q) == IF req[q].kind = "refresh" THEN <<req[q].refresh, "refresh">>
            ELSE <<req[q].access, "access">>

\* The browser asks for a page, or for /logout, with the cookies it has, or a
\* client asks for new tokens.  A page without access_token asks the API nothing.
Ask(q) ==
    /\ req[q].pc = "free"
    /\ \E kind \in {"page", "logout", "refresh"} :
         /\ kind = "page" => jar.access.pair # NoPair
         /\ req' = [req EXCEPT ![q] =
              [Idle EXCEPT !.kind = kind, !.pc = "sent",
                           !.access = jar.access.pair, !.refresh = jar.refresh.pair]]
    /\ UNCHANGED <<now, born, blacklist, ended, limit, jar, restarts>>

\* 401.  The hook deletes both cookies when /me is refused; the logout action
\* deletes them whatever it is answered, and asks without them after the hook.
Refused(q) == Answer(q, IF req[q].kind = "refresh" THEN "none" ELSE "delete")

\* verifyToken of the cookie, which may be missing.
Verify(q) ==
    /\ req[q].pc \in {"sent", "loggingOut"}
    /\ IF Shown(q)[1] # NoPair /\ Fresh(Shown(q))
       THEN req' = [req EXCEPT ![q].pc = IF @ = "sent" THEN "verified" ELSE "leaving"]
       ELSE Refused(q)
    /\ UNCHANGED <<now, born, blacklist, ended, limit, jar, restarts>>

\* The API cannot be reached, or its answer does not come: the hook takes it
\* for a refusal, the logout action goes on.
Unreachable(q) ==
    /\ req[q].pc \in {"sent", "loggingOut"} /\ req[q].kind # "refresh"
    /\ Answer(q, "delete")
    /\ UNCHANGED <<now, born, blacklist, ended, limit, jar, restarts>>

\* The blacklist is asked, and GET /me looks the user up.  A page is shown; the
\* logout action goes on to POST /logout; /refresh signs a new pair.
Check(q, known) ==
    /\ req[q].pc = "verified"
    /\ \/ (Banned(Shown(q)) \/ (~ known /\ req[q].kind # "refresh"))
          /\ Refused(q) /\ UNCHANGED born
       \/ /\ ~ Banned(Shown(q))
          /\ \/ req[q].kind = "page" /\ known /\ Answer(q, "page") /\ UNCHANGED born
             \/ /\ req[q].kind = "logout" /\ known /\ UNCHANGED born
                /\ req' = [req EXCEPT ![q].pc = "loggingOut"]
             \/ /\ req[q].kind = "refresh" /\ Mint
                /\ req' = [req EXCEPT ![q].pc = "signing", ![q].at = now,
                                      ![q].pair = Len(born')]
    /\ UNCHANGED <<now, blacklist, ended, limit, jar, restarts>>

\* DELETE ... WHERE expires_at < at, then INSERT OR IGNORE of each token.
Blacklist(at, bans) ==
    LET kept == {row \in blacklist : row.expires_at >= at}
    IN  blacklist' = kept \cup {b \in bans : \A row \in kept : row.token # b.token}

Presented(q) ==
    {<<req[q].access, "access">>} \cup
    (IF req[q].refresh = NoPair THEN {} ELSE {<<req[q].refresh, "refresh">>})

Ban(t, until) == [token |-> t, expires_at |-> until]

\* Mutant: the refresh token is not listed.
LogoutBansAccess(q) == {Ban(<<req[q].access, "access">>, now + AccessLife)}

LogoutBans(q) ==
    {Ban(t, now + (IF t[2] = "access" THEN AccessLife ELSE RefreshLife)) :
       t \in Presented(q)}

\* POST /logout: the guard once more, then one transaction.
Logout(q) ==
    /\ req[q].pc = "leaving"
    /\ IF Banned(Shown(q))
       THEN Refused(q) /\ UNCHANGED <<blacklist, ended>>
       ELSE /\ Blacklist(now, LogoutBans(q))
            /\ ended' = ended \cup Presented(q)
            /\ Answer(q, "loggedOut")
    /\ UNCHANGED <<now, born, limit, jar, restarts>>

\* POST /refresh, once the new pair is signed: one transaction.
Rotate(q) ==
    /\ req[q].pc = "signing"
    /\ Blacklist(req[q].at, {Ban(Shown(q), Exp(Shown(q)))})
    /\ ended' = ended \cup {Shown(q)}
    /\ Answer(q, "cookies")
    /\ UNCHANGED <<now, born, limit, jar, restarts>>

\* The browser has the answer, with its Set-Cookie headers, or never gets it.
Deliver(q) ==
    /\ req[q].pc = "answered"
    /\ jar' = CASE req[q].out = "cookies" -> Cookies(req[q].pair)
                [] req[q].out \in {"delete", "loggedOut"} -> NoCookies
                [] OTHER -> jar
    /\ req' = [req EXCEPT ![q] = Idle]
    /\ UNCHANGED <<now, born, blacklist, ended, limit, restarts>>

Lose(q) ==
    /\ req[q].pc = "answered" /\ req' = [req EXCEPT ![q] = Idle]
    /\ UNCHANGED <<now, born, blacklist, ended, limit, jar, restarts>>

-----------------------------------------------------------------------------
(* The process.                                                            *)

\* A request that the API was at work on gets no answer from it: the hook and
\* the logout action delete the cookies, as for a refusal.
Dropped(r) ==
    IF r.pc \in {"comparing", "verified", "leaving", "signing"}
    THEN [r EXCEPT !.pc = "answered",
                   !.out = IF r.kind \in {"page", "logout"} THEN "delete" ELSE "none"]
    ELSE r

\* The API's process ends and is started again: the Map of the buckets is in
\* memory, the blacklist is not.
RestartApi ==
    /\ restarts < MaxRestarts /\ restarts' = restarts + 1
    /\ bucket' = NoBucket /\ passes' = <<>>
    /\ req' = [q \in Req |-> Dropped(req[q])]
    /\ UNCHANGED <<now, born, blacklist, ended, jar>>

-----------------------------------------------------------------------------
NextAuth(known) ==
    \/ Tick \/ RestartApi
    \/ \E q \in Req :
         \/ Attempt(q) \/ PasswordCompared(q) \/ Ask(q) \/ Verify(q)
         \/ Unreachable(q) \/ Check(q, known) \/ Logout(q) \/ Rotate(q)
         \/ Deliver(q) \/ Lose(q)

AuthTypeOK ==
    /\ now \in 0 .. MaxTime /\ born \in Seq(0 .. MaxTime) /\ Len(born) <= MaxPairs
    /\ blacklist \subseteq [token : Token, expires_at : Nat]
    /\ ended \subseteq Token
    /\ bucket \in [count : Nat, resetAt : Nat]
    /\ passes \in Seq(0 .. MaxTime) /\ Len(passes) <= MaxLogins
    /\ jar \in [{"access", "refresh"} -> [pair : Pair \cup {NoPair}, until : Nat]]
    /\ req \in [Req -> [kind : {"none", "login", "page", "logout", "refresh"},
                        pc : {"free", "comparing", "sent", "verified",
                              "loggingOut", "leaving", "signing", "answered"},
                        access : Pair \cup {NoPair}, refresh : Pair \cup {NoPair},
                        pair : Pair \cup {NoPair}, at : 0 .. MaxTime,
                        out : {"none", "cookies", "delete", "page", "loggedOut"}]]
    /\ restarts \in 0 .. MaxRestarts

\* What a logout or a refresh gave up stays listed until it expires of itself:
\* no row is cleaned away too early, however the transactions of several
\* requests follow one another (auth.ts, POST /logout and POST /refresh).
EndedStaysBanned == \A t \in ended : Banned(t) \/ now >= Exp(t)

\* A step that lets a request past its guard.
Accepts(q) ==
    /\ req[q].pc \in {"verified", "leaving"}
    /\ req'[q].pc \in {"loggingOut", "signing"} \/ req'[q].out \in {"page", "loggedOut"}

\* No request is let in with a token that was given up, unless the token was
\* verified before its time ran out and checked after it.
EndedStaysEnded ==
    [][\A q \in Req : Accepts(q) => Shown(q) \notin ended \/ now >= Exp(Shown(q))]_authVars

\* In no span as long as the window do more than twice the allowed attempts pass:
\* what a fixed window, begun by the first attempt after the last one ended,
\* comes to (createRateLimit).  A process that is started anew has counted none.
RateLimited ==
    \A i \in DOMAIN passes :
        Cardinality({j \in DOMAIN passes :
                       passes[j] \in passes[i] .. passes[i] + Window - 1})
          <= 2 * MaxRequests

=============================================================================
