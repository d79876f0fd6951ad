---------------------------- MODULE BrowserSession ----------------------------
(***************************************************************************)
(* One browser over the refresh sessions of Sessions.                      *)
(*                                                                         *)
(*   frontend/lib/api.ts                send, refreshSession               *)
(*   frontend/src/lib/session-boot.ts   the refresh every page starts      *)
(*   frontend/src/lib/ws.ts             the refresh before a reconnect     *)
(*   frontend/lib/auth.ts               login and logout                   *)
(*                                                                         *)
(* The refresh token is a cookie the page cannot see: a refresh carries    *)
(* the one in the jar when it is sent, and its answer replaces it when it  *)
(* arrives.  The API client joins a refresh of its own already in flight;  *)
(* the socket client refreshes beside it.  A refresh whose page gave up,   *)
(* was reloaded or left goes on at the server, and its answer is lost.     *)
(***************************************************************************)
EXTENDS Sessions

VARIABLES
    page,       \* "app" or "login"
    access,     \* accessToken: "none", "valid" or "expired"
    jar,        \* the refresh cookie
    promise,    \* refreshPromise: the request it waits for
    call,       \* one API call, as far as send has got
    flight,     \* what the browser knows of each refresh request
    spentBy     \* history: who of this page had spent the cookie of the API
                \* refresh that failed last

browserVars == <<page, access, jar, promise, call, flight, spentBy>>
allVars == <<vars, browserVars>>

NoToken == "noToken"
NoPromise == "noPromise"
ASSUME BrowserAssumption == NoToken \notin Token /\ NoPromise \notin Request

Unsent == [by |-> "nobody", at |-> "unsent", cookie |-> NoToken, token |-> NoToken]

\* "sent" and not answered, answered ("ok" or "failed"), "received", or "gone":
\* the page stopped waiting for it.
Waiting(r) == flight[r].at \in {"sent", "ok", "failed"}
LeaveAll == [r \in Request |-> IF Waiting(r) THEN [flight[r] EXCEPT !.at = "gone"] ELSE flight[r]]

BrowserInit ==
    /\ Init
    /\ page = "login" /\ access = "none" /\ jar = NoToken
    /\ promise = NoPromise /\ call = "idle"
    /\ flight = [r \in Request |-> Unsent]
    /\ spentBy = {}

-----------------------------------------------------------------------------
(* Sending a refresh *)

\* A refresh carries the cookie of the moment; without one it is refused.
Posted(who) == [by |-> who, cookie |-> jar, token |-> NoToken,
                at |-> IF jar = NoToken THEN "failed" ELSE "sent"]
Post(r, who) == flight[r] = Unsent /\ flight' = [flight EXCEPT ![r] = Posted(who)]

\* Mutant: every caller starts a refresh of its own.
refreshSessionAlone == \E r \in Request : Post(r, "api") /\ promise' = r

\* refreshSession: joins the one in flight.
refreshSession ==
    IF promise # NoPromise THEN UNCHANGED <<promise, flight>>
    ELSE \E r \in Request : Post(r, "api") /\ promise' = r

\* A page load and bootSession: memory starts empty, and nobody waits for the
\* requests of the page before.
Load ==
    /\ page' = "app" /\ access' = "none" /\ call' = "idle"
    /\ \E r \in Request :
          /\ flight[r] = Unsent
          /\ flight' = [LeaveAll EXCEPT ![r] = Posted("api")]
          /\ promise' = r
    /\ UNCHANGED <<vars, jar, spentBy>>

\* send: a call made before the token is there waits for the refresh in flight.
StartCall ==
    /\ page = "app" /\ call = "idle"
    /\ call' = IF access = "none" /\ promise # NoPromise THEN "joined" ELSE "fetching"
    /\ UNCHANGED <<vars, page, access, jar, promise, flight, spentBy>>

ToLogin ==
    /\ page' = "login" /\ access' = "none" /\ promise' = NoPromise /\ call' = "idle"
    /\ flight' = LeaveAll

\* A 401: one refresh, then one retry; none when the refresh joined has failed.
Unauthorized ==
    /\ access # "valid"
    /\ \/ call = "fetching" /\ refreshSession /\ call' = "refreshing" /\ UNCHANGED <<page, access>>
       \/ call = "joinFailed" /\ ToLogin
    /\ UNCHANGED <<vars, jar, spentBy>>

\* The call was answered; a retry ends it whatever its status.
CallEnds ==
    /\ \/ call \in {"fetching", "joinFailed"} /\ access = "valid"
       \/ call = "retrying"
    /\ call' = "idle"
    /\ UNCHANGED <<vars, page, access, jar, promise, flight, spentBy>>

\* The socket client refreshes before it reconnects, beside refreshSession.
refreshTokenForWS ==
    /\ page = "app"
    /\ \A r \in Request : flight[r].by = "socket" => ~Waiting(r)
    /\ \E r \in Request : Post(r, "socket")
    /\ UNCHANGED <<vars, page, access, jar, promise, call, spentBy>>

\* A live stream whose token the server found expired refreshes as a call does.
StreamExpires ==
    /\ page = "app"
    /\ refreshSession
    /\ UNCHANGED <<vars, page, access, jar, call, spentBy>>

-----------------------------------------------------------------------------
(* Its end *)

\* The browser stores the cookie of the answer.
SetCookie(r) == flight[r].token

\* The access token is stored, and who waits for an API refresh goes on.
RefreshSucceeds(r) ==
    /\ flight[r].at = "ok"
    /\ access' = "valid" /\ jar' = SetCookie(r)
    /\ flight' = [flight EXCEPT ![r].at = "received"]
    /\ promise' = IF promise = r THEN NoPromise ELSE promise
    /\ call' = CASE promise = r /\ call = "joined" -> "fetching"
                 [] promise = r /\ call = "refreshing" -> "retrying"
                 [] OTHER -> call
    /\ UNCHANGED <<vars, page, spentBy>>

\* Whose request, of this page, was given the successor of the cookie r carried.
Spenders(r) ==
    {flight[q].by : q \in {p \in Request : /\ flight[p].cookie = flight[r].cookie
                                           /\ flight[p].at \in {"ok", "received"}}}

\* A refusal, or no answer within ten seconds, or no connection.  The socket
\* client shrugs; the API client's caller ends at /login or is told to.
RefreshFails(r) ==
    /\ Waiting(r)
    /\ \/ /\ promise = r /\ call = "refreshing"
          /\ ToLogin
       \/ /\ ~(promise = r /\ call = "refreshing")
          /\ flight' = [flight EXCEPT ![r].at = "gone"]
          /\ promise' = IF promise = r THEN NoPromise ELSE promise
          /\ call' = IF promise = r /\ call = "joined" THEN "joinFailed" ELSE call
          /\ UNCHANGED <<page, access>>
    /\ spentBy' = IF flight[r].by = "api" /\ flight[r].at = "failed" THEN Spenders(r) ELSE {}
    /\ UNCHANGED <<vars, jar>>

-----------------------------------------------------------------------------
(* The user and time *)

SignIn(t) ==
    /\ page = "login"
    /\ Login(t)
    /\ page' = "app" /\ access' = "valid" /\ jar' = t
    /\ UNCHANGED <<promise, call, flight, spentBy>>

SignOut ==
    /\ page = "app" /\ jar # NoToken
    /\ Logout(jar)
    /\ ToLogin /\ jar' = NoToken
    /\ UNCHANGED spentBy

AccessExpires ==
    /\ access = "valid"
    /\ access' = "expired"
    /\ UNCHANGED <<vars, page, jar, promise, call, flight, spentBy>>

Passing ==
    /\ Cleanup \/ Tick
    /\ UNCHANGED browserVars

-----------------------------------------------------------------------------
(* The server, over the requests sent *)

Answer(r, t) ==
    /\ flight' = [flight EXCEPT ![r].token = t,
                    ![r].at = IF @ # "sent" THEN @ ELSE IF t = NoToken THEN "failed" ELSE "ok"]
    /\ UNCHANGED <<page, access, jar, promise, call, spentBy>>

Accept(r) ==
    /\ flight[r].cookie \in Token
    /\ Rotate(r, flight[r].cookie)
    /\ UNCHANGED browserVars

Reject(r) ==
    /\ flight[r].cookie \in Token
    /\ RotateExpired(r, flight[r].cookie) \/ RotateMissing(r, flight[r].cookie)
    /\ Answer(r, NoToken)

Resolve(r) ==
    \/ (ResolveCached(r) \/ ResolveFresh(r) \/ ResolveGrace(r)) /\ UNCHANGED browserVars
    \/ (ResolveRejected(r) \/ ResolveUnreachable(r) \/ MintFails(r)) /\ Answer(r, NoToken)
    \/ \E t \in Token : Mint(r, t) /\ Answer(r, t)

BrowserNext ==
    \/ Load \/ StartCall \/ Unauthorized \/ CallEnds \/ refreshTokenForWS \/ StreamExpires
    \/ SignOut \/ AccessExpires \/ Passing
    \/ \E t \in Token : SignIn(t)
    \/ \E r \in Request : RefreshSucceeds(r) \/ RefreshFails(r)
    \/ \E r \in Request : Accept(r) \/ Reject(r) \/ Resolve(r)

BrowserSpec == BrowserInit /\ [][BrowserNext]_allVars

-----------------------------------------------------------------------------
(* Properties *)

\* "joining a refresh already in flight": the boot refresh, the calls of a page
\* and their retries never spend each other's token, so no call is sent to
\* /login because another call was faster.  (The socket client's refresh can do
\* it, and so can a refresh the page gave up on.)
CallsShareARefresh == "api" \notin spentBy
==============================================================================
