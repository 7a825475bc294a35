----------------------------- MODULE WebSession -----------------------------
(***************************************************************************)
(* The signed-in session of one browser tab: the API client with its       *)
(* shared token refresh (web/src/lib/api.ts), the token storage            *)
(* (web/src/lib/auth.ts), the auth store (web/src/store/auth.ts), the      *)
(* sign-in pages and the route guard (web/src/App.tsx), with the handlers  *)
(* of the server its calls reach (cmd/server/main.go, auth/service.go).    *)
(*                                                                         *)
(* The n-th pair the server grants, to user u, is the grant [user |-> u,   *)
(* n |-> n]; both tokens of the pair are named by their grant.  Undefined  *)
(* is the string "undefined" that localStorage keeps for a missing field.  *)
(***************************************************************************)
EXTENDS Naturals, FiniteSets

CONSTANTS Reqs,        \* calls of apiRequest that can be under way at a time
          Users,       \* accounts that sign in on this tab
          MaxGrants,   \* bound: token pairs the server grants
          RefreshRouted, \* FALSE: cmd/server as it is, without a /v1/auth/refresh;
                         \* TRUE: a server that serves Service.RefreshToken there
          NoReq, NoUser, NoToken, Undefined

ASSUME NoReqAssumption == NoReq \notin Reqs
ASSUME MaxGrantsAssumption == MaxGrants \in Nat
ASSUME RoutedAssumption == RefreshRouted \in BOOLEAN

VARIABLES
    mem,         \* ApiClient.token
    access,      \* localStorage access_token
    refresh,     \* localStorage refresh_token
    promise,     \* ApiClient.refreshPromise: the request whose exchange is shared
    req,         \* req[r]: the call of apiRequest r
    user, isLoggedIn, isLoading,   \* the auth store (a user undefined is NoUser)
    route,       \* "login" (any public page) or "app" (any protected page)
    live,        \* grants whose access token has not expired
    sessions,    \* grants whose refresh token is in the server's table
    issued       \* number of grants so far

clientVars == <<mem, access, refresh, promise, req>>
storeVars == <<user, isLoggedIn, isLoading, route>>
serverVars == <<live, sessions, issued>>
sessionVars == <<clientVars, storeVars, serverVars>>

Grant == [user : Users, n : 1..MaxGrants]
Token == Grant \cup {Undefined}
ASSUME NoTokenAssumption == NoToken \notin Token /\ Undefined \notin Grant

Kinds == {"login", "register", "me", "data"}
Phases == {"idle", "sent", "answered", "exchange", "exchanged", "waiting", "failing"}
Verdicts == {"none", "ok", "unauthorized", "error"}

Idle == [kind |-> "data", phase |-> "idle", retried |-> FALSE,
         tok |-> NoToken, pair |-> NoToken, verdict |-> "none"]

Req == [kind : Kinds, phase : Phases, retried : BOOLEAN,
        tok : Token \cup {NoToken}, pair : Token \cup {NoToken}, verdict : Verdicts]

(***************************************************************************)
(* isAuthenticated: an access token is stored, parses as a token and has   *)
(* not expired.                                                            *)
(***************************************************************************)
isAuthenticated == access # NoToken /\ access \in live

(***************************************************************************)
(* The module-level client and the store are created when the page loads.  *)
(* Storage may hold the tokens of an earlier visit, or after a refused     *)
(* exchange its refresh token alone.                                       *)
(***************************************************************************)
SessionInit ==
    /\ \E g \in Grant : g.n = 1
          /\ refresh \in {NoToken, g}
          /\ access \in {NoToken, refresh}
          /\ sessions \in SUBSET ({g} \cap {refresh})
          /\ live \in SUBSET ({g} \cap {access})
    /\ mem = access
    /\ promise = NoReq
    /\ req = [r \in Reqs |-> Idle]
    /\ user = NoUser
    /\ isLoggedIn = isAuthenticated
    /\ isLoading = FALSE
    /\ route = IF isAuthenticated THEN "app" ELSE "login"
    /\ issued = 1

(***************************************************************************)
(* request: the token in memory, or else the stored one, goes with the     *)
(* call (tok; a sign-in carries it too, but the server ignores it there).  *)
(***************************************************************************)
Send(r, kind) ==
    LET token == IF mem # NoToken THEN mem ELSE access
    IN  /\ req[r].phase = "idle"
        /\ mem' = token
        /\ req' = [req EXCEPT ![r] = [Idle EXCEPT !.kind = kind, !.phase = "sent",
                                                  !.tok = IF kind \in {"me", "data"}
                                                          THEN token ELSE NoToken]]

(***************************************************************************)
(* The forms of the public pages: their buttons are disabled while the     *)
(* store is loading; the form is valid.  Which of its two forms the login  *)
(* page shows (the second asks for the MFA code, after a 401 that demands  *)
(* it) is left out.                                                        *)
(***************************************************************************)
LoginForm == route = "login" /\ ~isLoading
RegisterForm == route = "login" /\ ~isLoading

\* login, register and fetchUser up to their await
Login(r) ==
    /\ LoginForm
    /\ Send(r, "login")
    /\ isLoading' = TRUE
    /\ UNCHANGED <<access, refresh, promise, user, isLoggedIn, route, serverVars>>

Register(r) ==
    /\ RegisterForm
    /\ Send(r, "register")
    /\ isLoading' = TRUE
    /\ UNCHANGED <<access, refresh, promise, user, isLoggedIn, route, serverVars>>

\* fetchUser, called by the security tab of the settings.
FetchUser(r) ==
    /\ route = "app"
    /\ Send(r, "me")
    /\ isLoading' = TRUE
    /\ UNCHANGED <<access, refresh, promise, user, isLoggedIn, route, serverVars>>

\* Any other call of apiRequest by a protected page.
Request(r) ==
    /\ route = "app"
    /\ Send(r, "data")
    /\ UNCHANGED <<access, refresh, promise, storeVars, serverVars>>

(***************************************************************************)
(* The server answers a call.  handleLogin and handleRegister ignore the   *)
(* token a call carries; every other call is refused without a live one.   *)
(* Login grants a pair and names its user; Register creates an account and *)
(* answers with its id alone.  "error" is any other failure, and an answer *)
(* that is lost.                                                           *)
(***************************************************************************)
Grants(u) == [user |-> u, n |-> issued + 1]

ServerAnswers(r) ==
    LET Answered(v) == [req[r] EXCEPT !.phase = "answered", !.verdict = v,
                                      !.tok = IF v = "ok" /\ req[r].kind = "me"
                                              THEN @ ELSE NoToken]
        Answer(v) == req' = [req EXCEPT ![r] = Answered(v)]
    IN  /\ req[r].phase = "sent"
        /\ \/ /\ req[r].kind = "login" /\ issued < MaxGrants
              /\ \E u \in Users :
                    /\ req' = [req EXCEPT ![r] = [Answered("ok") EXCEPT !.pair = Grants(u)]]
                    /\ live' = live \cup {Grants(u)}
                    /\ sessions' = sessions \cup {Grants(u)}
              /\ issued' = issued + 1
           \/ /\ req[r].kind = "login"
              /\ Answer("unauthorized")
              /\ UNCHANGED serverVars
           \/ /\ req[r].kind = "register"
              /\ Answer("ok")
              /\ UNCHANGED serverVars
           \/ /\ req[r].kind \in {"me", "data"}
              /\ Answer(IF req[r].tok \in live THEN "ok" ELSE "unauthorized")
              /\ UNCHANGED serverVars
           \/ Answer("error") /\ UNCHANGED serverVars
        /\ UNCHANGED <<mem, access, refresh, promise, storeVars>>

(***************************************************************************)
(* refreshToken: the first request that meets a 401 starts the exchange,   *)
(* the ones that meet it meanwhile share its promise.  _doRefresh reads    *)
(* the stored refresh token first and gives up at once when there is none. *)
(***************************************************************************)
Failing(c) == [Idle EXCEPT !.kind = c.kind, !.phase = "failing"]

\* Mutant: every request makes a refresh of its own.
refreshTokenAlone(r) ==
    /\ refresh # NoToken
    /\ req' = [req EXCEPT ![r].phase = "exchange", ![r].pair = refresh]
    /\ promise' = r

refreshToken(r) ==
    IF promise # NoReq
    THEN /\ req' = [req EXCEPT ![r].phase = "waiting"]
         /\ UNCHANGED promise
    ELSE IF refresh = NoToken
    THEN /\ req' = [req EXCEPT ![r] = Failing(@)]
         /\ UNCHANGED promise
    ELSE /\ req' = [req EXCEPT ![r].phase = "exchange", ![r].pair = refresh]
         /\ promise' = r

\* The answer is a 401, the client has a token at this moment, and the call
\* has not been repeated yet.
Unauthorized(r) == req[r].verdict = "unauthorized"

Rejected(r) ==
    /\ req[r].phase = "answered"
    /\ Unauthorized(r) /\ mem # NoToken /\ ~req[r].retried
    /\ refreshToken(r)
    /\ UNCHANGED <<mem, access, refresh, storeVars, serverVars>>

\* Every other answer that is not a success makes request throw, once its
\* body has been read.
\* (The mutant forgets the calls that are refused without a token.)
NotOkWithToken(r) ==
    /\ req[r].phase = "answered"
    /\ req[r].verdict # "ok"
    /\ Unauthorized(r) => req[r].retried
    /\ req' = [req EXCEPT ![r] = Failing(@)]
    /\ UNCHANGED <<mem, access, refresh, promise, storeVars, serverVars>>

NotOk(r) ==
    /\ req[r].phase = "answered"
    /\ req[r].verdict # "ok"
    /\ Unauthorized(r) => mem = NoToken \/ req[r].retried
    /\ req' = [req EXCEPT ![r] = Failing(@)]
    /\ UNCHANGED <<mem, access, refresh, promise, storeVars, serverVars>>

(***************************************************************************)
(* Service.RefreshToken deletes the refresh token it was given, stores a   *)
(* new one and issues an access token.  The storing or the issuing may     *)
(* fail after the deletion and the answer may be lost: the old token is    *)
(* gone and the tab has no new one (a pair that was stored and not         *)
(* delivered is nobody's, and not counted).  Any other outcome, and the    *)
(* missing route, is a refusal.                                            *)
(***************************************************************************)
ServerExchanges(r) ==
    LET old == req[r].pair
        new == Grants(old.user)
        Exchanged(tok) == req' = [req EXCEPT ![r].phase = "exchanged", ![r].tok = tok,
                                             ![r].pair = NoToken]
    IN  /\ req[r].phase = "exchange"
        /\ \/ /\ RefreshRouted /\ old \in sessions /\ issued < MaxGrants
              /\ sessions' = (sessions \ {old}) \cup {new}
              /\ live' = live \cup {new}
              /\ issued' = issued + 1
              /\ Exchanged(new)
           \/ /\ RefreshRouted /\ old \in sessions
              /\ sessions' = sessions \ {old}
              /\ Exchanged(NoToken)
              /\ UNCHANGED <<live, issued>>
           \/ Exchanged(NoToken) /\ UNCHANGED serverVars
        /\ UNCHANGED <<mem, access, refresh, promise, storeVars>>

(***************************************************************************)
(* The end of _doRefresh and of everyone who awaits it: a new pair is      *)
(* stored and the calls are repeated with the new access token; a refusal  *)
(* clears the access token and the calls fail with their first answer.     *)
(***************************************************************************)
Awaiting(r) == {r} \cup {s \in Reqs : req[s].phase = "waiting"}

Repeat(r, new) ==
    req' = [s \in Reqs |-> IF s \in Awaiting(r)
                           THEN [req[s] EXCEPT !.phase = "sent", !.retried = TRUE,
                                               !.verdict = "none", !.pair = NoToken,
                                               !.tok = IF req[s].kind \in {"me", "data"}
                                                       THEN new ELSE NoToken]
                           ELSE req[s]]

GiveUp(r) ==
    req' = [s \in Reqs |-> IF s \in Awaiting(r)
                           THEN Failing(req[s])
                           ELSE req[s]]

\* Mutant: the new refresh token is not stored.
ExchangeEndsHalf(r) ==
    /\ req[r].phase = "exchanged"
    /\ LET new == req[r].tok
       IN  /\ mem' = new /\ access' = new
           /\ IF new # NoToken THEN Repeat(r, new) ELSE GiveUp(r)
    /\ promise' = NoReq
    /\ UNCHANGED <<refresh, storeVars, serverVars>>

\* Mutant: after a refusal one of the requests that wait tries again.
ExchangeEndsInTurn(r) ==
    /\ req[r].phase = "exchanged"
    /\ LET new == req[r].tok
           next == {s \in Reqs : req[s].phase = "waiting" /\ new = NoToken /\ refresh # NoToken}
       IN  /\ mem' = new /\ access' = new
           /\ refresh' = IF new # NoToken THEN new ELSE refresh
           /\ IF next = {}
              THEN /\ IF new # NoToken THEN Repeat(r, new) ELSE GiveUp(r)
                   /\ promise' = NoReq
              ELSE \E s \in next :
                   /\ req' = [req EXCEPT ![r] = Failing(@), ![s].phase = "exchange", ![s].pair = refresh]
                   /\ promise' = s
    /\ UNCHANGED <<storeVars, serverVars>>

ExchangeEnds(r) ==
    /\ req[r].phase = "exchanged"
    /\ LET new == req[r].tok
       IN  IF new # NoToken
           THEN mem' = new /\ access' = new /\ refresh' = new /\ Repeat(r, new)
           ELSE mem' = NoToken /\ access' = NoToken /\ UNCHANGED refresh /\ GiveUp(r)
    /\ promise' = NoReq
    /\ UNCHANGED <<storeVars, serverVars>>

(***************************************************************************)
(* A call ends and its caller goes on.                                     *)
(***************************************************************************)
Ended(r) == req' = [req EXCEPT ![r] = Idle]

\* What setTokens and setAuthToken leave of an answer's tokens: the pair, or
\* for an answer without one "undefined" in storage and no token in memory.
Keep(pair) ==
    /\ mem' = pair
    /\ access' = IF pair = NoToken THEN Undefined ELSE pair
    /\ refresh' = IF pair = NoToken THEN Undefined ELSE pair

\* login and register store what the answer has and sign in; the page
\* navigates on.
\* Mutant: the store keeps the whole answer as the user.
SignedInWhole(r) ==
    /\ req[r].phase = "answered" /\ req[r].verdict = "ok"
    /\ req[r].kind \in {"login", "register"}
    /\ Keep(req[r].pair)
    /\ user' = req[r].pair
    /\ isLoggedIn' = TRUE /\ isLoading' = FALSE
    /\ route' = "app"
    /\ Ended(r)
    /\ UNCHANGED <<promise, serverVars>>

SignedIn(r) ==
    /\ req[r].phase = "answered" /\ req[r].verdict = "ok"
    /\ req[r].kind \in {"login", "register"}
    /\ Keep(req[r].pair)
    /\ user' = IF req[r].pair = NoToken THEN NoUser ELSE req[r].pair.user
    /\ isLoggedIn' = TRUE /\ isLoading' = FALSE
    /\ route' = "app"
    /\ Ended(r)
    /\ UNCHANGED <<promise, serverVars>>

\* A refused sign-in: the error is shown.
SignInFails(r) ==
    /\ req[r].phase = "failing" /\ req[r].kind \in {"login", "register"}
    /\ isLoading' = FALSE
    /\ Ended(r)
    /\ UNCHANGED <<mem, access, refresh, promise, user, isLoggedIn, route, serverVars>>

\* fetchUser has the user of the token the answered call carried.
UserFetched(r) ==
    /\ req[r].phase = "answered" /\ req[r].verdict = "ok" /\ req[r].kind = "me"
    /\ user' = req[r].tok.user
    /\ isLoggedIn' = TRUE /\ isLoading' = FALSE
    /\ Ended(r)
    /\ UNCHANGED <<mem, access, refresh, promise, route, serverVars>>

\* clearTokens, clearAuthToken and the store; the route guard sends the
\* user to the login page.
\* Mutant: the token in memory is kept.
SignOutOfStorage ==
    /\ access' = NoToken /\ refresh' = NoToken
    /\ user' = NoUser /\ isLoggedIn' = FALSE
    /\ route' = "login"
    /\ UNCHANGED mem

SignOut ==
    /\ mem' = NoToken /\ access' = NoToken /\ refresh' = NoToken
    /\ user' = NoUser /\ isLoggedIn' = FALSE
    /\ route' = "login"

FetchUserFails(r) ==
    /\ req[r].phase = "failing" /\ req[r].kind = "me"
    /\ SignOut
    /\ isLoading' = FALSE
    /\ Ended(r)
    /\ UNCHANGED <<promise, serverVars>>

RequestEnds(r) ==
    /\ req[r].kind = "data"
    /\ req[r].phase = "failing" \/ (req[r].phase = "answered" /\ req[r].verdict = "ok")
    /\ Ended(r)
    /\ UNCHANGED <<mem, access, refresh, promise, storeVars, serverVars>>

\* The sign-out button of the layout.
Logout ==
    /\ route = "app"
    /\ SignOut
    /\ UNCHANGED <<promise, req, isLoading, serverVars>>

\* Routing within the loaded page: ProtectedRoute lets only signed-in users
\* see a protected page.
Navigate ==
    /\ route' = IF route = "app" THEN "login" ELSE "app"
    /\ route' = "app" => isLoggedIn
    /\ UNCHANGED <<clientVars, user, isLoggedIn, isLoading, serverVars>>

\* The user reloads the page: memory is lost, storage stays.  An exchange
\* the server has already made is lost with the page.
Reload ==
    /\ mem' = access
    /\ promise' = NoReq
    /\ req' = [r \in Reqs |-> Idle]
    /\ user' = NoUser
    /\ isLoggedIn' = isAuthenticated
    /\ isLoading' = FALSE
    /\ route' = IF isAuthenticated THEN "app" ELSE "login"
    /\ UNCHANGED <<access, refresh, serverVars>>

\* An access token expires.
Expire ==
    /\ \E g \in live : live' = live \ {g}
    /\ UNCHANGED <<clientVars, storeVars, sessions, issued>>

RequestStep(r) ==
    \/ Rejected(r) \/ NotOk(r) \/ ExchangeEnds(r)
    \/ SignedIn(r) \/ SignInFails(r) \/ UserFetched(r) \/ FetchUserFails(r) \/ RequestEnds(r)

TabStep ==
    \/ \E r \in Reqs : \/ Login(r) \/ Register(r) \/ FetchUser(r) \/ Request(r)
                       \/ ServerAnswers(r) \/ ServerExchanges(r) \/ RequestStep(r)
    \/ Logout \/ Navigate \/ Expire

SessionNext == TabStep \/ Reload

SessionSpec == SessionInit /\ [][SessionNext]_sessionVars

(***************************************************************************)
(* Fairness: an answer or the failure of the connection reaches the page,  *)
(* and the event loop runs what awaits it.                                 *)
(***************************************************************************)
SessionFairness ==
    \A r \in Reqs : WF_sessionVars(ServerAnswers(r) \/ ServerExchanges(r) \/ RequestStep(r))

(***************************************************************************)
(* Properties.                                                             *)
(***************************************************************************)
SessionTypeOK ==
    /\ mem \in Token \cup {NoToken}
    /\ access \in Token \cup {NoToken}
    /\ refresh \in Token \cup {NoToken}
    /\ promise \in Reqs \cup {NoReq}
    /\ req \in [Reqs -> Req]
    /\ user \in Users \cup {NoUser}
    /\ isLoggedIn \in BOOLEAN /\ isLoading \in BOOLEAN
    /\ route \in {"login", "app"}
    /\ live \subseteq Grant /\ sessions \subseteq Grant
    /\ issued \in 0..MaxGrants

Exchanging(r) == req[r].phase \in {"exchange", "exchanged"}
Waiting == {r \in Reqs : req[r].phase = "waiting"}

\* Only one request exchanges the refresh token at a time, it is the one
\* whose promise the others share, and nobody waits for a refresh that is
\* not under way (refreshToken).
OneExchange ==
    /\ \A r \in Reqs : Exchanging(r) <=> promise = r
    /\ Waiting # {} => promise # NoReq

\* The two tokens in storage are of one grant, however sign-ins, sign-outs,
\* reloads and exchanges that were refused, lost or half made follow one
\* another: the client never pairs the access token of one grant with the
\* refresh token of another (setTokens, _doRefresh, clearToken).
StoredTogether == access = NoToken \/ access = refresh

\* What a tab keeps as its tokens are tokens the server granted.  False after
\* a registration, whose answer has none (handleRegister, store/auth.ts).
StoredIsGranted == {access, refresh} \subseteq Grant \cup {NoToken}

\* The token in memory is the stored one (setToken and clearToken write both,
\* request reads the stored one when memory has none).
MemoryIsStorage == mem = NoToken \/ mem = access

\* Every call of apiRequest ends, however refreshes, sign-outs and lost
\* answers interleave: no request waits for a refresh nobody makes.
EveryRequestEnds == \A r \in Reqs : []<>(req[r].phase = "idle")

\* The refreshes of the client keep what RefreshLatch promises.
Latch == INSTANCE RefreshLatch WITH holder <- promise, waiters <- Waiting
LatchSafe == Latch!LatchSpec
=============================================================================
