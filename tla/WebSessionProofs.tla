-------------------------- MODULE WebSessionProofs --------------------------
(***************************************************************************)
(* The safety properties of WebSession for any number of calls under way,  *)
(* users and grants, and the refinement of RefreshLatch.                   *)
(***************************************************************************)
EXTENDS WebSession, TLAPS

\* A call that exchanges carries the token it presents, an answered login the
\* pair it was granted, a registration none, and an answered call of fetchUser
\* the token it was made with, which the server accepted.
GoodReq ==
    {c \in Req :
        /\ c.phase = "exchange" => c.pair \in Token
        /\ c.phase = "sent" => c.pair = NoToken
        /\ c.phase = "answered" => c.pair \in Grant \cup {NoToken}
        /\ c.phase = "answered" /\ c.verdict = "ok" /\ c.kind = "me" => c.tok \in Grant}

TypeInv == SessionTypeOK /\ req \in [Reqs -> GoodReq]

SessionInv == TypeInv /\ OneExchange /\ MemoryIsStorage /\ StoredTogether

(***************************************************************************)
(* Types.                                                                  *)
(***************************************************************************)
LEMMA IdleIsGood == Idle \in GoodReq
BY DEF Idle, GoodReq, Req, Kinds, Phases, Verdicts

LEMMA InitTypeInv == SessionInit => TypeInv
<1> SUFFICES ASSUME SessionInit PROVE TypeInv
  OBVIOUS
<1>1. PICK g \in Grant : /\ g.n = 1 /\ refresh \in {NoToken, g} /\ access \in {NoToken, refresh}
                         /\ sessions \in SUBSET ({g} \cap {refresh})
                         /\ live \in SUBSET ({g} \cap {access})
  BY DEF SessionInit
<1>2. g.n \in 1..MaxGrants
  BY <1>1 DEF Grant
<1>3. issued \in 0..MaxGrants
  BY <1>1, <1>2, MaxGrantsAssumption DEF SessionInit
<1>4. Idle \in Req
  BY IdleIsGood DEF GoodReq
<1>5. isLoggedIn \in BOOLEAN
  BY DEF SessionInit, isAuthenticated
<1> QED BY <1>1, <1>3, <1>4, <1>5, IdleIsGood DEF SessionInit, TypeInv, SessionTypeOK, Token

\* What happens to the request r when only its call is made or goes on.
LEMMA OneReq ==
    ASSUME TypeInv, NEW r \in Reqs, NEW c \in GoodReq, req' = [req EXCEPT ![r] = c]
    PROVE  req' \in [Reqs -> Req] /\ req' \in [Reqs -> GoodReq]
BY DEF TypeInv, GoodReq

LEMMA FailingIsGood == ASSUME NEW c \in GoodReq PROVE Failing(c) \in GoodReq
BY IdleIsGood DEF Failing, GoodReq, Req, Phases

LEMMA SendTyped ==
    ASSUME TypeInv, NEW r \in Reqs, NEW kind \in Kinds, Send(r, kind)
    PROVE  mem' \in Token \cup {NoToken} /\ req' \in [Reqs -> Req] /\ req' \in [Reqs -> GoodReq]
<1> DEFINE token == IF mem # NoToken THEN mem ELSE access
           carried == IF kind \in {"me", "data"} THEN token ELSE NoToken
           c == [Idle EXCEPT !.kind = kind, !.phase = "sent", !.tok = carried]
<1>1. token \in Token \cup {NoToken} /\ carried \in Token \cup {NoToken}
  BY DEF TypeInv, SessionTypeOK
<1>2. mem' = token /\ req' = [req EXCEPT ![r] = c]
  BY DEF Send
<1>3. c \in GoodReq
  <2> HIDE DEF carried
  <2> QED BY <1>1 DEF Idle, GoodReq, Req, Kinds, Phases, Verdicts
<1> QED BY <1>1, <1>2, <1>3, OneReq

LEMMA GrantsTyped ==
    ASSUME TypeInv, issued < MaxGrants, NEW u \in Users
    PROVE  Grants(u) \in Grant /\ issued + 1 \in 0..MaxGrants
BY MaxGrantsAssumption DEF TypeInv, SessionTypeOK, Grants, Grant

LEMMA AnswersTyped ==
    ASSUME TypeInv, NEW r \in Reqs, ServerAnswers(r)
    PROVE  TypeInv'
<1> DEFINE Answered(v) == [req[r] EXCEPT !.phase = "answered", !.verdict = v,
                                         !.tok = IF v = "ok" /\ req[r].kind = "me"
                                                 THEN @ ELSE NoToken]
<1>1. req[r] \in Req /\ req[r] \in GoodReq
  BY DEF TypeInv, GoodReq
<1>2. UNCHANGED <<mem, access, refresh, promise, user, isLoggedIn, isLoading, route>> /\ req[r].phase = "sent"
  BY DEF ServerAnswers, storeVars
<1>3. CASE /\ req[r].kind = "login" /\ issued < MaxGrants
           /\ \E u \in Users :
                 /\ req' = [req EXCEPT ![r] = [Answered("ok") EXCEPT !.pair = Grants(u)]]
                 /\ live' = live \cup {Grants(u)}
                 /\ sessions' = sessions \cup {Grants(u)}
           /\ issued' = issued + 1
  <2>1. PICK u \in Users :
                 /\ req' = [req EXCEPT ![r] = [Answered("ok") EXCEPT !.pair = Grants(u)]]
                 /\ live' = live \cup {Grants(u)}
                 /\ sessions' = sessions \cup {Grants(u)}
    BY <1>3
  <2>2. Grants(u) \in Grant /\ issued + 1 \in 0..MaxGrants
    BY <1>3, GrantsTyped
  <2>3. [Answered("ok") EXCEPT !.pair = Grants(u)] \in GoodReq
    BY <1>1, <1>2, <1>3, <2>2 DEF GoodReq, Req, Phases, Verdicts, Token
  <2>4. req' \in [Reqs -> Req] /\ req' \in [Reqs -> GoodReq]
    BY <2>1, <2>3, OneReq
  <2> QED BY <1>2, <1>3, <2>1, <2>2, <2>4 DEF TypeInv, SessionTypeOK
<1>4. CASE req' = [req EXCEPT ![r] = Answered("unauthorized")] /\ UNCHANGED serverVars
  <2>1. Answered("unauthorized") \in GoodReq
    BY <1>1, <1>2 DEF GoodReq, Req, Phases, Verdicts
  <2>2. req' \in [Reqs -> Req] /\ req' \in [Reqs -> GoodReq]
    BY <1>4, <2>1, OneReq
  <2> QED BY <1>2, <1>4, <2>2 DEF TypeInv, SessionTypeOK, serverVars
<1>5. CASE /\ req[r].kind = "me" => req[r].tok \in live
           /\ req' = [req EXCEPT ![r] = Answered("ok")] /\ UNCHANGED serverVars
  <2>1. req[r].kind = "me" => req[r].tok \in Grant
    BY <1>5 DEF TypeInv, SessionTypeOK
  <2>2. Answered("ok") \in GoodReq
    BY <1>1, <1>2, <2>1 DEF GoodReq, Req, Phases, Verdicts
  <2>3. req' \in [Reqs -> Req] /\ req' \in [Reqs -> GoodReq]
    BY <1>5, <2>2, OneReq
  <2> QED BY <1>2, <1>5, <2>3 DEF TypeInv, SessionTypeOK, serverVars
<1>6. CASE req' = [req EXCEPT ![r] = Answered("error")] /\ UNCHANGED serverVars
  <2>1. Answered("error") \in GoodReq
    BY <1>1, <1>2 DEF GoodReq, Req, Phases, Verdicts
  <2>2. req' \in [Reqs -> Req] /\ req' \in [Reqs -> GoodReq]
    BY <1>6, <2>1, OneReq
  <2> QED BY <1>2, <1>6, <2>2 DEF TypeInv, SessionTypeOK, serverVars
<1> QED BY <1>3, <1>4, <1>5, <1>6 DEF ServerAnswers

LEMMA ExchangesTyped ==
    ASSUME TypeInv, NEW r \in Reqs, ServerExchanges(r)
    PROVE  TypeInv'
<1> DEFINE old == req[r].pair
           new == Grants(old.user)
           To(t) == [req[r] EXCEPT !.phase = "exchanged", !.tok = t, !.pair = NoToken]
<1>1. req[r] \in Req /\ req[r] \in GoodReq
  BY DEF TypeInv, GoodReq
<1>2. UNCHANGED <<mem, access, refresh, promise, user, isLoggedIn, isLoading, route>>
  BY DEF ServerExchanges, storeVars
<1>3. ASSUME NEW t \in Grant \cup {NoToken},
             req' = [req EXCEPT ![r].phase = "exchanged", ![r].tok = t, ![r].pair = NoToken]
      PROVE  req' \in [Reqs -> Req] /\ req' \in [Reqs -> GoodReq]
  <2>1. To(t) \in GoodReq
    BY <1>1 DEF GoodReq, Req, Phases, Token
  <2>2. req' = [req EXCEPT ![r] = To(t)]
    BY <1>3 DEF TypeInv
  <2> HIDE DEF To
  <2> QED BY <2>1, <2>2, OneReq
<1>4. CASE /\ old \in sessions /\ issued < MaxGrants
           /\ sessions' = (sessions \ {old}) \cup {new}
           /\ live' = live \cup {new}
           /\ issued' = issued + 1
           /\ req' = [req EXCEPT ![r].phase = "exchanged", ![r].tok = new, ![r].pair = NoToken]
  <2>1. old.user \in Users
    BY <1>4 DEF TypeInv, SessionTypeOK, Grant
  <2>2. new \in Grant /\ issued + 1 \in 0..MaxGrants
    BY <1>4, <2>1, GrantsTyped
  <2>3. req' \in [Reqs -> Req] /\ req' \in [Reqs -> GoodReq]
    BY <1>3, <1>4, <2>2
  <2> QED BY <1>2, <1>4, <2>2, <2>3 DEF TypeInv, SessionTypeOK
<1>5. CASE /\ sessions' \in {sessions, sessions \ {old}} /\ UNCHANGED <<live, issued>>
           /\ req' = [req EXCEPT ![r].phase = "exchanged", ![r].tok = NoToken, ![r].pair = NoToken]
  BY <1>2, <1>3, <1>5 DEF TypeInv, SessionTypeOK
<1> QED BY <1>4, <1>5 DEF ServerExchanges, serverVars

LEMMA EndedTyped ==
    ASSUME TypeInv, NEW r \in Reqs, Ended(r)
    PROVE  req' \in [Reqs -> Req] /\ req' \in [Reqs -> GoodReq]
BY OneReq, IdleIsGood DEF Ended

LEMMA RejectedTyped ==
    ASSUME TypeInv, NEW r \in Reqs, Rejected(r)
    PROVE  TypeInv'
<1> DEFINE waits == [req[r] EXCEPT !.phase = "waiting"]
           starts == [req[r] EXCEPT !.phase = "exchange", !.pair = refresh]
<1>1. req[r] \in Req /\ req[r] \in GoodReq
  BY DEF TypeInv, GoodReq
<1>2. UNCHANGED <<mem, access, refresh, user, isLoggedIn, isLoading, route, live, sessions, issued>>
  BY DEF Rejected, storeVars, serverVars
<1>3. CASE req' = [req EXCEPT ![r].phase = "waiting"] /\ UNCHANGED promise
  <2>1. waits \in GoodReq
    BY <1>1 DEF GoodReq, Req, Phases
  <2>2. req' = [req EXCEPT ![r] = waits]
    BY <1>3 DEF TypeInv
  <2>3. req' \in [Reqs -> Req] /\ req' \in [Reqs -> GoodReq]
    BY <2>1, <2>2, OneReq
  <2> QED BY <1>2, <1>3, <2>3 DEF TypeInv, SessionTypeOK
<1>4. CASE req' = [req EXCEPT ![r] = Failing(req[r])] /\ UNCHANGED promise
  <2>1. req' \in [Reqs -> Req] /\ req' \in [Reqs -> GoodReq]
    BY <1>1, <1>4, FailingIsGood, OneReq
  <2> QED BY <1>2, <1>4, <2>1 DEF TypeInv, SessionTypeOK
<1>5. CASE /\ refresh # NoToken
           /\ req' = [req EXCEPT ![r].phase = "exchange", ![r].pair = refresh]
           /\ promise' = r
  <2>1. refresh \in Token
    BY <1>5 DEF TypeInv, SessionTypeOK
  <2>2. starts \in GoodReq
    BY <1>1, <2>1 DEF GoodReq, Req, Phases
  <2>3. req' = [req EXCEPT ![r] = starts]
    BY <1>5 DEF TypeInv
  <2>4. req' \in [Reqs -> Req] /\ req' \in [Reqs -> GoodReq]
    BY <2>2, <2>3, OneReq
  <2> QED BY <1>2, <1>5, <2>4 DEF TypeInv, SessionTypeOK
<1> QED BY <1>3, <1>4, <1>5 DEF Rejected, refreshToken

LEMMA NotOkTyped ==
    ASSUME TypeInv, NEW r \in Reqs, NotOk(r)
    PROVE  TypeInv'
<1>1. req[r] \in GoodReq
  BY DEF TypeInv
<1>2. req' \in [Reqs -> Req] /\ req' \in [Reqs -> GoodReq]
  BY <1>1, FailingIsGood, OneReq DEF NotOk
<1> QED BY <1>2 DEF NotOk, TypeInv, SessionTypeOK, storeVars, serverVars

LEMMA ExchangeEndsTyped ==
    ASSUME TypeInv, NEW r \in Reqs, ExchangeEnds(r)
    PROVE  TypeInv'
<1> DEFINE new == req[r].tok
<1>1. \A s \in Reqs : req[s] \in Req /\ req[s] \in GoodReq
  BY DEF TypeInv, GoodReq
<1>2. new \in Token \cup {NoToken}
  BY <1>1 DEF Req
<1>3. UNCHANGED <<user, isLoggedIn, isLoading, route, live, sessions, issued>> /\ promise' = NoReq
  BY DEF ExchangeEnds, storeVars, serverVars
<1>4. CASE new # NoToken
  <2>1. mem' = new /\ access' = new /\ refresh' = new /\ Repeat(r, new)
    BY <1>4 DEF ExchangeEnds
  <2>2. ASSUME NEW s \in Reqs,
               NEW t \in Token \cup {NoToken}
        PROVE  [req[s] EXCEPT !.phase = "sent", !.retried = TRUE, !.verdict = "none",
                              !.pair = NoToken, !.tok = t] \in GoodReq
    BY <1>1 DEF GoodReq, Req, Phases, Verdicts
  <2>3. ASSUME NEW s \in Reqs PROVE req'[s] \in GoodReq
    <3> DEFINE t == IF req[s].kind \in {"me", "data"} THEN new ELSE NoToken
    <3>1. t \in Token \cup {NoToken}
      BY <1>2
    <3>2. req'[s] \in {req[s], [req[s] EXCEPT !.phase = "sent", !.retried = TRUE,
                                !.verdict = "none", !.pair = NoToken, !.tok = t]}
      BY <2>1 DEF Repeat
    <3>3. [req[s] EXCEPT !.phase = "sent", !.retried = TRUE, !.verdict = "none",
                         !.pair = NoToken, !.tok = t] \in GoodReq
      <4> HIDE DEF t
      <4> QED BY <2>2, <3>1
    <3> HIDE DEF t
    <3> QED BY <1>1, <3>2, <3>3
  <2>4. req' \in [Reqs -> GoodReq]
    BY <2>1, <2>3 DEF Repeat
  <2>5. req' \in [Reqs -> Req]
    BY <2>4 DEF GoodReq
  <2> QED BY <1>2, <1>3, <2>1, <2>4, <2>5 DEF TypeInv, SessionTypeOK
<1>5. CASE new = NoToken
  <2>1. mem' = NoToken /\ access' = NoToken /\ refresh' = refresh /\ GiveUp(r)
    BY <1>5 DEF ExchangeEnds
  <2>2. \A s \in Reqs : Failing(req[s]) \in GoodReq
    BY <1>1, FailingIsGood
  <2>3. req' \in [Reqs -> GoodReq]
    BY <1>1, <2>1, <2>2 DEF GiveUp
  <2>4. req' \in [Reqs -> Req]
    BY <2>3 DEF GoodReq
  <2> QED BY <1>3, <2>1, <2>3, <2>4 DEF TypeInv, SessionTypeOK
<1> QED BY <1>4, <1>5

LEMMA EndsTyped ==
    ASSUME TypeInv, NEW r \in Reqs,
           SignedIn(r) \/ SignInFails(r) \/ UserFetched(r) \/ FetchUserFails(r) \/ RequestEnds(r)
    PROVE  TypeInv'
<1>1. Ended(r)
  BY DEF SignedIn, SignInFails, UserFetched, FetchUserFails, RequestEnds
<1>2. req' \in [Reqs -> Req] /\ req' \in [Reqs -> GoodReq]
  BY <1>1, EndedTyped
<1>3. req[r] \in GoodReq
  BY DEF TypeInv
<1>4. CASE SignedIn(r)
  <2>1. req[r].pair \in Grant \cup {NoToken}
    BY <1>3, <1>4 DEF SignedIn, GoodReq
  <2>2. req[r].pair # NoToken => req[r].pair.user \in Users
    BY <2>1 DEF Grant
  <2> QED BY <1>2, <1>4, <2>1, <2>2 DEF SignedIn, Keep, TypeInv, SessionTypeOK, Token, serverVars
<1>5. CASE UserFetched(r)
  <2>1. req[r].tok \in Grant
    BY <1>3, <1>5 DEF UserFetched, GoodReq
  <2>2. req[r].tok.user \in Users
    BY <2>1 DEF Grant
  <2> QED BY <1>2, <1>5, <2>2 DEF UserFetched, TypeInv, SessionTypeOK, serverVars
<1>6. CASE SignInFails(r)
  BY <1>2, <1>6 DEF SignInFails, TypeInv, SessionTypeOK, serverVars
<1>7. CASE FetchUserFails(r)
  BY <1>2, <1>7 DEF FetchUserFails, SignOut, TypeInv, SessionTypeOK, serverVars
<1>8. CASE RequestEnds(r)
  BY <1>2, <1>8 DEF RequestEnds, TypeInv, SessionTypeOK, storeVars, serverVars
<1> QED BY <1>4, <1>5, <1>6, <1>7, <1>8

LEMMA CallsTyped ==
    ASSUME TypeInv, NEW r \in Reqs, Login(r) \/ Register(r) \/ FetchUser(r) \/ Request(r)
    PROVE  TypeInv'
<1>1. PICK kind \in Kinds : Send(r, kind)
  BY DEF Login, Register, FetchUser, Request, Kinds
<1>2. mem' \in Token \cup {NoToken} /\ req' \in [Reqs -> Req] /\ req' \in [Reqs -> GoodReq]
  BY <1>1, SendTyped
<1> QED BY <1>2 DEF Login, Register, FetchUser, Request, TypeInv, SessionTypeOK, storeVars, serverVars

LEMMA ReloadTyped == ASSUME TypeInv, Reload PROVE TypeInv'
<1>1. Idle \in Req /\ Idle \in GoodReq
  BY IdleIsGood DEF GoodReq
<1>2. req' \in [Reqs -> Req] /\ req' \in [Reqs -> GoodReq]
  BY <1>1 DEF Reload
<1>3. isLoggedIn' \in BOOLEAN
  BY DEF Reload, isAuthenticated
<1> QED BY <1>2, <1>3 DEF Reload, TypeInv, SessionTypeOK, serverVars

LEMMA TabTyped == ASSUME TypeInv, Logout \/ Navigate \/ Expire PROVE TypeInv'
<1>1. CASE Logout
  BY <1>1 DEF Logout, SignOut, TypeInv, SessionTypeOK, serverVars
<1>2. CASE Navigate
  BY <1>2 DEF Navigate, TypeInv, SessionTypeOK, clientVars, serverVars
<1>3. CASE Expire
  BY <1>3 DEF Expire, TypeInv, SessionTypeOK, clientVars, storeVars
<1> QED BY <1>1, <1>2, <1>3

LEMMA NextTypeInv == ASSUME TypeInv, [SessionNext]_sessionVars PROVE TypeInv'
<1>1. CASE UNCHANGED sessionVars
  BY <1>1 DEF sessionVars, clientVars, storeVars, serverVars, TypeInv, SessionTypeOK
<1>2. CASE \E r \in Reqs : Login(r) \/ Register(r) \/ FetchUser(r) \/ Request(r)
  BY <1>2, CallsTyped
<1>3. CASE \E r \in Reqs : ServerAnswers(r) \/ ServerExchanges(r)
  BY <1>3, AnswersTyped, ExchangesTyped
<1>4. CASE \E r \in Reqs : RequestStep(r)
  BY <1>4, RejectedTyped, NotOkTyped, ExchangeEndsTyped, EndsTyped DEF RequestStep
<1>5. CASE Logout \/ Navigate \/ Expire
  BY <1>5, TabTyped
<1>6. CASE Reload
  BY <1>6, ReloadTyped
<1> QED BY <1>1, <1>2, <1>3, <1>4, <1>5, <1>6 DEF SessionNext, TabStep

(***************************************************************************)
(* The shared refresh.  A step keeps OneExchange and is a step of the      *)
(* latch, or leaves the holder and the waiting requests alone.             *)
(***************************************************************************)
LatchStep == OneExchange' /\ [Latch!LatchNext]_(Latch!latchVars)

\* A call that goes on without entering or leaving a refresh.
LEMMA Aside ==
    ASSUME TypeInv, OneExchange, NEW r \in Reqs, NEW c \in GoodReq,
           req' = [req EXCEPT ![r] = c], promise' = promise,
           c.phase \in {"exchange", "exchanged"} <=> Exchanging(r),
           c.phase # "waiting", req[r].phase # "waiting"
    PROVE  LatchStep
<1>1. \A s \in Reqs : (req'[s].phase = "waiting") = (req[s].phase = "waiting")
  BY DEF TypeInv
<1>2. Waiting' = Waiting
  BY <1>1 DEF Waiting
<1>3. \A s \in Reqs : Exchanging(s)' <=> Exchanging(s)
  BY DEF TypeInv, Exchanging
<1>4. OneExchange'
  BY <1>2, <1>3 DEF OneExchange
<1> QED BY <1>2, <1>4 DEF LatchStep, Latch!latchVars

LEMMA NothingMoves ==
    ASSUME OneExchange, req' = req, promise' = promise
    PROVE  LatchStep
<1>1. Waiting' = Waiting
  BY DEF Waiting
<1>2. OneExchange'
  BY <1>1 DEF OneExchange, Exchanging
<1> QED BY <1>1, <1>2 DEF LatchStep, Latch!latchVars

LEMMA CallsAside ==
    ASSUME TypeInv, OneExchange, NEW r \in Reqs,
           Login(r) \/ Register(r) \/ FetchUser(r) \/ Request(r)
    PROVE  LatchStep
<1>1. PICK kind \in Kinds : Send(r, kind) /\ promise' = promise
  BY DEF Login, Register, FetchUser, Request, Kinds
<1>2. req' \in [Reqs -> GoodReq]
  BY <1>1, SendTyped
<1>3. req'[r].phase = "sent" /\ req' = [req EXCEPT ![r] = req'[r]] /\ req[r].phase = "idle"
  BY <1>1 DEF Send, TypeInv, Idle
<1> QED BY <1>1, <1>2, <1>3, Aside DEF Exchanging

LEMMA ServerAside ==
    ASSUME TypeInv, OneExchange, NEW r \in Reqs, ServerAnswers(r) \/ ServerExchanges(r)
    PROVE  LatchStep
<1>1. req' \in [Reqs -> GoodReq]
  BY AnswersTyped, ExchangesTyped DEF TypeInv
<1>2. req[r] \in Req
  BY DEF TypeInv, GoodReq
<1>3. CASE ServerAnswers(r)
  <2> DEFINE Answered(v) == [req[r] EXCEPT !.phase = "answered", !.verdict = v,
                                           !.tok = IF v = "ok" /\ req[r].kind = "me"
                                                 THEN @ ELSE NoToken]
  <2>3. \A v : Answered(v).phase = "answered"
    BY <1>2 DEF Req
  <2>4. \A u : [Answered("ok") EXCEPT !.pair = Grants(u)].phase = "answered"
    BY <1>2 DEF Req
  <2>5. \E c : c.phase = "answered" /\ req' = [req EXCEPT ![r] = c]
    <3>1. \/ \E u \in Users : req' = [req EXCEPT ![r] = [Answered("ok") EXCEPT !.pair = Grants(u)]]
          \/ \E v \in Verdicts : req' = [req EXCEPT ![r] = Answered(v)]
      BY <1>3 DEF ServerAnswers, Verdicts
    <3> HIDE DEF Answered
    <3> QED BY <2>3, <2>4, <3>1
  <2>1. req'[r].phase = "answered" /\ req' = [req EXCEPT ![r] = req'[r]]
    <3>1. PICK c : c.phase = "answered" /\ req' = [req EXCEPT ![r] = c]
      BY <2>5
    <3> QED BY <3>1 DEF TypeInv
  <2>2. req[r].phase = "sent" /\ promise' = promise
    BY <1>3 DEF ServerAnswers
  <2> QED BY <1>1, <2>1, <2>2, Aside DEF Exchanging
<1>4. CASE ServerExchanges(r)
  <2>1. req'[r].phase = "exchanged" /\ req' = [req EXCEPT ![r] = req'[r]]
    BY <1>2, <1>4 DEF ServerExchanges, TypeInv, Req
  <2>2. req[r].phase = "exchange" /\ promise' = promise
    BY <1>4 DEF ServerExchanges
  <2> QED BY <1>1, <2>1, <2>2, Aside DEF Exchanging
<1> QED BY <1>3, <1>4

LEMMA EndsAside ==
    ASSUME TypeInv, OneExchange, NEW r \in Reqs,
           SignedIn(r) \/ SignInFails(r) \/ UserFetched(r) \/ FetchUserFails(r) \/ RequestEnds(r)
    PROVE  LatchStep
<1>1. req' = [req EXCEPT ![r] = Idle] /\ promise' = promise
  BY DEF SignedIn, SignInFails, UserFetched, FetchUserFails, RequestEnds, Ended
<1>2. req[r].phase \in {"answered", "failing"}
  BY DEF SignedIn, SignInFails, UserFetched, FetchUserFails, RequestEnds
<1>3. Idle.phase = "idle"
  BY DEF Idle
<1> QED BY <1>1, <1>2, <1>3, IdleIsGood, Aside DEF Exchanging

LEMMA FailsAside ==
    ASSUME TypeInv, OneExchange, NEW r \in Reqs, req[r].phase = "answered",
           req' = [req EXCEPT ![r] = Failing(req[r])], promise' = promise
    PROVE  LatchStep
<1>1. req[r] \in Req /\ req[r] \in GoodReq
  BY DEF TypeInv, GoodReq
<1>2. Failing(req[r]).phase = "failing"
  BY DEF Failing, Idle
<1> QED BY <1>1, <1>2, FailingIsGood, Aside DEF Exchanging

\* The first request that meets a 401 acquires the latch, the others join.
LEMMA RejectedLatch ==
    ASSUME TypeInv, OneExchange, NEW r \in Reqs, Rejected(r)
    PROVE  LatchStep
<1>1. req[r] \in Req /\ req[r].phase = "answered"
  BY DEF TypeInv, GoodReq, Rejected
<1>2. promise # r /\ r \notin Waiting
  BY <1>1 DEF OneExchange, Exchanging, Waiting
<1>3. CASE promise # NoReq /\ req' = [req EXCEPT ![r].phase = "waiting"] /\ UNCHANGED promise
  <2>1. \A s \in Reqs : req'[s].phase = IF s = r THEN "waiting" ELSE req[s].phase
    BY <1>1, <1>3 DEF TypeInv, Req
  <2>2. Waiting' = Waiting \cup {r}
    BY <2>1 DEF Waiting
  <2>3. \A s \in Reqs : Exchanging(s)' <=> Exchanging(s)
    BY <1>1, <2>1 DEF Exchanging
  <2>4. OneExchange'
    BY <1>3, <2>2, <2>3 DEF OneExchange
  <2>5. Latch!Join(r)
    BY <1>2, <1>3, <2>2 DEF Latch!Join
  <2> QED BY <2>4, <2>5 DEF LatchStep, Latch!LatchNext
<1>4. CASE req' = [req EXCEPT ![r] = Failing(req[r])] /\ UNCHANGED promise
  BY <1>1, <1>4, FailsAside
<1>5. CASE /\ promise = NoReq
           /\ req' = [req EXCEPT ![r].phase = "exchange", ![r].pair = refresh]
           /\ promise' = r
  <2>1. \A s \in Reqs : req'[s].phase = IF s = r THEN "exchange" ELSE req[s].phase
    BY <1>1, <1>5 DEF TypeInv, Req
  <2>2. Waiting' = Waiting
    BY <1>1, <2>1 DEF Waiting
  <2>3. \A s \in Reqs : ~Exchanging(s)
    BY <1>5, NoReqAssumption DEF OneExchange
  <2>4. \A s \in Reqs : Exchanging(s)' <=> s = r
    BY <2>1, <2>3 DEF Exchanging
  <2>5. OneExchange'
    BY <1>5, <2>4, NoReqAssumption DEF OneExchange
  <2>6. Latch!Acquire(r)
    BY <1>2, <1>5, <2>2 DEF Latch!Acquire
  <2> QED BY <2>5, <2>6 DEF LatchStep, Latch!LatchNext
<1> QED BY <1>3, <1>4, <1>5 DEF Rejected, refreshToken

\* The end of the exchange releases the latch and everyone who waits.
LEMMA ExchangeEndsLatch ==
    ASSUME TypeInv, OneExchange, NEW r \in Reqs, ExchangeEnds(r)
    PROVE  LatchStep
<1>1. promise = r /\ promise' = NoReq /\ req[r].phase = "exchanged"
  BY DEF ExchangeEnds, OneExchange, Exchanging
<1>2. \A s \in Reqs : req[s] \in Req
  BY DEF TypeInv, GoodReq
<1>3. \A s \in Reqs : /\ s \in Awaiting(r) => req'[s].phase \in {"sent", "failing"}
                      /\ s \notin Awaiting(r) => req'[s] = req[s]
  <2>1. CASE req[r].tok # NoToken
    <3>1. Repeat(r, req[r].tok)
      BY <2>1 DEF ExchangeEnds
    <3> QED BY <1>2, <3>1 DEF Repeat, Req
  <2>2. CASE req[r].tok = NoToken
    <3>1. GiveUp(r)
      BY <2>2 DEF ExchangeEnds
    <3> QED BY <1>2, <3>1 DEF GiveUp, Failing, Idle
  <2> QED BY <2>1, <2>2
<1>4. \A s \in Reqs : req'[s].phase # "waiting"
  BY <1>3 DEF Awaiting
<1>5. Waiting' = {}
  BY <1>4 DEF Waiting
<1>6. \A s \in Reqs : ~Exchanging(s)'
  <2> SUFFICES ASSUME NEW s \in Reqs PROVE ~Exchanging(s)'
    OBVIOUS
  <2>1. CASE s \in Awaiting(r)
    BY <1>3, <2>1 DEF Exchanging
  <2>2. CASE s \notin Awaiting(r)
    <3>1. s # r
      BY <2>2 DEF Awaiting
    <3>2. ~Exchanging(s)
      BY <1>1, <3>1 DEF OneExchange
    <3> QED BY <1>3, <2>2, <3>2 DEF Exchanging
  <2> QED BY <2>1, <2>2
<1>7. OneExchange'
  BY <1>1, <1>5, <1>6, NoReqAssumption DEF OneExchange
<1>8. Latch!Release
  BY <1>1, <1>5, NoReqAssumption DEF Latch!Release
<1> QED BY <1>7, <1>8 DEF LatchStep, Latch!LatchNext

\* Reloading the page releases the latch, if somebody holds it.
LEMMA ReloadLatch ==
    ASSUME TypeInv, OneExchange, Reload
    PROVE  LatchStep
<1>1. promise' = NoReq /\ \A s \in Reqs : req'[s].phase = "idle"
  BY DEF Reload, Idle
<1>2. Waiting' = {}
  BY <1>1 DEF Waiting
<1>3. OneExchange'
  BY <1>1, <1>2, NoReqAssumption DEF OneExchange, Exchanging
<1>4. CASE promise # NoReq
  <2>1. Latch!Release
    BY <1>1, <1>2, <1>4 DEF Latch!Release
  <2> QED BY <1>3, <2>1 DEF LatchStep, Latch!LatchNext
<1>5. CASE promise = NoReq
  <2>1. Waiting = {}
    BY <1>5 DEF OneExchange
  <2> QED BY <1>1, <1>2, <1>3, <1>5, <2>1 DEF LatchStep, Latch!latchVars
<1> QED BY <1>4, <1>5

LEMMA NextLatch ==
    ASSUME TypeInv, OneExchange, [SessionNext]_sessionVars
    PROVE  LatchStep
<1>1. CASE UNCHANGED sessionVars
  BY <1>1, NothingMoves DEF sessionVars, clientVars
<1>2. CASE \E r \in Reqs : Login(r) \/ Register(r) \/ FetchUser(r) \/ Request(r)
  BY <1>2, CallsAside
<1>3. CASE \E r \in Reqs : ServerAnswers(r) \/ ServerExchanges(r)
  BY <1>3, ServerAside
<1>4. ASSUME NEW r \in Reqs, NotOk(r) PROVE LatchStep
  BY <1>4, FailsAside DEF NotOk
<1>5. CASE \E r \in Reqs : RequestStep(r)
  BY <1>4, <1>5, RejectedLatch, ExchangeEndsLatch, EndsAside DEF RequestStep
<1>6. CASE Logout \/ Navigate \/ Expire
  BY <1>6, NothingMoves DEF Logout, Navigate, Expire, clientVars
<1>7. CASE Reload
  BY <1>7, ReloadLatch
<1> QED BY <1>1, <1>2, <1>3, <1>5, <1>6, <1>7 DEF SessionNext, TabStep

LEMMA NextMemory ==
    ASSUME TypeInv, MemoryIsStorage, [SessionNext]_sessionVars
    PROVE  MemoryIsStorage'
<1>1. CASE UNCHANGED <<mem, access>>
  BY <1>1 DEF MemoryIsStorage
<1>2. CASE \E r \in Reqs : Login(r) \/ Register(r) \/ FetchUser(r) \/ Request(r)
  BY <1>2 DEF Login, Register, FetchUser, Request, Send, MemoryIsStorage
<1>3. CASE \E r \in Reqs : ServerAnswers(r) \/ ServerExchanges(r)
  BY <1>1, <1>3 DEF ServerAnswers, ServerExchanges
<1>4. CASE \E r \in Reqs : RequestStep(r)
  <2> PICK r \in Reqs : RequestStep(r)
    BY <1>4
  <2>1. CASE Rejected(r) \/ NotOk(r) \/ SignInFails(r) \/ UserFetched(r) \/ RequestEnds(r)
    BY <1>1, <2>1 DEF Rejected, NotOk, SignInFails, UserFetched, RequestEnds
  <2>2. CASE ExchangeEnds(r)
    BY <2>2 DEF ExchangeEnds, MemoryIsStorage
  <2>3. CASE SignedIn(r)
    BY <2>3 DEF SignedIn, Keep, MemoryIsStorage
  <2>4. CASE FetchUserFails(r)
    BY <2>4 DEF FetchUserFails, SignOut, MemoryIsStorage
  <2> QED BY <2>1, <2>2, <2>3, <2>4 DEF RequestStep
<1>5. CASE Logout \/ Navigate \/ Expire \/ Reload
  BY <1>5, MemoryIsStorage DEF Logout, SignOut, Navigate, Expire, Reload, clientVars, MemoryIsStorage
<1>6. CASE UNCHANGED sessionVars
  BY <1>1, <1>6 DEF sessionVars, clientVars
<1> QED BY <1>2, <1>3, <1>4, <1>5, <1>6 DEF SessionNext, TabStep

\* The two stored tokens are written and removed together, but for the access
\* token that a refused exchange removes alone.
LEMMA NextStored ==
    ASSUME TypeInv, StoredTogether, [SessionNext]_sessionVars
    PROVE  StoredTogether'
<1>1. CASE UNCHANGED <<access, refresh>>
  BY <1>1 DEF StoredTogether
<1>2. CASE \E r \in Reqs : Login(r) \/ Register(r) \/ FetchUser(r) \/ Request(r)
  BY <1>1, <1>2 DEF Login, Register, FetchUser, Request
<1>3. CASE \E r \in Reqs : ServerAnswers(r) \/ ServerExchanges(r)
  BY <1>1, <1>3 DEF ServerAnswers, ServerExchanges
<1>4. CASE \E r \in Reqs : RequestStep(r)
  <2> PICK r \in Reqs : RequestStep(r)
    BY <1>4
  <2>1. CASE Rejected(r) \/ NotOk(r) \/ SignInFails(r) \/ UserFetched(r) \/ RequestEnds(r)
    BY <1>1, <2>1 DEF Rejected, NotOk, SignInFails, UserFetched, RequestEnds
  <2>2. CASE ExchangeEnds(r)
    BY <2>2 DEF ExchangeEnds, StoredTogether
  <2>3. CASE SignedIn(r)
    BY <2>3 DEF SignedIn, Keep, StoredTogether
  <2>4. CASE FetchUserFails(r)
    BY <2>4 DEF FetchUserFails, SignOut, StoredTogether
  <2> QED BY <2>1, <2>2, <2>3, <2>4 DEF RequestStep
<1>5. CASE Logout
  BY <1>5 DEF Logout, SignOut, StoredTogether
<1>6. CASE Navigate \/ Expire \/ Reload
  BY <1>1, <1>6 DEF Navigate, Expire, Reload, clientVars
<1>7. CASE UNCHANGED sessionVars
  BY <1>1, <1>7 DEF sessionVars, clientVars
<1> QED BY <1>2, <1>3, <1>4, <1>5, <1>6, <1>7 DEF SessionNext, TabStep

(***************************************************************************)
(* Theorems.                                                               *)
(***************************************************************************)
LEMMA InitSessionInv == SessionInit => SessionInv /\ Latch!LatchInit
<1> SUFFICES ASSUME SessionInit PROVE SessionInv /\ Latch!LatchInit
  OBVIOUS
<1>1. TypeInv
  BY InitTypeInv
<1>2. promise = NoReq /\ mem = access /\ \A r \in Reqs : req[r].phase = "idle"
  BY DEF SessionInit, Idle
<1>3. Waiting = {}
  BY <1>2 DEF Waiting
<1>4. OneExchange
  BY <1>2, <1>3, NoReqAssumption DEF OneExchange, Exchanging
<1>5. StoredTogether
  BY DEF SessionInit, StoredTogether
<1> QED BY <1>1, <1>2, <1>3, <1>4, <1>5 DEF SessionInv, MemoryIsStorage, Latch!LatchInit

\* The inductive invariant of the tab: the types, with what a call carries in
\* each phase (GoodReq), the single exchange, the agreement of memory and
\* storage and of the two stored tokens, for any number of calls under way,
\* users and grants, with and without a refresh route.
THEOREM SessionInvariance == SessionSpec => []SessionInv
<1>1. SessionInit => SessionInv
  BY InitSessionInv
<1>2. SessionInv /\ [SessionNext]_sessionVars => SessionInv'
  BY NextTypeInv, NextLatch, NextMemory, NextStored DEF SessionInv, LatchStep
<1> QED BY <1>1, <1>2, PTL DEF SessionSpec

\* The state of the client and the store keeps its type: what is stored is a
\* granted token or the "undefined" of a registration, and the user is one a
\* grant names, or none (store/auth.ts).
THEOREM SessionTypeCorrect == SessionSpec => []SessionTypeOK
<1>1. SessionInv => SessionTypeOK
  BY DEF SessionInv, TypeInv
<1> QED BY <1>1, SessionInvariance, PTL

\* However many requests are refused at once, one of them exchanges the
\* refresh token and nobody waits for an exchange that is not under way
\* (ApiClient.refreshToken).
THEOREM OneExchangeAlways == SessionSpec => []OneExchange
<1>1. SessionInv => OneExchange
  BY DEF SessionInv
<1> QED BY <1>1, SessionInvariance, PTL

\* The access token in memory is never another than the stored one
\* (ApiClient.setToken and clearToken).
THEOREM MemoryAlwaysStorage == SessionSpec => []MemoryIsStorage
<1>1. SessionInv => MemoryIsStorage
  BY DEF SessionInv
<1> QED BY <1>1, SessionInvariance, PTL

\* The tab never keeps the access token of one grant beside the refresh token
\* of another, whatever falls into an exchange (setTokens, _doRefresh and
\* clearToken).
THEOREM TokensStoredTogether == SessionSpec => []StoredTogether
<1>1. SessionInv => StoredTogether
  BY DEF SessionInv
<1> QED BY <1>1, SessionInvariance, PTL

\* The API client implements RefreshLatch: a request acquires the refresh or
\* joins it, and its end or a reload releases all of them together.
THEOREM SessionRefinesLatch == SessionSpec => LatchSafe
<1>1. SessionInit => Latch!LatchInit
  BY InitSessionInv
<1>2. SessionInv /\ [SessionNext]_sessionVars => [Latch!LatchNext]_(Latch!latchVars)
  BY NextLatch DEF SessionInv, LatchStep
<1> QED BY <1>1, <1>2, SessionInvariance, PTL DEF SessionSpec, LatchSafe, Latch!LatchSpec
=============================================================================
