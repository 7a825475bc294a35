---------------------------- MODULE RefreshLatch ----------------------------
(***************************************************************************)
(* What the API client of the dashboard promises about token refreshes     *)
(* (web/src/lib/api.ts, ApiClient.refreshToken): one request at a time     *)
(* holds the refresh, the others that need a new token wait for that one,  *)
(* and all of them are released together.  WebSession implements it.       *)
(***************************************************************************)
CONSTANTS Reqs, NoReq

VARIABLES holder,    \* the request that exchanges the refresh token
          waiters    \* the requests that wait for its result

latchVars == <<holder, waiters>>

LatchInit == holder = NoReq /\ waiters = {}

\* A request finds no refresh under way and starts one.
Acquire(r) ==
    /\ holder = NoReq
    /\ r \notin waiters
    /\ holder' = r
    /\ UNCHANGED waiters

\* A request finds a refresh under way and waits for its result.
Join(r) ==
    /\ holder \notin {NoReq, r}
    /\ r \notin waiters
    /\ waiters' = waiters \cup {r}
    /\ UNCHANGED holder

\* The refresh ends, or the page is reloaded: nobody holds it, nobody waits.
Release ==
    /\ holder # NoReq
    /\ holder' = NoReq
    /\ waiters' = {}

LatchNext == Release \/ \E r \in Reqs : Acquire(r) \/ Join(r)

LatchSpec == LatchInit /\ [][LatchNext]_latchVars
=============================================================================
