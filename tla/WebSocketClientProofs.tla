----------------------- MODULE WebSocketClientProofs -----------------------
(***************************************************************************)
(* The safety properties of WebSocketClient, for any number of effect runs *)
(* and any number of attempts.                                             *)
(***************************************************************************)
EXTENDS WebSocketClient, TLAPS

\* How many ways c has to a connection: sockets and timers.
Ways(c) == connecting[c] + opened[c] + timers[c]

\* What holds of a client in each stage of its effect.  Before it is made it
\* has nothing; in use it has at most one way to a connection, and none only
\* when its attempts are used up; afterwards it has no timer, and a socket
\* only if it has been told to close.
ClientInv(c) ==
    /\ effect[c] \in {"none", "delay"} =>
          Ways(c) = 0 /\ attempts[c] = 0 /\ ~destroyed[c]
    /\ effect[c] = "running" =>
          /\ ~destroyed[c]
          /\ Ways(c) <= 1
          /\ Ways(c) = 0 => attempts[c] = MaxAttempts
          /\ state[c] = "connected" <=> opened[c] = 1
    /\ effect[c] = "cleaned" =>
          /\ timers[c] = 0
          /\ Ways(c) <= 1
          /\ destroyed[c] \/ Ways(c) = 0

SocketInv == SocketTypeOK /\ \A c \in Clients : ClientInv(c)

LEMMA InitSocketInv == SocketInit => SocketInv
BY MaxAttemptsAssumption DEF SocketInit, SocketInv, SocketTypeOK, ClientInv, Ways, States

\* Scheduling an attempt for a client in use that has no way left.
LEMMA ScheduleFacts ==
    ASSUME SocketTypeOK, NEW c \in Clients, NEW left \in Nat, NEW otherwise \in States,
           ~destroyed[c], scheduleReconnect(c, left, otherwise)
    PROVE  /\ timers' \in [Clients -> Nat] /\ attempts' \in [Clients -> 0..MaxAttempts]
           /\ state' \in [Clients -> States]
           /\ \A d \in Clients \ {c} :
                 timers'[d] = timers[d] /\ attempts'[d] = attempts[d] /\ state'[d] = state[d]
           /\ \/ timers'[c] = left + 1 /\ state'[c] = "reconnecting"
              \/ timers'[c] = left /\ attempts'[c] = MaxAttempts /\ state'[c] = otherwise
<1>1. CASE attempts[c] < MaxAttempts
  BY <1>1, MaxAttemptsAssumption DEF SocketTypeOK, scheduleReconnect, States
<1>2. CASE ~(attempts[c] < MaxAttempts)
  BY <1>2, MaxAttemptsAssumption DEF SocketTypeOK, scheduleReconnect, States
<1> QED BY <1>1, <1>2

\* A client that is not closed connects: it has one more way, or none and no
\* attempt.
LEMMA ConnectFacts ==
    ASSUME SocketTypeOK, NEW c \in Clients, NEW left \in Nat, ~destroyed[c], connect(c, left)
    PROVE  /\ connecting' \in [Clients -> Nat]
           /\ timers' \in [Clients -> Nat] /\ attempts' \in [Clients -> 0..MaxAttempts]
           /\ state' \in [Clients -> States]
           /\ \A d \in Clients \ {c} :
                 /\ timers'[d] = timers[d] /\ attempts'[d] = attempts[d]
                 /\ state'[d] = state[d] /\ connecting'[d] = connecting[d]
           /\ state'[c] # "connected"
           /\ \/ connecting'[c] = connecting[c] + 1 /\ timers'[c] = left
              \/ connecting'[c] = connecting[c] /\ timers'[c] = left + 1
              \/ connecting'[c] = connecting[c] /\ timers'[c] = left /\ attempts'[c] = MaxAttempts
<1>1. CASE /\ connecting' = [connecting EXCEPT ![c] = @ + 1]
           /\ state' = [state EXCEPT ![c] = "connecting"]
           /\ timers' = [timers EXCEPT ![c] = left]
           /\ UNCHANGED attempts
  BY <1>1 DEF SocketTypeOK, States
<1>2. CASE scheduleReconnect(c, left, "connecting") /\ UNCHANGED connecting
  BY <1>2, ScheduleFacts DEF SocketTypeOK, States
<1> QED BY <1>1, <1>2 DEF connect

LEMMA NextSocketInv == SocketInv /\ [SocketNext]_socketVars => SocketInv'
<1> SUFFICES ASSUME SocketInv, [SocketNext]_socketVars PROVE SocketInv'
  OBVIOUS
<1> USE MaxAttemptsAssumption
<1>1. CASE UNCHANGED socketVars
  BY <1>1 DEF socketVars, SocketInv, SocketTypeOK, ClientInv, Ways
<1>2. ASSUME NEW c \in Clients, Mount(c) PROVE SocketInv'
  BY <1>2 DEF Mount, SocketInv, SocketTypeOK, ClientInv, Ways
<1>3. ASSUME NEW c \in Clients, Opened(c) PROVE SocketInv'
  <2>1. SocketTypeOK'
    BY <1>3 DEF Opened, SocketInv, SocketTypeOK, States
  <2>2. ASSUME NEW d \in Clients PROVE ClientInv(d)'
    <3>1. CASE d = c
      <4>1. /\ connecting[c] \in Nat /\ opened[c] \in Nat /\ timers[c] \in Nat
            /\ connecting[c] > 0 /\ ~destroyed[c] /\ ClientInv(c)
        BY <1>3 DEF Opened, SocketInv, SocketTypeOK
      <4>2. /\ connecting'[c] = connecting[c] - 1 /\ opened'[c] = opened[c] + 1
            /\ attempts'[c] = 0 /\ state'[c] = "connected"
            /\ UNCHANGED <<effect, timers, destroyed>>
        BY <1>3 DEF Opened, SocketInv, SocketTypeOK
      <4> QED BY <3>1, <4>1, <4>2 DEF ClientInv, Ways
    <3>2. CASE d # c
      BY <1>3, <3>2 DEF Opened, SocketInv, SocketTypeOK, ClientInv, Ways
    <3> QED BY <3>1, <3>2
  <2> QED BY <2>1, <2>2 DEF SocketInv
<1>4. ASSUME NEW c \in Clients, DelayEnds(c) PROVE SocketInv'
  <2>1. timers[c] \in Nat /\ ~destroyed[c] /\ connect(c, timers[c])
    BY <1>4 DEF DelayEnds, SocketInv, SocketTypeOK, ClientInv
  <2>2. SocketTypeOK'
    BY <1>4, <2>1, ConnectFacts DEF DelayEnds, SocketInv, SocketTypeOK
  <2>3. ASSUME NEW d \in Clients PROVE ClientInv(d)'
    <3>1. CASE d = c
      BY <1>4, <2>1, <3>1, ConnectFacts DEF DelayEnds, SocketInv, SocketTypeOK, ClientInv, Ways
    <3>2. CASE d # c
      BY <1>4, <2>1, <3>2, ConnectFacts DEF DelayEnds, SocketInv, SocketTypeOK, ClientInv, Ways
    <3> QED BY <3>1, <3>2
  <2> QED BY <2>2, <2>3 DEF SocketInv
<1>5. ASSUME NEW c \in Clients, TimerFires(c) PROVE SocketInv'
  <2>1. timers[c] - 1 \in Nat /\ ~destroyed[c] /\ effect[c] = "running"
        /\ connect(c, timers[c] - 1)
    BY <1>5 DEF TimerFires, SocketInv, SocketTypeOK, ClientInv, Ways
  <2>2. SocketTypeOK'
    BY <1>5, <2>1, ConnectFacts DEF TimerFires, SocketInv, SocketTypeOK
  <2>3. ASSUME NEW d \in Clients PROVE ClientInv(d)'
    <3>1. CASE d = c
      BY <1>5, <2>1, <3>1, ConnectFacts DEF TimerFires, SocketInv, SocketTypeOK, ClientInv, Ways
    <3>2. CASE d # c
      BY <1>5, <2>1, <3>2, ConnectFacts DEF TimerFires, SocketInv, SocketTypeOK, ClientInv, Ways
    <3> QED BY <3>1, <3>2
  <2> QED BY <2>2, <2>3 DEF SocketInv
<1>6. ASSUME NEW c \in Clients, SocketClosed(c) PROVE SocketInv'
  <2>1. CASE destroyed[c]
    <3>1. SocketTypeOK'
      BY <1>6, <2>1 DEF SocketClosed, SocketInv, SocketTypeOK
    <3>2. ASSUME NEW d \in Clients PROVE ClientInv(d)'
      <4>1. CASE d = c
        BY <1>6, <2>1, <4>1 DEF SocketClosed, SocketInv, SocketTypeOK, ClientInv, Ways
      <4>2. CASE d # c
        BY <1>6, <2>1, <4>2 DEF SocketClosed, SocketInv, SocketTypeOK, ClientInv, Ways
      <4> QED BY <4>1, <4>2
    <3> QED BY <3>1, <3>2 DEF SocketInv
  <2>2. CASE ~destroyed[c]
    <3>1. /\ timers[c] \in Nat /\ "disconnected" \in States
          /\ scheduleReconnect(c, timers[c], "disconnected")
      BY <1>6, <2>2 DEF SocketClosed, SocketInv, SocketTypeOK, States
    <3>2. effect[c] = "running" /\ timers[c] = 0
      <4>1. /\ connecting[c] \in Nat /\ opened[c] \in Nat /\ timers[c] \in Nat
            /\ effect[c] \in {"none", "delay", "running", "cleaned"}
        BY DEF SocketInv, SocketTypeOK
      <4>2. connecting[c] + opened[c] >= 1
        BY <1>6, <4>1 DEF SocketClosed
      <4>3. ClientInv(c)
        BY DEF SocketInv
      <4> QED BY <2>2, <4>1, <4>2, <4>3 DEF ClientInv, Ways
    <3>3. SocketTypeOK'
      BY <1>6, <2>2, <3>1, ScheduleFacts DEF SocketClosed, SocketInv, SocketTypeOK
    <3>4. ASSUME NEW d \in Clients PROVE ClientInv(d)'
      <4>1. CASE d = c
        BY <1>6, <2>2, <3>1, <3>2, <4>1, ScheduleFacts
        DEF SocketClosed, SocketInv, SocketTypeOK, ClientInv, Ways
      <4>2. CASE d # c
        BY <1>6, <2>2, <3>1, <4>2, ScheduleFacts
        DEF SocketClosed, SocketInv, SocketTypeOK, ClientInv, Ways
      <4> QED BY <4>1, <4>2
    <3> QED BY <3>3, <3>4 DEF SocketInv
  <2> QED BY <2>1, <2>2
<1>7. ASSUME NEW c \in Clients, Unmount(c) PROVE SocketInv'
  <2>1. CASE effect[c] = "running"
    <3> DEFINE fewer == IF timers[c] > 0 THEN timers[c] - 1 ELSE 0
    <3>1. /\ effect' = [effect EXCEPT ![c] = "cleaned"]
          /\ destroyed' = [destroyed EXCEPT ![c] = TRUE]
          /\ timers' = [timers EXCEPT ![c] = fewer]
          /\ state' = [state EXCEPT ![c] = "disconnected"]
          /\ UNCHANGED <<connecting, opened, attempts>>
      BY <1>7, <2>1 DEF Unmount, Cleanup
    <3>2. timers[c] \in Nat /\ connecting[c] \in Nat /\ opened[c] \in Nat
      BY DEF SocketInv, SocketTypeOK
    <3>3. fewer = 0 /\ connecting[c] + opened[c] <= 1
      BY <2>1, <3>2 DEF SocketInv, ClientInv, Ways
    <3> HIDE DEF fewer
    <3>4. SocketTypeOK'
      BY <3>1, <3>3 DEF SocketInv, SocketTypeOK, States
    <3>5. ASSUME NEW d \in Clients PROVE ClientInv(d)'
      <4>1. CASE d = c
        BY <3>1, <3>2, <3>3, <4>1 DEF SocketInv, SocketTypeOK, ClientInv, Ways
      <4>2. CASE d # c
        BY <3>1, <4>2 DEF SocketInv, SocketTypeOK, ClientInv, Ways
      <4> QED BY <4>1, <4>2
    <3> QED BY <3>4, <3>5 DEF SocketInv
  <2>2. CASE effect[c] = "delay"
    <3>1. /\ effect' = [effect EXCEPT ![c] = "cleaned"]
          /\ UNCHANGED <<connecting, opened, timers, attempts, destroyed, state>>
      BY <1>7, <2>2 DEF Unmount, Cleanup
    <3>2. SocketTypeOK'
      BY <3>1 DEF SocketInv, SocketTypeOK
    <3>3. ASSUME NEW d \in Clients PROVE ClientInv(d)'
      <4>1. CASE d = c
        <5>1. /\ connecting[c] \in Nat /\ opened[c] \in Nat /\ timers[c] \in Nat
              /\ ClientInv(c) /\ effect'[c] = "cleaned"
          BY <3>1 DEF SocketInv, SocketTypeOK
        <5> QED BY <2>2, <3>1, <4>1, <5>1 DEF ClientInv, Ways
      <4>2. CASE d # c
        BY <3>1, <4>2 DEF SocketInv, SocketTypeOK, ClientInv, Ways
      <4> QED BY <4>1, <4>2
    <3> QED BY <3>2, <3>3 DEF SocketInv
  <2> QED BY <1>7, <2>1, <2>2 DEF Unmount, Mounted
<1> QED BY <1>1, <1>2, <1>3, <1>4, <1>5, <1>6, <1>7 DEF SocketNext, SocketStep

\* The inductive invariant: at every step of the client and of the hook that
\* owns it, each client is in one of the stages ClientInv describes.
THEOREM SocketInvariance == SocketSpec => []SocketInv
BY InitSocketInv, NextSocketInv, PTL DEF SocketSpec

\* reconnectAttempts never exceeds maxReconnectAttempts.
THEOREM SocketTypeCorrect == SocketSpec => []SocketTypeOK
<1>1. SocketInv => SocketTypeOK
  BY DEF SocketInv
<1> QED BY <1>1, SocketInvariance, PTL

\* scheduleReconnect and connect never give a client two connections.
THEOREM OneConnectionAlways == SocketSpec => []OneConnection
<1>1. SocketInv => OneConnection
  BY DEF SocketInv, SocketTypeOK, ClientInv, Ways, OneConnection
<1> QED BY <1>1, SocketInvariance, PTL

\* A client in use is without a way to a connection only when its attempts
\* are used up.
THEOREM NeverStranded == SocketSpec => []NotStranded
<1>1. SocketInv => NotStranded
  BY DEF SocketInv, SocketTypeOK, ClientInv, Ways, NotStranded
<1> QED BY <1>1, SocketInvariance, PTL

\* The state the hook shows is connected exactly while a socket is open.
THEOREM StateAlwaysTrue == SocketSpec => []StateIsTrue
<1>1. SocketInv => StateIsTrue
  BY DEF SocketInv, ClientInv, StateIsTrue
<1> QED BY <1>1, SocketInvariance, PTL

\* Nothing connects again after the component is gone.
THEOREM NothingEverLeftBehind == SocketSpec => []NothingLeftBehind
<1>1. SocketInv => NothingLeftBehind
  BY DEF SocketInv, ClientInv, NothingLeftBehind
<1> QED BY <1>1, SocketInvariance, PTL
=============================================================================
