-------------------------- MODULE WebSocketClient --------------------------
(***************************************************************************)
(* The reconnecting WebSocket client of the dashboard                      *)
(* (web/src/lib/websocket.ts, class OmniTunWS) and the React hook that     *)
(* owns one (web/src/hooks/useWebSocket.ts).  Every run of the hook's      *)
(* effect makes one client; clients outlive the component only until       *)
(* their sockets have closed.                                              *)
(***************************************************************************)
EXTENDS Naturals, FiniteSets

CONSTANTS Clients,       \* effect runs, one OmniTunWS each
          MaxAttempts    \* maxReconnectAttempts

ASSUME MaxAttemptsAssumption == MaxAttempts \in Nat \ {0}

VARIABLES
    effect,      \* effect[c]: "none", "delay" (500 ms), "running", "cleaned"
    connecting,  \* connecting[c]: sockets of c that are being opened
    opened,      \* opened[c]: sockets of c that are open
    timers,      \* timers[c]: reconnect timers of c that have not fired
    attempts,    \* attempts[c]: reconnectAttempts
    destroyed,   \* destroyed[c]
    state        \* state[c]: _state

socketVars == <<effect, connecting, opened, timers, attempts, destroyed, state>>

States == {"connecting", "connected", "disconnected", "reconnecting"}

SocketInit ==
    /\ effect = [c \in Clients |-> "none"]
    /\ connecting = [c \in Clients |-> 0]
    /\ opened = [c \in Clients |-> 0]
    /\ timers = [c \in Clients |-> 0]
    /\ attempts = [c \in Clients |-> 0]
    /\ destroyed = [c \in Clients |-> FALSE]
    /\ state = [c \in Clients |-> "disconnected"]

\* The component is mounted with a stored token: the effect waits 500 ms.
Mount(c) ==
    /\ effect[c] = "none"
    /\ \A d \in Clients : effect[d] \in {"none", "cleaned"}
    /\ effect' = [effect EXCEPT ![c] = "delay"]
    /\ UNCHANGED <<connecting, opened, timers, attempts, destroyed, state>>

(***************************************************************************)
(* scheduleReconnect, when left other timers of c are pending: another     *)
(* attempt, unless the client is closed or has none left.                  *)
(***************************************************************************)
\* Mutant: one attempt too many.
scheduleReconnectOnceMore(c, left, otherwise) ==
    IF ~destroyed[c] /\ attempts[c] <= MaxAttempts
    THEN /\ state' = [state EXCEPT ![c] = "reconnecting"]
         /\ attempts' = [attempts EXCEPT ![c] = @ + 1]
         /\ timers' = [timers EXCEPT ![c] = left + 1]
    ELSE /\ state' = [state EXCEPT ![c] = otherwise]
         /\ timers' = [timers EXCEPT ![c] = left]
         /\ UNCHANGED attempts

\* Mutant: the state is not set.
scheduleReconnectSilently(c, left, otherwise) ==
    IF ~destroyed[c] /\ attempts[c] < MaxAttempts
    THEN /\ attempts' = [attempts EXCEPT ![c] = @ + 1]
         /\ timers' = [timers EXCEPT ![c] = left + 1]
         /\ UNCHANGED state
    ELSE /\ timers' = [timers EXCEPT ![c] = left]
         /\ UNCHANGED <<state, attempts>>

\* Mutant: attempts are not counted.
scheduleReconnectUncounted(c, left, otherwise) ==
    /\ ~destroyed[c]
    /\ state' = [state EXCEPT ![c] = "reconnecting"]
    /\ timers' = [timers EXCEPT ![c] = left + 1]
    /\ UNCHANGED attempts

scheduleReconnect(c, left, otherwise) ==
    IF ~destroyed[c] /\ attempts[c] < MaxAttempts
    THEN /\ state' = [state EXCEPT ![c] = "reconnecting"]
         /\ attempts' = [attempts EXCEPT ![c] = @ + 1]
         /\ timers' = [timers EXCEPT ![c] = left + 1]
    ELSE /\ state' = [state EXCEPT ![c] = otherwise]
         /\ timers' = [timers EXCEPT ![c] = left]
         /\ UNCHANGED attempts

(***************************************************************************)
(* connect: a new socket, or an exception and another attempt.             *)
(***************************************************************************)
\* Mutant: no attempt follows an exception.
connectOnce(c, left) ==
    /\ timers' = [timers EXCEPT ![c] = left]
    /\ UNCHANGED attempts
    /\ \/ ~destroyed[c] /\ connecting' = [connecting EXCEPT ![c] = @ + 1]
       \/ UNCHANGED connecting
    /\ state' = IF destroyed[c] THEN state ELSE [state EXCEPT ![c] = "connecting"]

\* Mutant: an attempt is scheduled without waiting for the socket to end.
connectAndSchedule(c, left) ==
    /\ connecting' = [connecting EXCEPT ![c] = @ + 1]
    /\ scheduleReconnect(c, left, "connecting")

connect(c, left) ==
    \/ /\ destroyed[c]
       /\ timers' = [timers EXCEPT ![c] = left]
       /\ UNCHANGED <<connecting, attempts, state>>
    \/ /\ ~destroyed[c]
       /\ connecting' = [connecting EXCEPT ![c] = @ + 1]
       /\ state' = [state EXCEPT ![c] = "connecting"]
       /\ timers' = [timers EXCEPT ![c] = left]
       /\ UNCHANGED attempts
    \/ /\ ~destroyed[c]
       /\ scheduleReconnect(c, left, "connecting")
       /\ UNCHANGED connecting

\* The delay is over: the constructor connects.
DelayEnds(c) ==
    /\ effect[c] = "delay"
    /\ effect' = [effect EXCEPT ![c] = "running"]
    /\ connect(c, timers[c])
    /\ UNCHANGED <<opened, destroyed>>

TimerFires(c) ==
    /\ timers[c] > 0
    /\ connect(c, timers[c] - 1)
    /\ UNCHANGED <<effect, opened, destroyed>>

\* onopen
Opened(c) ==
    /\ connecting[c] > 0 /\ ~destroyed[c]
    /\ connecting' = [connecting EXCEPT ![c] = @ - 1]
    /\ opened' = [opened EXCEPT ![c] = @ + 1]
    /\ attempts' = [attempts EXCEPT ![c] = 0]
    /\ state' = [state EXCEPT ![c] = "connected"]
    /\ UNCHANGED <<effect, timers, destroyed>>

\* onclose, of a socket that was open or never got that far
SocketClosed(c) ==
    /\ \/ /\ connecting[c] > 0
          /\ connecting' = [connecting EXCEPT ![c] = @ - 1]
          /\ UNCHANGED opened
       \/ /\ opened[c] > 0
          /\ opened' = [opened EXCEPT ![c] = @ - 1]
          /\ UNCHANGED connecting
    /\ IF destroyed[c]
       THEN UNCHANGED <<timers, attempts, state>>
       ELSE scheduleReconnect(c, timers[c], "disconnected")
    /\ UNCHANGED <<effect, destroyed>>

(***************************************************************************)
(* The cleanup of the effect: the delay is cancelled, or close(): no more  *)
(* reconnects, the last timer cleared, the socket told to close (its       *)
(* onclose comes later).                                                   *)
(***************************************************************************)
\* Mutant: the timer is not cleared.
CleanupKeepsTimer(c) ==
    /\ effect' = [effect EXCEPT ![c] = "cleaned"]
    /\ IF effect[c] = "running"
       THEN /\ destroyed' = [destroyed EXCEPT ![c] = TRUE]
            /\ state' = [state EXCEPT ![c] = "disconnected"]
       ELSE UNCHANGED <<destroyed, state>>
    /\ UNCHANGED <<connecting, opened, timers, attempts>>

Cleanup(c) ==
    /\ effect' = [effect EXCEPT ![c] = "cleaned"]
    /\ IF effect[c] = "running"
       THEN /\ destroyed' = [destroyed EXCEPT ![c] = TRUE]
            /\ timers' = [timers EXCEPT ![c] = IF @ > 0 THEN @ - 1 ELSE 0]
            /\ state' = [state EXCEPT ![c] = "disconnected"]
       ELSE UNCHANGED <<destroyed, timers, state>>
    /\ UNCHANGED <<connecting, opened, attempts>>

Mounted(c) == effect[c] \in {"delay", "running"}

Unmount(c) == Mounted(c) /\ Cleanup(c)

SocketStep(c) == DelayEnds(c) \/ TimerFires(c) \/ SocketClosed(c)

SocketNext ==
    \E c \in Clients : Mount(c) \/ Opened(c) \/ SocketStep(c) \/ Unmount(c)

SocketSpec == SocketInit /\ [][SocketNext]_socketVars

(***************************************************************************)
(* Fairness: timers fire, and the browser ends every attempt to connect.   *)
(***************************************************************************)
SocketFairness ==
    \A c \in Clients : /\ WF_socketVars(DelayEnds(c) \/ TimerFires(c))
                       /\ WF_socketVars(connecting[c] > 0 /\ (Opened(c) \/ SocketClosed(c)))

(***************************************************************************)
(* Properties.                                                             *)
(***************************************************************************)
SocketTypeOK ==
    /\ effect \in [Clients -> {"none", "delay", "running", "cleaned"}]
    /\ connecting \in [Clients -> Nat]
    /\ opened \in [Clients -> Nat]
    /\ timers \in [Clients -> Nat]
    /\ attempts \in [Clients -> 0..MaxAttempts]
    /\ destroyed \in [Clients -> BOOLEAN]
    /\ state \in [Clients -> States]

\* A client never has two connections, nor one and a timer that is about to
\* make another (connect, scheduleReconnect and onclose keep them exclusive).
OneConnection ==
    \A c \in Clients : connecting[c] + opened[c] + timers[c] <= 1

\* A client in use that neither has a socket nor waits to make one has used
\* up its attempts: scheduleReconnect is reached on every way a socket ends.
NotStranded ==
    \A c \in Clients :
        effect[c] = "running" /\ connecting[c] + opened[c] + timers[c] = 0
            => attempts[c] = MaxAttempts

\* A client in use says it is connected exactly while its socket is open
\* (every handler of connect, and close, sets _state before the next one).
StateIsTrue ==
    \A c \in Clients : effect[c] = "running" => (state[c] = "connected" <=> opened[c] = 1)

\* A component that is gone leaves no timer behind that would connect again
\* (close clears the timer, the cleanup the delay).
NothingLeftBehind ==
    \A c \in Clients : effect[c] = "cleaned" => timers[c] = 0

\* A mounted component's client gets connected, or uses up its attempts.
SocketReconnects ==
    \A c \in Clients : effect[c] = "running" ~>
        state[c] = "connected" \/ attempts[c] = MaxAttempts \/ effect[c] = "cleaned"
=============================================================================
