---------------------------- MODULE MCReconnecting ---------------------------
(* The two clients that reconnect by themselves: the agent, and the live   *)
(* socket of the dashboard.  They share nothing, so a behaviour is about   *)
(* one of them: the other one is never started.                            *)
EXTENDS AgentClient, WebSocketClient

VARIABLE part    \* what this behaviour is about

reconnectingVars == <<part, vars, socketVars>>

ReconnectingInit == part \in {"agent", "socket"} /\ Init /\ SocketInit

ReconnectingNext ==
    /\ UNCHANGED part
    /\ \/ part = "agent" /\ Next /\ UNCHANGED socketVars
       \/ part = "socket" /\ SocketNext /\ UNCHANGED vars

\* Nothing that is fair is enabled in a client that was not started.
ReconnectingSpec ==
    /\ ReconnectingInit /\ [][ReconnectingNext]_reconnectingVars
    /\ Fairness /\ SocketFairness
=============================================================================
