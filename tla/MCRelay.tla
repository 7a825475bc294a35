------------------------------- MODULE MCRelay -------------------------------
(* The dispatcher and one WebSocket request.  They share nothing, so a     *)
(* behaviour is about one of them: the other one stays where it started.   *)
(*                                                                         *)
(* Tunnel t1 has a domain and a port, registered by two config updates     *)
(* (x2, x3); its agent registers x1, which has neither.  A wildcard domain *)
(* of t2 also covers the host of t1's domain, h1, but not its port, h2.    *)
EXTENDS RelayDispatcher, RelayWebSocket, TLC

CONSTANTS t1, t2, d1, n1, w2, x1, x2, x3, y1, h1, h2

MCTunnelOf == (x1 :> t1) @@ (x2 :> t1) @@ (x3 :> t1) @@ (y1 :> t2)
MCKeysOf == (x1 :> {}) @@ (x2 :> {d1, n1}) @@ (x3 :> {d1, n1}) @@ (y1 :> {w2})
MCCandidates == (h1 :> <<d1, w2>>) @@ (h2 :> <<n1>>)
MCOwner == (d1 :> t1) @@ (n1 :> t1) @@ (w2 :> t2)

VARIABLE part    \* what this behaviour is about

relayVars == <<part, vars, wsVars>>

RelayInit == part \in {"dispatcher", "websocket"} /\ Init /\ WebSocketInit

\* A request may come to rest (AllEnd says when); the dispatcher never does.
RelayNext ==
    /\ UNCHANGED part
    /\ \/ part = "dispatcher" /\ Next /\ UNCHANGED wsVars
       \/ part = "websocket" /\ WebSocketNext /\ UNCHANGED vars
       \/ part = "websocket" /\ UNCHANGED <<vars, wsVars>>

(* A goroutine that can go on does, in a behaviour about the request.      *)
RelayFairness == part = "websocket" => WebSocketFairness

RelaySpec == RelayInit /\ [][RelayNext]_relayVars /\ RelayFairness
=============================================================================
