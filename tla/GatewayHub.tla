----------------------------- MODULE GatewayHub -----------------------------
(***************************************************************************)
(* The agent gateway: the Hub that maps agent ids to WebSocket connections *)
(* and the goroutines around it.  Every accepted WebSocket has a handler   *)
(* goroutine (HandleAgentConnect, then messageLoop) and a writePump; one   *)
(* goroutine runs Hub.Run, one runs HeartbeatCheck, and any goroutine may  *)
(* call SendToAgent or BroadcastToOrg.  They share the two channels        *)
(* register and unregister, the maps behind Hub.mu, and the context of     *)
(* each connection.                                                        *)
(***************************************************************************)
EXTENDS Naturals, Sequences

CONSTANTS Conn,              \* the *AgentConnection objects
          Agent,             \* agent ids
          Org,               \* organisation ids other than ""
          NoOrg,             \* the organisation id ""
          None,              \* an absent map entry
          Writer,            \* goroutines that send to agents
          ChanCap,           \* capacity of register and unregister (64)
          SendCap,           \* sendChannelBuffer (256)
          HeartbeatTimeout,  \* heartbeatTimeout / heartbeatInterval (3)
          MayShutdown,       \* whether the server may be shut down (a bound)
          TimePasses         \* whether the heartbeat ticker fires (a bound)

ASSUME ConstantsAssumption ==
    /\ None \notin Conn
    /\ None \notin Agent
    /\ NoOrg \notin Org
    /\ ChanCap \in Nat \ {0}
    /\ SendCap \in Nat \ {0}
    /\ HeartbeatTimeout \in Nat
    /\ MayShutdown \in BOOLEAN
    /\ TimePasses \in BOOLEAN

VARIABLES
    agents,      \* Hub.agents
    byOrg,       \* Hub.byOrg: the connections in each inner map
    orgKeys,     \* the keys present in Hub.byOrg
    register,    \* Hub.register
    unregister,  \* Hub.unregister
    hub,         \* Hub.ctx and Hub.Run: "up", "stopping" (cancelled), "stopped"
    id,          \* AgentConnection.AgentID
    org,         \* AgentConnection.OrgID
    phase,       \* where the handler goroutine of a connection stands
    cancelled,   \* the connections whose context is done
    sock,        \* the WebSocket: "open", "lost" (peer gone), "closed" (by us)
    pumping,     \* the connections whose writePump runs
    age,         \* ticker periods since LastPing
    send,        \* AgentConnection.Send
    tickDue,     \* the HeartbeatCheck ticker has fired
    sweep,       \* checkHeartbeats: timed out connections still to unregister
    sweepCur,    \* the one unregistered and not yet closed, or None
    pend,        \* connections a writer has still to write to
    msg          \* the message it writes

hubVars    == <<agents, byOrg, orgKeys>>
chanVars   == <<register, unregister, hub>>
idVars     == <<id, org>>
connVars   == <<cancelled, sock, pumping>>
sweepVars  == <<sweep, sweepCur>>
writerVars == <<pend, msg>>
vars == <<hubVars, chanVars, idVars, phase, connVars, age, send, tickDue,
          sweepVars, writerVars>>

Phases == {"idle", "register", "welcome", "reregister", "loop",
           "unregister", "close", "done"}

Message == {<<"welcome", None>>} \cup ({"agent"} \X Agent) \cup ({"org"} \X Org)

\* Ages above the timeout are all alike to checkHeartbeats.
MaxAge == HeartbeatTimeout + 1

TypeOK ==
    /\ agents \in [Agent -> Conn \cup {None}]
    /\ byOrg \in [Org -> SUBSET Conn]
    /\ orgKeys \in SUBSET Org
    /\ register \in Seq(Conn) /\ Len(register) <= ChanCap
    /\ unregister \in Seq(Conn) /\ Len(unregister) <= ChanCap
    /\ hub \in {"up", "stopping", "stopped"}
    /\ id \in [Conn -> Agent \cup {None}]
    /\ org \in [Conn -> Org \cup {NoOrg}]
    /\ phase \in [Conn -> Phases]
    /\ cancelled \in SUBSET Conn
    /\ sock \in [Conn -> {"open", "lost", "closed"}]
    /\ pumping \in SUBSET Conn
    /\ age \in [Conn -> 0 .. MaxAge]
    /\ send \in [Conn -> Seq(Message)]
    /\ \A c \in Conn : Len(send[c]) <= SendCap
    /\ tickDue \in BOOLEAN
    /\ sweep \in SUBSET Conn
    /\ sweepCur \in Conn \cup {None}
    /\ pend \in [Writer -> SUBSET Conn]
    /\ msg \in [Writer -> Message]

Init ==
    /\ agents = [a \in Agent |-> None]
    /\ byOrg = [o \in Org |-> {}]
    /\ orgKeys = {}
    /\ register = <<>> /\ unregister = <<>> /\ hub = "up"
    /\ id = [c \in Conn |-> None]
    /\ org = [c \in Conn |-> NoOrg]
    /\ phase = [c \in Conn |-> "idle"]
    /\ cancelled = {} /\ pumping = {}
    /\ sock = [c \in Conn |-> "open"]
    /\ age = [c \in Conn |-> 0]
    /\ send = [c \in Conn |-> <<>>]
    /\ tickDue = FALSE /\ sweep = {} /\ sweepCur = None
    /\ pend = [w \in Writer |-> {}]
    /\ msg = [w \in Writer |-> <<"welcome", None>>]

Registered(c) == id[c] # None /\ agents[id[c]] = c

InQueue(s, x) == \E i \in 1 .. Len(s) : s[i] = x

-----------------------------------------------------------------------------
(* Channel operations.                                                     *)

\* Hub.Register, Hub.Unregister: send on the channel, or give up once the
\* hub's context is done.  A full channel blocks the caller.
SendRegister(c) ==
    /\ \/ /\ Len(register) < ChanCap
          /\ register' = Append(register, c)
       \/ /\ hub # "up"
          /\ UNCHANGED register
    /\ UNCHANGED <<unregister, hub>>

SendUnregister(c) ==
    /\ \/ /\ Len(unregister) < ChanCap
          /\ unregister' = Append(unregister, c)
       \/ /\ hub # "up"
          /\ UNCHANGED unregister
    /\ UNCHANGED <<register, hub>>

\* Variant of WriteMessage: the channel is taken to be unbounded.
WriteMessageUnbounded(c, m) ==
    send' = [send EXCEPT ![c] = IF Len(@) <= SendCap THEN Append(@, m) ELSE @]

\* AgentConnection.WriteMessage never blocks: it enqueues, reports the done
\* context, or drops the message when the channel is full.
WriteMessage(c, m) ==
    \/ /\ Len(send[c]) < SendCap
       /\ send' = [send EXCEPT ![c] = Append(@, m)]
    \/ /\ \/ c \in cancelled
          \/ Len(send[c]) = SendCap
       /\ UNCHANGED send

-----------------------------------------------------------------------------
(* The handler goroutine of a connection.                                  *)

\* performHelloHandshake succeeds: the connection object is created for the
\* agent and the organisation of the token, and Register stamps LastPing.
Hello(c) ==
    /\ phase[c] = "idle"
    /\ \E a \in Agent, o \in Org \cup {NoOrg} :
          /\ id' = [id EXCEPT ![c] = a]
          /\ org' = [org EXCEPT ![c] = o]
    /\ phase' = [phase EXCEPT ![c] = "register"]
    /\ age' = [age EXCEPT ![c] = 0]
    /\ UNCHANGED <<hubVars, chanVars, connVars, send, tickDue, sweepVars,
                   writerVars>>

\* The handshake fails (no hello in time, bad message, bad token, agent id
\* mismatch): the socket is closed and nothing is registered.
HelloFail(c) ==
    /\ phase[c] = "idle"
    /\ phase' = [phase EXCEPT ![c] = "done"]
    /\ sock' = [sock EXCEPT ![c] = "closed"]
    /\ UNCHANGED <<hubVars, chanVars, idVars, cancelled, pumping, age, send,
                   tickDue, sweepVars, writerVars>>

\* The first s.Hub.Register(agentConn).
Register(c) ==
    /\ phase[c] = "register"
    /\ SendRegister(c)
    /\ phase' = [phase EXCEPT ![c] = "welcome"]
    /\ UNCHANGED <<hubVars, idVars, connVars, age, send, tickDue, sweepVars,
                   writerVars>>

\* The welcome message is queued; the second Register stamps LastPing.
Welcome(c) ==
    /\ phase[c] = "welcome"
    /\ WriteMessage(c, <<"welcome", None>>)
    /\ phase' = [phase EXCEPT ![c] = "reregister"]
    /\ age' = [age EXCEPT ![c] = 0]
    /\ UNCHANGED <<hubVars, chanVars, idVars, connVars, tickDue, sweepVars,
                   writerVars>>

\* The second s.Hub.Register(agentConn), then writePump and messageLoop start.
Reregister(c) ==
    /\ phase[c] = "reregister"
    /\ SendRegister(c)
    /\ phase' = [phase EXCEPT ![c] = "loop"]
    /\ pumping' = pumping \cup {c}
    /\ UNCHANGED <<hubVars, idVars, cancelled, sock, age, send, tickDue,
                   sweepVars, writerVars>>

\* messageLoop reads a data message: LastPing is stamped before the message is
\* parsed, and dispatchMessage only logs.
Receive(c) ==
    /\ phase[c] = "loop"
    /\ sock[c] = "open"
    /\ age' = [age EXCEPT ![c] = 0]
    /\ UNCHANGED <<hubVars, chanVars, idVars, phase, connVars, send, tickDue,
                   sweepVars, writerVars>>

\* ReadMessage fails: at once on a socket we closed, perhaps never on one whose
\* peer vanished, since no read deadline is set.
ReadError(c) ==
    /\ phase[c] = "loop"
    /\ sock[c] # "open"
    /\ phase' = [phase EXCEPT ![c] = "unregister"]
    /\ UNCHANGED <<hubVars, chanVars, idVars, connVars, age, send, tickDue,
                   sweepVars, writerVars>>

\* The deferred Hub.Unregister(conn) of messageLoop.
Unregister(c) ==
    /\ phase[c] = "unregister"
    /\ SendUnregister(c)
    /\ phase' = [phase EXCEPT ![c] = "close"]
    /\ UNCHANGED <<hubVars, idVars, connVars, age, send, tickDue, sweepVars,
                   writerVars>>

\* The deferred conn.Close() and conn.Conn.Close().
CloseConn(c) ==
    /\ phase[c] = "close"
    /\ phase' = [phase EXCEPT ![c] = "done"]
    /\ cancelled' = cancelled \cup {c}
    /\ sock' = [sock EXCEPT ![c] = "closed"]
    /\ UNCHANGED <<hubVars, chanVars, idVars, pumping, age, send, tickDue,
                   sweepVars, writerVars>>

\* The environment: the agent's side of a connection goes away.
PeerLost(c) ==
    /\ phase[c] \notin {"idle", "done"}
    /\ sock[c] = "open"
    /\ sock' = [sock EXCEPT ![c] = "lost"]
    /\ UNCHANGED <<hubVars, chanVars, idVars, phase, cancelled, pumping, age,
                   send, tickDue, sweepVars, writerVars>>

-----------------------------------------------------------------------------
(* writePump.                                                              *)

\* A queued message is written.  The write to a lost peer may still succeed.
PumpWrite(c) ==
    /\ c \in pumping
    /\ send[c] # <<>>
    /\ sock[c] # "closed"
    /\ send' = [send EXCEPT ![c] = Tail(@)]
    /\ UNCHANGED <<hubVars, chanVars, idVars, phase, connVars, age, tickDue,
                   sweepVars, writerVars>>

\* Variant of PumpExit: the socket is left open.
PumpExitNoClose(c) ==
    /\ c \in pumping
    /\ pumping' = pumping \ {c}
    /\ UNCHANGED sock

\* writePump returns and its defer closes the socket.
PumpExit(c) ==
    /\ c \in pumping
    /\ pumping' = pumping \ {c}
    /\ sock' = [sock EXCEPT ![c] = "closed"]

\* A message or a ping cannot be written.
PumpFail(c) ==
    /\ sock[c] # "open"
    /\ PumpExit(c)
    /\ \/ UNCHANGED send
       \/ send[c] # <<>> /\ send' = [send EXCEPT ![c] = Tail(@)]
    /\ UNCHANGED <<hubVars, chanVars, idVars, phase, cancelled, age, tickDue,
                   sweepVars, writerVars>>

\* The connection's context is done.
PumpStop(c) ==
    /\ c \in cancelled
    /\ PumpExit(c)
    /\ UNCHANGED <<hubVars, chanVars, idVars, phase, cancelled, age, send,
                   tickDue, sweepVars, writerVars>>

-----------------------------------------------------------------------------
(* Hub.Run: select picks either channel when both are ready.               *)

\* Variant of DropFromOrg: the entry of the replaced connection is left behind.
KeepInOrg(m, o, a) == m

\* delete(h.byOrg[o], a), when the inner map exists.
DropFromOrg(m, o, a) ==
    [p \in Org |-> IF p = o THEN {d \in m[p] : id[d] # a} ELSE m[p]]

\* Hub.add.  An existing connection of the agent, which may be the very one
\* being registered, is closed and taken out of both maps first.
Add ==
    /\ hub # "stopped"
    /\ register # <<>>
    /\ LET c == Head(register)
           a == id[c]
           old == agents[a]
           rest == IF old = None THEN byOrg ELSE DropFromOrg(byOrg, org[old], a)
       IN  /\ cancelled' = IF old = None THEN cancelled ELSE cancelled \cup {old}
           /\ agents' = [agents EXCEPT ![a] = c]
           /\ byOrg' = [o \in Org |-> IF o = org[c]
                           THEN DropFromOrg(rest, o, a)[o] \cup {c} ELSE rest[o]]
           /\ orgKeys' = orgKeys \cup ({org[c]} \cap Org)
    /\ register' = Tail(register)
    /\ UNCHANGED <<unregister, hub, idVars, phase, sock, pumping, age, send,
                   tickDue, sweepVars, writerVars>>

\* Variant of IsCurrent: the entry of the agent is removed whoever holds it.
IsPresent(c) == agents[id[c]] # None

\* existing == conn: the connection to remove is the one registered now.
IsCurrent(c) == agents[id[c]] = c

\* Hub.remove: only the connection that is registered now may be removed.
Remove ==
    /\ hub # "stopped"
    /\ unregister # <<>>
    /\ LET c == Head(unregister)
           left == DropFromOrg(byOrg, org[c], id[c])
       IN  IF IsCurrent(c)
           THEN /\ agents' = [agents EXCEPT ![id[c]] = None]
                /\ byOrg' = left
                /\ orgKeys' = {o \in orgKeys : o # org[c] \/ left[o] # {}}
           ELSE UNCHANGED hubVars
    /\ unregister' = Tail(unregister)
    /\ UNCHANGED <<register, hub, idVars, phase, connVars, age, send, tickDue,
                   sweepVars, writerVars>>

\* Hub.Shutdown cancels the hub's context; Run returns when it notices.
Shutdown ==
    /\ MayShutdown
    /\ hub = "up"
    /\ hub' = "stopping"
    /\ UNCHANGED <<hubVars, register, unregister, idVars, phase, connVars, age,
                   send, tickDue, sweepVars, writerVars>>

RunReturns ==
    /\ hub = "stopping"
    /\ hub' = "stopped"
    /\ UNCHANGED <<hubVars, register, unregister, idVars, phase, connVars, age,
                   send, tickDue, sweepVars, writerVars>>

-----------------------------------------------------------------------------
(* HeartbeatCheck.                                                         *)

\* One heartbeatInterval passes for every connection object.
Older(c) == IF phase[c] # "idle" /\ age[c] < MaxAge THEN age[c] + 1 ELSE age[c]

Tick ==
    /\ TimePasses
    /\ age' = [c \in Conn |-> Older(c)]
    /\ tickDue' = TRUE
    /\ UNCHANGED <<hubVars, chanVars, idVars, phase, connVars, send, sweepVars,
                   writerVars>>

\* Variant of TimedOut: connections already closed are not looked at.
TimedOutAndOpen(c) == age[c] > HeartbeatTimeout /\ c \notin cancelled

\* now.Sub(conn.LastPing) > heartbeatTimeout
TimedOut(c) == age[c] > HeartbeatTimeout

\* checkHeartbeats collects the timed out connections under the read lock ...
SweepStart ==
    /\ tickDue
    /\ sweep = {} /\ sweepCur = None
    /\ tickDue' = FALSE
    /\ sweep' = {c \in Conn : Registered(c) /\ TimedOut(c)}
    /\ UNCHANGED <<hubVars, chanVars, idVars, phase, connVars, age, send,
                   sweepCur, writerVars>>

\* ... then, without it, unregisters each one ...
SweepUnregister(c) ==
    /\ c \in sweep
    /\ sweepCur = None
    /\ SendUnregister(c)
    /\ sweep' = sweep \ {c}
    /\ sweepCur' = c
    /\ UNCHANGED <<hubVars, idVars, phase, connVars, age, send, tickDue,
                   writerVars>>

\* ... and closes it.
SweepClose(c) ==
    /\ sweepCur = c
    /\ cancelled' = cancelled \cup {c}
    /\ sweepCur' = None
    /\ UNCHANGED <<hubVars, chanVars, idVars, phase, sock, pumping, age, send,
                   tickDue, sweep, writerVars>>

-----------------------------------------------------------------------------
(* Senders: the connections are looked up under the read lock and written  *)
(* to after it is released.                                                *)

SendToAgent(w, a) ==
    /\ pend[w] = {}
    /\ agents[a] # None
    /\ pend' = [pend EXCEPT ![w] = {agents[a]}]
    /\ msg' = [msg EXCEPT ![w] = <<"agent", a>>]
    /\ UNCHANGED <<hubVars, chanVars, idVars, phase, connVars, age, send,
                   tickDue, sweepVars>>

\* Variant of OrgConns: every registered connection.
AllConns(o) == {c \in Conn : Registered(c)}

\* The snapshot of h.byOrg[orgID].
OrgConns(o) == byOrg[o]

BroadcastToOrg(w, o) ==
    /\ pend[w] = {}
    /\ o \in orgKeys
    /\ pend' = [pend EXCEPT ![w] = OrgConns(o)]
    /\ msg' = [msg EXCEPT ![w] = <<"org", o>>]
    /\ UNCHANGED <<hubVars, chanVars, idVars, phase, connVars, age, send,
                   tickDue, sweepVars>>

WriteNext(w, c) ==
    /\ c \in pend[w]
    /\ WriteMessage(c, msg[w])
    /\ pend' = [pend EXCEPT ![w] = @ \ {c}]
    /\ UNCHANGED <<hubVars, chanVars, idVars, phase, connVars, age, tickDue,
                   sweepVars, msg>>

-----------------------------------------------------------------------------
HandlerStep(c) == \/ Hello(c) \/ HelloFail(c)
                  \/ Register(c) \/ Welcome(c) \/ Reregister(c)
                  \/ Receive(c) \/ ReadError(c) \/ Unregister(c) \/ CloseConn(c)

PumpStep(c) == PumpWrite(c) \/ PumpFail(c) \/ PumpStop(c)

HubStep == Add \/ Remove \/ Shutdown \/ RunReturns

HeartbeatStep == \/ Tick \/ SweepStart
                 \/ \E c \in Conn : SweepUnregister(c) \/ SweepClose(c)

WriterStep(w) == \/ \E a \in Agent : SendToAgent(w, a)
                 \/ \E o \in Org : BroadcastToOrg(w, o)
                 \/ \E c \in Conn : WriteNext(w, c)

Next == \/ \E c \in Conn : HandlerStep(c) \/ PeerLost(c) \/ PumpStep(c)
        \/ HubStep
        \/ HeartbeatStep
        \/ \E w \in Writer : WriterStep(w)

\* Every goroutine that can run is scheduled, select does not starve a ready
\* case, and time passes.  Nothing is promised about new connections, incoming
\* messages, the fate of a lost peer, or a shutdown; HeartbeatCheck and Run
\* are only promised to run while the hub is up.
Fairness ==
    /\ \A c \in Conn :
          /\ WF_vars(Register(c)) /\ WF_vars(Welcome(c)) /\ WF_vars(Reregister(c))
          /\ WF_vars(sock[c] = "closed" /\ ReadError(c))
          /\ WF_vars(Unregister(c)) /\ WF_vars(CloseConn(c))
          /\ WF_vars(PumpStop(c))
          /\ WF_vars(SweepUnregister(c)) /\ WF_vars(SweepClose(c))
    /\ WF_vars(hub = "up" /\ Add)
    /\ WF_vars(hub = "up" /\ Remove)
    /\ WF_vars(Tick)
    /\ WF_vars(hub = "up" /\ SweepStart)

Spec == Init /\ [][Next]_vars
FairSpec == Spec /\ Fairness

-----------------------------------------------------------------------------
(* Properties.                                                             *)

\* Hub.agents and Hub.byOrg agree whatever the order in which connections are
\* added, replaced and removed: the inner map of an organisation holds exactly
\* the registered connections of that organisation, and its key is present
\* whenever one is.
IndexesAgree ==
    \A o \in Org :
       /\ byOrg[o] = {c \in Conn : Registered(c) /\ org[c] = o}
       /\ byOrg[o] # {} => o \in orgKeys

\* While the hub is up, a connection that serves an agent and was not
\* cancelled can be found in the hub, waits to be added, or is about to be
\* closed by the heartbeat sweep.  No late unregister of an older connection
\* and no replacement leaves a live connection that nobody can reach.
ServingIsReachable ==
    \A c \in Conn :
       (hub = "up" /\ phase[c] \in {"welcome", "reregister", "loop"}
                   /\ c \notin cancelled)
       => \/ Registered(c)
          \/ InQueue(register, c)
          \/ sweepCur = c

\* SendToAgent and BroadcastToOrg write after the lock is released, to
\* connections that may have been replaced since; still a message only ever
\* reaches a connection of the agent or organisation it was meant for.
Addressed(c, m) == \/ m[1] = "welcome"
                   \/ m[1] = "agent" /\ id[c] = m[2]
                   \/ m[1] = "org" /\ org[c] = m[2]
MessageIsolation ==
    /\ \A c \in Conn, m \in Message : InQueue(send[c], m) => Addressed(c, m)
    /\ \A w \in Writer : \A c \in pend[w] : Addressed(c, msg[w])

\* The parts that make the three invariants above inductive: a connection
\* object is unknown to everybody before its handshake, everything the hub, the
\* sweep and the writers hold went through one, and whoever asks for an
\* unregistration is on its way to close the connection.
Named == \A c \in Conn :
    /\ phase[c] = "idle" => id[c] = None
    /\ id[c] = None => /\ phase[c] \in {"idle", "done"}
                       /\ ~InQueue(register, c) /\ ~InQueue(unregister, c)
                       /\ c \notin sweep /\ sweepCur # c
                       /\ send[c] = <<>>
                       /\ \A w \in Writer : c \notin pend[w]
HubNamed == \A a \in Agent : agents[a] # None => id[agents[a]] = a
UnregisterCloses ==
    \A c \in Conn : InQueue(unregister, c) =>
       c \in cancelled \/ sweepCur = c \/ phase[c] \in {"close", "done"}

IInv == /\ TypeOK /\ Named /\ HubNamed /\ UnregisterCloses
        /\ IndexesAgree /\ ServingIsReachable /\ MessageIsolation

\* A context that is done ends its connection: writePump closes the socket,
\* the blocked ReadMessage returns, and the handler finishes, also when the
\* hub has been shut down and nobody reads its channels.
CancelledEnds == \A c \in Conn : c \in cancelled ~> phase[c] = "done"

\* The hub may process an unregister before the register that it follows, and
\* then holds a finished connection; the heartbeat sweep gets rid of it.
FinishedLeavesHub ==
    \A c \in Conn :
       <>[](hub = "up" /\ phase[c] = "done" => ~Registered(c))

\* What the gateway's acceptance criterion asks: after the handshake the
\* agent stays registered with a working heartbeat.  A context is cancelled
\* only for a connection that is replaced by another one, that timed out, or
\* whose handler ended.
CancelledForAReason ==
    [][\A c \in cancelled' \ cancelled :
          \/ phase[c] = "close"
          \/ sweepCur = c
          \/ \E d \in Conn \ {c} : agents'[id[c]] = d]_vars
=============================================================================
