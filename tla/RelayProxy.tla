----------------------------- MODULE RelayProxy ------------------------------
(***************************************************************************)
(* HTTP requests through a relay: agents connect a tunnel over one QUIC    *)
(* stream (handleQUICConnection), requests are looked up, written to that  *)
(* stream and answered from it (ReverseProxy.handleHTTP, the multiplexer,  *)
(* EncodeFrame and DecodeFrame), and the agent's two forwarding loops tie  *)
(* the stream to one connection of the local service.                      *)
(*                                                                         *)
(* A frame is two writes and two reads, its header and its payload, and    *)
(* nothing serialises the goroutines that use a stream, so a stream is a   *)
(* sequence of such chunks.  A chunk names the request it belongs to and,  *)
(* in an answer, the part of the answer: the agent sends one frame for     *)
(* each read of the local connection.                                      *)
(***************************************************************************)
EXTENDS Naturals, Sequences

CONSTANTS Tunnel, Agent, Request, None, Config, Ack,
          BadGateway, \* the error page of a 502
          Declared,   \* the tunnel an agent names in TUNNEL_CONNECT
          TokenFor,   \* what Validate returns for its token, None for an error
          HostOf,     \* the tunnel that owns the host of a request
          PartsOf,    \* frames the agent needs for the answer to a request
          MaxStream   \* bound on the streams a run creates

Chunk == [kind : {"header", "payload"}, of : Request \cup {Ack}, part : Nat]
Header(x, k) == [kind |-> "header", of |-> x, part |-> k]
Payload(x, k) == [kind |-> "payload", of |-> x, part |-> k]

ASSUME ProxyAssumption ==
    /\ None \notin Tunnel \cup Agent /\ Config \notin Agent /\ Config # None
    /\ Ack \notin Request /\ {None, BadGateway} \cap Chunk = {} /\ BadGateway # None
    /\ Declared \in [Agent -> Tunnel]
    /\ TokenFor \in [Agent -> Tunnel \cup {None}]
    /\ HostOf \in [Request -> Tunnel]
    /\ PartsOf \in [Request -> Nat \ {0}]
    /\ MaxStream \in Nat

VARIABLES
    tunnels,      \* Dispatcher.tunnels: the agent or config update that set it
    indexed,      \* the tunnels whose domain is in Dispatcher.byDomain
    nextStreamID, active,   \* the StreamMultiplexer
    handler,      \* handleQUICConnection, per agent
    sc,           \* its local stream id
    ctxStream,    \* TunnelContext.StreamID of the context it registered
    down, up,     \* the chunks under way to the agent and back
    agent,        \* the agent's end of the stream
    local,        \* answers its local service has still to send
    seen,         \* the requests of which the agent received bytes
    rpc, rctx, header, answer   \* ServeHTTP, per request

relayVars == <<tunnels, indexed, nextStreamID, active, handler, sc, ctxStream>>
agentVars == <<agent, local, seen>>
requestVars == <<rpc, rctx, header, answer>>
vars == <<relayVars, down, up, agentVars, requestVars>>

RelayType ==
    /\ tunnels \in [Tunnel -> Agent \cup {Config, None}]
    /\ indexed \in SUBSET Tunnel
    /\ nextStreamID \in 1 .. MaxStream + 1
    /\ active \in [1 .. MaxStream -> Agent \cup {None}]
    /\ handler \in [Agent -> {"new", "rejected", "registered", "streamed", "set",
                              "acking", "up", "gone"}]
    /\ sc \in [Agent -> 0 .. MaxStream]
    /\ ctxStream \in [Agent -> 0 .. MaxStream]

AgentType ==
    /\ down \in [Agent -> Seq(Chunk)]
    /\ up \in [Agent -> Seq(Chunk)]
    /\ agent \in [Agent -> {"connecting", "ready", "broken"}]
    /\ local \in [Agent -> Seq(Request \X Nat)]
    /\ seen \in [Agent -> SUBSET Request]

RequestType ==
    /\ rpc \in [Request -> {"new", "found", "writing", "waiting", "reading", "done"}]
    /\ rctx \in [Request -> Agent \cup {Config, None}]
    /\ header \in [Request -> Chunk \cup {None}]
    /\ answer \in [Request -> Chunk \cup {None, BadGateway}]

TypeOK == RelayType /\ AgentType /\ RequestType

Init ==
    /\ tunnels = [t \in Tunnel |-> None]
    /\ indexed = {}
    /\ nextStreamID = 1
    /\ active = [i \in 1 .. MaxStream |-> None]
    /\ handler = [a \in Agent |-> "new"]
    /\ sc = [a \in Agent |-> 0]
    /\ ctxStream = [a \in Agent |-> 0]
    /\ down = [a \in Agent |-> <<>>]
    /\ up = [a \in Agent |-> <<>>]
    /\ agent = [a \in Agent |-> "connecting"]
    /\ local = [a \in Agent |-> <<>>]
    /\ seen = [a \in Agent |-> {}]
    /\ rpc = [r \in Request |-> "new"]
    /\ rctx = [r \in Request |-> None]
    /\ header = [r \in Request |-> None]
    /\ answer = [r \in Request |-> None]

-----------------------------------------------------------------------------
(* OnConfigUpdate: a new context with the domain and without a stream id   *)
(* (nothing in the repository sends the optional stream_id of an update).  *)

ConfigUpdate(t) ==
    /\ tunnels' = [tunnels EXCEPT ![t] = Config]
    /\ indexed' = indexed \cup {t}
    /\ UNCHANGED <<nextStreamID, active, handler, sc, ctxStream, down, up, agentVars, requestVars>>

-----------------------------------------------------------------------------
(* handleQUICConnection.                                                   *)

\* Variant of Accepted: the declared tunnel is not compared with the token's.
AcceptedForAnyTunnel(a) == TokenFor[a] # None

\* Validate accepts the token and returns the declared tunnel.
Accepted(a) == TokenFor[a] = Declared[a]

Reject(a) ==
    /\ handler[a] = "new" /\ ~Accepted(a)
    /\ handler' = [handler EXCEPT ![a] = "rejected"]
    /\ UNCHANGED <<tunnels, indexed, nextStreamID, active, sc, ctxStream, down, up, agentVars, requestVars>>

\* The context registered has a tunnel id only, so Register is one store.
Register(a) ==
    /\ handler[a] = "new" /\ Accepted(a)
    /\ tunnels' = [tunnels EXCEPT ![Declared[a]] = a]
    /\ handler' = [handler EXCEPT ![a] = "registered"]
    /\ UNCHANGED <<indexed, nextStreamID, active, sc, ctxStream, down, up, agentVars, requestVars>>

NewStream(a) ==
    /\ handler[a] = "registered" /\ nextStreamID <= MaxStream
    /\ active' = [active EXCEPT ![nextStreamID] = a]
    /\ nextStreamID' = nextStreamID + 1
    /\ sc' = [sc EXCEPT ![a] = nextStreamID]
    /\ handler' = [handler EXCEPT ![a] = "streamed"]
    /\ UNCHANGED <<tunnels, indexed, ctxStream, down, up, agentVars, requestVars>>

\* The stream id is set after the context was published.
SetStream(a) ==
    /\ handler[a] = "streamed"
    /\ ctxStream' = [ctxStream EXCEPT ![a] = sc[a]]
    /\ handler' = [handler EXCEPT ![a] = "set"]
    /\ UNCHANGED <<tunnels, indexed, nextStreamID, active, sc, down, up, agentVars, requestVars>>

AckHeader(a) ==
    /\ handler[a] = "set"
    /\ down' = [down EXCEPT ![a] = Append(@, Header(Ack, 0))]
    /\ handler' = [handler EXCEPT ![a] = "acking"]
    /\ UNCHANGED <<tunnels, indexed, nextStreamID, active, sc, ctxStream, up, agentVars, requestVars>>

AckPayload(a) ==
    /\ handler[a] = "acking"
    /\ down' = [down EXCEPT ![a] = Append(@, Payload(Ack, 0))]
    /\ handler' = [handler EXCEPT ![a] = "up"]
    /\ UNCHANGED <<tunnels, indexed, nextStreamID, active, sc, ctxStream, up, agentVars, requestVars>>

\* The agent's connection is lost.  The relay keeps its stream and context:
\* the handler only waits for the server to end.
AgentGone(a) ==
    /\ handler[a] \in {"registered", "streamed", "set", "acking", "up"}
    /\ handler' = [handler EXCEPT ![a] = "gone"]
    /\ UNCHANGED <<tunnels, indexed, nextStreamID, active, sc, ctxStream, down, up, agentVars, requestVars>>

-----------------------------------------------------------------------------
(* The agent: waitConnectAck, then forwardRemoteToLocal; both decode one   *)
(* frame at a time from the stream.                                        *)

Take2(a) == /\ handler[a] # "gone"
            /\ agent[a] # "broken"
            /\ Len(down[a]) >= 2

Whole(c1, c2) == c1.kind = "header" /\ c2.kind = "payload" /\ c1.of = c2.of

AgentConnects(a) ==
    /\ Take2(a) /\ agent[a] = "connecting"
    /\ Whole(down[a][1], down[a][2]) /\ down[a][1].of = Ack
    /\ agent' = [agent EXCEPT ![a] = "ready"]
    /\ down' = [down EXCEPT ![a] = Tail(Tail(@))]
    /\ UNCHANGED <<relayVars, up, local, seen, requestVars>>

\* The payload goes to the local service, which answers in order.
AgentForwards(a) ==
    /\ Take2(a) /\ agent[a] = "ready"
    /\ Whole(down[a][1], down[a][2]) /\ down[a][1].of # Ack
    /\ LET r == down[a][1].of
       IN  /\ local' = [local EXCEPT ![a] = @ \o [k \in 1 .. PartsOf[r] |-> <<r, k>>]]
           /\ seen' = [seen EXCEPT ![a] = @ \cup {r}]
    /\ down' = [down EXCEPT ![a] = Tail(Tail(@))]
    /\ UNCHANGED <<relayVars, up, agent, requestVars>>

\* Any other sequence of chunks: a frame that is not the acknowledgement ends
\* Establish, a damaged one ends the forwarding loop.  (The loop skips control
\* frames, but the acknowledgement is sent once and read by Establish.)
AgentBreaks(a) ==
    /\ Take2(a)
    /\ \/ ~Whole(down[a][1], down[a][2])
       \/ agent[a] = "connecting" /\ down[a][1].of # Ack
    /\ agent' = [agent EXCEPT ![a] = "broken"]
    /\ seen' = [seen EXCEPT ![a] = @ \cup ({down[a][1].of, down[a][2].of} \ {Ack})]
    /\ UNCHANGED <<relayVars, down, up, local, requestVars>>

\* forwardLocalToRemote: one read of the local connection, one frame.
LocalAnswers(a) ==
    /\ handler[a] # "gone" /\ local[a] # <<>>
    /\ LET x == Head(local[a])
       IN  up' = [up EXCEPT ![a] = @ \o <<Header(x[1], x[2]), Payload(x[1], x[2])>>]
    /\ local' = [local EXCEPT ![a] = Tail(@)]
    /\ UNCHANGED <<relayVars, down, agent, seen, requestVars>>

-----------------------------------------------------------------------------
(* ServeHTTP and handleHTTP.                                               *)

Respond(r, x) ==
    /\ rpc' = [rpc EXCEPT ![r] = "done"]
    /\ answer' = [answer EXCEPT ![r] = x]

Found(r) == HostOf[r] \in indexed /\ tunnels[HostOf[r]] # None

LookupFails(r) ==
    /\ rpc[r] = "new" /\ ~Found(r)
    /\ Respond(r, BadGateway)
    /\ UNCHANGED <<relayVars, down, up, agentVars, rctx, header>>

Lookup(r) ==
    /\ rpc[r] = "new" /\ Found(r)
    /\ rctx' = [rctx EXCEPT ![r] = tunnels[HostOf[r]]]
    /\ rpc' = [rpc EXCEPT ![r] = "found"]
    /\ UNCHANGED <<relayVars, down, up, agentVars, header, answer>>

\* The connection behind tunnelCtx.StreamID, None when the multiplexer has no
\* such stream: a config update has none, a new agent has none yet.
ConnOf(x) == IF x = Config \/ ctxStream[x] = 0 THEN None ELSE active[ctxStream[x]]

Unreachable(r) == ConnOf(rctx[r]) # None => handler[ConnOf(rctx[r])] = "gone"

\* The body cannot be read, serialised or compressed, the frame would exceed
\* MaxPayload, or the agent cannot be reached.
ForwardFails(r) ==
    /\ rpc[r] = "found" \/ (rpc[r] = "writing" /\ Unreachable(r))
    /\ Respond(r, BadGateway)
    /\ UNCHANGED <<relayVars, down, up, agentVars, rctx, header>>

ForwardHeader(r) ==
    /\ rpc[r] = "found" /\ ~Unreachable(r)
    /\ down' = [down EXCEPT ![ConnOf(rctx[r])] = Append(@, Header(r, 0))]
    /\ rpc' = [rpc EXCEPT ![r] = "writing"]
    /\ UNCHANGED <<relayVars, up, agentVars, rctx, header, answer>>

ForwardPayload(r) ==
    /\ rpc[r] = "writing" /\ ~Unreachable(r)
    /\ down' = [down EXCEPT ![ConnOf(rctx[r])] = Append(@, Payload(r, 0))]
    /\ rpc' = [rpc EXCEPT ![r] = "waiting"]
    /\ UNCHANGED <<relayVars, up, agentVars, rctx, header, answer>>

Stream(r) == up[ConnOf(rctx[r])]

\* DecodeFrame reads a header; payload bytes fail its magic number.
ReceiveHeader(r) ==
    /\ rpc[r] = "waiting" /\ Stream(r) # <<>>
    /\ IF Head(Stream(r)).kind = "header"
       THEN /\ header' = [header EXCEPT ![r] = Head(Stream(r))]
            /\ rpc' = [rpc EXCEPT ![r] = "reading"]
            /\ UNCHANGED answer
       ELSE Respond(r, BadGateway) /\ UNCHANGED header
    /\ up' = [up EXCEPT ![ConnOf(rctx[r])] = Tail(@)]
    /\ UNCHANGED <<relayVars, down, agentVars, rctx>>

\* It then takes the bytes that follow for the payload.
ReceivePayload(r) ==
    /\ rpc[r] = "reading" /\ Stream(r) # <<>>
    /\ Respond(r, Head(Stream(r)))
    /\ up' = [up EXCEPT ![ConnOf(rctx[r])] = Tail(@)]
    /\ UNCHANGED <<relayVars, down, agentVars, rctx, header>>

\* Variant of ReceiveFails: a request whose agent is lost is sent again to
\* the agent that serves the tunnel by now.
ReceiveFailsAndRetries(r) ==
    /\ rpc[r] \in {"waiting", "reading"}
    /\ Stream(r) = <<>> /\ handler[ConnOf(rctx[r])] = "gone"
    /\ rctx' = [rctx EXCEPT ![r] = tunnels[HostOf[r]]]
    /\ rpc' = [rpc EXCEPT ![r] = "found"]
    /\ UNCHANGED <<relayVars, down, up, agentVars, header, answer>>

ReceiveFails(r) ==
    /\ rpc[r] \in {"waiting", "reading"}
    /\ Stream(r) = <<>> /\ handler[ConnOf(rctx[r])] = "gone"
    /\ Respond(r, BadGateway)
    /\ UNCHANGED <<relayVars, down, up, agentVars, rctx, header>>

-----------------------------------------------------------------------------
Handler(a) == \/ Reject(a) \/ Register(a) \/ NewStream(a) \/ SetStream(a)
              \/ AckHeader(a) \/ AckPayload(a)
AgentStep(a) == \/ AgentConnects(a) \/ AgentForwards(a) \/ AgentBreaks(a)
                \/ LocalAnswers(a)
Serve(r) == \/ LookupFails(r) \/ Lookup(r)
            \/ ForwardFails(r) \/ ForwardHeader(r) \/ ForwardPayload(r)
            \/ ReceiveHeader(r) \/ ReceivePayload(r) \/ ReceiveFails(r)

Next == \/ \E t \in Tunnel : ConfigUpdate(t)
        \/ \E a \in Agent : Handler(a) \/ AgentGone(a) \/ AgentStep(a)
        \/ \E r \in Request : Serve(r)

Spec == Init /\ [][Next]_vars

-----------------------------------------------------------------------------
(* Properties.                                                             *)

Answered(r) == rpc[r] = "done" /\ answer[r] # BadGateway

\* The bytes of a request reach only agents that proved, with their token,
\* that they serve its tunnel, and its answer is made of bytes that such an
\* agent sent for a request to the same tunnel, whatever config updates,
\* reconnects and other requests happen in between.
TunnelIsolation ==
    /\ \A a \in Agent : \A r \in seen[a] : TokenFor[a] = HostOf[r]
    /\ \A r \in Request : Answered(r) => HostOf[answer[r].of] = HostOf[r]

\* However many requests share a stream and however they are mixed up on it,
\* none is executed by two agents and nothing an agent answers is given to
\* two clients: every frame is written once and taken once.
NothingTwice ==
    /\ \A a, b \in Agent : seen[a] \cap seen[b] # {} => a = b
    /\ \A r, p \in Request :
          Answered(r) /\ Answered(p) /\ answer[r] = answer[p] => r = p

\* The answer a client receives is the answer to its own request.  False as
\* soon as two requests of a tunnel are in progress or an answer takes two
\* frames: the frames name no request.
AnswerMatchesRequest ==
    \A r \in Request : Answered(r) =>
       answer[r].kind = "payload" /\ answer[r].of = r

(* What makes TunnelIsolation inductive: who is behind a tunnel, a context  *)
(* and a stream id, and which chunks each stream may carry.                *)

Published ==
    /\ \A t \in Tunnel : tunnels[t] \in Agent =>
          Declared[tunnels[t]] = t /\ TokenFor[tunnels[t]] = t
    /\ \A r \in Request : rctx[r] \in Agent => TokenFor[rctx[r]] = HostOf[r]
Streams ==
    \A a \in Agent :
       /\ sc[a] # 0 => sc[a] < nextStreamID /\ active[sc[a]] = a
       /\ ctxStream[a] \in {0, sc[a]}
       /\ handler[a] \in {"new", "registered"} => sc[a] = 0
       /\ handler[a] = "streamed" => sc[a] # 0
DownChunk(a) == {x \in Chunk : x.of = Ack \/ HostOf[x.of] = TokenFor[a]}
UpChunk(a) == {x \in Chunk : x.of \in Request /\ HostOf[x.of] = TokenFor[a]}
LocalPart(a) == {x \in Request \X Nat : HostOf[x[1]] = TokenFor[a]}
Flow ==
    \A a \in Agent :
       /\ down[a] \in Seq(DownChunk(a))
       /\ up[a] \in Seq(UpChunk(a))
       /\ local[a] \in Seq(LocalPart(a))
       /\ \A r \in seen[a] : TokenFor[a] = HostOf[r]
Waiting ==
    \A r \in Request :
       /\ rpc[r] \in {"found", "writing"} => rctx[r] # None
       /\ rpc[r] \in {"waiting", "reading"} => rctx[r] \in Agent /\ ctxStream[rctx[r]] # 0
Answers ==
    \A r \in Request :
       /\ rpc[r] = "done" => answer[r] # None
       /\ answer[r] \in Chunk => answer[r].of \in Request /\ HostOf[answer[r].of] = HostOf[r]

IInv == TypeOK /\ Published /\ Streams /\ Flow /\ Waiting /\ Answers
=============================================================================
