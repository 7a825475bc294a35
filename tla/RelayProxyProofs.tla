-------------------------- MODULE RelayProxyProofs ---------------------------
(***************************************************************************)
(* Tunnel isolation at the relay, for any number of tunnels, agents and    *)
(* requests, any number of them in flight, and answers of any length; and  *)
(* that nothing is executed or answered twice.                             *)
(***************************************************************************)
EXTENDS RelayProxy, SequenceTheorems, TLAPS

USE ProxyAssumption DEF ProxyAssumption

\* Chunks are records with the fields they are built from.
LEMMA ChunkFields ==
    ASSUME NEW x \in Request \cup {Ack}, NEW k \in Nat
    PROVE  /\ Header(x, k) \in Chunk /\ Header(x, k).of = x /\ Header(x, k).part = k
           /\ Payload(x, k) \in Chunk /\ Payload(x, k).of = x /\ Payload(x, k).part = k
  BY DEF Chunk, Header, Payload

\* Receiving leaves the rest of a stream.
LEMMA StreamTail ==
    ASSUME NEW S, NEW s \in Seq(S), s # <<>>
    PROVE  Head(s) \in S /\ Tail(s) \in Seq(S)
  OBVIOUS

\* A decoder that finds two chunks takes both.
LEMMA StreamTailTwo ==
    ASSUME NEW S, NEW s \in Seq(S), Len(s) >= 2
    PROVE  s[1] \in S /\ s[2] \in S /\ Tail(Tail(s)) \in Seq(S)
  <1>1. s # <<>> /\ 1 \in 1 .. Len(s) /\ 2 \in 1 .. Len(s)
    OBVIOUS
  <1>2. s[1] \in S /\ s[2] \in S
    BY <1>1, ElementOfSeq
  <1>3. Tail(s) \in Seq(S) /\ Len(Tail(s)) = Len(s) - 1
    BY <1>1, HeadTailProperties
  <1>4. Len(Tail(s)) # 0 /\ Len(<<>>) = 0
    BY <1>3
  <1>5. Tail(Tail(s)) \in Seq(S)
    BY <1>3, <1>4, HeadTailProperties
  <1> QED BY <1>2, <1>5

\* What an agent's streams carry before a step.
LEMMA OwnStreams ==
    ASSUME IInv, NEW a \in Agent
    PROVE  /\ down[a] \in Seq(Chunk) /\ down[a] \in Seq(DownChunk(a))
           /\ up[a] \in Seq(Chunk) /\ up[a] \in Seq(UpChunk(a))
           /\ local[a] \in Seq(Request \X Nat) /\ local[a] \in Seq(LocalPart(a))
           /\ seen[a] \in SUBSET Request /\ \A r \in seen[a] : TokenFor[a] = HostOf[r]
           /\ down = [down EXCEPT ![a] = down[a]] /\ up = [up EXCEPT ![a] = up[a]]
           /\ local = [local EXCEPT ![a] = local[a]] /\ seen = [seen EXCEPT ![a] = seen[a]]
           /\ agent \in [Agent -> {"connecting", "ready", "broken"}]
  <1>1. AgentType /\ Flow
    BY DEF IInv, TypeOK
  <1>2. down[a] \in Seq(Chunk) /\ up[a] \in Seq(Chunk) /\ local[a] \in Seq(Request \X Nat)
    BY <1>1 DEF AgentType
  <1>3. seen[a] \in SUBSET Request
    BY <1>1 DEF AgentType
  <1>4. /\ down[a] \in Seq(DownChunk(a)) /\ up[a] \in Seq(UpChunk(a))
        /\ local[a] \in Seq(LocalPart(a)) /\ \A r \in seen[a] : TokenFor[a] = HostOf[r]
    BY <1>1 DEF Flow
  <1>5. /\ down = [down EXCEPT ![a] = down[a]] /\ up = [up EXCEPT ![a] = up[a]]
        /\ local = [local EXCEPT ![a] = local[a]] /\ seen = [seen EXCEPT ![a] = seen[a]]
    BY <1>1 DEF AgentType
  <1> QED BY <1>1, <1>2, <1>3, <1>4, <1>5 DEF AgentType

\* After a step every stream still carries only what its agent may see or send.
StreamsKept ==
    /\ down' \in [Agent -> Seq(Chunk)] /\ up' \in [Agent -> Seq(Chunk)]
    /\ \A b \in Agent : down'[b] \in Seq(DownChunk(b)) /\ up'[b] \in Seq(UpChunk(b))

\* A step that changes the streams of one agent keeps what all carry.
LEMMA StreamsMove ==
    ASSUME IInv, NEW a \in Agent,
           NEW d \in Seq(Chunk), d \in Seq(DownChunk(a)), down' = [down EXCEPT ![a] = d],
           NEW u \in Seq(Chunk), u \in Seq(UpChunk(a)), up' = [up EXCEPT ![a] = u]
    PROVE  StreamsKept
  <1>1. down' \in [Agent -> Seq(Chunk)] /\ up' \in [Agent -> Seq(Chunk)]
    BY DEF IInv, TypeOK, AgentType
  <1>2. ASSUME NEW b \in Agent PROVE down'[b] \in Seq(DownChunk(b)) /\ up'[b] \in Seq(UpChunk(b))
    <2>1. CASE b = a BY <2>1 DEF IInv, TypeOK, AgentType
    <2>2. CASE b # a BY <2>2 DEF IInv, TypeOK, AgentType, Flow
    <2> QED BY <2>1, <2>2
  <1> QED BY <1>1, <1>2 DEF StreamsKept

\* So does a step that changes that agent's own state as well.
LEMMA AgentMoves ==
    ASSUME IInv, NEW a \in Agent,
           NEW l \in Seq(Request \X Nat), l \in Seq(LocalPart(a)), local' = [local EXCEPT ![a] = l],
           NEW s \in SUBSET Request, \A r \in s : TokenFor[a] = HostOf[r],
           seen' = [seen EXCEPT ![a] = s],
           agent' \in [Agent -> {"connecting", "ready", "broken"}],
           StreamsKept
    PROVE  AgentType' /\ Flow'
  <1>1. local' \in [Agent -> Seq(Request \X Nat)]
    BY DEF IInv, TypeOK, AgentType
  <1>2. seen' \in [Agent -> SUBSET Request]
    BY DEF IInv, TypeOK, AgentType
  <1>3. AgentType'
    BY <1>1, <1>2 DEF AgentType, StreamsKept
  <1>4. ASSUME NEW b \in Agent PROVE local'[b] \in Seq(LocalPart(b))
    <2>1. CASE b = a BY <2>1 DEF IInv, TypeOK, AgentType
    <2>2. CASE b # a BY <2>2 DEF IInv, TypeOK, AgentType, Flow
    <2> QED BY <2>1, <2>2
  <1>5. ASSUME NEW b \in Agent, NEW r \in seen'[b] PROVE TokenFor[b] = HostOf[r]
    <2>1. CASE b = a BY <2>1, <1>5 DEF IInv, TypeOK, AgentType
    <2>2. CASE b # a BY <2>2, <1>5 DEF IInv, TypeOK, AgentType, Flow
    <2> QED BY <2>1, <2>2
  <1>6. \A b \in Agent : /\ DownChunk(b)' = DownChunk(b) /\ UpChunk(b)' = UpChunk(b)
                         /\ LocalPart(b)' = LocalPart(b)
    BY DEF DownChunk, UpChunk, LocalPart
  <1>7. Flow'
    BY <1>4, <1>5, <1>6 DEF Flow, StreamsKept
  <1> QED BY <1>3, <1>7
\* The connection behind a context is that of the agent that registered it,
\* which has proved that it serves the tunnel of the request.
LEMMA ConnIsOwn ==
    ASSUME IInv, NEW r \in Request, rctx[r] # None, ConnOf(rctx[r]) # None
    PROVE  /\ rctx[r] \in Agent /\ ConnOf(rctx[r]) = rctx[r]
           /\ ctxStream[rctx[r]] # 0 /\ TokenFor[rctx[r]] = HostOf[r]
  <1>1. rctx[r] \in Agent /\ ctxStream[rctx[r]] # 0
    BY DEF IInv, TypeOK, RequestType, ConnOf
  <1>2. active[ctxStream[rctx[r]]] = rctx[r]
    BY <1>1 DEF IInv, Streams
  <1>3. TokenFor[rctx[r]] = HostOf[r]
    BY <1>1 DEF IInv, Published
  <1> QED BY <1>1, <1>2, <1>3 DEF ConnOf

\* A request that waits for an answer waits for the agent of its tunnel.
LEMMA WaitsForOwn ==
    ASSUME IInv, NEW r \in Request, rpc[r] \in {"waiting", "reading"}
    PROVE  /\ rctx[r] \in Agent /\ ConnOf(rctx[r]) = rctx[r]
           /\ TokenFor[rctx[r]] = HostOf[r] /\ Stream(r) \in Seq(UpChunk(rctx[r]))
  <1>1. rctx[r] \in Agent /\ ctxStream[rctx[r]] # 0
    BY DEF IInv, Waiting
  <1>2. active[ctxStream[rctx[r]]] = rctx[r] /\ rctx[r] # Config
    BY <1>1 DEF IInv, Streams
  <1>3. ConnOf(rctx[r]) = rctx[r]
    BY <1>1, <1>2 DEF ConnOf
  <1>4. TokenFor[rctx[r]] = HostOf[r]
    BY <1>1 DEF IInv, Published
  <1>5. up[rctx[r]] \in Seq(UpChunk(rctx[r]))
    BY <1>1 DEF IInv, Flow
  <1> QED BY <1>1, <1>3, <1>4, <1>5 DEF Stream

\* A relay that has just started satisfies the invariant.
LEMMA InitInv == Init => IInv
  <1> SUFFICES ASSUME Init PROVE IInv
    OBVIOUS
  <1>1. RelayType
    BY DEF Init, RelayType
  <1>2. AgentType
    BY DEF Init, AgentType
  <1>3. RequestType
    BY DEF Init, RequestType
  <1>4. Published /\ Streams /\ Waiting
    BY DEF Init, Published, Streams, Waiting
  <1>5. Flow
    BY DEF Init, Flow
  <1>6. Answers
    BY DEF Init, Answers
  <1> QED BY <1>1, <1>2, <1>3, <1>4, <1>5, <1>6 DEF IInv, TypeOK

-----------------------------------------------------------------------------
\* A config update publishes a context that has no stream.
LEMMA ConfigUpdateInv ==
    ASSUME IInv, NEW t \in Tunnel, ConfigUpdate(t)
    PROVE  IInv'
  <1>1. AgentType' /\ RequestType' /\ Streams' /\ Flow' /\ Waiting' /\ Answers'
    BY DEF IInv, TypeOK, ConfigUpdate, relayVars, agentVars, requestVars,
       AgentType, RequestType, Streams, Flow, Waiting, Answers, DownChunk, UpChunk, LocalPart
  <1>2. RelayType'
    BY DEF IInv, TypeOK, RelayType, AgentType, RequestType, ConfigUpdate,
       relayVars, agentVars, requestVars
  <1>3. Published'
    BY DEF IInv, TypeOK, RelayType, AgentType, RequestType, Published, ConfigUpdate,
       relayVars, agentVars, requestVars
  <1> QED BY <1>1, <1>2, <1>3 DEF IInv, TypeOK

\* A rejected agent changes nothing else.
LEMMA RejectInv ==
    ASSUME IInv, NEW a \in Agent, Reject(a)
    PROVE  IInv'
  <1>1. AgentType' /\ RequestType' /\ Published' /\ Flow' /\ Waiting' /\ Answers'
    BY DEF IInv, TypeOK, Reject, relayVars, agentVars, requestVars,
       AgentType, RequestType, Published, Flow, Waiting, Answers, DownChunk, UpChunk, LocalPart
  <1>2. RelayType'
    BY DEF IInv, TypeOK, RelayType, AgentType, RequestType, Reject, Accepted,
       relayVars, agentVars, requestVars
  <1>3. Streams'
    BY DEF IInv, TypeOK, RelayType, AgentType, RequestType, Streams, Reject, Accepted,
       relayVars, agentVars, requestVars
  <1> QED BY <1>1, <1>2, <1>3 DEF IInv, TypeOK

\* Only an agent whose token is for the tunnel is published.
LEMMA RegisterInv ==
    ASSUME IInv, NEW a \in Agent, Register(a)
    PROVE  IInv'
  <1>1. AgentType' /\ RequestType' /\ Flow' /\ Waiting' /\ Answers'
    BY DEF IInv, TypeOK, Register, relayVars, agentVars, requestVars,
       AgentType, RequestType, Flow, Waiting, Answers, DownChunk, UpChunk, LocalPart
  <1>2. RelayType'
    BY DEF IInv, TypeOK, RelayType, AgentType, RequestType, Register, Accepted,
       relayVars, agentVars, requestVars
  <1>3. Published'
    BY DEF IInv, TypeOK, RelayType, AgentType, RequestType, Published, Register, Accepted,
       relayVars, agentVars, requestVars
  <1>4. Streams'
    BY DEF IInv, TypeOK, RelayType, AgentType, RequestType, Streams, Register, Accepted,
       relayVars, agentVars, requestVars
  <1> QED BY <1>1, <1>2, <1>3, <1>4 DEF IInv, TypeOK

\* A new stream id is not in use.
LEMMA NewStreamInv ==
    ASSUME IInv, NEW a \in Agent, NewStream(a)
    PROVE  IInv'
  <1>1. AgentType' /\ RequestType' /\ Published' /\ Flow' /\ Waiting' /\ Answers'
    BY DEF IInv, TypeOK, NewStream, relayVars, agentVars, requestVars,
       AgentType, RequestType, Published, Flow, Waiting, Answers, DownChunk, UpChunk, LocalPart
  <1>2. RelayType'
    BY DEF IInv, TypeOK, RelayType, AgentType, RequestType, NewStream,
       relayVars, agentVars, requestVars
  <1>3. Streams'
    <2>1. nextStreamID \in 1 .. MaxStream /\ sc \in [Agent -> 0 .. MaxStream]
      BY DEF IInv, TypeOK, RelayType, NewStream
    <2>2. ASSUME NEW b \in Agent, b # a, sc'[b] # 0
          PROVE  sc'[b] < nextStreamID' /\ active'[sc'[b]] = b
      BY <2>1, <2>2 DEF IInv, TypeOK, RelayType, Streams, NewStream
    <2>3. sc'[a] < nextStreamID' /\ active'[sc'[a]] = a
      BY <2>1 DEF IInv, TypeOK, RelayType, NewStream
    <2>4. ctxStream'[a] \in {0, sc'[a]}
      BY DEF IInv, Streams, NewStream
    <2>5. ASSUME NEW b \in Agent, b # a PROVE ctxStream'[b] \in {0, sc'[b]}
      BY <2>1, <2>5 DEF IInv, Streams, NewStream
    <2>6. ASSUME NEW b \in Agent
          PROVE  /\ handler'[b] \in {"new", "registered"} => sc'[b] = 0
                 /\ handler'[b] = "streamed" => sc'[b] # 0
      BY <2>1 DEF IInv, TypeOK, RelayType, Streams, NewStream
    <2> QED BY <2>2, <2>3, <2>4, <2>5, <2>6 DEF Streams
  <1> QED BY <1>1, <1>2, <1>3 DEF IInv, TypeOK

\* The context gets the id of the agent's own stream.
LEMMA SetStreamInv ==
    ASSUME IInv, NEW a \in Agent, SetStream(a)
    PROVE  IInv'
  <1>1. AgentType' /\ RequestType' /\ Published' /\ Flow' /\ Answers'
    BY DEF IInv, TypeOK, SetStream, relayVars, agentVars, requestVars,
       AgentType, RequestType, Published, Flow, Answers, DownChunk, UpChunk, LocalPart
  <1>2. RelayType'
    BY DEF IInv, TypeOK, RelayType, AgentType, RequestType, SetStream,
       relayVars, agentVars, requestVars
  <1>3. Streams'
    BY DEF IInv, TypeOK, RelayType, AgentType, RequestType, Streams, SetStream,
       relayVars, agentVars, requestVars
  <1>4. Waiting'
    <2>1. sc[a] # 0 /\ ctxStream' = [ctxStream EXCEPT ![a] = sc[a]]
      BY DEF IInv, Streams, SetStream
    <2>2. \A b \in Agent : ctxStream[b] # 0 => ctxStream'[b] # 0
      BY <2>1 DEF IInv, TypeOK, RelayType
    <2> QED BY <2>2 DEF IInv, Waiting, SetStream, requestVars
  <1> QED BY <1>1, <1>2, <1>3, <1>4 DEF IInv, TypeOK

\* The acknowledgement belongs to no request.
LEMMA AckHeaderInv ==
    ASSUME IInv, NEW a \in Agent, AckHeader(a)
    PROVE  IInv'
  <1>1. RequestType' /\ Published' /\ Waiting' /\ Answers'
    BY DEF IInv, TypeOK, AckHeader, relayVars, agentVars, requestVars,
       RequestType, Published, Waiting, Answers
  <1>2. AgentType' /\ Flow'
    <2> DEFINE d == Append(down[a], Header(Ack, 0))
               u == up[a]
               l == local[a]
               s == seen[a]
    <2>1. Header(Ack, 0) \in Chunk /\ Header(Ack, 0).of = Ack
      BY ChunkFields
    <2>2. Header(Ack, 0) \in DownChunk(a)
      BY <2>1 DEF DownChunk
    <2>3. d \in Seq(Chunk) /\ d \in Seq(DownChunk(a))
      BY <2>1, <2>2, OwnStreams, AppendProperties
    <2>5. /\ d \in Seq(Chunk) /\ d \in Seq(DownChunk(a))
          /\ u \in Seq(Chunk) /\ u \in Seq(UpChunk(a))
          /\ l \in Seq(Request \X Nat) /\ l \in Seq(LocalPart(a))
          /\ s \in SUBSET Request /\ \A q \in s : TokenFor[a] = HostOf[q]
      BY <2>3, OwnStreams
    <2>6. /\ down' = [down EXCEPT ![a] = d] /\ up' = [up EXCEPT ![a] = u]
          /\ local' = [local EXCEPT ![a] = l] /\ seen' = [seen EXCEPT ![a] = s]
      BY OwnStreams DEF AckHeader, agentVars
    <2>7. agent' \in [Agent -> {"connecting", "ready", "broken"}]
      BY OwnStreams DEF AckHeader, agentVars
    <2> HIDE DEF d, u, l, s
    <2>8. StreamsKept
      BY <2>5, <2>6, OwnStreams, StreamsMove
    <2> QED BY <2>5, <2>6, <2>7, <2>8, OwnStreams, AgentMoves
  <1>3. RelayType'
    BY DEF IInv, TypeOK, RelayType, AgentType, RequestType, AckHeader,
       relayVars, agentVars, requestVars
  <1>4. Streams'
    BY DEF IInv, TypeOK, RelayType, AgentType, RequestType, Streams, AckHeader,
       relayVars, agentVars, requestVars
  <1> QED BY <1>1, <1>2, <1>3, <1>4 DEF IInv, TypeOK

\* The acknowledgement belongs to no request.
LEMMA AckPayloadInv ==
    ASSUME IInv, NEW a \in Agent, AckPayload(a)
    PROVE  IInv'
  <1>1. RequestType' /\ Published' /\ Waiting' /\ Answers'
    BY DEF IInv, TypeOK, AckPayload, relayVars, agentVars, requestVars,
       RequestType, Published, Waiting, Answers
  <1>2. AgentType' /\ Flow'
    <2> DEFINE d == Append(down[a], Payload(Ack, 0))
               u == up[a]
               l == local[a]
               s == seen[a]
    <2>1. Payload(Ack, 0) \in Chunk /\ Payload(Ack, 0).of = Ack
      BY ChunkFields
    <2>2. Payload(Ack, 0) \in DownChunk(a)
      BY <2>1 DEF DownChunk
    <2>3. d \in Seq(Chunk) /\ d \in Seq(DownChunk(a))
      BY <2>1, <2>2, OwnStreams, AppendProperties
    <2>5. /\ d \in Seq(Chunk) /\ d \in Seq(DownChunk(a))
          /\ u \in Seq(Chunk) /\ u \in Seq(UpChunk(a))
          /\ l \in Seq(Request \X Nat) /\ l \in Seq(LocalPart(a))
          /\ s \in SUBSET Request /\ \A q \in s : TokenFor[a] = HostOf[q]
      BY <2>3, OwnStreams
    <2>6. /\ down' = [down EXCEPT ![a] = d] /\ up' = [up EXCEPT ![a] = u]
          /\ local' = [local EXCEPT ![a] = l] /\ seen' = [seen EXCEPT ![a] = s]
      BY OwnStreams DEF AckPayload, agentVars
    <2>7. agent' \in [Agent -> {"connecting", "ready", "broken"}]
      BY OwnStreams DEF AckPayload, agentVars
    <2> HIDE DEF d, u, l, s
    <2>8. StreamsKept
      BY <2>5, <2>6, OwnStreams, StreamsMove
    <2> QED BY <2>5, <2>6, <2>7, <2>8, OwnStreams, AgentMoves
  <1>3. RelayType'
    BY DEF IInv, TypeOK, RelayType, AgentType, RequestType, AckPayload,
       relayVars, agentVars, requestVars
  <1>4. Streams'
    BY DEF IInv, TypeOK, RelayType, AgentType, RequestType, Streams, AckPayload,
       relayVars, agentVars, requestVars
  <1> QED BY <1>1, <1>2, <1>3, <1>4 DEF IInv, TypeOK

\* A lost agent leaves the relay's state as it is.
LEMMA AgentGoneInv ==
    ASSUME IInv, NEW a \in Agent, AgentGone(a)
    PROVE  IInv'
  <1>1. AgentType' /\ RequestType' /\ Published' /\ Flow' /\ Waiting' /\ Answers'
    BY DEF IInv, TypeOK, AgentGone, relayVars, agentVars, requestVars,
       AgentType, RequestType, Published, Flow, Waiting, Answers, DownChunk, UpChunk, LocalPart
  <1>2. RelayType'
    BY DEF IInv, TypeOK, RelayType, AgentType, RequestType, AgentGone,
       relayVars, agentVars, requestVars
  <1>3. Streams'
    BY DEF IInv, TypeOK, RelayType, AgentType, RequestType, Streams, AgentGone,
       relayVars, agentVars, requestVars
  <1> QED BY <1>1, <1>2, <1>3 DEF IInv, TypeOK

\* The agent takes the acknowledgement.
LEMMA AgentConnectsInv ==
    ASSUME IInv, NEW a \in Agent, AgentConnects(a)
    PROVE  IInv'
  <1>1. RelayType' /\ RequestType' /\ Published' /\ Streams' /\ Waiting' /\ Answers'
    BY DEF IInv, TypeOK, AgentConnects, relayVars, agentVars, requestVars,
       RelayType, RequestType, Published, Streams, Waiting, Answers
  <1>2. AgentType' /\ Flow'
    <2> DEFINE d == Tail(Tail(down[a]))
               u == up[a]
               l == local[a]
               s == seen[a]
    <2>1. Len(down[a]) >= 2 /\ agent[a] \in {"connecting", "ready", "broken"}
      BY OwnStreams DEF AgentConnects, Take2
    <2>2. /\ Tail(Tail(down[a])) \in Seq(Chunk) /\ Tail(Tail(down[a])) \in Seq(DownChunk(a))
          /\ down[a][1] \in DownChunk(a) /\ down[a][2] \in DownChunk(a)
      BY <2>1, OwnStreams, StreamTailTwo
    <2>5. /\ d \in Seq(Chunk) /\ d \in Seq(DownChunk(a))
          /\ u \in Seq(Chunk) /\ u \in Seq(UpChunk(a))
          /\ l \in Seq(Request \X Nat) /\ l \in Seq(LocalPart(a))
          /\ s \in SUBSET Request /\ \A q \in s : TokenFor[a] = HostOf[q]
      BY <2>2, OwnStreams
    <2>6. /\ down' = [down EXCEPT ![a] = d] /\ up' = [up EXCEPT ![a] = u]
          /\ local' = [local EXCEPT ![a] = l] /\ seen' = [seen EXCEPT ![a] = s]
      BY OwnStreams DEF AgentConnects
    <2>7. agent' \in [Agent -> {"connecting", "ready", "broken"}]
      BY OwnStreams DEF AgentConnects
    <2> HIDE DEF d, u, l, s
    <2>8. StreamsKept
      BY <2>5, <2>6, OwnStreams, StreamsMove
    <2> QED BY <2>5, <2>6, <2>7, <2>8, OwnStreams, AgentMoves
  <1> QED BY <1>1, <1>2 DEF IInv, TypeOK

\* What the agent takes from its stream is for its tunnel.
LEMMA AgentForwardsInv ==
    ASSUME IInv, NEW a \in Agent, AgentForwards(a)
    PROVE  IInv'
  <1>1. RelayType' /\ RequestType' /\ Published' /\ Streams' /\ Waiting' /\ Answers'
    BY DEF IInv, TypeOK, AgentForwards, relayVars, agentVars, requestVars,
       RelayType, RequestType, Published, Streams, Waiting, Answers
  <1>2. AgentType' /\ Flow'
    <2> DEFINE r == down[a][1].of
               new == [k \in 1 .. PartsOf[r] |-> <<r, k>>]
    <2> DEFINE d == Tail(Tail(down[a]))
               u == up[a]
               l == local[a] \o new
               s == seen[a] \cup {r}
    <2>1. Len(down[a]) >= 2 /\ agent[a] \in {"connecting", "ready", "broken"}
      BY OwnStreams DEF AgentForwards, Take2
    <2>2. /\ Tail(Tail(down[a])) \in Seq(Chunk) /\ Tail(Tail(down[a])) \in Seq(DownChunk(a))
          /\ down[a][1] \in DownChunk(a) /\ down[a][2] \in DownChunk(a)
      BY <2>1, OwnStreams, StreamTailTwo
    <2>3. r \in Request /\ HostOf[r] = TokenFor[a]
      BY <2>2 DEF DownChunk, Chunk, AgentForwards
    <2>4. l \in Seq(Request \X Nat) /\ l \in Seq(LocalPart(a))
      <3> HIDE DEF r
      <3>1. PartsOf[r] \in Nat /\ \A k \in 1 .. PartsOf[r] : <<r, k>> \in Request \X Nat
        BY <2>3
      <3>2. \A k \in 1 .. PartsOf[r] : <<r, k>> \in LocalPart(a)
        BY <2>3, <3>1 DEF LocalPart
      <3>3. new \in Seq(Request \X Nat)
        BY <3>1
      <3>4. new \in Seq(LocalPart(a))
        BY <3>1, <3>2
      <3> HIDE DEF new
      <3> QED BY <3>3, <3>4, OwnStreams, ConcatProperties
    <2>5. /\ d \in Seq(Chunk) /\ d \in Seq(DownChunk(a))
          /\ u \in Seq(Chunk) /\ u \in Seq(UpChunk(a))
          /\ l \in Seq(Request \X Nat) /\ l \in Seq(LocalPart(a))
          /\ s \in SUBSET Request /\ \A q \in s : TokenFor[a] = HostOf[q]
      BY <2>2, <2>3, <2>4, OwnStreams
    <2>6. /\ down' = [down EXCEPT ![a] = d] /\ up' = [up EXCEPT ![a] = u]
          /\ local' = [local EXCEPT ![a] = l] /\ seen' = [seen EXCEPT ![a] = s]
      BY OwnStreams DEF AgentForwards
    <2>7. agent' \in [Agent -> {"connecting", "ready", "broken"}]
      BY OwnStreams DEF AgentForwards
    <2> HIDE DEF d, u, l, s
    <2>8. StreamsKept
      BY <2>5, <2>6, OwnStreams, StreamsMove
    <2> QED BY <2>5, <2>6, <2>7, <2>8, OwnStreams, AgentMoves
  <1> QED BY <1>1, <1>2 DEF IInv, TypeOK

\* What a broken agent took from its stream is for its tunnel.
LEMMA AgentBreaksInv ==
    ASSUME IInv, NEW a \in Agent, AgentBreaks(a)
    PROVE  IInv'
  <1>1. RelayType' /\ RequestType' /\ Published' /\ Streams' /\ Waiting' /\ Answers'
    BY DEF IInv, TypeOK, AgentBreaks, relayVars, agentVars, requestVars,
       RelayType, RequestType, Published, Streams, Waiting, Answers
  <1>2. AgentType' /\ Flow'
    <2> DEFINE d == down[a]
               u == up[a]
               l == local[a]
               s == seen[a] \cup ({down[a][1].of, down[a][2].of} \ {Ack})
    <2>1. Len(down[a]) >= 2 /\ agent[a] \in {"connecting", "ready", "broken"}
      BY OwnStreams DEF AgentBreaks, Take2
    <2>2. /\ Tail(Tail(down[a])) \in Seq(Chunk) /\ Tail(Tail(down[a])) \in Seq(DownChunk(a))
          /\ down[a][1] \in DownChunk(a) /\ down[a][2] \in DownChunk(a)
      BY <2>1, OwnStreams, StreamTailTwo
    <2>3. \A x \in {down[a][1].of, down[a][2].of} \ {Ack} :
             x \in Request /\ HostOf[x] = TokenFor[a]
      BY <2>2 DEF DownChunk, Chunk
    <2>4. s \in SUBSET Request /\ \A q \in s : TokenFor[a] = HostOf[q]
      BY <2>3, OwnStreams
    <2>5. /\ d \in Seq(Chunk) /\ d \in Seq(DownChunk(a))
          /\ u \in Seq(Chunk) /\ u \in Seq(UpChunk(a))
          /\ l \in Seq(Request \X Nat) /\ l \in Seq(LocalPart(a))
          /\ s \in SUBSET Request /\ \A q \in s : TokenFor[a] = HostOf[q]
      BY <2>4, OwnStreams
    <2>6. /\ down' = [down EXCEPT ![a] = d] /\ up' = [up EXCEPT ![a] = u]
          /\ local' = [local EXCEPT ![a] = l] /\ seen' = [seen EXCEPT ![a] = s]
      BY OwnStreams DEF AgentBreaks
    <2>7. agent' \in [Agent -> {"connecting", "ready", "broken"}]
      BY OwnStreams DEF AgentBreaks
    <2> HIDE DEF d, u, l, s
    <2>8. StreamsKept
      BY <2>5, <2>6, OwnStreams, StreamsMove
    <2> QED BY <2>5, <2>6, <2>7, <2>8, OwnStreams, AgentMoves
  <1> QED BY <1>1, <1>2 DEF IInv, TypeOK

\* The local service answers what the agent forwarded.
LEMMA LocalAnswersInv ==
    ASSUME IInv, NEW a \in Agent, LocalAnswers(a)
    PROVE  IInv'
  <1>1. RelayType' /\ RequestType' /\ Published' /\ Streams' /\ Waiting' /\ Answers'
    BY DEF IInv, TypeOK, LocalAnswers, relayVars, agentVars, requestVars,
       RelayType, RequestType, Published, Streams, Waiting, Answers
  <1>2. AgentType' /\ Flow'
    <2> DEFINE x == Head(local[a])
               new == <<Header(x[1], x[2]), Payload(x[1], x[2])>>
    <2> DEFINE d == down[a]
               u == up[a] \o new
               l == Tail(local[a])
               s == seen[a]
    <2>1. /\ x \in LocalPart(a) /\ l \in Seq(LocalPart(a))
          /\ l \in Seq(Request \X Nat)
      BY OwnStreams, StreamTail DEF LocalAnswers
    <2>2. x[1] \in Request /\ x[2] \in Nat /\ HostOf[x[1]] = TokenFor[a]
      BY <2>1 DEF LocalPart
    <2>3. /\ Header(x[1], x[2]) \in Chunk /\ Header(x[1], x[2]).of = x[1]
          /\ Payload(x[1], x[2]) \in Chunk /\ Payload(x[1], x[2]).of = x[1]
      BY <2>2, ChunkFields
    <2>4. u \in Seq(Chunk) /\ u \in Seq(UpChunk(a))
      <3>1. Header(x[1], x[2]) \in UpChunk(a) /\ Payload(x[1], x[2]) \in UpChunk(a)
        BY <2>2, <2>3 DEF UpChunk
      <3>2. new \in Seq(Chunk) /\ new \in Seq(UpChunk(a))
        BY <2>3, <3>1
      <3> HIDE DEF new
      <3> QED BY <3>2, OwnStreams, ConcatProperties
    <2>5. /\ d \in Seq(Chunk) /\ d \in Seq(DownChunk(a))
          /\ u \in Seq(Chunk) /\ u \in Seq(UpChunk(a))
          /\ l \in Seq(Request \X Nat) /\ l \in Seq(LocalPart(a))
          /\ s \in SUBSET Request /\ \A q \in s : TokenFor[a] = HostOf[q]
      BY <2>1, <2>4, OwnStreams
    <2>6. /\ down' = [down EXCEPT ![a] = d] /\ up' = [up EXCEPT ![a] = u]
          /\ local' = [local EXCEPT ![a] = l] /\ seen' = [seen EXCEPT ![a] = s]
      BY OwnStreams DEF LocalAnswers
    <2>7. agent' \in [Agent -> {"connecting", "ready", "broken"}]
      BY OwnStreams DEF LocalAnswers
    <2> HIDE DEF d, u, l, s
    <2>8. StreamsKept
      BY <2>5, <2>6, OwnStreams, StreamsMove
    <2> QED BY <2>5, <2>6, <2>7, <2>8, OwnStreams, AgentMoves
  <1> QED BY <1>1, <1>2 DEF IInv, TypeOK

\* A request without a tunnel is refused.
LEMMA LookupFailsInv ==
    ASSUME IInv, NEW r \in Request, LookupFails(r)
    PROVE  IInv'
  <1>1. RelayType' /\ AgentType' /\ Published' /\ Streams' /\ Flow'
    BY DEF IInv, TypeOK, LookupFails, relayVars, agentVars, requestVars, Respond,
       RelayType, AgentType, Published, Streams, Flow, DownChunk, UpChunk, LocalPart
  <1>2. RequestType'
    BY DEF IInv, TypeOK, RelayType, AgentType, RequestType, LookupFails, Respond,
       relayVars, agentVars, requestVars
  <1>3. Waiting'
    BY DEF IInv, TypeOK, RelayType, AgentType, RequestType, Waiting, LookupFails, Respond,
       relayVars, agentVars, requestVars
  <1>4. Answers'
    BY DEF IInv, TypeOK, RelayType, AgentType, RequestType, Answers, LookupFails, Respond,
       relayVars, agentVars, requestVars
  <1> QED BY <1>1, <1>2, <1>3, <1>4 DEF IInv, TypeOK

\* A context found belongs to the tunnel of the host.
LEMMA LookupInv ==
    ASSUME IInv, NEW r \in Request, Lookup(r)
    PROVE  IInv'
  <1>1. RelayType' /\ AgentType' /\ Streams' /\ Flow'
    BY DEF IInv, TypeOK, Lookup, relayVars, agentVars, requestVars,
       RelayType, AgentType, Streams, Flow, DownChunk, UpChunk, LocalPart
  <1>2. RequestType'
    BY DEF IInv, TypeOK, RelayType, AgentType, RequestType, Lookup, Found,
       relayVars, agentVars, requestVars
  <1>3. Published'
    BY DEF IInv, TypeOK, RelayType, AgentType, RequestType, Published, Lookup, Found,
       relayVars, agentVars, requestVars
  <1>4. Waiting'
    BY DEF IInv, TypeOK, RelayType, AgentType, RequestType, Waiting, Lookup, Found,
       relayVars, agentVars, requestVars
  <1>5. Answers'
    BY DEF IInv, TypeOK, RelayType, AgentType, RequestType, Answers, Lookup, Found,
       relayVars, agentVars, requestVars
  <1> QED BY <1>1, <1>2, <1>3, <1>4, <1>5 DEF IInv, TypeOK

\* A request that is given up gets no answer.
LEMMA ForwardFailsInv ==
    ASSUME IInv, NEW r \in Request, ForwardFails(r)
    PROVE  IInv'
  <1>1. RelayType' /\ AgentType' /\ Published' /\ Streams' /\ Flow'
    BY DEF IInv, TypeOK, ForwardFails, relayVars, agentVars, requestVars, Respond,
       RelayType, AgentType, Published, Streams, Flow, DownChunk, UpChunk, LocalPart
  <1>2. RequestType'
    BY DEF IInv, TypeOK, RelayType, AgentType, RequestType, ForwardFails, Respond,
       relayVars, agentVars, requestVars
  <1>3. Waiting'
    BY DEF IInv, TypeOK, RelayType, AgentType, RequestType, Waiting, ForwardFails, Respond,
       relayVars, agentVars, requestVars
  <1>4. Answers'
    BY DEF IInv, TypeOK, RelayType, AgentType, RequestType, Answers, ForwardFails, Respond,
       relayVars, agentVars, requestVars
  <1> QED BY <1>1, <1>2, <1>3, <1>4 DEF IInv, TypeOK

\* A request is written to its own tunnel's agent.
LEMMA ForwardHeaderInv ==
    ASSUME IInv, NEW r \in Request, ForwardHeader(r)
    PROVE  IInv'
  <1> DEFINE a == rctx[r]
  <1>0. /\ a \in Agent /\ ConnOf(a) = a
        /\ TokenFor[a] = HostOf[r] /\ ctxStream[a] # 0
    <2>1. rctx[r] # None
      BY DEF IInv, Waiting, ForwardHeader
    <2>2. ConnOf(rctx[r]) # None
      BY DEF Unreachable, ForwardHeader
    <2> QED BY <2>1, <2>2, ConnIsOwn
  <1>1. RelayType' /\ Published' /\ Streams'
    BY DEF IInv, TypeOK, ForwardHeader, relayVars, agentVars, requestVars,
       RelayType, Published, Streams
  <1>2. AgentType' /\ Flow'
    <2> DEFINE d == Append(down[a], Header(r, 0))
               u == up[a]
               l == local[a]
               s == seen[a]
    <2>1. Header(r, 0) \in Chunk /\ Header(r, 0).of = r
      BY ChunkFields
    <2>2. Header(r, 0) \in DownChunk(a)
      BY <1>0, <2>1 DEF DownChunk
    <2>3. d \in Seq(Chunk) /\ d \in Seq(DownChunk(a))
      BY <1>0, <2>1, <2>2, OwnStreams, AppendProperties
    <2>5. /\ d \in Seq(Chunk) /\ d \in Seq(DownChunk(a))
          /\ u \in Seq(Chunk) /\ u \in Seq(UpChunk(a))
          /\ l \in Seq(Request \X Nat) /\ l \in Seq(LocalPart(a))
          /\ s \in SUBSET Request /\ \A q \in s : TokenFor[a] = HostOf[q]
      BY <1>0, <2>3, OwnStreams
    <2>6. /\ down' = [down EXCEPT ![a] = d] /\ up' = [up EXCEPT ![a] = u]
          /\ local' = [local EXCEPT ![a] = l] /\ seen' = [seen EXCEPT ![a] = s]
      BY <1>0, OwnStreams DEF ForwardHeader, agentVars
    <2>7. agent' \in [Agent -> {"connecting", "ready", "broken"}]
      BY <1>0, OwnStreams DEF ForwardHeader, agentVars
    <2> HIDE DEF d, u, l, s
    <2>8. StreamsKept
      BY <1>0, <2>5, <2>6, OwnStreams, StreamsMove
    <2> QED BY <1>0, <2>5, <2>6, <2>7, <2>8, OwnStreams, AgentMoves
  <1>3. RequestType'
    BY DEF IInv, TypeOK, RelayType, AgentType, RequestType, ForwardHeader,
       relayVars, agentVars, requestVars
  <1>4. Waiting'
    BY <1>0 DEF IInv, TypeOK, RequestType, Waiting, ForwardHeader, relayVars
  <1>5. Answers'
    BY DEF IInv, TypeOK, RelayType, AgentType, RequestType, Answers, ForwardHeader,
       relayVars, agentVars, requestVars
  <1> QED BY <1>1, <1>2, <1>3, <1>4, <1>5 DEF IInv, TypeOK

\* A request is written to its own tunnel's agent.
LEMMA ForwardPayloadInv ==
    ASSUME IInv, NEW r \in Request, ForwardPayload(r)
    PROVE  IInv'
  <1> DEFINE a == rctx[r]
  <1>0. /\ a \in Agent /\ ConnOf(a) = a
        /\ TokenFor[a] = HostOf[r] /\ ctxStream[a] # 0
    <2>1. rctx[r] # None
      BY DEF IInv, Waiting, ForwardPayload
    <2>2. ConnOf(rctx[r]) # None
      BY DEF Unreachable, ForwardPayload
    <2> QED BY <2>1, <2>2, ConnIsOwn
  <1>1. RelayType' /\ Published' /\ Streams'
    BY DEF IInv, TypeOK, ForwardPayload, relayVars, agentVars, requestVars,
       RelayType, Published, Streams
  <1>2. AgentType' /\ Flow'
    <2> DEFINE d == Append(down[a], Payload(r, 0))
               u == up[a]
               l == local[a]
               s == seen[a]
    <2>1. Payload(r, 0) \in Chunk /\ Payload(r, 0).of = r
      BY ChunkFields
    <2>2. Payload(r, 0) \in DownChunk(a)
      BY <1>0, <2>1 DEF DownChunk
    <2>3. d \in Seq(Chunk) /\ d \in Seq(DownChunk(a))
      BY <1>0, <2>1, <2>2, OwnStreams, AppendProperties
    <2>5. /\ d \in Seq(Chunk) /\ d \in Seq(DownChunk(a))
          /\ u \in Seq(Chunk) /\ u \in Seq(UpChunk(a))
          /\ l \in Seq(Request \X Nat) /\ l \in Seq(LocalPart(a))
          /\ s \in SUBSET Request /\ \A q \in s : TokenFor[a] = HostOf[q]
      BY <1>0, <2>3, OwnStreams
    <2>6. /\ down' = [down EXCEPT ![a] = d] /\ up' = [up EXCEPT ![a] = u]
          /\ local' = [local EXCEPT ![a] = l] /\ seen' = [seen EXCEPT ![a] = s]
      BY <1>0, OwnStreams DEF ForwardPayload, agentVars
    <2>7. agent' \in [Agent -> {"connecting", "ready", "broken"}]
      BY <1>0, OwnStreams DEF ForwardPayload, agentVars
    <2> HIDE DEF d, u, l, s
    <2>8. StreamsKept
      BY <1>0, <2>5, <2>6, OwnStreams, StreamsMove
    <2> QED BY <1>0, <2>5, <2>6, <2>7, <2>8, OwnStreams, AgentMoves
  <1>3. RequestType'
    BY DEF IInv, TypeOK, RelayType, AgentType, RequestType, ForwardPayload,
       relayVars, agentVars, requestVars
  <1>4. Waiting'
    BY <1>0 DEF IInv, TypeOK, RequestType, Waiting, ForwardPayload, relayVars
  <1>5. Answers'
    BY DEF IInv, TypeOK, RelayType, AgentType, RequestType, Answers, ForwardPayload,
       relayVars, agentVars, requestVars
  <1> QED BY <1>1, <1>2, <1>3, <1>4, <1>5 DEF IInv, TypeOK

\* A header is read from the tunnel's own agent.
LEMMA ReceiveHeaderInv ==
    ASSUME IInv, NEW r \in Request, ReceiveHeader(r)
    PROVE  IInv'
  <1> DEFINE a == rctx[r]
  <1>0. /\ a \in Agent /\ ConnOf(a) = a /\ TokenFor[a] = HostOf[r]
        /\ Stream(r) = up[a] /\ up[a] # <<>>
    BY WaitsForOwn DEF ReceiveHeader, Stream
  <1>H. Head(up[a]) \in Chunk /\ Head(up[a]) \in UpChunk(a)
    BY <1>0, OwnStreams, StreamTail
  <1>1. RelayType' /\ Published' /\ Streams'
    BY DEF IInv, TypeOK, ReceiveHeader, relayVars, agentVars, requestVars, Respond,
       RelayType, Published, Streams
  <1>2. AgentType' /\ Flow'
    <2> DEFINE d == down[a]
               u == Tail(up[a])
               l == local[a]
               s == seen[a]
    <2>1. u \in Seq(Chunk) /\ u \in Seq(UpChunk(a))
      BY <1>0, OwnStreams, StreamTail
    <2>5. /\ d \in Seq(Chunk) /\ d \in Seq(DownChunk(a))
          /\ u \in Seq(Chunk) /\ u \in Seq(UpChunk(a))
          /\ l \in Seq(Request \X Nat) /\ l \in Seq(LocalPart(a))
          /\ s \in SUBSET Request /\ \A q \in s : TokenFor[a] = HostOf[q]
      BY <1>0, <2>1, OwnStreams
    <2>6. /\ down' = [down EXCEPT ![a] = d] /\ up' = [up EXCEPT ![a] = u]
          /\ local' = [local EXCEPT ![a] = l] /\ seen' = [seen EXCEPT ![a] = s]
      BY <1>0, OwnStreams DEF ReceiveHeader, agentVars
    <2>7. agent' \in [Agent -> {"connecting", "ready", "broken"}]
      BY <1>0, OwnStreams DEF ReceiveHeader, agentVars
    <2> HIDE DEF d, u, l, s
    <2>8. StreamsKept
      BY <1>0, <2>5, <2>6, OwnStreams, StreamsMove
    <2> QED BY <1>0, <2>5, <2>6, <2>7, <2>8, OwnStreams, AgentMoves
  <1>3. RequestType'
    <2>1. RequestType /\ Stream(r) = up[a]
      BY <1>0 DEF IInv, TypeOK
    <2>2. CASE Head(up[a]).kind = "header"
      <3>1. /\ header' = [header EXCEPT ![r] = Head(up[a])] /\ UNCHANGED <<answer, rctx>>
            /\ rpc' = [rpc EXCEPT ![r] = "reading"]
        BY <2>1, <2>2 DEF ReceiveHeader
      <3> QED BY <1>H, <2>1, <3>1 DEF RequestType
    <2>3. CASE Head(up[a]).kind # "header"
      <3>1. /\ answer' = [answer EXCEPT ![r] = BadGateway] /\ UNCHANGED <<header, rctx>>
            /\ rpc' = [rpc EXCEPT ![r] = "done"]
        BY <2>1, <2>3 DEF ReceiveHeader, Respond
      <3> QED BY <2>1, <3>1 DEF RequestType
    <2> QED BY <2>2, <2>3
  <1>4. Waiting'
    BY DEF IInv, TypeOK, RelayType, AgentType, RequestType, Waiting, ReceiveHeader, Respond,
       relayVars, agentVars, requestVars
  <1>5. Answers'
    <2>1. /\ Head(up[a]).of \in Request /\ HostOf[Head(up[a]).of] = HostOf[r]
      BY <1>0, <1>H DEF UpChunk
    <2>2. (answer' = answer /\ rpc'[r] # "done") \/ answer'[r] \in {BadGateway, Head(up[a])}
      BY <1>0 DEF IInv, TypeOK, RequestType, ReceiveHeader, Respond
    <2>3. \A q \in Request \ {r} : rpc'[q] = rpc[q] /\ answer'[q] = answer[q]
      BY DEF IInv, TypeOK, RequestType, ReceiveHeader, Respond
    <2>4. ASSUME NEW q \in Request
          PROVE  /\ rpc'[q] = "done" => answer'[q] # None
                 /\ answer'[q] \in Chunk =>
                       answer'[q].of \in Request /\ HostOf[answer'[q].of] = HostOf[q]
      BY <1>H, <2>1, <2>2, <2>3 DEF IInv, Answers
    <2> QED BY <2>4 DEF Answers
  <1> QED BY <1>1, <1>2, <1>3, <1>4, <1>5 DEF IInv, TypeOK

\* An answer is read from the tunnel's own agent.
LEMMA ReceivePayloadInv ==
    ASSUME IInv, NEW r \in Request, ReceivePayload(r)
    PROVE  IInv'
  <1> DEFINE a == rctx[r]
  <1>0. /\ a \in Agent /\ ConnOf(a) = a /\ TokenFor[a] = HostOf[r]
        /\ Stream(r) = up[a] /\ up[a] # <<>>
    BY WaitsForOwn DEF ReceivePayload, Stream
  <1>H. Head(up[a]) \in Chunk /\ Head(up[a]) \in UpChunk(a)
    BY <1>0, OwnStreams, StreamTail
  <1>1. RelayType' /\ Published' /\ Streams'
    BY DEF IInv, TypeOK, ReceivePayload, relayVars, agentVars, requestVars, Respond,
       RelayType, Published, Streams
  <1>2. AgentType' /\ Flow'
    <2> DEFINE d == down[a]
               u == Tail(up[a])
               l == local[a]
               s == seen[a]
    <2>1. u \in Seq(Chunk) /\ u \in Seq(UpChunk(a))
      BY <1>0, OwnStreams, StreamTail
    <2>5. /\ d \in Seq(Chunk) /\ d \in Seq(DownChunk(a))
          /\ u \in Seq(Chunk) /\ u \in Seq(UpChunk(a))
          /\ l \in Seq(Request \X Nat) /\ l \in Seq(LocalPart(a))
          /\ s \in SUBSET Request /\ \A q \in s : TokenFor[a] = HostOf[q]
      BY <1>0, <2>1, OwnStreams
    <2>6. /\ down' = [down EXCEPT ![a] = d] /\ up' = [up EXCEPT ![a] = u]
          /\ local' = [local EXCEPT ![a] = l] /\ seen' = [seen EXCEPT ![a] = s]
      BY <1>0, OwnStreams DEF ReceivePayload, agentVars
    <2>7. agent' \in [Agent -> {"connecting", "ready", "broken"}]
      BY <1>0, OwnStreams DEF ReceivePayload, agentVars
    <2> HIDE DEF d, u, l, s
    <2>8. StreamsKept
      BY <1>0, <2>5, <2>6, OwnStreams, StreamsMove
    <2> QED BY <1>0, <2>5, <2>6, <2>7, <2>8, OwnStreams, AgentMoves
  <1>3. RequestType'
    BY <1>0, <1>H DEF IInv, TypeOK, RequestType, ReceivePayload, Respond
  <1>4. Waiting'
    BY DEF IInv, TypeOK, RelayType, AgentType, RequestType, Waiting, ReceivePayload, Respond,
       relayVars, agentVars, requestVars
  <1>5. Answers'
    <2>1. /\ Head(up[a]).of \in Request /\ HostOf[Head(up[a]).of] = HostOf[r]
      BY <1>0, <1>H DEF UpChunk
    <2>2. (answer' = answer /\ rpc'[r] # "done") \/ answer'[r] \in {BadGateway, Head(up[a])}
      BY <1>0 DEF IInv, TypeOK, RequestType, ReceivePayload, Respond
    <2>3. \A q \in Request \ {r} : rpc'[q] = rpc[q] /\ answer'[q] = answer[q]
      BY DEF IInv, TypeOK, RequestType, ReceivePayload, Respond
    <2>4. ASSUME NEW q \in Request
          PROVE  /\ rpc'[q] = "done" => answer'[q] # None
                 /\ answer'[q] \in Chunk =>
                       answer'[q].of \in Request /\ HostOf[answer'[q].of] = HostOf[q]
      BY <1>H, <2>1, <2>2, <2>3 DEF IInv, Answers
    <2> QED BY <2>4 DEF Answers
  <1> QED BY <1>1, <1>2, <1>3, <1>4, <1>5 DEF IInv, TypeOK

\* A request whose agent is lost gets no answer.
LEMMA ReceiveFailsInv ==
    ASSUME IInv, NEW r \in Request, ReceiveFails(r)
    PROVE  IInv'
  <1>1. RelayType' /\ AgentType' /\ Published' /\ Streams' /\ Flow'
    BY DEF IInv, TypeOK, ReceiveFails, relayVars, agentVars, requestVars, Respond,
       RelayType, AgentType, Published, Streams, Flow, DownChunk, UpChunk, LocalPart
  <1>2. RequestType'
    BY DEF IInv, TypeOK, RelayType, AgentType, RequestType, ReceiveFails, Respond,
       relayVars, agentVars, requestVars
  <1>3. Waiting'
    BY DEF IInv, TypeOK, RelayType, AgentType, RequestType, Waiting, ReceiveFails, Respond,
       relayVars, agentVars, requestVars
  <1>4. Answers'
    BY DEF IInv, TypeOK, RelayType, AgentType, RequestType, Answers, ReceiveFails, Respond,
       relayVars, agentVars, requestVars
  <1> QED BY <1>1, <1>2, <1>3, <1>4 DEF IInv, TypeOK

-----------------------------------------------------------------------------
\* Every step of the relay and its agents preserves the invariant.
LEMMA NextInv == IInv /\ [Next]_vars => IInv'
  <1> SUFFICES ASSUME IInv, [Next]_vars PROVE IInv'
    OBVIOUS
  <1>1. CASE \E t \in Tunnel : ConfigUpdate(t)
    BY <1>1, ConfigUpdateInv
  <1>2. ASSUME NEW a \in Agent, Handler(a) \/ AgentGone(a) \/ AgentStep(a) PROVE IInv'
    BY <1>2, RejectInv, RegisterInv, NewStreamInv, SetStreamInv, AckHeaderInv,
       AckPayloadInv, AgentGoneInv, AgentConnectsInv, AgentForwardsInv,
       AgentBreaksInv, LocalAnswersInv DEF Handler, AgentStep
  <1>3. ASSUME NEW r \in Request, Serve(r) PROVE IInv'
    BY <1>3, LookupFailsInv, LookupInv, ForwardFailsInv, ForwardHeaderInv,
       ForwardPayloadInv, ReceiveHeaderInv, ReceivePayloadInv, ReceiveFailsInv DEF Serve
  <1>4. CASE UNCHANGED vars
    <2>1. RelayType' /\ Published' /\ Streams'
      BY <1>4 DEF vars, relayVars, requestVars, IInv, TypeOK, RelayType, Published, Streams
    <2>2. AgentType' /\ Flow'
      BY <1>4 DEF vars, agentVars, IInv, TypeOK, AgentType, Flow, DownChunk, UpChunk, LocalPart
    <2>3. RequestType' /\ Waiting' /\ Answers'
      BY <1>4 DEF vars, relayVars, requestVars, IInv, TypeOK, RequestType, Waiting, Answers
    <2> QED BY <2>1, <2>2, <2>3 DEF IInv, TypeOK
  <1> QED BY <1>1, <1>2, <1>3, <1>4 DEF Next

\* The inductive invariant holds in every reachable state of the relay.
THEOREM ProxyInvariance == Spec => []IInv
  BY InitInv, NextInv, PTL DEF Spec

\* Requests reach only agents with a token for their tunnel, and are answered
\* only with what such an agent sent, for any number of concurrent requests,
\* reconnecting agents and config updates.
THEOREM TunnelsAlwaysIsolated == Spec => []TunnelIsolation
  <1>1. ASSUME IInv PROVE TunnelIsolation
    <2>1. \A a \in Agent : \A r \in seen[a] : TokenFor[a] = HostOf[r]
      BY <1>1 DEF IInv, Flow
    <2>2. ASSUME NEW r \in Request, Answered(r) PROVE HostOf[answer[r].of] = HostOf[r]
      <3>1. answer[r] \in Chunk
        BY <1>1, <2>2 DEF IInv, TypeOK, RequestType, Answers, Answered
      <3> QED BY <1>1, <3>1 DEF IInv, Answers
    <2> QED BY <2>1, <2>2 DEF TunnelIsolation
  <1> QED BY <1>1, ProxyInvariance, PTL

-----------------------------------------------------------------------------
(* Nothing twice.  Every chunk of a stream is there once, a request and    *)
(* what answers it stay with the agent it was sent to (Own), nothing       *)
(* answers a request whose frame was not forwarded (Fresh), and a part of  *)
(* an answer is either still to be sent, on its way or given to one client *)
(* (Once).                                                                 *)

Ran(s) == {s[i] : i \in 1 .. Len(s)}
Distinct(s) == \A i, j \in 1 .. Len(s) : s[i] = s[j] => i = j

NoRepeats == \A a \in Agent : Distinct(down[a]) /\ Distinct(up[a]) /\ Distinct(local[a])

\* What is not yet written to a stream is not on it.
BeforeAck == {"new", "registered", "streamed", "set"}
NotYet ==
    /\ \A a \in Agent :
          /\ handler[a] \in BeforeAck => Header(Ack, 0) \notin Ran(down[a])
          /\ handler[a] \in BeforeAck \cup {"acking"} => Payload(Ack, 0) \notin Ran(down[a])
    /\ \A r \in Request, a \in Agent :
          /\ rpc[r] \in {"new", "found"} => Header(r, 0) \notin Ran(down[a])
          /\ rpc[r] \in {"new", "found", "writing"} => Payload(r, 0) \notin Ran(down[a])

Own ==
    /\ \A r \in Request : rpc[r] = "new" => rctx[r] = None
    /\ \A a \in Agent :
          /\ \A c \in Ran(down[a]) : c.part = 0 /\ (c.of \in Request => rctx[c.of] = a)
          /\ \A c \in Ran(up[a]) : rctx[c.of] = a
          /\ \A e \in Ran(local[a]) : rctx[e[1]] = a
          /\ \A r \in seen[a] : rctx[r] = a

Pending(x) == rpc[x] \in {"new", "found"} \/ \E a \in Agent : Header(x, 0) \in Ran(down[a])
Unanswered(x) ==
    /\ \A a \in Agent : /\ \A e \in Ran(local[a]) : e[1] # x
                        /\ \A c \in Ran(up[a]) : c.of # x
    /\ \A r \in Request : answer[r] \in Chunk => answer[r].of # x
Fresh == \A x \in Request : Pending(x) => Unanswered(x)

Part(e, c) == c.of = e[1] /\ c.part = e[2]
Once ==
    /\ \A a \in Agent : \A e \in Ran(local[a]) :
          /\ \A c \in Ran(up[a]) : ~Part(e, c)
          /\ \A r \in Request : answer[r] \in Chunk => ~Part(e, answer[r])
    /\ \A a \in Agent, r \in Request : answer[r] \notin Ran(up[a])
    /\ \A r, p \in Request : answer[r] \in Chunk /\ answer[r] = answer[p] => r = p

OnceInv == NoRepeats /\ NotYet /\ Own /\ Fresh /\ Once

LEMMA RanTail ==
    ASSUME NEW S, NEW s \in Seq(S), s # <<>>, Distinct(s)
    PROVE  /\ Head(s) \in Ran(s) /\ Distinct(Tail(s)) /\ Ran(Tail(s)) \subseteq Ran(s)
           /\ Head(s) \notin Ran(Tail(s))
  <1>1. /\ Len(s) \in Nat \ {0} /\ Head(s) = s[1] /\ Len(Tail(s)) = Len(s) - 1
        /\ \A i \in 1 .. Len(s) - 1 : Tail(s)[i] = s[i + 1]
    OBVIOUS
  <1>2. ASSUME NEW i \in 1 .. Len(Tail(s)) PROVE i + 1 \in 1 .. Len(s) /\ i + 1 # 1 /\ Tail(s)[i] = s[i + 1]
    BY <1>1
  <1>3. Distinct(Tail(s))
    <2> SUFFICES ASSUME NEW i \in 1 .. Len(Tail(s)), NEW j \in 1 .. Len(Tail(s)),
                        Tail(s)[i] = Tail(s)[j]
                 PROVE  i = j
      BY DEF Distinct
    <2>1. i + 1 = j + 1
      BY <1>2 DEF Distinct
    <2> QED BY <2>1, <1>1
  <1>4. Ran(Tail(s)) \subseteq Ran(s)
    BY <1>2 DEF Ran
  <1>5. Head(s) \notin Ran(Tail(s))
    <2>1. 1 \in 1 .. Len(s)
      BY <1>1
    <2> QED BY <1>1, <1>2, <2>1 DEF Ran, Distinct
  <1> QED BY <1>1, <1>3, <1>4, <1>5 DEF Ran

LEMMA RanAppend ==
    ASSUME NEW S, NEW s \in Seq(S), NEW c \in S, c \notin Ran(s), Distinct(s)
    PROVE  Distinct(Append(s, c)) /\ Ran(Append(s, c)) = Ran(s) \cup {c}
  <1>1. /\ Len(s) \in Nat /\ Len(Append(s, c)) = Len(s) + 1 /\ Append(s, c)[Len(s) + 1] = c
        /\ \A i \in 1 .. Len(s) : Append(s, c)[i] = s[i]
    OBVIOUS
  <1>2. \A i \in 1 .. Len(Append(s, c)) : i \in 1 .. Len(s) \/ i = Len(s) + 1
    BY <1>1
  <1>3. Ran(Append(s, c)) = Ran(s) \cup {c}
    BY <1>1, <1>2 DEF Ran
  <1>4. Distinct(Append(s, c))
    BY <1>1, <1>2 DEF Ran, Distinct
  <1> QED BY <1>3, <1>4

LEMMA RanConcat ==
    ASSUME NEW S, NEW s \in Seq(S), NEW t \in Seq(S), Distinct(s), Distinct(t),
           Ran(s) \cap Ran(t) = {}
    PROVE  Distinct(s \o t) /\ Ran(s \o t) = Ran(s) \cup Ran(t)
  <1> DEFINE u == s \o t
             From(k) == Len(s) + k
  <1>1. /\ Len(s) \in Nat /\ Len(t) \in Nat /\ Len(u) = Len(s) + Len(t)
        /\ \A i \in 1 .. Len(s) : u[i] = s[i]
        /\ \A k \in 1 .. Len(t) : u[From(k)] = t[k]
    BY ConcatProperties
  <1> HIDE DEF u
  <1>2. ASSUME NEW i \in 1 .. Len(u)
        PROVE  i \in 1 .. Len(s) \/ \E k \in 1 .. Len(t) : i = From(k)
    <2>1. CASE i <= Len(s) BY <1>1, <2>1
    <2>2. CASE i > Len(s)
      <3>1. i - Len(s) \in 1 .. Len(t) /\ i = From(i - Len(s))
        BY <1>1, <2>2
      <3> QED BY <3>1
    <2> QED BY <1>1, <2>1, <2>2
  <1>3. /\ \A i \in 1 .. Len(s) : i \in 1 .. Len(u)
        /\ \A k \in 1 .. Len(t) : From(k) \in 1 .. Len(u)
    BY <1>1
  <1> HIDE DEF From
  <1>4. Ran(u) = Ran(s) \cup Ran(t)
    <2>1. ASSUME NEW i \in 1 .. Len(u) PROVE u[i] \in Ran(s) \cup Ran(t)
      <3>1. CASE i \in 1 .. Len(s)
        BY <1>1, <3>1 DEF Ran
      <3>2. ASSUME NEW k \in 1 .. Len(t), i = From(k) PROVE u[i] \in Ran(t)
        <4>1. u[i] = t[k]
          BY <1>1, <3>2
        <4> QED BY <4>1 DEF Ran
      <3> QED BY <1>2, <3>1, <3>2
    <2>2. ASSUME NEW x \in Ran(s) \cup Ran(t) PROVE x \in Ran(u)
      BY <1>1, <1>3, <2>2 DEF Ran
    <2>3. Ran(u) = {u[i] : i \in 1 .. Len(u)}
      BY DEF Ran
    <2> QED BY <2>1, <2>2, <2>3
  <1>5. Distinct(u)
    <2> SUFFICES ASSUME NEW i \in 1 .. Len(u), NEW j \in 1 .. Len(u), u[i] = u[j]
                 PROVE  i = j
      BY DEF Distinct
    <2>1. ASSUME NEW x \in 1 .. Len(s), NEW k \in 1 .. Len(t) PROVE u[x] # u[From(k)]
      <3>1. u[x] = s[x] /\ u[From(k)] = t[k]
        BY <1>1
      <3>2. s[x] \in Ran(s) /\ t[k] \in Ran(t)
        BY DEF Ran
      <3> QED BY <3>1, <3>2
    <2>2. CASE i \in 1 .. Len(s) /\ j \in 1 .. Len(s)
      <3>1. s[i] = s[j]
        BY <1>1, <2>2
      <3> QED BY <2>2, <3>1 DEF Distinct
    <2>3. ASSUME NEW k \in 1 .. Len(t), NEW l \in 1 .. Len(t), i = From(k), j = From(l)
          PROVE  i = j
      <3>1. t[k] = t[l]
        BY <1>1, <2>3
      <3> QED BY <2>3, <3>1 DEF Distinct
    <2> QED BY <1>2, <2>1, <2>2, <2>3
  <1> QED BY <1>4, <1>5 DEF u

LEMMA RanTailTwo ==
    ASSUME NEW S, NEW s \in Seq(S), Len(s) >= 2, Distinct(s)
    PROVE  /\ s[1] \in Ran(s) /\ s[2] \in Ran(s) /\ Distinct(Tail(Tail(s)))
           /\ Ran(Tail(Tail(s))) \subseteq Ran(s) /\ s[1] \notin Ran(Tail(Tail(s)))
  <1>1. s # <<>> /\ Head(s) = s[1] /\ Len(s) \in Nat /\ 1 \in 1 .. Len(s) /\ 2 \in 1 .. Len(s)
    OBVIOUS
  <1>2. s[1] \in Ran(s) /\ s[2] \in Ran(s)
    BY <1>1 DEF Ran
  <1>3. Tail(s) \in Seq(S) /\ Len(Tail(s)) = Len(s) - 1
    BY <1>1, HeadTailProperties
  <1>4. Tail(s) # <<>>
    <2>1. Len(Tail(s)) # 0 /\ Len(<<>>) = 0
      BY <1>1, <1>3
    <2> QED BY <2>1
  <1>5. Distinct(Tail(s)) /\ Ran(Tail(s)) \subseteq Ran(s) /\ s[1] \notin Ran(Tail(s))
    BY <1>1, RanTail
  <1>6. Distinct(Tail(Tail(s))) /\ Ran(Tail(Tail(s))) \subseteq Ran(Tail(s))
    BY <1>3, <1>4, <1>5, RanTail
  <1> QED BY <1>2, <1>5, <1>6

LEMMA RanTyped ==
    ASSUME IInv, NEW a \in Agent
    PROVE  /\ Ran(down[a]) \subseteq Chunk /\ Ran(up[a]) \subseteq UpChunk(a)
           /\ Ran(local[a]) \subseteq Request \X Nat
  <1>1. /\ down[a] \in Seq(Chunk) /\ up[a] \in Seq(UpChunk(a)) /\ local[a] \in Seq(Request \X Nat)
    BY OwnStreams
  <1>2. ASSUME NEW S, NEW s \in Seq(S) PROVE Ran(s) \subseteq S
    <2>1. \A i \in 1 .. Len(s) : s[i] \in S
      OBVIOUS
    <2> QED BY <2>1 DEF Ran
  <1> QED BY <1>1, <1>2

LEMMA ChunksDiffer ==
    ASSUME NEW x \in Request \cup {Ack}, NEW y \in Request \cup {Ack}
    PROVE  /\ Header(x, 0) # Payload(y, 0)
           /\ Header(x, 0) = Header(y, 0) => x = y
           /\ Payload(x, 0) = Payload(y, 0) => x = y
  <1>1. /\ Header(x, 0).kind = "header" /\ Payload(y, 0).kind = "payload"
        /\ Header(x, 0).of = x /\ Header(y, 0).of = y
        /\ Payload(x, 0).of = x /\ Payload(y, 0).of = y
    BY DEF Header, Payload
  <1> QED BY <1>1

\* A step that takes from the streams, or leaves them alone, and writes
\* nothing: requests and agents only move on.
LEMMA Shrinks ==
    ASSUME IInv, OnceInv,
           \A a \in Agent :
              /\ Distinct(down'[a]) /\ Ran(down'[a]) \subseteq Ran(down[a])
              /\ Distinct(up'[a]) /\ Ran(up'[a]) \subseteq Ran(up[a])
              /\ Distinct(local'[a]) /\ Ran(local'[a]) \subseteq Ran(local[a])
              /\ \A r \in seen'[a] : r \in Request /\ rctx[r] = a
              /\ handler'[a] \in BeforeAck => handler[a] \in BeforeAck
              /\ handler'[a] \in BeforeAck \cup {"acking"} => handler[a] \in BeforeAck \cup {"acking"},
           \A r \in Request :
              /\ rctx'[r] = rctx[r] \/ rctx[r] = None
              /\ rpc'[r] = "new" => rpc[r] = "new" /\ rctx'[r] = rctx[r]
              /\ rpc'[r] \in {"new", "found"} => rpc[r] \in {"new", "found"}
              /\ rpc'[r] \in {"new", "found", "writing"} => rpc[r] \in {"new", "found", "writing"}
              /\ answer'[r] \in {answer[r], BadGateway}
    PROVE  OnceInv'
  <1>1. NoRepeats'
    BY DEF NoRepeats
  <1>2. NotYet'
    <2>1. ASSUME NEW a \in Agent
          PROVE  /\ handler'[a] \in BeforeAck => Header(Ack, 0) \notin Ran(down'[a])
                 /\ handler'[a] \in BeforeAck \cup {"acking"} => Payload(Ack, 0) \notin Ran(down'[a])
      <3>1. /\ handler[a] \in BeforeAck => Header(Ack, 0) \notin Ran(down[a])
            /\ handler[a] \in BeforeAck \cup {"acking"} => Payload(Ack, 0) \notin Ran(down[a])
        BY DEF OnceInv, NotYet
      <3> QED BY <3>1
    <2>2. ASSUME NEW r \in Request, NEW a \in Agent
          PROVE  /\ rpc'[r] \in {"new", "found"} => Header(r, 0) \notin Ran(down'[a])
                 /\ rpc'[r] \in {"new", "found", "writing"} => Payload(r, 0) \notin Ran(down'[a])
      <3>1. /\ rpc[r] \in {"new", "found"} => Header(r, 0) \notin Ran(down[a])
            /\ rpc[r] \in {"new", "found", "writing"} => Payload(r, 0) \notin Ran(down[a])
        BY DEF OnceInv, NotYet
      <3> QED BY <3>1
    <2> HIDE DEF BeforeAck
    <2> QED BY <2>1, <2>2 DEF NotYet, BeforeAck
  <1>3. \A r \in Request, a \in Agent : rctx[r] = a => rctx'[r] = a
    OBVIOUS
  <1>4. ASSUME NEW a \in Agent
        PROVE  /\ \A c \in Ran(down[a]) : c \in Chunk
               /\ \A c \in Ran(up[a]) : c \in Chunk /\ c.of \in Request
               /\ \A e \in Ran(local[a]) : e[1] \in Request
    BY RanTyped DEF UpChunk
  <1>5. Own'
    <2>1. \A r \in Request : rpc'[r] = "new" => rctx'[r] = None
      BY DEF OnceInv, Own
    <2>2. ASSUME NEW a \in Agent
          PROVE  /\ \A c \in Ran(down'[a]) : c.part = 0 /\ (c.of \in Request => rctx'[c.of] = a)
                 /\ \A c \in Ran(up'[a]) : rctx'[c.of] = a
                 /\ \A e \in Ran(local'[a]) : rctx'[e[1]] = a
      <3>1. /\ \A c \in Ran(down[a]) : c.part = 0 /\ (c.of \in Request => rctx[c.of] = a)
            /\ \A c \in Ran(up[a]) : rctx[c.of] = a
            /\ \A e \in Ran(local[a]) : rctx[e[1]] = a
        BY DEF OnceInv, Own
      <3>2. /\ Ran(down'[a]) \subseteq Ran(down[a]) /\ Ran(up'[a]) \subseteq Ran(up[a])
            /\ Ran(local'[a]) \subseteq Ran(local[a])
        OBVIOUS
      <3> QED BY <1>3, <1>4, <3>1, <3>2
    <2>3. \A a \in Agent : \A r \in seen'[a] : rctx'[r] = a
      BY <1>3
    <2> QED BY <2>1, <2>2, <2>3 DEF Own
  <1>6. Fresh'
    <2>1. ASSUME NEW x \in Request, Pending(x)' PROVE Pending(x)
      BY <2>1 DEF Pending
    <2>2. ASSUME NEW x \in Request, Unanswered(x) PROVE Unanswered(x)'
      BY <2>2 DEF Unanswered
    <2> QED BY <2>1, <2>2 DEF OnceInv, Fresh
  <1>7. Once'
    <2>1. BadGateway \notin Chunk
      OBVIOUS
    <2>2. \A r \in Request : answer'[r] \in Chunk => answer'[r] = answer[r]
      BY <2>1
    <2>3. ASSUME NEW a \in Agent, NEW r \in Request PROVE answer'[r] \notin Ran(up'[a])
      <3>1. answer[r] \notin Ran(up[a])
        BY DEF OnceInv, Once
      <3>2. Ran(up'[a]) \subseteq Ran(up[a]) /\ answer'[r] \in {answer[r], BadGateway}
        OBVIOUS
      <3> QED BY <1>4, <2>1, <3>1, <3>2
    <2>4. ASSUME NEW a \in Agent, NEW e \in Ran(local'[a])
          PROVE  /\ \A c \in Ran(up'[a]) : ~Part(e, c)
                 /\ \A r \in Request : answer'[r] \in Chunk => ~Part(e, answer'[r])
      <3>1. e \in Ran(local[a]) /\ Ran(up'[a]) \subseteq Ran(up[a])
        BY <2>4
      <3> QED BY <2>2, <3>1 DEF OnceInv, Once
    <2>5. \A r, p \in Request : answer'[r] \in Chunk /\ answer'[r] = answer'[p] => r = p
      BY <2>2 DEF OnceInv, Once
    <2> QED BY <2>3, <2>4, <2>5 DEF Once, Part
  <1> QED BY <1>1, <1>2, <1>5, <1>6, <1>7 DEF OnceInv

\* The streams stay as they are.
LEMMA QuietStep ==
    ASSUME IInv, OnceInv, UNCHANGED <<down, up, local>>,
           \A a \in Agent : \A r \in seen'[a] : r \in Request /\ rctx[r] = a,
           \A a \in Agent :
              /\ handler'[a] \in BeforeAck => handler[a] \in BeforeAck
              /\ handler'[a] \in BeforeAck \cup {"acking"} => handler[a] \in BeforeAck \cup {"acking"},
           \A r \in Request :
              /\ rctx'[r] = rctx[r] \/ rctx[r] = None
              /\ rpc'[r] = "new" => rpc[r] = "new" /\ rctx'[r] = rctx[r]
              /\ rpc'[r] \in {"new", "found"} => rpc[r] \in {"new", "found"}
              /\ rpc'[r] \in {"new", "found", "writing"} => rpc[r] \in {"new", "found", "writing"}
              /\ answer'[r] \in {answer[r], BadGateway}
    PROVE  OnceInv'
  <1>1. \A a \in Agent : /\ Distinct(down'[a]) /\ Ran(down'[a]) \subseteq Ran(down[a])
                         /\ Distinct(up'[a]) /\ Ran(up'[a]) \subseteq Ran(up[a])
                         /\ Distinct(local'[a]) /\ Ran(local'[a]) \subseteq Ran(local[a])
    BY DEF OnceInv, NoRepeats
  <1> HIDE DEF BeforeAck
  <1> QED BY <1>1, Shrinks

LEMMA SeenOwn ==
    ASSUME IInv, OnceInv, NEW a \in Agent, NEW r \in seen[a]
    PROVE  r \in Request /\ rctx[r] = a
  BY DEF OnceInv, Own, IInv, TypeOK, AgentType

LEMMA RelayOnce ==
    ASSUME IInv, OnceInv, NEW a \in Agent,
           \/ Reject(a) \/ Register(a) \/ NewStream(a) \/ SetStream(a) \/ AgentGone(a)
           \/ \E t \in Tunnel : ConfigUpdate(t)
    PROVE  OnceInv'
  <1>1. UNCHANGED <<down, up, agentVars, requestVars>>
    BY DEF Reject, Register, NewStream, SetStream, AgentGone, ConfigUpdate
  <1>2. ASSUME NEW b \in Agent
        PROVE  /\ handler'[b] \in BeforeAck => handler[b] \in BeforeAck
               /\ handler'[b] \in BeforeAck \cup {"acking"} => handler[b] \in BeforeAck \cup {"acking"}
    BY DEF Reject, Register, NewStream, SetStream, AgentGone, ConfigUpdate, BeforeAck,
           IInv, TypeOK, RelayType
  <1> QED BY <1>1, <1>2, QuietStep, SeenOwn DEF agentVars, requestVars

LEMMA ServeOnce ==
    ASSUME IInv, OnceInv, NEW r \in Request,
           LookupFails(r) \/ Lookup(r) \/ ForwardFails(r) \/ ReceiveFails(r)
    PROVE  OnceInv'
  <1>1. UNCHANGED <<down, up, local, seen, handler>>
    BY DEF LookupFails, Lookup, ForwardFails, ReceiveFails, relayVars, agentVars
  <1>2. ASSUME NEW p \in Request
        PROVE  /\ rctx'[p] = rctx[p] \/ rctx[p] = None
               /\ rpc'[p] = "new" => rpc[p] = "new" /\ rctx'[p] = rctx[p]
               /\ rpc'[p] \in {"new", "found"} => rpc[p] \in {"new", "found"}
               /\ rpc'[p] \in {"new", "found", "writing"} => rpc[p] \in {"new", "found", "writing"}
               /\ answer'[p] \in {answer[p], BadGateway}
    <2>1. rpc[r] = "new" => rctx[r] = None
      BY DEF OnceInv, Own
    <2> QED BY <2>1 DEF LookupFails, Lookup, ForwardFails, ReceiveFails, Respond,
                        IInv, TypeOK, RequestType
  <1> QED BY <1>1, <1>2, QuietStep, SeenOwn

\* A connecting agent takes the acknowledgement, a broken one remembers what
\* it received.
LEMMA AgentTakesOnce ==
    ASSUME IInv, OnceInv, NEW a \in Agent, AgentConnects(a) \/ AgentBreaks(a)
    PROVE  OnceInv'
  <1>1. UNCHANGED <<up, local, handler, rpc, rctx, answer>>
    BY DEF AgentConnects, AgentBreaks, relayVars, requestVars
  <1>2. down[a] \in Seq(Chunk) /\ Len(down[a]) >= 2 /\ Distinct(down[a])
    BY OwnStreams DEF AgentConnects, AgentBreaks, Take2, OnceInv, NoRepeats
  <1>3. CASE AgentConnects(a)
    <2>1. down' = [down EXCEPT ![a] = Tail(Tail(down[a]))] /\ seen' = seen
      BY <1>3 DEF AgentConnects
    <2>2. Distinct(Tail(Tail(down[a]))) /\ Ran(Tail(Tail(down[a]))) \subseteq Ran(down[a])
      BY <1>2, RanTailTwo
    <2>3. \A b \in Agent : Distinct(down'[b]) /\ Ran(down'[b]) \subseteq Ran(down[b])
      BY <2>1, <2>2 DEF IInv, TypeOK, AgentType, OnceInv, NoRepeats
    <2>4. \A b \in Agent : Distinct(up[b]) /\ Distinct(local[b])
      BY DEF OnceInv, NoRepeats
    <2> HIDE DEF BeforeAck
    <2> QED BY <1>1, <2>1, <2>3, <2>4, SeenOwn, Shrinks
  <1>4. CASE AgentBreaks(a)
    <2>1. down' = down /\ seen' = [seen EXCEPT ![a] = @ \cup ({down[a][1].of, down[a][2].of} \ {Ack})]
      BY <1>4 DEF AgentBreaks
    <2>2. down[a][1] \in Ran(down[a]) /\ down[a][2] \in Ran(down[a])
      BY <1>2, RanTailTwo
    <2>3. \A c \in Ran(down[a]) : c.of \in Request \cup {Ack} /\ (c.of \in Request => rctx[c.of] = a)
      BY RanTyped DEF OnceInv, Own, Chunk
    <2>4. \A b \in Agent : \A r \in seen'[b] : r \in Request /\ rctx[r] = b
      <3> SUFFICES ASSUME NEW b \in Agent, NEW r \in seen'[b]
                   PROVE  r \in Request /\ rctx[r] = b
        OBVIOUS
      <3>1. seen \in [Agent -> SUBSET Request]
        BY DEF IInv, TypeOK, AgentType
      <3>2. r \in seen[b] \/ (b = a /\ r \in {down[a][1].of, down[a][2].of} \ {Ack})
        BY <2>1, <3>1
      <3>3. CASE r \in seen[b]
        BY <3>3, SeenOwn
      <3>4. CASE b = a /\ r \in {down[a][1].of, down[a][2].of} \ {Ack}
        BY <3>4, <2>2, <2>3
      <3> QED BY <3>2, <3>3, <3>4
    <2> HIDE DEF BeforeAck
    <2> QED BY <1>1, <2>1, <2>4, QuietStep
  <1> QED BY <1>3, <1>4

LEMMA ReceiveHeaderOnce ==
    ASSUME IInv, OnceInv, NEW r \in Request, ReceiveHeader(r)
    PROVE  OnceInv'
  <1> DEFINE a == rctx[r]
  <1>1. /\ a \in Agent /\ ConnOf(a) = a /\ up[a] \in Seq(Chunk) /\ up[a] # <<>> /\ Distinct(up[a])
        /\ rpc[r] = "waiting"
    BY WaitsForOwn, OwnStreams DEF ReceiveHeader, Stream, OnceInv, NoRepeats
  <1>2. UNCHANGED <<down, local, seen, handler, rctx>> /\ up' = [up EXCEPT ![a] = Tail(up[a])]
    BY <1>1 DEF ReceiveHeader, relayVars, agentVars
  <1>3. Distinct(Tail(up[a])) /\ Ran(Tail(up[a])) \subseteq Ran(up[a])
    BY <1>1, RanTail
  <1>4. \A b \in Agent : Distinct(up'[b]) /\ Ran(up'[b]) \subseteq Ran(up[b])
    BY <1>2, <1>3 DEF IInv, TypeOK, AgentType, OnceInv, NoRepeats
  <1>5. \A b \in Agent : Distinct(down[b]) /\ Distinct(local[b])
    BY DEF OnceInv, NoRepeats
  <1>6. ASSUME NEW p \in Request
        PROVE  /\ rpc'[p] = "new" => rpc[p] = "new"
               /\ rpc'[p] \in {"new", "found"} => rpc[p] \in {"new", "found"}
               /\ rpc'[p] \in {"new", "found", "writing"} => rpc[p] \in {"new", "found", "writing"}
               /\ answer'[p] \in {answer[p], BadGateway}
    BY <1>1 DEF ReceiveHeader, Respond, IInv, TypeOK, RequestType
  <1> HIDE DEF BeforeAck, a
  <1> QED BY <1>2, <1>4, <1>5, <1>6, SeenOwn, Shrinks

\* A chunk that was not yet written is appended to the stream of its agent.
LEMMA Writes ==
    ASSUME IInv, OnceInv, NEW a \in Agent, NEW c \in Chunk,
           c \notin Ran(down[a]), c.part = 0, c.of \in Request => rctx[c.of] = a,
           down' = [down EXCEPT ![a] = Append(@, c)],
           UNCHANGED <<up, local, seen, rctx, answer>>,
           \A r \in Request : rpc'[r] = "new" => rpc[r] = "new"
    PROVE  /\ NoRepeats' /\ Own' /\ Once'
           /\ \A b \in Agent : Ran(down'[b]) = Ran(down[b]) \cup (IF b = a THEN {c} ELSE {})
  <1>1. down[a] \in Seq(Chunk) /\ Distinct(down[a]) /\ down \in [Agent -> Seq(Chunk)]
    BY OwnStreams DEF OnceInv, NoRepeats, IInv, TypeOK, AgentType
  <1>2. Distinct(Append(down[a], c)) /\ Ran(Append(down[a], c)) = Ran(down[a]) \cup {c}
    BY <1>1, RanAppend
  <1>3. \A b \in Agent : /\ Distinct(down'[b])
                         /\ Ran(down'[b]) = Ran(down[b]) \cup (IF b = a THEN {c} ELSE {})
    <2> SUFFICES ASSUME NEW b \in Agent
                 PROVE  /\ Distinct(down'[b])
                        /\ Ran(down'[b]) = Ran(down[b]) \cup (IF b = a THEN {c} ELSE {})
      OBVIOUS
    <2>1. CASE b = a
      BY <1>1, <1>2, <2>1
    <2>2. CASE b # a
      BY <1>1, <2>2 DEF OnceInv, NoRepeats
    <2> QED BY <2>1, <2>2
  <1>4. NoRepeats'
    BY <1>3 DEF OnceInv, NoRepeats
  <1>5. Own'
    <2>1. ASSUME NEW b \in Agent, NEW d \in Ran(down'[b])
          PROVE  d.part = 0 /\ (d.of \in Request => rctx[d.of] = b)
      <3>1. d \in Ran(down[b]) \/ (b = a /\ d = c)
        BY <1>3, <2>1
      <3> QED BY <3>1 DEF OnceInv, Own
    <2>2. \A r \in Request : rpc'[r] = "new" => rctx[r] = None
      BY DEF OnceInv, Own
    <2> QED BY <2>1, <2>2 DEF OnceInv, Own
  <1>6. Once'
    BY DEF OnceInv, Once, Part
  <1> QED BY <1>3, <1>4, <1>5, <1>6

LEMMA AckOnce ==
    ASSUME IInv, OnceInv, NEW a \in Agent, AckHeader(a) \/ AckPayload(a)
    PROVE  OnceInv'
  <1>1. PICK c \in {Header(Ack, 0), Payload(Ack, 0)} :
           /\ down' = [down EXCEPT ![a] = Append(@, c)]
           /\ c = Header(Ack, 0) => handler[a] = "set" /\ handler' = [handler EXCEPT ![a] = "acking"]
           /\ c = Payload(Ack, 0) => handler[a] = "acking" /\ handler' = [handler EXCEPT ![a] = "up"]
    BY ChunksDiffer DEF AckHeader, AckPayload
  <1>2. c \in Chunk /\ c.of = Ack /\ c.part = 0 /\ c \notin Ran(down[a])
    <2>1. c \notin Ran(down[a])
      BY <1>1 DEF OnceInv, NotYet, BeforeAck
    <2> QED BY <1>1, <2>1, ChunkFields
  <1>3. UNCHANGED <<up, local, seen, rpc, rctx, answer>>
    BY DEF AckHeader, AckPayload, agentVars, requestVars
  <1>4. /\ NoRepeats' /\ Own' /\ Once'
        /\ \A b \in Agent : Ran(down'[b]) = Ran(down[b]) \cup (IF b = a THEN {c} ELSE {})
    <2>1. UNCHANGED <<up, local, seen, rctx, answer>> /\ \A r \in Request : rpc'[r] = "new" => rpc[r] = "new"
      BY <1>3
    <2>2. c.of \in Request => rctx[c.of] = a
      BY <1>2
    <2> QED BY <1>1, <1>2, <2>1, <2>2, Writes
  <1>5. \A r \in Request : Header(r, 0) # c /\ Payload(r, 0) # c
    BY <1>2, ChunkFields
  <1>6. NotYet'
    <2>1. ASSUME NEW b \in Agent
          PROVE  /\ handler'[b] \in BeforeAck => Header(Ack, 0) \notin Ran(down'[b])
                 /\ handler'[b] \in BeforeAck \cup {"acking"} => Payload(Ack, 0) \notin Ran(down'[b])
      <3>1. handler'[b] = IF b # a THEN handler[b] ELSE IF c = Header(Ack, 0) THEN "acking" ELSE "up"
        BY <1>1 DEF IInv, TypeOK, RelayType
      <3>2. /\ handler[b] \in BeforeAck => Header(Ack, 0) \notin Ran(down[b])
            /\ handler[b] \in BeforeAck \cup {"acking"} => Payload(Ack, 0) \notin Ran(down[b])
        BY DEF OnceInv, NotYet
      <3>3. CASE b # a
        BY <1>4, <3>1, <3>2, <3>3
      <3>4. CASE b = a
        BY <1>1, <1>4, <3>1, <3>2, <3>4, ChunksDiffer DEF BeforeAck
      <3> QED BY <3>3, <3>4
    <2>2. ASSUME NEW r \in Request, NEW b \in Agent
          PROVE  /\ rpc[r] \in {"new", "found"} => Header(r, 0) \notin Ran(down'[b])
                 /\ rpc[r] \in {"new", "found", "writing"} => Payload(r, 0) \notin Ran(down'[b])
      <3>1. /\ rpc[r] \in {"new", "found"} => Header(r, 0) \notin Ran(down[b])
            /\ rpc[r] \in {"new", "found", "writing"} => Payload(r, 0) \notin Ran(down[b])
        BY DEF OnceInv, NotYet
      <3> QED BY <1>4, <1>5, <3>1
    <2> QED BY <1>3, <2>1, <2>2 DEF NotYet, BeforeAck
  <1>7. Fresh'
    <2>1. ASSUME NEW x \in Request, Pending(x)' PROVE Pending(x)
      BY <1>3, <1>4, <1>5, <2>1 DEF Pending
    <2>2. ASSUME NEW x \in Request, Unanswered(x) PROVE Unanswered(x)'
      BY <1>3, <2>2 DEF Unanswered
    <2> QED BY <2>1, <2>2 DEF OnceInv, Fresh
  <1> QED BY <1>4, <1>6, <1>7 DEF OnceInv

LEMMA ForwardsOnce ==
    ASSUME IInv, OnceInv, NEW r \in Request, ForwardHeader(r) \/ ForwardPayload(r)
    PROVE  OnceInv'
  <1> DEFINE a == rctx[r]
  <1>1. a \in Agent /\ ConnOf(a) = a
    BY ConnIsOwn DEF ForwardHeader, ForwardPayload, Unreachable, IInv, Waiting
  <1>2. PICK c \in {Header(r, 0), Payload(r, 0)} :
           /\ down' = [down EXCEPT ![a] = Append(@, c)]
           /\ c = Header(r, 0) => rpc[r] = "found" /\ rpc' = [rpc EXCEPT ![r] = "writing"]
           /\ c = Payload(r, 0) => rpc[r] = "writing" /\ rpc' = [rpc EXCEPT ![r] = "waiting"]
    BY <1>1, ChunksDiffer DEF ForwardHeader, ForwardPayload
  <1>3. c \in Chunk /\ c.of = r /\ c.part = 0 /\ c \notin Ran(down[a])
    <2>1. c \notin Ran(down[a])
      BY <1>1, <1>2 DEF OnceInv, NotYet
    <2> QED BY <1>2, <2>1, ChunkFields
  <1>4. UNCHANGED <<handler, up, local, seen, rctx, answer>>
    BY DEF ForwardHeader, ForwardPayload, relayVars, agentVars
  <1>5. \A p \in Request : rpc'[p] = IF p # r THEN rpc[p] ELSE IF c = Header(r, 0) THEN "writing" ELSE "waiting"
    BY <1>2 DEF IInv, TypeOK, RequestType
  <1>6. /\ NoRepeats' /\ Own' /\ Once'
        /\ \A b \in Agent : Ran(down'[b]) = Ran(down[b]) \cup (IF b = a THEN {c} ELSE {})
    <2> HIDE DEF a
    <2>1. \A p \in Request : rpc'[p] = "new" => rpc[p] = "new"
      BY <1>5
    <2>2. c.of \in Request => rctx[c.of] = a
      BY <1>3 DEF a
    <2>3. UNCHANGED <<up, local, seen, rctx, answer>>
      BY <1>4
    <2> QED BY <1>1, <1>2, <1>3, <2>1, <2>2, <2>3, Writes
  <1> HIDE DEF a
  <1>7. NotYet'
    <2>1. ASSUME NEW b \in Agent
          PROVE  /\ handler[b] \in BeforeAck => Header(Ack, 0) \notin Ran(down'[b])
                 /\ handler[b] \in BeforeAck \cup {"acking"} => Payload(Ack, 0) \notin Ran(down'[b])
      <3>1. /\ handler[b] \in BeforeAck => Header(Ack, 0) \notin Ran(down[b])
            /\ handler[b] \in BeforeAck \cup {"acking"} => Payload(Ack, 0) \notin Ran(down[b])
        BY DEF OnceInv, NotYet
      <3>2. Header(Ack, 0) # c /\ Payload(Ack, 0) # c
        BY <1>3, ChunkFields
      <3> QED BY <1>6, <3>1, <3>2
    <2>2. ASSUME NEW p \in Request, NEW b \in Agent
          PROVE  /\ rpc'[p] \in {"new", "found"} => Header(p, 0) \notin Ran(down'[b])
                 /\ rpc'[p] \in {"new", "found", "writing"} => Payload(p, 0) \notin Ran(down'[b])
      <3>1. /\ rpc[p] \in {"new", "found"} => Header(p, 0) \notin Ran(down[b])
            /\ rpc[p] \in {"new", "found", "writing"} => Payload(p, 0) \notin Ran(down[b])
        BY DEF OnceInv, NotYet
      <3>2. CASE p # r
        <4>1. Header(p, 0) # c /\ Payload(p, 0) # c
          BY <1>2, <3>2, ChunksDiffer
        <4> QED BY <1>5, <1>6, <3>1, <3>2, <4>1
      <3>3. CASE p = r
        <4>1. c = Header(r, 0) => Payload(r, 0) # c
          BY ChunksDiffer
        <4>2. CASE c = Header(r, 0)
          <5>1. rpc'[p] = "writing" /\ rpc[p] = "found"
            BY <1>2, <1>5, <3>3, <4>2
          <5>2. Payload(p, 0) \notin Ran(down'[b])
            BY <1>6, <3>1, <3>3, <4>1, <4>2, <5>1
          <5> QED BY <5>1, <5>2
        <4>3. CASE c # Header(r, 0)
          <5>1. rpc'[p] = "waiting"
            BY <1>5, <3>3, <4>3
          <5> QED BY <5>1
        <4> QED BY <4>2, <4>3
      <3> QED BY <3>2, <3>3
    <2> QED BY <1>4, <2>1, <2>2 DEF NotYet, BeforeAck
  <1>8. Fresh'
    <2>1. ASSUME NEW x \in Request, Pending(x)' PROVE Pending(x)
      <3>1. CASE x # r
        <4>1. Header(x, 0) # c
          BY <1>2, <3>1, ChunksDiffer
        <4> QED BY <1>5, <1>6, <2>1, <3>1, <4>1 DEF Pending
      <3>2. CASE x = r /\ c = Header(r, 0)
        BY <1>2, <3>2 DEF Pending
      <3>3. CASE x = r /\ c # Header(r, 0)
        BY <1>5, <1>6, <2>1, <3>3 DEF Pending
      <3> QED BY <3>1, <3>2, <3>3
    <2>2. ASSUME NEW x \in Request, Unanswered(x) PROVE Unanswered(x)'
      BY <1>4, <2>2 DEF Unanswered
    <2> QED BY <2>1, <2>2 DEF OnceInv, Fresh
  <1> QED BY <1>6, <1>7, <1>8 DEF OnceInv

\* The agent takes a request's frame and its local service starts to answer:
\* nothing of the answer was there before, and the frame is gone.
LEMMA AgentForwardsOnce ==
    ASSUME IInv, OnceInv, NEW a \in Agent, AgentForwards(a)
    PROVE  OnceInv'
  <1> DEFINE h == down[a][1]
             r == h.of
             rest == Tail(Tail(down[a]))
             parts == [k \in 1 .. PartsOf[r] |-> <<r, k>>]
  <1>1. /\ down[a] \in Seq(Chunk) /\ Len(down[a]) >= 2 /\ Distinct(down[a])
        /\ h.kind = "header" /\ r # Ack
    BY OwnStreams DEF AgentForwards, Take2, Whole, OnceInv, NoRepeats
  <1>2. /\ h \in Ran(down[a]) /\ Distinct(rest) /\ Ran(rest) \subseteq Ran(down[a]) /\ h \notin Ran(rest)
    BY <1>1, RanTailTwo
  <1>3. h \in Chunk /\ r \in Request /\ h = Header(r, 0) /\ rctx[r] = a
    <2>1. h \in Chunk
      BY <1>2, RanTyped
    <2>2. h.part = 0 /\ (r \in Request => rctx[r] = a)
      BY <1>2 DEF OnceInv, Own
    <2> QED BY <1>1, <2>1, <2>2 DEF Chunk, Header
  <1>4. Unanswered(r)
    BY <1>2, <1>3 DEF OnceInv, Fresh, Pending
  <1>5. /\ parts \in Seq(Request \X Nat) /\ Distinct(parts) /\ \A e \in Ran(parts) : e[1] = r
    <2>1. PartsOf[r] \in Nat \ {0}
      BY <1>3
    <2> HIDE DEF r
    <2>2. \A k \in 1 .. PartsOf[r] : <<r, k>> \in Request \X Nat
      BY <1>3, <2>1
    <2>3. parts \in Seq(Request \X Nat)
      BY <2>1, <2>2
    <2>4. Len(parts) = PartsOf[r] /\ \A k \in 1 .. Len(parts) : parts[k] = <<r, k>>
      BY <2>1
    <2> HIDE DEF parts
    <2> QED BY <2>3, <2>4 DEF Ran, Distinct
  <1>6. /\ down' = [down EXCEPT ![a] = rest]
        /\ local' = [local EXCEPT ![a] = @ \o parts]
        /\ seen' = [seen EXCEPT ![a] = @ \cup {r}]
        /\ UNCHANGED <<handler, up, rpc, rctx, answer>>
    BY DEF AgentForwards, relayVars, requestVars
  <1>7. local[a] \in Seq(Request \X Nat) /\ Distinct(local[a]) /\ \A e \in Ran(local[a]) : e[1] # r
    BY <1>4, OwnStreams DEF OnceInv, NoRepeats, Unanswered
  <1> HIDE DEF h, r, rest, parts
  <1>8. Distinct(local[a] \o parts) /\ Ran(local[a] \o parts) = Ran(local[a]) \cup Ran(parts)
    <2>1. Ran(local[a]) \cap Ran(parts) = {}
      BY <1>5, <1>7
    <2> QED BY <1>5, <1>7, <2>1, RanConcat
  <1>9. \A b \in Agent : /\ Distinct(down'[b]) /\ Ran(down'[b]) \subseteq Ran(down[b])
                         /\ Distinct(local'[b])
                         /\ Ran(local'[b]) = Ran(local[b]) \cup (IF b = a THEN Ran(parts) ELSE {})
    <2> SUFFICES ASSUME NEW b \in Agent
                 PROVE  /\ Distinct(down'[b]) /\ Ran(down'[b]) \subseteq Ran(down[b])
                        /\ Distinct(local'[b])
                        /\ Ran(local'[b]) = Ran(local[b]) \cup (IF b = a THEN Ran(parts) ELSE {})
      OBVIOUS
    <2>1. down \in [Agent -> Seq(Chunk)] /\ local \in [Agent -> Seq(Request \X Nat)]
      BY DEF IInv, TypeOK, AgentType
    <2>2. CASE b = a
      BY <1>2, <1>6, <1>8, <2>1, <2>2
    <2>3. CASE b # a
      BY <1>6, <2>1, <2>3 DEF OnceInv, NoRepeats
    <2> QED BY <2>2, <2>3
  <1>10. NoRepeats'
    BY <1>6, <1>9 DEF OnceInv, NoRepeats
  <1>11. NotYet'
    BY <1>6, <1>9 DEF OnceInv, NotYet, BeforeAck
  <1>12. Own'
    <2>1. ASSUME NEW b \in Agent, NEW e \in Ran(local'[b]) PROVE rctx[e[1]] = b
      <3>1. e \in Ran(local[b]) \/ (b = a /\ e \in Ran(parts))
        BY <1>9, <2>1
      <3> QED BY <1>3, <1>5, <3>1 DEF OnceInv, Own
    <2>2. \A b \in Agent : \A p \in seen'[b] : rctx[p] = b
      BY <1>3, <1>6 DEF OnceInv, Own, IInv, TypeOK, AgentType
    <2> QED BY <1>6, <1>9, <2>1, <2>2 DEF OnceInv, Own
  <1>13. Fresh'
    <2> SUFFICES ASSUME NEW x \in Request, Pending(x)' PROVE Unanswered(x)'
      BY DEF Fresh
    <2>1. Pending(x)
      BY <1>6, <1>9 DEF Pending
    <2>2. x # r
      <3>1. rpc[r] \notin {"new", "found"}
        BY <1>2, <1>3 DEF OnceInv, NotYet
      <3>2. ASSUME NEW b \in Agent PROVE Header(r, 0) \notin Ran(down'[b])
        <4>1. CASE b = a
          <5>1. down'[a] = rest
            BY <1>6 DEF IInv, TypeOK, AgentType
          <5>2. Ran(down'[b]) = Ran(rest)
            BY <4>1, <5>1
          <5> QED BY <1>2, <1>3, <5>2
        <4>2. CASE b # a
          <5>1. Header(r, 0) \notin Ran(down[b])
            <6>1. Header(r, 0).of = r
              BY <1>3, ChunkFields
            <6>2. \A d \in Ran(down[b]) : d.of \in Request => rctx[d.of] = b
              BY DEF OnceInv, Own
            <6> QED BY <1>3, <4>2, <6>1, <6>2
          <5> QED BY <1>9, <5>1
        <4> QED BY <4>1, <4>2
      <3> QED BY <1>6, <3>1, <3>2 DEF Pending
    <2>3. Unanswered(x)
      BY <2>1 DEF OnceInv, Fresh
    <2>4. \A b \in Agent : \A e \in Ran(local'[b]) : e[1] # x
      BY <1>5, <1>9, <2>2, <2>3 DEF Unanswered
    <2> QED BY <1>6, <2>3, <2>4 DEF Unanswered
  <1>14. Once'
    <2>1. ASSUME NEW b \in Agent, NEW e \in Ran(local'[b])
          PROVE  /\ \A c \in Ran(up[b]) : ~Part(e, c)
                 /\ \A p \in Request : answer[p] \in Chunk => ~Part(e, answer[p])
      <3>1. CASE e \in Ran(local[b])
        BY <3>1 DEF OnceInv, Once
      <3>2. CASE e \in Ran(parts)
        BY <1>4, <1>5, <3>2 DEF Unanswered, Part
      <3> QED BY <1>9, <2>1, <3>1, <3>2
    <2> QED BY <1>6, <2>1 DEF OnceInv, Once, Part
  <1> QED BY <1>10, <1>11, <1>12, <1>13, <1>14 DEF OnceInv

\* One part of an answer goes on its way: it leaves the local service and was
\* on no stream and in no answer.
LEMMA LocalAnswersOnce ==
    ASSUME IInv, OnceInv, NEW a \in Agent, LocalAnswers(a)
    PROVE  OnceInv'
  <1> DEFINE e == Head(local[a])
             hd == Header(e[1], e[2])
             pl == Payload(e[1], e[2])
             two == <<hd, pl>>
  <1>1. /\ local[a] \in Seq(Request \X Nat) /\ local[a] # <<>> /\ Distinct(local[a])
        /\ up[a] \in Seq(Chunk) /\ Distinct(up[a])
    BY OwnStreams DEF LocalAnswers, OnceInv, NoRepeats
  <1>2. /\ e \in Ran(local[a]) /\ Distinct(Tail(local[a]))
        /\ Ran(Tail(local[a])) \subseteq Ran(local[a]) /\ e \notin Ran(Tail(local[a]))
    BY <1>1, RanTail
  <1>3. e \in Request \X Nat /\ rctx[e[1]] = a
    BY <1>2, RanTyped DEF OnceInv, Own
  <1>4. /\ hd \in Chunk /\ pl \in Chunk /\ hd # pl
        /\ \A c \in {hd, pl} : Part(e, c) /\ c.of = e[1] /\ c.part = e[2]
    <2>1. hd # pl
      BY DEF Header, Payload
    <2> QED BY <1>3, <2>1, ChunkFields DEF Part
  <1>5. /\ up' = [up EXCEPT ![a] = @ \o two]
        /\ local' = [local EXCEPT ![a] = Tail(local[a])]
        /\ UNCHANGED <<handler, down, seen, rpc, rctx, answer>>
    BY DEF LocalAnswers, relayVars, requestVars
  <1> HIDE DEF e, hd, pl
  <1>6. two \in Seq(Chunk) /\ Distinct(two) /\ Ran(two) = {hd, pl}
    <2>1. two \in Seq(Chunk) /\ Len(two) = 2 /\ two[1] = hd /\ two[2] = pl
      BY <1>4
    <2> HIDE DEF two
    <2>2. 1 .. Len(two) = {1, 2}
      BY <2>1
    <2> QED BY <1>4, <2>1, <2>2 DEF Ran, Distinct
  <1>7. Distinct(up[a] \o two) /\ Ran(up[a] \o two) = Ran(up[a]) \cup {hd, pl}
    <2>1. Ran(up[a]) \cap Ran(two) = {}
      BY <1>2, <1>4, <1>6 DEF OnceInv, Once
    <2> HIDE DEF two
    <2> QED BY <1>1, <1>6, <2>1, RanConcat
  <1> HIDE DEF two
  <1>8. \A b \in Agent : /\ Distinct(up'[b]) /\ Distinct(local'[b])
                         /\ Ran(up'[b]) = Ran(up[b]) \cup (IF b = a THEN {hd, pl} ELSE {})
                         /\ Ran(local'[b]) \subseteq Ran(local[b])
                         /\ b = a => e \notin Ran(local'[b])
    <2> SUFFICES ASSUME NEW b \in Agent
                 PROVE  /\ Distinct(up'[b]) /\ Distinct(local'[b])
                        /\ Ran(up'[b]) = Ran(up[b]) \cup (IF b = a THEN {hd, pl} ELSE {})
                        /\ Ran(local'[b]) \subseteq Ran(local[b])
                        /\ b = a => e \notin Ran(local'[b])
      OBVIOUS
    <2>1. up \in [Agent -> Seq(Chunk)] /\ local \in [Agent -> Seq(Request \X Nat)]
      BY DEF IInv, TypeOK, AgentType
    <2>2. CASE b = a
      BY <1>2, <1>5, <1>7, <2>1, <2>2
    <2>3. CASE b # a
      BY <1>5, <2>1, <2>3 DEF OnceInv, NoRepeats
    <2> QED BY <2>2, <2>3
  <1>9. NoRepeats'
    BY <1>5, <1>8 DEF OnceInv, NoRepeats
  <1>10. NotYet'
    BY <1>5 DEF OnceInv, NotYet, BeforeAck
  <1>11. Own'
    <2>1. ASSUME NEW b \in Agent, NEW c \in Ran(up'[b]) PROVE rctx[c.of] = b
      <3>1. c \in Ran(up[b]) \/ (b = a /\ c \in {hd, pl})
        BY <1>8, <2>1
      <3> QED BY <1>3, <1>4, <3>1 DEF OnceInv, Own
    <2> QED BY <1>5, <1>8, <2>1 DEF OnceInv, Own
  <1>12. Fresh'
    <2> SUFFICES ASSUME NEW x \in Request, Pending(x)' PROVE Unanswered(x)'
      BY DEF Fresh
    <2>1. Unanswered(x)
      <3>1. Pending(x)
        BY <1>5 DEF Pending
      <3> QED BY <3>1 DEF OnceInv, Fresh
    <2>2. e[1] # x
      BY <1>2, <2>1 DEF Unanswered
    <2>3. ASSUME NEW b \in Agent, NEW c \in Ran(up'[b]) PROVE c.of # x
      <3>1. c \in Ran(up[b]) \/ c \in {hd, pl}
        BY <1>8, <2>3
      <3>2. c \in {hd, pl} => c.of = e[1]
        BY <1>4
      <3> QED BY <2>1, <2>2, <3>1, <3>2 DEF Unanswered
    <2> QED BY <1>5, <1>8, <2>1, <2>3 DEF Unanswered
  <1>13. Once'
    <2>1. ASSUME NEW b \in Agent, NEW f \in Ran(local'[b]), NEW c \in Ran(up'[b])
          PROVE  ~Part(f, c)
      <3>1. f \in Ran(local[b]) /\ f \in Request \X Nat
        BY <1>8, <2>1, RanTyped
      <3>2. CASE c \in Ran(up[b])
        BY <3>1, <3>2 DEF OnceInv, Once
      <3>3. CASE b = a /\ c \in {hd, pl}
        <4>1. f # e
          BY <1>8, <2>1, <3>3
        <4>2. f[1] # e[1] \/ f[2] # e[2]
          BY <1>3, <3>1, <4>1
        <4> QED BY <1>4, <3>3, <4>2 DEF Part
      <3> QED BY <1>8, <2>1, <3>2, <3>3
    <2>2. ASSUME NEW b \in Agent, NEW p \in Request PROVE answer[p] \notin Ran(up'[b])
      <3>1. answer[p] \notin Ran(up[b])
        BY DEF OnceInv, Once
      <3>2. answer[p] \notin {hd, pl}
        BY <1>2, <1>4 DEF OnceInv, Once
      <3> QED BY <1>8, <3>1, <3>2
    <2>3. \A b \in Agent : \A f \in Ran(local'[b]) : \A p \in Request : answer[p] \in Chunk => ~Part(f, answer[p])
      BY <1>8 DEF OnceInv, Once
    <2> QED BY <1>5, <2>1, <2>2, <2>3 DEF OnceInv, Once, Part
  <1> QED BY <1>9, <1>10, <1>11, <1>12, <1>13 DEF OnceInv

\* The client gets a chunk that leaves the stream.
LEMMA ReceivePayloadOnce ==
    ASSUME IInv, OnceInv, NEW r \in Request, ReceivePayload(r)
    PROVE  OnceInv'
  <1> DEFINE a == rctx[r]
             c == Head(up[a])
  <1>1. /\ a \in Agent /\ ConnOf(a) = a /\ up[a] \in Seq(Chunk) /\ up[a] # <<>> /\ Distinct(up[a])
        /\ rpc[r] = "reading"
    BY WaitsForOwn, OwnStreams DEF ReceivePayload, Stream, OnceInv, NoRepeats
  <1>2. /\ UNCHANGED <<down, local, seen, handler, rctx>>
        /\ up' = [up EXCEPT ![a] = Tail(up[a])]
        /\ rpc' = [rpc EXCEPT ![r] = "done"] /\ answer' = [answer EXCEPT ![r] = c]
    BY <1>1 DEF ReceivePayload, Respond, Stream, relayVars, agentVars
  <1>3. /\ c \in Ran(up[a]) /\ Distinct(Tail(up[a])) /\ Ran(Tail(up[a])) \subseteq Ran(up[a])
        /\ c \notin Ran(Tail(up[a]))
    BY <1>1, RanTail
  <1> HIDE DEF a, c
  <1>4. \A b \in Agent : /\ Distinct(up'[b]) /\ Ran(up'[b]) \subseteq Ran(up[b])
                         /\ c \notin Ran(up'[b])
    <2> SUFFICES ASSUME NEW b \in Agent
                 PROVE  Distinct(up'[b]) /\ Ran(up'[b]) \subseteq Ran(up[b]) /\ c \notin Ran(up'[b])
      OBVIOUS
    <2>1. up \in [Agent -> Seq(Chunk)]
      BY DEF IInv, TypeOK, AgentType
    <2>2. CASE b = a
      BY <1>2, <1>3, <2>1, <2>2
    <2>3. CASE b # a
      <3>1. up'[b] = up[b]
        BY <1>2, <2>1, <2>3
      <3>2. c \notin Ran(up[b])
        <4>1. /\ \A d \in Ran(up[b]) : rctx[d.of] = b
              /\ \A d \in Ran(up[a]) : rctx[d.of] = a
          BY <1>1 DEF OnceInv, Own
        <4> QED BY <1>3, <2>3, <4>1
      <3> QED BY <3>1, <3>2 DEF OnceInv, NoRepeats
    <2> QED BY <2>2, <2>3
  <1>5. \A p \in Request : /\ answer'[p] = (IF p = r THEN c ELSE answer[p])
                           /\ rpc'[p] = (IF p = r THEN "done" ELSE rpc[p])
    BY <1>2 DEF IInv, TypeOK, RequestType
  <1>6. NoRepeats'
    BY <1>2, <1>4 DEF OnceInv, NoRepeats
  <1>7. NotYet'
    <2>1. \A p \in Request : /\ rpc'[p] \in {"new", "found"} => rpc[p] \in {"new", "found"}
                             /\ rpc'[p] \in {"new", "found", "writing"} => rpc[p] \in {"new", "found", "writing"}
      BY <1>5
    <2> QED BY <1>2, <2>1 DEF OnceInv, NotYet, BeforeAck
  <1>8. Own'
    <2>1. \A p \in Request : rpc'[p] = "new" => rpc[p] = "new"
      BY <1>5
    <2> QED BY <1>2, <1>4, <2>1 DEF OnceInv, Own
  <1>9. Fresh'
    <2> SUFFICES ASSUME NEW x \in Request, Pending(x)' PROVE Unanswered(x)'
      BY DEF Fresh
    <2>1. Unanswered(x)
      <3>1. Pending(x)
        BY <1>2, <1>5 DEF Pending
      <3> QED BY <3>1 DEF OnceInv, Fresh
    <2>2. c.of # x
      BY <1>1, <1>3, <2>1 DEF Unanswered
    <2> QED BY <1>2, <1>4, <1>5, <2>1, <2>2 DEF Unanswered
  <1>10. Once'
    <2>1. ASSUME NEW b \in Agent, NEW e \in Ran(local[b])
          PROVE  /\ \A d \in Ran(up'[b]) : ~Part(e, d)
                 /\ \A p \in Request : answer'[p] \in Chunk => ~Part(e, answer'[p])
      <3>1. /\ \A d \in Ran(up[b]) : ~Part(e, d)
            /\ \A p \in Request : answer[p] \in Chunk => ~Part(e, answer[p])
        BY DEF OnceInv, Once
      <3>2. ~Part(e, c)
        <4>1. CASE b = a
          BY <1>3, <3>1, <4>1
        <4>2. CASE b # a
          <5>1. rctx[e[1]] = b /\ rctx[c.of] = a
            BY <1>1, <1>3 DEF OnceInv, Own
          <5> QED BY <4>2, <5>1 DEF Part
        <4> QED BY <4>1, <4>2
      <3> QED BY <1>4, <1>5, <3>1, <3>2
    <2>2. \A b \in Agent, p \in Request : answer'[p] \notin Ran(up'[b])
      BY <1>4, <1>5 DEF OnceInv, Once
    <2>3. \A p, q \in Request : answer'[p] \in Chunk /\ answer'[p] = answer'[q] => p = q
      <3>1. \A p \in Request : answer[p] # c
        BY <1>1, <1>3 DEF OnceInv, Once
      <3> QED BY <1>5, <3>1 DEF OnceInv, Once
    <2> QED BY <1>2, <2>1, <2>2, <2>3 DEF Once, Part
  <1> QED BY <1>6, <1>7, <1>8, <1>9, <1>10 DEF OnceInv

LEMMA InitOnce == Init => OnceInv
  <1> SUFFICES ASSUME Init PROVE OnceInv
    OBVIOUS
  <1>1. \A a \in Agent : /\ down[a] = <<>> /\ up[a] = <<>> /\ local[a] = <<>> /\ seen[a] = {}
    BY DEF Init
  <1>2. Ran(<<>>) = {} /\ Distinct(<<>>)
    BY DEF Ran, Distinct
  <1>3. \A r \in Request : rctx[r] = None /\ answer[r] = None
    BY DEF Init
  <1>4. NoRepeats /\ NotYet /\ Own
    BY <1>1, <1>2, <1>3 DEF NoRepeats, NotYet, Own
  <1>5. Fresh /\ Once
    BY <1>1, <1>2, <1>3 DEF Fresh, Unanswered, Once
  <1> QED BY <1>4, <1>5 DEF OnceInv

LEMMA NextOnce == IInv /\ OnceInv /\ [Next]_vars => OnceInv'
  <1> SUFFICES ASSUME IInv, OnceInv, [Next]_vars PROVE OnceInv'
    OBVIOUS
  <1>1. CASE UNCHANGED vars
    <2>1. UNCHANGED <<down, up, local, seen, handler, rctx, rpc, answer>>
      BY <1>1 DEF vars, relayVars, agentVars, requestVars
    <2> QED BY <2>1, QuietStep, SeenOwn
  <1>2. CASE \E t \in Tunnel : ConfigUpdate(t)
    <2>1. UNCHANGED <<down, up, local, seen, handler, rctx, rpc, answer>>
      BY <1>2 DEF ConfigUpdate, agentVars, requestVars
    <2> QED BY <2>1, QuietStep, SeenOwn
  <1>3. CASE \E a \in Agent : Handler(a) \/ AgentGone(a) \/ AgentStep(a)
    BY <1>3, RelayOnce, AckOnce, AgentTakesOnce, AgentForwardsOnce, LocalAnswersOnce
       DEF Handler, AgentStep
  <1>4. CASE \E r \in Request : Serve(r)
    BY <1>4, ServeOnce, ForwardsOnce, ReceiveHeaderOnce, ReceivePayloadOnce DEF Serve
  <1> QED BY <1>1, <1>2, <1>3, <1>4 DEF Next

\* However many requests share a stream, and however their frames are mixed
\* up on it, no request is executed by two agents and nothing is answered to
\* two clients (handleHTTP, forwardRemoteToLocal, forwardLocalToRemote).
THEOREM NothingEverTwice == Spec => []NothingTwice
  <1>1. Init => OnceInv
    BY InitOnce
  <1>2. IInv /\ OnceInv /\ [Next]_vars => OnceInv'
    BY NextOnce
  <1>3. IInv /\ OnceInv => NothingTwice
    <2> SUFFICES ASSUME IInv, OnceInv PROVE NothingTwice
      OBVIOUS
    <2>1. \A r \in Request : Answered(r) => answer[r] \in Chunk
      BY DEF Answered, IInv, Answers, TypeOK, RequestType
    <2>2. \A a, b \in Agent : seen[a] \cap seen[b] # {} => a = b
      BY DEF OnceInv, Own
    <2> QED BY <2>1, <2>2 DEF NothingTwice, OnceInv, Once
  <1> QED BY <1>1, <1>2, <1>3, ProxyInvariance, PTL DEF Spec
=============================================================================
