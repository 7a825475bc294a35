-------------------------- MODULE GatewayHubProofs --------------------------
(***************************************************************************)
(* Safety of the gateway hub for any number of connections, agents,        *)
(* organisations and writers and any channel capacity.                     *)
(***************************************************************************)
EXTENDS GatewayHub, TLAPS

USE ConstantsAssumption DEF ConstantsAssumption

-----------------------------------------------------------------------------
(* Queues.                                                                 *)

\* A channel holds what it held and the value just sent.
LEMMA AppendQueue ==
    ASSUME NEW S, NEW s \in Seq(S), NEW x \in S
    PROVE  /\ Append(s, x) \in Seq(S)
           /\ Len(Append(s, x)) = Len(s) + 1
           /\ \A y : InQueue(Append(s, x), y) <=> (InQueue(s, y) \/ y = x)
<1>1. \A i \in 1 .. Len(s) : Append(s, x)[i] = s[i]
  OBVIOUS
<1>2. Append(s, x)[Len(s) + 1] = x
  OBVIOUS
<1>3. Append(s, x) \in Seq(S) /\ Len(Append(s, x)) = Len(s) + 1
  OBVIOUS
<1>4. ASSUME NEW y
      PROVE  InQueue(Append(s, x), y) <=> (InQueue(s, y) \/ y = x)
  <2>1. InQueue(Append(s, x), y) => InQueue(s, y) \/ y = x
    BY <1>1, <1>2, <1>3 DEF InQueue
  <2>2. InQueue(s, y) => InQueue(Append(s, x), y)
    BY <1>1, <1>3 DEF InQueue
  <2>3. y = x => InQueue(Append(s, x), y)
    <3>1. Len(s) + 1 \in 1 .. Len(Append(s, x))
      BY <1>3
    <3> QED BY <3>1, <1>2 DEF InQueue
  <2> QED BY <2>1, <2>2, <2>3
<1> QED BY <1>3, <1>4

\* Receiving takes the head of a channel and leaves the rest.
LEMMA TailQueue ==
    ASSUME NEW S, NEW s \in Seq(S), s # <<>>
    PROVE  /\ Head(s) \in S
           /\ Tail(s) \in Seq(S)
           /\ Len(Tail(s)) = Len(s) - 1
           /\ InQueue(s, Head(s))
           /\ \A y : InQueue(Tail(s), y) => InQueue(s, y)
           /\ \A y : InQueue(s, y) => (InQueue(Tail(s), y) \/ y = Head(s))
<1>1. /\ Head(s) \in S /\ Tail(s) \in Seq(S) /\ Len(Tail(s)) = Len(s) - 1
      /\ Len(s) \in Nat /\ Len(s) > 0 /\ Head(s) = s[1]
  OBVIOUS
<1>2. \A i \in 1 .. Len(Tail(s)) : Tail(s)[i] = s[i + 1]
  OBVIOUS
<1>3. InQueue(s, Head(s))
  BY <1>1 DEF InQueue
<1>4. ASSUME NEW y, InQueue(Tail(s), y) PROVE InQueue(s, y)
  <2>1. PICK i \in 1 .. Len(Tail(s)) : Tail(s)[i] = y
    BY <1>4 DEF InQueue
  <2>2. i + 1 \in 1 .. Len(s) /\ s[i + 1] = y
    BY <2>1, <1>1, <1>2
  <2> QED BY <2>2 DEF InQueue
<1>5. ASSUME NEW y, InQueue(s, y) PROVE InQueue(Tail(s), y) \/ y = Head(s)
  <2>1. PICK i \in 1 .. Len(s) : s[i] = y
    BY <1>5 DEF InQueue
  <2>2. CASE i = 1
    BY <2>1, <2>2, <1>1
  <2>3. CASE i # 1
    <3>1. i - 1 \in 1 .. Len(Tail(s)) /\ (i - 1) + 1 = i
      BY <2>1, <2>3, <1>1
    <3>2. Tail(s)[i - 1] = y
      BY <3>1, <1>2, <2>1
    <3> QED BY <3>1, <3>2 DEF InQueue
  <2> QED BY <2>2, <2>3
<1> QED BY <1>1, <1>3, <1>4, <1>5

\* Nothing is in an empty channel.
LEMMA EmptyQueue == \A y : ~InQueue(<<>>, y)
BY DEF InQueue
-----------------------------------------------------------------------------
(* The inductive invariant.                                                *)

\* NewHub establishes the inductive invariant.
LEMMA InitIInv == Init => IInv
<1> SUFFICES ASSUME Init PROVE IInv
  OBVIOUS
<1>1. TypeOK
  <2>1. <<"welcome", None>> \in Message
    BY DEF Message
  <2>2. \A c \in Conn : send[c] = <<>>
    BY DEF Init
  <2>3. \A c \in Conn : Len(send[c]) <= SendCap
    <3>1. Len(<<>>) = 0
      OBVIOUS
    <3>2. \A c \in Conn : Len(send[c]) = 0
      BY <2>2, <3>1, Zenon
    <3>3. 0 <= SendCap
      OBVIOUS
    <3> QED BY <3>2, <3>3, Zenon
  <2>4. msg \in [Writer -> Message] /\ send \in [Conn -> Seq(Message)]
    BY <2>1 DEF Init
  <2>5. age \in [Conn -> 0 .. MaxAge]
    BY DEF Init, MaxAge
  <2>6. /\ register \in Seq(Conn) /\ Len(register) <= ChanCap
        /\ unregister \in Seq(Conn) /\ Len(unregister) <= ChanCap
    BY DEF Init
  <2>7. /\ agents \in [Agent -> Conn \cup {None}]
        /\ byOrg \in [Org -> SUBSET Conn] /\ orgKeys \in SUBSET Org
        /\ id \in [Conn -> Agent \cup {None}] /\ org \in [Conn -> Org \cup {NoOrg}]
    BY DEF Init
  <2>8. /\ hub \in {"up", "stopping", "stopped"}
        /\ phase \in [Conn -> Phases]
        /\ sock \in [Conn -> {"open", "lost", "closed"}]
        /\ cancelled \in SUBSET Conn /\ pumping \in SUBSET Conn
    BY DEF Init, Phases
  <2>9. /\ tickDue \in BOOLEAN
        /\ sweep \in SUBSET Conn /\ sweepCur \in Conn \cup {None}
        /\ pend \in [Writer -> SUBSET Conn]
    BY DEF Init
  <2> QED BY <2>3, <2>4, <2>5, <2>6, <2>7, <2>8, <2>9 DEF TypeOK
<1>2. Named
  BY EmptyQueue DEF Init, Named
<1>3. HubNamed /\ UnregisterCloses
  BY EmptyQueue DEF Init, HubNamed, UnregisterCloses
<1>4. IndexesAgree /\ ServingIsReachable
  BY DEF Init, IndexesAgree, Registered, ServingIsReachable
<1>5. MessageIsolation
  BY EmptyQueue DEF Init, MessageIsolation
<1> QED BY <1>1, <1>2, <1>3, <1>4, <1>5 DEF IInv

\* A part of the invariant survives every step that leaves alone the
\* variables it mentions.
LEMMA Frame ==
    ASSUME IInv
    PROVE  /\ UNCHANGED <<phase, id, register, unregister, sweep, sweepCur, send, pend>> => Named'
           /\ UNCHANGED <<agents, id>> => HubNamed'
           /\ UNCHANGED <<unregister, cancelled, sweepCur, phase>> => UnregisterCloses'
           /\ UNCHANGED <<agents, byOrg, orgKeys, id, org>> => IndexesAgree'
           /\ UNCHANGED <<hub, phase, cancelled, agents, id, register, sweepCur>> => ServingIsReachable'
           /\ UNCHANGED <<id, org, send, pend, msg>> => MessageIsolation'
<1>1. UNCHANGED <<phase, id, register, unregister, sweep, sweepCur, send, pend>> => Named'
  BY DEF IInv, Named
<1>2. UNCHANGED <<agents, id>> => HubNamed'
  BY DEF IInv, HubNamed
<1>3. UNCHANGED <<unregister, cancelled, sweepCur, phase>> => UnregisterCloses'
  BY DEF IInv, UnregisterCloses
<1>4. UNCHANGED <<agents, byOrg, orgKeys, id, org>> => IndexesAgree'
  BY DEF IInv, IndexesAgree, Registered
<1>5. UNCHANGED <<hub, phase, cancelled, agents, id, register, sweepCur>> => ServingIsReachable'
  BY DEF IInv, ServingIsReachable, Registered
<1>6. UNCHANGED <<id, org, send, pend, msg>> => MessageIsolation'
  BY DEF IInv, MessageIsolation, Addressed
<1> QED BY <1>1, <1>2, <1>3, <1>4, <1>5, <1>6

\* Hub.Register: the connection waits in the channel unless the hub is going down.
LEMMA SendRegisterQueue ==
    ASSUME TypeOK, NEW c \in Conn, SendRegister(c)
    PROVE  /\ register' \in Seq(Conn) /\ Len(register') <= ChanCap
           /\ \A y : InQueue(register', y) => InQueue(register, y) \/ y = c
           /\ \A y : InQueue(register, y) => InQueue(register', y)
           /\ hub = "up" => InQueue(register', c)
           /\ UNCHANGED <<unregister, hub>>
<1>1. register \in Seq(Conn) /\ Len(register) <= ChanCap
  BY DEF TypeOK
<1>2. UNCHANGED <<unregister, hub>>
  BY DEF SendRegister
<1>3. CASE Len(register) < ChanCap /\ register' = Append(register, c)
  <2>1. Len(register) \in Nat
    BY <1>1
  <2>2. /\ Append(register, c) \in Seq(Conn)
        /\ Len(Append(register, c)) = Len(register) + 1
        /\ \A y : InQueue(Append(register, c), y) <=> (InQueue(register, y) \/ y = c)
    BY <1>1, AppendQueue
  <2>3. Len(register') <= ChanCap
    BY <1>3, <2>1, <2>2
  <2> QED BY <1>2, <1>3, <2>2, <2>3
<1>4. CASE hub # "up" /\ UNCHANGED register
  BY <1>1, <1>2, <1>4
<1> QED BY <1>3, <1>4 DEF SendRegister

\* Hub.Unregister adds at most the connection to its channel.
LEMMA SendUnregisterQueue ==
    ASSUME TypeOK, NEW c \in Conn, SendUnregister(c)
    PROVE  /\ unregister' \in Seq(Conn) /\ Len(unregister') <= ChanCap
           /\ \A y : InQueue(unregister', y) => InQueue(unregister, y) \/ y = c
           /\ UNCHANGED <<register, hub>>
<1>1. unregister \in Seq(Conn) /\ Len(unregister) <= ChanCap
  BY DEF TypeOK
<1>2. UNCHANGED <<register, hub>>
  BY DEF SendUnregister
<1>3. CASE Len(unregister) < ChanCap /\ unregister' = Append(unregister, c)
  <2>1. Len(unregister) \in Nat
    BY <1>1
  <2>2. /\ Append(unregister, c) \in Seq(Conn)
        /\ Len(Append(unregister, c)) = Len(unregister) + 1
        /\ \A y : InQueue(Append(unregister, c), y) <=> (InQueue(unregister, y) \/ y = c)
    BY <1>1, AppendQueue
  <2>3. Len(unregister') <= ChanCap
    BY <1>3, <2>1, <2>2
  <2> QED BY <1>2, <1>3, <2>2, <2>3
<1>4. CASE UNCHANGED unregister
  BY <1>1, <1>2, <1>4
<1> QED BY <1>3, <1>4 DEF SendUnregister

\* What one queue of outgoing messages may become, whoever writes to it.
SendGrows(c, m) ==
    /\ send' \in [Conn -> Seq(Message)]
    /\ \A d \in Conn : Len(send'[d]) <= SendCap
    /\ \A d \in Conn \ {c} : send'[d] = send[d]
    /\ \A y : InQueue(send'[c], y) => InQueue(send[c], y) \/ y = m

\* WriteMessage adds at most its message to the queue of its connection.
LEMMA WriteMessageQueue ==
    ASSUME TypeOK, NEW c \in Conn, NEW m \in Message, WriteMessage(c, m)
    PROVE  SendGrows(c, m)
<1>1. /\ send \in [Conn -> Seq(Message)] /\ send[c] \in Seq(Message)
      /\ \A d \in Conn : Len(send[d]) <= SendCap
  BY DEF TypeOK
<1>2. CASE Len(send[c]) < SendCap /\ send' = [send EXCEPT ![c] = Append(@, m)]
  <2>1. /\ Append(send[c], m) \in Seq(Message)
        /\ Len(Append(send[c], m)) = Len(send[c]) + 1
        /\ \A y : InQueue(Append(send[c], m), y) <=> (InQueue(send[c], y) \/ y = m)
    BY <1>1, AppendQueue
  <2>2. Len(send[c]) \in Nat
    BY <1>1
  <2>3. send'[c] = Append(send[c], m) /\ \A d \in Conn \ {c} : send'[d] = send[d]
    BY <1>1, <1>2
  <2>4. send' \in [Conn -> Seq(Message)]
    BY <1>1, <1>2, <2>1
  <2>5. Len(send'[c]) <= SendCap
    BY <1>2, <2>1, <2>2, <2>3
  <2>6. \A d \in Conn : Len(send'[d]) <= SendCap
    BY <1>1, <2>3, <2>5
  <2> QED BY <2>1, <2>3, <2>4, <2>6 DEF SendGrows
<1>3. CASE UNCHANGED send
  BY <1>1, <1>3 DEF SendGrows
<1> QED BY <1>2, <1>3 DEF WriteMessage

\* writePump takes the oldest message and leaves the others.
LEMMA PumpQueue ==
    ASSUME TypeOK, NEW c \in Conn, send[c] # <<>>,
           send' = [send EXCEPT ![c] = Tail(@)]
    PROVE  /\ send' \in [Conn -> Seq(Message)]
           /\ \A d \in Conn : Len(send'[d]) <= SendCap
           /\ \A d \in Conn \ {c} : send'[d] = send[d]
           /\ \A y : InQueue(send'[c], y) => InQueue(send[c], y)
<1>1. /\ send \in [Conn -> Seq(Message)] /\ send[c] \in Seq(Message)
      /\ \A d \in Conn : Len(send[d]) <= SendCap
  BY DEF TypeOK
<1>2. /\ Tail(send[c]) \in Seq(Message)
      /\ Len(Tail(send[c])) = Len(send[c]) - 1
      /\ \A y : InQueue(Tail(send[c]), y) => InQueue(send[c], y)
  BY <1>1, TailQueue
<1>3. Len(send[c]) \in Nat /\ Len(send[c]) <= SendCap
  BY <1>1
<1>4. send'[c] = Tail(send[c]) /\ \A d \in Conn \ {c} : send'[d] = send[d]
  BY <1>1
<1>5. send' \in [Conn -> Seq(Message)]
  BY <1>1, <1>2
<1>6. Len(send'[c]) <= SendCap
  BY <1>2, <1>3, <1>4
<1>7. \A d \in Conn : Len(send'[d]) <= SendCap
  BY <1>1, <1>4, <1>6
<1> QED BY <1>2, <1>4, <1>5, <1>7

\* A failed handshake preserves the inductive invariant.
LEMMA HelloFailStep == ASSUME IInv, NEW c \in Conn, HelloFail(c) PROVE IInv'
<1>1. TypeOK'
  BY DEF IInv, TypeOK, Phases, HelloFail, hubVars, chanVars, idVars, sweepVars, writerVars
<1>2. Named'
  BY DEF IInv, TypeOK, Named, HelloFail, hubVars, chanVars, idVars, sweepVars, writerVars
<1>3. UnregisterCloses'
  BY DEF IInv, TypeOK, UnregisterCloses, HelloFail, hubVars, chanVars, idVars, sweepVars, writerVars
<1>4. ServingIsReachable'
  BY DEF IInv, TypeOK, ServingIsReachable, Registered, HelloFail, hubVars, chanVars, idVars, sweepVars, writerVars
<1>5. HubNamed' /\ IndexesAgree' /\ MessageIsolation'
  BY Frame DEF HelloFail, hubVars, chanVars, idVars, sweepVars, writerVars
<1> QED BY <1>1, <1>2, <1>3, <1>4, <1>5 DEF IInv

\* A read error preserves the inductive invariant.
LEMMA ReadErrorStep == ASSUME IInv, NEW c \in Conn, ReadError(c) PROVE IInv'
<1>1. TypeOK'
  BY DEF IInv, TypeOK, Phases, ReadError, hubVars, chanVars, idVars, connVars, sweepVars, writerVars
<1>2. Named'
  BY DEF IInv, TypeOK, Named, ReadError, hubVars, chanVars, idVars, connVars, sweepVars, writerVars
<1>3. UnregisterCloses'
  BY DEF IInv, TypeOK, UnregisterCloses, ReadError, hubVars, chanVars, idVars, connVars, sweepVars, writerVars
<1>4. ServingIsReachable'
  BY DEF IInv, TypeOK, ServingIsReachable, Registered, ReadError, hubVars, chanVars, idVars, connVars, sweepVars, writerVars
<1>5. HubNamed' /\ IndexesAgree' /\ MessageIsolation'
  BY Frame DEF ReadError, hubVars, chanVars, idVars, connVars, sweepVars, writerVars
<1> QED BY <1>1, <1>2, <1>3, <1>4, <1>5 DEF IInv

\* The end of a handler preserves the inductive invariant.
LEMMA CloseConnStep == ASSUME IInv, NEW c \in Conn, CloseConn(c) PROVE IInv'
<1>1. TypeOK'
  BY DEF IInv, TypeOK, Phases, CloseConn, hubVars, chanVars, idVars, sweepVars, writerVars
<1>2. Named'
  BY DEF IInv, TypeOK, Named, CloseConn, hubVars, chanVars, idVars, sweepVars, writerVars
<1>3. UnregisterCloses'
  BY DEF IInv, TypeOK, UnregisterCloses, CloseConn, hubVars, chanVars, idVars, sweepVars, writerVars
<1>4. ServingIsReachable'
  BY DEF IInv, TypeOK, ServingIsReachable, Registered, CloseConn, hubVars, chanVars, idVars, sweepVars, writerVars
<1>5. HubNamed' /\ IndexesAgree' /\ MessageIsolation'
  BY Frame DEF CloseConn, hubVars, chanVars, idVars, sweepVars, writerVars
<1> QED BY <1>1, <1>2, <1>3, <1>4, <1>5 DEF IInv

\* A lost peer preserves the inductive invariant.
LEMMA PeerLostStep == ASSUME IInv, NEW c \in Conn, PeerLost(c) PROVE IInv'
<1>1. TypeOK'
  BY DEF IInv, TypeOK, Phases, PeerLost, hubVars, chanVars, idVars, sweepVars, writerVars
<1>2. Named' /\ HubNamed' /\ UnregisterCloses' /\ IndexesAgree' /\ ServingIsReachable' /\ MessageIsolation'
  BY Frame DEF PeerLost, hubVars, chanVars, idVars, sweepVars, writerVars
<1> QED BY <1>1, <1>2 DEF IInv

\* A stopped writePump preserves the inductive invariant.
LEMMA PumpStopStep == ASSUME IInv, NEW c \in Conn, PumpStop(c) PROVE IInv'
<1>1. TypeOK'
  BY DEF IInv, TypeOK, Phases, PumpStop, PumpExit, hubVars, chanVars, idVars, sweepVars, writerVars
<1>2. Named' /\ HubNamed' /\ UnregisterCloses' /\ IndexesAgree' /\ ServingIsReachable' /\ MessageIsolation'
  BY Frame DEF PumpStop, PumpExit, hubVars, chanVars, idVars, sweepVars, writerVars
<1> QED BY <1>1, <1>2 DEF IInv

\* A close by the sweep preserves the inductive invariant.
LEMMA SweepCloseStep == ASSUME IInv, NEW c \in Conn, SweepClose(c) PROVE IInv'
<1>1. TypeOK'
  BY DEF IInv, TypeOK, Phases, SweepClose, hubVars, chanVars, idVars, writerVars
<1>2. Named'
  BY DEF IInv, TypeOK, Named, SweepClose, hubVars, chanVars, idVars, writerVars
<1>3. UnregisterCloses'
  BY DEF IInv, TypeOK, UnregisterCloses, SweepClose, hubVars, chanVars, idVars, writerVars
<1>4. ServingIsReachable'
  BY DEF IInv, TypeOK, ServingIsReachable, Registered, SweepClose, hubVars, chanVars, idVars, writerVars
<1>5. HubNamed' /\ IndexesAgree' /\ MessageIsolation'
  BY Frame DEF SweepClose, hubVars, chanVars, idVars, writerVars
<1> QED BY <1>1, <1>2, <1>3, <1>4, <1>5 DEF IInv

\* A received message preserves the inductive invariant.
LEMMA ReceiveStep == ASSUME IInv, NEW c \in Conn, Receive(c) PROVE IInv'
<1>1. TypeOK'
  <2>1. age' \in [Conn -> 0 .. MaxAge]
    BY DEF IInv, TypeOK, MaxAge, Receive, hubVars, chanVars, idVars, connVars, sweepVars, writerVars
  <2> QED BY <2>1 DEF IInv, TypeOK, Phases, Receive, hubVars, chanVars, idVars, connVars, sweepVars, writerVars
<1>2. Named' /\ HubNamed' /\ UnregisterCloses' /\ IndexesAgree' /\ ServingIsReachable' /\ MessageIsolation'
  BY Frame DEF Receive, hubVars, chanVars, idVars, connVars, sweepVars, writerVars
<1> QED BY <1>1, <1>2 DEF IInv

\* The first Register preserves the inductive invariant.
LEMMA RegisterStep == ASSUME IInv, NEW c \in Conn, Register(c) PROVE IInv'
<1>q. /\ register' \in Seq(Conn) /\ Len(register') <= ChanCap
      /\ \A y : InQueue(register', y) => InQueue(register, y) \/ y = c
      /\ \A y : InQueue(register, y) => InQueue(register', y)
      /\ hub = "up" => InQueue(register', c)
      /\ UNCHANGED <<unregister, hub>>
  BY SendRegisterQueue DEF IInv, Register, hubVars, idVars, connVars, sweepVars, writerVars
<1>1. TypeOK'
  BY <1>q DEF IInv, TypeOK, Phases, Register, hubVars, idVars, connVars, sweepVars, writerVars
<1>2. Named'
  BY <1>q DEF IInv, TypeOK, Named, Register, hubVars, idVars, connVars, sweepVars, writerVars
<1>3. UnregisterCloses'
  BY <1>q DEF IInv, TypeOK, UnregisterCloses, Register, hubVars, idVars, connVars, sweepVars, writerVars
<1>4. ServingIsReachable'
  BY <1>q DEF IInv, TypeOK, ServingIsReachable, Registered, Register, hubVars, idVars, connVars, sweepVars, writerVars
<1>5. HubNamed' /\ IndexesAgree' /\ MessageIsolation'
  BY <1>q, Frame DEF Register, hubVars, idVars, connVars, sweepVars, writerVars
<1> QED BY <1>1, <1>2, <1>3, <1>4, <1>5 DEF IInv

\* The second Register preserves the inductive invariant.
LEMMA ReregisterStep == ASSUME IInv, NEW c \in Conn, Reregister(c) PROVE IInv'
<1>q. /\ register' \in Seq(Conn) /\ Len(register') <= ChanCap
      /\ \A y : InQueue(register', y) => InQueue(register, y) \/ y = c
      /\ \A y : InQueue(register, y) => InQueue(register', y)
      /\ hub = "up" => InQueue(register', c)
      /\ UNCHANGED <<unregister, hub>>
  BY SendRegisterQueue DEF IInv, Reregister, hubVars, idVars, sweepVars, writerVars
<1>1. TypeOK'
  BY <1>q DEF IInv, TypeOK, Phases, Reregister, hubVars, idVars, sweepVars, writerVars
<1>2. Named'
  BY <1>q DEF IInv, TypeOK, Named, Reregister, hubVars, idVars, sweepVars, writerVars
<1>3. UnregisterCloses'
  BY <1>q DEF IInv, TypeOK, UnregisterCloses, Reregister, hubVars, idVars, sweepVars, writerVars
<1>4. ServingIsReachable'
  BY <1>q DEF IInv, TypeOK, ServingIsReachable, Registered, Reregister, hubVars, idVars, sweepVars, writerVars
<1>5. HubNamed' /\ IndexesAgree' /\ MessageIsolation'
  BY <1>q, Frame DEF Reregister, hubVars, idVars, sweepVars, writerVars
<1> QED BY <1>1, <1>2, <1>3, <1>4, <1>5 DEF IInv

\* The deferred Unregister preserves the inductive invariant.
LEMMA UnregisterStep == ASSUME IInv, NEW c \in Conn, Unregister(c) PROVE IInv'
<1>q. /\ unregister' \in Seq(Conn) /\ Len(unregister') <= ChanCap
      /\ \A y : InQueue(unregister', y) => InQueue(unregister, y) \/ y = c
      /\ UNCHANGED <<register, hub>>
  BY SendUnregisterQueue DEF IInv, Unregister, hubVars, idVars, connVars, sweepVars, writerVars
<1>1. TypeOK'
  BY <1>q DEF IInv, TypeOK, Phases, Unregister, hubVars, idVars, connVars, sweepVars, writerVars
<1>2. Named'
  BY <1>q DEF IInv, TypeOK, Named, Unregister, hubVars, idVars, connVars, sweepVars, writerVars
<1>3. UnregisterCloses'
  BY <1>q DEF IInv, TypeOK, UnregisterCloses, Unregister, hubVars, idVars, connVars, sweepVars, writerVars
<1>4. ServingIsReachable'
  BY <1>q DEF IInv, TypeOK, ServingIsReachable, Registered, Unregister, hubVars, idVars, connVars, sweepVars, writerVars
<1>5. HubNamed' /\ IndexesAgree' /\ MessageIsolation'
  BY <1>q, Frame DEF Unregister, hubVars, idVars, connVars, sweepVars, writerVars
<1> QED BY <1>1, <1>2, <1>3, <1>4, <1>5 DEF IInv

\* An unregistration by the sweep preserves the inductive invariant.
LEMMA SweepUnregisterStep == ASSUME IInv, NEW c \in Conn, SweepUnregister(c) PROVE IInv'
<1>q. /\ unregister' \in Seq(Conn) /\ Len(unregister') <= ChanCap
      /\ \A y : InQueue(unregister', y) => InQueue(unregister, y) \/ y = c
      /\ UNCHANGED <<register, hub>>
  BY SendUnregisterQueue DEF IInv, SweepUnregister, hubVars, idVars, connVars, writerVars
<1>1. TypeOK'
  BY <1>q DEF IInv, TypeOK, Phases, SweepUnregister, hubVars, idVars, connVars, writerVars
<1>2. Named'
  BY <1>q DEF IInv, TypeOK, Named, SweepUnregister, hubVars, idVars, connVars, writerVars
<1>3. UnregisterCloses'
  BY <1>q DEF IInv, TypeOK, UnregisterCloses, SweepUnregister, hubVars, idVars, connVars, writerVars
<1>4. ServingIsReachable'
  BY <1>q DEF IInv, TypeOK, ServingIsReachable, Registered, SweepUnregister, hubVars, idVars, connVars, writerVars
<1>5. HubNamed' /\ IndexesAgree' /\ MessageIsolation'
  BY <1>q, Frame DEF SweepUnregister, hubVars, idVars, connVars, writerVars
<1> QED BY <1>1, <1>2, <1>3, <1>4, <1>5 DEF IInv

\* The welcome message preserves the inductive invariant.
LEMMA WelcomeStep == ASSUME IInv, NEW c \in Conn, Welcome(c) PROVE IInv'
<1>m. <<"welcome", None>> \in Message
  BY DEF Message
<1>q. SendGrows(c, <<"welcome", None>>)
  BY <1>m, WriteMessageQueue DEF IInv, Welcome
<1>1. TypeOK'
  <2>1. age' \in [Conn -> 0 .. MaxAge]
    BY DEF IInv, TypeOK, MaxAge, Welcome, hubVars, chanVars, idVars, connVars, sweepVars, writerVars
  <2> QED BY <1>q, <2>1 DEF IInv, TypeOK, Phases, SendGrows, Welcome, hubVars, chanVars, idVars, connVars, sweepVars, writerVars
<1>2. Named'
  BY <1>q DEF IInv, TypeOK, Named, SendGrows, Welcome, hubVars, chanVars, idVars, connVars, sweepVars, writerVars
<1>3. UnregisterCloses'
  BY DEF IInv, TypeOK, UnregisterCloses, Welcome, hubVars, chanVars, idVars, connVars, sweepVars, writerVars
<1>4. ServingIsReachable'
  BY DEF IInv, TypeOK, ServingIsReachable, Registered, Welcome, hubVars, chanVars, idVars, connVars, sweepVars, writerVars
<1>5. MessageIsolation'
  <2>1. Addressed(c, <<"welcome", None>>)' /\ UNCHANGED <<idVars, writerVars>>
    BY DEF Addressed, Welcome, hubVars, chanVars, idVars, connVars, sweepVars, writerVars
  <2> QED BY <1>q, <2>1 DEF IInv, MessageIsolation, Addressed, SendGrows, idVars, writerVars
<1>6. HubNamed' /\ IndexesAgree'
  BY Frame DEF Welcome, hubVars, chanVars, idVars, connVars, sweepVars, writerVars
<1> QED BY <1>1, <1>2, <1>3, <1>4, <1>5, <1>6 DEF IInv

\* A write to one connection preserves the inductive invariant.
LEMMA WriteNextStep == ASSUME IInv, NEW w \in Writer, NEW c \in Conn, WriteNext(w, c) PROVE IInv'
<1>m. msg[w] \in Message
  BY DEF IInv, TypeOK
<1>q. SendGrows(c, msg[w])
  BY <1>m, WriteMessageQueue DEF IInv, WriteNext
<1>1. TypeOK'
  BY <1>q DEF IInv, TypeOK, SendGrows, WriteNext, hubVars, chanVars, idVars, connVars, sweepVars
<1>2. Named'
  BY <1>q DEF IInv, TypeOK, Named, SendGrows, WriteNext, hubVars, chanVars, idVars, connVars, sweepVars
<1>3. MessageIsolation'
  <2>1. Addressed(c, msg[w]) /\ UNCHANGED <<idVars, msg>>
    BY DEF IInv, MessageIsolation, WriteNext, hubVars, chanVars, idVars, connVars, sweepVars
  <2>2. \A v \in Writer : pend'[v] \subseteq pend[v]
    BY DEF IInv, TypeOK, WriteNext, hubVars, chanVars, idVars, connVars, sweepVars
  <2> QED BY <1>q, <2>1, <2>2 DEF IInv, MessageIsolation, Addressed, SendGrows, idVars
<1>4. HubNamed' /\ UnregisterCloses' /\ IndexesAgree' /\ ServingIsReachable'
  BY Frame DEF WriteNext, hubVars, chanVars, idVars, connVars, sweepVars
<1> QED BY <1>1, <1>2, <1>3, <1>4 DEF IInv

\* A written message preserves the inductive invariant.
LEMMA PumpWriteStep == ASSUME IInv, NEW c \in Conn, PumpWrite(c) PROVE IInv'
<1>q. /\ send' \in [Conn -> Seq(Message)]
      /\ \A d \in Conn : Len(send'[d]) <= SendCap
      /\ \A d \in Conn \ {c} : send'[d] = send[d]
      /\ \A y : InQueue(send'[c], y) => InQueue(send[c], y)
  BY PumpQueue DEF IInv, PumpWrite, hubVars, chanVars, idVars, connVars, sweepVars, writerVars
<1>1. TypeOK'
  BY <1>q DEF IInv, TypeOK, Phases, PumpWrite, hubVars, chanVars, idVars, connVars, sweepVars, writerVars
<1>2. Named'
  BY <1>q DEF IInv, TypeOK, Named, PumpWrite, hubVars, chanVars, idVars, connVars, sweepVars, writerVars
<1>3. MessageIsolation'
  <2>1. UNCHANGED <<idVars, writerVars>>
    BY DEF PumpWrite, hubVars, chanVars, idVars, connVars, sweepVars, writerVars
  <2> QED BY <1>q, <2>1 DEF IInv, MessageIsolation, Addressed, idVars, writerVars
<1>4. HubNamed' /\ UnregisterCloses' /\ IndexesAgree' /\ ServingIsReachable'
  BY <1>q, Frame DEF PumpWrite, hubVars, chanVars, idVars, connVars, sweepVars, writerVars
<1> QED BY <1>1, <1>2, <1>3, <1>4 DEF IInv

\* A failed write preserves the inductive invariant.
LEMMA PumpFailStep == ASSUME IInv, NEW c \in Conn, PumpFail(c) PROVE IInv'
<1>q. /\ send' \in [Conn -> Seq(Message)]
      /\ \A d \in Conn : Len(send'[d]) <= SendCap
      /\ \A d \in Conn \ {c} : send'[d] = send[d]
      /\ \A y : InQueue(send'[c], y) => InQueue(send[c], y)
  <2>1. CASE UNCHANGED send
    BY <2>1 DEF IInv, TypeOK
  <2>2. CASE send[c] # <<>> /\ send' = [send EXCEPT ![c] = Tail(@)]
    BY <2>2, PumpQueue DEF IInv
  <2> QED BY <2>1, <2>2 DEF PumpFail
<1>1. TypeOK'
  BY <1>q DEF IInv, TypeOK, Phases, PumpFail, PumpExit, hubVars, chanVars, idVars, sweepVars, writerVars
<1>2. Named'
  <2>1. UNCHANGED send \/ send[c] # <<>>
    BY DEF PumpFail
  <2>2. CASE UNCHANGED send
    BY <2>2 DEF IInv, Named, PumpFail, PumpExit, hubVars, chanVars, idVars, sweepVars, writerVars
  <2>3. CASE send[c] # <<>>
    BY <1>q, <2>3 DEF IInv, TypeOK, Named, PumpFail, PumpExit, hubVars, chanVars, idVars, sweepVars, writerVars
  <2> QED BY <2>1, <2>2, <2>3
<1>3. MessageIsolation'
  <2>1. UNCHANGED <<idVars, writerVars>>
    BY DEF PumpFail, PumpExit, hubVars, chanVars, idVars, sweepVars, writerVars
  <2> QED BY <1>q, <2>1 DEF IInv, MessageIsolation, Addressed, idVars, writerVars
<1>4. HubNamed' /\ UnregisterCloses' /\ IndexesAgree' /\ ServingIsReachable'
  BY <1>q, Frame DEF PumpFail, PumpExit, hubVars, chanVars, idVars, sweepVars, writerVars
<1> QED BY <1>1, <1>2, <1>3, <1>4 DEF IInv

\* Shutdown preserves the inductive invariant.
LEMMA ShutdownStep == ASSUME IInv, Shutdown PROVE IInv'
<1>1. TypeOK'
  BY DEF IInv, TypeOK, Phases, Shutdown, hubVars, idVars, connVars, sweepVars, writerVars
<1>2. ServingIsReachable'
  BY DEF IInv, TypeOK, ServingIsReachable, Registered, Shutdown, hubVars, idVars, connVars, sweepVars, writerVars
<1>3. Named' /\ HubNamed' /\ UnregisterCloses' /\ IndexesAgree' /\ MessageIsolation'
  BY Frame DEF Shutdown, hubVars, idVars, connVars, sweepVars, writerVars
<1> QED BY <1>1, <1>2, <1>3 DEF IInv

\* The end of Hub.Run preserves the inductive invariant.
LEMMA RunReturnsStep == ASSUME IInv, RunReturns PROVE IInv'
<1>1. TypeOK'
  BY DEF IInv, TypeOK, Phases, RunReturns, hubVars, idVars, connVars, sweepVars, writerVars
<1>2. ServingIsReachable'
  BY DEF IInv, TypeOK, ServingIsReachable, Registered, RunReturns, hubVars, idVars, connVars, sweepVars, writerVars
<1>3. Named' /\ HubNamed' /\ UnregisterCloses' /\ IndexesAgree' /\ MessageIsolation'
  BY Frame DEF RunReturns, hubVars, idVars, connVars, sweepVars, writerVars
<1> QED BY <1>1, <1>2, <1>3 DEF IInv

\* The passing of time preserves the inductive invariant.
LEMMA TickStep == ASSUME IInv, Tick PROVE IInv'
<1>1. TypeOK'
  <2>1. ASSUME NEW c \in Conn PROVE Older(c) \in 0 .. MaxAge
    <3>1. age[c] \in 0 .. MaxAge /\ MaxAge \in Nat
      BY DEF IInv, TypeOK, MaxAge
    <3> QED BY <3>1 DEF Older
  <2>2. age' \in [Conn -> 0 .. MaxAge] /\ tickDue' = TRUE
    BY <2>1 DEF Tick
  <2>3. UNCHANGED <<hubVars, chanVars, idVars, phase, connVars, send, sweepVars, writerVars>>
    BY DEF Tick
  <2> QED BY <2>2, <2>3 DEF IInv, TypeOK, hubVars, chanVars, idVars, connVars,
                            sweepVars, writerVars
<1>2. Named' /\ HubNamed' /\ UnregisterCloses' /\ IndexesAgree' /\ ServingIsReachable' /\ MessageIsolation'
  BY Frame DEF Tick, hubVars, chanVars, idVars, connVars, sweepVars, writerVars
<1> QED BY <1>1, <1>2 DEF IInv

\* The start of a sweep preserves the inductive invariant.
LEMMA SweepStartStep == ASSUME IInv, SweepStart PROVE IInv'
<1>1. TypeOK'
  BY DEF IInv, TypeOK, Phases, SweepStart, TimedOut, hubVars, chanVars, idVars, connVars, writerVars
<1>2. Named'
  BY DEF IInv, Named, Registered, SweepStart, TimedOut, hubVars, chanVars, idVars, connVars, writerVars
<1>3. HubNamed' /\ UnregisterCloses' /\ IndexesAgree' /\ ServingIsReachable' /\ MessageIsolation'
  BY Frame DEF SweepStart, TimedOut, hubVars, chanVars, idVars, connVars, writerVars
<1> QED BY <1>1, <1>2, <1>3 DEF IInv

\* A SendToAgent lookup preserves the inductive invariant.
LEMMA SendToAgentStep == ASSUME IInv, NEW w \in Writer, NEW a \in Agent, SendToAgent(w, a) PROVE IInv'
<1>1. TypeOK'
  <2>1. <<"agent", a>> \in Message /\ agents[a] \in Conn
    BY DEF IInv, TypeOK, Message, SendToAgent, hubVars, chanVars, idVars, connVars, sweepVars
  <2>2. msg' \in [Writer -> Message] /\ pend' \in [Writer -> SUBSET Conn]
    BY <2>1 DEF IInv, TypeOK, SendToAgent, hubVars, chanVars, idVars, connVars, sweepVars
  <2> QED BY <2>2 DEF IInv, TypeOK, SendToAgent, hubVars, chanVars, idVars, connVars, sweepVars
<1>2. Named'
  <2>1. agents[a] \in Conn /\ id[agents[a]] # None
    BY DEF IInv, TypeOK, HubNamed, SendToAgent, hubVars, chanVars, idVars, connVars, sweepVars
  <2>2. \A c \in Conn, v \in Writer : c \in pend'[v] => c \in pend[v] \/ c = agents[a]
    BY DEF IInv, TypeOK, SendToAgent, hubVars, chanVars, idVars, connVars, sweepVars
  <2> QED BY <2>1, <2>2 DEF IInv, Named, SendToAgent, hubVars, chanVars, idVars, connVars, sweepVars
<1>3. MessageIsolation'
  <2>1. Addressed(agents[a], <<"agent", a>>)
    BY DEF IInv, TypeOK, HubNamed, Addressed, SendToAgent, hubVars, chanVars, idVars, connVars, sweepVars
  <2>2. /\ pend' = [pend EXCEPT ![w] = {agents[a]}]
        /\ msg' = [msg EXCEPT ![w] = <<"agent", a>>]
        /\ UNCHANGED <<idVars, send>>
    BY DEF SendToAgent
  <2>3. \A v \in Writer : \A c \in pend'[v] : Addressed(c, msg'[v])
    BY <2>1, <2>2 DEF IInv, TypeOK, MessageIsolation
  <2> QED BY <2>2, <2>3 DEF IInv, MessageIsolation, Addressed, idVars
<1>4. HubNamed' /\ UnregisterCloses' /\ IndexesAgree' /\ ServingIsReachable'
  BY Frame DEF SendToAgent, hubVars, chanVars, idVars, connVars, sweepVars
<1> QED BY <1>1, <1>2, <1>3, <1>4 DEF IInv

\* A BroadcastToOrg snapshot preserves the inductive invariant.
LEMMA BroadcastToOrgStep == ASSUME IInv, NEW w \in Writer, NEW o \in Org, BroadcastToOrg(w, o) PROVE IInv'
<1>1. TypeOK'
  <2>1. <<"org", o>> \in Message /\ byOrg[o] \in SUBSET Conn
    BY DEF IInv, TypeOK, Message
  <2>2. msg' \in [Writer -> Message] /\ pend' \in [Writer -> SUBSET Conn]
    BY <2>1 DEF IInv, TypeOK, BroadcastToOrg, OrgConns, hubVars, chanVars, idVars, connVars, sweepVars
  <2> QED BY <2>2 DEF IInv, TypeOK, BroadcastToOrg, OrgConns, hubVars, chanVars, idVars, connVars, sweepVars
<1>2. Named'
  <2>1. \A c \in byOrg[o] : id[c] # None
    BY DEF IInv, IndexesAgree, Registered
  <2>2. \A c \in Conn, v \in Writer : c \in pend'[v] => c \in pend[v] \/ c \in byOrg[o]
    BY DEF IInv, TypeOK, BroadcastToOrg, OrgConns, hubVars, chanVars, idVars, connVars, sweepVars
  <2> QED BY <2>1, <2>2 DEF IInv, Named, BroadcastToOrg, OrgConns, hubVars, chanVars, idVars, connVars, sweepVars
<1>3. MessageIsolation'
  <2>1. \A c \in byOrg[o] : Addressed(c, <<"org", o>>)
    BY DEF IInv, IndexesAgree, Addressed
  <2>2. /\ pend' = [pend EXCEPT ![w] = byOrg[o]]
        /\ msg' = [msg EXCEPT ![w] = <<"org", o>>]
        /\ UNCHANGED <<idVars, send>>
    BY DEF BroadcastToOrg, OrgConns
  <2>3. \A v \in Writer : \A c \in pend'[v] : Addressed(c, msg'[v])
    BY <2>1, <2>2 DEF IInv, TypeOK, MessageIsolation
  <2> QED BY <2>2, <2>3 DEF IInv, MessageIsolation, Addressed, idVars
<1>4. HubNamed' /\ UnregisterCloses' /\ IndexesAgree' /\ ServingIsReachable'
  BY Frame DEF BroadcastToOrg, OrgConns, hubVars, chanVars, idVars, connVars, sweepVars
<1> QED BY <1>1, <1>2, <1>3, <1>4 DEF IInv

\* A successful handshake preserves the inductive invariant.
LEMMA HelloStep == ASSUME IInv, NEW c \in Conn, Hello(c) PROVE IInv'
<1>a. PICK a \in Agent, o \in Org \cup {NoOrg} :
         id' = [id EXCEPT ![c] = a] /\ org' = [org EXCEPT ![c] = o]
  BY DEF Hello
<1>n. id[c] = None
  BY DEF IInv, Named, Hello
<1>1. TypeOK'
  <2>1. age' \in [Conn -> 0 .. MaxAge]
    BY DEF IInv, TypeOK, MaxAge, Hello, hubVars, chanVars, connVars, sweepVars, writerVars
  <2> QED BY <2>1 DEF IInv, TypeOK, Phases, Hello, hubVars, chanVars, connVars, sweepVars, writerVars
<1>2. Named'
  BY <1>a DEF IInv, TypeOK, Named, Hello, hubVars, chanVars, connVars, sweepVars, writerVars
<1>3. HubNamed'
  <2>1. \A b \in Agent : agents[b] # None => agents[b] \in Conn /\ agents[b] # c
    BY <1>n DEF IInv, TypeOK, HubNamed
  <2> QED BY <1>a, <2>1 DEF IInv, HubNamed, TypeOK, Hello, hubVars, chanVars, connVars, sweepVars, writerVars
<1>4. UnregisterCloses'
  BY DEF IInv, TypeOK, UnregisterCloses, Hello, hubVars, chanVars, connVars, sweepVars, writerVars
<1>5. IndexesAgree'
  <2>1. \A d \in Conn \ {c} : id'[d] = id[d] /\ org'[d] = org[d]
    BY <1>a DEF IInv, TypeOK
  <2>2. ~Registered(c) /\ ~Registered(c)'
    BY <1>a, <1>n DEF IInv, TypeOK, HubNamed, Registered, Hello, hubVars, chanVars, connVars, sweepVars, writerVars
  <2>3. \A d \in Conn \ {c} : Registered(d)' <=> Registered(d)
    BY <2>1 DEF Registered, Hello, hubVars, chanVars, connVars, sweepVars, writerVars
  <2>4. UNCHANGED <<byOrg, orgKeys>>
    BY DEF Hello, hubVars, chanVars, connVars, sweepVars, writerVars
  <2>5. ASSUME NEW p \in Org
        PROVE  {d \in Conn : Registered(d)' /\ org'[d] = p}
                  = {d \in Conn : Registered(d) /\ org[d] = p}
    BY <2>1, <2>2, <2>3
  <2> QED BY <2>4, <2>5 DEF IInv, IndexesAgree
<1>6. ServingIsReachable'
  BY <1>a, <1>n DEF IInv, TypeOK, ServingIsReachable, Registered, Hello, hubVars, chanVars, connVars, sweepVars, writerVars
<1>7. MessageIsolation'
  <2>1. \A d \in Conn \ {c} : id'[d] = id[d] /\ org'[d] = org[d]
    BY <1>a DEF IInv, TypeOK
  <2>2. send[c] = <<>> /\ \A w \in Writer : c \notin pend[w]
    BY <1>n DEF IInv, Named
  <2>3. UNCHANGED <<send, pend, msg>>
    BY DEF Hello, hubVars, chanVars, connVars, sweepVars, writerVars
  <2>4. \A d \in Conn, m \in Message : InQueue(send'[d], m) => Addressed(d, m)'
    BY <2>1, <2>2, <2>3, EmptyQueue DEF IInv, MessageIsolation, Addressed
  <2>5. ASSUME NEW w \in Writer, NEW d \in pend'[w] PROVE Addressed(d, msg[w])'
    <3>1. d \in Conn \ {c} /\ Addressed(d, msg[w]) /\ msg'[w] = msg[w]
      BY <2>2, <2>3 DEF IInv, TypeOK, MessageIsolation
    <3> QED BY <2>1, <3>1 DEF Addressed
  <2> QED BY <2>3, <2>4, <2>5 DEF MessageIsolation
<1> QED BY <1>1, <1>2, <1>3, <1>4, <1>5, <1>6, <1>7 DEF IInv

\* Hub.add preserves the inductive invariant.
LEMMA AddStep == ASSUME IInv, Add PROVE IInv'
<1> DEFINE c == Head(register)
           a == id[c]
           old == agents[a]
           rest == IF old = None THEN byOrg ELSE DropFromOrg(byOrg, org[old], a)
<1>1. /\ c \in Conn /\ register' \in Seq(Conn) /\ Len(register') <= ChanCap
      /\ InQueue(register, c)
      /\ \A y : InQueue(register', y) => InQueue(register, y)
      /\ \A y : InQueue(register, y) => InQueue(register', y) \/ y = c
  <2>1. register \in Seq(Conn) /\ Len(register) <= ChanCap /\ register # <<>>
    BY DEF IInv, TypeOK, Add
  <2>2. /\ Head(register) \in Conn /\ Tail(register) \in Seq(Conn)
        /\ Len(Tail(register)) = Len(register) - 1
        /\ InQueue(register, Head(register))
        /\ \A y : InQueue(Tail(register), y) => InQueue(register, y)
        /\ \A y : InQueue(register, y) => (InQueue(Tail(register), y) \/ y = Head(register))
    BY <2>1, TailQueue
  <2>3. register' = Tail(register)
    BY DEF Add
  <2>4. Len(register) \in Nat /\ Len(Tail(register)) <= ChanCap
    BY <2>1, <2>2
  <2> QED BY <2>2, <2>3, <2>4
<1>2. a \in Agent /\ old \in Conn \cup {None} /\ (old # None => id[old] = a)
  BY <1>1 DEF IInv, TypeOK, Named, HubNamed
<1>3. /\ cancelled' = IF old = None THEN cancelled ELSE cancelled \cup {old}
      /\ agents' = [agents EXCEPT ![a] = c]
      /\ byOrg' = [o \in Org |-> IF o = org[c]
                      THEN DropFromOrg(rest, o, a)[o] \cup {c} ELSE rest[o]]
      /\ orgKeys' = orgKeys \cup ({org[c]} \cap Org)
      /\ UNCHANGED <<unregister, hub, id, org, phase, sock, pumping, age, send,
                     tickDue, sweep, sweepCur, pend, msg>>
  BY DEF Add, idVars, sweepVars, writerVars
<1> HIDE DEF c, a, old
<1>4. \A d \in Conn : Registered(d)' <=> (d = c \/ (Registered(d) /\ id[d] # a))
  BY <1>1, <1>2, <1>3 DEF IInv, TypeOK, Registered, a
<1>5. /\ rest \in [Org -> SUBSET Conn]
      /\ \A o \in Org, d \in Conn :
            d \in rest[o] <=> (Registered(d) /\ org[d] = o /\ id[d] # a)
  <2>1. CASE old = None
    <3>1. \A d \in Conn : Registered(d) => id[d] # a
      BY <2>1 DEF Registered, old
    <3> QED BY <2>1, <3>1 DEF IInv, TypeOK, IndexesAgree
  <2>2. CASE old # None
    <3>1. \A d \in Conn : Registered(d) /\ id[d] = a => d = old
      BY DEF Registered, old
    <3> QED BY <1>2, <2>2, <3>1 DEF IInv, TypeOK, IndexesAgree, DropFromOrg
  <2> QED BY <2>1, <2>2
<1> HIDE DEF rest
<1>6. /\ byOrg' \in [Org -> SUBSET Conn]
      /\ \A o \in Org, d \in Conn : d \in byOrg'[o] <=> (Registered(d)' /\ org[d] = o)
  <2>1. \A o \in Org : byOrg'[o] = IF o = org[c] THEN {d \in rest[o] : id[d] # a} \cup {c}
                                                 ELSE rest[o]
    BY <1>3 DEF DropFromOrg
  <2>2. byOrg' \in [Org -> SUBSET Conn]
    <3>1. ASSUME NEW o \in Org PROVE byOrg'[o] \in SUBSET Conn
      <4>1. rest[o] \in SUBSET Conn
        BY <1>5
      <4> QED BY <1>1, <2>1, <4>1
    <3>2. byOrg' = [o \in Org |-> byOrg'[o]]
      BY <1>3
    <3> QED BY <3>1, <3>2
  <2>3. ASSUME NEW o \in Org, NEW d \in Conn
        PROVE  d \in byOrg'[o] <=> (Registered(d)' /\ org[d] = o)
    <3>1. CASE o = org[c]
      <4>1. d \in byOrg'[o] <=> (d \in rest[o] /\ id[d] # a) \/ d = c
        BY <2>1, <3>1
      <4> QED BY <1>4, <1>5, <3>1, <4>1
    <3>2. CASE o # org[c]
      <4>1. d \in byOrg'[o] <=> d \in rest[o]
        BY <2>1, <3>2
      <4> QED BY <1>4, <1>5, <3>2, <4>1
    <3> QED BY <3>1, <3>2
  <2> QED BY <2>2, <2>3
<1>7. TypeOK'
  <2>1. agents' \in [Agent -> Conn \cup {None}] /\ cancelled' \in SUBSET Conn
    BY <1>1, <1>2, <1>3 DEF IInv, TypeOK
  <2>2. orgKeys' \in SUBSET Org
    BY <1>3 DEF IInv, TypeOK
  <2> QED BY <1>1, <1>3, <1>6, <2>1, <2>2 DEF IInv, TypeOK
<1>8. Named'
  BY <1>1, <1>3 DEF IInv, Named
<1>9. HubNamed'
  BY <1>1, <1>2, <1>3 DEF IInv, TypeOK, HubNamed, a
<1>10. UnregisterCloses'
  BY <1>3 DEF IInv, UnregisterCloses
<1>11. IndexesAgree'
  <2>1. ASSUME NEW o \in Org
        PROVE  byOrg'[o] = {d \in Conn : Registered(d)' /\ org'[d] = o}
    BY <1>3, <1>6
  <2>2. ASSUME NEW o \in Org, byOrg'[o] # {} PROVE o \in orgKeys'
    <3>1. PICK d \in Conn : Registered(d)' /\ org[d] = o
      BY <1>6, <2>2
    <3>2. CASE d = c
      BY <1>3, <3>1, <3>2
    <3>3. CASE d # c
      <4>1. d \in byOrg[o]
        BY <1>4, <3>1, <3>3 DEF IInv, IndexesAgree
      <4> QED BY <4>1, <1>3 DEF IInv, IndexesAgree
    <3> QED BY <3>2, <3>3
  <2> QED BY <2>1, <2>2 DEF IndexesAgree
<1>12. ServingIsReachable'
  <2> SUFFICES ASSUME NEW d \in Conn, hub = "up",
                      phase[d] \in {"welcome", "reregister", "loop"},
                      d \notin cancelled'
               PROVE  Registered(d)' \/ InQueue(register', d) \/ sweepCur = d
    BY <1>3 DEF ServingIsReachable
  <2>1. d \notin cancelled /\ (old # None => d # old)
    BY <1>3
  <2>2. CASE Registered(d)
    <3>1. id[d] = a => d = old /\ old # None
      BY <2>2 DEF Registered, old, IInv, TypeOK
    <3> QED BY <1>4, <2>1, <2>2, <3>1
  <2>3. CASE InQueue(register, d)
    BY <1>1, <1>4, <2>3
  <2>4. CASE sweepCur = d
    BY <2>4
  <2> QED BY <2>1, <2>2, <2>3, <2>4 DEF IInv, ServingIsReachable
<1>13. MessageIsolation'
  BY <1>3, Frame
<1> QED BY <1>7, <1>8, <1>9, <1>10, <1>11, <1>12, <1>13 DEF IInv

\* Hub.remove preserves the inductive invariant.
LEMMA RemoveStep == ASSUME IInv, Remove PROVE IInv'
<1> DEFINE c == Head(unregister)
           left == DropFromOrg(byOrg, org[c], id[c])
<1>1. /\ c \in Conn /\ unregister' \in Seq(Conn) /\ Len(unregister') <= ChanCap
      /\ InQueue(unregister, c)
      /\ \A y : InQueue(unregister', y) => InQueue(unregister, y)
  <2>1. unregister \in Seq(Conn) /\ Len(unregister) <= ChanCap /\ unregister # <<>>
    BY DEF IInv, TypeOK, Remove
  <2>2. /\ Head(unregister) \in Conn /\ Tail(unregister) \in Seq(Conn)
        /\ Len(Tail(unregister)) = Len(unregister) - 1
        /\ InQueue(unregister, Head(unregister))
        /\ \A y : InQueue(Tail(unregister), y) => InQueue(unregister, y)
    BY <2>1, TailQueue
  <2>3. unregister' = Tail(unregister)
    BY DEF Remove
  <2>4. Len(unregister) \in Nat /\ Len(Tail(unregister)) <= ChanCap
    BY <2>1, <2>2
  <2> QED BY <2>2, <2>3, <2>4
<1>2. UNCHANGED <<register, hub, id, org, phase, cancelled, sock, pumping, age, send,
                  tickDue, sweep, sweepCur, pend, msg>>
  BY DEF Remove, idVars, connVars, sweepVars, writerVars
<1>3. id[c] \in Agent
  BY <1>1 DEF IInv, TypeOK, Named
<1>4. c \in cancelled \/ sweepCur = c \/ phase[c] \in {"close", "done"}
  BY <1>1 DEF IInv, UnregisterCloses
<1>5. Named' /\ MessageIsolation' /\ UnregisterCloses'
  <2>1. Named'
    BY <1>1, <1>2 DEF IInv, Named
  <2>2. UnregisterCloses'
    BY <1>1, <1>2 DEF IInv, UnregisterCloses
  <2> QED BY <1>2, <2>1, <2>2, Frame
<1>6. CASE agents[id[c]] # c
  <2>1. UNCHANGED hubVars
    BY <1>6 DEF Remove, IsCurrent
  <2>2. TypeOK'
    BY <1>1, <1>2, <2>1 DEF IInv, TypeOK, hubVars
  <2>3. HubNamed' /\ IndexesAgree' /\ ServingIsReachable'
    BY <1>2, <2>1, Frame DEF hubVars
  <2> QED BY <1>5, <2>2, <2>3 DEF IInv
<1>7. CASE agents[id[c]] = c
  <2>1. /\ agents' = [agents EXCEPT ![id[c]] = None]
        /\ byOrg' = left
        /\ orgKeys' = {o \in orgKeys : o # org[c] \/ left[o] # {}}
    BY <1>7 DEF Remove, IsCurrent
  <2> HIDE DEF c
  <2>2. \A d \in Conn : Registered(d)' <=> (Registered(d) /\ d # c)
    BY <1>1, <1>2, <1>3, <1>7, <2>1 DEF IInv, TypeOK, Registered
  <2>3. /\ byOrg' \in [Org -> SUBSET Conn]
        /\ \A o \in Org, d \in Conn : d \in byOrg'[o] <=> (Registered(d)' /\ org[d] = o)
    <3>1. \A d \in Conn : Registered(d) /\ id[d] = id[c] => d = c
      BY <1>7 DEF Registered
    <3>2. /\ left \in [Org -> SUBSET Conn]
          /\ \A o \in Org, d \in Conn : d \in left[o] <=>
                (d \in byOrg[o] /\ (o = org[c] => id[d] # id[c]))
      BY DEF IInv, TypeOK, DropFromOrg
    <3>3. \A o \in Org, d \in Conn : d \in byOrg[o] <=> (Registered(d) /\ org[d] = o)
      BY DEF IInv, IndexesAgree
    <3> HIDE DEF left
    <3> QED BY <2>1, <2>2, <3>1, <3>2, <3>3
  <2>4. TypeOK'
    <3>1. agents' \in [Agent -> Conn \cup {None}] /\ orgKeys' \in SUBSET Org
      BY <2>1 DEF IInv, TypeOK
    <3> QED BY <1>1, <1>2, <2>3, <3>1 DEF IInv, TypeOK
  <2>5. HubNamed'
    BY <1>2, <2>1 DEF IInv, TypeOK, HubNamed
  <2>6. IndexesAgree'
    <3>1. ASSUME NEW o \in Org
          PROVE  byOrg'[o] = {d \in Conn : Registered(d)' /\ org'[d] = o}
      BY <1>2, <2>3
    <3>2. ASSUME NEW o \in Org, byOrg'[o] # {} PROVE o \in orgKeys'
      <4>1. byOrg[o] # {}
        BY <1>2, <2>2, <2>3, <3>2 DEF IInv, IndexesAgree
      <4> QED BY <2>1, <3>2, <4>1 DEF IInv, IndexesAgree
    <3> QED BY <3>1, <3>2 DEF IndexesAgree
  <2>7. ServingIsReachable'
    BY <1>2, <1>4, <2>2 DEF IInv, ServingIsReachable
  <2> QED BY <1>5, <2>4, <2>5, <2>6, <2>7 DEF IInv
<1> QED BY <1>6, <1>7

-----------------------------------------------------------------------------
(* The theorems.                                                           *)

\* Every step of the gateway preserves the inductive invariant.
LEMMA NextIInv == IInv /\ [Next]_vars => IInv'
<1> SUFFICES ASSUME IInv, [Next]_vars PROVE IInv'
  OBVIOUS
<1>1. CASE UNCHANGED vars
  BY <1>1 DEF vars, hubVars, chanVars, idVars, connVars, sweepVars, writerVars,
              IInv, TypeOK, Named, HubNamed, UnregisterCloses, IndexesAgree,
              ServingIsReachable, MessageIsolation, Registered, Addressed
<1>2. ASSUME NEW c \in Conn, HandlerStep(c) PROVE IInv'
  BY <1>2, HelloStep, HelloFailStep, RegisterStep, WelcomeStep, ReregisterStep,
     ReceiveStep, ReadErrorStep, UnregisterStep, CloseConnStep DEF HandlerStep
<1>3. ASSUME NEW c \in Conn, PeerLost(c) \/ PumpStep(c) PROVE IInv'
  BY <1>3, PeerLostStep, PumpWriteStep, PumpFailStep, PumpStopStep DEF PumpStep
<1>4. CASE HubStep
  BY <1>4, AddStep, RemoveStep, ShutdownStep, RunReturnsStep DEF HubStep
<1>5. CASE HeartbeatStep
  BY <1>5, TickStep, SweepStartStep, SweepUnregisterStep, SweepCloseStep
     DEF HeartbeatStep
<1>6. ASSUME NEW w \in Writer, WriterStep(w) PROVE IInv'
  BY <1>6, SendToAgentStep, BroadcastToOrgStep, WriteNextStep DEF WriterStep
<1> QED BY <1>1, <1>2, <1>3, <1>4, <1>5, <1>6 DEF Next

\* The gateway keeps its inductive invariant, for every number of connections,
\* agents, organisations and writers and every channel capacity.
THEOREM Invariance == Spec => []IInv
BY InitIInv, NextIInv, PTL DEF Spec

\* The maps, the channels and the program counters keep their types.
THEOREM TypeCorrect == Spec => []TypeOK
<1>1. IInv => TypeOK
  BY DEF IInv
<1> QED BY <1>1, Invariance, PTL

\* Hub.agents and Hub.byOrg always agree.
THEOREM IndexesAlwaysAgree == Spec => []IndexesAgree
<1>1. IInv => IndexesAgree
  BY DEF IInv
<1> QED BY <1>1, Invariance, PTL

\* A serving connection that was not cancelled can always be reached.
THEOREM ServingAlwaysReachable == Spec => []ServingIsReachable
<1>1. IInv => ServingIsReachable
  BY DEF IInv
<1> QED BY <1>1, Invariance, PTL

\* No message is queued for an agent or an organisation it was not meant for.
THEOREM MessagesStayIsolated == Spec => []MessageIsolation
<1>1. IInv => MessageIsolation
  BY DEF IInv
<1> QED BY <1>1, Invariance, PTL
=============================================================================
