-------------------------- MODULE AgentClientProofs --------------------------
(***************************************************************************)
(* Two safety properties of the agent's control connection, for any number *)
(* of connections and any limit on failed heartbeats.                      *)
(***************************************************************************)
EXTENDS AgentClient, TLAPS

USE ClientAssumption DEF ClientAssumption

\* The conjuncts other than the type invariant.
Control == /\ DiscMatchesQuit /\ LoopsStartTogether /\ Redialling
           /\ NoDialAfterQuit /\ NoLostReconnect /\ QuitIsFinal

\* A new AgentClient satisfies the invariant.
LEMMA InitInv == Init => IInv
  <1> SUFFICES ASSUME Init PROVE IInv
    OBVIOUS
  <1>1. failCount \in 0 .. MaxFailures /\ reconnectCh \in 0 .. 1
    BY DEF Init
  <1>2. TypeOK
    BY <1>1, Zenon DEF Init, TypeOK
  <1>3. Control
    BY DEF Init, Control, DiscMatchesQuit, LoopsStartTogether, Redialling,
           NoDialAfterQuit, NoLostReconnect, QuitIsFinal, Running
  <1> QED BY <1>2, <1>3 DEF IInv, Control

\* A loop that notes the lost connection keeps the types: it clears connected and
\* moves its own control point, messageLoop's or heartbeatLoop's.
LEMMA MarkTypeOK ==
    ASSUME TypeOK,
           link' = link /\ wsConn' = wsConn /\ reconnectCh' = reconnectCh /\ quit' = quit,
           mconn' = mconn /\ hconn' = hconn /\ failCount' = failCount,
           rl' = rl /\ rconn' = rconn /\ disc' = disc /\ connected' = FALSE,
           \/ ml' = "token" /\ hb' = hb
           \/ ml' = ml /\ hb' = "token"
    PROVE  TypeOK'
  <1>1. /\ link' \in [Conn -> {"open", "stuck", "dead"}]
        /\ wsConn' \in Conn \cup {None} /\ mconn' \in Conn \cup {None}
        /\ hconn' \in Conn \cup {None} /\ rconn' \in Conn \cup {None}
    BY DEF TypeOK
  <1>2. connected' \in BOOLEAN /\ quit' \in BOOLEAN
    BY DEF TypeOK
  <1>3. reconnectCh' \in 0 .. 1 /\ failCount' \in 0 .. MaxFailures
    BY DEF TypeOK
  <1>4. /\ ml' \in {"off", "check", "load", "read", "mark", "token", "sleep", "done"}
        /\ hb' \in {"off", "wait", "load", "ping", "mark", "token", "done"}
        /\ rl' \in {"off", "wait", "close", "try", "dial", "install", "back", "done"}
        /\ disc' \in {"idle", "waiting", "returned"}
    BY DEF TypeOK
  <1> QED BY <1>1, <1>2, <1>3, <1>4 DEF TypeOK

\* Every step of messageLoop preserves the invariant.
LEMMA MessageLoopInv ==
    ASSUME IInv, MessageLoop \/ MessageRead
    PROVE  IInv'
  <1>1. CASE MessageCheck
    <2>1. TypeOK'
      BY <1>1 DEF IInv, TypeOK, MessageCheck, mlVars, hbVars, rlVars
    <2>2. Control'
      BY <1>1 DEF IInv, TypeOK, Control, DiscMatchesQuit, LoopsStartTogether,
         Redialling, NoDialAfterQuit, NoLostReconnect, QuitIsFinal, Running,
         MessageCheck, mlVars, hbVars, rlVars
    <2> QED BY <2>1, <2>2 DEF IInv, Control
  <1>2. CASE MessageLoad
    <2>1. TypeOK'
      BY <1>2 DEF IInv, TypeOK, MessageLoad, MuFree, mlVars, hbVars, rlVars
    <2>2. Control'
      BY <1>2 DEF IInv, TypeOK, Control, DiscMatchesQuit, LoopsStartTogether,
         Redialling, NoDialAfterQuit, NoLostReconnect, QuitIsFinal, Running,
         MessageLoad, MuFree, mlVars, hbVars, rlVars
    <2> QED BY <2>1, <2>2 DEF IInv, Control
  <1>3. CASE MessageRead
    <2>1. TypeOK'
      BY <1>3 DEF IInv, TypeOK, MessageRead, mlVars, hbVars, rlVars
    <2>2. Control'
      BY <1>3 DEF IInv, TypeOK, Control, DiscMatchesQuit, LoopsStartTogether,
         Redialling, NoDialAfterQuit, NoLostReconnect, QuitIsFinal, Running,
         MessageRead, mlVars, hbVars, rlVars
    <2> QED BY <2>1, <2>2 DEF IInv, Control
  <1>4. CASE MessageReadError
    <2>1. TypeOK'
      BY <1>4 DEF IInv, TypeOK, MessageReadError, mlVars, hbVars, rlVars
    <2>2. Control'
      BY <1>4 DEF IInv, TypeOK, Control, DiscMatchesQuit, LoopsStartTogether,
         Redialling, NoDialAfterQuit, NoLostReconnect, QuitIsFinal, Running,
         MessageReadError, mlVars, hbVars, rlVars
    <2> QED BY <2>1, <2>2 DEF IInv, Control
  <1>5. CASE MessageMark
    <2>1. TypeOK'
      <3>1. /\ link' = link /\ wsConn' = wsConn /\ reconnectCh' = reconnectCh /\ quit' = quit
            /\ mconn' = mconn /\ hconn' = hconn /\ failCount' = failCount
            /\ rl' = rl /\ rconn' = rconn /\ disc' = disc /\ connected' = FALSE
            /\ ml' = "token" /\ hb' = hb
        BY <1>5 DEF MessageMark, mlVars, hbVars, rlVars
      <3>2. TypeOK
        BY DEF IInv
      <3> QED BY <3>1, <3>2, MarkTypeOK, Zenon
    <2>2. Control'
      BY <1>5 DEF IInv, TypeOK, Control, DiscMatchesQuit, LoopsStartTogether,
         Redialling, NoDialAfterQuit, NoLostReconnect, QuitIsFinal, Running,
         MessageMark, MuFree, mlVars, hbVars, rlVars
    <2> QED BY <2>1, <2>2 DEF IInv, Control
  <1>6. CASE MessageToken
    <2>1. TypeOK'
      BY <1>6 DEF IInv, TypeOK, MessageToken, Token, mlVars, hbVars, rlVars
    <2>2. Control'
      BY <1>6 DEF IInv, TypeOK, Control, DiscMatchesQuit, LoopsStartTogether,
         Redialling, NoDialAfterQuit, NoLostReconnect, QuitIsFinal, Running,
         MessageToken, Token, mlVars, hbVars, rlVars
    <2> QED BY <2>1, <2>2 DEF IInv, Control
  <1>7. CASE MessageWake
    <2>1. TypeOK'
      BY <1>7 DEF IInv, TypeOK, MessageWake, mlVars, hbVars, rlVars
    <2>2. Control'
      BY <1>7 DEF IInv, TypeOK, Control, DiscMatchesQuit, LoopsStartTogether,
         Redialling, NoDialAfterQuit, NoLostReconnect, QuitIsFinal, Running,
         MessageWake, mlVars, hbVars, rlVars
    <2> QED BY <2>1, <2>2 DEF IInv, Control
  <1> QED BY <1>1, <1>2, <1>3, <1>4, <1>5, <1>6, <1>7 DEF MessageLoop

\* Every step of heartbeatLoop preserves the invariant.
LEMMA HeartbeatLoopInv ==
    ASSUME IInv, HeartbeatLoop
    PROVE  IInv'
  <1>1. CASE HeartbeatQuit
    <2>1. TypeOK'
      BY <1>1 DEF IInv, TypeOK, HeartbeatQuit, mlVars, hbVars, rlVars
    <2>2. Control'
      BY <1>1 DEF IInv, TypeOK, Control, DiscMatchesQuit, LoopsStartTogether,
         Redialling, NoDialAfterQuit, NoLostReconnect, QuitIsFinal, Running,
         HeartbeatQuit, mlVars, hbVars, rlVars
    <2> QED BY <2>1, <2>2 DEF IInv, Control
  <1>2. CASE HeartbeatTick
    <2>1. TypeOK'
      BY <1>2 DEF IInv, TypeOK, HeartbeatTick, mlVars, hbVars, rlVars
    <2>2. Control'
      BY <1>2 DEF IInv, TypeOK, Control, DiscMatchesQuit, LoopsStartTogether,
         Redialling, NoDialAfterQuit, NoLostReconnect, QuitIsFinal, Running,
         HeartbeatTick, mlVars, hbVars, rlVars
    <2> QED BY <2>1, <2>2 DEF IInv, Control
  <1>3. CASE HeartbeatLoad
    <2>1. TypeOK'
      BY <1>3 DEF IInv, TypeOK, HeartbeatLoad, MuFree, Failures, mlVars, hbVars, rlVars
    <2>2. Control'
      BY <1>3 DEF IInv, TypeOK, Control, DiscMatchesQuit, LoopsStartTogether,
         Redialling, NoDialAfterQuit, NoLostReconnect, QuitIsFinal, Running,
         HeartbeatLoad, MuFree, Failures, mlVars, hbVars, rlVars
    <2> QED BY <2>1, <2>2 DEF IInv, Control
  <1>4. CASE HeartbeatPing
    <2>1. TypeOK'
      BY <1>4 DEF IInv, TypeOK, HeartbeatPing, Failures, mlVars, hbVars, rlVars
    <2>2. Control'
      BY <1>4 DEF IInv, TypeOK, Control, DiscMatchesQuit, LoopsStartTogether,
         Redialling, NoDialAfterQuit, NoLostReconnect, QuitIsFinal, Running,
         HeartbeatPing, Failures, mlVars, hbVars, rlVars
    <2> QED BY <2>1, <2>2 DEF IInv, Control
  <1>5. CASE HeartbeatMark
    <2>1. TypeOK'
      <3>1. /\ link' = link /\ wsConn' = wsConn /\ reconnectCh' = reconnectCh /\ quit' = quit
            /\ mconn' = mconn /\ hconn' = hconn /\ failCount' = failCount
            /\ rl' = rl /\ rconn' = rconn /\ disc' = disc /\ connected' = FALSE
            /\ ml' = ml /\ hb' = "token"
        BY <1>5 DEF HeartbeatMark, mlVars, hbVars, rlVars
      <3>2. TypeOK
        BY DEF IInv
      <3> QED BY <3>1, <3>2, MarkTypeOK, Zenon
    <2>2. Control'
      BY <1>5 DEF IInv, TypeOK, Control, DiscMatchesQuit, LoopsStartTogether,
         Redialling, NoDialAfterQuit, NoLostReconnect, QuitIsFinal, Running,
         HeartbeatMark, MuFree, mlVars, hbVars, rlVars
    <2> QED BY <2>1, <2>2 DEF IInv, Control
  <1>6. CASE HeartbeatToken
    <2>1. TypeOK'
      BY <1>6 DEF IInv, TypeOK, HeartbeatToken, Token, mlVars, hbVars, rlVars
    <2>2. Control'
      BY <1>6 DEF IInv, TypeOK, Control, DiscMatchesQuit, LoopsStartTogether,
         Redialling, NoDialAfterQuit, NoLostReconnect, QuitIsFinal, Running,
         HeartbeatToken, Token, mlVars, hbVars, rlVars
    <2> QED BY <2>1, <2>2 DEF IInv, Control
  <1> QED BY <1>1, <1>2, <1>3, <1>4, <1>5, <1>6 DEF HeartbeatLoop

\* Every step of reconnectLoop preserves the invariant.
LEMMA ReconnectLoopInv ==
    ASSUME IInv, ReconnectLoop
    PROVE  IInv'
  <1>1. CASE ReconnectQuit
    <2>1. TypeOK'
      BY <1>1 DEF IInv, TypeOK, ReconnectQuit, mlVars, hbVars, rlVars
    <2>2. Control'
      BY <1>1 DEF IInv, TypeOK, Control, DiscMatchesQuit, LoopsStartTogether,
         Redialling, NoDialAfterQuit, NoLostReconnect, QuitIsFinal, Running,
         ReconnectQuit, mlVars, hbVars, rlVars
    <2> QED BY <2>1, <2>2 DEF IInv, Control
  <1>2. CASE ReconnectTake
    <2>1. TypeOK'
      BY <1>2 DEF IInv, TypeOK, ReconnectTake, mlVars, hbVars, rlVars
    <2>2. Control'
      BY <1>2 DEF IInv, TypeOK, Control, DiscMatchesQuit, LoopsStartTogether,
         Redialling, NoDialAfterQuit, NoLostReconnect, QuitIsFinal, Running,
         ReconnectTake, mlVars, hbVars, rlVars
    <2> QED BY <2>1, <2>2 DEF IInv, Control
  <1>3. CASE ReconnectClose
    <2>1. TypeOK'
      <3>1. link' \in [Conn -> {"open", "stuck", "dead"}]
        BY <1>3 DEF IInv, TypeOK, ReconnectClose, Closed
      <3>2. /\ wsConn' = None /\ connected' = FALSE /\ rl' = "try"
            /\ UNCHANGED <<reconnectCh, quit, ml, mconn, hb, hconn, failCount, rconn, disc>>
        BY <1>3 DEF ReconnectClose, mlVars, hbVars
      <3>3. TypeOK
        BY DEF IInv
      <3>4. /\ wsConn' \in Conn \cup {None} /\ mconn' \in Conn \cup {None}
            /\ hconn' \in Conn \cup {None} /\ rconn' \in Conn \cup {None}
        BY <3>2, <3>3 DEF TypeOK
      <3>5. connected' \in BOOLEAN /\ quit' \in BOOLEAN
        BY <3>2, <3>3 DEF TypeOK
      <3>6. reconnectCh' \in 0 .. 1 /\ failCount' \in 0 .. MaxFailures
        BY <3>2, <3>3 DEF TypeOK
      <3>7. /\ ml' \in {"off", "check", "load", "read", "mark", "token", "sleep", "done"}
            /\ hb' \in {"off", "wait", "load", "ping", "mark", "token", "done"}
            /\ rl' \in {"off", "wait", "close", "try", "dial", "install", "back", "done"}
            /\ disc' \in {"idle", "waiting", "returned"}
        BY <3>2, <3>3 DEF TypeOK
      <3> QED BY <3>1, <3>4, <3>5, <3>6, <3>7 DEF TypeOK
    <2>2. /\ rl = "close" /\ rl' = "try" /\ wsConn' = None /\ ~connected'
          /\ UNCHANGED <<reconnectCh, quit, ml, hb, disc>>
      BY <1>3 DEF ReconnectClose, mlVars, hbVars
    <2>3. Control'
      BY <2>2 DEF IInv, Control, DiscMatchesQuit, LoopsStartTogether,
         Redialling, NoDialAfterQuit, NoLostReconnect, QuitIsFinal, Running
    <2> QED BY <2>1, <2>3 DEF IInv, Control
  <1>4. CASE ReconnectTry
    <2>1. TypeOK'
      BY <1>4 DEF IInv, TypeOK, ReconnectTry, mlVars, hbVars, rlVars
    <2>2. Control'
      BY <1>4 DEF IInv, TypeOK, Control, DiscMatchesQuit, LoopsStartTogether,
         Redialling, NoDialAfterQuit, NoLostReconnect, QuitIsFinal, Running,
         ReconnectTry, mlVars, hbVars, rlVars
    <2> QED BY <2>1, <2>2 DEF IInv, Control
  <1>5. CASE Install
    <2>1. TypeOK'
      BY <1>5 DEF IInv, TypeOK, Install, MuFree, Closed, mlVars, hbVars, rlVars
    <2>2. Control'
      BY <1>5 DEF IInv, TypeOK, Control, DiscMatchesQuit, LoopsStartTogether,
         Redialling, NoDialAfterQuit, NoLostReconnect, QuitIsFinal, Running,
         Install, MuFree, Closed, mlVars, hbVars, rlVars
    <2> QED BY <2>1, <2>2 DEF IInv, Control
  <1>6. CASE DialFails
    <2>1. TypeOK'
      BY <1>6 DEF IInv, TypeOK, DialFails, mlVars, hbVars, rlVars
    <2>2. Control'
      BY <1>6 DEF IInv, TypeOK, Control, DiscMatchesQuit, LoopsStartTogether,
         Redialling, NoDialAfterQuit, NoLostReconnect, QuitIsFinal, Running,
         DialFails, mlVars, hbVars, rlVars
    <2> QED BY <2>1, <2>2 DEF IInv, Control
  <1>7. CASE BackoffOver
    <2>1. TypeOK'
      BY <1>7 DEF IInv, TypeOK, BackoffOver, mlVars, hbVars, rlVars
    <2>2. Control'
      BY <1>7 DEF IInv, TypeOK, Control, DiscMatchesQuit, LoopsStartTogether,
         Redialling, NoDialAfterQuit, NoLostReconnect, QuitIsFinal, Running,
         BackoffOver, mlVars, hbVars, rlVars
    <2> QED BY <2>1, <2>2 DEF IInv, Control
  <1>8. CASE \E c \in Conn : DialSucceeds(c)
    <2>1. TypeOK'
      BY <1>8 DEF IInv, TypeOK, DialSucceeds, Fresh, mlVars, hbVars, rlVars
    <2>2. Control'
      BY <1>8 DEF IInv, TypeOK, Control, DiscMatchesQuit, LoopsStartTogether,
         Redialling, NoDialAfterQuit, NoLostReconnect, QuitIsFinal, Running,
         DialSucceeds, Fresh, mlVars, hbVars, rlVars
    <2> QED BY <2>1, <2>2 DEF IInv, Control
  <1> QED BY <1>1, <1>2, <1>3, <1>4, <1>5, <1>6, <1>7, <1>8 DEF ReconnectLoop

\* Every step of Disconnect preserves the invariant.
LEMMA DisconnectInv ==
    ASSUME IInv, DisconnectNotConnected \/ DisconnectStart \/ DisconnectEnd
    PROVE  IInv'
  <1>1. CASE DisconnectNotConnected
    <2>1. TypeOK'
      BY <1>1 DEF IInv, TypeOK, DisconnectNotConnected, mlVars, hbVars, rlVars
    <2>2. Control'
      BY <1>1 DEF IInv, TypeOK, Control, DiscMatchesQuit, LoopsStartTogether,
         Redialling, NoDialAfterQuit, NoLostReconnect, QuitIsFinal, Running,
         DisconnectNotConnected, mlVars, hbVars, rlVars
    <2> QED BY <2>1, <2>2 DEF IInv, Control
  <1>2. CASE DisconnectStart
    <2>1. TypeOK'
      BY <1>2 DEF IInv, TypeOK, DisconnectStart, mlVars, hbVars, rlVars
    <2>2. Control'
      BY <1>2 DEF IInv, TypeOK, Control, DiscMatchesQuit, LoopsStartTogether,
         Redialling, NoDialAfterQuit, NoLostReconnect, QuitIsFinal, Running,
         DisconnectStart, mlVars, hbVars, rlVars
    <2> QED BY <2>1, <2>2 DEF IInv, Control
  <1>3. CASE DisconnectEnd
    <2>1. TypeOK'
      BY <1>3 DEF IInv, TypeOK, DisconnectEnd, Closed, mlVars, hbVars, rlVars
    <2>2. Control'
      BY <1>3 DEF IInv, TypeOK, Control, DiscMatchesQuit, LoopsStartTogether,
         Redialling, NoDialAfterQuit, NoLostReconnect, QuitIsFinal, Running,
         DisconnectEnd, Closed, mlVars, hbVars, rlVars
    <2> QED BY <2>1, <2>2 DEF IInv, Control
  <1> QED BY <1>1, <1>2, <1>3

\* Connect and a failing connection preserve the invariant.
LEMMA EnvironmentInv ==
    ASSUME IInv, NEW c \in Conn, Connect(c) \/ LinkFails(c)
    PROVE  IInv'
  <1>1. CASE Connect(c)
    <2>1. TypeOK'
      BY <1>1 DEF IInv, TypeOK, Connect, Fresh, mlVars, hbVars, rlVars
    <2>2. Control'
      BY <1>1 DEF IInv, TypeOK, Control, DiscMatchesQuit, LoopsStartTogether,
         Redialling, NoDialAfterQuit, NoLostReconnect, QuitIsFinal, Running,
         Connect, Fresh, mlVars, hbVars, rlVars
    <2> QED BY <2>1, <2>2 DEF IInv, Control
  <1>2. CASE LinkFails(c)
    <2>1. TypeOK'
      BY <1>2 DEF IInv, TypeOK, LinkFails, mlVars, hbVars, rlVars
    <2>2. Control'
      BY <1>2 DEF IInv, TypeOK, Control, DiscMatchesQuit, LoopsStartTogether,
         Redialling, NoDialAfterQuit, NoLostReconnect, QuitIsFinal, Running,
         LinkFails, mlVars, hbVars, rlVars
    <2> QED BY <2>1, <2>2 DEF IInv, Control
  <1> QED BY <1>1, <1>2

\* Every step of the client preserves the invariant.
LEMMA NextInv == IInv /\ [Next]_vars => IInv'
  <1> SUFFICES ASSUME IInv, [Next]_vars PROVE IInv'
    OBVIOUS
  <1>1. CASE Next
    BY <1>1, EnvironmentInv, MessageLoopInv, HeartbeatLoopInv, ReconnectLoopInv, DisconnectInv
       DEF Next
  <1>2. CASE UNCHANGED vars
    BY <1>2 DEF vars, mlVars, hbVars, rlVars, IInv, TypeOK, DiscMatchesQuit, LoopsStartTogether,
       Redialling, NoDialAfterQuit, NoLostReconnect, QuitIsFinal, Running
  <1> QED BY <1>1, <1>2

\* The inductive invariant holds in every reachable state of the client.
THEOREM ClientInvariance == Spec => []IInv
  BY InitInv, NextInv, PTL DEF Spec

\* The loops never lose a reconnect, however their steps interleave.
THEOREM ReconnectNeverLost == Spec => []NoLostReconnect
  <1>1. IInv => NoLostReconnect
    BY DEF IInv
  <1> QED BY <1>1, ClientInvariance, PTL

\* After a Disconnect that closed quit, nothing reconnects the agent.
THEOREM QuitAlwaysFinal == Spec => []QuitIsFinal
  <1>1. IInv => QuitIsFinal
    BY DEF IInv
  <1> QED BY <1>1, ClientInvariance, PTL
=============================================================================
