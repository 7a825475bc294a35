----------------------------- MODULE AgentClient -----------------------------
(***************************************************************************)
(* The agent's control connection (internal/control/agent_client.go): the  *)
(* WebSocket, the three loops that Connect starts and Disconnect.          *)
(*                                                                         *)
(* a.mu is held across a blocking operation only by Disconnect; the        *)
(* critical sections of the loops are single steps that wait until the     *)
(* lock is free.  Connections are anonymous: an identity is used again     *)
(* once nobody refers to it.                                               *)
(***************************************************************************)
EXTENDS Naturals

CONSTANTS Conn, None, MaxFailures

ASSUME ClientAssumption == None \notin Conn /\ MaxFailures \in Nat \ {0}

VARIABLES
    link,        \* state of the network behind a connection
    wsConn, connected, reconnectCh, quit,  \* the fields of AgentClient
    ml, mconn,          \* messageLoop: where it is, the connection it reads
    hb, hconn, failCount,  \* heartbeatLoop: the same, and its failures
    rl, rconn,          \* reconnectLoop: the same for the one it dialled
    disc         \* the caller of Disconnect

mlVars == <<ml, mconn>>
hbVars == <<hb, hconn, failCount>>
rlVars == <<rl, rconn>>
vars == <<link, wsConn, connected, reconnectCh, quit, mlVars, hbVars, rlVars, disc>>

TypeOK ==
    \* "stuck": writes fail and reads block, as after a write deadline passed
    /\ link \in [Conn -> {"open", "stuck", "dead"}]
    /\ wsConn \in Conn \cup {None}
    /\ connected \in BOOLEAN /\ quit \in BOOLEAN
    /\ reconnectCh \in 0 .. 1
    /\ ml \in {"off", "check", "load", "read", "mark", "token", "sleep", "done"}
    /\ mconn \in Conn \cup {None}
    /\ hb \in {"off", "wait", "load", "ping", "mark", "token", "done"}
    /\ hconn \in Conn \cup {None}
    /\ failCount \in 0 .. MaxFailures
    /\ rl \in {"off", "wait", "close", "try", "dial", "install", "back", "done"}
    /\ rconn \in Conn \cup {None}
    /\ disc \in {"idle", "waiting", "returned"}

Init ==
    /\ link = [c \in Conn |-> "dead"]
    /\ wsConn = None /\ connected = FALSE /\ reconnectCh = 0 /\ quit = FALSE
    /\ ml = "off" /\ mconn = None
    /\ hb = "off" /\ hconn = None /\ failCount = 0
    /\ rl = "off" /\ rconn = None
    /\ disc = "idle"

\* a.mu is free: Disconnect is not waiting for a.done while it holds it.
MuFree == disc # "waiting"

Fresh == Conn \ {wsConn, mconn, hconn, rconn}

\* A send on reconnectCh, which never blocks.
Token == IF reconnectCh < 1 THEN reconnectCh + 1 ELSE reconnectCh

Closed(c) == IF c = None THEN link ELSE [link EXCEPT ![c] = "dead"]

-----------------------------------------------------------------------------
(* Connect, called once, after a successful dial.                          *)

Connect(c) ==
    /\ ml = "off" /\ ~connected /\ disc = "idle"
    /\ c \in Fresh
    /\ link' = [link EXCEPT ![c] = "open"]
    /\ wsConn' = c /\ connected' = TRUE
    /\ ml' = "check" /\ hb' = "wait" /\ rl' = "wait"
    /\ UNCHANGED <<reconnectCh, quit, mconn, hconn, failCount, rconn, disc>>

\* The network: a connection fails, or only its writes do.
LinkFails(c) ==
    /\ link[c] = "open"
    /\ link' \in {[link EXCEPT ![c] = s] : s \in {"stuck", "dead"}}
    /\ UNCHANGED <<wsConn, connected, reconnectCh, quit, mlVars, hbVars, rlVars, disc>>

-----------------------------------------------------------------------------
(* messageLoop.                                                            *)

MessageCheck ==
    /\ ml = "check"
    /\ ml' = IF quit THEN "done" ELSE "load"
    /\ UNCHANGED <<link, wsConn, connected, reconnectCh, quit, mconn, hbVars, rlVars, disc>>

MessageLoad ==
    /\ ml = "load" /\ MuFree
    /\ mconn' = wsConn
    /\ ml' = IF wsConn = None THEN "sleep" ELSE "read"
    /\ UNCHANGED <<link, wsConn, connected, reconnectCh, quit, hbVars, rlVars, disc>>

\* A message of the server is handled; the handlers do not use AgentClient.
MessageRead ==
    /\ ml = "read" /\ link[mconn] = "open"
    /\ ml' = "check" /\ mconn' = None
    /\ UNCHANGED <<link, wsConn, connected, reconnectCh, quit, hbVars, rlVars, disc>>

MessageReadError ==
    /\ ml = "read" /\ link[mconn] = "dead"
    /\ ml' = "mark" /\ mconn' = None
    /\ UNCHANGED <<link, wsConn, connected, reconnectCh, quit, hbVars, rlVars, disc>>

MessageMark ==
    /\ ml = "mark" /\ MuFree
    /\ connected' = FALSE
    /\ ml' = "token"
    /\ UNCHANGED <<link, wsConn, reconnectCh, quit, mconn, hbVars, rlVars, disc>>

\* Variant of MessageToken: the loop only notes that it is disconnected.
MessageNoToken ==
    /\ ml = "token"
    /\ ml' = "sleep"
    /\ UNCHANGED <<link, wsConn, connected, reconnectCh, quit, mconn, hbVars, rlVars, disc>>

MessageToken ==
    /\ ml = "token"
    /\ reconnectCh' = Token
    /\ ml' = "sleep"
    /\ UNCHANGED <<link, wsConn, connected, quit, mconn, hbVars, rlVars, disc>>

MessageWake ==
    /\ ml = "sleep"
    /\ ml' = "check"
    /\ UNCHANGED <<link, wsConn, connected, reconnectCh, quit, mconn, hbVars, rlVars, disc>>

-----------------------------------------------------------------------------
(* heartbeatLoop.  Its select may take either ready case.                  *)

HeartbeatQuit ==
    /\ hb = "wait" /\ quit
    /\ hb' = "done"
    /\ UNCHANGED <<link, wsConn, connected, reconnectCh, quit, mlVars, hconn, failCount, rlVars, disc>>

HeartbeatTick ==
    /\ hb = "wait"
    /\ hb' = "load"
    /\ UNCHANGED <<link, wsConn, connected, reconnectCh, quit, mlVars, hconn, failCount, rlVars, disc>>

\* failCount grows without bound in the code, which only compares it with
\* maxFailures.
Failures == IF failCount < MaxFailures THEN failCount + 1 ELSE failCount

HeartbeatLoad ==
    /\ hb = "load" /\ MuFree
    /\ IF wsConn = None
       THEN /\ failCount' = Failures
            /\ hb' = IF Failures >= MaxFailures THEN "token" ELSE "wait"
            /\ UNCHANGED hconn
       ELSE /\ hb' = "ping" /\ hconn' = wsConn
            /\ UNCHANGED failCount
    /\ UNCHANGED <<link, wsConn, connected, reconnectCh, quit, mlVars, rlVars, disc>>

\* Variant of HeartbeatPing: a failed ping resets the count like a good one.
HeartbeatPingForgets ==
    /\ hb = "ping"
    /\ hconn' = None
    /\ failCount' = 0
    /\ hb' = "wait"
    /\ UNCHANGED <<link, wsConn, connected, reconnectCh, quit, mlVars, rlVars, disc>>

HeartbeatPing ==
    /\ hb = "ping"
    /\ hconn' = None
    /\ IF link[hconn] = "open"
       THEN failCount' = 0 /\ hb' = "wait"
       ELSE /\ failCount' = Failures
            /\ hb' = IF Failures >= MaxFailures THEN "mark" ELSE "wait"
    /\ UNCHANGED <<link, wsConn, connected, reconnectCh, quit, mlVars, rlVars, disc>>

HeartbeatMark ==
    /\ hb = "mark" /\ MuFree
    /\ connected' = FALSE
    /\ hb' = "token"
    /\ UNCHANGED <<link, wsConn, reconnectCh, quit, mlVars, hconn, failCount, rlVars, disc>>

HeartbeatToken ==
    /\ hb = "token"
    /\ reconnectCh' = Token
    /\ hb' = "wait"
    /\ UNCHANGED <<link, wsConn, connected, quit, mlVars, hconn, failCount, rlVars, disc>>

-----------------------------------------------------------------------------
(* reconnectLoop.                                                          *)

ReconnectQuit ==
    /\ rl \in {"wait", "try", "back"} /\ quit
    /\ rl' = "done"
    /\ UNCHANGED <<link, wsConn, connected, reconnectCh, quit, mlVars, hbVars, rconn, disc>>

ReconnectTake ==
    /\ rl = "wait" /\ reconnectCh > 0
    /\ reconnectCh' = reconnectCh - 1
    /\ rl' = "close"
    /\ UNCHANGED <<link, wsConn, connected, quit, mlVars, hbVars, rconn, disc>>

ReconnectClose ==
    /\ rl = "close" /\ MuFree
    /\ link' = Closed(wsConn)
    /\ wsConn' = None /\ connected' = FALSE
    /\ rl' = "try"
    /\ UNCHANGED <<reconnectCh, quit, mlVars, hbVars, rconn, disc>>

\* Variant of ReconnectTry: quit is not looked at before a dial.
ReconnectTryAlways ==
    /\ rl = "try"
    /\ rl' = "dial"
    /\ UNCHANGED <<link, wsConn, connected, reconnectCh, quit, mlVars, hbVars, rconn, disc>>

ReconnectTry ==
    /\ rl = "try" /\ ~quit
    /\ rl' = "dial"
    /\ UNCHANGED <<link, wsConn, connected, reconnectCh, quit, mlVars, hbVars, rconn, disc>>

DialSucceeds(c) ==
    /\ rl = "dial"
    /\ c \in Fresh
    /\ link' = [link EXCEPT ![c] = "open"]
    /\ rconn' = c
    /\ rl' = "install"
    /\ UNCHANGED <<wsConn, connected, reconnectCh, quit, mlVars, hbVars, disc>>

\* The end of dial: the old connection, if any, is closed and replaced.
Install ==
    /\ rl = "install" /\ MuFree
    /\ link' = Closed(wsConn)
    /\ wsConn' = rconn /\ connected' = TRUE
    /\ rl' = "wait" /\ rconn' = None
    /\ UNCHANGED <<reconnectCh, quit, mlVars, hbVars, disc>>

\* Variant of DialFails: the loop returns.
DialFailsGivesUp ==
    /\ rl = "dial"
    /\ rl' = "done"
    /\ UNCHANGED <<link, wsConn, connected, reconnectCh, quit, mlVars, hbVars, rconn, disc>>

DialFails ==
    /\ rl = "dial"
    /\ rl' = "back"
    /\ UNCHANGED <<link, wsConn, connected, reconnectCh, quit, mlVars, hbVars, rconn, disc>>

\* The backoff (1 s doubled up to 60 s, with a jitter of a quarter) has passed.
BackoffOver ==
    /\ rl = "back"
    /\ rl' = "try"
    /\ UNCHANGED <<link, wsConn, connected, reconnectCh, quit, mlVars, hbVars, rconn, disc>>

-----------------------------------------------------------------------------
(* Disconnect.                                                             *)

\* The early return: the loops are left running, a dial in flight included.
DisconnectNotConnected ==
    /\ disc = "idle" /\ ~connected
    /\ disc' = "returned"
    /\ UNCHANGED <<link, wsConn, connected, reconnectCh, quit, mlVars, hbVars, rlVars>>

\* a.mu is taken and stays taken.
DisconnectStart ==
    /\ disc = "idle" /\ connected
    /\ quit' = TRUE
    /\ disc' = "waiting"
    /\ UNCHANGED <<link, wsConn, connected, reconnectCh, mlVars, hbVars, rlVars>>

\* a.done is closed: the connection, the tunnels and the lock are released.
DisconnectEnd ==
    /\ disc = "waiting" /\ ml = "done"
    /\ link' = Closed(wsConn)
    /\ wsConn' = None /\ connected' = FALSE
    /\ disc' = "returned"
    /\ UNCHANGED <<reconnectCh, quit, mlVars, hbVars, rlVars>>

-----------------------------------------------------------------------------
MessageLoop == \/ MessageCheck \/ MessageLoad \/ MessageReadError
               \/ MessageMark \/ MessageToken \/ MessageWake
HeartbeatLoop == \/ HeartbeatQuit \/ HeartbeatTick \/ HeartbeatLoad
                 \/ HeartbeatPing \/ HeartbeatMark \/ HeartbeatToken
ReconnectLoop == \/ ReconnectQuit \/ ReconnectTake \/ ReconnectClose \/ ReconnectTry
                 \/ Install \/ DialFails \/ BackoffOver
                 \/ \E c \in Conn : DialSucceeds(c)

Next == \/ \E c \in Conn : Connect(c) \/ LinkFails(c)
        \/ MessageLoop \/ MessageRead
        \/ HeartbeatLoop
        \/ ReconnectLoop
        \/ DisconnectNotConnected \/ DisconnectStart \/ DisconnectEnd

Spec == Init /\ [][Next]_vars

\* The goroutines are scheduled, timers fire, and a server that is dialled
\* again and again is reached in the end.  Nothing obliges the server to send
\* messages, a connection to fail or the user to disconnect.
Fairness == /\ WF_vars(MessageLoop)
            /\ WF_vars(HeartbeatLoop)
            /\ WF_vars(ReconnectLoop)
            /\ SF_vars(\E c \in Conn : DialSucceeds(c))
            /\ WF_vars(DisconnectEnd)

FairSpec == Spec /\ Fairness

-----------------------------------------------------------------------------
(* Properties.                                                             *)

Running == ml # "off" /\ ~quit

\* An agent that is not connected is being reconnected: a reconnect is under
\* way, or its token is in the channel or about to be sent.  The three loops
\* set connected, the channel and the connection at different moments.
NoLostReconnect ==
    Running /\ ~connected =>
       \/ reconnectCh = 1
       \/ rl \in {"close", "try", "dial", "install", "back"}
       \/ ml = "token" \/ hb = "token"

\* A Disconnect that found the agent connected and closed quit is final: no
\* loop still in flight brings a connection back or finds one to use.  This
\* says nothing of a Disconnect that returned early, for which the loops and
\* quit stay as they are: QuietAfterDisconnect is about both.
QuitIsFinal ==
    disc = "returned" /\ quit => wsConn = None /\ ~connected

\* Once the user's Disconnect has returned, after which the command says that
\* the tunnel is stopped, the agent is not connected.  False: a Disconnect
\* that comes during a reconnect returns at once, and the dial then installs
\* its connection.
QuietAfterDisconnect == disc = "returned" => ~connected

\* A disconnected agent whose user does not disconnect gets a new connection.
Reconnects == (Running /\ ~connected) ~> (connected \/ quit)

\* A control connection that stopped working, be it only for writes, is
\* replaced, unless the user disconnects.
BrokenLinkReplaced ==
    \A c \in Conn : (wsConn = c /\ link[c] # "open") ~> (wsConn # c \/ quit)

\* The user's Disconnect, which Ctrl+C calls, returns.
DisconnectReturns == (disc = "waiting") ~> (disc = "returned")

\* What makes the two invariants inductive: Disconnect and quit go together,
\* and the reconnect loop is past its check of quit only while the client has
\* neither a connection nor, so to speak, a user who could disconnect it.
DiscMatchesQuit == (disc = "idle" => ~quit) /\ (disc = "waiting" => quit)
LoopsStartTogether == ml = "off" => rl = "off" /\ hb = "off"
Redialling == rl \in {"try", "dial", "install", "back"} => ~connected /\ wsConn = None
NoDialAfterQuit == quit => rl \notin {"dial", "install"}

IInv == /\ TypeOK /\ DiscMatchesQuit /\ LoopsStartTogether
        /\ Redialling /\ NoDialAfterQuit
        /\ NoLostReconnect /\ QuitIsFinal
=============================================================================
