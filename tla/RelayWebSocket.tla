--------------------------- MODULE RelayWebSocket ----------------------------
(***************************************************************************)
(* One WebSocket request at the relay (ReverseProxy.handleWebSocket): a    *)
(* goroutine that reads the client and writes frames to the stream, one    *)
(* that reads frames from the stream and writes to the client, and the     *)
(* handler that waits for the first error of either.  The stream is not    *)
(* the agent's: it is an io.Pipe that the handler made, so a write waits   *)
(* for the reader of the same handler.                                     *)
(***************************************************************************)
EXTENDS Naturals, Sequences

CONSTANTS Msg,       \* the messages the client sends, one after the other
          ErrCap     \* capacity of errCh, 2 in the code

ASSUME WebSocketAssumption == ErrCap \in Nat

VARIABLES
    client,     \* the client's connection: "open" or "closed"
    unsent,     \* messages the client has still to send
    pipe,       \* what a blocked Write offers, <<>> when nobody writes
    pipeOpen,   \* upWriter has not been closed
    streamOpen, \* the stream is in the multiplexer
    wr, wmsg,   \* the goroutine that reads the client
    rd, rmsg,   \* the goroutine that writes to the client
    errCh,      \* errors in the channel
    main,       \* the handler
    received    \* what the client received

wsVars == <<client, unsent, pipe, pipeOpen, streamOpen, wr, wmsg, rd, rmsg,
            errCh, main, received>>

WebSocketTypeOK ==
    /\ client \in {"open", "closed"}
    /\ unsent \subseteq Msg
    /\ pipe \in Seq({"header", "payload"} \X Msg) /\ Len(pipe) <= 1
    /\ pipeOpen \in BOOLEAN /\ streamOpen \in BOOLEAN
    /\ wr \in {"read", "header", "payload", "fail", "done"}
    /\ wmsg \in Seq(Msg) /\ Len(wmsg) <= 1
    /\ rd \in {"header", "payload", "write", "fail", "done"}
    /\ rmsg \in Seq(Msg) /\ Len(rmsg) <= 1
    /\ errCh \in 0 .. ErrCap
    /\ main \in {"wait", "closeStream", "closeConn", "done"}
    /\ received \in Seq(Msg)

WebSocketInit ==
    /\ client = "open" /\ unsent = Msg
    /\ pipe = <<>> /\ pipeOpen = TRUE /\ streamOpen = TRUE
    /\ wr = "read" /\ wmsg = <<>>
    /\ rd = "header" /\ rmsg = <<>>
    /\ errCh = 0 /\ main = "wait"
    /\ received = <<>>

-----------------------------------------------------------------------------
\* The client goes away, or downConn is closed by the handler.
ClientCloses ==
    /\ client = "open"
    /\ client' = "closed"
    /\ UNCHANGED <<unsent, pipe, pipeOpen, streamOpen, wr, wmsg, rd, rmsg, errCh, main, received>>

(* The goroutine that reads the client.                                    *)

ReadMessage(m) ==
    /\ wr = "read" /\ client = "open" /\ m \in unsent
    /\ unsent' = unsent \ {m}
    /\ wmsg' = <<m>> /\ wr' = "header"
    /\ UNCHANGED <<client, pipe, pipeOpen, streamOpen, rd, rmsg, errCh, main, received>>

\* ForwardFrame finds the stream and offers the header, then the payload, to
\* the pipe; both wait for a reader.
ForwardOffer ==
    /\ wr \in {"header", "payload"} /\ pipe = <<>>
    /\ wr = "header" => streamOpen
    /\ pipeOpen
    /\ pipe' = <<<<wr, wmsg[1]>>>>
    /\ UNCHANGED <<client, unsent, pipeOpen, streamOpen, wr, wmsg, rd, rmsg, errCh, main, received>>

\* The client is gone, the message cannot be compressed or exceeds MaxPayload,
\* the stream is no longer there, or the pipe is closed.
WriterFails ==
    /\ \/ wr = "read" /\ client = "closed"
       \/ wr = "header" /\ pipe = <<>>
       \/ wr \in {"header", "payload"} /\ ~pipeOpen
    /\ wr' = "fail" /\ wmsg' = <<>> /\ pipe' = <<>>
    /\ UNCHANGED <<client, unsent, pipeOpen, streamOpen, rd, rmsg, errCh, main, received>>

\* A send on errCh.
WriterSendsErr ==
    /\ wr = "fail" /\ errCh < ErrCap
    /\ errCh' = errCh + 1
    /\ wr' = "done"
    /\ UNCHANGED <<client, unsent, pipe, pipeOpen, streamOpen, wmsg, rd, rmsg, main, received>>

(* The goroutine that writes to the client.  A read of the pipe completes  *)
(* the write it takes its bytes from.                                      *)

ReceiveHeader ==
    /\ rd = "header" /\ pipe # <<>> /\ pipe[1][1] = "header" /\ pipeOpen
    /\ pipe' = <<>> /\ wr' = "payload"
    /\ rd' = "payload"
    /\ UNCHANGED <<client, unsent, pipeOpen, streamOpen, wmsg, rmsg, errCh, main, received>>

ReceivePayload ==
    /\ rd = "payload" /\ pipe # <<>> /\ pipe[1][1] = "payload" /\ pipeOpen
    /\ pipe' = <<>> /\ wr' = "read" /\ wmsg' = <<>>
    /\ rmsg' = <<pipe[1][2]>> /\ rd' = "write"
    /\ UNCHANGED <<client, unsent, pipeOpen, streamOpen, errCh, main, received>>

WriteMessage ==
    /\ rd = "write" /\ client = "open"
    /\ received' = received \o rmsg
    /\ rmsg' = <<>> /\ rd' = "header"
    /\ UNCHANGED <<client, unsent, pipe, pipeOpen, streamOpen, wr, wmsg, errCh, main>>

\* The pipe is closed, or the payload cannot be decompressed or written.
ReaderFails ==
    /\ \/ rd = "write"
       \/ rd \in {"header", "payload"} /\ ~pipeOpen
    /\ rd' = "fail" /\ rmsg' = <<>>
    /\ UNCHANGED <<client, unsent, pipe, pipeOpen, streamOpen, wr, wmsg, errCh, main, received>>

ReaderSendsErr ==
    /\ rd = "fail" /\ errCh < ErrCap
    /\ errCh' = errCh + 1
    /\ rd' = "done"
    /\ UNCHANGED <<client, unsent, pipe, pipeOpen, streamOpen, wr, wmsg, rmsg, main, received>>

(* The handler and its deferred calls, last in first out.                  *)

TakeErr ==
    /\ main = "wait" /\ errCh > 0
    /\ errCh' = errCh - 1
    /\ main' = "closeStream"
    /\ UNCHANGED <<client, unsent, pipe, pipeOpen, streamOpen, wr, wmsg, rd, rmsg, received>>

\* Variant of CloseStream: the connection of the stream is left open.
CloseStreamOnly ==
    /\ main = "closeStream"
    /\ streamOpen' = FALSE
    /\ main' = "closeConn"
    /\ UNCHANGED <<client, unsent, pipe, pipeOpen, wr, wmsg, rd, rmsg, errCh, received>>

CloseStream ==
    /\ main = "closeStream"
    /\ pipeOpen' = FALSE /\ streamOpen' = FALSE
    /\ main' = "closeConn"
    /\ UNCHANGED <<client, unsent, pipe, wr, wmsg, rd, rmsg, errCh, received>>

CloseConn ==
    /\ main = "closeConn"
    /\ client' = "closed"
    /\ main' = "done"
    /\ UNCHANGED <<unsent, pipe, pipeOpen, streamOpen, wr, wmsg, rd, rmsg, errCh, received>>

-----------------------------------------------------------------------------
Writer == ForwardOffer \/ WriterFails \/ WriterSendsErr
Reader == ReceiveHeader \/ ReceivePayload \/ WriteMessage \/ ReaderFails \/ ReaderSendsErr
Main == TakeErr \/ CloseStream \/ CloseConn

WebSocketNext ==
    \/ ClientCloses
    \/ \E m \in Msg : ReadMessage(m)
    \/ Writer \/ Reader \/ Main

WebSocketSpec == WebSocketInit /\ [][WebSocketNext]_wsVars

\* The goroutines are scheduled; the client need neither send nor close.
WebSocketFairness == WF_wsVars(Writer) /\ WF_wsVars(Reader) /\ WF_wsVars(Main)

-----------------------------------------------------------------------------
\* When the client goes away or a goroutine fails, at whatever point the other
\* one is, the handler returns and neither goroutine stays behind: the one that
\* is blocked on the pipe is woken by CloseStream, the one that is blocked on
\* the client by downConn.Close, and its error still fits in errCh.
AllEnd == (client = "closed" \/ wr = "fail" \/ rd = "fail")
             ~> (main = "done" /\ wr = "done" /\ rd = "done")
=============================================================================
