------------------------------ MODULE WSBridge ------------------------------
(***************************************************************************)
(* HTTPGateway.handleWSUpload (gateway.go): one browser's WebSocket and    *)
(* one TCP connection to the upload server, bridged by two goroutines, one *)
(* per direction, with the handler waiting for the first of them.  Each    *)
(* goroutine closes the other's connection when it ends, which is how the  *)
(* other learns of it.                                                     *)
(*                                                                         *)
(* Streams are made of numbered bytes, as in DuplexStream.  Every read and *)
(* every write of a connection is a step: between a read and the write of  *)
(* what it returned anything can happen to either connection.              *)
(***************************************************************************)
EXTENDS Integers, Sequences

CONSTANTS
    BufferSize,     \* bytes the TCP -> WS goroutine reads at once
    MaxMessage,     \* bound: bytes of one message of the browser
    MaxUp, MaxDown  \* bounds: bytes sent by the browser, by the server

ASSUME BridgeAssumption ==
    /\ BufferSize \in Nat \ {0} /\ MaxMessage \in Nat \ {0}
    /\ MaxUp \in Nat /\ MaxDown \in Nat

VARIABLES
    handler,     \* "dial", "wait" (<-done) or "returned"
    up,          \* WS -> TCP goroutine: [pc, data, failed]
    down,        \* TCP -> WS goroutine: [pc, data]
    ws, tcp,     \* the gateway's two connections: "open", "closed", tcp "none"
    browser, backend,  \* the other ends: "open" or "closed"
    frames,      \* messages the browser sent and the gateway has not read
    pending,     \* bytes the server sent and the gateway has not read
    clientSent, backendGot, backendSent, clientGot   \* as in DuplexStream

vars == <<handler, up, down, ws, tcp, browser, backend, frames, pending,
          clientSent, backendGot, backendSent, clientGot>>

conns == <<ws, tcp>>
ends  == <<browser, backend>>

\* failed is the operation that ended the WS -> TCP goroutine.
NotStarted == [pc |-> "none", data |-> <<>>, failed |-> "none"]
Reading    == [NotStarted EXCEPT !.pc = "read"]

\* The handler has upgraded the connection.
Init ==
    /\ handler = "dial" /\ up = NotStarted /\ down = NotStarted
    /\ ws = "open" /\ tcp = "none" /\ browser = "open" /\ backend = "open"
    /\ frames = <<>> /\ pending = <<>>
    /\ clientSent = 0 /\ backendGot = <<>> /\ backendSent = 0 /\ clientGot = <<>>

-----------------------------------------------------------------------------
(* The browser and the server.  What the browser sends after the gateway    *)
(* has closed the WebSocket goes nowhere and is not modelled.              *)

BrowserSend(n) ==
    /\ browser = "open" /\ ws = "open" /\ clientSent + n <= MaxUp
    /\ frames' = Append(frames, [binary |-> TRUE,
                                 data |-> [k \in 1 .. n |-> clientSent + k]])
    /\ clientSent' = clientSent + n
    /\ UNCHANGED <<handler, up, down, conns, ends, pending, backendGot,
                   backendSent, clientGot>>

\* A text message, at most one at a time.
BrowserSendText ==
    /\ browser = "open" /\ ws = "open"
    /\ \A k \in DOMAIN frames : frames[k].binary
    /\ frames' = Append(frames, [binary |-> FALSE, data |-> <<>>])
    /\ UNCHANGED <<handler, up, down, conns, ends, pending, clientSent,
                   backendGot, backendSent, clientGot>>

BrowserClose ==
    /\ browser = "open" /\ browser' = "closed"
    /\ UNCHANGED <<handler, up, down, conns, backend, frames, pending, clientSent,
                   backendGot, backendSent, clientGot>>

BackendSend ==
    /\ backend = "open" /\ tcp = "open" /\ backendSent < MaxDown
    /\ backendSent' = backendSent + 1
    /\ pending' = Append(pending, backendSent')
    /\ UNCHANGED <<handler, up, down, conns, ends, frames, clientSent, backendGot,
                   clientGot>>

BackendClose ==
    /\ backend = "open" /\ tcp = "open" /\ backend' = "closed"
    /\ UNCHANGED <<handler, up, down, conns, browser, frames, pending, clientSent,
                   backendGot, backendSent, clientGot>>

-----------------------------------------------------------------------------
(* handleWSUpload.                                                         *)

Dial ==
    /\ handler = "dial"
    /\ \/ /\ tcp' = "open" /\ handler' = "wait"
          /\ up' = Reading /\ down' = Reading
          /\ UNCHANGED ws
       \/ /\ ws' = "closed" /\ handler' = "returned"
          /\ UNCHANGED <<tcp, up, down>>
    /\ UNCHANGED <<ends, frames, pending, clientSent, backendGot, backendSent,
                   clientGot>>

Return ==
    /\ handler = "wait" /\ up.pc = "done"
    /\ ws' = "closed" /\ handler' = "returned"
    /\ UNCHANGED <<up, down, tcp, ends, frames, pending, clientSent, backendGot,
                   backendSent, clientGot>>

-----------------------------------------------------------------------------
(* WS -> TCP.                                                              *)

\* Messages that have arrived are read before the close of the browser is
\* seen; after closeWS some of them may have been read ahead already.
UpRead ==
    /\ up.pc = "read" /\ frames # <<>>
    /\ frames' = Tail(frames)
    /\ up' = IF Head(frames).binary
             THEN [up EXCEPT !.pc = "write", !.data = Head(frames).data]
             ELSE up
    /\ UNCHANGED <<handler, down, conns, ends, pending, clientSent, backendGot,
                   backendSent, clientGot>>

\* Mutant: the close is seen before the messages that precede it.
UpReadErrorEarly ==
    /\ up.pc = "read"
    /\ ws = "closed" \/ browser = "closed"
    /\ up' = [up EXCEPT !.pc = "closeTCP", !.failed = "read"]
    /\ UNCHANGED <<handler, down, conns, ends, frames, pending, clientSent,
                   backendGot, backendSent, clientGot>>

UpReadError ==
    /\ up.pc = "read"
    /\ ws = "closed" \/ (browser = "closed" /\ frames = <<>>)
    /\ up' = [up EXCEPT !.pc = "closeTCP", !.failed = "read"]
    /\ UNCHANGED <<handler, down, conns, ends, frames, pending, clientSent,
                   backendGot, backendSent, clientGot>>

\* A write to a server that has closed may succeed and go nowhere.
UpWrite ==
    /\ up.pc = "write" /\ tcp = "open"
    /\ up' = [up EXCEPT !.pc = "read", !.data = <<>>]
    /\ backendGot' = IF backend = "open" THEN backendGot \o up.data ELSE backendGot
    /\ UNCHANGED <<handler, down, conns, ends, frames, pending, clientSent,
                   backendSent, clientGot>>

UpWriteError ==
    /\ up.pc = "write" /\ (tcp = "closed" \/ backend = "closed")
    /\ up' = [up EXCEPT !.pc = "closeTCP", !.data = <<>>, !.failed = "write"]
    /\ UNCHANGED <<handler, down, conns, ends, frames, pending, clientSent,
                   backendGot, backendSent, clientGot>>

\* Mutant: the goroutine does not close the TCP connection.
UpExitOnly ==
    /\ up.pc = "closeTCP"
    /\ up' = [up EXCEPT !.pc = "close(done)"]
    /\ UNCHANGED <<handler, down, conns, ends, frames, pending, clientSent,
                   backendGot, backendSent, clientGot>>

\* The deferred calls run in reverse order.
UpCloseTCP ==
    /\ up.pc = "closeTCP"
    /\ tcp' = "closed"
    /\ up' = [up EXCEPT !.pc = "close(done)"]
    /\ UNCHANGED <<handler, down, ws, ends, frames, pending, clientSent,
                   backendGot, backendSent, clientGot>>

UpDone ==
    /\ up.pc = "close(done)"
    /\ up' = [up EXCEPT !.pc = "done"]
    /\ UNCHANGED <<handler, down, conns, ends, frames, pending, clientSent,
                   backendGot, backendSent, clientGot>>

-----------------------------------------------------------------------------
(* TCP -> WS.                                                              *)

\* Mutant: the buffer grows with what there is to read.
DownReadAll(n) ==
    /\ down.pc = "read" /\ tcp = "open" /\ n <= Len(pending)
    /\ down' = [down EXCEPT !.pc = "write", !.data = pending]
    /\ pending' = <<>>
    /\ UNCHANGED <<handler, up, conns, ends, frames, clientSent, backendGot,
                   backendSent, clientGot>>

DownRead(n) ==
    /\ down.pc = "read" /\ tcp = "open" /\ n <= Len(pending)
    /\ down' = [down EXCEPT !.pc = "write", !.data = SubSeq(pending, 1, n)]
    /\ pending' = SubSeq(pending, n + 1, Len(pending))
    /\ UNCHANGED <<handler, up, conns, ends, frames, clientSent, backendGot,
                   backendSent, clientGot>>

\* Mutant: the end of the stream is seen before what precedes it.
DownReadErrorEarly ==
    /\ down.pc = "read"
    /\ tcp = "closed" \/ backend = "closed"
    /\ down' = [down EXCEPT !.pc = "closeWS"]
    /\ UNCHANGED <<handler, up, conns, ends, frames, pending, clientSent,
                   backendGot, backendSent, clientGot>>

DownReadError ==
    /\ down.pc = "read"
    /\ tcp = "closed" \/ (backend = "closed" /\ pending = <<>>)
    /\ down' = [down EXCEPT !.pc = "closeWS"]
    /\ UNCHANGED <<handler, up, conns, ends, frames, pending, clientSent,
                   backendGot, backendSent, clientGot>>

\* Mutant: the next read happens before the write, in the same buffer.
DownWriteOverrun ==
    /\ down.pc = "write" /\ ws = "open"
    /\ down' = [down EXCEPT !.pc = "read", !.data = <<>>]
    /\ LET n == Len(down.data)
           late == SubSeq(pending, 1, IF n < Len(pending) THEN n ELSE Len(pending))
       IN  clientGot' = IF browser = "closed" THEN clientGot
                        ELSE clientGot \o late \o
                             SubSeq(down.data, Len(late) + 1, n)
    /\ UNCHANGED <<handler, up, conns, ends, frames, pending, clientSent,
                   backendGot, backendSent>>

DownWrite ==
    /\ down.pc = "write" /\ ws = "open"
    /\ down' = [down EXCEPT !.pc = "read", !.data = <<>>]
    /\ clientGot' = IF browser = "open" THEN clientGot \o down.data ELSE clientGot
    /\ UNCHANGED <<handler, up, conns, ends, frames, pending, clientSent,
                   backendGot, backendSent>>

DownWriteError ==
    /\ down.pc = "write" /\ (ws = "closed" \/ browser = "closed")
    /\ down' = [down EXCEPT !.pc = "closeWS", !.data = <<>>]
    /\ UNCHANGED <<handler, up, conns, ends, frames, pending, clientSent,
                   backendGot, backendSent, clientGot>>

DownCloseWS ==
    /\ down.pc = "closeWS"
    /\ ws' = "closed"
    /\ down' = [down EXCEPT !.pc = "done"]
    /\ UNCHANGED <<handler, up, tcp, ends, frames, pending, clientSent,
                   backendGot, backendSent, clientGot>>

Up   == UpRead \/ UpReadError \/ UpWrite \/ UpWriteError \/ UpCloseTCP \/ UpDone
Down == \/ \E n \in 1 .. BufferSize : DownRead(n)
        \/ DownReadError \/ DownWrite \/ DownWriteError \/ DownCloseWS

\* A bridge that has ended and whose ends are closed rests.
Ended == handler = "returned" /\ browser = "closed" /\ UNCHANGED vars

Next ==
    \/ \E n \in 1 .. MaxMessage : BrowserSend(n)
    \/ BrowserSendText \/ BrowserClose \/ BackendSend \/ BackendClose
    \/ Dial \/ Return \/ Up \/ Down \/ Ended

Spec == Init /\ [][Next]_vars

\* The goroutines and the handler run; the ends do as they like.
FairSpec == /\ Spec
            /\ WF_vars(Dial) /\ WF_vars(Return) /\ WF_vars(Up) /\ WF_vars(Down)

-----------------------------------------------------------------------------
(* Properties.                                                             *)

Threads == {"none", "read", "write", "closeTCP", "close(done)", "closeWS", "done"}

\* The goroutines stay within their code, and what one of them holds fits in the
\* buffer it was read into (gateway.go:139) or is one message.
TypeOK ==
    /\ handler \in {"dial", "wait", "returned"}
    /\ {up.pc, down.pc} \subseteq Threads
    /\ Len(up.data) <= MaxMessage /\ Len(down.data) <= BufferSize
    /\ ws \in {"open", "closed"} /\ tcp \in {"none", "open", "closed"}
    /\ {browser, backend} \subseteq {"open", "closed"}
    /\ clientSent \in 0 .. MaxUp /\ backendSent \in 0 .. MaxDown

Stream == INSTANCE DuplexStream

\* Both directions are byte streams, up to the moment they break.
ImplementsDuplexStream == Stream!Spec

\* The server's last answers reach the browser although the server closes
\* right behind them: the WebSocket is closed on the browser only after
\* everything the server sent, unless a message to the server was refused.
AnswersBeforeClose ==
    ws = "closed" /\ tcp # "none" /\ browser = "open" /\ up.failed # "write" =>
        Len(clientGot) = backendSent

\* A browser that sends its last message and leaves has it forwarded: the
\* server's connection is closed after the browser's last byte.
LastMessageForwarded ==
    up.failed = "read" /\ ws = "open" /\ backend = "open" =>
        Len(backendGot) = clientSent

\* Neither a goroutine nor a connection outlives the bridge's ends.
BridgeEnds ==
    (browser = "closed" \/ backend = "closed") ~>
        /\ handler = "returned" /\ ws = "closed" /\ tcp # "open"
        /\ {up.pc, down.pc} \subseteq {"none", "done"}
=============================================================================
