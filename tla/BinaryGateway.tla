--------------------------- MODULE BinaryGateway ---------------------------
(***************************************************************************)
(* The gateways of gateway.go for the binary protocol: gnet event handlers *)
(* that forward what a client sends to a connection to the upload server,  *)
(* and one goroutine per connection (readFromBackend) that hands what the  *)
(* server sends to the client's event loop with AsyncWrite.                *)
(*                                                                         *)
(* The three gateways differ in when they dial:                            *)
(*   "binary"   BinaryGateway dials in OnOpen;                             *)
(*   "smart"    SmartBinaryGateway dials in the first OnTraffic;           *)
(*   "unified"  UnifiedGateway dials when it has 4 bytes.                  *)
(*                                                                         *)
(* A callback of the event loop is one step.  gnet is not under src/: it   *)
(* runs the callbacks and the queued tasks of a connection one at a time,  *)
(* in order, and AsyncWrite keeps a reference to the slice it is given.    *)
(* Streams are made of numbered bytes, as in DuplexStream.                 *)
(***************************************************************************)
EXTENDS Integers, Sequences

CONSTANTS
    Kinds,          \* the gateways to run, of "binary", "smart", "unified"
    Conns,          \* client connections
    BufferSize,     \* bytes readFromBackend reads at once
    DialFails,      \* whether the server may be unreachable
    Sequential,     \* the server has at most one answer on the way, and it
                    \* arrives in one piece
    MaxUp, MaxDown  \* bounds: bytes sent by a client, by the server to it

ASSUME GatewayAssumption ==
    /\ Kinds \subseteq {"binary", "smart", "unified"}
    /\ BufferSize \in Nat \ {0} /\ MaxUp \in Nat /\ MaxDown \in Nat
    /\ DialFails \in BOOLEAN /\ Sequential \in BOOLEAN

VARIABLES
    kind,        \* the gateway that runs
    crashed,     \* the process has panicked
    client,      \* conn -> "none", "open", "closing" (Close queued) or "closed"
    left,        \* conn -> the client has closed its end
    ctx,         \* conn -> ClientContext: [set, backendConn, buffer]
    inbound,     \* conn -> bytes the client sent that OnTraffic has not read
    server,      \* conn -> the server's end: "none", "open" or "closed"
    answers,     \* conn -> bytes the server sent that are not read
    reader,      \* conn -> readFromBackend: [pc, buffer, incoming]
    writes,      \* conn -> queued AsyncWrites: lengths into reader.buffer
    clientSent, backendGot, backendSent, clientGot   \* conn -> as in DuplexStream

vars == <<kind, crashed, client, left, ctx, inbound, server, answers, reader,
          writes, clientSent, backendGot, backendSent, clientGot>>

NoContext == [set |-> FALSE, backendConn |-> "nil", buffer |-> <<>>]
NewContext == [NoContext EXCEPT !.set = TRUE]

NoReader == [pc |-> "none", buffer |-> [k \in 1 .. BufferSize |-> 0],
             incoming |-> <<>>]

Init ==
    /\ kind \in Kinds /\ crashed = FALSE
    /\ client = [c \in Conns |-> "none"] /\ left = [c \in Conns |-> FALSE]
    /\ ctx = [c \in Conns |-> NoContext]
    /\ inbound = [c \in Conns |-> <<>>]
    /\ server = [c \in Conns |-> "none"] /\ answers = [c \in Conns |-> <<>>]
    /\ reader = [c \in Conns |-> NoReader] /\ writes = [c \in Conns |-> <<>>]
    /\ clientSent = [c \in Conns |-> 0] /\ backendGot = [c \in Conns |-> <<>>]
    /\ backendSent = [c \in Conns |-> 0] /\ clientGot = [c \in Conns |-> <<>>]

-----------------------------------------------------------------------------
(* The ends.                                                               *)

ClientSend(c) ==
    /\ client[c] = "open" /\ ~left[c] /\ clientSent[c] < MaxUp
    /\ clientSent' = [clientSent EXCEPT ![c] = @ + 1]
    /\ inbound' = [inbound EXCEPT ![c] = Append(@, clientSent'[c])]
    /\ UNCHANGED <<kind, crashed, client, left, ctx, server, answers, reader,
                   writes, backendGot, backendSent, clientGot>>

ClientLeave(c) ==
    /\ client[c] = "open" /\ ~left[c]
    /\ left' = [left EXCEPT ![c] = TRUE]
    /\ UNCHANGED <<kind, crashed, client, ctx, inbound, server, answers, reader,
                   writes, clientSent, backendGot, backendSent, clientGot>>

\* n bytes, of which each read may return any first part.
ServerSend(c, n) ==
    /\ server[c] = "open" /\ backendSent[c] + n <= MaxDown
    /\ Sequential => n <= BufferSize /\ Len(clientGot[c]) = backendSent[c]
    /\ backendSent' = [backendSent EXCEPT ![c] = @ + n]
    /\ answers' = [answers EXCEPT ![c] = @ \o [k \in 1 .. n |-> backendSent[c] + k]]
    /\ UNCHANGED <<kind, crashed, client, left, ctx, inbound, server, reader,
                   writes, clientSent, backendGot, clientGot>>

ServerClose(c) ==
    /\ server[c] = "open"
    /\ server' = [server EXCEPT ![c] = "closed"]
    /\ UNCHANGED <<kind, crashed, client, left, ctx, inbound, answers, reader,
                   writes, clientSent, backendGot, backendSent, clientGot>>

-----------------------------------------------------------------------------
(* Event-loop callbacks.                                                   *)

Dialed(c) == /\ server' = [server EXCEPT ![c] = "open"]
             /\ reader' = [reader EXCEPT ![c].pc = "read"]

\* Returning gnet.Close makes gnet close the connection, and call OnClose.
OnOpen(c) ==
    /\ ~crashed /\ client[c] = "none"
    /\ \/ /\ kind = "binary" /\ Dialed(c)
          /\ client' = [client EXCEPT ![c] = "open"]
          /\ ctx' = [ctx EXCEPT ![c] = [NewContext EXCEPT !.backendConn = "open"]]
       \/ /\ kind = "binary" /\ DialFails
          /\ client' = [client EXCEPT ![c] = "closing"]
          /\ UNCHANGED <<ctx, server, reader>>
       \/ /\ kind # "binary"
          /\ client' = [client EXCEPT ![c] = "open"]
          /\ ctx' = [ctx EXCEPT ![c] = NewContext]
          /\ UNCHANGED <<server, reader>>
    /\ UNCHANGED <<kind, crashed, left, inbound, answers, writes, clientSent,
                   backendGot, backendSent, clientGot>>

MustDial(c) == /\ ctx[c].backendConn = "nil"
               /\ kind = "unified" => Len(ctx[c].buffer) + Len(inbound[c]) >= 4

\* Mutant: the bytes kept until the backend is dialed are sent again later.
TrafficKeepingBuffer(c) ==
    /\ ~crashed /\ client[c] = "open" /\ inbound[c] # <<>>
    /\ inbound' = [inbound EXCEPT ![c] = <<>>]
    /\ LET data == ctx[c].buffer \o inbound[c]
       IN  \/ /\ MustDial(c) /\ Dialed(c)
              /\ ctx' = [ctx EXCEPT ![c].backendConn = "open", ![c].buffer = data]
              /\ backendGot' = [backendGot EXCEPT ![c] = @ \o data]
              /\ UNCHANGED client
           \/ /\ ctx[c].backendConn = "open" /\ server[c] = "open"
              /\ backendGot' = [backendGot EXCEPT ![c] = @ \o data]
              /\ UNCHANGED <<client, ctx, server, reader>>
           \/ /\ ctx[c].backendConn = "nil" /\ ~MustDial(c)
              /\ ctx' = [ctx EXCEPT ![c].buffer = data]
              /\ UNCHANGED <<client, server, reader, backendGot>>
    /\ UNCHANGED <<kind, crashed, left, answers, writes, clientSent, backendSent,
                   clientGot>>

\* The lazy gateways collect what they read until they have dialed.  A write to
\* a server that has closed fails, or succeeds and goes nowhere.  The dial, the
\* start of readFromBackend and the first write are one step: a server that
\* closes between them does so after it here, with those bytes unread.
OnTraffic(c) ==
    /\ ~crashed /\ client[c] = "open" /\ inbound[c] # <<>>
    /\ inbound' = [inbound EXCEPT ![c] = <<>>]
    /\ LET data == ctx[c].buffer \o inbound[c]
       IN  \/ /\ MustDial(c) /\ Dialed(c)
              /\ ctx' = [ctx EXCEPT ![c].backendConn = "open", ![c].buffer = <<>>]
              /\ backendGot' = [backendGot EXCEPT ![c] = @ \o data]
              /\ UNCHANGED client
           \/ /\ MustDial(c) /\ DialFails
              /\ client' = [client EXCEPT ![c] = "closing"]
              /\ ctx' = [ctx EXCEPT ![c].buffer = data]
              /\ UNCHANGED <<server, reader, backendGot>>
           \/ /\ ctx[c].backendConn = "nil" /\ ~MustDial(c)
              /\ ctx' = [ctx EXCEPT ![c].buffer = data]
              /\ UNCHANGED <<client, server, reader, backendGot>>
           \/ /\ ctx[c].backendConn = "open" /\ server[c] = "open"
              /\ backendGot' = [backendGot EXCEPT ![c] = @ \o data]
              /\ UNCHANGED <<client, ctx, server, reader>>
           \/ /\ ctx[c].backendConn = "open" /\ server[c] = "closed"
              /\ client' \in {client, [client EXCEPT ![c] = "closing"]}
              /\ UNCHANGED <<ctx, server, reader, backendGot>>
    /\ UNCHANGED <<kind, crashed, left, answers, writes, clientSent, backendSent,
                   clientGot>>

\* The client left, a callback returned gnet.Close, or the Close that
\* readFromBackend queued is due: the writes queued before it are done.
\* c.Context().(*ClientContext) panics if no context was set.
OnClose(c) ==
    /\ ~crashed
    /\ \/ client[c] = "closing" /\ (reader[c].pc = "done" => writes[c] = <<>>)
       \/ client[c] = "open" /\ left[c] /\ inbound[c] = <<>>
    /\ IF ctx[c].set
       THEN /\ client' = [client EXCEPT ![c] = "closed"]
            /\ ctx' = [ctx EXCEPT ![c].backendConn =
                          IF @ = "open" THEN "closed" ELSE @]
            /\ UNCHANGED crashed
       ELSE crashed' = TRUE /\ UNCHANGED <<client, ctx>>
    /\ UNCHANGED <<kind, left, inbound, server, answers, reader, writes,
                   clientSent, backendGot, backendSent, clientGot>>

\* A queued AsyncWrite runs: what the client gets is what the buffer holds now,
\* and if the goroutine is in the middle of its next read, any mix of the old
\* and the new bytes.
Contents(c) ==
    LET n   == Head(writes[c])
        r   == reader[c]
        new == IF r.pc = "fill" THEN 1 .. Len(r.incoming) ELSE {}
    IN  {[k \in 1 .. n |-> IF k \in mixed THEN r.incoming[k] ELSE r.buffer[k]] :
            mixed \in SUBSET (new \cap 1 .. n)}

RunWrite(c) ==
    /\ ~crashed /\ writes[c] # <<>>
    /\ writes' = [writes EXCEPT ![c] = Tail(@)]
    /\ IF client[c] = "closed"
       THEN UNCHANGED clientGot
       ELSE \E bytes \in Contents(c) :
               clientGot' = [clientGot EXCEPT ![c] = @ \o bytes]
    /\ UNCHANGED <<kind, crashed, client, left, ctx, inbound, server, answers,
                   reader, clientSent, backendGot, backendSent>>

-----------------------------------------------------------------------------
(* readFromBackend.                                                        *)

\* The read copies into the buffer...
ReadStart(c, n) ==
    /\ ~crashed /\ reader[c].pc = "read" /\ ctx[c].backendConn = "open"
    /\ n <= Len(answers[c]) /\ (Sequential => n = Len(answers[c]))
    /\ reader' = [reader EXCEPT ![c].pc = "fill",
                                ![c].incoming = SubSeq(answers[c], 1, n)]
    /\ answers' = [answers EXCEPT ![c] = SubSeq(@, n + 1, Len(@))]
    /\ UNCHANGED <<kind, crashed, client, left, ctx, inbound, server, writes,
                   clientSent, backendGot, backendSent, clientGot>>

\* ... and returns.
ReadEnd(c) ==
    /\ ~crashed /\ reader[c].pc = "fill"
    /\ reader' = [reader EXCEPT ![c].pc = "write",
                     ![c].buffer = [k \in DOMAIN @ |->
                         IF k \in DOMAIN reader[c].incoming
                         THEN reader[c].incoming[k] ELSE @[k]]]
    /\ UNCHANGED <<kind, crashed, client, left, ctx, inbound, server, answers,
                   writes, clientSent, backendGot, backendSent, clientGot>>

\* AsyncWrite on a closed connection may fail: BinaryGateway's goroutine then
\* returns, those of the lazy gateways read on.
AsyncWrite(c) ==
    /\ ~crashed /\ reader[c].pc = "write"
    /\ \/ /\ writes' = [writes EXCEPT ![c] = Append(@, Len(reader[c].incoming))]
          /\ reader' = [reader EXCEPT ![c].pc = "read", ![c].incoming = <<>>]
       \/ /\ client[c] = "closed"
          /\ reader' = [reader EXCEPT ![c].pc = IF kind = "binary" THEN "done"
                                                                   ELSE "read",
                                      ![c].incoming = <<>>]
          /\ UNCHANGED writes
    /\ UNCHANGED <<kind, crashed, client, left, ctx, inbound, server, answers,
                   clientSent, backendGot, backendSent, clientGot>>

\* Mutant: the goroutine ends without closing the client's connection.
ReadErrorQuietly(c) ==
    /\ ~crashed /\ reader[c].pc = "read"
    /\ \/ ctx[c].backendConn = "closed"
       \/ server[c] = "closed" /\ answers[c] = <<>>
    /\ reader' = [reader EXCEPT ![c].pc = "done"]
    /\ UNCHANGED <<kind, crashed, client, left, ctx, inbound, server, answers,
                   writes, clientSent, backendGot, backendSent, clientGot>>

\* The server closed, or OnClose closed the connection to it.
ReadError(c) ==
    /\ ~crashed /\ reader[c].pc = "read"
    /\ \/ ctx[c].backendConn = "closed"
       \/ server[c] = "closed" /\ answers[c] = <<>>
    /\ reader' = [reader EXCEPT ![c].pc = "done"]
    /\ client' = [client EXCEPT ![c] = IF @ = "open" THEN "closing" ELSE @]
    /\ UNCHANGED <<kind, crashed, left, ctx, inbound, server, answers, writes,
                   clientSent, backendGot, backendSent, clientGot>>

ReadFromBackend(c) == \/ \E n \in 1 .. BufferSize : ReadStart(c, n)
                      \/ ReadEnd(c) \/ AsyncWrite(c) \/ ReadError(c)

\* Queued writes run in turn with the events of the connection.
EventLoop(c) == OnOpen(c) \/ OnTraffic(c) \/ OnClose(c)

Rest == /\ crashed \/ \A c \in Conns : client[c] = "closed"
        /\ UNCHANGED vars

Next ==
    \/ \E c \in Conns :
          \/ ClientSend(c) \/ ClientLeave(c) \/ ServerClose(c)
          \/ \E n \in 1 .. MaxDown : ServerSend(c, n)
          \/ EventLoop(c) \/ RunWrite(c) \/ ReadFromBackend(c)
    \/ Rest

Spec == Init /\ [][Next]_vars

\* Event loops and goroutines run; the ends do as they like.
FairSpec ==
    /\ Spec
    /\ \A c \in Conns : /\ WF_vars(OnTraffic(c)) /\ WF_vars(OnClose(c))
                        /\ WF_vars(RunWrite(c)) /\ WF_vars(ReadFromBackend(c))

-----------------------------------------------------------------------------
(* Properties.                                                             *)

\* A gateway that keeps its connection open holds back at most 3 bytes of a
\* client: everything else was forwarded (gateway.go:363, 461).
TypeOK ==
    /\ kind \in Kinds /\ crashed \in BOOLEAN
    /\ client \in [Conns -> {"none", "open", "closing", "closed"}]
    /\ \A c \in Conns : /\ ctx[c].backendConn \in {"nil", "open", "closed"}
                        /\ client[c] = "open" => Len(ctx[c].buffer) < 4
                        /\ reader[c].pc \in {"none", "read", "fill", "write", "done"}
                        /\ \A k \in DOMAIN writes[c] : writes[c][k] \in 1 .. BufferSize

Stream(c) == INSTANCE DuplexStream WITH
    clientSent <- clientSent[c],   backendGot <- backendGot[c],
    backendSent <- backendSent[c], clientGot <- clientGot[c]

\* The server gets what the client sent, in order and once, also what was
\* read before the backend was dialed; the client gets what the server sent.
ImplementsDuplexStream ==
    /\ \A c \in Conns : Stream(c)!Init
    /\ [][\A c \in Conns : Stream(c)!Next \/ UNCHANGED Stream(c)!vars]_vars

\* "Forward response to client" (gateway.go:284).
AnswersIntact ==
    \A c \in Conns : \A k \in DOMAIN clientGot[c] : clientGot[c][k] = k

\* A failed dial closes its connection and no other.
FailedDialIsContained == ~crashed

\* When a client or the server closes, the gateway closes both connections
\* and its goroutine ends.
ClosedTogether ==
    \A c \in Conns :
        (left[c] \/ server[c] = "closed") ~>
            /\ client[c] = "closed" /\ ctx[c].backendConn # "open"
            /\ reader[c].pc \in {"none", "done"}
=============================================================================
