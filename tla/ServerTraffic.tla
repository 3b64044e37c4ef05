---------------------------- MODULE ServerTraffic ----------------------------
(***************************************************************************)
(* OnTraffic (gnet-backend/server.go): how the upload server takes         *)
(* requests out of the bytes of a connection.  The bytes come through a    *)
(* DuplexStream, which both gateways implement: cut anywhere, several      *)
(* requests and a part of one at once.  They are appended to ctx.buffer,   *)
(* and the loop handles the requests that are complete.  A byte is its     *)
(* value: the sizes and fields are read as the code reads them.            *)
(*                                                                         *)
(* What a handler does with a request is FileUploadServer's subject; here  *)
(* an answer only says which request was understood.                       *)
(***************************************************************************)
EXTENDS Integers, Sequences

CONSTANTS
    Messages,       \* what the client sends: a sequence of [token, payload, request],
                    \* the request that the payload is built from
    ValidTokens,    \* tokens that ValidateToken accepts
    MaxTokenSize,   \* 1024 in the code
    Disconnects     \* whether the connection may end by itself

VARIABLES
    sent,           \* how many requests the client has written
    wire,           \* the bytes it has written
    starts,         \* where each request starts in them, and where the next will
    conn,           \* "open", "closed"
    buffer,         \* ctx.buffer
    loop,           \* is OnTraffic's loop running
    answers,        \* what was handed to AsyncWrite, in order
    clientSent, backendGot, backendSent, clientGot   \* as in DuplexStream

client == <<sent, wire, starts>>
server == <<conn, buffer, loop, answers>>
stream == <<clientSent, backendGot, backendSent, clientGot>>
vars   == <<client, server, stream>>

Stream == INSTANCE DuplexStream

-----------------------------------------------------------------------------
(* The wire format, as the page writes it.  A request is a record          *)
(* [cmd, id, number, size, data]: id is the file name of CMD_INIT_UPLOAD   *)
(* and the session id of the others, number its total of chunks or the     *)
(* chunk's index.                                                          *)

CMD_INIT_UPLOAD  == 1
CMD_UPLOAD_CHUNK == 2
SessionCommands  == 3 .. 6
Commands == {CMD_INIT_UPLOAD, CMD_UPLOAD_CHUNK} \cup SessionCommands

Byte == 0 .. 255

\* Numbers that the builders can write; 2^32 is too large for TLC.
IsUint16(n) == n \in Nat /\ n < 65536
IsUint32(n) == n \in Nat /\ n \div 65536 < 65536

Uint16(n) == <<n \div 256, n % 256>>
Uint32(n) == Uint16(n \div 65536) \o Uint16(n % 65536)

buildInitPayload(r) ==
    <<r.cmd>> \o Uint16(Len(r.id)) \o r.id \o Uint32(r.number) \o Uint32(r.size)

buildChunkPayload(r) ==
    <<r.cmd>> \o Uint16(Len(r.id)) \o r.id \o Uint32(r.number)
              \o Uint32(Len(r.data)) \o r.data

buildSessionPayload(r) == <<r.cmd>> \o Uint16(Len(r.id)) \o r.id

buildPayload(r) ==
    CASE r.cmd = CMD_INIT_UPLOAD      -> buildInitPayload(r)
      [] r.cmd = CMD_UPLOAD_CHUNK     -> buildChunkPayload(r)
      [] r.cmd \in SessionCommands   -> buildSessionPayload(r)

buildMessage(m) ==
    Uint32(Len(m.token)) \o m.token \o Uint32(Len(m.payload)) \o m.payload

-----------------------------------------------------------------------------
(* Reading it: offsets count from 0, as in the code.                       *)

Slice(b, from, to) == SubSeq(b, from + 1, to)
From(b, from) == SubSeq(b, from + 1, Len(b))

ReadUint16(b, at) == b[at + 1] * 256 + b[at + 2]
ReadUint32(b, at) == ReadUint16(b, at) * 65536 + ReadUint16(b, at + 2)

\* Sizes of ids are uint16, and so are the sums with them.
Wrap16(n) == n % 65536

NotUnderstood == [cmd |-> 0, id |-> <<>>, number |-> 0, size |-> 0, data |-> <<>>]

IdSize(data) == ReadUint16(data, 0)
Id(data)     == Slice(data, 2, Wrap16(2 + IdSize(data)))

\* Two numbers follow the file name or the session id.
HasNumbers(data) == /\ Len(data) >= 2
                    /\ Len(data) >= Wrap16(2 + IdSize(data) + 4 + 4)
First(data)  == ReadUint32(data, Wrap16(2 + IdSize(data)))
Second(data) == ReadUint32(data, Wrap16(2 + IdSize(data) + 4))

ParseInit(data) ==
    IF ~HasNumbers(data) THEN NotUnderstood
    ELSE [cmd |-> CMD_INIT_UPLOAD, id |-> Id(data), number |-> First(data),
          size |-> Second(data), data |-> <<>>]

\* Mutant: the chunk's data are whatever the payload still has.
ParseChunkUnchecked(data) ==
    IF ~HasNumbers(data) THEN NotUnderstood
    ELSE [cmd |-> CMD_UPLOAD_CHUNK, id |-> Id(data), number |-> First(data),
          size |-> Second(data), data |-> From(data, Wrap16(2 + IdSize(data) + 8))]

ParseChunk(data) ==
    LET headerSize == Wrap16(2 + IdSize(data) + 8)
        totalSize  == headerSize + Second(data)
    IN  IF ~HasNumbers(data) \/ Len(data) < totalSize THEN NotUnderstood
        ELSE [cmd |-> CMD_UPLOAD_CHUNK, id |-> Id(data), number |-> First(data),
              size |-> Second(data), data |-> Slice(data, headerSize, totalSize)]

ParseSession(cmd, data) ==
    IF Len(data) < 2 \/ Len(data) < Wrap16(2 + IdSize(data)) THEN NotUnderstood
    ELSE [cmd |-> cmd, id |-> Id(data), number |-> 0, size |-> 0, data |-> <<>>]

\* The handlers' first lines; an empty payload and an unknown command.
Parse(payload) ==
    LET cmd  == payload[1]
        data == From(payload, 1)
    IN  IF payload = <<>> THEN NotUnderstood
        ELSE IF cmd = CMD_INIT_UPLOAD  THEN ParseInit(data)
        ELSE IF cmd = CMD_UPLOAD_CHUNK THEN ParseChunk(data)
        ELSE IF cmd \in SessionCommands THEN ParseSession(cmd, data)
        ELSE NotUnderstood

\* What a handler adds to the size of an id, in 16 bits.
Added(cmd) == IF cmd \in SessionCommands THEN 2 ELSE 10

\* At the upper boundary the sum starts again at 0, passes the check of the length
\* and is the end of a slice that begins after it: the handler panics.
Panics(payload) ==
    LET data == From(payload, 1)
    IN  /\ payload # <<>> /\ payload[1] \in Commands /\ Len(data) >= 2
        /\ IdSize(data) + Added(payload[1]) >= 65536
        /\ Len(data) >= Wrap16(IdSize(data) + Added(payload[1]))

AuthFailed == [code |-> "RESP_AUTH_FAILED", request |-> NotUnderstood]
Refused    == [code |-> "RESP_ERROR", request |-> NotUnderstood]
Answer(r)  == IF r = NotUnderstood THEN Refused
              ELSE [code |-> "answered", request |-> r]

-----------------------------------------------------------------------------
(* What clients send: requests that fit in the fields of their payloads,   *)
(* whole or cut short, and payloads that begin with no command.            *)

Request == [cmd : Byte, id : Seq(Byte), number : Nat, size : Nat, data : Seq(Byte)]

IsRequest(r) ==
    /\ r.cmd \in Commands
    /\ IsUint16(Len(r.id)) /\ IsUint32(r.number) /\ IsUint32(r.size)
    /\ r.cmd = CMD_UPLOAD_CHUNK => r.size = Len(r.data)
    /\ r.cmd # CMD_UPLOAD_CHUNK => r.data = <<>>
    /\ r.cmd \in SessionCommands => r.number = 0 /\ r.size = 0

MessagesAssumption ==
    /\ Messages \in Seq([token : Seq(Byte), payload : Seq(Byte), request : Request])
    /\ \A k \in DOMAIN Messages :
          LET m == Messages[k]
          IN  /\ IsUint32(Len(m.token)) /\ IsUint32(Len(m.payload))
              /\ \/ /\ IsRequest(m.request)
                    /\ \E n \in 0 .. Len(buildPayload(m.request)) :
                          m.payload = SubSeq(buildPayload(m.request), 1, n)
                 \/ m.payload # <<>> /\ m.payload[1] \notin Commands

ASSUME MessagesAssumption

-----------------------------------------------------------------------------
Init ==
    /\ sent = 0 /\ wire = <<>> /\ starts = <<0>>
    /\ conn = "open" /\ buffer = <<>> /\ loop = FALSE
    /\ answers = <<>>
    /\ Stream!Init

\* The client writes its next request.
ClientSend ==
    /\ sent < Len(Messages)
    /\ sent' = sent + 1
    /\ wire' = wire \o buildMessage(Messages[sent'])
    /\ starts' = Append(starts, Len(wire'))
    /\ Stream!ClientSend(Len(wire') - Len(wire))
    /\ UNCHANGED server

DeliverAnswers(n) == Stream!DeliverToClient(n) /\ UNCHANGED <<client, server>>

Disconnect ==
    /\ Disconnects /\ conn = "open" /\ ~loop
    /\ conn' = "closed"
    /\ UNCHANGED <<client, buffer, loop, answers, stream>>

-----------------------------------------------------------------------------
(* OnTraffic runs on the connection's event loop when bytes have come;     *)
(* what it hands to AsyncWrite goes out when the event loop gets to it.    *)

Arrived == SubSeq(wire, Len(backendGot) + 1, Len(backendGot'))

\* Mutant: what was left of the previous bytes is dropped.
OnTrafficAfresh(n) ==
    /\ conn = "open" /\ ~loop
    /\ Stream!DeliverToBackend(n)
    /\ buffer' = Arrived
    /\ loop' = TRUE
    /\ UNCHANGED <<client, conn, answers>>

\* c.Next(-1) finds n new bytes.
OnTraffic(n) ==
    /\ conn = "open" /\ ~loop
    /\ Stream!DeliverToBackend(n)
    /\ buffer' = buffer \o Arrived
    /\ loop' = TRUE
    /\ UNCHANGED <<client, conn, answers>>

TokenSize(b)   == ReadUint32(b, 0)
HeaderSize(b)  == 4 + TokenSize(b) + 4
Token(b)       == Slice(b, 4, 4 + TokenSize(b))
PayloadSize(b) == ReadUint32(b, 4 + TokenSize(b))
TotalSize(b)   == HeaderSize(b) + PayloadSize(b)
Payload(b)     == Slice(b, HeaderSize(b), TotalSize(b))

TokenTooLong(b) == Len(b) >= 4 /\ TokenSize(b) > MaxTokenSize

IsComplete(b) == /\ Len(b) >= 4
                 /\ Len(b) >= HeaderSize(b)
                 /\ Len(b) >= TotalSize(b)

\* return gnet.Close; the answer waits for an event loop that has closed.
CloseConn ==
    /\ loop /\ TokenTooLong(buffer)
    /\ answers' = Append(answers, Refused)
    /\ conn' = "closed" /\ loop' = FALSE
    /\ UNCHANGED <<client, buffer, stream>>

\* Mutant: one request is handled per read.
HandleOne ==
    /\ loop /\ ~TokenTooLong(buffer) /\ IsComplete(buffer)
    /\ answers' = Append(answers, IF Token(buffer) \in ValidTokens
                                  THEN Answer(Parse(Payload(buffer)))
                                  ELSE AuthFailed)
    /\ buffer' = From(buffer, TotalSize(buffer))
    /\ loop' = FALSE
    /\ UNCHANGED <<client, conn, stream>>

\* A panic ends the process, and all its connections.
HandlerPanics == Token(buffer) \in ValidTokens /\ Panics(Payload(buffer))

\* One turn of the loop.
Handle ==
    /\ loop /\ ~TokenTooLong(buffer) /\ IsComplete(buffer)
    /\ IF HandlerPanics
       THEN /\ conn' = "closed" /\ loop' = FALSE
            /\ UNCHANGED <<buffer, answers>>
       ELSE /\ answers' = Append(answers, IF Token(buffer) \in ValidTokens
                                          THEN Answer(Parse(Payload(buffer)))
                                          ELSE AuthFailed)
            /\ buffer' = From(buffer, TotalSize(buffer))
            /\ UNCHANGED <<conn, loop>>
    /\ UNCHANGED <<client, stream>>

\* The rest of a request has not come yet.
Return ==
    /\ loop /\ ~TokenTooLong(buffer) /\ ~IsComplete(buffer)
    /\ loop' = FALSE
    /\ UNCHANGED <<client, conn, buffer, answers, stream>>

\* The event loop runs a queued AsyncWrite; on a closed connection it has none.
RunWrite ==
    /\ conn = "open" /\ ~loop /\ backendSent < Len(answers)
    /\ Stream!BackendSend(1)
    /\ UNCHANGED <<client, server>>

Coming == 1 .. clientSent - Len(backendGot)

EventLoop ==
    CloseConn \/ Handle \/ Return \/ RunWrite \/ \E n \in Coming : OnTraffic(n)

\* Everything was sent, handled and answered, or the connection is closed.
Rest ==
    /\ \/ conn = "closed"
       \/ /\ sent = Len(Messages) /\ Coming = {} /\ ~loop
          /\ Len(clientGot) = Len(answers)
    /\ UNCHANGED vars

Next ==
    \/ ClientSend \/ Disconnect \/ EventLoop \/ Rest
    \/ \E n \in 1 .. backendSent - Len(clientGot) : DeliverAnswers(n)

Spec == Init /\ [][Next]_vars

\* The event loop runs, and the network delivers what was sent.
FairSpec ==
    /\ Spec
    /\ WF_vars(EventLoop)
    /\ WF_vars(\E n \in 1 .. backendSent - Len(clientGot) : DeliverAnswers(n))

-----------------------------------------------------------------------------
(* Properties.                                                             *)

\* ctx.buffer never loses its place: it is what was read after the end of the
\* last request that was answered, wherever the bytes were cut.
BufferIsRemainder ==
    conn = "open" =>
    buffer = Slice(wire, starts[Len(answers) + 1], Len(backendGot))

\* What a client means by a payload: a request, if it is all there.
Meant(m) == IF IsRequest(m.request) /\ m.payload = buildPayload(m.request)
            THEN m.request ELSE NotUnderstood

\* The answer due to a message.
DueTo(m) ==
    IF Len(m.token) > MaxTokenSize THEN Refused
    ELSE IF m.token \notin ValidTokens THEN AuthFailed
    ELSE Answer(Meant(m))

Requests == INSTANCE RequestStream WITH
    Due  <- [k \in DOMAIN Messages |-> DueTo(Messages[k])],
    got  <- Len(clientGot)

\* Requests are understood as the client meant them, each once and in order.
ImplementsRequestStream == Requests!Spec

\* No request waits in the buffer for the bytes of the next one: the client
\* has the answers to all it sent, again and again, while the connection lasts.
AnswersArrive == []<>(conn = "closed" \/ Len(clientGot) = sent)

\* "Invalid auth token size" (server.go:92): what the server answers arrives,
\* unless the client has left.
RefusalsArrive == ~Disconnects => []<>(Len(clientGot) = Len(answers))
=============================================================================
