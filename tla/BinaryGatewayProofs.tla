------------------------ MODULE BinaryGatewayProofs ------------------------
(***************************************************************************)
(* The binary gateways keep what BinaryGateway states of them: one that    *)
(* stays connected holds back at most 3 bytes, and, as long as the server  *)
(* waits for each answer to arrive before it sends the next, every         *)
(* connection is two streams of DuplexStream.                              *)
(***************************************************************************)
EXTENDS BinaryGateway, SequenceTheorems, TLAPS

-----------------------------------------------------------------------------
(* The inductive invariant.                                                *)

\* Bytes from + 1 .. from + n of a stream.
Bytes(from, n) == [k \in 1 .. n |-> from + k]

Context == [set : BOOLEAN, backendConn : {"nil", "open", "closed"}, buffer : Seq(Nat)]

Reader == [pc : {"none", "read", "fill", "write", "done"},
           buffer : [1 .. BufferSize -> Nat], incoming : Seq(Nat)]

\* What TypeOK says of the connections, and what the sequences are made of.
Typed ==
    /\ kind \in Kinds /\ crashed \in BOOLEAN
    /\ client \in [Conns -> {"none", "open", "closing", "closed"}]
    /\ left \in [Conns -> BOOLEAN]
    /\ ctx \in [Conns -> Context]
    /\ server \in [Conns -> {"none", "open", "closed"}]
    /\ inbound \in [Conns -> Seq(Nat)] /\ answers \in [Conns -> Seq(Nat)]
    /\ reader \in [Conns -> Reader]
    /\ writes \in [Conns -> Seq(1 .. BufferSize)]
    /\ clientSent \in [Conns -> Nat] /\ backendSent \in [Conns -> Nat]
    /\ backendGot \in [Conns -> Seq(Nat)] /\ clientGot \in [Conns -> Seq(Nat)]

\* A connection is dialed once: until then nothing runs for it, from then on
\* nothing of the client is held back.
Dialing(c) ==
    /\ client[c] = "none" => ctx[c].backendConn = "nil" /\ ctx[c].buffer = <<>>
    /\ ctx[c].backendConn = "nil" => server[c] = "none" /\ reader[c].pc = "none"
    /\ ctx[c].backendConn # "nil" => ctx[c].buffer = <<>>
    /\ client[c] = "open" => Len(ctx[c].buffer) < 4

\* Between a read and its write a goroutine has read something that fits.
Reads(c) ==
    /\ reader[c].pc \in {"fill", "write"} =>
           Len(reader[c].incoming) \in 1 .. BufferSize
    /\ reader[c].pc \notin {"fill", "write"} => reader[c].incoming = <<>>

\* The client and the server are there.
Through(c) == /\ client[c] \in {"none", "open"}
              /\ ctx[c].backendConn = "open" => server[c] = "open"

\* Until one of them goes, nothing is lost on the way up.
UpStream(c) ==
    LET got == backendGot[c]
        kept == ctx[c].buffer
    IN  /\ got = Bytes(0, Len(got)) /\ Len(got) <= clientSent[c]
        /\ Through(c) =>
              /\ kept = Bytes(Len(got), Len(kept))
              /\ inbound[c] = Bytes(Len(got) + Len(kept), Len(inbound[c]))
              /\ Len(got) + Len(kept) + Len(inbound[c]) = clientSent[c]

\* The bytes that the server has sent and the client has not.
Due(c) == backendSent[c] - Len(clientGot[c])

\* The buffer begins with them.
InBuffer(c) == \A k \in 1 .. Due(c) : reader[c].buffer[k] = Len(clientGot[c]) + k

\* The one answer on the way down is in one place: in the connection, in the
\* read, in the buffer before its write is queued, or behind the queued write.
DownStream(c) ==
    /\ clientGot[c] = Bytes(0, Len(clientGot[c]))
    /\ Due(c) \in 0 .. BufferSize
    /\ answers[c] # <<>> =>
          /\ answers[c] = Bytes(Len(clientGot[c]), Due(c))
          /\ reader[c].pc \notin {"fill", "write"} /\ writes[c] = <<>>
    /\ reader[c].pc = "fill" =>
          /\ reader[c].incoming = Bytes(Len(clientGot[c]), Due(c))
          /\ answers[c] = <<>> /\ writes[c] = <<>>
    /\ reader[c].pc = "write" =>
          /\ Len(reader[c].incoming) = Due(c) /\ InBuffer(c)
          /\ answers[c] = <<>> /\ writes[c] = <<>>
    /\ writes[c] # <<>> =>
          /\ writes[c] = <<Due(c)>> /\ InBuffer(c)
          /\ answers[c] = <<>> /\ reader[c].pc \notin {"fill", "write"}

\* The parts together, of which the way down takes a server that waits.
GatewayInv ==
    /\ Typed
    /\ \A c \in Conns : Dialing(c) /\ Reads(c) /\ UpStream(c)

SequentialInv == \A c \in Conns : DownStream(c)

-----------------------------------------------------------------------------
(* Facts about numbered bytes.                                             *)

\* A run of bytes is a sequence of its length, and the empty run is empty.
LEMMA BytesType ==
    ASSUME NEW from \in Nat, NEW n \in Nat
    PROVE  Bytes(from, n) \in Seq(Nat) /\ Len(Bytes(from, n)) = n
  BY DEF Bytes

\* The empty sequence is the empty run.
LEMMA NoBytes == \A from \in Nat : <<>> = Bytes(from, Len(<<>>))
  BY DEF Bytes

\* The two parts of a sequence are made of what the sequence is made of.
LEMMA Remaining ==
    ASSUME NEW S, NEW s \in Seq(S), NEW n \in 0 .. Len(s)
    PROVE  SubSeq(s, 1, n) \in Seq(S) /\ SubSeq(s, n + 1, Len(s)) \in Seq(S)
  OBVIOUS

\* Runs that follow each other make one run.
LEMMA BytesConcat ==
    ASSUME NEW from \in Nat, NEW s \in Seq(Nat), NEW t \in Seq(Nat),
           s = Bytes(from, Len(s)), t = Bytes(from + Len(s), Len(t))
    PROVE  /\ s \o t \in Seq(Nat) /\ Len(s \o t) = Len(s) + Len(t)
           /\ s \o t = Bytes(from, Len(s \o t))
<1>1. s \o t \in Seq(Nat) /\ Len(s \o t) = Len(s) + Len(t)
  OBVIOUS
<1>2. ASSUME NEW k \in 1 .. Len(s \o t) PROVE (s \o t)[k] = from + k
  <2>1. CASE k <= Len(s)
    BY <1>1, <1>2, <2>1 DEF Bytes
  <2>2. CASE k > Len(s)
    <3>1. (s \o t)[k] = t[k - Len(s)] /\ k - Len(s) \in 1 .. Len(t)
      BY <1>1, <1>2, <2>2
    <3> QED
      BY <3>1 DEF Bytes
  <2> QED
    BY <1>1, <1>2, <2>1, <2>2
<1>3. /\ Bytes(from, Len(s \o t)) \in Seq(Nat)
      /\ Len(Bytes(from, Len(s \o t))) = Len(s \o t)
  BY <1>1, BytesType
<1>4. \A k \in 1 .. Len(s \o t) : (s \o t)[k] = Bytes(from, Len(s \o t))[k]
  BY <1>2 DEF Bytes
<1> QED
  BY <1>1, <1>3, <1>4, SeqEqual

\* One more byte makes a run one longer.
LEMMA BytesAppend ==
    ASSUME NEW from \in Nat, NEW s \in Seq(Nat), s = Bytes(from, Len(s))
    PROVE  Append(s, from + (Len(s) + 1)) = Bytes(from, Len(s) + 1)
<1> DEFINE t == Append(s, from + (Len(s) + 1))
<1>1. t \in Seq(Nat) /\ Len(t) = Len(s) + 1 /\ Len(s) + 1 \in Nat
  OBVIOUS
<1>2. /\ Bytes(from, Len(s) + 1) \in Seq(Nat)
      /\ Len(Bytes(from, Len(s) + 1)) = Len(s) + 1
  BY <1>1, BytesType
<1>3. \A k \in 1 .. Len(s) + 1 : t[k] = from + k
  BY DEF Bytes
<1>4. \A k \in 1 .. Len(s) + 1 : t[k] = Bytes(from, Len(s) + 1)[k]
  BY <1>3 DEF Bytes
<1> QED
  BY <1>1, <1>2, <1>4, SeqEqual

\* A run is cut into two that follow each other.
LEMMA BytesCut ==
    ASSUME NEW from \in Nat, NEW s \in Seq(Nat), NEW n \in 0 .. Len(s),
           s = Bytes(from, Len(s))
    PROVE  /\ SubSeq(s, 1, n) \in Seq(Nat) /\ Len(SubSeq(s, 1, n)) = n
           /\ SubSeq(s, 1, n) = Bytes(from, n)
           /\ SubSeq(s, n + 1, Len(s)) \in Seq(Nat)
           /\ Len(SubSeq(s, n + 1, Len(s))) = Len(s) - n
           /\ SubSeq(s, n + 1, Len(s)) = Bytes(from + n, Len(s) - n)
<1>1. /\ SubSeq(s, 1, n) \in Seq(Nat) /\ Len(SubSeq(s, 1, n)) = n
      /\ SubSeq(s, n + 1, Len(s)) \in Seq(Nat)
      /\ Len(SubSeq(s, n + 1, Len(s))) = Len(s) - n
  OBVIOUS
<1>2. \A k \in 1 .. n : SubSeq(s, 1, n)[k] = Bytes(from, n)[k]
  BY DEF Bytes
<1>3. \A k \in 1 .. (Len(s) - n) :
         SubSeq(s, n + 1, Len(s))[k] = Bytes(from + n, Len(s) - n)[k]
  BY DEF Bytes
<1>4. /\ Bytes(from, n) \in Seq(Nat) /\ Len(Bytes(from, n)) = n
      /\ Bytes(from + n, Len(s) - n) \in Seq(Nat)
      /\ Len(Bytes(from + n, Len(s) - n)) = Len(s) - n
  <2>1. from + n \in Nat /\ Len(s) - n \in Nat /\ n \in Nat
    OBVIOUS
  <2> QED
    BY <2>1, BytesType
<1>5. SubSeq(s, 1, n) = Bytes(from, n)
  BY <1>1, <1>2, <1>4, SeqEqual
<1>6. SubSeq(s, n + 1, Len(s)) = Bytes(from + n, Len(s) - n)
  BY <1>1, <1>3, <1>4, SeqEqual
<1> QED
  BY <1>1, <1>5, <1>6

-----------------------------------------------------------------------------
(* Steps of one connection.                                                *)

\* What one connection, its ends and its goroutine do.
Step(c) == \/ ClientSend(c) \/ ClientLeave(c) \/ ServerClose(c)
           \/ \E n \in 1 .. MaxDown : ServerSend(c, n)
           \/ EventLoop(c) \/ RunWrite(c) \/ ReadFromBackend(c)

\* Nothing of a connection changes.
Same(c) ==
    /\ client'[c] = client[c] /\ left'[c] = left[c] /\ ctx'[c] = ctx[c]
    /\ inbound'[c] = inbound[c] /\ server'[c] = server[c]
    /\ answers'[c] = answers[c] /\ reader'[c] = reader[c] /\ writes'[c] = writes[c]
    /\ clientSent'[c] = clientSent[c] /\ backendGot'[c] = backendGot[c]
    /\ backendSent'[c] = backendSent[c] /\ clientGot'[c] = clientGot[c]

\* A step of one connection changes no other connection.
LEMMA OthersSame ==
    ASSUME Typed, NEW c \in Conns, Step(c), NEW d \in Conns \ {c}
    PROVE  Same(d)
<1> USE DEF Typed, Same
<1>1. CASE ClientSend(c) \/ ClientLeave(c) \/ ServerClose(c)
  BY <1>1 DEF ClientSend, ClientLeave, ServerClose
<1>2. ASSUME NEW n \in 1 .. MaxDown, ServerSend(c, n) PROVE Same(d)
  BY <1>2 DEF ServerSend
<1>3. CASE OnOpen(c)
  BY <1>3 DEF OnOpen, Dialed
<1>4. CASE OnTraffic(c)
  BY <1>4 DEF OnTraffic, Dialed
<1>5. CASE OnClose(c) \/ RunWrite(c)
  BY <1>5 DEF OnClose, RunWrite
<1>6. ASSUME NEW n \in 1 .. BufferSize, ReadStart(c, n) PROVE Same(d)
  BY <1>6 DEF ReadStart
<1>7. CASE ReadEnd(c) \/ AsyncWrite(c) \/ ReadError(c)
  BY <1>7 DEF ReadEnd, AsyncWrite, ReadError
<1> QED
  BY <1>1, <1>2, <1>3, <1>4, <1>5, <1>6, <1>7 DEF Step, EventLoop, ReadFromBackend

\* Every step is one of a connection, or changes nothing.
LEMMA StepOrRest ==
    [Next]_vars => (\E c \in Conns : Step(c)) \/ UNCHANGED vars
  BY DEF Next, Step, Rest

\* A context and a goroutine, by what they hold.
IsContext(x, s, b, kept) ==
    x \in Context /\ x.set = s /\ x.backendConn = b /\ x.buffer = kept

IsReader(r, p, b, i) ==
    r \in Reader /\ r.pc = p /\ r.buffer = b /\ r.incoming = i

\* A context that is set, dialed or closed, or that keeps bytes, is a context.
LEMMA Contexts ==
    /\ IsContext(NoContext, FALSE, "nil", <<>>)
    /\ IsContext(NewContext, TRUE, "nil", <<>>)
    /\ IsContext([NewContext EXCEPT !.backendConn = "open"], TRUE, "open", <<>>)
    /\ \A x \in Context :
          /\ IsContext(x, x.set, x.backendConn, x.buffer)
          /\ \A b \in {"nil", "open", "closed"} :
                IsContext([x EXCEPT !.backendConn = b], x.set, b, x.buffer)
          /\ \A kept \in Seq(Nat) :
                /\ IsContext([x EXCEPT !.buffer = kept], x.set, x.backendConn, kept)
                /\ IsContext([x EXCEPT !.backendConn = "open", !.buffer = kept],
                             x.set, "open", kept)
<1>1. ASSUME NEW x \in Context
      PROVE  /\ IsContext(x, x.set, x.backendConn, x.buffer)
             /\ \A b \in {"nil", "open", "closed"} :
                   IsContext([x EXCEPT !.backendConn = b], x.set, b, x.buffer)
  BY DEF Context, IsContext
<1>2. ASSUME NEW x \in Context, NEW kept \in Seq(Nat)
      PROVE  IsContext([x EXCEPT !.buffer = kept], x.set, x.backendConn, kept)
  BY DEF Context, IsContext
<1>3. ASSUME NEW x \in Context, NEW kept \in Seq(Nat)
      PROVE  IsContext([x EXCEPT !.backendConn = "open", !.buffer = kept],
                       x.set, "open", kept)
  BY DEF Context, IsContext
<1>4. IsContext(NoContext, FALSE, "nil", <<>>)
  BY DEF NoContext, Context, IsContext
<1>5. IsContext(NewContext, TRUE, "nil", <<>>)
  BY <1>4 DEF NewContext, Context, IsContext
<1>6. IsContext([NewContext EXCEPT !.backendConn = "open"], TRUE, "open", <<>>)
  BY <1>5 DEF Context, IsContext
<1> QED
  BY <1>1, <1>2, <1>3, <1>4, <1>5, <1>6

\* A goroutine that moves on, reads or lets go is a goroutine.
LEMMA Readers ==
    /\ IsReader(NoReader, "none", NoReader.buffer, <<>>)
    /\ \A r \in Reader, p \in {"none", "read", "fill", "write", "done"} :
          /\ IsReader(r, r.pc, r.buffer, r.incoming)
          /\ IsReader([r EXCEPT !.pc = p], p, r.buffer, r.incoming)
          /\ \A i \in Seq(Nat) :
                IsReader([r EXCEPT !.pc = p, !.incoming = i], p, r.buffer, i)
          /\ \A b \in [1 .. BufferSize -> Nat] :
                IsReader([r EXCEPT !.pc = p, !.buffer = b], p, b, r.incoming)
<1>1. IsReader(NoReader, "none", NoReader.buffer, <<>>)
  BY GatewayAssumption DEF NoReader, Reader, IsReader
<1>2. ASSUME NEW r \in Reader, NEW p \in {"none", "read", "fill", "write", "done"}
      PROVE  /\ IsReader(r, r.pc, r.buffer, r.incoming)
             /\ IsReader([r EXCEPT !.pc = p], p, r.buffer, r.incoming)
  BY DEF Reader, IsReader
<1>3. ASSUME NEW r \in Reader, NEW p \in {"none", "read", "fill", "write", "done"},
             NEW i \in Seq(Nat)
      PROVE  IsReader([r EXCEPT !.pc = p, !.incoming = i], p, r.buffer, i)
  BY DEF Reader, IsReader
<1>4. ASSUME NEW r \in Reader, NEW p \in {"none", "read", "fill", "write", "done"},
             NEW b \in [1 .. BufferSize -> Nat]
      PROVE  IsReader([r EXCEPT !.pc = p, !.buffer = b], p, b, r.incoming)
  BY DEF Reader, IsReader
<1> QED
  BY <1>1, <1>2, <1>3, <1>4

\* What a goroutine has when its read returns.
Filled(r) == [k \in 1 .. BufferSize |->
                 IF k \in DOMAIN r.incoming THEN r.incoming[k] ELSE r.buffer[k]]

\* What the steps of a connection do to its goroutine; the others leave it alone.
LEMMA ReaderMoves ==
    ASSUME Typed, NEW c \in Conns
    PROVE  /\ Dialed(c) =>
                 IsReader(reader'[c], "read", reader[c].buffer, reader[c].incoming)
           /\ \A n \in 1 .. BufferSize : ReadStart(c, n) =>
                 IsReader(reader'[c], "fill", reader[c].buffer, SubSeq(answers[c], 1, n))
           /\ ReadEnd(c) =>
                 IsReader(reader'[c], "write", Filled(reader[c]), reader[c].incoming)
           /\ AsyncWrite(c) => \/ IsReader(reader'[c], "read", reader[c].buffer, <<>>)
                               \/ IsReader(reader'[c], "done", reader[c].buffer, <<>>)
           /\ ReadError(c) =>
                 IsReader(reader'[c], "done", reader[c].buffer, reader[c].incoming)
<1> DEFINE r == reader[c]
<1>1. r \in Reader /\ reader \in [Conns -> Reader] /\ <<>> \in Seq(Nat)
  BY DEF Typed
<1>2. Dialed(c) => IsReader(reader'[c], "read", r.buffer, r.incoming)
  <2>1. IsReader([r EXCEPT !.pc = "read"], "read", r.buffer, r.incoming)
    BY <1>1, Readers
  <2> QED
    BY <1>1, <2>1 DEF Dialed
<1>3. ASSUME NEW n \in 1 .. BufferSize, ReadStart(c, n)
      PROVE  IsReader(reader'[c], "fill", r.buffer, SubSeq(answers[c], 1, n))
  <2> DEFINE i == SubSeq(answers[c], 1, n)
  <2>1. answers[c] \in Seq(Nat) /\ n \in 0 .. Len(answers[c])
    BY <1>3, GatewayAssumption DEF ReadStart, Typed
  <2>2. i \in Seq(Nat)
    BY <2>1, Remaining
  <2>3. reader'[c] = [r EXCEPT !.pc = "fill", !.incoming = i]
    BY <1>1, <1>3 DEF ReadStart
  <2> HIDE DEF i, r
  <2> QED
    BY <1>1, <2>2, <2>3, Readers DEF i
<1>4. ASSUME ReadEnd(c)
      PROVE  IsReader(reader'[c], "write", Filled(r), r.incoming)
  <2>1. Filled(r) \in [1 .. BufferSize -> Nat]
    <3>1. r.incoming \in Seq(Nat) /\ r.buffer \in [1 .. BufferSize -> Nat]
      BY <1>1 DEF Reader
    <3> HIDE DEF r
    <3>2. \A k \in 1 .. BufferSize :
             (IF k \in DOMAIN r.incoming THEN r.incoming[k] ELSE r.buffer[k]) \in Nat
      <4>1. ASSUME NEW k \in 1 .. BufferSize, k \in DOMAIN r.incoming
            PROVE  r.incoming[k] \in Nat
        BY <3>1, <4>1, ElementOfSeq
      <4>2. \A k \in 1 .. BufferSize : r.buffer[k] \in Nat
        BY <3>1
      <4> QED
        BY <4>1, <4>2
    <3> QED
      BY <3>2 DEF Filled
  <2>2. reader'[c] = [r EXCEPT !.pc = "write", !.buffer = Filled(r)]
    <3>1. DOMAIN r.buffer = 1 .. BufferSize
      BY <1>1 DEF Reader
    <3> QED
      BY <1>1, <1>4, <3>1 DEF ReadEnd, Filled
  <2> HIDE DEF r
  <2> QED
    BY <1>1, <2>1, <2>2, Readers
<1>5. ASSUME AsyncWrite(c)
      PROVE  \/ IsReader(reader'[c], "read", r.buffer, <<>>)
             \/ IsReader(reader'[c], "done", r.buffer, <<>>)
  <2>1. \/ reader'[c] = [r EXCEPT !.pc = "read", !.incoming = <<>>]
        \/ reader'[c] = [r EXCEPT !.pc = "done", !.incoming = <<>>]
    BY <1>1, <1>5 DEF AsyncWrite
  <2> HIDE DEF r
  <2> QED
    BY <1>1, <2>1, Readers
<1>6. ASSUME ReadError(c)
      PROVE  IsReader(reader'[c], "done", r.buffer, r.incoming)
  <2>1. reader'[c] = [r EXCEPT !.pc = "done"]
    BY <1>1, <1>6 DEF ReadError
  <2> HIDE DEF r
  <2> QED
    BY <1>1, <2>1, Readers
<1> QED
  BY <1>2, <1>3, <1>4, <1>5, <1>6

\* What the steps of a connection do to its context; the others leave it alone.
LEMMA ContextMoves ==
    ASSUME Typed, NEW c \in Conns
    PROVE  /\ OnOpen(c) =>
                 \/ kind = "binary" /\ Dialed(c) /\ IsContext(ctx'[c], TRUE, "open", <<>>)
                 \/ kind = "binary" /\ UNCHANGED <<ctx, server, reader>>
                 \/ /\ kind # "binary" /\ IsContext(ctx'[c], TRUE, "nil", <<>>)
                    /\ UNCHANGED <<server, reader>>
           /\ OnTraffic(c) =>
                 \/ /\ MustDial(c) /\ Dialed(c)
                    /\ IsContext(ctx'[c], ctx[c].set, "open", <<>>)
                 \/ /\ ctx[c].backendConn = "nil" /\ UNCHANGED <<server, reader>>
                    /\ IsContext(ctx'[c], ctx[c].set, "nil", ctx[c].buffer \o inbound[c])
                    /\ client'[c] # "open" \/ ~MustDial(c)
                 \/ /\ ctx[c].backendConn = "open"
                    /\ UNCHANGED <<ctx, server, reader>>
           /\ OnClose(c) =>
                 \/ /\ ctx[c].set /\ UNCHANGED crashed
                    /\ IsContext(ctx'[c], ctx[c].set,
                          IF ctx[c].backendConn = "open" THEN "closed"
                                                         ELSE ctx[c].backendConn,
                          ctx[c].buffer)
                 \/ ~ctx[c].set /\ UNCHANGED ctx
<1> DEFINE x == ctx[c]
<1>1. /\ x \in Context /\ ctx \in [Conns -> Context] /\ <<>> \in Seq(Nat)
      /\ client \in [Conns -> {"none", "open", "closing", "closed"}]
  BY DEF Typed
<1>3. ASSUME OnOpen(c)
      PROVE  \/ kind = "binary" /\ Dialed(c) /\ IsContext(ctx'[c], TRUE, "open", <<>>)
             \/ kind = "binary" /\ UNCHANGED <<ctx, server, reader>>
             \/ /\ kind # "binary" /\ IsContext(ctx'[c], TRUE, "nil", <<>>)
                /\ UNCHANGED <<server, reader>>
  BY <1>1, <1>3, Contexts DEF OnOpen
<1>4. ASSUME OnTraffic(c)
      PROVE  \/ /\ MustDial(c) /\ Dialed(c)
                /\ IsContext(ctx'[c], x.set, "open", <<>>)
             \/ /\ x.backendConn = "nil" /\ UNCHANGED <<server, reader>>
                /\ IsContext(ctx'[c], x.set, "nil", x.buffer \o inbound[c])
                /\ client'[c] # "open" \/ ~MustDial(c)
             \/ /\ x.backendConn = "open"
                /\ UNCHANGED <<ctx, server, reader>>
  <2> DEFINE data == x.buffer \o inbound[c]
  <2>1. data \in Seq(Nat)
    <3>1. x.buffer \in Seq(Nat) /\ inbound[c] \in Seq(Nat)
      BY <1>1 DEF Context, Typed
    <3> QED
      BY <3>1, ConcatProperties
  <2>2. \/ /\ MustDial(c) /\ Dialed(c)
           /\ ctx'[c] = [x EXCEPT !.backendConn = "open", !.buffer = <<>>]
        \/ /\ x.backendConn = "nil" /\ UNCHANGED <<server, reader>>
           /\ ctx'[c] = [x EXCEPT !.buffer = data]
           /\ client'[c] # "open" \/ ~MustDial(c)
        \/ x.backendConn = "open" /\ UNCHANGED <<ctx, server, reader>>
    BY <1>1, <1>4 DEF OnTraffic, MustDial
  <2> HIDE DEF data, x
  <2>3. IsContext([x EXCEPT !.backendConn = "open", !.buffer = <<>>], x.set, "open", <<>>)
    BY <1>1, Contexts
  <2>4. IsContext([x EXCEPT !.buffer = data], x.set, x.backendConn, data)
    BY <1>1, <2>1, Contexts
  <2> QED
    BY <2>2, <2>3, <2>4 DEF data
<1>5. ASSUME OnClose(c)
      PROVE  \/ /\ x.set /\ UNCHANGED crashed
                /\ IsContext(ctx'[c], x.set,
                      IF x.backendConn = "open" THEN "closed" ELSE x.backendConn,
                      x.buffer)
             \/ ~x.set /\ UNCHANGED ctx
  <2> DEFINE b == IF x.backendConn = "open" THEN "closed" ELSE x.backendConn
  <2>1. b \in {"nil", "open", "closed"}
    BY <1>1 DEF Context
  <2>2. \/ x.set /\ UNCHANGED crashed /\ ctx'[c] = [x EXCEPT !.backendConn = b]
        \/ ~x.set /\ UNCHANGED ctx
    BY <1>1, <1>5 DEF OnClose
  <2> HIDE DEF b, x
  <2> QED
    BY <1>1, <2>1, <2>2, Contexts DEF b
<1> QED
  BY <1>3, <1>4, <1>5

-----------------------------------------------------------------------------
(* The invariant holds at the start, and the types at every step.          *)

\* No connection is open and nothing has been sent.
LEMMA InitGatewayInv == Init => GatewayInv /\ SequentialInv
<1> SUFFICES ASSUME Init PROVE GatewayInv /\ SequentialInv
  OBVIOUS
<1>1. /\ NoContext \in Context /\ NoContext.backendConn = "nil"
      /\ NoContext.buffer = <<>>
  BY Contexts DEF IsContext
<1>2. NoReader \in Reader /\ NoReader.pc = "none" /\ NoReader.incoming = <<>>
  BY Readers DEF IsReader
<1>3. <<>> \in Seq(Nat) /\ <<>> \in Seq(1 .. BufferSize) /\ Len(<<>>) = 0
  OBVIOUS
<1>4. Typed
  BY <1>1, <1>2, <1>3 DEF Init, Typed
<1>6. ASSUME NEW c \in Conns PROVE Dialing(c) /\ Reads(c)
  BY <1>1, <1>2, <1>3 DEF Init, Dialing, Reads
<1>7. <<>> = Bytes(0, 0)
  BY DEF Bytes
<1>8. ASSUME NEW c \in Conns PROVE UpStream(c)
  BY <1>1, <1>3, <1>7 DEF Init, UpStream
<1>9. ASSUME NEW c \in Conns PROVE DownStream(c)
  BY <1>2, <1>3, <1>7, GatewayAssumption DEF Init, DownStream, Due
<1> QED
  BY <1>4, <1>6, <1>8, <1>9 DEF GatewayInv, SequentialInv

\* What a queued write hands to the client is as long as the read was.
LEMMA ContentsType ==
    ASSUME Typed, NEW c \in Conns, writes[c] # <<>>, NEW bytes \in Contents(c)
    PROVE  bytes \in Seq(Nat)
<1> DEFINE n == Head(writes[c])
           r == reader[c]
<1>1. n \in 1 .. BufferSize /\ r \in Reader
  <2>1. writes[c] \in Seq(1 .. BufferSize) /\ r \in Reader
    BY DEF Typed
  <2> QED
    BY <2>1, HeadTailProperties
<1>2. r.incoming \in Seq(Nat) /\ r.buffer \in [1 .. BufferSize -> Nat]
  BY <1>1 DEF Reader
<1>3. PICK mixed : /\ mixed \subseteq DOMAIN r.incoming
                   /\ bytes = [k \in 1 .. n |-> IF k \in mixed THEN r.incoming[k]
                                                               ELSE r.buffer[k]]
  <2> DEFINE new == IF r.pc = "fill" THEN 1 .. Len(r.incoming) ELSE {}
  <2>1. \E mixed \in SUBSET (new \cap 1 .. n) :
           bytes = [k \in 1 .. n |-> IF k \in mixed THEN r.incoming[k] ELSE r.buffer[k]]
    BY DEF Contents
  <2>2. new \subseteq DOMAIN r.incoming
    BY <1>2
  <2> HIDE DEF new
  <2> QED
    BY <2>1, <2>2
<1> HIDE DEF n, r
<1>4. \A k \in mixed : r.incoming[k] \in Nat
  BY <1>2, <1>3, ElementOfSeq
<1>5. \A k \in 1 .. n : (IF k \in mixed THEN r.incoming[k] ELSE r.buffer[k]) \in Nat
  BY <1>1, <1>2, <1>4, GatewayAssumption
<1>6. n \in Nat /\ bytes \in [1 .. n -> Nat]
  BY <1>1, <1>3, <1>5, GatewayAssumption
<1> QED
  BY <1>6

\* Every step keeps the types.
LEMMA TypedStep ==
    ASSUME Typed, \A c \in Conns : Reads(c), [Next]_vars PROVE Typed'
<1>1. ASSUME NEW c \in Conns, ClientSend(c) PROVE Typed'
  <2>1. clientSent[c] + 1 \in Nat /\ inbound[c] \in Seq(Nat)
    BY DEF Typed
  <2>2. clientSent'[c] \in Nat /\ clientSent' \in [Conns -> Nat]
    BY <1>1, <2>1 DEF ClientSend, Typed
  <2>3. Append(inbound[c], clientSent'[c]) \in Seq(Nat)
    BY <2>1, <2>2
  <2> QED
    BY <1>1, <2>2, <2>3 DEF ClientSend, Typed
<1>2. ASSUME NEW c \in Conns, ClientLeave(c) \/ ServerClose(c) PROVE Typed'
  BY <1>2 DEF ClientLeave, ServerClose, Typed
<1>3. ASSUME NEW c \in Conns, NEW n \in 1 .. MaxDown, ServerSend(c, n) PROVE Typed'
  <2> DEFINE new == [k \in 1 .. n |-> backendSent[c] + k]
  <2>1. n \in Nat /\ backendSent[c] \in Nat /\ answers[c] \in Seq(Nat)
    BY GatewayAssumption DEF Typed
  <2>2. new \in Seq(Nat)
    BY <2>1
  <2> HIDE DEF new
  <2>3. backendSent[c] + n \in Nat /\ answers[c] \o new \in Seq(Nat)
    BY <2>1, <2>2, ConcatProperties
  <2> QED
    BY <1>3, <2>3 DEF ServerSend, Typed, new
<1>4. ASSUME NEW c \in Conns, OnOpen(c) PROVE Typed'
  <2>1. ctx' \in [Conns -> Context]
    <3>1. ctx'[c] \in Context
      BY <1>4, ContextMoves DEF Typed, IsContext
    <3> QED
      BY <1>4, <3>1 DEF OnOpen, Typed
  <2>2. reader' \in [Conns -> Reader] /\ server' \in [Conns -> {"none", "open", "closed"}]
    <3>1. CASE Dialed(c)
      BY <3>1, ReaderMoves DEF Dialed, Typed, IsReader
    <3> QED
      BY <1>4, <3>1 DEF OnOpen, Typed
  <2>3. client' \in [Conns -> {"none", "open", "closing", "closed"}]
    BY <1>4 DEF OnOpen, Typed
  <2> QED
    BY <1>4, <2>1, <2>2, <2>3 DEF OnOpen, Typed
<1>5. ASSUME NEW c \in Conns, OnTraffic(c) PROVE Typed'
  <2>1. ctx' \in [Conns -> Context]
    BY <1>5, ContextMoves DEF OnTraffic, Typed, IsContext
  <2>2. reader' \in [Conns -> Reader] /\ server' \in [Conns -> {"none", "open", "closed"}]
    <3>1. CASE Dialed(c)
      BY <3>1, ReaderMoves DEF Dialed, Typed, IsReader
    <3> QED
      BY <1>5, <3>1 DEF OnTraffic, Typed
  <2>3. client' \in [Conns -> {"none", "open", "closing", "closed"}]
    BY <1>5 DEF OnTraffic, Typed
  <2>4. backendGot' \in [Conns -> Seq(Nat)]
    <3> DEFINE data == ctx[c].buffer \o inbound[c]
    <3>1. /\ ctx[c].buffer \in Seq(Nat) /\ inbound[c] \in Seq(Nat)
          /\ backendGot[c] \in Seq(Nat) /\ backendGot \in [Conns -> Seq(Nat)]
      BY DEF Context, Typed
    <3>2. data \in Seq(Nat)
      BY <3>1, ConcatProperties
    <3>3. \/ UNCHANGED backendGot
          \/ backendGot' = [backendGot EXCEPT ![c] = @ \o data]
      BY <1>5 DEF OnTraffic
    <3> HIDE DEF data
    <3>4. backendGot[c] \o data \in Seq(Nat)
      BY <3>1, <3>2, ConcatProperties
    <3> QED
      BY <3>1, <3>3, <3>4
  <2>5. inbound' \in [Conns -> Seq(Nat)]
    <3>1. inbound' = [inbound EXCEPT ![c] = <<>>] /\ inbound \in [Conns -> Seq(Nat)]
      BY <1>5 DEF OnTraffic, Typed
    <3>2. <<>> \in Seq(Nat)
      OBVIOUS
    <3> QED
      BY <3>1, <3>2
  <2> QED
    BY <1>5, <2>1, <2>2, <2>3, <2>4, <2>5 DEF OnTraffic, Typed
<1>6. ASSUME NEW c \in Conns, OnClose(c) PROVE Typed'
  <2>1. ctx' \in [Conns -> Context]
    BY <1>6, ContextMoves DEF OnClose, Typed, IsContext
  <2>2. /\ client' \in [Conns -> {"none", "open", "closing", "closed"}]
        /\ crashed' \in BOOLEAN
    BY <1>6 DEF OnClose, Typed
  <2> QED
    BY <1>6, <2>1, <2>2 DEF OnClose, Typed
<1>7. ASSUME NEW c \in Conns, RunWrite(c) PROVE Typed'
  <2>1. writes[c] \in Seq(1 .. BufferSize) /\ writes[c] # <<>>
    BY <1>7 DEF RunWrite, Typed
  <2>2. Tail(writes[c]) \in Seq(1 .. BufferSize)
    BY <2>1, HeadTailProperties
  <2>3. clientGot' \in [Conns -> Seq(Nat)]
    <3>1. ASSUME NEW bytes \in Contents(c),
                 clientGot' = [clientGot EXCEPT ![c] = @ \o bytes]
          PROVE  clientGot' \in [Conns -> Seq(Nat)]
      <4>1. bytes \in Seq(Nat) /\ clientGot[c] \in Seq(Nat)
        BY <2>1, ContentsType DEF Typed
      <4>2. clientGot[c] \o bytes \in Seq(Nat)
        BY <4>1, ConcatProperties
      <4> QED
        BY <3>1, <4>2 DEF Typed
    <3> QED
      BY <1>7, <3>1 DEF RunWrite, Typed
  <2> QED
    BY <1>7, <2>2, <2>3 DEF RunWrite, Typed
<1>8. ASSUME NEW c \in Conns, NEW n \in 1 .. BufferSize, ReadStart(c, n) PROVE Typed'
  <2>1. answers[c] \in Seq(Nat) /\ n \in 0 .. Len(answers[c])
    BY <1>8, GatewayAssumption DEF ReadStart, Typed
  <2>2. SubSeq(answers[c], n + 1, Len(answers[c])) \in Seq(Nat)
    BY <2>1, Remaining
  <2>3. reader'[c] \in Reader
    BY <1>8, ReaderMoves DEF IsReader
  <2>4. reader' \in [Conns -> Reader]
    BY <1>8, <2>3 DEF ReadStart, Typed
  <2> QED
    BY <1>8, <2>2, <2>4 DEF ReadStart, Typed
<1>9. ASSUME NEW c \in Conns, ReadEnd(c) \/ ReadError(c) PROVE Typed'
  <2>1. reader'[c] \in Reader
    BY <1>9, ReaderMoves DEF IsReader
  <2>2. reader' \in [Conns -> Reader]
    BY <1>9, <2>1 DEF ReadEnd, ReadError, Typed
  <2>3. client' \in [Conns -> {"none", "open", "closing", "closed"}]
    BY <1>9 DEF ReadEnd, ReadError, Typed
  <2> QED
    BY <1>9, <2>2, <2>3 DEF ReadEnd, ReadError, Typed
<1>10. ASSUME NEW c \in Conns, AsyncWrite(c) PROVE Typed'
  <2>1. reader'[c] \in Reader
    BY <1>10, ReaderMoves DEF IsReader
  <2>2. reader' \in [Conns -> Reader]
    BY <1>10, <2>1 DEF AsyncWrite, Typed
  <2>3. Append(writes[c], Len(reader[c].incoming)) \in Seq(1 .. BufferSize)
    BY <1>10 DEF AsyncWrite, Reads, Typed
  <2>4. writes' \in [Conns -> Seq(1 .. BufferSize)]
    <3>1. writes \in [Conns -> Seq(1 .. BufferSize)]
      BY DEF Typed
    <3>2. \/ writes' = [writes EXCEPT ![c] = Append(@, Len(reader[c].incoming))]
          \/ UNCHANGED writes
      BY <1>10 DEF AsyncWrite
    <3> QED
      BY <2>3, <3>1, <3>2
  <2>5. UNCHANGED <<kind, crashed, client, left, ctx, inbound, server, answers,
                    clientSent, backendGot, backendSent, clientGot>>
    BY <1>10 DEF AsyncWrite
  <2> QED
    BY <2>2, <2>4, <2>5 DEF Typed
<1>11. CASE UNCHANGED vars
  BY <1>11 DEF vars, Typed
<1> QED
  BY <1>1, <1>2, <1>3, <1>4, <1>5, <1>6, <1>7, <1>8, <1>9, <1>10, <1>11, StepOrRest
     DEF Step, EventLoop, ReadFromBackend

-----------------------------------------------------------------------------
(* The invariant at every step.                                            *)

\* What holds of a connection goes on to hold while nothing of it changes.
LEMMA SameKeeps ==
    ASSUME NEW c \in Conns, Same(c)
    PROVE  /\ Dialing(c) => Dialing(c)'
           /\ Reads(c) => Reads(c)'
           /\ UpStream(c) => UpStream(c)'
           /\ DownStream(c) => DownStream(c)'
<1>1. Dialing(c) => Dialing(c)'
  BY DEF Same, Dialing
<1>2. Reads(c) => Reads(c)'
  BY DEF Same, Reads
<1>3. UpStream(c) => UpStream(c)'
  BY DEF Same, UpStream, Through
<1>4. DownStream(c) => DownStream(c)'
  BY DEF Same, DownStream, Due, InBuffer
<1> QED
  BY <1>1, <1>2, <1>3, <1>4

\* The steps that are not of the event loop change no context, those that are
\* not of the goroutine and dial nothing do not change it.
LEMMA Leaves ==
    ASSUME NEW c \in Conns
    PROVE  /\ \/ ClientSend(c) \/ ClientLeave(c) \/ ServerClose(c)
              \/ (\E n \in 1 .. MaxDown : ServerSend(c, n))
              \/ RunWrite(c) \/ ReadFromBackend(c)
              => UNCHANGED <<ctx, crashed, kind>>
           /\ \/ ClientSend(c) \/ ClientLeave(c) \/ ServerClose(c)
              \/ (\E n \in 1 .. MaxDown : ServerSend(c, n))
              \/ RunWrite(c) \/ OnClose(c)
              => UNCHANGED <<reader, kind>>
           /\ OnOpen(c) \/ OnTraffic(c) \/ OnClose(c) => UNCHANGED kind
  BY DEF ClientSend, ClientLeave, ServerClose, ServerSend, RunWrite, ReadFromBackend,
     ReadStart, ReadEnd, AsyncWrite, ReadError, OnOpen, OnTraffic, OnClose

\* A connection is dialed at most once, and with enough bytes it is.
LEMMA DialingStep ==
    ASSUME Typed, NEW c \in Conns, Step(c), Dialing(c)
    PROVE  Dialing(c)'
<1> USE DEF Dialing
<1>0. client \in [Conns -> {"none", "open", "closing", "closed"}]
      /\ server \in [Conns -> {"none", "open", "closed"}]
  BY DEF Typed
<1>1. CASE ClientSend(c) \/ ClientLeave(c) \/ RunWrite(c)
           \/ \E n \in 1 .. MaxDown : ServerSend(c, n)
  <2>1. UNCHANGED <<client, ctx, server, reader>>
    BY <1>1 DEF ClientSend, ClientLeave, ServerSend, RunWrite
  <2> QED
    BY <2>1
<1>2. CASE ServerClose(c)
  <2>1. UNCHANGED <<client, ctx, reader>> /\ server[c] = "open"
    BY <1>2 DEF ServerClose
  <2> QED
    BY <2>1
<1>3. CASE OnOpen(c)
  <2>1. /\ ctx[c].backendConn = "nil" /\ ctx[c].buffer = <<>> /\ Len(<<>>) = 0
        /\ client'[c] # "none"
    BY <1>0, <1>3 DEF OnOpen
  <2>2. CASE Dialed(c) /\ IsContext(ctx'[c], TRUE, "open", <<>>)
    BY <2>1, <2>2 DEF IsContext
  <2>3. CASE UNCHANGED <<ctx, server, reader>>
    BY <2>1, <2>3
  <2>4. CASE IsContext(ctx'[c], TRUE, "nil", <<>>) /\ UNCHANGED <<server, reader>>
    BY <2>1, <2>4 DEF IsContext
  <2> QED
    BY <1>3, <2>2, <2>3, <2>4, ContextMoves
<1>4. CASE OnTraffic(c)
  <2>1. client[c] = "open" /\ client'[c] # "none" /\ Len(<<>>) = 0
    BY <1>0, <1>4 DEF OnTraffic
  <2>2. CASE Dialed(c) /\ IsContext(ctx'[c], ctx[c].set, "open", <<>>)
    BY <2>1, <2>2 DEF IsContext
  <2>3. CASE /\ ctx[c].backendConn = "nil" /\ UNCHANGED <<server, reader>>
             /\ IsContext(ctx'[c], ctx[c].set, "nil", ctx[c].buffer \o inbound[c])
             /\ client'[c] # "open" \/ ~MustDial(c)
    <3>1. /\ ctx[c].buffer \in Seq(Nat) /\ inbound[c] \in Seq(Nat)
      BY DEF Typed, Context
    <3>2. Len(ctx[c].buffer \o inbound[c]) = Len(ctx[c].buffer) + Len(inbound[c])
      BY <3>1, ConcatProperties
    <3>3. ~MustDial(c) => ~(Len(ctx[c].buffer) + Len(inbound[c]) >= 4)
      BY <2>3 DEF MustDial
    <3>4. ~MustDial(c) => Len(ctx[c].buffer) + Len(inbound[c]) < 4
      <4>1. Len(ctx[c].buffer) \in Nat /\ Len(inbound[c]) \in Nat
        BY <3>1
      <4>2. \A a, b \in Nat : ~(a + b >= 4) => a + b < 4
        OBVIOUS
      <4> QED
        BY <3>3, <4>1, <4>2
    <3> QED
      BY <2>1, <2>3, <3>2, <3>4 DEF IsContext
  <2>4. CASE UNCHANGED <<ctx, server, reader>>
    BY <2>1, <2>4
  <2> QED
    BY <1>4, <2>2, <2>3, <2>4, ContextMoves
<1>5. CASE OnClose(c)
  <2>1. UNCHANGED <<server, reader>> /\ client'[c] \in {client[c], "closed"}
    BY <1>0, <1>5 DEF OnClose
  <2>2. CASE IsContext(ctx'[c], ctx[c].set,
                IF ctx[c].backendConn = "open" THEN "closed" ELSE ctx[c].backendConn,
                ctx[c].buffer)
    BY <2>1, <2>2 DEF IsContext
  <2>3. CASE UNCHANGED ctx
    BY <2>1, <2>3
  <2> QED
    BY <1>5, <2>2, <2>3, ContextMoves
<1>6. CASE ReadFromBackend(c)
  <2>1. /\ UNCHANGED <<ctx, server>> /\ reader[c].pc # "none"
        /\ client'[c] \in {client[c], "closing"}
    BY <1>0, <1>6 DEF ReadFromBackend, ReadStart, ReadEnd, AsyncWrite, ReadError
  <2> QED
    BY <2>1
<1> QED
  BY <1>1, <1>2, <1>3, <1>4, <1>5, <1>6 DEF Step, EventLoop

\* A goroutine holds what it read until its write, and no longer.
LEMMA ReadsStep ==
    ASSUME Typed, NEW c \in Conns, Step(c), Dialing(c), Reads(c)
    PROVE  Reads(c)'
<1> USE DEF Reads
<1>1. CASE \/ ClientSend(c) \/ ClientLeave(c) \/ ServerClose(c)
           \/ (\E n \in 1 .. MaxDown : ServerSend(c, n))
           \/ RunWrite(c) \/ OnClose(c)
  BY <1>1, Leaves
<1>2. CASE OnOpen(c) \/ OnTraffic(c)
  <2>1. UNCHANGED reader \/ (Dialed(c) /\ ctx[c].backendConn = "nil")
    BY <1>2, ContextMoves DEF OnOpen, Dialing, MustDial
  <2> QED
    BY <2>1, ReaderMoves DEF Dialing, IsReader
<1>3. ASSUME NEW n \in 1 .. BufferSize, ReadStart(c, n) PROVE Reads(c)'
  <2>1. n \in 1 .. Len(answers[c]) /\ answers[c] \in Seq(Nat)
    BY <1>3, GatewayAssumption DEF ReadStart, Typed
  <2>2. Len(SubSeq(answers[c], 1, n)) = n
    BY <2>1
  <2>3. IsReader(reader'[c], "fill", reader[c].buffer, SubSeq(answers[c], 1, n))
    BY <1>3, ReaderMoves
  <2> QED
    BY <2>2, <2>3 DEF IsReader
<1>4. CASE ReadEnd(c) \/ AsyncWrite(c) \/ ReadError(c)
  <2>1. /\ ReadEnd(c) => reader[c].pc = "fill"
        /\ ReadError(c) => reader[c].pc = "read"
    BY DEF ReadEnd, ReadError
  <2> QED
    BY <1>4, <2>1, ReaderMoves DEF IsReader
<1> QED
  BY <1>1, <1>2, <1>3, <1>4 DEF Step, EventLoop, ReadFromBackend

\* What OnTraffic has to send.
Data(c) == ctx[c].buffer \o inbound[c]

\* It sends that or keeps it, as long as the client and the server are there.
LEMMA Forwarded ==
    ASSUME Typed, NEW c \in Conns, Dialing(c), OnTraffic(c)
    PROVE  /\ \/ backendGot'[c] = backendGot[c]
              \/ backendGot'[c] = backendGot[c] \o Data(c) /\ Through(c)
           /\ Through(c)' => Through(c)
           /\ Through(c)' =>
                 \/ backendGot'[c] = backendGot[c] \o Data(c) /\ ctx'[c].buffer = <<>>
                 \/ backendGot'[c] = backendGot[c] /\ ctx'[c].buffer = Data(c)
<1> DEFINE got == backendGot[c]
<1>0. client[c] = "open"
  BY DEF OnTraffic
<1>1. CASE /\ ctx[c].backendConn = "nil" /\ Dialed(c)
           /\ ctx' = [ctx EXCEPT ![c].backendConn = "open", ![c].buffer = <<>>]
           /\ backendGot' = [backendGot EXCEPT ![c] = @ \o Data(c)]
  <2>1. Through(c)
    BY <1>0, <1>1 DEF Through
  <2>2. ctx'[c].buffer = <<>> /\ backendGot'[c] = got \o Data(c)
    BY <1>1 DEF Typed, Context
  <2> QED
    BY <2>1, <2>2
<1>2. CASE /\ ctx[c].backendConn = "nil"
           /\ ctx' = [ctx EXCEPT ![c].buffer = Data(c)]
           /\ UNCHANGED <<server, reader, backendGot>>
  <2>1. Through(c)
    BY <1>0, <1>2 DEF Through
  <2>2. ctx'[c].buffer = Data(c) /\ backendGot'[c] = got
    BY <1>2 DEF Typed, Context
  <2> QED
    BY <2>1, <2>2
<1>3. CASE /\ ctx[c].backendConn = "open" /\ server[c] = "open"
           /\ backendGot' = [backendGot EXCEPT ![c] = @ \o Data(c)]
           /\ UNCHANGED <<client, ctx, server, reader>>
  <2>1. Through(c)
    BY <1>0, <1>3 DEF Through
  <2>2. ctx'[c].buffer = <<>> /\ backendGot'[c] = got \o Data(c)
    BY <1>3 DEF Typed, Dialing
  <2> QED
    BY <2>1, <2>2
<1>4. CASE /\ ctx[c].backendConn = "open" /\ server[c] = "closed"
           /\ UNCHANGED <<ctx, server, reader, backendGot>>
  <2>1. ~Through(c)'
    BY <1>4 DEF Through
  <2> QED
    BY <1>4, <2>1
<1> QED
  BY <1>1, <1>2, <1>3, <1>4 DEF OnTraffic, MustDial, Data

\* What it has to send comes next in the stream.
LEMMA DataIsNext ==
    ASSUME Typed, NEW c \in Conns, UpStream(c), Through(c)
    PROVE  /\ Data(c) \in Seq(Nat) /\ Data(c) = Bytes(Len(backendGot[c]), Len(Data(c)))
           /\ Len(backendGot[c]) + Len(Data(c)) = clientSent[c]
           /\ backendGot[c] \o Data(c) = Bytes(0, Len(backendGot[c] \o Data(c)))
           /\ Len(backendGot[c] \o Data(c)) = Len(backendGot[c]) + Len(Data(c))
<1> DEFINE got == backendGot[c]
           kept == ctx[c].buffer
           rest == inbound[c]
           data == Data(c)
<1>0. /\ got \in Seq(Nat) /\ kept \in Seq(Nat) /\ rest \in Seq(Nat)
      /\ Len(got) \in Nat /\ Len(kept) \in Nat /\ Len(rest) \in Nat
      /\ clientSent[c] \in Nat
  <2>1. got \in Seq(Nat) /\ kept \in Seq(Nat) /\ rest \in Seq(Nat) /\ clientSent[c] \in Nat
    BY DEF Typed, Context
  <2> QED
    BY <2>1
<1>1. /\ got = Bytes(0, Len(got)) /\ kept = Bytes(Len(got), Len(kept))
      /\ rest = Bytes(Len(got) + Len(kept), Len(rest))
      /\ Len(got) + Len(kept) + Len(rest) = clientSent[c]
  BY DEF UpStream
<1>2. data = kept \o rest
  BY DEF Data
<1> HIDE DEF got, kept, rest, data
<1>3. /\ data \in Seq(Nat) /\ Len(data) = Len(kept) + Len(rest)
      /\ data = Bytes(Len(got), Len(data))
  BY <1>0, <1>1, <1>2, BytesConcat
<1>4. 0 + Len(got) = Len(got) /\ 0 \in Nat /\ got = Bytes(0, Len(got))
  BY <1>0, <1>1
<1>5. data = Bytes(0 + Len(got), Len(data))
  BY <1>3, <1>4
<1>6. /\ got \o data = Bytes(0, Len(got \o data))
      /\ Len(got \o data) = Len(got) + Len(data)
  BY <1>0, <1>3, <1>4, <1>5, BytesConcat
<1>7. Len(got) + Len(data) = clientSent[c]
  <2>1. \A i, j, k \in Nat : i + (j + k) = i + j + k
    OBVIOUS
  <2> QED
    BY <1>0, <1>1, <1>3, <2>1
<1> QED
  BY <1>3, <1>6, <1>7 DEF got, data

\* While it can, a gateway sends on what a client sent in the order it was sent.
LEMMA UpStreamStep ==
    ASSUME Typed, NEW c \in Conns, Step(c), Dialing(c), UpStream(c)
    PROVE  UpStream(c)'
<1> DEFINE got == backendGot[c]
           kept == ctx[c].buffer
           rest == inbound[c]
<1>1. /\ got \in Seq(Nat) /\ kept \in Seq(Nat) /\ rest \in Seq(Nat)
      /\ Len(got) \in Nat /\ Len(kept) \in Nat /\ Len(rest) \in Nat
      /\ clientSent[c] \in Nat
  <2>1. got \in Seq(Nat) /\ kept \in Seq(Nat) /\ rest \in Seq(Nat) /\ clientSent[c] \in Nat
    BY DEF Typed, Context
  <2> QED
    BY <2>1
<1>2. CASE ClientSend(c)
  <2> DEFINE new == clientSent[c] + 1
  <2>1. /\ UNCHANGED <<backendGot, ctx, client, server>>
        /\ clientSent'[c] = new /\ inbound'[c] = Append(rest, new)
    BY <1>2 DEF ClientSend, Typed
  <2>2. Len(got) <= clientSent'[c]
    BY <1>1, <2>1 DEF UpStream
  <2>3. ASSUME Through(c)
        PROVE  /\ inbound'[c] = Bytes(Len(got) + Len(kept), Len(inbound'[c]))
               /\ Len(got) + Len(kept) + Len(inbound'[c]) = clientSent'[c]
    <3>1. /\ rest = Bytes(Len(got) + Len(kept), Len(rest))
          /\ Len(got) + Len(kept) + Len(rest) = clientSent[c]
      BY <2>3 DEF UpStream
    <3>2. new = Len(got) + Len(kept) + (Len(rest) + 1)
      <4>1. \A i, j, k \in Nat : i + j + k + 1 = i + j + (k + 1)
        OBVIOUS
      <4> HIDE DEF got, kept, rest
      <4> QED
        BY <1>1, <3>1, <4>1
    <3>3. Append(rest, new) = Bytes(Len(got) + Len(kept), Len(rest) + 1)
      <4> HIDE DEF got, kept, rest
      <4>1. Len(got) + Len(kept) \in Nat
        BY <1>1
      <4>2. Append(rest, Len(got) + Len(kept) + (Len(rest) + 1))
               = Bytes(Len(got) + Len(kept), Len(rest) + 1)
        BY <1>1, <3>1, <4>1, BytesAppend
      <4> QED
        BY <3>2, <4>2
    <3>4. Len(Append(rest, new)) = Len(rest) + 1
      BY <1>1
    <3> QED
      BY <2>1, <3>2, <3>3, <3>4
  <2>4. Through(c)' => Through(c)
    BY <2>1 DEF Through
  <2> QED
    BY <2>1, <2>2, <2>3, <2>4 DEF UpStream
<1>3. CASE OnOpen(c)
  <2>1. /\ UNCHANGED <<backendGot, inbound, clientSent>>
        /\ client[c] = "none" /\ ctx[c].backendConn = "nil" /\ kept = <<>>
    BY <1>3 DEF OnOpen, Dialing
  <2>2. Through(c)
    BY <2>1 DEF Through
  <2>3. ctx'[c].buffer = <<>>
    BY <1>3, <2>1, ContextMoves DEF IsContext
  <2> QED
    BY <2>1, <2>2, <2>3 DEF UpStream
<1>4. CASE OnTraffic(c)
  <2> DEFINE data == Data(c)
  <2>1. /\ client[c] = "open" /\ UNCHANGED clientSent
        /\ inbound'[c] = <<>> /\ Len(<<>>) = 0
    BY <1>4 DEF OnTraffic, Typed
  <2>2. /\ \/ backendGot'[c] = got
           \/ backendGot'[c] = got \o data /\ Through(c)
        /\ Through(c)' => Through(c)
        /\ Through(c)' => \/ backendGot'[c] = got \o data /\ ctx'[c].buffer = <<>>
                          \/ backendGot'[c] = got /\ ctx'[c].buffer = data
    BY <1>4, Forwarded
  <2>3. ASSUME Through(c)
        PROVE  /\ data \in Seq(Nat) /\ data = Bytes(Len(got), Len(data))
               /\ Len(got) + Len(data) = clientSent[c]
               /\ got \o data = Bytes(0, Len(got \o data))
               /\ Len(got \o data) = Len(got) + Len(data)
    BY <2>3, DataIsNext
  <2>4. /\ backendGot'[c] = Bytes(0, Len(backendGot'[c]))
        /\ Len(backendGot'[c]) <= clientSent[c]
    <3>1. got = Bytes(0, Len(got)) /\ Len(got) <= clientSent[c]
      BY DEF UpStream
    <3>2. CASE Through(c) /\ backendGot'[c] = got \o data
      <4>1. Len(got \o data) = clientSent[c]
        BY <2>3, <3>2
      <4>2. clientSent[c] <= clientSent[c]
        BY <1>1
      <4>3. got \o data = Bytes(0, Len(got \o data))
        BY <2>3, <3>2
      <4> HIDE DEF got, data
      <4> QED
        BY <3>2, <4>1, <4>2, <4>3
    <3> QED
      BY <2>2, <3>1, <3>2
  <2>5. ASSUME Through(c)'
        PROVE  /\ ctx'[c].buffer = Bytes(Len(backendGot'[c]), Len(ctx'[c].buffer))
               /\ inbound'[c] = Bytes(Len(backendGot'[c]) + Len(ctx'[c].buffer),
                                      Len(inbound'[c]))
               /\ Len(backendGot'[c]) + Len(ctx'[c].buffer) + Len(inbound'[c])
                     = clientSent[c]
    <3>1. /\ data \in Seq(Nat) /\ data = Bytes(Len(got), Len(data))
          /\ Len(got) + Len(data) = clientSent[c] /\ Len(data) \in Nat
          /\ Len(got \o data) = Len(got) + Len(data)
      <4>1. Through(c)
        BY <2>2, <2>5
      <4>2. /\ data \in Seq(Nat) /\ data = Bytes(Len(got), Len(data))
            /\ Len(got) + Len(data) = clientSent[c]
            /\ Len(got \o data) = Len(got) + Len(data)
        BY <2>3, <4>1
      <4> HIDE DEF data, got
      <4> QED
        BY <4>2
    <3> HIDE DEF data, got
    <3>2. CASE backendGot'[c] = got \o data /\ ctx'[c].buffer = <<>>
      <4>1. clientSent[c] + 0 = clientSent[c] /\ clientSent[c] + 0 + 0 = clientSent[c]
        BY <1>1
      <4> QED
        BY <1>1, <2>1, <3>1, <3>2, <4>1, NoBytes
    <3>3. CASE backendGot'[c] = got /\ ctx'[c].buffer = data
      <4>1. clientSent[c] + 0 = clientSent[c]
        BY <1>1
      <4> QED
        BY <1>1, <2>1, <3>1, <3>3, <4>1, NoBytes
    <3> QED
      BY <2>2, <2>5, <3>2, <3>3 DEF got
  <2> QED
    BY <2>1, <2>4, <2>5 DEF UpStream
<1>5. CASE \/ ClientLeave(c) \/ ServerClose(c) \/ RunWrite(c) \/ OnClose(c)
           \/ (\E n \in 1 .. MaxDown : ServerSend(c, n)) \/ ReadFromBackend(c)
  <2>1. UNCHANGED <<backendGot, inbound, clientSent>>
    BY <1>5 DEF ClientLeave, ServerClose, RunWrite, OnClose, ServerSend,
       ReadFromBackend, ReadStart, ReadEnd, AsyncWrite, ReadError
  <2>2. ctx'[c].buffer = kept
    <3>1. CASE OnClose(c)
      BY <3>1, ContextMoves DEF IsContext
    <3> QED
      BY <1>5, <3>1, Leaves
  <2>3. Through(c)' => Through(c)
    <3>1. CASE OnClose(c)
      <4>1. client[c] \in {"closing", "open"} /\ UNCHANGED server
        BY <3>1 DEF OnClose
      <4>2. client'[c] = "closed" \/ UNCHANGED <<client, ctx>>
        BY <3>1 DEF OnClose, Typed
      <4> QED
        BY <4>1, <4>2 DEF Through
    <3>2. CASE \/ ClientLeave(c) \/ RunWrite(c) \/ ServerClose(c)
               \/ (\E n \in 1 .. MaxDown : ServerSend(c, n))
      <4>1. /\ UNCHANGED <<client, ctx>>
            /\ server' = server \/ server[c] = "open"
        BY <3>2 DEF ClientLeave, ServerClose, RunWrite, ServerSend
      <4> QED
        BY <4>1 DEF Through
    <3>3. CASE ReadFromBackend(c)
      <4>1. /\ UNCHANGED <<ctx, server>>
            /\ client'[c] = client[c] \/ client'[c] = "closing"
        BY <3>3 DEF Typed, ReadFromBackend, ReadStart, ReadEnd, AsyncWrite, ReadError
      <4> QED
        BY <4>1 DEF Through
    <3> QED
      BY <1>5, <3>1, <3>2, <3>3
  <2> QED
    BY <2>1, <2>2, <2>3 DEF UpStream
<1> QED
  BY <1>2, <1>3, <1>4, <1>5 DEF Step, EventLoop

\* A write that runs while the goroutine is not filling the buffer hands the
\* client what the buffer begins with.
LEMMA ContentsInBuffer ==
    ASSUME Typed, NEW c \in Conns, writes[c] = <<Due(c)>>, InBuffer(c),
           reader[c].pc # "fill", NEW bytes \in Contents(c)
    PROVE  bytes = Bytes(Len(clientGot[c]), Due(c))
<1>1. bytes = [k \in 1 .. Due(c) |-> reader[c].buffer[k]]
  BY DEF Contents
<1> QED
  BY <1>1 DEF InBuffer, Bytes

\* With a server that waits for its answer to arrive, the buffer is not read into
\* again before the write that refers to it has run.
LEMMA DownStreamStep ==
    ASSUME Sequential, Typed, NEW c \in Conns, Step(c), Dialing(c), Reads(c),
           DownStream(c)
    PROVE  DownStream(c)'
<1> DEFINE got == clientGot[c]
<1>1. /\ got \in Seq(Nat) /\ backendSent[c] \in Nat /\ Len(got) \in Nat
      /\ answers[c] \in Seq(Nat) /\ writes[c] \in Seq(1 .. BufferSize)
      /\ reader[c].incoming \in Seq(Nat)
      /\ reader[c].buffer \in [1 .. BufferSize -> Nat]
      /\ BufferSize \in Nat
  <2>1. reader[c] \in Reader
    BY DEF Typed
  <2>2. got \in Seq(Nat)
    BY DEF Typed
  <2> QED
    BY <2>1, <2>2, GatewayAssumption DEF Typed, Reader
<1>2. got = Bytes(0, Len(got)) /\ Due(c) \in 0 .. BufferSize /\ Due(c) \in Nat
  BY <1>1 DEF DownStream
<1>3. CASE \/ ClientSend(c) \/ ClientLeave(c) \/ ServerClose(c) \/ OnClose(c)
  <2>1. UNCHANGED <<reader, answers, writes, backendSent, clientGot>>
    BY <1>3 DEF ClientSend, ClientLeave, ServerClose, OnClose
  <2> QED
    BY <2>1 DEF DownStream, Due, InBuffer
<1>4. CASE OnOpen(c) \/ OnTraffic(c)
  <2>1. UNCHANGED <<answers, writes, backendSent, clientGot>>
    BY <1>4 DEF OnOpen, OnTraffic
  <2>2. UNCHANGED reader \/ (Dialed(c) /\ ctx[c].backendConn = "nil")
    BY <1>4, ContextMoves DEF OnOpen, Dialing, MustDial
  <2>3. /\ Due(c)' = Due(c) /\ reader'[c].buffer = reader[c].buffer
        /\ \/ reader'[c].pc = reader[c].pc /\ reader'[c].incoming = reader[c].incoming
           \/ reader'[c].pc = "read" /\ reader[c].pc = "none"
    BY <2>1, <2>2, ReaderMoves DEF Due, Dialing, IsReader
  <2> QED
    BY <2>1, <2>3 DEF DownStream, InBuffer
<1>5. ASSUME NEW n \in 1 .. MaxDown, ServerSend(c, n) PROVE DownStream(c)'
  <2> DEFINE new == [k \in 1 .. n |-> backendSent[c] + k]
  <2>1. /\ UNCHANGED <<reader, writes, clientGot>> /\ n \in 0 .. BufferSize
        /\ Len(got) = backendSent[c] /\ backendSent'[c] = backendSent[c] + n
        /\ answers'[c] = answers[c] \o new
    <3>1. /\ answers \in [Conns -> Seq(Nat)] /\ backendSent \in [Conns -> Nat]
          /\ MaxDown \in Nat
      BY GatewayAssumption DEF Typed
    <3>2. /\ UNCHANGED <<reader, writes, clientGot>>
          /\ Sequential => n <= BufferSize /\ Len(got) = backendSent[c]
          /\ backendSent' = [backendSent EXCEPT ![c] = @ + n]
          /\ answers' = [answers EXCEPT ![c] = @ \o new]
      BY <1>5 DEF ServerSend
    <3> HIDE DEF new, got
    <3>3. n \in 0 .. BufferSize /\ Len(got) = backendSent[c]
      BY <1>1, <3>1, <3>2
    <3> QED
      BY <3>1, <3>2, <3>3
  <2>2. Due(c) = 0 /\ Due(c)' = n
    <3>1. /\ Len(clientGot[c]) = backendSent[c] /\ n \in Int /\ backendSent[c] \in Nat
          /\ clientGot'[c] = clientGot[c] /\ backendSent'[c] = backendSent[c] + n
      BY <1>1, <2>1
    <3> QED
      BY <3>1 DEF Due
  <2>3. Bytes(Len(got), 0) = <<>> /\ Len(<<>>) = 0
    BY DEF Bytes
  <2>4. /\ answers[c] = <<>> /\ writes[c] = <<>>
        /\ reader[c].pc \notin {"fill", "write"}
    <3>1. answers[c] = <<>>
      BY <2>2, <2>3 DEF DownStream
    <3>2. ASSUME writes[c] # <<>> PROVE FALSE
      <4>1. writes[c] = <<0>>
        BY <2>2, <3>2 DEF DownStream
      <4>2. writes[c][1] \in 1 .. BufferSize
        BY <1>1, <4>1, ElementOfSeq
      <4> QED
        BY <1>1, <4>1, <4>2
    <3>3. ASSUME reader[c].pc \in {"fill", "write"} PROVE FALSE
      <4>1. Len(reader[c].incoming) = 0
        BY <2>2, <2>3, <3>3 DEF DownStream
      <4>2. Len(reader[c].incoming) \in 1 .. BufferSize
        BY <3>3 DEF Reads
      <4> QED
        BY <1>1, <4>1, <4>2
    <3> QED
      BY <3>1, <3>2, <3>3
  <2>5. answers'[c] = Bytes(Len(got), n)
    <3>1. new = Bytes(Len(got), n) /\ new \in Seq(Nat)
      <4>1. new = Bytes(Len(got), n)
        BY <2>1 DEF Bytes
      <4>2. n \in Nat
        BY <1>1, <2>1
      <4> HIDE DEF got, new
      <4> QED
        BY <1>1, <4>1, <4>2, BytesType
    <3> HIDE DEF new
    <3>2. <<>> \o new = new
      BY <3>1
    <3> QED
      BY <2>1, <2>4, <3>1, <3>2
  <2> QED
    BY <1>2, <2>1, <2>2, <2>4, <2>5 DEF DownStream
<1>6. CASE RunWrite(c)
  <2>1. /\ UNCHANGED <<reader, answers, backendSent>>
        /\ writes[c] # <<>> /\ writes'[c] = Tail(writes[c])
    BY <1>6 DEF RunWrite, Typed
  <2>2. /\ writes[c] = <<Due(c)>> /\ InBuffer(c) /\ answers[c] = <<>>
        /\ reader[c].pc \notin {"fill", "write"}
    BY <2>1 DEF DownStream
  <2>3. writes'[c] = <<>>
    BY <2>1, <2>2
  <2>4. CASE UNCHANGED clientGot
    <3>1. Due(c)' = Due(c)
      BY <2>1, <2>4 DEF Due
    <3> QED
      BY <1>2, <2>1, <2>2, <2>3, <2>4, <3>1 DEF DownStream
  <2>5. ASSUME NEW bytes \in Contents(c),
               clientGot' = [clientGot EXCEPT ![c] = @ \o bytes]
        PROVE  DownStream(c)'
    <3>1. bytes = Bytes(Len(got), Due(c))
      BY <2>2, <2>5, ContentsInBuffer
    <3>2. bytes \in Seq(Nat) /\ Len(bytes) = Due(c)
      <4> HIDE DEF got
      <4> QED
        BY <1>1, <1>2, <3>1, BytesType
    <3>3. clientGot'[c] = got \o bytes
      BY <2>5 DEF Typed
    <3>4. /\ got \o bytes = Bytes(0, Len(got \o bytes))
          /\ Len(got \o bytes) = Len(got) + Len(bytes)
      <4>1. 0 + Len(got) = Len(got) /\ 0 \in Nat
        BY <1>1
      <4>2. bytes = Bytes(0 + Len(got), Len(bytes))
        BY <3>1, <3>2, <4>1
      <4> HIDE DEF got
      <4> QED
        BY <1>1, <1>2, <3>2, <4>1, <4>2, BytesConcat
    <3>5. Due(c)' = 0
      <4>1. Due(c)' = backendSent[c] - (Len(got) + Len(bytes))
        BY <2>1, <3>3, <3>4 DEF Due
      <4> QED
        BY <1>1, <3>2, <4>1 DEF Due
    <3> QED
      BY <1>1, <2>1, <2>2, <2>3, <3>3, <3>4, <3>5 DEF DownStream
  <2> QED
    BY <1>6, <2>4, <2>5 DEF RunWrite
<1>7. ASSUME NEW n \in 1 .. BufferSize, ReadStart(c, n) PROVE DownStream(c)'
  <2>1. /\ UNCHANGED <<writes, backendSent, clientGot>> /\ n = Len(answers[c])
        /\ answers'[c] = SubSeq(answers[c], n + 1, Len(answers[c]))
    BY <1>7 DEF ReadStart, Typed
  <2>2. IsReader(reader'[c], "fill", reader[c].buffer, SubSeq(answers[c], 1, n))
    BY <1>7, ReaderMoves
  <2>3. /\ answers[c] # <<>> /\ SubSeq(answers[c], 1, n) = answers[c]
        /\ SubSeq(answers[c], n + 1, Len(answers[c])) = <<>>
    BY <1>1, <2>1
  <2>4. answers[c] = Bytes(Len(got), Due(c)) /\ writes[c] = <<>>
    BY <2>3 DEF DownStream
  <2>5. Due(c)' = Due(c)
    BY <2>1 DEF Due
  <2>6. reader'[c].pc = "fill" /\ reader'[c].incoming = answers[c]
    BY <2>2, <2>3 DEF IsReader
  <2> QED
    BY <1>2, <2>1, <2>3, <2>4, <2>5, <2>6 DEF DownStream
<1>8. CASE ReadEnd(c)
  <2>1. UNCHANGED <<answers, writes, backendSent, clientGot>> /\ reader[c].pc = "fill"
    BY <1>8 DEF ReadEnd
  <2>2. /\ reader[c].incoming = Bytes(Len(got), Due(c))
        /\ answers[c] = <<>> /\ writes[c] = <<>>
    BY <2>1 DEF DownStream
  <2>3. IsReader(reader'[c], "write", Filled(reader[c]), reader[c].incoming)
    BY <1>8, ReaderMoves
  <2>4. Len(reader[c].incoming) = Due(c)
    <3> HIDE DEF got
    <3> QED
      BY <1>1, <1>2, <2>2, BytesType
  <2>5. Due(c)' = Due(c)
    BY <2>1 DEF Due
  <2>6. ASSUME NEW k \in 1 .. Due(c) PROVE Filled(reader[c])[k] = Len(got) + k
    <3>1. k \in 1 .. BufferSize /\ k \in DOMAIN reader[c].incoming
      BY <1>1, <1>2, <2>4
    <3>2. reader[c].incoming[k] = Len(got) + k
      BY <2>2 DEF Bytes
    <3> QED
      BY <3>1, <3>2 DEF Filled
  <2>7. InBuffer(c)'
    BY <2>1, <2>3, <2>5, <2>6 DEF InBuffer, IsReader
  <2> QED
    BY <1>2, <2>1, <2>2, <2>3, <2>4, <2>5, <2>7 DEF DownStream, IsReader
<1>9. CASE AsyncWrite(c)
  <2>1. /\ UNCHANGED <<answers, backendSent, clientGot>> /\ reader[c].pc = "write"
        /\ \/ UNCHANGED writes
           \/ writes'[c] = Append(writes[c], Len(reader[c].incoming))
    BY <1>9 DEF AsyncWrite, Typed
  <2>2. /\ Len(reader[c].incoming) = Due(c) /\ InBuffer(c)
        /\ answers[c] = <<>> /\ writes[c] = <<>>
    BY <2>1 DEF DownStream
  <2>3. reader'[c].pc \notin {"fill", "write"} /\ reader'[c].buffer = reader[c].buffer
    BY <1>9, ReaderMoves DEF IsReader
  <2>4. writes'[c] = <<>> \/ writes'[c] = <<Due(c)>>
    BY <2>1, <2>2
  <2>5. Due(c)' = Due(c)
    BY <2>1 DEF Due
  <2>6. InBuffer(c)'
    BY <2>1, <2>2, <2>3, <2>5 DEF InBuffer
  <2> QED
    BY <1>2, <2>1, <2>2, <2>3, <2>4, <2>5, <2>6 DEF DownStream
<1>10. CASE ReadError(c)
  <2>1. UNCHANGED <<answers, writes, backendSent, clientGot>> /\ reader[c].pc = "read"
    BY <1>10 DEF ReadError
  <2>2. reader'[c].pc = "done" /\ reader'[c].buffer = reader[c].buffer
    BY <1>10, ReaderMoves DEF IsReader
  <2>3. Due(c)' = Due(c)
    BY <2>1 DEF Due
  <2> QED
    BY <2>1, <2>2, <2>3 DEF DownStream, InBuffer
<1> QED
  BY <1>3, <1>4, <1>5, <1>6, <1>7, <1>8, <1>9, <1>10 DEF Step, EventLoop, ReadFromBackend

-----------------------------------------------------------------------------
(* The theorems.                                                           *)

\* The parts of the invariant rest on each other.
LEMMA GatewayStep == GatewayInv /\ [Next]_vars => GatewayInv'
<1> SUFFICES ASSUME GatewayInv, [Next]_vars PROVE GatewayInv'
  OBVIOUS
<1>1. /\ Typed
      /\ \A c \in Conns : Dialing(c) /\ Reads(c) /\ UpStream(c)
  BY DEF GatewayInv
<1>2. Typed'
  BY <1>1, TypedStep
<1>3. ASSUME NEW c \in Conns, Step(c), NEW d \in Conns
      PROVE  Dialing(d)' /\ Reads(d)' /\ UpStream(d)'
  <2>1. CASE d = c
    BY <1>1, <1>3, <2>1, DialingStep, ReadsStep, UpStreamStep
  <2>2. CASE d # c
    BY <1>1, <1>3, <2>2, OthersSame, SameKeeps
  <2> QED
    BY <2>1, <2>2
<1>4. ASSUME UNCHANGED vars, NEW d \in Conns
      PROVE  Dialing(d)' /\ Reads(d)' /\ UpStream(d)'
  <2>1. Same(d)
    BY <1>4 DEF vars, Same
  <2> QED
    BY <1>1, <2>1, SameKeeps
<1>5. \A d \in Conns : Dialing(d)' /\ Reads(d)' /\ UpStream(d)'
  BY <1>3, <1>4, StepOrRest
<1> QED
  BY <1>2, <1>5 DEF GatewayInv

\* What concerns the way down rests on the rest.
LEMMA SequentialStep ==
    ASSUME Sequential
    PROVE  GatewayInv /\ SequentialInv /\ [Next]_vars => SequentialInv'
<1> SUFFICES ASSUME GatewayInv, SequentialInv, [Next]_vars, NEW d \in Conns
             PROVE  DownStream(d)'
  BY DEF SequentialInv
<1>1. /\ Typed
      /\ \A c \in Conns : Dialing(c) /\ Reads(c) /\ DownStream(c)
  BY DEF GatewayInv, SequentialInv
<1>2. ASSUME NEW c \in Conns, Step(c) PROVE DownStream(d)'
  <2>1. CASE d = c
    BY <1>1, <1>2, <2>1, DownStreamStep
  <2>2. CASE d # c
    BY <1>1, <1>2, <2>2, OthersSame, SameKeeps
  <2> QED
    BY <2>1, <2>2
<1>3. ASSUME UNCHANGED vars PROVE DownStream(d)'
  <2>1. Same(d)
    BY <1>3 DEF vars, Same
  <2> QED
    BY <1>1, <2>1, SameKeeps
<1> QED
  BY <1>2, <1>3, StepOrRest

\* The invariant holds for any number of connections, whatever the server sends.
LEMMA GatewayInvHolds == Spec => []GatewayInv
<1>1. Init => GatewayInv
  BY InitGatewayInv
<1> QED
  BY <1>1, GatewayStep, PTL DEF Spec

\* TypeOK: a gateway that stays connected holds back at most 3 bytes of a client.
THEOREM GatewayTypeCorrect == Spec => []TypeOK
<1>1. ASSUME GatewayInv PROVE TypeOK
  <2>1. Typed /\ \A c \in Conns : Dialing(c)
    BY <1>1 DEF GatewayInv
  <2>2. ASSUME NEW c \in Conns
        PROVE  /\ ctx[c].backendConn \in {"nil", "open", "closed"}
               /\ client[c] = "open" => Len(ctx[c].buffer) < 4
               /\ reader[c].pc \in {"none", "read", "fill", "write", "done"}
    BY <2>1 DEF Typed, Dialing, Context, Reader
  <2>3. ASSUME NEW c \in Conns, NEW k \in DOMAIN writes[c]
        PROVE  writes[c][k] \in 1 .. BufferSize
    <3>1. writes[c] \in Seq(1 .. BufferSize)
      BY <2>1 DEF Typed
    <3>2. k \in 1 .. Len(writes[c])
      BY <3>1
    <3> QED
      BY <3>1, <3>2, ElementOfSeq
  <2> QED
    BY <2>1, <2>2, <2>3 DEF TypeOK, Typed
<1> QED
  BY <1>1, GatewayInvHolds, PTL

\* Appending the next run of bytes to a stream delivers that run.
LEMMA Delivered ==
    ASSUME NEW c \in Conns, NEW got \in Seq(Nat), NEW s \in Seq(Nat),
           s = Bytes(Len(got), Len(s))
    PROVE  /\ Len(got \o s) - Len(got) = Len(s)
           /\ got \o s = got \o Stream(c)!NextBytes(got, Len(got \o s) - Len(got))
<1>1. Len(got \o s) - Len(got) = Len(s)
  OBVIOUS
<1>2. Stream(c)!NextBytes(got, Len(s)) = s
  BY DEF Stream!NextBytes, Bytes
<1> QED
  BY <1>1, <1>2

\* What a step of a connection is to the streams of that connection.
LEMMA StreamStep ==
    ASSUME Sequential, GatewayInv, SequentialInv, NEW c \in Conns, Step(c)
    PROVE  Stream(c)!Next \/ UNCHANGED Stream(c)!vars
<1>1. Typed /\ Dialing(c) /\ UpStream(c) /\ DownStream(c)
  BY DEF GatewayInv, SequentialInv
<1>2. /\ clientSent[c] \in Nat /\ backendSent[c] \in Nat
      /\ clientGot[c] \in Seq(Nat) /\ backendGot[c] \in Seq(Nat)
  BY <1>1 DEF Typed
<1>3. CASE ClientSend(c)
  BY <1>1, <1>2, <1>3 DEF ClientSend, Typed, Stream!Next, Stream!ClientSend
<1>4. ASSUME NEW n \in 1 .. MaxDown, ServerSend(c, n) PROVE Stream(c)!Next
  BY <1>1, <1>2, <1>4, GatewayAssumption
     DEF ServerSend, Typed, Stream!Next, Stream!BackendSend
<1>5. CASE OnTraffic(c)
  <2>1. UNCHANGED <<clientSent, backendSent, clientGot>>
    BY <1>5 DEF OnTraffic
  <2>2. CASE backendGot'[c] = backendGot[c]
    BY <2>1, <2>2 DEF Stream!vars
  <2>3. CASE backendGot'[c] = backendGot[c] \o Data(c) /\ Through(c)
    <3>1. /\ Data(c) \in Seq(Nat) /\ Data(c) = Bytes(Len(backendGot[c]), Len(Data(c)))
          /\ Len(backendGot[c]) + Len(Data(c)) = clientSent[c]
      BY <1>1, <2>3, DataIsNext
    <3>2. Len(Data(c)) <= clientSent[c] - Len(backendGot[c])
      <4>1. Len(Data(c)) \in Nat /\ Len(backendGot[c]) \in Nat
        BY <1>2, <3>1
      <4>2. \A i, j \in Nat : j <= i + j - i
        OBVIOUS
      <4> QED
        BY <3>1, <4>1, <4>2
    <3>3. Stream(c)!DeliverToBackend(Len(backendGot'[c]) - Len(backendGot[c]))
      <4> DEFINE new == backendGot[c] \o Data(c)
      <4>1. /\ Len(new) - Len(backendGot[c]) = Len(Data(c))
            /\ new = backendGot[c] \o Stream(c)!NextBytes(backendGot[c], Len(new) - Len(backendGot[c]))
        BY <1>2, <3>1, Delivered
      <4>2. backendGot'[c] = new
        BY <2>3
      <4> HIDE DEF new
      <4> QED
        BY <2>1, <3>2, <4>1, <4>2 DEF Stream!DeliverToBackend
    <3> QED
      BY <3>3 DEF Stream!Next
  <2> QED
    BY <1>1, <1>5, <2>2, <2>3, Forwarded
<1>6. CASE RunWrite(c)
  <2>1. UNCHANGED <<clientSent, backendSent, backendGot>> /\ writes[c] # <<>>
    BY <1>6 DEF RunWrite
  <2>2. CASE UNCHANGED clientGot
    BY <2>1, <2>2 DEF Stream!vars
  <2>3. ASSUME NEW bytes \in Contents(c),
               clientGot' = [clientGot EXCEPT ![c] = @ \o bytes]
        PROVE  Stream(c)!Next
    <3>1. /\ writes[c] = <<Due(c)>> /\ InBuffer(c) /\ reader[c].pc # "fill"
          /\ Due(c) \in 0 .. BufferSize
      BY <1>1, <2>1 DEF DownStream
    <3>2. bytes = Bytes(Len(clientGot[c]), Due(c))
      BY <1>1, <2>3, <3>1, ContentsInBuffer
    <3>3. Due(c) \in Nat /\ Len(clientGot[c]) \in Nat
      BY <1>2, <3>1, GatewayAssumption
    <3>4. bytes \in Seq(Nat) /\ Len(bytes) = Due(c)
      BY <3>2, <3>3, BytesType
    <3>5. Len(bytes) <= backendSent[c] - Len(clientGot[c])
      BY <1>2, <3>3, <3>4 DEF Due
    <3>6. clientGot'[c] = clientGot[c] \o bytes
      BY <1>1, <2>3 DEF Typed
    <3>7. Stream(c)!DeliverToClient(Len(clientGot'[c]) - Len(clientGot[c]))
      <4> DEFINE new == clientGot[c] \o bytes
      <4>1. /\ Len(new) - Len(clientGot[c]) = Len(bytes)
            /\ new = clientGot[c] \o Stream(c)!NextBytes(clientGot[c], Len(new) - Len(clientGot[c]))
        BY <1>2, <3>2, <3>4, Delivered
      <4>2. clientGot'[c] = new
        BY <3>6
      <4> HIDE DEF new
      <4> QED
        BY <2>1, <3>5, <4>1, <4>2 DEF Stream!DeliverToClient
    <3> QED
      BY <3>7 DEF Stream!Next
  <2> QED
    BY <1>6, <2>2, <2>3 DEF RunWrite
<1>7. CASE ClientLeave(c) \/ ServerClose(c) \/ OnOpen(c) \/ OnClose(c) \/ ReadFromBackend(c)
  <2>1. UNCHANGED <<clientSent, backendGot, backendSent, clientGot>>
    BY <1>7 DEF ClientLeave, ServerClose, OnOpen, OnClose, ReadFromBackend, ReadStart,
       ReadEnd, AsyncWrite, ReadError
  <2> QED
    BY <2>1 DEF Stream!vars
<1> QED
  BY <1>3, <1>4, <1>5, <1>6, <1>7 DEF Step, EventLoop

\* ImplementsDuplexStream: to a server that waits for each answer to arrive before
\* it sends the next, every connection of a gateway is two byte streams.
THEOREM GatewayIsDuplexStream ==
    ASSUME Sequential
    PROVE  Spec => ImplementsDuplexStream
<1>1. Init => \A c \in Conns : Stream(c)!Init
  BY DEF Init, Stream!Init
<1>2. ASSUME GatewayInv, SequentialInv, [Next]_vars
      PROVE  [\A c \in Conns : Stream(c)!Next \/ UNCHANGED Stream(c)!vars]_vars
  <2>1. ASSUME NEW c \in Conns, Step(c), NEW d \in Conns
        PROVE  Stream(d)!Next \/ UNCHANGED Stream(d)!vars
    <3>1. CASE d = c
      BY <1>2, <2>1, <3>1, StreamStep
    <3>2. CASE d # c
      <4>1. Same(d)
        BY <1>2, <2>1, <3>2, OthersSame DEF GatewayInv
      <4> QED
        BY <4>1 DEF Same, Stream!vars
    <3> QED
      BY <3>1, <3>2
  <2> QED
    BY <1>2, <2>1, StepOrRest
<1>3. Init => SequentialInv
  BY InitGatewayInv
<1>4. GatewayInv /\ SequentialInv /\ [Next]_vars => SequentialInv'
  BY SequentialStep
<1> QED
  BY <1>1, <1>2, <1>3, <1>4, GatewayInvHolds, PTL DEF Spec, ImplementsDuplexStream
=============================================================================
