--------------------------- MODULE WSBridgeProofs ---------------------------
(***************************************************************************)
(* The bridge of handleWSUpload keeps what WSBridge states of it: its       *)
(* goroutines never hold more than a message or a buffer, the server's     *)
(* last answers reach the browser before the WebSocket is closed, the      *)
(* browser's last message reaches the server, and each direction is a      *)
(* stream of DuplexStream.                                                 *)
(***************************************************************************)
EXTENDS WSBridge, SequenceTheorems, TLAPS

-----------------------------------------------------------------------------
(* The inductive invariant.                                                *)

\* Bytes from + 1 .. from + n of a stream.
Bytes(from, n) == [k \in 1 .. n |-> from + k]

Message == [binary : BOOLEAN, data : Seq(Nat)]

Failures == {"none", "read", "write"}

\* What TypeOK says, and what the sequences are made of.
Typed ==
    /\ handler \in {"dial", "wait", "returned"}
    /\ up \in [pc : Threads, data : Seq(Nat), failed : Failures]
    /\ down \in [pc : Threads, data : Seq(Nat), failed : Failures]
    /\ ws \in {"open", "closed"} /\ tcp \in {"none", "open", "closed"}
    /\ browser \in {"open", "closed"} /\ backend \in {"open", "closed"}
    /\ frames \in Seq(Message) /\ pending \in Seq(Nat)
    /\ clientSent \in 0 .. MaxUp /\ backendSent \in 0 .. MaxDown
    /\ backendGot \in Seq(Nat) /\ clientGot \in Seq(Nat)

\* A text message has nothing for the server.
Fits(m) == Len(m.data) <= MaxMessage /\ (~m.binary => m.data = <<>>)

\* A goroutine holds one message or one buffer between its read and its write.
Held ==
    /\ \A k \in DOMAIN frames : Fits(frames[k])
    /\ Len(up.data) <= MaxMessage /\ Len(down.data) <= BufferSize
    /\ up.pc # "write" => up.data = <<>>
    /\ down.pc # "write" => down.data = <<>>

\* Where a goroutine is in its code, with the state of the connections that it
\* closes on its way out.
Phases ==
    /\ handler = "dial" => tcp = "none" /\ ws = "open"
    /\ tcp = "none" <=> up.pc = "none"
    /\ tcp = "none" <=> down.pc = "none"
    /\ up.pc \in {"none", "read", "write"} <=> up.failed = "none"
    /\ tcp = "closed" => up.pc \in {"close(done)", "done"}

\* A goroutine that ends says something about the other side: reading fails only
\* of a browser that is gone or a WebSocket that is closed, and the WebSocket of
\* a browser that is there is closed only behind the last answer.
Endings ==
    /\ up.failed = "read" /\ ws = "open" => browser = "closed"
    /\ browser = "open" /\ up.failed # "write" /\ tcp # "none" /\ ws = "closed" =>
           down.pc = "done"
    /\ browser = "open" /\ up.failed # "write" /\ down.pc \in {"closeWS", "done"} =>
           Len(clientGot) = backendSent /\ backend = "closed"

\* What a message of the browser is worth: off gives the bytes sent before it.
InOrder(off) ==
    /\ off[1] = Len(backendGot) + Len(up.data)
    /\ off[Len(frames) + 1] = clientSent
    /\ \A k \in 1 .. Len(frames) :
          /\ frames[k].data = Bytes(off[k], Len(frames[k].data))
          /\ off[k + 1] = off[k] + Len(frames[k].data)

\* The messages that wait carry all that is sent and not yet read.
Queued == \E off \in [1 .. Len(frames) + 1 -> 0 .. clientSent] : InOrder(off)

\* Nothing is lost on the way up while the server is there and the goroutine runs.
UpStream ==
    /\ backendGot = Bytes(0, Len(backendGot)) /\ Len(backendGot) <= clientSent
    /\ backend = "open" /\ up.failed = "none" =>
          /\ up.data = Bytes(Len(backendGot), Len(up.data))
          /\ Queued
    /\ backend = "open" /\ up.failed = "read" /\ ws = "open" =>
          Len(backendGot) = clientSent

\* Nothing is lost on the way down while the browser is there and the goroutine runs.
DownStream ==
    /\ clientGot = Bytes(0, Len(clientGot)) /\ Len(clientGot) <= backendSent
    /\ browser = "open" /\ down.pc \in {"none", "read", "write"} =>
          /\ down.data = Bytes(Len(clientGot), Len(down.data))
          /\ pending = Bytes(Len(clientGot) + Len(down.data), Len(pending))
          /\ Len(clientGot) + Len(down.data) + Len(pending) = backendSent

\* The parts together.
BridgeInv == Typed /\ Held /\ Phases /\ Endings /\ UpStream /\ DownStream

-----------------------------------------------------------------------------
(* Facts about numbered bytes.                                             *)

\* A run of bytes is a sequence of its length, and the empty run is empty.
LEMMA BytesType ==
    ASSUME NEW from \in Nat, NEW n \in Nat
    PROVE  Bytes(from, n) \in Seq(Nat) /\ Len(Bytes(from, n)) = n
  BY DEF Bytes

\* The empty sequence is the empty run.
LEMMA NoBytes == \A from \in Nat : <<>> = Bytes(from, Len(<<>>))
  BY DEF Bytes

\* The two parts of a sequence are made of what the sequence is made of.
LEMMA Remaining ==
    ASSUME NEW S, NEW s \in Seq(S), NEW n \in 0 .. Len(s)
    PROVE  SubSeq(s, 1, n) \in Seq(S) /\ SubSeq(s, n + 1, Len(s)) \in Seq(S)
  OBVIOUS

\* Runs that follow each other make one run.
LEMMA BytesConcat ==
    ASSUME NEW from \in Nat, NEW s \in Seq(Nat), NEW t \in Seq(Nat),
           s = Bytes(from, Len(s)), t = Bytes(from + Len(s), Len(t))
    PROVE  /\ s \o t \in Seq(Nat) /\ Len(s \o t) = Len(s) + Len(t)
           /\ s \o t = Bytes(from, Len(s \o t))
<1>1. s \o t \in Seq(Nat) /\ Len(s \o t) = Len(s) + Len(t)
  OBVIOUS
<1>2. ASSUME NEW k \in 1 .. Len(s \o t) PROVE (s \o t)[k] = from + k
  <2>1. CASE k <= Len(s)
    BY <1>1, <1>2, <2>1 DEF Bytes
  <2>2. CASE k > Len(s)
    <3>1. (s \o t)[k] = t[k - Len(s)] /\ k - Len(s) \in 1 .. Len(t)
      BY <1>1, <1>2, <2>2
    <3> QED
      BY <3>1 DEF Bytes
  <2> QED
    BY <1>1, <1>2, <2>1, <2>2
<1>3. /\ Bytes(from, Len(s \o t)) \in Seq(Nat)
      /\ Len(Bytes(from, Len(s \o t))) = Len(s \o t)
  BY <1>1, BytesType
<1>4. \A k \in 1 .. Len(s \o t) : (s \o t)[k] = Bytes(from, Len(s \o t))[k]
  BY <1>2 DEF Bytes
<1> QED
  BY <1>1, <1>3, <1>4, SeqEqual

\* A run is cut into two that follow each other.
LEMMA BytesCut ==
    ASSUME NEW from \in Nat, NEW s \in Seq(Nat), NEW n \in 0 .. Len(s),
           s = Bytes(from, Len(s))
    PROVE  /\ SubSeq(s, 1, n) \in Seq(Nat) /\ Len(SubSeq(s, 1, n)) = n
           /\ SubSeq(s, 1, n) = Bytes(from, n)
           /\ SubSeq(s, n + 1, Len(s)) \in Seq(Nat)
           /\ Len(SubSeq(s, n + 1, Len(s))) = Len(s) - n
           /\ SubSeq(s, n + 1, Len(s)) = Bytes(from + n, Len(s) - n)
<1>1. /\ SubSeq(s, 1, n) \in Seq(Nat) /\ Len(SubSeq(s, 1, n)) = n
      /\ SubSeq(s, n + 1, Len(s)) \in Seq(Nat)
      /\ Len(SubSeq(s, n + 1, Len(s))) = Len(s) - n
  OBVIOUS
<1>2. \A k \in 1 .. n : SubSeq(s, 1, n)[k] = Bytes(from, n)[k]
  BY DEF Bytes
<1>3. \A k \in 1 .. (Len(s) - n) :
         SubSeq(s, n + 1, Len(s))[k] = Bytes(from + n, Len(s) - n)[k]
  BY DEF Bytes
<1>4. /\ Bytes(from, n) \in Seq(Nat) /\ Len(Bytes(from, n)) = n
      /\ Bytes(from + n, Len(s) - n) \in Seq(Nat)
      /\ Len(Bytes(from + n, Len(s) - n)) = Len(s) - n
  <2>1. from + n \in Nat /\ Len(s) - n \in Nat /\ n \in Nat
    OBVIOUS
  <2> QED
    BY <2>1, BytesType
<1>5. SubSeq(s, 1, n) = Bytes(from, n)
  BY <1>1, <1>2, <1>4, SeqEqual
<1>6. SubSeq(s, n + 1, Len(s)) = Bytes(from + n, Len(s) - n)
  BY <1>1, <1>3, <1>4, SeqEqual
<1> QED
  BY <1>1, <1>5, <1>6

-----------------------------------------------------------------------------
(* The initial state, and types.                                           *)

\* The handler has upgraded the connection and nothing has been sent.
LEMMA InitBridgeInv == Init => BridgeInv
<1> SUFFICES ASSUME Init PROVE BridgeInv
  OBVIOUS
<1>1. Typed
  BY BridgeAssumption DEF Init, Typed, NotStarted, Threads, Failures
<1>2. Held /\ Phases /\ Endings
  BY BridgeAssumption DEF Init, Held, Phases, Endings, NotStarted
<1>3. UpStream
  <2>1. InOrder([k \in 1 .. 1 |-> 0])
    BY DEF Init, InOrder, NotStarted
  <2>2. Queued
    BY <2>1 DEF Init, Queued
  <2> QED
    BY <2>2, NoBytes, BridgeAssumption DEF Init, UpStream, NotStarted
<1>4. DownStream
  BY NoBytes DEF Init, DownStream, NotStarted
<1> QED
  BY <1>1, <1>2, <1>3, <1>4 DEF BridgeInv

\* What a goroutine notes.
Goroutine == [pc : Threads, data : Seq(Nat), failed : Failures]

Notes(g, p, d, f) == g \in Goroutine /\ g.pc = p /\ g.data = d /\ g.failed = f

\* A goroutine that moves on, takes or drops its data, or notes what failed is
\* still a goroutine, and its other fields are what they were.
LEMMA Moves ==
    ASSUME NEW g \in Goroutine, NEW p \in Threads
    PROVE  /\ Notes([g EXCEPT !.pc = p], p, g.data, g.failed)
           /\ \A d \in Seq(Nat) :
                 Notes([g EXCEPT !.pc = p, !.data = d], p, d, g.failed)
           /\ \A f \in Failures :
                 Notes([g EXCEPT !.pc = p, !.failed = f], p, g.data, f)
           /\ \A d \in Seq(Nat), f \in Failures :
                 Notes([g EXCEPT !.pc = p, !.data = d, !.failed = f], p, d, f)
  BY DEF Goroutine, Notes

\* The steps of the WS -> TCP goroutine.
LEMMA UpMoves ==
    ASSUME Typed
    PROVE  /\ Up => UNCHANGED <<handler, down, ws, browser, backend, pending,
                                clientSent, backendSent, clientGot>>
           /\ UpRead => \/ up' = up
                        \/ Notes(up', "write", Head(frames).data, up.failed)
           /\ UpReadError => Notes(up', "closeTCP", up.data, "read")
           /\ UpWrite => Notes(up', "read", <<>>, up.failed)
           /\ UpWriteError => Notes(up', "closeTCP", <<>>, "write")
           /\ UpCloseTCP => Notes(up', "close(done)", up.data, up.failed)
           /\ UpDone => Notes(up', "done", up.data, up.failed)
<1>1. up \in Goroutine /\ <<>> \in Seq(Nat)
  BY DEF Typed, Goroutine
<1>2. {"read", "write", "closeTCP", "close(done)", "done"} \subseteq Threads
  BY DEF Threads
<1>3. {"read", "write"} \subseteq Failures
  BY DEF Failures
<1>4. Up => UNCHANGED <<handler, down, ws, browser, backend, pending, clientSent,
                        backendSent, clientGot>>
  BY DEF Up, UpRead, UpReadError, UpWrite, UpWriteError, UpCloseTCP, UpDone, conns, ends
<1>5. ASSUME UpRead
      PROVE  up' = up \/ Notes(up', "write", Head(frames).data, up.failed)
  <2>1. frames # <<>> /\ frames \in Seq(Message)
    BY <1>5 DEF UpRead, Typed
  <2>2. Head(frames) \in Message
    BY <2>1
  <2>3. Head(frames).data \in Seq(Nat)
    BY <2>2 DEF Message
  <2> QED
    BY <1>1, <1>2, <1>5, <2>3, Moves DEF UpRead
<1>6. UpReadError => Notes(up', "closeTCP", up.data, "read")
  <2>1. "closeTCP" \in Threads /\ "read" \in Failures
    BY <1>2, <1>3
  <2>2. Notes([up EXCEPT !.pc = "closeTCP", !.failed = "read"],
              "closeTCP", up.data, "read")
    BY <1>1, <2>1, Moves
  <2> QED
    BY <2>2 DEF UpReadError
<1>7. UpWrite => Notes(up', "read", <<>>, up.failed)
  BY <1>1, <1>2, Moves DEF UpWrite
<1>8. UpWriteError => Notes(up', "closeTCP", <<>>, "write")
  <2>1. "closeTCP" \in Threads /\ "write" \in Failures
    BY <1>2, <1>3
  <2>2. Notes([up EXCEPT !.pc = "closeTCP", !.data = <<>>, !.failed = "write"],
              "closeTCP", <<>>, "write")
    BY <1>1, <2>1, Moves
  <2> QED
    BY <2>2 DEF UpWriteError
<1>9. UpCloseTCP => Notes(up', "close(done)", up.data, up.failed)
  BY <1>1, <1>2, Moves DEF UpCloseTCP
<1>10. UpDone => Notes(up', "done", up.data, up.failed)
  BY <1>1, <1>2, Moves DEF UpDone
<1> QED
  BY <1>4, <1>5, <1>6, <1>7, <1>8, <1>9, <1>10

\* The steps of the TCP -> WS goroutine.
LEMMA DownMoves ==
    ASSUME Typed
    PROVE  /\ Down => UNCHANGED <<handler, up, tcp, browser, backend, frames,
                                  clientSent, backendSent, backendGot>>
           /\ \A n \in 1 .. BufferSize : DownRead(n) =>
                 Notes(down', "write", SubSeq(pending, 1, n), down.failed)
           /\ DownReadError => Notes(down', "closeWS", down.data, down.failed)
           /\ DownWrite => Notes(down', "read", <<>>, down.failed)
           /\ DownWriteError => Notes(down', "closeWS", <<>>, down.failed)
           /\ DownCloseWS => Notes(down', "done", down.data, down.failed)
<1>1. down \in Goroutine /\ <<>> \in Seq(Nat)
  BY DEF Typed, Goroutine
<1>2. {"read", "write", "closeWS", "done"} \subseteq Threads
  BY DEF Threads
<1>3. Down => UNCHANGED <<handler, up, tcp, browser, backend, frames, clientSent,
                          backendSent, backendGot>>
  BY DEF Down, DownRead, DownReadError, DownWrite, DownWriteError, DownCloseWS, conns, ends
<1>4. ASSUME NEW n \in 1 .. BufferSize, DownRead(n)
      PROVE  Notes(down', "write", SubSeq(pending, 1, n), down.failed)
  <2>1. pending \in Seq(Nat) /\ n \in 0 .. Len(pending)
    BY <1>4, BridgeAssumption DEF DownRead, Typed
  <2>2. SubSeq(pending, 1, n) \in Seq(Nat)
    BY <2>1
  <2> QED
    BY <1>1, <1>2, <1>4, <2>2, Moves DEF DownRead
<1>5. DownReadError => Notes(down', "closeWS", down.data, down.failed)
  BY <1>1, <1>2, Moves DEF DownReadError
<1>6. DownWrite => Notes(down', "read", <<>>, down.failed)
  BY <1>1, <1>2, Moves DEF DownWrite
<1>7. DownWriteError => Notes(down', "closeWS", <<>>, down.failed)
  BY <1>1, <1>2, Moves DEF DownWriteError
<1>8. DownCloseWS => Notes(down', "done", down.data, down.failed)
  BY <1>1, <1>2, Moves DEF DownCloseWS
<1> QED
  BY <1>3, <1>4, <1>5, <1>6, <1>7, <1>8

\* Every step keeps the types of the streams and of the goroutines.
LEMMA TypedStep == ASSUME Typed, [Next]_vars PROVE Typed'
<1> USE DEF Typed, conns, ends
<1>1. ASSUME NEW n \in 1 .. MaxMessage, BrowserSend(n) PROVE Typed'
  <2>1. [binary |-> TRUE, data |-> [k \in 1 .. n |-> clientSent + k]] \in Message
    BY BridgeAssumption DEF Message
  <2> QED
    BY <1>1, <2>1, BridgeAssumption DEF BrowserSend
<1>2. CASE BrowserSendText
  BY <1>2 DEF BrowserSendText, Message
<1>3. CASE BrowserClose \/ BackendClose \/ Return
  BY <1>3 DEF BrowserClose, BackendClose, Return
<1>4. CASE Dial
  <2>1. NotStarted \in Goroutine /\ "read" \in Threads
    BY DEF NotStarted, Goroutine, Threads, Failures
  <2>2. Reading \in Goroutine
    BY <2>1, Moves DEF Reading, Notes
  <2> QED
    BY <1>4, <2>2 DEF Dial, Goroutine
<1>5. CASE BackendSend
  BY <1>5, BridgeAssumption DEF BackendSend
<1>6. CASE Up
  <2>1. up' \in Goroutine
    BY <1>6, UpMoves DEF Up, Notes, Goroutine
  <2>2. frames' = frames \/ (frames # <<>> /\ frames' = Tail(frames))
    BY <1>6 DEF Up, UpRead, UpReadError, UpWrite, UpWriteError, UpCloseTCP, UpDone
  <2>3. backendGot' = backendGot \/ backendGot' = backendGot \o up.data
    BY <1>6 DEF Up, UpRead, UpReadError, UpWrite, UpWriteError, UpCloseTCP, UpDone
  <2>4. tcp' \in {"none", "open", "closed"}
    BY <1>6 DEF Up, UpRead, UpReadError, UpWrite, UpWriteError, UpCloseTCP, UpDone
  <2>5. frames' \in Seq(Message)
    <3>1. frames \in Seq(Message)
      OBVIOUS
    <3>2. frames # <<>> => Tail(frames) \in Seq(Message)
      BY <3>1, HeadTailProperties
    <3> QED
      BY <2>2, <3>1, <3>2
  <2>6. backendGot' \in Seq(Nat)
    <3>1. backendGot \in Seq(Nat) /\ up.data \in Seq(Nat)
      OBVIOUS
    <3>2. backendGot \o up.data \in Seq(Nat)
      BY <3>1, ConcatProperties
    <3> QED
      BY <2>3, <3>1, <3>2
  <2> QED
    BY <1>6, <2>1, <2>4, <2>5, <2>6, UpMoves DEF Goroutine
<1>7. CASE Down
  <2>1. down' \in Goroutine
    BY <1>7, DownMoves DEF Down, Notes
  <2>2. ASSUME NEW n \in 1 .. BufferSize, DownRead(n) PROVE pending' \in Seq(Nat)
    <3>1. /\ pending \in Seq(Nat) /\ n \in 0 .. Len(pending)
          /\ pending' = SubSeq(pending, n + 1, Len(pending))
      BY <2>2, BridgeAssumption DEF DownRead
    <3> QED
      BY <3>1, Remaining
  <2>3. pending' \in Seq(Nat)
    BY <1>7, <2>2 DEF Down, DownReadError, DownWrite, DownWriteError, DownCloseWS
  <2>4. clientGot' = clientGot \/ clientGot' = clientGot \o down.data
    BY <1>7 DEF Down, DownRead, DownReadError, DownWrite, DownWriteError, DownCloseWS
  <2>5. clientGot' \in Seq(Nat)
    <3>1. clientGot \in Seq(Nat) /\ down.data \in Seq(Nat)
      OBVIOUS
    <3>2. clientGot \o down.data \in Seq(Nat)
      BY <3>1, ConcatProperties
    <3> QED
      BY <2>4, <3>1, <3>2
  <2>6. ws' \in {"open", "closed"}
    BY <1>7 DEF Down, DownRead, DownReadError, DownWrite, DownWriteError, DownCloseWS
  <2> QED
    BY <1>7, <2>1, <2>3, <2>5, <2>6, DownMoves DEF Goroutine
<1>8. CASE UNCHANGED vars
  BY <1>8 DEF vars
<1> QED
  BY <1>1, <1>2, <1>3, <1>4, <1>5, <1>6, <1>7, <1>8 DEF Next, Ended

\* Messages are no longer than they may be, and a goroutine that is not
\* between its read and its write holds nothing.
LEMMA HeldStep == ASSUME Typed, Held, [Next]_vars PROVE Held'
<1> USE DEF Held, conns, ends
<1>1. ASSUME NEW n \in 1 .. MaxMessage, BrowserSend(n) PROVE Held'
  <2> DEFINE m == [binary |-> TRUE, data |-> [k \in 1 .. n |-> clientSent + k]]
  <2>1. Fits(m)
    BY <1>1, BridgeAssumption DEF Fits
  <2>2. frames' = Append(frames, m)
    BY <1>1 DEF BrowserSend
  <2>3. m \in Message /\ frames \in Seq(Message)
    BY <1>1, BridgeAssumption DEF Typed, Message
  <2> HIDE DEF m
  <2>4. \A k \in DOMAIN frames' : Fits(frames'[k])
    BY <2>1, <2>2, <2>3
  <2> QED
    BY <1>1, <2>4 DEF BrowserSend
<1>2. CASE BrowserSendText
  <2> DEFINE m == [binary |-> FALSE, data |-> <<>>]
  <2>1. Fits(m)
    BY BridgeAssumption DEF Fits
  <2>2. frames' = Append(frames, m)
    BY <1>2 DEF BrowserSendText
  <2> HIDE DEF m
  <2> QED
    BY <1>2, <2>1, <2>2 DEF BrowserSendText, Typed
<1>3. CASE BrowserClose \/ BackendClose \/ Return \/ BackendSend
  BY <1>3 DEF BrowserClose, BackendClose, Return, BackendSend
<1>4. CASE Dial
  BY <1>4, BridgeAssumption DEF Dial, Reading, NotStarted
<1>5. CASE Up
  <2>1. /\ Len(<<>>) = 0 /\ MaxMessage \in Nat
        /\ frames # <<>> => Len(Head(frames).data) <= MaxMessage
    BY BridgeAssumption DEF Typed, Fits
  <2>2. /\ Len(up'.data) <= MaxMessage
        /\ up'.pc # "write" => up'.data = <<>>
    BY <1>5, <2>1, UpMoves
       DEF Notes, Up, UpRead, UpReadError, UpWrite, UpWriteError, UpCloseTCP, UpDone
  <2>3. \A k \in DOMAIN frames' : Fits(frames'[k])
    <3>1. CASE UpRead
      <4>1. /\ frames \in Seq(Message) /\ frames # <<>> /\ frames' = Tail(frames)
        BY <3>1 DEF UpRead, Typed
      <4>2. \A k \in DOMAIN Tail(frames) : k + 1 \in DOMAIN frames /\ Tail(frames)[k] = frames[k + 1]
        BY <4>1
      <4> QED
        BY <4>1, <4>2
    <3>2. CASE ~UpRead
      BY <1>5, <3>2 DEF Up, UpReadError, UpWrite, UpWriteError, UpCloseTCP, UpDone
    <3> QED
      BY <3>1, <3>2
  <2>4. down' = down
    BY <1>5, UpMoves
  <2> QED
    BY <2>2, <2>3, <2>4 DEF Fits
<1>6. CASE Down
  <2>1. Len(<<>>) = 0 /\ BufferSize \in Nat
    BY BridgeAssumption
  <2>2. \A n \in 1 .. BufferSize : DownRead(n) => Len(SubSeq(pending, 1, n)) <= BufferSize
    BY BridgeAssumption DEF Typed, DownRead
  <2>3. /\ Len(down'.data) <= BufferSize
        /\ down'.pc # "write" => down'.data = <<>>
    BY <1>6, <2>1, <2>2, DownMoves
       DEF Notes, Down, DownReadError, DownWrite, DownWriteError, DownCloseWS
  <2> QED
    BY <1>6, <2>3, DownMoves
<1>7. CASE UNCHANGED vars
  BY <1>7 DEF vars
<1> QED
  BY <1>1, <1>2, <1>3, <1>4, <1>5, <1>6, <1>7 DEF Next, Ended

\* The goroutines start with the connection and close what they say they close.
LEMMA PhasesStep == ASSUME BridgeInv, [Next]_vars PROVE Phases'
<1> USE DEF Phases, Typed, BridgeInv, conns, ends
<1>1. CASE \/ \E n \in 1 .. MaxMessage : BrowserSend(n)
           \/ BrowserSendText \/ BrowserClose \/ BackendClose \/ BackendSend
  BY <1>1 DEF BrowserSend, BrowserSendText, BrowserClose, BackendClose, BackendSend
<1>2. CASE Dial \/ Return
  BY <1>2 DEF Dial, Return, Reading, NotStarted
<1>3. CASE Up
  BY <1>3 DEF Up, UpRead, UpReadError, UpWrite, UpWriteError, UpCloseTCP, UpDone
<1>4. CASE Down
  BY <1>4 DEF Down, DownRead, DownReadError, DownWrite, DownWriteError, DownCloseWS
<1>5. CASE UNCHANGED vars
  BY <1>5 DEF vars
<1> QED
  BY <1>1, <1>2, <1>3, <1>4, <1>5 DEF Next, Ended

\* A goroutine ends, and closes the other side, only for the reasons of Endings.
LEMMA EndingsStep == ASSUME BridgeInv, [Next]_vars PROVE Endings'
<1> USE DEF Endings, conns, ends
<1>1. /\ Typed /\ Phases /\ Endings
      /\ up.failed \in Failures /\ Len(<<>>) = 0
      /\ Len(down.data) = 0 \/ down.pc = "write"
  BY DEF BridgeInv, Held, Typed
<1>2. CASE \/ \E n \in 1 .. MaxMessage : BrowserSend(n)
           \/ BrowserSendText \/ BrowserClose \/ BackendClose \/ BackendSend
  BY <1>1, <1>2 DEF BrowserSend, BrowserSendText, BrowserClose, BackendClose, BackendSend,
       Typed
<1>3. CASE Dial
  BY <1>1, <1>3 DEF Dial, Phases, Reading, NotStarted
<1>4. CASE Return
  BY <1>1, <1>4 DEF Return, Phases, Failures, Typed
<1>5. CASE Up
  <2>1. UNCHANGED <<handler, down, ws, browser, backend, backendSent, clientGot>>
    BY <1>1, <1>5, UpMoves
  <2>2. CASE UpRead \/ UpWrite \/ UpDone
    <3>1. UNCHANGED tcp /\ up'.failed = up.failed
      BY <1>1, <1>5, <2>2, UpMoves DEF UpRead, UpWrite, UpDone, Notes
    <3> QED
      BY <1>1, <2>1, <3>1
  <2>3. CASE UpReadError
    <3>1. UNCHANGED tcp /\ up'.failed = "read" /\ up.failed = "none"
      BY <1>1, <1>5, <2>3, UpMoves DEF UpReadError, UpCloseTCP, Notes, Phases
    <3> QED
      BY <1>1, <2>1, <2>3, <3>1 DEF UpReadError
  <2>4. CASE UpWriteError
    <3>1. up'.failed = "write"
      BY <1>1, <1>5, <2>4, UpMoves DEF UpRead, UpWrite, UpDone, Notes
    <3> QED
      BY <3>1
  <2>5. CASE UpCloseTCP
    <3>1. up'.failed = up.failed /\ tcp # "none"
      BY <1>1, <1>5, <2>5, UpMoves DEF UpReadError, UpCloseTCP, Notes, Phases
    <3> QED
      BY <1>1, <2>1, <3>1
  <2> QED
    BY <1>5, <2>2, <2>3, <2>4, <2>5 DEF Up
<1>6. CASE Down
  <2>1. /\ UNCHANGED <<handler, up, tcp, browser, backend, backendSent>>
        /\ tcp # "none"
    BY <1>1, <1>6, DownMoves
       DEF Phases, Down, DownRead, DownReadError, DownWrite, DownWriteError, DownCloseWS
  <2>2. CASE DownCloseWS
    <3>1. down'.pc = "done" /\ ws' = "closed" /\ clientGot' = clientGot
      BY <1>1, <1>6, <2>2, DownMoves DEF DownCloseWS, Notes
    <3> QED
      BY <1>1, <2>1, <2>2, <3>1 DEF DownCloseWS
  <2>3. CASE ~DownCloseWS
    <3>1. ws' = ws /\ down.pc \in {"read", "write"}
      BY <1>6, <2>3 DEF Down, DownRead, DownReadError, DownWrite, DownWriteError
    <3>2. CASE browser = "closed" \/ up.failed = "write"
      BY <1>1, <2>1, <3>1, <3>2
    <3>3. CASE browser = "open" /\ up.failed # "write"
      <4>1. ws = "open" /\ up.failed = "none" /\ tcp = "open"
        BY <1>1, <2>1, <3>1, <3>3 DEF Phases, Failures, Typed
      <4>2. CASE DownReadError
        <5>1. backend = "closed" /\ pending = <<>> /\ clientGot' = clientGot
              /\ Len(down.data) = 0
          BY <1>1, <2>1, <4>1, <4>2 DEF DownReadError
        <5>2. Len(clientGot) = backendSent
          BY <1>1, <3>1, <3>3, <5>1 DEF BridgeInv, DownStream, Typed
        <5> QED
          BY <1>1, <2>1, <3>1, <3>3, <4>1, <5>1, <5>2
      <4>3. ~DownWriteError
        BY <3>3, <4>1 DEF DownWriteError
      <4>4. CASE (\E n \in 1 .. BufferSize : DownRead(n)) \/ DownWrite
        <5>1. down'.pc \in {"read", "write"}
          BY <1>1, <1>6, <4>4, DownMoves DEF Notes
        <5> QED
          BY <1>1, <2>1, <3>1, <3>3, <4>1, <5>1
      <4> QED
        BY <1>6, <2>3, <4>2, <4>3, <4>4 DEF Down
    <3> QED
      BY <1>1, <3>2, <3>3 DEF Typed
  <2> QED
    BY <2>2, <2>3
<1>7. CASE UNCHANGED vars
  BY <1>1, <1>7 DEF vars
<1> QED
  BY <1>2, <1>3, <1>4, <1>5, <1>6, <1>7 DEF Next, Ended

-----------------------------------------------------------------------------
(* The way up.                                                             *)

\* A message of the next bytes, or of none, joins the queue.
LEMMA QueueGrows ==
    ASSUME Typed, Queued, NEW m \in Message, frames' = Append(frames, m),
           m.data = Bytes(clientSent, Len(m.data)),
           clientSent' = clientSent + Len(m.data), UNCHANGED <<backendGot, up>>
    PROVE  Queued'
<1> DEFINE n == Len(frames)
<1>1. /\ n \in Nat /\ clientSent \in Nat /\ Len(m.data) \in Nat
      /\ Len(frames') = n + 1 /\ frames'[n + 1] = m
      /\ \A k \in 1 .. n : frames'[k] = frames[k]
  BY DEF Typed, Message
<1>2. PICK off \in [1 .. n + 1 -> 0 .. clientSent] : InOrder(off)
  BY DEF Queued
<1> DEFINE off2 == [k \in 1 .. n + 2 |-> IF k <= n + 1 THEN off[k] ELSE clientSent']
<1>3. off2 \in [1 .. n + 2 -> 0 .. clientSent']
  BY <1>1
<1>4. off2[1] = Len(backendGot') + Len(up'.data) /\ off2[n + 2] = clientSent'
  BY <1>1, <1>2 DEF InOrder
<1>5. ASSUME NEW k \in 1 .. n + 1
      PROVE  /\ frames'[k].data = Bytes(off2[k], Len(frames'[k].data))
             /\ off2[k + 1] = off2[k] + Len(frames'[k].data)
  <2>1. CASE k = n + 1
    BY <1>1, <1>2, <2>1 DEF InOrder
  <2>2. CASE k # n + 1
    <3>1. k \in 1 .. n /\ off2[k] = off[k] /\ off2[k + 1] = off[k + 1]
      BY <1>1, <2>2
    <3> QED
      BY <1>1, <1>2, <3>1 DEF InOrder
  <2> QED
    BY <2>1, <2>2
<1> HIDE DEF off2
<1>6. n + 2 = Len(frames') + 1 /\ n + 1 = Len(frames')
  BY <1>1
<1> HIDE DEF n
<1>7. /\ off2 \in [1 .. Len(frames') + 1 -> 0 .. clientSent']
      /\ off2[Len(frames') + 1] = clientSent'
  BY <1>3, <1>4, <1>6
<1>8. \A k \in 1 .. Len(frames') :
          /\ frames'[k].data = Bytes(off2[k], Len(frames'[k].data))
          /\ off2[k + 1] = off2[k] + Len(frames'[k].data)
  BY <1>5, <1>6
<1>9. \E g \in [1 .. Len(frames') + 1 -> 0 .. clientSent'] :
         /\ g[1] = Len(backendGot') + Len(up'.data) /\ g[Len(frames') + 1] = clientSent'
         /\ \A k \in 1 .. Len(frames') :
               /\ frames'[k].data = Bytes(g[k], Len(frames'[k].data))
               /\ g[k + 1] = g[k] + Len(frames'[k].data)
  BY <1>4, <1>7, <1>8
<1> QED
  BY <1>9 DEF Queued, InOrder

\* The first message leaves the queue: it carries the next bytes, and counts
\* from then on as read.
LEMMA QueueShrinks ==
    ASSUME Typed, Queued, frames # <<>>, frames' = Tail(frames),
           UNCHANGED <<clientSent, backendGot>>,
           Len(up'.data) = Len(up.data) + Len(frames[1].data)
    PROVE  /\ Queued'
           /\ frames[1].data = Bytes(Len(backendGot) + Len(up.data), Len(frames[1].data))
<1> DEFINE n == Len(frames)
<1>1. /\ n \in Nat \ {0} /\ clientSent \in Nat /\ Len(frames') = n - 1
      /\ \A k \in 1 .. n - 1 : frames'[k] = frames[k + 1]
      /\ Len(backendGot) \in Nat /\ Len(up.data) \in Nat /\ Len(frames[1].data) \in Nat
  <2>1. frames \in Seq(Message) /\ frames[1] \in Message
    BY DEF Typed
  <2>2. n \in Nat \ {0} /\ Len(frames') = n - 1 /\ \A k \in 1 .. n - 1 : frames'[k] = frames[k + 1]
    BY <2>1
  <2> QED
    BY <2>1, <2>2 DEF Typed, Message
<1>2. PICK off \in [1 .. n + 1 -> 0 .. clientSent] : InOrder(off)
  BY DEF Queued
<1> DEFINE off2 == [k \in 1 .. n |-> off[k + 1]]
<1>3. off2 \in [1 .. n -> 0 .. clientSent']
  BY <1>1
<1>4. /\ off2[1] = Len(backendGot') + Len(up'.data) /\ off2[n] = clientSent'
      /\ frames[1].data = Bytes(Len(backendGot) + Len(up.data), Len(frames[1].data))
  <2>1. /\ off[1] = Len(backendGot) + Len(up.data) /\ off[n + 1] = clientSent
        /\ \A k \in 1 .. n : /\ frames[k].data = Bytes(off[k], Len(frames[k].data))
                             /\ off[k + 1] = off[k] + Len(frames[k].data)
    BY <1>2 DEF InOrder
  <2>2. /\ 1 \in 1 .. n /\ n \in 1 .. n /\ 1 + 1 = 2
        /\ off2[1] = off[2] /\ off2[n] = off[n + 1]
    BY <1>1
  <2>3. /\ frames[1].data = Bytes(off[1], Len(frames[1].data))
        /\ off[2] = off[1] + Len(frames[1].data)
    BY <2>1, <2>2
  <2>4. off2[1] = Len(backendGot') + Len(up'.data)
    <3>1. off[2] = Len(backendGot) + (Len(up.data) + Len(frames[1].data))
      <4>1. \A x, y, z \in Nat : (x + y) + z = x + (y + z)
        OBVIOUS
      <4>2. off[1] = Len(backendGot) + Len(up.data)
        BY <2>1
      <4>3. off[2] = (Len(backendGot) + Len(up.data)) + Len(frames[1].data)
        BY <2>3, <4>2
      <4>4. /\ Len(backendGot) \in Nat /\ Len(up.data) \in Nat
            /\ Len(frames[1].data) \in Nat
        BY <1>1
      <4> QED
        BY <4>1, <4>3, <4>4
    <3> QED
      BY <2>2, <3>1
  <2>5. frames[1].data = Bytes(Len(backendGot) + Len(up.data), Len(frames[1].data))
    BY <2>1, <2>3
  <2> QED
    BY <2>1, <2>2, <2>4, <2>5
<1>5. ASSUME NEW k \in 1 .. n - 1
      PROVE  /\ frames'[k].data = Bytes(off2[k], Len(frames'[k].data))
             /\ off2[k + 1] = off2[k] + Len(frames'[k].data)
  <2>1. /\ k + 1 \in 1 .. n /\ off2[k] = off[k + 1] /\ off2[k + 1] = off[k + 2]
        /\ frames'[k] = frames[k + 1] /\ (k + 1) + 1 = k + 2
    BY <1>1
  <2> QED
    BY <1>2, <2>1 DEF InOrder
<1> HIDE DEF off2
<1>6. n = Len(frames') + 1 /\ n - 1 = Len(frames')
  BY <1>1
<1>7. \E g \in [1 .. Len(frames') + 1 -> 0 .. clientSent'] :
         /\ g[1] = Len(backendGot') + Len(up'.data) /\ g[Len(frames') + 1] = clientSent'
         /\ \A k \in 1 .. Len(frames') :
               /\ frames'[k].data = Bytes(g[k], Len(frames'[k].data))
               /\ g[k + 1] = g[k] + Len(frames'[k].data)
  <2>1. off2 \in [1 .. Len(frames') + 1 -> 0 .. clientSent']
    BY <1>3, <1>6
  <2>2. /\ off2[1] = Len(backendGot') + Len(up'.data)
        /\ off2[Len(frames') + 1] = clientSent'
    BY <1>4, <1>6
  <2>3. \A k \in 1 .. Len(frames') :
           /\ frames'[k].data = Bytes(off2[k], Len(frames'[k].data))
           /\ off2[k + 1] = off2[k] + Len(frames'[k].data)
    BY <1>5, <1>6
  <2> QED
    BY <2>1, <2>2, <2>3
<1> QED
  BY <1>4, <1>7 DEF Queued, InOrder

\* A queue that nobody touches stays good as long as what was taken from it adds up.
LEMMA QueueStays ==
    ASSUME Queued, UNCHANGED <<frames, clientSent>>,
           Len(backendGot') + Len(up'.data) = Len(backendGot) + Len(up.data)
    PROVE  Queued'
  BY DEF Queued, InOrder

\* What has been read has been sent; when no message waits, it is all that was sent.
LEMMA QueueCounts ==
    ASSUME Typed, Queued
    PROVE  /\ Len(backendGot) + Len(up.data) <= clientSent
           /\ frames = <<>> => Len(backendGot) + Len(up.data) = clientSent
<1>1. PICK off \in [1 .. Len(frames) + 1 -> 0 .. clientSent] : InOrder(off)
  BY DEF Queued
<1>2. Len(frames) \in Nat /\ (frames = <<>> => Len(frames) = 0) /\ clientSent \in Nat
  BY DEF Typed
<1>3. off[1] \in 0 .. clientSent
  BY <1>1, <1>2
<1> QED
  BY <1>1, <1>2, <1>3 DEF InOrder

\* No step adds to, drops or reorders what is on the way up.
LEMMA UpStreamStep == ASSUME BridgeInv, [Next]_vars PROVE UpStream'
<1> USE DEF UpStream, conns, ends
<1>1. /\ Typed /\ Held /\ Phases /\ Endings /\ UpStream
      /\ clientSent \in Nat /\ backendGot \in Seq(Nat) /\ up.data \in Seq(Nat)
      /\ Len(backendGot) \in Nat
  BY DEF BridgeInv, Typed
<1>2. ASSUME NEW n \in 1 .. MaxMessage, BrowserSend(n) PROVE UpStream'
  <2> DEFINE m == [binary |-> TRUE, data |-> Bytes(clientSent, n)]
  <2>1. n \in Nat /\ frames' = Append(frames, m) /\ clientSent' = clientSent + n
    BY <1>2, BridgeAssumption DEF BrowserSend, Bytes
  <2>2. /\ UNCHANGED <<backendGot, up, backend, ws>>
        /\ ~(up.failed = "read" /\ ws = "open")
    BY <1>1, <1>2 DEF BrowserSend, Endings
  <2>3. m \in Message /\ m.data = Bytes(clientSent, Len(m.data)) /\ n = Len(m.data)
    BY <1>1, <2>1, BytesType DEF Message
  <2> HIDE DEF m
  <2>4. Queued => Queued'
    BY <1>1, <2>1, <2>2, <2>3, QueueGrows
  <2> QED
    BY <1>1, <2>1, <2>2, <2>4
<1>3. CASE BrowserSendText
  <2> DEFINE m == [binary |-> FALSE, data |-> <<>>]
  <2>1. /\ frames' = Append(frames, m) /\ UNCHANGED <<backendGot, up, backend, ws>>
        /\ clientSent' = clientSent /\ ~(up.failed = "read" /\ ws = "open")
    BY <1>1, <1>3 DEF BrowserSendText, Endings
  <2>2. m \in Message /\ m.data = Bytes(clientSent, Len(m.data)) /\ Len(m.data) = 0
    BY <1>1, NoBytes DEF Message
  <2> HIDE DEF m
  <2>3. clientSent' = clientSent + Len(m.data)
    BY <1>1, <2>1, <2>2
  <2>4. Queued => Queued'
    BY <1>1, <2>1, <2>2, <2>3, QueueGrows
  <2> QED
    BY <1>1, <2>1, <2>4
<1>4. CASE BrowserClose \/ BackendClose \/ Return \/ BackendSend \/ Down \/ UNCHANGED vars
  <2>1. /\ UNCHANGED <<up, frames, clientSent, backendGot>>
        /\ backend' \in {backend, "closed"} /\ ws' \in {ws, "closed"}
    BY <1>4 DEF BrowserClose, BackendClose, Return, BackendSend, Down, DownRead,
         DownReadError, DownWrite, DownWriteError, DownCloseWS, vars
  <2>2. Queued => Queued'
    BY <2>1, QueueStays
  <2> QED
    BY <1>1, <2>1, <2>2
<1>5. CASE Dial
  <2>1. /\ UNCHANGED <<frames, clientSent, backendGot, backend>>
        /\ up' = up \/ up' = Reading
        /\ ws' = ws \/ (ws' = "closed" /\ up' = up)
    BY <1>5 DEF Dial
  <2>2. up.pc = "none" /\ up.failed = "none" /\ up.data = <<>>
    BY <1>1, <1>5 DEF Dial, Phases, Held
  <2>3. up'.failed = "none" /\ up'.data = <<>>
    BY <2>1, <2>2 DEF Reading, NotStarted
  <2>4. Queued => Queued'
    BY <2>1, <2>2, <2>3, QueueStays
  <2> QED
    BY <1>1, <2>1, <2>2, <2>3, <2>4
<1>6. CASE UpRead
  <2>1. /\ UNCHANGED <<clientSent, backendGot, backend, ws>>
        /\ frames # <<>> /\ frames' = Tail(frames) /\ Head(frames) = frames[1]
        /\ up.failed = "none" /\ up.data = <<>> /\ Len(<<>>) = 0
    BY <1>1, <1>6 DEF UpRead, Phases, Held
  <2>2. up'.data = frames[1].data /\ up'.failed = "none"
    <3>1. CASE frames[1].binary
      BY <1>1, <1>6, <2>1, <3>1 DEF UpRead, Typed
    <3>2. CASE ~frames[1].binary
      <4>1. 1 \in DOMAIN frames
        BY <1>1, <2>1 DEF Typed
      <4> QED
        BY <1>1, <1>6, <2>1, <3>2, <4>1 DEF UpRead, Held, Fits
    <3> QED
      BY <3>1, <3>2
  <2>3. 0 + Len(frames[1].data) = Len(frames[1].data) /\ Len(backendGot) + 0 = Len(backendGot)
    <3>1. frames[1] \in Message
      BY <1>1, <2>1 DEF Typed
    <3> QED
      BY <1>1, <3>1 DEF Message
  <2>4. Queued => Queued' /\ up'.data = Bytes(Len(backendGot), Len(up'.data))
    BY <1>1, <2>1, <2>2, <2>3, QueueShrinks
  <2> QED
    BY <1>1, <2>1, <2>2, <2>4
<1>7. CASE UpReadError
  <2>1. /\ UNCHANGED <<frames, clientSent, backendGot, backend, ws>>
        /\ up.failed = "none" /\ up.data = <<>> /\ Len(<<>>) = 0
        /\ up'.failed = "read"
    BY <1>1, <1>7, UpMoves DEF UpReadError, Phases, Held, Notes
  <2>2. backend = "open" /\ ws = "open" => frames = <<>> /\ Queued
    BY <1>1, <1>7, <2>1 DEF UpReadError
  <2> QED
    BY <1>1, <2>1, <2>2, QueueCounts
<1>8. CASE UpWrite
  <2>1. /\ UNCHANGED <<frames, clientSent, backend, ws>>
        /\ up.failed = "none" /\ up'.data = <<>> /\ Len(<<>>) = 0
        /\ up'.failed = "none"
        /\ backendGot' = IF backend = "open" THEN backendGot \o up.data ELSE backendGot
    BY <1>1, <1>8, UpMoves DEF UpWrite, Phases, Notes
  <2>2. CASE backend # "open"
    BY <1>1, <2>1, <2>2
  <2>3. CASE backend = "open"
    <3>1. /\ backendGot = Bytes(0, Len(backendGot)) /\ Queued
          /\ up.data = Bytes(0 + Len(backendGot), Len(up.data))
      BY <1>1, <2>1, <2>3
    <3>2. /\ Len(backendGot') = Len(backendGot) + Len(up.data)
          /\ backendGot' = Bytes(0, Len(backendGot'))
      <4>1. /\ Len(backendGot \o up.data) = Len(backendGot) + Len(up.data)
            /\ backendGot \o up.data = Bytes(0, Len(backendGot \o up.data))
        BY <1>1, <3>1, BytesConcat, 0 \in Nat
      <4> QED
        BY <2>1, <2>3, <4>1
    <3>3. Len(backendGot') <= clientSent'
      BY <1>1, <2>1, <3>1, <3>2, QueueCounts
    <3>4. Queued'
      BY <1>1, <2>1, <3>1, <3>2, QueueStays
    <3>5. up'.data = Bytes(Len(backendGot'), Len(up'.data))
      BY <1>1, <2>1, <3>2, NoBytes
    <3> QED
      BY <2>1, <3>2, <3>3, <3>4, <3>5
  <2> QED
    BY <2>2, <2>3
<1>9. CASE UpWriteError
  <2>1. UNCHANGED <<clientSent, backendGot>> /\ up'.failed = "write"
    BY <1>1, <1>9, UpMoves DEF UpWriteError, Notes
  <2> QED
    BY <1>1, <2>1
<1>10. CASE UpCloseTCP \/ UpDone
  <2>1. /\ UNCHANGED <<frames, clientSent, backendGot, backend, ws>>
        /\ up.failed # "none" /\ up'.failed = up.failed
    BY <1>1, <1>10, UpMoves DEF UpCloseTCP, UpDone, Phases, Notes
  <2> QED
    BY <1>1, <2>1
<1> QED
  BY <1>2, <1>3, <1>4, <1>5, <1>6, <1>7, <1>8, <1>9, <1>10 DEF Next, Ended, Up

-----------------------------------------------------------------------------
(* The way down.                                                           *)

\* No step adds to, drops or reorders what is on the way down.
LEMMA DownStreamStep == ASSUME BridgeInv, [Next]_vars PROVE DownStream'
<1> USE DEF DownStream, conns, ends
<1> DEFINE Flows == browser = "open" /\ down.pc \in {"none", "read", "write"}
<1>1. /\ Typed /\ Held /\ Phases /\ DownStream
      /\ backendSent \in Nat /\ clientGot \in Seq(Nat) /\ down.data \in Seq(Nat)
      /\ pending \in Seq(Nat) /\ Len(clientGot) \in Nat /\ Len(down.data) \in Nat
      /\ Len(pending) \in Nat
  BY DEF BridgeInv, Typed
<1>2. CASE BackendSend
  <2>1. /\ backendSent' = backendSent + 1 /\ pending' = Append(pending, backendSent + 1)
        /\ UNCHANGED <<clientGot, down, browser>>
    BY <1>2 DEF BackendSend
  <2>2. CASE ~Flows
    <3>1. Len(clientGot) <= backendSent + 1 /\ clientGot = Bytes(0, Len(clientGot))
      BY <1>1
    <3> QED
      BY <2>1, <2>2, <3>1
  <2>3. CASE Flows
    <3> DEFINE from == Len(clientGot) + Len(down.data)
    <3>1. /\ pending = Bytes(from, Len(pending)) /\ from + Len(pending) = backendSent
          /\ from \in Nat
      BY <1>1, <2>3
    <3>2. <<backendSent + 1>> \in Seq(Nat) /\ Len(<<backendSent + 1>>) = 1
      BY <1>1
    <3>3. <<backendSent + 1>> = Bytes(from + Len(pending), Len(<<backendSent + 1>>))
      BY <3>1, <3>2 DEF Bytes
    <3>4. pending' = pending \o <<backendSent + 1>>
      BY <1>1, <2>1
    <3> DEFINE last == <<backendSent + 1>>
    <3> HIDE DEF from, last
    <3>5. /\ Len(pending') = Len(pending) + 1
          /\ pending' = Bytes(from, Len(pending'))
      <4>1. /\ pending \in Seq(Nat) /\ last \in Seq(Nat) /\ from \in Nat
            /\ pending = Bytes(from, Len(pending))
            /\ last = Bytes(from + Len(pending), Len(last))
        BY <1>1, <3>1, <3>2, <3>3 DEF last
      <4>2. /\ Len(pending \o last) = Len(pending) + Len(last)
            /\ pending \o last = Bytes(from, Len(pending \o last))
        BY <4>1, BytesConcat
      <4> QED
        BY <3>2, <3>4, <4>2 DEF last
    <3>6. from + Len(pending') = backendSent'
      BY <1>1, <2>1, <3>1, <3>5
    <3> QED
      <4>1. Len(clientGot) <= backendSent + 1 /\ clientGot = Bytes(0, Len(clientGot))
        BY <1>1
      <4>2. down.data = Bytes(Len(clientGot), Len(down.data))
        BY <1>1, <2>3
      <4> QED
        BY <2>1, <3>5, <3>6, <4>1, <4>2 DEF from
  <2> QED
    BY <2>2, <2>3
<1>3. CASE \/ \E n \in 1 .. MaxMessage : BrowserSend(n)
           \/ BrowserSendText \/ BrowserClose \/ BackendClose \/ Return \/ Up
           \/ UNCHANGED vars
  <2>1. /\ UNCHANGED <<backendSent, pending, clientGot, down>>
        /\ browser' \in {browser, "closed"}
    BY <1>3 DEF BrowserSend, BrowserSendText, BrowserClose, BackendClose, Return, Up,
         UpRead, UpReadError, UpWrite, UpWriteError, UpCloseTCP, UpDone, vars
  <2> QED
    BY <1>1, <2>1
<1>4. CASE Dial
  <2>1. /\ UNCHANGED <<backendSent, pending, clientGot, browser>>
        /\ down' = down \/ down' = Reading
    BY <1>4 DEF Dial
  <2>2. down.pc = "none" /\ down.data = <<>>
    BY <1>1, <1>4 DEF Dial, Phases, Held
  <2>3. down'.data = <<>> /\ down'.pc \in {"none", "read"}
    BY <2>1, <2>2 DEF Reading, NotStarted
  <2> QED
    BY <1>1, <2>1, <2>2, <2>3
<1>5. ASSUME NEW n \in 1 .. BufferSize, DownRead(n) PROVE DownStream'
  <2>1. /\ UNCHANGED <<backendSent, clientGot, browser>>
        /\ down.pc = "read" /\ down.data = <<>> /\ Len(<<>>) = 0
        /\ pending' = SubSeq(pending, n + 1, Len(pending))
        /\ down'.pc = "write" /\ down'.data = SubSeq(pending, 1, n)
        /\ n \in 0 .. Len(pending)
    <3>1. down'.pc = "write" /\ down'.data = SubSeq(pending, 1, n)
      BY <1>1, <1>5, DownMoves DEF Notes
    <3>2. n \in 0 .. Len(pending)
      BY <1>1, <1>5, BridgeAssumption DEF DownRead
    <3> QED
      BY <1>1, <1>5, <3>1, <3>2 DEF DownRead, Held
  <2>2. CASE browser # "open"
    BY <1>1, <2>1, <2>2
  <2>3. CASE browser = "open"
    <3>1. /\ pending = Bytes(Len(clientGot), Len(pending))
          /\ Len(clientGot) + Len(pending) = backendSent
      BY <1>1, <2>1, <2>3
    <3>2. /\ Len(down'.data) = n /\ down'.data = Bytes(Len(clientGot), n)
          /\ Len(pending') = Len(pending) - n
          /\ pending' = Bytes(Len(clientGot) + n, Len(pending) - n)
      <4> DEFINE m == Len(clientGot)
      <4>1. /\ m \in Nat /\ pending = Bytes(m, Len(pending))
            /\ pending \in Seq(Nat) /\ n \in 0 .. Len(pending)
        BY <1>1, <2>1, <3>1
      <4> HIDE DEF m
      <4>2. /\ Len(SubSeq(pending, 1, n)) = n /\ SubSeq(pending, 1, n) = Bytes(m, n)
            /\ Len(SubSeq(pending, n + 1, Len(pending))) = Len(pending) - n
            /\ SubSeq(pending, n + 1, Len(pending)) = Bytes(m + n, Len(pending) - n)
        BY <4>1, BytesCut
      <4> QED
        BY <2>1, <4>2 DEF m
    <3>3. Len(clientGot) + n + (Len(pending) - n) = backendSent
      <4>1. \A x, y \in Nat : \A z \in 0 .. y : x + z + (y - z) = x + y
        OBVIOUS
      <4> QED
        BY <1>1, <2>1, <3>1, <4>1
    <3>4. clientGot = Bytes(0, Len(clientGot)) /\ Len(clientGot) <= backendSent
      BY <1>1
    <3> QED
      BY <2>1, <3>2, <3>3, <3>4
  <2> QED
    BY <2>2, <2>3
<1>6. CASE DownWrite
  <2>1. /\ UNCHANGED <<backendSent, pending, browser>>
        /\ down.pc = "write" /\ down'.pc = "read" /\ down'.data = <<>> /\ Len(<<>>) = 0
        /\ clientGot' = IF browser = "open" THEN clientGot \o down.data ELSE clientGot
    BY <1>1, <1>6, DownMoves DEF DownWrite, Notes
  <2>2. CASE browser # "open"
    BY <1>1, <2>1, <2>2
  <2>3. CASE browser = "open"
    <3>1. /\ clientGot = Bytes(0, Len(clientGot))
          /\ down.data = Bytes(Len(clientGot), Len(down.data))
          /\ pending = Bytes(Len(clientGot) + Len(down.data), Len(pending))
          /\ Len(clientGot) + Len(down.data) + Len(pending) = backendSent
      BY <1>1, <2>1, <2>3
    <3>2. /\ Len(clientGot \o down.data) = Len(clientGot) + Len(down.data)
          /\ clientGot \o down.data = Bytes(0, Len(clientGot \o down.data))
      <4>1. 0 + Len(clientGot) = Len(clientGot) /\ 0 \in Nat
        BY <1>1
      <4>2. down.data = Bytes(0 + Len(clientGot), Len(down.data))
        BY <3>1, <4>1
      <4> QED
        BY <1>1, <3>1, <4>1, <4>2, BytesConcat
    <3>3. /\ clientGot' = Bytes(0, Len(clientGot'))
          /\ Len(clientGot') = Len(clientGot) + Len(down.data)
      BY <2>1, <2>3, <3>2
    <3>4. Len(clientGot') \in Nat /\ Len(clientGot') + Len(pending) = backendSent
      BY <1>1, <3>1, <3>3
    <3>5. /\ down'.data = Bytes(Len(clientGot'), Len(down'.data))
          /\ Len(clientGot') + Len(down'.data) = Len(clientGot')
      BY <2>1, <3>4, NoBytes
    <3>6. Len(clientGot') <= backendSent
      BY <1>1, <3>4
    <3>7. pending' = Bytes(Len(clientGot') + Len(down'.data), Len(pending'))
      BY <2>1, <3>1, <3>3, <3>5
    <3>8. Len(clientGot') + Len(down'.data) + Len(pending') = backendSent'
      BY <2>1, <3>4, <3>5
    <3> QED
      BY <2>1, <3>3, <3>5, <3>6, <3>7, <3>8
  <2> QED
    BY <2>2, <2>3
<1>7. CASE DownReadError \/ DownWriteError \/ DownCloseWS
  <2>1. /\ UNCHANGED <<backendSent, pending, clientGot, browser>>
        /\ down'.pc \in {"closeWS", "done"}
    BY <1>1, <1>7, DownMoves DEF DownReadError, DownWriteError, DownCloseWS, Notes
  <2> QED
    BY <1>1, <2>1
<1> QED
  BY <1>2, <1>3, <1>4, <1>5, <1>6, <1>7 DEF Next, Ended, Down

-----------------------------------------------------------------------------
(* The theorems.                                                           *)

\* The parts of the invariant rest on each other.
LEMMA BridgeStep == BridgeInv /\ [Next]_vars => BridgeInv'
<1> SUFFICES ASSUME BridgeInv, [Next]_vars PROVE BridgeInv'
  OBVIOUS
<1>1. Typed /\ Held
  BY DEF BridgeInv
<1> QED
  BY <1>1, TypedStep, HeldStep, PhasesStep, EndingsStep, UpStreamStep, DownStreamStep
     DEF BridgeInv

\* The invariant holds however the browser, the server and the gateway interleave.
LEMMA BridgeInvHolds == Spec => []BridgeInv
  BY InitBridgeInv, BridgeStep, PTL DEF Spec

\* TypeOK: the goroutines stay within their code, and what one of them holds is
\* one message or fits in the buffer.
THEOREM BridgeTypeCorrect == Spec => []TypeOK
<1>1. BridgeInv => TypeOK
  BY DEF BridgeInv, Typed, Held, TypeOK
<1> QED
  BY <1>1, BridgeInvHolds, PTL

\* AnswersBeforeClose: the WebSocket of a browser that is still there is closed
\* only behind everything the server sent, unless a message to the server was refused.
THEOREM LastAnswersArrive == Spec => []AnswersBeforeClose
<1>1. BridgeInv => AnswersBeforeClose
  BY DEF BridgeInv, Endings, AnswersBeforeClose
<1> QED
  BY <1>1, BridgeInvHolds, PTL

\* LastMessageForwarded: a browser that sends its last message and leaves has it
\* forwarded before the connection to the server is closed.
THEOREM LastMessagesArrive == Spec => []LastMessageForwarded
<1>1. BridgeInv => LastMessageForwarded
  BY DEF BridgeInv, UpStream, LastMessageForwarded
<1> QED
  BY <1>1, BridgeInvHolds, PTL

\* Appending the next run of bytes to a stream delivers that run.
LEMMA Delivered ==
    ASSUME NEW got \in Seq(Nat), NEW s \in Seq(Nat), s = Bytes(Len(got), Len(s))
    PROVE  /\ Len(got \o s) - Len(got) = Len(s)
           /\ got \o s = got \o Stream!NextBytes(got, Len(got \o s) - Len(got))
<1>1. Len(got \o s) - Len(got) = Len(s)
  OBVIOUS
<1>2. Stream!NextBytes(got, Len(s)) = s
  BY DEF Stream!NextBytes, Bytes
<1> QED
  BY <1>1, <1>2

\* ImplementsDuplexStream: both directions of the bridge are byte streams, up to
\* the moment they break, for messages and buffers of any size.
THEOREM BridgeIsDuplexStream == Spec => ImplementsDuplexStream
<1>1. Init => Stream!Init
  BY DEF Init, Stream!Init
<1>2. ASSUME BridgeInv, [Next]_vars PROVE [Stream!Next]_(Stream!vars)
  <2>1. /\ Typed /\ Held /\ Phases /\ UpStream /\ DownStream
        /\ clientSent \in Nat /\ backendSent \in Nat
        /\ clientGot \in Seq(Nat) /\ backendGot \in Seq(Nat)
        /\ down.data \in Seq(Nat) /\ up.data \in Seq(Nat)
    BY <1>2 DEF BridgeInv, Typed
  <2>2. ASSUME NEW n \in 1 .. MaxMessage, BrowserSend(n)
        PROVE  Stream!ClientSend(clientSent' - clientSent)
    BY <2>1, <2>2, BridgeAssumption DEF BrowserSend, Stream!ClientSend
  <2>3. BackendSend => Stream!BackendSend(backendSent' - backendSent)
    BY <2>1 DEF BackendSend, Stream!BackendSend
  <2>4. ASSUME UpWrite
        PROVE  [Stream!DeliverToBackend(Len(backendGot') - Len(backendGot))]_(Stream!vars)
    <3>1. UNCHANGED <<clientSent, backendSent, clientGot>>
      BY <2>4 DEF UpWrite
    <3>2. CASE backend # "open"
      BY <2>4, <3>1, <3>2 DEF UpWrite, Stream!vars
    <3>3. CASE backend = "open"
      <4>1. up.data = Bytes(Len(backendGot), Len(up.data)) /\ Queued
        BY <2>1, <2>4, <3>3 DEF UpWrite, Phases, UpStream
      <4>2. backendGot' = backendGot \o up.data
        BY <2>4, <3>3 DEF UpWrite
      <4>3. Len(up.data) <= clientSent - Len(backendGot)
        BY <2>1, <4>1, QueueCounts
      <4> QED
        BY <2>1, <3>1, <4>1, <4>2, <4>3, Delivered DEF Stream!DeliverToBackend
    <3> QED
      BY <3>2, <3>3
  <2>5. ASSUME DownWrite
        PROVE  [Stream!DeliverToClient(Len(clientGot') - Len(clientGot))]_(Stream!vars)
    <3>1. UNCHANGED <<clientSent, backendSent, backendGot>>
      BY <2>5 DEF DownWrite
    <3>2. CASE browser # "open"
      BY <2>5, <3>1, <3>2 DEF DownWrite, Stream!vars
    <3>3. CASE browser = "open"
      <4>1. /\ down.data = Bytes(Len(clientGot), Len(down.data))
            /\ Len(clientGot) + Len(down.data) + Len(pending) = backendSent
        BY <2>1, <2>5, <3>3 DEF DownWrite, DownStream
      <4>2. clientGot' = clientGot \o down.data
        BY <2>5, <3>3 DEF DownWrite
      <4>3. Len(down.data) <= backendSent - Len(clientGot)
        BY <2>1, <4>1 DEF Typed
      <4> QED
        BY <2>1, <3>1, <4>1, <4>2, <4>3, Delivered DEF Stream!DeliverToClient
    <3> QED
      BY <3>2, <3>3
  <2>6. CASE \/ BrowserSendText \/ BrowserClose \/ BackendClose \/ Dial \/ Return
             \/ UpRead \/ UpReadError \/ UpWriteError \/ UpCloseTCP \/ UpDone
             \/ (\E n \in 1 .. BufferSize : DownRead(n)) \/ DownReadError
             \/ DownWriteError \/ DownCloseWS \/ UNCHANGED vars
    BY <2>6 DEF BrowserSendText, BrowserClose, BackendClose, Dial, Return, UpRead,
         UpReadError, UpWriteError, UpCloseTCP, UpDone, DownRead, DownReadError,
         DownWriteError, DownCloseWS, vars, Stream!vars
  <2> QED
    BY <1>2, <2>2, <2>3, <2>4, <2>5, <2>6 DEF Next, Ended, Up, Down, Stream!Next
<1> QED
  BY <1>1, <1>2, BridgeInvHolds, PTL DEF Spec, ImplementsDuplexStream, Stream!Spec
=============================================================================
