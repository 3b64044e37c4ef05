------------------------- MODULE UploadSystemProofs -------------------------
(***************************************************************************)
(* Uploads end to end.  The composition of the pages, the gateway and the  *)
(* server makes only steps of the server, so that everything proved of the *)
(* server holds of it; the page's counters stay within the file.           *)
(***************************************************************************)
EXTENDS UploadSystem, UploadPromiseProofs, SequenceTheorems, WellFoundedInduction

-----------------------------------------------------------------------------
(* Sequences and sizes.                                                    *)

\* A file has a whole number of chunks, and no negative one.
LEMMA TotalType == totalChunks \in Nat
<1> DEFINE n == FileSize + CHUNK_SIZE - 1
<1>1. n \in Nat /\ CHUNK_SIZE \in Nat /\ CHUNK_SIZE > 0
  BY PageAssumption
<1> HIDE DEF n
<1>2. n \div CHUNK_SIZE \in Nat
  BY <1>1
<1> QED
  BY <1>2 DEF totalChunks, n

\* shift() takes the least of the missing chunks.
LEMMA LeastMissing ==
    ASSUME NEW S \in SUBSET Nat, S # {}
    PROVE  Min(S) \in S
<1>1. PICK m \in S : \A n \in S : m <= n
  <2>1. PICK m \in S : \A n \in S : ~(<<n, m>> \in OpToRel(<, Nat))
    BY NatLessThanWellFounded, WFMin
  <2>2. ASSUME NEW n \in S, n < m PROVE <<n, m>> \in OpToRel(<, Nat)
    BY <2>2 DEF OpToRel
  <2>3. \A n \in S : ~(n < m)
    BY <2>1, <2>2, Zenon
  <2> QED
    BY <2>3
<1> QED
  BY <1>1 DEF Min

\* Taking one element out of a sequence leaves the others.
LEMMA WithoutOne ==
    ASSUME NEW S, NEW s \in Seq(S), NEW k \in DOMAIN s
    PROVE  RemoveAt(s, k) \in Seq(S)
<1>1. SubSeq(s, 1, k - 1) \in Seq(S) /\ SubSeq(s, k + 1, Len(s)) \in Seq(S)
  BY SMT
<1> QED
  BY <1>1 DEF RemoveAt

-----------------------------------------------------------------------------
(* What travels between a page and the server.                             *)

Ids == Sessions \cup {""}

ChunkRef == [upload : Attempts, index : Chunk]

Message ==
         [cmd : {"CMD_UPLOAD_CHUNK"}, sessionID : Ids, chunk : ChunkRef]
    \cup [cmd : {"CMD_INIT_UPLOAD", "CMD_PAUSE_UPLOAD", "CMD_RESUME_UPLOAD",
                 "CMD_CANCEL_UPLOAD"},
          sessionID : Ids, chunk : {NoData}]

\* The answers that handleResponse knows.
PageCodes == ResponseCodes \ {"RESP_STATUS"}

PageAnswer ==
    {r \in [code : PageCodes, sessionID : Sessions, received : Nat, missing : SUBSET Nat] :
        /\ IsChunkAnswer(r) => r.received <= totalChunks
        /\ r.code = "RESP_RESUMED" => r.missing \subseteq Chunk}

PageRecord ==
    [ws : 0 .. MaxUploads, sessionID : Ids,
     sentChunks : 0 .. totalChunks, ackedChunks : 0 .. totalChunks,
     pendingChunks : SUBSET Chunk, paused : BOOLEAN, cancelled : BOOLEAN,
     reading : Seq(ChunkRef),
     uploading : BOOLEAN, canPause : BOOLEAN, canResume : BOOLEAN,
     shown : {"nothing", "complete", "cancelled", "auth failed", "error", "lost"},
     incomplete : BOOLEAN, clicks : Nat]

SocketStates == {"none", "connecting", "open", "closing", "closed"}

PagesTyped ==
    /\ page \in PageRecord
    /\ socket \in [Attempts -> SocketStates]
    /\ requests \in [Attempts -> Seq(Message)]
    /\ frames \in [Attempts -> Seq(Seq(PageAnswer) \ {<<>>})]
    /\ answers \in [Attempts -> Seq(PageAnswer)]

-----------------------------------------------------------------------------
(* The operators of the page.                                              *)

\* Buttons and messages leave the upload alone.
LEMMA PageOps ==
    ASSUME NEW p \in PageRecord, NEW b \in BOOLEAN,
           NEW x \in {"nothing", "complete", "cancelled", "auth failed", "error", "lost"}
    PROVE  /\ setButtons(p, b) \in PageRecord /\ log(p, x) \in PageRecord
           /\ Closed(p) \in PageRecord /\ Finish(p, x) \in PageRecord
<1>1. ASSUME NEW q \in PageRecord, NEW v \in BOOLEAN PROVE setButtons(q, v) \in PageRecord
  <2> DEFINE may == v /\ ~q.paused
  <2>1. may \in BOOLEAN /\ q.paused \in BOOLEAN
    BY <1>1 DEF PageRecord
  <2>2. setButtons(q, v) = [q EXCEPT !.uploading = v, !.canPause = may, !.canResume = q.paused]
    BY DEF setButtons
  <2> HIDE DEF may
  <2> QED
    BY <1>1, <2>1, <2>2 DEF PageRecord
<1>2. log(p, x) \in PageRecord
  BY DEF PageRecord, log
<1>3. Closed(p) \in PageRecord
  <2> DEFINE q == setButtons(p, FALSE)
             cut == q.incomplete \/ (~p.cancelled /\ p.ackedChunks < totalChunks)
  <2>1. q \in PageRecord
    BY <1>1
  <2>2. cut \in BOOLEAN /\ Closed(p) = [q EXCEPT !.incomplete = cut]
    BY DEF Closed
  <2> HIDE DEF q, cut
  <2> QED
    BY <2>1, <2>2 DEF PageRecord
<1> QED
  BY <1>1, <1>2, <1>3 DEF Finish

\* sendNextChunk asks for a chunk of the file, for the newest upload.
LEMMA SendNextType ==
    ASSUME NEW p \in PageRecord
    PROVE  sendNextChunk(p) \in PageRecord
<1>1. totalChunks \in Nat
  BY TotalType
<1>2. CASE p.paused \/ p.cancelled \/ ~WSOpen(p.ws)
  BY <1>2 DEF sendNextChunk
<1> p.reading \in Seq(ChunkRef)
  BY DEF PageRecord
<1>3. CASE ~(p.paused \/ p.cancelled \/ ~WSOpen(p.ws)) /\ p.pendingChunks # {}
  <2> DEFINE i == Min(p.pendingChunks)
  <2>1. p.pendingChunks \in SUBSET Nat /\ p.pendingChunks \subseteq Chunk
    <3>1. p.pendingChunks \subseteq Chunk
      BY DEF PageRecord
    <3>2. Chunk \subseteq Nat
      BY <1>1 DEF Chunk
    <3> QED
      BY <3>1, <3>2
  <2>2. i \in p.pendingChunks
    BY <1>3, <2>1, LeastMissing
  <2>3. ChunkOf(p, i) \in ChunkRef
    BY <1>3, <2>1, <2>2 DEF ChunkOf, ChunkRef, WSOpen
  <2> HIDE DEF i
  <2>4. Append(p.reading, ChunkOf(p, i)) \in Seq(ChunkRef)
    BY <2>3
  <2> DEFINE q == [p EXCEPT !.pendingChunks = @ \ {i}, !.reading = Append(@, ChunkOf(p, i))]
  <2>5. q \in PageRecord
    BY <2>1, <2>4 DEF PageRecord
  <2>6. sendNextChunk(p) = q
    BY <1>3 DEF sendNextChunk, i
  <2> QED
    BY <2>5, <2>6
<1>4. CASE /\ ~(p.paused \/ p.cancelled \/ ~WSOpen(p.ws)) /\ p.pendingChunks = {}
           /\ p.sentChunks < totalChunks
  <2> DEFINE i == p.sentChunks
  <2>1. i \in 0 .. totalChunks
    BY DEF PageRecord
  <2>2. i \in Chunk /\ i + 1 \in 0 .. totalChunks
    BY <1>1, <1>4, <2>1 DEF Chunk
  <2>3. ChunkOf(p, i) \in ChunkRef
    BY <1>4, <2>2 DEF ChunkOf, ChunkRef, WSOpen
  <2>4. Append(p.reading, ChunkOf(p, i)) \in Seq(ChunkRef)
    BY <2>3
  <2> DEFINE q == [p EXCEPT !.sentChunks = @ + 1, !.reading = Append(@, ChunkOf(p, i))]
  <2>5. q \in PageRecord
    BY <2>2, <2>4 DEF PageRecord
  <2>6. sendNextChunk(p) = q
    BY <1>4 DEF sendNextChunk
  <2> QED
    BY <2>5, <2>6
<1>5. CASE /\ ~(p.paused \/ p.cancelled \/ ~WSOpen(p.ws)) /\ p.pendingChunks = {}
           /\ ~(p.sentChunks < totalChunks)
  BY <1>5 DEF sendNextChunk
<1> QED
  BY <1>2, <1>3, <1>4, <1>5

\* The page handles every answer that reaches it, and stays within the file.
LEMMA HandleResponseType ==
    ASSUME NEW p \in PageRecord, NEW r \in PageAnswer
    PROVE  handleResponse(p, r) \in PageRecord
<1>1. /\ r.code \in PageCodes /\ r.sessionID \in Sessions /\ r.received \in Nat
      /\ IsChunkAnswer(r) => r.received <= totalChunks
      /\ r.code = "RESP_RESUMED" => r.missing \subseteq Chunk
  BY DEF PageAnswer
<1>2. totalChunks \in Nat /\ log(p, "nothing") \in PageRecord
  BY TotalType, PageOps
<1>3. CASE r.code = "RESP_READY"
  <2> DEFINE q == [log(p, "nothing") EXCEPT !.sessionID = r.sessionID]
  <2>1. q \in PageRecord
    BY <1>1, <1>2 DEF PageRecord, Ids
  <2> QED
    BY <1>3, <2>1, SendNextType DEF handleResponse
<1>4. CASE IsChunkAnswer(r)
  <2>1. r.received \in 0 .. totalChunks
    BY <1>1, <1>2, <1>4
  <2>2. Acked(p, r) \in PageRecord
    BY <2>1 DEF PageRecord, Acked
  <2> QED
    BY <1>4, <2>2, SendNextType DEF handleResponse, IsChunkAnswer
<1>5. CASE r.code = "RESP_PAUSED"
  BY <1>2, <1>5 DEF handleResponse, PageRecord
<1>6. CASE r.code = "RESP_RESUMED"
  <2> DEFINE q == [log(p, "nothing") EXCEPT !.paused = FALSE, !.canPause = TRUE,
                      !.canResume = FALSE, !.pendingChunks = r.missing]
  <2>1. q \in PageRecord
    BY <1>1, <1>2, <1>6 DEF PageRecord
  <2> QED
    BY <1>6, <2>1, SendNextType DEF handleResponse
<1>7. CASE r.code = "RESP_CANCELLED"
  <2>1. [p EXCEPT !.cancelled = TRUE] \in PageRecord
    BY DEF PageRecord
  <2> QED
    BY <1>7, <2>1, PageOps DEF handleResponse
<1>8. CASE r.code \in {"RESP_COMPLETE", "RESP_AUTH_FAILED", "RESP_ERROR"}
  BY <1>8, PageOps DEF handleResponse
<1> QED
  BY <1>1, <1>3, <1>4, <1>5, <1>6, <1>7, <1>8 DEF PageCodes, ResponseCodes, IsChunkAnswer

-----------------------------------------------------------------------------
(* What the server makes of a message.                                     *)

\* Refused, or taken up as a new upload, or as a request about the session that
\* the message names.
Refused(c) ==
    /\ pc'[c] = "idle" /\ reply'[c].code \in {"RESP_AUTH_FAILED", "RESP_ERROR"}
    /\ reply'[c].received = 0 /\ reply'[c].missing = {}

Started(c, m) ==
    /\ m.cmd = "CMD_INIT_UPLOAD"
    /\ pc'[c] = "CreateSession"
    /\ req'[c].cmd = "CMD_INIT_UPLOAD" /\ req'[c].total = totalChunks

Asked(c, m) ==
    /\ m.cmd # "CMD_INIT_UPLOAD" /\ m.sessionID \in Sessions
    /\ pc'[c] = "GetSession"
    /\ req'[c].cmd = m.cmd /\ req'[c].sid = m.sessionID
    /\ m.cmd = "CMD_UPLOAD_CHUNK" =>
          /\ m.chunk \in ChunkRef /\ req'[c].index = m.chunk.index
          /\ req'[c].content = Files[m.chunk.upload][m.chunk.index]

\* A message about a chunk names a chunk of the file, and one of the others is
\* no request for the status.
LEMMA MessageParts ==
    ASSUME NEW m \in Message
    PROVE  /\ m.cmd \in Commands \ {"CMD_GET_STATUS"}
           /\ m.sessionID \in Ids
           /\ m.cmd = "CMD_UPLOAD_CHUNK" =>
                 /\ m.chunk \in ChunkRef
                 /\ m.chunk.upload \in Attempts
                 /\ m.chunk.index \in ChunkIndexes
                 /\ Files[m.chunk.upload][m.chunk.index] \in Contents
<1>1. CASE m \in [cmd : {"CMD_UPLOAD_CHUNK"}, sessionID : Ids, chunk : ChunkRef]
  <2>1. m.chunk \in ChunkRef
    BY <1>1
  <2>2. m.chunk.upload \in Attempts /\ m.chunk.index \in ChunkIndexes
    BY <2>1, SystemAssumption DEF ChunkRef
  <2>3. Files[m.chunk.upload][m.chunk.index] \in Contents
    BY <2>2, SystemAssumption
  <2> QED
    BY <1>1, <2>1, <2>2, <2>3 DEF Commands
<1>2. CASE m \notin [cmd : {"CMD_UPLOAD_CHUNK"}, sessionID : Ids, chunk : ChunkRef]
  BY <1>2 DEF Message, Commands
<1> QED
  BY <1>1, <1>2

\* Handling a message is receiving a request, and one that the page means.
LEMMA HandleReceives ==
    ASSUME TypeOK, NEW c \in Conns, NEW m \in Message, Handle(c, m)
    PROVE  /\ Receive(c)
           /\ Refused(c) \/ Started(c, m) \/ Asked(c, m)
<1>1. token \in Tokens
  BY SystemAssumption DEF token
<1>2. /\ pc \in [Conns -> Labels] /\ req \in [Conns -> Request]
      /\ reply \in [Conns -> Response]
  BY DEF TypeOK
<1>3. ASSUME NEW code \in {"RESP_AUTH_FAILED", "RESP_ERROR"}, Refuse(c, code)
      PROVE  Refused(c)
  BY <1>2, <1>3 DEF Refuse, Answer, Refused
<1>4. ASSUME NEW r, NEW label, Dispatch(c, r, label)
      PROVE  pc'[c] = label /\ req'[c] = r
  BY <1>2, <1>4 DEF Dispatch
<1>5. CASE AuthFailed(c)
  BY <1>3, <1>5 DEF AuthFailed, Receive
<1>6. CASE Malformed(c)
  BY <1>3, <1>6 DEF Malformed, Receive
<1>7. CASE m.cmd = "CMD_INIT_UPLOAD" /\ InitUpload(c, Declared, token)
  <2>1. Receive(c)
    BY <1>1, <1>7, SystemAssumption DEF Receive
  <2>2. CASE ~ValidInit(Declared)
    BY <1>3, <1>7, <2>1, <2>2 DEF InitUpload
  <2>3. CASE ValidInit(Declared)
    <3> DEFINE q(s) == [NoRequest EXCEPT !.cmd = "CMD_INIT_UPLOAD",
                           !.user = TokenUser[token], !.sid = s,
                           !.total = Declared.totalChunks]
    <3>1. PICK s \in Sessions : Dispatch(c, q(s), "CreateSession")
      BY <1>7, <2>3 DEF InitUpload
    <3>2. q(s).cmd = "CMD_INIT_UPLOAD" /\ q(s).total = totalChunks
      BY DEF NoRequest, Declared
    <3> HIDE DEF q
    <3> QED
      BY <1>4, <1>7, <2>1, <3>1, <3>2 DEF Started
  <2> QED
    BY <2>2, <2>3
<1>8. CASE /\ m.cmd = "CMD_UPLOAD_CHUNK" /\ m.sessionID # ""
           /\ UploadChunk(c, m.sessionID, token, m.chunk.index,
                          Files[m.chunk.upload][m.chunk.index])
  <2> DEFINE s == m.sessionID
             i == m.chunk.index
             d == Files[m.chunk.upload][m.chunk.index]
             q == [NoRequest EXCEPT !.cmd = "CMD_UPLOAD_CHUNK",
                      !.user = TokenUser[token], !.sid = s, !.index = i, !.content = d]
  <2>1. /\ s \in Sessions /\ m.chunk \in ChunkRef
        /\ i \in ChunkIndexes /\ d \in Contents
    BY <1>8, MessageParts DEF Ids
  <2>2. Receive(c)
    BY <1>1, <1>8, <2>1 DEF Receive
  <2>3. Dispatch(c, q, "GetSession")
    BY <1>8 DEF UploadChunk
  <2>4. q.cmd = m.cmd /\ q.sid = s /\ q.index = i /\ q.content = d
    BY <1>8 DEF NoRequest
  <2> HIDE DEF q
  <2> QED
    BY <1>4, <1>8, <2>1, <2>2, <2>3, <2>4 DEF Asked
<1>9. CASE /\ m.cmd \notin {"CMD_INIT_UPLOAD", "CMD_UPLOAD_CHUNK"} /\ m.sessionID # ""
           /\ SessionRequest(c, m.cmd, m.sessionID, token)
  <2> DEFINE s == m.sessionID
             q == [NoRequest EXCEPT !.cmd = m.cmd, !.user = TokenUser[token], !.sid = s]
  <2>1. s \in Sessions /\ m.cmd \in SessionCommands
    BY <1>9, MessageParts DEF Ids, SessionCommands
  <2>2. Receive(c)
    BY <1>1, <1>9, <2>1 DEF Receive
  <2>3. Dispatch(c, q, "GetSession")
    BY <1>9 DEF SessionRequest
  <2>4. q.cmd = m.cmd /\ q.sid = s
    BY DEF NoRequest
  <2> HIDE DEF q
  <2> QED
    BY <1>4, <1>9, <2>1, <2>2, <2>3, <2>4 DEF Asked
<1> QED
  BY <1>5, <1>6, <1>7, <1>8, <1>9 DEF Handle

\* A connection's messages and its handler are those of its page.
LEMMA ConnType ==
    ASSUME NEW u \in Attempts
    PROVE  /\ ConnOf[u] \in Conns
           /\ PagesTyped /\ requests[u] # <<>> => Head(requests[u]) \in Message
<1>1. ConnOf[u] \in Conns
  BY SystemAssumption
<1>2. ASSUME PagesTyped, requests[u] # <<>> PROVE Head(requests[u]) \in Message
  <2>1. requests[u] \in Seq(Message)
    BY <1>2 DEF PagesTyped
  <2> QED
    BY <1>2, <2>1
<1> QED
  BY <1>1, <1>2

\* Every step of the system is a step of the server or leaves it alone.
LEMMA StepOfServer ==
    ASSUME TypeOK, PagesTyped, [SystemNext]_systemVars
    PROVE  [Next]_vars
<1>1. ASSUME NEW u \in Attempts, ServerReceive(u) PROVE Next
  BY <1>1, ConnType, HandleReceives DEF ServerReceive, Next
<1>2. ASSUME NEW u \in Attempts, ServerStep(u) PROVE Next
  BY <1>2, ConnType DEF ServerStep, Next
<1>3. ServerRestart \/ Background => Next
  BY DEF ServerRestart, Background, Next
<1>4. Page \/ Over \/ UNCHANGED systemVars => UNCHANGED vars
  BY DEF Page, Over, systemVars
<1>5. ASSUME NEW u \in Attempts, NEW n \in 1 .. Len(answers[u]), GatewayRead(u, n)
      PROVE  UNCHANGED vars
  BY <1>5 DEF GatewayRead
<1> QED
  BY <1>1, <1>2, <1>3, <1>4, <1>5 DEF SystemNext

-----------------------------------------------------------------------------
(* What the server does for the pages.                                     *)

\* Labels of the handlers that report how many chunks there are.
ReportLabels == ChunkLabels \cup {"Pause", "ReadState", "Resume", "GetProgress"}

\* A handler creates sessions of the size that the page declares, and is never
\* asked for the status.
PageRequest(c) ==
    /\ pc[c] \in InitLabels => req[c].cmd = "CMD_INIT_UPLOAD"
    /\ pc[c] = "CreateSession" => req[c].total = totalChunks
    /\ pc[c] \in SessionLabels =>
          req[c].cmd \in SessionCommands \ {"CMD_GET_STATUS"}
    /\ pc[c] \in ReportLabels =>
          req[c].cmd \in {"CMD_UPLOAD_CHUNK", "CMD_PAUSE_UPLOAD", "CMD_RESUME_UPLOAD"}

\* So every session has the size of the file.
FileSized ==
    \A s \in Sessions : sess[s].state # STATE_NONE => sess[s].totalChunks = totalChunks

\* A handler goes on with its request, or gives an answer that the page knows.
LEMMA HandlerAnswers ==
    ASSUME TypeOK, NEW c \in Conns, HandlerStep(c), PageRequest(c)
    PROVE  PageRequest(c)' /\ (pc'[c] = "idle" => reply'[c].code \in PageCodes)
<1> DEFINE Goal == PageRequest(c)' /\ (pc'[c] = "idle" => reply'[c].code \in PageCodes)
<1> SUFFICES Goal
  OBVIOUS
<1>1. /\ pc \in [Conns -> Labels] /\ reply \in [Conns -> Response]
      /\ req[c].cmd \in Commands /\ pc[c] \in Labels
  BY DEF TypeOK, Request
<1>2. req' = req
  BY HandlerAnswer
<1>3. ASSUME NEW code \in PageCodes, NEW n, NEW m, Answer(c, code, n, m)
      PROVE  Goal
  <2>1. reply'[c].code = code /\ pc'[c] = "idle"
    BY <1>1, <1>3 DEF Answer
  <2> QED
    BY <1>3, <2>1 DEF PageRequest, InitLabels, SessionLabels, ReportLabels, ChunkLabels
<1>4. AnswerError(c) => Goal
  BY <1>3 DEF AnswerError, PageCodes, ResponseCodes
<1>5. ASSUME pc[c] \in SessionLabels,
             NEW label \in SessionLabels, Goto(c, label),
             label \in ReportLabels => pc[c] \in ReportLabels
      PROVE  Goal
  <2>1. pc'[c] = label
    BY <1>1, <1>5 DEF Goto
  <2> QED
    BY <1>2, <1>5, <2>1 DEF PageRequest, SessionLabels, InitLabels
<1>6. ASSUME pc[c] \in InitLabels,
             NEW label \in InitLabels \ {"CreateSession"}, Goto(c, label)
      PROVE  Goal
  <2>1. pc'[c] = label
    BY <1>1, <1>6 DEF Goto
  <2> QED
    BY <1>2, <1>6, <2>1 DEF PageRequest, SessionLabels, InitLabels, ReportLabels, ChunkLabels
<1>7. CASE CreateSession(c) \/ CreateMultipartUpload(c)
  BY <1>4, <1>6, <1>7 DEF CreateSession, CreateMultipartUpload, InitLabels
<1>8. CASE SetUploadID(c) \/ SetCompleted(c) \/ DeleteSession(c) \/ GetMissingChunksCall(c)
  BY <1>3, <1>8 DEF SetUploadID, SetCompleted, DeleteSession, GetMissingChunksCall,
       PageCodes, ResponseCodes
<1>9. CASE GetSession(c)
  <2>1. AnswerError(c) \/ Goto(c, FirstCall(req[c].cmd))
    BY <1>9 DEF GetSession
  <2>2. CASE Goto(c, FirstCall(req[c].cmd))
    <3>1. pc'[c] = FirstCall(req[c].cmd) /\ pc[c] = "GetSession"
      BY <1>1, <1>9, <2>2 DEF Goto, GetSession
    <3>2. req[c].cmd \in SessionCommands \ {"CMD_GET_STATUS"}
      BY <3>1 DEF PageRequest, SessionLabels, InitLabels, Labels
    <3> QED
      BY <1>2, <3>1, <3>2 DEF PageRequest, FirstCall, SessionCommands, Commands,
         SessionLabels, InitLabels, Labels, ReportLabels, ChunkLabels
  <2> QED
    BY <1>4, <2>1, <2>2
<1>10. CASE GetProgressCall(c)
  <2>1. pc[c] = "GetProgress"
    BY <1>10 DEF GetProgressCall
  <2>2. req[c].cmd \in {"CMD_UPLOAD_CHUNK", "CMD_PAUSE_UPLOAD", "CMD_RESUME_UPLOAD"}
    BY <2>1 DEF PageRequest, ReportLabels
  <2> DEFINE n == GetProgress(sess[req[c].sid])
  <2>3. \/ Goto(c, "IsComplete") \/ Goto(c, "GetMissingChunks")
        \/ Answer(c, "RESP_PAUSED", n, {})
    BY <1>10, <2>2 DEF GetProgressCall
  <2>4. /\ pc[c] \in SessionLabels
        /\ {"IsComplete", "GetMissingChunks"} \subseteq SessionLabels \ ReportLabels
    BY <2>1 DEF SessionLabels, InitLabels, Labels, ReportLabels, ChunkLabels
  <2>5. "RESP_PAUSED" \in PageCodes
    BY DEF PageCodes, ResponseCodes
  <2> HIDE DEF Goal
  <2> QED
    BY <1>3, <1>5, <2>3, <2>4, <2>5
<1>11. CASE IsCompleteCall(c)
  <2>1. \/ Goto(c, "CompleteMultipartUpload")
        \/ Answer(c, "RESP_DUPLICATE", local[c].received, {})
        \/ Answer(c, "RESP_CHUNK_ACK", local[c].received, {})
    BY <1>11 DEF IsCompleteCall
  <2>2. /\ pc[c] \in SessionLabels
        /\ "CompleteMultipartUpload" \in SessionLabels \ ReportLabels
    BY <1>11 DEF IsCompleteCall, SessionLabels, InitLabels, Labels, ReportLabels, ChunkLabels
  <2>3. "RESP_DUPLICATE" \in PageCodes /\ "RESP_CHUNK_ACK" \in PageCodes
    BY DEF PageCodes, ResponseCodes
  <2> HIDE DEF Goal
  <2> QED
    BY <1>3, <1>5, <2>1, <2>2, <2>3
<1>12. CASE \/ ReadPaused(c) \/ ReadCancelled(c) \/ UploadPart(c) \/ AddChunkCall(c)
            \/ CompleteMultipartUpload(c) \/ SetFailed(c) \/ PauseCall(c)
            \/ ReadState(c) \/ ResumeCall(c) \/ CancelCall(c) \/ AbortMultipartUpload(c)
  <2>1. pc[c] \in SessionLabels /\
        \/ AnswerError(c)
        \/ \E label \in SessionLabels :
              Goto(c, label) /\ (label \in ReportLabels => pc[c] \in ReportLabels)
    BY <1>12 DEF ReadPaused, ReadCancelled, UploadPart, AddChunkCall,
       CompleteMultipartUpload, SetFailed, PauseCall, ReadState, ResumeCall,
       CancelCall, AbortMultipartUpload, SessionLabels, InitLabels, Labels,
       ReportLabels, ChunkLabels
  <2> HIDE DEF Goal
  <2> QED
    BY <1>4, <1>5, <2>1
<1> QED
  BY <1>7, <1>8, <1>9, <1>10, <1>11, <1>12 DEF HandlerStep, LockStep, FreeStep

\* A connection rests, unless its handler runs, its page's next message is
\* handled, or the server restarts.
LEMMA ConnMoves ==
    ASSUME TypeOK, PagesTyped, [SystemNext]_systemVars, NEW c \in Conns
    PROVE  \/ pc'[c] = pc[c] /\ req'[c] = req[c]
           \/ HandlerStep(c)
           \/ \E u \in Attempts : /\ c = ConnOf[u] /\ requests[u] # <<>>
                                  /\ Head(requests[u]) \in Message
                                  /\ Handle(c, Head(requests[u]))
           \/ pc'[c] = "idle"
<1> DEFINE Kept == pc'[c] = pc[c] /\ req'[c] = req[c]
<1>1. ASSUME NEW u \in Attempts, ServerReceive(u)
      PROVE  \/ Kept
             \/ /\ c = ConnOf[u] /\ requests[u] # <<>>
                /\ Head(requests[u]) \in Message /\ Handle(c, Head(requests[u]))
  <2>1. /\ ConnOf[u] \in Conns /\ requests[u] # <<>> /\ Head(requests[u]) \in Message
        /\ Handle(ConnOf[u], Head(requests[u]))
    BY <1>1, ConnType DEF ServerReceive
  <2>2. ConnOf[u] # c => Kept
    BY <2>1, HandleReceives, ReceiveFrame
  <2> QED
    BY <2>1, <2>2
<1>2. ASSUME NEW u \in Attempts, ServerStep(u) PROVE Kept \/ HandlerStep(c)
  BY <1>2, ConnType, HandlerFrame DEF ServerStep
<1>3. ServerRestart => pc'[c] = "idle"
  BY DEF ServerRestart, Restart
<1>4. Background => Kept
  BY DEF Background, Cleanup, CleanupTick, CleanupVisit, CleanupReap, CleanupDone, Tick
<1>5. Page \/ Over \/ UNCHANGED systemVars => Kept
  BY DEF Page, Over, systemVars, vars
<1>6. ASSUME NEW u \in Attempts, NEW n \in 1 .. Len(answers[u]), GatewayRead(u, n)
      PROVE  Kept
  BY <1>6 DEF GatewayRead, vars
<1> QED
  BY <1>1, <1>2, <1>3, <1>4, <1>5, <1>6 DEF SystemNext

\* No step makes a handler ask for what its page does not.
LEMMA PageRequestStep ==
    ASSUME TypeOK, PagesTyped, [SystemNext]_systemVars, NEW c \in Conns, PageRequest(c)
    PROVE  PageRequest(c)'
<1>1. CASE pc'[c] = pc[c] /\ req'[c] = req[c]
  BY <1>1 DEF PageRequest
<1>2. CASE HandlerStep(c)
  BY <1>2, HandlerAnswers
<1>3. CASE pc'[c] = "idle"
  BY <1>3 DEF PageRequest, InitLabels, SessionLabels, ReportLabels, ChunkLabels
<1>4. ASSUME NEW m \in Message, Handle(c, m)
      PROVE  PageRequest(c)'
  <2>1. CASE Refused(c)
    BY <1>3, <2>1 DEF Refused
  <2>2. CASE Started(c, m)
    BY <2>2 DEF Started, PageRequest, InitLabels, SessionLabels, ReportLabels, ChunkLabels
  <2>3. CASE Asked(c, m)
    <3>1. req'[c].cmd \in SessionCommands \ {"CMD_GET_STATUS"}
      BY <2>3, MessageParts DEF Asked, SessionCommands
    <3> QED
      BY <2>3, <3>1 DEF Asked, PageRequest, InitLabels, ReportLabels, ChunkLabels
  <2> QED
    BY <1>4, <2>1, <2>2, <2>3, HandleReceives
<1> QED
  BY <1>1, <1>2, <1>3, <1>4, ConnMoves

\* No step gives a session another size.
LEMMA FileSizedStep ==
    ASSUME InductiveInv, \A c \in Conns : PageRequest(c), FileSized, [Next]_vars
    PROVE  FileSized'
<1> SUFFICES ASSUME NEW s \in Sessions, sess'[s].state # STATE_NONE
             PROVE  sess'[s].totalChunks = totalChunks
  BY DEF FileSized
<1>1. TypeOK /\ SessionInv(s) /\ \A c \in Conns : HandlerInv(c)
  BY DEF InductiveInv
<1>2. CASE sess'[s] = sess[s]
  BY <1>2 DEF FileSized
<1>3. ASSUME NEW c \in Conns, Begun(c, s)
      PROVE  sess'[s].totalChunks = totalChunks
  BY <1>3 DEF Begun, CreateSession, PageRequest, NewSession
<1>4. ASSUME NEW c \in Conns, pc[c] \in SessionLabels, req[c].sid = s,
             sess'[s].totalChunks = sess[s].totalChunks
      PROVE  sess'[s].totalChunks = totalChunks
  BY <1>1, <1>4 DEF HandlerInv, SessionInv, FileSized
<1>5. ASSUME NEW c \in Conns, Restated(c, s)
      PROVE  sess'[s].totalChunks = totalChunks
  BY <1>4, <1>5 DEF Restated, ChunksKept
<1>6. ASSUME NEW c \in Conns, Added(c, s)
      PROVE  sess'[s].totalChunks = totalChunks
  <2>1. pc[c] \in SessionLabels /\ req[c].sid = s
    BY <1>6 DEF Added, AddChunkCall, SessionLabels, InitLabels, Labels
  <2> QED
    BY <1>1, <1>4, <1>6, <2>1, AddedEffect
<1>7. ASSUME NEW c \in Conns, Identified(c, s)
      PROVE  sess'[s].totalChunks = totalChunks
  <2>1. sess[s] \in Session
    BY <1>1 DEF TypeOK
  <2>2. sess'[s].totalChunks = sess[s].totalChunks /\ sess'[s].state = sess[s].state
    BY <1>7, <2>1 DEF Identified, Session
  <2> QED
    BY <2>2 DEF FileSized
<1> QED
  BY <1>1, <1>2, <1>3, <1>5, <1>6, <1>7, SessStep DEF SessionStep

-----------------------------------------------------------------------------
(* Types of what travels.                                                  *)

\* What the server writes when a handler returns, or refuses a message, is an
\* answer that the page knows, and counts no more chunks than the file has.
LEMMA WrittenType ==
    ASSUME InductiveInv', AnswersInv', FileSized', NEW c \in Conns,
           reply'[c].code \in PageCodes
    PROVE  Written(c) \in PageAnswer
<1> DEFINE s == req'[c].sid
           r == Written(c)
<1>1. s \in Sessions /\ reply'[c] \in Response /\ sess'[s] \in Session
  BY DEF InductiveInv, TypeOK, Request
<1>2. r \in [code : PageCodes, sessionID : Sessions, received : Nat, missing : SUBSET Nat]
  BY <1>1 DEF Written, Response
<1>3. reply'[c].code \in Claims => sess'[s].totalChunks = totalChunks
  <2>1. sess'[s].uploadID => sess'[s].state # STATE_NONE
    BY <1>1 DEF InductiveInv, SessionInv
  <2>2. reply'[c].code \in Claims => sess'[s].uploadID
    BY DEF AnswersInv, ClaimInv
  <2> QED
    BY <1>1, <2>1, <2>2 DEF FileSized
<1>4. totalChunks \in Nat
  BY TotalType
<1>5. ASSUME IsChunkAnswer(r) PROVE r.received <= totalChunks
  <2>1. reply'[c].code \in {"RESP_CHUNK_ACK", "RESP_DUPLICATE"} \cap Claims
    BY <1>5 DEF IsChunkAnswer, Written, Claims
  <2>2. reply'[c].received < sess'[s].totalChunks
    BY <2>1, SystemAssumption DEF AnswersInv, AckIsPartial
  <2> QED
    BY <1>1, <1>2, <1>3, <1>4, <2>1, <2>2 DEF Written
<1>6. ASSUME r.code = "RESP_RESUMED" PROVE r.missing \subseteq Chunk
  <2>1. reply'[c].code = "RESP_RESUMED" /\ reply'[c].code \in Claims
    BY <1>6 DEF Written, Claims
  <2>2. reply'[c].missing \subseteq 0 .. sess'[s].totalChunks - 1
    BY <2>1 DEF AnswersInv, ResumeReportsMissing
  <2> QED
    BY <1>3, <2>1, <2>2 DEF Written, Chunk
<1> QED
  BY <1>2, <1>5, <1>6 DEF PageAnswer

\* What the page sends goes to the end of the newest upload's messages.
LEMMA SendType ==
    ASSUME page \in PageRecord, requests \in [Attempts -> Seq(Message)],
           NEW isOpen, NEW cmd, NEW chunk, Send(isOpen, cmd, chunk),
           \/ cmd = "CMD_UPLOAD_CHUNK" /\ chunk \in ChunkRef
           \/ /\ cmd \in {"CMD_INIT_UPLOAD", "CMD_PAUSE_UPLOAD", "CMD_RESUME_UPLOAD",
                          "CMD_CANCEL_UPLOAD"}
              /\ chunk = NoData
    PROVE  requests' \in [Attempts -> Seq(Message)]
<1> DEFINE m == [cmd |-> cmd, sessionID |-> page.sessionID, chunk |-> chunk]
<1>1. page.sessionID \in Ids
  BY DEF PageRecord
<1>2. m \in Message
  <2>1. CASE cmd = "CMD_UPLOAD_CHUNK" /\ chunk \in ChunkRef
    BY <1>1, <2>1 DEF Message
  <2>2. CASE /\ cmd \in {"CMD_INIT_UPLOAD", "CMD_PAUSE_UPLOAD", "CMD_RESUME_UPLOAD",
                         "CMD_CANCEL_UPLOAD"}
             /\ chunk = NoData
    BY <1>1, <2>2 DEF Message
  <2> QED
    BY <2>1, <2>2
<1>3. requests' = requests \/ requests' = [requests EXCEPT ![page.ws] = Append(@, m)]
  BY DEF Send
<1> HIDE DEF m
<1>4. CASE page.ws \in Attempts
  <2>1. Append(requests[page.ws], m) \in Seq(Message)
    BY <1>2, <1>4
  <2> QED
    BY <1>3, <2>1
<1>5. CASE page.ws \notin Attempts
  BY <1>3, <1>5
<1> QED
  BY <1>4, <1>5

\* The page's handlers keep their types.
LEMMA PageStepType ==
    ASSUME PagesTyped, PageNext
    PROVE  /\ page' \in PageRecord
           /\ socket' \in [Attempts -> SocketStates]
           /\ requests' \in [Attempts -> Seq(Message)]
           /\ frames' \in [Attempts -> Seq(Seq(PageAnswer) \ {<<>>})]
<1> DEFINE Goal == /\ page' \in PageRecord
                   /\ socket' \in [Attempts -> SocketStates]
                   /\ requests' \in [Attempts -> Seq(Message)]
                   /\ frames' \in [Attempts -> Seq(Seq(PageAnswer) \ {<<>>})]
<1> SUFFICES Goal
  OBVIOUS
<1>1. /\ page \in PageRecord
      /\ socket \in [Attempts -> SocketStates]
      /\ requests \in [Attempts -> Seq(Message)]
      /\ frames \in [Attempts -> Seq(Seq(PageAnswer) \ {<<>>})]
      /\ \A v \in Attempts, x \in SocketStates : [socket EXCEPT ![v] = x] \in [Attempts -> SocketStates]
      /\ {"connecting", "open", "closing", "closed"} \subseteq SocketStates
  BY DEF PagesTyped, SocketStates
<1>2. CASE startUpload
  <2>1. page.ws + 1 \in Attempts /\ page.ws + 1 \in 0 .. MaxUploads
    <3>1. page.ws \in 0 .. MaxUploads
      BY <1>1 DEF PageRecord
    <3> QED
      BY <1>2, <3>1, PageAssumption DEF startUpload, Attempts
  <2>2. Reset(page) \in PageRecord
    <3>1. NoPage \in PageRecord
      BY TotalType, PageAssumption DEF NoPage, PageRecord, Ids
    <3>2. page.reading \in Seq(ChunkRef) /\ page.clicks \in Nat
      BY <1>1 DEF PageRecord
    <3> HIDE DEF NoPage
    <3> QED
      BY <2>1, <3>1, <3>2 DEF Reset, PageRecord
  <2>3. page' \in PageRecord
    BY <1>2, <2>2, PageOps DEF startUpload
  <2> QED
    BY <1>1, <1>2, <2>1, <2>3 DEF startUpload
<1>3. ASSUME NEW u \in Attempts, onopen(u) PROVE Goal
  <2>1. page' \in PageRecord
    BY <1>1, <1>3, PageOps DEF onopen
  <2>2. requests' \in [Attempts -> Seq(Message)]
    BY <1>1, <1>3, SendType DEF onopen
  <2> QED
    BY <1>1, <1>3, <2>1, <2>2 DEF onopen
<1>4. ASSUME NEW u \in Attempts, onclose(u) PROVE Goal
  <2>1. page' \in PageRecord
    BY <1>1, <1>4, PageOps DEF onclose
  <2> QED
    BY <1>1, <1>4, <2>1 DEF onclose
<1>5. ASSUME NEW u \in Attempts, onmessage(u) PROVE Goal
  <2> DEFINE f == frames[u]
             r == Head(Head(f))
  <2>1. f \in Seq(Seq(PageAnswer) \ {<<>>}) /\ f # <<>>
    BY <1>1, <1>5 DEF onmessage
  <2>2. Head(f) \in Seq(PageAnswer) /\ Head(f) # <<>>
    BY <2>1
  <2>3. r \in PageAnswer
    BY <2>2
  <2>4. page' \in PageRecord
    BY <1>1, <1>5, <2>3, HandleResponseType DEF onmessage
  <2>5. Tail(f) \in Seq(Seq(PageAnswer) \ {<<>>})
    BY <2>1
  <2>6. socket' \in [Attempts -> SocketStates]
    BY <1>1, <1>5 DEF onmessage, CloseSocket
  <2> HIDE DEF f
  <2>7. frames' = [frames EXCEPT ![u] = Tail(f)] /\ requests' = requests
    BY <1>5 DEF onmessage, f
  <2> QED
    BY <1>1, <2>4, <2>5, <2>6, <2>7
<1>6. ASSUME NEW k \in DOMAIN page.reading, ChunkRead(k) PROVE Goal
  <2>1. page.reading \in Seq(ChunkRef)
    BY <1>1 DEF PageRecord
  <2>2. page.reading[k] \in ChunkRef /\ RemoveAt(page.reading, k) \in Seq(ChunkRef)
    BY <2>1, WithoutOne
  <2>3. page' \in PageRecord
    BY <1>1, <1>6, <2>2 DEF ChunkRead, PageRecord
  <2>4. requests' \in [Attempts -> Seq(Message)]
    BY <1>1, <1>6, <2>2, SendType DEF ChunkRead
  <2> QED
    BY <1>1, <1>6, <2>3, <2>4 DEF ChunkRead
<1>7. ASSUME NEW u \in Attempts, ConnectionLost(u) PROVE Goal
  <2>1. page' \in PageRecord
    <3>1. log(page, "lost") \in PageRecord /\ page \in PageRecord
      BY <1>1, PageOps
    <3>2. page' = Closed(log(page, "lost")) \/ page' = Closed(page)
      BY <1>7 DEF ConnectionLost
    <3> QED
      BY <3>1, <3>2, PageOps
  <2>2. PICK n \in 0 .. Len(requests[u]) :
           requests' = [requests EXCEPT ![u] = SubSeq(@, 1, n)]
    BY <1>7 DEF ConnectionLost
  <2>3. SubSeq(requests[u], 1, n) \in Seq(Message)
    BY <1>1
  <2>4. <<>> \in Seq(Seq(PageAnswer) \ {<<>>})
    OBVIOUS
  <2> QED
    BY <1>1, <1>7, <2>1, <2>2, <2>3, <2>4 DEF ConnectionLost
<1>8. ASSUME NEW button,
             NEW cmd \in {"CMD_PAUSE_UPLOAD", "CMD_RESUME_UPLOAD", "CMD_CANCEL_UPLOAD"},
             Click(button, cmd)
      PROVE  Goal
  <2>1. page' \in PageRecord
    <3>1. page.clicks + 1 \in Nat
      <4>1. page.clicks \in Nat
        BY <1>1 DEF PageRecord
      <4> QED
        BY <4>1
    <3>2. page' = [page EXCEPT !.clicks = page.clicks + 1]
      BY <1>8 DEF Click
    <3> QED
      BY <1>1, <3>1, <3>2 DEF PageRecord
  <2>2. requests' \in [Attempts -> Seq(Message)]
    BY <1>1, <1>8, SendType DEF Click
  <2> QED
    BY <1>1, <1>8, <2>1, <2>2 DEF Click
<1>9. pauseUpload \/ resumeUpload \/ cancelUpload => Goal
  BY <1>8 DEF pauseUpload, resumeUpload, cancelUpload
<1> QED
  BY <1>2, <1>3, <1>4, <1>5, <1>6, <1>7, <1>9 DEF PageNext, PageEvent

\* What the server writes goes to the end of the connection's answers.
LEMMA ReplyType ==
    ASSUME NEW A, answers \in [Attempts -> Seq(A)],
           NEW u \in Attempts, Reply(u),
           pc'[ConnOf[u]] = "idle" => Written(ConnOf[u]) \in A
    PROVE  answers' \in [Attempts -> Seq(A)]
<1> DEFINE r == Written(ConnOf[u])
<1>1. \/ answers' = answers
      \/ pc'[ConnOf[u]] = "idle" /\ answers' = [answers EXCEPT ![u] = Append(@, r)]
  BY DEF Reply
<1>2. pc'[ConnOf[u]] = "idle" => r \in A
  OBVIOUS
<1> HIDE DEF r
<1>3. r \in A => Append(answers[u], r) \in Seq(A)
  OBVIOUS
<1> QED
  BY <1>1, <1>2, <1>3

\* A message of the gateway is a part of the server's answers, and not empty.
LEMMA GatewayType ==
    ASSUME NEW A, answers \in [Attempts -> Seq(A)],
           frames \in [Attempts -> Seq(Seq(A) \ {<<>>})],
           NEW u \in Attempts, NEW n \in 1 .. Len(answers[u]), GatewayRead(u, n)
    PROVE  /\ frames' \in [Attempts -> Seq(Seq(A) \ {<<>>})]
           /\ answers' \in [Attempts -> Seq(A)]
<1> DEFINE a == answers[u]
           f == frames[u]
           m == SubSeq(a, 1, n)
           rest == SubSeq(a, n + 1, Len(a))
<1>1. a \in Seq(A) /\ n \in 1 .. Len(a) /\ f \in Seq(Seq(A) \ {<<>>})
  OBVIOUS
<1>2. /\ frames' = [frames EXCEPT ![u] = Append(f, m)]
      /\ answers' = [answers EXCEPT ![u] = rest]
  BY DEF GatewayRead
<1> HIDE DEF a, f
<1>3. m \in Seq(A) /\ Len(m) = n
  BY <1>1
<1>4. rest \in Seq(A)
  BY <1>1
<1> HIDE DEF m, rest
<1>5. m # <<>>
  BY <1>1, <1>3
<1>6. Append(f, m) \in Seq(Seq(A) \ {<<>>})
  BY <1>1, <1>3, <1>5
<1> QED
  BY <1>2, <1>4, <1>6

-----------------------------------------------------------------------------
(* The system is a server and its pages.                                   *)

\* What holds of the composition: the server's invariants, and that what
\* travels between it and the pages is what each of them expects.
SystemInv ==
    /\ InductiveInv
    /\ AnswersInv
    /\ PagesTyped
    /\ \A c \in Conns : PageRequest(c)
    /\ FileSized

\* It holds before the first upload.
LEMMA InitSystemInv == SystemInit => SystemInv
<1> SUFFICES ASSUME SystemInit PROVE SystemInv
  OBVIOUS
<1>1. InductiveInv /\ AnswersInv
  BY InitInductiveInv, InitAnswersInv DEF SystemInit
<1>2. PagesTyped
  <2>1. NoPage \in PageRecord
    BY TotalType, PageAssumption DEF NoPage, PageRecord, Ids
  <2>2. /\ <<>> \in Seq(Message) /\ <<>> \in Seq(Seq(PageAnswer) \ {<<>>})
        /\ <<>> \in Seq(PageAnswer)
    OBVIOUS
  <2> QED
    BY <2>1, <2>2 DEF SystemInit, PageInit, PagesTyped, SocketStates
<1>3. \A c \in Conns : PageRequest(c)
  BY DEF SystemInit, Init, PageRequest, InitLabels, SessionLabels, ReportLabels, ChunkLabels
<1>4. FileSized
  BY DEF SystemInit, Init, FileSized, NoSession
<1> QED
  BY <1>1, <1>2, <1>3, <1>4 DEF SystemInv

\* The server's part of it survives every step, because the step is one of the
\* server.
LEMMA ServerPartStep ==
    ASSUME SystemInv, [SystemNext]_systemVars
    PROVE  /\ [Next]_vars
           /\ InductiveInv' /\ AnswersInv' /\ FileSized'
           /\ \A c \in Conns : PageRequest(c)'
<1>1. TypeOK /\ InductiveInv /\ AnswersInv /\ PagesTyped
  BY DEF SystemInv, InductiveInv
<1>2. [Next]_vars
  BY <1>1, StepOfServer
<1>3. InductiveInv' /\ AnswersInv'
  BY <1>1, <1>2, NextInductiveInv, NextAnswersInv
<1>4. FileSized'
  BY <1>2, FileSizedStep DEF SystemInv
<1>5. \A c \in Conns : PageRequest(c)'
  BY <1>1, PageRequestStep DEF SystemInv
<1> QED
  BY <1>2, <1>3, <1>4, <1>5

\* So does the pages' part.
LEMMA PagesPartStep ==
    ASSUME SystemInv, [SystemNext]_systemVars PROVE PagesTyped'
<1>1. /\ TypeOK /\ PagesTyped /\ \A c \in Conns : PageRequest(c)
      /\ InductiveInv' /\ AnswersInv' /\ FileSized'
  BY ServerPartStep DEF SystemInv, InductiveInv
<1>2. ASSUME NEW c \in Conns, reply'[c].code \in PageCodes PROVE Written(c) \in PageAnswer
  BY <1>1, <1>2, WrittenType
<1>3. /\ page \in PageRecord /\ socket \in [Attempts -> SocketStates]
      /\ requests \in [Attempts -> Seq(Message)]
      /\ frames \in [Attempts -> Seq(Seq(PageAnswer) \ {<<>>})]
      /\ answers \in [Attempts -> Seq(PageAnswer)]
  BY <1>1 DEF PagesTyped
<1>4. ASSUME NEW u \in Attempts, ServerReceive(u) PROVE PagesTyped'
  <2> DEFINE c == ConnOf[u]
             q == requests[u]
  <2>1. c \in Conns /\ q \in Seq(Message) /\ q # <<>>
    BY <1>3, <1>4, ConnType DEF ServerReceive
  <2>2. Refused(c) \/ pc'[c] \in {"CreateSession", "GetSession"}
    BY <1>1, <1>4, <2>1, HandleReceives DEF ServerReceive, Started, Asked
  <2>3. pc'[c] = "idle" => Written(c) \in PageAnswer
    BY <1>2, <2>1, <2>2 DEF Refused, PageCodes, ResponseCodes
  <2>4. answers' \in [Attempts -> Seq(PageAnswer)]
    BY <1>3, <1>4, <2>3, ReplyType DEF ServerReceive
  <2> HIDE DEF q
  <2>5. Tail(q) \in Seq(Message)
    BY <2>1
  <2>6. requests' = [requests EXCEPT ![u] = Tail(q)]
    BY <1>4 DEF ServerReceive, q
  <2> QED
    BY <1>3, <1>4, <2>4, <2>5, <2>6 DEF ServerReceive, PagesTyped
<1>5. ASSUME NEW u \in Attempts, ServerStep(u) PROVE PagesTyped'
  <2>1. pc'[ConnOf[u]] = "idle" => Written(ConnOf[u]) \in PageAnswer
    BY <1>1, <1>2, <1>5, ConnType, HandlerAnswers DEF ServerStep
  <2>2. answers' \in [Attempts -> Seq(PageAnswer)]
    BY <1>3, <1>5, <2>1, ReplyType DEF ServerStep
  <2> QED
    BY <1>3, <1>5, <2>2 DEF ServerStep, pageVars, PagesTyped
<1>6. ASSUME NEW u \in Attempts, NEW n \in 1 .. Len(answers[u]), GatewayRead(u, n)
      PROVE  PagesTyped'
  BY <1>1, <1>3, <1>6, GatewayType DEF GatewayRead, PagesTyped
<1>7. CASE ServerRestart
  <2>1. Closed(log(page, "lost")) \in PageRecord
    BY <1>3, PageOps
  <2>2. /\ <<>> \in Seq(Message) /\ <<>> \in Seq(Seq(PageAnswer) \ {<<>>})
        /\ <<>> \in Seq(PageAnswer)
    OBVIOUS
  <2>3. page' \in PageRecord
    BY <1>3, <1>7, <2>1 DEF ServerRestart
  <2>4. socket' \in [Attempts -> SocketStates]
    BY <1>3, <1>7 DEF ServerRestart, SocketStates
  <2> QED
    BY <1>7, <2>2, <2>3, <2>4 DEF ServerRestart, PagesTyped
<1>8. CASE Page
  <2>1. answers' \in [Attempts -> Seq(PageAnswer)]
    <3>1. <<>> \in Seq(PageAnswer)
      OBVIOUS
    <3> QED
      BY <1>3, <1>8, <3>1 DEF Page
  <2> QED
    BY <1>1, <1>8, <2>1, PageStepType DEF Page, PagesTyped
<1>9. Background \/ Over \/ UNCHANGED systemVars => PagesTyped'
  BY <1>3 DEF Background, Over, systemVars, pageVars, PagesTyped
<1> QED
  BY <1>4, <1>5, <1>6, <1>7, <1>8, <1>9 DEF SystemNext

\* What the server and the pages expect of each other holds in every state.
LEMMA SystemInvariant == SystemSpec => []SystemInv
<1>1. SystemInv /\ [SystemNext]_systemVars => SystemInv'
  BY ServerPartStep, PagesPartStep DEF SystemInv
<1> QED
  BY <1>1, InitSystemInv, PTL DEF SystemSpec

\* Pages, gateway and server together make only steps of the server: what is
\* proved of the server for requests of any kind holds when pages send them.
THEOREM SystemIsServer == SystemSpec => Spec
<1>1. SystemInit => Init
  BY DEF SystemInit
<1>2. SystemInv /\ [SystemNext]_systemVars => [Next]_vars
  BY ServerPartStep
<1> QED
  BY <1>1, <1>2, SystemInvariant, PTL DEF SystemSpec, Spec

\* So the system as the user sees it keeps the promise of UploadService: an
\* upload goes from open to stored only with all of the chunks of the file.
THEOREM SystemImplementsService == SystemSpec => ImplementsUploadService
<1>1. IndexInRange
  BY SystemAssumption
<1> QED
  BY <1>1, SystemIsServer, ImplementsService

\* Whatever the user clicks, however often connections break and whatever is
\* left of earlier uploads, the page asks for no chunk that the file does not
\* have and never shows more chunks than there are.
THEOREM PageStaysInFile == SystemSpec => []PageTypeOK
<1>1. SystemInv => PageTypeOK
  <2> SUFFICES ASSUME SystemInv PROVE PageTypeOK
    OBVIOUS
  <2>1. page \in PageRecord /\ socket \in [Attempts -> SocketStates]
    BY DEF SystemInv, PagesTyped
  <2>2. /\ page.ws \in 0 .. MaxUploads /\ page.sessionID \in Ids
        /\ page.sentChunks \in 0 .. totalChunks /\ page.ackedChunks \in 0 .. totalChunks
        /\ page.reading \in Seq(ChunkRef)
        /\ page.shown \in {"nothing", "complete", "cancelled", "auth failed", "error", "lost"}
    BY <2>1 DEF PageRecord
  <2>3. \A k \in DOMAIN page.reading : page.reading[k].index \in Chunk
    <3>1. ASSUME NEW q \in Seq(ChunkRef), NEW k \in DOMAIN q PROVE q[k] \in ChunkRef
      BY <3>1
    <3>2. \A k \in DOMAIN page.reading : page.reading[k] \in ChunkRef
      BY <2>2, <3>1
    <3> QED
      BY <3>2 DEF ChunkRef
  <2> QED
    BY <2>1, <2>2, <2>3 DEF PageTypeOK, SocketStates, Ids
<1> QED
  BY <1>1, SystemInvariant, PTL

-----------------------------------------------------------------------------
(* One upload on a page: the page knows one session, the only one, and     *)
(* what it shows of it is so.                                              *)

OneUpload == MaxUploads = 1

\* The page has its session's id; a message names a session.
HasSession == page.sessionID # ""
AboutSession(m) == m.sessionID # ""

\* The message that asks for a session has not reached the server.
InitToCome ==
    \/ socket[1] \in {"none", "connecting"}
    \/ \E k \in DOMAIN requests[1] : requests[1][k].cmd = "CMD_INIT_UPLOAD"

NoneKnown == \A s \in Sessions : ~Known(s)

\* Clients ever know one session at most, because the page asks once: the
\* question is to come, or under way, or answered.
OneSession ==
    /\ \A s, t \in Sessions : Known(s) /\ Known(t) => s = t
    /\ \A c \in Conns : pc[c] \in InitLabels =>
          NoneKnown /\ \A d \in Conns : pc[d] \in InitLabels => d = c
    /\ InitToCome => NoneKnown /\ \A c \in Conns : pc[c] \notin InitLabels
    /\ socket[1] \in {"none", "connecting"} => requests[1] = <<>>
    /\ \A k \in DOMAIN requests[1] : requests[1][k].cmd = "CMD_INIT_UPLOAD" => k = 1

\* Only chunks of the file are sent and recorded.
FileOnly ==
    /\ \A c \in Conns : pc[c] \in SessionLabels /\ req[c].cmd = "CMD_UPLOAD_CHUNK" =>
          req[c].content = Files[1][req[c].index]
    /\ \A s \in Sessions, i \in ChunkIndexes :
          sess[s].received[i] \in {NoChunk, Files[1][i]}

\* What the page holds true is true, and it knows its session before it asks
\* anything about it.
PageKnows ==
    /\ page.ws = 0 => /\ socket[1] = "none" /\ ~HasSession
                      /\ page.ackedChunks = 0 /\ page.shown # "complete"
    /\ HasSession => Known(page.sessionID)
    /\ page.ackedChunks > 0 =>
          \E s \in Sessions : Known(s) /\ page.ackedChunks <= GetProgress(sess[s])
    /\ page.shown = "complete" => HasSession /\ IsStored(s3[page.sessionID])
    /\ \A k \in DOMAIN requests[1] : AboutSession(requests[1][k]) => HasSession
    /\ \A c \in Conns : pc[c] \in SessionLabels => HasSession

AnswerTrue(r) ==
    /\ r.code = "RESP_READY" => Known(r.sessionID)
    /\ IsChunkAnswer(r) => /\ Known(r.sessionID)
                           /\ r.received <= GetProgress(sess[r.sessionID])
    /\ r.code = "RESP_COMPLETE" => /\ HasSession /\ Known(r.sessionID)
                                   /\ IsStored(s3[r.sessionID])

TrueAnswers == {r \in PageAnswer : AnswerTrue(r)}

\* The answers on their way to the page are true.
AnswersTrue ==
    /\ answers \in [Attempts -> Seq(TrueAnswers)]
    /\ frames \in [Attempts -> Seq(Seq(TrueAnswers) \ {<<>>})]

OneUploadInv == SystemInv /\ OneSession /\ FileOnly /\ PageKnows /\ AnswersTrue

\* The id of a session is not the page's initial one.
LEMMA Identity ==
    /\ \A m : m.sessionID \in Sessions => AboutSession(m)
    /\ \A m : m.sessionID = page.sessionID => (AboutSession(m) <=> HasSession)
    /\ page'.sessionID \in Sessions => HasSession'
    /\ page'.sessionID = page.sessionID => (HasSession' <=> HasSession)
    /\ page.sessionID \in Ids /\ HasSession => page.sessionID \in Sessions
  BY SystemAssumption, Zenon DEF HasSession, AboutSession, Ids

\* With one upload there is one WebSocket.
LEMMA OnlyAttempt == ASSUME OneUpload PROVE Attempts = {1}
  BY DEF OneUpload, Attempts

\* A session becomes known when its handler sets the upload id, and in no
\* other way.
LEMMA KnownMoves ==
    ASSUME InductiveInv, [Next]_vars, NEW s \in Sessions, Known(s)'
    PROVE  Known(s) \/ \E c \in Conns : SetUploadID(c) /\ req[c].sid = s
<1>1. TypeOK /\ sess[s] \in Session
  BY DEF InductiveInv, TypeOK
<1>2. ASSUME NEW c \in Conns, Restated(c, s) PROVE Known(s)
  BY <1>2 DEF Restated, Known
<1>3. ASSUME NEW c \in Conns, Added(c, s) PROVE Known(s)
  BY <1>1, <1>3 DEF Added, AddChunk, Known, Session
<1>4. ASSUME NEW c \in Conns, Begun(c, s) PROVE FALSE
  BY <1>4 DEF Begun, NewSession, Known
<1> QED
  BY <1>1, <1>2, <1>3, <1>4, SessStep DEF SessionStep, Identified, Known

\* A handler that creates a session does nothing else, and no other handler
\* begins to create one.
LEMMA CreationFlow ==
    ASSUME TypeOK, NEW c \in Conns, HandlerStep(c)
    PROVE  /\ pc'[c] \in InitLabels => pc[c] \in InitLabels
           /\ pc'[c] \in SessionLabels => pc[c] \in SessionLabels
<1>1. pc \in [Conns -> Labels] /\ pc[c] # "idle"
  BY HandlerFrame DEF TypeOK
<1>2. CASE pc[c] \in SessionLabels
  <2>1. pc'[c] \in SessionLabels \cup {"idle"}
    BY <1>2, HandlerFlow DEF Flow
  <2> QED
    BY <1>2, <2>1 DEF SessionLabels, InitLabels
<1>3. CASE pc[c] \in InitLabels
  <2>1. CreateSession(c) \/ CreateMultipartUpload(c) \/ SetUploadID(c)
    BY <1>3 DEF InitLabels, HandlerStep, LockStep, FreeStep, CreateSession, GetSession,
       DeleteSession, CreateMultipartUpload, SetUploadID, ReadPaused, ReadCancelled,
       UploadPart, AddChunkCall, GetProgressCall, IsCompleteCall,
       CompleteMultipartUpload, SetCompleted, SetFailed, PauseCall, ReadState,
       ResumeCall, GetMissingChunksCall, CancelCall, AbortMultipartUpload
  <2>2. pc'[c] \in InitLabels \cup {"idle"}
    BY <1>1, <2>1 DEF CreateSession, CreateMultipartUpload, SetUploadID, Goto, Answer,
       AnswerError, InitLabels
  <2> QED
    BY <1>3, <2>2 DEF SessionLabels, InitLabels
<1> QED
  BY <1>1, <1>2, <1>3 DEF SessionLabels

\* What a handler says when it returns: a session is ready only when it has
\* its upload id, complete only after storage has it, and a chunk is
\* acknowledged with the count that was made before.
LEMMA WhatIsSaid ==
    ASSUME TypeOK, NEW c \in Conns, HandlerStep(c), pc'[c] = "idle"
    PROVE  /\ reply'[c].code = "RESP_READY" => SetUploadID(c)
           /\ reply'[c].code = "RESP_COMPLETE" => SetCompleted(c)
           /\ reply'[c].code \in {"RESP_CHUNK_ACK", "RESP_DUPLICATE"} =>
                 IsCompleteCall(c) /\ reply'[c].received = local[c].received
<1> DEFINE Goal == /\ reply'[c].code = "RESP_READY" => SetUploadID(c)
                   /\ reply'[c].code = "RESP_COMPLETE" => SetCompleted(c)
                   /\ reply'[c].code \in {"RESP_CHUNK_ACK", "RESP_DUPLICATE"} =>
                         IsCompleteCall(c) /\ reply'[c].received = local[c].received
<1> SUFFICES Goal
  OBVIOUS
<1>1. pc \in [Conns -> Labels] /\ reply \in [Conns -> Response]
  BY DEF TypeOK
<1>2. ASSUME NEW code, NEW n, NEW m, Answer(c, code, n, m)
      PROVE  reply'[c].code = code /\ reply'[c].received = n
  BY <1>1, <1>2 DEF Answer
<1>3. ASSUME NEW label, Goto(c, label) PROVE label = "idle"
  BY <1>1, <1>3 DEF Goto
<1>4. AnswerError(c) => Goal
  BY <1>2 DEF AnswerError
<1>5. CASE SetUploadID(c) \/ SetCompleted(c)
  BY <1>2, <1>5 DEF SetUploadID, SetCompleted
<1>6. CASE IsCompleteCall(c)
  <2>1. \/ Goto(c, "CompleteMultipartUpload")
        \/ Answer(c, "RESP_DUPLICATE", local[c].received, {})
        \/ Answer(c, "RESP_CHUNK_ACK", local[c].received, {})
    BY <1>6 DEF IsCompleteCall
  <2> QED
    BY <1>2, <1>3, <1>6, <2>1
<1>7. CASE GetMissingChunksCall(c) \/ DeleteSession(c)
  <2>1. reply'[c].code \in {"RESP_RESUMED", "RESP_CANCELLED"}
    BY <1>2, <1>7 DEF GetMissingChunksCall, DeleteSession
  <2> QED
    BY <2>1
<1>8. CASE GetProgressCall(c)
  <2> DEFINE n == GetProgress(sess[req[c].sid])
  <2>1. \/ Goto(c, "IsComplete") \/ Goto(c, "GetMissingChunks")
        \/ Answer(c, "RESP_PAUSED", n, {}) \/ Answer(c, "RESP_STATUS", n, {})
    BY <1>8 DEF GetProgressCall
  <2>2. reply'[c].code \in {"RESP_PAUSED", "RESP_STATUS"}
    BY <1>2, <1>3, <2>1
  <2> QED
    BY <2>2
<1>9. CASE GetSession(c)
  <2>1. AnswerError(c) \/ Goto(c, FirstCall(req[c].cmd))
    BY <1>9 DEF GetSession
  <2>2. FirstCall(req[c].cmd) # "idle"
    BY DEF FirstCall
  <2> QED
    BY <1>3, <1>4, <2>1, <2>2
<1>10. CASE \/ CreateSession(c) \/ CreateMultipartUpload(c)
            \/ ReadPaused(c) \/ ReadCancelled(c) \/ UploadPart(c) \/ AddChunkCall(c)
            \/ CompleteMultipartUpload(c) \/ SetFailed(c) \/ PauseCall(c)
            \/ ReadState(c) \/ ResumeCall(c) \/ CancelCall(c) \/ AbortMultipartUpload(c)
  <2>1. AnswerError(c) \/ \E label \in Labels \ {"idle"} : Goto(c, label)
    BY <1>10 DEF CreateSession, CreateMultipartUpload, ReadPaused, ReadCancelled,
       UploadPart, AddChunkCall, CompleteMultipartUpload, SetFailed, PauseCall,
       ReadState, ResumeCall, CancelCall, AbortMultipartUpload, Labels
  <2> HIDE DEF Goal
  <2> QED
    BY <1>3, <1>4, <2>1
<1> QED
  BY <1>5, <1>6, <1>7, <1>8, <1>9, <1>10 DEF HandlerStep, LockStep, FreeStep

\* Messages that the server reads leave the queue at its front; what remains
\* asks for no session.
LEMMA TailMessages ==
    ASSUME NEW q \in Seq(Message), q # <<>>,
           \A k \in DOMAIN q : q[k].cmd = "CMD_INIT_UPLOAD" => k = 1
    PROVE  \A k \in DOMAIN Tail(q) : /\ k + 1 \in DOMAIN q /\ Tail(q)[k] = q[k + 1]
                                     /\ Tail(q)[k].cmd # "CMD_INIT_UPLOAD"
<1> SUFFICES ASSUME NEW k \in DOMAIN Tail(q)
             PROVE  /\ k + 1 \in DOMAIN q /\ Tail(q)[k] = q[k + 1]
                    /\ Tail(q)[k].cmd # "CMD_INIT_UPLOAD"
  OBVIOUS
<1>1. /\ Len(Tail(q)) = Len(q) - 1 /\ k \in 1 .. Len(Tail(q)) /\ DOMAIN q = 1 .. Len(q)
      /\ Len(q) \in Nat
  BY HeadTailProperties
<1>2. k + 1 \in DOMAIN q /\ k + 1 # 1
  BY <1>1
<1>3. Tail(q)[k] = q[k + 1]
  BY <1>1, HeadTailProperties
<1> QED
  BY <1>2, <1>3

\* If nothing new asks for a session, there is still one at most.
LEMMA CreationRests ==
    ASSUME InductiveInv, OneSession, [Next]_vars, InitToCome' => InitToCome,
           \A c \in Conns : pc'[c] \in InitLabels => pc[c] \in InitLabels
    PROVE  /\ \A s, t \in Sessions : Known(s)' /\ Known(t)' => s = t
           /\ \A c \in Conns : pc'[c] \in InitLabels =>
                 NoneKnown' /\ \A d \in Conns : pc'[d] \in InitLabels => d = c
           /\ InitToCome' => NoneKnown' /\ \A c \in Conns : pc'[c] \notin InitLabels
<1>1. ASSUME NEW s \in Sessions, Known(s)', ~Known(s)
      PROVE  \E c \in Conns : /\ pc[c] \in InitLabels /\ pc'[c] = "idle"
                              /\ req[c].sid = s
  <2>1. PICK c \in Conns : SetUploadID(c) /\ req[c].sid = s
    BY <1>1, KnownMoves
  <2>2. pc \in [Conns -> Labels]
    BY DEF InductiveInv, TypeOK
  <2> QED
    BY <2>1, <2>2 DEF SetUploadID, Answer, InitLabels
<1>2. \A c, d \in Conns : pc[c] \in InitLabels /\ pc[d] \in InitLabels => c = d
  BY DEF OneSession
<1>3. \A c \in Conns : pc[c] \in InitLabels => NoneKnown
  BY DEF OneSession
<1>4. \A s, t \in Sessions : Known(s) /\ Known(t) => s = t
  BY DEF OneSession
<1>5. ASSUME NEW s \in Sessions, NEW t \in Sessions, Known(s)', Known(t)' PROVE s = t
  BY <1>1, <1>2, <1>3, <1>4, <1>5 DEF NoneKnown
<1>6. ASSUME NEW c \in Conns, pc'[c] \in InitLabels PROVE NoneKnown'
  <2>1. pc[c] \in InitLabels /\ NoneKnown
    BY <1>3, <1>6
  <2>2. ASSUME NEW s \in Sessions, Known(s)' PROVE FALSE
    <3>1. PICK d \in Conns : pc[d] \in InitLabels /\ pc'[d] = "idle"
      BY <1>1, <2>1, <2>2 DEF NoneKnown
    <3> QED
      BY <1>2, <1>6, <2>1, <3>1 DEF InitLabels
  <2> QED
    BY <2>2 DEF NoneKnown
<1>7. ASSUME InitToCome' PROVE NoneKnown' /\ \A c \in Conns : pc'[c] \notin InitLabels
  <2>1. NoneKnown /\ \A c \in Conns : pc[c] \notin InitLabels
    BY <1>7 DEF OneSession
  <2>2. \A s \in Sessions : ~Known(s)'
    BY <1>1, <2>1 DEF NoneKnown
  <2> QED
    BY <2>1, <2>2 DEF NoneKnown
<1> QED
  BY <1>2, <1>5, <1>6, <1>7

\* What a step of the page does to its socket and its messages.
LEMMA PageTraffic ==
    ASSUME OneUpload, PagesTyped, OneSession, PageKnows, PageNext
    PROVE  /\ InitToCome' => InitToCome
           /\ socket'[1] \in {"none", "connecting"} => requests'[1] = <<>>
           /\ \A k \in DOMAIN requests'[1] :
                 /\ requests'[1][k].cmd = "CMD_INIT_UPLOAD" => k = 1
                 /\ AboutSession(requests'[1][k]) => HasSession
<1> DEFINE q == requests[1]
           Kept == requests'[1] = q
           Goal == /\ InitToCome' => InitToCome
                   /\ socket'[1] \in {"none", "connecting"} => requests'[1] = <<>>
                   /\ \A k \in DOMAIN requests'[1] :
                         /\ requests'[1][k].cmd = "CMD_INIT_UPLOAD" => k = 1
                         /\ AboutSession(requests'[1][k]) => HasSession
<1> SUFFICES Goal
  OBVIOUS
<1>1. /\ Attempts = {1} /\ q \in Seq(Message) /\ page.ws \in 0 .. 1
      /\ socket \in [Attempts -> SocketStates] /\ requests \in [Attempts -> Seq(Message)]
  BY OnlyAttempt DEF PagesTyped, PageRecord, OneUpload
<1>2. /\ page.ws = 0 => socket[1] = "none"
      /\ socket[1] \in {"none", "connecting"} => q = <<>>
      /\ \A k \in DOMAIN q : /\ q[k].cmd = "CMD_INIT_UPLOAD" => k = 1
                             /\ AboutSession(q[k]) => HasSession
  BY DEF OneSession, PageKnows
<1>3. ASSUME Kept, \/ socket'[1] = socket[1]
                   \/ socket[1] \in {"none", "connecting"}
                   \/ socket'[1] \notin {"none", "connecting"}
      PROVE  Goal
  BY <1>2, <1>3 DEF InitToCome
<1>4. ASSUME socket[1] = "open", socket'[1] = "open",
             NEW m \in Message, m.cmd # "CMD_INIT_UPLOAD", m.sessionID = page.sessionID,
             requests'[1] = Append(q, m)
      PROVE  Goal
  <2> DEFINE a == Append(q, m)
  <2>1. \A k \in DOMAIN a : (k \in DOMAIN q /\ a[k] = q[k]) \/ a[k] = m
    <3> HIDE DEF q
    <3> QED
      BY <1>1, AppendProperties
  <2> HIDE DEF a, q
  <2>2. \A k \in DOMAIN a : /\ a[k].cmd = "CMD_INIT_UPLOAD" => k = 1 /\ k \in DOMAIN q
                                                               /\ a[k] = q[k]
                            /\ AboutSession(a[k]) => HasSession
    BY <1>2, <1>4, <2>1, Identity
  <2> QED
    BY <1>4, <2>2 DEF a, q, InitToCome
<1>5. ASSUME NEW n \in 0 .. Len(q), requests'[1] = SubSeq(q, 1, n),
             socket'[1] = "closed"
      PROVE  Goal
  <2> DEFINE a == SubSeq(q, 1, n)
  <2>1. \A k \in DOMAIN a : k \in DOMAIN q /\ a[k] = q[k]
    <3> HIDE DEF q
    <3> QED
      BY <1>1, SubSeqProperties
  <2> HIDE DEF a, q
  <2> QED
    BY <1>2, <1>5, <2>1 DEF a, q, InitToCome
<1>6. ASSUME NEW cmd, NEW chunk, cmd # "CMD_INIT_UPLOAD",
             Send(socket[page.ws] = "open" /\ page.ws \in Attempts, cmd, chunk),
             \/ cmd = "CMD_UPLOAD_CHUNK" /\ chunk \in ChunkRef
             \/ /\ cmd \in {"CMD_PAUSE_UPLOAD", "CMD_RESUME_UPLOAD", "CMD_CANCEL_UPLOAD"}
                /\ chunk = NoData,
             socket' = socket
      PROVE  Goal
  <2> DEFINE m == [cmd |-> cmd, sessionID |-> page.sessionID, chunk |-> chunk]
  <2>1. page.sessionID \in Ids
    BY DEF PagesTyped, PageRecord
  <2>2. m \in Message /\ m.cmd # "CMD_INIT_UPLOAD" /\ m.sessionID = page.sessionID
    <3>1. CASE cmd = "CMD_UPLOAD_CHUNK" /\ chunk \in ChunkRef
      BY <2>1, <3>1 DEF Message
    <3>2. CASE /\ cmd \in {"CMD_PAUSE_UPLOAD", "CMD_RESUME_UPLOAD", "CMD_CANCEL_UPLOAD"}
               /\ chunk = NoData
      BY <2>1, <3>2 DEF Message
    <3> QED
      BY <1>6, <3>1, <3>2
  <2>3. Kept \/ (socket[1] = "open" /\ requests'[1] = Append(q, m))
    BY <1>1, <1>6 DEF Send
  <2> HIDE DEF m, Goal, Kept, q
  <2> QED
    BY <1>3, <1>4, <1>6, <2>2, <2>3 DEF q
<1>7. CASE startUpload
  <2>1. page.ws = 0 /\ Kept
    BY <1>1, <1>7 DEF startUpload, OneUpload
  <2> QED
    BY <1>2, <1>3, <2>1
<1>8. ASSUME NEW u \in Attempts, onopen(u) PROVE Goal
  <2>1. u = 1 /\ page.ws = 1 /\ socket[1] = "connecting" /\ q = <<>>
    <3>1. u = 1 /\ socket[1] = "connecting" /\ q = <<>> /\ page.ws # 0
      BY <1>1, <1>2, <1>8 DEF onopen
    <3> QED
      BY <1>1, <3>1
  <2>2. socket'[1] = "open" /\ InitToCome
    BY <1>1, <1>8, <2>1 DEF onopen, InitToCome
  <2>3. PICK m : /\ requests'[1] = Append(q, m) /\ m.sessionID = page.sessionID
    BY <1>1, <1>8, <2>1, <2>2 DEF onopen, Send
  <2>4. \A k \in DOMAIN requests'[1] : k = 1 /\ requests'[1][k] = m
    BY <2>1, <2>3
  <2> QED
    BY <2>2, <2>3, <2>4, Identity
<1>9. ASSUME NEW u \in Attempts, onclose(u) PROVE Goal
  BY <1>1, <1>3, <1>9 DEF onclose
<1>10. ASSUME NEW u \in Attempts, onmessage(u) PROVE Goal
  <2>1. socket'[1] \in {"open", "closing"} /\ Kept
    BY <1>1, <1>10 DEF onmessage, CloseSocket
  <2> QED
    BY <1>3, <2>1
<1>11. ASSUME NEW k \in DOMAIN page.reading, ChunkRead(k) PROVE Goal
  <2>1. page.reading[k] \in ChunkRef
    <3>1. page.reading \in Seq(ChunkRef)
      BY DEF PagesTyped, PageRecord
    <3> QED
      BY <3>1
  <2>2. Send(socket[page.ws] = "open" /\ page.ws \in Attempts, "CMD_UPLOAD_CHUNK",
             page.reading[k])
    BY <1>11 DEF ChunkRead, WSOpen, Send
  <2> HIDE DEF Goal
  <2> QED
    BY <1>6, <1>11, <2>1, <2>2 DEF ChunkRead
<1>12. ASSUME NEW u \in Attempts, ConnectionLost(u) PROVE Goal
  <2>1. u = 1 /\ socket'[1] = "closed"
    BY <1>1, <1>12 DEF ConnectionLost
  <2>2. PICK n \in 0 .. Len(q) : requests'[1] = SubSeq(q, 1, n)
    BY <1>1, <1>12, <2>1 DEF ConnectionLost
  <2> HIDE DEF Goal
  <2> QED
    BY <1>5, <2>1, <2>2
<1>13. ASSUME NEW button,
              NEW cmd \in {"CMD_PAUSE_UPLOAD", "CMD_RESUME_UPLOAD", "CMD_CANCEL_UPLOAD"},
              Click(button, cmd)
       PROVE  Goal
  <2>1. Send(socket[page.ws] = "open" /\ page.ws \in Attempts, cmd, NoData)
    BY <1>13 DEF Click, WSOpen, Send
  <2> HIDE DEF Goal
  <2> QED
    BY <1>6, <1>13, <2>1 DEF Click
<1>14. pauseUpload \/ resumeUpload \/ cancelUpload => Goal
  BY <1>13 DEF pauseUpload, resumeUpload, cancelUpload
<1> QED
  BY <1>7, <1>8, <1>9, <1>10, <1>11, <1>12, <1>14 DEF PageNext, PageEvent

\* No step makes a second session known.
LEMMA OneSessionStep ==
    ASSUME OneUpload, SystemInv, OneSession, PageKnows, [SystemNext]_systemVars
    PROVE  OneSession'
<1> DEFINE c0 == ConnOf[1]
           q == requests[1]
<1>1. /\ InductiveInv /\ TypeOK /\ PagesTyped /\ [Next]_vars
      /\ pc \in [Conns -> Labels] /\ Attempts = {1} /\ c0 \in Conns
      /\ socket \in [Attempts -> SocketStates] /\ requests \in [Attempts -> Seq(Message)]
  BY OnlyAttempt, ServerPartStep, ConnType
     DEF SystemInv, InductiveInv, TypeOK, PagesTyped
<1>2. /\ socket[1] \in {"none", "connecting"} => q = <<>>
      /\ \A k \in DOMAIN q : q[k].cmd = "CMD_INIT_UPLOAD" => k = 1
  BY DEF OneSession
<1>3. ASSUME InitToCome' => InitToCome,
             \A c \in Conns : pc'[c] \in InitLabels => pc[c] \in InitLabels,
             socket'[1] \in {"none", "connecting"} => requests'[1] = <<>>,
             \A k \in DOMAIN requests'[1] : requests'[1][k].cmd = "CMD_INIT_UPLOAD" => k = 1
      PROVE  OneSession'
  BY <1>1, <1>3, CreationRests DEF OneSession
<1>4. ASSUME pc' = pc, requests' = requests, socket' = socket PROVE OneSession'
  <2>1. InitToCome' => InitToCome
    BY <1>4 DEF InitToCome
  <2> QED
    BY <1>2, <1>3, <1>4, <2>1
<1>5. CASE ServerReceive(1)
  <2> DEFINE m == Head(q)
  <2>1. /\ m \in Message /\ q # <<>> /\ q \in Seq(Message)
        /\ Handle(c0, m) /\ socket' = socket /\ requests'[1] = Tail(q)
    BY <1>1, <1>5, ConnType DEF ServerReceive
  <2>2. /\ Receive(c0) /\ (Refused(c0) \/ Started(c0, m) \/ Asked(c0, m))
        /\ sess' = sess /\ \A d \in Conns \ {c0} : pc'[d] = pc[d]
    BY <1>1, <2>1, HandleReceives, ReceiveFrame
  <2>3. \A k \in DOMAIN Tail(q) : Tail(q)[k].cmd # "CMD_INIT_UPLOAD"
    <3> HIDE DEF q, m
    <3> QED
      BY <1>2, <2>1, TailMessages
  <2>4. ~InitToCome' /\ socket'[1] \notin {"none", "connecting"}
    BY <1>2, <2>1, <2>3 DEF InitToCome
  <2>5. CASE m.cmd # "CMD_INIT_UPLOAD"
    <3>1. pc'[c0] \notin InitLabels
      BY <2>2, <2>5 DEF Refused, Started, Asked, InitLabels
    <3> QED
      BY <1>3, <2>1, <2>2, <2>3, <2>4, <3>1
  <2>6. CASE m.cmd = "CMD_INIT_UPLOAD"
    <3>1. InitToCome
      <4>1. m = q[1] /\ 1 \in DOMAIN q
        BY <2>1
      <4> QED
        BY <2>6, <4>1 DEF InitToCome
    <3>2. NoneKnown /\ \A c \in Conns : pc[c] \notin InitLabels
      BY <3>1 DEF OneSession
    <3>3. \A s \in Sessions : ~Known(s)'
      BY <2>2, <3>2 DEF NoneKnown, Known
    <3>4. \A c \in Conns : pc'[c] \in InitLabels => c = c0
      BY <2>2, <3>2
    <3> QED
      BY <2>1, <2>3, <2>4, <3>3, <3>4 DEF OneSession, NoneKnown
  <2> QED
    BY <2>5, <2>6
<1>6. CASE ServerStep(1)
  <2>1. HandlerStep(c0) /\ requests' = requests /\ socket' = socket
    BY <1>6 DEF ServerStep, pageVars
  <2>2. \A c \in Conns : pc'[c] \in InitLabels => pc[c] \in InitLabels
    BY <1>1, <2>1, CreationFlow, HandlerFrame
  <2>3. InitToCome' => InitToCome
    BY <2>1 DEF InitToCome
  <2> QED
    BY <1>2, <1>3, <2>1, <2>2, <2>3
<1>7. ASSUME NEW n \in 1 .. Len(answers[1]), GatewayRead(1, n) PROVE OneSession'
  BY <1>4, <1>7 DEF GatewayRead, vars
<1>8. CASE ServerRestart
  <2>1. /\ \A c \in Conns : pc'[c] \notin InitLabels
        /\ requests'[1] = <<>>
        /\ socket'[1] \in {"none", "connecting"} => socket'[1] = socket[1]
    BY <1>1, <1>8 DEF ServerRestart, Restart, InitLabels
  <2>2. InitToCome' => InitToCome
    BY <2>1 DEF InitToCome
  <2> QED
    BY <1>3, <2>1, <2>2
<1>9. CASE Page
  <2>1. PageNext /\ pc' = pc
    BY <1>9 DEF Page, vars
  <2> QED
    BY <1>1, <1>3, <2>1, PageTraffic
<1>10. Background \/ Over \/ UNCHANGED systemVars => OneSession'
  BY <1>4 DEF Background, Cleanup, CleanupTick, CleanupVisit, CleanupReap, CleanupDone,
     Tick, Over, systemVars, pageVars, vars
<1> QED
  BY <1>1, <1>5, <1>6, <1>7, <1>8, <1>9, <1>10 DEF SystemNext

\* No step sends or records anything but chunks of the file.
LEMMA FileOnlyStep ==
    ASSUME OneUpload, SystemInv, FileOnly, [SystemNext]_systemVars
    PROVE  FileOnly'
<1>1. /\ InductiveInv /\ TypeOK /\ PagesTyped /\ [Next]_vars /\ Attempts = {1}
      /\ \A c \in Conns : PageRequest(c)
  BY OnlyAttempt, ServerPartStep DEF SystemInv, InductiveInv
<1>2. ASSUME NEW c \in Conns, pc'[c] \in SessionLabels, req'[c].cmd = "CMD_UPLOAD_CHUNK"
      PROVE  req'[c].content = Files[1][req'[c].index]
  <2>1. CASE pc'[c] = pc[c] /\ req'[c] = req[c]
    BY <1>2, <2>1 DEF FileOnly
  <2>2. CASE HandlerStep(c)
    <3>1. req'[c] = req[c] /\ pc[c] \in SessionLabels
      BY <1>1, <1>2, <2>2, HandlerFrame, CreationFlow
    <3> QED
      BY <1>2, <3>1 DEF FileOnly
  <2>3. ASSUME NEW m \in Message, Handle(c, m)
        PROVE  req'[c].content = Files[1][req'[c].index]
    <3>1. Asked(c, m)
      <4>1. pc'[c] \notin {"idle", "CreateSession"}
        BY <1>2 DEF SessionLabels, InitLabels
      <4> QED
        BY <1>1, <2>3, <4>1, HandleReceives DEF Refused, Started
    <3>2. m.chunk.upload = 1
      BY <1>1, <1>2, <3>1 DEF Asked, ChunkRef
    <3> QED
      BY <1>2, <3>1, <3>2 DEF Asked
  <2>4. pc'[c] # "idle"
    BY <1>2 DEF SessionLabels
  <2> QED
    BY <1>1, <2>1, <2>2, <2>3, <2>4, ConnMoves
<1>3. ASSUME NEW s \in Sessions, NEW i \in ChunkIndexes
      PROVE  sess'[s].received[i] \in {NoChunk, Files[1][i]}
  <2>1. sess[s] \in Session /\ sess[s].received[i] \in {NoChunk, Files[1][i]}
    BY <1>1 DEF FileOnly, TypeOK
  <2>2. ASSUME NEW c \in Conns, Added(c, s)
        PROVE  sess'[s].received[i] \in {NoChunk, Files[1][i]}
    <3>1. /\ pc[c] \in SessionLabels /\ req[c].cmd = "CMD_UPLOAD_CHUNK"
      BY <1>1, <2>2 DEF Added, AddChunkCall, InductiveInv, HandlerInv, ChunkLabels,
         SessionLabels, InitLabels, Labels
    <3>2. req[c].content = Files[1][req[c].index]
      BY <3>1 DEF FileOnly
    <3>3. \/ sess'[s].received = sess[s].received
          \/ sess'[s].received = [sess[s].received EXCEPT ![req[c].index] = req[c].content]
      BY <2>1, <2>2 DEF Added, AddChunk, Session
    <3>4. sess[s].received \in Chunks
      BY <2>1 DEF Session
    <3> QED
      BY <2>1, <3>2, <3>3, <3>4 DEF Chunks
  <2>3. ASSUME NEW c \in Conns, Restated(c, s) \/ Identified(c, s)
        PROVE  sess'[s].received = sess[s].received
    BY <2>1, <2>3 DEF Restated, ChunksKept, Identified, Session
  <2>4. ASSUME NEW c \in Conns, Begun(c, s)
        PROVE  sess'[s].received[i] = NoChunk
    BY <2>4 DEF Begun, NewSession
  <2> QED
    BY <1>1, <2>1, <2>2, <2>3, <2>4, SessStep DEF SessionStep
<1> QED
  BY <1>2, <1>3 DEF FileOnly

\* sendNextChunk and the buttons leave alone what the page knows of its upload.
SameUpload(p, q) ==
    q.ws = p.ws /\ q.sessionID = p.sessionID /\ q.ackedChunks = p.ackedChunks

LEMMA SendNextEffect ==
    ASSUME NEW p \in PageRecord
    PROVE  SameUpload(p, sendNextChunk(p)) /\ sendNextChunk(p).shown = p.shown
  BY DEF PageRecord, sendNextChunk, SameUpload

\* So does what ends an upload, but for the message that it shows.
LEMMA ShowEffect ==
    ASSUME NEW p \in PageRecord, NEW x
    PROVE  /\ SameUpload(p, log(p, x)) /\ log(p, x).shown = x
           /\ SameUpload(p, Finish(p, x)) /\ Finish(p, x).shown = x
<1>1. SameUpload(p, log(p, x)) /\ log(p, x).shown = x
  BY DEF PageRecord, log, SameUpload
<1> DEFINE q == log(p, x)
<1>2. SameUpload(q, setButtons(q, FALSE)) /\ setButtons(q, FALSE).shown = q.shown
  BY DEF PageRecord, log, setButtons, SameUpload
<1>3. Finish(p, x) = setButtons(q, FALSE)
  BY DEF Finish
<1> HIDE DEF q
<1>4. SameUpload(p, q) /\ q.shown = x
  BY <1>1 DEF q
<1> QED
  BY <1>1, <1>2, <1>3, <1>4 DEF SameUpload

LEMMA CloseEffect ==
    ASSUME NEW p \in PageRecord
    PROVE  SameUpload(p, Closed(p)) /\ Closed(p).shown = p.shown
<1> DEFINE q == setButtons(p, FALSE)
<1>1. SameUpload(p, q) /\ q.shown = p.shown
  BY DEF PageRecord, setButtons, SameUpload
<1>2. q \in PageRecord
  BY PageOps
<1>3. SameUpload(q, Closed(p)) /\ Closed(p).shown = q.shown
  BY <1>2 DEF Closed, PageRecord, SameUpload
<1> HIDE DEF q
<1> QED
  BY <1>1, <1>3 DEF SameUpload

\* What an answer tells the page: its session, or a count, or that the upload
\* is complete.
LEMMA HandleResponseEffect ==
    ASSUME NEW p \in PageRecord, NEW r \in PageAnswer
    PROVE  LET q == handleResponse(p, r)
           IN  /\ q.ws = p.ws
               /\ q.sessionID = IF r.code = "RESP_READY" THEN r.sessionID ELSE p.sessionID
               /\ q.ackedChunks = IF IsChunkAnswer(r) THEN r.received ELSE p.ackedChunks
               /\ q.shown = "complete" =>
                     \/ r.code = "RESP_COMPLETE"
                     \/ IsChunkAnswer(r) /\ p.shown = "complete"
<1> DEFINE q == handleResponse(p, r)
           Goal == /\ q.ws = p.ws
                   /\ q.sessionID = IF r.code = "RESP_READY" THEN r.sessionID
                                                             ELSE p.sessionID
                   /\ q.ackedChunks = IF IsChunkAnswer(r) THEN r.received
                                                          ELSE p.ackedChunks
                   /\ q.shown = "complete" =>
                         \/ r.code = "RESP_COMPLETE"
                         \/ IsChunkAnswer(r) /\ p.shown = "complete"
<1> SUFFICES Goal
  OBVIOUS
<1>1. /\ r.code \in PageCodes /\ r.sessionID \in Sessions /\ r.received \in Nat
      /\ IsChunkAnswer(r) => r.received <= totalChunks
      /\ r.code = "RESP_RESUMED" => r.missing \subseteq Chunk
  BY DEF PageAnswer
<1>2. /\ totalChunks \in Nat /\ log(p, "nothing") \in PageRecord
      /\ SameUpload(p, log(p, "nothing")) /\ log(p, "nothing").shown = "nothing"
  BY TotalType, PageOps, ShowEffect
<1>3. CASE r.code = "RESP_READY"
  <2> DEFINE q1 == [log(p, "nothing") EXCEPT !.sessionID = r.sessionID]
  <2>1. /\ q1 \in PageRecord /\ q1.ws = p.ws /\ q1.sessionID = r.sessionID
        /\ q1.ackedChunks = p.ackedChunks /\ q1.shown = "nothing"
    BY <1>1, <1>2 DEF PageRecord, Ids, SameUpload
  <2>2. q = sendNextChunk(q1)
    BY <1>3 DEF handleResponse
  <2> HIDE DEF q1, q
  <2>3. SameUpload(q1, q) /\ q.shown = "nothing"
    BY <2>1, <2>2, SendNextEffect
  <2> QED
    BY <1>3, <2>1, <2>3 DEF SameUpload, IsChunkAnswer
<1>4. CASE IsChunkAnswer(r)
  <2> DEFINE q1 == Acked(p, r)
  <2>1. r.received \in 0 .. totalChunks
    BY <1>1, <1>2, <1>4
  <2>2. /\ q1 \in PageRecord /\ q1.ws = p.ws /\ q1.sessionID = p.sessionID
        /\ q1.ackedChunks = r.received /\ q1.shown = p.shown
    BY <2>1 DEF PageRecord, Acked
  <2>3. q = sendNextChunk(q1)
    BY <1>4 DEF handleResponse, IsChunkAnswer
  <2> HIDE DEF q1, q
  <2>4. SameUpload(q1, q) /\ q.shown = p.shown
    BY <2>2, <2>3, SendNextEffect
  <2> QED
    BY <1>4, <2>2, <2>4 DEF SameUpload, IsChunkAnswer
<1>5. CASE r.code = "RESP_PAUSED"
  <2>1. SameUpload(log(p, "nothing"), q) /\ q.shown = "nothing"
    BY <1>2, <1>5 DEF handleResponse, PageRecord, SameUpload
  <2> HIDE DEF q
  <2> QED
    BY <1>2, <1>5, <2>1 DEF SameUpload, IsChunkAnswer
<1>6. CASE r.code = "RESP_RESUMED"
  <2> DEFINE q1 == [log(p, "nothing") EXCEPT !.paused = FALSE, !.canPause = TRUE,
                       !.canResume = FALSE, !.pendingChunks = r.missing]
  <2>1. q1 \in PageRecord
    BY <1>1, <1>2, <1>6 DEF PageRecord
  <2>2. SameUpload(log(p, "nothing"), q1) /\ q1.shown = "nothing"
    BY <1>2 DEF PageRecord, SameUpload
  <2>3. q = sendNextChunk(q1)
    BY <1>6 DEF handleResponse
  <2> HIDE DEF q1, q
  <2>4. SameUpload(q1, q) /\ q.shown = "nothing"
    BY <2>1, <2>2, <2>3, SendNextEffect
  <2> QED
    BY <1>2, <1>6, <2>2, <2>4 DEF SameUpload, IsChunkAnswer
<1>7. CASE r.code = "RESP_CANCELLED"
  <2> DEFINE q1 == [p EXCEPT !.cancelled = TRUE]
  <2>1. q1 \in PageRecord /\ SameUpload(p, q1)
    BY DEF PageRecord, SameUpload
  <2>2. q = Finish(q1, "cancelled")
    BY <1>7 DEF handleResponse
  <2> HIDE DEF q1, q
  <2>3. SameUpload(q1, q) /\ q.shown = "cancelled"
    BY <2>1, <2>2, ShowEffect
  <2> QED
    BY <1>7, <2>1, <2>3 DEF SameUpload, IsChunkAnswer
<1>8. CASE r.code \in {"RESP_COMPLETE", "RESP_AUTH_FAILED", "RESP_ERROR"}
  <2>1. \/ r.code = "RESP_COMPLETE" /\ q = Finish(p, "complete")
        \/ q = Finish(p, "auth failed") \/ q = Finish(p, "error")
    BY <1>8 DEF handleResponse
  <2> HIDE DEF q
  <2>2. SameUpload(p, q) /\ (q.shown = "complete" => r.code = "RESP_COMPLETE")
    <3>1. /\ SameUpload(p, Finish(p, "complete"))
          /\ SameUpload(p, Finish(p, "auth failed")) /\ SameUpload(p, Finish(p, "error"))
          /\ Finish(p, "auth failed").shown = "auth failed"
          /\ Finish(p, "error").shown = "error"
      BY ShowEffect
    <3> QED
      BY <2>1, <3>1
  <2> QED
    BY <1>8, <2>2 DEF SameUpload, IsChunkAnswer
<1> QED
  BY <1>1, <1>3, <1>4, <1>5, <1>6, <1>7, <1>8 DEF PageCodes, ResponseCodes, IsChunkAnswer

\* The page learns of its upload from answers only.
Heard(u, r) ==
    /\ socket[u] = "open" /\ frames[u] # <<>> /\ r = Head(Head(frames[u]))
    /\ page' = handleResponse(page, r)

LEMMA PageLearns ==
    ASSUME PagesTyped, PageNext
    PROVE  \/ startUpload
           \/ SameUpload(page, page') /\ (page'.shown = "complete" => page.shown = "complete")
           \/ \E u \in Attempts : \E r \in PageAnswer : Heard(u, r)
<1> DEFINE Told == \/ /\ SameUpload(page, page')
                      /\ page'.shown = "complete" => page.shown = "complete"
                   \/ \E u \in Attempts : \E r \in PageAnswer : Heard(u, r)
<1>1. page \in PageRecord
  BY DEF PagesTyped
<1>2. ASSUME NEW u \in Attempts, onopen(u) PROVE Told
  BY <1>1, <1>2, ShowEffect DEF onopen
<1>3. ASSUME NEW u \in Attempts, onclose(u) PROVE Told
  BY <1>1, <1>3, CloseEffect DEF onclose
<1>4. ASSUME NEW u \in Attempts, onmessage(u) PROVE Told
  <2> DEFINE f == frames[u]
             r == Head(Head(f))
  <2>1. f \in Seq(Seq(PageAnswer) \ {<<>>}) /\ f # <<>>
    BY <1>4 DEF onmessage, PagesTyped
  <2>2. Head(f) \in Seq(PageAnswer) /\ Head(f) # <<>>
    BY <2>1
  <2>3. r \in PageAnswer
    BY <2>2
  <2>4. Heard(u, r)
    BY <1>4 DEF onmessage, Heard
  <2> QED
    BY <2>3, <2>4
<1>5. ASSUME NEW k \in DOMAIN page.reading, ChunkRead(k) PROVE Told
  BY <1>1, <1>5 DEF ChunkRead, PageRecord, SameUpload
<1>6. ASSUME NEW u \in Attempts, ConnectionLost(u) PROVE Told
  <2> DEFINE p == log(page, "lost")
  <2>1. p \in PageRecord /\ SameUpload(page, p) /\ p.shown = "lost"
    BY <1>1, PageOps, ShowEffect
  <2>2. page' = Closed(p) \/ page' = Closed(page)
    BY <1>6 DEF ConnectionLost
  <2> HIDE DEF p
  <2>3. page' = Closed(p) => SameUpload(p, page') /\ page'.shown = p.shown
    BY <2>1, CloseEffect
  <2>4. page' = Closed(page) => SameUpload(page, page') /\ page'.shown = page.shown
    BY <1>1, CloseEffect
  <2> QED
    BY <2>1, <2>2, <2>3, <2>4 DEF SameUpload
<1>7. ASSUME NEW button, NEW cmd, Click(button, cmd) PROVE Told
  <2>1. page' = [page EXCEPT !.clicks = page.clicks + 1]
    BY <1>7 DEF Click
  <2> QED
    BY <1>1, <2>1 DEF PageRecord, SameUpload
<1>8. pauseUpload \/ resumeUpload \/ cancelUpload => Told
  BY <1>7 DEF pauseUpload, resumeUpload, cancelUpload
<1> QED
  BY <1>2, <1>3, <1>4, <1>5, <1>6, <1>8 DEF PageNext, PageEvent

\* What a step of the system does to what the page knows.
LEMMA SystemLearns ==
    ASSUME PagesTyped, [SystemNext]_systemVars
    PROVE  \/ Page /\ startUpload
           \/ SameUpload(page, page') /\ (page'.shown = "complete" => page.shown = "complete")
           \/ Page /\ \E u \in Attempts : \E r \in PageAnswer : Heard(u, r)
<1> DEFINE Told == SameUpload(page, page')
                   /\ (page'.shown = "complete" => page.shown = "complete")
<1>1. CASE Page
  BY <1>1, PageLearns DEF Page
<1>2. page' = page => Told
  BY DEF SameUpload
<1>3. CASE ServerRestart
  <2> DEFINE p == log(page, "lost")
  <2>1. page \in PageRecord
    BY DEF PagesTyped
  <2>2. p \in PageRecord /\ SameUpload(page, p) /\ p.shown = "lost"
    BY <2>1, PageOps, ShowEffect
  <2>3. page' = Closed(p) \/ page' = page
    BY <1>3 DEF ServerRestart
  <2> HIDE DEF p
  <2>4. SameUpload(p, Closed(p)) /\ Closed(p).shown = p.shown
    BY <2>2, CloseEffect
  <2>5. page' = Closed(p) => Told
    BY <2>2, <2>4 DEF SameUpload
  <2> QED
    BY <1>2, <2>3, <2>5
<1>4. ASSUME NEW u \in Attempts, \/ ServerReceive(u) \/ ServerStep(u)
                                 \/ \E n \in 1 .. Len(answers[u]) : GatewayRead(u, n)
      PROVE  page' = page
  BY <1>4 DEF ServerReceive, ServerStep, GatewayRead, pageVars
<1>5. Background \/ Over \/ UNCHANGED systemVars => page' = page
  BY DEF Background, Over, systemVars, pageVars
<1> QED
  BY <1>1, <1>2, <1>3, <1>4, <1>5 DEF SystemNext

\* An upload of the page goes on: once it has its session it keeps it.
LEMMA SessionKept ==
    ASSUME OneUpload, PagesTyped, PageKnows, [SystemNext]_systemVars,
           HasSession
    PROVE  HasSession' /\ page.ws = 1
<1>1. page \in PageRecord /\ page.ws \in 0 .. 1
  BY DEF PagesTyped, PageRecord, OneUpload
<1>2. page.ws = 1
  <2>1. page.ws # 0
    BY DEF PageKnows
  <2> QED
    BY <1>1, <2>1
<1>3. ~startUpload
  BY <1>2 DEF startUpload, OneUpload
<1>4. ASSUME NEW u \in Attempts, NEW r \in PageAnswer, Heard(u, r)
      PROVE  HasSession'
  <2>1. page'.sessionID = IF r.code = "RESP_READY" THEN r.sessionID ELSE page.sessionID
    BY <1>1, <1>4, HandleResponseEffect DEF Heard
  <2>2. r.sessionID \in Sessions
    BY DEF PageAnswer
  <2> QED
    BY <2>1, <2>2, Identity
<1> QED
  BY <1>2, <1>3, <1>4, SystemLearns, Identity DEF SameUpload

\* What is true of a session stays true.
LEMMA TruthKept ==
    ASSUME OneUpload, SystemInv, PageKnows, [SystemNext]_systemVars
    PROVE  TrueAnswers \subseteq TrueAnswers'
<1>1. InductiveInv /\ [Next]_vars /\ PagesTyped /\ IndexInRange
  BY ServerPartStep, SystemAssumption DEF SystemInv
<1>2. ASSUME NEW r \in PageAnswer, AnswerTrue(r) PROVE AnswerTrue(r)'
  <2> DEFINE s == r.sessionID
  <2>1. s \in Sessions /\ r.received \in Nat
    BY DEF PageAnswer
  <2>2. Known(s) =>
           /\ sess'[s].uploadID
           /\ GetProgress(sess[s]) \in Nat /\ GetProgress(sess'[s]) \in Nat
           /\ GetProgress(sess[s]) <= GetProgress(sess'[s])
    BY <1>1, <2>1, ProgressGrows DEF Known
  <2>3. IsStored(s3[s]) => s3'[s] = s3[s]
    BY <1>1, <2>1, StoredIsFinal DEF S3Kept
  <2>4. HasSession => HasSession'
    BY <1>1, SessionKept
  <2>5. r.code = "RESP_READY" => Known(s)'
    BY <1>2, <2>2 DEF AnswerTrue, Known
  <2>6. IsChunkAnswer(r) => Known(s)' /\ r.received <= GetProgress(sess'[s])
    BY <1>2, <2>1, <2>2 DEF AnswerTrue, Known
  <2>7. r.code = "RESP_COMPLETE" =>
           HasSession' /\ Known(s)' /\ IsStored(s3'[s])
    BY <1>2, <2>2, <2>3, <2>4 DEF AnswerTrue, Known
  <2> QED
    BY <2>5, <2>6, <2>7 DEF AnswerTrue, IsChunkAnswer
<1> QED
  BY <1>2 DEF TrueAnswers

\* What a handler answers when it returns is true.
LEMMA SaidIsTrue ==
    ASSUME OneUpload, SystemInv, PageKnows, NEW c \in Conns, HandlerStep(c),
           pc'[c] = "idle", page' = page, NEW r \in PageAnswer, r = Written(c)
    PROVE  AnswerTrue(r)'
<1> DEFINE s == r.sessionID
<1>1. /\ TypeOK /\ HandlerInv(c) /\ CountInv(c) /\ pc[c] \in Labels
      /\ sess \in [Sessions -> Session]
  BY DEF SystemInv, InductiveInv, AnswersInv, TypeOK
<1>2. /\ r.code = reply'[c].code /\ r.received = reply'[c].received
      /\ req[c].sid = s /\ s \in Sessions /\ r.received \in Nat
  <2>1. req' = req
    BY <1>1, HandlerAnswer
  <2>2. r.sessionID \in Sessions /\ r.received \in Nat
    BY DEF PageAnswer
  <2> QED
    BY <2>1, <2>2 DEF Written
<1>3. ASSUME r.code = "RESP_READY" PROVE Known(s)'
  <2>1. SetUploadID(c)
    BY <1>1, <1>2, <1>3, WhatIsSaid
  <2>2. sess' = [sess EXCEPT ![s] = [sess[s] EXCEPT !.uploadID = TRUE]]
    BY <1>2, <2>1 DEF SetUploadID, Update
  <2> QED
    BY <1>1, <1>2, <2>2 DEF Known, Session
<1>4. ASSUME IsChunkAnswer(r) PROVE Known(s)' /\ r.received <= GetProgress(sess'[s])
  <2>1. IsCompleteCall(c) /\ r.received = local[c].received
    BY <1>1, <1>2, <1>4, WhatIsSaid DEF IsChunkAnswer
  <2>2. sess' = sess /\ pc[c] = "IsComplete"
    BY <2>1 DEF IsCompleteCall
  <2>3. sess[s].uploadID
    BY <1>1, <1>2, <2>2 DEF HandlerInv, SessionLabels, InitLabels
  <2> QED
    BY <1>1, <1>2, <2>1, <2>2, <2>3 DEF CountInv, Known
<1>5. ASSUME r.code = "RESP_COMPLETE"
      PROVE  HasSession' /\ Known(s)' /\ IsStored(s3'[s])
  <2>1. SetCompleted(c)
    BY <1>1, <1>2, <1>5, WhatIsSaid
  <2>2. /\ pc[c] = "SetCompleted" /\ pc[c] \in SessionLabels /\ s3' = s3
        /\ sess' = [sess EXCEPT ![s] = [sess[s] EXCEPT !.state = STATE_COMPLETED,
                                                       !.updatedAt = now]]
    BY <1>1, <1>2, <2>1 DEF SetCompleted, Update, SessionLabels, InitLabels
  <2>3. sess[s].uploadID /\ IsStored(s3[s]) /\ HasSession
    BY <1>1, <1>2, <2>2 DEF HandlerInv, PageKnows
  <2>4. sess'[s].uploadID
    BY <1>1, <1>2, <2>2, <2>3 DEF Session
  <2>5. HasSession'
    BY <2>3, Identity
  <2> QED
    BY <2>2, <2>3, <2>4, <2>5 DEF Known
<1> QED
  BY <1>2, <1>3, <1>4, <1>5 DEF AnswerTrue, IsChunkAnswer

\* No step of the system puts a false answer on the way to the page.
LEMMA AnswersTrueStep ==
    ASSUME OneUpload, SystemInv, PageKnows, AnswersTrue, [SystemNext]_systemVars
    PROVE  AnswersTrue'
<1> DEFINE T == TrueAnswers'
           Goal == /\ answers' \in [Attempts -> Seq(T)]
                   /\ frames' \in [Attempts -> Seq(Seq(T) \ {<<>>})]
<1>1. /\ TypeOK /\ InductiveInv /\ PagesTyped /\ \A c \in Conns : PageRequest(c)
      /\ PagesTyped' /\ InductiveInv' /\ AnswersInv' /\ FileSized'
  BY ServerPartStep, PagesPartStep DEF SystemInv, InductiveInv
<1>2. ASSUME NEW c \in Conns, reply'[c].code \in PageCodes PROVE Written(c) \in PageAnswer
  BY <1>1, <1>2, WrittenType
<1>3. TrueAnswers \subseteq T
  BY TruthKept
<1>4. \A r \in PageAnswer : r \in T <=> AnswerTrue(r)'
  BY DEF TrueAnswers
<1>5. Goal => AnswersTrue'
  BY DEF AnswersTrue
<1> HIDE DEF T
<1>6. /\ answers \in [Attempts -> Seq(T)]
      /\ frames \in [Attempts -> Seq(Seq(T) \ {<<>>})]
  <2>1. ASSUME NEW A, NEW B, A \subseteq B
        PROVE  Seq(A) \subseteq Seq(B) /\ Seq(Seq(A) \ {<<>>}) \subseteq Seq(Seq(B) \ {<<>>})
    BY <2>1
  <2>2. /\ Seq(TrueAnswers) \subseteq Seq(T)
        /\ Seq(Seq(TrueAnswers) \ {<<>>}) \subseteq Seq(Seq(T) \ {<<>>})
    BY <1>3, <2>1
  <2>3. /\ answers \in [Attempts -> Seq(TrueAnswers)]
        /\ frames \in [Attempts -> Seq(Seq(TrueAnswers) \ {<<>>})]
    BY DEF AnswersTrue
  <2> QED
    BY <2>2, <2>3
<1>7. ASSUME NEW u \in Attempts, ServerReceive(u) PROVE Goal
  <2> DEFINE c == ConnOf[u]
  <2>1. c \in Conns
    BY ConnType
  <2>2. Refused(c) \/ pc'[c] # "idle"
    BY <1>1, <1>7, <2>1, ConnType, HandleReceives DEF ServerReceive, Started, Asked
  <2>3. ASSUME Refused(c), NEW r \in PageAnswer, r = Written(c) PROVE AnswerTrue(r)'
    <3>1. r.code \in {"RESP_AUTH_FAILED", "RESP_ERROR"}
      BY <2>3 DEF Refused, Written
    <3> QED
      BY <3>1 DEF AnswerTrue, IsChunkAnswer
  <2>4. Refused(c) => Written(c) \in PageAnswer
    BY <1>2, <2>1 DEF Refused, PageCodes, ResponseCodes
  <2>5. pc'[c] = "idle" => Written(c) \in T
    BY <1>4, <2>2, <2>3, <2>4
  <2>6. answers' \in [Attempts -> Seq(T)]
    BY <1>6, <1>7, <2>5, ReplyType DEF ServerReceive
  <2> QED
    BY <1>6, <1>7, <2>6 DEF ServerReceive
<1>8. ASSUME NEW u \in Attempts, ServerStep(u) PROVE Goal
  <2> DEFINE c == ConnOf[u]
  <2>1. c \in Conns /\ HandlerStep(c) /\ page' = page
    BY <1>8, ConnType DEF ServerStep, pageVars
  <2>2. pc'[c] = "idle" => Written(c) \in PageAnswer
    BY <1>1, <1>2, <2>1, HandlerAnswers
  <2>3. ASSUME pc'[c] = "idle", NEW r \in PageAnswer, r = Written(c) PROVE AnswerTrue(r)'
    BY <2>1, <2>3, SaidIsTrue
  <2>4. pc'[c] = "idle" => Written(c) \in T
    BY <1>4, <2>2, <2>3
  <2>5. answers' \in [Attempts -> Seq(T)]
    BY <1>6, <1>8, <2>4, ReplyType DEF ServerStep
  <2> QED
    BY <1>6, <1>8, <2>5 DEF ServerStep, pageVars
<1>9. ASSUME NEW u \in Attempts, NEW n \in 1 .. Len(answers[u]), GatewayRead(u, n)
      PROVE  Goal
  BY <1>6, <1>9, GatewayType
<1>10. <<>> \in Seq(T) /\ <<>> \in Seq(Seq(T) \ {<<>>})
  OBVIOUS
<1>11. ASSUME ServerRestart PROVE Goal
  <2>1. answers' = [u \in Attempts |-> <<>>] /\ frames' = [u \in Attempts |-> <<>>]
    BY <1>11 DEF ServerRestart
  <2> QED
    BY <1>10, <2>1
<1>12. ASSUME Page PROVE Goal
  <2>1. answers' \in [Attempts -> Seq(T)]
    BY <1>6, <1>10, <1>12 DEF Page
  <2>2. frames' = frames \/ \E u \in Attempts : \/ frames' = [frames EXCEPT ![u] = <<>>]
                                                \/ /\ frames[u] # <<>>
                                                   /\ frames' = [frames EXCEPT ![u] = Tail(@)]
    BY <1>12 DEF Page, PageNext, PageEvent, startUpload, onopen, onclose, onmessage,
       ChunkRead, ConnectionLost, pauseUpload, resumeUpload, cancelUpload, Click
  <2>3. \A u \in Attempts : frames[u] # <<>> => Tail(frames[u]) \in Seq(Seq(T) \ {<<>>})
    <3>1. ASSUME NEW f \in Seq(Seq(T) \ {<<>>}), f # <<>>
          PROVE  Tail(f) \in Seq(Seq(T) \ {<<>>})
      BY <3>1
    <3> QED
      BY <1>6, <3>1
  <2>4. frames' \in [Attempts -> Seq(Seq(T) \ {<<>>})]
    BY <1>6, <1>10, <2>2, <2>3
  <2> QED
    BY <2>1, <2>4
<1>13. Background \/ Over \/ UNCHANGED systemVars => Goal
  BY <1>6 DEF Background, Over, systemVars, pageVars
<1> QED
  BY <1>5, <1>7, <1>8, <1>9, <1>11, <1>12, <1>13 DEF SystemNext

\* No step makes what the page knows of its upload false.
LEMMA PageKnowledgeStep ==
    ASSUME OneUpload, SystemInv, OneSession, PageKnows, AnswersTrue,
           [SystemNext]_systemVars
    PROVE  /\ HasSession' => Known(page.sessionID)'
           /\ page'.ackedChunks > 0 =>
                 \E s \in Sessions : Known(s)' /\ page'.ackedChunks <= GetProgress(sess'[s])
           /\ page'.shown = "complete" => HasSession' /\ IsStored(s3'[page'.sessionID])
<1> DEFINE p == page.sessionID
           n == page.ackedChunks
           Goal == /\ HasSession' => sess'[page'.sessionID].uploadID
                   /\ page'.ackedChunks > 0 =>
                         \E s \in Sessions : /\ sess'[s].uploadID
                                             /\ page'.ackedChunks <= GetProgress(sess'[s])
                   /\ page'.shown = "complete" =>
                         HasSession' /\ IsStored(s3'[page'.sessionID])
<1> SUFFICES Goal
  BY DEF Known
<1>1. /\ InductiveInv /\ [Next]_vars /\ PagesTyped /\ IndexInRange
      /\ page \in PageRecord
  BY ServerPartStep, SystemAssumption DEF SystemInv, PagesTyped
<1>2. HasSession => p \in Sessions
  BY <1>1, Identity DEF PageRecord
<1>3. /\ HasSession => sess[p].uploadID
      /\ n > 0 => \E s \in Sessions : sess[s].uploadID /\ n <= GetProgress(sess[s])
      /\ page.shown = "complete" => HasSession /\ IsStored(s3[p])
  BY DEF PageKnows, Known
<1>4. n \in Nat
  <2>1. n \in 0 .. totalChunks
    BY <1>1 DEF PageRecord
  <2> HIDE DEF n
  <2> QED
    BY <2>1, TotalType
<1>5. \A s \in Sessions : sess[s].uploadID =>
           /\ sess'[s].uploadID
           /\ GetProgress(sess[s]) \in Nat /\ GetProgress(sess'[s]) \in Nat
           /\ GetProgress(sess[s]) <= GetProgress(sess'[s])
  BY <1>1, ProgressGrows
<1>6. \A s \in Sessions : IsStored(s3[s]) => s3'[s] = s3[s]
  BY <1>1, StoredIsFinal DEF S3Kept
<1>7. n > 0 => \E s \in Sessions : sess'[s].uploadID /\ n <= GetProgress(sess'[s])
  BY <1>3, <1>4, <1>5
<1>8. CASE SameUpload(page, page') /\ (page'.shown = "complete" => page.shown = "complete")
  <2>1. page'.sessionID = p /\ page'.ackedChunks = n
    BY <1>8 DEF SameUpload
  <2>2. HasSession' <=> HasSession
    BY <2>1, Identity
  <2> HIDE DEF p, n
  <2> QED
    BY <1>2, <1>3, <1>5, <1>6, <1>7, <1>8, <2>1, <2>2
<1>9. CASE startUpload
  <2>1. page' = setButtons(Reset(page), TRUE)
    BY <1>9 DEF startUpload
  <2>2. page'.ackedChunks = 0 /\ page'.shown = "nothing"
    BY <2>1 DEF setButtons, Reset, NoPage
  <2>3. ~HasSession'
    <3>1. page'.sessionID = NoPage.sessionID
      BY <2>1 DEF setButtons, Reset, NoPage
    <3> QED
      BY <3>1, Zenon DEF HasSession, NoPage
  <2> QED
    BY <2>2, <2>3
<1>10. ASSUME Page, NEW u \in Attempts, NEW r \in PageAnswer, Heard(u, r) PROVE Goal
  <2> DEFINE q == page'
  <2>1. AnswerTrue(r)
    <3>1. /\ frames[u] \in Seq(Seq(TrueAnswers) \ {<<>>}) /\ frames[u] # <<>>
          /\ r = Head(Head(frames[u]))
      BY <1>10 DEF AnswersTrue, Heard
    <3>2. ASSUME NEW A, NEW f \in Seq(Seq(A) \ {<<>>}), f # <<>> PROVE Head(Head(f)) \in A
      <4>1. Head(f) \in Seq(A) /\ Head(f) # <<>>
        BY <3>2
      <4> QED
        BY <4>1
    <3>3. r \in TrueAnswers
      BY <3>1, <3>2
    <3> QED
      BY <3>3 DEF TrueAnswers
  <2>2. /\ q.sessionID = IF r.code = "RESP_READY" THEN r.sessionID ELSE p
        /\ q.ackedChunks = IF IsChunkAnswer(r) THEN r.received ELSE n
        /\ q.shown = "complete" => \/ r.code = "RESP_COMPLETE"
                                   \/ IsChunkAnswer(r) /\ page.shown = "complete"
    BY <1>1, <1>10, HandleResponseEffect DEF Heard
  <2>3. r.sessionID \in Sessions /\ sess' = sess /\ s3' = s3
    BY <1>10 DEF Page, vars, PageAnswer
  <2>4. /\ r.code = "RESP_READY" => sess[r.sessionID].uploadID
        /\ IsChunkAnswer(r) => /\ sess[r.sessionID].uploadID
                               /\ r.received <= GetProgress(sess[r.sessionID])
        /\ r.code = "RESP_COMPLETE" => /\ HasSession /\ sess[r.sessionID].uploadID
                                       /\ IsStored(s3[r.sessionID])
    BY <2>1 DEF AnswerTrue, Known
  <2>5. HasSession /\ sess[r.sessionID].uploadID => r.sessionID = p
    BY <1>2, <1>3, <2>3 DEF OneSession, Known
  <2>6. HasSession /\ r.code # "RESP_READY" => HasSession'
    BY <2>2, Identity
  <2> HIDE DEF p, n, q, Goal
  <2>7. HasSession' => sess'[q.sessionID].uploadID
    <3>1. CASE r.code = "RESP_READY"
      BY <2>2, <2>3, <2>4, <3>1
    <3>2. CASE r.code # "RESP_READY"
      <4>1. HasSession' => HasSession
        <5>1. page'.sessionID = page.sessionID
          BY <2>2, <3>2 DEF p, q
        <5> QED
          BY <5>1, Identity
      <4> QED
        BY <1>3, <2>2, <2>3, <3>2, <4>1
    <3> QED
      BY <3>1, <3>2
  <2>8. q.ackedChunks > 0 => \E s \in Sessions : /\ sess'[s].uploadID
                                                 /\ q.ackedChunks <= GetProgress(sess'[s])
    <3>1. CASE IsChunkAnswer(r)
      BY <2>2, <2>3, <2>4, <3>1
    <3>2. CASE ~IsChunkAnswer(r)
      BY <1>7, <2>2, <3>2
    <3> QED
      BY <3>1, <3>2
  <2>9. q.shown = "complete" => HasSession' /\ IsStored(s3'[q.sessionID])
    <3>1. ASSUME r.code = "RESP_COMPLETE"
          PROVE  HasSession' /\ IsStored(s3'[q.sessionID])
      BY <2>2, <2>3, <2>4, <2>5, <2>6, <3>1
    <3>2. ASSUME IsChunkAnswer(r), page.shown = "complete"
          PROVE  HasSession' /\ IsStored(s3'[q.sessionID])
      BY <1>3, <2>2, <2>3, <2>6, <3>2 DEF IsChunkAnswer
    <3> QED
      BY <2>2, <3>1, <3>2
  <2> QED
    BY <2>7, <2>8, <2>9 DEF Goal, q
<1> QED
  BY <1>1, <1>8, <1>9, <1>10, SystemLearns

\* The page asks about its session only when it has one.
LEMMA PageAsksStep ==
    ASSUME OneUpload, SystemInv, OneSession, PageKnows, [SystemNext]_systemVars
    PROVE  /\ page'.ws = 0 => /\ socket'[1] = "none" /\ ~HasSession'
                              /\ page'.ackedChunks = 0 /\ page'.shown # "complete"
           /\ \A k \in DOMAIN requests'[1] : AboutSession(requests'[1][k]) => HasSession'
           /\ \A c \in Conns : pc'[c] \in SessionLabels => HasSession'
<1>1. /\ TypeOK /\ PagesTyped /\ Attempts = {1}
      /\ page \in PageRecord /\ requests \in [Attempts -> Seq(Message)]
      /\ socket \in [Attempts -> SocketStates]
  BY OnlyAttempt DEF SystemInv, InductiveInv, PagesTyped
<1>2. HasSession => HasSession'
  BY <1>1, SessionKept
<1>3. /\ page.ws = 0 => /\ socket[1] = "none" /\ ~HasSession
                        /\ page.ackedChunks = 0 /\ page.shown # "complete"
      /\ \A k \in DOMAIN requests[1] : AboutSession(requests[1][k]) => HasSession
      /\ \A c \in Conns : pc[c] \in SessionLabels => HasSession
  BY DEF PageKnows
<1>4. ASSUME page'.ws = 0
      PROVE  /\ socket'[1] = "none" /\ ~HasSession'
             /\ page'.ackedChunks = 0 /\ page'.shown # "complete"
  <2>1. ~startUpload
    <3> DEFINE p == Reset(page)
    <3>1. p.ws = page.ws + 1 /\ "ws" \in DOMAIN p
      BY DEF Reset, NoPage
    <3>2. startUpload => page' = setButtons(p, TRUE)
      BY DEF startUpload
    <3> HIDE DEF p
    <3>3. startUpload => page'.ws = page.ws + 1
      BY <3>1, <3>2 DEF setButtons
    <3>4. page.ws \in Nat
      <4>1. page.ws \in 0 .. MaxUploads
        BY <1>1 DEF PageRecord
      <4> QED
        BY <4>1
    <3> QED
      BY <1>4, <3>3, <3>4
  <2>2. page.ws = 0
    <3>1. ASSUME NEW u \in Attempts, NEW r \in PageAnswer, Heard(u, r)
          PROVE  page'.ws = page.ws
      BY <1>1, <3>1, HandleResponseEffect DEF Heard
    <3> QED
      BY <1>1, <1>4, <2>1, <3>1, SystemLearns DEF SameUpload
  <2>3. socket[1] = "none"
    BY <1>3, <2>2
  <2>4. socket'[1] = "none"
    <3>1. Page => socket'[1] = "none"
      BY <1>1, <2>1, <2>3 DEF Page, PageNext, PageEvent, onopen, onclose, onmessage,
         ChunkRead, ConnectionLost, pauseUpload, resumeUpload, cancelUpload, Click
    <3>2. ServerRestart => socket'[1] = "none"
      BY <1>1, <2>3 DEF ServerRestart, WSOpen
    <3>3. ASSUME NEW u \in Attempts, \/ ServerReceive(u) \/ ServerStep(u)
                                     \/ \E n \in 1 .. Len(answers[u]) : GatewayRead(u, n)
          PROVE  socket' = socket
      BY <3>3 DEF ServerReceive, ServerStep, GatewayRead, pageVars
    <3>4. Background \/ Over \/ UNCHANGED systemVars => socket' = socket
      BY DEF Background, Over, systemVars, pageVars
    <3> QED
      BY <2>3, <3>1, <3>2, <3>3, <3>4 DEF SystemNext
  <2>5. ASSUME NEW u \in Attempts, NEW r \in PageAnswer, Heard(u, r) PROVE FALSE
    BY <1>1, <2>3, <2>5 DEF Heard
  <2>6. /\ SameUpload(page, page') /\ (page'.shown = "complete" => page.shown = "complete")
    BY <1>1, <2>1, <2>5, SystemLearns
  <2>7. HasSession' <=> HasSession
    BY <2>6, Identity DEF SameUpload
  <2> QED
    BY <1>3, <2>2, <2>4, <2>6, <2>7 DEF SameUpload
<1>5. ASSUME NEW k \in DOMAIN requests'[1], AboutSession(requests'[1][k]) PROVE HasSession
  <2>1. CASE Page
    BY <1>1, <1>5, <2>1, PageTraffic DEF Page
  <2>2. requests'[1] = requests[1] => HasSession
    BY <1>3, <1>5
  <2>3. requests'[1] # <<>>
    BY <1>5
  <2>4. ServerRestart => FALSE
    BY <1>1, <2>3 DEF ServerRestart
  <2>5. CASE ServerReceive(1)
    <3> DEFINE q == requests[1]
    <3>1. /\ q \in Seq(Message) /\ q # <<>> /\ requests'[1] = Tail(q)
      BY <1>1, <2>5 DEF ServerReceive
    <3>2. \A j \in DOMAIN q : q[j].cmd = "CMD_INIT_UPLOAD" => j = 1
      BY DEF OneSession
    <3> HIDE DEF q
    <3>3. k + 1 \in DOMAIN q /\ requests'[1][k] = q[k + 1]
      BY <1>5, <3>1, <3>2, TailMessages
    <3> QED
      BY <1>3, <1>5, <3>3 DEF q
  <2>6. \/ ServerStep(1) \/ \E n \in 1 .. Len(answers[1]) : GatewayRead(1, n)
        => requests'[1] = requests[1]
    BY DEF ServerStep, GatewayRead, pageVars
  <2>7. Background \/ Over \/ UNCHANGED systemVars => requests' = requests
    BY DEF Background, Over, systemVars, pageVars
  <2> QED
    BY <1>1, <2>1, <2>2, <2>4, <2>5, <2>6, <2>7 DEF SystemNext
<1>6. ASSUME NEW c \in Conns, pc'[c] \in SessionLabels PROVE HasSession
  <2>1. pc'[c] # "idle" /\ pc'[c] # "CreateSession"
    BY <1>6 DEF SessionLabels, InitLabels
  <2>2. pc'[c] = pc[c] => HasSession
    BY <1>3, <1>6
  <2>3. HandlerStep(c) => HasSession
    BY <1>1, <1>3, <1>6, CreationFlow
  <2>4. ASSUME NEW u \in Attempts, c = ConnOf[u], requests[u] # <<>>,
               Head(requests[u]) \in Message, Handle(c, Head(requests[u]))
        PROVE  HasSession
    <3> DEFINE m == Head(requests[1])
    <3>1. u = 1 /\ m \in Message /\ Handle(c, m)
      BY <1>1, <2>4
    <3>2. Asked(c, m)
      BY <1>1, <2>1, <3>1, HandleReceives DEF Refused, Started
    <3>3. AboutSession(m)
      BY <3>2, Identity DEF Asked
    <3>4. m = requests[1][1] /\ 1 \in DOMAIN requests[1]
      BY <1>1, <2>4, <3>1
    <3> QED
      BY <1>3, <3>3, <3>4
  <2> QED
    BY <1>1, <2>1, <2>2, <2>3, <2>4, ConnMoves
<1> QED
  BY <1>2, <1>4, <1>5, <1>6

\* Before the upload nothing is known and nothing said.
LEMMA InitOneUploadInv == ASSUME OneUpload PROVE SystemInit => OneUploadInv
<1> SUFFICES ASSUME SystemInit PROVE OneUploadInv
  OBVIOUS
<1>1. SystemInv /\ Attempts = {1}
  BY InitSystemInv, OnlyAttempt
<1>2. /\ sess = [s \in Sessions |-> NoSession] /\ pc = [c \in Conns |-> "idle"]
      /\ page = NoPage /\ socket = [u \in Attempts |-> "none"]
      /\ requests = [u \in Attempts |-> <<>>] /\ frames = [u \in Attempts |-> <<>>]
      /\ answers = [u \in Attempts |-> <<>>]
  BY DEF SystemInit, Init, PageInit
<1>3. \A s \in Sessions : ~Known(s) /\ \A i \in ChunkIndexes : sess[s].received[i] = NoChunk
  BY <1>2 DEF Known, NoSession
<1>4. ~HasSession
  BY <1>2, Zenon DEF HasSession, NoPage
<1>5. page.ackedChunks = 0 /\ page.shown = "nothing"
  BY <1>2 DEF NoPage
<1>6. \A c \in Conns : pc[c] \notin InitLabels /\ pc[c] \notin SessionLabels
  BY <1>2 DEF InitLabels, SessionLabels
<1>7. socket[1] = "none" /\ requests[1] = <<>> /\ DOMAIN requests[1] = {}
  BY <1>1, <1>2
<1>8. OneSession
  BY <1>3, <1>6, <1>7 DEF OneSession, NoneKnown
<1>9. FileOnly
  BY <1>3, <1>6 DEF FileOnly
<1>10. PageKnows
  BY <1>4, <1>5, <1>6, <1>7 DEF PageKnows
<1>11. AnswersTrue
  <2>1. <<>> \in Seq(TrueAnswers) /\ <<>> \in Seq(Seq(TrueAnswers) \ {<<>>})
    OBVIOUS
  <2> QED
    BY <1>2, <2>1 DEF AnswersTrue
<1> QED
  BY <1>1, <1>8, <1>9, <1>10, <1>11 DEF OneUploadInv

\* What the page knows of one upload, the server knows as well.
LEMMA OneUploadInvariant == ASSUME OneUpload PROVE SystemSpec => []OneUploadInv
<1>1. OneUploadInv /\ [SystemNext]_systemVars => OneUploadInv'
  <2> SUFFICES ASSUME OneUploadInv, [SystemNext]_systemVars PROVE OneUploadInv'
    OBVIOUS
  <2>1. SystemInv /\ OneSession /\ FileOnly /\ PageKnows /\ AnswersTrue
    BY DEF OneUploadInv
  <2>2. SystemInv'
    BY <2>1, ServerPartStep, PagesPartStep DEF SystemInv
  <2>3. OneSession' /\ FileOnly' /\ AnswersTrue'
    BY <2>1, OneSessionStep, FileOnlyStep, AnswersTrueStep
  <2>4. PageKnows'
    BY <2>1, PageKnowledgeStep, PageAsksStep DEF PageKnows
  <2> QED
    BY <2>2, <2>3, <2>4 DEF OneUploadInv
<1> QED
  BY <1>1, InitOneUploadInv, PTL DEF SystemSpec

\* "Upload complete!" is shown only of a stored object that is the user's file,
\* chunk by chunk: over all crashes, lost connections, clicks, expiring tokens
\* and the clean-up.  (It takes one upload on the page: with two the answers of
\* the old one reach the new one's counters.)
THEOREM CompletedUploadsAreFiles ==
    ASSUME OneUpload PROVE SystemSpec => []CompletedIsFile
<1>1. OneUploadInv => CompletedIsFile
  <2> SUFFICES ASSUME OneUploadInv, page.shown = "complete"
               PROVE  /\ HasSession /\ IsStored(s3[page.sessionID])
                      /\ \A i \in Chunk :
                            s3[page.sessionID].parts[PartNumber(i)] = Files[page.ws][i]
    BY Zenon DEF CompletedIsFile, HasSession
  <2> DEFINE s == page.sessionID
  <2>1. /\ InductiveInv /\ TypeOK /\ FileSized /\ FileOnly /\ PageKnows
        /\ page \in PageRecord
    BY DEF OneUploadInv, SystemInv, InductiveInv, PagesTyped
  <2>2. HasSession /\ IsStored(s3[s]) /\ Known(s) /\ page.ws # 0
    BY <2>1 DEF PageKnows
  <2>3. s \in Sessions /\ page.ws = 1
    <3>1. page.sessionID \in Ids /\ page.ws \in 0 .. 1
      BY <2>1 DEF PageRecord, OneUpload
    <3> HIDE DEF s
    <3> QED
      BY <2>2, <3>1, Identity DEF s
  <2>4. /\ Received(sess[s]) = 0 .. sess[s].totalChunks - 1
        /\ \A i \in ChunkIndexes : s3[s].parts[PartNumber(i)] = sess[s].received[i]
    BY <2>1, <2>2, <2>3, SystemAssumption DEF InductiveInv, StoredObjectIsWhole
  <2>5. sess[s].totalChunks = totalChunks
    BY <2>1, <2>2, <2>3 DEF FileSized, InductiveInv, SessionInv, Known
  <2>6. ASSUME NEW i \in Chunk PROVE s3[s].parts[PartNumber(i)] = Files[page.ws][i]
    <3>1. i \in ChunkIndexes /\ i \in Received(sess[s])
      BY <2>4, <2>5, <2>6, SystemAssumption DEF Chunk
    <3>2. sess[s].received[i] = Files[1][i]
      BY <2>1, <2>3, <3>1 DEF Received, FileOnly
    <3> QED
      BY <2>3, <2>4, <3>1, <3>2
  <2> QED
    BY <2>2, <2>6
<1> QED
  BY <1>1, OneUploadInvariant, PTL

\* The progress that the page shows never runs ahead of what the server has
\* recorded, however long answers are on their way.
THEOREM ShownProgressIsReal ==
    ASSUME OneUpload PROVE SystemSpec => []ProgressIsReal
<1>1. OneUploadInv => ProgressIsReal
  <2> SUFFICES ASSUME OneUploadInv, HasSession
               PROVE  page.ackedChunks <= Cardinality(Received(sess[page.sessionID]))
    BY Zenon DEF ProgressIsReal, HasSession
  <2> DEFINE s == page.sessionID
             n == page.ackedChunks
  <2>1. TypeOK /\ OneSession /\ PageKnows /\ page \in PageRecord
    BY DEF OneUploadInv, SystemInv, InductiveInv, PagesTyped
  <2>2. s \in Sessions /\ n \in 0 .. totalChunks
    <3>1. page.sessionID \in Ids /\ n \in 0 .. totalChunks
      BY <2>1 DEF PageRecord
    <3> QED
      BY <3>1, Identity
  <2>3. GetProgress(sess[s]) \in Nat
    <3>1. sess[s] \in Session
      BY <2>1, <2>2 DEF TypeOK
    <3> QED
      BY <3>1, ReceivedFinite
  <2>4. n > 0 => n <= GetProgress(sess[s])
    <3>1. Known(s)
      BY <2>1 DEF PageKnows
    <3>2. n > 0 => \E t \in Sessions : Known(t) /\ n <= GetProgress(sess[t])
      BY <2>1 DEF PageKnows
    <3> HIDE DEF n
    <3> QED
      BY <2>1, <2>2, <3>1, <3>2 DEF OneSession
  <2>5. n <= GetProgress(sess[s])
    <3> HIDE DEF n, s
    <3> QED
      BY <2>2, <2>3, <2>4, TotalType
  <2> QED
    BY <2>5 DEF GetProgress
<1> QED
  BY <1>1, OneUploadInvariant, PTL

-----------------------------------------------------------------------------
(* One chunk at a time.                                                    *)

\* The user starts at most two uploads, none while a chunk is being read, and
\* uses no buttons.
SequentialUse == MaxUploads <= 2 /\ PromptReads /\ Clicks = {}

\* Nothing is under way between upload u's WebSocket and the server.
Quiet(u) ==
    /\ requests[u] = <<>> /\ pc[ConnOf[u]] = "idle"
    /\ answers[u] = <<>> /\ frames[u] = <<>>

\* Chunks being read, messages, the request in progress, and answers.
UnderWay(u) ==
    Len(page.reading) + Len(requests[u]) + (IF pc[ConnOf[u]] = "idle" THEN 0 ELSE 1)
      + Len(answers[u]) + Len(frames[u])

\* Uploads take turns, and the page and the server take turns in each.
InTurn ==
    /\ \A u \in Attempts :
          /\ u < page.ws => socket[u] \in {"closing", "closed"}
          /\ u > page.ws => socket[u] = "none"
          /\ socket[u] \in {"none", "connecting"} => Quiet(u)
          /\ socket[u] = "connecting" => page.reading = <<>>
          /\ socket[u] = "open" => UnderWay(u) <= 1
    /\ page.ws = 1 /\ ~page.uploading => socket[1] \in {"closing", "closed"}
    /\ page.ws = 0 => page.reading = <<>>

\* What is under way for an upload changes only when its own page, gateway or
\* handler acts.
Untouched(u) ==
    /\ requests'[u] = requests[u] /\ pc'[ConnOf[u]] = pc[ConnOf[u]]
    /\ answers'[u] = answers[u] /\ frames'[u] = frames[u]

\* The lengths of what is under way are numbers.
LEMMA LengthTypes ==
    ASSUME PagesTyped, NEW u \in Attempts
    PROVE  /\ Len(page.reading) \in Nat /\ Len(requests[u]) \in Nat
           /\ Len(answers[u]) \in Nat /\ Len(frames[u]) \in Nat
           /\ page.reading \in Seq(ChunkRef) /\ requests[u] \in Seq(Message)
           /\ answers[u] \in Seq(PageAnswer) /\ frames[u] \in Seq(Seq(PageAnswer) \ {<<>>})
           /\ page.ws \in Nat
<1>1. /\ page.reading \in Seq(ChunkRef) /\ requests[u] \in Seq(Message)
      /\ answers[u] \in Seq(PageAnswer) /\ frames[u] \in Seq(Seq(PageAnswer) \ {<<>>})
      /\ page.ws \in 0 .. MaxUploads
  BY DEF PagesTyped, PageRecord
<1>2. page.ws \in Nat
  BY <1>1
<1> QED
  BY <1>1, <1>2

\* When only one upload's traffic moves, and does not become more, uploads
\* stay in turn.
LEMMA OneMoves ==
    ASSUME InTurn, page' = page, socket' = socket, NEW u \in Attempts,
           \A v \in Attempts \ {u} : Untouched(v),
           socket[u] \notin {"none", "connecting"},
           socket[u] = "open" => UnderWay(u)' <= 1
    PROVE  InTurn'
<1>1. ASSUME NEW v \in Attempts
      PROVE  /\ socket[v] \in {"none", "connecting"} => Quiet(v)'
             /\ socket[v] = "open" => UnderWay(v)' <= 1
  <2>1. CASE v = u
    BY <2>1
  <2>2. CASE v # u
    <3>1. Untouched(v)
      BY <2>2
    <3>2. Quiet(v)' <=> Quiet(v)
      BY <3>1 DEF Untouched, Quiet
    <3>3. UnderWay(v)' = UnderWay(v)
      BY <3>1 DEF Untouched, UnderWay
    <3> QED
      BY <3>2, <3>3 DEF InTurn
  <2> QED
    BY <2>1, <2>2
<1> QED
  BY <1>1 DEF InTurn

\* A handler of another upload leaves a connection alone.
LEMMA OthersUntouched ==
    ASSUME TypeOK, PagesTyped, NEW u \in Attempts, NEW v \in Attempts \ {u},
           \/ ServerReceive(u) \/ ServerStep(u)
           \/ \E n \in 1 .. Len(answers[u]) : GatewayRead(u, n)
    PROVE  Untouched(v)
<1>1. ConnOf[u] \in Conns /\ ConnOf[v] \in Conns \ {ConnOf[u]}
  BY SystemAssumption
<1>2. /\ requests \in [Attempts -> Seq(Message)] /\ answers \in [Attempts -> Seq(PageAnswer)]
      /\ frames \in [Attempts -> Seq(Seq(PageAnswer) \ {<<>>})]
  BY DEF PagesTyped
<1>3. CASE ServerReceive(u)
  <2>1. pc'[ConnOf[v]] = pc[ConnOf[v]]
    BY <1>1, <1>3, ConnType, HandleReceives, ReceiveFrame DEF ServerReceive
  <2>2. requests'[v] = requests[v] /\ frames' = frames /\ Reply(u)
    BY <1>2, <1>3 DEF ServerReceive
  <2>3. answers'[v] = answers[v]
    BY <1>2, <2>2 DEF Reply
  <2> QED
    BY <2>1, <2>2, <2>3 DEF Untouched
<1>4. CASE ServerStep(u)
  <2>1. pc'[ConnOf[v]] = pc[ConnOf[v]]
    BY <1>1, <1>4, HandlerFrame DEF ServerStep
  <2>2. requests' = requests /\ frames' = frames /\ Reply(u)
    BY <1>4 DEF ServerStep, pageVars
  <2>3. answers'[v] = answers[v]
    BY <1>2, <2>2 DEF Reply
  <2> QED
    BY <2>1, <2>2, <2>3 DEF Untouched
<1>5. ASSUME NEW n \in 1 .. Len(answers[u]), GatewayRead(u, n) PROVE Untouched(v)
  BY <1>2, <1>5 DEF GatewayRead, Untouched, vars
<1> QED
  BY <1>3, <1>4, <1>5

\* The server and the gateway pass on what they get, one for one.
LEMMA ServerInTurn ==
    ASSUME TypeOK, PagesTyped, InTurn, NEW u \in Attempts,
           \/ ServerReceive(u) \/ ServerStep(u)
           \/ \E n \in 1 .. Len(answers[u]) : GatewayRead(u, n)
    PROVE  InTurn'
<1> DEFINE c == ConnOf[u]
           q == requests[u]
           a == answers[u]
           f == frames[u]
           busy == IF pc[c] = "idle" THEN 0 ELSE 1
           busy2 == IF pc'[c] = "idle" THEN 0 ELSE 1
           more == IF pc'[c] = "idle" THEN 1 ELSE 0
<1>1. /\ Len(page.reading) \in Nat /\ Len(q) \in Nat /\ Len(a) \in Nat /\ Len(f) \in Nat
      /\ q \in Seq(Message) /\ a \in Seq(PageAnswer) /\ f \in Seq(Seq(PageAnswer) \ {<<>>})
      /\ c \in Conns
  BY LengthTypes, ConnType
<1>2. /\ requests \in [Attempts -> Seq(Message)] /\ answers \in [Attempts -> Seq(PageAnswer)]
      /\ frames \in [Attempts -> Seq(Seq(PageAnswer) \ {<<>>})]
  BY DEF PagesTyped
<1>3. /\ socket[u] \in {"none", "connecting"} =>
             q = <<>> /\ pc[c] = "idle" /\ a = <<>> /\ f = <<>>
      /\ socket[u] = "open" => Len(page.reading) + Len(q) + busy + Len(a) + Len(f) <= 1
  BY DEF InTurn, Quiet, UnderWay
<1>4. /\ page' = page /\ socket' = socket
      /\ \A v \in Attempts \ {u} : Untouched(v)
  <2>1. page' = page /\ socket' = socket
    BY DEF ServerReceive, ServerStep, GatewayRead, pageVars
  <2> QED
    BY <2>1, OthersUntouched
<1>5. ASSUME socket[u] = "open", Reply(u)
      PROVE  Len(answers'[u]) = Len(a) + more
  <2>1. CASE pc'[c] = "idle"
    <3> DEFINE r == Written(c)
    <3>1. answers'[u] = Append(a, r)
      BY <1>2, <1>5, <2>1 DEF Reply
    <3> HIDE DEF r, a
    <3> QED
      BY <1>1, <2>1, <3>1
  <2>2. CASE pc'[c] # "idle"
    BY <1>1, <1>2, <1>5, <2>2 DEF Reply
  <2> QED
    BY <2>1, <2>2
<1>6. busy2 + more = 1 /\ busy \in {0, 1} /\ busy2 \in {0, 1} /\ more \in {0, 1}
  OBVIOUS
<1>7. UnderWay(u)' = Len(page'.reading) + Len(requests'[u]) + busy2
                       + Len(answers'[u]) + Len(frames'[u])
  BY DEF UnderWay
<1>8. CASE ServerReceive(u)
  <2>1. /\ q # <<>> /\ pc[c] = "idle" /\ requests'[u] = Tail(q) /\ frames' = frames
        /\ Reply(u)
    BY <1>2, <1>8 DEF ServerReceive
  <2>2. Len(Tail(q)) = Len(q) - 1
    <3> HIDE DEF q
    <3> QED
      BY <1>1, <2>1
  <2>3. socket[u] = "open" => UnderWay(u)' <= 1
    <3> SUFFICES ASSUME socket[u] = "open" PROVE UnderWay(u)' <= 1
      OBVIOUS
    <3>1. Len(answers'[u]) = Len(a) + more
      BY <1>5, <2>1
    <3>2. busy = 0
      BY <2>1
    <3>3. UnderWay(u)' = Len(page.reading) + (Len(q) - 1) + busy2 + (Len(a) + more) + Len(f)
      BY <1>4, <1>7, <2>1, <2>2, <3>1
    <3>4. Len(page.reading) + Len(q) + busy + Len(a) + Len(f) <= 1
      BY <1>3
    <3> DEFINE r0 == Len(page.reading)
               q0 == Len(q)
               a0 == Len(a)
               f0 == Len(f)
               w == UnderWay(u)'
    <3>5. r0 \in Nat /\ q0 \in Nat /\ a0 \in Nat /\ f0 \in Nat
      BY <1>1
    <3>6. w = r0 + (q0 - 1) + busy2 + (a0 + more) + f0 /\ r0 + q0 + busy + a0 + f0 <= 1
      BY <3>3, <3>4
    <3> HIDE DEF q, a, f, busy, busy2, more, r0, q0, a0, f0, w
    <3>7. w <= 1
      BY <1>6, <3>2, <3>5, <3>6
    <3> QED
      BY <3>7 DEF w
  <2> QED
    BY <1>3, <1>4, <2>1, <2>3, OneMoves
<1>9. CASE ServerStep(u)
  <2>1. requests' = requests /\ frames' = frames /\ Reply(u) /\ HandlerStep(c)
    BY <1>9 DEF ServerStep, pageVars
  <2>2. pc[c] # "idle" /\ busy = 1
    BY <1>1, <2>1, HandlerFrame
  <2>3. socket[u] = "open" => UnderWay(u)' <= 1
    <3> SUFFICES ASSUME socket[u] = "open" PROVE UnderWay(u)' <= 1
      OBVIOUS
    <3>1. Len(answers'[u]) = Len(a) + more
      BY <1>5, <2>1
    <3>2. UnderWay(u)' = Len(page.reading) + Len(q) + busy2 + (Len(a) + more) + Len(f)
      BY <1>4, <1>7, <2>1, <3>1
    <3>3. Len(page.reading) + Len(q) + busy + Len(a) + Len(f) <= 1
      BY <1>3
    <3> DEFINE r0 == Len(page.reading)
               q0 == Len(q)
               a0 == Len(a)
               f0 == Len(f)
               w == UnderWay(u)'
    <3>4. r0 \in Nat /\ q0 \in Nat /\ a0 \in Nat /\ f0 \in Nat
      BY <1>1
    <3>5. w = r0 + q0 + busy2 + (a0 + more) + f0 /\ r0 + q0 + busy + a0 + f0 <= 1
      BY <3>2, <3>3
    <3>6. busy = 1
      BY <2>2
    <3> HIDE DEF q, a, f, busy, busy2, more, r0, q0, a0, f0, w
    <3>7. w <= 1
      BY <1>6, <3>4, <3>5, <3>6
    <3> QED
      BY <3>7 DEF w
  <2> QED
    BY <1>3, <1>4, <2>2, <2>3, OneMoves
<1>10. ASSUME NEW n \in 1 .. Len(a), GatewayRead(u, n) PROVE InTurn'
  <2> DEFINE m == SubSeq(a, 1, n)
             rest == SubSeq(a, n + 1, Len(a))
  <2>1. /\ requests' = requests /\ pc' = pc
        /\ frames'[u] = Append(f, m) /\ answers'[u] = rest
    BY <1>2, <1>10 DEF GatewayRead, vars
  <2>2. Len(Append(f, m)) = Len(f) + 1 /\ Len(rest) = Len(a) - n /\ n \in Nat /\ n >= 1
    <3> HIDE DEF a, f
    <3>1. m \in Seq(PageAnswer) /\ Len(m) = n /\ n \in Nat /\ n >= 1
      BY <1>1, <1>10
    <3>2. Len(rest) = Len(a) - n
      BY <1>1, <1>10
    <3> HIDE DEF m
    <3>3. Len(Append(f, m)) = Len(f) + 1
      BY <1>1
    <3> QED
      BY <3>1, <3>2, <3>3
  <2>3. socket[u] = "open" => UnderWay(u)' <= 1
    <3> SUFFICES ASSUME socket[u] = "open" PROVE UnderWay(u)' <= 1
      OBVIOUS
    <3>1. UnderWay(u)' = Len(page.reading) + Len(q) + busy + (Len(a) - n) + (Len(f) + 1)
      BY <1>4, <1>7, <2>1, <2>2
    <3>2. Len(page.reading) + Len(q) + busy + Len(a) + Len(f) <= 1
      BY <1>3
    <3> DEFINE r0 == Len(page.reading)
               q0 == Len(q)
               a0 == Len(a)
               f0 == Len(f)
               w == UnderWay(u)'
    <3>3. r0 \in Nat /\ q0 \in Nat /\ a0 \in Nat /\ f0 \in Nat
      BY <1>1
    <3>4. w = r0 + q0 + busy + (a0 - n) + (f0 + 1) /\ r0 + q0 + busy + a0 + f0 <= 1
      BY <3>1, <3>2
    <3>5. n \in Nat /\ n >= 1
      BY <2>2
    <3> HIDE DEF q, a, f, busy, busy2, more, r0, q0, a0, f0, w
    <3>6. w <= 1
      BY <1>6, <3>3, <3>4, <3>5
    <3> QED
      BY <3>6 DEF w
  <2>4. a # <<>>
    BY <1>10
  <2> QED
    BY <1>3, <1>4, <2>3, <2>4, OneMoves
<1> QED
  BY <1>8, <1>9, <1>10

\* sendNextChunk reads one chunk at most and leaves the buttons alone.
LEMMA SendNextReads ==
    ASSUME NEW p \in PageRecord
    PROVE  /\ Len(sendNextChunk(p).reading) <= Len(p.reading) + 1
           /\ sendNextChunk(p).uploading = p.uploading
<1>1. p.reading \in Seq(ChunkRef)
  BY DEF PageRecord
<1>2. PICK x : sendNextChunk(p).reading \in {p.reading, Append(p.reading, x)}
  BY DEF sendNextChunk, PageRecord
<1>3. sendNextChunk(p).uploading = p.uploading
  BY DEF sendNextChunk, PageRecord
<1>4. ASSUME NEW s \in Seq(ChunkRef), NEW t \in {s, Append(s, x)}
      PROVE  Len(t) <= Len(s) + 1
  <2>1. Len(s) \in Nat /\ Len(Append(s, x)) = Len(s) + 1
    OBVIOUS
  <2> QED
    BY <1>4, <2>1
<1> QED
  BY <1>1, <1>2, <1>3, <1>4

\* The page answers an answer with one chunk at most, and only an answer that
\* ends the upload makes it possible to start another.
LEMMA HandleResponseReads ==
    ASSUME NEW p \in PageRecord, NEW r \in PageAnswer
    PROVE  /\ Len(handleResponse(p, r).reading) <= Len(p.reading) + 1
           /\ ~EndsUpload(r) => handleResponse(p, r).uploading = p.uploading
<1> DEFINE q == handleResponse(p, r)
           Goal == /\ Len(q.reading) <= Len(p.reading) + 1
                   /\ ~EndsUpload(r) => q.uploading = p.uploading
<1> SUFFICES Goal
  OBVIOUS
<1>1. /\ r.code \in PageCodes /\ r.sessionID \in Sessions /\ r.received \in Nat
      /\ IsChunkAnswer(r) => r.received <= totalChunks
      /\ r.code = "RESP_RESUMED" => r.missing \subseteq Chunk
  BY DEF PageAnswer
<1>2. /\ totalChunks \in Nat /\ log(p, "nothing") \in PageRecord
      /\ log(p, "nothing").reading = p.reading /\ log(p, "nothing").uploading = p.uploading
  <2>1. totalChunks \in Nat /\ log(p, "nothing") \in PageRecord
    BY TotalType, PageOps
  <2>2. log(p, "nothing").reading = p.reading /\ log(p, "nothing").uploading = p.uploading
    BY DEF log, PageRecord
  <2> QED
    BY <2>1, <2>2
<1>3. Len(p.reading) <= Len(p.reading) + 1
  <2>1. p.reading \in Seq(ChunkRef)
    BY DEF PageRecord
  <2> QED
    BY <2>1
<1>4. ASSUME NEW s \in PageRecord, s.reading = p.reading, s.uploading = p.uploading,
             q = sendNextChunk(s)
      PROVE  Goal
  BY <1>4, SendNextReads
<1>5. ASSUME q.reading = p.reading, q.uploading = p.uploading \/ EndsUpload(r) PROVE Goal
  BY <1>3, <1>5
<1> HIDE DEF Goal
<1>6. CASE r.code = "RESP_READY"
  <2> DEFINE s == [log(p, "nothing") EXCEPT !.sessionID = r.sessionID]
  <2>1. s \in PageRecord /\ s.reading = p.reading /\ s.uploading = p.uploading
    BY <1>1, <1>2 DEF PageRecord, Ids
  <2>2. q = sendNextChunk(s)
    BY <1>6 DEF handleResponse
  <2> HIDE DEF s, q
  <2> QED
    BY <1>4, <2>1, <2>2
<1>7. CASE IsChunkAnswer(r)
  <2> DEFINE s == Acked(p, r)
  <2>1. r.received \in 0 .. totalChunks
    BY <1>1, <1>2, <1>7
  <2>2. s \in PageRecord /\ s.reading = p.reading /\ s.uploading = p.uploading
    BY <2>1 DEF PageRecord, Acked
  <2>3. q = sendNextChunk(s)
    BY <1>7 DEF handleResponse, IsChunkAnswer
  <2> HIDE DEF s, q
  <2> QED
    BY <1>4, <2>2, <2>3
<1>8. CASE r.code = "RESP_PAUSED"
  <2>1. q.reading = log(p, "nothing").reading /\ q.uploading = log(p, "nothing").uploading
    BY <1>2, <1>8 DEF handleResponse, PageRecord
  <2> HIDE DEF q
  <2> QED
    BY <1>2, <1>5, <2>1
<1>9. CASE r.code = "RESP_RESUMED"
  <2> DEFINE s == [log(p, "nothing") EXCEPT !.paused = FALSE, !.canPause = TRUE,
                      !.canResume = FALSE, !.pendingChunks = r.missing]
  <2>1. s \in PageRecord
    BY <1>1, <1>2, <1>9 DEF PageRecord
  <2>2. s.reading = p.reading /\ s.uploading = p.uploading
    BY <1>2 DEF PageRecord
  <2>3. q = sendNextChunk(s)
    BY <1>9 DEF handleResponse
  <2> HIDE DEF s, q
  <2> QED
    BY <1>4, <2>1, <2>2, <2>3
<1>10. ASSUME NEW s \in PageRecord, NEW x, s.reading = p.reading, q = Finish(s, x),
              EndsUpload(r)
       PROVE  Goal
  <2>1. Finish(s, x).reading = s.reading
    BY DEF Finish, setButtons, log, PageRecord
  <2> HIDE DEF q
  <2> QED
    BY <1>5, <1>10, <2>1
<1>11. CASE r.code = "RESP_CANCELLED"
  <2> DEFINE s == [p EXCEPT !.cancelled = TRUE]
  <2>1. s \in PageRecord /\ s.reading = p.reading
    BY DEF PageRecord
  <2>2. q = Finish(s, "cancelled") /\ EndsUpload(r)
    BY <1>11 DEF handleResponse, EndsUpload
  <2> HIDE DEF s, q
  <2> QED
    BY <1>10, <2>1, <2>2
<1>12. CASE r.code \in {"RESP_COMPLETE", "RESP_AUTH_FAILED", "RESP_ERROR"}
  <2>1. \/ q = Finish(p, "complete") \/ q = Finish(p, "auth failed")
        \/ q = Finish(p, "error")
    BY <1>12 DEF handleResponse
  <2>2. EndsUpload(r)
    BY <1>12 DEF EndsUpload
  <2> HIDE DEF q
  <2> QED
    BY <1>10, <2>1, <2>2
<1> QED
  BY <1>1, <1>6, <1>7, <1>8, <1>9, <1>11, <1>12 DEF PageCodes, ResponseCodes, IsChunkAnswer

\* When an upload goes on, only its own WebSocket needs a look: those before it
\* have had their turn, those after it have not begun.
LEMMA TurnKept ==
    ASSUME InTurn, NEW w, w = page.ws, w \in Nat, page'.ws = w, pc' = pc,
           answers' = [u \in Attempts |-> IF socket'[u] = "open" THEN answers[u] ELSE <<>>],
           \A v \in Attempts : v < w => socket'[v] \in {"closing", "closed"},
           \A v \in Attempts : v > w => /\ socket'[v] = "none"
                                        /\ requests'[v] = requests[v]
                                        /\ frames'[v] = frames[v],
           w \in Attempts => /\ socket'[w] \in {"none", "connecting"} => Quiet(w)'
                             /\ socket'[w] = "connecting" => page'.reading = <<>>
                             /\ socket'[w] = "open" => UnderWay(w)' <= 1,
           w = 1 /\ ~page'.uploading => socket'[1] \in {"closing", "closed"},
           w = 0 => page'.reading = <<>>
    PROVE  InTurn'
<1>1. ASSUME NEW v \in Attempts
      PROVE  /\ v < w => socket'[v] \in {"closing", "closed"}
             /\ v > w => socket'[v] = "none"
             /\ socket'[v] \in {"none", "connecting"} => Quiet(v)'
             /\ socket'[v] = "connecting" => page'.reading = <<>>
             /\ socket'[v] = "open" => UnderWay(v)' <= 1
  <2>1. CASE v < w
    <3>1. socket'[v] \in {"closing", "closed"} /\ ~(v > w)
      BY <2>1 DEF Attempts
    <3> QED
      BY <3>1
  <2>2. CASE v > w
    <3>1. socket[v] = "none"
      BY <2>2 DEF InTurn
    <3>2. Quiet(v)
      BY <3>1 DEF InTurn
    <3>3. socket'[v] = "none" /\ answers'[v] = <<>> /\ ~(v < w)
      BY <2>2 DEF Attempts
    <3>4. Quiet(v)'
      BY <2>2, <3>2, <3>3 DEF Quiet
    <3> QED
      BY <3>3, <3>4
  <2>3. CASE v = w
    BY <2>3
  <2>4. v < w \/ v > w \/ v = w
    BY DEF Attempts
  <2> QED
    BY <2>1, <2>2, <2>3, <2>4
<1> QED
  BY <1>1 DEF InTurn

\* A sequence without one of its elements is one shorter.
LEMMA OneLess ==
    ASSUME NEW S, NEW s \in Seq(S), NEW k \in DOMAIN s
    PROVE  Len(RemoveAt(s, k)) = Len(s) - 1
<1> DEFINE a == SubSeq(s, 1, k - 1)
           b == SubSeq(s, k + 1, Len(s))
<1>1. Len(s) \in Nat /\ k \in Nat /\ 1 <= k /\ k <= Len(s)
  OBVIOUS
<1>2. a \in Seq(S) /\ Len(a) = k - 1
  BY <1>1
<1>3. b \in Seq(S) /\ Len(b) = Len(s) - k
  BY <1>1
<1>4. RemoveAt(s, k) = a \o b
  BY DEF RemoveAt
<1> HIDE DEF a, b
<1>5. Len(a \o b) = Len(a) + Len(b)
  <2>1. ASSUME NEW x \in Seq(S), NEW y \in Seq(S) PROVE Len(x \o y) = Len(x) + Len(y)
    OBVIOUS
  <2> QED
    BY <1>2, <1>3, <2>1
<1> DEFINE n == Len(s)
<1>6. Len(RemoveAt(s, k)) = (k - 1) + (n - k) /\ n \in Nat /\ k \in Nat
  BY <1>1, <1>2, <1>3, <1>4, <1>5
<1> HIDE DEF n
<1>7. Len(RemoveAt(s, k)) = n - 1
  BY <1>6
<1> QED
  BY <1>7 DEF n

\* The page takes its turn.
LEMMA PageInTurn ==
    ASSUME SequentialUse, PagesTyped, InTurn, Page
    PROVE  InTurn'
<1>1. PICK w : w = page.ws
  OBVIOUS
<1>2. /\ page \in PageRecord /\ w \in 0 .. MaxUploads /\ w \in Nat
      /\ socket \in [Attempts -> SocketStates]
      /\ requests \in [Attempts -> Seq(Message)]
      /\ frames \in [Attempts -> Seq(Seq(PageAnswer) \ {<<>>})]
      /\ page.reading \in Seq(ChunkRef)
  <2>1. /\ page \in PageRecord /\ w \in 0 .. MaxUploads
        /\ socket \in [Attempts -> SocketStates]
        /\ requests \in [Attempts -> Seq(Message)]
        /\ frames \in [Attempts -> Seq(Seq(PageAnswer) \ {<<>>})]
        /\ page.reading \in Seq(ChunkRef)
    BY <1>1 DEF PagesTyped, PageRecord
  <2>2. w \in Nat
    BY <2>1
  <2> QED
    BY <2>1, <2>2
<1>3. /\ pc' = pc /\ PageNext
      /\ answers' = [u \in Attempts |-> IF socket'[u] = "open" THEN answers[u] ELSE <<>>]
  BY DEF Page, vars
<1>4. /\ \A v \in Attempts : v < w => socket[v] \in {"closing", "closed"}
      /\ \A v \in Attempts : v > w => socket[v] = "none"
      /\ \A v \in Attempts : socket[v] \in {"none", "connecting"} => Quiet(v)
      /\ \A v \in Attempts : socket[v] = "connecting" => page.reading = <<>>
      /\ \A v \in Attempts : socket[v] = "open" => UnderWay(v) <= 1
      /\ w = 1 /\ ~page.uploading => socket[1] \in {"closing", "closed"}
      /\ w = 0 => page.reading = <<>>
  BY <1>1 DEF InTurn
<1>5. ASSUME NEW u \in Attempts, socket[u] \in {"connecting", "open"} PROVE u = w
  <2>1. ~(u < w) /\ ~(u > w)
    BY <1>4, <1>5
  <2> QED
    BY <1>2, <2>1 DEF Attempts
<1>6. ASSUME NEW u \in Attempts, socket[u] = "closing" PROVE u <= w
  <2>1. ~(u > w)
    BY <1>4, <1>6
  <2> QED
    BY <1>2, <2>1 DEF Attempts
<1>7. ASSUME page'.ws = w, page'.reading = page.reading,
             page'.uploading = page.uploading \/ w # 1 \/ socket'[1] \in {"closing", "closed"},
             NEW u \in Attempts, u <= w,
             socket' = [socket EXCEPT ![u] = "closed"],
             \A v \in Attempts : v # u => requests'[v] = requests[v] /\ frames'[v] = frames[v]
      PROVE  InTurn'
  <2>1. \A v \in Attempts : v # u => socket'[v] = socket[v]
    BY <1>2, <1>7
  <2>2. socket'[u] = "closed"
    BY <1>2, <1>7
  <2>3. \A v \in Attempts : v < w => socket'[v] \in {"closing", "closed"}
    BY <1>4, <2>1, <2>2
  <2>4. ASSUME NEW v \in Attempts, v > w
        PROVE  socket'[v] = "none" /\ requests'[v] = requests[v] /\ frames'[v] = frames[v]
    <3>1. v # u
      BY <1>2, <1>7, <2>4 DEF Attempts
    <3> QED
      BY <1>4, <1>7, <2>1, <2>4, <3>1
  <2>5. ASSUME w \in Attempts, w # u
        PROVE  /\ socket'[w] \in {"none", "connecting"} => Quiet(w)'
               /\ socket'[w] = "connecting" => page'.reading = <<>>
               /\ socket'[w] = "open" => UnderWay(w)' <= 1
    <3>1. socket'[w] = socket[w] /\ requests'[w] = requests[w] /\ frames'[w] = frames[w]
      BY <1>7, <2>1, <2>5
    <3>2. socket'[w] = "open" => answers'[w] = answers[w]
      BY <1>3, <2>5
    <3>3. socket'[w] # "open" => answers'[w] = <<>>
      BY <1>3, <2>5
    <3>4. socket'[w] = "open" => UnderWay(w)' = UnderWay(w)
      BY <1>3, <1>7, <3>1, <3>2 DEF UnderWay
    <3> QED
      BY <1>3, <1>4, <1>7, <2>5, <3>1, <3>3, <3>4 DEF Quiet
  <2> QED
    BY <1>1, <1>2, <1>3, <1>4, <1>7, <2>1, <2>2, <2>3, <2>4, <2>5, TurnKept
<1>8. ASSUME page'.ws = w, w \in Attempts,
             \A v \in Attempts : v # w => socket'[v] = socket[v],
             \A v \in Attempts : v # w => requests'[v] = requests[v] /\ frames'[v] = frames[v],
             /\ socket'[w] \in {"none", "connecting"} => Quiet(w)'
             /\ socket'[w] = "connecting" => page'.reading = <<>>
             /\ socket'[w] = "open" => UnderWay(w)' <= 1,
             w = 1 /\ ~page'.uploading => socket'[1] \in {"closing", "closed"}
      PROVE  InTurn'
  <2>1. \A v \in Attempts : v < w => socket'[v] \in {"closing", "closed"}
    BY <1>2, <1>4, <1>8
  <2>2. \A v \in Attempts : v > w => /\ socket'[v] = "none"
                                     /\ requests'[v] = requests[v] /\ frames'[v] = frames[v]
    BY <1>2, <1>4, <1>8
  <2>3. w # 0
    BY <1>8 DEF Attempts
  <2> QED
    BY <1>1, <1>2, <1>3, <1>8, <2>1, <2>2, <2>3, TurnKept
<1>9. CASE startUpload
  <2> DEFINE x == w + 1
             p == Reset(page)
  <2>1. /\ ~page.uploading /\ w < MaxUploads /\ page.reading = <<>>
        /\ page' = setButtons(p, TRUE) /\ socket' = [socket EXCEPT ![x] = "connecting"]
        /\ requests' = requests /\ frames' = frames
    BY <1>1, <1>9 DEF startUpload, SequentialUse
  <2>2. x \in Attempts /\ w \in {0, 1} /\ x > w
    BY <1>2, <2>1, PageAssumption DEF SequentialUse, Attempts
  <2>3. p.ws = x /\ p.reading = page.reading /\ {"ws", "reading", "uploading"} \subseteq DOMAIN p
    BY <1>1 DEF Reset, NoPage
  <2>4. page'.ws = x /\ page'.reading = <<>> /\ page'.uploading = TRUE
    <3> HIDE DEF p
    <3> QED
      BY <2>1, <2>3 DEF setButtons
  <2>5. socket'[x] = "connecting" /\ \A v \in Attempts : v # x => socket'[v] = socket[v]
    BY <1>2, <2>1, <2>2
  <2> HIDE DEF p
  <2>6. ASSUME NEW v \in Attempts
        PROVE  /\ v < x => socket'[v] \in {"closing", "closed"}
               /\ v > x => socket'[v] = "none"
               /\ socket'[v] \in {"none", "connecting"} => Quiet(v)'
               /\ socket'[v] # "open"
    <3>1. CASE v < x
      <4>1. v < w \/ (v = w /\ w = 1)
        BY <1>2, <2>2, <3>1 DEF Attempts
      <4>2. socket[v] \in {"closing", "closed"}
        BY <1>4, <2>1, <4>1
      <4>3. v # x /\ ~(v > x)
        BY <1>2, <3>1 DEF Attempts
      <4> QED
        BY <2>5, <4>2, <4>3
    <3>2. CASE v >= x
      <4>1. v > w /\ ~(v < x) /\ (v > x => v # x)
        BY <1>2, <3>2 DEF Attempts
      <4>2. socket[v] = "none"
        BY <1>4, <4>1
      <4>3. Quiet(v)
        BY <1>4, <4>2
      <4>4. socket'[v] \in {"none", "connecting"} /\ (v > x => socket'[v] = "none")
        BY <2>5, <4>1, <4>2
      <4>5. Quiet(v)'
        BY <1>3, <2>1, <4>3, <4>4 DEF Quiet
      <4> QED
        BY <4>1, <4>4, <4>5
    <3>3. v < x \/ v >= x
      BY <1>2 DEF Attempts
    <3> QED
      BY <3>1, <3>2, <3>3
  <2>7. x # 0
    BY <1>2
  <2> HIDE DEF x
  <2> QED
    BY <2>4, <2>6, <2>7 DEF InTurn
<1>10. ASSUME NEW u \in Attempts, onopen(u) PROVE InTurn'
  <2>1. /\ socket[u] = "connecting" /\ socket' = [socket EXCEPT ![u] = "open"]
        /\ page' = log(page, "nothing") /\ frames' = frames
    BY <1>10 DEF onopen
  <2>2. u = w /\ w \in Attempts
    BY <1>5, <1>10, <2>1
  <2>3. page'.ws = w /\ page'.reading = page.reading /\ page'.uploading = page.uploading
    BY <1>1, <1>2, <2>1 DEF log, PageRecord
  <2>4. Quiet(w) /\ page.reading = <<>>
    BY <1>4, <2>1, <2>2
  <2>5. socket'[w] = "open" /\ \A v \in Attempts : v # w => socket'[v] = socket[v]
    BY <1>2, <2>1, <2>2
  <2>6. PICK m : requests' = [requests EXCEPT ![w] = Append(requests[w], m)]
    BY <1>1, <1>10, <2>5 DEF onopen, Send
  <2>7. requests'[w] = <<m>> /\ \A v \in Attempts : v # w => requests'[v] = requests[v]
    BY <1>2, <2>2, <2>4, <2>6 DEF Quiet
  <2>8. answers'[w] = <<>> /\ frames'[w] = <<>> /\ pc'[ConnOf[w]] = "idle"
        /\ page'.reading = <<>>
    BY <1>3, <2>1, <2>2, <2>3, <2>4, <2>5 DEF Quiet
  <2>9. UnderWay(w)' <= 1
    <3>1. Len(<<>>) = 0 /\ Len(<<m>>) = 1
      OBVIOUS
    <3>2. UnderWay(w)' = 0 + 1 + 0 + 0 + 0
      BY <2>7, <2>8, <3>1 DEF UnderWay
    <3> QED
      BY <3>2
  <2>10. w = 1 => page.uploading
    BY <1>4, <2>1, <2>2
  <2> QED
    BY <1>8, <2>1, <2>2, <2>3, <2>5, <2>7, <2>9, <2>10
<1>11. ASSUME NEW u \in Attempts, onclose(u) PROVE InTurn'
  <2>1. /\ socket[u] = "closing" /\ socket' = [socket EXCEPT ![u] = "closed"]
        /\ page' = Closed(page) /\ frames' = frames /\ requests' = requests
    BY <1>11 DEF onclose
  <2>2. page'.ws = w /\ page'.reading = page.reading
    BY <1>1, <1>2, <2>1 DEF Closed, setButtons, PageRecord
  <2>3. u <= w
    BY <1>6, <1>11, <2>1
  <2>4. w # 1 \/ socket'[1] \in {"closing", "closed"}
    <3>1. w = 1 => u = 1
      BY <1>2, <2>3 DEF Attempts
    <3> QED
      BY <1>2, <2>1, <3>1
  <2> QED
    BY <1>7, <2>1, <2>2, <2>3, <2>4
<1>12. ASSUME NEW u \in Attempts, ConnectionLost(u) PROVE InTurn'
  <2>1. /\ socket[u] \in {"connecting", "open"}
        /\ socket' = [socket EXCEPT ![u] = "closed"]
        /\ page' = Closed(log(page, "lost")) \/ page' = Closed(page)
        /\ frames' = [frames EXCEPT ![u] = <<>>]
        /\ \E n \in 0 .. Len(requests[u]) :
              requests' = [requests EXCEPT ![u] = SubSeq(requests[u], 1, n)]
    BY <1>12 DEF ConnectionLost
  <2>2. u = w /\ u <= w
    BY <1>2, <1>5, <2>1
  <2>3. page'.ws = w /\ page'.reading = page.reading
    BY <1>1, <1>2, <2>1 DEF Closed, setButtons, log, PageRecord
  <2>4. w # 1 \/ socket'[1] \in {"closing", "closed"}
    BY <1>2, <2>1, <2>2
  <2>5. \A v \in Attempts : v # u => requests'[v] = requests[v] /\ frames'[v] = frames[v]
    BY <1>2, <2>1
  <2> QED
    BY <1>7, <2>1, <2>2, <2>3, <2>4, <2>5
<1>13. ASSUME NEW u \in Attempts, onmessage(u) PROVE InTurn'
  <2> DEFINE f == frames[u]
             r == Head(Head(f))
  <2>1. /\ socket[u] = "open" /\ f # <<>> /\ f \in Seq(Seq(PageAnswer) \ {<<>>})
        /\ page' = handleResponse(page, r) /\ requests' = requests
        /\ frames' = [frames EXCEPT ![u] = Tail(f)]
        /\ socket' = IF EndsUpload(r) THEN CloseSocket(page.ws) ELSE socket
    BY <1>2, <1>13 DEF onmessage
  <2>2. u = w /\ w \in Attempts
    BY <1>5, <1>13, <2>1
  <2>3. r \in PageAnswer /\ Len(f) \in Nat /\ Len(Tail(f)) = Len(f) - 1
    <3> HIDE DEF f
    <3>1. Head(f) \in Seq(PageAnswer) /\ Head(f) # <<>>
      BY <2>1
    <3>2. Len(f) \in Nat /\ Len(Tail(f)) = Len(f) - 1
      BY <2>1
    <3>3. r \in PageAnswer
      BY <3>1
    <3> QED
      BY <3>2, <3>3
  <2>4. page'.ws = w
    BY <1>1, <1>2, <2>1, <2>3, HandleResponseEffect
  <2>5. /\ Len(page'.reading) <= Len(page.reading) + 1
        /\ ~EndsUpload(r) => page'.uploading = page.uploading
    BY <1>2, <2>1, <2>3, HandleResponseReads
  <2>6. page' \in PageRecord
    BY <1>2, <2>1, <2>3, HandleResponseType
  <2>7. Len(page'.reading) \in Nat
    <3>1. page'.reading \in Seq(ChunkRef)
      BY <2>6 DEF PageRecord
    <3> QED
      BY <3>1
  <2>8. \A v \in Attempts : v # w => socket'[v] = socket[v]
    BY <1>1, <1>2, <2>1 DEF CloseSocket
  <2>9. EndsUpload(r) => socket'[w] = "closing"
    BY <1>1, <1>2, <2>1, <2>2 DEF CloseSocket
  <2>10. ~EndsUpload(r) => socket'[w] = "open" /\ answers'[w] = answers[w]
    BY <1>3, <2>1, <2>2
  <2>11. w = 1 /\ ~page'.uploading => socket'[1] \in {"closing", "closed"}
    BY <1>4, <2>1, <2>2, <2>5, <2>9
  <2>12. frames'[w] = Tail(f) /\ \A v \in Attempts : v # w => frames'[v] = frames[v]
    BY <1>2, <2>1, <2>2
  <2>13. socket'[w] = "open" => UnderWay(w)' <= 1
    <3> SUFFICES ASSUME socket'[w] = "open" PROVE UnderWay(w)' <= 1
      OBVIOUS
    <3> DEFINE r0 == Len(page.reading)
               r1 == Len(page'.reading)
               q0 == Len(requests[w])
               b0 == IF pc[ConnOf[w]] = "idle" THEN 0 ELSE 1
               a0 == Len(answers[w])
               f0 == Len(f)
               x == UnderWay(w)'
    <3>1. answers'[w] = answers[w]
      BY <2>9, <2>10
    <3>2. x = r1 + q0 + b0 + a0 + (f0 - 1)
      BY <1>3, <2>1, <2>3, <2>12, <3>1 DEF UnderWay
    <3>3. r0 + q0 + b0 + a0 + f0 <= 1
      BY <1>4, <2>1, <2>2 DEF UnderWay
    <3>4. r0 \in Nat /\ q0 \in Nat /\ a0 \in Nat /\ b0 \in {0, 1}
      BY <2>2, LengthTypes
    <3>5. f0 \in Nat /\ r1 \in Nat /\ r1 <= r0 + 1
      BY <2>3, <2>5, <2>7
    <3> HIDE DEF r0, r1, q0, b0, a0, f0, x
    <3>6. x <= 1
      BY <3>2, <3>3, <3>4, <3>5
    <3> QED
      BY <3>6 DEF x
  <2>14. socket'[w] \in {"open", "closing"}
    BY <2>9, <2>10
  <2> HIDE DEF f, r
  <2> QED
    BY <1>8, <2>1, <2>2, <2>4, <2>8, <2>11, <2>12, <2>13, <2>14
<1>14. ASSUME NEW k \in DOMAIN page.reading, ChunkRead(k) PROVE InTurn'
  <2>1. /\ page' = [page EXCEPT !.reading = RemoveAt(page.reading, k)]
        /\ socket' = socket /\ frames' = frames
    BY <1>14 DEF ChunkRead
  <2>2. page'.ws = w /\ page'.uploading = page.uploading
        /\ page'.reading = RemoveAt(page.reading, k)
    BY <1>1, <1>2, <2>1 DEF PageRecord
  <2>3. /\ Len(page.reading) \in Nat /\ page.reading # <<>>
        /\ Len(page'.reading) = Len(page.reading) - 1
    <3>1. page.reading # <<>> /\ Len(page.reading) \in Nat
      BY <1>2, <1>14
    <3> QED
      BY <1>2, <1>14, <2>2, <3>1, OneLess
  <2>4. w \in Attempts
    BY <1>2, <1>4, <2>3 DEF Attempts
  <2>5. PICK m : requests' = IF socket[w] = "open"
                             THEN [requests EXCEPT ![w] = Append(requests[w], m)]
                             ELSE requests
    BY <1>1, <1>14, <2>4 DEF ChunkRead, Send, WSOpen
  <2>6. socket[w] # "open" => requests' = requests
    BY <2>5
  <2>7. \A v \in Attempts : v # w => requests'[v] = requests[v]
    BY <1>2, <2>5
  <2>8. socket[w] = "open" => UnderWay(w)' <= 1
    <3> SUFFICES ASSUME socket[w] = "open" PROVE UnderWay(w)' <= 1
      OBVIOUS
    <3> DEFINE r0 == Len(page.reading)
               q0 == Len(requests[w])
               b0 == IF pc[ConnOf[w]] = "idle" THEN 0 ELSE 1
               a0 == Len(answers[w])
               f0 == Len(frames[w])
               x == UnderWay(w)'
    <3>1. requests'[w] = Append(requests[w], m)
      BY <1>2, <2>4, <2>5
    <3>2. Len(requests'[w]) = q0 + 1
      <4> DEFINE q == requests[w]
      <4>1. q \in Seq(Message) /\ requests'[w] = Append(q, m)
        BY <1>2, <2>4, <3>1
      <4> HIDE DEF q
      <4>2. Len(requests'[w]) = Len(q) + 1
        BY <4>1
      <4> QED
        BY <4>2 DEF q
    <3>3. answers'[w] = answers[w]
      BY <1>3, <2>1, <2>4
    <3>4. x = (r0 - 1) + (q0 + 1) + b0 + a0 + f0
      BY <1>3, <2>1, <2>3, <3>2, <3>3 DEF UnderWay
    <3>5. r0 + q0 + b0 + a0 + f0 <= 1
      BY <1>4, <2>4 DEF UnderWay
    <3>6. r0 \in Nat /\ q0 \in Nat /\ a0 \in Nat /\ f0 \in Nat /\ b0 \in {0, 1}
      BY <2>4, LengthTypes
    <3> HIDE DEF r0, q0, b0, a0, f0, x
    <3>7. x <= 1
      BY <3>4, <3>5, <3>6
    <3> QED
      BY <3>7 DEF x
  <2>9. socket'[w] \in {"none", "connecting"} => Quiet(w)'
    <3> SUFFICES ASSUME socket[w] \in {"none", "connecting"} PROVE Quiet(w)'
      BY <2>1
    <3>1. Quiet(w)
      BY <1>4, <2>4
    <3>2. requests' = requests /\ answers'[w] = <<>>
      BY <1>3, <2>1, <2>4, <2>6
    <3> QED
      BY <1>3, <2>1, <3>1, <3>2 DEF Quiet
  <2>10. socket'[w] # "connecting"
    BY <1>4, <2>1, <2>3, <2>4
  <2>11. w = 1 /\ ~page'.uploading => socket'[1] \in {"closing", "closed"}
    BY <1>4, <2>1, <2>2
  <2> QED
    BY <1>8, <2>1, <2>2, <2>4, <2>7, <2>8, <2>9, <2>10, <2>11
<1>15. ~(pauseUpload \/ resumeUpload \/ cancelUpload)
  BY DEF SequentialUse, pauseUpload, resumeUpload, cancelUpload, Click
<1> QED
  BY <1>3, <1>9, <1>10, <1>11, <1>12, <1>13, <1>14, <1>15 DEF PageNext, PageEvent

\* A restart closes what is open, and nothing is left under way; clean-up and
\* the clock touch neither the pages nor a request in progress.
LEMMA RestartInTurn ==
    ASSUME TypeOK, PagesTyped, InTurn, ServerRestart
    PROVE  InTurn'
<1>1. /\ page \in PageRecord /\ socket \in [Attempts -> SocketStates]
      /\ page.ws \in Nat
  <2>1. page \in PageRecord /\ socket \in [Attempts -> SocketStates]
    BY DEF PagesTyped
  <2>2. page.ws \in 0 .. MaxUploads
    BY <2>1 DEF PageRecord
  <2> QED
    BY <2>1, <2>2
<1>2. ASSUME NEW v \in Attempts
      PROVE  /\ requests'[v] = <<>> /\ answers'[v] = <<>> /\ frames'[v] = <<>>
             /\ pc'[ConnOf[v]] = "idle"
             /\ socket'[v] = IF socket[v] = "open" THEN "closed" ELSE socket[v]
  BY <1>2, ConnType DEF ServerRestart, Restart, WSOpen
<1>3. page'.ws = page.ws /\ page'.reading = page.reading
  BY <1>1 DEF ServerRestart, Closed, setButtons, log, PageRecord
<1>4. ASSUME NEW v \in Attempts
      PROVE  /\ v < page'.ws => socket'[v] \in {"closing", "closed"}
             /\ v > page'.ws => socket'[v] = "none"
             /\ socket'[v] \in {"none", "connecting"} => Quiet(v)'
             /\ socket'[v] = "connecting" => page'.reading = <<>>
             /\ socket'[v] # "open"
  <2>1. Quiet(v)'
    BY <1>2 DEF Quiet
  <2> QED
    BY <1>2, <1>3, <2>1 DEF InTurn
<1>5. ASSUME page'.ws = 1, ~page'.uploading PROVE socket'[1] \in {"closing", "closed"}
  <2>1. 1 \in Attempts
    <3>1. page.ws \in 0 .. MaxUploads /\ page.ws = 1
      BY <1>1, <1>3, <1>5 DEF PageRecord
    <3> QED
      BY <3>1, PageAssumption DEF Attempts
  <2>2. CASE \E u \in Attempts : socket[u] = "open"
    <3>1. PICK u \in Attempts : socket[u] = "open"
      BY <2>2
    <3>2. ~(u < page.ws) /\ ~(u > page.ws)
      BY <3>1 DEF InTurn
    <3>3. u = 1
      BY <1>3, <1>5, <3>2 DEF Attempts
    <3> QED
      BY <1>2, <3>1, <3>3
  <2>3. CASE ~\E u \in Attempts : socket[u] = "open"
    <3>1. page' = page
      BY <2>3 DEF ServerRestart, WSOpen
    <3>2. socket[1] \in {"closing", "closed"}
      BY <1>5, <3>1 DEF InTurn
    <3> QED
      BY <1>2, <2>1, <3>2
  <2> QED
    BY <2>2, <2>3
<1>6. page'.ws = 0 => page'.reading = <<>>
  BY <1>3 DEF InTurn
<1> QED
  BY <1>4, <1>5, <1>6 DEF InTurn

\* Nothing is under way before the first upload.
LEMMA InitInTurn == SystemInit => InTurn
<1> SUFFICES ASSUME SystemInit PROVE InTurn
  OBVIOUS
<1>1. /\ page = NoPage /\ page.ws = 0 /\ page.reading = <<>>
      /\ \A u \in Attempts : /\ socket[u] = "none" /\ requests[u] = <<>>
                             /\ frames[u] = <<>> /\ answers[u] = <<>>
  BY DEF SystemInit, PageInit, NoPage
<1>2. ASSUME NEW u \in Attempts PROVE Quiet(u) /\ ~(u < page.ws)
  <2>1. pc[ConnOf[u]] = "idle"
    BY ConnType DEF SystemInit, Init
  <2> QED
    BY <1>1, <2>1 DEF Quiet, Attempts
<1> QED
  BY <1>1, <1>2 DEF InTurn

\* Uploads take turns, whatever storage, clean-up and connections do.
LEMMA InTurnStep ==
    ASSUME SequentialUse, SystemInv, InTurn, [SystemNext]_systemVars
    PROVE  InTurn'
<1>1. TypeOK /\ PagesTyped
  BY DEF SystemInv, InductiveInv
<1>2. ASSUME NEW u \in Attempts,
             \/ ServerReceive(u) \/ ServerStep(u)
             \/ \E n \in 1 .. Len(answers[u]) : GatewayRead(u, n)
      PROVE  InTurn'
  BY <1>1, <1>2, ServerInTurn
<1>3. CASE Page
  BY <1>1, <1>3, PageInTurn
<1>4. CASE ServerRestart
  BY <1>1, <1>4, RestartInTurn
<1>5. ASSUME UNCHANGED <<pageVars, answers, pc>> PROVE InTurn'
  BY <1>5 DEF InTurn, Quiet, UnderWay, pageVars
<1>6. CASE Background
  <2>1. UNCHANGED <<pageVars, answers, pc>>
    BY <1>6 DEF Background, Cleanup, CleanupTick, CleanupVisit, CleanupReap, CleanupDone, Tick
  <2> QED
    BY <1>5, <2>1
<1>7. CASE Over \/ UNCHANGED systemVars
  <2>1. UNCHANGED <<pageVars, answers, pc>>
    BY <1>7 DEF Over, systemVars, vars
  <2> QED
    BY <1>5, <2>1
<1> QED
  BY <1>2, <1>3, <1>4, <1>6, <1>7 DEF SystemNext

\* So they do in every state of the system.
LEMMA InTurnInvariant ==
    ASSUME SequentialUse PROVE SystemSpec => [](SystemInv /\ InTurn)
<1>1. SystemInit => InTurn
  BY InitInTurn
<1>2. SystemInv /\ InTurn /\ [SystemNext]_systemVars => InTurn'
  BY InTurnStep
<1>3. SystemSpec => []SystemInv
  BY SystemInvariant
<1> QED
  BY <1>1, <1>2, <1>3, PTL DEF SystemSpec

\* Some of the elements of a sequence are at most all.
LEMMA SomeOf ==
    ASSUME NEW n \in Nat, NEW T \in SUBSET (1 .. n)
    PROVE  Cardinality(T) \in Nat /\ Cardinality(T) <= n
<1>1. IsFiniteSet(1 .. n) /\ Cardinality(1 .. n) = n
  <2>1. IsFiniteSet(1 .. n) /\ Cardinality(1 .. n) = IF 1 > n THEN 0 ELSE n - 1 + 1
    BY FS_Interval
  <2> QED
    BY <2>1
<1>2. IsFiniteSet(T) /\ Cardinality(T) <= n
  BY <1>1, FS_Subset
<1>3. Cardinality(T) \in Nat
  BY <1>2, FS_CardinalityType
<1> QED
  BY <1>2, <1>3

\* What is under way of an upload bounds its chunks in flight.
LEMMA InFlightBound ==
    ASSUME PagesTyped, NEW u \in Attempts
    PROVE  /\ ChunksInFlight(u) <= UnderWay(u)
           /\ ChunksInFlight(u) \in Nat /\ UnderWay(u) \in Nat
<1> DEFINE R == {k \in DOMAIN page.reading : page.reading[k].upload = u}
           Q == {k \in DOMAIN requests[u] : requests[u][k].cmd = "CMD_UPLOAD_CHUNK"}
           A == {k \in DOMAIN answers[u] : IsChunkAnswer(answers[u][k])}
           F == {k \in DOMAIN frames[u] : IsChunkAnswer(Head(frames[u][k]))}
           h == IF pc[ConnOf[u]] # "idle" /\ req[ConnOf[u]].cmd = "CMD_UPLOAD_CHUNK"
                THEN 1 ELSE 0
           r0 == Len(page.reading)
           q0 == Len(requests[u])
           b0 == IF pc[ConnOf[u]] = "idle" THEN 0 ELSE 1
           a0 == Len(answers[u])
           f0 == Len(frames[u])
           cr == Cardinality(R)
           cq == Cardinality(Q)
           ca == Cardinality(A)
           cf == Cardinality(F)
           x == ChunksInFlight(u)
           y == UnderWay(u)
<1>1. r0 \in Nat /\ q0 \in Nat /\ a0 \in Nat /\ f0 \in Nat
  BY LengthTypes
<1>2. /\ DOMAIN page.reading = 1 .. r0 /\ DOMAIN requests[u] = 1 .. q0
      /\ DOMAIN answers[u] = 1 .. a0 /\ DOMAIN frames[u] = 1 .. f0
  BY LengthTypes
<1>3. R \subseteq 1 .. r0 /\ Q \subseteq 1 .. q0 /\ A \subseteq 1 .. a0 /\ F \subseteq 1 .. f0
  BY <1>2
<1>4. h \in {0, 1} /\ b0 \in {0, 1} /\ h <= b0
  OBVIOUS
<1>5. x = cr + cq + h + ca + cf
  BY DEF ChunksInFlight
<1>6. y = r0 + q0 + b0 + a0 + f0
  BY DEF UnderWay
<1> HIDE DEF R, Q, A, F, h, b0, r0, q0, a0, f0, x, y
<1>7. cr \in Nat /\ cr <= r0 /\ cq \in Nat /\ cq <= q0
  BY <1>1, <1>3, SomeOf
<1>8. ca \in Nat /\ ca <= a0 /\ cf \in Nat /\ cf <= f0
  BY <1>1, <1>3, SomeOf
<1> HIDE DEF cr, cq, ca, cf
<1>9. x <= y /\ x \in Nat /\ y \in Nat
  BY <1>1, <1>4, <1>5, <1>6, <1>7, <1>8
<1> QED
  BY <1>9 DEF x, y

\* "sequential - one at a time, wait for ACK" (index.html:578): while the user
\* starts no upload during a read and clicks nothing, an open WebSocket has one
\* chunk under way at most, through faults, lost connections, restarts and a
\* second upload after the first.
THEOREM ChunksGoOneByOne ==
    ASSUME SequentialUse PROVE SystemSpec => []OneChunkInFlight
<1>1. SystemInv /\ InTurn => OneChunkInFlight
  <2> SUFFICES ASSUME SystemInv, InTurn, NEW u \in Attempts, socket[u] = "open"
               PROVE  ChunksInFlight(u) <= 1
    BY DEF OneChunkInFlight, WSOpen
  <2> DEFINE x == ChunksInFlight(u)
             y == UnderWay(u)
  <2>1. x <= y
    BY InFlightBound DEF SystemInv
  <2>2. y <= 1
    BY DEF InTurn
  <2>3. x \in Nat /\ y \in Nat
    BY InFlightBound DEF SystemInv
  <2> HIDE DEF x, y
  <2>4. x <= 1
    BY <2>1, <2>2, <2>3
  <2> QED
    BY <2>4 DEF x
<1> QED
  BY <1>1, InTurnInvariant, PTL

-----------------------------------------------------------------------------
(* Nothing is refused without a fault.                                     *)

\* The server takes files of the size, and no session gets too old.
FileAccepted == ValidInit(Declared)
NoTimeouts == MaxTime <= SESSION_TIMEOUT

\* Only upload u's own messages and handler are about session s.
Alone(u, s) ==
    \A v \in Attempts \ {u} :
        /\ \A k \in DOMAIN requests[v] : requests[v][k].sessionID # s
        /\ pc[ConnOf[v]] # "idle" => req[ConnOf[v]].sid # s

\* Session s is upload u's alone, in the table, and has m chunks in order.
Ours(u, s, m) ==
    /\ s \in sessions /\ s \notin cleanup.victim /\ Alone(u, s)
    /\ sess[s].user = TokenUser[token]
    /\ sess[s].state \in {STATE_INITIALIZED, STATE_UPLOADING}
    /\ Len(sess[s].parts) = m
    /\ \A k \in DOMAIN sess[s].parts : sess[s].parts[k].number = k

\* Storage has its chunks and waits for more.
InStorage(s) ==
    /\ IsOpen(s3[s])
    /\ \A k \in DOMAIN sess[s].parts : s3[s].parts[k] = sess[s].parts[k].etag

Holds(u, s, m) == Ours(u, s, m) /\ InStorage(s) /\ Known(s)

\* The page's session has the chunks before the next that the page will send.
UpToDate(u) == HasSession /\ Holds(u, page.sessionID, page.sentChunks)

\* The page's session waits for the chunk with this index, the last one sent.
Expects(u, index) ==
    /\ HasSession /\ index = page.sentChunks - 1
    /\ Holds(u, page.sessionID, index)

UploadLabels == ChunkLabels \cup {"GetSession", "GetProgress", "IsComplete",
                                  "CompleteMultipartUpload"}

MessageFits(u, m) ==
    \/ m.cmd = "CMD_INIT_UPLOAD" /\ ~HasSession
    \/ m.cmd = "CMD_UPLOAD_CHUNK" /\ Expects(u, m.chunk.index) /\ m.sessionID = page.sessionID

AnswerFits(u, r) ==
    \/ r.code \in {"RESP_AUTH_FAILED", "RESP_COMPLETE"}
    \/ r.code = "RESP_READY" /\ ~HasSession /\ Holds(u, r.sessionID, 0)
    \/ IsChunkAnswer(r) /\ UpToDate(u)

\* A handler will find what it needs.
WorkFits(u) ==
    LET c == ConnOf[u]
        s == req[c].sid
        i == req[c].index
    IN  /\ pc[c] \in {"idle", "SetCompleted"} \cup InitLabels \cup UploadLabels
        /\ pc[c] \in InitLabels =>
              ~HasSession /\ req[c].user = TokenUser[token] /\ Alone(u, s)
        /\ pc[c] \in InitLabels \ {"CreateSession"} => Ours(u, s, 0)
        /\ pc[c] = "SetUploadID" => InStorage(s)
        /\ pc[c] \in UploadLabels =>
              /\ HasSession /\ s = page.sessionID
              /\ req[c].cmd = "CMD_UPLOAD_CHUNK" /\ req[c].user = TokenUser[token]
        /\ pc[c] \in ChunkLabels \cup {"GetSession"} => Expects(u, i)
        /\ pc[c] = "AddChunk" => s3[s].parts[PartNumber(i)] = req[c].content
        /\ pc[c] \in {"GetProgress", "IsComplete", "CompleteMultipartUpload"} =>
              UpToDate(u) /\ page.sentChunks # 0

Smooth(u) ==
    /\ \A k \in DOMAIN page.reading : Expects(u, page.reading[k].index)
    /\ \A k \in DOMAIN requests[u] : MessageFits(u, requests[u][k])
    /\ WorkFits(u)
    /\ \A k \in DOMAIN answers[u] : AnswerFits(u, answers[u][k])
    /\ \A k \in DOMAIN frames[u] : AnswerFits(u, Head(frames[u][k]))

NamesKnown ==
    /\ HasSession => Known(page.sessionID)
    /\ \A v \in Attempts : \A k \in DOMAIN requests[v] :
          AboutSession(requests[v][k]) => Known(requests[v][k].sessionID)
    /\ \A s \in sessions \cup cleanup.todo \cup cleanup.victim : sess[s].state # STATE_NONE

NoErrors ==
    /\ page.shown # "error" /\ page.pendingChunks = {}
    /\ ~HasSession => page.sentChunks = 0
    /\ \A u \in Attempts : /\ socket[u] = "connecting" => ~HasSession
                           /\ socket[u] = "open" => Smooth(u)

\* What the server makes of a message: a session for the page, work on the
\* session that the message names, or a refusal.
Opens(c, m) ==
    /\ m.cmd = "CMD_INIT_UPLOAD" /\ pc'[c] = "CreateSession"
    /\ req'[c].sid \in Sessions /\ Unused(req'[c].sid)
    /\ req'[c].user = TokenUser[token]

Asks(c, m) == Asked(c, m) /\ req'[c].user = TokenUser[token]

\* Handling a message changes no session, whatever comes of it.
LEMMA HandleOutcome ==
    ASSUME TypeOK, FileAccepted, NEW c \in Conns, NEW m \in Message, Handle(c, m)
    PROVE  /\ UNCHANGED <<sessions, sess, s3, cleanup>>
           /\ \/ pc'[c] = "idle" /\ reply'[c].code = "RESP_AUTH_FAILED"
              \/ pc'[c] = "idle" /\ m.cmd # "CMD_INIT_UPLOAD" /\ ~AboutSession(m)
              \/ Opens(c, m) \/ Asks(c, m)
<1>1. token \in Tokens
  BY SystemAssumption DEF token
<1>2. /\ pc \in [Conns -> Labels] /\ req \in [Conns -> Request]
      /\ reply \in [Conns -> Response]
  BY DEF TypeOK
<1>3. UNCHANGED <<sessions, sess, s3, cleanup>>
  <2>1. Receive(c)
    BY HandleReceives
  <2> QED
    BY <2>1 DEF Receive, AuthFailed, Malformed, InitUpload, SessionRequest, UploadChunk,
       Dispatch, Refuse
<1>4. ASSUME NEW r, NEW label, Dispatch(c, r, label)
      PROVE  pc'[c] = label /\ req'[c] = r
  BY <1>2, <1>4 DEF Dispatch
<1>5. ASSUME AuthFailed(c) PROVE pc'[c] = "idle" /\ reply'[c].code = "RESP_AUTH_FAILED"
  BY <1>2, <1>5 DEF AuthFailed, Refuse, Answer
<1>6. ASSUME Malformed(c) PROVE pc'[c] = "idle"
  BY <1>2, <1>6 DEF Malformed, Refuse, Answer
<1>7. CASE m.cmd = "CMD_INIT_UPLOAD" /\ InitUpload(c, Declared, token)
  <2> DEFINE q(s) == [NoRequest EXCEPT !.cmd = "CMD_INIT_UPLOAD",
                         !.user = TokenUser[token], !.sid = s,
                         !.total = Declared.totalChunks]
  <2>1. PICK s \in Sessions : Unused(s) /\ Dispatch(c, q(s), "CreateSession")
    BY <1>7 DEF InitUpload, FileAccepted
  <2>2. q(s).sid = s /\ q(s).user = TokenUser[token]
    BY DEF NoRequest
  <2> HIDE DEF q
  <2> QED
    BY <1>3, <1>4, <1>7, <2>1, <2>2 DEF Opens
<1>8. CASE /\ m.cmd = "CMD_UPLOAD_CHUNK" /\ m.sessionID # ""
           /\ UploadChunk(c, m.sessionID, token, m.chunk.index,
                          Files[m.chunk.upload][m.chunk.index])
  <2> DEFINE s == m.sessionID
             i == m.chunk.index
             d == Files[m.chunk.upload][m.chunk.index]
             q == [NoRequest EXCEPT !.cmd = "CMD_UPLOAD_CHUNK",
                      !.user = TokenUser[token], !.sid = s, !.index = i, !.content = d]
  <2>1. s \in Sessions /\ m.chunk \in ChunkRef
    BY <1>8, MessageParts DEF Ids
  <2>2. Dispatch(c, q, "GetSession")
    BY <1>8 DEF UploadChunk
  <2>3. /\ q.cmd = m.cmd /\ q.sid = s /\ q.index = i /\ q.content = d
        /\ q.user = TokenUser[token]
    BY <1>8 DEF NoRequest
  <2> HIDE DEF q
  <2> QED
    BY <1>3, <1>4, <1>8, <2>1, <2>2, <2>3 DEF Asks, Asked
<1>9. CASE /\ m.cmd \notin {"CMD_INIT_UPLOAD", "CMD_UPLOAD_CHUNK"} /\ m.sessionID # ""
           /\ SessionRequest(c, m.cmd, m.sessionID, token)
  <2> DEFINE s == m.sessionID
             q == [NoRequest EXCEPT !.cmd = m.cmd, !.user = TokenUser[token], !.sid = s]
  <2>1. s \in Sessions
    BY <1>9, MessageParts DEF Ids
  <2>2. Dispatch(c, q, "GetSession")
    BY <1>9 DEF SessionRequest
  <2>3. q.cmd = m.cmd /\ q.sid = s /\ q.user = TokenUser[token]
    BY DEF NoRequest
  <2> HIDE DEF q
  <2> QED
    BY <1>3, <1>4, <1>9, <2>1, <2>2, <2>3 DEF Asks, Asked
<1>10. CASE m.cmd # "CMD_INIT_UPLOAD" /\ m.sessionID = "" /\ Malformed(c)
  <2>1. ~AboutSession(m)
    BY <1>10, Zenon DEF AboutSession
  <2> QED
    BY <1>3, <1>6, <1>10, <2>1
<1> QED
  BY <1>3, <1>5, <1>7, <1>8, <1>9, <1>10 DEF Handle

\* Elements of a sequence of one.
LEMMA Single ==
    ASSUME NEW r, NEW k \in DOMAIN <<r>>
    PROVE  <<r>>[k] = r
  OBVIOUS

\* When one thing at most is under way of an upload, the rest is empty.
LEMMA OneUnderWay ==
    ASSUME PagesTyped, NEW u \in Attempts, UnderWay(u) <= 1
    PROVE  /\ Len(page.reading) <= 1 /\ Len(requests[u]) <= 1
           /\ Len(answers[u]) <= 1 /\ Len(frames[u]) <= 1
           /\ page.reading # <<>> \/ frames[u] # <<>> =>
                 requests[u] = <<>> /\ pc[ConnOf[u]] = "idle" /\ answers[u] = <<>>
           /\ requests[u] # <<>> \/ answers[u] # <<>> \/ pc[ConnOf[u]] # "idle" =>
                 page.reading = <<>> /\ frames[u] = <<>>
           /\ requests[u] # <<>> => pc[ConnOf[u]] = "idle" /\ answers[u] = <<>>
           /\ answers[u] # <<>> => pc[ConnOf[u]] = "idle" /\ requests[u] = <<>>
           /\ pc[ConnOf[u]] # "idle" => requests[u] = <<>> /\ answers[u] = <<>>
           /\ page.reading # <<>> => frames[u] = <<>>
           /\ frames[u] # <<>> => page.reading = <<>>
<1> DEFINE R == page.reading
           Q == requests[u]
           A == answers[u]
           F == frames[u]
           r0 == Len(R)
           q0 == Len(Q)
           a0 == Len(A)
           f0 == Len(F)
           b0 == IF pc[ConnOf[u]] = "idle" THEN 0 ELSE 1
<1>1. /\ R \in Seq(ChunkRef) /\ Q \in Seq(Message) /\ A \in Seq(PageAnswer)
      /\ F \in Seq(Seq(PageAnswer) \ {<<>>})
      /\ r0 \in Nat /\ q0 \in Nat /\ a0 \in Nat /\ f0 \in Nat
  BY LengthTypes
<1>2. ASSUME NEW S, NEW x \in Seq(S) PROVE (x = <<>>) <=> (Len(x) = 0)
  BY <1>2
<1>3. r0 + q0 + b0 + a0 + f0 <= 1
  BY DEF UnderWay
<1>4. b0 \in {0, 1} /\ (b0 = 0 <=> pc[ConnOf[u]] = "idle")
  OBVIOUS
<1> HIDE DEF R, Q, A, F, b0
<1>5. /\ R = <<>> <=> r0 = 0
      /\ Q = <<>> <=> q0 = 0
      /\ A = <<>> <=> a0 = 0
      /\ F = <<>> <=> f0 = 0
  BY <1>1, <1>2
<1> HIDE DEF r0, q0, a0, f0
<1>6. /\ r0 <= 1 /\ q0 <= 1 /\ a0 <= 1 /\ f0 <= 1
      /\ r0 # 0 \/ f0 # 0 => q0 = 0 /\ b0 = 0 /\ a0 = 0
      /\ q0 # 0 \/ a0 # 0 \/ b0 # 0 => r0 = 0 /\ f0 = 0
      /\ q0 # 0 => b0 = 0 /\ a0 = 0
      /\ a0 # 0 => b0 = 0 /\ q0 = 0
      /\ b0 # 0 => q0 = 0 /\ a0 = 0
      /\ r0 # 0 => f0 = 0
      /\ f0 # 0 => r0 = 0
  <2>1. r0 <= 1 /\ (r0 # 0 => q0 = 0 /\ b0 = 0 /\ a0 = 0 /\ f0 = 0)
    BY <1>1, <1>3, <1>4
  <2>2. q0 <= 1 /\ (q0 # 0 => r0 = 0 /\ b0 = 0 /\ a0 = 0 /\ f0 = 0)
    BY <1>1, <1>3, <1>4
  <2>3. a0 <= 1 /\ (a0 # 0 => r0 = 0 /\ b0 = 0 /\ q0 = 0 /\ f0 = 0)
    BY <1>1, <1>3, <1>4
  <2>4. f0 <= 1 /\ (f0 # 0 => r0 = 0 /\ b0 = 0 /\ q0 = 0 /\ a0 = 0)
    BY <1>1, <1>3, <1>4
  <2>5. b0 # 0 => r0 = 0 /\ f0 = 0 /\ q0 = 0 /\ a0 = 0
    BY <1>1, <1>3, <1>4
  <2> QED
    BY <2>1, <2>2, <2>3, <2>4, <2>5
<1>7. Len(R) <= 1 /\ Len(Q) <= 1 /\ Len(A) <= 1 /\ Len(F) <= 1
  BY <1>6 DEF r0, q0, a0, f0
<1>8. /\ R # <<>> \/ F # <<>> => Q = <<>> /\ b0 = 0 /\ A = <<>>
      /\ Q # <<>> \/ A # <<>> \/ b0 # 0 => R = <<>> /\ F = <<>>
      /\ Q # <<>> => b0 = 0 /\ A = <<>>
      /\ A # <<>> => b0 = 0 /\ Q = <<>>
      /\ b0 # 0 => Q = <<>> /\ A = <<>>
      /\ R # <<>> => F = <<>>
      /\ F # <<>> => R = <<>>
  BY <1>5, <1>6
<1> QED
  BY <1>4, <1>7, <1>8 DEF R, Q, A, F

\* What remains of a sequence of one without its first element.
LEMMA NoMore ==
    ASSUME NEW S, NEW s \in Seq(S), s # <<>>, Len(s) <= 1
    PROVE  Tail(s) = <<>> /\ s = <<Head(s)>> /\ DOMAIN s = {1}
<1>1. Len(s) \in Nat /\ Len(s) # 0
  OBVIOUS
<1>2. Len(s) = 1
  BY <1>1
<1>3. DOMAIN s = {1} /\ Head(s) = s[1]
  BY <1>2
<1>4. s = <<Head(s)>>
  BY <1>2, <1>3
<1>5. Tail(s) = <<>>
  <2>1. Tail(s) \in Seq(S) /\ Len(Tail(s)) = 0
    BY <1>2
  <2> QED
    BY <2>1
<1> QED
  BY <1>3, <1>4, <1>5

\* An answer names a session.
LEMMA AnswerIds ==
    ASSUME PagesTyped, NEW u \in Attempts
    PROVE  /\ \A k \in DOMAIN answers[u] : answers[u][k] \in PageAnswer
           /\ \A k \in DOMAIN frames[u] : Head(frames[u][k]) \in PageAnswer
           /\ \A k \in DOMAIN answers[u] : answers[u][k].sessionID \in Sessions
           /\ \A k \in DOMAIN frames[u] : Head(frames[u][k]).sessionID \in Sessions
<1> DEFINE A == answers[u]
           F == frames[u]
<1>1. A \in Seq(PageAnswer) /\ F \in Seq(Seq(PageAnswer) \ {<<>>})
  BY LengthTypes
<1>2. ASSUME NEW x \in PageAnswer PROVE x.sessionID \in Sessions
  BY <1>2 DEF PageAnswer
<1> HIDE DEF A, F
<1>3. \A k \in DOMAIN A : A[k] \in PageAnswer
  BY <1>1
<1>4. ASSUME NEW k \in DOMAIN F PROVE Head(F[k]) \in PageAnswer
  <2>1. F[k] \in Seq(PageAnswer) /\ F[k] # <<>>
    BY <1>1
  <2> QED
    BY <2>1
<1> QED
  BY <1>2, <1>3, <1>4 DEF A, F

\* Different uploads have different connections.
LEMMA OwnConnection ==
    ASSUME NEW u \in Attempts, NEW v \in Attempts \ {u}
    PROVE  ConnOf[u] \in Conns /\ ConnOf[v] \in Conns \ {ConnOf[u]}
  BY SystemAssumption

\* No upload begins to be about a session that is in use.
LEMMA AloneStep ==
    ASSUME TypeOK, PagesTyped, FileAccepted, [SystemNext]_systemVars,
           NEW u \in Attempts, NEW s \in Sessions, Alone(u, s), ~Unused(s),
           \A v \in Attempts \ {u} : \A k \in DOMAIN requests'[v] :
              \E j \in DOMAIN requests[v] : requests'[v][k] = requests[v][j]
    PROVE  Alone(u, s)'
<1>1. ASSUME NEW v \in Attempts \ {u}, NEW k \in DOMAIN requests'[v]
      PROVE  requests'[v][k].sessionID # s
  <2>1. PICK j \in DOMAIN requests[v] : requests'[v][k] = requests[v][j]
    OBVIOUS
  <2> QED
    BY <2>1 DEF Alone
<1>2. ASSUME NEW v \in Attempts \ {u}, pc'[ConnOf[v]] # "idle"
      PROVE  req'[ConnOf[v]].sid # s
  <2> DEFINE d == ConnOf[v]
  <2>1. d \in Conns
    BY OwnConnection
  <2>2. pc[d] # "idle" => req[d].sid # s
    BY DEF Alone
  <2>3. CASE pc'[d] = pc[d] /\ req'[d] = req[d]
    BY <1>2, <2>2, <2>3
  <2>4. CASE HandlerStep(d)
    BY <2>1, <2>2, <2>4, HandlerFrame
  <2>5. ASSUME NEW x \in Attempts, d = ConnOf[x], requests[x] # <<>>,
               Head(requests[x]) \in Message, Handle(d, Head(requests[x]))
        PROVE  req'[d].sid # s
    <3> DEFINE m == Head(requests[x])
    <3>1. x = v
      BY <2>5, OwnConnection
    <3>2. 1 \in DOMAIN requests[v] /\ m = requests[v][1]
      <4>1. requests[v] \in Seq(Message)
        BY DEF PagesTyped
      <4> QED
        BY <2>5, <3>1, <4>1
    <3>3. m.sessionID # s
      BY <3>2 DEF Alone
    <3>4. Opens(d, m) \/ Asks(d, m)
      BY <1>2, <2>1, <2>5, HandleOutcome
    <3> HIDE DEF m
    <3> QED
      BY <3>3, <3>4 DEF Opens, Asks, Asked
  <2> HIDE DEF d
  <2>6. req'[d].sid # s
    BY <1>2, <2>1, <2>3, <2>4, <2>5, ConnMoves DEF d
  <2> QED
    BY <2>6 DEF d
<1> QED
  BY <1>1, <1>2 DEF Alone

\* A session that nobody has used is nobody's.
LEMMA UnusedIsAlone ==
    ASSUME SystemInv, NamesKnown, NEW u \in Attempts, NEW s \in Sessions, Unused(s)
    PROVE  Alone(u, s)
<1>1. /\ sess[s].state = STATE_NONE /\ ~Known(s)
  BY DEF SystemInv, InductiveInv, SessionInv, Unused, Known
<1>2. ASSUME NEW v \in Attempts \ {u}, NEW k \in DOMAIN requests[v]
      PROVE  requests[v][k].sessionID # s
  BY <1>1, <1>2, Identity DEF NamesKnown
<1>3. ASSUME NEW v \in Attempts \ {u}, pc[ConnOf[v]] # "idle"
      PROVE  req[ConnOf[v]].sid # s
  <2> DEFINE d == ConnOf[v]
  <2>1. d \in Conns /\ HandlerInv(d) /\ pc[d] \in Labels
    BY OwnConnection DEF SystemInv, InductiveInv, TypeOK
  <2>2. pc[d] = "CreateSession" => req[d].sid # s
    BY <2>1 DEF Unused
  <2>3. pc[d] \in InitLabels \ {"CreateSession"} => req[d].sid # s
    BY <1>1, <2>1 DEF HandlerInv
  <2>4. pc[d] \in SessionLabels => req[d].sid # s
    BY <1>1, <2>1 DEF HandlerInv, Known
  <2> QED
    BY <1>3, <2>1, <2>2, <2>3, <2>4 DEF SessionLabels
<1> QED
  BY <1>2, <1>3 DEF Alone

\* The steps that leave sessions alone, and those of other uploads' handlers
\* and of clean-up.
Elsewhere(u) ==
    \/ UNCHANGED <<sessions, sess, s3, cleanup>>
    \/ \E v \in Attempts \ {u} : HandlerStep(ConnOf[v])
    \/ Cleanup

\* An upload's session is safe from them.
LEMMA OursStays ==
    ASSUME TypeOK, NoTimeouts, NEW u \in Attempts, NEW s \in Sessions, NEW m,
           Ours(u, s, m), Alone(u, s)', Elsewhere(u)
    PROVE  Ours(u, s, m)' /\ sess'[s] = sess[s] /\ s3'[s] = s3[s]
<1> DEFINE Goal == /\ sess'[s] = sess[s] /\ s3'[s] = s3[s]
                   /\ s \in sessions' /\ s \notin cleanup'.victim
<1>1. s \in sessions /\ s \notin cleanup.victim /\ Alone(u, s)
  BY DEF Ours
<1>2. ASSUME UNCHANGED <<sessions, sess, s3, cleanup>> PROVE Goal
  BY <1>1, <1>2
<1>3. ASSUME NEW v \in Attempts \ {u}, HandlerStep(ConnOf[v]) PROVE Goal
  <2> DEFINE d == ConnOf[v]
  <2>1. d \in Conns /\ pc[d] # "idle"
    BY <1>3, OwnConnection, HandlerFrame
  <2>2. req[d].sid # s
    BY <1>1, <2>1 DEF Alone
  <2>3. sess'[s] = sess[s] /\ s3'[s] = s3[s]
    BY <1>3, <2>1, <2>2, HandlerFrame
  <2>4. /\ cleanup' = cleanup
        /\ sessions' \in {sessions, sessions \cup {req[d].sid}, sessions \ {req[d].sid}}
    BY <1>3 DEF HandlerStep, LockStep, FreeStep, CreateSession, GetSession, DeleteSession,
       CreateMultipartUpload, SetUploadID, ReadPaused, ReadCancelled, UploadPart,
       AddChunkCall, GetProgressCall, IsCompleteCall, CompleteMultipartUpload,
       SetCompleted, SetFailed, PauseCall, ReadState, ResumeCall,
       GetMissingChunksCall, CancelCall, AbortMultipartUpload
  <2> HIDE DEF d
  <2> QED
    BY <1>1, <2>2, <2>3, <2>4
<1>4. ASSUME Cleanup PROVE Goal
  <2>1. sess' = sess
    BY <1>4 DEF Cleanup, CleanupTick, CleanupVisit, CleanupReap, CleanupDone
  <2>2. ASSUME NEW r \in Sessions, CleanupVisit(r) PROVE Goal
    <3>1. ~Stale(sess[s], cleanup.now)
      <4>1. sess[s].state \in {STATE_INITIALIZED, STATE_UPLOADING}
        BY DEF Ours
      <4>2. Timeout(sess[s].state) = SESSION_TIMEOUT
        BY <4>1 DEF Timeout, STATE_INITIALIZED, STATE_UPLOADING, STATE_COMPLETED,
           STATE_CANCELLED
      <4> DEFINE x == cleanup.now
                 y == sess[s].updatedAt
      <4>3. x \in 0 .. MaxTime /\ y \in Nat
        BY DEF TypeOK, Cleanups, Hours, Session
      <4> HIDE DEF x, y
      <4>4. ~(x - y > SESSION_TIMEOUT)
        BY <4>3, ServerAssumption DEF NoTimeouts
      <4> QED
        BY <4>2, <4>4 DEF Stale, x, y
    <3>2. /\ cleanup' = [cleanup EXCEPT !.todo = cleanup.todo \ {r},
                          !.victim = IF Stale(sess[r], cleanup.now) THEN {r} ELSE {}]
          /\ UNCHANGED <<sessions, sess, s3>>
      BY <2>2 DEF CleanupVisit
    <3>3. cleanup'.victim = IF Stale(sess[r], cleanup.now) THEN {r} ELSE {}
      BY <3>2 DEF TypeOK, Cleanups
    <3> QED
      BY <1>1, <3>1, <3>2, <3>3
  <2>3. ASSUME NEW r \in Sessions, CleanupReap(r) PROVE Goal
    <3>1. r # s
      BY <1>1, <2>3 DEF CleanupReap
    <3>2. s3'[s] = s3[s]
      BY <2>3, <3>1 DEF CleanupReap, AbortUpload, S3Succeeds, S3Fails, TypeOK
    <3>3. sessions' = sessions \ {r} /\ cleanup'.victim = {}
      BY <2>3 DEF CleanupReap, TypeOK, Cleanups
    <3> QED
      BY <1>1, <2>1, <3>1, <3>2, <3>3
  <2>4. ASSUME CleanupTick \/ CleanupDone PROVE Goal
    BY <1>1, <2>4 DEF CleanupTick, CleanupDone, NoCleanup
  <2> QED
    BY <1>4, <2>2, <2>3, <2>4 DEF Cleanup
<1>5. Goal
  BY <1>2, <1>3, <1>4 DEF Elsewhere
<1> QED
  BY <1>5 DEF Ours

\* Nothing about an upload changes while its own page, gateway and handler
\* rest.
Rests(u) ==
    /\ page' = page /\ Untouched(u) /\ req'[ConnOf[u]] = req[ConnOf[u]]
    /\ Elsewhere(u)

\* What an open upload has under way still fits when others act.
LEMMA SmoothRests ==
    ASSUME SystemInv, FileAccepted, NoTimeouts, NEW u \in Attempts, Rests(u),
           Smooth(u), [SystemNext]_systemVars,
           \A v \in Attempts \ {u} : \A k \in DOMAIN requests'[v] :
              \E j \in DOMAIN requests[v] : requests'[v][k] = requests[v][j]
    PROVE  Smooth(u)'
<1> DEFINE c == ConnOf[u]
<1>1. TypeOK /\ PagesTyped /\ c \in Conns /\ req[c].sid \in Sessions
  <2>1. TypeOK /\ PagesTyped /\ c \in Conns
    BY ConnType DEF SystemInv, InductiveInv
  <2> QED
    BY <2>1 DEF TypeOK, Request
<1>2. HasSession' <=> HasSession
  BY Identity DEF Rests
<1>3. HasSession => page.sessionID \in Sessions
  BY <1>1, Identity DEF PagesTyped, PageRecord
<1>4. ASSUME NEW s \in Sessions, NEW m, Ours(u, s, m)
      PROVE  Ours(u, s, m)' /\ sess'[s] = sess[s] /\ s3'[s] = s3[s]
  <2>1. sess[s].state # STATE_NONE /\ Alone(u, s)
    BY <1>4 DEF Ours, STATE_INITIALIZED, STATE_UPLOADING, STATE_NONE
  <2>2. ~Unused(s)
    BY <2>1 DEF Unused
  <2>3. Alone(u, s)'
    BY <1>1, <2>1, <2>2, AloneStep
  <2> QED
    BY <1>1, <1>4, <2>3, OursStays DEF Rests
<1>5. ASSUME NEW s \in Sessions, NEW m, Holds(u, s, m) PROVE Holds(u, s, m)'
  <2>1. Ours(u, s, m)' /\ sess'[s] = sess[s] /\ s3'[s] = s3[s]
    BY <1>4, <1>5 DEF Holds
  <2> QED
    BY <1>5, <2>1 DEF Holds, InStorage, Known
<1>6. ASSUME NEW i, Expects(u, i) PROVE Expects(u, i)'
  BY <1>2, <1>3, <1>5, <1>6 DEF Expects, Rests
<1>7. UpToDate(u) => UpToDate(u)'
  BY <1>2, <1>3, <1>5 DEF UpToDate, Rests
<1>8. ASSUME NEW m, MessageFits(u, m) PROVE MessageFits(u, m)'
  BY <1>2, <1>6, <1>8 DEF MessageFits, Rests
<1>9. ASSUME NEW r, r.sessionID \in Sessions, AnswerFits(u, r) PROVE AnswerFits(u, r)'
  BY <1>2, <1>5, <1>7, <1>9 DEF AnswerFits
<1>10. WorkFits(u)'
  <2>1. PICK s, i : s = req[c].sid /\ i = req[c].index
    OBVIOUS
  <2>2. s \in Sessions
    BY <1>1, <2>1
  <2>3. pc'[c] = pc[c] /\ req'[c] = req[c] /\ page' = page
    BY DEF Rests, Untouched
  <2>4. WorkFits(u)
    BY DEF Smooth
  <2>5. pc[c] = "CreateSession" => Alone(u, s)'
    <3>1. SUFFICES ASSUME pc[c] = "CreateSession" PROVE Alone(u, s)'
      OBVIOUS
    <3>2. ~Unused(s) /\ Alone(u, s)
      BY <1>1, <2>4, <2>1, <3>1 DEF Unused, WorkFits, InitLabels
    <3> QED
      BY <1>1, <2>2, <3>2, AloneStep
  <2>6. pc[c] \in InitLabels \ {"CreateSession"} => Ours(u, s, 0)' /\ Alone(u, s)'
    BY <1>4, <2>4, <2>1, <2>2 DEF WorkFits, Ours
  <2>7. pc[c] = "SetUploadID" => InStorage(s)'
    BY <1>4, <2>4, <2>1, <2>2 DEF WorkFits, InStorage, InitLabels
  <2>8. pc[c] \in ChunkLabels \cup {"GetSession"} => Expects(u, i)'
    BY <1>6, <2>4, <2>1 DEF WorkFits
  <2>9. pc[c] = "AddChunk" => s3'[s].parts[PartNumber(i)] = req[c].content
    <3>1. SUFFICES ASSUME pc[c] = "AddChunk"
                   PROVE  s3'[s].parts[PartNumber(i)] = req[c].content
      OBVIOUS
    <3>2. s = page.sessionID /\ Expects(u, i) /\ s3[s].parts[PartNumber(i)] = req[c].content
      BY <2>4, <2>1, <3>1 DEF WorkFits, UploadLabels, ChunkLabels
    <3>3. Ours(u, s, i)
      BY <3>2 DEF Expects, Holds
    <3> QED
      BY <1>4, <2>2, <3>2, <3>3
  <2>10. pc[c] \in {"GetProgress", "IsComplete", "CompleteMultipartUpload"} => UpToDate(u)'
    BY <1>7, <2>4 DEF WorkFits
  <2> QED
    BY <1>2, <2>3, <2>4, <2>1, <2>5, <2>6, <2>7, <2>8, <2>9, <2>10 DEF WorkFits
<1>11. /\ \A k \in DOMAIN answers[u] : answers[u][k].sessionID \in Sessions
       /\ \A k \in DOMAIN frames[u] : Head(frames[u][k]).sessionID \in Sessions
  BY <1>1, AnswerIds
<1> QED
  BY <1>6, <1>8, <1>9, <1>10, <1>11 DEF Smooth, Rests, Untouched

\* Which call a handler is at says what it does.
LEMMA HandlerAt ==
    ASSUME NEW c, HandlerStep(c)
    PROVE  /\ pc[c] = "CreateSession" => CreateSession(c)
           /\ pc[c] = "CreateMultipartUpload" => CreateMultipartUpload(c)
           /\ pc[c] = "SetUploadID" => SetUploadID(c)
           /\ pc[c] = "GetSession" => GetSession(c)
           /\ pc[c] = "ReadPaused" => ReadPaused(c)
           /\ pc[c] = "ReadCancelled" => ReadCancelled(c)
           /\ pc[c] = "UploadPart" => UploadPart(c)
           /\ pc[c] = "AddChunk" => AddChunkCall(c)
           /\ pc[c] = "GetProgress" => GetProgressCall(c)
           /\ pc[c] = "IsComplete" => IsCompleteCall(c)
           /\ pc[c] = "CompleteMultipartUpload" => CompleteMultipartUpload(c)
           /\ pc[c] = "SetCompleted" => SetCompleted(c)
  BY DEF HandlerStep, LockStep, FreeStep, CreateSession, GetSession, DeleteSession,
     CreateMultipartUpload, SetUploadID, ReadPaused, ReadCancelled, UploadPart,
     AddChunkCall, GetProgressCall, IsCompleteCall, CompleteMultipartUpload,
     SetCompleted, SetFailed, PauseCall, ReadState, ResumeCall,
     GetMissingChunksCall, CancelCall, AbortMultipartUpload

\* Sessions are as safe as what is known of them.
LEMMA HoldsStays ==
    ASSUME UNCHANGED <<sessions, sess, s3, cleanup>>, NEW u \in Attempts,
           NEW s, NEW m, Alone(u, s)'
    PROVE  /\ Ours(u, s, m) => Ours(u, s, m)'
           /\ Holds(u, s, m) => Holds(u, s, m)'
  BY DEF Ours, Holds, InStorage, Known

\* A handler that has what it needs has it at its next call, too, or answers
\* what the page needs.
LEMMA WorkGoesOn ==
    ASSUME SystemInv, NamesKnown, Faults = {}, NEW u \in Attempts, page' = page,
           WorkFits(u), HandlerStep(ConnOf[u]),
           \A s \in Sessions : Alone(u, s) => Alone(u, s)',
           NEW r, r.code = reply'[ConnOf[u]].code, r.sessionID = req'[ConnOf[u]].sid
    PROVE  WorkFits(u)' /\ (pc'[ConnOf[u]] = "idle" => AnswerFits(u, r)')
<1>1. PICK c, s, i, d : /\ c = ConnOf[u] /\ s = req[c].sid /\ i = req[c].index
                        /\ d = req[c].content
  OBVIOUS
<1> DEFINE n == page.sentChunks
           Goal == WorkFits(u)' /\ (pc'[c] = "idle" => AnswerFits(u, r)')
<1>2. /\ TypeOK /\ PagesTyped /\ c \in Conns /\ HandlerInv(c) /\ PartsMatchReceived
      /\ s \in Sessions /\ i \in ChunkIndexes /\ d \in Contents /\ i \in Nat
      /\ sess[s] \in Session /\ s3[s] \in Upload
  <2>1. /\ TypeOK /\ PagesTyped /\ c \in Conns /\ HandlerInv(c) /\ PartsMatchReceived
    BY <1>1, ConnType DEF SystemInv, InductiveInv
  <2> QED
    BY <1>1, <2>1, Typed, ChunkIndexesAssumption
<1>3. /\ req'[c] = req[c] /\ HandlerStep(c)
      /\ pc \in [Conns -> Labels] /\ reply \in [Conns -> Response]
      /\ sess \in [Sessions -> Session] /\ s3 \in [Sessions -> Upload]
  BY <1>1, <1>2, HandlerFrame DEF TypeOK
<1>4. HasSession' <=> HasSession
  BY Identity
<1>5. n \in Nat
  <2>1. page \in PageRecord
    BY <1>2 DEF PagesTyped
  <2>2. page.sentChunks \in 0 .. totalChunks
    BY <2>1 DEF PageRecord
  <2>3. page.sentChunks \in Nat
    BY <2>2, TotalType
  <2> QED
    BY <2>3
<1>6. /\ pc[c] \in {"idle", "SetCompleted"} \cup InitLabels \cup UploadLabels
      /\ pc[c] \in InitLabels =>
            ~HasSession /\ req[c].user = TokenUser[token] /\ Alone(u, s)
      /\ pc[c] \in InitLabels \ {"CreateSession"} => Ours(u, s, 0)
      /\ pc[c] = "SetUploadID" => InStorage(s)
      /\ pc[c] \in UploadLabels =>
            /\ HasSession /\ s = page.sessionID
            /\ req[c].cmd = "CMD_UPLOAD_CHUNK" /\ req[c].user = TokenUser[token]
      /\ pc[c] \in ChunkLabels \cup {"GetSession"} => Expects(u, i)
      /\ pc[c] = "AddChunk" => s3[s].parts[PartNumber(i)] = d
      /\ pc[c] \in {"GetProgress", "IsComplete", "CompleteMultipartUpload"} =>
            UpToDate(u) /\ n # 0
  BY <1>1 DEF WorkFits
<1>7. ASSUME NEW label, Goto(c, label) PROVE pc'[c] = label
  BY <1>2, <1>3, <1>7 DEF Goto
<1>8. ASSUME NEW code, NEW x, NEW y, Answer(c, code, x, y)
      PROVE  pc'[c] = "idle" /\ r.code = code
  BY <1>1, <1>2, <1>3, <1>8 DEF Answer
<1>9. ASSUME NEW m, NEW allowed, NEW result, S3Fails(s, allowed, result), allowed
      PROVE  FALSE
  BY <1>9 DEF S3Fails
<1>10. ASSUME NEW new, S3Succeeds(s, TRUE, new) \/ S3Succeeds(s, IsOpen(s3[s]), new)
       PROVE  s3'[s] = new
  BY <1>2, <1>3, <1>10 DEF S3Succeeds
<1>11. ASSUME NEW new, Update(s, new) PROVE sess'[s] = new
  BY <1>2, <1>3, <1>11 DEF Update
<1>12. ASSUME pc'[c] = "idle", AnswerFits(u, r)' PROVE Goal
  <2>1. pc'[c] \notin InitLabels \cup UploadLabels
    BY <1>12 DEF InitLabels, UploadLabels, ChunkLabels
  <2>2. WorkFits(u)'
    BY <1>1, <1>12, <2>1 DEF WorkFits, InitLabels, UploadLabels, ChunkLabels
  <2> QED
    BY <1>12, <2>2
<1>13. CASE pc[c] = "CreateSession"
  <2>1. /\ CreateSession(c) /\ pc'[c] = "CreateMultipartUpload"
        /\ sess'[s] = NewSession(req[c].user, req[c].total, now)
        /\ sessions' = sessions \cup {s} /\ cleanup' = cleanup
    BY <1>1, <1>3, <1>7, <1>11, <1>13, HandlerAt DEF CreateSession
  <2>2. s \notin cleanup.victim
    BY <1>1, <1>2, <1>13 DEF HandlerInv, NamesKnown
  <2>3. Alone(u, s)' /\ ~HasSession /\ req[c].user = TokenUser[token]
    BY <1>2, <1>6, <1>13 DEF InitLabels
  <2>4. Ours(u, s, 0)'
    <3>1. /\ sess'[s].user = req[c].user /\ sess'[s].state = STATE_INITIALIZED
          /\ sess'[s].parts = <<>>
      BY <2>1 DEF NewSession
    <3> QED
      BY <2>1, <2>2, <2>3, <3>1 DEF Ours
  <2> QED
    BY <1>1, <1>3, <1>4, <2>1, <2>3, <2>4 DEF WorkFits, InitLabels, UploadLabels, ChunkLabels
<1>14. CASE pc[c] = "CreateMultipartUpload"
  <2>1. CreateMultipartUpload(c) /\ UNCHANGED <<sessions, sess, cleanup>>
    BY <1>3, <1>14, HandlerAt DEF CreateMultipartUpload
  <2>2. S3Succeeds(s, TRUE, Created(s3[s])) /\ Goto(c, "SetUploadID")
    BY <1>1, <1>9, <2>1 DEF CreateMultipartUpload
  <2>3. s3'[s] = Created(s3[s]) /\ pc'[c] = "SetUploadID"
    BY <1>7, <1>10, <2>2
  <2>4. /\ Ours(u, s, 0) /\ Alone(u, s)' /\ ~HasSession /\ req[c].user = TokenUser[token]
    BY <1>2, <1>6, <1>14 DEF InitLabels, Ours
  <2>5. Ours(u, s, 0)'
    BY <2>1, <2>4 DEF Ours
  <2>6. InStorage(s)'
    <3>1. IsOpen(s3'[s])
      BY <1>2, <2>3 DEF Created, IsOpen, Upload
    <3>2. DOMAIN sess'[s].parts = {}
      <4>1. sess[s].parts \in Seq(CompletedPart) /\ Len(sess[s].parts) = 0
        BY <1>2, <2>4 DEF Session, Ours
      <4> QED
        BY <2>1, <4>1
    <3> QED
      BY <3>1, <3>2 DEF InStorage
  <2> QED
    BY <1>1, <1>3, <1>4, <2>3, <2>4, <2>5, <2>6
       DEF WorkFits, InitLabels, UploadLabels, ChunkLabels
<1>15. CASE pc[c] = "SetUploadID"
  <2>1. /\ UNCHANGED <<sessions, s3, cleanup>> /\ pc'[c] = "idle" /\ r.code = "RESP_READY"
        /\ sess'[s] = [sess[s] EXCEPT !.uploadID = TRUE]
    BY <1>1, <1>3, <1>8, <1>11, <1>15, HandlerAt DEF SetUploadID
  <2>2. /\ Ours(u, s, 0) /\ InStorage(s) /\ Alone(u, s)' /\ ~HasSession
    BY <1>2, <1>6, <1>15 DEF InitLabels, Ours
  <2>3. /\ sess'[s].user = sess[s].user /\ sess'[s].state = sess[s].state
        /\ sess'[s].parts = sess[s].parts /\ sess'[s].uploadID
    BY <1>2, <2>1 DEF Session
  <2>4. Holds(u, s, 0)'
    BY <2>1, <2>2, <2>3 DEF Holds, Ours, InStorage, Known
  <2>5. r.sessionID = s
    BY <1>1, <1>3
  <2>6. AnswerFits(u, r)'
    BY <1>4, <2>1, <2>2, <2>4, <2>5 DEF AnswerFits
  <2> QED
    BY <1>1, <1>12, <2>1, <2>6
<1>16. ASSUME pc[c] \in ChunkLabels \cup {"GetSession"}
       PROVE  /\ HasSession /\ s = page.sessionID /\ req[c].cmd = "CMD_UPLOAD_CHUNK"
              /\ req[c].user = TokenUser[token]
              /\ i = n - 1 /\ Holds(u, s, i) /\ Alone(u, s)' /\ n = i + 1
              /\ Len(sess[s].parts) = i /\ sess[s].parts \in Seq(CompletedPart)
  <2>1. /\ HasSession /\ s = page.sessionID /\ req[c].cmd = "CMD_UPLOAD_CHUNK"
        /\ req[c].user = TokenUser[token] /\ i = n - 1 /\ Holds(u, s, i)
    BY <1>6, <1>16 DEF UploadLabels, Expects
  <2>2. Len(sess[s].parts) = i /\ Alone(u, s)
    BY <2>1 DEF Holds, Ours
  <2>3. sess[s].parts \in Seq(CompletedPart)
    BY <1>2 DEF Session
  <2>4. n = i + 1
    BY <1>2, <1>5, <2>1
  <2> QED
    BY <1>2, <2>1, <2>2, <2>3, <2>4
<1>17. ASSUME pc[c] \in ChunkLabels \cup {"GetSession"},
              pc'[c] \in ChunkLabels, pc'[c] # "AddChunk",
              UNCHANGED <<sessions, sess, s3, cleanup>>
       PROVE  Goal
  <2>1. /\ HasSession' /\ s = page.sessionID /\ req[c].cmd = "CMD_UPLOAD_CHUNK"
        /\ req[c].user = TokenUser[token] /\ i = n - 1 /\ Holds(u, s, i)'
    BY <1>4, <1>16, <1>17, HoldsStays
  <2>2. Expects(u, i)'
    BY <2>1 DEF Expects
  <2> QED
    BY <1>1, <1>3, <1>17, <2>1, <2>2 DEF WorkFits, InitLabels, UploadLabels, ChunkLabels
<1>18. CASE pc[c] = "GetSession"
  <2>1. GetSession(c) /\ UNCHANGED <<sessions, sess, s3, cleanup>>
    BY <1>3, <1>18, HandlerAt DEF GetSession
  <2>2. Holds(u, s, i) /\ req[c].cmd = "CMD_UPLOAD_CHUNK" /\ req[c].user = TokenUser[token]
    BY <1>16, <1>18
  <2>3. s \in sessions /\ sess[s].user = req[c].user
    BY <2>2 DEF Holds, Ours
  <2>4. Goto(c, FirstCall(req[c].cmd))
    BY <1>1, <2>1, <2>3 DEF GetSession
  <2>5. pc'[c] = "ReadPaused"
    BY <1>7, <2>2, <2>4 DEF FirstCall
  <2> QED
    BY <1>1, <1>17, <1>18, <2>1, <2>5 DEF ChunkLabels
<1>19. CASE pc[c] \in {"ReadPaused", "ReadCancelled"}
  <2>1. ReadPaused(c) \/ ReadCancelled(c)
    BY <1>3, <1>19, HandlerAt
  <2>2. Holds(u, s, i)
    BY <1>16, <1>19 DEF ChunkLabels
  <2>3. sess[s].state \notin {STATE_PAUSED, STATE_CANCELLED}
    BY <2>2 DEF Holds, Ours, STATE_INITIALIZED, STATE_UPLOADING, STATE_PAUSED, STATE_CANCELLED
  <2>4. Goto(c, "ReadCancelled") \/ Goto(c, "UploadPart")
    BY <1>1, <2>1, <2>3 DEF ReadPaused, ReadCancelled
  <2>5. pc'[c] \in {"ReadCancelled", "UploadPart"} /\ UNCHANGED <<sessions, sess, s3, cleanup>>
    BY <1>7, <2>1, <2>4 DEF ReadPaused, ReadCancelled
  <2> QED
    BY <1>1, <1>17, <1>19, <2>5 DEF ChunkLabels
<1>20. CASE pc[c] = "UploadPart"
  <2>1. UploadPart(c) /\ UNCHANGED <<sessions, sess, cleanup>>
    BY <1>3, <1>20, HandlerAt DEF UploadPart
  <2>2. /\ HasSession /\ s = page.sessionID /\ req[c].cmd = "CMD_UPLOAD_CHUNK"
        /\ req[c].user = TokenUser[token] /\ i = n - 1 /\ Holds(u, s, i)
        /\ Alone(u, s)' /\ Len(sess[s].parts) = i /\ sess[s].parts \in Seq(CompletedPart)
    BY <1>16, <1>20 DEF ChunkLabels
  <2>3. IsOpen(s3[s])
    BY <2>2 DEF Holds, InStorage
  <2>4. S3Succeeds(s, IsOpen(s3[s]), WithPart(s3[s], PartNumber(i), d)) /\ Goto(c, "AddChunk")
    BY <1>1, <1>9, <2>1, <2>3 DEF UploadPart
  <2>5. s3'[s] = WithPart(s3[s], PartNumber(i), d) /\ pc'[c] = "AddChunk"
    BY <1>7, <1>10, <2>4
  <2>6. /\ s3'[s].status = s3[s].status
        /\ s3'[s].parts = [s3[s].parts EXCEPT ![PartNumber(i)] = d]
    BY <1>2, <2>5 DEF WithPart, Upload
  <2>7. PartNumber(i) \in PartNumbers /\ s3[s].parts \in [PartNumbers -> Contents \cup {NoChunk}]
    BY <1>2 DEF PartNumbers, Upload
  <2>8. s3'[s].parts[PartNumber(i)] = d
    BY <2>6, <2>7
  <2>9. \A k \in DOMAIN sess[s].parts : s3'[s].parts[k] = s3[s].parts[k]
    <3> DEFINE parts == sess[s].parts
    <3>1. parts \in Seq(CompletedPart) /\ Len(parts) = i
      BY <2>2
    <3>2. ASSUME NEW k \in DOMAIN parts PROVE k # i + 1
      BY <1>2, <3>1, <3>2
    <3> HIDE DEF parts
    <3>3. ASSUME NEW k, k # i + 1 PROVE s3'[s].parts[k] = s3[s].parts[k]
      BY <2>6, <2>7, <3>3 DEF PartNumber
    <3> QED
      BY <3>2, <3>3 DEF parts
  <2>10. Expects(u, i)'
    <3>1. Ours(u, s, i)' /\ Known(s)'
      BY <2>1, <2>2 DEF Holds, Ours, Known
    <3>2. InStorage(s)'
      BY <2>1, <2>2, <2>6, <2>9 DEF Holds, InStorage, IsOpen
    <3> QED
      BY <1>4, <2>2, <3>1, <3>2 DEF Expects, Holds
  <2> QED
    BY <1>1, <1>3, <1>4, <2>2, <2>5, <2>8, <2>10
       DEF WorkFits, InitLabels, UploadLabels, ChunkLabels
<1>21. CASE pc[c] = "AddChunk"
  <2> DEFINE parts == sess[s].parts
             part == [number |-> PartNumber(i), etag |-> d]
  <2>1. /\ AddChunkCall(c) /\ UNCHANGED <<sessions, s3, cleanup>> /\ pc'[c] = "GetProgress"
        /\ sess'[s] = AddChunk(sess[s], i, d, now)
    BY <1>1, <1>3, <1>7, <1>11, <1>21, HandlerAt DEF AddChunkCall
  <2>2. /\ HasSession /\ s = page.sessionID /\ req[c].cmd = "CMD_UPLOAD_CHUNK"
        /\ req[c].user = TokenUser[token] /\ i = n - 1 /\ Holds(u, s, i)
        /\ Alone(u, s)' /\ Len(parts) = i /\ parts \in Seq(CompletedPart) /\ n = i + 1
    BY <1>16, <1>21 DEF ChunkLabels
  <2>3. /\ Ours(u, s, i) /\ InStorage(s) /\ Known(s)
        /\ \A k \in DOMAIN parts : parts[k].number = k
        /\ \A k \in DOMAIN parts : s3[s].parts[k] = parts[k].etag
        /\ s3[s].parts[i + 1] = d
    BY <1>6, <1>21, <2>2 DEF Holds, Ours, InStorage, PartNumber
  <2>4. sess[s].received[i] = NoChunk
    <3> SUFFICES ASSUME sess[s].received[i] # NoChunk PROVE FALSE
      OBVIOUS
    <3>1. i \in Received(sess[s])
      BY <1>2 DEF Received
    <3>2. [number |-> PartNumber(i), etag |-> sess[s].received[i]]
             \in {parts[k] : k \in DOMAIN parts}
      BY <1>2, <3>1 DEF PartsMatchReceived
    <3>3. PICK k \in DOMAIN parts : parts[k].number = i + 1
      BY <3>2 DEF PartNumber
    <3>4. k = i + 1
      BY <2>3, <3>3
    <3>5. k \in 1 .. i
      BY <2>2, <3>3
    <3> QED
      BY <1>2, <3>4, <3>5
  <2>5. /\ sess'[s].parts = Append(parts, part) /\ sess'[s].user = sess[s].user
        /\ sess'[s].state = STATE_UPLOADING /\ sess'[s].uploadID = sess[s].uploadID
    BY <1>2, <2>1, <2>4 DEF AddChunk, Session
  <2>6. part.number = i + 1 /\ part.etag = d
    BY DEF PartNumber
  <2>7. /\ Len(sess'[s].parts) = i + 1 /\ DOMAIN sess'[s].parts = 1 .. i + 1
        /\ sess'[s].parts[i + 1] = part
        /\ \A k \in 1 .. i : k \in DOMAIN parts /\ sess'[s].parts[k] = parts[k]
    <3> HIDE DEF parts, part
    <3> QED
      BY <1>2, <2>2, <2>5
  <2>8. ASSUME NEW k \in DOMAIN sess'[s].parts
        PROVE  sess'[s].parts[k].number = k /\ s3'[s].parts[k] = sess'[s].parts[k].etag
    <3> HIDE DEF parts, part
    <3>1. k \in 1 .. i \/ k = i + 1
      BY <1>2, <2>7, <2>8
    <3>2. CASE k = i + 1
      BY <2>1, <2>3, <2>6, <2>7, <3>2
    <3>3. CASE k \in 1 .. i
      <4>1. k \in DOMAIN parts /\ sess'[s].parts[k] = parts[k]
        BY <2>7, <3>3
      <4> QED
        BY <2>1, <2>3, <4>1
    <3> QED
      BY <3>1, <3>2, <3>3
  <2> HIDE DEF parts, part
  <2>9. Ours(u, s, n)'
    BY <2>1, <2>2, <2>3, <2>5, <2>7, <2>8 DEF Ours
  <2>10. InStorage(s)' /\ Known(s)'
    BY <2>1, <2>3, <2>5, <2>8 DEF InStorage, Known
  <2>11. UpToDate(u)'
    BY <1>4, <2>2, <2>9, <2>10 DEF UpToDate, Holds
  <2>12. n # 0
    BY <1>2, <2>2
  <2> QED
    BY <1>1, <1>3, <1>4, <2>1, <2>2, <2>11, <2>12
       DEF WorkFits, InitLabels, UploadLabels, ChunkLabels
<1>22. ASSUME pc[c] \in {"GetProgress", "IsComplete", "CompleteMultipartUpload"}
       PROVE  /\ HasSession /\ s = page.sessionID /\ req[c].cmd = "CMD_UPLOAD_CHUNK"
              /\ req[c].user = TokenUser[token] /\ UpToDate(u) /\ n # 0
              /\ Holds(u, s, n) /\ Alone(u, s)'
  <2>1. /\ HasSession /\ s = page.sessionID /\ req[c].cmd = "CMD_UPLOAD_CHUNK"
        /\ req[c].user = TokenUser[token] /\ UpToDate(u) /\ n # 0
    BY <1>6, <1>22 DEF UploadLabels
  <2>2. Holds(u, s, n)
    BY <2>1 DEF UpToDate
  <2> QED
    BY <1>2, <2>1, <2>2 DEF Holds, Ours
<1>23. ASSUME pc[c] \in {"GetProgress", "IsComplete"}, UNCHANGED <<sessions, sess, s3, cleanup>>
       PROVE  UpToDate(u)'
  BY <1>4, <1>22, <1>23, HoldsStays DEF UpToDate
<1>24. ASSUME pc[c] \in {"GetProgress", "IsComplete"}, UNCHANGED <<sessions, sess, s3, cleanup>>,
              pc'[c] \in {"IsComplete", "CompleteMultipartUpload"}
       PROVE  Goal
  BY <1>1, <1>3, <1>4, <1>22, <1>23, <1>24
     DEF WorkFits, InitLabels, UploadLabels, ChunkLabels
<1>25. CASE pc[c] = "GetProgress"
  <2>1. GetProgressCall(c) /\ UNCHANGED <<sessions, sess, s3, cleanup>>
    BY <1>3, <1>25, HandlerAt DEF GetProgressCall
  <2>2. pc'[c] = "IsComplete"
    BY <1>7, <1>22, <1>25, <2>1 DEF GetProgressCall
  <2> QED
    BY <1>1, <1>24, <1>25, <2>1, <2>2
<1>26. CASE pc[c] = "IsComplete"
  <2>1. IsCompleteCall(c) /\ UNCHANGED <<sessions, sess, s3, cleanup>>
    BY <1>3, <1>26, HandlerAt DEF IsCompleteCall
  <2>2. \/ pc'[c] = "CompleteMultipartUpload"
        \/ pc'[c] = "idle" /\ r.code \in {"RESP_DUPLICATE", "RESP_CHUNK_ACK"}
    BY <1>7, <1>8, <2>1 DEF IsCompleteCall
  <2>3. CASE pc'[c] = "CompleteMultipartUpload"
    BY <1>1, <1>24, <1>26, <2>1, <2>3
  <2>4. CASE pc'[c] = "idle" /\ r.code \in {"RESP_DUPLICATE", "RESP_CHUNK_ACK"}
    <3>1. AnswerFits(u, r)'
      BY <1>23, <1>26, <2>1, <2>4 DEF AnswerFits, IsChunkAnswer
    <3> QED
      BY <1>12, <2>4, <3>1
  <2> QED
    BY <2>2, <2>3, <2>4
<1>27. CASE pc[c] = "CompleteMultipartUpload"
  <2> DEFINE parts == sess[s].parts
  <2>1. CompleteMultipartUpload(c)
    BY <1>3, <1>27, HandlerAt
  <2>2. Holds(u, s, n) /\ n # 0
    BY <1>22, <1>27
  <2>3. parts \in Seq(CompletedPart) /\ Len(parts) = n
    BY <1>2, <2>2 DEF Session, Holds, Ours
  <2>4. parts # <<>>
    BY <2>2, <2>3
  <2>5. /\ \A k \in DOMAIN parts : parts[k].number = k
        /\ \A k \in DOMAIN parts : s3[s].parts[k] = parts[k].etag
        /\ IsOpen(s3[s])
    BY <2>2 DEF Holds, Ours, InStorage
  <2> HIDE DEF parts
  <2>6. Completable(s3[s], parts)
    BY <2>4, <2>5 DEF Completable
  <2>7. Goto(c, "SetCompleted")
    BY <1>1, <1>9, <2>1, <2>6 DEF CompleteMultipartUpload, parts
  <2>8. pc'[c] = "SetCompleted"
    BY <1>7, <2>7
  <2> QED
    BY <1>1, <1>3, <2>8 DEF WorkFits, InitLabels, UploadLabels, ChunkLabels
<1>28. CASE pc[c] = "SetCompleted"
  <2>1. pc'[c] = "idle" /\ r.code = "RESP_COMPLETE"
    BY <1>3, <1>8, <1>28, HandlerAt DEF SetCompleted
  <2>2. AnswerFits(u, r)'
    BY <2>1 DEF AnswerFits
  <2> QED
    BY <1>12, <2>1, <2>2
<1>29. pc[c] # "idle"
  BY <1>2, <1>3, HandlerFrame
<1> QED
  BY <1>6, <1>13, <1>14, <1>15, <1>18, <1>19, <1>20, <1>21, <1>25, <1>26, <1>27, <1>28, <1>29
     DEF InitLabels, UploadLabels, ChunkLabels

\* Whether an upload is alone with a session depends on the others.
LEMMA AloneFrame ==
    ASSUME NEW u \in Attempts,
           \A v \in Attempts \ {u} : /\ requests'[v] = requests[v]
                                     /\ pc'[ConnOf[v]] = pc[ConnOf[v]]
                                     /\ req'[ConnOf[v]] = req[ConnOf[v]]
    PROVE  \A s : Alone(u, s) => Alone(u, s)'
  BY DEF Alone

\* What an upload relies on lasts as long as the page and the session.
LEMMA FitsStays ==
    ASSUME UNCHANGED <<sessions, sess, s3, cleanup>>, NEW u \in Attempts,
           \A s : Alone(u, s) => Alone(u, s)',
           page'.sessionID = page.sessionID, page'.sentChunks = page.sentChunks
    PROVE  /\ HasSession' <=> HasSession
           /\ \A s, m : Holds(u, s, m) => Holds(u, s, m)'
           /\ \A i : Expects(u, i) => Expects(u, i)'
           /\ UpToDate(u) => UpToDate(u)'
           /\ \A m : MessageFits(u, m) => MessageFits(u, m)'
           /\ \A r : AnswerFits(u, r) => AnswerFits(u, r)'
<1>1. HasSession' <=> HasSession
  BY Identity
<1>2. ASSUME NEW s, NEW m, Holds(u, s, m) PROVE Holds(u, s, m)'
  <2>1. Alone(u, s)'
    BY <1>2 DEF Holds, Ours
  <2> QED
    BY <1>2, <2>1, HoldsStays
<1>3. ASSUME NEW i, Expects(u, i) PROVE Expects(u, i)'
  BY <1>1, <1>2, <1>3 DEF Expects
<1>4. UpToDate(u) => UpToDate(u)'
  BY <1>1, <1>2 DEF UpToDate
<1>5. ASSUME NEW m, MessageFits(u, m) PROVE MessageFits(u, m)'
  BY <1>1, <1>3, <1>5 DEF MessageFits
<1>6. ASSUME NEW r, AnswerFits(u, r) PROVE AnswerFits(u, r)'
  BY <1>1, <1>2, <1>4, <1>6 DEF AnswerFits
<1> QED
  BY <1>1, <1>2, <1>3, <1>4, <1>5, <1>6

\* A handler at rest has all it needs.
LEMMA IdleFits ==
    ASSUME NEW u \in Attempts, pc'[ConnOf[u]] = "idle" PROVE WorkFits(u)'
<1>1. "idle" \notin InitLabels \cup UploadLabels
  BY DEF InitLabels, UploadLabels, ChunkLabels
<1> QED
  BY <1>1 DEF WorkFits, UploadLabels

\* Where only one message, one chunk or one answer is under way.
LEMMA SmoothWith ==
    ASSUME NEW u \in Attempts, WorkFits(u)', NEW x, NEW m, NEW a, NEW f,
           page'.reading = <<>> \/ (page'.reading = <<x>> /\ Expects(u, x.index)'),
           requests'[u] = <<>> \/ (requests'[u] = <<m>> /\ MessageFits(u, m)'),
           answers'[u] = <<>> \/ (answers'[u] = <<a>> /\ AnswerFits(u, a)'),
           frames'[u] = <<>> \/ (frames'[u] = <<f>> /\ AnswerFits(u, Head(f))')
    PROVE  Smooth(u)'
<1>1. ASSUME NEW y, NEW s, s = <<>> \/ s = <<y>>, NEW k \in DOMAIN s PROVE s = <<y>> /\ s[k] = y
  BY <1>1
<1>2. ASSUME NEW k \in DOMAIN page'.reading PROVE Expects(u, page.reading[k].index)'
  <2>1. page'.reading = <<x>> /\ page'.reading[k] = x /\ <<x>> # <<>>
    BY <1>1, <1>2
  <2> QED
    BY <2>1
<1>3. ASSUME NEW k \in DOMAIN requests'[u] PROVE MessageFits(u, requests[u][k])'
  <2>1. requests'[u] = <<m>> /\ requests'[u][k] = m /\ <<m>> # <<>>
    BY <1>1, <1>3
  <2> QED
    BY <2>1
<1>4. ASSUME NEW k \in DOMAIN answers'[u] PROVE AnswerFits(u, answers[u][k])'
  <2>1. answers'[u] = <<a>> /\ answers'[u][k] = a /\ <<a>> # <<>>
    BY <1>1, <1>4
  <2> QED
    BY <2>1
<1>5. ASSUME NEW k \in DOMAIN frames'[u] PROVE AnswerFits(u, Head(frames[u][k]))'
  <2>1. frames'[u] = <<f>> /\ frames'[u][k] = f /\ <<f>> # <<>>
    BY <1>1, <1>5
  <2> QED
    BY <2>1
<1> QED
  BY <1>2, <1>3, <1>4, <1>5 DEF Smooth

\* A new message starts work on the page's session, or a session for the page.
LEMMA ReceiveSmooth ==
    ASSUME SystemInv, InTurn, NamesKnown, FileAccepted, NEW u \in Attempts,
           socket[u] = "open", Smooth(u), ServerReceive(u)
    PROVE  Smooth(u)'
<1>1. PICK c, m : c = ConnOf[u] /\ m = Head(requests[u])
  OBVIOUS
<1>2. /\ TypeOK /\ PagesTyped /\ c \in Conns /\ m \in Message /\ Handle(c, m)
      /\ requests[u] # <<>> /\ pc[c] = "idle"
      /\ requests' = [requests EXCEPT ![u] = Tail(requests[u])] /\ Reply(u)
      /\ page' = page /\ socket' = socket /\ frames' = frames
  BY <1>1, ConnType DEF SystemInv, InductiveInv, ServerReceive
<1>3. /\ requests \in [Attempts -> Seq(Message)] /\ requests[u] \in Seq(Message)
      /\ answers \in [Attempts -> Seq(PageAnswer)]
      /\ req \in [Conns -> Request] /\ pc \in [Conns -> Labels]
  BY <1>2 DEF PagesTyped, TypeOK
<1>4. /\ page.reading = <<>> /\ frames[u] = <<>> /\ answers[u] = <<>>
      /\ Len(requests[u]) <= 1
  <2>1. UnderWay(u) <= 1
    BY DEF InTurn
  <2> QED
    BY <1>2, <2>1, OneUnderWay
<1>5. Tail(requests[u]) = <<>> /\ requests[u] = <<m>>
  BY <1>1, <1>2, <1>3, <1>4, NoMore
<1>6. requests'[u] = <<>> /\ \A v \in Attempts \ {u} : requests'[v] = requests[v]
  BY <1>2, <1>3, <1>5
<1>7. MessageFits(u, m)
  <2>1. 1 \in DOMAIN requests[u] /\ requests[u][1] = m
    BY <1>5
  <2> QED
    BY <2>1 DEF Smooth
<1>8. \A s : Alone(u, s) => Alone(u, s)'
  <2>1. \A d \in Conns \ {c} : pc'[d] = pc[d] /\ req'[d] = req[d]
    BY <1>2, HandleReceives, ReceiveFrame
  <2> QED
    BY <1>1, <1>6, <2>1, OwnConnection, AloneFrame
<1>9. /\ UNCHANGED <<sessions, sess, s3, cleanup>>
      /\ \/ pc'[c] = "idle" /\ reply'[c].code = "RESP_AUTH_FAILED"
         \/ pc'[c] = "idle" /\ m.cmd # "CMD_INIT_UPLOAD" /\ ~AboutSession(m)
         \/ Opens(c, m) \/ Asks(c, m)
  BY <1>2, HandleOutcome
<1>10. /\ HasSession' <=> HasSession
       /\ \A i : Expects(u, i) => Expects(u, i)'
  BY <1>2, <1>8, <1>9, FitsStays
<1>11. ASSUME pc'[c] # "idle", WorkFits(u)' PROVE Smooth(u)'
  <2>1. answers'[u] = <<>>
    BY <1>1, <1>2, <1>4, <1>11 DEF Reply
  <2> QED
    BY <1>2, <1>4, <1>6, <1>11, <2>1, SmoothWith
<1>12. CASE pc'[c] = "idle" /\ reply'[c].code = "RESP_AUTH_FAILED"
  <2>1. PICK a : a = Written(c)
    OBVIOUS
  <2>2. a.code = "RESP_AUTH_FAILED"
    BY <1>12, <2>1 DEF Written
  <2>3. AnswerFits(u, a)'
    BY <2>2 DEF AnswerFits
  <2>4. answers'[u] = <<a>>
    BY <1>1, <1>2, <1>3, <1>4, <1>12, <2>1 DEF Reply
  <2>5. WorkFits(u)'
    BY <1>1, <1>12, IdleFits
  <2> QED
    BY <1>2, <1>4, <1>6, <2>3, <2>4, <2>5, SmoothWith
<1>13. CASE pc'[c] = "idle" /\ m.cmd # "CMD_INIT_UPLOAD" /\ ~AboutSession(m)
  <2>1. m.sessionID = page.sessionID /\ HasSession
    BY <1>7, <1>13 DEF MessageFits, Expects
  <2> QED
    BY <1>13, <2>1, Identity
<1>14. CASE Opens(c, m)
  <2>1. PICK s : s = req'[c].sid
    OBVIOUS
  <2>2. /\ ~HasSession /\ pc'[c] = "CreateSession" /\ s \in Sessions /\ Unused(s)
        /\ req'[c].user = TokenUser[token]
    BY <1>7, <1>14, <2>1 DEF Opens, MessageFits
  <2>3. Alone(u, s)'
    BY <1>8, <2>2, UnusedIsAlone
  <2>4. WorkFits(u)'
    BY <1>1, <1>10, <2>1, <2>2, <2>3 DEF WorkFits, InitLabels, UploadLabels, ChunkLabels
  <2> QED
    BY <1>11, <2>2, <2>4
<1>15. CASE Asks(c, m)
  <2>1. PICK i : i = req'[c].index
    OBVIOUS
  <2>2. /\ m.cmd = "CMD_UPLOAD_CHUNK" /\ Expects(u, m.chunk.index)
        /\ m.sessionID = page.sessionID
    BY <1>7, <1>15 DEF MessageFits, Asks, Asked
  <2>3. /\ pc'[c] = "GetSession" /\ req'[c].cmd = "CMD_UPLOAD_CHUNK"
        /\ req'[c].sid = page.sessionID /\ i = m.chunk.index
        /\ req'[c].user = TokenUser[token]
    BY <1>15, <2>1, <2>2 DEF Asks, Asked
  <2>4. Expects(u, i)' /\ HasSession'
    BY <1>10, <2>2, <2>3 DEF Expects
  <2>5. WorkFits(u)'
    BY <1>1, <1>2, <2>1, <2>3, <2>4 DEF WorkFits, InitLabels, UploadLabels, ChunkLabels
  <2> QED
    BY <1>11, <2>3, <2>5
<1> QED
  BY <1>9, <1>12, <1>13, <1>14, <1>15

\* The work goes on, or its answer is written.
LEMMA StepSmooth ==
    ASSUME SystemInv, InTurn, NamesKnown, Faults = {}, NEW u \in Attempts,
           socket[u] = "open", Smooth(u), ServerStep(u)
    PROVE  Smooth(u)'
<1>1. PICK c, a : c = ConnOf[u] /\ a = Written(c)
  OBVIOUS
<1>2. /\ TypeOK /\ PagesTyped /\ c \in Conns /\ HandlerStep(c) /\ Reply(u)
      /\ page' = page /\ socket' = socket /\ frames' = frames /\ requests' = requests
  BY <1>1, ConnType DEF SystemInv, InductiveInv, ServerStep, pageVars
<1>3. /\ pc[c] # "idle" /\ answers \in [Attempts -> Seq(PageAnswer)]
      /\ \A d \in Conns \ {c} : pc'[d] = pc[d] /\ req'[d] = req[d]
  BY <1>2, HandlerFrame DEF PagesTyped
<1>4. page.reading = <<>> /\ frames[u] = <<>> /\ answers[u] = <<>> /\ requests[u] = <<>>
  <2>1. UnderWay(u) <= 1
    BY DEF InTurn
  <2> QED
    BY <1>1, <1>2, <1>3, <2>1, OneUnderWay
<1>5. \A s : Alone(u, s) => Alone(u, s)'
  BY <1>1, <1>2, <1>3, OwnConnection, AloneFrame
<1>6. a.code = reply'[c].code /\ a.sessionID = req'[c].sid
  BY <1>1 DEF Written
<1>7. WorkFits(u)' /\ (pc'[c] = "idle" => AnswerFits(u, a)')
  <2>1. WorkFits(u) /\ HandlerStep(ConnOf[u])
    BY <1>1, <1>2 DEF Smooth
  <2> QED
    BY <1>1, <1>2, <1>5, <1>6, <2>1, WorkGoesOn
<1>8. answers'[u] = IF pc'[c] = "idle" THEN <<a>> ELSE <<>>
  BY <1>1, <1>2, <1>3, <1>4 DEF Reply
<1> QED
  BY <1>2, <1>4, <1>7, <1>8, SmoothWith

\* The gateway passes on what fits.
LEMMA GatewaySmooth ==
    ASSUME SystemInv, InTurn, NEW u \in Attempts, socket[u] = "open", Smooth(u),
           NEW n \in 1 .. Len(answers[u]), GatewayRead(u, n)
    PROVE  Smooth(u)'
<1>1. /\ PagesTyped /\ UNCHANGED <<vars, page, socket, requests>>
      /\ frames' = [frames EXCEPT ![u] = Append(@, SubSeq(answers[u], 1, n))]
      /\ answers' = [answers EXCEPT ![u] = SubSeq(@, n + 1, Len(@))]
  BY DEF SystemInv, GatewayRead
<1>2. /\ UNCHANGED <<sessions, sess, s3, cleanup>> /\ pc' = pc /\ req' = req /\ page' = page
      /\ requests' = requests
  BY <1>1 DEF vars
<1>3. /\ answers \in [Attempts -> Seq(PageAnswer)] /\ answers[u] \in Seq(PageAnswer)
      /\ frames \in [Attempts -> Seq(Seq(PageAnswer) \ {<<>>})]
  BY <1>1 DEF PagesTyped
<1> DEFINE A == answers[u]
<1>4. A # <<>> /\ Len(A) = 1 /\ n = 1
  <2>1. UnderWay(u) <= 1
    BY DEF InTurn
  <2>2. Len(A) <= 1
    BY <1>1, <2>1, OneUnderWay
  <2> HIDE DEF A
  <2>3. A \in Seq(PageAnswer) /\ n \in 1 .. Len(A)
    BY <1>3 DEF A
  <2> DEFINE l == Len(A)
  <2>4. l \in Nat /\ n \in 1 .. l /\ l <= 1
    BY <2>2, <2>3
  <2> HIDE DEF l
  <2>5. l = 1 /\ n = 1
    BY <2>4
  <2>6. Len(A) = 1
    BY <2>5 DEF l
  <2>7. A # <<>>
    BY <2>6
  <2> QED
    BY <2>5, <2>6, <2>7
<1>5. /\ page.reading = <<>> /\ requests[u] = <<>> /\ frames[u] = <<>>
      /\ pc[ConnOf[u]] = "idle"
  <2>1. UnderWay(u) <= 1
    BY DEF InTurn
  <2> QED
    BY <1>1, <1>4, <2>1, OneUnderWay
<1>6. PICK a : a = A[1]
  OBVIOUS
<1>7. 1 \in DOMAIN A /\ A = <<a>>
  <2> HIDE DEF A
  <2> QED
    BY <1>3, <1>4, <1>6 DEF A
<1>8. AnswerFits(u, a)
  BY <1>6, <1>7 DEF Smooth
<1>9. AnswerFits(u, a)'
  <2>1. \A s : Alone(u, s) => Alone(u, s)'
    BY <1>2, AloneFrame
  <2> QED
    BY <1>2, <1>8, <2>1, FitsStays
<1>10. frames'[u] = <<<<a>>>>
  <2> DEFINE m == SubSeq(A, 1, n)
  <2>1. A \in Seq(PageAnswer) /\ n \in 1 .. Len(A)
    BY <1>3
  <2>2. frames'[u] = Append(<<>>, m)
    BY <1>1, <1>3, <1>5
  <2> HIDE DEF A
  <2>3. m \in Seq(PageAnswer) /\ Len(m) = n /\ (1 \in 1 .. n => m[1] = A[1])
    BY <2>1
  <2> HIDE DEF m
  <2>4. m = <<a>>
    BY <1>4, <1>6, <2>3
  <2> QED
    BY <2>2, <2>4
<1>11. answers'[u] = <<>>
  <2> DEFINE rest == SubSeq(A, n + 1, Len(A))
  <2>1. A \in Seq(PageAnswer) /\ n \in 1 .. Len(A)
    BY <1>3
  <2>2. answers'[u] = rest
    BY <1>1, <1>3
  <2> HIDE DEF A
  <2>3. rest \in Seq(PageAnswer) /\ Len(rest) = Len(A) - n
    BY <2>1
  <2> HIDE DEF rest
  <2>4. Len(rest) = 0
    BY <1>4, <2>3
  <2>5. rest = <<>>
    BY <2>3, <2>4
  <2> QED
    BY <2>2, <2>5
<1>12. Head(<<a>>) = a
  OBVIOUS
<1>13. WorkFits(u)'
  BY <1>2, <1>5, IdleFits
<1> HIDE DEF A
<1> QED
  BY <1>2, <1>5, <1>9, <1>10, <1>11, <1>12, <1>13, SmoothWith

\* What the page's messages and buttons leave alone.
Keeps(p, q) ==
    /\ q.ws = p.ws /\ q.sessionID = p.sessionID /\ q.sentChunks = p.sentChunks
    /\ q.pendingChunks = p.pendingChunks /\ q.reading = p.reading

\* A message shown, an end or a closed WebSocket is such.
LEMMA ShowKeeps ==
    ASSUME NEW p \in PageRecord, NEW x
    PROVE  /\ Keeps(p, log(p, x)) /\ log(p, x).shown = x
           /\ Keeps(p, Finish(p, x)) /\ Finish(p, x).shown = x
           /\ Keeps(p, Closed(p)) /\ Closed(p).shown = p.shown
<1>1. Keeps(p, log(p, x))
  BY DEF Keeps, log, PageRecord
<1>2. Keeps(p, Finish(p, x))
  BY DEF Keeps, Finish, setButtons, log, PageRecord
<1>3. Keeps(p, Closed(p))
  BY DEF Keeps, Closed, setButtons, PageRecord
<1> QED
  BY <1>1, <1>2, <1>3, ShowEffect, CloseEffect

\* When no chunk is missing the page sends the next, or none.
LEMMA NextChunk ==
    ASSUME NEW p \in PageRecord, p.pendingChunks = {}
    PROVE  LET q == sendNextChunk(p)
           IN  \/ q = p
               \/ /\ q.ws = p.ws /\ q.sessionID = p.sessionID /\ q.shown = p.shown
                  /\ q.pendingChunks = {} /\ q.sentChunks = p.sentChunks + 1
                  /\ q.reading = Append(p.reading, ChunkOf(p, p.sentChunks))
  BY DEF sendNextChunk, PageRecord

\* What an answer that fits makes of a page that waits for it.
LEMMA GoodAnswer ==
    ASSUME NEW p \in PageRecord, NEW r \in PageAnswer,
           p.pendingChunks = {}, p.reading = <<>>, p.shown # "error",
           r.code \in {"RESP_AUTH_FAILED", "RESP_COMPLETE", "RESP_READY"} \/ IsChunkAnswer(r)
    PROVE  LET q == handleResponse(p, r)
           IN  /\ q.ws = p.ws /\ q.shown # "error" /\ q.pendingChunks = {}
               /\ q.sessionID = IF r.code = "RESP_READY" THEN r.sessionID ELSE p.sessionID
               /\ \/ q.sentChunks = p.sentChunks /\ q.reading = <<>>
                  \/ /\ q.sentChunks = p.sentChunks + 1
                     /\ q.reading = <<ChunkOf(p, p.sentChunks)>>
                     /\ r.code = "RESP_READY" \/ IsChunkAnswer(r)
<1> DEFINE q == handleResponse(p, r)
           Goal == /\ q.ws = p.ws /\ q.shown # "error" /\ q.pendingChunks = {}
                   /\ q.sessionID = IF r.code = "RESP_READY" THEN r.sessionID ELSE p.sessionID
                   /\ \/ q.sentChunks = p.sentChunks /\ q.reading = <<>>
                      \/ /\ q.sentChunks = p.sentChunks + 1
                         /\ q.reading = <<ChunkOf(p, p.sentChunks)>>
                         /\ r.code = "RESP_READY" \/ IsChunkAnswer(r)
<1> SUFFICES Goal
  OBVIOUS
<1>1. /\ r.sessionID \in Sessions /\ r.received \in Nat
      /\ IsChunkAnswer(r) => r.received <= totalChunks
  BY DEF PageAnswer
<1>2. /\ totalChunks \in Nat /\ log(p, "nothing") \in PageRecord
      /\ Keeps(p, log(p, "nothing")) /\ log(p, "nothing").shown = "nothing"
  BY TotalType, PageOps, ShowKeeps
<1>3. ASSUME NEW s \in PageRecord, q = sendNextChunk(s), s.ws = p.ws,
             s.sentChunks = p.sentChunks, s.pendingChunks = {}, s.reading = <<>>,
             s.shown # "error", r.code = "RESP_READY" \/ IsChunkAnswer(r),
             s.sessionID = IF r.code = "RESP_READY" THEN r.sessionID ELSE p.sessionID
      PROVE  Goal
  <2>1. ChunkOf(s, s.sentChunks) = ChunkOf(p, p.sentChunks)
    BY <1>3 DEF ChunkOf
  <2>2. Append(<<>>, ChunkOf(p, p.sentChunks)) = <<ChunkOf(p, p.sentChunks)>>
    OBVIOUS
  <2> HIDE DEF q
  <2> QED
    BY <1>3, <2>1, <2>2, NextChunk
<1>4. CASE r.code = "RESP_READY"
  <2> DEFINE s == [log(p, "nothing") EXCEPT !.sessionID = r.sessionID]
  <2>1. /\ s \in PageRecord /\ s.ws = p.ws /\ s.sessionID = r.sessionID
        /\ s.sentChunks = p.sentChunks /\ s.pendingChunks = {} /\ s.reading = <<>>
        /\ s.shown = "nothing"
    BY <1>1, <1>2 DEF PageRecord, Ids, Keeps
  <2>2. q = sendNextChunk(s)
    BY <1>4 DEF handleResponse
  <2> HIDE DEF s, q, Goal
  <2> QED
    BY <1>3, <1>4, <2>1, <2>2
<1>5. CASE IsChunkAnswer(r)
  <2> DEFINE s == Acked(p, r)
  <2>1. r.received \in 0 .. totalChunks
    BY <1>1, <1>2, <1>5
  <2>2. /\ s \in PageRecord /\ s.ws = p.ws /\ s.sessionID = p.sessionID
        /\ s.sentChunks = p.sentChunks /\ s.pendingChunks = {} /\ s.reading = <<>>
        /\ s.shown = p.shown
    BY <2>1 DEF PageRecord, Acked
  <2>3. q = sendNextChunk(s) /\ r.code # "RESP_READY"
    BY <1>5 DEF handleResponse, IsChunkAnswer
  <2> HIDE DEF s, q, Goal
  <2> QED
    BY <1>3, <1>5, <2>2, <2>3
<1>6. CASE r.code \in {"RESP_AUTH_FAILED", "RESP_COMPLETE"}
  <2>1. q = Finish(p, "auth failed") \/ q = Finish(p, "complete")
    BY <1>6 DEF handleResponse
  <2> HIDE DEF q
  <2>2. Keeps(p, q) /\ q.shown # "error"
    <3>1. /\ Keeps(p, Finish(p, "auth failed")) /\ Finish(p, "auth failed").shown = "auth failed"
          /\ Keeps(p, Finish(p, "complete")) /\ Finish(p, "complete").shown = "complete"
      BY ShowKeeps
    <3> QED
      BY <2>1, <3>1
  <2> QED
    BY <1>6, <2>2 DEF Keeps
<1> QED
  BY <1>4, <1>5, <1>6

\* A handler keeps what it needs while the page's upload stays the same.
LEMMA WorkStays ==
    ASSUME UNCHANGED <<sessions, sess, s3, cleanup, pc, req>>, NEW u \in Attempts,
           \A s : Alone(u, s) => Alone(u, s)',
           page'.sessionID = page.sessionID, page'.sentChunks = page.sentChunks,
           WorkFits(u)
    PROVE  WorkFits(u)'
<1>1. /\ HasSession' <=> HasSession
      /\ \A i : Expects(u, i) => Expects(u, i)'
      /\ UpToDate(u) => UpToDate(u)'
  BY FitsStays
<1>2. PICK c, s, i : c = ConnOf[u] /\ s = req[c].sid /\ i = req[c].index
  OBVIOUS
<1>3. \A m : Ours(u, s, m) => Ours(u, s, m)'
  <2>1. \A m : Ours(u, s, m) => Alone(u, s)'
    BY DEF Ours
  <2> QED
    BY <2>1, HoldsStays
<1>4. InStorage(s) => InStorage(s)'
  BY DEF InStorage
<1> QED
  BY <1>1, <1>2, <1>3, <1>4 DEF WorkFits

\* Sockets that are connecting or open belong to the newest upload.
LEMMA Newest ==
    PagesTyped /\ InTurn =>
        \A u \in Attempts : socket[u] \in {"connecting", "open"} => u = page.ws
<1> SUFFICES ASSUME PagesTyped, InTurn, NEW u \in Attempts, socket[u] \in {"connecting", "open"}
             PROVE  u = page.ws
  OBVIOUS
<1>1. ~(u < page.ws) /\ ~(u > page.ws)
  BY DEF InTurn
<1>2. page.ws \in Nat /\ u \in Nat
  BY LengthTypes DEF Attempts
<1> DEFINE w == page.ws
<1>3. ~(u < w) /\ ~(u > w) /\ w \in Nat
  BY <1>1, <1>2
<1> HIDE DEF w
<1>4. u = w
  BY <1>2, <1>3
<1> QED
  BY <1>4 DEF w

\* The page never finds itself in an error, nor asks for what the server would
\* refuse.
LEMMA PageSmooth ==
    ASSUME SequentialUse, SystemInv, PagesTyped', InTurn, InTurn', NamesKnown, NoErrors, Page
    PROVE  NoErrors' /\ (HasSession' => Known(page.sessionID)')
<1> DEFINE Learnt == HasSession' => sess'[page'.sessionID].uploadID
<1>1. PICK w : w = page.ws
  OBVIOUS
<1>2. /\ PagesTyped /\ page \in PageRecord /\ page' \in PageRecord /\ w \in Nat
      /\ socket \in [Attempts -> SocketStates]
      /\ requests \in [Attempts -> Seq(Message)]
      /\ frames \in [Attempts -> Seq(Seq(PageAnswer) \ {<<>>})]
  <2>1. PagesTyped
    BY DEF SystemInv
  <2>2. page \in PageRecord /\ page' \in PageRecord
    BY <2>1 DEF PagesTyped
  <2>3. w \in 0 .. MaxUploads
    BY <1>1, <2>2 DEF PageRecord
  <2>4. w \in Nat
    BY <2>3
  <2> QED
    BY <2>1, <2>2, <2>4 DEF PagesTyped
<1>3. /\ UNCHANGED <<sessions, sess, s3, cleanup, pc, req>> /\ PageNext
      /\ answers' = [u \in Attempts |-> IF socket'[u] = "open" THEN answers[u] ELSE <<>>]
  BY DEF Page, vars
<1>4. \A u \in Attempts : socket[u] \in {"connecting", "open"} => u = w
  BY <1>1, <1>2, Newest
<1>5. \A u \in Attempts : socket'[u] \in {"connecting", "open"} => u = page'.ws
  <2>1. (PagesTyped /\ InTurn)' =>
            (\A u \in Attempts : socket[u] \in {"connecting", "open"} => u = page.ws)'
    BY Newest, PTL
  <2> QED
    BY <2>1
<1>6. /\ page.shown # "error" /\ page.pendingChunks = {}
      /\ ~HasSession => page.sentChunks = 0
      /\ \A u \in Attempts : socket[u] = "connecting" => ~HasSession
      /\ \A u \in Attempts : socket[u] = "open" => Smooth(u)
      /\ HasSession => sess[page.sessionID].uploadID
  BY DEF NoErrors, NamesKnown, Known
<1>7. ASSUME NEW u \in Attempts, u = w,
             \A v \in Attempts \ {u} : requests'[v] = requests[v]
      PROVE  \A s : Alone(u, s) => Alone(u, s)'
  BY <1>3, <1>7, AloneFrame
<1>8. ASSUME Keeps(page, page'), page'.shown # "error",
             \A u \in Attempts : socket'[u] = "connecting" => socket[u] = "connecting",
             \A u \in Attempts : socket'[u] = "open" => Smooth(u)'
      PROVE  NoErrors' /\ Learnt
  <2>1. HasSession' <=> HasSession
    BY <1>8, Identity DEF Keeps
  <2> QED
    BY <1>3, <1>6, <1>8, <2>1 DEF NoErrors, Keeps
<1>9. ASSUME startUpload PROVE NoErrors' /\ Learnt
  <2>1. page' = setButtons(Reset(page), TRUE) /\ socket' = [socket EXCEPT ![w + 1] = "connecting"]
    BY <1>1, <1>9 DEF startUpload
  <2>2. /\ page'.ws = w + 1 /\ page'.sentChunks = 0 /\ page'.pendingChunks = {}
        /\ page'.shown = "nothing" /\ page'.sessionID = NoPage.sessionID
    BY <1>1, <2>1 DEF setButtons, Reset, NoPage
  <2>3. ~HasSession'
    BY <2>2, Zenon DEF HasSession, NoPage
  <2>4. \A u \in Attempts : socket'[u] # "open"
    <3> SUFFICES ASSUME NEW u \in Attempts, socket'[u] = "open" PROVE FALSE
      OBVIOUS
    <3>1. u = w + 1
      BY <1>5, <2>2
    <3> QED
      BY <1>2, <2>1, <3>1
  <2> QED
    BY <2>2, <2>3, <2>4 DEF NoErrors
<1>10. ASSUME NEW u \in Attempts, onopen(u) PROVE NoErrors' /\ Learnt
  <2>1. /\ socket[u] = "connecting" /\ socket' = [socket EXCEPT ![u] = "open"]
        /\ page' = log(page, "nothing") /\ frames' = frames /\ u = w
        /\ Send(socket'[page.ws] = "open", "CMD_INIT_UPLOAD", NoData)
    BY <1>4, <1>10 DEF onopen
  <2>2. Keeps(page, page') /\ page'.shown = "nothing"
    BY <1>2, <2>1, ShowKeeps
  <2>3. ~HasSession /\ Quiet(u) /\ page.reading = <<>>
    BY <1>6, <2>1 DEF InTurn
  <2>4. socket'[u] = "open" /\ \A v \in Attempts \ {u} : socket'[v] = socket[v]
    BY <1>2, <2>1
  <2>5. PICK m : m = [cmd |-> "CMD_INIT_UPLOAD", sessionID |-> page.sessionID, chunk |-> NoData]
    OBVIOUS
  <2>6. m.cmd = "CMD_INIT_UPLOAD"
    BY <2>5
  <2>7. requests' = [requests EXCEPT ![u] = Append(requests[u], m)]
    BY <1>1, <2>1, <2>4, <2>5 DEF Send
  <2>8. requests'[u] = <<m>> /\ \A v \in Attempts \ {u} : requests'[v] = requests[v]
    BY <1>2, <2>3, <2>7 DEF Quiet
  <2>9. MessageFits(u, m)'
    <3>1. ~HasSession'
      BY <2>2, <2>3, Identity DEF Keeps
    <3> QED
      BY <2>6, <3>1 DEF MessageFits
  <2>10. Smooth(u)'
    <3>1. page'.reading = <<>> /\ frames'[u] = <<>> /\ answers'[u] = <<>>
          /\ pc'[ConnOf[u]] = "idle"
      BY <1>3, <2>1, <2>2, <2>3, <2>4 DEF Quiet, Keeps
    <3>2. WorkFits(u)'
      BY <3>1, IdleFits
    <3> QED
      BY <2>8, <2>9, <3>1, <3>2, SmoothWith
  <2>11. \A v \in Attempts : socket'[v] = "open" => v = u
    BY <1>4, <2>1, <2>4
  <2>12. \A v \in Attempts : socket'[v] = "connecting" => socket[v] = "connecting"
    BY <2>4
  <2> QED
    BY <1>8, <2>2, <2>10, <2>11, <2>12
<1>11. ASSUME NEW u \in Attempts, onclose(u) PROVE NoErrors' /\ Learnt
  <2>1. /\ socket[u] = "closing" /\ socket' = [socket EXCEPT ![u] = "closed"]
        /\ page' = Closed(page) /\ frames' = frames /\ requests' = requests
    BY <1>11 DEF onclose
  <2>2. Keeps(page, page') /\ page'.shown = page.shown
    BY <1>2, <2>1, ShowKeeps
  <2>3. \A v \in Attempts : socket'[v] = IF v = u THEN "closed" ELSE socket[v]
    BY <1>2, <2>1
  <2>4. ASSUME NEW v \in Attempts, socket'[v] = "open" PROVE Smooth(v)'
    <3>1. socket[v] = "open" /\ v = w /\ Smooth(v)
      BY <1>4, <1>6, <2>3, <2>4
    <3>2. \A s : Alone(v, s) => Alone(v, s)'
      BY <1>7, <2>1, <3>1
    <3>3. /\ \A i : Expects(v, i) => Expects(v, i)'
          /\ \A m : MessageFits(v, m) => MessageFits(v, m)'
          /\ \A r : AnswerFits(v, r) => AnswerFits(v, r)'
      BY <1>3, <2>2, <3>2, FitsStays DEF Keeps
    <3>4. WorkFits(v)'
      <4>1. WorkFits(v)
        BY <3>1 DEF Smooth
      <4> QED
        BY <1>3, <2>2, <3>2, <4>1, WorkStays DEF Keeps
    <3>5. /\ page'.reading = page.reading /\ requests'[v] = requests[v]
          /\ answers'[v] = answers[v] /\ frames'[v] = frames[v]
      BY <1>3, <2>1, <2>2, <2>4 DEF Keeps
    <3> QED
      BY <3>1, <3>3, <3>4, <3>5 DEF Smooth
  <2> QED
    BY <1>6, <1>8, <2>2, <2>3, <2>4
<1>12. ASSUME NEW u \in Attempts, ConnectionLost(u) PROVE NoErrors' /\ Learnt
  <2>1. /\ socket[u] \in {"connecting", "open"} /\ socket' = [socket EXCEPT ![u] = "closed"]
        /\ page' = Closed(log(page, "lost")) \/ page' = Closed(page)
    BY <1>12 DEF ConnectionLost
  <2>2. Keeps(page, page') /\ page'.shown \in {"lost", page.shown}
    <3> DEFINE p == log(page, "lost")
    <3>1. p \in PageRecord /\ Keeps(page, p) /\ p.shown = "lost"
      BY <1>2, PageOps, ShowKeeps
    <3> HIDE DEF p
    <3>2. Keeps(p, Closed(p)) /\ Closed(p).shown = p.shown
      BY <3>1, ShowKeeps
    <3>3. Keeps(page, Closed(page)) /\ Closed(page).shown = page.shown
      BY <1>2, ShowKeeps
    <3> QED
      BY <2>1, <3>1, <3>2, <3>3 DEF Keeps, p
  <2>3. \A v \in Attempts : socket'[v] \notin {"connecting", "open"}
    BY <1>2, <1>4, <2>1
  <2> QED
    BY <1>6, <1>8, <2>2, <2>3
<1>13. ASSUME NEW u \in Attempts, onmessage(u) PROVE NoErrors' /\ Learnt
  <2>1. PICK f : f = Head(frames[u])
    OBVIOUS
  <2>2. PICK r : r = Head(f)
    OBVIOUS
  <2>3. /\ socket[u] = "open" /\ frames[u] # <<>> /\ page' = handleResponse(page, r)
        /\ socket' = IF EndsUpload(r) THEN CloseSocket(w) ELSE socket
        /\ frames' = [frames EXCEPT ![u] = Tail(frames[u])] /\ requests' = requests
        /\ u = w
    BY <1>1, <1>4, <1>13, <2>1, <2>2 DEF onmessage
  <2>4. /\ page.reading = <<>> /\ requests[u] = <<>> /\ answers[u] = <<>>
        /\ pc[ConnOf[u]] = "idle" /\ Tail(frames[u]) = <<>> /\ frames[u] = <<f>>
        /\ f # <<>> /\ f \in Seq(PageAnswer)
    <3> DEFINE F == frames[u]
    <3>1. UnderWay(u) <= 1
      BY <2>3 DEF InTurn
    <3>2. /\ page.reading = <<>> /\ requests[u] = <<>> /\ answers[u] = <<>>
          /\ pc[ConnOf[u]] = "idle" /\ Len(F) <= 1
      BY <1>2, <2>3, <3>1, OneUnderWay
    <3>3. F \in Seq(Seq(PageAnswer) \ {<<>>}) /\ F # <<>> /\ f = Head(F)
      BY <1>2, <2>1, <2>3
    <3> HIDE DEF F
    <3>4. Tail(F) = <<>> /\ F = <<f>>
      BY <3>2, <3>3, NoMore
    <3>5. f \in Seq(PageAnswer) /\ f # <<>>
      BY <3>3
    <3> QED
      BY <3>2, <3>4, <3>5 DEF F
  <2>5. r \in PageAnswer /\ r.sessionID \in Sessions
    <3>1. r \in PageAnswer
      BY <2>2, <2>4
    <3> QED
      BY <3>1 DEF PageAnswer
  <2>6. AnswerFits(u, r)
    <3>1. 1 \in DOMAIN frames[u] /\ frames[u][1] = f
      BY <2>4
    <3>2. \A k \in DOMAIN frames[u] : AnswerFits(u, Head(frames[u][k]))
      BY <1>6, <2>3 DEF Smooth
    <3> QED
      BY <2>2, <3>1, <3>2
  <2>7. /\ page'.ws = w /\ page'.shown # "error" /\ page'.pendingChunks = {}
        /\ page'.sessionID = IF r.code = "RESP_READY" THEN r.sessionID ELSE page.sessionID
        /\ \/ page'.sentChunks = page.sentChunks /\ page'.reading = <<>>
           \/ /\ page'.sentChunks = page.sentChunks + 1
              /\ page'.reading = <<ChunkOf(page, page.sentChunks)>>
              /\ r.code = "RESP_READY" \/ IsChunkAnswer(r)
    <3>1. r.code \in {"RESP_AUTH_FAILED", "RESP_COMPLETE", "RESP_READY"} \/ IsChunkAnswer(r)
      BY <2>6 DEF AnswerFits
    <3> QED
      <4>1. PICK p, q : p = page /\ q = handleResponse(p, r)
        OBVIOUS
      <4>2. /\ p \in PageRecord /\ p.pendingChunks = {} /\ p.reading = <<>>
            /\ p.shown # "error" /\ page' = q /\ p.ws = w
        BY <1>1, <1>2, <1>6, <2>3, <2>4, <4>1
      <4>3. /\ q.ws = p.ws /\ q.shown # "error" /\ q.pendingChunks = {}
            /\ q.sessionID = IF r.code = "RESP_READY" THEN r.sessionID ELSE p.sessionID
            /\ \/ q.sentChunks = p.sentChunks /\ q.reading = <<>>
               \/ /\ q.sentChunks = p.sentChunks + 1
                  /\ q.reading = <<ChunkOf(p, p.sentChunks)>>
                  /\ r.code = "RESP_READY" \/ IsChunkAnswer(r)
        BY <2>5, <3>1, <4>1, <4>2, GoodAnswer
      <4> QED
        BY <4>1, <4>2, <4>3
  <2>8. /\ r.code = "RESP_READY" => ~HasSession /\ Holds(u, r.sessionID, 0)
        /\ IsChunkAnswer(r) => HasSession /\ Holds(u, page.sessionID, page.sentChunks)
    BY <2>6 DEF AnswerFits, UpToDate, IsChunkAnswer
  <2>9. page.sentChunks \in Nat
    <3>1. page.sentChunks \in 0 .. totalChunks
      BY <1>2 DEF PageRecord
    <3> QED
      BY <3>1, TotalType
  <2>10. ~HasSession => page.sentChunks = 0
    BY <1>6
  <2>11. \A s : Alone(u, s) => Alone(u, s)'
    BY <1>7, <2>3
  <2>12. \A s, m : Holds(u, s, m) => Holds(u, s, m)'
    <3>1. \A s, m : Holds(u, s, m) => Alone(u, s)'
      BY <2>11 DEF Holds, Ours
    <3> QED
      BY <1>3, <3>1, HoldsStays
  <2>13. CASE r.code \notin {"RESP_READY"} /\ ~IsChunkAnswer(r)
    <3>1. r.code \in {"RESP_AUTH_FAILED", "RESP_COMPLETE"}
      BY <2>6, <2>13 DEF AnswerFits
    <3>2. socket' = CloseSocket(w)
      BY <2>3, <3>1 DEF EndsUpload
    <3>3. \A v \in Attempts : socket'[v] \notin {"connecting", "open"}
      BY <1>2, <1>4, <3>2 DEF CloseSocket
    <3>4. HasSession' <=> HasSession
      BY <2>7, <2>13, Identity
    <3> QED
      BY <1>3, <1>6, <2>7, <2>13, <3>3, <3>4 DEF NoErrors
  <2>14. CASE r.code = "RESP_READY" \/ IsChunkAnswer(r)
    <3>1. PICK s, n, x : /\ s = page'.sessionID /\ n = page.sentChunks
                         /\ x = ChunkOf(page, page.sentChunks)
      OBVIOUS
    <3>2. socket' = socket
      BY <2>3, <2>14 DEF EndsUpload, IsChunkAnswer
    <3>3. HasSession' /\ Holds(u, s, n)
      <4>1. CASE r.code = "RESP_READY"
        BY <2>5, <2>7, <2>8, <2>10, <3>1, <4>1, Identity
      <4>2. CASE r.code # "RESP_READY"
        BY <2>7, <2>8, <2>14, <3>1, <4>2, Identity
      <4> QED
        BY <4>1, <4>2
    <3>4. Holds(u, s, n)'
      BY <2>12, <3>3
    <3>5. x.index = n
      BY <3>1 DEF ChunkOf
    <3>6. \/ page'.reading = <<>>
          \/ page'.reading = <<x>> /\ Expects(u, x.index)'
      <4>1. SUFFICES ASSUME page'.reading # <<>>
                     PROVE  page'.reading = <<x>> /\ Expects(u, n)'
        BY <3>5
      <4>2. page'.reading = <<x>> /\ page'.sentChunks = n + 1
        BY <2>7, <3>1, <4>1
      <4>3. n = page'.sentChunks - 1
        BY <2>9, <3>1, <4>2
      <4> QED
        BY <3>1, <3>3, <3>4, <4>2, <4>3 DEF Expects
    <3>7. Smooth(u)'
      <4>1. /\ requests'[u] = <<>> /\ answers'[u] = <<>> /\ frames'[u] = <<>>
            /\ pc'[ConnOf[u]] = "idle"
        BY <1>2, <1>3, <2>3, <2>4, <3>2
      <4>2. WorkFits(u)'
        BY <4>1, IdleFits
      <4> QED
        BY <3>6, <4>1, <4>2, SmoothWith
    <3>8. \A v \in Attempts : socket'[v] \in {"connecting", "open"} => v = u
      BY <1>4, <2>3, <3>2
    <3>9. sess'[page'.sessionID].uploadID
      BY <3>1, <3>4 DEF Holds, Known
    <3> QED
      BY <2>3, <2>7, <3>2, <3>3, <3>7, <3>8, <3>9 DEF NoErrors
  <2> QED
    BY <2>13, <2>14
<1>14. ASSUME NEW k \in DOMAIN page.reading, ChunkRead(k) PROVE NoErrors' /\ Learnt
  <2>1. /\ page' = [page EXCEPT !.reading = RemoveAt(page.reading, k)]
        /\ Send(WSOpen(page.ws), "CMD_UPLOAD_CHUNK", page.reading[k])
        /\ socket' = socket /\ frames' = frames
    BY <1>14 DEF ChunkRead
  <2>2. /\ page'.sessionID = page.sessionID /\ page'.sentChunks = page.sentChunks
        /\ page'.pendingChunks = {} /\ page'.shown # "error" /\ page'.ws = page.ws
        /\ page'.reading = RemoveAt(page.reading, k)
    BY <1>2, <1>6, <2>1 DEF PageRecord
  <2>3. HasSession' <=> HasSession
    BY <2>2, Identity
  <2>4. ASSUME NEW u \in Attempts, socket[u] = "open" PROVE Smooth(u)'
    <3>1. u = w /\ Smooth(u)
      BY <1>4, <1>6, <2>4
    <3>2. PICK x, m : /\ x = page.reading[k]
                      /\ m = [cmd |-> "CMD_UPLOAD_CHUNK", sessionID |-> page.sessionID,
                              chunk |-> x]
      OBVIOUS
    <3>3. Expects(u, x.index)
      BY <1>14, <3>1, <3>2 DEF Smooth
    <3>4. /\ requests[u] = <<>> /\ answers[u] = <<>> /\ frames[u] = <<>>
          /\ pc[ConnOf[u]] = "idle" /\ Len(page.reading) <= 1 /\ page.reading # <<>>
      <4>1. UnderWay(u) <= 1
        BY <2>4 DEF InTurn
      <4>2. page.reading # <<>>
        BY <1>14
      <4> QED
        BY <1>2, <4>1, <4>2, OneUnderWay
    <3>5. page'.reading = <<>>
      <4> DEFINE R == page.reading
                 R2 == page'.reading
      <4>1. R \in Seq(ChunkRef) /\ k \in DOMAIN R /\ Len(R) <= 1 /\ R2 = RemoveAt(R, k)
        BY <1>2, <1>14, <2>2, <3>4 DEF PageRecord
      <4>2. R2 \in Seq(ChunkRef)
        BY <1>2 DEF PageRecord
      <4> HIDE DEF R, R2
      <4> DEFINE l == Len(R)
      <4>3. l \in Nat /\ k \in 1 .. l /\ l <= 1 /\ Len(R2) = l - 1
        BY <4>1, OneLess
      <4> HIDE DEF l
      <4>4. l = 1
        BY <4>3
      <4>5. Len(R2) = 0
        BY <4>3, <4>4
      <4>6. R2 = <<>>
        BY <4>2, <4>5
      <4> QED
        BY <4>6 DEF R2
    <3>6. requests' = [requests EXCEPT ![u] = Append(requests[u], m)]
      BY <1>1, <2>1, <2>4, <3>1, <3>2 DEF Send, WSOpen
    <3>7. requests'[u] = <<m>> /\ \A v \in Attempts \ {u} : requests'[v] = requests[v]
      BY <1>2, <3>4, <3>6
    <3>8. m.cmd = "CMD_UPLOAD_CHUNK" /\ m.chunk = x /\ m.sessionID = page.sessionID
      BY <3>2
    <3>9. MessageFits(u, m)'
      <4>1. \A s : Alone(u, s) => Alone(u, s)'
        BY <1>7, <3>1, <3>7
      <4>2. MessageFits(u, m)
        BY <3>3, <3>8 DEF MessageFits
      <4> QED
        BY <1>3, <2>2, <4>1, <4>2, FitsStays
    <3>10. answers'[u] = <<>> /\ frames'[u] = <<>> /\ WorkFits(u)'
      BY <1>3, <2>1, <2>4, <3>4, IdleFits
    <3> QED
      BY <3>5, <3>7, <3>9, <3>10, SmoothWith
  <2> QED
    BY <1>3, <1>6, <2>1, <2>2, <2>3, <2>4 DEF NoErrors
<1>15. ~(pauseUpload \/ resumeUpload \/ cancelUpload)
  BY DEF SequentialUse, pauseUpload, resumeUpload, cancelUpload, Click
<1>16. NoErrors' /\ Learnt
  BY <1>3, <1>9, <1>10, <1>11, <1>12, <1>13, <1>14, <1>15 DEF PageNext, PageEvent
<1> QED
  BY <1>16 DEF Known

\* Only page events add messages.
LEMMA RequestsFrame ==
    ASSUME TypeOK, PagesTyped, [SystemNext]_systemVars, ~Page, NEW v \in Attempts,
           NEW k \in DOMAIN requests'[v]
    PROVE  \E j \in DOMAIN requests[v] : requests'[v][k] = requests[v][j]
<1> DEFINE Q == requests[v]
<1>1. requests \in [Attempts -> Seq(Message)] /\ Q \in Seq(Message)
  BY DEF PagesTyped
<1>2. CASE requests'[v] = requests[v]
  BY <1>2
<1>3. CASE requests'[v] = Tail(Q) /\ Q # <<>>
  <2>1. ASSUME NEW s \in Seq(Message), s # <<>>, NEW i \in DOMAIN Tail(s)
        PROVE  i + 1 \in DOMAIN s /\ Tail(s)[i] = s[i + 1]
    BY <2>1
  <2> HIDE DEF Q
  <2>2. k + 1 \in DOMAIN Q /\ requests'[v][k] = Q[k + 1]
    BY <1>1, <1>3, <2>1
  <2> QED
    BY <2>2 DEF Q
<1>4. ASSUME NEW u \in Attempts, ServerReceive(u)
      PROVE  requests'[v] = requests[v] \/ (requests'[v] = Tail(Q) /\ Q # <<>>)
  BY <1>1, <1>4 DEF ServerReceive
<1>5. ASSUME NEW u \in Attempts,
             ServerStep(u) \/ \E n \in 1 .. Len(answers[u]) : GatewayRead(u, n)
      PROVE  requests' = requests
  BY <1>5 DEF ServerStep, GatewayRead, pageVars
<1>6. ServerRestart => requests'[v] = <<>>
  BY DEF ServerRestart
<1>7. Background \/ Over \/ UNCHANGED systemVars => requests' = requests
  BY DEF Background, Over, systemVars, pageVars
<1>8. requests'[v] # <<>>
  OBVIOUS
<1> QED
  BY <1>2, <1>3, <1>4, <1>5, <1>6, <1>7, <1>8 DEF SystemNext

\* What is known stays known, and records do not vanish.
LEMMA KnownStays ==
    ASSUME SystemInv, [SystemNext]_systemVars, NEW s \in Sessions
    PROVE  /\ Known(s) => Known(s)'
           /\ sess[s].state # STATE_NONE => sess'[s].state # STATE_NONE
<1>1. /\ TypeOK /\ [Next]_vars /\ sess[s] \in Session
      /\ \A c \in Conns : HandlerInv(c)
      /\ sess[s].uploadID => sess[s].state # STATE_NONE
  BY ServerPartStep DEF SystemInv, InductiveInv, TypeOK, SessionInv
<1> DEFINE Stays == /\ sess[s].uploadID => sess'[s].uploadID
                    /\ sess[s].state # STATE_NONE => sess'[s].state # STATE_NONE
<1>2. ASSUME NEW c \in Conns, Restated(c, s) PROVE Stays
  BY <1>2 DEF Restated
<1>3. ASSUME NEW c \in Conns, Added(c, s) PROVE Stays
  BY <1>1, <1>3 DEF Added, AddChunk, Session, STATE_UPLOADING, STATE_NONE
<1>4. ASSUME NEW c \in Conns, Begun(c, s) PROVE Stays
  <2>1. sess[s].state = STATE_NONE
    BY <1>1, <1>4 DEF Begun, CreateSession, HandlerInv
  <2> QED
    BY <1>1, <2>1
<1>5. ASSUME NEW c \in Conns, Identified(c, s) PROVE Stays
  BY <1>1, <1>5 DEF Identified, Session
<1> QED
  BY <1>1, <1>2, <1>3, <1>4, <1>5, SessStep DEF SessionStep, Known

\* A new message names the page's session.
LEMMA PageMessages ==
    ASSUME PagesTyped, PageNext, NEW v \in Attempts, NEW k \in DOMAIN requests'[v]
    PROVE  \/ \E j \in DOMAIN requests[v] : requests'[v][k] = requests[v][j]
           \/ requests'[v][k].sessionID = page.sessionID
<1> DEFINE Q == requests[v]
           Goal == \/ \E j \in DOMAIN Q : requests'[v][k] = Q[j]
                   \/ requests'[v][k].sessionID = page.sessionID
<1> SUFFICES Goal
  OBVIOUS
<1>1. requests \in [Attempts -> Seq(Message)] /\ Q \in Seq(Message)
  BY DEF PagesTyped
<1>2. ASSUME requests'[v] = Q PROVE Goal
  BY <1>2
<1>3. ASSUME NEW n \in 0 .. Len(Q), requests'[v] = SubSeq(Q, 1, n) PROVE Goal
  <2> DEFINE a == SubSeq(Q, 1, n)
  <2>1. \A j \in DOMAIN a : j \in DOMAIN Q /\ a[j] = Q[j]
    <3> HIDE DEF Q
    <3> QED
      BY <1>1, SubSeqProperties
  <2> HIDE DEF a, Q
  <2> QED
    BY <1>3, <2>1 DEF a
<1>4. ASSUME NEW m, m.sessionID = page.sessionID, requests'[v] = Append(Q, m) PROVE Goal
  <2>1. \A q \in Seq(Message) : \A j \in DOMAIN Append(q, m) :
           (j \in DOMAIN q /\ Append(q, m)[j] = q[j]) \/ Append(q, m)[j] = m
    OBVIOUS
  <2> HIDE DEF Q
  <2>2. (k \in DOMAIN Q /\ requests'[v][k] = Q[k]) \/ requests'[v][k] = m
    BY <1>1, <1>4, <2>1
  <2> QED
    BY <1>4, <2>2
<1>5. ASSUME NEW b, NEW cmd, NEW chunk, Send(b, cmd, chunk) PROVE Goal
  <2> DEFINE m == [cmd |-> cmd, sessionID |-> page.sessionID, chunk |-> chunk]
  <2>1. m.sessionID = page.sessionID
    OBVIOUS
  <2>2. requests' = requests \/ requests' = [requests EXCEPT ![page.ws] = Append(@, m)]
    BY <1>5 DEF Send
  <2> HIDE DEF m
  <2>3. requests'[v] = Q \/ requests'[v] = Append(Q, m)
    BY <1>1, <2>2
  <2> HIDE DEF Q, Goal
  <2> QED
    BY <1>2, <1>4, <2>1, <2>3
<1> HIDE DEF Goal
<1>6. startUpload \/ (\E u \in Attempts : onclose(u) \/ onmessage(u)) => Goal
  BY <1>2 DEF startUpload, onclose, onmessage
<1>7. ASSUME NEW u \in Attempts, onopen(u) PROVE Goal
  BY <1>5, <1>7 DEF onopen
<1>8. ASSUME NEW j \in DOMAIN page.reading, ChunkRead(j) PROVE Goal
  BY <1>5, <1>8 DEF ChunkRead
<1>9. pauseUpload \/ resumeUpload \/ cancelUpload => Goal
  BY <1>5 DEF pauseUpload, resumeUpload, cancelUpload, Click
<1>10. ASSUME NEW u \in Attempts, ConnectionLost(u) PROVE Goal
  <2>1. PICK n \in 0 .. Len(requests[u]) :
             requests' = [requests EXCEPT ![u] = SubSeq(requests[u], 1, n)]
    BY <1>10 DEF ConnectionLost
  <2>2. CASE u = v
    BY <1>1, <1>3, <2>1, <2>2
  <2>3. CASE u # v
    BY <1>1, <1>2, <2>1, <2>3
  <2> QED
    BY <2>2, <2>3
<1> QED
  BY <1>6, <1>7, <1>8, <1>9, <1>10 DEF PageNext, PageEvent

\* The table and clean-up take up records that there are, and only those.
LEMMA ListedStep ==
    ASSUME SystemInv, NamesKnown, [SystemNext]_systemVars,
           NEW s \in sessions' \cup cleanup'.todo \cup cleanup'.victim
    PROVE  sess'[s].state # STATE_NONE
<1>1. /\ TypeOK /\ [Next]_vars /\ s \in Sessions
  <2>1. TypeOK /\ TypeOK' /\ [Next]_vars
    BY ServerPartStep DEF SystemInv, InductiveInv
  <2>2. sessions' \subseteq Sessions /\ cleanup' \in Cleanups
    BY <2>1 DEF TypeOK
  <2>3. cleanup'.todo \subseteq Sessions /\ cleanup'.victim \subseteq Sessions
    BY <2>2 DEF Cleanups
  <2> QED
    BY <2>1, <2>2, <2>3
<1>2. CASE s \in sessions \cup cleanup.todo \cup cleanup.victim
  BY <1>1, <1>2, KnownStays DEF NamesKnown
<1>3. CASE s \notin sessions \cup cleanup.todo \cup cleanup.victim
  <2> DEFINE Same == /\ sessions' \subseteq sessions
                     /\ cleanup'.todo \subseteq sessions \cup cleanup.todo
                     /\ cleanup'.victim \subseteq cleanup.victim \cup cleanup.todo
  <2>1. ~Same
    BY <1>3
  <2>2. cleanup \in Cleanups
    BY <1>1 DEF TypeOK
  <2>3. ASSUME NEW c \in Conns, Receive(c) PROVE FALSE
    BY <2>1, <2>3 DEF Receive, AuthFailed, Malformed, InitUpload, SessionRequest,
                     UploadChunk, Dispatch, Refuse
  <2>4. ~Tick /\ ~(UNCHANGED vars)
    BY <2>1 DEF Tick, vars
  <2>5. ~Restart
    BY <2>1 DEF Restart, NoCleanup
  <2>6. ~CleanupTick
    BY <2>1 DEF CleanupTick
  <2>7. ASSUME NEW r \in Sessions, CleanupVisit(r) PROVE FALSE
    <3>1. r \in cleanup.todo /\ sessions' = sessions
      BY <2>7 DEF CleanupVisit
    <3>2. cleanup'.todo \subseteq cleanup.todo /\ cleanup'.victim \subseteq {r}
      BY <2>2, <2>7 DEF CleanupVisit, Cleanups
    <3> QED
      BY <2>1, <3>1, <3>2
  <2>8. ASSUME NEW r \in Sessions, CleanupReap(r) PROVE FALSE
    <3>1. sessions' \subseteq sessions
      BY <2>8 DEF CleanupReap
    <3>2. cleanup'.todo = cleanup.todo /\ cleanup'.victim = {}
      BY <2>2, <2>8 DEF CleanupReap, Cleanups
    <3> QED
      BY <2>1, <3>1, <3>2
  <2>9. ~CleanupDone
    BY <2>1 DEF CleanupDone, NoCleanup
  <2>10. PICK c \in Conns : HandlerStep(c)
    BY <1>1, <2>3, <2>4, <2>5, <2>6, <2>7, <2>8, <2>9 DEF Next, Cleanup
  <2>11. cleanup' = cleanup /\ (CreateSession(c) \/ sessions' \subseteq sessions)
    BY <2>10 DEF HandlerStep, LockStep, FreeStep, CreateSession, GetSession, DeleteSession,
                   CreateMultipartUpload, SetUploadID, ReadPaused, ReadCancelled, UploadPart,
                   AddChunkCall, GetProgressCall, IsCompleteCall, CompleteMultipartUpload,
                   SetCompleted, SetFailed, PauseCall, ReadState, ResumeCall,
                   GetMissingChunksCall, CancelCall, AbortMultipartUpload
  <2>12. CASE CreateSession(c)
    <3>1. s = req[c].sid
      BY <1>3, <2>11, <2>12 DEF CreateSession
    <3>2. sess'[s] = NewSession(req[c].user, req[c].total, now)
      BY <1>1, <2>12, <3>1 DEF CreateSession, Update, TypeOK
    <3> QED
      BY <3>2 DEF NewSession, STATE_INITIALIZED, STATE_NONE
  <2>13. CASE ~CreateSession(c)
    BY <2>1, <2>11, <2>13
  <2> QED
    BY <2>12, <2>13
<1> QED
  BY <1>2, <1>3

\* Messages, the table and clean-up name sessions that there are.
LEMMA NamesStep ==
    ASSUME SystemInv, NamesKnown, [SystemNext]_systemVars, HasSession' => Known(page.sessionID)'
    PROVE  NamesKnown'
<1>1. /\ TypeOK /\ PagesTyped /\ [Next]_vars
      /\ requests \in [Attempts -> Seq(Message)]
  BY ServerPartStep DEF SystemInv, InductiveInv, PagesTyped
<1>2. ASSUME NEW v \in Attempts, NEW k \in DOMAIN requests[v]
      PROVE  requests[v][k] \in Message /\ requests[v][k].sessionID \in Ids
  <2>1. requests[v][k] \in Message
    BY <1>1, <1>2
  <2> QED
    BY <2>1, MessageParts
<1>3. ASSUME NEW m, m.sessionID \in Ids, AboutSession(m) PROVE m.sessionID \in Sessions
  BY <1>3, Zenon DEF AboutSession, Ids
<1>4. ASSUME NEW v \in Attempts, NEW k \in DOMAIN requests[v], AboutSession(requests[v][k])
      PROVE  Known(requests[v][k].sessionID) /\ sess'[requests[v][k].sessionID].uploadID
  <2>1. requests[v][k].sessionID \in Sessions /\ Known(requests[v][k].sessionID)
    BY <1>2, <1>3, <1>4 DEF NamesKnown
  <2> QED
    BY <2>1, KnownStays DEF Known
<1>5. ASSUME NEW v \in Attempts, NEW k \in DOMAIN requests'[v], AboutSession(requests'[v][k])
      PROVE  sess'[requests'[v][k].sessionID].uploadID
  <2>1. CASE \E j \in DOMAIN requests[v] : requests'[v][k] = requests[v][j]
    BY <1>4, <1>5, <2>1
  <2>2. CASE ~(\E j \in DOMAIN requests[v] : requests'[v][k] = requests[v][j])
    <3>1. Page
      BY <1>1, <1>5, <2>2, RequestsFrame
    <3>2. requests'[v][k].sessionID = page.sessionID
      BY <1>1, <1>5, <2>2, <3>1, PageMessages DEF Page
    <3>3. HasSession /\ sess' = sess
      BY <1>5, <3>1, <3>2, Identity DEF Page, vars
    <3> QED
      BY <3>2, <3>3 DEF NamesKnown, Known
  <2> QED
    BY <2>1, <2>2
<1>6. ASSUME NEW s \in sessions' \cup cleanup'.todo \cup cleanup'.victim
      PROVE  sess'[s].state # STATE_NONE
  BY <1>6, ListedStep
<1> QED
  BY <1>5, <1>6 DEF NamesKnown, Known

\* What goes on without the page.
LEMMA RunSmooth ==
    ASSUME SequentialUse, FileAccepted, NoTimeouts, Faults = {}, SystemInv, InTurn,
           NamesKnown, NoErrors, [SystemNext]_systemVars, ~Page, ~ServerRestart
    PROVE  NoErrors' /\ page' = page
<1>1. TypeOK /\ PagesTyped
  BY DEF SystemInv, InductiveInv
<1> DEFINE Acts(u) == \/ ServerReceive(u) \/ ServerStep(u)
                      \/ \E n \in 1 .. Len(answers[u]) : GatewayRead(u, n)
           Idles == /\ UNCHANGED <<requests, pc, req, answers, frames>>
                    /\ UNCHANGED <<sessions, sess, s3, cleanup>> \/ Cleanup
<1>2. /\ page' = page /\ socket' = socket
      /\ (\E u \in Attempts : Acts(u)) \/ Idles
  <2>1. ASSUME NEW u \in Attempts, Acts(u) PROVE page' = page /\ socket' = socket
    BY <2>1 DEF ServerReceive, ServerStep, GatewayRead, pageVars
  <2>2. Background => /\ page' = page /\ socket' = socket /\ Idles
    BY DEF Background, Cleanup, CleanupTick, CleanupVisit, CleanupReap, CleanupDone, Tick,
           pageVars
  <2>3. Over \/ UNCHANGED systemVars => /\ page' = page /\ socket' = socket /\ Idles
    BY DEF Over, systemVars, vars, pageVars
  <2> HIDE DEF Idles
  <2> QED
    BY <2>1, <2>2, <2>3 DEF SystemNext
<1>3. ASSUME NEW u \in Attempts, socket[u] = "open", Rests(u) PROVE Smooth(u)'
  <2>1. \A v \in Attempts \ {u} : \A k \in DOMAIN requests'[v] :
           \E j \in DOMAIN requests[v] : requests'[v][k] = requests[v][j]
    BY <1>1, RequestsFrame
  <2>2. Smooth(u)
    BY <1>3 DEF NoErrors
  <2> QED
    BY <1>3, <2>1, <2>2, SmoothRests
<1>4. ASSUME NEW u \in Attempts, Acts(u), socket[u] = "open" PROVE Smooth(u)'
  <2>1. Smooth(u)
    BY <1>4 DEF NoErrors
  <2> QED
    BY <1>4, <2>1, ReceiveSmooth, StepSmooth, GatewaySmooth
<1>5. ASSUME NEW u \in Attempts, NEW v \in Attempts \ {u}, Acts(v) PROVE Rests(u)
  <2>1. Untouched(u)
    BY <1>1, <1>5, OthersUntouched
  <2>2. ConnOf[v] \in Conns /\ ConnOf[u] \in Conns \ {ConnOf[v]}
    BY OwnConnection
  <2>3. ASSUME ServerReceive(v)
        PROVE  /\ req'[ConnOf[u]] = req[ConnOf[u]]
               /\ UNCHANGED <<sessions, sess, s3, cleanup>>
    <3>1. PICK m : m = Head(requests[v])
      OBVIOUS
    <3>2. m \in Message /\ Handle(ConnOf[v], m)
      BY <1>1, <2>3, <3>1, ConnType DEF ServerReceive
    <3>3. Receive(ConnOf[v])
      BY <1>1, <2>2, <3>2, HandleReceives
    <3> QED
      BY <1>1, <2>2, <3>2, <3>3, HandleOutcome, ReceiveFrame
  <2>4. ASSUME ServerStep(v)
        PROVE  req'[ConnOf[u]] = req[ConnOf[u]] /\ HandlerStep(ConnOf[v])
    BY <1>1, <2>2, <2>4, HandlerFrame DEF ServerStep
  <2>5. ASSUME NEW n \in 1 .. Len(answers[v]), GatewayRead(v, n)
        PROVE  /\ req'[ConnOf[u]] = req[ConnOf[u]]
               /\ UNCHANGED <<sessions, sess, s3, cleanup>>
    BY <2>5 DEF GatewayRead, vars
  <2> QED
    BY <1>2, <1>5, <2>1, <2>3, <2>4, <2>5 DEF Rests, Elsewhere
<1>6. ASSUME NEW u \in Attempts, Idles PROVE Rests(u)
  BY <1>2, <1>6 DEF Rests, Untouched, Elsewhere
<1>7. ASSUME NEW u \in Attempts, socket'[u] = "open" PROVE Smooth(u)'
  <2>1. socket[u] = "open"
    BY <1>2, <1>7
  <2>2. CASE Idles
    BY <1>3, <1>6, <2>1, <2>2
  <2>3. CASE \E v \in Attempts : Acts(v)
    <3>1. PICK v \in Attempts : Acts(v)
      BY <2>3
    <3> HIDE DEF Acts
    <3> QED
      BY <1>3, <1>4, <1>5, <2>1, <3>1
  <2> HIDE DEF Acts, Idles
  <2> QED
    BY <1>2, <2>2, <2>3
<1>8. HasSession' <=> HasSession
  BY <1>2, Identity
<1> QED
  BY <1>2, <1>7, <1>8 DEF NoErrors

\* A restart leaves no upload open.
LEMMA RestartSmooth ==
    ASSUME PagesTyped, NoErrors, ServerRestart
    PROVE  NoErrors' /\ page'.sessionID = page.sessionID
<1>1. page \in PageRecord /\ socket \in [Attempts -> SocketStates]
  BY DEF PagesTyped
<1>2. \A u \in Attempts : socket'[u] = IF socket[u] = "open" THEN "closed" ELSE socket[u]
  BY DEF ServerRestart, WSOpen
<1>3. Keeps(page, page') /\ page'.shown # "error"
  <2> DEFINE p == log(page, "lost")
  <2>1. p \in PageRecord /\ Keeps(page, p) /\ p.shown = "lost"
    BY <1>1, PageOps, ShowKeeps
  <2>2. page' = page \/ page' = Closed(p)
    BY DEF ServerRestart
  <2> HIDE DEF p
  <2>3. Keeps(p, Closed(p)) /\ Closed(p).shown = p.shown
    BY <2>1, ShowKeeps
  <2>4. Keeps(page, page)
    BY DEF Keeps
  <2>5. CASE page' = page
    BY <2>4, <2>5 DEF NoErrors
  <2>6. CASE page' = Closed(p)
    BY <2>1, <2>3, <2>6 DEF Keeps
  <2> QED
    BY <2>2, <2>5, <2>6
<1>4. HasSession' <=> HasSession
  BY <1>3, Identity DEF Keeps
<1>5. ASSUME NEW u \in Attempts
      PROVE  socket'[u] # "open" /\ (socket'[u] = "connecting" => ~HasSession')
  BY <1>2, <1>4 DEF NoErrors
<1> QED
  BY <1>3, <1>4, <1>5 DEF NoErrors, Keeps

\* No step refuses what the page asks for.
LEMMA NoErrorsStep ==
    ASSUME SequentialUse, FileAccepted, NoTimeouts, Faults = {}, SystemInv, InTurn,
           NamesKnown, NoErrors, [SystemNext]_systemVars
    PROVE  NamesKnown' /\ NoErrors'
<1>1. PagesTyped /\ PagesTyped' /\ InTurn' /\ page \in PageRecord
  BY PagesPartStep, InTurnStep DEF SystemInv, PagesTyped
<1>2. page.sessionID \in Ids
  BY <1>1 DEF PageRecord
<1>3. ASSUME page'.sessionID = page.sessionID PROVE HasSession' => Known(page.sessionID)'
  <2>1. SUFFICES ASSUME HasSession' PROVE sess'[page'.sessionID].uploadID
    BY DEF Known
  <2>2. HasSession /\ page.sessionID \in Sessions
    BY <1>2, <1>3, <2>1, Identity
  <2>3. Known(page.sessionID)
    BY <2>2 DEF NamesKnown
  <2>4. PICK s \in Sessions : s = page.sessionID
    BY <2>2
  <2>5. Known(s)'
    BY <2>3, <2>4, KnownStays
  <2> QED
    BY <1>3, <2>4, <2>5 DEF Known
<1>4. NoErrors' /\ (HasSession' => Known(page.sessionID)')
  <2>1. CASE Page
    BY <1>1, <2>1, PageSmooth
  <2>2. CASE ServerRestart
    BY <1>1, <1>3, <2>2, RestartSmooth
  <2>3. CASE ~Page /\ ~ServerRestart
    BY <1>3, <2>3, RunSmooth
  <2> QED
    BY <2>1, <2>2, <2>3
<1> QED
  BY <1>4, NamesStep

\* Before the first upload there is nothing to refuse.
LEMMA InitNoErrors == SystemInit => NamesKnown /\ NoErrors
<1> SUFFICES ASSUME SystemInit PROVE NamesKnown /\ NoErrors
  OBVIOUS
<1>1. /\ page = NoPage /\ page.shown = "nothing" /\ page.pendingChunks = {}
      /\ page.sentChunks = 0
      /\ \A u \in Attempts : socket[u] = "none" /\ requests[u] = <<>>
      /\ sessions = {} /\ cleanup.todo = {} /\ cleanup.victim = {}
  BY DEF SystemInit, PageInit, NoPage, Init, NoCleanup
<1>2. ~HasSession
  BY <1>1, Zenon DEF HasSession, NoPage
<1> QED
  BY <1>1, <1>2 DEF NamesKnown, NoErrors

\* Without faults and buttons, the page never shows an error: the server
\* accepts every message of an upload, whatever is left of the one before it,
\* and whatever connections, restarts and clean-up do in between.
THEOREM NothingIsRefused ==
    ASSUME SequentialUse, FileAccepted, NoTimeouts
    PROVE  SystemSpec => []NoErrorWithoutFault
<1>1. CASE Faults # {}
  <2>1. NoErrorWithoutFault
    BY <1>1 DEF NoErrorWithoutFault
  <2> QED
    BY <2>1, PTL
<1>2. CASE Faults = {}
  <2>1. SystemInit => NamesKnown /\ NoErrors
    BY InitNoErrors
  <2>2. SystemInv /\ InTurn /\ NamesKnown /\ NoErrors /\ [SystemNext]_systemVars
          => NamesKnown' /\ NoErrors'
    BY <1>2, NoErrorsStep
  <2>3. SystemSpec => [](SystemInv /\ InTurn)
    BY InTurnInvariant
  <2>4. NoErrors => NoErrorWithoutFault
    BY DEF NoErrors, NoErrorWithoutFault
  <2> QED
    BY <2>1, <2>2, <2>3, <2>4, PTL DEF SystemSpec
<1> QED
  BY <1>1, <1>2
=============================================================================
