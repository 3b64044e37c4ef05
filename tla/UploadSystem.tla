---------------------------- MODULE UploadSystem ----------------------------
(***************************************************************************)
(* Uploads end to end: the page (UploadPage), the gateway between its      *)
(* WebSocket and the server (as WSBridge shows it: both directions in      *)
(* order, the server's answers cut into messages anywhere), and the server *)
(* (FileUploadServer), with one connection for each upload.                *)
(*                                                                         *)
(* The gateway cuts between answers only: an answer is small and written   *)
(* at once.                                                                *)
(***************************************************************************)
EXTENDS FileUploadServer, UploadPage

CONSTANTS
    Files,     \* upload -> chunk index -> the file's bytes
    ConnOf     \* upload -> its connection to the server: each WebSocket has its own

Chunk == 0 .. totalChunks - 1

\* What buildInitPayload declares.
Declared == [supported |-> TRUE, totalChunks |-> totalChunks, chunkSize |-> chunkSize]

\* The clients are pages: they number chunks from 0, and no session id is "".
ASSUME SystemAssumption ==
    /\ Files \in [Attempts -> [ChunkIndexes -> Contents]]
    /\ ConnOf \in [Attempts -> Conns]
    /\ \A u, v \in Attempts : u # v => ConnOf[u] # ConnOf[v]
    /\ Declared \in InitRequests /\ Chunk \subseteq ChunkIndexes /\ IndexInRange
    /\ Tokens # {} /\ "" \notin Sessions

VARIABLE answers   \* upload -> answers the server wrote and the gateway has not read

systemVars == <<vars, pageVars, answers>>

token == CHOOSE t \in Tokens : TRUE

SystemInit == Init /\ PageInit /\ answers = [u \in Attempts |-> <<>>]

-----------------------------------------------------------------------------
\* What the server writes to the connection when a handler has returned.
Written(c) == [code |-> reply'[c].code, sessionID |-> req'[c].sid,
               received |-> reply'[c].received, missing |-> reply'[c].missing]

Reply(u) == answers' = IF pc'[ConnOf[u]] = "idle" /\ socket[u] = "open"
                       THEN [answers EXCEPT ![u] = Append(@, Written(ConnOf[u]))]
                       ELSE answers

\* The token is checked first; no session has the id "".
Handle(c, m) ==
    \/ ~ValidateToken(token) /\ AuthFailed(c)
    \/ m.cmd = "CMD_INIT_UPLOAD" /\ InitUpload(c, Declared, token)
    \/ /\ m.cmd # "CMD_INIT_UPLOAD" /\ m.sessionID = "" /\ ValidateToken(token)
       /\ Malformed(c)
    \/ /\ m.cmd = "CMD_UPLOAD_CHUNK" /\ m.sessionID # ""
       /\ UploadChunk(c, m.sessionID, token, m.chunk.index,
                      Files[m.chunk.upload][m.chunk.index])
    \/ /\ m.cmd \notin {"CMD_INIT_UPLOAD", "CMD_UPLOAD_CHUNK"} /\ m.sessionID # ""
       /\ SessionRequest(c, m.cmd, m.sessionID, token)

\* OnTraffic: the messages of a connection are handled one after the other.
ServerReceive(u) ==
    /\ requests[u] # <<>> /\ pc[ConnOf[u]] = "idle"
    /\ Handle(ConnOf[u], Head(requests[u]))
    /\ requests' = [requests EXCEPT ![u] = Tail(@)]
    /\ Reply(u)
    /\ UNCHANGED <<page, socket, frames>>

ServerStep(u) == /\ HandlerStep(ConnOf[u])
                 /\ Reply(u)
                 /\ UNCHANGED pageVars

\* The gateway reads n answers at once and sends them as one message.
GatewayRead(u, n) ==
    /\ n <= Len(answers[u])
    /\ frames' = [frames EXCEPT ![u] = Append(@, SubSeq(answers[u], 1, n))]
    /\ answers' = [answers EXCEPT ![u] = SubSeq(@, n + 1, Len(@))]
    /\ UNCHANGED <<vars, page, socket, requests>>

\* The server's connections go with the process.
ServerRestart ==
    /\ Restart
    /\ requests' = [u \in Attempts |-> <<>>]
    /\ answers'  = [u \in Attempts |-> <<>>]
    /\ frames'   = [u \in Attempts |-> <<>>]
    /\ socket'   = [u \in Attempts |-> IF WSOpen(u) THEN "closed" ELSE socket[u]]
    /\ page' = IF \E u \in Attempts : WSOpen(u) THEN Closed(log(page, "lost")) ELSE page

Page == /\ PageNext
        /\ answers' = [u \in Attempts |-> IF socket'[u] = "open" THEN answers[u] ELSE <<>>]
        /\ UNCHANGED vars

Background == (Cleanup \/ Tick) /\ UNCHANGED <<pageVars, answers>>

Over == /\ page.ws = MaxUploads /\ socket[page.ws] = "closed"
        /\ UNCHANGED systemVars

SystemNext ==
    \/ Page
    \/ \E u \in Attempts : \/ ServerReceive(u) \/ ServerStep(u)
                         \/ \E n \in 1 .. Len(answers[u]) : GatewayRead(u, n)
    \/ ServerRestart \/ Background \/ Over

SystemSpec == SystemInit /\ [][SystemNext]_systemVars

\* The page's events are delivered, the gateway and the server run.
FairSystemSpec ==
    /\ SystemSpec
    /\ WF_systemVars(Page /\ PageEvent)
    /\ WF_systemVars(Background /\ Cleanup)
    /\ \A u \in Attempts :
          /\ WF_systemVars(ServerReceive(u))
          /\ WF_systemVars(ServerStep(u) /\ FreeStep(ConnOf[u]))
          /\ SF_systemVars(ServerStep(u) /\ LockStep(ConnOf[u]))
          /\ WF_systemVars(\E n \in 1 .. Len(answers[u]) : GatewayRead(u, n))

-----------------------------------------------------------------------------
(* Properties.                                                             *)

\* The page's counters stay within the file: it never asks for a chunk that the
\* file does not have, and never shows more chunks than there are.
PageTypeOK ==
    /\ page.ws \in 0 .. MaxUploads
    /\ \A u \in Attempts : socket[u] \in {"none", "connecting", "open", "closing", "closed"}
    /\ page.sessionID \in Sessions \cup {""}
    /\ page.sentChunks \in 0 .. totalChunks /\ page.ackedChunks \in 0 .. totalChunks
    /\ \A k \in DOMAIN page.reading : page.reading[k].index \in Chunk
    /\ page.shown \in {"nothing", "complete", "cancelled", "auth failed", "error", "lost"}

\* "Upload complete!" is shown only of a stored object that is the file, chunk
\* by chunk, whatever the user clicked and however answers were bundled.
CompletedIsFile ==
    page.shown = "complete" =>
        /\ page.sessionID # "" /\ IsStored(s3[page.sessionID])
        /\ \A i \in Chunk :
              s3[page.sessionID].parts[PartNumber(i)] = Files[page.ws][i]

\* The progress the page shows never runs ahead of what the server recorded.
ProgressIsReal ==
    page.sessionID # "" =>
        page.ackedChunks <= Cardinality(Received(sess[page.sessionID]))

IsChunkAnswer(r) == r.code \in {"RESP_CHUNK_ACK", "RESP_DUPLICATE"}

ChunksInFlight(u) ==
      Cardinality({k \in DOMAIN page.reading : page.reading[k].upload = u})
    + Cardinality({k \in DOMAIN requests[u] : requests[u][k].cmd = "CMD_UPLOAD_CHUNK"})
    + (IF pc[ConnOf[u]] # "idle" /\ req[ConnOf[u]].cmd = "CMD_UPLOAD_CHUNK" THEN 1 ELSE 0)
    + Cardinality({k \in DOMAIN answers[u] : IsChunkAnswer(answers[u][k])})
    + Cardinality({k \in DOMAIN frames[u] : IsChunkAnswer(Head(frames[u][k]))})

\* "sequential - one at a time, wait for ACK" (index.html:578).
OneChunkInFlight == \A u \in Attempts : WSOpen(u) => ChunksInFlight(u) <= 1

\* Unless storage failed or the user cancelled, the server refuses nothing that
\* the page asks for: not in an upload that takes the place of one that was cut
\* off by a lost connection or a restart, either.  So it is with no clicks and a
\* file of a chunk or more: a pause lets the server refuse the chunk that the
\* page sends all the same (page_pause.cfg), and a file smaller than the least
\* chunk is refused at once (page_small_file.cfg).
NoErrorWithoutFault ==
    Faults = {} /\ "cancel" \notin Clicks => page.shown # "error"

\* "Connection closed. Upload incomplete." is not said of a complete upload.
IncompleteIsIncomplete == page.incomplete => page.shown # "complete"

\* "Upload cancelled." (index.html:553): when the server has cancelled the
\* upload the page does not show an error instead.
CancelledIsShown ==
    Faults = {} /\ ~Disconnects /\ page.shown = "error" /\ page.sessionID # "" =>
        sess[page.sessionID].state # STATE_CANCELLED

\* An upload comes to an end that the page shows, or to a pause, or the user
\* starts the next: neither a fault, a lost connection nor a restart leaves the
\* page waiting, and no upload suffers from what was left of the last.
UploadEnds ==
    \A u \in Attempts :
        page.ws = u ~> \/ page.ws # u
                       \/ /\ socket[u] = "closed"
                          /\ page.shown # "nothing" \/ page.incomplete
                       \/ page.paused
=============================================================================
