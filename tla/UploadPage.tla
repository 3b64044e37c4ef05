----------------------------- MODULE UploadPage -----------------------------
(***************************************************************************)
(* The upload page (frontend/index.html): its script's state and event     *)
(* handlers, for the uploads that one user starts one after the other.     *)
(* Each startUpload makes a WebSocket of its own, but ws, sessionID and    *)
(* the counters are globals: the events of an old WebSocket work on those  *)
(* of the newest upload.  A handler runs to its first await without        *)
(* interruption, so each handler is one step, but for sendNextChunk: it    *)
(* awaits the chunk's bytes, and other events run before it sends them.    *)
(***************************************************************************)
EXTENDS Integers, SequencesExt

CONSTANTS
    FileSize, CHUNK_SIZE,  \* in the same unit
    MaxUploads,            \* bound: uploads the user starts, all of files of that size
    PromptReads,           \* no upload is started while a chunk's bytes are read
    Clicks,                \* buttons the user may use: "pause", "resume", "cancel"
    MaxClicks,             \* bound: clicks of the user
    Disconnects            \* whether connections may fail

ASSUME PageAssumption ==
    /\ FileSize \in Nat /\ CHUNK_SIZE \in Nat \ {0} /\ MaxClicks \in Nat
    /\ MaxUploads \in Nat /\ PromptReads \in BOOLEAN
    /\ Clicks \subseteq {"pause", "resume", "cancel"}
    /\ Disconnects \in BOOLEAN

VARIABLES
    page,      \* the script's globals and what the page shows
    socket,    \* upload -> its WebSocket's readyState
    requests,  \* upload -> messages on the way to the server
    frames     \* upload -> WebSocket messages on the way to the page; the
               \* gateway may put several answers of the server into one

pageVars == <<page, socket, requests, frames>>

Attempts == 1 .. MaxUploads

totalChunks == (FileSize + CHUNK_SIZE - 1) \div CHUNK_SIZE

\* What CMD_INIT_UPLOAD declares as chunk size.
chunkSize == Min({CHUNK_SIZE, FileSize})

NoPage ==
    [ws |-> 0,               \* the upload whose WebSocket it is, the newest
     sessionID |-> "",
     sentChunks |-> 0,       \* next chunk index we will send
     ackedChunks |-> 0,      \* chunks confirmed by server
     pendingChunks |-> {},   \* after resume: list of missing chunk indices, ascending
     paused |-> FALSE, cancelled |-> FALSE,
     reading |-> <<>>,       \* chunks that sendNextChunk awaits the bytes of
     uploading |-> FALSE, canPause |-> FALSE, canResume |-> FALSE,  \* buttons
     shown |-> "nothing",    \* how the page says the upload ended
     incomplete |-> FALSE,   \* it says "Upload incomplete."
     clicks |-> 0]

PageInit == /\ page = NoPage
            /\ socket = [u \in Attempts |-> "none"]
            /\ requests = [u \in Attempts |-> <<>>]
            /\ frames = [u \in Attempts |-> <<>>]

WSOpen(u) == u \in Attempts /\ socket[u] = "open"

\* "btnStart", "btnCancel" and the others; showing a message replaces the last.
setButtons(p, uploading) ==
    [p EXCEPT !.uploading = uploading, !.canPause = uploading /\ ~p.paused,
              !.canResume = p.paused]

log(p, shown) == [p EXCEPT !.shown = shown, !.incomplete = FALSE]

\* ws.send: it discards its message once the WebSocket is closing, and throws
\* while it is connecting.
Send(isOpen, cmd, chunk) ==
    requests' = IF isOpen
                THEN [requests EXCEPT ![page.ws] =
                         Append(@, [cmd |-> cmd, sessionID |-> page.sessionID,
                                    chunk |-> chunk])]
                ELSE requests

NoData == [upload |-> 0, index |-> 0]

-----------------------------------------------------------------------------
Reset(p) == [NoPage EXCEPT !.ws = p.ws + 1, !.reading = p.reading, !.clicks = p.clicks]

\* Mutant: the counters of the last upload stay.
startUploadKeeping ==
    /\ ~page.uploading /\ page.ws < MaxUploads
    /\ PromptReads => page.reading = <<>>
    /\ page' = setButtons([log(page, "nothing") EXCEPT !.ws = @ + 1], TRUE)
    /\ socket' = [socket EXCEPT ![page.ws + 1] = "connecting"]
    /\ UNCHANGED <<requests, frames>>

startUpload ==
    /\ ~page.uploading /\ page.ws < MaxUploads
    /\ PromptReads => page.reading = <<>>
    /\ page' = setButtons(Reset(page), TRUE)
    /\ socket' = [socket EXCEPT ![page.ws + 1] = "connecting"]
    /\ UNCHANGED <<requests, frames>>

onopen(u) ==
    /\ socket[u] = "connecting"
    /\ socket' = [socket EXCEPT ![u] = "open"]
    /\ page' = log(page, "nothing")
    /\ Send(socket'[page.ws] = "open", "CMD_INIT_UPLOAD", NoData)
    /\ UNCHANGED frames

Closed(p) == [setButtons(p, FALSE) EXCEPT
                 !.incomplete = @ \/ (~p.cancelled /\ p.ackedChunks < totalChunks)]

onclose(u) ==
    /\ socket[u] = "closing"
    /\ socket' = [socket EXCEPT ![u] = "closed"]
    /\ page' = Closed(page)
    /\ UNCHANGED <<requests, frames>>

\* The connection cannot be made or breaks (onerror, onclose): some of the
\* messages on the way are lost.  Or the gateway cannot reach the server, and
\* closes the WebSocket before it reads from it ("backend unavailable", for
\* which there is no onerror).
ConnectionLost(u) ==
    /\ Disconnects /\ socket[u] \in {"connecting", "open"}
    /\ socket' = [socket EXCEPT ![u] = "closed"]
    /\ \E n \in 0 .. Len(requests[u]) :
          requests' = [requests EXCEPT ![u] = SubSeq(@, 1, n)]
    /\ frames' = [frames EXCEPT ![u] = <<>>]
    /\ \/ page' = Closed(log(page, "lost"))
       \/ /\ socket[u] = "open" /\ requests'[u] = <<>> /\ page' = Closed(page)
          /\ requests[u] # <<>> /\ requests[u][1].cmd = "CMD_INIT_UPLOAD"

-----------------------------------------------------------------------------
(* sendNextChunk, up to the await, and from the await: the bytes are those *)
(* of the file it was called for, sessionID and ws are read afterwards.    *)

ChunkOf(p, index) == [upload |-> p.ws, index |-> index]

\* Mutants: every other chunk is skipped; two chunks at a time; one chunk more
\* than there are.
sendNextChunkSkipping(p) ==
    IF p.paused \/ p.cancelled \/ ~WSOpen(p.ws) \/ p.sentChunks >= totalChunks THEN p
    ELSE [p EXCEPT !.sentChunks = @ + 2, !.reading = Append(@, ChunkOf(p, p.sentChunks))]

sendTwoChunks(p) ==
    IF p.paused \/ p.cancelled \/ ~WSOpen(p.ws) \/ p.sentChunks + 1 >= totalChunks THEN p
    ELSE [p EXCEPT !.sentChunks = @ + 2,
                   !.reading = @ \o <<ChunkOf(p, p.sentChunks), ChunkOf(p, p.sentChunks + 1)>>]

sendNextChunkTooFar(p) ==
    IF p.paused \/ p.cancelled \/ ~WSOpen(p.ws) \/ p.sentChunks > totalChunks THEN p
    ELSE [p EXCEPT !.sentChunks = @ + 1, !.reading = Append(@, ChunkOf(p, p.sentChunks))]

sendNextChunk(p) ==
    IF p.paused \/ p.cancelled \/ ~WSOpen(p.ws) THEN p
    ELSE IF p.pendingChunks # {}
    THEN [p EXCEPT !.pendingChunks = @ \ {Min(@)},
                   !.reading = Append(@, ChunkOf(p, Min(p.pendingChunks)))]
    ELSE IF p.sentChunks < totalChunks
    THEN [p EXCEPT !.sentChunks = @ + 1, !.reading = Append(@, ChunkOf(p, p.sentChunks))]
    ELSE p

ChunkRead(k) ==
    /\ k \in DOMAIN page.reading
    /\ page' = [page EXCEPT !.reading = RemoveAt(@, k)]
    /\ Send(WSOpen(page.ws), "CMD_UPLOAD_CHUNK", page.reading[k])
    /\ UNCHANGED <<socket, frames>>

-----------------------------------------------------------------------------
Finish(p, shown) == setButtons(log(p, shown), FALSE)

\* Mutant: "auth failed" leaves the WebSocket open.
EndsUploadIfAuthorized(r) == r.code \in {"RESP_COMPLETE", "RESP_CANCELLED", "RESP_ERROR"}

\* Finish is followed by ws.close().
EndsUpload(r) == r.code \in {"RESP_COMPLETE", "RESP_CANCELLED", "RESP_AUTH_FAILED", "RESP_ERROR"}

CloseSocket(u) == [socket EXCEPT ![u] = IF @ = "closed" THEN @ ELSE "closing"]

\* Mutant: every acknowledgement counts one more chunk.
AckedOneMore(p, r) == [p EXCEPT !.ackedChunks = @ + 1]

Acked(p, r) == [p EXCEPT !.ackedChunks = r.received]

handleResponse(p, r) ==
    CASE r.code = "RESP_READY" -> 
             sendNextChunk([log(p, "nothing") EXCEPT !.sessionID = r.sessionID])
      [] r.code \in {"RESP_CHUNK_ACK", "RESP_DUPLICATE"} ->
             sendNextChunk(Acked(p, r))
      [] r.code = "RESP_COMPLETE" -> Finish(p, "complete")
      [] r.code = "RESP_PAUSED" ->
             [log(p, "nothing") EXCEPT !.paused = TRUE, !.canPause = FALSE,
                                       !.canResume = TRUE]
      [] r.code = "RESP_RESUMED" ->
             sendNextChunk([log(p, "nothing") EXCEPT
                               !.paused = FALSE, !.canPause = TRUE,
                               !.canResume = FALSE,
                               !.pendingChunks = r.missing])
      [] r.code = "RESP_CANCELLED" -> Finish([p EXCEPT !.cancelled = TRUE], "cancelled")
      [] r.code = "RESP_AUTH_FAILED" -> Finish(p, "auth failed")
      [] r.code = "RESP_ERROR" -> Finish(p, "error")

\* The page reads one answer of a message, its first.
onmessage(u) ==
    /\ socket[u] = "open" /\ frames[u] # <<>>
    /\ LET r == Head(Head(frames[u]))
       IN  /\ page' = handleResponse(page, r)
           /\ socket' = IF EndsUpload(r) THEN CloseSocket(page.ws) ELSE socket
    /\ frames' = [frames EXCEPT ![u] = Tail(@)]
    /\ UNCHANGED requests

-----------------------------------------------------------------------------
Click(button, cmd) == /\ button \in Clicks /\ page.clicks < MaxClicks
                      /\ WSOpen(page.ws)
                      /\ page' = [page EXCEPT !.clicks = @ + 1]
                      /\ Send(TRUE, cmd, NoData)
                      /\ UNCHANGED <<socket, frames>>

pauseUpload == page.canPause /\ ~page.paused /\ Click("pause", "CMD_PAUSE_UPLOAD")

resumeUpload == page.canResume /\ page.paused /\ Click("resume", "CMD_RESUME_UPLOAD")

cancelUpload == page.uploading /\ Click("cancel", "CMD_CANCEL_UPLOAD")

\* What the browser does by itself, and what the user and the network do.
PageEvent == \/ \E u \in Attempts : onopen(u) \/ onclose(u) \/ onmessage(u)
             \/ \E k \in DOMAIN page.reading : ChunkRead(k)

PageNext == \/ startUpload \/ PageEvent
            \/ \E u \in Attempts : ConnectionLost(u)
            \/ pauseUpload \/ resumeUpload \/ cancelUpload
=============================================================================
