------------------------- MODULE FileUploadServer -------------------------
(***************************************************************************)
(* gnet-backend: the upload server (server.go), the session table with     *)
(* its clean-up goroutine (session_manager.go) and token checking          *)
(* (auth.go), over the S3 multipart uploads of S3Multipart.                *)
(*                                                                         *)
(* A handler runs from its dispatch to its answer on the event loop of its *)
(* connection, so a connection has at most one request in progress; pc[c]  *)
(* is the call the handler makes next.  One action is one critical section *)
(* (of sm.mu or of us.mu), one S3 call, or one unlocked access of a field  *)
(* of the session.  Handlers of different connections, and the clean-up    *)
(* goroutine, interleave between any two actions.                          *)
(*                                                                         *)
(* Time is counted in hours.  The S3 upload of a session is identified     *)
(* with the session's id: CreateMultipartUpload is called once per id.     *)
(***************************************************************************)
EXTENDS S3Multipart

CONSTANTS
    Conns,             \* client connections
    Sessions,          \* session ids: bounds the sessions ever created
    Tokens,            \* auth tokens that clients present
    TokenUser,         \* token -> user, NoUser for a token the server lacks
    TokenDuration,     \* token -> hours that AddToken gives it
    InitRequests,      \* CMD_INIT_UPLOAD bodies: [supported, totalChunks, chunkSize]
    MAX_FILE_SIZE, MIN_CHUNK_SIZE, MAX_CHUNK_SIZE,
    SESSION_TIMEOUT,   \* hours without an update before a live session is stale
    FINISHED_TIMEOUT,  \* the same for a finished session
    Faults,            \* how S3 calls fail on their own: "refused", "lost"
    IndexInRange,      \* clients number chunks 0 .. totalChunks - 1
    PromptHandlers,    \* no request stays in progress for a whole hour
    LastRequest,       \* clients send nothing once the clock reads this
    MaxTime,           \* bound: the clock stops
    MaxRestarts        \* bound: process restarts

Hours == 0 .. MaxTime

InitRequest == [supported : BOOLEAN, totalChunks : Nat, chunkSize : Nat]

ASSUME ServerAssumption ==
    /\ TokenUser \in [Tokens -> Users \cup {NoUser}]
    /\ TokenDuration \in [Tokens -> Nat]
    /\ InitRequests \subseteq InitRequest
    /\ Faults \subseteq {"refused", "lost"}
    /\ ChunkIndexes # {} /\ Contents # {} /\ Sessions # {}
    /\ SESSION_TIMEOUT \in Nat \ {0}
    /\ MaxTime \in Nat /\ MaxRestarts \in Nat
    /\ IndexInRange \in BOOLEAN /\ PromptHandlers \in BOOLEAN

Commands == {"CMD_INIT_UPLOAD", "CMD_UPLOAD_CHUNK", "CMD_PAUSE_UPLOAD",
             "CMD_RESUME_UPLOAD", "CMD_CANCEL_UPLOAD", "CMD_GET_STATUS"}

SessionCommands == Commands \ {"CMD_INIT_UPLOAD"}

ResponseCodes == {"RESP_ERROR", "RESP_READY", "RESP_CHUNK_ACK", "RESP_COMPLETE",
                  "RESP_STATUS", "RESP_PAUSED", "RESP_RESUMED",
                  "RESP_CANCELLED", "RESP_AUTH_FAILED", "RESP_DUPLICATE"}

Labels == {"idle", "CreateSession", "CreateMultipartUpload", "SetUploadID",
           "GetSession", "ReadPaused", "ReadCancelled", "UploadPart", "AddChunk",
           "GetProgress", "IsComplete", "CompleteMultipartUpload",
           "SetCompleted", "SetFailed", "Pause", "ReadState", "Resume",
           "GetMissingChunks", "Cancel", "AbortMultipartUpload",
           "DeleteSession"}

\* total is used by CMD_INIT_UPLOAD only, index and content by CMD_UPLOAD_CHUNK.
Request == [cmd : Commands, user : Users \cup {NoUser}, sid : Sessions,
            total : Nat, index : ChunkIndexes, content : Contents]

\* received and missing are the progress fields of the answers that have them.
Response == [code : ResponseCodes \cup {"none"}, received : Nat,
             missing : SUBSET Nat]

NoRequest == [cmd |-> "CMD_GET_STATUS", user |-> NoUser,
              sid |-> CHOOSE s \in Sessions : TRUE, total |-> 0,
              index |-> CHOOSE i \in ChunkIndexes : TRUE,
              content |-> CHOOSE d \in Contents : TRUE]

NoReply == [code |-> "none", received |-> 0, missing |-> {}]

NoCleanup == [holding |-> FALSE, now |-> 0, todo |-> {}, victim |-> {}]

VARIABLES
    sessions,   \* sm.sessions: the ids in the table
    sess,       \* id -> the session record; a handler that got the record
                \* keeps using it after its id has left the table
    s3,         \* id -> the session's multipart upload
    pc,         \* conn -> next call of its handler
    req,        \* conn -> the request in progress, or the last one
    reply,      \* conn -> answer to that request
    local,      \* conn -> handleUploadChunk's isDuplicate and received, and
                \* whether the clock has moved since the request came
    cleanup,    \* cleanupLoop: does it hold sm.mu, now, ids left, id to reap
    now,        \* the clock
    restarts    \* the hours at which the process was started again

vars == <<sessions, sess, s3, pc, req, reply, local, cleanup, now, restarts>>

NoLocals == [duplicate |-> FALSE, received |-> 0, spans |-> FALSE]

Init ==
    /\ sessions = {}
    /\ sess = [s \in Sessions |-> NoSession]
    /\ s3 = [s \in Sessions |-> NoUpload]
    /\ pc = [c \in Conns |-> "idle"]
    /\ req = [c \in Conns |-> NoRequest]
    /\ reply = [c \in Conns |-> NoReply]
    /\ local = [c \in Conns |-> NoLocals]
    /\ cleanup = NoCleanup
    /\ now = 0
    /\ restarts = <<>>

-----------------------------------------------------------------------------
(* Shared steps.                                                           *)

Goto(c, label) == /\ pc' = [pc EXCEPT ![c] = label]
                  /\ UNCHANGED reply

Answer(c, code, received, missing) ==
    /\ pc' = [pc EXCEPT ![c] = "idle"]
    /\ reply' = [reply EXCEPT ![c] = [code |-> code, received |-> received,
                                      missing |-> missing]]

AnswerError(c) == Answer(c, "RESP_ERROR", 0, {})

SmFree == ~cleanup.holding

Update(s, us) == sess' = [sess EXCEPT ![s] = us]

\* An S3 call on upload s that storage accepts iff allowed, and that turns the
\* upload into result: it succeeds, or returns an error.
S3Succeeds(s, allowed, result) ==
    /\ allowed
    /\ s3' = [s3 EXCEPT ![s] = result]

S3Fails(s, allowed, result) ==
    \/ /\ ~allowed \/ "refused" \in Faults
       /\ UNCHANGED s3
    \/ /\ allowed /\ "lost" \in Faults
       /\ s3' = [s3 EXCEPT ![s] = result]

-----------------------------------------------------------------------------
(* OnTraffic: a complete message has arrived on an idle connection.        *)

\* NewAuthManager adds the same tokens whenever the process starts.
BootTime == IF restarts = <<>> THEN 0 ELSE restarts[Len(restarts)]

ExpiresAt(t) == BootTime + TokenDuration[t]

ValidateToken(t) == TokenUser[t] # NoUser /\ now <= ExpiresAt(t)

MaySend(c) == pc[c] = "idle" /\ now < LastRequest

Dispatch(c, r, label) ==
    /\ pc' = [pc EXCEPT ![c] = label]
    /\ req' = [req EXCEPT ![c] = r]
    /\ reply' = [reply EXCEPT ![c] = NoReply]
    /\ local' = [local EXCEPT ![c] = NoLocals]
    /\ UNCHANGED <<sessions, sess, s3, cleanup, now, restarts>>

Refuse(c, code) ==
    /\ Answer(c, code, 0, {})
    /\ req' = [req EXCEPT ![c] = NoRequest]
    /\ local' = [local EXCEPT ![c] = NoLocals]
    /\ UNCHANGED <<sessions, sess, s3, cleanup, now, restarts>>

AuthFailed(c) ==
    /\ MaySend(c)
    /\ \E t \in Tokens : ~ValidateToken(t)
    /\ Refuse(c, "RESP_AUTH_FAILED")

\* An empty payload, an unknown command, or a body shorter than it says.
Malformed(c) ==
    /\ MaySend(c)
    /\ Refuse(c, "RESP_ERROR")

ValidInit(r) == /\ r.supported
                /\ r.totalChunks * r.chunkSize <= MAX_FILE_SIZE
                /\ MIN_CHUNK_SIZE <= r.chunkSize
                /\ r.chunkSize <= MAX_CHUNK_SIZE

Unused(s) == /\ sess[s].state = STATE_NONE
             /\ \A c \in Conns : pc[c] = "CreateSession" => req[c].sid # s

\* handleInitUpload up to CreateSession's lock: a request that passes the
\* checks gets a session id no other request has.
InitUpload(c, r, t) ==
    /\ MaySend(c) /\ ValidateToken(t)
    /\ IF ValidInit(r)
       THEN \E s \in Sessions :
               /\ Unused(s)
               /\ Dispatch(c, [NoRequest EXCEPT !.cmd   = "CMD_INIT_UPLOAD",
                                                !.user  = TokenUser[t],
                                                !.sid   = s,
                                                !.total = r.totalChunks],
                           "CreateSession")
       ELSE Refuse(c, "RESP_ERROR")

\* Clients know the ids of the sessions that were answered RESP_READY.
Known(s) == sess[s].uploadID

SessionRequest(c, cmd, s, t) ==
    /\ MaySend(c) /\ ValidateToken(t) /\ Known(s)
    /\ cmd # "CMD_UPLOAD_CHUNK"
    /\ Dispatch(c, [NoRequest EXCEPT !.cmd = cmd, !.user = TokenUser[t],
                                     !.sid = s],
                "GetSession")

UploadChunk(c, s, t, i, d) ==
    /\ MaySend(c) /\ ValidateToken(t) /\ Known(s)
    /\ IndexInRange => i < sess[s].totalChunks
    /\ Dispatch(c, [NoRequest EXCEPT !.cmd = "CMD_UPLOAD_CHUNK",
                                     !.user = TokenUser[t], !.sid = s,
                                     !.index = i, !.content = d],
                "GetSession")

Receive(c) ==
    \/ AuthFailed(c)
    \/ Malformed(c)
    \/ \E t \in Tokens, r \in InitRequests : InitUpload(c, r, t)
    \/ \E t \in Tokens, s \in Sessions, cmd \in SessionCommands :
          SessionRequest(c, cmd, s, t)
    \/ \E t \in Tokens, s \in Sessions, i \in ChunkIndexes, d \in Contents :
          UploadChunk(c, s, t, i, d)

-----------------------------------------------------------------------------
(* handleInitUpload.                                                       *)

CreateSession(c) ==
    /\ pc[c] = "CreateSession" /\ SmFree
    /\ Update(req[c].sid, NewSession(req[c].user, req[c].total, now))
    /\ sessions' = sessions \cup {req[c].sid}
    /\ Goto(c, "CreateMultipartUpload")
    /\ UNCHANGED <<s3, req, local, cleanup, now, restarts>>

CreateMultipartUpload(c) ==
    LET s == req[c].sid
    IN  /\ pc[c] = "CreateMultipartUpload"
        /\ \/ S3Succeeds(s, TRUE, Created(s3[s])) /\ Goto(c, "SetUploadID")
           \/ S3Fails(s, TRUE, Created(s3[s])) /\ AnswerError(c)
        /\ UNCHANGED <<sessions, sess, req, local, cleanup, now, restarts>>

SetUploadID(c) ==
    LET s == req[c].sid
    IN  /\ pc[c] = "SetUploadID"
        /\ Update(s, [sess[s] EXCEPT !.uploadID = TRUE])
        /\ Answer(c, "RESP_READY", 0, {})
        /\ UNCHANGED <<sessions, s3, req, local, cleanup, now, restarts>>

-----------------------------------------------------------------------------
(* The handlers of an existing session all begin with GetSession and the   *)
(* owner check.                                                            *)

FirstCall(cmd) ==
    CASE cmd = "CMD_UPLOAD_CHUNK"  -> "ReadPaused"
      [] cmd = "CMD_PAUSE_UPLOAD"  -> "Pause"
      [] cmd = "CMD_RESUME_UPLOAD" -> "ReadState"
      [] cmd = "CMD_CANCEL_UPLOAD" -> "Cancel"
      [] OTHER                     -> "GetProgress"

\* Mutant: no owner check.
GetSessionOfAnyone(c) ==
    /\ pc[c] = "GetSession" /\ SmFree
    /\ IF req[c].sid \in sessions
       THEN Goto(c, FirstCall(req[c].cmd)) ELSE AnswerError(c)
    /\ UNCHANGED <<sessions, sess, s3, req, local, cleanup, now, restarts>>

GetSession(c) ==
    LET s == req[c].sid
    IN  /\ pc[c] = "GetSession" /\ SmFree
        /\ IF s \in sessions /\ sess[s].user = req[c].user
           THEN Goto(c, FirstCall(req[c].cmd))
           ELSE AnswerError(c)
        /\ UNCHANGED <<sessions, sess, s3, req, local, cleanup, now, restarts>>

-----------------------------------------------------------------------------
(* handleUploadChunk and finalizeUpload.                                   *)

\* Mutant: the check for a paused upload is missing.
ReadPausedNever(c) ==
    /\ pc[c] = "ReadPaused"
    /\ Goto(c, "ReadCancelled")
    /\ UNCHANGED <<sessions, sess, s3, req, local, cleanup, now, restarts>>

ReadPaused(c) ==
    /\ pc[c] = "ReadPaused"
    /\ IF sess[req[c].sid].state = STATE_PAUSED
       THEN AnswerError(c)
       ELSE Goto(c, "ReadCancelled")
    /\ UNCHANGED <<sessions, sess, s3, req, local, cleanup, now, restarts>>

ReadCancelled(c) ==
    /\ pc[c] = "ReadCancelled"
    /\ IF sess[req[c].sid].state = STATE_CANCELLED
       THEN AnswerError(c)
       ELSE Goto(c, "UploadPart")
    /\ UNCHANGED <<sessions, sess, s3, req, local, cleanup, now, restarts>>

\* Mutant: err is not checked.
UploadPartUnchecked(c) ==
    LET s == req[c].sid
        stored == WithPart(s3[s], PartNumber(req[c].index), req[c].content)
    IN  /\ pc[c] = "UploadPart"
        /\ \/ S3Succeeds(s, IsOpen(s3[s]), stored)
           \/ S3Fails(s, IsOpen(s3[s]), stored)
        /\ Goto(c, "AddChunk")
        /\ UNCHANGED <<sessions, sess, req, local, cleanup, now, restarts>>

UploadPart(c) ==
    LET s == req[c].sid
        stored == WithPart(s3[s], PartNumber(req[c].index), req[c].content)
    IN  /\ pc[c] = "UploadPart"
        /\ \/ S3Succeeds(s, IsOpen(s3[s]), stored) /\ Goto(c, "AddChunk")
           \/ S3Fails(s, IsOpen(s3[s]), stored) /\ AnswerError(c)
        /\ UNCHANGED <<sessions, sess, req, local, cleanup, now, restarts>>

AddChunkCall(c) ==
    LET s == req[c].sid
    IN  /\ pc[c] = "AddChunk"
        /\ Update(s, AddChunk(sess[s], req[c].index, req[c].content, now))
        /\ local' = [local EXCEPT ![c].duplicate =
                        IsDuplicate(sess[s], req[c].index, req[c].content)]
        /\ Goto(c, "GetProgress")
        /\ UNCHANGED <<sessions, s3, req, cleanup, now, restarts>>

\* GetProgress, of handleUploadChunk and of the handlers that report it.
GetProgressCall(c) ==
    LET received == GetProgress(sess[req[c].sid])
    IN  /\ pc[c] = "GetProgress"
        /\ local' = [local EXCEPT ![c].received = received]
        /\ CASE req[c].cmd = "CMD_UPLOAD_CHUNK"  -> Goto(c, "IsComplete")
             [] req[c].cmd = "CMD_RESUME_UPLOAD" -> Goto(c, "GetMissingChunks")
             [] req[c].cmd = "CMD_PAUSE_UPLOAD"  ->
                    Answer(c, "RESP_PAUSED", received, {})
             [] OTHER -> Answer(c, "RESP_STATUS", received, {})
        /\ UNCHANGED <<sessions, sess, s3, req, cleanup, now, restarts>>

IsCompleteCall(c) ==
    /\ pc[c] = "IsComplete"
    /\ IF IsComplete(sess[req[c].sid])
       THEN Goto(c, "CompleteMultipartUpload")
       ELSE Answer(c, IF local[c].duplicate THEN "RESP_DUPLICATE"
                                            ELSE "RESP_CHUNK_ACK",
                   local[c].received, {})
    /\ UNCHANGED <<sessions, sess, s3, req, local, cleanup, now, restarts>>

\* Mutant: err is not checked.
CompleteUnchecked(c) ==
    LET s == req[c].sid
        list == sess[s].parts
        allowed == Completable(s3[s], list)
    IN  /\ pc[c] = "CompleteMultipartUpload"
        /\ \/ S3Succeeds(s, allowed, Completed(s3[s], list))
           \/ S3Fails(s, allowed, Completed(s3[s], list))
        /\ Goto(c, "SetCompleted")
        /\ UNCHANGED <<sessions, sess, req, local, cleanup, now, restarts>>

CompleteMultipartUpload(c) ==
    LET s == req[c].sid
        list == sess[s].parts
        allowed == Completable(s3[s], list)
    IN  /\ pc[c] = "CompleteMultipartUpload"
        /\ \/ S3Succeeds(s, allowed, Completed(s3[s], list))
              /\ Goto(c, "SetCompleted")
           \/ S3Fails(s, allowed, Completed(s3[s], list))
              /\ Goto(c, "SetFailed")
        /\ UNCHANGED <<sessions, sess, req, local, cleanup, now, restarts>>

SetCompleted(c) ==
    LET s == req[c].sid
    IN  /\ pc[c] = "SetCompleted"
        /\ Update(s, [sess[s] EXCEPT !.state = STATE_COMPLETED,
                                     !.updatedAt = now])
        /\ Answer(c, "RESP_COMPLETE", 0, {})
        /\ UNCHANGED <<sessions, s3, req, local, cleanup, now, restarts>>

SetFailed(c) ==
    LET s == req[c].sid
    IN  /\ pc[c] = "SetFailed"
        /\ Update(s, [sess[s] EXCEPT !.state = STATE_FAILED])
        /\ AnswerError(c)
        /\ UNCHANGED <<sessions, s3, req, local, cleanup, now, restarts>>

-----------------------------------------------------------------------------
(* handlePauseUpload, handleResumeUpload, handleCancelUpload.              *)

PauseCall(c) ==
    LET s == req[c].sid
    IN  /\ pc[c] = "Pause"
        /\ Update(s, Pause(sess[s], now))
        /\ Goto(c, "GetProgress")
        /\ UNCHANGED <<sessions, s3, req, local, cleanup, now, restarts>>

ReadState(c) ==
    /\ pc[c] = "ReadState"
    /\ IF sess[req[c].sid].state # STATE_PAUSED
       THEN AnswerError(c)
       ELSE Goto(c, "Resume")
    /\ UNCHANGED <<sessions, sess, s3, req, local, cleanup, now, restarts>>

ResumeCall(c) ==
    LET s == req[c].sid
    IN  /\ pc[c] = "Resume"
        /\ Update(s, Resume(sess[s], now))
        /\ Goto(c, "GetProgress")
        /\ UNCHANGED <<sessions, s3, req, local, cleanup, now, restarts>>

GetMissingChunksCall(c) ==
    /\ pc[c] = "GetMissingChunks"
    /\ Answer(c, "RESP_RESUMED", local[c].received,
              GetMissingChunks(sess[req[c].sid]))
    /\ UNCHANGED <<sessions, sess, s3, req, local, cleanup, now, restarts>>

\* Mutant: the upload is not aborted.
CancelWithoutAbort(c) ==
    /\ pc[c] = "Cancel"
    /\ Update(req[c].sid, Cancel(sess[req[c].sid], now))
    /\ Goto(c, "DeleteSession")
    /\ UNCHANGED <<sessions, s3, req, local, cleanup, now, restarts>>

CancelCall(c) ==
    LET s == req[c].sid
    IN  /\ pc[c] = "Cancel"
        /\ Update(s, Cancel(sess[s], now))
        /\ Goto(c, IF sess[s].uploadID THEN "AbortMultipartUpload"
                                       ELSE "DeleteSession")
        /\ UNCHANGED <<sessions, s3, req, local, cleanup, now, restarts>>

\* An error of the abort is logged and forgotten.
AbortUpload(s) == \/ S3Succeeds(s, IsOpen(s3[s]), Aborted(s3[s]))
                  \/ S3Fails(s, IsOpen(s3[s]), Aborted(s3[s]))

AbortMultipartUpload(c) ==
    /\ pc[c] = "AbortMultipartUpload"
    /\ AbortUpload(req[c].sid)
    /\ Goto(c, "DeleteSession")
    /\ UNCHANGED <<sessions, sess, req, local, cleanup, now, restarts>>

DeleteSession(c) ==
    /\ pc[c] = "DeleteSession" /\ SmFree
    /\ sessions' = sessions \ {req[c].sid}
    /\ Answer(c, "RESP_CANCELLED", 0, {})
    /\ UNCHANGED <<sess, s3, req, local, cleanup, now, restarts>>

-----------------------------------------------------------------------------
(* cleanupLoop: one pass under sm.mu, which reads session fields without   *)
(* us.mu.                                                                  *)

Timeout(state) == IF state \in {STATE_COMPLETED, STATE_CANCELLED}
                  THEN FINISHED_TIMEOUT ELSE SESSION_TIMEOUT

\* Mutant: sessions that never finish have no timeout.
StaleIfFinished(us, at) ==
    /\ us.state \in {STATE_COMPLETED, STATE_CANCELLED}
    /\ at - us.updatedAt > FINISHED_TIMEOUT

Stale(us, at) == at - us.updatedAt > Timeout(us.state)

CleanupTick ==
    /\ ~cleanup.holding
    /\ cleanup' = [holding |-> TRUE, now |-> now, todo |-> sessions,
                   victim |-> {}]
    /\ UNCHANGED <<sessions, sess, s3, pc, req, reply, local, now, restarts>>

\* The code reads State and then UpdatedAt without us.mu.  A write in between
\* is later than cleanup.now, so that the session is not stale, as if both were
\* read after it; a write half done (new state, old time) is left out.
CleanupVisit(s) ==
    /\ cleanup.victim = {} /\ s \in cleanup.todo
    /\ cleanup' = [cleanup EXCEPT
                      !.todo = @ \ {s},
                      !.victim = IF Stale(sess[s], cleanup.now) THEN {s}
                                                                ELSE {}]
    /\ UNCHANGED <<sessions, sess, s3, pc, req, reply, local, now, restarts>>

\* Mutant: only uploads in state "uploading" are aborted.
CleanupReapUploading(s) ==
    /\ s \in cleanup.victim
    /\ IF sess[s].uploadID /\ sess[s].state = STATE_UPLOADING
       THEN AbortUpload(s)
       ELSE UNCHANGED s3
    /\ sessions' = sessions \ {s}
    /\ cleanup' = [cleanup EXCEPT !.victim = {}]
    /\ UNCHANGED <<sess, pc, req, reply, local, now, restarts>>

\* The abort, when there is something to abort, and the deletion.
CleanupReap(s) ==
    /\ s \in cleanup.victim
    /\ IF sess[s].uploadID /\ sess[s].state # STATE_COMPLETED
       THEN AbortUpload(s)
       ELSE UNCHANGED s3
    /\ sessions' = sessions \ {s}
    /\ cleanup' = [cleanup EXCEPT !.victim = {}]
    /\ UNCHANGED <<sess, pc, req, reply, local, now, restarts>>

\* Mutant: sm.mu is not unlocked after a pass.
CleanupDoneLocked ==
    /\ cleanup.holding /\ cleanup.todo = {} /\ cleanup.victim = {}
    /\ UNCHANGED vars

CleanupDone ==
    /\ cleanup.holding /\ cleanup.todo = {} /\ cleanup.victim = {}
    /\ cleanup' = NoCleanup
    /\ UNCHANGED <<sessions, sess, s3, pc, req, reply, local, now, restarts>>

Cleanup == \/ CleanupTick
           \/ \E s \in Sessions : CleanupVisit(s) \/ CleanupReap(s)
           \/ CleanupDone

-----------------------------------------------------------------------------
Tick ==
    /\ now < MaxTime
    /\ \A c \in Conns : local[c].spans => pc[c] = "idle"
    /\ now' = now + 1
    /\ local' = [c \in Conns |-> [local[c] EXCEPT
                    !.spans = PromptHandlers /\ pc[c] # "idle"]]
    /\ UNCHANGED <<sessions, sess, s3, pc, req, reply, cleanup, restarts>>

\* The process dies and starts again: nothing of its memory survives.  The
\* records of lost sessions stay in sess as history; no handler reaches them.
Restart ==
    /\ Len(restarts) < MaxRestarts
    /\ restarts' = Append(restarts, now)
    /\ sessions' = {}
    /\ pc' = [c \in Conns |-> "idle"]
    /\ req' = [c \in Conns |-> NoRequest]
    /\ reply' = [c \in Conns |-> NoReply]
    /\ local' = [c \in Conns |-> NoLocals]
    /\ cleanup' = NoCleanup
    /\ UNCHANGED <<sess, s3, now>>

LockStep(c) == CreateSession(c) \/ GetSession(c) \/ DeleteSession(c)

FreeStep(c) ==
    \/ CreateMultipartUpload(c) \/ SetUploadID(c)
    \/ ReadPaused(c) \/ ReadCancelled(c) \/ UploadPart(c) \/ AddChunkCall(c)
    \/ GetProgressCall(c) \/ IsCompleteCall(c) \/ CompleteMultipartUpload(c)
    \/ SetCompleted(c) \/ SetFailed(c) \/ PauseCall(c) \/ ReadState(c)
    \/ ResumeCall(c) \/ GetMissingChunksCall(c) \/ CancelCall(c)
    \/ AbortMultipartUpload(c)

HandlerStep(c) == LockStep(c) \/ FreeStep(c)

Next ==
    \/ \E c \in Conns : Receive(c) \/ HandlerStep(c)
    \/ Cleanup
    \/ Tick
    \/ Restart

Spec == Init /\ [][Next]_vars

\* Handlers and the clean-up goroutine run until they are done, S3 calls
\* return, and a handler waiting for sm.mu gets it: a Go RWMutex lets the
\* waiting goroutines in before it is taken for writing again.
Fairness ==
    /\ \A c \in Conns : WF_vars(FreeStep(c)) /\ SF_vars(LockStep(c))
    /\ WF_vars(Cleanup)
    /\ WF_vars(Tick)

FairSpec == Spec /\ Fairness
-----------------------------------------------------------------------------
(* Properties.                                                             *)

Cleanups == [holding : BOOLEAN, now : Hours, todo : SUBSET Sessions,
             victim : SUBSET Sessions]

Locals == [duplicate : BOOLEAN, received : Nat, spans : BOOLEAN]

\* Handlers, clean-up and restarts keep the table, the records, the uploads in
\* storage and the connections within their types: part numbers of recorded
\* chunks are those of declared indexes, hours do not run past the bound.
TypeOK ==
    /\ sessions \subseteq Sessions
    /\ sess \in [Sessions -> Session]
    /\ s3 \in [Sessions -> Upload]
    /\ pc \in [Conns -> Labels]
    /\ req \in [Conns -> Request]
    /\ reply \in [Conns -> Response]
    /\ local \in [Conns -> Locals]
    /\ cleanup \in Cleanups
    /\ now \in Hours
    /\ restarts \in Seq(Hours) /\ Len(restarts) <= MaxRestarts

\* The list that finalizeUpload hands to S3 names every recorded chunk exactly
\* once, with the ETag it was recorded with, however handlers interleave.
PartsMatchReceived ==
    \A s \in Sessions :
        LET us == sess[s]
        IN  /\ {us.parts[k] : k \in DOMAIN us.parts}
                  = {[number |-> PartNumber(i), etag |-> us.received[i]] :
                        i \in Received(us)}
            /\ Len(us.parts) = Cardinality(Received(us))

\* An object exists only of an upload whose every declared chunk was recorded,
\* and it is made of exactly those chunks (finalizeUpload after IsComplete).
StoredObjectIsWhole ==
    IndexInRange =>
        \A s \in Sessions : IsStored(s3[s]) =>
            /\ Received(sess[s]) = 0 .. sess[s].totalChunks - 1
            /\ \A i \in ChunkIndexes :
                  s3[s].parts[PartNumber(i)] = sess[s].received[i]

\* "completed" and RESP_COMPLETE are only ever said of an upload that storage
\* has completed, whatever raced with or preceded finalizeUpload.
CompleteIsStored ==
    /\ \A s \in Sessions :
          sess[s].state = STATE_COMPLETED => IsStored(s3[s])
    /\ \A c \in Conns :
          reply[c].code = "RESP_COMPLETE" => IsStored(s3[req[c].sid])

\* A chunk in ReceivedChunks has been stored by S3: AddChunk runs after
\* UploadPart, and nothing removes the part while the upload is open.
RecordedPartsStored ==
    \A s \in Sessions : IsOpen(s3[s]) =>
        \A i \in Received(sess[s]) : s3[s].parts[PartNumber(i)] # NoChunk

\* The handler that sees the last chunk finalizes: RESP_CHUNK_ACK and
\* RESP_DUPLICATE report no more chunks than are recorded, and if clients number
\* them from 0 always fewer than there are, also when another handler adds
\* chunks between GetProgress and IsComplete.
AckIsPartial ==
    \A c \in Conns : reply[c].code \in {"RESP_CHUNK_ACK", "RESP_DUPLICATE"} =>
        LET us == sess[req[c].sid]
        IN  /\ reply[c].received <= GetProgress(us)
            /\ IndexInRange => reply[c].received < us.totalChunks

\* A resuming client can trust RESP_RESUMED: a chunk that is not listed as
\* missing is recorded, and the counts add up to no more than the total, also
\* when other handlers add chunks between the three calls of the handler.
ResumeReportsMissing ==
    \A c \in Conns : reply[c].code = "RESP_RESUMED" =>
        LET us == sess[req[c].sid]
            expected == 0 .. us.totalChunks - 1
        IN  /\ reply[c].missing \subseteq expected
            /\ expected \ reply[c].missing \subseteq Received(us)
            /\ IndexInRange => reply[c].received + Cardinality(reply[c].missing)
                                  <= us.totalChunks

\* RESP_CANCELLED means the session is gone and, unless S3 failed, that its
\* upload no longer holds storage; no handler in progress brings it back.  (One
\* that was finalizing may have completed the upload before it was aborted.)
CancelledIsGone ==
    \A c \in Conns : reply[c].code = "RESP_CANCELLED" =>
        /\ req[c].sid \notin sessions
        /\ Faults = {} => ~IsOpen(s3[req[c].sid])

\* Every open multipart upload can still be found and aborted by clean-up: its
\* session is in the table and has the upload id, or is just getting it.
NoOrphanedUpload ==
    \A s \in Sessions : IsOpen(s3[s]) =>
        /\ s \in sessions
        /\ \/ sess[s].uploadID
           \/ \E c \in Conns : pc[c] = "SetUploadID" /\ req[c].sid = s

\* "Clean up stale active sessions" (session_manager.go:131): when clean-up is
\* about to abort and delete a session, the session is stale; a request that
\* updates it in the meantime saves it.
VictimWasStale ==
    \A s \in cleanup.victim : sess[s].updatedAt + FINISHED_TIMEOUT < now

\* Storage and the record of a session change only at the hands of a request
\* of its owner or of clean-up.
OnlyOwnerChangesSession ==
    [][\A s \in Sessions : (sess'[s] # sess[s] \/ s3'[s] # s3[s]) =>
          \/ s \in cleanup.victim
          \/ \E c \in Conns : /\ pc[c] # "idle"
                             /\ req[c].sid = s
                             /\ req[c].user = sess'[s].user]_vars

\* The calls of handleUploadChunk after its check for a paused upload.
PastPausedCheck(c) ==
    \/ pc[c] \in {"ReadCancelled", "UploadPart", "AddChunk", "IsComplete",
                  "CompleteMultipartUpload", "SetCompleted", "SetFailed"}
    \/ pc[c] = "GetProgress" /\ req[c].cmd = "CMD_UPLOAD_CHUNK"

\* A paused session whose last chunks under way have come to their end.
AtRest(s) == /\ sess[s].state = STATE_PAUSED
             /\ \A c \in Conns : req[c].sid = s => ~PastPausedCheck(c)

\* A pause takes hold on all connections (server.go:268): once the chunks that
\* were past the check are done, the record of a paused session stays as it is
\* and no chunk gets past the check, until a request to resume or cancel.
PauseTakesHold ==
    [][\A s \in Sessions : AtRest(s) =>
          /\ sess'[s].received = sess[s].received
          /\ \/ AtRest(s)'
             \/ \E c \in Conns : req[c].sid = s /\ pc[c] \in {"Resume", "Cancel"}]_vars

\* "Upload is paused. Resume first." (server.go:269), as it reads: while a
\* session is paused no chunk is added to it.
PausedTakesNoChunk ==
    [][\A s \in Sessions : sess[s].state = STATE_PAUSED =>
          sess'[s].received = sess[s].received]_vars

\* A session that finished stays finished until it leaves the table.
CompletedIsFinal ==
    [][\A s \in sessions : sess[s].state = STATE_COMPLETED =>
          sess'[s].state \in {STATE_COMPLETED, STATE_CANCELLED}]_vars

\* "Failed to complete S3 upload" (server.go:509): a session is marked failed
\* only if its object was not stored.
FailedIsNotStored ==
    \A s \in Sessions : sess[s].state = STATE_FAILED => ~IsStored(s3[s])

\* "Check if upload is complete" (server.go:305): when S3 does not fail and
\* nobody cancels, an upload that has received every chunk does not fail.
NoFailureWithoutFault ==
    Faults = {} => \A s \in Sessions : sess[s].state # STATE_FAILED

\* "Duplicate chunk (already received)" (config.go:40): the answer to a chunk
\* that the session already has is not RESP_CHUNK_ACK; an acknowledged chunk
\* is the recorded one.
AckedIsRecorded ==
    \A c \in Conns : reply[c].code = "RESP_CHUNK_ACK" =>
        sess[req[c].sid].received[req[c].index] = req[c].content

\* Every request that was dispatched is answered.
RequestsAnswered == \A c \in Conns : pc[c] # "idle" ~> pc[c] = "idle"

\* Once clients are silent for long enough no session is left in memory and
\* no multipart upload is left open in storage.
UploadsReclaimed ==
    <>[](sessions = {} /\ \A s \in Sessions : ~IsOpen(s3[s]))

-----------------------------------------------------------------------------
(* Why the invariants hold.                                                *)

InitLabels == {"CreateSession", "CreateMultipartUpload", "SetUploadID"}

SessionLabels == Labels \ (InitLabels \cup {"idle"})

\* Labels only handleUploadChunk reaches, up to AddChunk.
ChunkLabels == {"ReadPaused", "ReadCancelled", "UploadPart", "AddChunk"}

\* What a handler relies on when it makes its next call.
HandlerInv(c) ==
    LET s == req[c].sid
    IN  /\ pc[c] = "CreateSession" =>
              /\ sess[s].state = STATE_NONE
              /\ req[c].total \in {r.totalChunks : r \in InitRequests}
        /\ pc[c] \in InitLabels \ {"CreateSession"} =>
              sess[s].state # STATE_NONE /\ ~sess[s].uploadID
        /\ pc[c] = "CreateMultipartUpload" => s3[s] = NoUpload
        /\ pc[c] \in SessionLabels => sess[s].uploadID
        /\ pc[c] \in ChunkLabels => req[c].cmd = "CMD_UPLOAD_CHUNK"
        /\ IndexInRange /\ pc[c] \in SessionLabels
              /\ req[c].cmd = "CMD_UPLOAD_CHUNK"
                 => req[c].index < sess[s].totalChunks
        /\ IndexInRange /\ pc[c] = "CompleteMultipartUpload"
                 => IsComplete(sess[s])
        /\ pc[c] = "AddChunk" /\ IsOpen(s3[s]) =>
              s3[s].parts[PartNumber(req[c].index)] # NoChunk
        /\ pc[c] = "SetCompleted" => IsStored(s3[s])

\* A session that is being created is in the hands of one handler.
Exclusive ==
    \A c, d \in Conns :
        c # d /\ pc[c] \in InitLabels /\ pc[d] # "idle" => req[c].sid # req[d].sid

SessionInv(s) ==
    /\ sess[s].state = STATE_NONE => s3[s] = NoUpload /\ ~sess[s].uploadID
    /\ ~sess[s].uploadID => Received(sess[s]) = {}
    /\ IndexInRange => Received(sess[s]) \subseteq 0 .. sess[s].totalChunks - 1

\* The inductive invariant of the proofs: finalizeUpload acts on a complete
\* session only because handlers hold the ids, the indexes and the uploads
\* that these conjuncts say.
InductiveInv ==
    /\ TypeOK
    /\ PartsMatchReceived
    /\ \A c \in Conns : HandlerInv(c)
    /\ Exclusive
    /\ \A s \in Sessions : SessionInv(s)
    /\ StoredObjectIsWhole
    /\ CompleteIsStored
    /\ RecordedPartsStored

-----------------------------------------------------------------------------
(* The server implements UploadService.                                    *)

Phase(mp) == CASE mp.status = "none"      -> "none"
               [] mp.status = "open"      -> "open"
               [] mp.status = "completed" -> "stored"
               [] mp.status = "aborted"   -> "dropped"

Object(mp) == [i \in ChunkIndexes |->
                  IF IsStored(mp) THEN mp.parts[PartNumber(i)] ELSE NoChunk]

Abstract == INSTANCE UploadService WITH
    Uploads  <- Sessions,
    phase    <- [s \in Sessions |-> Phase(s3[s])],
    Totals   <- {r.totalChunks : r \in InitRequests},
    total    <- [s \in Sessions |-> sess[s].totalChunks],
    recorded <- [s \in Sessions |-> sess[s].received],
    object   <- [s \in Sessions |-> Object(s3[s])]

\* The upload of a session goes through no step that UploadService does not
\* have, under races, S3 faults, clean-up and restarts.
ImplementsUploadService == Abstract!Spec
=============================================================================
