----------------------- MODULE FileUploadServerProofs -----------------------
(***************************************************************************)
(* Proofs about FileUploadServer for every value of its constants: its     *)
(* types, its list of parts, and InductiveInv with what follows from it: a *)
(* stored object is whole, "completed" means stored, and recorded chunks   *)
(* are in storage.                                                         *)
(***************************************************************************)
EXTENDS FileUploadServer, FiniteSetTheorems, TLAPS

-----------------------------------------------------------------------------
(* The methods of a session keep its type.                                 *)

\* The set of received indexes is finite, so its size is a number.
LEMMA ReceivedFinite ==
    ASSUME NEW us \in Session
    PROVE  /\ IsFiniteSet(Received(us))
           /\ GetProgress(us) \in Nat
<1>1. Received(us) \subseteq ChunkIndexes
  BY DEF Received
<1>2. IsFiniteSet(Received(us))
  BY <1>1, ChunkIndexesAssumption, FS_Subset
<1> QED
  BY <1>2, FS_CardinalityType DEF GetProgress

\* AddChunk and the state changes return sessions.
LEMMA AddChunkType ==
    ASSUME NEW us \in Session, NEW i \in ChunkIndexes, NEW d \in Contents,
           NEW t \in Nat
    PROVE  AddChunk(us, i, d, t) \in Session
<1>1. [number |-> PartNumber(i), etag |-> d] \in CompletedPart
  BY DEF CompletedPart, PartNumbers
<1>2. Append(us.parts, [number |-> PartNumber(i), etag |-> d]) \in Seq(CompletedPart)
  BY <1>1 DEF Session
<1>3. [us.received EXCEPT ![i] = d] \in Chunks
  BY DEF Session, Chunks
<1> QED
  BY <1>2, <1>3 DEF AddChunk, Session, States, STATE_UPLOADING

\* Pause, Resume, Cancel and the assignments that server.go makes to fields of
\* a session give sessions again.
LEMMA StateChangeType ==
    ASSUME NEW us \in Session, NEW t \in Nat
    PROVE  /\ Pause(us, t) \in Session
           /\ Resume(us, t) \in Session
           /\ Cancel(us, t) \in Session
           /\ [us EXCEPT !.uploadID = TRUE] \in Session
           /\ [us EXCEPT !.state = STATE_FAILED] \in Session
           /\ [us EXCEPT !.state = STATE_COMPLETED, !.updatedAt = t] \in Session
  BY DEF Session, Pause, Resume, Cancel, States, STATE_PAUSED, STATE_UPLOADING,
         STATE_CANCELLED, STATE_COMPLETED, STATE_FAILED

\* So do the unused record and CreateSession.
LEMMA NewSessionType ==
    /\ NoSession \in Session
    /\ \A u \in Users, n, t \in Nat : NewSession(u, n, t) \in Session
  BY DEF NoSession, NewSession, Session, Chunks, States, STATE_NONE,
         STATE_INITIALIZED

\* So do the operations of storage.
LEMMA UploadType ==
    /\ NoUpload \in Upload
    /\ \A mp \in Upload :
          /\ Created(mp) \in Upload
          /\ Aborted(mp) \in Upload
          /\ \A list : Completed(mp, list) \in Upload
          /\ \A i \in ChunkIndexes, d \in Contents :
                WithPart(mp, PartNumber(i), d) \in Upload
  BY DEF Upload, NoUpload, NoParts, Created, Aborted, Completed, WithPart,
         PartNumbers

-----------------------------------------------------------------------------
(* Type correctness.                                                       *)

\* The placeholder request of an idle connection is a request.
LEMMA NoRequestType == NoRequest \in Request
  BY ServerAssumption DEF NoRequest, Request, Commands

\* The requests that OnTraffic dispatches.
LEMMA RequestType ==
    ASSUME NEW cmd \in Commands, NEW u \in Users \cup {NoUser}, NEW s \in Sessions
    PROVE  /\ [NoRequest EXCEPT !.cmd = cmd, !.user = u, !.sid = s] \in Request
           /\ \A n \in Nat :
                 [NoRequest EXCEPT !.cmd = cmd, !.user = u, !.sid = s, !.total = n]
                    \in Request
           /\ \A i \in ChunkIndexes, d \in Contents :
                 [NoRequest EXCEPT !.cmd = cmd, !.user = u, !.sid = s, !.index = i,
                                   !.content = d] \in Request
<1> DEFINE r == NoRequest
<1>1. r \in Request
  BY NoRequestType
<1> HIDE DEF r
<1>2. [r EXCEPT !.cmd = cmd, !.user = u, !.sid = s] \in Request
  BY <1>1 DEF Request
<1>3. \A n \in Nat :
         [r EXCEPT !.cmd = cmd, !.user = u, !.sid = s, !.total = n] \in Request
  BY <1>1 DEF Request
<1>4. \A i \in ChunkIndexes, d \in Contents :
         [r EXCEPT !.cmd = cmd, !.user = u, !.sid = s, !.index = i, !.content = d]
            \in Request
  BY <1>1 DEF Request
<1> QED
  BY <1>2, <1>3, <1>4 DEF r

\* The server starts well typed.
LEMMA InitTypeOK == Init => TypeOK
<1> SUFFICES ASSUME Init PROVE TypeOK
  OBVIOUS
<1>1. sess \in [Sessions -> Session] /\ s3 \in [Sessions -> Upload]
  BY NewSessionType, UploadType DEF Init
<1>2. req \in [Conns -> Request]
  BY NoRequestType DEF Init
<1>3. cleanup \in Cleanups /\ now \in Hours /\ restarts \in Seq(Hours)
     /\ Len(restarts) <= MaxRestarts
  BY ServerAssumption DEF Init, NoCleanup, Cleanups, Hours
<1> QED
  BY <1>1, <1>2, <1>3 DEF Init, TypeOK, Labels, NoReply, Response, NoLocals, Locals

\* What a request arriving on an idle connection can change.
LEMMA ReceiveTypeOK ==
    ASSUME TypeOK, NEW c \in Conns, Receive(c)
    PROVE  TypeOK'
<1>1. ASSUME NEW r \in Request, NEW l \in Labels, Dispatch(c, r, l)
      PROVE  TypeOK'
  BY <1>1 DEF TypeOK, Dispatch, NoReply, Response, NoLocals, Locals
<1>2. ASSUME NEW code \in ResponseCodes, Refuse(c, code)
      PROVE  TypeOK'
  BY <1>2, NoRequestType DEF TypeOK, Refuse, Answer, Response, NoLocals, Locals, Labels
<1>3. ASSUME NEW t \in Tokens PROVE TokenUser[t] \in Users \cup {NoUser}
  BY ServerAssumption
<1>4. CASE AuthFailed(c)
  BY <1>4, <1>2 DEF AuthFailed, ResponseCodes
<1>5. CASE Malformed(c)
  BY <1>5, <1>2 DEF Malformed, ResponseCodes
<1>6. ASSUME NEW t \in Tokens, NEW r \in InitRequests, InitUpload(c, r, t)
      PROVE  TypeOK'
  <2>1. CASE ValidInit(r)
    <3> DEFINE Req(s) == [NoRequest EXCEPT !.cmd = "CMD_INIT_UPLOAD",
                                           !.user = TokenUser[t], !.sid = s,
                                           !.total = r.totalChunks]
    <3>1. PICK s \in Sessions : Dispatch(c, Req(s), "CreateSession")
      BY <1>6, <2>1 DEF InitUpload
    <3>2. r.totalChunks \in Nat /\ "CMD_INIT_UPLOAD" \in Commands
      BY ServerAssumption DEF InitRequest, Commands
    <3>3. Req(s) \in Request
      BY <3>2, <1>3, RequestType
    <3> HIDE DEF Req
    <3> QED
      BY <3>1, <3>3, <1>1 DEF Labels
  <2>2. CASE ~ValidInit(r)
    BY <1>6, <2>2, <1>2 DEF InitUpload, ResponseCodes
  <2> QED
    BY <2>1, <2>2
<1>7. ASSUME NEW t \in Tokens, NEW s \in Sessions, NEW cmd \in SessionCommands,
             SessionRequest(c, cmd, s, t)
      PROVE  TypeOK'
  <2> DEFINE q == [NoRequest EXCEPT !.cmd = cmd, !.user = TokenUser[t], !.sid = s]
  <2>1. q \in Request
    BY <1>3, RequestType DEF SessionCommands
  <2>2. Dispatch(c, q, "GetSession")
    BY <1>7 DEF SessionRequest
  <2> HIDE DEF q
  <2> QED
    BY <2>1, <2>2, <1>1 DEF Labels
<1>8. ASSUME NEW t \in Tokens, NEW s \in Sessions, NEW i \in ChunkIndexes,
             NEW d \in Contents, UploadChunk(c, s, t, i, d)
      PROVE  TypeOK'
  <2> DEFINE q == [NoRequest EXCEPT !.cmd = "CMD_UPLOAD_CHUNK",
                                    !.user = TokenUser[t], !.sid = s,
                                    !.index = i, !.content = d]
  <2>1. q \in Request
    BY <1>3, RequestType DEF Commands
  <2>2. Dispatch(c, q, "GetSession")
    BY <1>8 DEF UploadChunk
  <2> HIDE DEF q
  <2> QED
    BY <2>1, <2>2, <1>1 DEF Labels
<1> QED
  BY <1>4, <1>5, <1>6, <1>7, <1>8 DEF Receive

\* S3 calls keep the type of storage.
LEMMA S3CallType ==
    ASSUME s3 \in [Sessions -> Upload], NEW s \in Sessions, NEW allowed,
           NEW mp \in Upload, S3Succeeds(s, allowed, mp) \/ S3Fails(s, allowed, mp)
    PROVE  s3' \in [Sessions -> Upload]
  BY DEF S3Succeeds, S3Fails

\* A handler's step leaves its request alone, and goes to another label or
\* answers.
LEMMA ControlType ==
    ASSUME TypeOK, NEW c \in Conns
    PROVE  /\ \A label \in Labels : Goto(c, label) =>
                 pc' \in [Conns -> Labels] /\ reply' \in [Conns -> Response]
           /\ \A code \in ResponseCodes, n \in Nat, missing \in SUBSET Nat :
                 Answer(c, code, n, missing) =>
                 pc' \in [Conns -> Labels] /\ reply' \in [Conns -> Response]
<1>1. \A label \in Labels : Goto(c, label) =>
         pc' \in [Conns -> Labels] /\ reply' \in [Conns -> Response]
  BY DEF TypeOK, Goto
<1>2. ASSUME NEW code \in ResponseCodes, NEW n \in Nat, NEW missing \in SUBSET Nat,
             Answer(c, code, n, missing)
      PROVE  pc' \in [Conns -> Labels] /\ reply' \in [Conns -> Response]
  <2>1. [code |-> code, received |-> n, missing |-> missing] \in Response
    BY DEF Response
  <2>2. "idle" \in Labels
    BY DEF Labels
  <2> QED
    BY <1>2, <2>1, <2>2 DEF TypeOK, Answer
<1> QED
  BY <1>1, <1>2

\* An error answer is an answer.
LEMMA AnswerErrorType ==
    ASSUME TypeOK, NEW c \in Conns, AnswerError(c)
    PROVE  pc' \in [Conns -> Labels] /\ reply' \in [Conns -> Response]
<1>1. "RESP_ERROR" \in ResponseCodes
  BY DEF ResponseCodes
<1> QED
  BY <1>1, ControlType DEF AnswerError

\* Each call of a handler keeps every type.
LEMMA HandlerTypeOK ==
    ASSUME TypeOK, NEW c \in Conns, HandlerStep(c)
    PROVE  TypeOK'
<1> DEFINE s == req[c].sid
           Control == pc' \in [Conns -> Labels] /\ reply' \in [Conns -> Response]
<1>1. /\ s \in Sessions /\ sess[s] \in Session /\ s3[s] \in Upload
      /\ req[c].index \in ChunkIndexes /\ req[c].content \in Contents
      /\ now \in Nat
  BY DEF TypeOK, Request, Hours
<1>2. ASSUME NEW label \in Labels, Goto(c, label) PROVE Control
  BY <1>2, ControlType
<1>3. ASSUME NEW code \in ResponseCodes, NEW n \in Nat, NEW missing \in SUBSET Nat,
             Answer(c, code, n, missing)
      PROVE  Control
  BY <1>3, ControlType
<1>4. AnswerError(c) => Control
  BY AnswerErrorType
<1>5. ASSUME NEW us \in Session, Update(s, us) PROVE sess' \in [Sessions -> Session]
  BY <1>1, <1>5 DEF TypeOK, Update
<1>6. ASSUME NEW allowed, NEW mp \in Upload,
             S3Succeeds(s, allowed, mp) \/ S3Fails(s, allowed, mp)
      PROVE  s3' \in [Sessions -> Upload]
  BY <1>1, <1>6, S3CallType DEF TypeOK
<1> HIDE DEF Control, s
<1>10. CASE CreateSession(c)
  <2>1. NewSession(req[c].user, req[c].total, now) \in Session
    BY <1>1 DEF TypeOK, Request, NewSession, Session, Chunks, States, STATE_INITIALIZED
  <2>2. sess' \in [Sessions -> Session]
    BY <1>10, <2>1, <1>5 DEF CreateSession, s
  <2>3. Control
    BY <1>10, <1>2 DEF CreateSession, Labels
  <2> QED
    BY <1>10, <2>2, <2>3, <1>1 DEF CreateSession, TypeOK, Control, s
<1>11. CASE GetSession(c)
  <2>1. FirstCall(req[c].cmd) \in Labels
    BY DEF FirstCall, Labels
  <2>2. Control
    BY <1>11, <2>1, <1>2, <1>4 DEF GetSession
  <2> QED
    BY <1>11, <2>2 DEF GetSession, TypeOK, Control
<1>12. CASE DeleteSession(c)
  <2>1. Control
    BY <1>12, <1>3 DEF DeleteSession, ResponseCodes
  <2> QED
    BY <1>12, <2>1 DEF DeleteSession, TypeOK, Control
<1>13. CASE CreateMultipartUpload(c)
  <2>1. s3' \in [Sessions -> Upload]
    BY <1>13, <1>1, <1>6, UploadType DEF CreateMultipartUpload, s
  <2>2. Control
    BY <1>13, <1>2, <1>4 DEF CreateMultipartUpload, Labels
  <2> QED
    BY <1>13, <2>1, <2>2 DEF CreateMultipartUpload, TypeOK, Control
<1>14. CASE SetUploadID(c)
  <2>1. sess' \in [Sessions -> Session]
    BY <1>14, <1>1, <1>5, StateChangeType DEF SetUploadID, s
  <2>2. Control
    BY <1>14, <1>3 DEF SetUploadID, ResponseCodes
  <2> QED
    BY <1>14, <2>1, <2>2 DEF SetUploadID, TypeOK, Control
<1>15. CASE ReadPaused(c)
  <2>1. Control
    BY <1>15, <1>2, <1>4 DEF ReadPaused, Labels
  <2> QED
    BY <1>15, <2>1 DEF ReadPaused, TypeOK, Control
<1>16. CASE ReadCancelled(c)
  <2>1. Control
    BY <1>16, <1>2, <1>4 DEF ReadCancelled, Labels
  <2> QED
    BY <1>16, <2>1 DEF ReadCancelled, TypeOK, Control
<1>17. CASE UploadPart(c)
  <2>1. s3' \in [Sessions -> Upload]
    BY <1>17, <1>1, <1>6, UploadType DEF UploadPart, s
  <2>2. Control
    BY <1>17, <1>2, <1>4 DEF UploadPart, Labels
  <2> QED
    BY <1>17, <2>1, <2>2 DEF UploadPart, TypeOK, Control
<1>18. CASE AddChunkCall(c)
  <2>1. sess' \in [Sessions -> Session]
    BY <1>18, <1>1, <1>5, AddChunkType DEF AddChunkCall, s
  <2>2. Control
    BY <1>18, <1>2 DEF AddChunkCall, Labels
  <2>3. local' \in [Conns -> Locals]
    <3> DEFINE known == IsDuplicate(sess[s], req[c].index, req[c].content)
    <3>1. known \in BOOLEAN /\ local' = [local EXCEPT ![c].duplicate = known]
      BY <1>18 DEF AddChunkCall, IsDuplicate, s
    <3> HIDE DEF known
    <3> QED
      BY <3>1 DEF TypeOK, Locals
  <2> QED
    BY <1>18, <2>1, <2>2, <2>3 DEF AddChunkCall, TypeOK, Control
<1>19. CASE GetProgressCall(c)
  <2>1. GetProgress(sess[req[c].sid]) \in Nat
    BY <1>1, ReceivedFinite DEF s
  <2>2. Control
    BY <1>19, <2>1, <1>2, <1>3 DEF GetProgressCall, Labels, ResponseCodes
  <2>3. local' \in [Conns -> Locals]
    BY <1>19, <2>1 DEF GetProgressCall, TypeOK, Locals
  <2> QED
    BY <1>19, <2>2, <2>3 DEF GetProgressCall, TypeOK, Control
<1>20. CASE IsCompleteCall(c)
  <2>1. local[c].received \in Nat
    BY DEF TypeOK, Locals
  <2>2. Control
    BY <1>20, <2>1, <1>2, <1>3 DEF IsCompleteCall, Labels, ResponseCodes
  <2> QED
    BY <1>20, <2>2 DEF IsCompleteCall, TypeOK, Control
<1>21. CASE CompleteMultipartUpload(c)
  <2>1. s3' \in [Sessions -> Upload]
    BY <1>21, <1>1, <1>6, UploadType DEF CompleteMultipartUpload, s
  <2>2. Control
    BY <1>21, <1>2 DEF CompleteMultipartUpload, Labels
  <2> QED
    BY <1>21, <2>1, <2>2 DEF CompleteMultipartUpload, TypeOK, Control
<1>22. CASE SetCompleted(c)
  <2>1. sess' \in [Sessions -> Session]
    BY <1>22, <1>1, <1>5, StateChangeType DEF SetCompleted, s
  <2>2. Control
    BY <1>22, <1>3 DEF SetCompleted, ResponseCodes
  <2> QED
    BY <1>22, <2>1, <2>2 DEF SetCompleted, TypeOK, Control
<1>23. CASE SetFailed(c)
  <2>1. sess' \in [Sessions -> Session]
    BY <1>23, <1>1, <1>5, StateChangeType DEF SetFailed, s
  <2>2. Control
    BY <1>23, <1>4 DEF SetFailed
  <2> QED
    BY <1>23, <2>1, <2>2 DEF SetFailed, TypeOK, Control
<1>24. CASE PauseCall(c)
  <2>1. sess' \in [Sessions -> Session]
    BY <1>24, <1>1, <1>5, StateChangeType DEF PauseCall, s
  <2>2. Control
    BY <1>24, <1>2 DEF PauseCall, Labels
  <2> QED
    BY <1>24, <2>1, <2>2 DEF PauseCall, TypeOK, Control
<1>25. CASE ReadState(c)
  <2>1. Control
    BY <1>25, <1>2, <1>4 DEF ReadState, Labels
  <2> QED
    BY <1>25, <2>1 DEF ReadState, TypeOK, Control
<1>26. CASE ResumeCall(c)
  <2>1. sess' \in [Sessions -> Session]
    BY <1>26, <1>1, <1>5, StateChangeType DEF ResumeCall, s
  <2>2. Control
    BY <1>26, <1>2 DEF ResumeCall, Labels
  <2> QED
    BY <1>26, <2>1, <2>2 DEF ResumeCall, TypeOK, Control
<1>27. CASE GetMissingChunksCall(c)
  <2>1. GetMissingChunks(sess[req[c].sid]) \in SUBSET Nat
    BY <1>1 DEF GetMissingChunks, s, Session
  <2>2. local[c].received \in Nat
    BY DEF TypeOK, Locals
  <2>3. Control
    BY <1>27, <2>1, <2>2, <1>3 DEF GetMissingChunksCall, ResponseCodes
  <2> QED
    BY <1>27, <2>3 DEF GetMissingChunksCall, TypeOK, Control
<1>28. CASE CancelCall(c)
  <2>1. sess' \in [Sessions -> Session]
    BY <1>28, <1>1, <1>5, StateChangeType DEF CancelCall, s
  <2>2. Control
    BY <1>28, <1>2 DEF CancelCall, Labels
  <2> QED
    BY <1>28, <2>1, <2>2 DEF CancelCall, TypeOK, Control
<1>29. CASE AbortMultipartUpload(c)
  <2>1. s3' \in [Sessions -> Upload]
    BY <1>29, <1>1, <1>6, UploadType DEF AbortMultipartUpload, AbortUpload, s
  <2>2. Control
    BY <1>29, <1>2 DEF AbortMultipartUpload, Labels
  <2> QED
    BY <1>29, <2>1, <2>2 DEF AbortMultipartUpload, TypeOK, Control
<1> QED
  BY <1>10, <1>11, <1>12, <1>13, <1>14, <1>15, <1>16, <1>17, <1>18, <1>19, <1>20,
     <1>21, <1>22, <1>23, <1>24, <1>25, <1>26, <1>27, <1>28, <1>29
     DEF HandlerStep, LockStep, FreeStep

\* So does each step of cleanupLoop.
LEMMA CleanupTypeOK == TypeOK /\ Cleanup => TypeOK'
<1> SUFFICES ASSUME TypeOK, Cleanup PROVE TypeOK'
  OBVIOUS
<1>1. CASE CleanupTick
  BY <1>1 DEF CleanupTick, TypeOK, Cleanups
<1>2. ASSUME NEW s \in Sessions, CleanupVisit(s) PROVE TypeOK'
  BY <1>2 DEF CleanupVisit, TypeOK, Cleanups
<1>3. ASSUME NEW s \in Sessions, CleanupReap(s) PROVE TypeOK'
  <2>1. s3' \in [Sessions -> Upload]
    BY <1>3, S3CallType, UploadType DEF CleanupReap, AbortUpload, TypeOK
  <2> QED
    BY <1>3, <2>1 DEF CleanupReap, TypeOK, Cleanups
<1>4. CASE CleanupDone
  <2>1. NoCleanup \in Cleanups
    BY ServerAssumption DEF NoCleanup, Cleanups, Hours
  <2> QED
    BY <1>4, <2>1 DEF CleanupDone, TypeOK
<1> QED
  BY <1>1, <1>2, <1>3, <1>4 DEF Cleanup

\* TypeOK is inductive by itself: no step of the server leaves the types.
LEMMA NextTypeOK == TypeOK /\ [Next]_vars => TypeOK'
<1> SUFFICES ASSUME TypeOK, [Next]_vars PROVE TypeOK'
  OBVIOUS
<1>1. ASSUME NEW c \in Conns, Receive(c) \/ HandlerStep(c) PROVE TypeOK'
  BY <1>1, ReceiveTypeOK, HandlerTypeOK
<1>2. CASE Cleanup
  BY <1>2, CleanupTypeOK
<1>3. CASE Tick
  <2>1. now' \in Hours
    BY <1>3, ServerAssumption DEF Tick, TypeOK, Hours
  <2>2. ASSUME NEW c \in Conns
        PROVE  [local[c] EXCEPT !.spans = PromptHandlers /\ pc[c] # "idle"] \in Locals
    <3> DEFINE b == PromptHandlers /\ pc[c] # "idle"
    <3>1. b \in BOOLEAN
      OBVIOUS
    <3> HIDE DEF b
    <3>2. [local[c] EXCEPT !.spans = b] \in Locals
      BY <3>1 DEF TypeOK, Locals
    <3> QED
      BY <3>2 DEF b
  <2>3. local' \in [Conns -> Locals]
    BY <1>3, <2>2, Zenon DEF Tick
  <2> QED
    BY <1>3, <2>1, <2>3 DEF Tick, TypeOK
<1>4. CASE Restart
  <2>1. NoCleanup \in Cleanups
    BY ServerAssumption DEF NoCleanup, Cleanups, Hours
  <2>2. req' \in [Conns -> Request]
    BY <1>4, NoRequestType DEF Restart
  <2> QED
    BY <1>4, <2>1, <2>2, ServerAssumption
       DEF Restart, TypeOK, Labels, NoReply, Response, NoLocals, Locals
<1>5. CASE UNCHANGED vars
  BY <1>5 DEF vars, TypeOK
<1> QED
  BY <1>1, <1>2, <1>3, <1>4, <1>5 DEF Next

\* Every variable keeps its type, whatever the constants.
THEOREM TypeCorrect == Spec => []TypeOK
  BY InitTypeOK, NextTypeOK, PTL DEF Spec

-----------------------------------------------------------------------------
(* The list of completed parts.                                            *)

\* What PartsMatchReceived says of one session.
PartsMatch(us) ==
    /\ {us.parts[k] : k \in DOMAIN us.parts}
          = {[number |-> PartNumber(i), etag |-> us.received[i]] : i \in Received(us)}
    /\ Len(us.parts) = Cardinality(Received(us))

\* Appending adds one element to the range of a sequence.
LEMMA AppendRange ==
    ASSUME NEW S, NEW seq \in Seq(S), NEW e \in S
    PROVE  /\ {Append(seq, e)[k] : k \in DOMAIN Append(seq, e)}
                 = {seq[k] : k \in DOMAIN seq} \cup {e}
           /\ Len(Append(seq, e)) = Len(seq) + 1
<1> DEFINE longer == Append(seq, e)
<1>1. /\ Len(seq) \in Nat /\ DOMAIN seq = 1 .. Len(seq)
      /\ Len(longer) = Len(seq) + 1 /\ DOMAIN longer = 1 .. Len(seq) + 1
      /\ longer[Len(seq) + 1] = e
      /\ \A k \in 1 .. Len(seq) : longer[k] = seq[k]
  OBVIOUS
<1> HIDE DEF longer
<1>2. 1 .. Len(seq) + 1 = (1 .. Len(seq)) \cup {Len(seq) + 1}
  BY <1>1
<1>3. {longer[k] : k \in DOMAIN longer} = {seq[k] : k \in DOMAIN seq} \cup {e}
  BY <1>1, <1>2
<1> QED
  BY <1>1, <1>3 DEF longer

\* AddChunk appends a part exactly when it records a chunk, so the list keeps
\* matching the map.
LEMMA AddChunkPartsMatch ==
    ASSUME NEW us \in Session, NEW i \in ChunkIndexes, NEW d \in Contents,
           NEW t \in Nat, PartsMatch(us)
    PROVE  PartsMatch(AddChunk(us, i, d, t))
<1>1. CASE us.received[i] # NoChunk
  BY <1>1 DEF AddChunk
<1>2. CASE us.received[i] = NoChunk
  <2> DEFINE new == AddChunk(us, i, d, t)
             part == [number |-> PartNumber(i), etag |-> d]
  <2>1. /\ new.received = [us.received EXCEPT ![i] = d]
        /\ new.parts = Append(us.parts, part)
    BY <1>2 DEF AddChunk, Session
  <2>2. us.received \in Chunks /\ us.parts \in Seq(CompletedPart)
    BY DEF Session
  <2>3. /\ new.received[i] = d /\ d # NoChunk
        /\ \A j \in ChunkIndexes \ {i} : new.received[j] = us.received[j]
    BY <2>1, <2>2, NoChunkAssumption DEF Chunks
  <2>4. Received(new) = Received(us) \cup {i} /\ i \notin Received(us)
    BY <1>2, <2>3 DEF Received
  <2>5. part \in CompletedPart
    BY DEF CompletedPart, PartNumbers
  <2> HIDE DEF new
  <2>6. /\ {new.parts[k] : k \in DOMAIN new.parts}
             = {us.parts[k] : k \in DOMAIN us.parts} \cup {part}
        /\ Len(new.parts) = Len(us.parts) + 1
    <3> DEFINE seq == us.parts
    <3>1. seq \in Seq(CompletedPart)
      BY <2>2
    <3> HIDE DEF part, seq
    <3>2. /\ {Append(seq, part)[k] : k \in DOMAIN Append(seq, part)}
               = {seq[k] : k \in DOMAIN seq} \cup {part}
          /\ Len(Append(seq, part)) = Len(seq) + 1
      BY <2>5, <3>1, AppendRange
    <3>3. new.parts = Append(seq, part)
      BY <2>1 DEF seq
    <3> QED
      BY <3>2, <3>3 DEF seq
  <2>7. {[number |-> PartNumber(j), etag |-> new.received[j]] : j \in Received(new)}
          = {[number |-> PartNumber(j), etag |-> us.received[j]] : j \in Received(us)}
              \cup {part}
    <3>1. \A j \in Received(us) : new.received[j] = us.received[j]
      BY <2>3, <2>4 DEF Received
    <3> QED
      BY <3>1, <2>3, <2>4
  <2>8. Cardinality(Received(new)) = Cardinality(Received(us)) + 1
    BY <2>4, ReceivedFinite, FS_AddElement
  <2> QED
    BY <2>6, <2>7, <2>8 DEF PartsMatch, new
<1> QED
  BY <1>1, <1>2

\* A session without chunks has an empty list.
LEMMA NoPartsMatch ==
    ASSUME NEW us \in Session, us.parts = <<>>,
           us.received = [i \in ChunkIndexes |-> NoChunk]
    PROVE  PartsMatch(us)
<1>1. Received(us) = {}
  BY DEF Received
<1> QED
  BY <1>1, FS_EmptySet DEF PartsMatch

\* How one step can change the chunks of a session.
ChunksKept(s) == /\ sess'[s].received = sess[s].received
                 /\ sess'[s].parts = sess[s].parts
                 /\ sess'[s].totalChunks = sess[s].totalChunks

\* Only AddChunk and CreateSession touch the chunks of a session.
LEMMA ChunksStep ==
    ASSUME TypeOK, [Next]_vars, NEW s \in Sessions
    PROVE  \/ ChunksKept(s)
           \/ \E c \in Conns : AddChunkCall(c) /\ req[c].sid = s
           \/ \E c \in Conns : CreateSession(c) /\ req[c].sid = s
<1> SUFFICES ASSUME ~\E c \in Conns : AddChunkCall(c) /\ req[c].sid = s,
                    ~\E c \in Conns : CreateSession(c) /\ req[c].sid = s
             PROVE  ChunksKept(s)
  OBVIOUS
<1>1. sess \in [Sessions -> Session]
  BY DEF TypeOK
<1>2. ASSUME UNCHANGED sess PROVE ChunksKept(s)
  BY <1>2 DEF ChunksKept
<1>3. ASSUME NEW r \in Sessions, NEW us,
             us.received = sess[r].received, us.parts = sess[r].parts,
             us.totalChunks = sess[r].totalChunks, Update(r, us)
      PROVE  ChunksKept(s)
  BY <1>1, <1>3 DEF ChunksKept, Update
<1>4. ASSUME NEW c \in Conns, HandlerStep(c) PROVE ChunksKept(s)
  <2>1. req[c].sid \in Sessions
    BY DEF TypeOK, Request
  <2> DEFINE r == req[c].sid
             us == sess[r]
  <2>2. us \in Session
    BY <1>1, <2>1
  <2>3. CASE CreateSession(c)
    BY <2>3, <2>1, <1>1 DEF CreateSession, Update, ChunksKept
  <2>4. CASE AddChunkCall(c)
    BY <2>4, <2>1, <1>1 DEF AddChunkCall, Update, ChunksKept
  <2>5. CASE SetUploadID(c)
    BY <2>5, <2>1, <2>2, <1>3 DEF SetUploadID, Session
  <2>6. CASE SetCompleted(c)
    BY <2>6, <2>1, <2>2, <1>3 DEF SetCompleted, Session
  <2>7. CASE SetFailed(c)
    BY <2>7, <2>1, <2>2, <1>3 DEF SetFailed, Session
  <2>8. CASE PauseCall(c)
    BY <2>8, <2>1, <2>2, <1>3 DEF PauseCall, Pause, Session
  <2>9. CASE ResumeCall(c)
    BY <2>9, <2>1, <2>2, <1>3 DEF ResumeCall, Resume, Session
  <2>10. CASE CancelCall(c)
    BY <2>10, <2>1, <2>2, <1>3 DEF CancelCall, Cancel, Session
  <2>11. CASE \/ GetSession(c) \/ DeleteSession(c) \/ CreateMultipartUpload(c)
              \/ ReadPaused(c) \/ ReadCancelled(c) \/ UploadPart(c)
              \/ GetProgressCall(c) \/ IsCompleteCall(c)
              \/ CompleteMultipartUpload(c) \/ ReadState(c)
              \/ GetMissingChunksCall(c) \/ AbortMultipartUpload(c)
    BY <2>11, <1>2 DEF GetSession, DeleteSession, CreateMultipartUpload, ReadPaused,
         ReadCancelled, UploadPart, GetProgressCall, IsCompleteCall,
         CompleteMultipartUpload, ReadState, GetMissingChunksCall,
         AbortMultipartUpload
  <2> QED
    BY <1>4, <2>3, <2>4, <2>5, <2>6, <2>7, <2>8, <2>9, <2>10, <2>11
       DEF HandlerStep, LockStep, FreeStep
<1>5. ASSUME NEW c \in Conns, Receive(c) PROVE ChunksKept(s)
  BY <1>5, <1>2 DEF Receive, AuthFailed, Malformed, InitUpload, SessionRequest,
                    UploadChunk, Dispatch, Refuse
<1>6. CASE Cleanup \/ Tick \/ Restart \/ UNCHANGED vars
  BY <1>6, <1>2 DEF Cleanup, CleanupTick, CleanupVisit, CleanupReap, CleanupDone,
                    Tick, Restart, vars
<1> QED
  BY <1>4, <1>5, <1>6 DEF Next

\* No step of the server makes CompletedParts and ReceivedChunks disagree.
LEMMA PartsMatchStep ==
    TypeOK /\ PartsMatchReceived /\ [Next]_vars => PartsMatchReceived'
<1> SUFFICES ASSUME TypeOK, PartsMatchReceived, [Next]_vars, NEW s \in Sessions
             PROVE  PartsMatch(sess'[s])
  BY DEF PartsMatchReceived, PartsMatch, Received
<1>1. sess \in [Sessions -> Session] /\ now \in Nat
  BY DEF TypeOK, Hours
<1>2. PartsMatch(sess[s])
  BY DEF PartsMatchReceived, PartsMatch
<1>3. CASE ChunksKept(s)
  BY <1>2, <1>3 DEF ChunksKept, PartsMatch, Received
<1>4. ASSUME NEW c \in Conns, AddChunkCall(c), req[c].sid = s
      PROVE  PartsMatch(sess'[s])
  <2>1. req[c].index \in ChunkIndexes /\ req[c].content \in Contents
    BY DEF TypeOK, Request
  <2>2. sess'[s] = AddChunk(sess[s], req[c].index, req[c].content, now)
    BY <1>1, <1>4 DEF AddChunkCall, Update
  <2> QED
    BY <1>1, <1>2, <2>1, <2>2, AddChunkPartsMatch
<1>5. ASSUME NEW c \in Conns, CreateSession(c), req[c].sid = s
      PROVE  PartsMatch(sess'[s])
  <2>1. sess'[s] = NewSession(req[c].user, req[c].total, now)
    BY <1>1, <1>5 DEF CreateSession, Update
  <2>2. sess'[s] \in Session
    BY NextTypeOK DEF TypeOK
  <2> QED
    BY <2>1, <2>2, NoPartsMatch DEF NewSession
<1> QED
  BY <1>3, <1>4, <1>5, ChunksStep

\* However handlers interleave, what finalizeUpload hands to S3 lists every
\* recorded chunk exactly once, with the ETag it was recorded with.
THEOREM PartsAlwaysMatchReceived == Spec => []PartsMatchReceived
<1>1. Init => PartsMatchReceived
  <2> SUFFICES ASSUME Init, NEW s \in Sessions PROVE PartsMatch(sess[s])
    BY DEF PartsMatchReceived, PartsMatch
  <2>1. sess[s] = NoSession /\ sess[s] \in Session
    BY NewSessionType DEF Init
  <2> QED
    BY <2>1, NoPartsMatch DEF NoSession
<1> QED
  BY <1>1, TypeCorrect, PartsMatchStep, PTL DEF Spec

-----------------------------------------------------------------------------
(* How one step can change the upload of a session.                        *)

S3Kept(s) == s3'[s] = s3[s]

\* The four calls, each made by a handler for the session of its request
\* (an abort by clean-up, too), and only on an open upload but for the first.
CreatesUpload(c, s) == /\ pc[c] = "CreateMultipartUpload" /\ req[c].sid = s
                       /\ s3'[s] = Created(s3[s])

StoresPart(c, s) == /\ pc[c] = "UploadPart" /\ req[c].sid = s
                    /\ IsOpen(s3[s])
                    /\ s3'[s] = WithPart(s3[s], PartNumber(req[c].index),
                                         req[c].content)

CompletesUpload(c, s) == /\ pc[c] = "CompleteMultipartUpload" /\ req[c].sid = s
                         /\ Completable(s3[s], sess[s].parts)
                         /\ s3'[s] = Completed(s3[s], sess[s].parts)

AbortsUpload(s) == IsOpen(s3[s]) /\ s3'[s] = Aborted(s3[s])

\* A call that succeeds, or fails with or without effect, changes nothing or
\* has its effect, and has it only if storage accepts the call.
LEMMA S3Call ==
    ASSUME s3 \in [Sessions -> Upload], NEW r \in Sessions, NEW s \in Sessions,
           NEW allowed, NEW mp \in Upload,
           S3Succeeds(r, allowed, mp) \/ S3Fails(r, allowed, mp)
    PROVE  S3Kept(s) \/ (s = r /\ allowed /\ s3'[s] = mp)
  BY DEF S3Succeeds, S3Fails, S3Kept

\* What a step can do to an upload in storage: nothing, one of the four S3
\* calls of a handler, or an abort.
LEMMA S3Step ==
    ASSUME TypeOK, [Next]_vars, NEW s \in Sessions
    PROVE  \/ S3Kept(s)
           \/ \E c \in Conns : CreatesUpload(c, s) /\ CreateMultipartUpload(c)
           \/ \E c \in Conns : StoresPart(c, s) /\ UploadPart(c)
           \/ \E c \in Conns : CompletesUpload(c, s) /\ CompleteMultipartUpload(c)
           \/ AbortsUpload(s) /\ UNCHANGED sess
<1>1. s3 \in [Sessions -> Upload]
  BY DEF TypeOK
<1>2. ASSUME UNCHANGED s3 PROVE S3Kept(s)
  BY <1>2 DEF S3Kept
<1>3. ASSUME NEW r \in Sessions, AbortUpload(r), UNCHANGED sess
      PROVE  S3Kept(s) \/ (AbortsUpload(s) /\ UNCHANGED sess)
  BY <1>1, <1>3, S3Call, UploadType DEF AbortUpload, AbortsUpload
<1>4. ASSUME NEW c \in Conns, HandlerStep(c),
             ~(AbortsUpload(s) /\ UNCHANGED sess), ~S3Kept(s)
      PROVE  \/ CreatesUpload(c, s) /\ CreateMultipartUpload(c)
             \/ StoresPart(c, s) /\ UploadPart(c)
             \/ CompletesUpload(c, s) /\ CompleteMultipartUpload(c)
  <2> DEFINE r == req[c].sid
  <2>1. /\ r \in Sessions /\ s3[r] \in Upload
        /\ req[c].index \in ChunkIndexes /\ req[c].content \in Contents
    BY DEF TypeOK, Request
  <2>2. CASE CreateMultipartUpload(c)
    <3>1. Created(s3[r]) \in Upload
      BY <2>1, UploadType
    <3>2. s3' = [s3 EXCEPT ![r] = Created(s3[r])] \/ UNCHANGED s3
      BY <2>2 DEF CreateMultipartUpload, S3Succeeds, S3Fails
    <3> QED
      BY <1>1, <1>4, <2>1, <2>2, <3>1, <3>2
         DEF CreateMultipartUpload, CreatesUpload, S3Kept
  <2>3. CASE UploadPart(c)
    BY <1>1, <1>4, <2>1, <2>3, S3Call, UploadType DEF UploadPart, StoresPart
  <2>4. CASE CompleteMultipartUpload(c)
    BY <1>1, <1>4, <2>1, <2>4, S3Call, UploadType
       DEF CompleteMultipartUpload, CompletesUpload
  <2>5. CASE AbortMultipartUpload(c)
    BY <1>3, <1>4, <2>1, <2>5 DEF AbortMultipartUpload
  <2>6. CASE \/ CreateSession(c) \/ GetSession(c) \/ DeleteSession(c)
             \/ SetUploadID(c) \/ ReadPaused(c) \/ ReadCancelled(c)
             \/ AddChunkCall(c) \/ GetProgressCall(c) \/ IsCompleteCall(c)
             \/ SetCompleted(c) \/ SetFailed(c) \/ PauseCall(c) \/ ReadState(c)
             \/ ResumeCall(c) \/ GetMissingChunksCall(c) \/ CancelCall(c)
    BY <1>2, <1>4, <2>6 DEF CreateSession, GetSession, DeleteSession, SetUploadID,
         ReadPaused, ReadCancelled, AddChunkCall, GetProgressCall, IsCompleteCall,
         SetCompleted, SetFailed, PauseCall, ReadState, ResumeCall,
         GetMissingChunksCall, CancelCall
  <2> QED
    BY <1>4, <2>2, <2>3, <2>4, <2>5, <2>6 DEF HandlerStep, LockStep, FreeStep
<1>5. ASSUME NEW c \in Conns, Receive(c) PROVE S3Kept(s)
  BY <1>5, <1>2 DEF Receive, AuthFailed, Malformed, InitUpload, SessionRequest,
                    UploadChunk, Dispatch, Refuse
<1>6. ASSUME NEW r \in Sessions, CleanupReap(r)
      PROVE  S3Kept(s) \/ (AbortsUpload(s) /\ UNCHANGED sess)
  BY <1>6, <1>2, <1>3 DEF CleanupReap
<1>7. CASE CleanupTick \/ (\E r \in Sessions : CleanupVisit(r)) \/ CleanupDone
           \/ Tick \/ Restart \/ UNCHANGED vars
  BY <1>7, <1>2 DEF CleanupTick, CleanupVisit, CleanupDone, Tick, Restart, vars
<1> QED
  BY <1>4, <1>5, <1>6, <1>7 DEF Next, Cleanup

-----------------------------------------------------------------------------
(* How one step can change the record of a session.                        *)

\* Pause, Resume, Cancel and the two outcomes of finalizeUpload.
Restated(c, s) ==
    /\ pc[c] \in SessionLabels /\ req[c].sid = s
    /\ ChunksKept(s)
    /\ sess'[s].user = sess[s].user
    /\ sess'[s].uploadID = sess[s].uploadID
    /\ sess'[s].state # STATE_NONE
    /\ sess'[s].state = STATE_COMPLETED => SetCompleted(c)

Added(c, s) ==
    /\ AddChunkCall(c) /\ req[c].sid = s
    /\ sess'[s] = AddChunk(sess[s], req[c].index, req[c].content, now)

Begun(c, s) ==
    /\ CreateSession(c) /\ req[c].sid = s
    /\ sess'[s] = NewSession(req[c].user, req[c].total, now)

Identified(c, s) ==
    /\ SetUploadID(c) /\ req[c].sid = s
    /\ sess'[s] = [sess[s] EXCEPT !.uploadID = TRUE]

SessionStep(c, s) == Restated(c, s) \/ Added(c, s) \/ Begun(c, s) \/ Identified(c, s)

\* What a step can do to the record of a session, and that a handler does it.
LEMMA SessStep ==
    ASSUME TypeOK, [Next]_vars, NEW s \in Sessions
    PROVE  \/ sess'[s] = sess[s]
           \/ \E c \in Conns : HandlerStep(c) /\ SessionStep(c, s)
<1> SUFFICES ASSUME sess'[s] # sess[s]
             PROVE  \E c \in Conns : HandlerStep(c) /\ SessionStep(c, s)
  OBVIOUS
<1>1. sess \in [Sessions -> Session]
  BY DEF TypeOK
<1>2. sess' # sess
  OBVIOUS
<1>3. ~(Cleanup \/ Tick \/ Restart \/ UNCHANGED vars)
  BY <1>2 DEF Cleanup, CleanupTick, CleanupVisit, CleanupReap, CleanupDone,
              Tick, Restart, vars
<1>4. ASSUME NEW c \in Conns, Receive(c) PROVE FALSE
  BY <1>2, <1>4 DEF Receive, AuthFailed, Malformed, InitUpload, SessionRequest,
                    UploadChunk, Dispatch, Refuse
<1>5. PICK c \in Conns : HandlerStep(c)
  BY <1>3, <1>4 DEF Next
<1> DEFINE r == req[c].sid
           us == sess[r]
<1>6. r \in Sessions /\ us \in Session
  BY <1>1 DEF TypeOK, Request
<1>7. ASSUME NEW new, Update(r, new) PROVE s = r /\ sess'[s] = new
  BY <1>1, <1>6, <1>7 DEF Update
<1>8. ASSUME NEW new, Update(r, new), pc[c] \in SessionLabels,
             new.received = us.received, new.parts = us.parts,
             new.user = us.user, new.totalChunks = us.totalChunks,
             new.uploadID = us.uploadID, new.state # STATE_NONE,
             new.state = STATE_COMPLETED => SetCompleted(c)
      PROVE  Restated(c, s)
  BY <1>7, <1>8 DEF Restated, ChunksKept
<1>9. CASE CreateSession(c)
  <2>1. Update(r, NewSession(req[c].user, req[c].total, now))
    BY <1>9 DEF CreateSession
  <2> QED
    BY <1>5, <1>7, <1>9, <2>1 DEF SessionStep, Begun
<1>10. CASE AddChunkCall(c)
  <2>1. Update(r, AddChunk(us, req[c].index, req[c].content, now))
    BY <1>10 DEF AddChunkCall
  <2> QED
    BY <1>5, <1>7, <1>10, <2>1 DEF SessionStep, Added
<1>11. CASE SetUploadID(c)
  <2>1. Update(r, [us EXCEPT !.uploadID = TRUE])
    BY <1>11 DEF SetUploadID
  <2> QED
    BY <1>5, <1>7, <1>11, <2>1 DEF SessionStep, Identified
<1>12. CASE SetCompleted(c)
  <2> DEFINE new == [us EXCEPT !.state = STATE_COMPLETED, !.updatedAt = now]
  <2>1. Update(r, new) /\ pc[c] \in SessionLabels
    BY <1>12 DEF SetCompleted, SessionLabels, InitLabels, Labels
  <2>2. new.state = STATE_COMPLETED /\ STATE_COMPLETED # STATE_NONE
    BY <1>6 DEF Session, STATE_COMPLETED, STATE_NONE
  <2> QED
    BY <1>5, <1>6, <1>8, <1>12, <2>1, <2>2 DEF SessionStep, Session
<1>13. CASE SetFailed(c)
  <2> DEFINE new == [us EXCEPT !.state = STATE_FAILED]
  <2>1. Update(r, new) /\ pc[c] \in SessionLabels
    BY <1>13 DEF SetFailed, SessionLabels, InitLabels, Labels
  <2>2. new.state # STATE_NONE /\ new.state # STATE_COMPLETED
    BY <1>6 DEF Session, STATE_FAILED, STATE_NONE, STATE_COMPLETED
  <2> QED
    BY <1>5, <1>6, <1>8, <2>1, <2>2 DEF SessionStep, Session
<1>14. CASE PauseCall(c)
  <2> DEFINE new == Pause(us, now)
  <2>1. Update(r, new) /\ pc[c] \in SessionLabels
    BY <1>14 DEF PauseCall, SessionLabels, InitLabels, Labels
  <2>2. new.state # STATE_NONE /\ new.state # STATE_COMPLETED
    BY <1>6 DEF Pause, Session, STATE_PAUSED, STATE_NONE, STATE_COMPLETED
  <2> QED
    BY <1>5, <1>6, <1>8, <2>1, <2>2 DEF SessionStep, Session, Pause
<1>15. CASE ResumeCall(c)
  <2> DEFINE new == Resume(us, now)
  <2>1. Update(r, new) /\ pc[c] \in SessionLabels
    BY <1>15 DEF ResumeCall, SessionLabels, InitLabels, Labels
  <2>2. new.state # STATE_NONE /\ new.state # STATE_COMPLETED
    BY <1>6 DEF Resume, Session, STATE_UPLOADING, STATE_NONE, STATE_COMPLETED
  <2> QED
    BY <1>5, <1>6, <1>8, <2>1, <2>2 DEF SessionStep, Session, Resume
<1>16. CASE CancelCall(c)
  <2> DEFINE new == Cancel(us, now)
  <2>1. Update(r, new) /\ pc[c] \in SessionLabels
    BY <1>16 DEF CancelCall, SessionLabels, InitLabels, Labels
  <2>2. new.state # STATE_NONE /\ new.state # STATE_COMPLETED
    BY <1>6 DEF Cancel, Session, STATE_CANCELLED, STATE_NONE, STATE_COMPLETED
  <2> QED
    BY <1>5, <1>6, <1>8, <2>1, <2>2 DEF SessionStep, Session, Cancel
<1>17. ~(\/ GetSession(c) \/ DeleteSession(c) \/ CreateMultipartUpload(c)
         \/ ReadPaused(c) \/ ReadCancelled(c) \/ UploadPart(c)
         \/ GetProgressCall(c) \/ IsCompleteCall(c)
         \/ CompleteMultipartUpload(c) \/ ReadState(c)
         \/ GetMissingChunksCall(c) \/ AbortMultipartUpload(c))
  BY <1>2 DEF GetSession, DeleteSession, CreateMultipartUpload, ReadPaused,
         ReadCancelled, UploadPart, GetProgressCall, IsCompleteCall,
         CompleteMultipartUpload, ReadState, GetMissingChunksCall,
         AbortMultipartUpload
<1> QED
  BY <1>5, <1>9, <1>10, <1>11, <1>12, <1>13, <1>14, <1>15, <1>16, <1>17
     DEF HandlerStep, LockStep, FreeStep

\* AddChunk, seen from outside: the index is recorded, nothing is replaced,
\* and only the chunks, the state and the time change.
LEMMA AddChunkEffect ==
    ASSUME NEW us \in Session, NEW i \in ChunkIndexes, NEW d \in Contents,
           NEW t \in Nat
    PROVE  LET new == AddChunk(us, i, d, t)
           IN  /\ Received(new) = Received(us) \cup {i}
               /\ \A j \in Received(us) : new.received[j] = us.received[j]
               /\ us.received[i] # NoChunk => new = us
               /\ us.received[i] = NoChunk =>
                      new.received = [us.received EXCEPT ![i] = d]
               /\ new.totalChunks = us.totalChunks
               /\ new.uploadID = us.uploadID
               /\ us.state # STATE_NONE => new.state # STATE_NONE
               /\ new.state = STATE_COMPLETED => us.state = STATE_COMPLETED
<1> DEFINE new == AddChunk(us, i, d, t)
<1>1. us.received \in Chunks
  BY DEF Session
<1>2. CASE us.received[i] # NoChunk
  <2>1. new = us
    BY <1>2 DEF AddChunk
  <2>2. i \in Received(us)
    BY <1>2 DEF Received
  <2> QED
    BY <1>2, <2>1, <2>2
<1>3. CASE us.received[i] = NoChunk
  <2>1. /\ new.received = [us.received EXCEPT ![i] = d]
        /\ new.totalChunks = us.totalChunks
        /\ new.uploadID = us.uploadID
        /\ new.state = STATE_UPLOADING
    BY <1>3 DEF AddChunk, Session
  <2>2. /\ new.received[i] = d /\ d # NoChunk
        /\ \A j \in ChunkIndexes \ {i} : new.received[j] = us.received[j]
    BY <1>1, <2>1, NoChunkAssumption DEF Chunks
  <2>3. STATE_UPLOADING # STATE_NONE /\ STATE_UPLOADING # STATE_COMPLETED
    BY DEF STATE_UPLOADING, STATE_NONE, STATE_COMPLETED
  <2> HIDE DEF new
  <2>4. Received(new) = Received(us) \cup {i}
    BY <1>3, <2>2 DEF Received
  <2>5. \A j \in Received(us) : new.received[j] = us.received[j]
    BY <1>3, <2>2 DEF Received
  <2> QED
    BY <1>3, <2>1, <2>3, <2>4, <2>5 DEF new
<1> QED
  BY <1>2, <1>3

-----------------------------------------------------------------------------
(* What no step takes away.                                                *)

\* There are as many declared indexes as chunks were declared.
LEMMA DeclaredSize ==
    ASSUME NEW n \in Nat
    PROVE  IsFiniteSet(0 .. n - 1) /\ Cardinality(0 .. n - 1) = n
<1>1. 0 \in Int /\ n - 1 \in Int
  OBVIOUS
<1>2. /\ IsFiniteSet(0 .. n - 1)
      /\ Cardinality(0 .. n - 1) = IF 0 > n - 1 THEN 0 ELSE (n - 1) - 0 + 1
  BY <1>1, FS_Interval
<1> QED
  BY <1>2

\* With indexes in range, counting the chunks (IsComplete) is as good as
\* looking for each of them.
LEMMA CompleteIsFull ==
    ASSUME NEW us \in Session, Received(us) \subseteq 0 .. us.totalChunks - 1
    PROVE  IsComplete(us) <=> Received(us) = 0 .. us.totalChunks - 1
<1> DEFINE all == 0 .. us.totalChunks - 1
<1>1. us.totalChunks \in Nat
  BY DEF Session
<1>2. IsFiniteSet(all) /\ Cardinality(all) = us.totalChunks
  BY <1>1, DeclaredSize
<1>3. Cardinality(all) = Cardinality(Received(us)) => all = Received(us)
  BY <1>2, FS_Subset
<1> QED
  BY <1>2, <1>3 DEF IsComplete

Stable(s) ==
    /\ IsStored(s3[s]) => S3Kept(s)
    /\ sess[s].uploadID =>
          /\ sess'[s].uploadID
          /\ sess'[s].totalChunks = sess[s].totalChunks
          /\ \A j \in Received(sess[s]) :
                j \in Received(sess'[s]) /\ sess'[s].received[j] = sess[s].received[j]
    /\ sess[s].state # STATE_NONE => sess'[s].state # STATE_NONE
    /\ IsOpen(s3'[s]) /\ ~IsOpen(s3[s]) => s3[s] = NoUpload /\ ~sess[s].uploadID
    /\ IsOpen(s3'[s]) /\ IsOpen(s3[s]) =>
          \A n \in PartNumbers :
             s3[s].parts[n] # NoChunk => s3'[s].parts[n] # NoChunk

\* The fields of a request in progress name a session, an index and a content.
LEMMA Typed ==
    ASSUME TypeOK, NEW c \in Conns
    PROVE  /\ req[c].sid \in Sessions
           /\ sess[req[c].sid] \in Session /\ s3[req[c].sid] \in Upload
           /\ req[c].index \in ChunkIndexes /\ req[c].content \in Contents
           /\ now \in Nat
  BY DEF TypeOK, Request, Hours

\* What AddChunk does to the chunks of the session, as the steps below use it.
LEMMA AddedEffect ==
    ASSUME TypeOK, NEW s \in Sessions, NEW c \in Conns, Added(c, s)
    PROVE  /\ req[c].index \in ChunkIndexes /\ req[c].content \in Contents
           /\ Received(sess'[s]) = Received(sess[s]) \cup {req[c].index}
           /\ \A j \in Received(sess[s]) : sess'[s].received[j] = sess[s].received[j]
           /\ sess[s].received[req[c].index] # NoChunk => sess'[s] = sess[s]
           /\ sess[s].received[req[c].index] = NoChunk =>
                  sess'[s].received =
                     [sess[s].received EXCEPT ![req[c].index] = req[c].content]
           /\ sess'[s].totalChunks = sess[s].totalChunks
           /\ sess'[s].uploadID = sess[s].uploadID
           /\ sess[s].state # STATE_NONE => sess'[s].state # STATE_NONE
           /\ sess'[s].state = STATE_COMPLETED => sess[s].state = STATE_COMPLETED
<1> DEFINE us == sess[s]
           new == AddChunk(us, req[c].index, req[c].content, now)
<1>1. /\ us \in Session /\ req[c].index \in ChunkIndexes
      /\ req[c].content \in Contents /\ now \in Nat
  BY Typed DEF TypeOK
<1>2. sess'[s] = new
  BY DEF Added
<1> HIDE DEF us
<1>3. /\ Received(new) = Received(us) \cup {req[c].index}
      /\ \A j \in Received(us) : new.received[j] = us.received[j]
      /\ us.received[req[c].index] # NoChunk => new = us
      /\ us.received[req[c].index] = NoChunk =>
             new.received = [us.received EXCEPT ![req[c].index] = req[c].content]
      /\ new.totalChunks = us.totalChunks
      /\ new.uploadID = us.uploadID
      /\ us.state # STATE_NONE => new.state # STATE_NONE
      /\ new.state = STATE_COMPLETED => us.state = STATE_COMPLETED
  BY <1>1, AddChunkEffect
<1> HIDE DEF new
<1> QED
  BY <1>1, <1>2, <1>3 DEF us

\* A stored upload stays as it is, an upload opens once, and an open one loses
\* no part.
LEMMA StableS3 ==
    ASSUME InductiveInv, [Next]_vars, NEW s \in Sessions
    PROVE  /\ IsStored(s3[s]) => S3Kept(s)
           /\ IsOpen(s3'[s]) /\ ~IsOpen(s3[s]) =>
                  s3[s] = NoUpload /\ ~sess[s].uploadID
           /\ IsOpen(s3'[s]) /\ IsOpen(s3[s]) =>
                 \A n \in PartNumbers :
                    s3[s].parts[n] # NoChunk => s3'[s].parts[n] # NoChunk
<1>1. TypeOK /\ s3[s] \in Upload
  BY DEF InductiveInv, TypeOK
<1>2. CASE S3Kept(s)
  BY <1>2 DEF S3Kept
<1>3. ASSUME NEW c \in Conns, CreatesUpload(c, s)
      PROVE  s3[s] = NoUpload /\ ~sess[s].uploadID
  BY <1>3 DEF CreatesUpload, InductiveInv, HandlerInv, InitLabels
<1>4. s3[s] = NoUpload => ~IsStored(s3[s]) /\ ~IsOpen(s3[s])
  BY DEF NoUpload, IsStored, IsOpen
<1>5. ASSUME NEW c \in Conns, StoresPart(c, s)
      PROVE  /\ IsOpen(s3[s])
             /\ \A n \in PartNumbers :
                   s3[s].parts[n] # NoChunk => s3'[s].parts[n] # NoChunk
  <2>1. req[c].content # NoChunk
    BY <1>1, Typed, NoChunkAssumption
  <2> QED
    BY <1>1, <1>5, <2>1 DEF StoresPart, WithPart, Upload
<1>6. ASSUME NEW c \in Conns, CompletesUpload(c, s)
      PROVE  IsOpen(s3[s]) /\ ~IsOpen(s3'[s])
  BY <1>6 DEF CompletesUpload, Completable, Completed, IsOpen
<1>7. AbortsUpload(s) => IsOpen(s3[s]) /\ ~IsOpen(s3'[s])
  BY DEF AbortsUpload, Aborted, IsOpen
<1>8. IsOpen(s3[s]) => ~IsStored(s3[s])
  BY DEF IsOpen, IsStored
<1> QED
  BY <1>1, <1>2, <1>3, <1>4, <1>5, <1>6, <1>7, <1>8, S3Step

\* What no step takes away: from a session with an upload its upload id, its total
\* and its chunks; from storage a finished object and the parts of an open upload.
LEMMA StableSession ==
    ASSUME InductiveInv, [Next]_vars, NEW s \in Sessions
    PROVE  Stable(s)
<1>1. TypeOK /\ sess[s] \in Session
  BY DEF InductiveInv, TypeOK
<1>2. CASE sess'[s] = sess[s]
  BY <1>2, StableS3 DEF Stable
<1>3. ASSUME NEW c \in Conns, Restated(c, s) PROVE Stable(s)
  <2>1. Received(sess'[s]) = Received(sess[s])
    BY <1>3 DEF Restated, ChunksKept, Received
  <2> QED
    BY <1>3, <2>1, StableS3 DEF Stable, Restated, ChunksKept
<1>4. ASSUME NEW c \in Conns, Added(c, s) PROVE Stable(s)
  <2>1. /\ Received(sess[s]) \subseteq Received(sess'[s])
        /\ sess'[s].uploadID = sess[s].uploadID
        /\ sess'[s].totalChunks = sess[s].totalChunks
        /\ \A i \in Received(sess[s]) : sess'[s].received[i] = sess[s].received[i]
        /\ sess[s].state # STATE_NONE => sess'[s].state # STATE_NONE
    BY <1>1, <1>4, AddedEffect
  <2> QED
    BY <2>1, StableS3 DEF Stable
<1>5. ASSUME NEW c \in Conns, Begun(c, s) PROVE Stable(s)
  <2>1. sess[s].state = STATE_NONE /\ ~sess[s].uploadID
    BY <1>5 DEF Begun, CreateSession, InductiveInv, HandlerInv, SessionInv
  <2> QED
    BY <2>1, StableS3 DEF Stable
<1>6. ASSUME NEW c \in Conns, Identified(c, s) PROVE Stable(s)
  <2>1. ~sess[s].uploadID
    BY <1>6 DEF Identified, SetUploadID, InductiveInv, HandlerInv, InitLabels
  <2>2. sess'[s].state = sess[s].state
    BY <1>1, <1>6 DEF Identified, Session
  <2> QED
    BY <2>1, <2>2, StableS3 DEF Stable
<1> QED
  BY <1>1, <1>2, <1>3, <1>4, <1>5, <1>6, SessStep DEF SessionStep

-----------------------------------------------------------------------------
(* The conjuncts about sessions.                                           *)

\* No step breaks what is said of a session by itself.
LEMMA SessionInvStep ==
    ASSUME InductiveInv, [Next]_vars, NEW s \in Sessions
    PROVE  SessionInv(s)'
<1>1. TypeOK /\ sess[s] \in Session /\ SessionInv(s) /\ Stable(s)
  BY StableSession DEF InductiveInv, TypeOK
<1> DEFINE Same == /\ sess'[s].uploadID = sess[s].uploadID
                   /\ sess'[s].totalChunks = sess[s].totalChunks
                   /\ Received(sess'[s]) = Received(sess[s])
<1>2. sess'[s].state = STATE_NONE => s3'[s] = NoUpload
  <2> SUFFICES ASSUME sess'[s].state = STATE_NONE PROVE s3'[s] = NoUpload
    OBVIOUS
  <2>1. sess[s].state = STATE_NONE /\ s3[s] = NoUpload
    BY <1>1 DEF Stable, SessionInv
  <2>2. ~\E c \in Conns : CreatesUpload(c, s)
    BY <2>1 DEF CreatesUpload, InductiveInv, HandlerInv, InitLabels
  <2>3. ~IsOpen(s3[s])
    BY <2>1 DEF NoUpload, IsOpen
  <2> QED
    BY <1>1, <2>1, <2>2, <2>3, S3Step
       DEF S3Kept, StoresPart, CompletesUpload, Completable, AbortsUpload
<1>3. CASE Same /\ sess'[s].state = STATE_NONE
  BY <1>1, <1>2, <1>3 DEF SessionInv, Stable
<1>4. CASE Same /\ sess'[s].state # STATE_NONE
  BY <1>1, <1>4 DEF SessionInv
<1>5. ASSUME NEW c \in Conns, Restated(c, s) PROVE Same
  BY <1>5 DEF Restated, ChunksKept, Received
<1>6. ASSUME NEW c \in Conns, Added(c, s) PROVE SessionInv(s)'
  <2>1. /\ req[c].index \in ChunkIndexes /\ req[c].content \in Contents
        /\ now \in Nat /\ req[c].sid = s /\ pc[c] = "AddChunk"
    BY <1>1, <1>6, Typed DEF Added, AddChunkCall
  <2>2. sess[s].uploadID /\ req[c].cmd = "CMD_UPLOAD_CHUNK"
        /\ (IndexInRange => req[c].index < sess[s].totalChunks)
    BY <2>1 DEF InductiveInv, HandlerInv, SessionLabels, InitLabels, Labels, ChunkLabels
  <2>3. sess[s].state # STATE_NONE
    BY <1>1, <2>2 DEF SessionInv
  <2>4. /\ Received(sess'[s]) = Received(sess[s]) \cup {req[c].index}
        /\ sess'[s].totalChunks = sess[s].totalChunks
        /\ sess'[s].uploadID /\ sess'[s].state # STATE_NONE
    BY <1>1, <1>6, <2>2, <2>3, AddedEffect
  <2>5. IndexInRange => req[c].index \in 0 .. sess[s].totalChunks - 1
    <3>1. sess[s].totalChunks \in Nat
      BY <1>1 DEF Session
    <3>2. req[c].index \in Nat
      BY <2>1, ChunkIndexesAssumption
    <3>3. IndexInRange => req[c].index < sess[s].totalChunks
      BY <2>2
    <3> HIDE DEF Same
    <3> QED
      BY <3>1, <3>2, <3>3
  <2> QED
    BY <1>1, <2>4, <2>5 DEF SessionInv
<1>7. ASSUME NEW c \in Conns, Begun(c, s) PROVE SessionInv(s)'
  <2>1. /\ sess'[s].state = STATE_INITIALIZED
        /\ sess'[s].received = [i \in ChunkIndexes |-> NoChunk]
    BY <1>7 DEF Begun, NewSession
  <2>2. Received(sess'[s]) = {} /\ sess'[s].state # STATE_NONE
    BY <2>1 DEF Received, STATE_INITIALIZED, STATE_NONE
  <2> QED
    BY <2>2 DEF SessionInv
<1>8. ASSUME NEW c \in Conns, Identified(c, s) PROVE SessionInv(s)'
  <2>1. sess[s].state # STATE_NONE
    BY <1>8 DEF Identified, SetUploadID, InductiveInv, HandlerInv, InitLabels
  <2>2. /\ sess'[s].state = sess[s].state /\ sess'[s].uploadID
        /\ sess'[s].totalChunks = sess[s].totalChunks
        /\ Received(sess'[s]) = Received(sess[s])
    BY <1>1, <1>8 DEF Identified, Session, Received
  <2> QED
    BY <1>1, <2>1, <2>2 DEF SessionInv
<1>9. CASE sess'[s] = sess[s]
  BY <1>3, <1>4, <1>9
<1> QED
  BY <1>1, <1>3, <1>4, <1>5, <1>6, <1>7, <1>8, <1>9, SessStep DEF SessionStep

-----------------------------------------------------------------------------
(* The conjuncts about handlers.                                           *)

\* A handler that is not running relies on nothing.
LEMMA IdleHandlerInv ==
    ASSUME NEW c \in Conns, pc[c] = "idle" PROVE HandlerInv(c)
  BY DEF HandlerInv, InitLabels, SessionLabels, ChunkLabels

\* A handler that does not move keeps what it relies on.
LEMMA OtherHandlerInv ==
    ASSUME InductiveInv, [Next]_vars, NEW d \in Conns,
           pc'[d] = pc[d], req'[d] = req[d],
           pc[d] \in InitLabels => sess'[req[d].sid] = sess[req[d].sid],
           pc[d] = "CreateMultipartUpload" => s3'[req[d].sid] = s3[req[d].sid]
    PROVE  HandlerInv(d)'
<1> DEFINE s == req[d].sid
<1>1. /\ HandlerInv(d) /\ TypeOK /\ s \in Sessions /\ SessionInv(s)
      /\ req[d].index \in ChunkIndexes
  BY Typed DEF InductiveInv
<1>2. Stable(s) /\ SessionInv(s)'
  BY <1>1, StableSession, SessionInvStep
<1>3. sess[s] \in Session /\ sess'[s] \in Session
  BY <1>1, NextTypeOK DEF TypeOK
<1>4. CASE pc[d] \in InitLabels
  BY <1>1, <1>4 DEF HandlerInv, InitLabels, SessionLabels, ChunkLabels
<1>5. CASE pc[d] \in SessionLabels
  <2>1. sess[s].uploadID
    BY <1>1, <1>5 DEF HandlerInv
  <2>2. ASSUME IndexInRange, pc[d] = "CompleteMultipartUpload"
        PROVE  IsComplete(sess'[s])
    <3>1. Received(sess[s]) = 0 .. sess[s].totalChunks - 1
      BY <1>1, <1>3, <2>2, CompleteIsFull DEF HandlerInv, SessionInv
    <3>2. Received(sess'[s]) = 0 .. sess'[s].totalChunks - 1
      BY <1>2, <2>1, <2>2, <3>1 DEF Stable, SessionInv
    <3> QED
      BY <1>3, <3>2, CompleteIsFull
  <2>3. ASSUME pc[d] = "AddChunk", IsOpen(s3'[s])
        PROVE  s3'[s].parts[PartNumber(req[d].index)] # NoChunk
    <3>1. IsOpen(s3[s])
      BY <1>2, <2>1, <2>3 DEF Stable
    <3>2. s3[s].parts[PartNumber(req[d].index)] # NoChunk
      BY <1>1, <2>3, <3>1 DEF HandlerInv
    <3>3. PartNumber(req[d].index) \in PartNumbers
      BY <1>1 DEF PartNumbers
    <3> QED
      BY <1>2, <2>3, <3>1, <3>2, <3>3 DEF Stable
  <2>4. pc[d] = "SetCompleted" => IsStored(s3'[s])
    BY <1>1, <1>2 DEF HandlerInv, Stable, S3Kept
  <2>5. pc[d] \notin InitLabels
    BY <1>5 DEF SessionLabels
  <2>6. sess'[s].uploadID /\ sess'[s].totalChunks = sess[s].totalChunks
    BY <1>2, <2>1 DEF Stable
  <2> QED
    BY <1>1, <1>5, <2>2, <2>3, <2>4, <2>5, <2>6
       DEF HandlerInv, InitLabels
<1>6. CASE pc[d] = "idle"
  BY <1>6, IdleHandlerInv DEF HandlerInv, InitLabels, SessionLabels, ChunkLabels
<1>7. pc[d] \in Labels
  BY <1>1 DEF TypeOK
<1> QED
  BY <1>4, <1>5, <1>6, <1>7 DEF SessionLabels

\* A new request: a session handler names a session that has its upload id, a
\* CMD_INIT_UPLOAD one that is unused.
LEMMA ReceiveHandlerInv ==
    ASSUME InductiveInv, [Next]_vars, NEW c \in Conns, Receive(c)
    PROVE  HandlerInv(c)'
<1>1. TypeOK /\ UNCHANGED <<sess, s3>>
  BY DEF InductiveInv, Receive, AuthFailed, Malformed, InitUpload, SessionRequest,
         UploadChunk, Dispatch, Refuse
<1>2. ASSUME NEW code, Refuse(c, code) PROVE HandlerInv(c)'
  <2>1. pc'[c] = "idle"
    BY <1>1, <1>2 DEF TypeOK, Refuse, Answer
  <2> QED
    BY <2>1 DEF HandlerInv, InitLabels, SessionLabels, ChunkLabels
<1>3. ASSUME NEW r, NEW label, Dispatch(c, r, label)
      PROVE  pc'[c] = label /\ req'[c] = r
  BY <1>1, <1>3 DEF TypeOK, Dispatch
<1>4. NoRequest \in Request
  BY NoRequestType
<1>5. ASSUME NEW t \in Tokens, NEW r \in InitRequests, InitUpload(c, r, t)
      PROVE  HandlerInv(c)'
  <2>1. CASE ValidInit(r)
    <3> DEFINE Req(s) == [NoRequest EXCEPT !.cmd = "CMD_INIT_UPLOAD",
                                           !.user = TokenUser[t], !.sid = s,
                                           !.total = r.totalChunks]
    <3>1. PICK s \in Sessions : Unused(s) /\ Dispatch(c, Req(s), "CreateSession")
      BY <1>5, <2>1 DEF InitUpload
    <3>2. Req(s).sid = s /\ Req(s).total = r.totalChunks
      BY <1>4 DEF Request
    <3> HIDE DEF Req
    <3>3. pc'[c] = "CreateSession" /\ req'[c] = Req(s)
      BY <3>1, <1>3
    <3> QED
      BY <1>1, <3>1, <3>2, <3>3
         DEF HandlerInv, Unused, InitLabels, SessionLabels, ChunkLabels
  <2>2. CASE ~ValidInit(r)
    BY <1>2, <1>5, <2>2 DEF InitUpload
  <2> QED
    BY <2>1, <2>2
<1>6. ASSUME NEW t \in Tokens, NEW s \in Sessions, NEW cmd \in SessionCommands,
             SessionRequest(c, cmd, s, t)
      PROVE  HandlerInv(c)'
  <2> DEFINE q == [NoRequest EXCEPT !.cmd = cmd, !.user = TokenUser[t], !.sid = s]
  <2>1. q.sid = s /\ q.cmd = cmd
    BY <1>4 DEF Request
  <2>2. Dispatch(c, q, "GetSession") /\ cmd # "CMD_UPLOAD_CHUNK" /\ Known(s)
    BY <1>6 DEF SessionRequest
  <2> HIDE DEF q
  <2>3. pc'[c] = "GetSession" /\ req'[c] = q
    BY <2>2, <1>3
  <2> QED
    BY <1>1, <2>1, <2>2, <2>3 DEF HandlerInv, Known, InitLabels, ChunkLabels
<1>7. ASSUME NEW t \in Tokens, NEW s \in Sessions, NEW i \in ChunkIndexes,
             NEW d \in Contents, UploadChunk(c, s, t, i, d)
      PROVE  HandlerInv(c)'
  <2> DEFINE q == [NoRequest EXCEPT !.cmd = "CMD_UPLOAD_CHUNK",
                                    !.user = TokenUser[t], !.sid = s,
                                    !.index = i, !.content = d]
  <2>1. q.sid = s /\ q.index = i
    BY <1>4 DEF Request
  <2>2. /\ Dispatch(c, q, "GetSession") /\ Known(s)
        /\ IndexInRange => i < sess[s].totalChunks
    BY <1>7 DEF UploadChunk
  <2> HIDE DEF q
  <2>3. pc'[c] = "GetSession" /\ req'[c] = q
    BY <2>2, <1>3
  <2> QED
    BY <1>1, <2>1, <2>2, <2>3 DEF HandlerInv, Known, InitLabels, ChunkLabels
<1>8. AuthFailed(c) \/ Malformed(c) => HandlerInv(c)'
  BY <1>2 DEF AuthFailed, Malformed
<1> QED
  BY <1>5, <1>6, <1>7, <1>8 DEF Receive

\* Where a handler of an existing session goes next, and what the calls that
\* others rely on have found out on the way.
Flow(c) ==
    LET s == req[c].sid
    IN  /\ pc'[c] \in SessionLabels \cup {"idle"}
        /\ pc'[c] \in ChunkLabels =>
              \/ pc[c] \in ChunkLabels
              \/ req[c].cmd = "CMD_UPLOAD_CHUNK"
        /\ pc'[c] = "AddChunk" =>
              s3'[s] = WithPart(s3[s], PartNumber(req[c].index), req[c].content)
        /\ pc'[c] = "CompleteMultipartUpload" => UNCHANGED sess /\ IsComplete(sess[s])
        /\ pc'[c] = "SetCompleted" => IsStored(s3'[s])

\* Where the handlers of an existing session go next, and on what condition.
LEMMA HandlerFlow ==
    ASSUME TypeOK, NEW c \in Conns, HandlerStep(c), pc[c] \in SessionLabels
    PROVE  Flow(c)
<1> DEFINE s == req[c].sid
<1>1. /\ pc \in [Conns -> Labels] /\ s3 \in [Sessions -> Upload]
      /\ s \in Sessions
  BY DEF TypeOK, Request
<1>2. ASSUME NEW label, Goto(c, label) PROVE pc'[c] = label
  BY <1>1, <1>2 DEF Goto
<1>3. ASSUME NEW code, NEW n, NEW m, Answer(c, code, n, m) PROVE pc'[c] = "idle"
  BY <1>1, <1>3 DEF Answer
<1>4. AnswerError(c) => pc'[c] = "idle"
  BY <1>3 DEF AnswerError
<1>5. ASSUME pc'[c] \in (SessionLabels \cup {"idle"}) \ (ChunkLabels \cup
                           {"CompleteMultipartUpload", "SetCompleted"})
      PROVE  Flow(c)
  BY <1>5 DEF Flow, ChunkLabels
<1>6. CASE CreateSession(c) \/ CreateMultipartUpload(c) \/ SetUploadID(c)
  BY <1>6 DEF CreateSession, CreateMultipartUpload, SetUploadID, SessionLabels, InitLabels
<1>7. CASE GetSession(c)
  <2>1. pc'[c] = "idle" \/ pc'[c] = FirstCall(req[c].cmd)
    BY <1>2, <1>4, <1>7 DEF GetSession
  <2> QED
    BY <2>1 DEF Flow, FirstCall, SessionLabels, InitLabels, Labels, ChunkLabels
<1>8. CASE ReadPaused(c)
  <2>1. pc[c] = "ReadPaused" /\ pc'[c] \in {"idle", "ReadCancelled"}
    BY <1>2, <1>4, <1>8 DEF ReadPaused
  <2> QED
    BY <2>1 DEF Flow, SessionLabels, InitLabels, Labels, ChunkLabels
<1>9. CASE ReadCancelled(c)
  <2>1. pc[c] = "ReadCancelled" /\ pc'[c] \in {"idle", "UploadPart"}
    BY <1>2, <1>4, <1>9 DEF ReadCancelled
  <2> QED
    BY <2>1 DEF Flow, SessionLabels, InitLabels, Labels, ChunkLabels
<1>10. CASE UploadPart(c)
  <2>1. CASE AnswerError(c)
    BY <1>4, <1>5, <2>1 DEF SessionLabels, ChunkLabels
  <2>2. CASE ~AnswerError(c)
    <3>1. pc[c] = "UploadPart" /\ pc'[c] = "AddChunk"
      BY <1>2, <1>10, <2>2 DEF UploadPart
    <3>2. s3'[s] = WithPart(s3[s], PartNumber(req[c].index), req[c].content)
      BY <1>1, <1>10, <2>2 DEF UploadPart, S3Succeeds
    <3> QED
      BY <3>1, <3>2 DEF Flow, SessionLabels, InitLabels, Labels, ChunkLabels
  <2> QED
    BY <2>1, <2>2
<1>11. CASE IsCompleteCall(c)
  <2>1. CASE IsComplete(sess[s])
    <3>1. pc'[c] = "CompleteMultipartUpload" /\ UNCHANGED sess
      BY <1>2, <1>11, <2>1 DEF IsCompleteCall
    <3> QED
      BY <2>1, <3>1 DEF Flow, SessionLabels, InitLabels, Labels, ChunkLabels
  <2>2. CASE ~IsComplete(sess[s])
    BY <1>3, <1>5, <1>11, <2>2 DEF IsCompleteCall, SessionLabels, ChunkLabels
  <2> QED
    BY <2>1, <2>2
<1>12. CASE CompleteMultipartUpload(c)
  <2>1. CASE Goto(c, "SetFailed")
    BY <1>2, <1>5, <2>1 DEF SessionLabels, InitLabels, Labels, ChunkLabels
  <2>2. CASE ~Goto(c, "SetFailed")
    <3>1. pc'[c] = "SetCompleted"
      BY <1>2, <1>12, <2>2 DEF CompleteMultipartUpload
    <3>2. s3'[s] = Completed(s3[s], sess[s].parts)
      BY <1>1, <1>12, <2>2 DEF CompleteMultipartUpload, S3Succeeds
    <3>3. IsStored(s3'[s])
      BY <3>2 DEF Completed, IsStored
    <3> QED
      BY <3>1, <3>3 DEF Flow, SessionLabels, InitLabels, Labels, ChunkLabels
  <2> QED
    BY <2>1, <2>2
<1>13. CASE AddChunkCall(c) \/ PauseCall(c) \/ ResumeCall(c)
  <2>1. pc'[c] = "GetProgress"
    BY <1>2, <1>13 DEF AddChunkCall, PauseCall, ResumeCall
  <2> QED
    BY <1>5, <2>1 DEF SessionLabels, InitLabels, Labels, ChunkLabels
<1>14. CASE GetProgressCall(c)
  <2>1. pc'[c] \in {"IsComplete", "GetMissingChunks", "idle"}
    BY <1>2, <1>3, <1>14 DEF GetProgressCall
  <2> QED
    BY <1>5, <2>1 DEF SessionLabels, InitLabels, Labels, ChunkLabels
<1>15. CASE SetCompleted(c) \/ SetFailed(c) \/ GetMissingChunksCall(c) \/ DeleteSession(c)
  <2>1. pc'[c] = "idle"
    BY <1>3, <1>4, <1>15 DEF SetCompleted, SetFailed, GetMissingChunksCall, DeleteSession
  <2> QED
    BY <1>5, <2>1 DEF SessionLabels, ChunkLabels
<1>16. CASE ReadState(c)
  <2>1. pc'[c] \in {"Resume", "idle"}
    BY <1>2, <1>4, <1>16 DEF ReadState
  <2> QED
    BY <1>5, <2>1 DEF SessionLabels, InitLabels, Labels, ChunkLabels
<1>17. CASE CancelCall(c)
  <2>1. pc'[c] \in {"AbortMultipartUpload", "DeleteSession"}
    BY <1>2, <1>17 DEF CancelCall
  <2> QED
    BY <1>5, <2>1 DEF SessionLabels, InitLabels, Labels, ChunkLabels
<1>18. CASE AbortMultipartUpload(c)
  <2>1. pc'[c] = "DeleteSession"
    BY <1>2, <1>18 DEF AbortMultipartUpload
  <2> QED
    BY <1>5, <2>1 DEF SessionLabels, InitLabels, Labels, ChunkLabels
<1> QED
  BY <1>6, <1>7, <1>8, <1>9, <1>10, <1>11, <1>12, <1>13, <1>14, <1>15, <1>16, <1>17,
     <1>18 DEF HandlerStep, LockStep, FreeStep

\* A handler that moves establishes what its next call relies on.
LEMMA ActingHandlerInv ==
    ASSUME InductiveInv, [Next]_vars, NEW c \in Conns, HandlerStep(c)
    PROVE  HandlerInv(c)'
<1> DEFINE s == req[c].sid
<1>1. /\ HandlerInv(c) /\ TypeOK /\ s \in Sessions /\ SessionInv(s) /\ Stable(s)
      /\ pc \in [Conns -> Labels] /\ s3 \in [Sessions -> Upload]
      /\ sess \in [Sessions -> Session]
      /\ req[c].index \in ChunkIndexes /\ req[c].content \in Contents
  BY Typed, StableSession DEF InductiveInv, TypeOK
<1>2. req' = req
  BY DEF HandlerStep, LockStep, FreeStep, CreateSession, GetSession, DeleteSession,
         CreateMultipartUpload, SetUploadID, ReadPaused, ReadCancelled, UploadPart,
         AddChunkCall, GetProgressCall, IsCompleteCall, CompleteMultipartUpload,
         SetCompleted, SetFailed, PauseCall, ReadState, ResumeCall,
         GetMissingChunksCall, CancelCall, AbortMultipartUpload
<1>3. CASE pc[c] \in SessionLabels
  <2>1. Flow(c)
    BY <1>1, <1>3, HandlerFlow
  <2>2. sess'[s].uploadID /\ sess'[s].totalChunks = sess[s].totalChunks
    BY <1>1, <1>3 DEF HandlerInv, Stable
  <2>3. pc'[c] = "AddChunk" =>
           s3'[s].parts[PartNumber(req[c].index)] # NoChunk
    <3>1. PartNumber(req[c].index) \in PartNumbers /\ req[c].content # NoChunk
      BY <1>1, NoChunkAssumption DEF PartNumbers
    <3> QED
      BY <1>1, <2>1, <3>1 DEF Flow, WithPart, Upload
  <2>4. pc'[c] \in ChunkLabels => req[c].cmd = "CMD_UPLOAD_CHUNK"
    BY <1>1, <2>1 DEF Flow, HandlerInv
  <2>5. pc'[c] \notin InitLabels
    BY <2>1 DEF Flow, SessionLabels, InitLabels
  <2> QED
    BY <1>1, <1>2, <1>3, <2>1, <2>2, <2>3, <2>4, <2>5 DEF HandlerInv, Flow, InitLabels
<1>4. CASE CreateSession(c)
  <2>1. /\ pc'[c] = "CreateMultipartUpload" /\ s3' = s3
        /\ sess'[s] = NewSession(req[c].user, req[c].total, now)
    BY <1>1, <1>4 DEF CreateSession, Goto, Update
  <2>2. s3[s] = NoUpload
    BY <1>1, <1>4 DEF CreateSession, HandlerInv, SessionInv
  <2>3. sess'[s].state # STATE_NONE /\ ~sess'[s].uploadID
    BY <2>1 DEF NewSession, STATE_INITIALIZED, STATE_NONE
  <2> QED
    BY <1>2, <2>1, <2>2, <2>3 DEF HandlerInv, InitLabels, SessionLabels, ChunkLabels
<1>5. CASE CreateMultipartUpload(c)
  <2>1. pc'[c] \in {"SetUploadID", "idle"} /\ UNCHANGED sess
    BY <1>1, <1>5 DEF CreateMultipartUpload, Goto, AnswerError, Answer
  <2>2. sess[s].state # STATE_NONE /\ ~sess[s].uploadID
    BY <1>1, <1>5 DEF CreateMultipartUpload, HandlerInv, InitLabels
  <2> QED
    BY <1>2, <2>1, <2>2 DEF HandlerInv, InitLabels, SessionLabels, ChunkLabels
<1>6. CASE SetUploadID(c)
  <2>1. pc'[c] = "idle"
    BY <1>1, <1>6 DEF SetUploadID, Answer
  <2> QED
    BY <2>1 DEF HandlerInv, InitLabels, SessionLabels, ChunkLabels
<1>7. pc[c] \in SessionLabels \/ CreateSession(c) \/ CreateMultipartUpload(c)
        \/ SetUploadID(c)
  BY <1>1 DEF HandlerStep, LockStep, FreeStep, GetSession, DeleteSession, ReadPaused,
       ReadCancelled, UploadPart, AddChunkCall, GetProgressCall, IsCompleteCall,
       CompleteMultipartUpload, SetCompleted, SetFailed, PauseCall, ReadState,
       ResumeCall, GetMissingChunksCall, CancelCall, AbortMultipartUpload,
       SessionLabels, InitLabels, Labels
<1> QED
  BY <1>3, <1>4, <1>5, <1>6, <1>7

\* A handler's step leaves the sessions of the other handlers' creations alone.
LEMMA HandlerFrame ==
    ASSUME TypeOK, NEW c \in Conns, HandlerStep(c)
    PROVE  /\ \A d \in Conns \ {c} : pc'[d] = pc[d] /\ req'[d] = req[d]
           /\ req'[c] = req[c]
           /\ \A r \in Sessions \ {req[c].sid} : sess'[r] = sess[r] /\ s3'[r] = s3[r]
           /\ pc[c] # "idle"
<1>1. /\ pc \in [Conns -> Labels] /\ s3 \in [Sessions -> Upload]
      /\ sess \in [Sessions -> Session]
  BY DEF TypeOK
<1>2. /\ \A r \in Sessions \ {req[c].sid} : sess'[r] = sess[r]
      /\ \A d \in Conns \ {c} : pc'[d] = pc[d]
      /\ req' = req /\ pc[c] # "idle"
  BY <1>1 DEF HandlerStep, LockStep, FreeStep, CreateSession, GetSession, DeleteSession,
         CreateMultipartUpload, SetUploadID, ReadPaused, ReadCancelled, UploadPart,
         AddChunkCall, GetProgressCall, IsCompleteCall, CompleteMultipartUpload,
         SetCompleted, SetFailed, PauseCall, ReadState, ResumeCall,
         GetMissingChunksCall, CancelCall, AbortMultipartUpload, Update, Goto,
         AnswerError, Answer
<1>3. \A r \in Sessions \ {req[c].sid} : s3'[r] = s3[r]
  BY <1>1 DEF HandlerStep, LockStep, FreeStep, CreateSession, GetSession, DeleteSession,
         CreateMultipartUpload, SetUploadID, ReadPaused, ReadCancelled, UploadPart,
         AddChunkCall, GetProgressCall, IsCompleteCall, CompleteMultipartUpload,
         SetCompleted, SetFailed, PauseCall, ReadState, ResumeCall,
         GetMissingChunksCall, CancelCall, AbortMultipartUpload, S3Succeeds, S3Fails,
         AbortUpload
<1> QED
  BY <1>2, <1>3

\* A new request concerns its own connection only.
LEMMA ReceiveFrame ==
    ASSUME TypeOK, NEW c \in Conns, Receive(c)
    PROVE  /\ \A d \in Conns \ {c} : pc'[d] = pc[d] /\ req'[d] = req[d]
           /\ UNCHANGED <<sess, s3>>
<1>1. pc \in [Conns -> Labels] /\ req \in [Conns -> Request]
  BY DEF TypeOK
<1> QED
  BY <1>1 DEF Receive, AuthFailed, Malformed, InitUpload, SessionRequest,
         UploadChunk, Dispatch, Refuse, Answer

\* No step breaks what a handler in progress relies on, whoever makes it.
LEMMA HandlersStep ==
    ASSUME InductiveInv, [Next]_vars, NEW d \in Conns
    PROVE  HandlerInv(d)'
<1>1. TypeOK
  BY DEF InductiveInv
<1>2. ASSUME NEW c \in Conns, HandlerStep(c) PROVE HandlerInv(d)'
  <2>1. CASE c = d
    BY <1>2, <2>1, ActingHandlerInv
  <2>2. CASE c # d
    <3>1. pc[d] \in InitLabels => req[c].sid # req[d].sid
      BY <1>1, <1>2, <2>2, HandlerFrame DEF InductiveInv, Exclusive
    <3>2. "CreateMultipartUpload" \in InitLabels
      BY DEF InitLabels
    <3> QED
      BY <1>1, <1>2, <2>2, <3>1, <3>2, HandlerFrame, OtherHandlerInv, Typed
  <2> QED
    BY <2>1, <2>2
<1>3. ASSUME NEW c \in Conns, Receive(c) PROVE HandlerInv(d)'
  <2>1. CASE c = d
    BY <1>3, <2>1, ReceiveHandlerInv
  <2>2. CASE c # d
    BY <1>1, <1>3, <2>2, ReceiveFrame, OtherHandlerInv
  <2> QED
    BY <2>1, <2>2
<1>4. CASE Restart
  <2>1. pc'[d] = "idle"
    BY <1>4 DEF Restart
  <2> QED
    BY <2>1 DEF HandlerInv, InitLabels, SessionLabels, ChunkLabels
<1>5. CASE Cleanup \/ Tick \/ UNCHANGED vars
  <2>1. UNCHANGED <<pc, req, sess>>
    BY <1>5 DEF Cleanup, CleanupTick, CleanupVisit, CleanupReap, CleanupDone, Tick, vars
  <2>2. ASSUME pc[d] = "CreateMultipartUpload" PROVE s3'[req[d].sid] = s3[req[d].sid]
    <3> DEFINE s == req[d].sid
    <3>1. s \in Sessions /\ s3[s] = NoUpload
      BY <1>1, <2>2, Typed DEF InductiveInv, HandlerInv
    <3>2. ~IsOpen(s3[s])
      BY <3>1 DEF NoUpload, IsOpen
    <3>3. ~\E c \in Conns : CreateMultipartUpload(c)
      <4> SUFFICES ASSUME NEW c \in Conns, CreateMultipartUpload(c) PROVE FALSE
        OBVIOUS
      <4>1. pc'[c] # "CreateMultipartUpload" /\ pc[c] = "CreateMultipartUpload"
        BY <1>1 DEF CreateMultipartUpload, Goto, AnswerError, Answer, TypeOK
      <4> QED
        BY <2>1, <4>1
    <3> QED
      BY <1>1, <3>1, <3>2, <3>3, S3Step
         DEF S3Kept, StoresPart, CompletesUpload, Completable, AbortsUpload
  <2> QED
    BY <2>1, <2>2, OtherHandlerInv
<1> QED
  BY <1>2, <1>3, <1>4, <1>5 DEF Next

\* A session id that is being created stays in the hands of one handler: nobody
\* else can name it before RESP_READY.
LEMMA ExclusiveStep ==
    ASSUME InductiveInv, [Next]_vars
    PROVE  Exclusive'
<1> SUFFICES ASSUME NEW c \in Conns, NEW d \in Conns, c # d,
                    pc'[c] \in InitLabels, pc'[d] # "idle", req'[c].sid = req'[d].sid
             PROVE  FALSE
  BY DEF Exclusive
<1>1. TypeOK /\ pc \in [Conns -> Labels]
  BY DEF InductiveInv, TypeOK
<1>2. ASSUME UNCHANGED <<pc, req>> PROVE FALSE
  BY <1>2 DEF InductiveInv, Exclusive
<1>3. CASE Cleanup \/ Tick \/ UNCHANGED vars
  BY <1>2, <1>3 DEF Cleanup, CleanupTick, CleanupVisit, CleanupReap, CleanupDone,
                    Tick, vars
<1>4. CASE Restart
  BY <1>4 DEF Restart, InitLabels
<1>5. ASSUME NEW b \in Conns, HandlerStep(b) PROVE FALSE
  <2>1. req'[c] = req[c] /\ req'[d] = req[d] /\ pc[d] # "idle"
    BY <1>1, <1>5, HandlerFrame
  <2>2. pc[c] \in InitLabels
    <3>1. CASE b = c /\ pc[c] \in SessionLabels
      BY <1>1, <1>5, <3>1, HandlerFlow DEF Flow, SessionLabels, InitLabels
    <3>2. CASE b # c
      BY <1>1, <1>5, <3>2, HandlerFrame
    <3>3. CASE b = c /\ pc[c] \notin SessionLabels
      BY <1>1, <1>5, <3>3, HandlerFrame DEF SessionLabels
    <3> QED
      BY <3>1, <3>2, <3>3
  <2> QED
    BY <2>1, <2>2 DEF InductiveInv, Exclusive
<1>6. ASSUME NEW b \in Conns, Receive(b) PROVE FALSE
  <2>1. \A e \in Conns \ {b} : pc'[e] = pc[e] /\ req'[e] = req[e]
    BY <1>1, <1>6, ReceiveFrame
  <2>2. ASSUME NEW t \in Tokens, NEW r \in InitRequests, InitUpload(b, r, t),
               ValidInit(r)
        PROVE  FALSE
    <3> DEFINE Req(s) == [NoRequest EXCEPT !.cmd = "CMD_INIT_UPLOAD",
                                           !.user = TokenUser[t], !.sid = s,
                                           !.total = r.totalChunks]
    <3>1. PICK s \in Sessions : Unused(s) /\ Dispatch(b, Req(s), "CreateSession")
      BY <2>2 DEF InitUpload
    <3>2. Req(s).sid = s
      BY NoRequestType DEF Request
    <3> HIDE DEF Req
    <3>3. pc'[b] = "CreateSession" /\ req'[b].sid = s
      BY <1>1, <3>1, <3>2 DEF Dispatch, TypeOK
    <3>4. ASSUME NEW e \in Conns \ {b}, pc[e] # "idle", req[e].sid = s PROVE FALSE
      <4>1. sess[s].state = STATE_NONE /\ ~sess[s].uploadID /\ pc[e] # "CreateSession"
        BY <3>1, <3>4 DEF Unused, InductiveInv, SessionInv
      <4>2. HandlerInv(e) /\ pc[e] \in Labels
        BY <1>1 DEF InductiveInv
      <4> QED
        BY <3>4, <4>1, <4>2 DEF HandlerInv, SessionLabels, InitLabels
    <3>5. CASE b = c
      BY <2>1, <3>3, <3>4, <3>5
    <3>6. CASE b = d
      BY <2>1, <3>3, <3>4, <3>6 DEF InitLabels
    <3>7. CASE b # c /\ b # d
      BY <2>1, <3>7 DEF InductiveInv, Exclusive
    <3> QED
      BY <3>5, <3>6, <3>7
  <2>3. ASSUME NEW q, NEW s \in Sessions, Dispatch(b, q, "GetSession"), Known(s),
               q.sid = s
        PROVE  FALSE
    <3>1. pc'[b] = "GetSession" /\ req'[b] = q
      BY <1>1, <2>3 DEF Dispatch, TypeOK
    <3>2. ASSUME NEW e \in Conns \ {b}, pc[e] \in InitLabels, req[e].sid = s PROVE FALSE
      <4>1. HandlerInv(e) /\ SessionInv(s) /\ sess[s].uploadID
        BY <2>3 DEF InductiveInv, Known
      <4> QED
        BY <3>2, <4>1 DEF HandlerInv, SessionInv, InitLabels
    <3>3. b # c
      BY <3>1 DEF InitLabels
    <3>4. CASE b = d
      BY <2>1, <2>3, <3>1, <3>2, <3>3, <3>4
    <3>5. CASE b # d
      BY <2>1, <3>3, <3>5 DEF InductiveInv, Exclusive
    <3> QED
      BY <3>4, <3>5
  <2>4. ASSUME NEW code, Refuse(b, code) PROVE FALSE
    <3>1. pc'[b] = "idle"
      BY <1>1, <2>4 DEF Refuse, Answer
    <3>2. b # c /\ b # d
      BY <3>1 DEF InitLabels
    <3> QED
      BY <2>1, <3>2 DEF InductiveInv, Exclusive
  <2>5. ASSUME NEW t \in Tokens, NEW s \in Sessions, NEW cmd \in SessionCommands,
               SessionRequest(b, cmd, s, t)
        PROVE  FALSE
    <3> DEFINE q == [NoRequest EXCEPT !.cmd = cmd, !.user = TokenUser[t], !.sid = s]
    <3>1. q.sid = s
      BY NoRequestType DEF Request
    <3>2. Dispatch(b, q, "GetSession") /\ Known(s)
      BY <2>5 DEF SessionRequest
    <3> HIDE DEF q
    <3> QED
      BY <2>3, <3>1, <3>2
  <2>6. ASSUME NEW t \in Tokens, NEW s \in Sessions, NEW i \in ChunkIndexes,
               NEW x \in Contents, UploadChunk(b, s, t, i, x)
        PROVE  FALSE
    <3> DEFINE q == [NoRequest EXCEPT !.cmd = "CMD_UPLOAD_CHUNK",
                                      !.user = TokenUser[t], !.sid = s,
                                      !.index = i, !.content = x]
    <3>1. q.sid = s
      BY NoRequestType DEF Request
    <3>2. Dispatch(b, q, "GetSession") /\ Known(s)
      BY <2>6 DEF UploadChunk
    <3> HIDE DEF q
    <3> QED
      BY <2>3, <3>1, <3>2
  <2> QED
    BY <1>6, <2>2, <2>4, <2>5, <2>6 DEF Receive, AuthFailed, Malformed, InitUpload
<1> QED
  BY <1>3, <1>4, <1>5, <1>6 DEF Next

-----------------------------------------------------------------------------
(* The safety properties.                                                  *)

\* When storage accepts the list of a session, the object it makes is the
\* recorded chunks.
LEMMA CompletedIsRecorded ==
    ASSUME NEW us \in Session, NEW mp \in Upload, PartsMatch(us),
           Completable(mp, us.parts), NEW i \in ChunkIndexes
    PROVE  Completed(mp, us.parts).parts[PartNumber(i)] = us.received[i]
<1> DEFINE list == us.parts
           n == PartNumber(i)
           part(j) == [number |-> PartNumber(j), etag |-> us.received[j]]
<1>1. {list[k] : k \in DOMAIN list} = {part(j) : j \in Received(us)}
  BY DEF PartsMatch
<1>2. n \in PartNumbers
  BY DEF PartNumbers
<1>3. Completed(mp, list).parts[n] = IF n \in Listed(list) THEN mp.parts[n] ELSE NoChunk
  BY <1>2 DEF Completed
<1>4. CASE i \in Received(us)
  <2>1. PICK k \in DOMAIN list : list[k] = part(i)
    BY <1>1, <1>4
  <2>2. list[k].number = n /\ list[k].etag = us.received[i]
    BY <2>1
  <2>3. n \in Listed(list) /\ mp.parts[n] = us.received[i]
    BY <2>2 DEF Listed, Completable
  <2> QED
    BY <1>3, <2>3
<1>5. CASE i \notin Received(us)
  <2>1. n \notin Listed(list)
    <3> SUFFICES ASSUME NEW k \in DOMAIN list, list[k].number = n PROVE FALSE
      BY DEF Listed
    <3>1. PICK j \in Received(us) : list[k] = part(j)
      BY <1>1
    <3>2. PartNumber(j) = PartNumber(i)
      BY <3>1
    <3>3. j \in Nat /\ i \in Nat
      BY ChunkIndexesAssumption DEF Received
    <3> QED
      BY <1>5, <3>2, <3>3 DEF PartNumber
  <2>2. us.received[i] = NoChunk
    BY <1>5 DEF Received
  <2> QED
    BY <1>3, <2>1, <2>2
<1> QED
  BY <1>4, <1>5

Whole(us, mp) ==
    /\ Received(us) = 0 .. us.totalChunks - 1
    /\ \A i \in ChunkIndexes : mp.parts[PartNumber(i)] = us.received[i]

\* When CompleteMultipartUpload takes effect, the object is every declared
\* chunk.
LEMMA CompletingIsWhole ==
    ASSUME InductiveInv, IndexInRange, [Next]_vars, NEW s \in Sessions, NEW c \in Conns,
           CompletesUpload(c, s), CompleteMultipartUpload(c)
    PROVE  Whole(sess[s], s3'[s]) /\ UNCHANGED sess
<1>1. /\ sess[s] \in Session /\ s3[s] \in Upload /\ SessionInv(s) /\ HandlerInv(c)
      /\ PartsMatch(sess[s])
  BY DEF InductiveInv, TypeOK, PartsMatchReceived, PartsMatch
<1>2. IsComplete(sess[s])
  BY <1>1 DEF CompletesUpload, HandlerInv
<1>3. Received(sess[s]) = 0 .. sess[s].totalChunks - 1
  BY <1>1, <1>2, CompleteIsFull DEF SessionInv
<1>4. \A i \in ChunkIndexes : s3'[s].parts[PartNumber(i)] = sess[s].received[i]
  BY <1>1, CompletedIsRecorded DEF CompletesUpload
<1> QED
  BY <1>3, <1>4 DEF Whole, CompleteMultipartUpload

\* Once an upload is stored its session's chunks are final.
LEMMA StoredIsFinal ==
    ASSUME InductiveInv, IndexInRange, [Next]_vars, NEW s \in Sessions, IsStored(s3[s])
    PROVE  /\ S3Kept(s) /\ Whole(sess[s], s3[s])
           /\ sess'[s].received = sess[s].received
           /\ sess'[s].totalChunks = sess[s].totalChunks
<1>1. /\ TypeOK /\ sess[s] \in Session /\ Stable(s) /\ SessionInv(s)
      /\ Whole(sess[s], s3[s])
  BY StableSession DEF InductiveInv, TypeOK, StoredObjectIsWhole, Whole
<1>2. s3[s] # NoUpload
  BY DEF IsStored, NoUpload
<1>3. ASSUME NEW c \in Conns, Added(c, s) PROVE sess'[s] = sess[s]
  <2>1. /\ req[c].index \in ChunkIndexes /\ req[c].index < sess[s].totalChunks
    BY <1>1, <1>3, Typed DEF Added, AddChunkCall, InductiveInv, HandlerInv, ChunkLabels,
         SessionLabels, InitLabels, Labels
  <2>2. req[c].index \in Nat /\ sess[s].totalChunks \in Nat
    BY <1>1, <2>1, ChunkIndexesAssumption DEF Session
  <2>3. req[c].index \in 0 .. sess[s].totalChunks - 1
    BY <2>1, <2>2
  <2>4. req[c].index \in Received(sess[s])
    BY <1>1, <2>3 DEF Whole
  <2> QED
    BY <1>1, <1>3, <2>4, AddedEffect DEF Received
<1>4. ASSUME NEW c \in Conns, Begun(c, s) PROVE FALSE
  BY <1>1, <1>2, <1>4 DEF Begun, CreateSession, InductiveInv, HandlerInv, SessionInv
<1>5. ASSUME NEW c \in Conns, Restated(c, s) \/ Identified(c, s)
      PROVE  /\ sess'[s].received = sess[s].received
             /\ sess'[s].totalChunks = sess[s].totalChunks
  BY <1>1, <1>5 DEF Restated, ChunksKept, Identified, Session
<1> QED
  BY <1>1, <1>3, <1>4, <1>5, SessStep DEF SessionStep, Stable

\* No step makes a stored object differ from the chunks of its session.
LEMMA StoredObjectStep ==
    ASSUME InductiveInv, [Next]_vars PROVE StoredObjectIsWhole'
<1> SUFFICES ASSUME IndexInRange, NEW s \in Sessions, IsStored(s3'[s])
             PROVE  Whole(sess'[s], s3'[s])
  BY DEF StoredObjectIsWhole, Whole
<1>1. TypeOK
  BY DEF InductiveInv
<1>2. CASE IsStored(s3[s])
  BY <1>2, StoredIsFinal DEF Whole, S3Kept, Received
<1>3. CASE ~IsStored(s3[s])
  <2>1. ~S3Kept(s) /\ ~AbortsUpload(s)
    BY <1>3 DEF S3Kept, AbortsUpload, Aborted, IsStored
  <2>2. ~\E c \in Conns : CreatesUpload(c, s) \/ StoresPart(c, s)
    BY <1>1, <1>3 DEF CreatesUpload, Created, StoresPart, WithPart, IsStored, IsOpen,
                      TypeOK, Upload
  <2>3. PICK c \in Conns : CompletesUpload(c, s) /\ CompleteMultipartUpload(c)
    BY <1>1, <2>1, <2>2, S3Step
  <2> QED
    BY <2>3, CompletingIsWhole
<1> QED
  BY <1>2, <1>3

\* Answers that say nothing of the chunks or of the end of an upload.
PlainCodes == {"none", "RESP_ERROR", "RESP_AUTH_FAILED", "RESP_READY",
               "RESP_PAUSED", "RESP_STATUS"}

\* handleUploadChunk and handleResumeUpload answer with the count they made.
Acks(c) == /\ IsCompleteCall(c) /\ ~IsComplete(sess[req[c].sid])
           /\ reply'[c].code \in {"RESP_CHUNK_ACK", "RESP_DUPLICATE"}
           /\ reply'[c].received = local[c].received

Resumes(c) == /\ GetMissingChunksCall(c)
              /\ reply'[c].code = "RESP_RESUMED"
              /\ reply'[c].received = local[c].received
              /\ reply'[c].missing = GetMissingChunks(sess[req[c].sid])

Finishes(c) == SetCompleted(c) /\ reply'[c].code = "RESP_COMPLETE"

Cancels(c) == DeleteSession(c) /\ reply'[c].code = "RESP_CANCELLED"

Answers(c) == \/ reply'[c].code \in PlainCodes
              \/ Acks(c) \/ Resumes(c) \/ Finishes(c) \/ Cancels(c)

\* What a handler's step does to the answers.
LEMMA HandlerAnswer ==
    ASSUME TypeOK, NEW c \in Conns, HandlerStep(c)
    PROVE  /\ req' = req
           /\ \A d \in Conns \ {c} : reply'[d] = reply[d]
           /\ reply'[c] = reply[c] \/ Answers(c)
<1>1. reply \in [Conns -> Response]
  BY DEF TypeOK
<1>2. /\ req' = req
      /\ \A d \in Conns \ {c} : reply'[d] = reply[d]
  BY <1>1 DEF HandlerStep, LockStep, FreeStep, CreateSession, GetSession, DeleteSession,
         CreateMultipartUpload, SetUploadID, ReadPaused, ReadCancelled, UploadPart,
         AddChunkCall, GetProgressCall, IsCompleteCall, CompleteMultipartUpload,
         SetCompleted, SetFailed, PauseCall, ReadState, ResumeCall,
         GetMissingChunksCall, CancelCall, AbortMultipartUpload, Goto,
         AnswerError, Answer
<1> SUFFICES reply'[c] = reply[c] \/ Answers(c)
  BY <1>2
<1>3. ASSUME NEW code, NEW n, NEW m, Answer(c, code, n, m)
      PROVE  /\ reply'[c].code = code /\ reply'[c].received = n
             /\ reply'[c].missing = m
  BY <1>1, <1>3 DEF Answer
<1>4. ASSUME NEW code \in PlainCodes, NEW n, NEW m, Answer(c, code, n, m)
      PROVE  Answers(c)
  BY <1>3, <1>4 DEF Answers
<1>5. ASSUME NEW label, Goto(c, label) PROVE reply'[c] = reply[c]
  BY <1>5 DEF Goto
<1>6. AnswerError(c) => Answers(c)
  BY <1>4 DEF AnswerError, PlainCodes
<1>7. CASE SetCompleted(c)
  <2>1. reply'[c].code = "RESP_COMPLETE"
    BY <1>3, <1>7 DEF SetCompleted
  <2> QED
    BY <1>2, <1>7, <2>1 DEF Answers, Finishes
<1>8. CASE DeleteSession(c)
  <2>1. reply'[c].code = "RESP_CANCELLED"
    BY <1>3, <1>8 DEF DeleteSession
  <2> QED
    BY <1>2, <1>8, <2>1 DEF Answers, Cancels
<1>9. CASE GetMissingChunksCall(c)
  <2>1. Resumes(c)
    BY <1>3, <1>9 DEF GetMissingChunksCall, Resumes
  <2> QED
    BY <2>1 DEF Answers
<1>10. CASE IsCompleteCall(c)
  <2>1. CASE IsComplete(sess[req[c].sid])
    BY <1>5, <1>10, <2>1 DEF IsCompleteCall
  <2>2. CASE ~IsComplete(sess[req[c].sid])
    <3>1. \/ Answer(c, "RESP_DUPLICATE", local[c].received, {})
          \/ Answer(c, "RESP_CHUNK_ACK", local[c].received, {})
      BY <1>10, <2>2 DEF IsCompleteCall
    <3>2. /\ reply'[c].code \in {"RESP_CHUNK_ACK", "RESP_DUPLICATE"}
          /\ reply'[c].received = local[c].received
      BY <1>3, <3>1
    <3> QED
      BY <1>10, <2>2, <3>2 DEF Answers, Acks
  <2> QED
    BY <2>1, <2>2
<1>11. CASE SetUploadID(c)
  BY <1>4, <1>11 DEF SetUploadID, PlainCodes
<1>12. CASE GetProgressCall(c)
  BY <1>4, <1>5, <1>12 DEF GetProgressCall, PlainCodes
<1>13. CASE GetSession(c) \/ CreateMultipartUpload(c) \/ ReadPaused(c)
            \/ ReadCancelled(c) \/ UploadPart(c) \/ SetFailed(c) \/ ReadState(c)
  BY <1>5, <1>6, <1>13 DEF GetSession, CreateMultipartUpload, ReadPaused,
       ReadCancelled, UploadPart, SetFailed, ReadState
<1>14. CASE CreateSession(c) \/ AddChunkCall(c) \/ CompleteMultipartUpload(c)
            \/ PauseCall(c) \/ ResumeCall(c) \/ CancelCall(c)
            \/ AbortMultipartUpload(c)
  BY <1>5, <1>14 DEF CreateSession, AddChunkCall, CompleteMultipartUpload,
       PauseCall, ResumeCall, CancelCall, AbortMultipartUpload
<1> QED
  BY <1>2, <1>7, <1>8, <1>9, <1>10, <1>11, <1>12, <1>13, <1>14
     DEF HandlerStep, LockStep, FreeStep

\* What a step can tell the client of a connection: nothing new, something
\* plain, or one of the four answers that handlers owe to what they found.
LEMMA AnswerStep ==
    ASSUME TypeOK, [Next]_vars, NEW c \in Conns
    PROVE  (req'[c] = req[c] /\ reply'[c] = reply[c]) \/ Answers(c)
<1> DEFINE Kept == req'[c] = req[c] /\ reply'[c] = reply[c]
<1>1. reply \in [Conns -> Response] /\ req \in [Conns -> Request]
  BY DEF TypeOK
<1>2. ASSUME NEW d \in Conns, HandlerStep(d) PROVE Kept \/ Answers(c)
  BY <1>2, HandlerAnswer
<1>3. ASSUME NEW d \in Conns, NEW r, NEW label, Dispatch(d, r, label)
      PROVE  Kept \/ Answers(c)
  BY <1>1, <1>3 DEF Dispatch, NoReply, Answers, PlainCodes
<1>4. ASSUME NEW d \in Conns, NEW code \in PlainCodes, Refuse(d, code)
      PROVE  Kept \/ Answers(c)
  BY <1>1, <1>4 DEF Refuse, Answer, Answers
<1>5. ASSUME NEW d \in Conns, Receive(d) PROVE Kept \/ Answers(c)
  <2>1. "RESP_ERROR" \in PlainCodes /\ "RESP_AUTH_FAILED" \in PlainCodes
    BY DEF PlainCodes
  <2>2. CASE AuthFailed(d) \/ Malformed(d)
    BY <1>4, <2>1, <2>2 DEF AuthFailed, Malformed
  <2>3. ASSUME NEW r \in InitRequests, NEW t \in Tokens, InitUpload(d, r, t)
        PROVE  Kept \/ Answers(c)
    BY <1>3, <1>4, <2>1, <2>3 DEF InitUpload
  <2>4. ASSUME NEW t \in Tokens, NEW s \in Sessions, NEW cmd \in SessionCommands,
               SessionRequest(d, cmd, s, t)
        PROVE  Kept \/ Answers(c)
    BY <1>3, <2>4 DEF SessionRequest
  <2>5. ASSUME NEW t \in Tokens, NEW s \in Sessions, NEW i \in ChunkIndexes,
               NEW e \in Contents, UploadChunk(d, s, t, i, e)
        PROVE  Kept \/ Answers(c)
    BY <1>3, <2>5 DEF UploadChunk
  <2> QED
    BY <1>5, <2>2, <2>3, <2>4, <2>5 DEF Receive
<1>6. Restart => Answers(c)
  BY DEF Restart, NoReply, Answers, PlainCodes
<1>7. CASE Cleanup \/ Tick \/ UNCHANGED vars
  BY <1>7 DEF Cleanup, CleanupTick, CleanupVisit, CleanupReap, CleanupDone, Tick, vars
<1> QED
  BY <1>2, <1>5, <1>6, <1>7 DEF Next

\* No step says of an upload that it is complete when it is not stored.
LEMMA CompleteIsStoredStep ==
    ASSUME InductiveInv, [Next]_vars PROVE CompleteIsStored'
<1>1. TypeOK /\ CompleteIsStored
  BY DEF InductiveInv
<1>2. ASSUME NEW s \in Sessions, IsStored(s3[s]) PROVE IsStored(s3'[s])
  BY <1>2, StableSession DEF Stable, S3Kept
<1>3. ASSUME NEW c \in Conns, SetCompleted(c)
      PROVE  IsStored(s3'[req[c].sid]) /\ req' = req
  BY <1>1, <1>2, <1>3, Typed DEF SetCompleted, InductiveInv, HandlerInv
<1>4. ASSUME NEW s \in Sessions, sess'[s].state = STATE_COMPLETED PROVE IsStored(s3'[s])
  <2>1. sess[s].state = STATE_COMPLETED => IsStored(s3'[s])
    BY <1>1, <1>2 DEF CompleteIsStored
  <2>2. ASSUME NEW c \in Conns, Restated(c, s) PROVE IsStored(s3'[s])
    BY <1>3, <1>4, <2>2 DEF Restated
  <2>3. ASSUME NEW c \in Conns, Added(c, s) PROVE IsStored(s3'[s])
    BY <1>1, <1>4, <2>1, <2>3, AddedEffect
  <2>4. ASSUME NEW c \in Conns, Begun(c, s) PROVE FALSE
    BY <1>4, <2>4 DEF Begun, NewSession, STATE_INITIALIZED, STATE_COMPLETED
  <2>5. ASSUME NEW c \in Conns, Identified(c, s) PROVE sess'[s].state = sess[s].state
    BY <1>1, <2>5 DEF Identified, TypeOK, Session
  <2> QED
    BY <1>1, <1>4, <2>1, <2>2, <2>3, <2>4, <2>5, SessStep DEF SessionStep
<1>5. ASSUME NEW c \in Conns, reply'[c].code = "RESP_COMPLETE"
      PROVE  IsStored(s3'[req'[c].sid])
  <2>1. CASE SetCompleted(c)
    BY <1>3, <2>1
  <2>2. CASE ~SetCompleted(c)
    <3>1. reply'[c] = reply[c] /\ req'[c] = req[c]
      BY <1>1, <1>5, <2>2, AnswerStep
         DEF Answers, PlainCodes, Acks, Resumes, Finishes, Cancels
    <3> QED
      BY <1>1, <1>2, <1>5, <3>1, Typed DEF CompleteIsStored
  <2> QED
    BY <2>1, <2>2
<1> QED
  BY <1>4, <1>5 DEF CompleteIsStored

\* No step records a chunk that an open upload does not hold.
LEMMA RecordedPartsStep ==
    ASSUME InductiveInv, [Next]_vars PROVE RecordedPartsStored'
<1> SUFFICES ASSUME NEW s \in Sessions, IsOpen(s3'[s]), NEW i \in Received(sess'[s])
             PROVE  s3'[s].parts[PartNumber(i)] # NoChunk
  BY DEF RecordedPartsStored
<1>1. TypeOK /\ SessionInv(s) /\ Stable(s) /\ sess[s] \in Session /\ i \in ChunkIndexes
  BY StableSession DEF InductiveInv, TypeOK, Received
<1>2. PartNumber(i) \in PartNumbers
  BY <1>1 DEF PartNumbers
<1>3. CASE IsOpen(s3[s])
  <2>1. CASE i \in Received(sess[s])
    BY <1>1, <1>2, <1>3, <2>1 DEF Stable, InductiveInv, RecordedPartsStored
  <2>2. CASE i \notin Received(sess[s])
    <3>1. ASSUME NEW c \in Conns, Restated(c, s) \/ Identified(c, s)
          PROVE  Received(sess'[s]) = Received(sess[s])
      BY <1>1, <3>1 DEF Restated, ChunksKept, Identified, Received, Session
    <3>2. ASSUME NEW c \in Conns, Begun(c, s) PROVE Received(sess'[s]) = {}
      BY <3>2 DEF Begun, NewSession, Received
    <3>3. sess'[s] # sess[s]
      BY <2>2 DEF Received
    <3>4. PICK c \in Conns : Added(c, s)
      BY <1>1, <2>2, <3>1, <3>2, <3>3, SessStep DEF SessionStep
    <3>5. Received(sess'[s]) = Received(sess[s]) \cup {req[c].index}
      BY <1>1, <3>4, AddedEffect
    <3>6. req[c].index = i
      BY <2>2, <3>5
    <3> QED
      BY <1>3, <3>4, <3>6 DEF Added, AddChunkCall, InductiveInv, HandlerInv
  <2> QED
    BY <2>1, <2>2
<1>4. CASE ~IsOpen(s3[s])
  <2>1. s3[s] = NoUpload /\ Received(sess[s]) = {}
    BY <1>1, <1>4 DEF Stable, SessionInv
  <2>2. PICK c \in Conns : CreateMultipartUpload(c)
    BY <1>1, <1>4, S3Step DEF S3Kept, StoresPart, CompletesUpload, Completable, AbortsUpload
  <2>3. sess' = sess
    BY <2>2 DEF CreateMultipartUpload
  <2> QED
    BY <2>1, <2>3
<1> QED
  BY <1>3, <1>4

-----------------------------------------------------------------------------
\* The server starts in the inductive invariant.
LEMMA InitInductiveInv == Init => InductiveInv
<1> SUFFICES ASSUME Init PROVE InductiveInv
  OBVIOUS
<1>1. TypeOK
  BY InitTypeOK
<1>2. ASSUME NEW s \in Sessions
      PROVE  /\ sess[s] = NoSession /\ s3[s] = NoUpload /\ Received(sess[s]) = {}
             /\ PartsMatch(sess[s]) /\ sess[s] \in Session
  <2>1. sess[s] = NoSession /\ s3[s] = NoUpload /\ sess[s] \in Session
    BY NewSessionType DEF Init
  <2> QED
    BY <2>1, NoPartsMatch DEF NoSession, Received
<1>3. PartsMatchReceived
  BY <1>2 DEF PartsMatchReceived, PartsMatch
<1>4. ASSUME NEW s \in Sessions PROVE SessionInv(s)
  <2>1. sess[s].uploadID = FALSE /\ s3[s] = NoUpload /\ Received(sess[s]) = {}
    BY <1>2 DEF NoSession
  <2> QED
    BY <2>1 DEF SessionInv
<1>5. ASSUME NEW c \in Conns PROVE HandlerInv(c)
  BY IdleHandlerInv DEF Init
<1>6. Exclusive
  BY DEF Init, Exclusive, InitLabels
<1>7. StoredObjectIsWhole /\ RecordedPartsStored
  BY <1>2 DEF StoredObjectIsWhole, RecordedPartsStored, IsStored, IsOpen, NoUpload
<1>8. CompleteIsStored
  BY <1>2 DEF Init, CompleteIsStored, NoSession, NoReply, STATE_NONE, STATE_COMPLETED
<1> QED
  BY <1>1, <1>3, <1>4, <1>5, <1>6, <1>7, <1>8 DEF InductiveInv

\* Every step of the server keeps the inductive invariant.
LEMMA NextInductiveInv == InductiveInv /\ [Next]_vars => InductiveInv'
<1> SUFFICES ASSUME InductiveInv, [Next]_vars PROVE InductiveInv'
  OBVIOUS
<1>1. TypeOK' /\ PartsMatchReceived'
  BY NextTypeOK, PartsMatchStep DEF InductiveInv
<1>2. (\A c \in Conns : HandlerInv(c))'
  BY HandlersStep
<1>3. (\A s \in Sessions : SessionInv(s))'
  BY SessionInvStep
<1>4. Exclusive' /\ StoredObjectIsWhole' /\ CompleteIsStored' /\ RecordedPartsStored'
  BY ExclusiveStep, StoredObjectStep, CompleteIsStoredStep, RecordedPartsStep
<1> QED
  BY <1>1, <1>2, <1>3, <1>4 DEF InductiveInv

\* The inductive invariant holds in every state the server reaches, for all
\* constants.
THEOREM InvariantHolds == Spec => []InductiveInv
  BY InitInductiveInv, NextInductiveInv, PTL DEF Spec

\* Clients may race, retry, pause and cancel as they like, storage may fail and
\* the server may restart: what is stored is every declared chunk, as recorded.
THEOREM StoredObjectsAreWhole == Spec => []StoredObjectIsWhole
<1>1. InductiveInv => StoredObjectIsWhole
  BY DEF InductiveInv
<1> QED
  BY <1>1, InvariantHolds, PTL

\* A client that was told RESP_COMPLETE has its object in storage.
THEOREM CompleteMeansStored == Spec => []CompleteIsStored
<1>1. InductiveInv => CompleteIsStored
  BY DEF InductiveInv
<1> QED
  BY <1>1, InvariantHolds, PTL

\* ReceivedChunks never names a chunk that storage does not have.
THEOREM RecordedMeansInStorage == Spec => []RecordedPartsStored
<1>1. InductiveInv => RecordedPartsStored
  BY DEF InductiveInv
<1> QED
  BY <1>1, InvariantHolds, PTL

=============================================================================
