------------------------ MODULE UploadPromiseProofs ------------------------
(***************************************************************************)
(* What the upload server promises the outside.  It implements             *)
(* UploadService when clients number chunks from 0: every step of the      *)
(* server is, seen from one upload, a step of UploadService or a           *)
(* stuttering step.  What its answers say of an upload is true and stays   *)
(* true.  Only the owner of a session and clean-up change it, and a paused *)
(* session takes no chunk.  No upload is left open that clean-up cannot    *)
(* find.                                                                   *)
(***************************************************************************)
EXTENDS FileUploadServerProofs

-----------------------------------------------------------------------------
(* A step is about one session, and changes its record or its upload.      *)

UploadKept(s) == sess'[s] = sess[s] /\ s3'[s] = s3[s]

\* A handler touches the session of its request and no other.
LEMMA HandlerIsAboutOne ==
    ASSUME TypeOK, NEW c \in Conns, HandlerStep(c),
           NEW s \in Sessions, s # req[c].sid
    PROVE  UploadKept(s)
<1> DEFINE r == req[c].sid
<1>1. s3 \in [Sessions -> Upload] /\ sess \in [Sessions -> Session]
  BY DEF TypeOK
<1>2. ASSUME NEW us, Update(r, us) PROVE sess'[s] = sess[s]
  BY <1>1, <1>2 DEF Update
<1>3. ASSUME NEW allowed, NEW mp, S3Succeeds(r, allowed, mp) \/ S3Fails(r, allowed, mp)
      PROVE  s3'[s] = s3[s]
  BY <1>1, <1>3 DEF S3Succeeds, S3Fails
<1>4. CASE CreateMultipartUpload(c)
  BY <1>3, <1>4 DEF CreateMultipartUpload, UploadKept
<1>5. CASE UploadPart(c)
  BY <1>3, <1>5 DEF UploadPart, UploadKept
<1>6. CASE CompleteMultipartUpload(c)
  BY <1>3, <1>6 DEF CompleteMultipartUpload, UploadKept
<1>7. CASE AbortMultipartUpload(c)
  BY <1>3, <1>7 DEF AbortMultipartUpload, AbortUpload, UploadKept
<1>8. CASE CreateSession(c) \/ SetUploadID(c) \/ AddChunkCall(c) \/ SetCompleted(c)
           \/ SetFailed(c) \/ PauseCall(c) \/ ResumeCall(c) \/ CancelCall(c)
  BY <1>2, <1>8 DEF CreateSession, SetUploadID, AddChunkCall, SetCompleted,
       SetFailed, PauseCall, ResumeCall, CancelCall, UploadKept
<1>9. CASE GetSession(c) \/ DeleteSession(c) \/ ReadPaused(c) \/ ReadCancelled(c)
           \/ GetProgressCall(c) \/ IsCompleteCall(c) \/ ReadState(c)
           \/ GetMissingChunksCall(c)
  BY <1>9 DEF GetSession, DeleteSession, ReadPaused, ReadCancelled,
       GetProgressCall, IsCompleteCall, ReadState, GetMissingChunksCall, UploadKept
<1> QED
  BY <1>4, <1>5, <1>6, <1>7, <1>8, <1>9 DEF HandlerStep, LockStep, FreeStep

\* No step of the server touches two uploads.
LEMMA StepIsAboutOne ==
    ASSUME TypeOK, [Next]_vars
    PROVE  \E s \in Sessions : \A t \in Sessions \ {s} : UploadKept(t)
<1>1. ASSUME NEW c \in Conns, HandlerStep(c)
      PROVE  \E s \in Sessions : \A t \in Sessions \ {s} : UploadKept(t)
  BY <1>1, HandlerIsAboutOne, Typed
<1>2. ASSUME NEW r \in Sessions, CleanupReap(r)
      PROVE  \A t \in Sessions \ {r} : UploadKept(t)
  BY <1>2 DEF CleanupReap, AbortUpload, S3Succeeds, S3Fails, UploadKept, TypeOK
<1>3. ASSUME NEW c \in Conns, Receive(c) PROVE UNCHANGED <<sess, s3>>
  BY <1>3 DEF Receive, AuthFailed, Malformed, InitUpload, SessionRequest,
              UploadChunk, Dispatch, Refuse
<1>4. CASE CleanupTick \/ (\E r \in Sessions : CleanupVisit(r)) \/ CleanupDone
           \/ Tick \/ Restart \/ UNCHANGED vars
  <2>1. UNCHANGED <<sess, s3>>
    BY <1>4 DEF CleanupTick, CleanupVisit, CleanupDone, Tick, Restart, vars
  <2> QED
    BY <2>1, ServerAssumption DEF UploadKept
<1> QED
  BY <1>1, <1>2, <1>3, <1>4, ServerAssumption DEF Next, Cleanup, UploadKept

\* A step that changes the record of a session leaves its upload alone.
LEMMA RecordOrUpload ==
    ASSUME TypeOK, [Next]_vars, NEW s \in Sessions
    PROVE  sess'[s] = sess[s] \/ s3'[s] = s3[s]
<1>1. ASSUME NEW c \in Conns, SessionStep(c, s), HandlerStep(c), s3' # s3
      PROVE  sess' = sess
  BY <1>1 DEF HandlerStep, LockStep, FreeStep, CreateSession, GetSession,
       DeleteSession, CreateMultipartUpload, SetUploadID, ReadPaused,
       ReadCancelled, UploadPart, AddChunkCall, GetProgressCall, IsCompleteCall,
       CompleteMultipartUpload, SetCompleted, SetFailed, PauseCall, ReadState,
       ResumeCall, GetMissingChunksCall, CancelCall, AbortMultipartUpload
<1> QED
  BY <1>1, SessStep

-----------------------------------------------------------------------------
(* The refinement mapping.                                                 *)

\* The server starts where UploadService starts.
LEMMA InitImplements == Init => Abstract!Init
<1> SUFFICES ASSUME Init PROVE Abstract!Init
  OBVIOUS
<1>1. ASSUME NEW s \in Sessions
      PROVE  /\ Phase(s3[s]) = "none" /\ sess[s].totalChunks = 0
             /\ sess[s].received = Abstract!Empty /\ Object(s3[s]) = Abstract!Empty
  BY DEF Init, NoSession, NoUpload, Phase, Object, IsStored, Abstract!Empty
<1> QED
  BY <1>1 DEF Abstract!Init

\* Every step of the server is a step of UploadService on one upload, or
\* changes nothing that UploadService sees.
LEMMA StepImplements ==
    ASSUME IndexInRange, InductiveInv, [Next]_vars
    PROVE  [Abstract!Next]_(Abstract!vars)
<1>1. TypeOK
  BY DEF InductiveInv
<1>2. PICK s \in Sessions : \A t \in Sessions \ {s} : UploadKept(t)
  BY <1>1, StepIsAboutOne
<1>3. sess[s] \in Session /\ s3[s] \in Upload /\ SessionInv(s)
  BY <1>1 DEF TypeOK, InductiveInv
<1>4. ASSUME s3'[s] = s3[s], sess'[s].totalChunks = sess[s].totalChunks,
             sess'[s].received = sess[s].received
      PROVE  UNCHANGED Abstract!vars
  BY <1>2, <1>4 DEF UploadKept, Abstract!vars
<1>5. CASE sess'[s] = sess[s]
  <2>1. \A t \in Sessions : sess'[t] = sess[t]
    BY <1>2, <1>5 DEF UploadKept
  <2>2. CASE S3Kept(s)
    BY <1>4, <1>5, <2>2 DEF S3Kept
  <2>3. ASSUME NEW c \in Conns, CreatesUpload(c, s) PROVE Abstract!Next
    <3>1. s3[s] = NoUpload
      BY <2>3 DEF CreatesUpload, InductiveInv, HandlerInv
    <3>2. /\ Phase(s3[s]) = "none" /\ Phase(s3'[s]) = "open"
          /\ Object(s3'[s]) = Object(s3[s])
      BY <2>3, <3>1 DEF CreatesUpload, Created, NoUpload, Phase, Object, IsStored
    <3>3. Abstract!Open(s)
      BY <1>2, <2>1, <3>2 DEF Abstract!Open, UploadKept
    <3> QED
      BY <3>3 DEF Abstract!Next
  <2>4. ASSUME NEW c \in Conns, StoresPart(c, s) PROVE UNCHANGED Abstract!vars
    <3>1. Phase(s3'[s]) = Phase(s3[s]) /\ Object(s3'[s]) = Object(s3[s])
      BY <1>3, <2>4 DEF StoresPart, WithPart, Upload, Phase, Object, IsStored, IsOpen
    <3> QED
      BY <1>2, <2>1, <3>1 DEF UploadKept, Abstract!vars
  <2>5. ASSUME NEW c \in Conns, CompletesUpload(c, s), CompleteMultipartUpload(c)
        PROVE  Abstract!Next
    <3>1. Phase(s3[s]) = "open" /\ Phase(s3'[s]) = "stored" /\ IsStored(s3'[s])
      BY <2>5 DEF CompletesUpload, Completable, Completed, IsOpen, IsStored, Phase
    <3>2. Whole(sess[s], s3'[s])
      BY <1>5, <2>5, CompletingIsWhole
    <3>3. Object(s3'[s]) = sess[s].received
      BY <1>3, <3>1, <3>2 DEF Whole, Object, Session, Chunks
    <3>4. {i \in ChunkIndexes : sess[s].received[i] # NoChunk}
             = 0 .. sess[s].totalChunks - 1
      BY <3>2 DEF Whole, Received
    <3>5. Abstract!Store(s)
      BY <1>2, <2>1, <3>1, <3>3, <3>4 DEF Abstract!Store, UploadKept
    <3> QED
      BY <3>5 DEF Abstract!Next
  <2>6. ASSUME AbortsUpload(s) PROVE Abstract!Next
    <3>1. /\ Phase(s3[s]) = "open" /\ Phase(s3'[s]) = "dropped"
          /\ Object(s3'[s]) = Object(s3[s])
      BY <2>6 DEF AbortsUpload, Aborted, IsOpen, IsStored, Phase, Object
    <3>2. Abstract!Drop(s)
      BY <1>2, <2>1, <3>1 DEF Abstract!Drop, UploadKept
    <3> QED
      BY <3>2 DEF Abstract!Next
  <2> QED
    BY <1>1, <2>2, <2>3, <2>4, <2>5, <2>6, S3Step
<1>6. CASE sess'[s] # sess[s]
  <2>1. \A t \in Sessions : s3'[t] = s3[t]
    BY <1>1, <1>2, <1>6, RecordOrUpload DEF UploadKept
  <2>2. ASSUME NEW c \in Conns, Restated(c, s) \/ Identified(c, s)
        PROVE  UNCHANGED Abstract!vars
    BY <1>3, <1>4, <2>1, <2>2 DEF Restated, ChunksKept, Identified, Session
  <2>3. ASSUME NEW c \in Conns, Added(c, s) PROVE Abstract!Next
    <3>1. PICK i \in ChunkIndexes, d \in Contents :
             i = req[c].index /\ d = req[c].content
      BY <1>1, Typed
    <3>2. sess[s].received[i] = NoChunk
      BY <1>1, <1>6, <2>3, <3>1, AddedEffect
    <3>3. /\ sess'[s].received = [sess[s].received EXCEPT ![i] = d]
          /\ sess'[s].totalChunks = sess[s].totalChunks
      BY <1>1, <2>3, <3>1, <3>2, AddedEffect
    <3>4. i < sess[s].totalChunks
      BY <2>3, <3>1 DEF Added, AddChunkCall, InductiveInv, HandlerInv, ChunkLabels,
                  SessionLabels, InitLabels, Labels
    <3>5. Abstract!Record(s, i, d)
      BY <1>2, <2>1, <3>2, <3>3, <3>4 DEF Abstract!Record, UploadKept
    <3> QED
      BY <3>5 DEF Abstract!Next
  <2>4. ASSUME NEW c \in Conns, Begun(c, s) PROVE Abstract!Next
    <3>1. PICK n \in {r.totalChunks : r \in InitRequests} :
             n = req[c].total /\ sess[s].state = STATE_NONE
      BY <2>4 DEF Begun, CreateSession, InductiveInv, HandlerInv
    <3>2. Phase(s3[s]) = "none" /\ Received(sess[s]) = {}
      BY <1>3, <3>1 DEF SessionInv, Phase, NoUpload
    <3>3. sess[s].received = Abstract!Empty
      BY <1>3, <3>2 DEF Received, Session, Chunks, Abstract!Empty
    <3>4. sess'[s].received = sess[s].received /\ sess'[s].totalChunks = n
      BY <2>4, <3>1, <3>3 DEF Begun, NewSession, Abstract!Empty
    <3>5. Abstract!Declare(s, n)
      BY <1>2, <2>1, <3>2, <3>3, <3>4 DEF Abstract!Declare, UploadKept
    <3> QED
      BY <3>5 DEF Abstract!Next
  <2> QED
    BY <1>1, <1>6, <2>2, <2>3, <2>4, SessStep DEF SessionStep
<1> QED
  BY <1>5, <1>6

\* The server implements UploadService when clients number the chunks of an
\* upload from 0.
THEOREM ImplementsService ==
    ASSUME IndexInRange PROVE Spec => ImplementsUploadService
<1>1. InductiveInv /\ [Next]_vars => [Abstract!Next]_(Abstract!vars)
  BY StepImplements
<1> QED
  BY <1>1, InitImplements, InvariantHolds, PTL
     DEF Spec, ImplementsUploadService, Abstract!Spec

-----------------------------------------------------------------------------
(* What the answers say.                                                   *)

\* A connection that does not move keeps what it counted; otherwise its handler
\* makes a step, a request comes, or it is idle.
LEMMA ConnStep ==
    ASSUME TypeOK, [Next]_vars, NEW c \in Conns
    PROVE  \/ /\ pc'[c] = pc[c] /\ req'[c] = req[c]
              /\ local'[c].received = local[c].received
           \/ HandlerStep(c)
           \/ pc'[c] \in {"idle", "CreateSession", "GetSession"}
<1> DEFINE Kept == /\ pc'[c] = pc[c] /\ req'[c] = req[c]
                   /\ local'[c].received = local[c].received
<1>1. /\ pc \in [Conns -> Labels] /\ req \in [Conns -> Request]
      /\ local \in [Conns -> Locals]
  BY DEF TypeOK
<1>2. ASSUME NEW d \in Conns \ {c}, HandlerStep(d) PROVE Kept
  <2>1. pc'[c] = pc[c] /\ req'[c] = req[c]
    BY <1>2, HandlerFrame
  <2>2. local'[c] = local[c]
    BY <1>1, <1>2 DEF HandlerStep, LockStep, FreeStep, CreateSession, GetSession,
         DeleteSession, CreateMultipartUpload, SetUploadID, ReadPaused, ReadCancelled,
         UploadPart, AddChunkCall, GetProgressCall, IsCompleteCall,
         CompleteMultipartUpload, SetCompleted, SetFailed, PauseCall, ReadState,
         ResumeCall, GetMissingChunksCall, CancelCall, AbortMultipartUpload
  <2> QED
    BY <2>1, <2>2
<1>3. ASSUME NEW d \in Conns \ {c}, Receive(d) PROVE Kept
  <2>1. pc'[c] = pc[c] /\ req'[c] = req[c]
    BY <1>3, ReceiveFrame
  <2>2. local'[c] = local[c]
    BY <1>1, <1>3 DEF Receive, AuthFailed, Malformed, InitUpload, SessionRequest,
         UploadChunk, Dispatch, Refuse
  <2> QED
    BY <2>1, <2>2
<1>4. Receive(c) => pc'[c] \in {"idle", "CreateSession", "GetSession"}
  BY <1>1 DEF Receive, AuthFailed, Malformed, InitUpload, SessionRequest,
       UploadChunk, Dispatch, Refuse, Answer
<1>5. Restart => pc'[c] = "idle"
  BY DEF Restart
<1>6. Tick => Kept
  BY <1>1 DEF Tick, Locals
<1>7. CASE Cleanup \/ UNCHANGED vars
  BY <1>7 DEF Cleanup, CleanupTick, CleanupVisit, CleanupReap, CleanupDone, vars
<1> QED
  BY <1>2, <1>3, <1>4, <1>5, <1>6, <1>7 DEF Next

\* The chunks of a session that clients know only become more.
LEMMA ProgressGrows ==
    ASSUME InductiveInv, [Next]_vars, NEW s \in Sessions, sess[s].uploadID
    PROVE  /\ sess'[s].uploadID /\ sess'[s].totalChunks = sess[s].totalChunks
           /\ sess[s].state # STATE_NONE
           /\ Received(sess[s]) \subseteq Received(sess'[s])
           /\ GetProgress(sess[s]) \in Nat /\ GetProgress(sess'[s]) \in Nat
           /\ GetProgress(sess[s]) <= GetProgress(sess'[s])
<1>1. Stable(s) /\ SessionInv(s) /\ sess[s] \in Session /\ sess'[s] \in Session
  BY StableSession, NextTypeOK DEF InductiveInv, TypeOK
<1>2. Received(sess[s]) \subseteq Received(sess'[s])
  BY <1>1 DEF Stable
<1>3. IsFiniteSet(Received(sess'[s]))
  BY <1>1, ReceivedFinite
<1>4. GetProgress(sess[s]) <= GetProgress(sess'[s])
  BY <1>2, <1>3, FS_Subset DEF GetProgress
<1> QED
  BY <1>1, <1>2, <1>4, ReceivedFinite DEF Stable, SessionInv

\* What a handler has counted was recorded when it counted, and still is.
CountInv(c) ==
    pc[c] \in {"IsComplete", "GetMissingChunks"} =>
        /\ local[c].received \in Nat
        /\ local[c].received <= GetProgress(sess[req[c].sid])

\* No step makes a handler's count exceed what is recorded.
LEMMA CountStep ==
    ASSUME InductiveInv, [Next]_vars, NEW c \in Conns, CountInv(c)
    PROVE  CountInv(c)'
<1> DEFINE s == req[c].sid
<1>1. TypeOK /\ HandlerInv(c) /\ s \in Sessions /\ sess[s] \in Session
  BY Typed DEF InductiveInv
<1>2. CASE /\ pc'[c] = pc[c] /\ req'[c] = req[c]
           /\ local'[c].received = local[c].received
  <2>1. pc[c] \in {"IsComplete", "GetMissingChunks"} => sess[s].uploadID
    BY <1>1 DEF HandlerInv, SessionLabels, Labels, InitLabels
  <2>2. pc[c] \in {"IsComplete", "GetMissingChunks"} =>
            GetProgress(sess[s]) <= GetProgress(sess'[s])
            /\ GetProgress(sess[s]) \in Nat /\ GetProgress(sess'[s]) \in Nat
    BY <1>1, <2>1, ProgressGrows
  <2>3. local[c].received \in Nat
    BY <1>1 DEF TypeOK, Locals
  <2> QED
    BY <1>2, <2>2, <2>3 DEF CountInv
<1>3. CASE HandlerStep(c)
  <2>1. GetProgressCall(c) \/ pc'[c] \notin {"IsComplete", "GetMissingChunks"}
    <3>1. pc \in [Conns -> Labels]
      BY <1>1 DEF TypeOK
    <3> QED
      BY <1>3, <3>1 DEF HandlerStep, LockStep, FreeStep, CreateSession, GetSession,
         DeleteSession, CreateMultipartUpload, SetUploadID, ReadPaused, ReadCancelled,
         UploadPart, AddChunkCall, IsCompleteCall,
         CompleteMultipartUpload, SetCompleted, SetFailed, PauseCall, ReadState,
         ResumeCall, GetMissingChunksCall, CancelCall, AbortMultipartUpload,
         Goto, Answer, AnswerError, FirstCall
  <2>2. ASSUME GetProgressCall(c)
        PROVE  /\ local'[c].received = GetProgress(sess[s])
               /\ sess' = sess /\ req' = req
    BY <1>1, <2>2 DEF GetProgressCall, TypeOK, Locals
  <2> QED
    BY <1>1, <2>1, <2>2, ReceivedFinite DEF CountInv
<1>4. CASE pc'[c] \in {"idle", "CreateSession", "GetSession"}
  BY <1>4 DEF CountInv
<1> QED
  BY <1>1, <1>2, <1>3, <1>4, ConnStep

\* Answers whose truth depends on the session they are about.
Claims == {"RESP_CHUNK_ACK", "RESP_DUPLICATE", "RESP_RESUMED", "RESP_CANCELLED"}

\* They are given about sessions that clients know, and so for good.
ClaimInv(c) == reply[c].code \in Claims => sess[req[c].sid].uploadID

\* Whoever gives such an answer is a handler of a session that clients know,
\* and leaves the records as they are.
LEMMA ClaimAnswer ==
    ASSUME InductiveInv, NEW c \in Conns, Acks(c) \/ Resumes(c) \/ Cancels(c)
    PROVE  /\ req' = req /\ sess' = sess /\ sess[req[c].sid].uploadID
<1>1. /\ req' = req /\ sess' = sess
      /\ pc[c] \in {"IsComplete", "GetMissingChunks", "DeleteSession"}
  BY DEF Acks, Resumes, Cancels, IsCompleteCall, GetMissingChunksCall, DeleteSession
<1>2. HandlerInv(c)
  BY DEF InductiveInv
<1> QED
  BY <1>1, <1>2 DEF HandlerInv, SessionLabels, Labels, InitLabels

\* No step makes an answer speak of a session that clients do not know.
LEMMA ClaimStep ==
    ASSUME InductiveInv, [Next]_vars, NEW c \in Conns, ClaimInv(c)
    PROVE  ClaimInv(c)'
<1>1. TypeOK /\ req[c].sid \in Sessions
  BY Typed DEF InductiveInv
<1>2. CASE req'[c] = req[c] /\ reply'[c] = reply[c]
  BY <1>1, <1>2, ProgressGrows DEF ClaimInv
<1>3. CASE Acks(c) \/ Resumes(c) \/ Cancels(c)
  BY <1>3, ClaimAnswer DEF ClaimInv
<1>4. CASE reply'[c].code \in PlainCodes \/ Finishes(c)
  BY <1>4 DEF ClaimInv, Claims, PlainCodes, Finishes
<1> QED
  BY <1>1, <1>2, <1>3, <1>4, AnswerStep DEF Answers

\* No step makes RESP_CHUNK_ACK or RESP_DUPLICATE claim a complete upload, or
\* more chunks than are recorded.
LEMMA AckStep ==
    ASSUME InductiveInv, [Next]_vars, AckIsPartial,
           \A c \in Conns : CountInv(c) /\ ClaimInv(c)
    PROVE  AckIsPartial'
<1> SUFFICES ASSUME NEW c \in Conns,
                    reply'[c].code \in {"RESP_CHUNK_ACK", "RESP_DUPLICATE"}
             PROVE  /\ reply'[c].received <= GetProgress(sess'[req'[c].sid])
                    /\ IndexInRange =>
                          reply'[c].received < sess'[req'[c].sid].totalChunks
  BY DEF AckIsPartial
<1> DEFINE s == req[c].sid
<1>1. /\ TypeOK /\ s \in Sessions /\ sess[s] \in Session /\ SessionInv(s)
  BY Typed DEF InductiveInv
<1>2. CASE req'[c] = req[c] /\ reply'[c] = reply[c]
  <2>1. sess[s].uploadID
    BY <1>2 DEF ClaimInv, Claims
  <2>2. /\ reply[c].received <= GetProgress(sess[s])
        /\ IndexInRange => reply[c].received < sess[s].totalChunks
    BY <1>2 DEF AckIsPartial
  <2>3. reply[c].received \in Nat
    BY <1>1 DEF TypeOK, Response
  <2> QED
    BY <1>1, <1>2, <2>1, <2>2, <2>3, ProgressGrows
<1>3. CASE Acks(c)
  <2>1. req' = req /\ sess' = sess /\ pc[c] = "IsComplete"
    BY <1>3, ClaimAnswer DEF Acks, IsCompleteCall
  <2>2. sess[s].totalChunks \in Nat
    BY <1>1 DEF Session
  <2>3. /\ IsFiniteSet(0 .. sess[s].totalChunks - 1)
        /\ Cardinality(0 .. sess[s].totalChunks - 1) = sess[s].totalChunks
    BY <2>2, DeclaredSize
  <2>4. ASSUME IndexInRange PROVE GetProgress(sess[s]) <= sess[s].totalChunks
    <3> DEFINE all == 0 .. sess[s].totalChunks - 1
    <3>1. Received(sess[s]) \in SUBSET all /\ IsFiniteSet(all)
      BY <1>1, <2>3, <2>4 DEF SessionInv
    <3> HIDE DEF all
    <3>2. Cardinality(Received(sess[s])) <= Cardinality(all)
      BY <3>1, FS_Subset
    <3> QED
      BY <2>3, <3>2 DEF GetProgress, all
  <2>5. GetProgress(sess[s]) # sess[s].totalChunks
    BY <1>3 DEF Acks, IsComplete, GetProgress
  <2>6. GetProgress(sess[s]) \in Nat
    BY <1>1, ReceivedFinite
  <2>7. local[c].received \in Nat /\ local[c].received <= GetProgress(sess[s])
    BY <2>1 DEF CountInv
  <2> QED
    BY <1>3, <2>1, <2>2, <2>4, <2>5, <2>6, <2>7 DEF Acks
<1>4. ~(reply'[c].code \in PlainCodes \/ Resumes(c) \/ Finishes(c) \/ Cancels(c))
  BY DEF PlainCodes, Resumes, Finishes, Cancels
<1> QED
  BY <1>1, <1>2, <1>3, <1>4, AnswerStep DEF Answers

\* The chunks that are missing and those that are recorded add up.
LEMMA MissingCounts ==
    ASSUME NEW us \in Session, Received(us) \subseteq 0 .. us.totalChunks - 1
    PROVE  GetProgress(us) + Cardinality(GetMissingChunks(us)) = us.totalChunks
<1> DEFINE all == 0 .. us.totalChunks - 1
<1>1. us.totalChunks \in Nat
  BY DEF Session
<1>2. IsFiniteSet(all) /\ Cardinality(all) = us.totalChunks
  BY <1>1, DeclaredSize
<1>3. GetMissingChunks(us) = all \ Received(us) /\ all \cap Received(us) = Received(us)
  BY DEF GetMissingChunks
<1>4. Cardinality(all \ Received(us)) = Cardinality(all) - Cardinality(all \cap Received(us))
  BY <1>2, FS_Difference
<1>5. GetProgress(us) \in Nat
  BY ReceivedFinite
<1>6. Cardinality(GetMissingChunks(us)) = us.totalChunks - GetProgress(us)
  BY <1>2, <1>3, <1>4 DEF GetProgress
<1> QED
  BY <1>1, <1>5, <1>6

\* No step makes RESP_RESUMED hide a missing chunk.
LEMMA ResumeStep ==
    ASSUME InductiveInv, [Next]_vars, ResumeReportsMissing,
           \A c \in Conns : CountInv(c) /\ ClaimInv(c)
    PROVE  ResumeReportsMissing'
<1> DEFINE True(c, us, r) ==
        /\ r.missing \subseteq 0 .. us.totalChunks - 1
        /\ (0 .. us.totalChunks - 1) \ r.missing \subseteq Received(us)
        /\ IndexInRange => r.received + Cardinality(r.missing) <= us.totalChunks
<1> SUFFICES ASSUME NEW c \in Conns, reply'[c].code = "RESP_RESUMED"
             PROVE  True(c, sess'[req'[c].sid], reply'[c])
  BY DEF ResumeReportsMissing
<1> DEFINE s == req[c].sid
<1>1. /\ TypeOK /\ s \in Sessions /\ sess[s] \in Session /\ SessionInv(s)
  BY Typed DEF InductiveInv
<1>2. CASE req'[c] = req[c] /\ reply'[c] = reply[c]
  <2>1. sess[s].uploadID /\ True(c, sess[s], reply[c])
    BY <1>2 DEF ClaimInv, Claims, ResumeReportsMissing
  <2>2. /\ sess'[s].totalChunks = sess[s].totalChunks
        /\ Received(sess[s]) \subseteq Received(sess'[s])
    BY <1>1, <2>1, ProgressGrows
  <2> QED
    BY <1>2, <2>1, <2>2
<1>3. CASE Resumes(c)
  <2> DEFINE us == sess[s]
             missing == GetMissingChunks(us)
  <2>1. req' = req /\ sess' = sess /\ pc[c] = "GetMissingChunks"
    BY <1>3, ClaimAnswer DEF Resumes, GetMissingChunksCall
  <2>2. reply'[c].missing = missing /\ reply'[c].received = local[c].received
    BY <1>3 DEF Resumes
  <2>3. /\ missing \subseteq 0 .. us.totalChunks - 1
        /\ (0 .. us.totalChunks - 1) \ missing \subseteq Received(us)
    BY DEF GetMissingChunks
  <2>4. ASSUME IndexInRange
        PROVE  local[c].received + Cardinality(missing) <= us.totalChunks
    <3>1. Received(us) \subseteq 0 .. us.totalChunks - 1
      BY <1>1, <2>4 DEF SessionInv
    <3>2. GetProgress(us) + Cardinality(missing) = us.totalChunks
      BY <1>1, <3>1, MissingCounts
    <3>3. IsFiniteSet(0 .. us.totalChunks - 1)
      BY <1>1, DeclaredSize DEF Session
    <3>4. Cardinality(missing) \in Nat
      BY <2>3, <3>3, FS_Subset, FS_CardinalityType
    <3>5. /\ local[c].received \in Nat /\ GetProgress(us) \in Nat
          /\ local[c].received <= GetProgress(us)
      BY <1>1, <2>1, ReceivedFinite DEF CountInv
    <3> QED
      BY <3>2, <3>4, <3>5
  <2> QED
    BY <2>1, <2>2, <2>3, <2>4
<1>4. ~(reply'[c].code \in PlainCodes \/ Acks(c) \/ Finishes(c) \/ Cancels(c))
  BY DEF PlainCodes, Acks, Finishes, Cancels
<1> QED
  BY <1>1, <1>2, <1>3, <1>4, AnswerStep DEF Answers

\* A handler that is about to delete its session has let go of the upload.
DeletingInv(c) ==
    Faults = {} /\ pc[c] = "DeleteSession" => ~IsOpen(s3[req[c].sid])

\* An upload of a session that clients know does not open again.
LEMMA NotReopened ==
    ASSUME InductiveInv, [Next]_vars, NEW s \in Sessions, sess[s].uploadID,
           ~IsOpen(s3[s])
    PROVE  ~IsOpen(s3'[s])
  BY StableSession DEF Stable

\* An abort that storage does not fail leaves the upload closed.
LEMMA AbortCloses ==
    ASSUME TypeOK, Faults = {}, NEW s \in Sessions, AbortUpload(s)
    PROVE  ~IsOpen(s3'[s])
<1>1. s3 \in [Sessions -> Upload]
  BY DEF TypeOK
<1>2. CASE S3Succeeds(s, IsOpen(s3[s]), Aborted(s3[s]))
  <2>1. s3'[s] = Aborted(s3[s])
    BY <1>1, <1>2 DEF S3Succeeds
  <2> QED
    BY <2>1 DEF Aborted, IsOpen
<1>3. CASE S3Fails(s, IsOpen(s3[s]), Aborted(s3[s]))
  BY <1>3 DEF S3Fails
<1> QED
  BY <1>2, <1>3 DEF AbortUpload

\* Nobody gets to the deletion with the upload still open.
LEMMA DeletingStep ==
    ASSUME InductiveInv, [Next]_vars, NEW c \in Conns, DeletingInv(c)
    PROVE  DeletingInv(c)'
<1> SUFFICES ASSUME Faults = {}, pc'[c] = "DeleteSession"
             PROVE  ~IsOpen(s3'[req'[c].sid])
  BY DEF DeletingInv
<1> DEFINE s == req[c].sid
<1>1. /\ TypeOK /\ HandlerInv(c) /\ s \in Sessions /\ pc \in [Conns -> Labels]
  BY Typed DEF InductiveInv, TypeOK
<1>2. CASE pc'[c] = pc[c] /\ req'[c] = req[c]
  <2>1. sess[s].uploadID
    BY <1>1, <1>2 DEF HandlerInv, SessionLabels, Labels, InitLabels
  <2> QED
    BY <1>1, <1>2, <2>1, NotReopened DEF DeletingInv
<1>3. CASE HandlerStep(c)
  <2>1. req' = req
    BY <1>1, <1>3, HandlerAnswer
  <2>2. AbortMultipartUpload(c) \/ (CancelCall(c) /\ ~sess[s].uploadID)
    BY <1>1, <1>3 DEF HandlerStep, LockStep, FreeStep, CreateSession, GetSession,
         DeleteSession, CreateMultipartUpload, SetUploadID, ReadPaused, ReadCancelled,
         UploadPart, AddChunkCall, GetProgressCall, IsCompleteCall,
         CompleteMultipartUpload, SetCompleted, SetFailed, PauseCall, ReadState,
         ResumeCall, GetMissingChunksCall, CancelCall, Goto, Answer, AnswerError,
         FirstCall
  <2>3. ~(CancelCall(c) /\ ~sess[s].uploadID)
    BY <1>1 DEF CancelCall, HandlerInv, SessionLabels, Labels, InitLabels
  <2>4. AbortUpload(s)
    BY <2>2, <2>3 DEF AbortMultipartUpload
  <2> QED
    BY <1>1, <2>1, <2>4, AbortCloses
<1> QED
  BY <1>1, <1>2, <1>3, ConnStep

\* How a session enters and leaves the table.
LEMMA TableStep ==
    ASSUME TypeOK, [Next]_vars, NEW s \in Sessions
    PROVE  \/ s \in sessions <=> s \in sessions'
           \/ \E c \in Conns : CreateSession(c) /\ req[c].sid = s
           \/ \E c \in Conns : DeleteSession(c) /\ req[c].sid = s
           \/ CleanupReap(s)
           \/ Restart
<1> SUFFICES ASSUME ~(s \in sessions <=> s \in sessions'), ~Restart
             PROVE  \/ \E c \in Conns : CreateSession(c) /\ req[c].sid = s
                    \/ \E c \in Conns : DeleteSession(c) /\ req[c].sid = s
                    \/ CleanupReap(s)
  OBVIOUS
<1>1. ASSUME NEW c \in Conns, HandlerStep(c)
      PROVE  (CreateSession(c) \/ DeleteSession(c)) /\ req[c].sid = s
  BY <1>1 DEF HandlerStep, LockStep, FreeStep, CreateSession, GetSession,
       DeleteSession, CreateMultipartUpload, SetUploadID, ReadPaused, ReadCancelled,
       UploadPart, AddChunkCall, GetProgressCall, IsCompleteCall,
       CompleteMultipartUpload, SetCompleted, SetFailed, PauseCall, ReadState,
       ResumeCall, GetMissingChunksCall, CancelCall, AbortMultipartUpload
<1>2. ASSUME NEW c \in Conns, Receive(c) PROVE FALSE
  BY <1>2 DEF Receive, AuthFailed, Malformed, InitUpload, SessionRequest,
       UploadChunk, Dispatch, Refuse
<1>3. ASSUME NEW r \in Sessions, CleanupReap(r) PROVE r = s
  BY <1>3 DEF CleanupReap
<1>4. CASE CleanupTick \/ (\E r \in Sessions : CleanupVisit(r)) \/ CleanupDone
           \/ Tick \/ UNCHANGED vars
  BY <1>4 DEF CleanupTick, CleanupVisit, CleanupDone, Tick, vars
<1> QED
  BY <1>1, <1>2, <1>3, <1>4 DEF Next, Cleanup

\* A session that clients know enters the table once.
LEMMA NotReentered ==
    ASSUME InductiveInv, [Next]_vars, NEW s \in Sessions, sess[s].uploadID,
           s \notin sessions
    PROVE  s \notin sessions'
<1>1. TypeOK /\ sess[s].state # STATE_NONE
  BY DEF InductiveInv, SessionInv
<1>2. ~\E c \in Conns : CreateSession(c) /\ req[c].sid = s
  BY <1>1 DEF CreateSession, InductiveInv, HandlerInv
<1> QED
  BY <1>1, <1>2, TableStep DEF DeleteSession, CleanupReap, Restart

\* No step brings a cancelled session or its upload back.
LEMMA CancelledStep ==
    ASSUME InductiveInv, [Next]_vars, CancelledIsGone,
           \A c \in Conns : ClaimInv(c) /\ DeletingInv(c)
    PROVE  CancelledIsGone'
<1> SUFFICES ASSUME NEW c \in Conns, reply'[c].code = "RESP_CANCELLED"
             PROVE  /\ req'[c].sid \notin sessions'
                    /\ Faults = {} => ~IsOpen(s3'[req'[c].sid])
  BY DEF CancelledIsGone
<1> DEFINE s == req[c].sid
<1>1. TypeOK /\ s \in Sessions
  BY Typed DEF InductiveInv
<1>2. CASE req'[c] = req[c] /\ reply'[c] = reply[c]
  <2>1. sess[s].uploadID
    BY <1>2 DEF ClaimInv, Claims
  <2> QED
    BY <1>1, <1>2, <2>1, NotReentered, NotReopened DEF CancelledIsGone
<1>3. CASE Cancels(c)
  BY <1>3 DEF Cancels, DeleteSession, DeletingInv
<1>4. ~(reply'[c].code \in PlainCodes \/ Acks(c) \/ Resumes(c) \/ Finishes(c))
  BY DEF PlainCodes, Acks, Resumes, Finishes
<1> QED
  BY <1>1, <1>2, <1>3, <1>4, AnswerStep DEF Answers

\* What makes the answers true, with what the server does anyway.
AnswersInv ==
    /\ \A c \in Conns : CountInv(c) /\ ClaimInv(c) /\ DeletingInv(c)
    /\ AckIsPartial
    /\ ResumeReportsMissing
    /\ CancelledIsGone

\* No answer has been given and nothing is counted at the start.
LEMMA InitAnswersInv == Init => AnswersInv
  BY DEF Init, AnswersInv, CountInv, ClaimInv, Claims, DeletingInv, NoReply,
         AckIsPartial, ResumeReportsMissing, CancelledIsGone

\* No step of the server makes an answer false.
LEMMA NextAnswersInv == InductiveInv /\ AnswersInv /\ [Next]_vars => AnswersInv'
<1> SUFFICES ASSUME InductiveInv, AnswersInv, [Next]_vars PROVE AnswersInv'
  OBVIOUS
<1>1. ASSUME NEW c \in Conns PROVE (CountInv(c) /\ ClaimInv(c) /\ DeletingInv(c))'
  BY CountStep, ClaimStep, DeletingStep DEF AnswersInv
<1>2. AckIsPartial' /\ ResumeReportsMissing' /\ CancelledIsGone'
  BY AckStep, ResumeStep, CancelledStep DEF AnswersInv
<1> QED
  BY <1>1, <1>2 DEF AnswersInv

\* What makes the answers true holds in every state the server reaches.
LEMMA AnswersInvariant == Spec => []AnswersInv
  BY InitAnswersInv, NextAnswersInv, InvariantHolds, PTL DEF Spec

\* However many connections send the chunks of an upload, a client is never
\* told of more chunks than are recorded; and if clients number chunks from 0,
\* the one whose chunk is the last gets another answer (server.go:299-317).
THEOREM AcksArePartial == Spec => []AckIsPartial
<1>1. AnswersInv => AckIsPartial
  BY DEF AnswersInv
<1> QED
  BY <1>1, AnswersInvariant, PTL

\* A client that resumes and sends what RESP_RESUMED lists as missing has sent
\* everything, although the answer is put together in three steps.
THEOREM ResumedListsAllMissing == Spec => []ResumeReportsMissing
<1>1. AnswersInv => ResumeReportsMissing
  BY DEF AnswersInv
<1> QED
  BY <1>1, AnswersInvariant, PTL

\* Whatever else is in progress on a session, once RESP_CANCELLED is out it is
\* not in the table and does not return; without S3 errors its upload is not
\* open any more: aborted, or completed by a handler that was finalizing it.
THEOREM CancelledStaysGone == Spec => []CancelledIsGone
<1>1. AnswersInv => CancelledIsGone
  BY DEF AnswersInv
<1> QED
  BY <1>1, AnswersInvariant, PTL

-----------------------------------------------------------------------------
(* Who changes a session.                                                  *)

\* A handler past the owner check acts for the owner of its session.
CheckedLabels == Labels \ {"idle", "CreateSession", "GetSession"}

OwnerInv(c) == pc[c] \in CheckedLabels => sess[req[c].sid].user = req[c].user

\* A session changes hands never.
LEMMA UserStays ==
    ASSUME InductiveInv, [Next]_vars, NEW s \in Sessions, sess[s].state # STATE_NONE
    PROVE  sess'[s].user = sess[s].user
<1>1. TypeOK /\ sess[s] \in Session
  BY DEF InductiveInv, TypeOK
<1>2. ASSUME NEW c \in Conns, Restated(c, s) \/ Identified(c, s)
      PROVE  sess'[s].user = sess[s].user
  BY <1>1, <1>2 DEF Restated, Identified, Session
<1>3. ASSUME NEW c \in Conns, Added(c, s) PROVE sess'[s].user = sess[s].user
  BY <1>1, <1>3 DEF Added, AddChunk, Session
<1>4. ASSUME NEW c \in Conns, Begun(c, s) PROVE FALSE
  BY <1>4 DEF Begun, CreateSession, InductiveInv, HandlerInv
<1> QED
  BY <1>1, <1>2, <1>3, <1>4, SessStep DEF SessionStep

\* A handler past the owner check has a session that exists.
LEMMA CheckedExists ==
    ASSUME InductiveInv, NEW c \in Conns, pc[c] \in CheckedLabels
    PROVE  sess[req[c].sid].state # STATE_NONE
<1>1. req[c].sid \in Sessions
  BY Typed DEF InductiveInv
<1>2. HandlerInv(c) /\ SessionInv(req[c].sid)
  BY <1>1 DEF InductiveInv
<1>3. pc[c] \in SessionLabels \/ pc[c] \in InitLabels \ {"CreateSession"}
  BY DEF CheckedLabels, SessionLabels, InitLabels
<1> QED
  BY <1>2, <1>3 DEF HandlerInv, SessionInv

\* No step gets a handler past the owner check for somebody else.
LEMMA OwnerStep ==
    ASSUME InductiveInv, [Next]_vars, NEW c \in Conns, OwnerInv(c)
    PROVE  OwnerInv(c)'
<1> DEFINE s == req[c].sid
<1>1. TypeOK /\ s \in Sessions /\ pc \in [Conns -> Labels]
      /\ sess \in [Sessions -> Session]
  BY Typed DEF InductiveInv, TypeOK
<1>2. ASSUME pc[c] \in CheckedLabels PROVE sess'[s].user = req[c].user
  BY <1>1, <1>2, CheckedExists, UserStays DEF OwnerInv
<1>3. CASE pc'[c] = pc[c] /\ req'[c] = req[c]
  BY <1>2, <1>3 DEF OwnerInv
<1>4. CASE HandlerStep(c)
  <2>1. req' = req
    BY <1>1, <1>4, HandlerAnswer
  <2>2. CASE pc[c] \in CheckedLabels
    BY <1>2, <2>1, <2>2 DEF OwnerInv
  <2>3. CASE GetSession(c)
    <3>1. sess[s].user = req[c].user \/ pc'[c] = "idle"
      BY <1>1, <2>3 DEF GetSession, AnswerError, Answer
    <3> QED
      BY <1>1, <2>1, <2>3, <3>1 DEF GetSession, OwnerInv, CheckedLabels
  <2>4. CASE CreateSession(c)
    <3>1. sess'[s] = NewSession(req[c].user, req[c].total, now)
      BY <1>1, <2>4 DEF CreateSession, Update
    <3> QED
      BY <2>1, <3>1 DEF NewSession, OwnerInv
  <2>5. pc[c] # "idle"
    BY <1>1, <1>4, HandlerFrame
  <2>6. pc[c] = "GetSession" => GetSession(c)
    BY <1>4 DEF HandlerStep, LockStep, FreeStep, CreateSession,
         DeleteSession, CreateMultipartUpload, SetUploadID, ReadPaused, ReadCancelled,
         UploadPart, AddChunkCall, GetProgressCall, IsCompleteCall,
         CompleteMultipartUpload, SetCompleted, SetFailed, PauseCall, ReadState,
         ResumeCall, GetMissingChunksCall, CancelCall, AbortMultipartUpload
  <2>7. pc[c] = "CreateSession" => CreateSession(c)
    BY <1>4 DEF HandlerStep, LockStep, FreeStep, GetSession,
         DeleteSession, CreateMultipartUpload, SetUploadID, ReadPaused, ReadCancelled,
         UploadPart, AddChunkCall, GetProgressCall, IsCompleteCall,
         CompleteMultipartUpload, SetCompleted, SetFailed, PauseCall, ReadState,
         ResumeCall, GetMissingChunksCall, CancelCall, AbortMultipartUpload
  <2> QED
    BY <1>1, <2>2, <2>3, <2>4, <2>5, <2>6, <2>7 DEF CheckedLabels
<1>5. CASE pc'[c] \in {"idle", "CreateSession", "GetSession"}
  BY <1>5 DEF OwnerInv, CheckedLabels
<1> QED
  BY <1>1, <1>3, <1>4, <1>5, ConnStep

\* A step that changes a session is a handler's, for the owner, or clean-up's.
LEMMA ChangeIsOwners ==
    ASSUME InductiveInv, [Next]_vars, \A c \in Conns : OwnerInv(c),
           NEW s \in Sessions, ~UploadKept(s)
    PROVE  \/ s \in cleanup.victim
           \/ \E c \in Conns : /\ pc[c] # "idle" /\ req[c].sid = s
                              /\ req[c].user = sess'[s].user
<1>1. TypeOK /\ sess \in [Sessions -> Session]
  BY DEF InductiveInv, TypeOK
<1>2. ASSUME NEW c \in Conns, HandlerStep(c)
      PROVE  pc[c] # "idle" /\ req[c].sid = s /\ req[c].user = sess'[s].user
  <2>1. pc[c] # "idle" /\ req[c].sid = s
    BY <1>1, <1>2, HandlerIsAboutOne, HandlerFrame
  <2>2. CASE pc[c] \in CheckedLabels
    BY <2>1, <2>2, CheckedExists, UserStays DEF OwnerInv
  <2>3. CASE CreateSession(c)
    BY <1>1, <2>1, <2>3 DEF CreateSession, Update, NewSession
  <2>4. ~GetSession(c)
    BY DEF GetSession, UploadKept
  <2>5. pc[c] \in CheckedLabels \/ CreateSession(c) \/ GetSession(c)
    BY <1>1, <1>2 DEF HandlerStep, LockStep, FreeStep, CreateSession, GetSession,
         DeleteSession, CreateMultipartUpload, SetUploadID, ReadPaused, ReadCancelled,
         UploadPart, AddChunkCall, GetProgressCall, IsCompleteCall,
         CompleteMultipartUpload, SetCompleted, SetFailed, PauseCall, ReadState,
         ResumeCall, GetMissingChunksCall, CancelCall, AbortMultipartUpload,
         CheckedLabels, Labels
  <2> QED
    BY <2>1, <2>2, <2>3, <2>4, <2>5
<1>3. ASSUME NEW r \in Sessions, CleanupReap(r) PROVE s \in cleanup.victim
  <2>1. r = s
    BY <1>1, <1>3 DEF CleanupReap, AbortUpload, S3Succeeds, S3Fails, UploadKept, TypeOK
  <2> QED
    BY <1>3, <2>1 DEF CleanupReap
<1>4. ASSUME NEW c \in Conns, Receive(c) PROVE FALSE
  BY <1>1, <1>4, ReceiveFrame DEF UploadKept
<1>5. CASE CleanupTick \/ (\E r \in Sessions : CleanupVisit(r)) \/ CleanupDone
           \/ Tick \/ Restart \/ UNCHANGED vars
  BY <1>5 DEF CleanupTick, CleanupVisit, CleanupDone, Tick, Restart, vars, UploadKept
<1> QED
  BY <1>2, <1>3, <1>4, <1>5 DEF Next, Cleanup

\* Nobody's token gets at the session of another user, also not by racing
\* with requests of the owner: the check at the start of a handler is enough.
THEOREM OnlyOwnersChange == Spec => OnlyOwnerChangesSession
<1> DEFINE Owners == \A c \in Conns : OwnerInv(c)
<1>1. Init => Owners
  BY DEF Init, OwnerInv, CheckedLabels
<1>2. InductiveInv /\ Owners /\ [Next]_vars => Owners'
  BY OwnerStep
<1> DEFINE Change(s) == (sess'[s] # sess[s] \/ s3'[s] # s3[s]) =>
                           \/ s \in cleanup.victim
                           \/ \E c \in Conns : /\ pc[c] # "idle"
                                              /\ req[c].sid = s
                                              /\ req[c].user = sess'[s].user
<1>3. InductiveInv /\ Owners /\ [Next]_vars => [\A s \in Sessions : Change(s)]_vars
  BY ChangeIsOwners DEF UploadKept
<1> QED
  BY <1>1, <1>2, <1>3, InvariantHolds, PTL DEF Spec, OnlyOwnerChangesSession

-----------------------------------------------------------------------------
(* Pausing.  A handler that was past the check when the session was paused *)
(* may still add its chunk; when those are done, none does.                *)

\* Only a request to pause gets to Pause.
PauseLabelInv(c) == pc[c] = "Pause" => req[c].cmd # "CMD_UPLOAD_CHUNK"

\* No step brings another request there.
LEMMA PauseLabelStep ==
    ASSUME TypeOK, [Next]_vars, NEW c \in Conns, PauseLabelInv(c)
    PROVE  PauseLabelInv(c)'
<1>1. pc \in [Conns -> Labels]
  BY DEF TypeOK
<1>2. CASE HandlerStep(c)
  <2>1. req' = req
    BY <1>2, HandlerAnswer
  <2>2. ASSUME pc'[c] = "Pause" PROVE req[c].cmd # "CMD_UPLOAD_CHUNK"
    BY <1>1, <1>2, <2>2 DEF HandlerStep, LockStep, FreeStep,
         CreateSession, GetSession, DeleteSession, CreateMultipartUpload,
         SetUploadID, ReadPaused, ReadCancelled, UploadPart, AddChunkCall,
         GetProgressCall, IsCompleteCall, CompleteMultipartUpload, SetCompleted,
         SetFailed, PauseCall, ReadState, ResumeCall, GetMissingChunksCall,
         CancelCall, AbortMultipartUpload, Goto, Answer, AnswerError, FirstCall
  <2> QED
    BY <2>1, <2>2 DEF PauseLabelInv
<1> QED
  BY <1>2, ConnStep DEF PauseLabelInv

\* The check is where a handler gets past the check, unless it resumes.
LEMMA PastTheCheckByIt ==
    ASSUME TypeOK, [Next]_vars, NEW c \in Conns, PauseLabelInv(c),
           PastPausedCheck(c)'
    PROVE  /\ req'[c] = req[c]
           /\ \/ PastPausedCheck(c)
              \/ pc[c] = "ReadPaused" /\ sess[req[c].sid].state # STATE_PAUSED
              \/ pc[c] = "Resume"
<1>1. pc \in [Conns -> Labels]
  BY DEF TypeOK
<1>2. CASE HandlerStep(c)
  <2>1. req' = req
    BY <1>2, HandlerAnswer
  <2>2. CASE PastPausedCheck(c)
    BY <2>1, <2>2
  <2>3. CASE ~PastPausedCheck(c)
    <3>1. ~LockStep(c)
      BY <1>1, <2>1, <2>3 DEF LockStep, CreateSession, GetSession,
           DeleteSession, Goto, Answer, AnswerError, FirstCall, PastPausedCheck
    <3>2. FreeStep(c)
      BY <1>2, <3>1 DEF HandlerStep
    <3>3. ReadPaused(c) \/ ResumeCall(c)
      BY <1>1, <2>1, <2>3, <3>2 DEF FreeStep, CreateMultipartUpload,
         SetUploadID, ReadCancelled, UploadPart, AddChunkCall, GetProgressCall,
         IsCompleteCall, CompleteMultipartUpload, SetCompleted, SetFailed,
         PauseCall, ReadState, GetMissingChunksCall, CancelCall,
         AbortMultipartUpload, Goto, Answer, AnswerError, PauseLabelInv,
         PastPausedCheck
    <3>4. ReadPaused(c) /\ sess[req[c].sid].state = STATE_PAUSED => pc'[c] = "idle"
      BY <1>1 DEF ReadPaused, AnswerError, Answer
    <3> QED
      BY <2>1, <3>3, <3>4 DEF ReadPaused, ResumeCall, PastPausedCheck
  <2> QED
    BY <2>2, <2>3
<1>3. CASE pc'[c] = pc[c] /\ req'[c] = req[c]
  BY <1>3 DEF PastPausedCheck
<1>4. CASE pc'[c] \in {"idle", "CreateSession", "GetSession"}
  BY <1>4 DEF PastPausedCheck
<1> QED
  BY <1>2, <1>3, <1>4, ConnStep

\* A session at rest is left alone but by resume and cancel.
LEMMA RestIsLeftAlone ==
    ASSUME InductiveInv, [Next]_vars, NEW s \in Sessions, AtRest(s)
    PROVE  /\ sess'[s].received = sess[s].received
           /\ \/ sess'[s].state = STATE_PAUSED
              \/ \E c \in Conns : req[c].sid = s /\ pc[c] \in {"Resume", "Cancel"}
<1>1. TypeOK /\ sess \in [Sessions -> Session] /\ sess[s].state = STATE_PAUSED
  BY DEF InductiveInv, TypeOK, AtRest
<1>2. CASE sess'[s] = sess[s]
  BY <1>1, <1>2
<1>3. ASSUME NEW c \in Conns, HandlerStep(c), SessionStep(c, s), sess'[s] # sess[s]
      PROVE  /\ req[c].sid = s
             /\ sess'[s].received = sess[s].received
             /\ sess'[s].state # STATE_PAUSED => pc[c] \in {"Resume", "Cancel"}
  <2>1. req[c].sid = s
    BY <1>3 DEF SessionStep, Restated, Added, Begun, Identified
  <2>2. ~Begun(c, s)
    BY <1>1 DEF Begun, CreateSession, InductiveInv, HandlerInv, STATE_PAUSED, STATE_NONE
  <2>3. ~PastPausedCheck(c)
    BY <2>1 DEF AtRest
  <2>4. ~AddChunkCall(c)
    BY <2>3 DEF AddChunkCall, PastPausedCheck
  <2>5. CASE Identified(c, s)
    BY <1>1, <2>1, <2>5 DEF Identified, Session
  <2>6. CASE Restated(c, s)
    <3>1. ~SetCompleted(c) /\ ~SetFailed(c)
      BY <2>3 DEF SetCompleted, SetFailed, PastPausedCheck
    <3>2. PauseCall(c) => sess'[s].state = STATE_PAUSED
      BY <1>1, <2>1 DEF PauseCall, Update, Pause, Session
    <3>3. pc[c] \in {"Resume", "Cancel"} \/ PauseCall(c)
      BY <1>3, <2>4, <2>6, <3>1 DEF HandlerStep, LockStep, FreeStep, CreateSession,
           GetSession, DeleteSession, CreateMultipartUpload, SetUploadID, ReadPaused,
           ReadCancelled, UploadPart, GetProgressCall, IsCompleteCall,
           CompleteMultipartUpload, ReadState, ResumeCall, GetMissingChunksCall,
           CancelCall, AbortMultipartUpload, Restated, SessionLabels, InitLabels
    <3> QED
      BY <2>1, <2>6, <3>2, <3>3 DEF Restated, ChunksKept
  <2> QED
    BY <1>3, <2>1, <2>2, <2>4, <2>5, <2>6 DEF SessionStep, Added
<1> QED
  BY <1>1, <1>2, <1>3, SessStep

\* No handler gets past the check of a session at rest, unless it resumes.
LEMMA NobodyEnters ==
    ASSUME InductiveInv, [Next]_vars, \A c \in Conns : PauseLabelInv(c),
           NEW s \in Sessions, AtRest(s),
           ~\E c \in Conns : req[c].sid = s /\ pc[c] \in {"Resume", "Cancel"}
    PROVE  AtRest(s)'
<1>1. TypeOK
  BY DEF InductiveInv
<1>2. ASSUME NEW c \in Conns, req'[c].sid = s, PastPausedCheck(c)' PROVE FALSE
  <2>1. /\ req'[c] = req[c]
        /\ \/ PastPausedCheck(c)
           \/ pc[c] = "ReadPaused" /\ sess[req[c].sid].state # STATE_PAUSED
           \/ pc[c] = "Resume"
    BY <1>1, <1>2, PastTheCheckByIt
  <2> QED
    BY <1>2, <2>1 DEF AtRest
<1> QED
  BY <1>2, RestIsLeftAlone DEF AtRest

\* A pause takes hold, on however many connections requests for the upload are
\* in progress: what was past the check (server.go:268) is all that can still
\* be added.
THEOREM PausedUploadsRest == Spec => PauseTakesHold
<1> DEFINE Labelled == \A c \in Conns : PauseLabelInv(c)
           Rests(s) == AtRest(s) =>
                          /\ sess'[s].received = sess[s].received
                          /\ \/ AtRest(s)'
                             \/ \E c \in Conns : req[c].sid = s /\ pc[c] \in {"Resume", "Cancel"}
<1>1. Init => Labelled
  BY DEF Init, PauseLabelInv
<1>2. InductiveInv /\ Labelled /\ [Next]_vars => Labelled'
  BY PauseLabelStep DEF InductiveInv
<1>3. InductiveInv /\ Labelled /\ [Next]_vars => [\A s \in Sessions : Rests(s)]_vars
  BY RestIsLeftAlone, NobodyEnters
<1> QED
  BY <1>1, <1>2, <1>3, InvariantHolds, PTL DEF Spec, PauseTakesHold

-----------------------------------------------------------------------------
(* No upload is lost.  This takes storage that does not fail, a server     *)
(* that is not restarted, and handlers that are done within the hour:      *)
(* clean-up measures by the clock, and aborts only what has an upload id.  *)

\* A session that is getting its upload is in the table, and young.
CreatingLabels == {"CreateMultipartUpload", "SetUploadID"}

CreationInv(c) ==
    pc[c] \in CreatingLabels =>
        /\ req[c].sid \in sessions
        /\ sess[req[c].sid].state = STATE_INITIALIZED
        /\ now <= sess[req[c].sid].updatedAt + (IF local[c].spans THEN 1 ELSE 0)

\* Clean-up looks at sessions that exist, by a clock that is not ahead, and
\* does not reap one that is getting its upload.
ReaperInv ==
    /\ cleanup.now <= now
    /\ \A s \in sessions \cup cleanup.todo \cup cleanup.victim :
          sess[s].state # STATE_NONE
    /\ \A s \in cleanup.victim, c \in Conns :
          pc[c] \in CreatingLabels => req[c].sid # s

NoLossInv ==
    /\ \A c \in Conns : CreationInv(c) /\ DeletingInv(c)
    /\ ReaperInv
    /\ NoOrphanedUpload

\* The circumstances of the theorem.
Undisturbed == Faults = {} /\ MaxRestarts = 0 /\ PromptHandlers

\* Without restarts the process never starts again.
LEMMA NeverRestarts == ASSUME TypeOK, Undisturbed PROVE ~Restart
  BY DEF TypeOK, Undisturbed, Restart

\* A handler that creates an upload keeps its session young and in the table.
LEMMA CreationStep ==
    ASSUME Undisturbed, InductiveInv, [Next]_vars, ReaperInv,
           NEW c \in Conns, CreationInv(c)
    PROVE  CreationInv(c)'
<1> DEFINE s == req[c].sid
<1>1. /\ TypeOK /\ s \in Sessions /\ pc \in [Conns -> Labels]
      /\ sess \in [Sessions -> Session] /\ local \in [Conns -> Locals]
      /\ now \in Nat /\ sess[s].updatedAt \in Nat
  BY Typed DEF InductiveInv, TypeOK, Session
<1>2. CASE HandlerStep(c)
  <2>1. req' = req
    BY <1>1, <1>2, HandlerAnswer
  <2>2. CASE pc[c] \in SessionLabels
    BY <1>1, <1>2, <2>2, HandlerFlow
       DEF Flow, CreationInv, CreatingLabels, SessionLabels, InitLabels
  <2>3. CASE CreateSession(c)
    <3>1. /\ sess'[s] = NewSession(req[c].user, req[c].total, now)
          /\ s \in sessions' /\ now' = now /\ local' = local
      BY <1>1, <2>3 DEF CreateSession, Update
    <3>2. sess'[s].state = STATE_INITIALIZED /\ sess'[s].updatedAt = now
      BY <3>1 DEF NewSession
    <3> QED
      BY <1>1, <2>1, <3>1, <3>2 DEF CreationInv
  <2>4. CASE CreateMultipartUpload(c)
    BY <2>1, <2>4 DEF CreateMultipartUpload, CreationInv, CreatingLabels
  <2>5. CASE SetUploadID(c)
    <3>1. pc'[c] = "idle"
      BY <1>1, <2>5 DEF SetUploadID, Answer
    <3> QED
      BY <3>1 DEF CreationInv, CreatingLabels
  <2>6. pc[c] \in SessionLabels \/ CreateSession(c) \/ CreateMultipartUpload(c)
        \/ SetUploadID(c)
    BY <1>1, <1>2 DEF HandlerStep, LockStep, FreeStep, GetSession, DeleteSession,
         ReadPaused, ReadCancelled, UploadPart, AddChunkCall, GetProgressCall,
         IsCompleteCall, CompleteMultipartUpload, SetCompleted, SetFailed, PauseCall,
         ReadState, ResumeCall, GetMissingChunksCall, CancelCall,
         AbortMultipartUpload, SessionLabels, InitLabels, Labels
  <2> QED
    BY <2>2, <2>3, <2>4, <2>5, <2>6
<1> SUFFICES ASSUME ~HandlerStep(c), pc'[c] \in CreatingLabels
             PROVE  CreationInv(c)'
  BY <1>2 DEF CreationInv
<1>3. pc'[c] = pc[c] /\ req'[c] = req[c]
  BY <1>1, ConnStep DEF CreatingLabels
<1>4. /\ s \in sessions /\ sess[s].state = STATE_INITIALIZED
      /\ now <= sess[s].updatedAt + (IF local[c].spans THEN 1 ELSE 0)
  BY <1>3 DEF CreationInv
<1>5. \A d \in Conns : HandlerStep(d) => d # c /\ req[d].sid # s
  <2> SUFFICES ASSUME NEW d \in Conns, HandlerStep(d) PROVE d # c /\ req[d].sid # s
    OBVIOUS
  <2>1. pc[d] # "idle" /\ d # c
    BY <1>1, HandlerFrame
  <2> QED
    BY <1>3, <2>1 DEF InductiveInv, Exclusive, CreatingLabels, InitLabels
<1>6. sess'[s] = sess[s]
  BY <1>1, <1>5, SessStep DEF SessionStep, Restated, Added, Begun, Identified
<1>7. s \in sessions'
  <2>1. ~CleanupReap(s)
    BY <1>3 DEF CleanupReap, ReaperInv
  <2>2. ~\E d \in Conns : DeleteSession(d) /\ req[d].sid = s
    BY <1>5 DEF HandlerStep, LockStep
  <2>3. ~\E d \in Conns : CreateSession(d) /\ req[d].sid = s
    BY <1>5 DEF HandlerStep, LockStep
  <2> QED
    BY <1>1, <1>4, <2>1, <2>2, <2>3, TableStep, NeverRestarts
<1>8. now' <= sess[s].updatedAt + (IF local'[c].spans THEN 1 ELSE 0)
  <2>1. CASE Tick
    <3>1. pc[c] # "idle"
      BY <1>3 DEF CreatingLabels
    <3>2. ~local[c].spans /\ now' = now + 1
      BY <2>1, <3>1 DEF Tick
    <3>3. local'[c].spans
      BY <1>1, <2>1, <3>1 DEF Tick, Undisturbed, Locals
    <3> QED
      BY <1>1, <1>4, <3>2, <3>3
  <2>2. CASE ~Tick
    <3>1. ASSUME NEW d \in Conns, HandlerStep(d)
          PROVE  now' = now /\ local'[c].spans = local[c].spans
      BY <1>1, <1>5, <3>1 DEF HandlerStep, LockStep, FreeStep, CreateSession,
           GetSession, DeleteSession, CreateMultipartUpload, SetUploadID, ReadPaused,
           ReadCancelled, UploadPart, AddChunkCall, GetProgressCall, IsCompleteCall,
           CompleteMultipartUpload, SetCompleted, SetFailed, PauseCall, ReadState,
           ResumeCall, GetMissingChunksCall, CancelCall, AbortMultipartUpload
    <3>2. ASSUME NEW d \in Conns, Receive(d)
          PROVE  now' = now /\ local'[c].spans = local[c].spans
      <4>1. d # c
        BY <1>1, <1>3, <3>2 DEF Receive, AuthFailed, Malformed, InitUpload,
             SessionRequest, UploadChunk, MaySend, CreatingLabels
      <4> QED
        BY <1>1, <3>2, <4>1 DEF Receive, AuthFailed, Malformed, InitUpload,
             SessionRequest, UploadChunk, Dispatch, Refuse
    <3>3. CASE Cleanup \/ UNCHANGED vars
      BY <3>3, <1>4 DEF Cleanup, CleanupTick, CleanupVisit, CleanupReap, CleanupDone, vars
    <3> QED
      BY <1>1, <1>4, <2>2, <3>1, <3>2, <3>3, NeverRestarts DEF Next
  <2> QED
    BY <2>1, <2>2
<1> QED
  BY <1>3, <1>4, <1>6, <1>7, <1>8 DEF CreationInv

\* What a step can do to clean-up's own notes.
LEMMA CleanupStep ==
    ASSUME TypeOK, [Next]_vars
    PROVE  \/ cleanup' = cleanup
           \/ CleanupTick
           \/ \E s \in Sessions : CleanupVisit(s) \/ CleanupReap(s)
           \/ cleanup' = NoCleanup
<1>1. ASSUME NEW c \in Conns, HandlerStep(c) PROVE cleanup' = cleanup
  BY <1>1 DEF HandlerStep, LockStep, FreeStep, CreateSession, GetSession,
       DeleteSession, CreateMultipartUpload, SetUploadID, ReadPaused, ReadCancelled,
       UploadPart, AddChunkCall, GetProgressCall, IsCompleteCall,
       CompleteMultipartUpload, SetCompleted, SetFailed, PauseCall, ReadState,
       ResumeCall, GetMissingChunksCall, CancelCall, AbortMultipartUpload
<1>2. ASSUME NEW c \in Conns, Receive(c) PROVE cleanup' = cleanup
  BY <1>2 DEF Receive, AuthFailed, Malformed, InitUpload, SessionRequest,
       UploadChunk, Dispatch, Refuse
<1> QED
  BY <1>1, <1>2 DEF Next, Cleanup, CleanupDone, Tick, Restart, vars

\* The clock does not go back.
LEMMA ClockStep ==
    ASSUME TypeOK, [Next]_vars
    PROVE  now \in Nat /\ now' \in Nat /\ now <= now'
<1>1. now \in Nat
  BY DEF TypeOK, Hours
<1>2. CASE Tick
  BY <1>1, <1>2 DEF Tick
<1>3. ASSUME NEW c \in Conns, HandlerStep(c) PROVE now' = now
  BY <1>3 DEF HandlerStep, LockStep, FreeStep, CreateSession, GetSession,
       DeleteSession, CreateMultipartUpload, SetUploadID, ReadPaused, ReadCancelled,
       UploadPart, AddChunkCall, GetProgressCall, IsCompleteCall,
       CompleteMultipartUpload, SetCompleted, SetFailed, PauseCall, ReadState,
       ResumeCall, GetMissingChunksCall, CancelCall, AbortMultipartUpload
<1>4. ASSUME NEW c \in Conns, Receive(c) PROVE now' = now
  BY <1>4 DEF Receive, AuthFailed, Malformed, InitUpload, SessionRequest,
       UploadChunk, Dispatch, Refuse
<1>5. Cleanup \/ Restart \/ UNCHANGED vars => now' = now
  BY DEF Cleanup, CleanupTick, CleanupVisit, CleanupReap, CleanupDone, Restart, vars
<1> QED
  BY <1>1, <1>2, <1>3, <1>4, <1>5 DEF Next

\* Clean-up does not pick a session that is getting its upload: it is at most
\* an hour old by any clock, and no session goes stale that fast.
LEMMA ReaperStep ==
    ASSUME Undisturbed, InductiveInv, [Next]_vars, ReaperInv,
           \A c \in Conns : CreationInv(c)
    PROVE  ReaperInv'
<1>1. /\ TypeOK /\ cleanup \in Cleanups /\ sess \in [Sessions -> Session]
      /\ pc \in [Conns -> Labels] /\ cleanup.now \in Nat
  BY DEF InductiveInv, TypeOK, Cleanups, Hours
<1>2. /\ now \in Nat /\ now' \in Nat /\ now <= now'
  BY <1>1, ClockStep
<1>3. cleanup'.now <= now'
  <2>1. CleanupTick => cleanup'.now = now
    BY DEF CleanupTick
  <2>2. (\E s \in Sessions : CleanupVisit(s) \/ CleanupReap(s)) =>
            cleanup'.now = cleanup.now
    BY <1>1 DEF CleanupVisit, CleanupReap, Cleanups
  <2>3. cleanup' = NoCleanup => cleanup'.now = 0
    BY DEF NoCleanup
  <2> QED
    BY <1>1, <1>2, <2>1, <2>2, <2>3, CleanupStep DEF ReaperInv
<1>4. /\ cleanup'.victim \subseteq cleanup.victim \cup cleanup.todo
      /\ cleanup'.todo \subseteq cleanup.todo \cup sessions
      /\ \A s \in cleanup'.victim \ cleanup.victim : Stale(sess[s], cleanup.now)
  <2>1. CASE CleanupTick
    BY <2>1 DEF CleanupTick
  <2>2. ASSUME NEW s \in Sessions, CleanupVisit(s) PROVE <1>4!:
    BY <1>1, <2>2 DEF CleanupVisit, Cleanups
  <2>3. ASSUME NEW s \in Sessions, CleanupReap(s) PROVE <1>4!:
    BY <1>1, <2>3 DEF CleanupReap, Cleanups
  <2>4. CASE cleanup' = NoCleanup
    BY <2>4 DEF NoCleanup
  <2> QED
    BY <1>1, <2>1, <2>2, <2>3, <2>4, CleanupStep
<1>5. ASSUME NEW s \in Sessions,
             s \in sessions' \cup cleanup'.todo \cup cleanup'.victim
      PROVE  sess'[s].state # STATE_NONE
  <2>1. ASSUME NEW c \in Conns, CreateSession(c), req[c].sid = s
        PROVE  sess'[s].state # STATE_NONE
    BY <1>1, <2>1 DEF CreateSession, Update, NewSession, STATE_INITIALIZED, STATE_NONE
  <2>2. s \in sessions \cup cleanup.todo \cup cleanup.victim =>
            sess'[s].state # STATE_NONE
    BY StableSession DEF Stable, ReaperInv
  <2>3. s \in sessions' =>
            s \in sessions \/ \E c \in Conns : CreateSession(c) /\ req[c].sid = s
    BY <1>1, TableStep DEF DeleteSession, CleanupReap, Restart
  <2> QED
    BY <1>4, <1>5, <2>1, <2>2, <2>3
<1>6. ASSUME NEW s \in cleanup'.victim, NEW c \in Conns,
             pc'[c] \in CreatingLabels, req'[c].sid = s
      PROVE  FALSE
  <2>1. s \in sessions \cup cleanup.todo \cup cleanup.victim
    BY <1>4
  <2>2. sess[s].state # STATE_NONE /\ s \in Sessions
    BY <1>1, <2>1 DEF ReaperInv, Cleanups, TypeOK
  <2>3. req'[c] = req[c] /\ pc[c] \in CreatingLabels
    <3>1. CASE HandlerStep(c)
      <4>1. req' = req
        BY <1>1, <3>1, HandlerAnswer
      <4>2. ~CreateSession(c)
        BY <1>6, <2>2, <4>1 DEF CreateSession, InductiveInv, HandlerInv
      <4>3. pc[c] \notin SessionLabels
        BY <1>1, <1>6, <3>1, HandlerFlow
           DEF Flow, CreatingLabels, SessionLabels, InitLabels
      <4>4. pc[c] \in Labels /\ pc[c] # "idle"
        BY <1>1, <3>1, HandlerFrame
      <4>5. pc[c] = "CreateSession" => CreateSession(c)
        BY <3>1 DEF HandlerStep, LockStep, FreeStep, GetSession, DeleteSession,
             CreateMultipartUpload, SetUploadID, ReadPaused, ReadCancelled,
             UploadPart, AddChunkCall, GetProgressCall, IsCompleteCall,
             CompleteMultipartUpload, SetCompleted, SetFailed, PauseCall, ReadState,
             ResumeCall, GetMissingChunksCall, CancelCall, AbortMultipartUpload
      <4> QED
        BY <4>1, <4>2, <4>3, <4>4, <4>5 DEF SessionLabels, InitLabels, CreatingLabels
    <3>2. CASE ~HandlerStep(c)
      BY <1>1, <1>6, <3>2, ConnStep DEF CreatingLabels
    <3> QED
      BY <3>1, <3>2
  <2>4. CASE s \in cleanup.victim
    BY <1>6, <2>3, <2>4 DEF ReaperInv
  <2>5. CASE s \notin cleanup.victim
    <3>1. Stale(sess[s], cleanup.now)
      BY <1>4, <2>5
    <3>2. /\ sess[s].state = STATE_INITIALIZED
          /\ now <= sess[s].updatedAt + (IF local[c].spans THEN 1 ELSE 0)
      BY <1>6, <2>3 DEF CreationInv
    <3>3. Timeout(sess[s].state) = SESSION_TIMEOUT
      BY <3>2 DEF Timeout, STATE_INITIALIZED, STATE_COMPLETED, STATE_CANCELLED
    <3>4. sess[s].updatedAt \in Nat
      BY <1>1, <2>2 DEF Session
    <3>5. cleanup.now <= now
      BY DEF ReaperInv
    <3> QED
      BY <1>1, <1>2, <3>1, <3>2, <3>3, <3>4, <3>5, ServerAssumption DEF Stale
  <2> QED
    BY <2>4, <2>5
<1>7. sessions' \cup cleanup'.todo \cup cleanup'.victim \subseteq Sessions
  BY NextTypeOK DEF InductiveInv, TypeOK, Cleanups
<1> QED
  BY <1>3, <1>5, <1>6, <1>7 DEF ReaperInv

\* A busy connection waits for its own handler.
LEMMA BusyStays ==
    ASSUME TypeOK, [Next]_vars, ~Restart, NEW c \in Conns, pc[c] # "idle"
    PROVE  HandlerStep(c) \/ (pc'[c] = pc[c] /\ req'[c] = req[c])
<1>1. ASSUME NEW d \in Conns \ {c}, HandlerStep(d) \/ Receive(d)
      PROVE  pc'[c] = pc[c] /\ req'[c] = req[c]
  BY <1>1, HandlerFrame, ReceiveFrame
<1>2. ~Receive(c)
  BY DEF Receive, AuthFailed, Malformed, InitUpload, SessionRequest, UploadChunk,
       MaySend
<1>3. Cleanup \/ Tick \/ UNCHANGED vars => pc' = pc /\ req' = req
  BY DEF Cleanup, CleanupTick, CleanupVisit, CleanupReap, CleanupDone, Tick, vars
<1> QED
  BY <1>1, <1>2, <1>3 DEF Next

\* An open upload is opened by a session in the table, and stays where
\* clean-up finds it until it is closed.
LEMMA NoOrphanStep ==
    ASSUME Undisturbed, InductiveInv, NoLossInv, [Next]_vars
    PROVE  NoOrphanedUpload'
<1> SUFFICES ASSUME NEW s \in Sessions, IsOpen(s3'[s])
             PROVE  /\ s \in sessions'
                    /\ \/ sess'[s].uploadID
                       \/ \E c \in Conns : pc'[c] = "SetUploadID" /\ req'[c].sid = s
  BY DEF NoOrphanedUpload
<1>1. /\ TypeOK /\ Faults = {} /\ ~Restart /\ sess \in [Sessions -> Session]
      /\ pc \in [Conns -> Labels]
  BY NeverRestarts DEF InductiveInv, Undisturbed, TypeOK
<1>2. CASE ~IsOpen(s3[s])
  <2>1. PICK c \in Conns : CreatesUpload(c, s) /\ CreateMultipartUpload(c)
    BY <1>1, <1>2, S3Step
       DEF S3Kept, StoresPart, CompletesUpload, Completable, AbortsUpload
  <2>2. s \in sessions
    BY <2>1 DEF CreatesUpload, NoLossInv, CreationInv, CreatingLabels
  <2>3. pc'[c] = "SetUploadID" /\ req'[c].sid = s /\ sessions' = sessions
    BY <1>1, <2>1 DEF CreatesUpload, CreateMultipartUpload, S3Fails, Goto
  <2> QED
    BY <2>2, <2>3
<1>3. CASE IsOpen(s3[s])
  <2>1. /\ s \in sessions
        /\ \/ sess[s].uploadID
           \/ \E c \in Conns : pc[c] = "SetUploadID" /\ req[c].sid = s
    BY <1>3 DEF NoLossInv, NoOrphanedUpload
  <2>2. s \in sessions'
    <3>1. ~\E c \in Conns : CreateSession(c) /\ req[c].sid = s
      BY <1>3 DEF CreateSession, InductiveInv, HandlerInv, SessionInv, NoUpload, IsOpen
    <3>2. ~\E c \in Conns : DeleteSession(c) /\ req[c].sid = s
      BY <1>1, <1>3 DEF DeleteSession, NoLossInv, DeletingInv
    <3>3. ~CleanupReap(s)
      <4> SUFFICES ASSUME CleanupReap(s) PROVE FALSE
        OBVIOUS
      <4>1. sess[s].uploadID
        BY <2>1 DEF CleanupReap, NoLossInv, ReaperInv, CreatingLabels
      <4>2. sess[s].state # STATE_COMPLETED
        BY <1>3 DEF InductiveInv, CompleteIsStored, IsStored, IsOpen
      <4>3. AbortUpload(s)
        BY <4>1, <4>2 DEF CleanupReap
      <4> QED
        BY <1>1, <4>3, AbortCloses
    <3> QED
      BY <1>1, <2>1, <3>1, <3>2, <3>3, TableStep
  <2>3. CASE sess[s].uploadID
    BY <2>2, <2>3, StableSession DEF Stable
  <2>4. ASSUME NEW c \in Conns, pc[c] = "SetUploadID", req[c].sid = s
        PROVE  \/ sess'[s].uploadID
               \/ pc'[c] = "SetUploadID" /\ req'[c].sid = s
    <3>1. CASE HandlerStep(c)
      <4>1. SetUploadID(c)
        BY <2>4, <3>1 DEF HandlerStep, LockStep, FreeStep, CreateSession, GetSession,
             DeleteSession, CreateMultipartUpload, ReadPaused, ReadCancelled,
             UploadPart, AddChunkCall, GetProgressCall, IsCompleteCall,
             CompleteMultipartUpload, SetCompleted, SetFailed, PauseCall, ReadState,
             ResumeCall, GetMissingChunksCall, CancelCall, AbortMultipartUpload
      <4>2. sess[s] \in Session /\ sess' = [sess EXCEPT ![s] = [sess[s] EXCEPT !.uploadID = TRUE]]
        BY <1>1, <2>4, <4>1 DEF SetUploadID, Update
      <4> QED
        BY <1>1, <4>2 DEF Session
    <3>2. CASE ~HandlerStep(c)
      BY <1>1, <2>4, <3>2, BusyStays
    <3> QED
      BY <3>1, <3>2
  <2> QED
    BY <2>1, <2>2, <2>3, <2>4
<1> QED
  BY <1>2, <1>3

\* NoOrphanedUpload: with storage that does not fail, no restarts and handlers
\* that are done within the hour, every open upload is one that clean-up finds.
THEOREM NoUploadIsLost ==
    ASSUME Undisturbed
    PROVE  Spec => []NoOrphanedUpload
<1>1. Init => NoLossInv
  BY DEF Init, NoLossInv, CreationInv, DeletingInv, CreatingLabels, ReaperInv,
       NoOrphanedUpload, NoUpload, IsOpen, NoCleanup
<1>2. ASSUME InductiveInv, NoLossInv, [Next]_vars PROVE NoLossInv'
  <2>1. \A c \in Conns : CreationInv(c)' /\ DeletingInv(c)'
    BY <1>2, CreationStep, DeletingStep DEF NoLossInv
  <2>2. ReaperInv'
    BY <1>2, ReaperStep DEF NoLossInv
  <2>3. NoOrphanedUpload'
    BY <1>2, NoOrphanStep
  <2> QED
    BY <2>1, <2>2, <2>3 DEF NoLossInv
<1>3. NoLossInv => NoOrphanedUpload
  BY DEF NoLossInv
<1> QED
  BY <1>1, <1>2, <1>3, InvariantHolds, PTL DEF Spec
=============================================================================
