--------------------------- MODULE UploadSession ---------------------------
(***************************************************************************)
(* gnet-backend/session.go: the in-memory record of one upload and the     *)
(* methods on it.  Every method holds us.mu from its first to its last     *)
(* line, so each is one operator on the record, applied in one step.       *)
(*                                                                         *)
(* A chunk's payload stands for its sha256 hash and for the ETag storage   *)
(* returns for it: both are functions of the payload, and injective here.  *)
(***************************************************************************)
EXTENDS Integers, Sequences, FiniteSets

CONSTANTS
    Users,          \* user ids that tokens resolve to
    NoUser,         \* the empty user id of an unused record
    ChunkIndexes,   \* chunk indexes clients put in CMD_UPLOAD_CHUNK
    Contents,       \* chunk payloads
    NoChunk         \* no payload: the index is absent from the map

ASSUME ChunkIndexesAssumption ==
    ChunkIndexes \subseteq Nat /\ IsFiniteSet(ChunkIndexes)
ASSUME NoChunkAssumption == NoChunk \notin Contents

STATE_INITIALIZED == "initialized"
STATE_UPLOADING   == "uploading"
STATE_PAUSED      == "paused"
STATE_COMPLETED   == "completed"
STATE_CANCELLED   == "cancelled"
STATE_FAILED      == "failed"
STATE_NONE        == "none"          \* no session was created under this id

States == {STATE_INITIALIZED, STATE_UPLOADING, STATE_PAUSED, STATE_COMPLETED,
           STATE_CANCELLED, STATE_FAILED, STATE_NONE}

PartNumber(index) == index + 1
PartNumbers == {PartNumber(i) : i \in ChunkIndexes}

CompletedPart == [number : PartNumbers, etag : Contents]

Chunks == [ChunkIndexes -> Contents \cup {NoChunk}]

Session ==
    [user        : Users \cup {NoUser},
     totalChunks : Nat,
     state       : States,
     received    : Chunks,
     parts       : Seq(CompletedPart),
     uploadID    : BOOLEAN,          \* UploadID # ""
     updatedAt   : Nat]

NoSession ==
    [user |-> NoUser, totalChunks |-> 0, state |-> STATE_NONE,
     received |-> [i \in ChunkIndexes |-> NoChunk], parts |-> <<>>,
     uploadID |-> FALSE, updatedAt |-> 0]

NewSession(user, totalChunks, now) ==
    [user |-> user, totalChunks |-> totalChunks, state |-> STATE_INITIALIZED,
     received |-> [i \in ChunkIndexes |-> NoChunk], parts |-> <<>>,
     uploadID |-> FALSE, updatedAt |-> now]

-----------------------------------------------------------------------------
Received(us) == {i \in ChunkIndexes : us.received[i] # NoChunk}

\* What AddChunk returns: the index is there already, with the same hash.
IsDuplicate(us, index, content) == us.received[index] = content

\* Mutants: the part number is one too high; the chunk is appended again.
AddChunkShifted(us, index, content, now) ==
    IF us.received[index] # NoChunk THEN us
    ELSE [us EXCEPT !.received[index] = content,
                    !.parts = Append(@, [number |-> PartNumber(index) + 1,
                                         etag   |-> content]),
                    !.state = STATE_UPLOADING, !.updatedAt = now]
AddChunkTwice(us, index, content, now) ==
    [us EXCEPT !.received[index] = content,
               !.parts = Append(@, [number |-> PartNumber(index),
                                    etag   |-> content]),
               !.state = STATE_UPLOADING, !.updatedAt = now]

AddChunk(us, index, content, now) ==
    IF us.received[index] # NoChunk THEN us
    ELSE [us EXCEPT !.received  = [@ EXCEPT ![index] = content],
                    !.parts     = Append(@, [number |-> PartNumber(index),
                                             etag   |-> content]),
                    !.state     = STATE_UPLOADING,
                    !.updatedAt = now]

GetProgress(us) == Cardinality(Received(us))

\* Mutants: one chunk too many, one too few.
IsCompleteLate(us)  == Cardinality(Received(us)) = us.totalChunks + 1
IsCompleteEarly(us) == Cardinality(Received(us)) >= us.totalChunks - 1

IsComplete(us) == Cardinality(Received(us)) = us.totalChunks

\* Mutant: the loop starts at 1.
GetMissingChunksFromOne(us) ==
    {i \in 1 .. us.totalChunks - 1 : i \notin Received(us)}

GetMissingChunks(us) == {i \in 0 .. us.totalChunks - 1 : i \notin Received(us)}

Pause(us, now)  == [us EXCEPT !.state = STATE_PAUSED,    !.updatedAt = now]
Resume(us, now) == [us EXCEPT !.state = STATE_UPLOADING, !.updatedAt = now]
Cancel(us, now) == [us EXCEPT !.state = STATE_CANCELLED, !.updatedAt = now]
=============================================================================
