--------------------------- MODULE UploadService ---------------------------
(***************************************************************************)
(* What the upload server promises about one upload, whatever the order    *)
(* of requests, pauses, retries, timeouts, S3 errors and restarts: a chunk *)
(* is recorded once and never replaced; the object appears at most once,   *)
(* in one step, after every chunk was recorded, is exactly the recorded    *)
(* chunks, and never changes; an upload that was dropped leaves no object. *)
(***************************************************************************)
EXTENDS Integers

CONSTANTS Uploads, Totals, ChunkIndexes, Contents, NoChunk

VARIABLES
    phase,      \* upload -> "none", "open", "stored" or "dropped"
    total,      \* upload -> number of chunks declared
    recorded,   \* upload -> chunk index -> content, or NoChunk
    object      \* upload -> the stored object, chunk by chunk

vars == <<phase, total, recorded, object>>

Empty == [i \in ChunkIndexes |-> NoChunk]

Init == /\ phase = [u \in Uploads |-> "none"]
        /\ total = [u \in Uploads |-> 0]
        /\ recorded = [u \in Uploads |-> Empty]
        /\ object = [u \in Uploads |-> Empty]

Declare(u, n) ==
    /\ phase[u] = "none" /\ recorded[u] = Empty
    /\ total' = [total EXCEPT ![u] = n]
    /\ UNCHANGED <<phase, recorded, object>>

Open(u) ==
    /\ phase[u] = "none"
    /\ phase' = [phase EXCEPT ![u] = "open"]
    /\ UNCHANGED <<total, recorded, object>>

Record(u, i, d) ==
    /\ i < total[u] /\ recorded[u][i] = NoChunk
    /\ recorded' = [recorded EXCEPT ![u][i] = d]
    /\ UNCHANGED <<phase, total, object>>

Store(u) ==
    /\ phase[u] = "open"
    /\ {i \in ChunkIndexes : recorded[u][i] # NoChunk} = 0 .. total[u] - 1
    /\ phase' = [phase EXCEPT ![u] = "stored"]
    /\ object' = [object EXCEPT ![u] = recorded[u]]
    /\ UNCHANGED <<total, recorded>>

Drop(u) ==
    /\ phase[u] = "open"
    /\ phase' = [phase EXCEPT ![u] = "dropped"]
    /\ UNCHANGED <<total, recorded, object>>

Next == \E u \in Uploads :
            \/ \E n \in Totals : Declare(u, n)
            \/ Open(u)
            \/ \E i \in ChunkIndexes, d \in Contents : Record(u, i, d)
            \/ Store(u)
            \/ Drop(u)

Spec == Init /\ [][Next]_vars
=============================================================================
