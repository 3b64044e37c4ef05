---------------------------- MODULE S3Multipart ----------------------------
(***************************************************************************)
(* The multipart-upload side of the object store (MinIO), as far as the    *)
(* server uses it.  It is not under src/: these operators say what the     *)
(* four calls of gnet-backend rely on.  An upload is open from its         *)
(* creation until it is completed or aborted; then its id is unknown and   *)
(* every call that names it fails.  Completing takes a list of (number,    *)
(* ETag) pairs that must be non-empty, in ascending part order, and match  *)
(* the stored parts; the object is made of the listed parts.               *)
(***************************************************************************)
EXTENDS UploadSession

Upload == [status : {"none", "open", "completed", "aborted"},
           parts  : [PartNumbers -> Contents \cup {NoChunk}]]

NoParts  == [n \in PartNumbers |-> NoChunk]
NoUpload == [status |-> "none", parts |-> NoParts]

IsOpen(mp)   == mp.status = "open"
IsStored(mp) == mp.status = "completed"

Created(mp) == [mp EXCEPT !.status = "open"]

WithPart(mp, number, content) ==
    [mp EXCEPT !.parts = [@ EXCEPT ![number] = content]]

Listed(list) == {list[k].number : k \in DOMAIN list}

Completable(mp, list) ==
    /\ IsOpen(mp)
    /\ list # <<>>
    /\ \A j, k \in DOMAIN list : j < k => list[j].number < list[k].number
    /\ \A k \in DOMAIN list : mp.parts[list[k].number] = list[k].etag

Completed(mp, list) ==
    [status |-> "completed",
     parts  |-> [n \in PartNumbers |->
                    IF n \in Listed(list) THEN mp.parts[n] ELSE NoChunk]]

Aborted(mp) == [status |-> "aborted", parts |-> NoParts]
=============================================================================
