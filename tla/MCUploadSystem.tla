--------------------------- MODULE MCUploadSystem ---------------------------
(***************************************************************************)
(* Small instances of UploadSystem.  Sizes are in halves of 5 MB: the page *)
(* cuts files into chunks of 2, the server's MIN_CHUNK_SIZE.               *)
(***************************************************************************)
EXTENDS UploadSystem

CONSTANTS c1, c2, c3, s1, s2, u3, a, b, alice, tokenA

OneTokenUser   == [t \in {tokenA} |-> alice]
OneTokenDuration == [t \in {tokenA} |-> 24]
ExpiringToken == [t \in {tokenA} |-> 0]

OnlyDeclared == {Declared}

OneEach == SubSeq(<<c1, c2, c3>>, 1, MaxUploads)

\* Neighbouring chunks of a file differ, and so do the files of two uploads.
Alternating == [u \in Attempts |-> [i \in ChunkIndexes |-> IF (i + u) % 2 = 0 THEN a ELSE b]]
=============================================================================
