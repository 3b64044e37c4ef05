----------------------- MODULE MCFileUploadServer -----------------------
(***************************************************************************)
(* Small instances of FileUploadServer.  Hours are hours: SESSION_TIMEOUT  *)
(* is 2 and FINISHED_TIMEOUT 1 as in the code; sizes are in units of 5 MB, *)
(* so MIN_CHUNK_SIZE is 1 and MAX_CHUNK_SIZE 20.                           *)
(***************************************************************************)
EXTENDS FileUploadServer, TLC

CONSTANTS c1, c2, s1, s2, a, b, alice, bob, tokenA, tokenB, tokenX

OneUser   == {alice}
TwoUsers  == {alice, bob}
OneToken  == {tokenA}
AllTokens == {tokenA, tokenB, tokenX}

\* tokenX is a token the server was never given.
UserOf(tokens) == [t \in tokens |-> CASE t = tokenA -> alice
                                      [] t = tokenB -> bob
                                      [] OTHER      -> NoUser]
OneTokenUser  == UserOf(OneToken)
AllTokenUser  == UserOf(AllTokens)

OneTokenDuration   == [t \in OneToken |-> 24]
AllTokenDuration   == [t \in AllTokens |-> IF t = tokenA THEN 0 ELSE 24]

Accepted(n) == [supported |-> TRUE, totalChunks |-> n, chunkSize |-> 1]

OneChunk    == {Accepted(1)}
TwoChunks   == {Accepted(2)}
\* Also: no chunk at all, a wrong type, a file too large, a chunk too small
\* and one too large.
ManyInits == {Accepted(2), Accepted(1), Accepted(0),
              [supported |-> FALSE, totalChunks |-> 2, chunkSize |-> 1],
              [supported |-> TRUE, totalChunks |-> 3, chunkSize |-> 20],
              [supported |-> TRUE, totalChunks |-> 1, chunkSize |-> 0],
              [supported |-> TRUE, totalChunks |-> 1, chunkSize |-> 21]}

Symmetry == Permutations(Conns)
ConnsAndContents == Permutations(Conns) \cup Permutations(Contents)
=============================================================================
