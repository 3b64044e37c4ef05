--------------------------- MODULE MCServerTraffic ---------------------------
(***************************************************************************)
(* ServerTraffic with one request of each kind and the ways a request can  *)
(* be refused before its handler looks at a session.                       *)
(***************************************************************************)
EXTENDS ServerTraffic

Session == <<7, 8>>
Valid   == {<<1>>}

NewRequest(cmd, number, size, data) ==
    [cmd |-> cmd, id |-> Session, number |-> number, size |-> size, data |-> data]

InitRequest  == NewRequest(CMD_INIT_UPLOAD, 2, 3, <<>>)
ChunkRequest == NewRequest(CMD_UPLOAD_CHUNK, 258, 3, <<4, 0, 5>>)
PauseRequest == NewRequest(3, 0, 0, <<>>)

Message(token, payload, request) ==
    [token |-> token, payload |-> payload, request |-> request]

\* A chunk whose payload ends one byte early.
Truncated == SubSeq(buildChunkPayload(ChunkRequest), 1,
                    Len(buildChunkPayload(ChunkRequest)) - 1)

MCMessages == <<
    Message(<<1>>, buildInitPayload(InitRequest), InitRequest),
    Message(<<1>>, Truncated, ChunkRequest),
    Message(<<1>>, buildChunkPayload(ChunkRequest), ChunkRequest),
    Message(<<2>>, buildSessionPayload(PauseRequest), PauseRequest),
    Message(<<1>>, <<>>, PauseRequest),
    Message(<<1>>, <<9>>, NotUnderstood),
    Message(<<1>>, buildSessionPayload(PauseRequest), PauseRequest),
    Message(<<1, 1, 1, 1>>, <<>>, PauseRequest) >>
=============================================================================
