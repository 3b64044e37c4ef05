# Verification of the upload path

TLA+ models of the resumable-upload system of this repository (the gnet upload
server, its gateways, the upload page, how they are deployed, and the account
service beside them), TLC runs that check them on small
instances, and TLAPS proofs of the safety properties of the server, the gateways,
the framing and the page with the whole system, and of their refinements, for
every instance. `PROJECT.json` lists the runs, the mutants that show that each
property can fail, the source lines each definition stands for, the
disagreements found, the hazards, and the theorems.

## 1. The system

| part | source | state it keeps | operations |
|---|---|---|---|
| upload server | `gnet-backend/server.go` | per connection: a buffer | `OnTraffic`; six commands: init, chunk, pause, resume, cancel, status |
| upload session | `gnet-backend/session.go` | state, `ReceivedChunks`, `CompletedParts`, `UploadID`, `UpdatedAt` | `AddChunk`, `GetProgress`, `IsComplete`, `GetMissingChunks`, `Pause`, `Resume`, `Cancel` |
| session manager | `gnet-backend/session_manager.go` | the session table under `sm.mu` | `CreateSession`, `GetSession`, `DeleteSession`, `cleanupLoop` |
| tokens | `gnet-backend/auth.go` | token -> user, expiry | `ValidateToken` |
| storage (MinIO) | outside, used by `server.go` | multipart uploads | create, upload part, complete, abort |
| WebSocket bridge | `gateway/gateway.go:85-159` | two connections, two goroutines | dial, copy both ways, close |
| binary gateways | `gateway/gateway.go:182-491` | per connection: `ClientContext`, one goroutine | `OnOpen`, `OnTraffic`, `OnClose`, `readFromBackend` |
| HTTP routing | `gateway/gateway.go:64-82, 161-176` | none | proxy or 404 |
| upload page | `frontend/index.html` | script variables, buttons | start, pause, resume, cancel, WebSocket events |
| accounts and metadata | `flask_webserver/` | two tables | register, login, insert and sum metadata |
| start-up | `gnet-backend/main.go`, `s3client.go`, `gateway/gateway.go:497-558`, `docker-compose.yaml` | the bucket, the processes | make the bucket, serve, restart |
| benchmarks | `benchmarks/` | the same bucket | load generators, a comparison server |

The page talks WebSocket to the bridge, the bridge (or, for binary clients, one
of three gateways) talks TCP to the server, the server talks HTTP to storage.
gnet runs one event loop per core (`main.go`: `WithMulticore`), so handlers of
different connections run in parallel, and beside them the clean-up goroutine.
A session is shared by all connections that know its id. Sessions live in
memory only; uploads in storage survive the process.

### What is hard here, and what makes each part correct

* **Server.** One request is up to nine critical sections and S3 calls, between
  which any other request or clean-up may act; S3 calls fail with or without
  effect; the process may die. Correct means: what is stored is the whole file;
  "complete" is only said of what is stored; a chunk is recorded and listed
  once; answers tell the truth; a pause takes hold once the chunks under way are
  done; only the owner changes a session; nothing stays open in storage forever;
  no request hangs although clean-up holds the table's lock across S3 calls.
* **Gateways.** Each is a pair of byte pipes that close each other. Correct
  means: both directions are streams, the last bytes are not cut off, nothing
  outlives its ends, one connection's failure is not another's.
* **Framing.** TCP cuts requests anywhere. Correct means: each request is
  understood as it was built, answered once and in order, and never waits for
  the bytes of the next.
* **Page.** Handlers of events, and one `await` in the middle of sending a
  chunk, during which the user clicks and messages come; an upload that follows
  another shares its globals with the other's callbacks. Correct means: one
  chunk at a time, "complete" means the file is stored, what is shown is so,
  and every upload ends.
* **Start-up.** Two servers make one bucket by check-then-create, the gateway
  does not wait for the server, and a failed dial takes the gateway down.
  Correct means: who serves has its bucket, and every client gets through.
* **Account service.** Processes create database and tables, threads register
  users, both by check-then-act. Correct means: who serves has its tables, and
  an email is stored twice only by requests that overlap.

`PROJECT.json` "hazards" lists these at their lines with the properties that
cover them.

## 2. Modules

| module | models | extends / uses |
|---|---|---|
| `UploadSession` | the session record and its methods | - |
| `S3Multipart` | the four S3 calls, from their use | `UploadSession` |
| `UploadService` | abstract: what the server promises about an upload | - |
| `FileUploadServer` | handlers, table, clean-up, restarts | `S3Multipart`, refines `UploadService` |
| `FileUploadServerProofs` | types, parts = received chunks, the inductive invariant and its consequences | `FileUploadServer` |
| `UploadPromiseProofs` | the server implements `UploadService`; what answers promise, owners, pauses, no upload is lost | `FileUploadServerProofs` |
| `DuplexStream` | abstract: two byte streams | - |
| `WSBridge` | `handleWSUpload` | refines `DuplexStream` |
| `WSBridgeProofs` | the bridge is two streams whose last bytes arrive | `WSBridge` |
| `BinaryGateway` | the three gnet gateways | refines `DuplexStream` |
| `BinaryGatewayProofs` | upward always a stream, downward with one answer under way; failed dials | `BinaryGateway` |
| `RequestStream` | abstract: requests and their answers, in order | - |
| `ServerTraffic` | `OnTraffic` on bytes, parsing of requests | uses `DuplexStream`, refines `RequestStream` |
| `ServerTrafficProofs` | parsers invert builders; the buffer keeps its place; refinement | `ServerTraffic` |
| `UploadPage` | the page's script | - |
| `UploadSystem` | page, gateway and server composed | `FileUploadServer`, `UploadPage` |
| `UploadSystemProofs` | the system makes only steps of the server; what the page shows is so; one chunk at a time; nothing is refused | `UploadSystem`, `UploadPromiseProofs` |
| `Deployment` | start-up, restarts, bucket, dials | - |
| `DeploymentProofs` | a serving server has its bucket | `Deployment` |
| `AccountService` | database creation and `register` | - |
| `AccountServiceProofs` | what registration keeps | `AccountService` |
| `MCFileUploadServer`, `MCServerTraffic`, `MCUploadSystem` | small instances for TLC | |

### FileUploadServer

`pc[c]` is the call that the handler on connection `c` makes next; every label
is named after that call. One action is one critical section (of `sm.mu` or
`us.mu`), one S3 call, or one access to a session field without a lock.
`Receive` is `OnTraffic` with a whole message: the authentication, the checks
that need no session, and the dispatch. `sess` maps ids to records and
`sessions` is the set of ids in the table: a handler that has got a record goes
on using it after its id has left the table, as the pointer in the code does.

* `session.State` is read without `us.mu` for "paused" and for "cancelled"
  (`server.go:268`, `272`): two actions. A string field may also be torn; the
  constants have equal data in all builds, so a read yields the old or the new
  state.
* `CompletedParts` is captured when the S3 complete call is made. A concurrent
  append is before or after it.
* `S3Fails` has two outcomes, chosen by the constant `Faults`: `"refused"`, an
  error without effect, and `"lost"`, an error after the effect. A call that
  storage does not accept (aborted upload, wrong order) always fails.
* `cleanupLoop` takes `sm.mu` in `CleanupTick`, decides on one session in
  `CleanupVisit`, reads its fields again, aborts and deletes in `CleanupReap`,
  and unlocks in `CleanupDone`. Abort and deletion are one step: nobody sees the
  table before the unlock. `State` and `UpdatedAt` are read in one step: a write
  between the two reads is later than `cleanup.now`, so the session counts as
  fresh, as if it had been written before both. A write that is half done (new
  state, old time), a data race in the code, is left out.
* `Restart` empties the memory; `sess` keeps the records of lost sessions as
  history that no handler reaches. `restarts` holds the hours of the restarts:
  tokens are made at start-up, so `ExpiresAt` counts from the last one.
* Connections are slots: a connection that closes and another that opens are the
  same slot, which is idle in between. The two are alike to a session.

Taken from the code as assumptions: session ids are unique (nanoseconds,
`session_manager.go:67`); clients know the ids of sessions that were answered
`RESP_READY`; with `IndexInRange`, clients number chunks from 0 below the total,
as the page (`index.html:589`) and the benchmark client do. The server does not
check the index: without `IndexInRange` the record can be full with a chunk
missing, so `StoredObjectIsWhole` is stated under it, and `server_sequential` runs
without it. `PromptHandlers` (no request is in progress for over an hour) is
used where clean-up meets slow requests and is off in the runs with faults.

Left out: names, sizes of chunks, S3's minimum part size; byte layout and
reassembly are `ServerTraffic`'s. The state string in `RESP_STATUS` is a read no property uses.

### ServerTraffic

The bytes of a connection come through a `DuplexStream`, which both gateways
implement, and are appended to `buffer` in `OnTraffic(n)` for every possible
`n`; `Handle`, `CloseConn` and `Return` are the turns of the loop. Here a byte
is a value: the builders are those of the page, the parsers those of the
server, with 16-bit sums where the code has them. An answer says which request
was understood, so `RequestStream` states that reading inverts writing through
any cuts. `wire` (the bytes the client has written) and `starts` (where its
requests start in them) are history: they say where the server ought to be.
`MessagesAssumption` says what the messages are, without a word of the parsers: their
sizes fit their fields (16 bits for a name or an id), and a payload is what the page builds of a request, whole or cut
short anywhere, or begins with no command. The mutex of `ClientContext` is taken by one goroutine only and is
left out. A write that was queued is lost if the connection closes first.
Where a length check wraps at 2^16 and passes (`Panics`; server.go:183, 240, 337) the
slice behind it is out of range: the handler panics, nothing is answered, and the
connection ends with the process. That takes an id or a name of nearly 65536 bytes, which the proofs
cover and no run sends.

### WSBridge and BinaryGateway

Bytes are numbered by position, so a lost, doubled or reordered byte is visible.
A read and the write of what it returned are separate steps. In `WSBridge` the
deferred calls are actions in their order. In `BinaryGateway` the event loop's
callbacks are single steps; `AsyncWrite` queues a reference to the reader's
buffer, and `RunWrite` sends what the buffer holds then, any mix of old and new
bytes if a read is filling it. `Kinds` chooses among the three gateways.
The lazy gateways' dial, the start of their goroutine and the first write are one
step, since they are one callback: a server that closes in between does so after it
in the model, with the first bytes delivered and unread. Writes that block forever are not modelled. What a browser sends after the
gateway has closed the WebSocket goes nowhere.

### UploadPage and UploadSystem

A JavaScript handler runs to its first `await`, so a handler is a step; the
chunk whose bytes `sendNextChunk` awaits is in `page.reading`, and `ChunkRead`
sends it. `onmessage` looks at the first answer of a WebSocket message, as
`handleResponse` does. `UploadSystem` joins the page to the server with one
connection: `requests` is a stream of whole messages, `GatewayRead(n)` turns any
number of answers into one WebSocket message (`WSBridge` and its refinement of
`DuplexStream` justify this abstraction), a lost connection drops a suffix of
the requests, and a restart of the server breaks the connection. A connection that
breaks makes the browser fire `onerror` and `onclose`; only where the gateway closes
the WebSocket itself before it bridges it ("backend unavailable", `gateway.go:95`) is
there no `onerror`. Answers are not
cut in the middle: they are written at once and are far smaller than the 64 KB
buffer.

A page makes up to `MaxUploads` uploads. Each has a WebSocket, a connection and a
file of its own; `page.ws` is the newest. The globals are those of the newest
upload, also under the callbacks of an older WebSocket, and a chunk whose bytes
are awaited belongs to the file that was selected when it was cut.
`PromptReads` says that no upload is started while bytes of a chunk are read.

The server of the composed system is `FileUploadServer` with its clients made
concrete: `Handle` is `Receive` for the messages that a page sends (the token is
checked first; a message that names no session is malformed). `SystemAssumption`
says what that takes: every upload has a connection of its own (`ConnOf`), what a
page declares (`Declared`, from `buildInitPayload`) is among the requests that the
server knows, a page numbers the chunks of its file from 0 (so `IndexInRange`
holds), and no session id is the empty string, which is what the page has before
the server has answered.

### Deployment

One step is one call of `NewS3Client`, one start or end of a process, or one
dial. `bucket` is shared with the benchmark server's `ensure_bucket`. Storage
refuses to create a bucket that exists, as MinIO does, and any call may also
fail or succeed and report a failure (`Fault`, at most `MaxFaults` times). A
process that exits is started again. The bridge and the binary gateway are
`runSeparateGateways`' one process, so `OnOpen`'s panic (`FailedDialIsContained`
of `BinaryGateway`) ends the connections of both.

### AccountService

Every SQL command is a step: `exec_sql_script` runs with AUTOCOMMIT. A command that
fails raises an exception out of `create_app`, which ends the process.
`CREATE TABLE s3_metadata` always fails in PostgreSQL, since `users(email_id)` is not
unique, so a process serves only after another start has found the database.
`register` is three steps, the look-up, the insert and the answer, between which
the process may die. Rows record how many there were when `register` looked, which is a history variable.

## 3. Runs

`expect: pass`

| run | question | bounds |
|---|---|---|
| `server_races` | all requests on one upload from two connections, with S3 faults and a restart; the inductive invariant; the refinement | 2 chunks, 1 content, no time |
| `server_cleanup` | clean-up against two connections | 1 chunk, 4 hours |
| `server_sequential` | one connection: re-sent chunks, out-of-range indexes, pause, owners, expired and unknown tokens, refused inits, faults, a restart | 2 users, 3 tokens, 2 contents, 1 hour |
| `server_liveness` | requests end, uploads are reclaimed | 2 connections, 1 chunk, 4 hours, requests in hour 0 |
| `bridge` | streams, closes | 3 bytes each way, buffer 2 |
| `gateway_streams` | streams, closes, three gateways | 1 connection, 5 bytes up, 3 down |
| `page_sequential` | two uploads on one page, lost connections, a restart | 3 chunks each |
| `page_clicks` | clicks, faults, disconnects, a restart; the upload ends | 1 upload, 2 chunks, 3 clicks |
| `traffic` | framing and parsing | 8 requests of 1 to 4 byte tokens, all cuts |
| `deployment` | start-up, the shared bucket, failed dials | 1 bridge client, 2 binary clients, 3 faults |
| `accounts` | database creation and registration | 2 processes, 2 threads, 2 crashes, 3 rows |

Why the bounds are enough. Two connections are the least that race; a third
adds handlers that only repeat what two can do to one record, and the safety
properties are proved for any number. Two chunks have a last and a
before-last, which is where finalizing can go wrong. Two contents tell a re-sent
chunk from another one; two contents and two connections together are too many
states, so `server_races` has one content and the proofs cover the rest. One
session shows every interaction on a record. The clock runs in hours with the
code's own timeouts (2 hours and 1 hour), so 4 hours reach every timeout. Buffers
of 2 bytes and 3 bytes of traffic give partial reads and refills. Three clicks
are pause, resume and one more. The page runs do not let time pass, so clean-up
does not meet the page there. More sessions, larger files and more clicks are
bounds only. `traffic` has a valid request of each form (with and without
numbers, with and without data), one cut short, one empty, one with an unknown
command, one with a wrong token and one with a token that is too long, in one connection: every cut of
every request meets its neighbours. A limit of 3 bytes stands for the 1024 of
the code. Two binary clients are the least of which one can harm the other; three
faults reach the start, the dial and a restart in one behaviour. Two overlapping
requests, or two processes, are the least that race in the account service. Symmetry is used over connections and over contents in the runs
without liveness.

`expect: violation` - a disagreement between the code and what a comment in it
says; the finding in `PROJECT.json` quotes the line:

| run | what happens |
|---|---|
| `gateway_buffer` | the client receives bytes of the next answer |

`page_expiry.cfg` (`MCUploadSystem`, passes, 2022 states) is not among the runs: the
token expires in the middle of an upload, and the upload still ends
(`UploadEnds`), with "auth failed" and a closed WebSocket.

Further counterexamples, each reproduced by its own configuration
(`tlc -config <name>.cfg <module>`) and noted at its hazard in `PROJECT.json`:

| configuration | module | what happens |
|---|---|---|
| `pause_race` | `MCFileUploadServer` | a chunk in progress on another connection is recorded in a paused upload |
| `double_finalize` | `MCFileUploadServer` | two connections finalize; a stored upload is marked failed |
| `abort_leak` | `MCFileUploadServer` | an abort fails, the session is deleted all the same |
| `out_of_order` | `MCFileUploadServer` | chunks that arrive out of order make the upload fail at the end |
| `pause_finished` | `MCFileUploadServer` | a completed session becomes paused |
| `mismatch_ack` | `MCFileUploadServer` | a chunk with other contents is acknowledged |
| `cleanup_race` | `MCFileUploadServer` | clean-up reaps a session that was just used |
| `restart_leak` | `MCFileUploadServer` | an upload is open in storage forever |
| `gateway_dial` | `BinaryGateway` | a failed dial panics the gateway |
| `page_resume` | `MCUploadSystem` | two chunks are under way |
| `page_small_file` | `MCUploadSystem` | a file under 5 MB is refused |
| `page_complete` | `MCUploadSystem` | "Upload incomplete." after "Upload complete!" |
| `page_cancel` | `MCUploadSystem` | an error is shown instead of the cancellation |
| `page_pause` | `MCUploadSystem` | pausing ends the upload with an error |
| `page_stale` | `MCUploadSystem` | a chunk of the first file, read late, becomes part of the second file |
| `page_overlap` | `MCUploadSystem` | the `onclose` of the first upload lets the user start a third beside the second; the end of one is shown for the other |
| `traffic_refusal` | `MCServerTraffic` | "Invalid auth token size" is queued and never sent |
| `gateway_crash` | `Deployment` | one failed dial disconnects every client |
| `accounts_login` | `AccountService` | who was told "okay" cannot log in: the email has another row |
| `accounts_tables` | `AccountService` | a process serves before the table of users exists |
| `accounts_boot` | `AccountService` | after a crash between two commands no process ever comes up |

The passing runs that are near a counterexample exclude it by a named constant:
`NoOrphanedUpload` and `CancelledIsGone` hold while S3 works;
`NoErrorWithoutFault` and `OneChunkInFlight` without clicks, with two uploads and
`PromptReads`; `ImplementsDuplexStream` of the gnet gateways
with one answer under way (`Sequential`), which is how the page and the
benchmark client use the server; `UploadsReclaimed` without restarts. `UploadEnds`
says that an upload ends in a closed connection whose end is shown to the user
(a result, "lost", or "Upload incomplete."),
in a pause that the user does not lift, or when the user starts the next one.

### Fairness

* Handlers (`FreeStep`), the clean-up goroutine and the clock are weakly fair: Go
  runs every goroutine. That S3 calls return is an assumption: they are made
  with `context.Background()`, without a deadline, so storage or TCP must end them.
* Steps that need `sm.mu` are strongly fair: clean-up takes the lock again and
  again, but a Go `RWMutex` lets the goroutines that wait in before it is taken
  for writing once more.
* The goroutines of the gateways, the callbacks and queued writes of the gnet
  event loop, and the browser's events are weakly fair. Users, clients,
  networks, faults and restarts are not fair: they may never act again.
* In `ServerTraffic` the event loop runs and the network delivers answers.
* In `Deployment` Docker starts what has exited ("restart: unless-stopped"), the
  steps of a start go on, and clients try again; `MaxFaults` bounds the faults, so
  what is shown is recovery once they cease.

## 4. Proofs

All proofs are for arbitrary constants under the named assumptions of the
modules: `ChunkIndexesAssumption` (indexes are a finite set of naturals),
`NoChunkAssumption`, `ServerAssumption` (shapes of the token table and of init
requests, a session timeout that is not zero), `BridgeAssumption`,
`GatewayAssumption`, `MessagesAssumption`, `PageAssumption` (sizes and bounds are
numbers, a chunk is not empty) and `SystemAssumption` (see `UploadSystem` above). The results on start-up and accounts need
none. The next-state relations that they are about include faults, restarts and
clean-up of the server, and lost connections and failed dials of the gateways.
A theorem that needs more says so in its `ASSUME`, with the constant that the
runs use for it.

### The server

* `TypeCorrect`: `Spec => []TypeOK`; `TypeOK` is inductive.
* `PartsAlwaysMatchReceived`: only `AddChunk` and `CreateSession` change the chunks
  of a session (`ChunksStep`), and `AddChunk` appends exactly when it records.
* `InvariantHolds`: `Spec => []InductiveInv`. "A stored object is whole" is not
  inductive: it needs that a handler at the S3 complete call has seen a full
  record, hence that records never shrink while a handler holds one, hence that
  nobody creates a session under an id in use (`Exclusive`), hence that handlers
  only name sessions that have their upload id (`HandlerInv`). The step from
  "as many chunks as declared" to "every declared chunk" is
  `CompleteIsFull`, a pigeonhole on finite sets that needs the indexes in range.
  `SessStep` and `S3Step` first say what any step can do to a record and to an
  upload; `StableSession` says what no step takes away; then one lemma per
  conjunct of `InductiveInv`.
* `StoredObjectsAreWhole`, `CompleteMeansStored`, `RecordedMeansInStorage`: the
  consequences.
* `ImplementsService` (assumes `IndexInRange`): the server implements
  `UploadService`: a step touches one upload (`StepIsAboutOne`), and on that upload
  it is a declaration, an opening, a recorded chunk, a store, a drop, or nothing.
* `AcksArePartial`, `ResumedListsAllMissing`, `CancelledStaysGone`: what an answer
  says of an upload. An answer is made of what its handler read earlier, so each
  needs an invariant of the handler's local variables, together `AnswersInv` on
  top of `InductiveInv`: what `GetProgress` or `GetMissingChunks` returned is a
  lower bound of the record (`CountInv`), the answer names an open session
  (`ClaimInv`), and a session whose deletion is under way has no open upload or
  the abort has failed (`DeletingInv`). An acknowledgement never counts more than
  is recorded; that it counts less than was declared needs indexes in range, which
  `AckIsPartial` says: outside of it a record can have as many chunks as declared and
  not the declared ones. `CancelledIsGone` does not say that nothing was stored: a
  handler that was finalizing may complete the upload before it is aborted. That the count of missing chunks and of
  received chunks add up needs indexes in range, so `ResumeReportsMissing` says so.
* `OnlyOwnersChange`: between the ownership check and the last call of a handler,
  the user of the record cannot change (`OwnerInv`, `UserStays`), since nobody
  creates a session under an id in use.
* `PausedUploadsRest`, on any number of connections: a session is at rest
  (`AtRest`) when it is paused and no handler is past the check for that; then only
  a request to resume or cancel changes it or lets a handler past
  (`PastTheCheckByIt`, `RestIsLeftAlone`). The stronger `PausedTakesNoChunk` is false: a handler
  that was past the check adds its chunk (`pause_race`).
* `NoUploadIsLost` (assumes `Undisturbed`: no faults, no restarts, and no request
  in progress for over an hour): an open upload is in the table, or its handler is about
  to put it there or to abort it. The invariant (`NoLossInv`) follows
  a creation before its upload id is set (`CreationInv`), a deletion
  (`DeletingInv`), and clean-up across its two critical sections (`ReaperInv`):
  what it decides on is older than any request in progress, which is where the
  session timeout must not be zero.

### The gateways and the framing

* `BridgeInv` of `WSBridge`: the message or the bytes that a goroutine holds, the
  frames in flight (`Queued`) and what was delivered are, put together, the bytes
  that were sent (`UpStream`, `DownStream`); a goroutine fails only when its
  connection does, and a deferred close comes after its loop (`Phases`, `Endings`).
  It gives `BridgeTypeCorrect`, `LastAnswersArrive`, `LastMessagesArrive`, and
  `BridgeIsDuplexStream`: the bridge implements `DuplexStream`.
* `GatewayInv` of `BinaryGateway`: bytes for the server are in `ctx.buffer` until the
  backend is dialled and then in the connection, in order (`UpStream`). It gives
  `GatewayTypeCorrect`. Downward there is no such
  invariant, because a queued write refers to the buffer that the next read
  overwrites (`gateway_buffer`); with one answer under way (assumption
  `Sequential`) the buffer still holds what is due (`SequentialInv`), which gives
  `GatewayIsDuplexStream`.
* `RequestsAreUnderstood`, for every request whose sizes fit their fields: the handler
  panics if and only if the id or name leaves no room in 16 bits for the 2 or 10
  bytes that the check adds, and otherwise `Parse(buildPayload(r)) = r`: each parser of
  the server inverts the page's builder.
  `CutRequestsAreRefused`: of a payload that is cut short anywhere they take nothing.
  It rests on `Uint16Holds` and `Uint32Holds` (what is read back from two and four
  bytes) and on a relation `Holds(b, at, s)`, "the bytes `b` have `s` at `at`", with
  lemmas on concatenations and slices.
* `TrafficInv` of `ServerTraffic`: the buffer is what was received from the start of the
  next unanswered request on (`InPlace`), and `wire` holds request `k` at
  `starts[k]` (`Written`). Then the loop finds a complete request exactly when one
  is there (`Framing`, `NextRequest`) and its answer is the one that is due
  (`AnswerIsDue`, which rests on the two theorems above). It gives `BufferKeepsItsPlace` and `TrafficIsRequestStream`:
  `OnTraffic` implements `RequestStream` through any cuts.

### The page and the whole system

* `SystemIsServer`: `SystemSpec => Spec`. A message of the page starts one of
  the handlers that `Receive` starts (`HandleReceives`), and nothing else in the
  composition touches the server, so every theorem above on `Spec` holds of the
  composed system, for any number of uploads, clicks and lost connections.
  `SystemImplementsService` then has no assumption on clients left: the clients
  are pages.
* `PageStaysInFile`: `SystemSpec => []PageTypeOK`. What the page counts and asks
  for follows what the server answers, so its types are not inductive alone.
  `SystemInv` adds to the server's `InductiveInv` and `AnswersInv` that messages,
  answers and frames are well formed (`PagesTyped`), that a request in progress
  came from a page (`PageRequest`), and that a session declares the file's number
  of chunks (`FileSized`): then an answer never counts more chunks than the file
  has (`WrittenType`, `HandlerAnswers`).
* `CompletedUploadsAreFiles` and `ShownProgressIsReal` (assume `OneUpload`, as the run
  `page_clicks`): what the page says of an upload is so, whatever the user clicks,
  storage does, and the connection or the server loses. With one upload
  per page there is one session (`OneSession`: the request for it is to come,
  under way or answered, and only in one place), its chunks are the file's own
  (`FileOnly`), the page knows its id before it asks for anything (`PageKnows`), and
  what is under way to the page is still true (`AnswersTrue`), since records
  do not shrink and stored objects stay (`SessionKept`, `TruthKept`). Together
  they are `OneUploadInv`. With a second upload on the page both are false: a
  chunk of the first file may reach the second session (`page_stale`), and the
  end of one upload may be shown for another (`page_overlap`).
* `ChunksGoOneByOne` (assumes `SequentialUse`: at most two uploads, none started
  during a read, no clicks, as the run `page_sequential`): `InTurn` says that
  uploads before the newest have a closing or closed WebSocket, that later ones
  have not begun, and that in an open one chunks being read, messages, the
  request in progress, answers and frames are one at most together
  (`UnderWay`). It is inductive on top of `SystemInv`: every event of the page takes one
  thing in and puts one out at most (`SendNextReads`, `HandleResponseReads`),
  and so do server and gateway (`ServerInTurn`). The third upload has to be
  excluded because the `onclose` of the first makes it possible beside the
  second (`page_overlap`), clicks because a resume asks for a chunk beside the
  one under way (`page_resume`), reads in the background because their chunk
  is sent on the next WebSocket (`page_stale`).

* `NothingIsRefused` (assumes `SequentialUse`; `FileAccepted`, the server takes files
  of that size, which is false of small ones, `page_small_file`; and `NoTimeouts`, no
  session gets older than the session timeout within the run): `NoErrorWithoutFault`.
  The invariant is `NoErrors`: in an open upload, each thing that may be under way
  fits the record of the page's session (`Smooth`). A chunk that is read or sent, or
  that a handler works on, is the next one of a record that has all the chunks before
  it, in order (`Expects`); with a chunk's answer under way the record has every
  chunk sent (`UpToDate`); storage has the parts (`InStorage`), in ascending
  order, so S3 cannot refuse the complete call. The session is in the table,
  not clean-up's victim, and no message or handler of another upload names it
  (`Alone`); that a new session is nobody else's needs `NamesKnown`: messages,
  table and clean-up only name sessions that there are. Then `SmoothRests` (another
  upload's handler, clean-up or the clock acts), `ReceiveSmooth`, `StepSmooth` and
  `GatewaySmooth` (this upload's server and gateway), `PageSmooth` and `RestartSmooth`
  are one lemma per kind of step. The upload that follows one that was cut off is
  the case that matters: its predecessor's handler may still be running.

### Start-up and accounts

* `ServingHasBucket`: `BucketBeforeServing` is inductive once it also speaks of the
  state between `NewS3Client` and `gnet.Run` (`BucketInv`).
* `OnlyOverlapsDuplicate`: a request in progress found none of its email's rows among
  those it saw (`RequestInv`), and rows are only appended (`AccountInv`).

### Only model-checked

Liveness under fairness (`RequestsAnswered`, `UploadsReclaimed`, `BridgeEnds`,
`ClosedTogether`, `UploadEnds`, `AnswersArrive`, `ServerComesUp`,
`ClientsGetThrough`) is beyond the proof system. Every other property that a passing
run checks is stated by a theorem. Where a theorem has an assumption that is not the
run's (`OneUpload`, `SequentialUse`, `NoTimeouts`, ...), TLC says more than the proof
only within the run's bounds.

## 5. Not modelled

* `ServeHTTP` and `isGnetHTTPRoute`: a choice by path without state; the proxy is
  a library's.
* S3 keys and session ids as strings. The models give each session an id and an
  object of its own. The key has seconds (`session_manager.go:63`): clients that
  upload one file name twice in a second write one object, which no run covers.
* The byte layout of answers and the options of gnet and of the S3 client.
* `login`, tokens and the metadata endpoints of the account service: the first
  two change no state, and `create_table.sql` cannot create the metadata table.
* Logging, speed display and progress bar of the page; the benchmarks' loads.

## 6. Plan

Done, in this order: session and storage operators, the server and its abstract
specification, its runs and proofs, the gateways, the page, the composition; then
framing, several uploads on a page, tokens across restarts, start-up, and the
account service.

Next, modelling: the binary gateway composed with the server in place of the
bridge; S3 keys with seconds.

Done, proofs: the server and its promises, the bridge, the gateways, the framing,
start-up and accounts, then the page and the composed system.

Next, proofs: `CompletedIsFile` and `ProgressIsReal` for two uploads one after the
other, from `InTurn` and `Smooth` (now for one upload with any clicks and faults); TLC
finds both to hold with the bounds of `page_sequential`.
