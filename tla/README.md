# A verification project for Restura

Restura is an API client: an Electron desktop application (with a web worker, a
CLI and a browser extension beside it) that speaks HTTP, WebSocket, SSE, gRPC,
Kafka, MQTT, Socket.IO and MCP. Its windows are *renderers*; everything that
touches the network runs in the *main process*, behind IPC handlers. This
directory holds TLA+ models of the concurrent core of that program, the TLC
configurations that check them, and proofs of the most important properties.

Paths below are relative to the repository; `M` stands for `electron/main`.

## 1. The system

### What is hard about it

The main process is single threaded, yet its handlers are concurrent: each gives
up control at its `await`s (DNS, response headers, the closing of a client), and
then any other handler, socket event, timer or the destruction of a renderer may
run. Almost every handler has the shape

    check cap -> reserve a claim -> await -> re-check the claim -> commit an entry

and every bug it can have is a step of somebody else inside the awaits. Unit tests
run these handlers one at a time with mocked transports; the orders are what they
hardly reach. Connections are named by ids the *renderer* chooses, so the same id
comes back: a reconnect, or a second window that uses the same one.

### Inventory

| Component | State | Operations | Interacts with | Must hold | Here |
|---|---|---|---|---|---|
| Stream registry, renderer cleanup (`M/ipc/stream-registry.ts`, `connection-cleanup.ts`) | a map keyed by owner and id; the renderers it has bound a `destroyed` callback to | add, tryAdd, replaceForOwner, remove, emit, disposeAll | every transport handler; Electron's `destroyed` event | at most one live connection per key; a dead renderer owns nothing; only the current one speaks | modelled, lemmas proved |
| WebSocket (`M/handlers/websocket-handler.ts`) | claims, registry, one `ws` socket per call with `explicitlyClosed` | connect, send, disconnect, four socket events, stop | DNS guard, registry, renderer channels | no leak, no stale commit, cap, one close event | modelled, proved |
| SSE (`M/handlers/sse-handler.ts`) | claims, registry, one HTTP exchange and reader per call | connect, read loop, disconnect, stop | http proxy, DNS guard | the same, and abort on dispose | modelled, proved |
| Kafka (`M/handlers/kafka-handler.ts`, `kafka/`) | claims, connections with producer, consumer, stream, transaction, chain of decodings, commit tokens | connect, subscribe, unsubscribe, disconnect, produce, streams, transactions, commits, admin, stop | the Kafka client library | every open client is owned or being closed; exclusive sessions; messages in order | partly, proved |
| gRPC (`M/handlers/grpc-handler.ts`, `grpc-connect.ts`) | pending claims with buffered writes, active calls, sweeper; replay buffer, input queue | start, send, end, cancel, call events, sweep, stop | Connect transports, auth provider | writes arrive once and in order; one terminal event; late callbacks are silent | partly, proved |
| MQTT (`M/handlers/mqtt-handler.ts`) | claims, registry, a client per connect that ends asynchronously | connect, publish, subscribe, disconnect, client events, stop | the MQTT library | as WebSocket, across the awaited ends | modelled, proved |
| Socket.IO (`M/handlers/socketio-handler.ts`) | claims, registry, acknowledgement timers | connect, emit, disconnect, events, stop | its library, loaded lazily | as WebSocket; each acknowledgement is answered once | modelled, proved |
| MCP client (`M/handlers/mcp-handler.ts`) | claims that own a session in its handshake, sessions | connect, requests, disconnect, events, stop | the MCP SDK | as WebSocket; a disconnect is final | partly, proved |
| HTTP (`M/handlers/http-handler.ts`, `http-secure-connection.ts`) | requests in flight under an id all renderers share | request, cancel | undici, SOCKS proxies, interceptors | who runs can be cancelled; no id stays taken | partly, safety proved |
| AI (`M/handlers/ai-handler.ts`, `ai-lab-handler.ts`) | registry of chats, cancelled generations; completions and a semaphore | chat, cancel, complete | model providers | only the latest chat of an id speaks; no slot is lost | partly, safety proved |
| IPC rate limiter (`M/ipc/ipc-rate-limiter.ts`) | timestamps per key | check, dispose | every handler | never more than the quota in any window | modelled, proved |
| Collection storage (`M/storage/collection-manager.ts`, `shared/opencollection/node/fs-writer.ts`) | watchers, own-write state per directory; staging and backup of a save | save, watch events, load | chokidar, file system | own writes are silent, external ones are not; a save is whole | partly, proved |
| Renderer persistence (`src/lib/shared`) | pending write, timer; encrypted records | setItem, removeItem, flush | IndexedDB | the last write wins; a removed record stays removed | partly, proved |
| File collections in the renderer (`src/store/useFileCollectionStore.ts`, `ConflictDialog.tsx`) | sync state and conflict of a collection, reloads under way and pending | load, save, edits, file events, the dialog | collection storage, the user | what is shown as synced is what the directory holds; unsaved edits are not replaced | partly, proved |
| Git (`M/handlers/git-merge-handler.ts`, `git-runtime.ts`, `git-handler.ts`) | a lock per directory; the repository | merge, state, resolve, abort, commit, single commands | the git binary, other programs that run it | a conflict is resolved once, and committed whole | partly, proved |
| Worker (`worker`) | WebSocket tickets with expiry | issue, consume | browser | single use | partly, proved |
| Mock server, capture bridge, lifecycle, OWS executor, runners | little shared state | start, stop, run | network, file system | see 5 | not modelled |
| Security policy, file formats, scripts, OAuth, CLI, extension, agent lab, docs, echo servers | predicates, conversions, sequential code | – | – | – | not modelled |

`PROJECT.json` lists every component with its sources, and under `hazards` what is
hard to test in each, at the line where it bites.

## 2. The modules

    StreamRegistry            maps by owner and id, claims, the destroyed callback
      |- ConnectionRegistry   the abstract specification: what a handler promises
      |- WebSocketHandler  -- WebSocketRefinement -- MCWebSocket, MCTransports
      |- SseHandler        -- SseRefinement       -- MCSse
      |- KafkaHandler                             -- MCKafka
      |- GrpcHandler                              -- MCGrpc
      |- ConnectionClaims     the claims MQTT, Socket.IO and MCP share --.
           |- MqttHandler, SocketIoHandler, McpHandler                  |
           |- HttpHandler, AiStreams, AiCompletions                     |- MCTransports
    GrpcConnect               one stream over its transports ----------|
      |- GrpcStream           the abstract specification of a stream    |
    KafkaDelivery             messages and tokens of one consumer -----'
    KafkaSessions             streams and transactions of one Kafka connection
    CollectionSave, FileCollectionSync, PersistedStorage, GitMerge,
    RateLimiter, WsTicket                                              -- MCServices

**StreamRegistry** holds the operators every handler uses: a key is a pair of an
owner and an id (`ownerScopedKey`), a map is a function from keys to calls or
`None`, `Put`, `Drop`, `WithoutOwner` are add/replace, remove and the teardown of a
renderer, and `Bind` is `bindRendererCleanup`, which registers one callback per
renderer and map and runs it at once when the renderer is already gone.

**ConnectionRegistry** is the contract of ADR 0006, protocol left out: a connection
is new, live or done; the live ones occupy exactly their slots; only the one in a
slot speaks; a renderer that left occupies none. A connection may announce itself as it
takes its slot (`mcp:open`).

**WebSocketHandler.** A *call* is one `ws:connect`, numbered by arrival; the number
is also the token of its claim, its socket and its registry entry, as in the code,
where each call makes exactly one of each. `Reject` and `Reserve` are the
synchronous first half of the handler, `GiveUp` and `Commit` the half after the DNS
await; `Opened`, `MessageReceived`, `Errored`, `Closed` are the socket's listeners,
`PeerCloses` the environment; `Send`, `Disconnect`, `Destroyed`, `Stop` are the
other entry points. The `ws` library is modelled from how the handler uses it:
`terminate` on a connecting socket aborts the handshake, `close` waits for the
closing handshake, and a close event follows in each case.

**SseHandler** has the same first half, but registers its entry *before* it waits for
the response headers and keeps its claim during that wait; then a read loop ends
with an awaited `reader.cancel()` before the entry is looked up for the last event.

**KafkaHandler** follows one connection (a producer) and the consumer it may own.
`closing` is the position of each execution of `closeConnection`, of which several
may be under way for the same entry: in a call that waits for it, detached from a
disposed entry, or in `stopKafkaCleanup`. **KafkaSessions** is the producer's
stream and transaction (`kafka/producer-handlers.ts`) for one connection.

**GrpcHandler** models `start-stream` with its two awaits, the buffer of writes in the
claim, registration with the flush of that buffer, half-close, cancel, the call's
data and terminal events, the sweeper (time is abstract: any set of claims or calls
may be found old), renderer death and stop. Payloads are numbers in the order of
sending, so that loss, doubling and reordering show; 0 is a payload the method's
message type cannot encode.

**ConnectionClaims** is what `mqtt-handler.ts`, `socketio-handler.ts` and `mcp-handler.ts`
each have a copy of: `reserve...Claim`, `release...Claim` and the commit that replaces the
entry found at the claim. **MqttHandler** adds the awaited end of an old client, which a
reconnect, a disconnect and the stop may all be waiting for; **SocketIoHandler** a second
await and the acknowledgement timers of a connection; **McpHandler** a handshake during
which the claim owns the session, so that a disconnect can cancel it.

**HttpHandler**: a request is preparing, opening a tunnel, fetching or running through
the response interceptors; a cancel and the renderer's death abort its signal, and the
model says at which of these points that ends it. **AiStreams**: a chat is in the registry
before its provider's address is resolved; a cancelled one leaves it at once but may
have a last word (`cancelledGenerations`). **AiCompletions**: the semaphore of
`ai-lab-handler.ts` with its queue, cancels and renderers that die while they wait.

**GrpcConnect** is `runConnectStream`: attempts over the transports of a plan, an input
queue per attempt that connect-node pulls from, the replay of what was written before a
fallback, headers and trailers held back until it is known which attempt answers,
and the handler's `finalize` and `handleData`. **GrpcStream** is what a renderer may
expect of a stream, whatever transport serves it.

**KafkaDelivery** is one consumer's chain of decodings and its commit tokens; the many
closers of one connection are `KafkaHandler`'s.

**CollectionSave** is one directory: a save stages, verifies, backs up, mutates file by
file and renames the manifest, with a roll-back at each failure that may fail itself, and
cleans up, which may fail when everything is written; meanwhile the watcher's events are
queued, compared, and held against the mtimes last seen, other programs edit files, with an
mtime that may be an old one, another save may begin, and a load reads file after file and
then has the watcher replaced by one that ignores what it finds (`Rewatch`, `Look`). **PersistedStorage** is the debounced store over the encrypting one, with a clock.
**FileCollectionSync** is the other side of it, the renderer's copy of a collection: a load
or a save is a task that reads or writes the items and then the workflows, a load with the
replacement of the watcher in between, each of which may fail or reject; and any other task, an edit of the user, an event of the watcher or an answer of the conflict dialog
may come between. **GitMerge** is a merge in a git workspace: an operation is a plan of
git commands, run in turn under the lock of its directory, and each of them may fail or
be preceded by a command of another program. **RateLimiter** and **WsTicket** are checked
against a count of what was granted.

## 3. The runs

| Run | Instance | States | What it shows |
|---|---|---|---|
| `websocket_safety` | 2 renderers, 2 ids, 3 connects, cap 2 | 147 000 | Types; `Tracked`: a running socket is the current entry of its key; `WithinCap`; `DeadOwnNothing`; `ChannelDiscipline`: an id's events come from its latest connection; `NoSilentEnd`: a close event exactly for ends nobody asked for; `NoStaleCommit`: an overtaken call never succeeds after its successor; and the refinement of ConnectionRegistry. |
| `sse_safety` | 2 renderers, 2 ids, 3 connects, cap 2 | 294 000 | The cap, channel discipline and silent ends for streams, and the refinement. |
| `kafka_safety` | 2 renderers, 1 id, 4 requests, cap 2 | 1 443 000 | `ProducerTracked`: an open producer is an entry, or somebody will close it; the cap; a dead renderer owns nothing; a registered connection can produce unless somebody is closing it right now. |
| `grpc_safety` | 2 renderers, 1 id, 2 starts, 3 payloads, limits 1 and 2 | 206 000 | `WritesArrive`: a running call was given what its renderer wrote to it, once and in order, and a half-close only after what came before it (a full buffer keeps the oldest); `OnlyCurrentSpeaks`: a call speaks under its id only before its terminal event and before a successor has one. |
| `transports` | 2 renderers, 1 id (2 for completions), 3 calls, cap 2, 1 slot, 2 acknowledgements, 1 redirect; a stream with 4 writes, replay buffer 3, response limit 2; 4 messages, 2 tokens | 354 000 | One transport per behaviour. `Tracked`: what runs can be reached by its renderer and goes with it, in each handler, and the semaphore's count is that of its holders; the cap; `DeadOwnNothing`; `DeliveredOnce`: an acknowledgement is answered once, Kafka messages come in order and the newest tokens last; `DisconnectIsFinal`; the refinement of ConnectionRegistry by MQTT, Socket.IO, MCP and the AI chats; for the stream `NoOrphan`, `AnsweringMetadata`, `SilentOnceDropped`, `OutboundArrives` and the refinement `KeepsContract` of GrpcStream; and `NothingHangs`: no claim (the WebSocket handler's included), disconnect of a WebSocket, acknowledgement, HTTP request or aborted AI call waits for ever. |
| `services` | 2 files, 2 saves, 2 external edits, 1 load, 2 failures, 3 of these in all; 4 sets, wait 2 of at most 4, clock 7; quota 2 in a window of 2; 3 tickets of 3 ticks; 3 loads or saves in the renderer, 1 edit of the user, 2 of the disk, 1 failure, 6 of these in all; 2 paths, 3 git operations, 1 command from a terminal | 4 970 000 | One service per behaviour. `QuietMeansTold`: an external edit that survives was reported or shown by a load, except where the watcher missed it, for its mtime or for its own replacement, where a save adopted it, and after a save failed that another had overtaken; `OwnWritesAreSilent`; `SaveIsWhole`, whatever fails, the roll-back and the cleaning up included; `Checkpointed`: a burst is written at its pause or at the maximal wait; `PersistsLast`; `SettledIsDisk`: a collection that is shown as synced, with nothing under way, is what its directory holds, except for edits that nothing reports, and as long as no operation of the user met another operation or a file event; `ResolvedWholeAndOnce`: no resolution of a conflict replaces another one's and no commit takes half of one that is still running; `RateIsExact`, `TicketsAreExact`: the window and the ticket table grant what the reference grants. |
| `sse_abort` | 1 renderer, 1 id, 2 connects | violated | A disposed stream is not aborted (finding 1). |
| `kafka_consumer` | 1 renderer, 1 id, 3 requests | violated | A consumer without an owner (finding 2). |
| `kafka_sessions` | 3 requests | violated | A stream and a transaction at once (finding 3). |
| `grpc_tracked` | 1 renderer, 1 start, 2 payloads | violated | A network call outside the registry (finding 4). |
| `collection_edits` | 2 files, 1 save, 1 edit, 1 load, 1 failure | violated | An external edit during a save is not reported (finding 5). |
| `conflict_reload` | 1 load or save, 1 edit of the user, 2 of the disk | violated | A reload replaces unsaved edits (finding 6). |

Bounds. Two renderers suffice for isolation, since handlers compare owners for
equality only. Three connects on one id are the smallest number with a connection
that is replaced, one that replaces it and one that overtakes the second while it
waits; Kafka needs a fourth request, since connect, subscribe, disconnect and
reconnect are requests of their own. The cap is smaller than the number of calls, so
it binds. Nothing in a handler counts higher than that. Renderers, and the ids
within a renderer, are interchangeable, hence the symmetry sets of the MC modules in
the runs that check safety only. Deadlock is left unchecked where every
call may have been made and answered and the handlers stopped for good.

In `transports` a renderer has one id, since the handlers never look at another, but
completions share their semaphore across ids, so a renderer has two there (`FewIds`, with the
constant `StreamId` for the ids of the others; for `StreamId = Id`, which the theorems
allow, it bounds nothing). The ids are not given to AiCompletions by a substitution, since TLC
evaluates a definition without parameters once, for all instances. Two acknowledgements
let one be answered while the other times out. Four writes against a replay buffer of three
reach the overflow, and two transports are the most a fallback needs. In `services` a
clock of seven ticks holds a burst longer than the maximal wait, and windows that do and
do not overlap. A behaviour of a collection has three events: saves, edits, loads and
failures, in any combination and order (`FewEvents`), and its two saves only while the
collection is one file (`OverlapIsSmall`), which is where they can disturb each other's
suppression. Three reach a save whose write and roll-back both fail, an edit between two
saves, and an edit on either side of a load's read with another behind the new watcher's
back. Of the renderer's copy, a behaviour has six events and is left off once it is
`crossed` (`FewTurns`): once an operation of the user has met another operation, or a file
event that starts a reload or raises the dialog's conflict again; the user has edited during a save;
a conflict was closed unresolved; or a watch that could not be asked for cut a load of the user
short. What happens then is listed below. Within that, reloads, edits of the other program and
of the user, the watcher and its replacement come at any point. Three git operations are the least with
one that ends, one that waits for it and one that comes after.

Fairness. Nothing is assumed of a peer, a renderer or the user.
`sse_abort` assumes that DNS settles, that a request is answered or times out (the
proxy has a timer for the headers) and that a cancelled reader settles, never that a
server ends its stream: with nothing aborted, the read loop then runs for ever.
`transports` assumes that DNS (the resolver has its own timeout) and the lazy loader settle,
that the close event of a WebSocket that is closing arrives (`ws` destroys the socket
30 s after an unanswered close), that a client told to end by force
calls back, that timers fire, that a handshake ends or exceeds its timeout, that a fetch
ends or exceeds its own (a timeout of 0, which switches it off, is left out), that a reply
of an AI provider ends once it is aborted, and that connect-node pulls while it runs and
settles once aborted. Not that a SOCKS proxy or a provider ever answers: a request that waits for
one is exempt from `NothingHangs` until it is aborted.

Every property has a mutant in `PROJECT.json`: a plausible slip in a modelled
definition (a dropped re-check after an await, a count of the wrong map, a removal
before the emit), written as an operator beside the original, that TLC finds to
violate the property under the run's own configuration.

### Findings

1. `M/handlers/sse-handler.ts:48-52`: the comment says that dispose aborts the fetch; the
   controller it aborts is connected to nothing.
2. `M/handlers/kafka-handler.ts:579`: a subscribe that resolves while a disconnect or a
   reconnect is in `closeConnection` finds the entry still registered and attaches a
   consumer that nobody will close.
3. `M/handlers/kafka/producer-handlers.ts:266`: `docs/KAFKA.md:13` says streams and
   transactions exclude each other; the check is made before an await and not after.
4. `M/handlers/grpc-handler.ts:637`: an unencodable buffered payload throws during the flush
   in `addActiveCall`; the catch removes the entry and leaves the call running.
5. `M/storage/collection-manager.ts:269`: the comment at lines 114-115 says that concurrent
   external edits never disappear during a save. A save takes what is on the disk when
   it starts, and not what was loaded, for its reference, so that an edit not yet noticed
   is written over.
6. `src/store/useFileCollectionStore.ts:680`: a file event raises a conflict in the states
   *modified* and *loading* only, and a conflict sets another state. The next event falls
   through to the reload, of which lines 693-694 say that it is for "a clean collection", and
   replaces the unsaved edits while the dialog still asks about them. The state *error*, after
   a save that failed, falls through as well.

Seen while modelling, and not at odds with any text of the repository:

* MQTT: a client that closes by itself keeps its entry, and with it a place under the cap,
  until its renderer disconnects; the failure branch of `tryAdd` (line 324) cannot be reached; a
  disconnect that races a reconnect of its id may answer "Not connected".
* A disconnect during a pending connect cancels the connect for MCP only; for WebSocket,
  MQTT and Socket.IO the connection comes up afterwards.
* `grpc-connect.ts:594`: a write after the half-close is dropped by the attempt that runs but
  kept for replay, so that a fallback would send it.
* HTTP: `openSocksSocket` has no timeout; the hops that `redirect-follower.ts` takes reuse the
  tunnel of the first; a cancel that arrives during the response interceptors is answered ok
  although the request succeeds; a body that nobody reads (a hop, a refused length) leaves its
  dispatcher open.
* AI: a chat cancelled while its provider's address resolves stays in `cancelledGenerations`
  until its streamId comes back, as no reply ever runs that would take it out.
* Kafka: messages still in the chain when their consumer closes are sent after the
  unsubscribe, with a token of a consumer that is gone if commits are manual.
* Watching: a change is not reported if the mtime of the file is not newer than the last one
  seen (`collection-manager.ts:361-362`), as after `mv` or `cp -p` of an older file. Every
  load replaces the watcher by one that ignores what it finds (`useFileCollectionStore.ts:460`,
  `collection-manager.ts:394-409`): an edit made after the load has read the file, which the old
  watcher holds back for 300 ms, is never reported, and the collection stays shown as synced,
  although "a clean external change reloads"
  (`openwiki/integrations/collections-and-opencollection.md:49`). `SettledIsDisk` and
  `QuietMeansTold` count these edits (`lost`, `missed`) and say nothing of them.
* Saves: a save that cannot remove its temporary directories (`fs-writer.ts:246`, `88`) answers
  that it failed with everything written, and the next events of its own files are reported;
  a read error or a failed copy ends the roll-back and leaves the other files as written, a
  failed unlink leaves its file as written (`fs-writer.ts:229`, `235`, `240`).
* Saves: a copy that fails may already have removed its target, is not rolled back itself,
  and the backup is deleted all the same; between each check of a file and its copy
  (`fs-writer.ts:194-207`, `228-240`) an edit is lost; two saves in quick succession can report the
  first one's files as external; the early return at `collection-manager.ts:284` cannot be reached.
* File collections: an edit during a save is shown as synced, one during a reload is
  overwritten, one in the state *error* or *conflict* is not tracked; a pending reload starts
  although the collection was edited meanwhile; the dialog forgets its conflict when its
  load or save answers that it failed (not when the call rejects, `ConflictDialog.tsx:37-38`), and
  a newer one that was raised while it kept the local version; a save whose call rejects leaves
  the state *loading*; a load whose watch cannot be asked for is shown as synced without its
  workflows having been read;
  overlapping loads apply in the order in which they end.
* Git: a resolution that fails after its `git rm` leaves the path removed and no longer in
  conflict, so that the merge can be committed without it (`torn` in GitMerge, exempt from
  `ResolvedWholeAndOnce`); choosing a side stages it without the validation that edited
  content gets; an abort followed by the same merge gives its conflicts the same ids.
* Agent laboratory: tools that are resolved after the wall-time limit has passed are never
  closed (`shared/agent-lab/runner.ts:31`).
* Persistence: closing the page may lose the flush, as its encryption is asynchronous; a
  slow encryption can overtake a later write or a removal.
* Capture bridge, mock server: two overlapping starts leave one server listening that nobody
  can stop, and a stop during a start's `listen` is lost.
* OWS: a task dispatched before its scope timed out still writes its variables. Quit: a second
  `will-quit` before the first has ended disposes again.

## 4. The proofs

Checked by TLAPS for every value of the constants: any finite sets of renderers and ids,
any number of calls, payloads, files, tasks and operations, any cap, window or limit. The
bounds by which a run keeps its state space small (`OverlapIsSmall`, `FewTurns`,
`FewIds`, the clocks, the numbers of edits and failures) do not restrict the theorems, which are
about each module's own specification, or leave the bound open (`StreamId`). Each theorem is a
safety property with the invariant that carries it. The invariant stands in the last section of
the module it is about or, for most of what `transports` runs, in `TransportsProofs`; TLC
checked it on a small instance. A proof has one lemma or step per action, and under it one per
conjunct. A leaf that names its prover and a time (`SMTT(40)`, `ZenonT(40)`) may need more than
the default time on a slow machine.

| Assumptions | say | evaluated in |
|---|---|---|
| `BoundsAssumption`, `FiniteAssumption`, `NoneAssumption`, and the same with `Sse` | bounds are naturals, renderers and ids finitely many, `None` is nothing else | `websocket_safety`, `sse_safety` |
| `KafkaAssumption`, `GrpcAssumption` | the same for these two | `kafka_safety`, `grpc_safety` |
| `ClaimsAssumption`, `ConnectAssumption`, `TransportsAssumption` | the same for the handlers on ConnectionClaims; the limits of a stream, of the semaphore and of the tokens are naturals | `transports` |
| `LimiterAssumption`, `TicketAssumption`, `GitAssumption`, `PersistAssumption`, `SyncAssumption`, `SaveAssumption` | numbers are naturals, values that stand for "none" are nothing else; a collection is first loaded with one of its files, and at least one save is possible | `services` |

### The registry and its handlers

* `ConnectionRegistryProofs`: the abstract registry keeps its promise
  (`RegistryKeepsItsPromise`), so the contract says what it should; a handler inherits
  it by refinement, which the rest of the module proves (see below).
* `StreamRegistryProofs`: how `Put`, `Drop` and `WithoutOwner` change the size of a map,
  which every proof about a cap rests on.
* `WebSocketProofs`: `Tracked` alone is not inductive: that a running socket is
  the entry of its key survives a commit only if the committing call has no entry
  yet, its claim's renderer is alive and its `ownerEntry` is what the key holds.
  `IInv` adds exactly that: `ClaimsSound` (a claim belongs to the latest waiting call
  of its key, and its renderer is bound), `EntriesSound` (an entry is the answered
  call of that key with a socket not yet closed), `BoundAreAlive` (only live
  renderers have a callback due) and `SocketsSound` (what each socket state says
  about flags, entries and events). From it follow `RunningIsTracked`, `ChannelIsDisciplined`,
  `EndIsNeverSilent`, `EntriesAreFresh`, `DestroyedOwnNothing`; `StaleNeverCommits`, since only
  `Commit` answers ok and holds the claim, so every later call on the key has already failed;
  `CapIsKept`, since a claim counts against the cap from the check on and a commit trades it
  for at most one entry; and `Refinement`, `Spec => ImplementsRegistry`: the status of a
  call is read off `sock` and the registry, commits are `Establish` or `Discard`, a
  close event of the current connection is `End`, a renderer's death `Leave`, stop
  `Shutdown`, every other step `Speak` or a stutter.
* `SseProofs`: here a call is claim and entry at once while it waits for headers, so the
  cap counts keys in use, and `EntriesSound` says which entry is the latest to have
  committed. `ChannelIsDisciplined`, `EndIsNeverSilent`, `CapIsKept` and the `Refinement`.
* `KafkaProofs`: what makes `ProducerTracked` hard is that one entry may have several
  closers, each at its own await. `IInv` says of every closer that its entry was committed
  and how far the producer's end has come (`ClosersSound`, `CallClosersSound`,
  `DisposersSound`, `SweepSound`), and of a reconnect that finds its predecessor registered
  that it still has its claim (`ReplacersSound`). `ProducerIsTracked`, `EntriesAreUsable`,
  `DestroyedOwnNothing`, `CapIsKept`.
* `GrpcProofs`: `WritesAlwaysArrive`. A claim buffers what was sent to its call as long as
  its flush can succeed; that the buffer holds the oldest of it (`KeepsOldest`)
  and that the half-close comes after it have to be carried through both awaits.
  `CurrentSpeaks`: a start that came after the holder of an id and under that id failed
  before it had a network call (`LatestSound`).
* `TransportsProofs`: MQTT, Socket.IO and MCP share their claims, and so does the proof.
  `ClaimsNext` lists what any of their steps does to claims and entries (refuse, claim, wait,
  leave, enter, remove, tear down, clear); `ClaimsInv` is inductive for it, once for the three,
  and each handler's actions are shown to be among these. On top of it each handler has
  its own clients: `MqttInvariance` (who is awaited, disconnected or swept has ended),
  `SocketIoInvariance` (an acknowledgement that is waited for has its timer and its
  connection), `McpInvariance` (who was overtaken by a disconnect is on the way out). Then
  `RunningIsTracked`, `CapIsKept` and `DestroyedOwnNothing` of all three.
* The Connect transport, also in `TransportsProofs`: `ConnectInv` accounts for the metadata
  (`MetadataAccounted`: captured or held back, and nothing captured or told by an attempt that
  may still be retried) and for the writes (`WritesNumbered`, `QueueKeeps`: sent, queued and
  kept for a replay in their order). `NoStreamIsOrphaned`, `SilentOnceGone`,
  `MetadataIsOfTheAnswer`, and `ConnectRefinement`: every step of `runConnectStream`, a fallback
  included, is a step of GrpcStream or a stutter.
* Requests, chats and completions have no claims, and invariants of their own. `HttpInv`: a
  request in flight is the entry of its id or its signal is aborted, and an entry is of a
  request in flight whose renderer has the listener that will abort it. `AiInv`: a reply that
  runs and is not aborted is the current generation of its id, and no cancelled one speaks
  beside it. `LabInv`: the semaphore's count is the number of calls that complete, the queue
  has each waiting call once, and nobody waits while a slot is free. `AiCompletions` takes the
  aborted out of the queue by saying what is left (`QueueWithout`), since the standard
  `SelectSeq` is recursive, and the prover cannot follow it.
* The Kafka delivery: messages are numbered by arrival, what was sent precedes what is still in the
  chain (`InOrder`), and the tokens that were evicted precede those that are kept (`TokensLast`).
* All transports together. `TransportsInv` says that whichever transport a behaviour is of,
  its invariant holds, and the variables of the others are as they began; the
  WebSocket handler's part is an instance of `WebSocketProofs`, whose assumptions are
  proved here. From it follow the properties of the run `transports`, for every value of its
  constants: `TransportsTyped`, `NothingRunsUntracked`, `TheDeadOwnNothing`,
  `DeliveredOnceOnly`, `DisconnectsAreFinal`.
* `TransportsRefinement`, in `ConnectionRegistryProofs`: each of them implements
  `ConnectionRegistry`. `Mapped(slots, built,
  statuses)` says how a handler's state reads as one of the abstract registry: a call is
  new until it has built a connection, live while that is in a slot and done after. One lemma
  per abstract step (`EstablishStep`, `DiscardStep`, `EndStep`, `LeaveStep`, `ShutdownStep`,
  `SpeakStep`) shows what a handler's step must change to be that one; a handler then only
  says which of its connections are built, and which lemma each of its actions
  meets. HTTP requests, completions, Kafka messages and gRPC streams leave the registry
  empty (`QuietImplements`): what they keep is the subject of other properties.

### The services (`ServicesProofs`)

* `LimiterIsExact`: the bucket of a key is the end of the sequence of its accepted calls, and
  holds all of the window; that a bucket in order is cut at the right place rests on a
  lemma about initial segments. `TicketIsExact`: the map holds every ticket that is still good
  and none that was presented.
* `MergeIsResolvedWhole`: operations run one at a time (`LockSound`), and every path of a merge
  is in conflict, resolved, torn or at work (`PathsSound`).
* `BurstsAreCheckpointed`, `LastValuePersists`: what was set last is pending, being encrypted,
  last in the table's queue, or stored (`LastIsOnItsWay`).
* `SettledAgrees`: `SettledIsDisk` says nothing of a task under way, hence `Uncrossed`: whatever
  part differs from the directory has an event to come or is counted as lost (`ToCome`), is in
  conflict, not shown as synced, or about to be settled by the task (`Accounted`), and a task
  that is about to apply what it read read it soundly or has an event to come
  (`AppliesSoundly`). That the watcher is replaced between the two reads is why an event
  that is still to be emitted may end up in `lost`, and why the read after it takes it out.
* `SavesAreWhole`: `SaveIsWhole` compares the end of a save with its start. In between, a save
  that runs alone has mutated exactly the files it recorded, has backed up what it needs to
  restore them (`Untouched`) and undoes them from the last to the first (`Progress`), until
  a step of the roll-back fails (`cut`): from then on a file may also stay as written, and
  all that is left to say is that each is of one kind or the other. A failed copy, whose
  target may be gone, is why the property exempts the files in `touched`, and only those. In
  the step `saving` the manifest is the new one and every file as it is to be, which is why
  a failure at the cleaning up leaves a whole collection.
* `SavesAreSilent`: while nobody disturbs the first save, a file is as it was loaded or as the save
  leaves it, and every event, in the watcher's hands or queued, is of a file of the second
  kind with the content the save will expect (`Undisturbed`, `EventsOfSave`); a load may
  come at any time, since what it read of a file cannot be anything else.
* `QuietIsTold`: an edit that the renderer is owed is yet to be noticed, in an event that will
  report it, or in the queue of a save that will be flushed (`OwedIsUnderWay`), however many
  saves and loads overlap; and its mtime is newer than the last one reported (`OwedIsNewer`),
  so that no handling drops it. Every edit has a content that nothing held before it (`Dated`), so that no save
  can have a new one in hand, and none has an owed edit for its reference
  (`NotTakenForLoaded`), which is what would silence its event.

Two of these invariants had to be corrected by their proofs. `AppliesSoundly` did not cover
the workflows that were read while another program changed them, and `Undisturbed` did
not say that a save in its early steps holds no file; both are now stated, and hold. And
`QuietMeansTold` had an exception too few: a save that fails can put back, from its backup,
an edit that another save beside it had overwritten, and nobody hears of it. The run never
reached that, which takes two saves, an edit and a failure (`FewEvents`); the proof did.

### What stays with TLC

Liveness under fairness (`NothingHangs`, `OutboundArrives`) and `ENABLED` are beyond the prover,
and so is what a recursive definition computes for every input. `WithinCap` is proved of the
handlers that check a cap before they register (`CapIsKept`); the chats have none, and stay within
it in `transports` because their keys are few, and requests and completions do not use that
registry. Every other invariant, action property and refinement that a passing run checks is a
theorem. The runs that find a violation state what the code does not keep.

## 5. Not modelled

Payload contents, headers, TLS, policy predicates and validation (a request is
accepted or rejected, either may happen), the rate limiters inside the handlers (a
rejection is always possible; the limiter itself is modelled), logs and telemetry, and, per
module: SSE event parsing; Kafka's admin client and schema registry; the Connect
transport's memory of the protocol that worked, deadlines and unary calls; undici's
dispatchers, certificates and body limits; what AI providers send; folders and names in
a collection, whose parts each stand for one file in FileCollectionSync; a fingerprint that
the watcher's handler cannot read, taken to succeed; opening and closing a file collection; git operations that are one command,
submodules and remotes; reading and migrating persisted stores; a clock that steps back.
`destroyed` of a renderer is delivered at any time, once. The models live in one process: that
tickets are kept per isolate of the Worker does not show.

The components marked *not modelled* are conversions, wrappers around other programs,
user interface, or single-threaded code without shared state: the mock server and the
capture bridge are one variable each, the quit handler races all disposals against a
timer, the load test's workers claim their iteration without an await, the OWS executor
is one chain of awaits. They are most of the repository's lines: the models cover the
part of it where orders matter, which is a small share.

## 6. The plan

What TLC checks of safety is proved. What could come next is to model more, in this order:

1. The mock server and the capture bridge: one module for a server that is started and
   stopped across its `listen` (the two orders noted under the findings).
2. `AiStreams` with the tools of the agent laboratory, which outlive a run that hit its
   wall-time limit.
3. Opening and closing file collections, with the start and the end of their watchers.
4. The quit handler over the handlers' disposals, which the models now take one at a time.
