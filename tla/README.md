# FastDrop: TLA+ models and proofs

FastDrop moves files and text between a desktop and phones on one local network.
This directory holds TLA+ modules translated from the source under `src/`, TLC
configurations that check them on small instances, and TLAPS proofs for instances
of any size. `PROJECT.json` maps every definition to the lines it models and lists
runs, mutants, findings, hazards and theorems.

## The system

`fastdrop-desktop` is a Go server (HTTP, WebSocket, SQLite, a download directory)
with a Vue UI that is a client of the same server. `fastdrop-mobile` is a Flutter
app that is a client of the desktop and carries a server of its own for the other
direction. Design documents number the rules of the protocol (§9 to §19); the
code cites them.

| Component | Where | State | Operations | What makes it hard |
|---|---|---|---|---|
| Transfer state machine | `transfer/state_machine.go` | none (a table) | `CanTransition`, `Advance`, `IsTerminal` | consulted before a write that is a separate statement |
| Inbound transfer | `transfer/manager.go`, `api/handlers_transfer.go`, `websocket/router.go`, `database/db.go`, `storage/manager.go` | `transfers`, `transfer_files`, `file_chunk_states`, `.part` files | create, offer, accept, reject, chunk PUT, complete, pause, resume, cancel, retry, fail, grace expiry, start-up sweep | handlers interleave between SQL statements and file calls; no transactions; clients time out, repeat and hang up; the process may stop anywhere |
| Chunk scheduler | `transfer/scheduler.go` | three counters behind a mutex, one condition variable | `Acquire`, `Release` | cancellation of a waiter, wake-ups, hand-kept counters |
| Outbound transfer | `api/handlers_transfer.go`, `websocket/router.go` | the same tables and `.part` files | stage, offer, ranged download, completion reported by the phone | the peer decides completion |
| History and deletion | `database/transfer_cleanup.go` | the same tables | delete one, delete terminal | several statements against running handlers |
| Storage | `storage/manager.go`, `security/filename.go` | download and staging directories | create, write, finalise, clean up, change directory | name conflicts, directory change while staging |
| WebSocket hub | `websocket/hub.go` | clients per session, inboxes, grace timers, channels | register, unregister, broadcast, heartbeat, grace expiry | one goroutine with channels of bounded size, timers and connection goroutines around it |
| Phone presence | `cmd/fastdrop/main.go` | phone device per session | connect, disconnect | overlapping connections of one phone |
| Pairing | `pairing/manager.go`, `api/handlers_pair.go` | tokens, requests | issue, validate, request, accept, reject, refresh, clean up | one-time use, expiry, double accept |
| Sessions, devices | `session/manager.go`, `api/handlers_local_devices.go` | `sessions`, `devices` | create, validate, revoke, ignore | deletion racing automatic acceptance |
| Mobile uploader | `features/transfer/*.dart` | per-file slots, pause and cancel flags | upload, complete, pause, cancel | retries of requests that are still running |
| Mobile receiver | `core/server/transfer_receiver.dart` | transfers, semaphores, chunk files | accept, chunk, complete, cancel, evict | asynchronous file work between awaits |
| Mobile connections | `core/network/ws_client.dart`, `features/devices/*.dart` | socket, reconnect timer | connect, reconnect, close | abandoned attempts |

They interact through the HTTP API (chunks, completions, pairing), through
WebSocket messages routed by the hub (offers, decisions, failures, presence),
through the shared tables and the staging directory, and through callbacks from
hub to `main.go` (connection, disconnection, end of the reconnect grace) that
write transfer rows. Uploads pass the scheduler between the status check and the
write of the chunk.

### What would make each part correct

* **Inbound transfer**: a saved file is whole; a transfer reads `completed` only
  when everything is saved and verified; the bitmap never runs ahead of the disk;
  a restart settles what was interrupted; an upload that is carried through
  completes; terminal states are final; a retried transfer can go on.
* **Scheduler**: budgets hold, counters match, nobody sleeps past a chance or a
  cancellation, everyone is answered.
* **Hub and presence**: the grace timer fails only transfers of a phone that
  stayed away, and does fail those; a message goes to a live connection or stays
  queued; the hub never blocks on itself; presence follows the live connection.
* **Pairing, sessions, devices**: a token admits one request; an accepted request
  gives exactly one session; a deleted device has no session and gets none
  without a confirmation.
* **Storage, deletion**: two files never take one name; a deletion leaves no row
  or file behind.
* **Mobile**: slots are returned on every path; a completed file is the file
  sent; a connection that was given up is not installed.

## Modules

| Module | Models |
|---|---|
| `TransferStates` | the statuses and legal edges of `state_machine.go`, constant-level |
| `FileDelivery` | abstract specification: what either direction promises about a batch of files |
| `InboundTransfer` | one inbound transfer and every handler that touches it |
| `MCInboundTransfer` | its instances for TLC |
| `InboundTransferProofs` | its theorems |
| `InboundSettlesProofs` | its theorems for a client that keeps its side: completion |
| `Scheduler`, `MCScheduler`, `SchedulerProofs` | the chunk scheduler, its instance, its theorems |
| `Hub`, `MCHub`, `HubProofs` | connections, grace timer and presence of one session, its instance, its theorems |
| `HubMessages`, `MCHubMessages`, `HubMessagesProofs` | `Hub` with the messages it carries (extends `Hub`), its instance, its theorems |
| `Pairing`, `MCPairing`, `PairingProofs` | tokens, pair requests, sessions, devices and the list of deleted ones, with the handlers and the phones; its instances; its theorems |
| `OutboundTransfer`, `MCOutbound`, `OutboundProofs` | one transfer from the desktop to a phone, with the page, the phone and the deletion of history; its instance; its theorems |

`InboundTransfer` and `OutboundTransfer` take the statuses from `TransferStates`.
`InboundTransfer` implements `FileDelivery` with the files in the download directory
(`Delivery`), `OutboundTransfer` with the files the phone has kept (`Sending`); in both the
record of the transfer may be overwritten or deleted, the files stay. `HubMessages`
composes the connections of `Hub` with the channel of `Run`, the inbox and the flush.

### InboundTransfer

The database has one connection and no transactions; the file system runs one call
at a time; nothing else serialises two handlers. So a handler is a *request*
(`req[r]`) that goes through one action per SQL statement or file call, carrying
what it has read (`file`, `chunk`, `count`, the hash flag, the status it will
write), and the actions of different requests interleave freely.

| Variables | Code |
|---|---|
| `status`, `started` | `transfers.status`, `transfers.started_at` |
| `row` | `transfer_files.status` and `completed_chunks` |
| `bitmap` | `file_chunk_states.completed_bitmap` as a set of chunks |
| `stage`, `written` | whether a file is a `.part`, saved or removed, and the chunks in it |
| `req` | the handlers in progress |
| `phase` | process running, down, or in the start-up sweep of `main.go` |
| `matches` | which files match the hash declared for them (chosen once) |
| `acked`, `asked` | what the client knows |

| Actions | Code |
|---|---|
| `CreateRow`, `CreateParts` | `handleCreateTransfer`, `handleFileOffer`, `Manager.Create` |
| `PutRead` … `PutStarted` | `handlePutChunk`, `WriteChunk`, `MarkChunkComplete`, `SetChunkBit`, `MarkTransferStarted` |
| `CompleteRead` … `CompleteStraggler` | `handleCompleteFile`, `FinalizeAndVerify`, `Manager.CompleteFile`; `CompleteFails` is its mismatch, which writes back the count it has read |
| `Cancel`, `FailReport`, `GraceExpiry`, `Pause`, `Resume`, `Retry`, `Accept`, `Reject`, then `WriteStatus`, `Cleanup` | the handlers that read the row, check it and later write over it |
| `Crash`, `Sweep`, `SweepCleanup` | a stop of the process and the next start of `main.go` |

With `Faults`, a call of a request may fail: where the code returns the error the
request ends there, where it discards it (`_ =`) the request goes on. This is also
what happens to every database call of a request once its client has hung up, as
the handlers pass `r.Context()` down.

Abstractions: bytes are chunk numbers; progress, speed and WebSocket pushes change
no modelled state; opening and writing a `.part` is one step; the rows of a
transfer are inserted in one step; the client's hash, in the creation and in the
completion, is the same one; files of a batch have different names, so that the
only conflict is with an older file in the download directory (policy `skip`);
the scheduler is a module of its own; chunk bodies have the right length (the code
does not check it, `handlers_transfer.go:426`); the start-up sweep's own database
calls succeed. A client learns file ids from the reply to its creation
(`Published`), and after a restart all sessions are revoked, so no request comes.

### Scheduler

`pc[r]` follows one chunk PUT through `Acquire` (before the lock, context
checked under the lock, asleep in `Wait`, holding a slot) to `Release`;
`watching[r]` is the goroutine that turns the end of its context into a broadcast.
The mutex is held between two actions at one place only, between the look at the
context and the look at the budgets, which is where a lost wake-up could hide.

### Hub

Every connection is a goroutine (`pc[c]`: dialled, put on `register`,
`OnClientConnected`, read loop, `OnClientDisconnected`, put on `unregister`); a
phone that reconnects is a new connection. `Run` takes from its channels in any
order that a Go `select` may choose, so an unregistration can be served before
the registration of the same connection. `slot` is the timer in `graceTimers`,
`lost` counts timers that run although the map has forgotten them, `expiring` the
callbacks past the lock; splitting the callback at its lock is what shows late
callbacks. `online` is the session's entry in `phoneOnline` of `main.go` (all
connections of a session carry the device id of the session row, so presence is
one bit). A heartbeat looks at one client per action, and reads the validity of
the session at that moment.

Abstractions: one session, since sessions share only the goroutine and the
channels; `DisconnectDevice` is not an action: the connections it closes are, for the model,
reads that fail at any time, and what its sends may do is under the observations; a tick
comes when `Run` has taken what the last tick put on `unregister` (ticks are 15 s apart).

### HubMessages

A message is its number in the order of the `Send`s, which any goroutine of the server
does at any moment.

| Variables, actions | Code |
|---|---|
| `broadcast` | the channel `h.broadcast` |
| `inbox`, `Enqueue` | `h.inboxes` of the session, `enqueueInbox` |
| `got` | the messages put into the send buffer of each connection, ever |
| `Send` | `Hub.Send`: the channel or, when it is full, the inbox |
| `TakeBroadcast` | the case of `Run`: all clients with room, else the inbox |
| `RegisterAndFlush` | the registration and its flush |

Whether a send buffer has room depends on the peer and is left open: a flush puts any part
of the queue into it, a broadcast goes to any part of the clients. `overflowed` remembers
that the channel, the inbox or the buffer of some client was full when a message was to go
there; from then on the code drops or reorders messages by design. Three things are
deliberately weak in `NothingMissed`: a message in the buffer of a connection that dies
counts as given; so does one that only the window on the PC got while the phone was away
(see the observations); and nothing is said after an overflow.

### Pairing

The methods of `pairing.Manager` hold its mutex, and every SQL call is a statement of
its own, so a handler (`handler[h]`) goes through one step per call, carrying the
device, the request, the token and the session it works for.

| Variables | Code |
|---|---|
| `token` | `Manager.tokens`: value, used, expired, failures |
| `request` | `Manager.requests`: status, device, token, session it was accepted with |
| `session` | rows of `sessions` that `Validate` accepts, with the request each was made for |
| `known`, `ignored` | rows of `devices`, and those with `ignored_at` |
| `phone` | whether a phone is asking or polling |

| Actions | Code |
|---|---|
| `Issue`, `Refresh`, `TokenExpires`, `PresentToken`, `PresentWrongToken` | `Issue`, `Refresh`, `Validate` |
| `CreateRequest`, `AskDirectly`, `DiscoverChecks` | `handlePairRequest`, `handlePairDiscover`, `CreateRequest`, `CreateDirectRequest`, `isDeviceIgnored` |
| `LookUp`, `CreateSession`, `MarkAccepted`, `RevokeUnused` | `acceptPairRequest`: `GetRequest` and `UpsertDevice`, `Session.Create`, `Accept`, `Session.Revoke` |
| `UiAccept`, `ClearIgnoreOnManualAccept`, `UiReject`, `UiList`, `UiDelete`, `MarkIgnored`, `UiRestore` | the handlers of the desktop window |
| `Poll`, `PollFails`, `StopAsking`, `SessionEnds` | the phone, and revocation or expiry of a session |
| `RequestExpires`, `Cleanup`, `Restart` | time, `Manager.Cleanup`, the start of `main.go` |

Abstractions: identifiers come from finite sets and are used again when nothing refers
to them (they are random in the code); the setting `RequirePairConfirmation` may change at
any time, hence a choice where it is read; addresses and last-seen times are left
out. A statement that takes the context of the request fails when the client is gone;
`UpsertDevice` and `InsertSession` do not take it.

### OutboundTransfer

Every party (the page, its chunk uploads, the phone's HTTP calls, the reader of its
socket, the history window, the grace timer) has a request of its own in progress at the
server (`req[p]`), again one action per statement or file operation.

| Variables | Code |
|---|---|
| `status`, `started`, `listed`, `fileDone` | `transfers` and `transfer_files` |
| `part`, `staged` | `.part` files in the present staging directory, and their chunks |
| `making`, `early` | the `.part` files `POST /transfers` has still to create; history: a cleanup came before it had |
| `batch`, `page`, `acked`, `heard` | `sendBatch` in the Vue UI and `file.offer.accept` reaching it |
| `offer`, `phone`, `kept`, `wire`, `lost` | `acceptOffer` and `downloadFile` on the phone, and its messages |

| Actions | Code |
|---|---|
| `CreateRows`, `CreateParts`, `Put`, `OfferRead`, `OfferPush` | `handleCreateTransfer`, `handlePutChunk`, `handleOfferTransfer` |
| `GivesUp`, `HearsAccept`, `SenderCancels` | the end of `sendBatch`: 120 s, the acceptance, a file that fails |
| `PhoneAccepts` … `PhoneCancels` | the phone; `GetChunk` is one range of `handleDownloadFile`, with `ParseRange` |
| `OnMessage`, `FilesDone`, `WriteStatus`, `Cleanup` | `router.go` and the writes its handlers do later |
| `DeleteTransfer`, `DeleteLocal`, `ClearHistory`, `DropFiles`, `DropRow` | `transfer_cleanup.go` and its handlers |
| `GraceExpires`, `MoveDirectory` | `OnGraceExpired`, `SetDownloadDir` |

The page is `sendBatch` with a local session. `sendFiles` of the shipped page takes only
sessions of the role `remote-server` (`usePeerPool.ts:384-394`), so this path of
`sendBatch` (`:539-557`) is reached only by another caller; the endpoints of the server are
there for every client with a session, and everything the properties say is about what
these and the phone do.

The grace timer runs from the disconnection of the phone, and nothing that creates or
announces a transfer looks at presence. So `GraceExpires` may begin as soon as there is a row,
between two `CreatePart`s of the same `POST` as well.

Abstractions: the page's queue over several
peers is left out; the phone checks the SHA-256 the page declared, which it always
does; the bitmap, byte counters and failing statements are in `InboundTransfer`, where they
matter, as are crashes; a session has one transfer (`findTransferBySession` picks one); what
a move of the directory leaves in the old one is out of sight; the page stays open; it puts each chunk until it is answered, one
request at a time for a chunk: a PUT that timed out at the page (`api.ts:269`, 120 s, then
repeated) while it still runs at the server is excluded, and `CompletedIsRecorded` rests on
that (the end of the request's context mostly ends such a PUT at its next statement, but
need not); an orphaned row of `file_chunk_states` harms nobody; the phone's resumption of a
partial download is a download.

## Runs

| Run | Question | Bounds |
|---|---|---|
| `inbound_safety` | do all handlers together keep files, bitmap, counts and status consistent? | a two-chunk and a one-chunk file, two requests at a time, every handler, a client that sends anything in any order |
| `inbound_faults` | and when calls fail anywhere? | a two-chunk and an empty file, two requests, offered or created |
| `inbound_liveness` | does a diligent client's upload complete? | three files of two, one and no chunks, two requests |
| `scheduler` | budgets, counters, wake-ups, answers | four requests, three files, budgets 1, 2 and 2 |
| `hub` | are timer and presence consistent in every order, can `Run` block on itself, is an absent phone noticed, do revoked sessions end? | two phone connections, one missed pong tolerated, room for two entries per connection |
| `hub_messages` | is a message missed or overtaken around a reconnection, before something is full? is a closed channel used? | a phone and the UI, three messages, a channel of two, an inbox of one |
| `pairing` | does a token admit one request, does a verdict stand, is every session somebody's? | one phone, one pair id, two tokens, requests, sessions and handlers, one failure |
| `pairing_liveness` | does every attempt to pair end? | two phones of one name, one token, request and session, two handlers |
| `outbound` | is what reads completed delivered (also as the refinement `SendsBatch`), is nothing left behind, does an offer settle? | a file of three bytes in chunks of two and an empty file, sent together or the empty one alone, two chunk uploads |
| `inbound_terminal`, `pairing_deleted`, `outbound_accept` | disagreements with the repository's own statements (below) | as the runs above, fewer handlers in the first |

Two requests, handlers or uploads at a time are enough for every pairwise race, which is
what the hazards found in this code are; the theorems below cover more. Two chunks let
a file be partial, the second one short; a second file lets a batch be partial; an empty
file has no chunk at all, which is also the only batch whose offer can still be accepted. Two
tokens and requests let one overtake another on the same pair id. Two phones with one name
are what the list of deleted devices may confuse.

`CHECK_DEADLOCK FALSE` in the inbound and scheduler runs: a settled transfer and a
restarted server receive no further request that changes anything, and the requests of the
scheduler are made once. Hub and pairing never stop, and the outbound run says with
`Terminated` where it may. The symmetries of `inbound_safety`, `inbound_faults` (requests)
and `pairing` (tokens, requests, sessions, handlers) are used for invariants and for action
properties that treat these alike; no run with a liveness property uses one.

The registration channel is scaled from 16 to 2 and the unregistration channel from 256
to two entries per connection: `NeverStuck` needs that much and no more, as one connection
is put there by its reader and by the heartbeat at most once each, so the code's 256
suffice for 128 connections. Two phone connections are needed for overlapping ones and for
a dead client beside a live one. The channel and the inbox of `hub_messages` (64 and 200 in the
code) are small enough to be full within three messages, and large enough that
messages wait in both at once before that.

**Fairness.** `InboundTransfer!FairSpec` lets every handler that has begun run on
(a goroutine is scheduled, SQLite and the file system answer) and lets the client
send what it has to send; cancels, failures and crashes are never required.
`Scheduler!FairSpec` lets both goroutines of a request run; no context need ever be
cancelled. `Hub!FairSpec` lets goroutines run, timers fire and reads return once the
server has closed the connection; `Run`'s `select` chooses at random among what is
ready, and a channel serves its senders in turn, hence strong fairness for its
cases and for the sends. Nobody need dial, answer a ping or leave.
`Pairing!FairSpec` lets handlers run on, phones poll (a timer of theirs) and the time of a
request pass; nobody presses a button. `OutboundTransfer!FairSpec` lets three
sequential processes go on: the page with its own requests and its timer, the phone once it has
accepted, the reader of the phone's socket. Nobody need accept, cancel, delete or stay away, and
a chunk upload, a deletion or a grace expiry may stop half way.

### Findings

* `inbound_terminal`: `MarkTransferStarted` moves a cancelled transfer back to
  `transferring` (`state_machine.go:83`: no outgoing edges).
* `pairing_deleted`: `handlePairRequest` accepts a phone the user deleted without a
  question when confirmation is off (`handlers_pair.go:41`); only `handlePairDiscover` looks
  at the mark. `handlers_local_devices.go:32` says it is never accepted silently.
* `outbound_accept`: the first staged chunk moves the transfer to `transferring`, from where
  no offer can be accepted (`router.go:287`), although the announcement is answered with
  `"status": "waiting_accept"` (`handlers_transfer.go:147`), a status nothing writes. Only a
  batch of empty files can be accepted.

### Observations

What the models show of the code that no statement of the repository contradicts, or only in
spirit:

* The chunk count of a file is written after the chunk lock is released
  (`manager.go:209`) and may go backwards, also when a hash mismatch writes back the count it
  read (`manager.go:232`); it is never ahead of the bitmap (`CountsNeverAhead`).
* A PUT that timed out at the client and runs on resets the row of a completed file
  (`manager.go:224`); the transfer then never completes. `EveryUploadCompletes` holds
  without such timeouts.
* A failed transfer that is retried cannot go on: its `.part` files are gone and never made
  again. No client calls the route.
* The end of a phone's old connection removes the presence of its new one (`main.go:187`), and
  the late callback of a grace timer makes the map forget the next timer (`hub.go:282`).
  `PresenceIsReal` and `TimerMeansNoPhone` state what remains true.
* `isDeviceIgnored` takes an error of the database for "not deleted"; a deletion racing an
  acceptance leaves the device a session (`UiDelete` revokes before it marks).
* An accept of an offer reads the status before it writes, so it may overwrite a cancel in
  between. A completion reported by the phone is taken in every status.
* Deletion is three statements: a page that announces in between announces no files.
* A change of the download directory strands `.part` files in the old one;
  `SettledLeavesNothing` is about the present one. Rejected inbound offers never clean theirs.
* The reconnect grace may expire between `Manager.Create` and the last `CreatePart` of
  `handleCreateTransfer` (`handlers_transfer.go:83-97`): the timer started at the disconnection,
  and creation does not look at presence. `OnGraceExpired` fails the transfer and cleans up, the
  `.part` created after that stays: PUTs get 409, the cancel is refused, the start-up sweep skips
  terminal rows, and only a deletion of the transfer that cleans up (`handleDeleteTransfer`) removes
  it. Without the exception for `early`, `SettledLeavesNothing` is violated in five steps, these.
  `InboundTransfer!GraceExpiry` may come as early.
* A deletion, too, may come before the last `.part` of its transfer is created, if a client
  deletes a transfer whose creation has not been answered yet (`early`).
* A cancel on the phone while the last range is under way or the hash is computed does not keep
  the file from being kept and `completed` from being reported; between two files it ends
  `acceptOffer` without any report (`LeavesLoop`).
* A report the phone could not send leaves an accepted transfer open (`lost` in
  `OfferSettles`). The page's timer cancels in the middle of a long download.
* A flush drops what the send buffer has no room for, a broadcast to several clients drops it
  for those without room, and a full broadcast channel lets later messages overtake
  (`overflowed`). None of this is reported to the sender.
* A message sent while only the window of the PC is connected goes to the window and is not
  queued for the phone: `Run` queues what nobody took (`hub.go:236`), although `Send` says that it
  "queues it if offline" (`hub.go:245`).
* `DisconnectDevice` sends to clients it collected under a lock it has released (`hub.go:63-77`). If `Run`
  has unregistered one of them since, the send panics; `withRecover` (`api/router.go:139`) ends the
  handler, the phone's other connection stays until the heartbeat finds its session revoked,
  and the device is not marked as deleted (`handlers_local_devices.go:118`).

## Proofs

`InboundTransferProofs` proves, for any finite set of files, any chunk counts, any
number of requests, any choice of handlers, with or without faults: type
correctness, the safety invariants and the action property of `inbound_safety`,
and that `InboundTransfer` implements `FileDelivery`. The assumptions are the
three named ones of the module (files finite and not empty, chunk counts natural,
options in their ranges).

The invariants are not inductive alone. `IInv` adds what a request may rely on at
each of its steps (`RequestsInv`): after its bitmap check a completion knows that
the bitmap is full *for ever*, since bits are never cleared; with "the bitmap is
behind the disk" this makes the `.part` whole whenever it is still there at the
rename; a request that is about to write `completed` has seen every row completed,
and a completed row means a saved file, which stays saved. `CreationInv` says that
nobody sends chunks before the staging files exist, so that `CreatePart`, which
truncates, never meets a written file. `Forward` collects what every action
keeps for the requests that do not move. Each action has its lemma; `StepMovesFiles`
classifies how a step moves the files and yields both the action property and the
refinement. The last section proves `CountsNeverAhead` on top of these: a request that is about
to write a count took it from the bitmap, which only grows, so that the count is never
ahead whatever the order in which the rows are written (`CountsInv`); the count a mismatch
carries was read from a row behind the bitmap (`Carries`). `AnsweredChunksStay` says
the same of the client's side, faults and crashes included: a chunk that was answered is in
the bitmap, and in the file as long as that is there, so an interrupted upload can be taken up
without sending it again (`AnswersInv`: a request past `MarkChunkComplete` has its bit set).

`InboundSettlesProofs` is about completion. Its theorems have a hypothesis on the options of
the model, `PatientClient`, the one of `inbound_liveness`: the client sends a chunk by one
request at a time, asks for each completion once and waits for its answers, nobody
decides otherwise about the transfer, calls succeed, and no file is saved that does not match its
declared hash. Each part is needed: a timed-out PUT takes a completed row back (see the
observations), a failed call leaves the transfer open, a decision ends it otherwise. The
number of files, chunks and requests at a time is free, which TLC's two requests are not. The
argument is about the two listings of `Manager.CompleteFile`: the rows of the files are
written before the second listing, so of several completions that overlap the one whose row
came last sees them all (`SettlingInv`: once every row says completed, the transfer does,
or a request is still to find that out). `SendingInv` and `CompletingInv` keep requests of one
chunk or file apart, `RowsInv` says who may write a row, `CalmInv` what does not happen.
`SavedTransferSettles` is the property `AllSavedSettles`. `NothingLeftToAskFor` and `UploadNeverRests`
are, for a batch without mismatch or name conflict (`CleanUpload`), what `EveryUploadCompletes`
needs besides fairness: when nothing is in progress, either the transfer reads completed or
the client has a chunk the server takes or a completion its bitmap allows.

`SchedulerProofs` proves type correctness, that the counters equal the numbers of
holders, the budgets and that no sleeper is overlooked, for any requests, files
and budgets. Three more follow: the mutex is held by one goroutine between its two looks
(`MutexIsExclusive`), no slot is left behind when the last request has ended (`NoSlotLeaks`), and
there is always a goroutine that can go on (`SchedulerNeverDeadlocks`): whoever sleeps does so
because somebody holds a slot, since a free scheduler admits any request.

`HubProofs` proves, for any connections, any of them local, and any capacities: type
correctness, that `Run` never touches a closed channel, that the timer of the map
excludes registered phones, that an absent phone stays covered until its transfers
are failed, and that presence is never stale after a phone has left. Inductive is
their conjunction with `RegisterInv`: a connection is put on `register` once, and
neither is a client nor has a closed channel before it is taken from there.
`RunIsNeverStuck` proves `NeverStuck` from `UnregisterCap >= 2 * Cardinality(Conns)`: a connection
is on `unregister` at most twice, and if so it has ended and was closed by the heartbeat
(`QueueInv`), so that the entries map injectively into connections times two, without the second
place of the client the heartbeat is at. The code's 256 satisfies this for the 128
connections of a behaviour; more could be queued only if `Run` took nothing in between.
`ClosedClientsLeave` says that a connection the heartbeat closed stays a client only while its
entry waits in the channel (`LeavingInv`).

`HubMessagesProofs` proves that `HubMessages` implements `Hub` (a message changes none of
its state, so the theorems of `HubProofs` hold with messages in flight), and the three
properties of the messages for any connections and capacities. `OrderInv` says where each
number is: what waits in the inbox, then what waits in the channel, are the latest ones; each
earlier one was put into some buffer; each connection got an unbroken run of those
(`UnbrokenRun`), which for a client that got any reaches up to the last. A delivery keeps this because a message
in the inbox means that nobody is registered (`QueuedOnlyWhileOffline`) and because all clients get
it, and a registration because it flushes all to a connection that got nothing before
(`OnlyClientsGot`: only a client, or a connection that was one and is closed, got anything).

`PairingProofs` proves, for any phones, pair ids, tokens, requests, sessions and handlers
in flight and any limit of failures: type correctness, that a token makes one request, that a
session has an owner, and that a verdict stands. The inductive invariant says where a token
is: on one pair id while it can be consumed, and then with one handler or one request
(`TokensApart`, `TokenHolders`), which is what survives a refresh between `Validate` and
`CreateRequest`; that a request about to be made has nothing under its id
(`RequestsSound`); that a session is with one handler, made for the request of that
handler (`SessionHolders`); and what a handler carries at each of its steps (`HandlersSound`).
Lemmas collect what a handler that ends or goes on keeps (`HandlerEnds`, `HandlerGoesOn`), so that each
action has only its own effects to account for. On top of this `OwnersInv` follows the device
through ids that phones, handlers and the window hand around: whoever acts on a request acts
for the device that made it, and a session is of the device of its handler and of its request.
Hence no poll hands a phone the session of another one (`PhonesGetTheirOwnSession`), and no
attempt is left with nobody to move it (`AttemptsNeverRest`, what `AttemptsEnd` needs besides
fairness).

`OutboundProofs` proves the four safety properties of `OutboundTransfer`, for any files,
sizes, chunk sizes, batches and number of chunk uploads at a time, in layers that each use
the ones before. `TypeInv` adds to the types which request may be at which step for which
purpose, and that `waiting_accept` is never reached (so that nothing is ever rejected).
`DeliveryInv` follows what was delivered along its way: what the phone need not fetch any
more it has kept, so a report that is on the wire is true, so the request it begins is, so the
status is; each of them stays true because nothing kept is given back and no deleted row comes
back. `StagingInv` says that two uploads are never at one chunk, that nothing is announced
before all chunks are answered and that nobody answers before the announcement; hence no
upload is left to take a completed file back (`RecordedInv`). `CleanInv` says that while the
transfer is over, deleted or being deleted, some request is about to remove the `.part` files
(`CleanSoon`), or there are none and none will be created any more (`making`); the one other case is
that a cleanup came while some had still to be created (`early`), which the code allows (see the
observations). `OwnMoves` and the lemmas about
writers (`RowWriters`, `DiskWriters`, `PeerWriters`) say who changes what, so that each
lemma looks only at the actions that can disturb it.

`ImplementsSending` maps every step to one of `FileDelivery` or a stutter: `KeepFile` delivers,
the write of `completed` reports, any overwriting or deletion withdraws. `RangesAreTheFile` is the
arithmetic of a download, for every size and both chunk sizes: the ranges the phone computes
are accepted by `ParseRange` as they were meant, follow one another and end with the last byte.
`DownloadsAreWhole` adds that what is behind these bytes was staged: `handleDownloadFile` looks at
nothing but the `.part`, and `StoredInv` says that the `.part` of an announced file, if there is
one, holds every answered chunk, through late uploads, cancels, deletions and moves of the
directory. That every byte lies in a chunk (`ByteHasChunk`) joins the two.

Every invariant and action property of the passing runs is proved. Only model-checked are the
liveness properties (`EveryUploadCompletes`, `EveryRequestAnswered`, `PhoneAwayIsNoticed`,
`RevokedSessionsEnd`, `AttemptsEnd`, `OfferSettles`), as liveness under fairness and ENABLED are
outside what the prover handles. For four of them a theorem states the part that is an invariant:
`UploadNeverRests` with `NothingLeftToAskFor`, `SchedulerNeverDeadlocks`, `ClosedClientsLeave`
and `AttemptsNeverRest`. The guards of the steps named there are written out, since ENABLED is
not available.

## Not modelled

* Discovery, configuration, settings and address helpers: input and output without a
  protocol. Presentation in the Vue UI and on the phone.
* The rate limiter and the header checks of the middleware: a counter per address and minute.
  What authentication accepts is in `Pairing`.
* Retry backoff, the speed window and the throttle: arithmetic, unit-tested.
* Name conflicts between files (`security/filename.go`): the choice of a name and the
  rename run under one mutex, and the models' files have distinct names.
* Bodies of chunks of a wrong length, pause, resume and retry of an outbound
  transfer, a PUT of an outbound transfer that outlives its answer, `DisconnectDevice`, the grace timer with three
  connections.
* The phone's receiving server, its server side of pairing (the same protocol in one isolate),
  and the backoff of its reconnecting client.

## Plan

1. The phone's receiver with its semaphores and chunk files, and its reconnecting client.
2. `InboundTransfer` with `Scheduler` between its check and its write; two files that take
   one name.
