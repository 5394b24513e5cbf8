# A TLA+ model of waepic

waepic is a WhatsApp-Web client in Rust, split into `waepic-connection` (transport,
Noise encryption, connection lifecycle, request/response), `waepic-session` (device and
Signal-state storage), `waepic-client` (pairing, update stream, messages, media) and the
re-exporting crate `waepic`.  This directory models the parts in which ordering, failure
and concurrency decide whether the program is right.  `PROJECT.json` maps every
definition to the lines it models and lists the runs, hazards, findings and theorems.

Paths below are relative to the repository; `updates.rs` and the like without a
directory are in `waepic-client/src/client/`.

## 1. The system

| Component | State | Operations | Talks to |
|---|---|---|---|
| Connection runner (`connection.rs`, `frame.rs`) | `reconnect_attempt`, `is_connected`, `logged_out`, transport, Noise socket, event receiver | connect, handshake, read loop, keepalive, cleanup, backoff, stop | transport, command channel, event bus, IQ waiters |
| Connection handle (`connection.rs`) | IQ id counter, `iq_waiters` table | `send_node`, `send_iq`, `disconnect`, `is_connected` | command channel, waiters |
| Noise socket (`noise_socket.rs`) | write counter (mutex), read counter (atomic) | `encrypt_and_send`, `decrypt_frame` | transport |
| WebSocket transport (`transport.rs`) | sink, shutdown channel, 64-slot event channel | `send`, `disconnect`, read pump | network, read loop |
| Event bus (`async_broadcast`, 256 slots) | queue, one cursor per receiver | `broadcast` (waits), `try_broadcast` (drops), `new_receiver` | read loop to update stream, pairing tasks |
| Update stream (`updates.rs`) | `post_pair_reconnect` flag, event count, device cache | dispatch, post-connect init, Signal-cache flush | bus, handle, session |
| Pairing (`pair.rs`, `auth.rs`, pair-code in `handlers.rs`) | pairing state, snapshot of the device, QR refs | QR rotation, pair-code requests, pair-success | bus, handle, session, device cache |
| Device cache (`mod.rs`, `context.rs`) | `RwLock<Device>` in memory, a copy in the session backend | read, write, `backend.save` / `load`, `clear_device` | every client task |
| Pre-keys (`pair.rs`, `signal_adapter.rs`) | `next_pre_key_id`, stored private keys, server count | upload, consume | handle, session, adapter |
| Signal adapter (`signal_adapter.rs`) | cached sessions and sender keys, backend | load, store, flush, remove pre-key | device cache, session |
| Handlers (`handlers.rs`) | none of their own | receipts, notifications, `ib`, failures | handle, session, updates |
| History sync (`handlers.rs`, `updates.rs`) | none of its own | download or take a chunk, hand it over, acknowledge it | update stream, media, handle |
| Messages (`messages.rs`) | none of their own | send, edit, revoke, react, forward | device lock, handle, adapter |
| Media (`waepic-client/src/download.rs`) | cached media connection | refresh, invalidate, download with one retry | handle, HTTP |
| Session stores (`waepic-session`) | tables of keys, sessions, app-state, tokens, messages | get, put, delete, take, expire, clear | everything above |

### How the parts interact

One task runs `ConnectionRunner::run`.  It alone touches the transport: everything that
is to be written reaches it through an unbounded command channel, with a oneshot that
reports the write.  What it reads it does two things with, in this order: a response
resolves the oneshot registered for its id in `iq_waiters`, and every node is published
on a bounded broadcast bus.  The update stream and each pairing task are receivers of
that bus.  They call back into the handle, and so wait for the read loop that may be
waiting for them; and they share the device, once in an `async_lock::RwLock` and once in
the session backend, with the application's calls of `send_message` and `logout`.

### What makes it hard, and what makes it right

* **Runner and handle.**  Calls, their timeouts, connection losses, reconnects and a
  logout interleave freely, and no timeout undoes anything.  Right means: a request is
  executed at most once; `Ok` is returned only for an executed request; a call never
  waits for a response that cannot come; after `<failure>` the client never connects
  again; `is_connected` never outlives the read loop; `disconnect` stops the runner.
* **Noise socket.**  The write counter is read, the frame sent, the counter advanced,
  with an await in between that a deadline can cut.  Right means: no nonce is used
  twice, and both ends count the same frames.
* **Pairing.**  Three copies of the device, two kinds of flow, the update stream and a
  server that drops the connection as part of the protocol.  Right means: client and
  server agree that they are paired and under which secret; a stored pairing is not
  overwritten; the forced reconnect is hidden from the application and a real loss is not.
* **Device lock and waiting.**  Guards are held while the server is asked.  Right means:
  one stanza is built under one device, and nobody waits for ever.
* **Pre-keys.**  The server learns the public halves before the private ones are stored,
  in uploads that may overlap.  Right means: a key is used once, and a message that
  cannot be decrypted has a reason.
* **Signal state.**  Sessions live in a cache, are loaded and stored without a lock and
  flushed now and then; one-time keys go at once.  Right means: no message key is used
  twice, no message is lost or shown twice, and what breaks this has a name.
* **Device.**  One row in the session, a copy in every client, one in every connection and
  one in every pairing flow; the server links and rejects what a connection presented.
  Right means: the client does not lose a companion the server has linked; a rejected one
  does not come back; what is linked is what was presented; peers use the signed pre-key
  that is stored.
* **Session stores.**  Tasks share one connection to the database, whose operations are
  several statements without a transaction.  Right means: whatever fails or crashes, a
  request is served as if in one step, or a beginning of it is; a sent message is taken
  once; the latest sync key is the one that was set last.
* **Media and history sync.**  Downloads refresh and invalidate one cached connection side
  by side, hosts fail after they have written something, and the server sends a chunk of
  history only when the last one was acknowledged.  Right means: a retry uses a connection
  asked for after the refusal; the writer ends up with the file; a chunk is acknowledged
  after it was handed over; history goes on as long as the host answers.
* **Transport**: see section 8.

## 2. Modules

| Module | Models | Extends / instantiates |
|---|---|---|
| `RequestReply` | the promise of `send_iq` and `send_node` to their callers | |
| `Connection` | runner, handle, command channel, waiters, event channel, bus, server | instance of `RequestReply` |
| `ConnectionProofs` | its invariants and the refinement, proved | `Connection` |
| `NoiseSocket` | the two counters of one connection | |
| `NoiseSocketProofs` | its invariants, proved | `NoiseSocket` |
| `Pairing` | QR and pair-code flows, update stream, device copies, server, phone | |
| `PairingProofs` | its invariants and its action properties, proved | `Pairing` |
| `DeviceLife` | the device row, its copies, clients and restarts, linking and rejection | |
| `DeviceLifeProofs` | its invariants and its action property, proved | `DeviceLife` |
| `PreKeys` | uploads, the server's keys, peers' first messages | |
| `ClientTasks` | the device lock and who waits for whom | |
| `ClientTasksProofs` | its invariants, proved | `ClientTasks` |
| `SignalState` | one peer's session, sender key and one-time key in cache and backend | |
| `SignalStateProofs` | its invariants, proved | `SignalState` |
| `StoreRequests` | what a session store can be asked, table by table | |
| `AtomicStore` | what a session store promises to the tasks that share it | `StoreRequests` |
| `SessionStores` | `SqliteSession` statement by statement, and `MemorySession` | `StoreRequests`, instance of `AtomicStore` |
| `SessionStoresProofs` | its invariants and the refinement, proved | `SessionStores` |
| `MediaDownloads` | downloads that share the cached media connection | |
| `HistorySync` | history chunks from the server to the application and their receipts | `MediaDownloads` |
| `BackgroundProofs` | the invariants of the client's two background jobs, proved | `HistorySync`, `PreKeys` |
| `MC...` | the instances that TLC checks | the module of that name |

In every module, definitions introduced by the comment "Faulty variant" are not part of
the specification.  Each is what a plausible mistake would make of the definition that
follows it, and `PROJECT.json` says which property notices.

### Connection

State: `runner` is the program point of `ConnectionRunner::run`, `loopResult` what
`read_loop` returned, `attempt`, `isConnected` and `loggedOut` the fields of those names.
`cmds` is the command channel, `waiters` the keys of `iq_waiters`; `call`, `sent` and
`answer` are, per call, where its future is and what its two oneshots hold.  `inbox` is
the transport's event channel, `bus` the broadcast bus as its slowest receiver sees it
and `busOpen` whether anybody receives.  `wire` and `writes` are the network.

| Actions | Code |
|---|---|
| `StartIq`, `StartNode`, `Enqueue`, `SendReturns`, `SendTimesOut`, `AnswerReturns`, `AnswerTimesOut` | `send_iq`, `send_node`: register, push, wait for the write, wait for the response |
| `RequestDisconnect`, `DropHandle` | `disconnect`; the last handle is dropped |
| `CheckLoggedOut`, `ConnectSucceeds`, `ConnectFails`, `BackoffElapses` | the outer loop of `run` around `connect_once` |
| `ReadFrame`, `ReadGarbage`, `ReadEof`, `FinishPublish` | `read_loop` and `process_incoming_frame` |
| `HandleSend`, `HandleDisconnect`, `CommandChannelCloses`, `KeepaliveFails` | the lower-priority branches of its `select` |
| `DrainWaiters`, `CloseTransport` | `cleanup_connection` and what `run` does next |
| `ServerAnswers`, `ServerSends`, `LinkDrops`, `Consume`, `Unsubscribe` | server, network and the receivers of the bus |

Abstractions: a call is its IQ id; a node is its kind; a handshake is one step with two
outcomes; the answer the runner sends to a server's `iq` has no state.  A keepalive is
modelled by the event it publishes when it fails.  A write may fail and still have
reached the network.

### NoiseSocket

One connection: `writeCounter`, the `holder` of its async mutex, what each write came to
and the frames that the sink took.  `Acquire` takes the lock and checks exhaustion;
`SendSucceeds`, `SendFails` and `KeepaliveTimesOut` end the send, the last two with or
without the frame on the wire.  `DecryptFrame` claims the read counter before opening
the frame.  A frame is its nonce.  `CounterMax` stands for `u32::MAX`.

### Pairing

`memory` is `ClientInner::device`, `backend` the stored device, `dev[f]` the clone that
flow `f` works on; a device is abstracted to whether it is paired and which ADV secret
it holds.  `flag` is `post_pair_reconnect`, `codeState` is `pair_code_state`.  `queue`
holds, per receiver of the bus, what it has not read yet.  `server[f]` and `linked` are
the server's and the phone's view.  `shown` is the last link update the application got.

| Actions | Code |
|---|---|
| `RequestPairing`, `ReadEvent`, `CloneDevice`, `Respond`, `Save`, `FinishFlow`, `QrEnds` | `request_pairing`, `run_qr_pairing`, `handle_pair_success` |
| `RequestPairCode`, `HelloFails`, `StoreCode`, `TaskStarts` | `request_pair_code` around its `companion_hello`, and the task it spawns |
| `HandleConfirm`, `SaveAdv`, `SendFinish` | `handle_pair_code_notification`, in the update stream |
| `HandleConnected`, `LoadDevice`, `InstallDevice`, `InstallNothing`, `FinishInit`, `HandleDisconnected`, `HandleStreamError`, `IgnoreNode` | the rest of the update stream |
| `SendPairDevice`, `HelloArrives`, `SendPairSuccess`, `QueuedSignSent`, `SendStreamError`, `ForcedDrop`, `Drop`, `Connect` | the server and the connection |
| `UserScans`, `UserConfirms`, `UserMistypes` | the person with the phone |

Flows and stream are cut at every await at which another task may change what they share.
Loads, sends and saves may fail, and what was given up may still be written, as in
`Connection`: a `pair-device-sign` that timed out (`queued`), a `companion_finish` whose
send failed, and a `companion_hello` whose call has returned an error.  The last counts for
the server all the same: it supersedes the request before it while `pair_code_state` still
holds the code of that one.

The phone's key comes wrapped under the code the user typed, in a cipher without a tag.  If
the client holds another code than that, unwrapping gives `Junk`, no error: the secret is
rotated to it, saved, and `companion_finish` sent (`UserMistypes`, `Unwrapped`).

What the environment is assumed to do:

* The phone confirms one link; the latest `companion_hello` counts; the server forces
  one reconnect after it has linked a companion.
* The server takes a `companion_finish` for the request it waits on only, and the phone
  cannot open a bundle that is sealed with a secret it does not share.
* An application links by QR codes or by pair codes, not by both at once (`OneMethod`).
  Without this `SecretsAgree` fails: the QR flow saves the device it loaded at its start
  over the secret that a pair code has rotated since (`pair.rs:417`).
* `prompt` is chosen once.  If it is `TRUE`, what the server, the network or a person
  times comes after the tasks have read what they have: the code says as much ("~600ms
  after pair-success") and leaves it unenforced.  `WindowIsSilent`, `RealDropShown` and
  `MemoryFresh` are claimed under it; everything else holds without it.
* `logout` and its `disconnect` are left to `Connection` and `ClientTasks`.

`PairedTogether` says no more than the code does.  When the send of `pair-device-sign` or
the save behind it fails, the server may have linked a companion that is stored nowhere.
The flow that answered has then ended with an error, which a QR flow hands to the
application and a pair-code flow only logs (`auth.rs:232`).

### DeviceLife

`row` is the stored device and `signed` whose signed pre-key is stored (`Device::new` gives
the key of every device the same number, so there is one place for all); `memory` is
`ClientInner::device`, `loaded` and `fresh` what `load_or_create_device` and the
post-connect init have read, `conn` the device a connection presented in its
handshake, `dev` the one a flow pairs with.  `code` says that `pair_code_state` waits for
the phone, and `queued` whose `pair-device-sign` was given up on and is still in the command
channel.  A device is whose keys it has and whether `pn` is set.  `events` is what the update stream has not handled, `late` the rejections
in the streams of clients that were replaced; `server` is what the server knows.

| Actions | Code |
|---|---|
| `Create`, `Connect`, `LoadDevice`, `InstallLoaded`, `CheckSigned`, `StoreSigned`, `BootFails` | `Session::create`, `Client::connect`, `load_or_create_device` |
| `LoadForConnect`, `HandshakeFails`, `HandshakeDone`, `LinkLost` | `connect_once` and the events around a connection |
| `ServerRejects`, `ServerRefuses`, `PhoneRemoves` | `<failure>` without and with a code; the companion is removed |
| `StreamLoads`, `StreamInstalls`, `StreamShows`, `StreamClears`, `LateClears` | the update stream |
| `AppClears`, `Logout`, `Drop`, `Crash` | the application and the process |
| `RequestPairing`, `PairSuccess`, `SavePaired`, `StorePairedKey`, `PairingEnds`, `QueuedSignSent` | the pairing flows, as far as they touch the device |
| `PhoneConfirms`, `PairCodeConfirmed` | a pair code's confirmation, and the save of the client's device in `handle_pair_code_notification` |

`sqlite` is chosen once.  `SqliteSession::clear_device` deletes the row; `MemorySession`
keeps the trait's default, which does nothing, and dies with its process.  A load, a save,
a deletion and a send may fail, and a failed deletion is only logged.

A confirmation is acted on if `pair_code_state` waits for one, and nothing resets that when
the flow ends.  So one that is handled late saves the client's device over whatever the row
holds by then.  And a `pair-device-sign` may be written after `handle_pair_success` has
returned its error: the companion is linked and nobody saves it.  Both are named causes in
`LinkedIsKept`.

What the environment is assumed to do: there is one client at a time, and another is made
once the runner of the last has stopped; the application calls `session.create()` before
`Client::connect`, as the examples do, and pairs when `is_authorized` says no; a lost
connection is made again (`auto_reconnect`); the server forces a new connection after it
has linked a companion (`restarting`); an application that pairs by code drops its client
only after the stream has handled the phone's confirmation, of which one is under way at a
time.  An identity that nothing refers to any more may be used for a new device.

`lost`, `rejected`, `interrupted` and `undercut` are ghosts.  They name what takes a
linked companion away (the application clears it, its save fails or is cut off, its sign is
written after the flow gave up, a late confirmation saves another copy over it, a
`MemorySession` ends, another device's rejection is handled late), who was rejected,
whose signed pre-key was not stored, and that the device was cleared or overwritten under
its client.  What was given up before (`lost`) is exempt from `RejectedStaysOut`, and a
client whose row was changed under it (`undercut`) from `PairsTheConnected`.

### PreKeys

A key pair is named by the upload that generated it and its id.  `published` is the
server's store, `store` the private keys in the session, `mail` the peers' first
messages.  For an id the server already has it may keep either key.  `UploadStops` is a
failed or timed-out IQ and an upload that is cut off; `UploadReaches` may come after it.

The first message of a peer goes through `LoadKey` (`get_pre_key`), `Decrypt`, which leaves
the session in the cache, and `RemoveKey` (`remove_pre_key`, by id, so that it may take a key
that another upload has stored meanwhile).  `ReadFails` is an error before the decryption,
such as a failing read of the session or of the key; a removal that fails gives the decrypted
text up.  The server may deliver a message again whatever came of it.  `sessions` are the
messages whose session would tell the duplicate: a `Restart` may lose it, and so may another
task's store (`Overwrite`).  `forgotten`, `unread` and `undone` are ghosts for these: sessions
lost, reads failed, keys used and not removed.

### ClientTasks

`guards` are the tasks that hold a read guard of the device across an await; `writer` is
the pending `write()`, which, as in `async_lock`, keeps new readers out; `outdated` are
the sends whose device was written while they built their stanza.  `loop` is the node
that the read loop waits to broadcast, `bus` what the stream has not read.  A request is
queued, sent, answered, done or failed, and may time out anywhere on the way.  The tasks
that hold a guard while they wait are `send_message` to a user (`Resolved`,
`LoadSessions`, `Fetched`, `Encrypt`) or a group (`Encrypt` only), `logout`, and the task
that a history sync spawns for its receipt.  Before it is spawned the stream may have to
download the chunk: it asks for the media connection (`StreamConnected`), then waits for the
hosts, which have no deadline and owe nothing (`HostAnswers`).  The older history-sync notifications, which
spawn the same task without a decryption, are left out.

### SignalState

One device of one peer.  `cached` and `stored` hold its session record and its sender
key; `View` is a read through the cache (`load_session`, `load_sender_key`), a store goes
to the cache only.  A record is what it was used for: the sessions it knows, the messages
it decrypted, per session how many it encrypted; the session that the peer opened is
`Peer`, one that a send opens is called after the send.  `loaded` is the record between
a task's load and its store.

| Actions | Code |
|---|---|
| `ReceiveNode`, `DecryptSession`, `SessionFails`, `ProcessKey`, `DecryptGroup`, `SkipMessage`, `PlaintextFails` | `process_incoming_node` and `decrypt_e2e_message`, with `get_pre_key` and `remove_pre_key` |
| `SendReceipt`, `EmitUpdate` | receipt first, then the update to the application |
| `OtherEvent`, `Flush` | the end of `run_update_stream`'s loop, which messages do not reach |
| `StartSend`, `LoadForSend`, `Establish`, `Encrypt`, `SendStanza`, `SendFails` | `send_message` to a user, down to the adapters |
| `PeerSends`, `Reconnect`, `Crash` | peer, redelivery by the server, the client's end |

`overlapped`, `wiped` and `dropped` are ghosts: a store over a change the task had not
seen, what a crash set back, and messages given up because something failed: a read of the
session, of the identity, of a pre-key or of the sender key, the removal of the one-time key,
or what was decrypted, which does not decode or is a sender key that cannot be taken over
(`GiveUp`).  A stanza whose send timed out stays `queued`.  The properties say
that whatever goes wrong has one of them behind it, and dropping any of them from a
property makes TLC refute it.

The cache (wacore) and the ratchet (libsignal) are outside the repository and taken from
their uses: a load returns a copy, `message_decrypt` stores the record and then removes
the one-time key, a new session keeps the old ones of its record.  Left out: identities
and signed pre-keys, group sends (our own sender key takes the same path), history syncs
(`HistorySync`), messages that were on the bus before a reconnect and again after it.

### SessionStores

`StoreRequests` names the operations of the six store traits as requests on tables: `Hits`
is the WHERE clause of one of its statements, `NewRow` what the statement leaves, `Sees`
what it returns.  A key is a pair, the first part of a composite primary key and the
rest; a payload is the number of the request that wrote it; beside it a row keeps the
numbers that some statement compares.

`sqlite` is chosen once.  `db` holds the tables and `order` the rowids of `sync_keys`, which
decide what `get_latest_sync_key_id` returns.  `holder` has the mutex around the connection
and has executed `at` statements; `old` is what it found and `answer` what it was given.
`pending` and `returned` are the calls; `handed` counts, per sent message, how often
`take_sent_message` has returned it.

| Actions | Code |
|---|---|
| `Lock`, `Return` | `self.conn.lock()` at the head of each operation; the guard is dropped |
| `Execute` | the next statement, one per entry of a batch |
| `CountDevice`, `InsertDevice` | the two statements of `create`; the second fails if there is a row |
| `StatementFails` | an error of the database: the statements before it stay |
| `Call`, `MemoryServes` | the same request to the map behind `MemorySession` |
| `Crash` | the process ends between two statements; a map is lost, a file is not |

The map is a dependency and is taken to do what the same request does to a table.  Left
out: what SQLite does when a statement that has returned its row is reset (the deletion of
`DELETE ... RETURNING` commits then, and an error at that point goes unnoticed by the caller),
the closures an application runs with `with_conn`, a mutex poisoned by a panic in
one, and two processes that open one file.

### MediaDownloads and HistorySync

`cache` and `expired` are `media_conn`; `dl` is, per call of `download` or
`download_to_writer`, where it is, its attempt, the connection it uses and the hosts it
has not asked; `writer` is what its writer holds and where it stands.  A connection is
known by who had been refused before it was asked for (`after`).  `ReadCache`,
`IqAnswered` and `WriteCache` are `refresh_media_conn`, which holds the lock over no
await; `HostServes`, `HostRefuses` (401, 403, 404, 410) and `HostFails` are what a host
answers; `InvalidateMediaConn` follows a refusal, once.  A file is two cells, and a host
that fails may have written up to `MaxJunk`.

`HistorySync` adds the chunks.  One arrives in a `<message>` with its payload (`inline`) or
with a reference (`cdn`), or in the older forms, a notification or an `<ib>`, with an id
(`legacy`) or without (`unnamed`); its payload may be missing, not decode, be empty or hold
conversations.  `StreamReads` is the update stream's branch for it, which downloads a `cdn`
chunk before it reads on (`fetching`, `DownloadReturns`).  `todo` is what the chunk's own
task still has to do, an update or the receipt at a time (`TaskStep`).  `barred` says that a
writer of the device is there or waits (`DeviceWriter`): the stream, which reads the device to
decrypt, and a task before its receipt go on only without one.  `shown` is what the
application was handed; a chunk is `receipted`, or `dropped` when its receipt failed or is
never sent.  The application's downloads (`AppBegins`) use the same connection.  That the
server delivers a chunk again after a reconnect is left out.

## 3. Runs

| Run | Instance | Shows |
|---|---|---|
| `connection` | one `send_iq`, one `send_node`, `<failure>` and bad frames, bus and inbox of 1, fairness | `CallInv`, `NoStrandedCall`, `LoggedOutStops`, `CallsFailFast`, `DisconnectStops`, and that `Connection` implements `RequestReply` (`ImplementsPromise`) |
| `noise_socket` | four writes, one a keepalive, counters up to 2, one bad frame | `CounterInv`, `ReuseOnlyAfterCut`, `ReadsInStep` |
| `pairing` | one QR flow or two pair-code requests, bus of 2, one loss of the link | `PairingInv`, `PairedTogether`, `SecretsAgree`, `MemoryFresh`, `PairingSurvives`, `WindowIsSilent`, `RealDropShown` |
| `device_life` | three identities, two clients one after the other, bus of 1, any number of restarts, either session | `DeviceInv`, `LinkedIsKept`, `RejectedStaysOut`, `SignedKeyServes`, `PairsTheConnected` |
| `stores` | two tasks, two keys with the same first part, five tables, three requests, one restart, either session | `StoreInv`, `TakenOnce`, and that `SessionStores` implements `AtomicStore` (`ImplementsAtomic`) |
| `prekeys` | two overlapping uploads of up to two keys, two failures or restarts | `KeyInv`, `KeyUsedOnce`, `LossExplained` |
| `prekeys_reuse` | two uploads one after the other, no failure | violation of `StoredKeysDecrypt` |
| `tasks` | one send or logout, one history sync, one routing task, one message, one reconnect, bus of 1, fairness | `GuardInv`, `BuiltUnderOneDevice`, `WaitsEnd` |
| `tasks_deadlock` | one send, one routing task, three messages, bus of 1, fairness | violation of `LoopKeepsReading` |
| `signal_state` | three messages, ours and the peer's, two flushes of two events each, one crash, reconnect or failure | `SessionInv`, `KeyReuseExplained`, `OneTimeKeyLeavesSession`, `ShownOnce`, `NothingLost`, `StoredNeverGoesBack` |
| `signal_group` | three messages of the peer, no failure | violation of `EachDecrypted` |
| `history` | two chunks in any form, two hosts, three cells of junk, one `download_to_writer` beside the stream, fairness | `HistoryInv`, `RetryIsFresh`, `WriterHoldsFile`, `HistoryMovesOn` |

`CallInv`, `CounterInv`, `PairingInv`, `KeyInv`, `GuardInv`, `SessionInv`, `DeviceInv`,
`StoreInv` and `HistoryInv` are the inductive invariants of section 5; the type invariant of
the module is their first part.

Why these bounds are enough to be interesting:

* A bus of one slot is full after one event: both the waiting and the dropping
  publication happen from almost every state.  An inbox of one makes the transport wait
  with the next frame or the end of the connection; any other capacity is covered by the
  proofs.  `attempt` saturates at 1; its value influences nothing but the delay.
* Two calls of different kinds are enough for the command queue to have an order and for
  one call to outlive another; reconnects are unbounded.
* With counters up to 2, four writes reach the last value and one write more.
* Two pair-code requests are the fewest that can overlap; two keys the fewest of which a
  peer can take one and leave one; two uploads the fewest that can collide.  Any number of
  flows and any length of the bus is covered by the proofs of `PairingInv`.
* In `tasks` one call decides whether it is a `send_message` or a `logout`; a writer, a
  history sync and the stream beside it are what it can wait for.  Two calls at a time
  are covered by the proof of `GuardInv`, and the liveness graph stays small.
* In `device_life` three identities are the stored device, the fresh one of a client and
  one that replaces either; the second client is the first that meets what another left
  in the row and in its stream.  A bus of 1 beside the event that the stream is at work on
  has both a late event and a full bus.  Any number of each is covered by the proofs.
* In `prekeys` two failures are what a second use of a key takes: its removal and its
  session.
* In `stores` the five tables are the ones whose statements differ: replacing and
  ordered (`sync_keys`), taken and expired (`sent_messages`), counted (`device`), batches
  over a composite key (`sender_key_devices`), marked (`prekeys`).  Two keys with the same
  first part tell a row from its group; three requests are a put, another caller's put and
  what comes after both.  All tables, keys and callers are covered by the proofs.
* In `history` two chunks are the fewest that can be out of order, and two hosts the
  fewest of which the second has to write over what the first left.  Junk of three cells
  is longer than the file, so bytes left behind it are possible too.  The proofs cover any
  number of chunks, hosts and downloads, and any junk.
* In `signal_state` three messages are two sends and one message of the peer (two sends
  can share a key, and overlap with the stream), one and two (a group message with the
  key and one after it) or three of the peer.  Two flushes are needed to see the backend
  go back.  With a second fault nothing new was found.

Deadlock is checked where the system has no legitimate end (`Connection`, whose finished
states are named in `Finished`).  The other models have bounded inputs, after which they
stop; there, being stuck is what the liveness properties are about.

## 4. Fairness

Only what the executor and the timers owe is assumed, never what the server, the link or
the application may do.

* `Connection!FairSpec`: weak fairness of the runner's steps and of calls whose oneshot
  is resolved (the executor polls a task that was woken); a connect attempt ends, with
  either outcome; receivers read the bus.  Command handlers get strong fairness, because
  the biased `select` disables them whenever a transport event is there.  Timeouts get
  none: `CallsFailFast` says that the call does not need one.  `DisconnectStops` has two
  premises of its own, since a `Disconnect` is looked at in `read_loop` only: the loop is
  not kept busy for ever, and a connect that is tried again and again succeeds.  Writes to
  the sink and the Close frame are taken to end; the code gives a deadline to the
  keepalive's only (`transport.rs:74`, `frame.rs:257`).
* `ClientTasks!FairSpec`: weak fairness of each task and of each request's timeout.  No
  fairness of the server, and none of a host that the stream downloads from: `WaitsEnd`
  excepts the download that never ends, as it does the nested read of 7.2.  `read()`,
  `write()` and `broadcast()` have no timeout in the code and none here.
* `HistorySync!Fairness`: weak fairness of the stream's branch, of each chunk's task, and of
  the stream's own download as far as the client moves it; its IQ is answered or times out.
  Stream and task read the device, for which the code has no deadline: they are owed a step
  only while no writer bars them, so one writer that waits for ever (7.2) or one after the
  other may stop them.  A host owes nothing, because the HTTP request has no deadline.
  `HistoryMovesOn` excepts both: a stream that waits for a host for ever, and writers that
  are there again and again.  The application's downloads owe nothing either.

## 5. What is proved

TLAPS checks the following for every value of the constants that satisfies the module's
named `ASSUME`: any number of calls, writes, uploads, messages, any capacity, any width
of the counters.

* `ConnectionProofs`: `TypeCorrect`, `CallInvariant`, `NoStranded`, `LoggedOut`, `Implements`.
* `NoiseSocketProofs`: `TypeCorrect`, `ReuseIsCut`, `StepIsKept`, `CountersCount`,
  `ReadsStayInStep`.
* `PairingProofs`: `PairingInvariant`, `Together` (`PairedTogether`), `Agree`
  (`SecretsAgree`), `Confirmed` (`ConfirmedOnce`), `FreshMemory` (`MemoryFresh`), `Survives`
  (`PairingSurvives`), `Silent` (`WindowIsSilent`), `RealDrop` (`RealDropShown`).
* `BackgroundProofs`, about the two jobs of a connected client: of `HistorySync`
  `HistoryInvariant`, `FreshRetry` (`RetryIsFresh`), `WholeFile` (`WriterHoldsFile`); of
  `PreKeys` `KeyInvariant`, `UsedOnce`, `LossHasReason` (`LossExplained`).
* `ClientTasksProofs`: `GuardInvariant`, `OneDevice`.
* `SignalStateProofs`: `SessionInvariant`, `KeysOnce`, `OneTimeKey`, `NeverGoesBack`,
  `DeliveryInvariant`, `ShownAtMostOnce` (`ShownOnce`), `NoneLost` (`NothingLost`).
* `DeviceLifeProofs`: `DeviceInvariant`, `Kept` (`LinkedIsKept`), `StaysOut`
  (`RejectedStaysOut`), `SignedKey` (`SignedKeyServes`), `Presented` (`PairsTheConnected`).
* `SessionStoresProofs`: `StoreInvariant`, `TakenAtMostOnce` (`TakenOnce`), `ServesAtomically`
  (`ImplementsAtomic`).

**The inductive invariants.**  None of the properties is inductive as it stands.

* `CallInv` is `TypeOK` with four parts.  `QueueInv`: a queued call has not been written,
  is queued once, and its caller is still waiting for the write or has given up.
  `OneshotInv`: what the two oneshots hold agrees with the call's program point and with
  the network; this gives at-most-once.  `WaiterInv`: a call that has no answer yet is in
  the waiter table, and a waiter whose node is lost exists only until the drain.
  `LinkInv`: frames and live nodes exist only while a connection is read.
  `NoStrandedCall` follows from `WaiterInv`, `OneshotInv` and `LinkInv`; the refinement
  needs all of them, because the step that writes a node must know that it was never
  written and that its caller cannot have returned `Ok`.
* `CounterInv` is two parts.  `StepInv`: the counter is never behind the wire, only cut
  frames carry its current value, and without a cut frame it is the number of frames.
  `ReadInv`: the unread frames carry the counters that follow ours.
* `PairingInv` is five parts over three copies of the device, the channels between flows
  and stream, and what the server and the phone think.
  `ShapeInv`: types, who listens, and what the server can know of a flow that is idle or a
  QR flow's.
  `CodeInv`: the server waits on one pair code at a time; the phone's confirmation of a code
  is in the stream's channel once, and the last one is the code the server waits on; after
  the companion has finished there is none.  Without the order of confirmations a stale one
  could make the stream save the wrong secret last.  A confirmation that unwraps to junk
  takes two requests (`Mixed`), and the server takes no `companion_finish` sealed with junk.
  `SecretInv`: the request whose secret is in a copy of the device is no longer the one that
  waits (`mem::take`); `ConfirmedOnce` is this for the device in memory, with the request that
  the server has dropped for a rival's hello as its only exception.
  `LinkInv`: a pair-success in any channel, a flow that has read one, a queued sign and a
  linked companion exist only after the phone has linked a flow, and all carry that flow's
  secret; this gives `SecretsAgree`, and it contains `PairedTogether`.
  `PromptInv` is what is added when the tasks keep up: nothing of the pairing is left when
  the server has dropped the link (`LeftInv`), the link holds between the confirmation and
  that drop (`BetweenInv`), the flag is up for as long as a forced loss can be read
  (`FlagInv`), and after the reconnect the stream is on its way to reload the device and to
  take the flag down (`ReloadInv`).  `WindowIsSilent`, `RealDropShown` and `MemoryFresh` are
  read off these.
* `HistoryInv` has `MediaInv` in it: a download that was refused has `force` set and, once it
  has asked, a connection asked for after the refusal; a host that is being read writes from
  position 0, so whatever junk is there the file ends up at the start.  Then `HistoryInOrder`,
  which needs `ChunksInTurn` (the server sends a chunk when the last one has its receipt, and
  an unread chunk has no task) and `TaskLeft` (a chunk's task holds what has not been handed
  over, in order, once each, with the receipt last for a chunk in a `<message>`): a later
  chunk can be shown only when the earlier one has its receipt, and then, if it came in a
  `<message>`, nothing of it is left.
* `KeyInv`: an upload stores its ids once and in order, and a key that decrypted a
  message is no longer in the store, or about to leave it, unless it was not removed
  (`undone`); a message that was decrypted has its session, or has lost it (`forgotten`).  A
  second decryption needs both to have failed.  `KeptInv` adds that a private key an upload
  has stored is still there, has decrypted a message, or shares its id with a key of
  another upload (which replaced it, or whose removal took it), which gives `LossExplained`.
* `GuardInv`: a call that builds a stanza is among the readers a writer waits for.
* `SessionInv`: a task about to store has loaded; as long as nothing set the session
  back, the record counts past every message key in use (`CountedInv`), and the cache is
  never behind the backend (`AheadInv`, `SenderKeyInv`).  `None` is assumed to be no
  record, which model values and the code's `Option` both provide.
* `DeliveryInv`: where the stream is with the peer's messages (`PlaceInv`), and, as long as
  nothing was set back, that a message the peer sends can open the session until it is open
  (`OpenInv`), that what the session or the sender key has decrypted was shown, is about to
  be, or was given up (`UsedInv`), that what the stream has passed by was shown or has a reason (`DoneInv`),
  and that what was shown once is in the record that would decrypt it again (`OnceInv`).
  A group message whose sender key is missing is skipped; `DoneInv` is what says that the
  message that carried the key was given up before (`GivenUp`).
* `DeviceInv` says what the copies of the device that nobody locks may look like.
  `ShapeInv`: which copies exist at which program point.  `FlowInv`: a pairing flow works on
  a row that is unpaired, or that it has brought back itself.  `CopyInv`: no unpaired copy
  that may still be used belongs to a rejected device, and paired copies come from a row.
  `LostInv`: what a late save or reload may bring back had been given up before, which is
  why `LinkedIsKept` and `RejectedStaysOut` have `lost` as their only exception.  `KeyInv`:
  such a device still has its signed pre-key; it and `SignedKeyServes` need each other.
  `ConfirmInv`: the same for what a confirmation that is still unread may bring back.
  `ClientInv`: until the device is cleared or overwritten under it, a client works with the
  row, also with the `pair-device-sign` it has queued; from it follows `PairsTheConnected`.
* `StoreInv`: whoever works on the database holds its lock, and what it has executed is
  all that happened since it took it (`HeldInv`); the largest rowid of the sync keys belongs
  to one of them (`OrderInv`); the payload of a sent message is in one place, a waiting
  call, a row or the task that took it (`NumberInv`).

The refinement proof of `Connection` maps each step to a step of `RequestReply` or a
stutter: `StartIq` and `StartNode` to `Invoke`, a `HandleSend` that reaches the network
to `Execute`, the returns to `Return` or `Fail`.

That of `SessionStores` takes the tables that the lock's holder found for the abstract
store, so that statements are stutters and `Return`, `StatementFails` and `MemoryServes`
are `Serve`; a `Crash` leaves as many entries of the holder's request as it had executed.
It needs `HeldInv`, because several statements have to add up to one `Commit`, and
`OrderInv`, because the largest rowid has to be the key that was set last.

## 6. What is model-checked only

Liveness needs fairness and `ENABLED`, which the prover does not handle: `CallsFailFast`,
`DisconnectStops`, `WaitsEnd` and `HistoryMovesOn`.  Every other property of a
passing run is a theorem.

The proofs about `Pairing` cite that distinct names are distinct: `None` is no device (the
code's `Option`), the states of `pair_code_state` that belong to no request (`idle`,
`completed`) are no requests (variants of an enum), and what a wrong code decrypts to
(`Junk`) is neither the first secret nor one that a confirmation made.

## 7. Findings

Each is a run that TLC ends with a counterexample.

1. `prekeys_reuse`: nothing advances `next_pre_key_id`.  Every top-up numbers its keys
   from the same id and replaces private keys whose public half peers already have.
   What does hold is `LossExplained`.
2. `tasks_deadlock`: `send_message` reads the device again, through the store adapter,
   while it holds a read guard.  A `write()` in between blocks the second read and waits
   for the first; the stream stops at its next read, the bus fills, the read loop stops.
   `tasks` shows that no other wait of these tasks is without end, but for one: a history
   chunk is downloaded in the stream (`handlers.rs:369`), and a host that never answers stops
   the stream, and through the bus the read loop, in the same way (`WaitsEnd`).
3. `signal_group`: a peer's first message to a group is a node with two parts, its sender
   key under the session and its text under that key.  The first part that decrypts ends
   the work, so the text is dropped, with no receipt; it is shown only if the server
   delivers the node again.  What does hold is `NothingLost`.

Divergences between the code and its comments that no run is devoted to:

* The write counter advances only after `transport.send` has returned `Ok`
  (`noise_socket.rs:79`).  A keepalive cut by its deadline after the sink took the frame
  leaves the counter, and the next frame is sealed with the same nonce.  What does hold is
  `ReuseOnlyAfterCut`.
* The runner drops its own receiver of the bus against a deadlock (`connection.rs:182-187`),
  so the last update or pairing stream to go closes the bus, and the runner reads on with
  nobody to tell (`Unsubscribe`, taken to be final as in the library).
* `ConnectionConfig::max_reconnect_attempts` (`connection.rs:47`) is never read.
* `logged_out` is documented as set by `<failure>` and `<stream:error>`
  (`connection.rs:108`); `frame.rs:386` sets it for `<failure>` only.
* On `Connected` the device is reloaded "to see the fresh device state with pn set"
  (`updates.rs:285-286`), but nothing orders this after the pairing flow's save.  A reload
  that is first leaves the client with the unpaired device until the next reconnect.
  What holds is `MemoryFresh`.
* `clear_device` is documented to make the next connection "create a fresh device"
  (`session.rs:39`, `mod.rs:150`).  With `SqliteSession` no connection starts until
  something calls `create`, because `connect_once` needs a stored device
  (`frame.rs:78`); with `MemorySession` the stale device connects again.
* A rejection deletes whatever the row holds when it is handled (`updates.rs:242`), which
  may be a device that was made and linked since.  `LinkedIsKept` names this.
* `load_or_create_device` looks for a signed pre-key by number only (`mod.rs:182`).  After
  an end between the two writes of `handle_pair_success` the record of another device
  stays.  `SignedKeyServes` names this.
* The Signal cache is documented to be flushed "every 100 events" (`updates.rs:92-93`,
  `updates.rs:304`).  Messages, the events that change it, return to the top of the loop
  (`updates.rs:208`) before the counter (`updates.rs:302`), and nothing flushes it when
  the client stops.
* `Update::HistorySyncCompleted` is documented "all chunks processed" (`update.rs:65`) and
  is emitted after every chunk (`handlers.rs:1044`).
* A history chunk in a `<message>` is acknowledged after its updates, one in a notification
  or an `<ib>` before them, also when its payload does not decode and there are none.  A
  chunk whose download fails is never acknowledged, so the server sends no other one.
* The receipt of a chunk is documented as `type="history_sync"` (`handlers.rs:932`); the code
  sends `hist_sync`.
* `handle_ib` documents an answer to each child (`handlers.rs:1298-1312`), but returns at an
  `offline` or `offline_sync_preview` child; a `dirty` or `edge_routing` child behind it is
  skipped.
* Edge-routing information is stored "for use in subsequent Noise handshake headers"
  (`handlers.rs:1425`), but in memory only; the handshake reads the stored device.
* A `dirty` node is answered as clean before the re-sync it asks for, and failures of the
  re-sync are only logged (`handlers.rs:1396-1418`).
* `mark_as_read` takes a list and sends a receipt for its first message (`messages.rs:210`);
  `delete_messages` and `forward_messages` stop at the first failure with the earlier ones
  sent.
* `SqliteSession` runs a batch without a transaction, so an error leaves a beginning of it;
  its `clear_device` leaves every table but the device's; nothing writes its `contacts`;
  of several LIDs of one phone number any may be returned.
* `fibonacci_backoff` is documented "with small jitter" (`frame.rs:453`); the offset
  (`frame.rs:476`) is a function of the attempt alone, and the return at the cap
  (`frame.rs:467`) has none, so clients that lose a server together come back together.
  The delays are a table of fixed numbers, which is why they have no module.

## 8. What is not modelled yet, and the plan

Built so far, in this order: `RequestReply` and `Connection`, `NoiseSocket`, `Pairing`,
`PreKeys`, `ClientTasks`, `SignalState`, `DeviceLife`, `SessionStores` with `AtomicStore`,
`MediaDownloads`, `HistorySync`, and the proofs beside them.  Next:

1. **`Transport`**: the read pump with its bounded channel and shutdown, `disconnect`
   against a blocked pump, a sink that stalls (`transport.rs:74`), under `Connection`'s
   `inbox`.
2. The device's other properties, the edge-routing information among them, in `DeviceLife`:
   what is written in memory only and lost at the next reload (`handlers.rs:1441`).
3. `SignalState` with our own sender key and group sends, and a locked variant that shows
   what a lock from load to store would rule out.
4. Proofs about these modules, and a refinement of `Pairing` to what a pairing promises the
   application.

Not planned: cryptography, protobuf and binary encoding, the HTTP transfers, the layout
of QR codes, `Update` and message builders (plain data), the helpers that hand one node to
`send_node` (edits, reactions, revokes, forwards, read receipts), error types, examples.
Time is modelled only as "a timer may fire": the keepalive interval, which every transport
event restarts (`frame.rs:216`), the pauses between QR codes and the handshake's timeout,
which every transport event restarts too (`frame.rs:491`), are outside what these models can
say.
