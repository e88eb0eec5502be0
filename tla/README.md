# NOX: a model of delivery, pairing, sending, files, the door and the lock

NOX is a private messenger: one machine runs the Go server `noxd`
(`src/client_backend`), and the devices of one person run a Flutter app
(`src/lib`) that talks to it over one WebSocket each. This directory models
the protocols everything else stands on:

* **delivery**: how an event committed to the server's journal reaches the
  local stores of every device, in order, once, through full queues, dropped
  connections and restarts of either end;
* **pairing**: how a device becomes one that may reach the machine, and how it
  stops being one - the store's transactions, and the connections, waits,
  deadlines and messages around them;
* **sending**: how a message written on a device, and the chat it is written
  in, reach the server in order and once, over lost replies, discards, restarts
  and a logout;
* **files**: how an upload is continued after whatever broke it, power included;
* **the door**: who gets from an accepted socket to a served request, and what
  a revocation does to a transfer;
* **the lock**: the password, the start of a server, its backup and the restore.

Every definition is translated from the code; `PROJECT.json` maps each to its
lines.

## The system's parts

| part | state | operations | talks to |
|---|---|---|---|
| store (`internal/store`) | journal (`events`), chats, messages, files; `pair_tokens`, `pair_requests`, `devices`, `users`; one write connection, a read pool | one transaction per operation | called by handlers and the sweeper |
| dispatcher (`server.go`) | `kick` (one slot), `last` | read the journal after a kick, broadcast row by row | store, hub |
| hub (`hub.go`) | subscribers, each with a bounded buffer | register, unregister, broadcast; a full buffer removes its subscriber | dispatcher, connections |
| connection (`client.go`, `ws.go`, `handlers.go`) | greeting done, subscriber, bounded `out` queue, `revoked` | read loop, handlers, write pump, forwarder, close | hub, store, the device |
| pairing handlers (`server/pairing.go`, `requests.go`, `unpaired.go`) | strangers list, waits, deadline timers with generations | pair, cancel, approve, revoke, invite, sweep | pairing store, connections |
| files (`files.go`, `blob.go`, `tokens.go`, `writers.go`) | upload offsets, one writer per file, tokens | create, append, resume, download, sweep orphans | store, disk |
| channel (`channel.go`, `connauth.go`) | admission counters, proven peer | handshake, limits | every HTTP request |
| gate, vault, backup | locked / opening / open, key slots on disk | unlock, change secret, export, restore | starts and stops the server |
| addresses | versioned snapshot | watch, announce | greetings |
| socket client (`nox_socket_client.dart`) | phase, connection and its epoch, `_greeted`, `_pending`, `_helloCursor`, `_seenSeq`, retry timer | open, greet, send, tear down, retry | server, applier, outbox |
| applier (`sync_service.dart`, `sync_dao.dart`) | queue of applies, `_halted`, stored cursor | apply, advance, halt, resume | socket client, local stores |
| outbox (`outbox_service_impl.dart`, `outbox_repository_impl.dart`) | rows to send, their counts, the pauses, one pass at a time | enqueue, create chats, upload, send, discard, retry, stop | socket client, chat rows, files, applier |
| session starter, login, logout | which person and world the local data belongs to | start, stop, wipe | applier, socket client |

What is hard here: goroutines and Dart continuations interleave at every queue
and every `await`; queues are bounded and overflow by design; the cursor is a
maximum, so one event applied out of turn loses the ones before it for good;
five different operations can close a pairing request; the clock an operation
works with was read before it waited for the single writer.

The properties that make each part correct: delivery leaves no gap and ends;
the cursor means "applied"; a stranger gets in only by a live machine link or
by consent of a paired device; a request closes once, nobody waits on a closed
one and whoever asked learns the outcome; a stranger's connection is always
counted somewhere; a message sent again is stored once, none is lost or
published after it was thrown away, a chat is there before its messages, a wipe
is not undone by late writes; bytes a device is told the server holds survive a
power loss, and a file called uploaded is whole; a flood of one source closes no
other's handshakes; no bytes move for a revoked device; what looks like a server
opens with a password its owner knows, and a backup is one moment of it.

## Modules

| module | models |
|---|---|
| `Delivery` | journal, dispatcher, hub, handshake, outbound queue: the server half |
| `DeviceSync` | extends `Delivery` with the device: greeting, catch-up, applier, cursor |
| `OrderedFeed` | abstract: what a device is promised; `DeviceSync` implements it |
| `PairStore` | tokens, requests and devices of the pairing store, and the service page's link |
| `PairFlow` | the connections and handlers of pairing around those transactions, the apps on both sides |
| `Outbox` | the queue of a device, its drain, the creation of chats, the server's idempotent answers, the echo, restart and logout |
| `Upload` | one attachment from its declaration to its message or its sweep: tokens, one writer, part, record, rename, row |
| `KeptFile` | abstract: what the server promises of a file; `Upload` implements it |
| `Channel` | the main port: entry, proof of a key, hand-over, the door of every request, transfers and their cut, Close |
| `Gate` | key file, database, attachments and backup on disk; the locked start, the gate's goroutine, serve, backup and restore |
| `DeliveryProofs`, `DeviceSyncProofs`, `PairStoreProofs`, `PairFlowProofs`, `OutboxProofs`, `UploadProofs`, `ChannelProofs`, `GateProofs` | theorems and proofs |
| `MCDeviceSync`, `MCPairStore`, `MCPairFlow`, `MCOutbox`, `MCUpload`, `MCChannel`, `MCGate` | the modules the runs start from |

Definitions commented "Faulty variant" are plausible mistakes; `PROJECT.json`
pairs each with the property that would catch it. No specification uses them.

### Delivery

The journal only grows and its seqs are consecutive, so it is its largest seq
`head`; a batch or a replay is an interval; a queue is a sequence of seqs. The
steps are the ones between which other goroutines can run: `Commit` and `Kick`
are two steps because the handler replies in between (`owed` counts handlers
that have not kicked yet); the dispatcher takes the kick, reads, broadcasts
row by row and reads again until a read is empty, and then goes back to its
select (`BackToSelect`: a commit and its kick can fall between the two, which is
what the slot is for); the greeting subscribes (`Register`), then reads the
cursor and replies (`Reply`), reads the replay, queues it row by row with
backpressure, and only then starts the forwarder, which never waits. A full
subscriber buffer (`Broadcast`) or outbound queue (`Forward`) dooms the
connection, and a goroutine closes it later (`CloseSlow`): what happens in
between is part of the model. `Restart` keeps the journal only.

A server that starts accepts connections before its dispatcher has read where to
begin: the two are goroutines nothing orders (`server.go:951`, `966`). So `disp` is
`"starting"` in the initial state and after `Restart`, greetings and commits may
come first, and `FirstRead` sets `last` to the head it finds. An event committed
in that gap to a device that has subscribed already is never broadcast to it, and
it is in no replay either unless the replay was still to be read; the ghost
`silent` records it for that device. `WireNeverSkips`, and in `DeviceSync`
`CursorMeansApplied`, `NoGapAfterFailure` and `EventuallyApplied`, exempt these
events and no others; that they can be lost is described below. A first read that
fails ends the process, which is `Restart`.

`top` is a ghost: the last seq the peer was given on this connection, starting
from the cursor it greeted with or, with none, from the reply's.

Left out: keep-alive, write timeouts and failed reads in the handshake end the
connection and are `Disconnect`; a row that cannot be marshalled (rows are
written by `json.Marshal` in the same process); frames with seq 0, which carry
no place in the journal; commits a power loss takes back (`Restart` is a process
that ends; see `Upload` and `Gate` for the power). A device has at most one connection that counts,
because the client ignores every frame of an older epoch.

### DeviceSync

The greeting has the code's awaits as separate steps: cursor read
(`GreetReads`), whether one is stored (`GreetChecks`), send (`GreetSends`),
the reply on the wire, its arrival (`ReplyArrives`), and the continuation
(`GreetResumes`), which runs after further reads of the local database, so
event frames can be handed over before it. The applier stores
(`ApplyStores`) and then moves the cursor (`ApplyAdvances`); its queue survives
the connection. `AppRestarts` keeps what is stored. `base` is a ghost for the
bootstrap: a device that greets without a cursor takes what came before the
reply from list reads. `skipped` is a ghost for applies that failed or were
let go while halted.

`OrderedFeed` is the promise: a device works through the feed event by event, and
is led past one only if it was published to it while the feed was not `awake`. The
mapping is `awake <- disp # "starting"` and `unsaid <- silent`.

Teardown is one step here; its awaits, the retry ladder and the journal id
are not modelled (see the plan).

### PairStore

Each operation is one transaction of the single write connection and is one
action; refusals change nothing and are no step. `now` is any recent value of
the clock (`Recent`): the handler reads it before it waits for the writer. A
request is named by its token. `PageMachineLink` is the one operation in two
steps, a look on the read pool and a second look inside the write transaction.
`RekeyServerIdentity` deletes every row, as a start with a foreign key does.

### Outbox

A message is its place in the queue. The stores (`queue`, `status`, `refusals`,
`chat`, `fileOn`, `stored`, the chat rows) survive a `Crash`; the pass, its
snapshot and the pauses do not. A pass is one chain of steps, cut where the
code awaits something others can get between: `PassStarts` reads the chats to
create, `CreationTurn` and `CreationReply` ask the server for one (with
`MoveChat` and `AdoptServerChat` where the server chose another id; the chats
still to create are a set, `CurrentChat` the oldest of them), `Listing`
reads the queue, `Turn` re-reads one record, then `UploadDone` or
`UploadFails`, `SendLeaves` or `SendUnavailable`, and the reply:
`SendAccepted`, `Settle`, or `SendFailed`. A pass asked for while one runs is
chained behind it (`wanted`); more than one chained pass does what one does.

A request that left is in the bag `wire` or `cwire` until the server takes it,
whether or not the pass still waits: after a drop, timeout or restart a copy
may be taken late, and its reply goes nowhere. The server may refuse anything
retryably, and answers a repeated id with the first result. The journal's
events come back on their own (`EchoArrives`, `EchoStores`, `EchoSettles`,
`ChatEvent`), in any order with the replies. `dropped`, `skipped` and `wish`
are ghosts.

Left out: the texts, files and copies themselves (an upload is one step that
ends well or badly), the length of pauses (the timer may fire at any time),
a sign-in after the wipe, a message written after it, and a failing local
store. After the stores are emptied the logout also closes the database, drops its
key and deletes its files (`_wipeLocalData`, `auth_repository_impl.dart:571`); the
model ends with the emptied stores. The server here keeps what it committed: a power loss that takes a
commit back is in `Upload` and `Gate` only.

### PairFlow

`PairStore` looks inside the transactions; here each is one step and what the
handlers do before and after it are steps of their own. A connection is a slot
with its key, the command on its way in and the step its handler is at
(`task`); the places of unpaired connections (the list is the set
`unpaired` with who stands before whom, `ahead`), the waits, fired deadlines and closes are the state `s.mu` guards, and every
operator on them is one critical section. A deadline fires (`TimerFires`) and
its callback runs later (`outOfTime`): the generation that makes it harmless is
`fired = "stale"`. `pair` is its transaction (`pairByLink`, `pairByInvite`), the
wait (`awaitAnswer`), the second read (`ReadsAgain`), the reply and the ask at
the issuer's screens; closing a request is the transaction, then per request
the end of the wait and the two messages (`EndsWait`, `TellsBoth`), by a
handler or the sweeper. The apps are modelled by what they do when told
something: present the token again, withdraw, greet, answer.

Left out: the app's own limit of ten and a half minutes (a second way for it to
stop), reading the list of devices, labels, and commits a power loss takes back. A
failed read of the store is a fault and takes the branch the code takes. For the
requests re-sent after a greeting that branch is to log and return
(`ListsWaiting`, `requests.go:163`): the connection stays greeted and its person is
not asked on it until a further greeting. The ghost `missed` names the requests
such a read left out on a connection, and `OwnerIsAsked` exempts them. When
the second read fails (`Rechecks`, `requests.go:187`), a request that closed
meanwhile stays on the screen.

### Upload

One attachment. Lengths are the blob store's own arithmetic (`CipherLen`,
`plainLen`, `durable`) over a small chunk, tag and header. A file on disk is its
length, the pieces not flushed (`fresh`) and the pieces with wrong bytes
(`bad`); a power loss (`Crash`) leaves any length down to what was flushed and
spoils any subset of the rest. A request goes through token, writer, resume
(record first, then the cut), chunks with checkpoints (flush, then record),
finish (flush, rename, record dropped, row), release - each write a step, each
refusable by the disk. The device asks, sends, gives up and asks again, and what
it sent goes on without it. Writes to the directory are taken as durable once
made. `KeptFile` is the same file without requests, parts and records: what a
device is told is held, whether the finished file is there, whether anything at
all is on disk, the row and the open endpoints.

The row is a transaction of a database in WAL mode with `synchronous=NORMAL`
(`db.go:44`): it is safe from a process that dies (`Kill`) at once, from a power loss
only when the log has been folded in (`FoldWAL`, which SQLite does when it likes).
Until then `past` holds what the row was, and `Crash` may bring any of it back: a
file may be whole and only declared, a binding undone, and the declaration itself
gone (`"lost"`), with the bytes still there. `KeptFile` has the same `past`:
in it a power loss takes no byte that is held, and may take the row back that far.
`UploadedIsWhole` therefore also says that a file whose device was told it is
finished is whole until the sweep may have it, whatever its row says. That device
does not ask again (`attachFile`, `outbox_service_impl.dart:326`); when its row was
taken back its message is refused as naming no finished upload
(`handlers.go:527`). `EventuallyUploaded` allows for that ending.

### Channel

A connection is a slot with its phase. The list of handshakes is the set
`pending` with who stands before whom, `ahead`. `admit` is the critical section that
makes room and counts; the sockets it decided to close are closed by the next
step (`ClosesCut`), and a handshake may pass in between. The proof is the two
requests: `shown` is the key named in the first, `device` the key the peer
holds, and a signature verifies when they agree and the challenge is this
connection's. `Close` is its five steps. Behind it every request passes the
door, a transfer is registered and then asks whose key it is, and a revocation
commits before it walks the registry. A connection upgraded at `/ws` departs to
`PairFlow`.

### Gate

The disk is a key file (a data key under a password), a database, attachments,
a staging area, a backup and a partial one. The server is a program counter over
run, the gate and serve; requests of the owner are offered, taken, answered and
heard separately (`Ask`, `setup` / `unlock` / `change`, `answer`, `Hears`),
because the page's stop comes between. A backup reads the key file, the
snapshot and each attachment in steps, beside everything else an open server
does; a restore is a process of its own with one step per thing it places. A
kill (`Kill`, `RestoreKilled`) may come between any two. `known` and `unsure`
are ghosts of what the owner was told; they follow one conversation, so with
several askers an answer heard late may overwrite a later one in them, and
`PasswordKnown` is about an owner who asks for one thing at a time. An upload
takes an id the live data has no bytes under, and none a sweep has had to do with:
ids are random.

A start sweeps before the port opens: `OrphanFiles` lists what no message claimed
within a day, `SweepRemoves` takes the bytes of all of it, `SweepDeletes` the rows,
one transaction each, and any of these steps may be the last. Which uploads are a
day old is a free choice, kept in `last.old`: the clock is taken not to run back.
So a row may be called uploaded with its file gone, in the sweep and after a kill in
it; `LooksLikeAServer` says that this is so only of uploads a sweep has found
abandoned and only while no server is open, and never of one a message claims. The
file of an upload appears with `Finalize`; parts are in `Upload`.

`Kinds` and `Race` name faults and a race the run leaves out because the code
does not withstand them (see below): a power cut that takes back transactions,
a directory that cannot be flushed after a rename, a first password set while a
restore runs. The wait for a change's outcome has a time limit of its own, which
is left out.

## Runs

| run | checks | bounds |
|---|---|---|
| `device_sync` | `WireNeverSkips`, `NoLostKick`, `CursorMeansApplied` | 1 device, both capacities 1, 3 events (an overflow with one event in the buffer, and events after it), 1 fault, 1 failing apply, 1 apply queued at a time |
| `device_sync_live` | `DeviceSync` implements `OrderedFeed`; `EventuallyApplied`, `CatchUpEnds` | 2 events, 1 fault, no failing apply |
| `device_sync_halt` | expected violation of `NoGapAfterFailure` | 3 events, 1 failing apply |
| `pair_store` | four invariants, three action properties | 3 devices (issuer, asker, bystander), 3 tokens, 2 page loads, lag 1, lifetime 2, clock to 3; symmetric |
| `pair_flow` | `FlowTypeOK` with the cap, `StrangersAreHeld`, `NobodyWaitsInVain`, `OwnerIsAsked`, `PatienceKept` | 2 keys, 3 connections (the issuer's, and two of the asker while one is left behind), 1 invite, 1 place, 1 revocation, 1 fault; symmetric in connections |
| `pair_flow_live` | `AskerLearns` | 2 keys, 2 connections, 1 invite, 1 fault, no revocation: with both keys strangers and one place they can push each other out for ever, which `unpaired.go` accepts; revocations are in `pair_flow` |
| `outbox` | `NothingLost`, `DiscardHonoured`, `QueueOrder`, `DrainEndsBeforeWipe` | 2 messages (one can be in flight while the other is discarded, settled or set aside), the second with a file, 2 refusals to give up, 2 faults |
| `outbox_chats` | `ChatBeforeMessage`, `EventuallySettled` | 1 new chat, 1 rename, 1 message, 1 fault, both kinds of server |
| `outbox_logout` | expected violation of `WipedStaysEmpty` | 1 message, 1 fault |
| `upload` | `ReceivedIsSafe`, `UploadedIsWhole`, `EventuallyUploaded`; `Upload` implements `KeptFile` (`KeepsTheFile`) | two whole chunks and a short one, a checkpoint every 2, 3 requests (one writing, one taking over, one on the way), 2 faults |
| `gate` | `LooksLikeAServer`, `PasswordKnown`, `SameJournalSameHistory`, `OpenerHearsWhy`, `BackupIsWhole`, `OpensAgain` | 2 passwords, 1 attachment, 1 event, 1 lost machine, 1 fault |
| `channel` | `ChannelTypeOK` with the limits, `ClosedLeavesNothing`, `OnlyPairedTransfer`, `FloodStaysHome`, `CutIsNeverServed` | 3 connections, 2 sources, entry of 2, share of 1 for this machine, one device that pairs and a stranger; symmetric in connections |

The hub treats subscribers one by one and a connection touches nothing of
another's, so one device meets every case of delivery; the proofs do without
that bound. Overflow of a connection's queue is not counted as a fault:
only spontaneous drops, restarts and failed reads are. In `channel` three
connections fill the entry, overfill it, and leave one behind the check while
that happens; the two limits differ, so that each is met first by some source.

Deadlock is not checked: with the bounds used up (events, faults, tokens) the
system may rest.

### What the expected violations show

`device_sync_halt`. `SyncService` stops applying after a failure, so that no
later event moves the cursor past the failed one, and resumes when a new catch-up begins because
"the replay redelivers the failed event" (`sync_service.dart:72`). But the
phase `catchingUp` is announced by the greeting's continuation, and event
frames of the same connection can be handed over before it runs - which
`nox_socket_client.dart:116` itself says. In the trace the apply of such a
frame fails, the continuation then releases the applier on the same
connection, and the next event moves the cursor past the failed one: no replay
will bring it again. The same happens to frames let go while still halted.

`outbox_logout`. The logout closes the channel so that no event is applied into
the wipe, but the applies already chained are not waited for, as the drain's
pass is.

Met on the way, without a run of their own:

* An event can be lost to a device when the server starts. `runDispatcher` is there
  so that no client's cursor jumps over an event (`server.go:286`: "broadcasts
  committed events in strict seq order"; one "whose cursor jumped to N+1 would lose
  N forever"). But a device may greet and be level, and an event commit, before the
  dispatcher reads the cursor it starts from (`server.go:293`, in a goroutine
  nothing orders with `Serve`). Nobody broadcasts that event, the next one goes out,
  and the device's cursor moves past the first for good. Without the exemption of
  `silent`, `WireNeverSkips` is violated with one device, two events and no fault.
* `OrphanFiles` calls unbound uploads "the only garbage" and says a crash leaves
  "never bytes without rows" (`store.go:288`). A power loss may take back
  `CreateUpload` after its part was begun: bytes without a row (`"lost"`), which no
  sweep finds. "What is on disk has a row" is violated with one request and one
  fault.
* Two messages wait for a chat whose create was not answered in time. A pass
  passes over the first, the chat's event arrives, and the pass sends the
  second: one chat, reversed order. `QueueOrder` therefore exempts a message
  that was passed over; tightened to messages of other chats it is violated
  with two messages, one new chat and one fault.
* With a server that chooses chat ids, a message written between `moveChat` and
  the deletion of the local row keeps the local id. It is sent under an id the
  server does not know and set aside, although the comment at
  `outbox_service_impl.dart:247` says no message is left naming such a chat;
  `ChatBeforeMessage` is stated for the other kind of server only.
* The comment at `nox_socket_client.dart:617` says a stored cursor of 0 means
  "nothing was ever applied" and that no extra state is needed; the code below
  it asks `hasCursor()` for exactly that reason. The model follows the code.
* A message has two counters, `attempts` for the pause and `refusals` for giving
  up, and `retry_ladder.dart:18` says the limit is "counted against refusals
  only, never against a broken connection". A chat has one
  (`outbox_service_impl.dart:271`), so broken connections use up its refusals.
* The reply to `chat.create` replaces the row (`chat_repository_impl.dart:270`),
  and with it a rename made while the request was on the way, of which line 191
  says it is the name the chat will be created under.
* `announcePairRequested` (`requests.go:114`) does not read the request again: one
  that opens and closes before its announcement leaves the issuer's dialog open,
  where the header of `requests.go` says it closes. `OwnerIsAsked` is the other
  direction.
* A greeted issuer whose list of waiting requests could not be read is not asked
  about them on that connection, where `requests.go:154` says a greeting hands over
  every request still waiting.
* A connection dropped between the question whose key it is and `holdUnpaired`
  takes a place on its way out, where `dropDevice` says it holds none; the close
  ends it. A key that pairs again between a revocation's commit and `dropDevice`
  is dropped and told it was revoked; it then greets and is in.
* `Gate` with `Kinds = {"kill", "power"}` breaks `SameJournalSameHistory`: with
  `synchronous=NORMAL` (`db.go:41`) a power cut may take back the latest commits,
  and `seq`s that devices have seen are used again under the same journal id
  (`specs/022-client-backend-bootstrap/data-model.md:37` says they never are).
* A kill between a migration's transaction and the record of its fingerprint
  (`migrate.go:52`) makes the next start take the database for one of another
  build: the owner is told to delete it. With the one migration
  there is today only a first start can be hit, before anything is stored.
* With `Race = TRUE` and two data keys, a first password set while a restore is
  at work leaves a key file and a database that do not belong together.
* With `Kinds` holding "sync", a key file whose directory could not be flushed is
  reported refused and is there.
* The directory is not flushed after the record of an upload is renamed
  (`blob.go:686`): a lowered record may come back after a power loss, although
  `blob.go:287` says every version that survives is safe. A request with an older
  token, waiting for the writer, may cut the part below what a newer token names;
  the newer one is then refused and asks again.

## Fairness

`Delivery`: every goroutine that can run gets to run (weak fairness on kick,
the dispatcher's first read and its later ones, handshake, replay, forwarder and the goroutine closing a slow
consumer), and the peer keeps reading. A peer that does not read is cut by
`writePump`'s timeout, which is `Disconnect`; no fairness is needed of faults,
commits or connects there. `DeviceSync` adds the device: its reconnect ladder
never gives up (`Open`), its event loop runs continuations and applies. A
failed dispatcher read is retried only by the next kick, so the liveness
properties exempt `disp = "failed"`. `PairFlow`: handlers, callbacks and the
sweep run, invites run out, and an app that wants to be in dials, presents and
greets again by itself; nothing is asked of the person. `Upload`: the device's
queue asks again until the file is there, bytes of the request it waits for
arrive, a body that stands still is cut by its stall deadline, taking the writer
is bounded by a timer, the machine comes back; nothing is asked of SQLite's
folding of its log. `Gate`: the process is started
again, a start goes on through its sweep, the owner answers the page in the end with the right password (strong
fairness: the page comes and goes with the process), goroutines run; a restore
or a backup need not go on. `Outbox`: the drain's steps run, its timers fire, the
reconnect ladder brings the channel back, and a request on a live channel is
answered or fails; nothing is asked of the person, of faults or of events. A
message of a chat that was set aside may wait for the person, so
`EventuallySettled` exempts it; it has to: a chat set aside that the server has
after all comes back by its event, which asks for no pass.

## What is proved

Each theorem is for every value of the constants that meets the named
assumptions of the modules (capacities, shares and the lifetime are positive,
bounds are natural numbers, `None` and `NoKey` are no member of what they stand
beside); further hypotheses are written in the theorem and named here. Numbers of
events, faults, connections, messages and so on are arbitrary.

**Delivery** (`DeliveryProofs`): `DeliveryTypeCorrect`, `WireNeverSkipsAlways`,
`NoLostKickAlways`. `WireNeverSkips` speaks of the head of the outbound queue
only. The inductive invariant `DeliveryInv` follows a connection's events through
both queues: `OutChain` (each frame in `out` is at most one past the one before
it, the first at most one past `top`), `SubChain` (the subscriber's buffer is
consecutive and ends at the dispatcher's `last` while subscribed), `LinkInv` (by
stage: what is queued reaches to where the buffer or the next broadcast
continues), `StageInv` and `DispatcherInv` (`last <= head`, and what a waiting
dispatcher with no kick has broadcast). "Consecutive" and "one past" are up to the
events in `silent`, so the invariant also says that before the first read nothing
has been broadcast, and that what a subscribed connection has not been given by
then is silent for it.

**The device** (`DeviceSyncProofs`, on top of `DeliveryInv`):
`CursorMeansAppliedAlways`, with any number of failing applies. The cursor may
jump, because the applier's queue outlives the connection that filled it; what is
inductive is that nothing is missing in front of anything (`WireChain`: whatever
lies below a queued event, below `top`, or below the cursor a hello was read with
is settled or queued before it), together with how the two ends of a greeting go
together (`GreetInv`). With `MaxFails = 0`: `NoGapWithoutFailure`, and
`SyncRefinesFeed`, the refinement of `OrderedFeed` - every step of server or
device is a step of the feed or a stutter (`SyncStepRefines`). The hypothesis is
needed: with a failing apply the run `device_sync_halt` shows the gap. So is the
exemption of what a late first read left silent (see above).

**Pairing, the transactions** (`PairStoreProofs`): type correctness, the four
invariants of `pair_store` and its three action properties. The invariants are
nearly inductive together; `RequestsAreInvites` (what is done to a machine link
reaches no request) and `NamedAreSpent` (a waiting request names nobody yet)
complete them.

**Pairing, the connections** (`PairFlowProofs`): `FlowTypeCorrect` (with the cap),
`PatienceKeptAlways`, `StrangersAreHeldAlways`, `NobodyWaitsInVainAlways`,
`OwnerIsAskedAlways`. `HoldOK` is what every critical section keeps of places,
waits and deadlines; the cap needs that the list is finite and in one order, and
`PatienceKept` that a deadline which is not stale belongs to what the connection is
held to now. The actions are then summarised once - what a step may do to holds
(`Effects`), to a handler (`Moves`, with `Fits` for where it may go from where),
to the store (`StoreMoves`) and to the screens (`ScreenMoves`) - and the three
invariants about handlers that others come between follow from the summaries:
`StrangerInv` adds that who is about to settle or waits on an allowed request is
paired, closing or about to be dropped; `WaitInv` that a handler about to tell
has ended the wait before.

**Sending** (`OutboxProofs`): `NothingLostAlways`, `DiscardHonouredAlways`,
`QueueOrderAlways`, `DrainEndsBeforeWipeAlways`, `ChatBeforeMessageAlways`. The
order holds by what cannot come back: a message in the log, thrown away or set
aside once is `Behind` the ones after it for good, and `OrderInv` says that whatever
is on the wire or in the log has only such messages before it, and what a pass has
listed has only those or listed ones. `ChatsInv` says what the server has of
the chat of a message in hand.

**Files** (`UploadProofs`): `ReceivedIsSafeAlways`, `UploadedIsWholeAlways`,
`BytesHaveRowAlways`, for any chunk, tag and header, any checkpoint and size, any
number of requests and faults. First the format: `CipherLen`, `plainLen` and the
ends of pieces go up together (`CipherLenGrows`, `PlainLenHolds`, `EndCovers`), so
an offset a request may cut at is the end of a piece, and no piece before it
reaches past it. `UploadInv` then says: what the record names is flushed and right,
and the part reaches at least as far, unless it is gone (`PartInv`); one request
holds the part, and what it has in memory - offset, sealed, synced - is what is on
disk, by the stage it is in (`WriterInv`); the finished file is whole or absent and
goes with the row, with every row a power loss may bring back, and with what its
device was told (`RowInv`); with the endpoints closed nobody writes, and the sweep
has removed what it has ticked off (`ServerInv`). `ReceivedIsSafe` alone is not
inductive: the next record is right only because the writer's `synced` and `sealed`
agree with the disk, and what a length tells a device only because the record goes
down before the part is cut. `UploadKeepsTheFile` is the refinement of `KeptFile`: what a
device is told is exactly the record or nothing (`Mapping`), so a flush, a rename
of the record or a power loss that keeps the record keeps what is held, what a
power loss makes of the row is what the file's own `past` allows, and every step of request, disk or sweep is a step of the file or a stutter
(`UploadStepKeeps`).

**The door** (`ChannelProofs`): `ChannelTypeCorrect` (with the limits),
`OnlyPairedTransferAlways`, `ClosedLeavesNothingAlways`,
`CutIsNeverServedAlways`, `FloodStaysHomeAlways`. `ListOK` (a finite list in one
order has a first element, so making room makes it), and `Stands`: slot, list,
decided closes and the registry of transfers are four records of one connection,
each under a lock of its own, and where the connection stands says which may name
it.

**The lock** (`GateProofs`): `OpenerHearsWhyAlways` from `AskInv` (who is being
served, by where the server stands), with no hypothesis. From `PlaceInv` (what
is on disk at every point of a setup, a start, a backup and a restore, where a
database fits its attachments up to what a sweep has had to do with, and so does
every earlier database a power cut may bring back) and `SweptInv` (an open server
has no row of what its sweep took):
`LooksLikeAServerAlways` and `BackupIsWholeAlways` without the race of a first
password against a restore (`~Race`), kills, power cuts, refused and half
made writes and damaged backups included;
`SameJournalSameHistoryAlways` also without power cuts; `PasswordKnownAlways`
also without failing flushes of a directory, for one asker. Each hypothesis leaves
out what the code does not withstand, or what the ghosts cannot follow (see above).

Only model-checked: liveness (`EventuallyApplied`, `CatchUpEnds`, `AskerLearns`,
`EventuallySettled`, `EventuallyUploaded`, `OpensAgain`), which is outside the
prover's reach. Every invariant and every action property a passing run checks is
a theorem, as are both refinements.

## Plan

What is modelled is proved, liveness apart. What would come next is under "Not
modelled": the wipe when the server's world changed, the teardown of the socket,
and the versions of the addresses.

## Not modelled

* The wipe when the server's world changed (journal id, sign-in as another
  person) against queued applies; the awaits of the socket's teardown against
  the retry timer and the epoch. Both are worth a module.
* Addresses: one watcher sends a versioned snapshot to greeted connections; the
  choice of a path depends on networks outside.
* Downloads, prefetch and the app's cache of attachments: they read what
  `UploadedIsWhole` says is there.
* Reads that change nothing: lists, paging, search, previews, reports.
* Formats, cryptography, TLS, Arti and SQLite (external), the native Rust
  channel, the user interface.
