# Formal models of peca-p2p-yp

peca-p2p-yp is a yellow page for PeerCast channels without a server: a node
receives announcements from the local PeerCast (PCP), signs them under one of
the user's personas and spreads them to other nodes by gossip; every node
keeps the channels it heard of and lists them. The modules in this directory
model the program from the start of the process to the bytes of `index.txt`,
`.cfg` files check them with TLC on small instances, and eight modules
`...Proofs.tla` prove most of the safety properties for every configuration.
`PROJECT.json` lists runs, mutants, findings, hazards and the source lines
behind every definition. Paths below are relative to `src/` of the program.

## 1. Inventory

| Component | State | Operations | Module |
|---|---|---|---|
| event store, duplicate cache (`event/store.rs`) | `entries` (one event per author and channel), `ids`, `seen` | `insert`, `sweep`, `check_and_insert` | `EventStore`; what it promises: `ChannelRegister` |
| ingest pipeline (`p2p/ingest.rs`) | the store, the cache, `sources` | `ingest`, `publish_local`, `sync_events`, `sweep` | `IngestState` |
| event schema (`event/schema.rs`) | none | `to_tags`, `sign`, `from_event`, `verify_incoming` | `Listing`; the part about time in `EventStore`, `IngestState` |
| channel view, mutes, index.txt (`event/view.rs`, `yp/index_txt.rs`, `web/mutes.rs`) | mute list | `aggregate`, `generate`, add and delete a mute | `Listing`, `ListingPath` |
| gossip hub (`p2p/hub.rs`) | state mutex, registered peers | `on_event`, `publish_local`, `broadcast_event`, `register_peer` | `GossipNet` |
| connection synchronisation (`p2p/sync.rs`) | `SyncCounter`, `sync_in_flight`, the pacing | SYNC_REQ, streamed response, SYNC_DONE | `GossipNet`, `GossipSession` |
| gossip session (`p2p/session.rs`) | handshake state, rate window, keepalive | `on_frame`, `poll` | `GossipSession` |
| P2P runtime (`p2p/runtime.rs`) | connections, back-off map | maintenance, dial, `pump`, `handle_deliver` | `GossipNet`, `GossipSession`, `FramePump`, `PeerManager` |
| frame codec (`p2p/frame.rs`) | bytes read so far | `read_frame`, `write_frame` | `FramePump` |
| peer manager (`p2p/peers.rs`) | self addresses, slots, throttle, reachability | `begin_outbound`, `begin_inbound`, `candidates`, `note_self_connect`, `mark_reachable` | `PeerManager` |
| peer table (`store/mod.rs`) | rows of `peers` | upsert with limit, success, failure, enable, delete | `PeerTable` |
| peer exchange (`p2p/pex.rs`) | none | selection, validation | its effect on the table, in `PeerManager` |
| personas (`identity/mod.rs`) | personas, selection, assignment | create, select, archive, delete, assign, sign | `Identity` |
| broadcast lock (`broadcast.rs`) | channels on air | reserve, release, guard | `Identity` |
| PCP sessions (`pcp/session.rs`) | permits, handshake, byte rate, channels per session | `serve`, `on_atom`, `handle_bcst`, `end_all` | `PcpServer` |
| PCP channel registry (`pcp/channel.rs`) | registry, notification channel | `upsert`, `end`, notify | `PcpServer`; as the engine sees it: `AnnounceRegistry` |
| publishing engine and its tasks (`event/publish.rs`, `main.rs`) | persona and last `created_at` per channel | `publish_listing`, `publish_ended`, the loops | `PublishEngine` |
| configuration (`config.rs`, `web/settings.rs`) | settings table | load, override, validate, save, PUT | `Settings`, `Node` |
| keystore (`identity/keystore/`) | the file `master.key` | create, write, sync, load, protect | `Keystore` |
| process (`main.rs`, `platform/mod.rs`, `p2p/upnp.rs`) | start sequence, listeners, tasks | start, serve, signal, stop, crash | `Node` |
| PCP atom codec, security log, SQL schema, web pages that only read | - | - | not modelled, see 8 |

How they interact. A PCP session changes the registry and, after releasing its
mutex, notifies the publish bridge over a bounded broadcast channel. The
bridge and two loops (periodic, and after a recovery of connectivity) call the
engine, which asks the identity manager for a persona under the broadcast lock
and hands the signed event to the hub. The hub inserts it into the ingest
state under one mutex and queues it to the registered peers under another. A
connection task reads frames, passes events to the hub and answers SYNC_REQ by
a separate streaming task. The maintenance task refills outbound slots from
the peer table, which PEX, the web interface and the connection tasks write.
`run()` in `main.rs` starts all of them after reading settings and key from
disk, and waits for them after a signal.

What is hard here: mutexes are held briefly and never nested, so every
operation is a sequence of critical sections with other tasks in between;
three tasks publish the same channel; notifications can be lost and reordered;
connections come and go while events spread, and their two ends learn of it at
different times; a `select!` loop drops futures; store quotas, the sweep and
the freshness window interact over time; texts and numbers are cut, clamped
and cast on one side and checked on the other; the process may die between any
two writes to disk.

Correct means, per component: *store*: never falls back to an older event of
a channel, never exceeds its limits; *ingest*: no event circulates twice, the
source shown is right; *publishing*: the persona of a channel on air does not
change, the lock is held while signing and always released, an ended channel
does not come back; *gossip*: connected nodes agree once quiet, and they do get
quiet; *session*: both ends agree on what they are, the silent and only the
silent are cut off for silence, the honest are never accused; *frames*: in order and complete;
*peers*: slots and table stay bounded, proven peers survive, the node never
dials itself twice or gives up, and its recovery is noticed; *PCP*: nothing is
listed that no session holds; *listing*: what a node signs others accept and
read back as it was, and `index.txt` keeps its shape whatever strangers send;
*process*: a persona outlives crashes, the node never locks itself out of its
settings, exposes only what it may, and stops when nobody outside holds it.

## 2. Modules

`EventStore` has operators only; `IngestState` and `GossipNet` use them for one
and for many nodes, and `ChannelRegister` is the abstract specification that
`IngestState` implements. `Channels` declares the channels shared by `Identity`
(personas and lock) and `AnnounceRegistry` (PCP side); `PublishEngine` extends
both and adds the tasks between them. `PcpServer` is the detailed PCP side and
implements `AnnounceRegistry`, so what is checked of `PublishEngine` with the
abstract registry holds with the real one as far as the order of changes and
notifications goes. `PeerManager` extends `PeerTable`; `ListingPath` extends
`Listing`; `Node` extends `Settings` and `Keystore`. `FramePump` and
`GossipSession` stand alone. `MC*` modules hold the constants of the instances,
`...Proofs` modules extend the module they are named after by its inductive
invariant, lemmas and theorems (section 5).
Definitions called `Mut...` are the faulty variants the properties are tested
against; nothing else uses them.

**IngestState.** `entries` is the set of held events, `ids` the set kept beside
it, `seen` the duplicate cache with reception times, `sources` the peer per
key. `Ingest`, `PublishLocal`, `Sweep` are the methods of the same name, each
atomic because the hub calls them under its mutex; `Tick` is the clock. `sent`,
`sentAt`, `via` and `minted` are history. An event is a record of what the code
compares: id, author, channel, `created_at`, `expiration`, ended.

**ChannelRegister.** Per key the newest event ever accepted and, until it is
forgotten, the event that can be read. Under the mapping `held <- entries`,
`newest <-` the newest event of each key among those handed on, each step of
`IngestState` is a write, a loss, or nothing. Quotas, cache, sweep and clock
are the details it hides.

**PublishEngine.** Each task has a program counter whose values are the
critical sections of `publish_listing`, `publish_ended` and `sign_and_send`.
`first_publish` is read in `Check`, used in `Resolve`, and may be out of date.
`select()` is split into its check and its commit, registry changes into the
change and its notification. `shown` is what the node's own store displays per
persona and channel. `overlapped` and `raced` are history: channels two tasks
published at the same time, and channels that ended while a loop held their
listing. Properties that the code keeps only outside those cases say so.

**PcpServer.** A connection takes a permit, reads atoms in chunks and handles a
chunk without looking at the shutdown; `Handle` is one atom (`on_atom`,
`handle_bcst`), `Break` every way out of the loop, `EndAll` one turn of
`end_all`. A registry change and its notification are two steps. A name stands
for the fields of PCP_CHAN_INFO, the tracker for those of PCP_HOST. The mapping
to `AnnounceRegistry` forgets handshake, chunks, rate and merging.

**GossipNet.** A directed edge has the messages on it in order (outbox and
socket together), the receiver's SYNC counter and the response still to be
streamed. `outgoing` holds the events a node has stored and not yet broadcast:
the gap between the two mutexes of `on_event`.

**GossipSession.** Two ends, each with the fields of `Session`, `RateLimiter` and
`Keepalive` it is made of, and the messages on their way with the time they were
written. `Receive` is `on_frame` with everything `pump` does with its answer,
charged by messages and by bytes; `Poll` is a keepalive tick, `Stream` a step of
`stream_sync_response`, `Broadcast` an EVENT of the hub that goes out beside it
(bounded by `News`). EVENTs until SYNC_DONE are counted against the receiver's
`event_store_max`, and one too many ends the session without a CLOSE. A kind of
message has one length (`Size`). Closing a
socket over unread bytes, or writing to a closed one, resets the connection,
which may overtake a CLOSE (`Reset`). `Cut` is a network that drops everything
silently, `Crash` a process that dies, `RefuseInbound` the CLOSE of a node
without room. Time does not pass over something that is due.

**FramePump.** Bytes are known by frame and position, so a misread header is
visible. `Interrupt` is every other branch of `select!`: it drops the future
of `read_frame` together with the bytes it holds.

**PeerManager.** `maint` is the progress of `maintain_outbound` with what it has
read (`up`, the candidate list, the room left); `dial` is the outbound task per
address; `retiring` is a task that returned its slot and has not recorded its
failure yet. Self addresses cannot complete a handshake. Of the times in the
table only whether `last_ok_at` is set is kept; the order of two verified rows
is left open, as is the order of equal ones.

**Listing, ListingPath.** A text is a sequence of classes of characters (small,
capital, `<`, `>`, quote, control, wide, one that Shift_JIS lacks) with their
sizes in bytes; a numeral is an atom with its value, and integers have the
width `Width`, so that a cast wraps. `FromRaw`, `ToListing`, `Sign`,
`VerifyIncoming`, `Recovered` and `Generate` are the functions of the same name
with every limit they apply. `ListingPath` puts them one after another: an
announcement or a foreign event, verification by a node whose clock is behind,
the store, mutes, and `GET /index.txt` in both encodings.

**Settings, Keystore, Node.** `pc` is the step of `run()`: configuration,
keystore (three steps on disk for a new key), permissions, the listeners, audit,
running, stopping. `table`, `file`, `secret` and `perm` survive the process. A
PUT request loads, applies and validates in one step and then saves one key per
step. A crash ends the process at any point; a loss of power also takes what was
written and not synced. After a signal each of the two HTTP servers has clients
in the middle of a request or not (`proc.clients`), which may leave or stay
(`ClientsLeave`), and a graceful shutdown waits for them. `Tamper` is the
user damaging the data directory between two starts, once.

Abstractions that matter when reading the code beside the modules: each
resolution of a channel's persona (assignment, then selection) is one read; a
connection registers with the hub, records its success and queues its SYNC_REQ
in one step, and leaves the hub and gives its slot back in one; outside
`ListingPath` an event's validity (signature, tags, size, proof of work) is
assumed, since an invalid one changes nothing; SQLite calls succeed, except in
`Node`; for `Identity`, `KeystoreHealth` is the constant `Usable`; the clock does
not go backwards; nodes of a network share it; in `GossipNet` a connection is
lost at both ends at once; the event store is in memory, so a restart is a fresh
node; `add_peer`'s test and write are one step (the user's request, which does
not test, reaches the same tables); one bind key stands for `pcp_bind` and
`http_bind`, which obey the same rule; a task that runs a `select!` loop over the
shutdown channel and whose branches await nothing is one of the tasks `loops` in
`Node`; syncing a file (`SyncKey`, `sync_all` at `file_key.rs:124`) is taken to
make its name in the directory durable as well, which the code does not ask for
by syncing the directory and which is left to the file system.

## 3. Runs

| Run | Checks | Instance | Result |
|---|---|---|---|
| `ingest` | `TypeOK`, `StoreSound`, `NoRollback`, `PastEventSentOnce`, `SourceOfLiveEvent`, `Collected`, `ImplementsRegister` | five events of three authors, room for two and one per author, window 2, clock to 4 | holds |
| `publish` | `LockSound`, `SignsActive`, `NoZombie`, `SignerFixed` | two personas, one channel, bridge and one loop, two announcements, two ends, clock to 1 | holds |
| `publish_live` | `LockSound`, `EventuallyPublished`, `EventuallyReleased` | one persona, one assignment, a notification queue of one | holds |
| `publish_endrace` | `NeverLeftBehind` | as `publish` with one end, clock 0 | violated |
| `pcp` | `HoldingsSound`, `InfoKept`, `ShutdownEndsAll`, `ImplementsRegistry` | three connections for two permits, two channels, one per session, four atoms in chunks of up to two, a queue of one | holds |
| `gossip` | `LiveAgreement`, `NetworkSound`, `EventuallyQuiescent` | three nodes in a line, a listing and its update, one connection that closes the cycle or is made again, one loss | holds |
| `session` | `HandshakeSound`, `KeepaliveSound`, `NotBlamed`, `BothEnd` | one connection, equal or different nonces and versions, PING every 3, timeout 6, clock to 10, an answer of two events and one EVENT of the hub against limits of 5 messages, 6 bytes and 2 SYNC events, no delay | holds |
| `frames` | `FramesSound`, `AllDelivered` | frames of 4, 3 and 5 bytes in any pieces, two interruptions | holds |
| `frames_split` | `SplitArrivalHandled` | as `frames` | violated |
| `peers` | `WithinLimits`, `NoDialInBackoff`, `SelfNotRedialed`, `EvictionSparesProven`, `VerifiedByDialing`, `KeepsTrying`, `RecoveryNoticed` | two addresses (one the node's own), one caller, one slot each way, a table of one, one request of the user, any initial table | holds |
| `listing` | `OwnListingSurvives`, `IndexLineSound` | texts of up to three characters in every field, all boundaries of the numbers, foreign events that differ from a sound one in one tag | holds |
| `node` | `KeyOutlivesPersonas`, `CanRestart`, `ExposureControlled`, `Stops` | two starts, one persona, two overlapping PUT requests, three command lines, one damage by the user | holds |

What they show. `ingest`: however receptions, publications, sweeps and evictions
interleave, id set and map agree, the limits hold, no listing falls back to an
older one, no event that was not dated ahead is handed on twice, the source shown
is that of the event shown, stale entries and sources go; and the whole is a
last-writer-wins register. `publish`, `publish_live`: the broadcast lock keeps the
signing persona; when nothing is under way a channel is reserved exactly if it
is published (`LockSound`), an ended one is neither reserved nor shown as live
(`NoZombie`), and lost notifications do not keep a channel from being
published. `pcp`: what is listed is held by a session that goes on, with
the same data; a host packet alone does not wipe the name; a shutdown ends every
session; nothing the engine can see differs from the abstract registry. `gossip`:
no order of storing, broadcasting, registering and synchronising leaves a gap, and
no cycle keeps events going. `session`: an end counts as connected only if the
other does and never to itself; a node that dialled itself learns it; keepalive
never cuts off a living peer and never misses a dead one; no message is taken
for a violation and no closing counts as a failure, unless a reset took the CLOSE
or the rate limit or the SYNC counter was exceeded (as an honest answer may, see
section 4). `frames`: no split of the stream disturbs the order, unless `select!` interrupts.
`peers`: see the names; `KeepsTrying` and `RecoveryNoticed` are liveness.
`listing`: cutting, cleaning, clamping, omitted tags and the checks of the
receiver fit together; no text breaks a line or adds a field. `node`: whatever
step the process dies at, stored personas stay decryptable, what a PUT leaves in
the table passes the gate of the next start (`Settings::validate`; an `http_bind`
equal to `pcp_bind` passes it too, and the start then fails at the bind), the
listeners stay within loopback and LAN with the exposure on record, and a stop
ends once no client of a server and no gateway holds the node, whatever
requests, mappings and loops were under way when it began.

Why the bounds are enough. Quotas bite as soon as there is one event more than
room, so limits of one and two with three authors reach every eviction path
(own quota, capacity, own victim); two seconds of window and one of retention
beyond it separate the last fresh second from the first stale one, and the
clock runs past both. The publishing races need two tasks and one channel: no
state is shared between channels but the set of reserved ones and the
notification queue, whose loss `publish_live` provokes with a capacity of one.
Two announcements and two ends give an end, a new start and its end. The
`publish` run goes no further once the channel was raced (`SomeUnraced`): that
is never undone, and every property of the run but the types exempts such a
channel, whose fate `publish_endrace` shows. In `pcp` the third connection finds
no permit, a second channel exceeds the limit of a session, a third atom in a
second the rate, and two sessions announce the same channel. In `gossip` a
connection after a loss is what separates synchronisation from broadcast, and
the triangle is the smallest cycle. In `session` two PINGs and a timeout fit into
the clock, and the answer to SYNC_REQ takes two windows of the sender; both
limits of the receiver's window can be exceeded, and the EVENT of the hub is one
more than the SYNC counter admits. Messages arrive within the unit of time they
were sent in; delays are what the theorems of section 5 are for, and
`KeepaliveMargin`, their condition, is evaluated on the instance. A table of one
row with two addresses makes every addition an eviction, unless the rows are
manual. Frames differ in length so that a
header read at the wrong place cannot be mistaken for the right one. Three
characters exceed the shortest text limit, and of every kind of character some
text consists; a width of four bits separates the numbers below, between and
above the signed and the unsigned limit. Two starts are a crash and what the next
start makes of it. Deadlock checking is off where bounds (announcements, dials,
frames, starts) end the behaviour, and on in `ingest` and `peers`.

Fairness. `IngestState`: the clock and the sweep loop (`main.rs`, every
interval); peers and users owe nothing. `PublishEngine`: each task's next
critical section (mutexes are never nested, so none waits for another), the
loops' wake-ups, and a session's notification after its change; PeerCast and
users owe nothing. `PcpServer`: a session's own steps, which tokio polls; clients
owe nothing. `GossipNet`: delivery and streaming on connections that
last, and the broadcast that follows an insertion. `GossipSession`: reading what
has arrived, timers, the answering task and the clock; nobody is obliged to shut
down, and the hub owes no news. `PeerManager`: a maintenance pass runs to its end, and time goes on
(strongly fair, because the timer may catch up with ticks it missed); a dial may
take for ever, where the code gives it ten seconds. `FramePump`: the peer sends,
bytes arrive and the read branch is taken when bytes are there; the other
branches owe nothing. `Node`: the end of a task that was told to stop and has
nothing left to wait for, the join in `run()`, and the writes of a request under
way; no client has to leave, no gateway to answer, and nothing obliges the node to
start or the user to stop it.

## 4. Where code and documentation part

Two runs end in a counterexample to something the repository says:

* `publish_endrace`: a loop publishes a listing of its snapshot after the
  bridge handled the end. It counts as a first publication and reserves the
  channel again; `broadcast.rs` says the end always removes it.
* `frames_split`: `read_frame` is not cancellation safe. A queued message or a
  keepalive tick between two pieces of a frame loses the bytes read, and the
  peer is cut off for what then looks like a bad header; `frame.rs` says split
  arrivals are handled.

Further departures, which are the reason for conditions in the properties or
were met while modelling:

* An event dated ahead (up to the permitted skew) stays fresh longer than the
  cache remembers it. Evicted meanwhile, it is accepted and propagated again;
  ADR-0005 (BoundedPropagation) argues from "first reception ≥ created_at".
  `PastEventSentOnce` leaves such events out.
* SYNC answers with live events only, so a node that was away when a channel
  ended keeps listing it until it goes stale; ADR-0005 claims convergence on
  the newest event. `LiveAgreement` is about live listings.
* After the signal both HTTP servers shut down gracefully, that is they wait for
  their open requests, and no layer of the router has a time limit
  (`main.rs:411-425`, `449-462`); the UPnP task finishes an attempt under way. A
  client or a gateway that stalls holds `run()` for ever. The contract accepts
  this (`specs/002-linux-support/contracts/systemd-service.md:74-76`: what takes
  longer than 90 seconds is left to SIGKILL), which is `Crash` in `Node`; `Stops`
  is stated for a node that nobody outside holds.
* The tasks of single connections, PCP and P2P, are detached (`pcp/session.rs:614`,
  `p2p/runtime.rs:228`, `346`), and `run()` does not wait for them. What `PcpServer`
  says of a shutdown (`ShutdownEndsAll`) holds of tasks that get to run; the process
  may be gone before.
* `stream_sync_response` sends the share of a second in one burst,
  and the receiver's window starts with the first frame in it. When the first
  burst is delayed more than the second, two bursts of 150 meet in one window of
  200 (or two of 192 KiB in one of 256) and the honest sender is cut off with
  `rate_limited`, although the head of `sync.rs` (lines 9 and 10) promises that a
  legitimate synchronisation is not. EVENTs of the hub, which are not paced, come
  on top. TLC finds such a session in seconds with the ratio of the code
  (`SafeMsgs = 6`, `MaxMsgs = 8`, `SafeBytes = 18`, `MaxBytes = 24`, EVENTs of 9
  bytes, an answer of 3, `Interval = 10`, `Timeout = 20`, `TickEvery = 4`) as soon
  as `MaxDelay` is 1, half a second, even without news of the hub; the invariant is
  that no `session[e].reason` is `"rate_limited"`.
* EVENTs of the hub count against the SYNC counter too (`sync.rs:77-79` says so), so
  the answer of a full store and one EVENT beside it are one too many, and the
  receiver drops the connection without a CLOSE.
  `NotBlamed` exempts a session that ended in one of these two ways.
* `PUT /settings` is described as a partial update, and saves every key: of two
  overlapping requests the later to save puts back what the other changed. It
  is also not atomic on disk; `CanRestart` says that the mixture is admissible.
* A key file that was created and not written when the process died is of the
  wrong size for ever after: the node starts, no persona can be created, and
  only the user can remove the file. A key file that was written and not synced
  when the process died is taken over by the next start without a sync;
  `KeyOutlivesPersonas` excludes a later loss of power in that case.
* After a signal the publish bridge leaves its loop at once, so the Ended
  notifications of the PCP sessions that stop at the same time are not
  published; other nodes list the channels until they go stale.
* `parse_count` casts an unsigned 64-bit number to a signed one: a foreign event
  with a count of 2^63 or more is accepted and shows a negative count.
* A channel without a name is published with an empty one, where `channel.rs`
  gives the length as 1 to 256 bytes. A node's own events carry no proof of
  work: nodes that set `min_pow_bits` refuse them.
* `NoRollback` and `ImplementsRegister` assume that expirations follow creation.
  A tombstone with an early `expiration` tag is swept while the listing it ended
  is still fresh, and that listing is accepted again.
* `insert()` answers Stored even if the quota evicted the new event itself;
  the event is handed on and not held.
* `SignerFixed`, `SignsActive` and `NoZombie` exclude assignments:
  `assign_channel` does not consult the broadcast lock.
* `ReservedWhileSigning`, `LockMatchesState` and the first half of `NoZombie`
  exclude channels that two tasks publish while a persona is assigned: the
  rollback of one task's failed first publication releases the other's
  reservation.
* An Ended lost to a lagging bridge is not made up for, because the periodic
  snapshot no longer holds the channel; and two sessions with the same channel
  may notify in the wrong order. `publish_live` has one session and no lost last
  Ended, and this is why `NoZombie` holds in the instance of `publish` (one
  channel, one session, a queue that is long enough) and not in general.
* Ended and announced again within one second, a channel has lost its
  `created_at` floor, and the tombstone may win. No property speaks of this tie.
* `NoDialInBackoff` excludes a dial that starts between `end_outbound` and
  `schedule_retry` of the previous one.

## 5. What is proved

Each `...Proofs` module proves properties of one specification for every value
of its constants: any number of nodes, tasks, sessions, channels and events,
any limits, timers and bounds. Every safety theorem has the same shape: an
inductive invariant, checked by TLC on the instance of the run before it was
proved; a lemma per action that the step keeps it; the property as a
consequence. The assumptions about constants are the named `ASSUME`s of the
modules, which TLC evaluates in every run; they say that limits and times are
naturals, that model values differ from what they stand beside, and otherwise
only what is mentioned below.

**IngestStateProofs** (assumptions: an id determines its event; the local node
is not a peer).

* `TypeCorrect`: `TypeOK`. `StoreConsistent`, `StoreCorrect`: `StoreSound`. The
  limits are inductive because a replacement exchanges one event for another
  and an insertion adds one, after which one round of eviction is enough
  (`KeepNewestBound`); that round finds a victim because the order is total and
  well-founded on a non-empty set (`OldestExists`).
* `SentInvariant`, `LoopFree`: `PastEventSentOnce`. Sent-once alone is not
  inductive; the invariant adds that whatever was handed on is in the cache or
  was handed on longer ago than the retention, and that an unpublished local
  event is unknown to the cache. An event the cache forgot is stale
  (`ForgottenIsStale`) since the retention covers the window
  (`RetentionCovers`), unless it was dated ahead.
* `SourceCorrect`: `SourceOfLiveEvent`, inductive with the type invariant.
* `RollbackInvariant`, `NeverRollsBack`: `NoRollback`. The store forgets, so
  that it does not fall back has to be read off what it holds: of every event
  it accepted it holds that one or a newer one of the key, or the event is
  removable, or as many newer events of the author, or of anybody, are held as
  the quota admits (`Settled`). `ExpirationFollowsCreation`, which the property
  itself presupposes, is needed where a tombstone is swept.
* `LastWriterWins`: `ImplementsRegister` under the same condition, which
  events signed by this program meet. Each step of the detailed specification is a
  write, a loss or a stuttering step of `ChannelRegister`.

**PcpServerProofs.** `ServerInv` adds to `HoldingsSound` the shape of the maps of
the sessions and an account: channels that were or will be ended were announced
before, and announcements were atoms that were read. It yields
`HoldingsAlwaysSound`, the action property `InfoIsKept`, and
`SessionsImplementRegistry`: the refinement of `AnnounceRegistry`, whose bounds
on announcements and ends are what the account is for.

**PublishEngineProofs.** `EngineInv` says where a task can be and what it knows
there, that every overlap of two tasks was noted when it began, and for each
channel the lock answers for (`Free`): entry and reservation go together except
while a task is between the two; `first_publish` is still true of the entry
when a task acts on it; without assignments a reservation pins the selected
persona and whoever signs uses that one. It yields `LockAlwaysSound`
(`LockSound`), `AlwaysSignsActive` and `SignerStaysFixed`.

**PeerManagerProofs** (assumptions: finitely many addresses; `BackoffFactor ^ n`
is a natural, which the provers do not know). `PeerInv`: what is left of the
deficit a pass has read still fits into the free slots; a slot is taken exactly
while a task dials or serves its address; the only connections in back-off were
dialled behind the back of a retiring task; the table is bounded. It yields
`AlwaysWithinLimits`, `NeverDialsInBackoff`, `SelfNeverRedialed`,
`ProvenRowsSpared` and `VerifiedOnlyByDialing`.

**NodeProofs.** `NodeInv`: what passed the gate is what is bound; every value a
request has yet to save passed the gate, which judges each key by itself, so any
mixture of two requests passes too; a key is synced as soon as it can be
used and every secret is encrypted under the key in the file. It yields
`KeysAlwaysOutlivePersonas`, `AlwaysCanRestart`, `ExposureAlwaysControlled`.

**FramePumpProofs.** `PumpInv`: the bytes sent and not consumed (in the buffer,
the socket and the network) are the frames after the last one handed on, whole
and one after the other; the witness is a function from frames to the place
where each begins. It yields `FramesAlwaysSound`.

**GossipNetProofs.** `NetInv` states `SyncAnswered` of every pair of nodes,
registered or not, because the messages on the wire decide and not the
registration. It yields `NetworkAlwaysSound`.

`ConnectedAlwaysAgree` is `LiveAgreement` under two conditions on events and
limits that `EventStore` names and the instance is assumed to meet:
`StoresRoomy`, no quota ever bites (otherwise one node evicts what another
keeps), and `ExpirationFollowsCreation` (otherwise a node sweeps the newer event
and is left without either). Its invariant `AgreeInv` has four parts:

* `HeldInv`: entries are one per channel and the set of ids follows them, so an
  event is refused only where it or a newer one is held;
* `PastInv`: a node holds, for as long as the event counts, that event or a newer
  one if it has seen it, is about to broadcast it, has sent it or streams it, and
  so does the node it came from, which the broadcast leaves out;
* `LinkInv`: a connection is down, greeted from one side with HELLO_ACK and
  SYNC_REQ behind it, or registered at both ends; no second request comes while a
  response is streamed, which would be ignored, and no request asks for less than
  the window;
* `CoverInv`: across a connection registered at both ends, every event that counts
  has arrived, is due for broadcast, on the wire, left in the response, or will be
  in it since the request of the other end is still to be read.

**GossipSessionProofs** (assumptions: a window admits at least one message, and a
message of any kind is no longer than a window admits, else the HELLO itself
would be cut off; a node answers with no more events than its store holds).

* `HandInvariant`, `HandshakeAlwaysSound`: `HandshakeSound`. `HandInv` says that
  what is on its way is genuine (only an end that is established says
  HELLO_ACK, each says of itself what is true, `self_connect` is said only of
  the node itself) and what an undisturbed connection of a node with itself
  looks like: the HELLO is on its way, or the answer is.
* `KeepaliveAlwaysSound`: `KeepaliveSound` under `KeepaliveMargin`, an
  interval, a tick and two delays within the timeout. The 60, 5 and 120 seconds
  of the code leave 27 for a message. `KeepInv`: no timer and no message
  is overdue; as long as an end runs, the next sign of life of its peer was
  written within a gap between PINGs after the last one, or nothing is on its
  way and the peer runs and has not sent a PING since, or has yet to read what
  it will answer; who stopped said so last. Without a margin the property is
  false: slow messages add up to the timeout.
* `NeverBlamed`: `NotBlamed` under `KeepaliveMargin`, for any limits on messages and
  bytes, any pacing, backlog, store size, news of the hub and delay. `OrderInv`:
  until an end is established a greeting is the next message it reads, afterwards
  none is on its way, and every end that stopped had an innocent reason: a CLOSE
  that says going_away, the limits, a reset, a cut. The margin is needed because a
  keepalive that cut off a living peer would count as a failure.

Only model-checked, and why:

* liveness: `Collected`, `EventuallyPublished`, `EventuallyReleased`,
  `ShutdownEndsAll`, `EventuallyQuiescent`, `BothEnd`, `AllDelivered`,
  `KeepsTrying`, `RecoveryNoticed`, `Stops` (fairness and ENABLED are outside the
  prover);
* `NoZombie`, false with several sessions or a short queue (section 4): it holds
  where the instance says;
* `OwnListingSurvives`, `IndexLineSound`: `Listing` computes on sequences
  recursively, and induction over data is outside the prover.

## 6. Plan

In this order, most important first; all steps are done.

1. `EventStore`, `IngestState`: store, cache, sweep; proofs.
2. `Identity`, `AnnounceRegistry`, `PublishEngine`.
3. `GossipNet`, `FramePump`.
4. `PeerTable`, `PeerManager`.
5. `GossipSession`: handshake, rate window, keepalive, closing.
6. `PcpServer`, and that it implements `AnnounceRegistry`.
7. `Listing`, `ListingPath`: the conversions from announcement to `index.txt`.
8. `Settings`, `Keystore`, `Node`: start, crash, restart, stop.
9. `ChannelRegister`, and that `IngestState` implements it.
10. Proofs of the safety invariants, action properties and refinements of
   sections 3 and 5, but for those that section 5 leaves to TLC.

## 7. Running

`tlc -config MCIngestState.cfg MCIngestState` (and likewise for the other
pairs); `tlapm IngestStateProofs.tla` (and likewise; one to four minutes
each, `GossipSessionProofs` about seven). The longest runs, `session`, `node`, `gossip`,
`publish` and `peers`, take one to three minutes on two cores.

## 8. Not modelled

* The PCP atom codec (`pcp/atom.rs`), the JSON of frames and the parsing of
  addresses and command lines: pure functions whose failure is an alternative of
  the actions that call them (`invalid` atoms, a refused HELLO, a bind address
  of class `garbage`).
* The classification of PEX entries, which decides only what is logged.
* Signatures, encryption and proof of work, taken as predicates; DPAPI.
* The security log: nothing reads it. (`flush()`, described as for periodic use
  and for the end, is called by tests only, and what is being aggregated when
  the process ends is not recorded.)
* Web pages and the status interface, which only read; the SQL schema and its
  migration; the search for the data directory; the gateway protocol of UPnP.
