# DoubleSlash: a TLA+ verification project

DoubleSlash is a decentralised voice, chat and file-sharing program. Clients hold
an identity key pair and talk over supernodes, which relay opaque, end-to-end
sealed traffic, host rooms and join into clusters. This directory holds TLA+
models of its core logic, the TLC runs that check them on small instances, and
theorems about them that TLAPS checks for every instance.

## 1. The system: inventory

Paths are relative to `src/rust/`.

| Component | State it keeps | Operations | Talks to | What makes it correct |
|---|---|---|---|---|
| Room keying (`doubleslash-client/src/group_key.rs`, `connection_manager/manager/room_session.rs`, parts of `inbound.rs`) | per room: epoch keys, highest epoch seen, member snapshot per supernode, seals waiting for an ack, own open request | mint, rotate, distribute, accept, acknowledge, request, reseal, give up | other clients through sealed signals; supernodes through roster announcements | one keyer at a time, keys reach everybody and only members, epochs move forward |
| Own-device key handoff (`manager/device_session.rs`, `device.rs`, `device/store.rs`) | device roster per room, one `OwnKeyRound` per room | record rosters, request and answer a handoff, time out | the user's other devices | one device of an identity keys; a handoff settles |
| Room session (`manager/room_session.rs`, `manager/mod.rs`) | active rooms, pending joins, retry and failover state | join, leave, subscribe, retry, fail over to a sibling supernode | supernodes | a room is joined on a live node, a failover ends, a leave leaves everywhere |
| Room store and own sync (`room_store.rs`, `room_store/own_sync.rs`) | remembered rooms, tombstones, versions | merge, tombstone, publish | own devices | merges converge, a removed room does not come back, trading stops |
| Direct sessions (`manager/peer_session.rs`, `manager/device_calls.rs`, `connection_fallback.rs`, `call_controller.rs`) | peer sessions, call state, reconnect backoff | dial, accept, resolve a glare, fall back to relay | peers, supernodes | one device answers a call; nothing of a call outlives it |
| File transfer (`file_transfer.rs`, `manager/file_work.rs`) | offers and streams, received chunks, partial files | offer, accept, chunk, complete, stall, resume, retry, revoke, cancel, collect | peers, rooms | a published file is whole and genuine; an interrupted one can be resumed |
| Media (`video/fragment.rs`, `video/sender.rs`, `video/receiver.rs`, `content_playout.rs`, `media_sync.rs`, `media_clock.rs`) | reassembly slots, pacing, playout clock | fragment, reassemble, drop, request key frame | rooms, peers | no frame is assembled from two, memory is bounded |
| Supernode rooms (`doubleslash-supernode/src/sfu.rs`, `main.rs` room handlers) | rooms, participants, subscribers, device routes, invite tokens, empty-since marks | create, join, leave, subscribe, invite, expire, collect | clients, sibling supernodes | only admitted clients take part; empty rooms are collected |
| Supernode signalling (`signaling.rs`, `protocol.rs`, `wire.rs`, `handshake.rs`) | sockets per identity, queues and their budgets, challenges | register, replace, route, close | clients | one socket per device, a stale close does not evict its successor |
| Supernode relay (`relay.rs`, `ticket.rs`, `access.rs`) | relay sessions, tickets, quotas | admit, bind, forward, expire | clients | only ticket holders relay; limits hold |
| Cluster (`cluster.rs`, `cluster_link.rs`, `space.rs`, `manifest.rs`, `peer_store.rs`) | links, seen cache, gossip, space roots | connect, gossip, forward once | sibling supernodes | no loops, newest root wins |
| Features (`doubleslash-features/src`) | replay cache, quotas, registry, signed descriptors | verify, admit, spend | all | a replay is refused, a quota is never exceeded |
| Client storage (`chat_store.rs`, `peer_store.rs`, `backup.rs`, `session_state.rs`) | encrypted SQLite and files | save, load, stage, restore | disk | a crash loses no committed state |
| Updater, installer, supernode manager (`github_updater.rs`, `doubleslash-installer`, `doubleslash-supernode-manager`) | staged versions | download, verify, swap, roll back | GitHub, OS services | a failed update leaves the old version |
| User interfaces, codecs, Android app, web SDK, games | views | render, encode | the above | not control logic |

### What is hard in it

* Nothing orders a sealed signal against a roster announcement, nor the
  announcements of two supernodes: each client acts on its own view.
* Key state is in memory only. A restart forgets keys that others still use.
* Seals, joins and resumes are retried a bounded number of times; recovery from
  then on depends on somebody noticing.
* Epochs are one byte, compared modulo 256, while the retained keys are ordered
  as plain numbers.
* A client can be in a room by voice, by chat or by both, on several supernodes,
  and each combination leaves by another path.
* A supernode handler takes its locks one call at a time, in parallel with the
  handlers of other connections: a room may be collected, a roster change or a
  device reconnect between two steps of one handler.
* One identity has several devices, each with up to two transports. A closing
  connection must undo exactly what is left of it; all of them ring for a call and
  one may answer it; each has a copy of the room list that the others change.
* A failover asks several nodes for the room at once and takes the first answer,
  while nodes come and go and late answers of earlier joins are on their way.
* A file transfer counts a chunk before a transport has taken it, and hashes and
  publishes on another thread while the record may be cancelled or collected.

`PROJECT.json` lists each hazard at its line with the properties aimed at it.

## 2. Modules

| Module | Models | Kind |
|---|---|---|
| `GroupKey` | `GroupState`, `SenderKeysGroup` of `group_key.rs` | operators on a record |
| `RoomKeying` | the keying of one room between clients, with the supernodes' roster announcements as environment | state machine |
| `RoomSecrecy` | `RoomKeying` with history variables: who may hold, and who has held, each key | state machine |
| `SfuRoom` | `SFURoom` of the supernode's `sfu.rs` | operators on a record |
| `Supernode` | one room of one supernode: its handlers (`main.rs`), the connections of its clients (`signaling.rs`), the idle collector | state machine |
| `RoomSession` | the voice room of one client on a cluster: join, retry, leave, failover, and the nodes' side of each | state machine |
| `DeviceCalls` | calls between two identities with several devices each, and the fallback room | state machine |
| `FilePull` | what a download promises to the person who accepted it | abstract specification |
| `FileTransfer` | both ends of the transfer of one file and what drives them; implements `FilePull` | state machine |
| `RoomStore` | one device's room store and Space tree, and their merge | operators on a record |
| `OwnRoomSync` | the devices of one identity changing rooms and trading snapshots | state machine |
| `RoomKeyingProofs`, `SupernodeProofs`, `RoomSessionProofs`, `DeviceCallsProofs`, `FileTransferProofs`, `OwnRoomSyncProofs` | theorems about the module of that name | proofs |
| `KeyDistributionProofs`, `RoomViewProofs` | further theorems about `RoomKeying`: outstanding seals, who may hold a key (`RoomSecrecy`), and the views of the clients | proofs |
| `MC*` | instances for TLC; `MCRoomKeying`, `MCRoomSecrecy`, `MCSupernode` and `MCOwnRoomSync` also a start state that `Spec` reaches | model checking |

The state machines meet at their messages. `RoomKeying` consumes the announcements
that `Supernode` produces, `RoomSession` is the client of the handlers that
`Supernode` has in detail, and each carries an abstraction of the other side that
allows more than the detailed module does (any order of answers in `RoomSession`, any
roster change in `RoomKeying`).

### How RoomKeying corresponds to the code

`mgr[m]` is the keying part of the `ConnectionManager` of client `m`:

| Field | Code |
|---|---|
| `view[n]` | `room_group_members["n:room"]`, the last roster of supernode n without m itself |
| `devices[n]` | `room_device_rosters["n:room"]`; each identity has one device here |
| `group` | `group_keys`, the `GroupState` of the room; `NoGroup` when there is none |
| `pending[p]` | `pending_group_key_acks[(room, p)]`; no attempts means no entry |
| `asked` | whether `group_key_requests` has an entry for the room |

`voice` and `chat` are the participants and subscribers each supernode holds
(`sfu.rs`); `inVoice` and `inChat` are what the client believes (its active rooms);
the two differ between a lost connection (`Disconnect`) and the supernode noticing
it (`Expel`), and after a client restart. `inbox[n][m]` is the ordered stream of
`SfuPeerJoined`, `SfuPeerLeft` and `SfuMembers` from supernode n to client m. `net`
holds the sealed signals (`SfuGroupKey`, `SfuGroupKeyAck`, `SfuGroupKeyRequest`):
they can take a relay, a cluster link or a direct session, so they are unordered.
`air[m]` is the last room frame m sealed, heard late, repeatedly, or never.

A handler of the client is one action. What it does in sequence is a chain of
operators on a *result* (the client's state, the signals it sent, the keys minted
so far), so that `on_unopenable_room_frame`, for instance, is the composition of
`note_observed_epoch`, `rekey_room_if_behind`, `request_group_key` and
`reseal_to_lagging_member` in the code's order. Handlers run one at a time in the
manager's `run` loop, so one handler is one step.

Time is abstracted to nondeterminism: `due` says that a backoff or retry interval
is over, `old` that the current epoch has outlived its distribution window.

Left out of the keying model: several devices of one identity and the key handoff
between them (the models are of the default build with one device each), the
`"="`-padding variants of identities, sealing failures, and the deterministic
fallback key, under which `may_send_room_e2e_content` never lets content out.

The supernodes are in the model as far as their announcements go. Each serves a client
in a task of its own, and the tasks run in parallel. A handler changes the roster in the
step of the client's message; the task then sends the edges, reads the roster
(`ReadRoster`: `broadcast_sfu_members` holds the lock for that only) and sends it, one
recipient at a time (`SendAnnouncement`), while other tasks do the same. `task[n][m]` is
what the task of m has to do next, `sending[n][m]` what it has read and not yet sent.
`raced[n]` is history: when the roster of n was last read, another task had something
older still to send. What has been sent to a client arrives in order, as it does over one
transport; a client whose relay stream is replaced by its socket in between
(`signaling.rs:385`) may get it out of order, which is not modelled. Nor is the joiner's
own first `SfuMembers`, which the broadcast repeats, or two tasks of one client on one node
(an old connection still busy after a reconnect; `Supernode` has those). `Disconnect`
takes the node out of `inChat`, which stands for the rooms active on connected nodes:
`chat_active_rooms` itself survives.

### How Supernode corresponds to the code

The supernode is a multi-threaded tokio program: every connection is served by its
own task, handlers are synchronous functions, and the room manager and the routing
tables are each behind an `RwLock` that a handler takes and releases several times.
`todo[c]` is what the task of connection c still has to do, one element per locked
section in the order of the handler; a step at its head may put further ones in
front of the rest (an accepted join is followed by its announcements). A roster is
read in one step and delivered in later ones, one recipient at a time.

| Variable | Code |
|---|---|
| `room` | the `SFURoom` in `SFURoomManager::rooms`, `NoRoom` if there is none |
| `status`, `todo` | the task of a connection: `handle_ws_connection`, `handle_relay_signaling_stream` |
| `route["ws"]`, `route["quic"]` | `peer_sockets`, `quic_senders` of `SignalingState` |
| `connected` | `connected_count` |
| `view` | what the client was last told of the key group |
| `joined` | auxiliary: a join of this connection was accepted |

A message is given as the steps of its handler (`Handlers`). What of the payload
decides the control flow - a token, a Space proof with or without a grant - selects
among them. There is one room with one definition (creator and type); a client
naming another creator for the same room is not modelled. Time is in `empty`: no
mark, a recent one, or one older than `IDLE_ROOM_GC_SECS`. Speaker scores decay with
time, so which speaker is the weakest is left open. Left out: the participant index
(written, never read), room lists, invite minting by policy (a presented token is
registered again before it is looked up, so it always admits), the default room,
the lobby and game relay, ticket issue and hole punching, none of which changes
the room; the announcement a denied join gets; audio forwarding itself.

A device that is in the room without a connection, and that no task is about to take
out, is a `Ghost`. A replaced connection whose join handler is still running when its
replacement closes does leave one; `GhostsOnlyFromReplaced` says that nothing else does,
reconnects included, and `NoGhost` that there are none where no connection is replaced.

### How RoomSession corresponds to the code

The client's manager handles one event at a time, so each command, internal event
and message is one action with everything its handler does.

| Variable | Code |
|---|---|
| `online` | supernode sessions with `connected` set |
| `curNode`, `curRoom` | `current_supernode_id`, `current_room_id` |
| `inProgress`, `pendingRoom`, `rejoin` | `failover_in_progress`, `failover_pending_room`, `pending_failover_rejoin` |
| `retry[n][r]` | the attempts in `pending_room_join_retries`, -1 for no entry |
| `chat` | `chat_active_rooms` |
| `hosts`, `voice`, `subs` | per node: its rooms, and where it lists this client |
| `up[n]` | the socket to n, in order |
| `down` | what nodes sent: two channels, so any order, and also after the socket closed |

`send_room_join` changes the current node as a side effect; in a failover it is called
once per live sibling, so that the roster's last one stays, which here is any of them.
`seat`, `left` and `undisturbed` are history: the current node has confirmed the room;
the rooms left while connected to a node; no join, leave or retry fell into a failover.
The nodes' handlers are those of `Supernode`, reduced to this client and to one step.
A connected node takes every message; see *Lost frames* in section 4 for the code.
`WsDisconnect` drops all that the node has not read, where the task of the old socket may
still serve what it had buffered. Left out: invites and Space credentials, the relay
session, video state, and nodes that belong to no cluster.

### How DeviceCalls corresponds to the code

`call[d]` is the entry of `device_calls` for the other identity, `check[d]` its
`pending_call_fallback_checks`, `fallback[d]` the `DirectFallbackCoordinator` and
`direct[d]` the endpoints with a direct path. `prepare_device_call` (what the user
does) and the branches of `receive_device_call` are one action each, together with
what `inbound.rs` does after it. Call ids are numbers in the order they are drawn (the
code draws 128 random bits). Messages stay in `net` until they are received and may
never be: that is loss, and any order is possible. Deadlines are left open, so that
an expiry is possible whenever the code's filter allows one. Left out: the feature
quota (a refused message is a lost one), the user interface's `call_controller.rs`, and
the command `StartDirectCallFallback` (`mod.rs:1167`), which nothing sends.

### How FileTransfer corresponds to the code

One file, offered 1:1 or in a room, held in memory or on disk by the receiver
(`kind`). The sender's variables are the fields of `OutboundTransfer` and the state of
the preparation on a blocking thread; the receivers' those of `InboundTransfer` plus
the `.part` file and the running hash. `Pump` is one turn of `pump_room_file_streams`
with `dispatch_transfer_events` behind it: up to `Budget` chunks, each of which a
transport or a quota may refuse. What may go wrong otherwise is in `Faults`, one name
per kind (a source that changes, a disk that fails, a collector, a cancel, ...).

`FilePull` is the promise: chunks arrive in any order, an interruption keeps what is
there, a file is published only when it is whole and every chunk is the sender's, and
nothing is let go but together with the whole download. The mapping takes the state
and the `resumable` flag of a record to the phase of the pull, `stored` to what it
has and `saved` to what is published.

Left out: malformed frames (an index out of range or bad base64 fails the pull,
`file_transfer.rs:1752`, `:1776`), delta transfers and decompression
(`file_transfer.rs:1919`), a source that fails in the middle of a turn of the pump rather
than at its first chunk (`:2237`), and a `.part` file that cannot be removed (`:2193`).
`net` keeps the frames, so that `NoSilentHole` speaks of what was ever handed to a
transport.

### How OwnRoomSync corresponds to the code

`RoomStore` has one record per room: the hosts it is filed under, the hidden ones
(tombstones), the time it was added, and the removal if there is one; and the Space
tree as an epoch and the rooms in it. Each operator is a method of `RoomStore`
(`room_store.rs`, `own_sync.rs`). `OwnRoomSync` has a store per device, at most one
snapshot waiting to be sent (`own_room_sync.pending`), and the snapshots on their way.
What the user does on a device is the handler of `ui/bridge.rs` with the save and the
`sync_own_rooms` behind it, where there is one. `newest` is history: which stamp on
each room is the latest. Clocks of devices may differ (`Skew`). `FlushLost` is a
snapshot that is taken from `pending` and reaches nobody though the device is connected;
`unheard` holds the devices it happened to until they connect again, and a room is not
*quiet* before they have. Left out: what exactly makes a snapshot too large, a command that
the full channel to the manager refuses (`bridge.rs:8940`; it is a refused snapshot, but
for an older one that may still be waiting), display order and names. The hosts a device
knows are a constant (`Knows`): the code asks the peer store when it deletes
(`bridge.rs:4906`), and a host learned after that may list the room again.

## 3. Runs

| Run | Checks | States | Shows |
|---|---|---|---|
| `room_keying` | `TypeOK`, `CurrentKeyHeld`, `PendingWithinAttempts`, `OnlyKeyerDistributes`, `ViewCatchesUp`, `EpochNeverRollsBack`, `EventuallyKeyed` | 69,806 | Two members of a room hosted by two supernodes, voice and chat, with lost signals and a restart: in every interleaving of membership changes, the supernodes' parallel handlers and their announcements, seals, acks, requests, late frames and timers the current epoch has its key, epochs never go back, seals are outstanding only at the keyer elected over the union view and for at most GROUP_KEY_MAX_ATTEMPTS, a client ends up with the roster unless the last broadcasts overlapped, and then every member of a room that stays as it is eventually holds a real key. |
| `room_secrecy` | `ForwardSecrecy` | 84,856 | Three members, two of them chat only, starting from a keyed room, with rosters that overtake each other and late frames: nobody who was not a member of an audience the keyer could have had in view comes to hold a key. |
| `keyer_restart_wedge` | `QuietAgreement` | violation | A keyer that restarts mints epoch 0 again; once its seals are lost and given up, keyer and member stay on the same epoch number with different keys and nobody notices. |
| `supernode_roster` | `TypeOK`, `RosterMirrorsDevices`, `EmptyMarkExact`, `NoGhost`, `WithinLimits`, `ConnectedCountExact`, `SpeakersUnaffected` | 929,588 | Two devices of one client and one of another join, leave, subscribe, speak and close their sockets and relay streams in either order, in a room with one voice place that two clients want and one speaker's place that two fill: identities mirror devices, the empty mark is exact while the collector runs, no disconnected device stays behind, nobody gets in past the limits, connected_count is exact, and the speaker cap touches no room below it. |
| `supernode_admission` | `OnlyAdmitted`, `WithinLimits`, `ConnectedCountExact`, `GhostsOnlyFromReplaced` | 708,945 | Every way into a private room (create, token, Space proof with and without a grant, cluster roster) interleaved step by step with the collector and another client, while devices are refused at the device limit and replaced by reconnects: nobody is in the room who was not admitted to this incarnation of it, the device limit and connected_count hold throughout, and a device is left behind without a connection in one way only, by a join that a replaced connection still had to serve. |
| `stale_cleanup` | `LiveMembershipKept` | violation | A connection's cleanup, decided under the lock and carried out after it, removes the membership its replacement has just joined with. |
| `file_transfer` | `TypeOK`, `HeldIsResumable`, `PartOwned`, `NoSilentHole`, `KeepsThePromise` | 1,234,216 | One file, 1:1 or in a room, in memory or on disk, with refused frames, changed and vanished sources, disk errors, cancels, revokes, expiry, collection, repeated accepts and a restart of either side: a pull that waits for Retry can be resumed, no partial file is left without an owner, no refused chunk is counted as sent, and the transfer implements what FilePull promises the person downloading. |
| `file_delivered` | `Delivered` | 15,148 | Where transports and quotas refuse any frames for a while, COMPLETE among them, an accepted file is delivered: liveness of the pump, its back-off, the stall check and the resumes. |
| `own_rooms` | `RemovedIsGone`, `LaterWins` | 1,124,048 | Two devices of one identity whose clocks differ, a room that can be filed under two hosts of a cluster: joins, deletions, hiding, room lists, lost connections, crashes and refused snapshots, in either direction; a removed room is not brought back by a list, and once all is said the later of adding and removing has won on both, whichever clock is ahead, except where a device acted against a stamp it holds and its clock has not reached. |
| `own_trees` | `TypeOK`, `SameTree`, `TradingStops` | 191,545 | Three connected devices create and delete rooms in the identity's signed tree at the same time, and snapshots are lost with a connection or refused while it is up: once every device has reconnected after what it lost, their merges have converged on one tree at one epoch; the trading of snapshots stops, and a device never has more than one snapshot waiting. |
| `device_calls` | `TypeOK`, `OneAnswer`, `FallbackInCall`, `AnswerKept` | 695,851 | A caller and a callee with two devices, messages delayed, lost and reordered, calls in both directions, hang-ups, declines, expiries, direct paths coming and going and a restart: one device answers a call, an answered call is ended by its two devices only, and no fallback room outlives its call. |
| `room_session` | `TypeOK`, `ReturnDoesNotSeize`, `LeaveReachesAll`, `FailoverAnswered` | 2,695,932 | A client and a cluster of three supernodes, one of them without the room: joins, leaves, subscriptions, lost and regained sockets, denials, retries and rosters that arrive late; a failover always has an answer coming or every node armed, a node that comes back does not take a seated client away, and a leave reaches every connected node. |

### Bounds

Every bound is a constant and stops a behaviour when it is used up, hence
`CHECK_DEADLOCK FALSE`: users and failures stop, which the program may do too.

* Keying: `MaxKeys` keys minted, `MaxChanges` membership changes, `MaxRestarts`
  restarts. `EpochMod` stands for 256, `Retained` for `MAX_RETAINED_EPOCHS`,
  `MaxAdvance` for `MAX_EPOCH_ADVANCE`, `MaxAttempts` for `GROUP_KEY_MAX_ATTEMPTS`;
  the scaled values keep their order (`Retained < MaxAdvance < EpochMod`) and let a
  run mint more keys than it retains. Two members suffice for a keyer and a member
  and for the roles to swap when the keyer leaves, restarts or is unknown to the
  other; the room is on two supernodes, so that views are unions. A third member is
  needed for a key sealed by a client that has left, so the secrecy run has three.
  `StartSpec` starts from an empty room, or from one that is keyed on one node, with two
  changes to come or with one and a restart: a full history from nothing would spend the
  changes on filling the room. Two changes in a keyed room are what it takes for two
  handlers to announce at the same time and for an older roster to arrive last.
* Supernode: `MaxCommands` messages, each connection used once. Two devices of one
  identity, one of another, and a second connection of the first device give every
  relation two tasks can have: same endpoint, same identity, strangers. The limits
  are 1 or 2 so that they are reached: the room size and the speakers' places in the
  roster run, the device limit in the admission run. The roster run starts with the room
  created and sockets open (`OpenedSpec`), and its fourth connection is the first device's
  relay stream; in the admission run, which starts with both clients connected
  (`ArrivedSpec`), it is a reconnect. Both take states that differ only in what clients
  were told for one (`ButView`: nothing but the type of `view` depends on it).
* Room session: three nodes are the fewest with a lost node, a sibling that answers
  and one that does not have the room. Two events allow the second node to be lost
  while the failover from the first is under way, or a lost one to come back after
  it was resumed; two commands a join and a leave, or a join during a failover.
  `MaxQueue` keeps a retry from piling up joins that a node does not read.
* Calls: two devices of the callee compete; two call ids let messages of one call
  arrive in the next; three user actions are a call and two answers, or a call, an
  answer and a hang-up. The callee's devices are interchangeable (symmetry).
* File transfer: two chunks and one automatic resume give a hole before, behind and
  at the end of what is stored; one receiver (see *Observed behaviours* for two).
  Three chunks with two per turn in the liveness run, so that a turn ends inside
  the file and one at its end.
* Own rooms: three changes are an adding, a removal and a second adding; the second
  device's clock is ahead. One of the two, either, has connected at the start
  (`FirstSpec`), so that the other may change rooms before it has. Trees: three devices, two rooms, two changes, so that two
  trees meet at the third device; contents differ so that equal epochs can clash. A
  refused snapshot takes the place of a change.

### Fairness

* `RoomKeying!FairSpec` (`StartSpec` in the run): the tasks of a supernode go on (weak
  fairness of `Serve`: they are runnable until done), a client's loop handles its announcements and its 750 ms
  timer again and again (weak fairness: `tokio::select!` in `ConnectionManager::run`
  polls every branch), and a signal sent again and again is eventually received
  (strong fairness of its handling: without it no protocol over a lossy network
  delivers anything). Nothing is assumed of users, of frames or of acknowledgements.
  `EventuallyKeyed` says that keys are held, not that all hold the same one, which the
  restart run refutes; a room whose last broadcasts overlapped is excepted.
* `FileTransfer!FairSpec`: the stall check is a timer and frames that reached the
  manager are handled (weak fairness); a transport or a quota that refuses a frame
  does not refuse it for ever (strong fairness of a turn of the pump whose frames are
  taken: quotas refill, queues drain). `Delivered` is checked where nothing else goes
  wrong; with a cancel or a vanished source it is not wanted.
* `ConnectedSpec` of `MCOwnRoomSync`: the managers go on connecting, sending what
  waits and handling what arrives (weak fairness of `Trade` as a whole).

### What the violation runs show

* `keyer_restart_wedge`: the keyer restarts, its peer keeps epoch 0. The keyer
  mints a new epoch 0, its seals are lost, it gives up. Both are now "on epoch 0"
  with different keys, neither is behind, and frames do not open until somebody
  joins or leaves (`room_session.rs`, the comment on the election).
* `stale_cleanup`: connection 1 closes and decides to remove its endpoint;
  before it does, the same device connects and joins again; then the cleanup
  removes the new membership. The client believes it is in the room.

`PROJECT.json` quotes, for each, the comment that says otherwise.

## 4. Observed behaviours

Behaviours of the code that the models have, and that the properties are stated
around. Each can be seen with TLC by adding the invariant in question.

* *Epoch wrap.* After epoch 255 the new epoch 0 is the lowest number held, and
  `install` evicts it at once (`group_key.rs:108`). The keying theorems assume that
  nothing wraps.
* *Late key.* A seal of a keyer that has left, arriving between its departure edge
  and the next roster, is accepted, because `accept_group_key_from` adds an unlisted
  sender to the election (`room_session.rs:606`). `ForwardSecrecy` allows it, as the
  departed member was in a view somebody still had.
* *Stale broadcast.* A roster is read under the lock and sent after it; a member can
  be left with the older of two until the next change (`main.rs:1105`). `RoomKeying` and
  `Supernode` both have it. `ViewCatchesUp` and `EventuallyKeyed` except it by `raced`, and
  so say that nothing else leaves a client with a wrong roster.
* *Ghost after a reconnect.* A replaced connection whose join handler is still running
  when its replacement closes leaves its device in the room (`signaling.rs:1019`).
  `GhostsOnlyFromReplaced` says that it is the only way.
* *Lost frames.* A session's send queue holds 64 frames and refuses the next
  (`routing.rs:405`); the callers of `dispatch_outbound` ignore its answer
  (`room_session.rs:1462`, for a leave); the supernode drops what passes 60 control
  messages in 10 s on one connection (`signaling.rs:828`). `RoomSession` has none of this, so that
  `LeaveReachesAll` speaks of a leave that was queued: after one that was dropped the node
  goes on listing the client, and nothing sends it again.
* *Refused snapshots.* `flush_own_room_sync` takes the snapshot from `pending` first, and
  drops it when it is too large or cannot be signed or sealed, or when the queue is full
  (`device_session.rs:368`), although the comment at `device_session.rs:336` says that
  "nothing is dropped". `OwnRoomSync` has it (`FlushLost`), and TLC shows two connected
  devices with nothing left to say that differ. `LaterWins` and `SameTree` count such a
  device as one that has to connect again: every connection sends everything.
* *A late admission.* An allow that reaches a room which was collected and created again
  admits its client to the new room. `OnlyAdmitted` counts it as an admission.
* *A denied sibling ends the failover.* The last sibling asked becomes the current
  node before it answers. If it denies first, the failover is called off, and the
  roster of a sibling that accepts afterwards changes nothing; the comments
  (`room_session.rs:420`) say that a node without the room denies silently, which
  `handle_sfu_join` no longer does.
* *A leave does not end a failover.* `leave_room_voice` clears neither
  `failover_pending_room` nor `pending_failover_rejoin`, and with all nodes lost not
  even `current_room_id`: the node that comes back joins the room again, although
  the comment at `room_session.rs:1412` is about just that. A late `room_absent`
  arms a retry after the leave, against the comment at 1423. A join of another room
  during a failover has the same effect on that room. `ReturnDoesNotSeize` and
  `FailoverAnswered` except these by `undisturbed`.
* *A late denial moves a resumed client.* A sibling's `room_absent` that arrives
  after another one was promoted arms a retry; the retry makes the denying node the
  current one, and its second denial clears it. After a give-up it starts again.
* *Any roster confirms.* A roster sent because of a chat subscription, or a late one
  of the lost node over the relay stream, counts as the failover's confirmation.
* *A join commanded while no node is connected* is dropped and not repeated, and a
  leave is not sent to a node whose socket is down at that time.
* *One-sided calls.* A selected device is active at once, while the caller's entry
  expires unless the acknowledgement arrives; the callee is not told. Two devices that
  call each other ignore each other's requests. A request that arrives after the call
  was ended rings until it expires. With no supernode for the fallback room the user
  interface hears `CallEnded` while the record stays (`room_session.rs:2258`).
* *Room files with two receivers.* The outbound record has one address: a second
  request redirects the stream, and the first receiver may hold every chunk and never
  see COMPLETE (`file_transfer.rs:925`, against the comment at 1118).
* *Refused 1:1 pulls.* The refusal of a withdrawn 1:1 offer is looked up among the
  outbound transfers only; the pull ends by stalling (`file_transfer.rs:1432`).
* *Orphaned parts.* A restart leaves `.part` files that nothing looks for.
* *Removed rooms and unequal hosts.* A removal covers the hosts its device knew; a
  device that knows another host of the same room takes it back from that host's list
  (`own_sync.rs:400`). `RemovedIsGone` holds, and is proved, with equal hosts.
* *Ties.* Stamps are whole seconds; an adding and a removal in the same second on two
  devices leave them different until the room is touched again.
* *A slow clock against a stamp it holds.* A device that has taken in a stamp its own
  clock has not reached, and then removes or adds the room itself, writes an older stamp
  than the one it holds; of three devices, those that hear of the two in different orders
  end up different. `LaterWins` says nothing of such a room until the next later stamp
  (`Stamp`, kind `open`).
* *A hidden room is not offered.* A device that hides a room leaves it out of its
  snapshots. If it is the one that knows the latest adding, the others never hear of it:
  `LaterWins` asks that nobody hides the room before it says that all have it.
* *Joining and unhiding do not trigger a sync*; what they change travels with the next
  snapshot. `LaterWins` waits for it (`owed`).

## 5. Theorems

All theorems are about `Spec` (`SSpec`, which is `Spec` with the audiences of keys as
history, for `ForwardSecrecy`), for every value of the constants that satisfies the
named assumptions of the module and what is said below. Each proof is an induction: `Init => Inv`,
`Inv /\ [Next]_vars => Inv'` with one lemma per action, and `Inv => P`.

`RoomKeyingProofs`, under `NoWrap` (`MaxKeys + MaxAdvance <= EpochMod`: at most 192
keys are minted in a room's life):

* `TypeCorrect`: `Spec => []TypeOK`
* `CurrentKeyAlwaysHeld`: `Spec => []CurrentKeyHeld`
* `NoEpochRollback`: `Spec => EpochNeverRollsBack`

An installed epoch survives the eviction in `install` only if no higher-numbered epoch
is held, so the strengthening `EpochInv` says of every client that its current epoch
is the highest it holds a key for, and that everything in circulation - held keys,
epochs seen, seals in flight, frames on the air - is below the number of keys minted so
far. From the second half follows that an offered epoch cannot have wrapped, so the
modular comparison of `accept_group_key_epoch` accepts no lower epoch
(`AcceptedIsForward`), which preserves the first half. The proof is compositional: each
step of a handler (`Distribute`, `DropPending`, `NewGroup`, ...) is shown to be a `Step`
between `Good` results, steps compose (`StepTrans`), and each action has one lemma.

`KeyDistributionProofs`, on top of it:

* `OnlyTheKeyerDistributes`: `Spec => []OnlyKeyerDistributes`
* `PendingAlwaysWithinAttempts`: `Spec => []PendingWithinAttempts`
* `KeysStayInside`: `SSpec => []ForwardSecrecy`

The invariant `OwedOK` has both properties for each entry of `pending_group_key_acks`, and
adds that the client holds keys and that no view lists the client itself. The first
addition is the point: `distribute_group_key` adds one attempt to whatever is on record,
so an entry that survived into the minting of a first key could pass the limit, and it is
the absence of keys that shows there is none. Rotation and reseal drop the entry before
they add one; a member that has just come has none, because an entry implies that the
view listed it.

`ForwardSecrecy` is not inductive either: it says who has a key, and a key that was minted
long ago is sealed again, by a retry, to a request or to a lagging member, to whomever its
holder sees. `SecrecyInv` therefore adds that everybody named anywhere - in a supernode's
roster, in a view, in an announcement on its way - is in the audience of every key minted
so far (`NamedOK`), and that everything held or sealed is a key already minted, so that it
cannot be mistaken for one that is to come (`HeldOK`, `SealedOK`). Each operator of a
handler is shown to seal only within the view it works on and only what its client holds
(`Within`), and then each handler to be `Careful`.

`RoomViewProofs`, on top of it:

* `ViewAlwaysCatchesUp`: `Spec => []ViewCatchesUp`

`ViewCatchesUp` speaks of idle tasks and an empty inbox. The invariant (`Seen`) says of a
node all of whose tasks have read the roster, the last of them while no older one was being
sent (`Fresh`), that all its tasks still send is the roster as it is now (`Current`), and
of each client it lists that a roster is on its way into its queue (`Coming`), or is the
last thing in it, or has been seen (`Informed`). A change of the roster makes a task that
has yet to read it, so there is nothing to show then; the read establishes the invariant
for every client at once, whatever was sent in whichever order before; an edge may leave
the view wrong for a while, and what follows it in the queue repairs it. Without the
condition on the last read the invariant breaks at that step, which is the behaviour of
section 4 and not a weakness of the proof.

`SupernodeProofs`, with no further assumption but for the last:

* `RosterAlwaysMirrorsDevices`: `Spec => []RosterMirrorsDevices`
* `EmptyMarkAlwaysExact`: `Spec => []EmptyMarkExact`
* `OnlyAdmittedAlways`: `Spec => []OnlyAdmitted`
* `AlwaysWithinLimits`: `Spec => []WithinLimits`
* `ConnectedCountAlwaysExact`: `Spec => []ConnectedCountExact`
* `SupernodeTypes`: `Spec => []TypeOK`
* `SpeakersAlwaysUnaffected`: `Spec => SpeakersUnaffected`
* `GhostsComeFromReplaced`: `Spec => GhostsOnlyFromReplaced`
* `GhostsAlwaysLeave`: `Spec /\ [][~LateJoin]_vars => []NoGhost`, where a `LateJoin` is a
  join or subscription served for a connection that was replaced

The inductive invariant is `GoodRoom(room)`: the type of the room, the three
properties, and that a room the manager does not have is in its default state. They
need each other. `set_device_membership` ignores whether `add_participant` took the
identity in, so that participants follow devices rests on `Refused` having found the
room full before any device flag was changed; that a removal sets the mark exactly when
the last one goes rests on participants and subscribers being what the devices say; that
a collected room takes its admissions with it rests on the default state. The
announcements and the routing tables play no part: the invariant holds whatever order
the locked sections take.

For the limits the invariant (`Limited`) carries that the three sets are finite - they
start empty and grow by one - so that no constant has to be; whoever does not fit is
refused before anything changes. For the count (`CountInv`) it is that the identities
with a connection are finitely many and counted exactly, from which it follows that
`saturating_sub` is never asked to go below zero. The types add that a queued
announcement has a kind (`Task`). The speaker cap rests on the limits: a frame that is not
forwarded found `MAX_ACTIVE_SPEAKERS` others active, all of them tracked, and its sender is
tracked too; that the tracked are finitely many, which `Limited` carries, is what lets them
be counted.

For ghosts there is one step lemma (`StepNoGhost`): a step that makes one is a join or
subscription of a replaced connection (`NoNewGhost`). It has two sides. A device that is
in the room becomes unregistered only by the close of the connection that its table names,
and that close finds the other table empty and puts `on_endpoint_disconnected` in front of
all the task had to do; a close that is not the registered one removes no route. And a
device comes in only by a task of one of its own connections; one that is not open has
nothing but cleanup left (`OnlyCleanup`, the invariant that is needed), one that is open
and registered makes no ghost, and what remains is one that is open and replaced. Neither
side asks how often a device connects, so both theorems include reconnects; the second
follows from the first by induction. `supernode_roster`, where no socket is replaced, has
no `LateJoin`; `supernode_admission` has reconnects and them.

`RoomSessionProofs`:

* `SessionTypes`, `ReturnNeverSeizes`, `FailoverAlwaysAnswered`, `LeaveAlwaysReachesAll`

The first half of the invariant (`Failover`) says that a connected node is neither
armed nor being failed over from, that only a cluster has failovers, that a seated
client's room is not the one a failover waits for (`Seated`), that all rejoins are for
that room, or for one room with every node armed and none connected (`ArmedAgree`), and
that no other room is current meanwhile (`CurrentAgrees`). The last two are what makes a
second loss during a failover continue the first instead of mixing two rooms; a
reconnect, a confirmation or a denial then clears all of it at once. The second half
(`LeaveFollows`) says that behind every join in a node's queue for a room that was left
there is a leave: without it the queue could list the client again after the leave was
read. It rests on the socket being in order.

`DeviceCallsProofs`:

* `CallsWellFormed`, `OneDeviceAnswers`, `FallbackEndsWithCall`, `AnswerAlwaysKept`

`OneAnswer` is not inductive: a selection in flight can activate a device later. The
invariant adds that a call id has one caller (`OneCaller`), that everything that names a
pair - the caller's entry, the callee's entry, every selection on its way - names the
same one (`PairsAgree`), that nothing names one while the caller still waits
(`NotYetSelected`), and that messages go between different identities (`Apart`).

`FileTransferProofs`:

* `TransferTypes`, `HeldAlwaysResumable`, `PartAlwaysOwned`, `NeverSilentHole`
* `TransferKeepsThePromise`: `Spec => Pull!PullSpec`, the refinement of `FilePull`

The invariant has a part per record (`RecordOK`: which combinations of state, resumable
flag, partial file, stored chunks and running hash exist), one for the offer and one for
the stream (what has been counted is in flight or stored). The refinement follows: every
action is a step of the abstract pull of the receiver it is about, or a stutter; that a
late hash publishes nothing but a whole and genuine file is where the record's part is
needed.

`OwnRoomSyncProofs`:

* `SpacesSettle`: merging two trees settles them in one exchange
* `StoresWellFormed`: `Spec => []TypeOK`
* `RemovedStaysGone`: `Spec => []RemovedIsGone` where all devices know the same hosts

* `TreesAgree`: `Spec => []SameTree` where every device knows the Space's host
* `LaterOneWins`: `Spec => []LaterWins` where all devices know the same hosts

For `RemovedStaysGone` the invariant says of every store, waiting snapshot and snapshot in
flight that a removed room is filed nowhere and that its tombstones cover every host the
device knows, so that no list can file it.

`SameTree` and `LaterWins` speak of devices at rest, and what has to be shown is that none
of them comes to rest too early. Both invariants say of a piece of news - a tree that some
device holds (`TreeInv`), the latest stamp on a room (`WinInv`) - that it reaches each
connected device (`Reaches`): the device has it, or a snapshot with it is on its way there,
or somebody who has it is going to send one - it is offline, or has lost a snapshot while
connected and counts as offline until it connects again (`Heard`), and sends all it has
then, a snapshot with the news waits on it, it still owes one, or the device has asked
it for an answer. A snapshot that is replaced while it waits is replaced by one
that says at least as much; one that is lost with a connection is sent again when the
connection is back; a merge that changes nothing proves that the news was there. At rest
only the first case is left. For trees "at least as much" is the order `Above`, which
`merge_space` climbs (`MergeAbove`) and in which two trees above each other are equal. For
stamps `WinFacts` adds that no store and no snapshot has a later stamp than `newest`, so
that the latest one, once taken in, is not displaced.

Only model-checked: `EventuallyKeyed`, `Delivered` and `TradingStops`: liveness under
fairness is out of this prover's reach. Every invariant and every action property of a
passing run is a theorem.

## 6. What is left

* `Supernode` and `RoomKeying` composed: each has its own abstraction of the other now.
* Send queues that refuse a frame in `RoomSession`, and announcements that change their
  transport in `RoomKeying`.
* Several devices of one identity in one room, with the own-device key handoff.
* Queue budgets, the replay cache and quotas, cluster gossip with its seen cache.
* Theorems: the step lemmas behind `Delivered` (a turn of the pump whose frames are taken
  makes progress).

## 7. Not modelled

User interfaces, codecs, cryptographic primitives (a seal is opened by its target only, a
signature cannot be forged), media pacing and playout, the relay's forwarding, storage
engines, the updater and the installer, the Android application's Kotlin code, games, the
web SDK, vendored crates and packaging. Most of the repository's lines are of this kind:
views, bindings, encodings and tests. `PROJECT.json` gives the reason for each component.
