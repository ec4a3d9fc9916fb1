------------------------------ MODULE RoomKeying ------------------------------
(***************************************************************************)
(* Keying of one room between the clients in it: who mints the room key,   *)
(* how it reaches the others, how a lost or missed key is recovered.       *)
(* Models the group-key part of doubleslash-client's connection manager    *)
(* (manager/room_session.rs, manager/inbound.rs) and, as its environment,  *)
(* the roster announcements of the supernodes that host the room.          *)
(*                                                                         *)
(* Members are numbered in the lexicographic order of their identities, and *)
(* each has one device (device routing is on, the default build).          *)
(* A sealed signal can reach its target over a supernode socket, a cluster *)
(* sibling or a direct session, so `net' is an unordered, lossy set.  A     *)
(* supernode serves each client in a task of its own; the tasks run in     *)
(* parallel and read the roster at one moment and send it at later ones,   *)
(* so an older roster can be the last to reach a client, though what has   *)
(* been sent to it arrives in order, as it does over one transport, and    *)
(* waits in `inbox'. The media and chat frames of a member are a one-place *)
(* register: the last frame it sealed, which anybody may hear late, twice, *)
(* or not at all.                                                          *)
(***************************************************************************)
EXTENDS GroupKey, Sequences

CONSTANTS
  Members,      \* identities, in the order of their ids
  Voice,        \* the ones that may join by voice
  Chat,         \* the ones that may subscribe to the room's text chat
  Speakers,     \* the ones that send content; the others only listen
  Nodes,        \* the supernodes (one, or a cluster) hosting the room
  MaxAdvance,   \* MAX_EPOCH_ADVANCE
  MaxAttempts,  \* GROUP_KEY_MAX_ATTEMPTS
  Lossy,        \* whether signals are dropped; if not, a lost one is never delivered
  MaxChanges,   \* bound: joins, leaves and lost connections in a behaviour
  MaxRestarts   \* bound: client restarts in a behaviour

ASSUME MembersAssumption    == Members \subseteq Nat
ASSUME RolesAssumption      == {Voice, Chat, Speakers} \subseteq SUBSET Members
ASSUME MaxAdvanceAssumption == MaxAdvance \in Nat
ASSUME MaxAttemptsAssumption == MaxAttempts \in 1 .. 255
ASSUME LossyAssumption      == Lossy \in BOOLEAN
ASSUME BoundsAssumption     == MaxChanges \in Nat /\ MaxRestarts \in Nat

VARIABLES
  voice,     \* voice[n]: identities that take part in the room on node n by voice
  chat,      \* chat[n]: identities subscribed to its text chat there
  task,      \* task[n][m]: what the task that serves m on node n does next
  sending,   \* sending[n][m]: what it puts into the clients' queues before that
  raced,     \* history: when node n last read its roster, a task had something older to send
  inbox,     \* inbox[n][m]: announcements of node n on their way to client m
  inVoice,   \* inVoice[m]: nodes client m has joined the room on by voice
  inChat,    \* inChat[m]: connected nodes client m has the room active for chat on
  mgr,       \* mgr[m]: the keying state of client m's ConnectionManager
  net,       \* sealed signals in flight
  air,       \* air[m]: the last room frame m sealed
  minted,    \* number of keys generated so far; each call yields a fresh one
  changes, restarts   \* counters behind MaxChanges and MaxRestarts

servers == <<task, sending, raced>>

vars == <<voice, chat, task, sending, raced, inbox, inVoice, inChat, mgr, net, air, minted, changes, restarts>>

\* chat_members, the key group: voice participants and chat subscribers.
Roster(n) == voice[n] \cup chat[n]

InRoom(m) == inVoice[m] \cup inChat[m]

-----------------------------------------------------------------------------
(* State of one client. *)

NoPending == [epoch |-> 0, attempts |-> 0]      \* no entry for that member
NoFrame   == [epoch |-> 0, key |-> NoKey]

Pending == [epoch : Epochs, attempts : 0 .. 255]
Frame   == [epoch : Epochs, key : Keys \cup {NoKey}]

\* room_group_members, room_device_rosters (the identities a device is listed
\* for), group_keys, pending_group_key_acks and group_key_requests (whether a
\* request is on record for the room).
Manager ==
  [view : [Nodes -> SUBSET Members], devices : [Nodes -> SUBSET Members],
   group : GroupState, pending : [Members -> Pending], asked : BOOLEAN]

FreshManager ==
  [view |-> [n \in Nodes |-> {}], devices |-> [n \in Nodes |-> {}],
   group |-> NoGroup,
   pending |-> [p \in Members |-> NoPending], asked |-> FALSE]

Message ==
  [type : {"key"}, from : Members, to : Members, epoch : Epochs, key : Keys]
  \cup [type : {"ack", "request"}, from : Members, to : Members,
         epoch : Epochs, key : {NoKey}]

Announcement ==
  [kind : {"members", "joined", "left"}, peer : Members, set : SUBSET Members]

Outgoing == [to : Members, what : Announcement]

\* union_members_for_room: the members any node lists, this client excluded.
Union(c) == UNION {c.view[n] : n \in Nodes}

\* is_elected_keyer for this client among the union and itself.
IsElectedKeyer(m, c) == \A p \in Union(c) : m <= p

\* elected_room_device: a roster lists the device of that identity.  For the
\* client itself this is also own_room_key_ready: a roster that lists its device
\* opens a round, which is settled when there is no other device of its own.
Listed(c) == UNION {c.devices[n] : n \in Nodes}

\* The client may mint and hand out keys.
IsKeyer(m, c) == IsElectedKeyer(m, c) /\ m \in Listed(c)

\* elected_keyer_for, for a client that is not the winner itself: the set of
\* the one that is.
ElectedKeyer(c) == {p \in Union(c) : \A q \in Union(c) : p <= q}

\* Mutant: the epoch of an offer is not looked at.
AcceptAnyEpoch(g, offered) == TRUE

\* accept_group_key_epoch.
AcceptGroupKeyEpoch(g, offered) ==
  HasKeys(g) => (offered - CurrentEpoch(g)) % EpochMod <= MaxAdvance

\* accept_group_key_from: the sender's device is listed, and it wins the election
\* among the union, this client, and itself whether or not the union lists it.
AcceptGroupKeyFrom(m, c, sender, epoch) ==
  /\ sender \in Listed(c)
  /\ \A p \in Union(c) \cup {m} : sender <= p
  /\ AcceptGroupKeyEpoch(c.group, epoch)

\* should_reseal_to_lagging_member.  `old': the current epoch has been current
\* for the whole distribution window.
ShouldReseal(memberEpoch, g, old) ==
  LET behind == (g.current - memberEpoch) % EpochMod
  IN  behind # 0 /\ behind <= MaxAdvance /\ old

-----------------------------------------------------------------------------
(* Steps a handler is made of.  A result r is what the handler has done so   *)
(* far: the client's state (r.mgr), the sealed signals it dispatched (r.out) *)
(* and the number of keys minted (r.minted); each step yields the next one.  *)

\* The client's state becomes c, and the signals in `out' are dispatched.
Then(r, c, out) == [mgr |-> c, out |-> r.out \cup out, minted |-> r.minted]

\* One more attempt at sealing `epoch' to a member (attempts saturates).
Attempt(q, epoch) ==
  [epoch |-> epoch, attempts |-> IF q.attempts < 255 THEN q.attempts + 1 ELSE 255]

\* distribute_group_key.
Distribute(m, r, epoch, key, targets) ==
  Then(r,
       [r.mgr EXCEPT !.pending = [p \in Members |->
          IF p \in targets THEN Attempt(r.mgr.pending[p], epoch)
                           ELSE r.mgr.pending[p]]],
       {[type |-> "key", from |-> m, to |-> p, epoch |-> epoch, key |-> key] :
          p \in targets})

\* Mutant: the removal is forgotten.
KeepPending(r, targets) == r

\* The entries of pending_group_key_acks for `targets' are removed.
DropPending(r, targets) ==
  Then(r,
       [r.mgr EXCEPT !.pending = [p \in Members |->
          IF p \in targets THEN NoPending ELSE r.mgr.pending[p]]],
       {})

\* The group state becomes g, with t keys minted so far.
NewGroup(r, g, t) ==
  [mgr |-> [r.mgr EXCEPT !.group = g], out |-> r.out, minted |-> t]

\* Mint a key with new_owner_epoch or rotate, and seal it to the whole union.
MintFirst(m, r) ==
  LET k == r.minted + 1
      g == NewOwnerEpoch(r.mgr.group, k)
  IN  Distribute(m, NewGroup(r, g, k),
                 g.current, k, Union(r.mgr))

RotateKey(m, r) ==
  LET k == r.minted + 1
      g == Rotate(r.mgr.group, k)
  IN  Distribute(m, DropPending(NewGroup(r, g, k), Members),
                 g.current, k, Union(r.mgr))

\* Mutant: a room is asked for once, and never again while the request stands.
RequestOnce(m, r, due) ==
  LET c == r.mgr IN
  IF \/ HasKeys(c.group) /\ ~IsBehind(c.group)
     \/ Union(c) = {}
     \/ IsKeyer(m, c)
  THEN Then(r, [c EXCEPT !.asked = FALSE], {})
  ELSE IF IsElectedKeyer(m, c) \/ c.asked THEN r
  ELSE Then(r, [c EXCEPT !.asked = TRUE],
            {[type |-> "request", from |-> m, to |-> p, epoch |-> 0, key |-> NoKey] :
               p \in ElectedKeyer(c)})

\* request_group_key.  `due': the backoff of the request on record is over.  A
\* winner of the election whose device no roster lists has nobody to ask.
RequestGroupKey(m, r, due) ==
  LET c == r.mgr IN
  IF \/ HasKeys(c.group) /\ ~IsBehind(c.group)
     \/ Union(c) = {}
     \/ IsKeyer(m, c)
  THEN Then(r, [c EXCEPT !.asked = FALSE], {})
  ELSE IF IsElectedKeyer(m, c) \/ (c.asked /\ ~due) THEN r
  ELSE Then(r, [c EXCEPT !.asked = TRUE],
            {[type |-> "request", from |-> m, to |-> p, epoch |-> 0, key |-> NoKey] :
               p \in ElectedKeyer(c)})

\* Mutant: anybody who asks is served, member or not.
SealCurrentToAnyone(m, r, p) ==
  LET g == r.mgr.group
      e == CurrentEpoch(g)
  IN  IF ~IsKeyer(m, r.mgr) \/ ~HasKeys(g) \/ EpochKey(g, e) = NoKey THEN r
      ELSE Distribute(m, DropPending(r, {p}), e, EpochKey(g, e), {p})

\* Hand the current epoch to one member unless it is on its way already; the
\* shared tail of serve_group_key_request and reseal_to_lagging_member.
SealCurrentTo(m, r, p) ==
  LET g == r.mgr.group
      q == r.mgr.pending[p]
      e == CurrentEpoch(g)
  IN  IF \/ p \notin Union(r.mgr)
         \/ ~IsKeyer(m, r.mgr)
         \/ ~HasKeys(g)
         \/ q.attempts > 0 /\ q.epoch = e
         \/ EpochKey(g, e) = NoKey
      THEN r
      ELSE Distribute(m, DropPending(r, {p}), e, EpochKey(g, e), {p})

\* reseal_to_lagging_member.
ResealToLaggingMember(m, r, sender, epoch, old) ==
  IF HasKeys(r.mgr.group) /\ ShouldReseal(epoch, r.mgr.group, old)
    THEN SealCurrentTo(m, r, sender) ELSE r

\* rekey_room_if_behind.
RekeyIfBehind(m, r) ==
  IF /\ IsBehind(r.mgr.group)
     /\ IsKeyer(m, r.mgr)
     /\ Union(r.mgr) # {}
  THEN RotateKey(m, r) ELSE r

\* on_unopenable_room_frame.
OnUnopenable(m, r, sender, epoch, due, old) ==
  LET seen == NewGroup(r, NoteSeen(r.mgr.group, epoch), r.minted)
  IN  ResealToLaggingMember(m, RequestGroupKey(m, RekeyIfBehind(m, seen), due),
                            sender, epoch, old)

\* sync_room_membership: node n lists `members'.
SyncRoomMembership(m, r, n, members, due) ==
  LET old  == Union(r.mgr)
      s    == Then(r, [r.mgr EXCEPT !.view[n] = members \ {m}], {})
      new  == Union(s.mgr)
      g    == s.mgr.group
      e    == CurrentEpoch(g)
      kept == DropPending(s, Members \ new)
  IN  IF ~IsKeyer(m, s.mgr)
        THEN RequestGroupKey(m, DropPending(s, Members), due)
      ELSE IF ~HasKeys(g) /\ new # {}
        THEN MintFirst(m, kept)
      ELSE IF HasKeys(g) /\ old \ new # {}
        THEN RotateKey(m, kept)
      ELSE IF HasKeys(g) /\ new \ old # {} /\ EpochKey(g, e) # NoKey
        THEN Distribute(m, kept, e, EpochKey(g, e), new \ old)
      ELSE kept

\* record_room_devices and forget_room_device_scope: the roster of node n lists
\* the devices of `members'.
RecordRoomDevices(r, n, members) ==
  Then(r, [r.mgr EXCEPT !.devices[n] = members], {})

-----------------------------------------------------------------------------
(* The supernodes' side (supernode main.rs).  A change of the roster is made *)
(* under the lock of the rooms; after it the task announces first the edge,  *)
(* between voice participants, then the whole roster, which it reads then.   *)

\* To read and send the roster, with or without a subscription that waits behind
\* it in the socket, or to serve that subscription.
Tasks == {"idle", "read", "readThenSubscribe", "subscribe"}

\* SfuPeerJoined or SfuPeerLeft of m, to the other voice participants.
Edges(kind, m, voices) ==
  {[to |-> p, what |-> [kind |-> kind, peer |-> m, set |-> {}]] : p \in voices \ {m}}

\* The task of m on node n is between two messages of its client.
Idle(n, m) == task[n][m] = "idle" /\ sending[n][m] = {}

\* Mutant: the roster is sent to voice participants only.
RosterToVoice(n, h) ==
  {[to |-> p, what |-> [kind |-> "members", peer |-> h, set |-> Roster(n)]] : p \in voice[n]}

\* The messages of broadcast_sfu_members.
RosterToAll(n, h) ==
  {[to |-> p, what |-> [kind |-> "members", peer |-> h, set |-> Roster(n)]] : p \in Roster(n)}

\* All the task of h has still to send is the roster as it is now.
UpToDate(n, h) ==
  \A s \in sending[n][h] : s.what.kind = "members" /\ s.what.set = Roster(n)

\* broadcast_sfu_members reads the roster, when the task has sent what comes
\* before it.  The joiner's own first SfuMembers, repeated by the broadcast, is
\* left out.
ReadRoster(n, h) ==
  /\ task[n][h] \in {"read", "readThenSubscribe"} /\ sending[n][h] = {}
  /\ task' = [task EXCEPT ![n][h] = IF @ = "read" THEN "idle" ELSE "subscribe"]
  /\ sending' = [sending EXCEPT ![n][h] = RosterToAll(n, h)]
  /\ raced' = [raced EXCEPT ![n] = \E g \in Members \ {h} : ~UpToDate(n, g)]
  /\ UNCHANGED <<voice, chat, inbox, inVoice, inChat, mgr, net, air, minted,
                 changes, restarts>>

\* The connection of m to n is down and the node has not noticed.
Gone(n, m) == m \in Roster(n) /\ n \notin InRoom(m)

\* One send_signed of the task of h: into the queue of the client's connection.
SendAnnouncement(n, h) ==
  \E s \in sending[n][h] :
    /\ sending' = [sending EXCEPT ![n][h] = @ \ {s}]
    /\ inbox' = IF Gone(n, s.to) THEN inbox
                ELSE [inbox EXCEPT ![n][s.to] = Append(@, s.what)]
    /\ UNCHANGED <<voice, chat, task, raced, inVoice, inChat, mgr, net, air,
                   minted, changes, restarts>>

\* JoinRoom and handle_sfu_join: the room is active for chat as well, though the
\* node lists m by voice only.
JoinVoice(m, n) ==
  /\ changes < MaxChanges
  /\ m \in Voice /\ n \notin inVoice[m] /\ Idle(n, m)
  /\ inVoice' = [inVoice EXCEPT ![m] = @ \cup {n}]
  /\ inChat' = [inChat EXCEPT ![m] = @ \cup {n}]
  /\ voice' = [voice EXCEPT ![n] = @ \cup {m}]
  /\ task' = [task EXCEPT ![n][m] = "read"]
  /\ sending' = [sending EXCEPT ![n][m] = Edges("joined", m, voice[n])]
  /\ changes' = changes + 1
  /\ UNCHANGED <<chat, raced, inbox, mgr, net, air, minted, restarts>>

\* SubscribeRoomChat and handle_sfu_subscribe.
Subscribe(m, n) ==
  /\ changes < MaxChanges
  /\ m \in Chat /\ n \notin inChat[m] /\ Idle(n, m)
  /\ inChat' = [inChat EXCEPT ![m] = @ \cup {n}]
  /\ chat' = [chat EXCEPT ![n] = @ \cup {m}]
  /\ task' = [task EXCEPT ![n][m] = "read"]
  /\ changes' = changes + 1
  /\ UNCHANGED <<voice, sending, raced, inbox, inVoice, mgr, net, air, minted, restarts>>

\* The client forgets the key, and the view and the devices of node n.
Forget(c, n) ==
  [c EXCEPT !.group = NoGroup, !.pending = FreshManager.pending,
            !.view[n] = {}, !.devices[n] = {}]

\* leave_room_voice, naming node n: the leave goes to every node, and counts on
\* those that list m in voice (handle_sfu_leave).  When the chat on n stays open
\* the keys are kept and m subscribes, in a message behind the leave.
LeaveVoice(m, n) ==
  LET keep == n \in inChat[m]
      left == {k \in Nodes : m \in voice[k]}
  IN
  /\ changes < MaxChanges
  /\ n \in inVoice[m] /\ \A k \in left : Idle(k, m)
  /\ inVoice' = [inVoice EXCEPT ![m] = {}]
  /\ voice' = [k \in Nodes |-> voice[k] \ {m}]
  /\ task' = [k \in Nodes |-> [task[k] EXCEPT ![m] =
       IF k \notin left THEN @ ELSE IF keep /\ k = n THEN "readThenSubscribe" ELSE "read"]]
  /\ sending' = [k \in Nodes |-> [sending[k] EXCEPT ![m] =
       IF k \in left THEN Edges("left", m, voice[k]) ELSE @]]
  /\ mgr' = IF keep THEN mgr ELSE [mgr EXCEPT ![m] = Forget(@, n)]
  /\ changes' = changes + 1
  /\ UNCHANGED <<chat, raced, inbox, inChat, net, air, minted, restarts>>

\* handle_sfu_subscribe, for the subscription behind a leave.
ServeSubscribe(n, m) ==
  /\ task[n][m] = "subscribe" /\ sending[n][m] = {}
  /\ chat' = [chat EXCEPT ![n] = @ \cup {m}]
  /\ task' = [task EXCEPT ![n][m] = "read"]
  /\ UNCHANGED <<voice, sending, raced, inbox, inVoice, inChat, mgr, net, air, minted,
                 changes, restarts>>

\* UnsubscribeRoomChat and handle_sfu_unsubscribe: the keys are kept while n is
\* `here', the node m takes part on by voice (current_supernode_id; of several
\* it has joined, the last).
Unsubscribe(m, n, here) ==
  /\ changes < MaxChanges
  /\ n \in inChat[m] /\ Idle(n, m)
  /\ here => n \in inVoice[m]
  /\ inVoice[m] = {n} => here
  /\ inChat' = [inChat EXCEPT ![m] = @ \ {n}]
  /\ chat' = [chat EXCEPT ![n] = @ \ {m}]
  /\ task' = [task EXCEPT ![n][m] = "read"]
  /\ mgr' = IF here THEN mgr ELSE [mgr EXCEPT ![m] = Forget(@, n)]
  /\ changes' = changes + 1
  /\ UNCHANGED <<voice, sending, raced, inbox, inVoice, net, air, minted, restarts>>

\* The connection of m to n is lost: the client (InternalEvent::WsDisconnected)
\* forgets the devices n listed; it keeps its keys and its view, and joins or
\* subscribes again when it has reconnected (chat_active_rooms keeps the room
\* meanwhile, which nothing asks for while n is not there).
Disconnect(m, n) ==
  /\ changes < MaxChanges
  /\ n \in InRoom(m)
  /\ inVoice' = [inVoice EXCEPT ![m] = @ \ {n}]
  /\ inChat' = [inChat EXCEPT ![m] = @ \ {n}]
  /\ inbox' = [inbox EXCEPT ![n][m] = <<>>]
  /\ mgr' = [mgr EXCEPT ![m].devices[n] = {}]
  /\ changes' = changes + 1
  /\ UNCHANGED <<voice, chat, servers, net, air, minted, restarts>>

\* The supernode notices: on_endpoint_disconnected removes the device, and with
\* its only device the identity, so that on_peer_disconnected finds nothing left.
Expel(m, n) ==
  /\ Gone(n, m) /\ Idle(n, m)
  /\ voice' = [voice EXCEPT ![n] = @ \ {m}]
  /\ chat' = [chat EXCEPT ![n] = @ \ {m}]
  /\ task' = [task EXCEPT ![n][m] = "read"]
  /\ UNCHANGED <<sending, raced, inbox, inVoice, inChat, mgr, net, air, minted, changes, restarts>>

\* The client process stops and starts again: keys live in memory only.  Its
\* supernodes still list it until they notice (Expel) or it joins again.
Restart(m) ==
  /\ restarts < MaxRestarts
  /\ mgr' = [mgr EXCEPT ![m] = FreshManager]
  /\ inVoice' = [inVoice EXCEPT ![m] = {}]
  /\ inChat' = [inChat EXCEPT ![m] = {}]
  /\ inbox' = [n \in Nodes |-> [inbox[n] EXCEPT ![m] = <<>>]]
  /\ restarts' = restarts + 1
  /\ UNCHANGED <<voice, chat, servers, net, air, minted, changes>>

-----------------------------------------------------------------------------
(* The client's handlers. *)

Before(m) == [mgr |-> mgr[m], out |-> {}, minted |-> minted]

\* A handler of client m ends with result r.
Commit(m, r) ==
  /\ r.minted <= MaxKeys
  /\ mgr' = [mgr EXCEPT ![m] = r.mgr]
  /\ minted' = r.minted

\* SfuMembers, dropped when the room is not an active one.
SyncRosters(m, n, a, due) ==
  IF InRoom(m) = {} THEN Before(m)
  ELSE SyncRoomMembership(m, RecordRoomDevices(Before(m), n, a.set), n, a.set, due)

\* SfuPeerJoined and SfuPeerLeft: an edge changes the view, not the devices.
SyncEdge(m, n, a, due) ==
  LET seen == mgr[m].view[n] IN
  SyncRoomMembership(m, Before(m), n,
                     IF a.kind = "joined" THEN seen \cup {a.peer} ELSE seen \ {a.peer},
                     due)

\* The next announcement of node n.
HandleAnnouncement(m, n, due) ==
  /\ inbox[n][m] # <<>>
  /\ LET a == Head(inbox[n][m])
         r == IF a.kind = "members" THEN SyncRosters(m, n, a, due)
                                    ELSE SyncEdge(m, n, a, due)
     IN  Commit(m, r) /\ net' = net \cup r.out
  /\ inbox' = [inbox EXCEPT ![n][m] = Tail(@)]
  /\ UNCHANGED <<voice, chat, servers, inVoice, inChat, air, changes, restarts>>

\* SfuGroupKey: accept, install, stop asking, acknowledge.
HandleGroupKey(msg) ==
  LET m == msg.to
      r == Before(m)
  IN
  /\ msg.type = "key"
  /\ IF AcceptGroupKeyFrom(m, mgr[m], msg.from, msg.epoch)
     THEN /\ Commit(m, Then(r, [mgr[m] EXCEPT
                                  !.group = Install(@, msg.epoch, msg.key),
                                  !.asked = FALSE], {}))
          /\ net' = (net \ {msg}) \cup
                      {[type |-> "ack", from |-> m, to |-> msg.from,
                        epoch |-> msg.epoch, key |-> NoKey]}
     ELSE Commit(m, r) /\ net' = net \ {msg}
  /\ UNCHANGED <<voice, chat, servers, inbox, inVoice, inChat, air, changes, restarts>>

\* SfuGroupKeyAck.
HandleGroupKeyAck(msg) ==
  LET m == msg.to
      p == mgr[m].pending[msg.from]
  IN
  /\ msg.type = "ack"
  /\ mgr' = IF p.attempts > 0 /\ p.epoch = msg.epoch
              THEN [mgr EXCEPT ![m].pending[msg.from] = NoPending] ELSE mgr
  /\ net' = net \ {msg}
  /\ UNCHANGED <<voice, chat, servers, inbox, inVoice, inChat, air, minted, changes, restarts>>

\* SfuGroupKeyRequest: serve_group_key_request.
HandleGroupKeyRequest(msg) ==
  /\ msg.type = "request"
  /\ LET r == SealCurrentTo(msg.to, Before(msg.to), msg.from)
     IN  Commit(msg.to, r) /\ net' = (net \ {msg}) \cup r.out
  /\ UNCHANGED <<voice, chat, servers, inbox, inVoice, inChat, air, changes, restarts>>

\* Mutant: one attempt too many.
AbandonedLate(m, c) ==
  {p \in Members :
     /\ c.pending[p].attempts > 0
     /\ \/ p \notin Union(c)
        \/ ~IsKeyer(m, c)
        \/ c.pending[p].attempts > MaxAttempts}

\* The entries retry_pending_group_keys gives up on, before it looks at their
\* retry interval.
Abandoned(m, c) ==
  {p \in Members :
     /\ c.pending[p].attempts > 0
     /\ \/ p \notin Union(c)
        \/ ~IsKeyer(m, c)
        \/ c.pending[p].attempts >= MaxAttempts}

\* retry_pending_group_keys.  `due' are the entries whose retry interval has
\* passed.
RetryPendingGroupKeys(m) ==
  LET c       == mgr[m]
      open    == {p \in Members : c.pending[p].attempts > 0}
      drop    == Abandoned(m, c)
  IN
  \E due \in SUBSET (open \ drop) :
    LET gone == {p \in due : EpochKey(c.group, c.pending[p].epoch) = NoKey}
        sent == due \ gone
    IN
    /\ drop \cup due # {}
    /\ mgr' = [mgr EXCEPT ![m].pending = [p \in Members |->
         IF p \in drop \cup gone THEN NoPending
         ELSE IF p \in sent THEN Attempt(@[p], @[p].epoch)
         ELSE @[p]]]
    /\ net' = net \cup {[type |-> "key", from |-> m, to |-> p,
                          epoch |-> c.pending[p].epoch,
                          key |-> EpochKey(c.group, c.pending[p].epoch)] : p \in sent}
    /\ UNCHANGED <<voice, chat, servers, inbox, inVoice, inChat, air, minted, changes, restarts>>

\* retry_group_key_requests, on the same timer.
RetryGroupKeyRequests(m, due) ==
  LET r == RequestGroupKey(m, Before(m), due) IN
  /\ Commit(m, r)
  /\ net' = net \cup r.out
  /\ UNCHANGED <<voice, chat, servers, inbox, inVoice, inChat, air, changes, restarts>>

\* may_send_room_e2e_content and seal_media_frame: nothing is sent without a
\* real key, nor when the current epoch has none.
SendFrame(m) ==
  LET g == mgr[m].group
      f == [epoch |-> CurrentEpoch(g), key |-> EpochKey(g, CurrentEpoch(g))]
  IN
  /\ m \in Speakers
  /\ InRoom(m) # {}
  /\ HasKeys(g) /\ f.key # NoKey
  /\ air[m] # f
  /\ air' = [air EXCEPT ![m] = f]
  /\ UNCHANGED <<voice, chat, servers, inbox, inVoice, inChat, mgr, net, minted, changes, restarts>>

\* A frame of p reaches m through a node that lists both: it opens exactly
\* when m holds the same key under the frame's epoch.
HearFrame(m, p, due, old) ==
  LET f == air[p]
      r == IF mgr[m].group.keys[f.epoch] = f.key
             THEN ResealToLaggingMember(m, Before(m), p, f.epoch, old)
             ELSE OnUnopenable(m, Before(m), p, f.epoch, due, old)
  IN
  /\ m # p
  /\ f.key # NoKey
  /\ \E n \in Nodes : {m, p} \subseteq Roster(n) /\ n \in InRoom(m)
  /\ Commit(m, r)
  /\ net' = net \cup r.out
  /\ UNCHANGED <<voice, chat, servers, inbox, inVoice, inChat, air, changes, restarts>>

\* A sealed signal is lost.
Lose(msg) ==
  /\ Lossy
  /\ net' = net \ {msg}
  /\ UNCHANGED <<voice, chat, servers, inbox, inVoice, inChat, mgr, air, minted, changes, restarts>>

-----------------------------------------------------------------------------
Init ==
  /\ voice = [n \in Nodes |-> {}]
  /\ chat = [n \in Nodes |-> {}]
  /\ task = [n \in Nodes |-> [m \in Members |-> "idle"]]
  /\ sending = [n \in Nodes |-> [m \in Members |-> {}]]
  /\ raced = [n \in Nodes |-> FALSE]
  /\ inbox = [n \in Nodes |-> [m \in Members |-> <<>>]]
  /\ inVoice = [m \in Members |-> {}]
  /\ inChat = [m \in Members |-> {}]
  /\ mgr = [m \in Members |-> FreshManager]
  /\ net = {}
  /\ air = [m \in Members |-> NoFrame]
  /\ minted = 0
  /\ changes = 0
  /\ restarts = 0

Membership(m) ==
  \/ \E n \in Nodes :
       \/ JoinVoice(m, n) \/ LeaveVoice(m, n)
       \/ Subscribe(m, n) \/ \E here \in BOOLEAN : Unsubscribe(m, n, here)
       \/ Disconnect(m, n) \/ Expel(m, n)
  \/ Restart(m)

\* The supernode's task goes on.
Serve(n, h) == ReadRoster(n, h) \/ SendAnnouncement(n, h) \/ ServeSubscribe(n, h)

Deliver(msg) ==
  HandleGroupKey(msg) \/ HandleGroupKeyAck(msg) \/ HandleGroupKeyRequest(msg)

Timers(m) ==
  \/ RetryPendingGroupKeys(m)
  \/ \E due \in BOOLEAN : RetryGroupKeyRequests(m, due)

Next ==
  \/ \E m \in Members :
       \/ Membership(m)
       \/ \E n \in Nodes : Serve(n, m)
       \/ \E n \in Nodes, due \in BOOLEAN : HandleAnnouncement(m, n, due)
       \/ Timers(m)
       \/ SendFrame(m)
       \/ \E p \in Members, due, old \in BOOLEAN : HearFrame(m, p, due, old)
  \/ \E msg \in net : Deliver(msg) \/ Lose(msg)

Spec == Init /\ [][Next]_vars

-----------------------------------------------------------------------------
(* Properties. *)

\* Every variable keeps its type.
TypeOK ==
  /\ voice \in [Nodes -> SUBSET Members]
  /\ chat \in [Nodes -> SUBSET Members]
  /\ task \in [Nodes -> [Members -> Tasks]]
  /\ sending \in [Nodes -> [Members -> SUBSET Outgoing]]
  /\ raced \in [Nodes -> BOOLEAN]
  /\ inbox \in [Nodes -> [Members -> Seq(Announcement)]]
  /\ inVoice \in [Members -> SUBSET Nodes]
  /\ inChat \in [Members -> SUBSET Nodes]
  /\ mgr \in [Members -> Manager]
  /\ net \subseteq Message
  /\ air \in [Members -> Frame]
  /\ minted \in 0 .. MaxKeys
  /\ changes \in 0 .. MaxChanges
  /\ restarts \in 0 .. MaxRestarts

\* So few keys are minted that epochs do not wrap around, and a rollback is
\* told from an advance: 192 keys in the code.
NoWrap == MaxKeys + MaxAdvance <= EpochMod

\* A client that holds real key material can seal under its current epoch: the
\* eviction at the end of GroupState::install never drops the epoch that was
\* just made current.
CurrentKeyHeld ==
  \A m \in Members :
    HasKeys(mgr[m].group) => mgr[m].group.current \in Held(mgr[m].group.keys)

\* While a client keeps its key state, the epoch it seals under never moves
\* back, whichever keyers offered it keys and in whichever order they arrived.
EpochNeverRollsBack ==
  [][\A m \in Members :
       HasKeys(mgr[m].group) /\ HasKeys(mgr'[m].group)
         => mgr'[m].group.current >= mgr[m].group.current]_vars

\* Every distribution still waiting for its acknowledgement is within its
\* attempts, and for an epoch its keyer has not gone past without noticing.
PendingWithinAttempts ==
  \A m, p \in Members :
    LET q == mgr[m].pending[p] IN
    q.attempts > 0 => /\ q.attempts <= MaxAttempts
                      /\ p # m
                      /\ q.epoch <= mgr[m].group.current

\* Only the elected keyer has distributions outstanding, and only to members it
\* still lists: losing the election, or a member, ends them at once
\* (sync_room_membership), not at the next tick of the retry timer.
OnlyKeyerDistributes ==
  \A m, p \in Members :
    mgr[m].pending[p].attempts > 0
      => IsElectedKeyer(m, mgr[m]) /\ p \in Union(mgr[m])

\* Every task of node n is done, and client m has handled what they sent it.
Told(n, m) == (\A h \in Members : Idle(n, h)) /\ inbox[n][m] = <<>>

\* A client that has handled everything a node announced to it sees exactly the
\* node's roster, however many announcements overtook each other before: edges
\* (SfuPeerJoined, SfuPeerLeft) and whole rosters (SfuMembers) add up.  What this
\* needs is that, when the roster was read for the last time, no other task had an
\* older one still to send, which could then be the last a client gets: the lock
\* of the rooms is released between reading and sending (broadcast_sfu_members).
ViewCatchesUp ==
  \A n \in Nodes : \A m \in Roster(n) :
    n \in InRoom(m) /\ Told(n, m) /\ ~raced[n] => mgr[m].view[n] = Roster(n) \ {m}

\* Nothing is on its way and nobody waits for anything: every announcement has
\* been handled, every seal acknowledged or given up on, no request is open,
\* and everybody the nodes list is there.
Quiet ==
  /\ net = {}
  /\ \A n \in Nodes, m \in Members : Told(n, m)
  /\ \A n \in Nodes : ~raced[n]
  /\ \A m, p \in Members : mgr[m].pending[p] = NoPending
  /\ \A m \in Members : ~mgr[m].asked
  /\ \A n \in Nodes : \A m \in Roster(n) : n \in InRoom(m)

\* Once the room is quiet, two keyed members at the same epoch hold the same
\* key: "members never disagree on who keys or race competing epochs once they
\* share a view" (room_session.rs, sync_room_membership).
QuietAgreement ==
  Quiet => \A n \in Nodes : \A m, p \in Roster(n) :
    LET g == mgr[m].group
        h == mgr[p].group
    IN  HasKeys(g) /\ HasKeys(h) /\ g.current = h.current
          => EpochKey(g, g.current) = EpochKey(h, h.current)

-----------------------------------------------------------------------------
(* Liveness.  The manager's run loop serves its inbox and its 750 ms timer;  *)
(* a signal that is sent again and again gets through.  Nobody is obliged to *)
(* talk, to join or to leave.  The first conjunct is weak fairness written    *)
(* out: an announcement can be handled whenever there is one.                *)

ToMember(m) == {msg \in net : msg.to = m}

Fairness ==
  \A m \in Members :
    /\ \A n \in Nodes :
         /\ WF_vars(Serve(n, m))
         /\ \/ []<>(inbox[n][m] = <<>>)
            \/ []<><<\E due \in BOOLEAN : HandleAnnouncement(m, n, due)>>_vars
    /\ WF_vars(RetryPendingGroupKeys(m))
    /\ WF_vars(RetryGroupKeyRequests(m, TRUE))
    /\ SF_vars(\E msg \in ToMember(m) : HandleGroupKey(msg))
    /\ SF_vars(\E msg \in ToMember(m) : HandleGroupKeyRequest(msg))

FairSpec == Spec /\ Fairness

\* Everybody the nodes list is there, no rosters overtook each other at the end,
\* and the bound on keys is not in the way.
Settled ==
  /\ \A n \in Nodes : \A m \in Roster(n) : n \in InRoom(m)
  /\ \A n \in Nodes : ~raced[n]
  /\ minted < MaxKeys

\* Every member of a room of two or more holds a real key.
AllKeyed ==
  \A n \in Nodes : \A m \in Roster(n) : Roster(n) = {m} \/ HasKeys(mgr[m].group)

\* If the membership settles, every member of a room of two or more ends up with
\* a real key, though seals and requests are lost, distribution gives up after
\* MaxAttempts and clients restart: the request is what makes "the recovery
\* eventual" (room_session.rs, retry_group_key_requests).
EventuallyKeyed == <>[]Settled => <>[]AllKeyed

=============================================================================
