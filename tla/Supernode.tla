------------------------------ MODULE Supernode ------------------------------
(***************************************************************************)
(* One room of one supernode, and the connections of its clients: the room *)
(* handlers of doubleslash-supernode/src/main.rs and the registration and  *)
(* cleanup of connections in signaling.rs.                                 *)
(*                                                                         *)
(* Every connection is served by a task of its own, and the tasks run in   *)
(* parallel.  The rooms and the routing tables are each behind a lock that *)
(* a handler takes, for one call, several times.  So a handler is a        *)
(* sequence of steps, `todo', each of them one locked section, and steps   *)
(* of different connections interleave.  The room has one definition, which *)
(* all clients hold: its creator and whether it is private.                *)
(***************************************************************************)
EXTENDS SfuRoom, Sequences

CONSTANTS
  Conns,       \* connections, each used once
  EndOf,       \* EndOf[c]: the endpoint that opens it
  KindOf,      \* KindOf[c]: "ws" or "quic", the relay's signalling stream
  Creator,     \* the creator in the room's definition
  Private,     \* its type
  NoConn,      \* no connection
  Messages,    \* the messages clients send, each as the steps of its handler
  MaxCommands  \* bound: messages the clients send

ASSUME ConnsAssumption ==
  EndOf \in [Conns -> Endpoints] /\ KindOf \in [Conns -> {"ws", "quic"}]
ASSUME NoConnAssumption == NoConn \notin Conns
ASSUME CreatorAssumption == Creator \in Identities /\ Private \in BOOLEAN
ASSUME MaxCommandsAssumption == MaxCommands \in Nat

VARIABLES
  room,       \* the room, NoRoom when the manager does not have it
  status,     \* status[c]: "new", "open", or "closed", which ends with its todo
  todo,       \* todo[c]: the locked steps the task of c still has to take
  route,      \* route[k][e]: the connection registered for e (peer_sockets, quic_senders)
  connected,  \* connected_count
  view,       \* view[e]: the key group as the client at e was last told
  joined,     \* joined[c]: a voice join of c was accepted, and c has not left since
  commands    \* counter behind MaxCommands

vars == <<room, status, todo, route, connected, view, joined, commands>>

Kinds == {"ws", "quic"}
IdOf(c) == EndOf[c][1]

\* A step that reads or writes under a lock, and a step that sends `kind' about
\* `peer', or a roster, to the identities in `to', one at a time.
Do(step)   == [step |-> step, kind |-> "", peer |-> {}, to |-> {}]
Send(kind, peer, to) ==
  IF to = {} THEN <<>>
  ELSE <<[step |-> "send", kind |-> kind, peer |-> peer, to |-> to]>>

Steps ==
  {"materialise", "admit", "create", "createWithToken", "allow",
   "join", "first", "broadcast", "leaving", "leave", "subscribe", "unsubscribe",
   "audio", "dropEndpoint", "dropPeer", "dropPeerIfGone"}

Item ==
  [step : Steps \cup {"send"}, kind : {"", "members", "joined", "left"},
   peer : SUBSET Identities, to : SUBSET Identities]

Registered(e) == \E k \in Kinds : route[k][e] # NoConn

\* contains_key: some endpoint of the identity has a route in that table.
HasRoute(rt, k, i) == \E e \in Endpoints : e[1] = i /\ rt[k][e] # NoConn

-----------------------------------------------------------------------------
(* Connections. *)

\* The signalling half of DeviceRoutes::register_device: a new device of an
\* identity that has its devices connected is refused.
AtRouteLimit(k, e) ==
  /\ e[2] # 0 /\ route[k][e] = NoConn
  /\ Cardinality({d \in Endpoints : d[1] = e[1] /\ d[2] # 0 /\ route[k][d] # NoConn})
       >= MaxRoutes

\* Mutant: a reconnect counts as one more client.
ConnectCounting(c) ==
  LET e == EndOf[c]
      k == KindOf[c]
  IN
  /\ status[c] = "new"
  /\ ~AtRouteLimit(k, e)
  /\ status' = [status EXCEPT ![c] = "open"]
  /\ route' = [route EXCEPT ![k][e] = c]
  /\ connected' = connected + 1
  /\ UNCHANGED <<room, todo, view, joined, commands>>

\* The first message of a connection registers it, in place of an older one of
\* the same endpoint (handle_ws_connection, register_quic_sender).  A refused
\* connection ends and has nothing to clean up.
Connect(c) ==
  LET e == EndOf[c]
      k == KindOf[c]
  IN
  /\ status[c] = "new"
  /\ IF AtRouteLimit(k, e)
       THEN status' = [status EXCEPT ![c] = "closed"] /\ UNCHANGED <<route, connected>>
       ELSE /\ status' = [status EXCEPT ![c] = "open"]
            /\ route' = [route EXCEPT ![k][e] = c]
            /\ connected' = IF k = "ws" /\ ~HasRoute(route, "ws", e[1])
                              THEN connected + 1 ELSE connected
  /\ UNCHANGED <<room, todo, view, joined, commands>>

\* Mutant: every socket that goes counts as a client that goes.
CloseCountingSockets(c) ==
  LET e     == EndOf[c]
      mine  == route["ws"][e] = c
      after == IF mine THEN [route EXCEPT !["ws"][e] = NoConn] ELSE route
      gone  == mine /\ ~HasRoute(after, "ws", e[1])
  IN
  /\ status[c] = "open" /\ todo[c] = <<>> /\ KindOf[c] = "ws"
  /\ status' = [status EXCEPT ![c] = "closed"]
  /\ route' = after
  /\ connected' = IF mine THEN connected - 1 ELSE connected
  /\ todo' = [todo EXCEPT ![c] =
       (IF mine /\ route["quic"][e] = NoConn THEN <<Do("dropEndpoint")>> ELSE <<>>)
         \o (IF gone /\ ~HasRoute(after, "quic", e[1])
               THEN <<Do("dropPeer")>> ELSE <<>>)]
  /\ UNCHANGED <<room, view, joined, commands>>

\* Mutant: the route is removed without a look at whose it is.
CloseAnyRoute(c) ==
  LET e     == EndOf[c]
      mine  == route["ws"][e] = c
      after == [route EXCEPT !["ws"][e] = NoConn]
      gone  == mine /\ ~HasRoute(after, "ws", e[1])
  IN
  /\ status[c] = "open" /\ todo[c] = <<>> /\ KindOf[c] = "ws"
  /\ status' = [status EXCEPT ![c] = "closed"]
  /\ route' = after
  /\ connected' = IF gone /\ connected > 0 THEN connected - 1 ELSE connected
  /\ todo' = [todo EXCEPT ![c] =
       (IF mine /\ route["quic"][e] = NoConn THEN <<Do("dropEndpoint")>> ELSE <<>>)
         \o (IF gone /\ ~HasRoute(after, "quic", e[1])
               THEN <<Do("dropPeer")>> ELSE <<>>)]
  /\ UNCHANGED <<room, view, joined, commands>>

\* The read loop ends: the end of handle_ws_connection, and unregister_quic_sender.
\* The route is removed if it is still this connection's; what has to be removed
\* from the room is decided now and done later, without the lock.
CloseWs(c) ==
  LET e     == EndOf[c]
      mine  == route["ws"][e] = c
      after == IF mine THEN [route EXCEPT !["ws"][e] = NoConn] ELSE route
      gone  == mine /\ ~HasRoute(after, "ws", e[1])
  IN
  /\ status[c] = "open" /\ todo[c] = <<>> /\ KindOf[c] = "ws"
  /\ status' = [status EXCEPT ![c] = "closed"]
  /\ route' = after
  /\ connected' = IF gone /\ connected > 0 THEN connected - 1 ELSE connected
  /\ todo' = [todo EXCEPT ![c] =
       (IF mine /\ route["quic"][e] = NoConn THEN <<Do("dropEndpoint")>> ELSE <<>>)
         \o (IF gone /\ ~HasRoute(after, "quic", e[1])
               THEN <<Do("dropPeer")>> ELSE <<>>)]
  /\ UNCHANGED <<room, view, joined, commands>>

\* Mutant: the end of the relay's stream never reaches the room.
CloseQuicSilently(c) ==
  LET e    == EndOf[c]
      mine == route["quic"][e] = c
  IN
  /\ status[c] = "open" /\ todo[c] = <<>> /\ KindOf[c] = "quic"
  /\ status' = [status EXCEPT ![c] = "closed"]
  /\ route' = IF mine THEN [route EXCEPT !["quic"][e] = NoConn] ELSE route
  /\ UNCHANGED <<room, todo, connected, view, joined, commands>>

CloseQuic(c) ==
  LET e    == EndOf[c]
      mine == route["quic"][e] = c
  IN
  /\ status[c] = "open" /\ todo[c] = <<>> /\ KindOf[c] = "quic"
  /\ status' = [status EXCEPT ![c] = "closed"]
  /\ route' = IF mine THEN [route EXCEPT !["quic"][e] = NoConn] ELSE route
  /\ todo' = [todo EXCEPT ![c] =
       IF mine /\ route["ws"][e] = NoConn
         THEN <<Do("dropEndpoint"), Do("dropPeerIfGone")>> ELSE <<>>]
  /\ UNCHANGED <<room, connected, view, joined, commands>>

-----------------------------------------------------------------------------
(* Messages.  A message starts its handler; the steps of each handler are in *)
(* the order in which it takes the lock.                                     *)

\* try_space_admission: no Space proof, one without a grant, one that admits.
SpaceProof == {<<>>, <<"materialise">>, <<"materialise", "admit">>}

\* An invite token, or none.
InviteToken == {<<>>, <<"allow">>}

\* SfuRoomCreate, SfuRoomInvite (whose token counts if the proof does not admit),
\* SfuJoin, SfuLeave, SfuSubscribe, SfuUnsubscribe and SfuAudio.
Handlers ==
  {<<"create">>, <<"createWithToken">>}
  \cup {<<"allow">>, <<"materialise", "allow">>} \cup (SpaceProof \ {<<>>})
  \cup {s \o t \o <<"join">> : s \in SpaceProof, t \in InviteToken}
  \cup {<<"leaving">>, <<"subscribe">>, <<"unsubscribe">>, <<"audio">>}

ASSUME MessagesAssumption == Messages \subseteq Handlers

Receive(c, h) ==
  /\ commands < MaxCommands
  /\ status[c] = "open" /\ todo[c] = <<>> /\ KindOf[c] = "ws"
  /\ todo' = [todo EXCEPT ![c] = [n \in DOMAIN h |-> Do(h[n])]]
  /\ commands' = commands + 1
  /\ UNCHANGED <<room, status, route, connected, view, joined>>

-----------------------------------------------------------------------------
(* The steps.  The task of c takes the step at the head of its todo, and     *)
(* goes on with `more' and then with the rest.                               *)

Take(c, step) == todo[c] # <<>> /\ Head(todo[c]).step = step

Become(c, r, more) ==
  /\ room' = r
  /\ todo' = [todo EXCEPT ![c] = more \o Tail(@)]

Others == <<status, route, connected, view, commands>>

\* try_space_admission: create the proven room, and adopt its owner as creator.
Materialise(c) ==
  /\ Take(c, "materialise")
  /\ Become(c, IF room.exists
                 THEN [room EXCEPT !.creator = IF @ = NoOne THEN Creator ELSE @]
                 ELSE NewRoom(Private, Creator), <<>>)
  /\ UNCHANGED <<joined, Others>>

\* local_allow_room_peer: the room is created again, without a creator, if it has
\* gone in the meantime.
Admit(c) ==
  /\ Take(c, "admit")
  /\ Become(c, AllowPeer(IF room.exists THEN room ELSE NewRoom(Private, NoOne), IdOf(c)),
            <<>>)
  /\ UNCHANGED <<joined, Others>>

\* handle_sfu_room_create: into a private room goes whoever has a token, its
\* creator, and whoever brought it into being.
Create(c, step) ==
  LET r == IF room.exists THEN room ELSE NewRoom(Private, Creator) IN
  /\ Take(c, step)
  /\ Become(c, r,
            IF Private /\ (\/ step = "createWithToken"
                           \/ IdOf(c) \in {r.creator, Creator}
                           \/ ~room.exists)
              THEN <<Do("allow")>> ELSE <<>>)
  /\ UNCHANGED <<joined, Others>>

\* allow_peer, and validate_and_consume_token of a token just registered again.
Allow(c) ==
  /\ Take(c, "allow")
  /\ Become(c, IF room.exists THEN AllowPeer(room, IdOf(c)) ELSE room, <<>>)
  /\ UNCHANGED <<joined, Others>>

\* Mutant: a private room is open to everybody.
JoinAnyone(c) ==
  LET ok == room.exists /\ ~Refused(room, EndOf[c], "set")
      r  == IF ok THEN SetDeviceMembership(room, EndOf[c], "set", "keep") ELSE room
  IN
  /\ Take(c, "join")
  /\ Become(c, r, IF ok THEN <<Do("first")>>
                             \o Send("joined", {IdOf(c)}, r.participants \ {IdOf(c)})
                             \o <<Do("broadcast")>>
                        ELSE <<>>)
  /\ joined' = [joined EXCEPT ![c] = @ \/ ok]
  /\ UNCHANGED Others

\* join_room_endpoint.  The announcements that follow take their recipients
\* from this step, and their rosters from later ones.
Join(c) ==
  LET ok == /\ room.exists
            /\ IsPeerAllowed(room, IdOf(c))
            /\ ~Refused(room, EndOf[c], "set")
      r  == IF ok THEN SetDeviceMembership(room, EndOf[c], "set", "keep") ELSE room
  IN
  /\ Take(c, "join")
  /\ Become(c, r, IF ok THEN <<Do("first")>>
                             \o Send("joined", {IdOf(c)}, r.participants \ {IdOf(c)})
                             \o <<Do("broadcast")>>
                        ELSE <<>>)
  /\ joined' = [joined EXCEPT ![c] = @ \/ ok]
  /\ UNCHANGED Others

\* is_endpoint_in_voice: a leave elsewhere ends the handler.
Leaving(c) ==
  /\ Take(c, "leaving")
  /\ Become(c, room, IF EndOf[c] \in room.voiceDev THEN <<Do("leave")>> ELSE <<>>)
  /\ UNCHANGED <<joined, Others>>

\* leave_room_endpoint.
Leave(c) ==
  LET r == IF room.exists
             THEN MarkUnusedIfEmpty(SetDeviceMembership(room, EndOf[c], "clear", "keep"))
             ELSE room
  IN
  /\ Take(c, "leave")
  /\ Become(c, DropIfAnonymous(r),
            (IF IdOf(c) \in r.participants THEN <<>>
             ELSE Send("left", {IdOf(c)}, r.participants)) \o <<Do("broadcast")>>)
  /\ joined' = [joined EXCEPT ![c] = FALSE]
  /\ UNCHANGED Others

\* subscribe_endpoint and unsubscribe_endpoint.
SfuSubscribe(c) ==
  LET ok == /\ room.exists
            /\ IsPeerAllowed(room, IdOf(c))
            /\ ~Refused(room, EndOf[c], "keep")
  IN
  /\ Take(c, "subscribe")
  /\ Become(c, IF ok THEN SetDeviceMembership(room, EndOf[c], "keep", "set") ELSE room,
            IF ok THEN <<Do("broadcast")>> ELSE <<>>)
  /\ UNCHANGED <<joined, Others>>

SfuUnsubscribe(c) ==
  /\ Take(c, "unsubscribe")
  /\ Become(c, IF room.exists
                 THEN SetDeviceMembership(room, EndOf[c], "keep", "clear") ELSE room,
            <<Do("broadcast")>>)
  /\ UNCHANGED <<joined, Others>>

\* audio_forward_targets, whoever sends.
Audio(c) ==
  /\ Take(c, "audio")
  /\ \E silent \in SUBSET (room.tracked \ {IdOf(c)}) :
       \E r \in IF room.exists THEN Forwarded(NoteAudio(room, IdOf(c), silent), IdOf(c))
                               ELSE {room} :
         Become(c, r, <<>>)
  /\ UNCHANGED <<joined, Others>>

\* on_endpoint_disconnected.
DropEndpoint(c) ==
  LET there == EndOf[c] \in DeviceMembers(room) IN
  /\ Take(c, "dropEndpoint")
  /\ Become(c, IF there THEN SetDeviceMembership(room, EndOf[c], "clear", "clear") ELSE room,
            IF there THEN <<Do("broadcast")>> ELSE <<>>)
  /\ UNCHANGED <<joined, Others>>

\* on_peer_disconnected; the relay's stream looks first whether the identity has
\* connected again.
DropPeer(c, step) ==
  LET i     == IdOf(c)
      there == i \in ChatRecipients(room)
      r     == IF there THEN RemovePeerEntirely(room, i) ELSE room
  IN
  /\ Take(c, step)
  /\ IF step = "dropPeerIfGone" /\ \E k \in Kinds : HasRoute(route, k, i)
       THEN Become(c, room, <<>>)
       ELSE Become(c, IF there THEN DropIfAnonymous(r) ELSE room,
                   IF there THEN Send("left", {i}, r.participants) \o <<Do("broadcast")>>
                            ELSE <<>>)
  /\ UNCHANGED <<joined, Others>>

\* The roster is read: for the joiner alone, or for everybody on it
\* (broadcast_sfu_members).
ReadRoster(c) ==
  LET roster == ChatRecipients(room) IN
  \/ Take(c, "first")
     /\ Become(c, room, Send("members", roster, {IdOf(c)}))
     /\ UNCHANGED <<joined, Others>>
  \/ Take(c, "broadcast")
     /\ Become(c, room, Send("members", roster, roster))
     /\ UNCHANGED <<joined, Others>>

\* send_signed to one recipient, on every endpoint it is connected with.
Deliver(c, p) ==
  LET m == Head(todo[c]) IN
  /\ Take(c, "send") /\ p \in m.to
  /\ todo' = [todo EXCEPT ![c] = Send(m.kind, m.peer, m.to \ {p}) \o Tail(@)]
  /\ view' = [e \in Endpoints |->
       IF e[1] # p \/ ~Registered(e) THEN view[e]
       ELSE CASE m.kind = "members" -> m.peer
              [] m.kind = "joined"  -> view[e] \cup m.peer
              [] m.kind = "left"    -> view[e] \ m.peer]
  /\ UNCHANGED <<room, status, route, connected, joined, commands>>

-----------------------------------------------------------------------------
(* The collector of idle rooms (main.rs, once a minute). *)

\* IDLE_ROOM_GC_SECS pass.
TimePasses ==
  /\ room.empty = "recent"
  /\ room' = [room EXCEPT !.empty = "long"]
  /\ UNCHANGED <<status, todo, route, connected, view, joined, commands>>

\* gc_idle_rooms.
GcIdleRooms ==
  /\ room.exists /\ room.creator # NoOne /\ room.empty = "long"
  /\ room' = NoRoom
  /\ UNCHANGED <<status, todo, route, connected, view, joined, commands>>

-----------------------------------------------------------------------------
(* The cluster. *)

\* apply_room_roster: a sibling supernode advertises the room, which is created if
\* this one does not have it.
ApplyRoomRoster ==
  /\ ~room.exists
  /\ room' = NewRoom(Private, Creator)
  /\ UNCHANGED <<status, todo, route, connected, view, joined, commands>>

-----------------------------------------------------------------------------
Init ==
  /\ room = NoRoom
  /\ status = [c \in Conns |-> "new"]
  /\ todo = [c \in Conns |-> <<>>]
  /\ route = [k \in Kinds |-> [e \in Endpoints |-> NoConn]]
  /\ connected = 0
  /\ view = [e \in Endpoints |-> {}]
  /\ joined = [c \in Conns |-> FALSE]
  /\ commands = 0

Handle(c) ==
  \/ Materialise(c) \/ Admit(c) \/ Allow(c)
  \/ \E step \in {"create", "createWithToken"} : Create(c, step)
  \/ Join(c) \/ Leaving(c) \/ Leave(c)
  \/ SfuSubscribe(c) \/ SfuUnsubscribe(c) \/ Audio(c)
  \/ DropEndpoint(c)
  \/ \E step \in {"dropPeer", "dropPeerIfGone"} : DropPeer(c, step)
  \/ ReadRoster(c)
  \/ \E p \in Identities : Deliver(c, p)

Next ==
  \/ \E c \in Conns :
       \/ Connect(c) \/ CloseWs(c) \/ CloseQuic(c)
       \/ \E h \in Messages : Receive(c, h)
       \/ Handle(c)
  \/ TimePasses
  \/ GcIdleRooms
  \/ ApplyRoomRoster

Spec == Init /\ [][Next]_vars

-----------------------------------------------------------------------------
(* Properties. *)

\* Every variable keeps its type.
TypeOK ==
  /\ room \in Room
  /\ status \in [Conns -> {"new", "open", "closed"}]
  /\ todo \in [Conns -> Seq(Item)]
  /\ route \in [Kinds -> [Endpoints -> Conns \cup {NoConn}]]
  /\ connected \in Nat
  /\ view \in [Endpoints -> SUBSET Identities]
  /\ joined \in [Conns -> BOOLEAN]
  /\ commands \in 0 .. MaxCommands

\* The two rosters of identities and the devices they are made of never drift
\* apart, whatever the order of joins, leaves, refusals and disconnects of an
\* identity's devices: an identity is a participant exactly while one of its
\* devices is in voice, and a subscriber exactly while one only has chat.
RosterMirrorsDevices ==
  /\ room.participants = IdsOf(room.voiceDev)
  /\ room.subscribers = IdsOf(room.chatDev) \ IdsOf(room.voiceDev)

\* The room is marked as empty exactly while nobody is in it, so the collector
\* takes no room in use and overlooks none that is not.
EmptyMarkExact ==
  room.exists => (room.empty # "no" <=> IsUnused(room))

\* A private room lists nobody who was not admitted since it came into being,
\* though it may have been collected and created again within a handler.
OnlyAdmitted ==
  room.private => ChatRecipients(room) \subseteq room.allowed \cup {room.creator}

\* The limits hold whichever way devices come in and out: MAX_ROOM_SIZE
\* participants, MAX_LIVE_DEVICE_ROUTES devices of an identity, and
\* MAX_ACTIVE_SPEAKERS forwarded speakers, each with a score.
WithinLimits ==
  /\ Cardinality(room.participants) <= MaxRoomSize
  /\ Cardinality(room.active) <= MaxSpeakers /\ room.active \subseteq room.tracked
  /\ \A i \in Identities :
       Cardinality({e \in DeviceMembers(room) : e[1] = i /\ e[2] # 0}) <= MaxRoutes

\* "Rooms with at most this many concurrent talkers are unaffected" (sfu.rs,
\* MAX_ACTIVE_SPEAKERS): a frame is dropped only if more than that many speak.
SpeakersUnaffected ==
  [][\A c \in Conns :
       Audio(c) /\ room.exists /\ IdOf(c) \notin room'.active
         => Cardinality(room'.tracked) > MaxSpeakers]_vars

\* connected_count is the number of identities with a socket.
ConnectedCountExact ==
  connected = Cardinality({i \in Identities : HasRoute(route, "ws", i)})

\* A device is in the room that is not connected, and no task is about to take it
\* out: it stays there until somebody collects it.
Ghost(e) ==
  /\ e \in DeviceMembers(room) /\ ~Registered(e)
  /\ ~\E c \in Conns : EndOf[c] = e /\ Take(c, "dropEndpoint")

\* No ghosts.  Both transports of a device have to be gone, in either order, before
\* it is taken out, and then it must be.
NoGhost == \A e \in Endpoints : ~Ghost(e)

\* A connection whose endpoint has registered another in its place.
Replaced(c) == status[c] = "open" /\ route[KindOf[c]][EndOf[c]] # c

\* With reconnects, too, a device becomes a ghost in one way only: the task of a
\* connection that was replaced serves a join or a subscription it still had, when
\* the replacement is gone already.  No close, cleanup or reconnect, in whichever
\* order the sockets and streams of a device come and go, leaves one behind.
GhostsOnlyFromReplaced ==
  [][\A e \in Endpoints : Ghost(e)' /\ ~Ghost(e) =>
       \E c \in Conns : EndOf[c] = e /\ Replaced(c) /\ (Join(c) \/ SfuSubscribe(c))]_vars

\* A cleanup "must not remove the replacement or any sibling endpoint"
\* (signaling.rs): whoever joined on the connection it is registered with, and
\* has not left, is in the room.
LiveMembershipKept ==
  \A c \in Conns :
    joined[c] /\ route["ws"][EndOf[c]] = c => EndOf[c] \in room.voiceDev

=============================================================================
