---------------------------- MODULE RoomSession ----------------------------
(***************************************************************************)
(* The voice room of a client whose rooms live on a cluster of supernodes  *)
(* (connection_manager/manager/room_session.rs, inbound.rs, mod.rs): the   *)
(* join and its retries, the leave, and the failover to a sibling when the *)
(* node that hosts the room is lost.  One client, with one device, and the *)
(* members of one verified cluster, all of which it keeps sessions with.   *)
(*                                                                         *)
(* Joins, leaves and subscriptions travel on the WebSocket, in order.      *)
(* What a node sends prefers a QUIC stream and falls back to the socket    *)
(* message by message, and the manager reads the two from two channels: it *)
(* may arrive in any order, and after the manager saw the socket close.    *)
(*                                                                         *)
(* Left out: invites and space credentials, relays, video, room keys.      *)
(***************************************************************************)
EXTENDS Integers, Sequences

CONSTANTS
  Nodes,        \* members of the cluster
  Named,        \* the members by which the user interface names its rooms
  Rooms,
  Hosting,      \* Hosting[n]: rooms that n has when the client starts
  NoNode,       \* empty current_supernode_id
  NoRoom,       \* empty current_room_id, and None
  MaxAttempts,  \* ROOM_JOIN_MAX_ATTEMPTS
  MaxCommands,  \* bound: commands of the user interface
  MaxEvents,    \* bound: sockets lost, rosters announced, rooms new to a node, restarts
  MaxQueue      \* bound: messages under way to a node when a join is retried

ASSUME NodesAssumption == Named \subseteq Nodes /\ NoNode \notin Nodes
ASSUME RoomsAssumption == NoRoom \notin Rooms /\ Hosting \in [Nodes -> SUBSET Rooms]
ASSUME BoundsAssumption ==
  /\ MaxAttempts \in Nat /\ MaxCommands \in Nat /\ MaxEvents \in Nat
  /\ MaxQueue \in Nat

VARIABLES
  \* the manager
  online,       \* supernodes with connected = true
  curNode, curRoom,  \* current_supernode_id, current_room_id
  inProgress,   \* failover_in_progress
  pendingRoom,  \* failover_pending_room
  rejoin,       \* rejoin[n]: pending_failover_rejoin
  retry,        \* retry[n][r]: attempts in pending_room_join_retries, or -1
  chat,         \* chat_active_rooms
  \* the nodes
  hosts,        \* hosts[n]: rooms that n has
  voice,        \* voice[n]: rooms n lists the client in voice of
  subs,         \* subs[n]: rooms n lists it as a subscriber of
  up,           \* up[n]: the socket to n
  down,         \* what nodes sent and the manager has not handled
  \* history
  seat,         \* the current node, connected, has confirmed the current room
  left,         \* left[n]: rooms left while connected to n, not joined there since
  undisturbed,  \* no failover was under way when a join or leave was commanded, or
                \* when a retry made its room the current one
  commands, events  \* counters behind the bounds

manager == <<online, curNode, curRoom, inProgress, pendingRoom, rejoin, retry, chat>>
node == <<hosts, voice, subs>>
history == <<seat, left, undisturbed>>
counters == <<commands, events>>
vars == <<manager, node, up, down, history, counters>>

-----------------------------------------------------------------------------

\* live_room_route: the node itself, or a connected sibling.  Which sibling
\* depends on the order of the cluster's roster.  With none connected it is
\* the node, and the message is dropped.
Routes(n) == IF n \in online \/ online = {} THEN {n} ELSE online

Message(kind, r) == [kind |-> kind, room |-> r]
Members(n, r) == [kind |-> "members", from |-> n, room |-> r, reason |-> ""]
JoinResult(n, r, why) == [kind |-> "result", from |-> n, room |-> r, reason |-> why]

\* Messages of the client, to those of the nodes it is connected to.
\* dispatch_outbound puts a message into the session's queue of 64 frames with
\* try_send and drops it when the queue is full, which no caller looks at; here
\* a connected session has room for it.
SendTo(queues, nodes, m) ==
  [n \in Nodes |-> IF n \in nodes \cap online THEN Append(queues[n], m) ELSE queues[n]]

\* A join goes out to `nodes'.
SendJoin(nodes, r) ==
  /\ up' = SendTo(up, nodes, Message("join", r))
  /\ left' = [n \in Nodes |-> IF n \in nodes THEN left[n] \ {r} ELSE left[n]]

\* Rejoins that are armed for r are disarmed.
Disarmed(r) == [n \in Nodes |-> IF rejoin[n] = r THEN NoRoom ELSE rejoin[n]]

\* The retries for r are dropped.
WithoutRetries(r) == [n \in Nodes |-> [retry[n] EXCEPT ![r] = -1]]

NoPending(r) == IF pendingRoom = r THEN NoRoom ELSE pendingRoom

Event == events < MaxEvents /\ events' = events + 1

-----------------------------------------------------------------------------
(* What the user interface commands, at any time.  It names a room by a node *)
(* of the cluster, connected or not.                                         *)

Command == commands < MaxCommands /\ commands' = commands + 1

\* A failover waits for a confirmation, or for a node to come back.
FailingOver == pendingRoom # NoRoom \/ \E n \in Nodes : rejoin[n] # NoRoom

\* ConnectionCommand::JoinRoom.
JoinRoom(n, r) ==
  /\ Command
  /\ curNode' \in Routes(n)
  /\ curRoom' = r
  /\ chat' = chat \cup {<<n, r>>}
  /\ SendJoin({curNode'}, r)
  /\ seat' = FALSE
  /\ undisturbed' = (undisturbed /\ ~FailingOver)
  /\ UNCHANGED <<online, inProgress, pendingRoom, rejoin, retry, node, down,
                 events>>

\* Mutant: only today's route hears of the leave.
LeaveRoomOnRoute(n, r) ==
  /\ Command
  /\ undisturbed' = (undisturbed /\ ~FailingOver)
  /\ \E m \in Routes(n) :
       LET here == curRoom = r /\ (curNode = n \/ curNode \in online \cup {m})
           sent == SendTo(up, {m}, Message("leave", r))
       IN  /\ curRoom' = IF here THEN NoRoom ELSE curRoom
           /\ curNode' = IF here THEN NoNode ELSE curNode
           /\ seat' = (seat /\ ~here)
           /\ up' = IF <<n, r>> \in chat
                      THEN SendTo(sent, {m}, Message("subscribe", r)) ELSE sent
  /\ retry' = WithoutRetries(r)
  /\ left' = [m \in Nodes |-> IF m \in online THEN left[m] \cup {r} ELSE left[m]]
  /\ UNCHANGED <<online, inProgress, pendingRoom, rejoin, chat, node, down,
                 events>>

\* ConnectionCommand::LeaveRoom, leave_room_voice: the leave goes to every
\* connected member of the cluster, and the chat is subscribed to on the route
\* when it is wanted still.
LeaveRoom(n, r) ==
  /\ Command
  /\ undisturbed' = (undisturbed /\ ~FailingOver)
  /\ \E m \in Routes(n) :
       LET here == curRoom = r /\ (curNode = n \/ curNode \in online \cup {m})
           sent == SendTo(up, Nodes, Message("leave", r))
       IN  /\ curRoom' = IF here THEN NoRoom ELSE curRoom
           /\ curNode' = IF here THEN NoNode ELSE curNode
           /\ seat' = (seat /\ ~here)
           /\ up' = IF <<n, r>> \in chat
                      THEN SendTo(sent, {m}, Message("subscribe", r)) ELSE sent
  /\ retry' = WithoutRetries(r)
  /\ left' = [m \in Nodes |-> IF m \in online THEN left[m] \cup {r} ELSE left[m]]
  /\ UNCHANGED <<online, inProgress, pendingRoom, rejoin, chat, node, down,
                 events>>

\* ConnectionCommand::SubscribeRoomChat.
SubscribeRoomChat(n, r) ==
  /\ Command
  /\ chat' = chat \cup {<<n, r>>}
  /\ \E m \in Routes(n) : up' = SendTo(up, {m}, Message("subscribe", r))
  /\ UNCHANGED <<online, curNode, curRoom, inProgress, pendingRoom, rejoin, retry,
                 node, down, history, events>>

\* ConnectionCommand::UnsubscribeRoomChat.
UnsubscribeRoomChat(n, r) ==
  /\ Command
  /\ chat' = chat \ {<<n, r>>}
  /\ \E m \in Routes(n) : up' = SendTo(up, {m}, Message("unsubscribe", r))
  /\ UNCHANGED <<online, curNode, curRoom, inProgress, pendingRoom, rejoin, retry,
                 node, down, history, events>>

-----------------------------------------------------------------------------
(* The sockets.                                                              *)

\* WsConnected: a rejoin that is armed for the node is played, and the others
\* for the same room are disarmed.
WsConnected(n) ==
  /\ n \notin online
  /\ online' = online \cup {n}
  /\ inProgress' = inProgress \ {n}
  /\ IF rejoin[n] = NoRoom
       THEN UNCHANGED <<curNode, curRoom, pendingRoom, rejoin, up, left, seat>>
       ELSE /\ rejoin' = Disarmed(rejoin[n])
            /\ pendingRoom' = NoPending(rejoin[n])
            /\ curNode' = n
            /\ curRoom' = rejoin[n]
            /\ up' = [up EXCEPT ![n] = Append(@, Message("join", rejoin[n]))]
            /\ left' = [left EXCEPT ![n] = @ \ {rejoin[n]}]
            /\ seat' = FALSE
  /\ UNCHANGED <<retry, chat, node, down, undisturbed, counters>>

\* Mutant: the lost node is not armed.
FailOverWithoutLost(n, r, live) ==
  /\ inProgress' = inProgress \cup {n}
  /\ curRoom' = r
  /\ IF live = {}
       THEN curNode' = NoNode /\ pendingRoom' = pendingRoom
       ELSE curNode' \in live /\ pendingRoom' = r
  /\ up' = SendTo([up EXCEPT ![n] = <<>>], live, Message("join", r))
  /\ rejoin' = [m \in Nodes |->
                  IF m \notin live \cup {n} THEN r ELSE rejoin[m]]
  /\ left' = [m \in Nodes |->
                IF m = n THEN {} ELSE IF m \in live THEN left[m] \ {r} ELSE left[m]]

\* maybe_failover_to_cluster, with plan_cluster_failover: room r, which n
\* hosted, is asked for on every live sibling.  send_room_join makes each of
\* them the current node in turn, and the roster's last one stays.  The
\* siblings that are not connected are armed, and n too when none is live.
FailOver(n, r, live) ==
  /\ inProgress' = inProgress \cup {n}
  /\ curRoom' = r
  /\ IF live = {}
       THEN curNode' = NoNode /\ pendingRoom' = pendingRoom
       ELSE curNode' \in live /\ pendingRoom' = r
  /\ up' = SendTo([up EXCEPT ![n] = <<>>], live, Message("join", r))
  /\ rejoin' = [m \in Nodes |->
                  IF live = {} \/ m \notin live \cup {n} THEN r ELSE rejoin[m]]
  /\ left' = [m \in Nodes |->
                IF m = n THEN {} ELSE IF m \in live THEN left[m] \ {r} ELSE left[m]]

\* WsDisconnected.  A dial that fails reports it as well, and again when it
\* fails again.  What n has not read is lost - a task that still serves what it
\* has buffered is not modelled - and what n has sent is lost with the socket or
\* arrives later.
WsDisconnected(n) ==
  /\ IF n \in online THEN Event ELSE curNode = n /\ events' = events
  /\ online' = online \ {n}
  /\ IF curNode = n /\ curRoom # NoRoom /\ n \notin inProgress /\ Nodes # {n}
       THEN FailOver(n, curRoom, online \ {n})
       ELSE /\ curNode' = IF curNode = n THEN NoNode ELSE curNode
            /\ curRoom' = IF curNode = n THEN NoRoom ELSE curRoom
            /\ left' = [left EXCEPT ![n] = {}]
            /\ up' = [up EXCEPT ![n] = <<>>]
            /\ UNCHANGED <<inProgress, pendingRoom, rejoin>>
  /\ seat' = (seat /\ curNode # n)
  /\ \E lost \in SUBSET {m \in down : m.from = n /\ n \in online} : down' = down \ lost
  /\ UNCHANGED <<retry, chat, node, undisturbed, commands>>

-----------------------------------------------------------------------------
(* What the nodes answer.                                                    *)

\* The roster is for a room in use; the others are ignored.
Active(r) == curRoom = r \/ pendingRoom = r \/ \E n \in Named : <<n, r>> \in chat

\* Mutant: the rejoins stay armed.
HandleMembersArmed(n, r) ==
  /\ Members(n, r) \in down
  /\ down' = down \ {Members(n, r)}
  /\ retry' = IF Active(r) THEN WithoutRetries(r) ELSE retry
  /\ IF pendingRoom = r
       THEN /\ pendingRoom' = NoRoom
            /\ curNode' = n
            /\ curRoom' = r
            /\ rejoin' = rejoin
            /\ seat' = (n \in online)
       ELSE /\ seat' = (seat \/ (curRoom = r /\ curNode = n /\ n \in online))
            /\ UNCHANGED <<pendingRoom, curNode, curRoom, rejoin>>
  /\ UNCHANGED <<online, inProgress, chat, node, up, left, undisturbed, counters>>

\* SfuMembers: the retries for the room are dropped.  If a failover waits for
\* it, the node that answers becomes the current one and the rejoins of the
\* room are disarmed.  A roster goes only to those it lists, so that
\* record_room_devices finds this device in it.
HandleMembers(n, r) ==
  /\ Members(n, r) \in down
  /\ down' = down \ {Members(n, r)}
  /\ retry' = IF Active(r) THEN WithoutRetries(r) ELSE retry
  /\ IF pendingRoom = r
       THEN /\ pendingRoom' = NoRoom
            /\ curNode' = n
            /\ curRoom' = r
            /\ rejoin' = Disarmed(r)
            /\ seat' = (n \in online)
       ELSE /\ seat' = (seat \/ (curRoom = r /\ curNode = n /\ n \in online))
            /\ UNCHANGED <<pendingRoom, curNode, curRoom, rejoin>>
  /\ UNCHANGED <<online, inProgress, chat, node, up, left, undisturbed, counters>>

\* SfuJoinResult, which is only sent for a denied join.  room_absent arms a
\* retry, unless there is one; another reason is shown to the user.
HandleJoinResult(n, r, why) ==
  /\ JoinResult(n, r, why) \in down
  /\ down' = down \ {JoinResult(n, r, why)}
  /\ LET here == curRoom = r /\ curNode \in {n, NoNode}
     IN  /\ curRoom' = IF here THEN NoRoom ELSE curRoom
         /\ curNode' = IF here THEN NoNode ELSE curNode
         /\ seat' = (seat /\ ~here)
  /\ rejoin' = Disarmed(r)
  /\ pendingRoom' = NoPending(r)
  /\ retry' = [retry EXCEPT ![n][r] = IF why = "room_absent" /\ @ = -1 THEN 0 ELSE @]
  /\ UNCHANGED <<online, inProgress, chat, node, up, left, undisturbed, counters>>

\* Mutant: one attempt too many.
RetryJoinOnceMore(n, r) ==
  /\ retry[n][r] \in 0 .. MaxAttempts
  /\ \E m \in Routes(n) :
       LET moved == curRoom \in {r, NoRoom}
       IN  /\ Len(up[m]) < MaxQueue
           /\ curNode' = IF moved THEN m ELSE curNode
           /\ curRoom' = IF moved THEN r ELSE curRoom
           /\ seat' = (seat /\ ~moved)
           /\ SendJoin({m}, r)
  /\ retry' = [retry EXCEPT ![n][r] = @ + 1]
  /\ undisturbed' = (undisturbed /\ ~(FailingOver /\ curRoom = NoRoom))
  /\ UNCHANGED <<online, inProgress, pendingRoom, rejoin, chat, node, down, counters>>

\* retry_pending_room_joins sends the joins that are due and gives up on the
\* exhausted ones.  It handles one entry after the other, and each has a delay
\* of its own: an entry is a step here.
RetryJoin(n, r) ==
  /\ retry[n][r] \in 0 .. MaxAttempts - 1
  /\ \E m \in Routes(n) :
       LET moved == curRoom \in {r, NoRoom}
       IN  /\ Len(up[m]) < MaxQueue
           /\ curNode' = IF moved THEN m ELSE curNode
           /\ curRoom' = IF moved THEN r ELSE curRoom
           /\ seat' = (seat /\ ~moved)
           /\ SendJoin({m}, r)
  /\ retry' = [retry EXCEPT ![n][r] = @ + 1]
  /\ undisturbed' = (undisturbed /\ ~(FailingOver /\ curRoom = NoRoom))
  /\ UNCHANGED <<online, inProgress, pendingRoom, rejoin, chat, node, down, counters>>

GiveUp(n, r) ==
  /\ retry[n][r] >= MaxAttempts
  /\ retry' = [retry EXCEPT ![n][r] = -1]
  /\ UNCHANGED <<online, curNode, curRoom, inProgress, pendingRoom, rejoin, chat,
                 node, up, down, history, counters>>

-----------------------------------------------------------------------------
(* The nodes.                                                                *)

\* broadcast_sfu_members, as far as it reaches this client.
Roster(n, r) == IF r \in voice'[n] \cup subs'[n] THEN {Members(n, r)} ELSE {}

\* handle_sfu_join.  A room that is there may still be full, or private.
ServeJoin(n, r) ==
  /\ subs' = subs
  /\ \/ /\ r \in hosts[n]
        /\ voice' = [voice EXCEPT ![n] = @ \cup {r}]
        /\ down' = down \cup Roster(n, r)
     \/ /\ voice' = voice
        /\ \/ r \in hosts[n] \ voice[n] /\ down' = down \cup {JoinResult(n, r, "not_allowed")}
           \/ r \notin hosts[n] /\ down' = down \cup {JoinResult(n, r, "room_absent")}

\* handle_sfu_leave: ignored unless the device is in voice.
ServeLeave(n, r) ==
  /\ subs' = subs
  /\ voice' = [voice EXCEPT ![n] = @ \ {r}]
  /\ down' = IF r \in voice[n] THEN down \cup Roster(n, r) ELSE down

\* handle_sfu_subscribe, handle_sfu_unsubscribe.
ServeSubscribe(n, r) ==
  /\ voice' = voice
  /\ subs' = [subs EXCEPT ![n] = IF r \in hosts[n] THEN @ \cup {r} ELSE @]
  /\ down' = IF r \in hosts[n] THEN down \cup Roster(n, r) ELSE down

ServeUnsubscribe(n, r) ==
  /\ voice' = voice
  /\ subs' = [subs EXCEPT ![n] = @ \ {r}]
  /\ down' = down \cup Roster(n, r)

\* The node reads its socket.
Serve(n) ==
  /\ up[n] # <<>>
  /\ up' = [up EXCEPT ![n] = Tail(@)]
  /\ LET r == Head(up[n]).room
         kind == Head(up[n]).kind
     IN  \/ kind = "join" /\ ServeJoin(n, r)
         \/ kind = "leave" /\ ServeLeave(n, r)
         \/ kind = "subscribe" /\ ServeSubscribe(n, r)
         \/ kind = "unsubscribe" /\ ServeUnsubscribe(n, r)
  /\ UNCHANGED <<manager, hosts, history, counters>>

\* Somebody else joins or leaves the room, and the roster is sent to all.
Announce(n, r) ==
  /\ Event
  /\ r \in voice[n] \cup subs[n]
  /\ down' = down \cup {Members(n, r)}
  /\ UNCHANGED <<manager, node, up, history, commands>>

\* A room reaches the node: it is created there, or the cluster's gossip
\* brings it.
Materialise(n, r) ==
  /\ Event
  /\ r \notin hosts[n]
  /\ hosts' = [hosts EXCEPT ![n] = @ \cup {r}]
  /\ UNCHANGED <<manager, voice, subs, up, down, history, commands>>

\* The node sees that the socket is closed.  A client that is back before
\* keeps its place.
SocketClosed(n) ==
  /\ n \notin online
  /\ voice' = [voice EXCEPT ![n] = {}]
  /\ subs' = [subs EXCEPT ![n] = {}]
  /\ UNCHANGED <<manager, hosts, up, down, history, counters>>

\* The node starts again, without rooms.
NodeRestart(n) ==
  /\ Event
  /\ n \notin online
  /\ hosts' = [hosts EXCEPT ![n] = {}]
  /\ voice' = [voice EXCEPT ![n] = {}]
  /\ subs' = [subs EXCEPT ![n] = {}]
  /\ UNCHANGED <<manager, up, down, history, commands>>

-----------------------------------------------------------------------------

Init ==
  /\ online = {}
  /\ curNode = NoNode
  /\ curRoom = NoRoom
  /\ inProgress = {}
  /\ pendingRoom = NoRoom
  /\ rejoin = [n \in Nodes |-> NoRoom]
  /\ retry = [n \in Nodes |-> [r \in Rooms |-> -1]]
  /\ chat = {}
  /\ hosts = Hosting
  /\ voice = [n \in Nodes |-> {}]
  /\ subs = [n \in Nodes |-> {}]
  /\ up = [n \in Nodes |-> <<>>]
  /\ down = {}
  /\ seat = FALSE
  /\ left = [n \in Nodes |-> {}]
  /\ undisturbed = TRUE
  /\ commands = 0 /\ events = 0

Reasons == {"room_absent", "not_allowed"}

UserStep(n, r) ==
  \/ JoinRoom(n, r) \/ LeaveRoom(n, r)
  \/ SubscribeRoomChat(n, r) \/ UnsubscribeRoomChat(n, r)

RoomStep(n, r) ==
  \/ HandleMembers(n, r)
  \/ \E why \in Reasons : HandleJoinResult(n, r, why)
  \/ RetryJoin(n, r) \/ GiveUp(n, r)
  \/ Announce(n, r) \/ Materialise(n, r)

NodeStep(n) ==
  WsConnected(n) \/ WsDisconnected(n) \/ Serve(n) \/ SocketClosed(n) \/ NodeRestart(n)

Next ==
  \/ \E n \in Named, r \in Rooms : UserStep(n, r)
  \/ \E n \in Nodes, r \in Rooms : RoomStep(n, r)
  \/ \E n \in Nodes : NodeStep(n)

Spec == Init /\ [][Next]_vars

-----------------------------------------------------------------------------

Messages == [kind : {"join", "leave", "subscribe", "unsubscribe"}, room : Rooms]

Answers ==
  [kind : {"members", "result"}, from : Nodes, room : Rooms, reason : Reasons \cup {""}]

\* None, and the attempts made.
Attempts == -1 .. MaxAttempts

Queued(n, m) == \E i \in 1 .. Len(up[n]) : up[n][i] = m

\* The types; a join is retried at most ROOM_JOIN_MAX_ATTEMPTS times.
TypeOK ==
  /\ online \subseteq Nodes /\ inProgress \subseteq Nodes
  /\ curNode \in Nodes \cup {NoNode}
  /\ curRoom \in Rooms \cup {NoRoom}
  /\ pendingRoom \in Rooms \cup {NoRoom}
  /\ rejoin \in [Nodes -> Rooms \cup {NoRoom}]
  /\ retry \in [Nodes -> [Rooms -> Attempts]]
  /\ chat \subseteq Named \X Rooms
  /\ hosts \in [Nodes -> SUBSET Rooms]
  /\ voice \in [Nodes -> SUBSET Rooms]
  /\ subs \in [Nodes -> SUBSET Rooms]
  /\ left \in [Nodes -> SUBSET Rooms]
  /\ undisturbed \in BOOLEAN
  /\ up \in [Nodes -> Seq(Messages)]
  /\ down \subseteq Answers
  /\ seat \in BOOLEAN
  /\ commands \in 0 .. MaxCommands
  /\ events \in 0 .. MaxEvents

\* Once a connected node has confirmed the room, no other node is armed to
\* rejoin it: a node that comes back does not take the client away from where
\* it is (SfuMembers and WsConnected disarm, the failover does not arm the node
\* it leaves while a sibling is live).  Joins and leaves during a failover are
\* excepted: they leave the rejoins as they are.
ReturnDoesNotSeize ==
  seat /\ undisturbed => \A n \in Nodes : rejoin[n] # curRoom

\* A failover does not wait for nothing: the current node is connected and its
\* answer is under way, or every node is armed and the first to come back
\* resumes the room (maybe_failover_to_cluster, however often a node is lost
\* on the way).
FailoverAnswered ==
  pendingRoom # NoRoom /\ undisturbed =>
    \/ /\ curNode \in online /\ curRoom = pendingRoom
       /\ \/ Queued(curNode, Message("join", curRoom))
          \/ \E m \in down : m.from = curNode /\ m.room = curRoom
    \/ online = {} /\ \A n \in Nodes : rejoin[n] = pendingRoom

\* A node that was connected when the client left a room, and was not asked for
\* it since, does not list the client there once it has read what was sent to
\* it, whichever nodes the room was joined on (leave_room_voice).
LeaveReachesAll ==
  \A n \in Nodes : \A r \in left[n] :
    r \in voice[n] => Queued(n, Message("leave", r))
=============================================================================
