------------------------- MODULE RoomSessionProofs -------------------------
(***************************************************************************)
(* Theorems about RoomSession, for a cluster of any size, any rooms and    *)
(* any number of commands, losses, restarts and retries.                   *)
(***************************************************************************)
EXTENDS RoomSession, TLAPS

\* A node that is connected is neither armed nor being failed over from.
ConnectedIdle ==
  /\ online \cap inProgress = {}
  /\ \A n \in online : rejoin[n] = NoRoom

\* Only a cluster has failovers.
PendingHasSiblings == pendingRoom # NoRoom => \A n \in Nodes : Nodes # {n}

Seated == seat => curNode \in online /\ curRoom \in Rooms /\ pendingRoom # curRoom

\* The rejoins are for the room the failover waits for, or for one room with
\* every node armed.
ArmedAgree ==
  undisturbed =>
    \/ \A n \in Nodes : rejoin[n] \in {NoRoom, pendingRoom}
    \/ online = {} /\ \A m, n \in Nodes : rejoin[m] = rejoin[n]

\* No other room is the current one while a failover is under way.
CurrentAgrees ==
  undisturbed =>
    \A r \in Rooms :
      pendingRoom = r \/ (\E n \in Nodes : rejoin[n] = r) => curRoom \in {r, NoRoom}

\* Behind every join under way to a node there is a leave, for a room that was
\* left.
LeaveFollows ==
  \A n \in Nodes : \A r \in left[n] : \A i \in 1 .. Len(up[n]) :
    up[n][i] = Message("join", r) =>
      \E j \in i + 1 .. Len(up[n]) : up[n][j] = Message("leave", r)

Failover ==
  /\ ConnectedIdle /\ PendingHasSiblings /\ Seated /\ ArmedAgree /\ CurrentAgrees
  /\ FailoverAnswered

Inv == TypeOK /\ Failover /\ LeaveFollows /\ LeaveReachesAll

-----------------------------------------------------------------------------
(* Messages and queues                                                     *)

LEMMA MessageForm ==
  \A r \in Rooms : \A kind \in {"join", "leave", "subscribe", "unsubscribe"} :
    /\ Message(kind, r) \in Messages
    /\ Message(kind, r).kind = kind /\ Message(kind, r).room = r
  BY DEF Message, Messages

LEMMA AnswerForm ==
  \A n \in Nodes, r \in Rooms :
    /\ Members(n, r) \in Answers /\ Members(n, r).from = n /\ Members(n, r).room = r
    /\ \A why \in Reasons :
         /\ JoinResult(n, r, why) \in Answers
         /\ JoinResult(n, r, why).from = n /\ JoinResult(n, r, why).room = r
  BY DEF Members, JoinResult, Answers, Reasons

LEMMA AppendForm ==
  ASSUME NEW q \in Seq(Messages), NEW m \in Messages
  PROVE  /\ Append(q, m) \in Seq(Messages)
         /\ Len(q) \in Nat /\ Len(Append(q, m)) = Len(q) + 1
         /\ \A i \in 1 .. Len(q) : Append(q, m)[i] = q[i]
         /\ Append(q, m)[Len(q) + 1] = m
  OBVIOUS

LEMMA TailForm ==
  ASSUME NEW q \in Seq(Messages), q # <<>>
  PROVE  /\ Tail(q) \in Seq(Messages) /\ Head(q) \in Messages /\ Head(q) = q[1]
         /\ Len(q) \in Nat \ {0} /\ Len(Tail(q)) = Len(q) - 1
         /\ \A i \in 1 .. Len(q) - 1 : Tail(q)[i] = q[i + 1]
  OBVIOUS

LEMMA SendToForm ==
  ASSUME NEW queues \in [Nodes -> Seq(Messages)], NEW nodes, NEW m \in Messages
  PROVE  /\ SendTo(queues, nodes, m) \in [Nodes -> Seq(Messages)]
         /\ \A n \in Nodes :
              SendTo(queues, nodes, m)[n] =
                IF n \in nodes \cap online THEN Append(queues[n], m) ELSE queues[n]
  BY AppendForm DEF SendTo

(* What a queue holds it holds with another message behind it.             *)
Holds(q, m) == \E i \in 1 .. Len(q) : q[i] = m

(* Every join for r in q has a leave behind it.                            *)
Covered(q, r) ==
  \A i \in 1 .. Len(q) : q[i] = Message("join", r) =>
    \E j \in i + 1 .. Len(q) : q[j] = Message("leave", r)

LEMMA HoldsAppend ==
  ASSUME NEW q \in Seq(Messages), NEW m \in Messages, NEW k
  PROVE  /\ Holds(q, k) => Holds(Append(q, m), k)
         /\ Holds(Append(q, m), m)
  BY AppendForm DEF Holds

LEMMA HoldsTail ==
  ASSUME NEW q \in Seq(Messages), q # <<>>, NEW k, Holds(q, k)
  PROVE  Head(q) = k \/ Holds(Tail(q), k)
  <1>1. PICK i \in 1 .. Len(q) : q[i] = k
    BY DEF Holds
  <1>2. CASE i = 1
    BY <1>1, <1>2, TailForm
  <1>3. CASE i # 1
    <2>1. i - 1 \in 1 .. Len(Tail(q)) /\ Tail(q)[i - 1] = q[i]
      BY <1>1, <1>3, TailForm
    <2> QED BY <1>1, <2>1 DEF Holds
  <1> QED BY <1>2, <1>3

LEMMA CoveredAppend ==
  ASSUME NEW q \in Seq(Messages), NEW m \in Messages, NEW r, Covered(q, r),
         m # Message("join", r)
  PROVE  Covered(Append(q, m), r)
  <1> SUFFICES ASSUME NEW i \in 1 .. Len(Append(q, m)),
                      Append(q, m)[i] = Message("join", r)
               PROVE  \E j \in i + 1 .. Len(Append(q, m)) :
                        Append(q, m)[j] = Message("leave", r)
    BY DEF Covered
  <1>1. i \in 1 .. Len(q) /\ q[i] = Message("join", r)
    BY AppendForm
  <1>2. PICK j \in i + 1 .. Len(q) : q[j] = Message("leave", r)
    BY <1>1 DEF Covered
  <1>3. j \in i + 1 .. Len(Append(q, m)) /\ j \in 1 .. Len(q)
    BY <1>1, <1>2, AppendForm
  <1> QED BY <1>2, <1>3, AppendForm

LEMMA CoveredLeave ==
  ASSUME NEW q \in Seq(Messages), NEW r \in Rooms
  PROVE  Covered(Append(q, Message("leave", r)), r)
  <1> DEFINE m == Message("leave", r)
  <1>1. m \in Messages /\ m # Message("join", r)
    BY MessageForm DEF Message
  <1> HIDE DEF m
  <1> SUFFICES ASSUME NEW i \in 1 .. Len(Append(q, m)),
                      Append(q, m)[i] = Message("join", r)
               PROVE  \E j \in i + 1 .. Len(Append(q, m)) : Append(q, m)[j] = m
    BY DEF Covered, m
  <1>2. i \in 1 .. Len(q)
    BY <1>1, AppendForm
  <1>3. Len(q) + 1 \in i + 1 .. Len(Append(q, m)) /\ Append(q, m)[Len(q) + 1] = m
    BY <1>1, <1>2, AppendForm
  <1> QED BY <1>3

LEMMA CoveredTail ==
  ASSUME NEW q \in Seq(Messages), q # <<>>, NEW r, Covered(q, r)
  PROVE  /\ Covered(Tail(q), r)
         /\ Head(q) = Message("join", r) => Holds(Tail(q), Message("leave", r))
  <1>1. Covered(Tail(q), r)
    <2> SUFFICES ASSUME NEW i \in 1 .. Len(Tail(q)), Tail(q)[i] = Message("join", r)
                 PROVE  \E j \in i + 1 .. Len(Tail(q)) : Tail(q)[j] = Message("leave", r)
      BY DEF Covered
    <2>1. i + 1 \in 1 .. Len(q) /\ q[i + 1] = Message("join", r)
      BY TailForm
    <2>2. PICK j \in i + 2 .. Len(q) : q[j] = Message("leave", r)
      BY <2>1 DEF Covered
    <2>3. j - 1 \in i + 1 .. Len(Tail(q)) /\ Tail(q)[j - 1] = q[j]
      BY <2>1, <2>2, TailForm
    <2> QED BY <2>2, <2>3
  <1>2. ASSUME Head(q) = Message("join", r) PROVE Holds(Tail(q), Message("leave", r))
    <2>1. 1 \in 1 .. Len(q) /\ q[1] = Message("join", r)
      BY <1>2, TailForm
    <2>2. PICK j \in 2 .. Len(q) : q[j] = Message("leave", r)
      BY <2>1 DEF Covered
    <2>3. j - 1 \in 1 .. Len(Tail(q)) /\ Tail(q)[j - 1] = q[j]
      BY <2>1, <2>2, TailForm
    <2> QED BY <2>2, <2>3 DEF Holds
  <1> QED BY <1>1, <1>2

-----------------------------------------------------------------------------
(* Types                                                                   *)

LEMMA RoutesForm ==
  ASSUME TypeOK, NEW n \in Nodes
  PROVE  /\ Routes(n) \subseteq Nodes
         /\ online # {} => Routes(n) \subseteq online
  BY DEF Routes, TypeOK

LEMMA SendJoinTypes ==
  ASSUME TypeOK, NEW nodes, NEW r \in Rooms, SendJoin(nodes, r)
  PROVE  up' \in [Nodes -> Seq(Messages)] /\ left' \in [Nodes -> SUBSET Rooms]
  BY SendToForm, MessageForm DEF SendJoin, TypeOK

LEMMA AttemptsForm ==
  /\ -1 \in Attempts /\ 0 \in Attempts
  /\ \A k \in 0 .. MaxAttempts - 1 : k + 1 \in Attempts
  BY BoundsAssumption DEF Attempts

LEMMA RetriesTypes ==
  ASSUME TypeOK, NEW r \in Rooms
  PROVE  WithoutRetries(r) \in [Nodes -> [Rooms -> Attempts]]
  BY AttemptsForm DEF WithoutRetries, TypeOK

LEMMA DisarmedTypes ==
  ASSUME TypeOK, NEW r
  PROVE  Disarmed(r) \in [Nodes -> Rooms \cup {NoRoom}]
  BY DEF Disarmed, TypeOK

LEMMA UserTypes ==
  ASSUME TypeOK, NEW n \in Named, NEW r \in Rooms, UserStep(n, r)
  PROVE  TypeOK'
  <1> n \in Nodes
    BY NodesAssumption
  <1>1. CASE JoinRoom(n, r)
    <2>1. up' \in [Nodes -> Seq(Messages)] /\ left' \in [Nodes -> SUBSET Rooms]
      BY <1>1, SendJoinTypes DEF JoinRoom
    <2>2. chat' \subseteq Named \X Rooms
      BY <1>1 DEF JoinRoom, TypeOK
    <2>3. commands' \in 0 .. MaxCommands
      BY <1>1, BoundsAssumption DEF JoinRoom, Command, TypeOK
    <2>4. curNode' \in Nodes /\ curRoom' \in Rooms /\ seat' \in BOOLEAN /\ undisturbed' \in BOOLEAN
      BY <1>1, RoutesForm DEF JoinRoom, TypeOK
    <2> QED BY <1>1, <2>1, <2>2, <2>3, <2>4 DEF JoinRoom, TypeOK, node
  <1>2. CASE LeaveRoom(n, r)
    <2>1. PICK m \in Routes(n) :
            LET sent == SendTo(up, Nodes, Message("leave", r))
            IN  /\ curRoom' \in {NoRoom, curRoom} /\ curNode' \in {NoNode, curNode}
                /\ seat' \in BOOLEAN
                /\ up' \in {sent, SendTo(sent, {m}, Message("subscribe", r))}
      BY <1>2 DEF LeaveRoom
    <2>2. up \in [Nodes -> Seq(Messages)]
      BY DEF TypeOK
    <2>3. SendTo(up, Nodes, Message("leave", r)) \in [Nodes -> Seq(Messages)]
      BY <2>2, SendToForm, MessageForm
    <2>4. SendTo(SendTo(up, Nodes, Message("leave", r)), {m}, Message("subscribe", r))
            \in [Nodes -> Seq(Messages)]
      BY <2>3, SendToForm, MessageForm
    <2>5. up' \in [Nodes -> Seq(Messages)]
      BY <2>1, <2>3, <2>4
    <2>6. left' \in [Nodes -> SUBSET Rooms]
      BY <1>2 DEF LeaveRoom, TypeOK
    <2>7. retry' \in [Nodes -> [Rooms -> Attempts]]
      BY <1>2, RetriesTypes DEF LeaveRoom
    <2>8. commands' \in 0 .. MaxCommands
      BY <1>2, BoundsAssumption DEF LeaveRoom, Command, TypeOK
    <2>9. undisturbed' \in BOOLEAN
      BY <1>2 DEF LeaveRoom, TypeOK
    <2> QED BY <1>2, <2>1, <2>5, <2>6, <2>7, <2>8, <2>9 DEF LeaveRoom, TypeOK, node
  <1>3. CASE SubscribeRoomChat(n, r)
    <2>1. up' \in [Nodes -> Seq(Messages)]
      <3>1. PICK m \in Routes(n) : up' = SendTo(up, {m}, Message("subscribe", r))
        BY <1>3 DEF SubscribeRoomChat
      <3>2. up \in [Nodes -> Seq(Messages)]
        BY DEF TypeOK
      <3> QED BY <3>1, <3>2, SendToForm, MessageForm
    <2>2. chat' \subseteq Named \X Rooms
      BY <1>3 DEF SubscribeRoomChat, TypeOK
    <2>3. commands' \in 0 .. MaxCommands
      BY <1>3, BoundsAssumption DEF SubscribeRoomChat, Command, TypeOK
    <2> QED BY <1>3, <2>1, <2>2, <2>3 DEF SubscribeRoomChat, TypeOK, node, history
  <1>4. CASE UnsubscribeRoomChat(n, r)
    <2>1. up' \in [Nodes -> Seq(Messages)]
      <3>1. PICK m \in Routes(n) : up' = SendTo(up, {m}, Message("unsubscribe", r))
        BY <1>4 DEF UnsubscribeRoomChat
      <3>2. up \in [Nodes -> Seq(Messages)]
        BY DEF TypeOK
      <3> QED BY <3>1, <3>2, SendToForm, MessageForm
    <2>2. chat' \subseteq Named \X Rooms
      BY <1>4 DEF UnsubscribeRoomChat, TypeOK
    <2>3. commands' \in 0 .. MaxCommands
      BY <1>4, BoundsAssumption DEF UnsubscribeRoomChat, Command, TypeOK
    <2> QED BY <1>4, <2>1, <2>2, <2>3 DEF UnsubscribeRoomChat, TypeOK, node, history
  <1> QED BY <1>1, <1>2, <1>3, <1>4 DEF UserStep

LEMMA RoomTypes ==
  ASSUME TypeOK, NEW n \in Nodes, NEW r \in Rooms, RoomStep(n, r)
  PROVE  TypeOK'
  <1>1. CASE HandleMembers(n, r)
    <2>1. retry' \in [Nodes -> [Rooms -> Attempts]]
      BY <1>1, RetriesTypes DEF HandleMembers, TypeOK
    <2>2. rejoin' \in [Nodes -> Rooms \cup {NoRoom}]
      BY <1>1, DisarmedTypes DEF HandleMembers, TypeOK
    <2>3. pendingRoom' \in Rooms \cup {NoRoom}
          /\ curNode' \in Nodes \cup {NoNode} /\ curRoom' \in Rooms \cup {NoRoom}
      BY <1>1 DEF HandleMembers, TypeOK
    <2>4. seat' \in BOOLEAN
      <3>1. CASE pendingRoom = r
        BY <1>1, <3>1 DEF HandleMembers
      <3>2. CASE pendingRoom # r
        BY <1>1, <3>2 DEF HandleMembers
      <3> QED BY <3>1, <3>2
    <2> QED BY <1>1, <2>1, <2>2, <2>3, <2>4 DEF HandleMembers, TypeOK, node, counters
  <1>2. ASSUME NEW why \in Reasons, HandleJoinResult(n, r, why) PROVE TypeOK'
    <2>1. retry' \in [Nodes -> [Rooms -> Attempts]]
      BY <1>2, AttemptsForm DEF HandleJoinResult, TypeOK
    <2>2. rejoin' \in [Nodes -> Rooms \cup {NoRoom}]
      BY <1>2, DisarmedTypes DEF HandleJoinResult, TypeOK
    <2>3. seat' \in BOOLEAN /\ pendingRoom' \in Rooms \cup {NoRoom}
          /\ curNode' \in Nodes \cup {NoNode} /\ curRoom' \in Rooms \cup {NoRoom}
      BY <1>2 DEF HandleJoinResult, TypeOK, NoPending
    <2> QED BY <1>2, <2>1, <2>2, <2>3 DEF HandleJoinResult, TypeOK, node, counters
  <1>3. CASE RetryJoin(n, r)
    <2>1. PICK m \in Routes(n) :
            /\ SendJoin({m}, r) /\ seat' \in BOOLEAN
            /\ curNode' \in {m, curNode} /\ curRoom' \in {r, curRoom}
      BY <1>3 DEF RetryJoin
    <2>2. up' \in [Nodes -> Seq(Messages)] /\ left' \in [Nodes -> SUBSET Rooms]
      BY <2>1, SendJoinTypes
    <2>3. retry' \in [Nodes -> [Rooms -> Attempts]]
      BY <1>3, AttemptsForm DEF RetryJoin, TypeOK
    <2>4. m \in Nodes
      BY <2>1, RoutesForm
    <2> QED BY <1>3, <2>1, <2>2, <2>3, <2>4 DEF RetryJoin, TypeOK, node, counters
  <1>4. CASE GiveUp(n, r)
    <2>1. retry' \in [Nodes -> [Rooms -> Attempts]]
      BY <1>4, AttemptsForm DEF GiveUp, TypeOK
    <2> QED BY <1>4, <2>1 DEF GiveUp, TypeOK, node, counters, history
  <1>5. CASE Announce(n, r)
    BY <1>5, AnswerForm, BoundsAssumption
    DEF Announce, TypeOK, Event, manager, node, history
  <1>6. CASE Materialise(n, r)
    BY <1>6, BoundsAssumption DEF Materialise, TypeOK, Event, manager, history
  <1> QED BY <1>1, <1>2, <1>3, <1>4, <1>5, <1>6 DEF RoomStep

LEMMA ServeTypes ==
  ASSUME TypeOK, NEW n \in Nodes, Serve(n)
  PROVE  TypeOK'
  <1> DEFINE r == Head(up[n]).room
  <1>1. up[n] \in Seq(Messages) /\ up[n] # <<>>
    BY DEF TypeOK, Serve
  <1>2. Tail(up[n]) \in Seq(Messages) /\ r \in Rooms
    BY <1>1, TailForm DEF Messages
  <1>3. up' \in [Nodes -> Seq(Messages)]
    BY <1>2 DEF Serve, TypeOK
  <1>4. /\ voice' \in [Nodes -> SUBSET Rooms] /\ subs' \in [Nodes -> SUBSET Rooms]
        /\ \E S \in SUBSET ({Members(n, r)} \cup {JoinResult(n, r, why) : why \in Reasons}) :
             down' = down \cup S
    <2> HIDE DEF r
    <2>1. \/ ServeJoin(n, r) \/ ServeLeave(n, r) \/ ServeSubscribe(n, r) \/ ServeUnsubscribe(n, r)
      BY DEF Serve, r
    <2>2. Roster(n, r) \subseteq {Members(n, r)}
      BY DEF Roster
    <2>3. CASE ServeJoin(n, r)
      <3>1. voice' \in [Nodes -> SUBSET Rooms] /\ subs' \in [Nodes -> SUBSET Rooms]
        <4>1. voice' = voice \/ voice' = [voice EXCEPT ![n] = @ \cup {r}]
          BY <2>3 DEF ServeJoin
        <4> QED BY <1>2, <2>3, <4>1 DEF ServeJoin, TypeOK
      <3>2. \/ down' = down \cup Roster(n, r)
            \/ \E why \in Reasons : down' = down \cup {JoinResult(n, r, why)}
        BY <2>3 DEF ServeJoin, Reasons
      <3> QED BY <2>2, <3>1, <3>2
    <2>4. CASE ServeLeave(n, r)
      <3>1. down' = down \cup (IF r \in voice[n] THEN Roster(n, r) ELSE {})
        BY <2>4 DEF ServeLeave
      <3> QED BY <1>2, <2>2, <2>4, <3>1 DEF ServeLeave, TypeOK
    <2>5. CASE ServeSubscribe(n, r)
      <3>1. down' = down \cup (IF r \in hosts[n] THEN Roster(n, r) ELSE {})
        BY <2>5 DEF ServeSubscribe
      <3> QED BY <1>2, <2>2, <2>5, <3>1 DEF ServeSubscribe, TypeOK
    <2>6. CASE ServeUnsubscribe(n, r)
      BY <1>2, <2>2, <2>6 DEF ServeUnsubscribe, TypeOK
    <2> QED BY <2>1, <2>3, <2>4, <2>5, <2>6
  <1>5. down' \subseteq Answers
    BY <1>2, <1>4, AnswerForm DEF TypeOK
  <1> QED BY <1>3, <1>4, <1>5 DEF Serve, TypeOK, manager, history, counters

LEMMA NodeTypes ==
  ASSUME TypeOK, NEW n \in Nodes, NodeStep(n)
  PROVE  TypeOK'
  <1>1. CASE WsConnected(n)
    <2>1. CASE rejoin[n] = NoRoom
      BY <1>1, <2>1 DEF WsConnected, TypeOK, node, counters
    <2>2. CASE rejoin[n] # NoRoom
      <3>1. rejoin[n] \in Rooms
        BY <2>2 DEF TypeOK
      <3>2. rejoin' \in [Nodes -> Rooms \cup {NoRoom}]
        BY <1>1, <2>2, DisarmedTypes DEF WsConnected
      <3>3. Append(up[n], Message("join", rejoin[n])) \in Seq(Messages)
        BY <3>1, AppendForm, MessageForm DEF TypeOK
      <3>4. up' \in [Nodes -> Seq(Messages)]
        BY <1>1, <2>2, <3>3 DEF WsConnected, TypeOK
      <3>5. pendingRoom' = NoPending(rejoin[n]) /\ curNode' = n /\ curRoom' = rejoin[n]
        BY <1>1, <2>2 DEF WsConnected
      <3>8. NoPending(rejoin[n]) \in Rooms \cup {NoRoom}
        BY DEF NoPending, TypeOK
      <3>6. left' \in [Nodes -> SUBSET Rooms] /\ seat' = FALSE
        <4>1. left' = [left EXCEPT ![n] = @ \ {rejoin[n]}] /\ seat' = FALSE
          BY <1>1, <2>2 DEF WsConnected
        <4>2. left[n] \ {rejoin[n]} \in SUBSET Rooms /\ left \in [Nodes -> SUBSET Rooms]
          BY DEF TypeOK
        <4> QED BY <4>1, <4>2
      <3>7. online' \subseteq Nodes /\ inProgress' \subseteq Nodes
        BY <1>1 DEF WsConnected, TypeOK
      <3> QED BY <1>1, <3>1, <3>2, <3>4, <3>5, <3>6, <3>7, <3>8
          DEF WsConnected, TypeOK, node, counters
    <2> QED BY <2>1, <2>2
  <1>2. CASE WsDisconnected(n)
    <2>1. /\ online' \subseteq Nodes /\ seat' \in BOOLEAN
          /\ down' \subseteq Answers /\ events' \in 0 .. MaxEvents
      BY <1>2, BoundsAssumption DEF WsDisconnected, TypeOK, Event
    <2> DEFINE Rest ==
          /\ inProgress' \subseteq Nodes /\ curNode' \in Nodes \cup {NoNode}
          /\ curRoom' \in Rooms \cup {NoRoom} /\ pendingRoom' \in Rooms \cup {NoRoom}
          /\ rejoin' \in [Nodes -> Rooms \cup {NoRoom}]
          /\ left' \in [Nodes -> SUBSET Rooms] /\ up' \in [Nodes -> Seq(Messages)]
    <2>2. Rest
      <3> DEFINE cleared == [up EXCEPT ![n] = <<>>]
      <3>1. cleared \in [Nodes -> Seq(Messages)]
        BY DEF TypeOK
      <3>2. ASSUME curRoom # NoRoom, FailOver(n, curRoom, online \ {n})
            PROVE  Rest
        <4>1. curRoom \in Rooms
          BY <3>2 DEF TypeOK
        <4>2. up' = SendTo(cleared, online \ {n}, Message("join", curRoom))
          BY <3>2 DEF FailOver
        <4> HIDE DEF cleared
        <4>3. up' \in [Nodes -> Seq(Messages)]
          BY <3>1, <4>1, <4>2, SendToForm, MessageForm
        <4>4. left' \in [Nodes -> SUBSET Rooms]
          BY <3>2 DEF FailOver, TypeOK
        <4>5. rejoin' \in [Nodes -> Rooms \cup {NoRoom}]
          BY <3>2 DEF FailOver, TypeOK
        <4> QED BY <3>2, <4>1, <4>3, <4>4, <4>5 DEF FailOver, TypeOK
      <3>3. ASSUME ~FailOver(n, curRoom, online \ {n}) \/ curRoom = NoRoom
            PROVE  Rest
        BY <1>2, <3>1, <3>3 DEF WsDisconnected, TypeOK
      <3> QED BY <3>2, <3>3
    <2> QED BY <1>2, <2>1, <2>2 DEF WsDisconnected, TypeOK, node
  <1>3. CASE Serve(n)
    BY <1>3, ServeTypes
  <1>4. CASE SocketClosed(n)
    BY <1>4 DEF SocketClosed, TypeOK, manager, history, counters
  <1>5. CASE NodeRestart(n)
    BY <1>5, BoundsAssumption DEF NodeRestart, TypeOK, Event, manager, history
  <1> QED BY <1>1, <1>2, <1>3, <1>4, <1>5 DEF NodeStep

-----------------------------------------------------------------------------
(* The failover                                                            *)

(* The current node has been asked for the room and will answer.           *)
Awaited ==
  /\ curNode \in online /\ curRoom = pendingRoom
  /\ \/ Queued(curNode, Message("join", curRoom))
     \/ \E m \in down : m.from = curNode /\ m.room = curRoom

AllArmed == online = {} /\ \A n \in Nodes : rejoin[n] = pendingRoom

LEMMA AnsweredForm ==
  FailoverAnswered <=> (pendingRoom # NoRoom /\ undisturbed => Awaited \/ AllArmed)
  BY DEF FailoverAnswered, Awaited, AllArmed

LEMMA AnsweredFormNext ==
  FailoverAnswered' <=> (pendingRoom' # NoRoom /\ undisturbed' => Awaited' \/ AllArmed')
  BY DEF FailoverAnswered, Awaited, AllArmed

(* With nothing under way there is nothing to agree on.                    *)
LEMMA Quiet ==
  ASSUME TypeOK', undisturbed' => ~FailingOver'
  PROVE  ArmedAgree' /\ CurrentAgrees' /\ FailoverAnswered'
  <1>1. undisturbed' => pendingRoom' = NoRoom /\ \A n \in Nodes : rejoin'[n] = NoRoom
    BY DEF FailingOver
  <1>2. ArmedAgree'
    BY <1>1 DEF ArmedAgree
  <1>3. CurrentAgrees'
    BY <1>1, RoomsAssumption DEF CurrentAgrees
  <1>4. FailoverAnswered'
    BY <1>1 DEF FailoverAnswered
  <1> QED BY <1>2, <1>3, <1>4

(* A step that leaves the failover alone.                                  *)
LEMMA FailoverFrame ==
  ASSUME TypeOK, Failover,
         UNCHANGED <<online, curNode, curRoom, inProgress, pendingRoom, rejoin, seat,
                     undisturbed>>,
         Awaited => Awaited'
  PROVE  Failover'
  <1>1. (ConnectedIdle /\ PendingHasSiblings /\ Seated /\ ArmedAgree /\ CurrentAgrees)'
    BY DEF Failover, ConnectedIdle, PendingHasSiblings, Seated, ArmedAgree, CurrentAgrees
  <1>2. AllArmed => AllArmed'
    BY DEF AllArmed
  <1>3. FailoverAnswered'
    BY <1>2, AnsweredForm, AnsweredFormNext DEF Failover
  <1> QED BY <1>1, <1>3 DEF Failover

(* The answer is still awaited when messages are only added.               *)
LEMMA AwaitedMonotone ==
  ASSUME TypeOK, Awaited,
         UNCHANGED <<online, curNode, curRoom, pendingRoom>>,
         up'[curNode] = up[curNode] \/ \E m \in Messages : up'[curNode] = Append(up[curNode], m),
         \A m \in down : m.from = curNode /\ m.room = curRoom => m \in down'
  PROVE  Awaited'
  <1>1. curNode \in Nodes /\ up[curNode] \in Seq(Messages)
    BY DEF Awaited, TypeOK
  <1>2. ASSUME Queued(curNode, Message("join", curRoom))
        PROVE  Queued(curNode, Message("join", curRoom))'
    <2>1. Holds(up[curNode], Message("join", curRoom))
      BY <1>2 DEF Queued, Holds
    <2>2. Holds(up'[curNode], Message("join", curRoom))
      BY <1>1, <2>1, HoldsAppend
    <2> QED BY <2>2 DEF Queued, Holds, Message
  <1>3. ASSUME NEW m \in down, m.from = curNode, m.room = curRoom
        PROVE  \E k \in down' : k.from = curNode' /\ k.room = curRoom'
    BY <1>3
  <1>4. (curNode \in online /\ curRoom = pendingRoom)'
    BY DEF Awaited
  <1>5. CASE Queued(curNode, Message("join", curRoom))
    BY <1>2, <1>4, <1>5 DEF Awaited
  <1>6. CASE \E m \in down : m.from = curNode /\ m.room = curRoom
    BY <1>3, <1>4, <1>6 DEF Awaited
  <1> QED BY <1>5, <1>6 DEF Awaited

LEMMA SendToAdds ==
  ASSUME NEW queues \in [Nodes -> Seq(Messages)], NEW nodes, NEW m \in Messages,
         NEW n \in Nodes
  PROVE  /\ \/ SendTo(queues, nodes, m)[n] = queues[n]
            \/ SendTo(queues, nodes, m)[n] = Append(queues[n], m)
         /\ n \in nodes \cap online => SendTo(queues, nodes, m)[n] = Append(queues[n], m)
  <1> DEFINE S == SendTo(queues, nodes, m)
  <1>1. S[n] = IF n \in nodes \cap online THEN Append(queues[n], m) ELSE queues[n]
    BY SendToForm
  <1> HIDE DEF S
  <1>2. S[n] = queues[n] \/ S[n] = Append(queues[n], m)
    BY <1>1
  <1>3. n \in nodes \cap online => S[n] = Append(queues[n], m)
    BY <1>1
  <1> QED BY <1>2, <1>3 DEF S

LEMMA JoinRoomFailover ==
  ASSUME TypeOK, TypeOK', Failover, NEW n \in Named, NEW r \in Rooms, JoinRoom(n, r)
  PROVE  Failover'
  <1>1. undisturbed' => ~FailingOver'
    BY DEF JoinRoom, FailingOver
  <1>2. ConnectedIdle' /\ PendingHasSiblings'
    BY DEF JoinRoom, Failover, ConnectedIdle, PendingHasSiblings
  <1>3. Seated'
    BY DEF JoinRoom, Seated
  <1> QED BY <1>1, <1>2, <1>3, Quiet DEF Failover

LEMMA LeaveRoomFailover ==
  ASSUME TypeOK, TypeOK', Failover, NEW n \in Named, NEW r \in Rooms, LeaveRoom(n, r)
  PROVE  Failover'
  <1>1. undisturbed' => ~FailingOver'
    BY DEF LeaveRoom, FailingOver
  <1>2. ConnectedIdle' /\ PendingHasSiblings'
    BY DEF LeaveRoom, Failover, ConnectedIdle, PendingHasSiblings
  <1>3. Seated'
    <2>1. ~seat' \/ (seat /\ curNode' = curNode /\ curRoom' = curRoom)
      BY DEF LeaveRoom
    <2>2. online' = online /\ pendingRoom' = pendingRoom
      BY DEF LeaveRoom
    <2> QED BY <2>1, <2>2 DEF Failover, Seated
  <1> QED BY <1>1, <1>2, <1>3, Quiet DEF Failover

LEMMA ChatFailover ==
  ASSUME TypeOK, Failover, NEW n \in Named, NEW r \in Rooms,
         SubscribeRoomChat(n, r) \/ UnsubscribeRoomChat(n, r)
  PROVE  Failover'
  <1>1. PICK m \in Routes(n), kind \in {"subscribe", "unsubscribe"} :
          up' = SendTo(up, {m}, Message(kind, r))
    BY DEF SubscribeRoomChat, UnsubscribeRoomChat
  <1>2. /\ UNCHANGED <<online, curNode, curRoom, inProgress, pendingRoom, rejoin, seat, undisturbed>>
        /\ down' = down
    BY DEF SubscribeRoomChat, UnsubscribeRoomChat, history
  <1>3. ASSUME Awaited PROVE Awaited'
    <2>1. curNode \in Nodes /\ up \in [Nodes -> Seq(Messages)]
      BY <1>3 DEF Awaited, TypeOK
    <2>2. Message(kind, r) \in Messages
      BY MessageForm
    <2>3. up'[curNode] = up[curNode] \/ up'[curNode] = Append(up[curNode], Message(kind, r))
      BY <1>1, <2>1, <2>2, SendToAdds
    <2> QED BY <1>2, <1>3, <2>2, <2>3, AwaitedMonotone
  <1> QED BY <1>2, <1>3, FailoverFrame

LEMMA WsConnectedFailover ==
  ASSUME TypeOK, TypeOK', Failover, NEW n \in Nodes, WsConnected(n)
  PROVE  Failover'
  <1>1. CASE rejoin[n] = NoRoom
    <2>1. /\ UNCHANGED <<curNode, curRoom, pendingRoom, rejoin, up, down, seat, undisturbed>>
          /\ online' = online \cup {n} /\ inProgress' = inProgress \ {n}
      BY <1>1 DEF WsConnected
    <2>2. ConnectedIdle'
      BY <1>1, <2>1 DEF Failover, ConnectedIdle
    <2>3. PendingHasSiblings' /\ Seated' /\ CurrentAgrees'
      BY <2>1 DEF Failover, PendingHasSiblings, Seated, CurrentAgrees
    <2>4. ArmedAgree'
      <3>1. CASE ~undisturbed
        BY <2>1, <3>1 DEF ArmedAgree
      <3>2. CASE \A m \in Nodes : rejoin[m] \in {NoRoom, pendingRoom}
        BY <2>1, <3>2 DEF ArmedAgree
      <3>3. CASE \A k, m \in Nodes : rejoin[k] = rejoin[m]
        <4>1. \A m \in Nodes : rejoin[m] = NoRoom
          BY <1>1, <3>3
        <4> QED BY <2>1, <4>1 DEF ArmedAgree
      <3> QED BY <3>1, <3>2, <3>3 DEF Failover, ArmedAgree
    <2>5. FailoverAnswered'
      <3> SUFFICES ASSUME pendingRoom # NoRoom, undisturbed PROVE Awaited'
        BY <2>1, AnsweredFormNext
      <3>1. Awaited
        BY <1>1, AnsweredForm DEF Failover, AllArmed
      <3> QED BY <2>1, <3>1 DEF Awaited, Queued, Message
    <2> QED BY <2>2, <2>3, <2>4, <2>5 DEF Failover
  <1>2. CASE rejoin[n] # NoRoom
    <2>1. /\ rejoin' = Disarmed(rejoin[n]) /\ pendingRoom' = NoPending(rejoin[n])
          /\ seat' = FALSE /\ undisturbed' = undisturbed
          /\ online' = online \cup {n} /\ inProgress' = inProgress \ {n}
      BY <1>2 DEF WsConnected
    <2>2. \A m \in Nodes : rejoin'[m] \in {NoRoom, rejoin[m]} /\ rejoin'[n] = NoRoom
      BY <2>1 DEF Disarmed
    <2>3. ConnectedIdle'
      BY <2>1, <2>2 DEF Failover, ConnectedIdle, TypeOK
    <2>4. PendingHasSiblings' /\ Seated'
      BY <2>1 DEF Failover, PendingHasSiblings, Seated, NoPending
    <2>5. ASSUME undisturbed PROVE ~FailingOver'
      <3>1. CASE \A m \in Nodes : rejoin[m] \in {NoRoom, pendingRoom}
        <4>1. rejoin[n] = pendingRoom
          BY <1>2, <3>1
        <4> QED BY <2>1, <3>1, <4>1 DEF FailingOver, Disarmed, NoPending
      <3>2. CASE online = {} /\ \A k, m \in Nodes : rejoin[k] = rejoin[m]
        <4>1. \A m \in Nodes : rejoin'[m] = NoRoom
          BY <2>1, <3>2 DEF Disarmed
        <4>2. pendingRoom # NoRoom => pendingRoom = rejoin[n]
          BY <2>5, <3>2, AnsweredForm DEF Failover, Awaited, AllArmed
        <4> QED BY <2>1, <4>1, <4>2 DEF FailingOver, NoPending
      <3> QED BY <2>5, <3>1, <3>2 DEF Failover, ArmedAgree
    <2> QED BY <2>1, <2>3, <2>4, <2>5, Quiet DEF Failover
  <1> QED BY <1>1, <1>2

(* What is armed, or waited for, is the current room, when there is one.   *)
LEMMA UnderWay ==
  ASSUME TypeOK, Failover, undisturbed, curRoom # NoRoom
  PROVE  /\ pendingRoom \in {NoRoom, curRoom}
         /\ \A m \in Nodes : rejoin[m] \in {NoRoom, curRoom}
  <1>1. \A r \in Rooms : pendingRoom = r => curRoom = r
    BY DEF Failover, CurrentAgrees
  <1>2. \A r \in Rooms : (\E m \in Nodes : rejoin[m] = r) => curRoom = r
    BY DEF Failover, CurrentAgrees
  <1>3. pendingRoom \in {NoRoom, curRoom}
    BY <1>1 DEF TypeOK
  <1>4. \A m \in Nodes : rejoin[m] \in {NoRoom, curRoom}
    BY <1>2 DEF TypeOK
  <1> QED BY <1>3, <1>4

LEMMA FailOverFailover ==
  ASSUME TypeOK, TypeOK', Failover, NEW n \in Nodes, curNode = n, curRoom # NoRoom,
         Nodes # {n}, FailOver(n, curRoom, online \ {n}), online' = online \ {n},
         seat' = FALSE, undisturbed' = undisturbed
  PROVE  Failover'
  <1> DEFINE live == online \ {n}
  <1>1. /\ inProgress' = inProgress \cup {n} /\ curRoom' = curRoom /\ curRoom \in Rooms
        /\ rejoin' = [m \in Nodes |->
             IF live = {} \/ m \notin live \cup {n} THEN curRoom ELSE rejoin[m]]
    BY DEF FailOver, TypeOK
  <1>2. ConnectedIdle'
    <2>1. \A m \in live : rejoin'[m] = rejoin[m]
      BY <1>1 DEF TypeOK
    <2> QED BY <1>1, <2>1 DEF Failover, ConnectedIdle
  <1>3. Seated'
    BY DEF Seated
  <1>4. PendingHasSiblings'
    <2>1. CASE live = {}
      BY <2>1 DEF FailOver, Failover, PendingHasSiblings
    <2>2. CASE live # {}
      BY <2>2 DEF PendingHasSiblings, TypeOK
    <2> QED BY <2>1, <2>2
  <1>5. ASSUME undisturbed, NEW m \in Nodes PROVE rejoin'[m] \in {NoRoom, curRoom}
    <2>1. rejoin[m] \in {NoRoom, curRoom}
      BY <1>5, UnderWay
    <2>2. rejoin'[m] = curRoom \/ rejoin'[m] = rejoin[m]
      BY <1>1
    <2> QED BY <2>1, <2>2
  <1>6. undisturbed => pendingRoom' \in {NoRoom, curRoom}
    BY UnderWay DEF FailOver
  <1>7. CurrentAgrees'
    <2> SUFFICES ASSUME undisturbed, NEW r \in Rooms,
                        pendingRoom' = r \/ \E m \in Nodes : rejoin'[m] = r
                 PROVE  curRoom = r
      BY <1>1 DEF CurrentAgrees
    <2>1. r # NoRoom
      BY RoomsAssumption
    <2>2. pendingRoom' = r => curRoom = r
      BY <1>6, <2>1
    <2>3. \A m \in Nodes : rejoin'[m] = r => curRoom = r
      BY <1>5, <2>1
    <2> QED BY <2>2, <2>3
  <1>8. CASE live = {}
    <2>1. online' = {} /\ \A m \in Nodes : rejoin'[m] = curRoom
      BY <1>1, <1>8
    <2>2. ArmedAgree'
      BY <2>1 DEF ArmedAgree
    <2>3. undisturbed /\ pendingRoom' # NoRoom => AllArmed'
      BY <1>6, <2>1 DEF AllArmed
    <2>4. FailoverAnswered'
      BY <2>3, AnsweredFormNext
    <2> QED BY <1>2, <1>3, <1>4, <1>7, <2>2, <2>4 DEF Failover
  <1>9. CASE live # {}
    <2>1. /\ pendingRoom' = curRoom /\ curNode' \in live
          /\ up' = SendTo([up EXCEPT ![n] = <<>>], live, Message("join", curRoom))
      BY <1>9 DEF FailOver
    <2>2. ArmedAgree'
      BY <1>5, <2>1 DEF ArmedAgree
    <2>3. [up EXCEPT ![n] = <<>>] \in [Nodes -> Seq(Messages)] /\ curNode' \in Nodes
      BY <2>1 DEF TypeOK
    <2>4. Message("join", curRoom) \in Messages
      BY <1>1, MessageForm
    <2> DEFINE cleared == [up EXCEPT ![n] = <<>>]
    <2> HIDE DEF cleared
    <2>5. up' = SendTo(cleared, live, Message("join", curRoom))
          /\ cleared \in [Nodes -> Seq(Messages)]
      BY <2>1, <2>3 DEF cleared
    <2>6. PICK x \in live : x = curNode'
      BY <2>1
    <2>7. x \in Nodes /\ x \in live \cap online /\ cleared[x] \in Seq(Messages)
      BY <2>5, <2>6 DEF TypeOK
    <2>8. up'[x] = Append(cleared[x], Message("join", curRoom))
      BY <2>4, <2>5, <2>7, SendToAdds
    <2>9. Holds(up'[x], Message("join", curRoom))
      BY <2>4, <2>7, <2>8, HoldsAppend
    <2>10. Awaited'
      BY <1>1, <2>1, <2>6, <2>9 DEF Awaited, Queued, Holds, Message
    <2>11. FailoverAnswered'
      BY <2>10, AnsweredFormNext
    <2> QED BY <1>2, <1>3, <1>4, <1>7, <2>2, <2>11 DEF Failover
  <1> QED BY <1>8, <1>9

LEMMA WsDisconnectedFailover ==
  ASSUME TypeOK, TypeOK', Failover, NEW n \in Nodes, WsDisconnected(n)
  PROVE  Failover'
  <1>0. /\ online' = online \ {n} /\ undisturbed' = undisturbed
        /\ seat' = (seat /\ curNode # n)
        /\ \A m \in down : m.from # n => m \in down'
    BY DEF WsDisconnected
  <1>1. CASE curNode = n /\ curRoom # NoRoom /\ n \notin inProgress /\ Nodes # {n}
    BY <1>0, <1>1, FailOverFailover DEF WsDisconnected
  <1>2. CASE ~(curNode = n /\ curRoom # NoRoom /\ n \notin inProgress /\ Nodes # {n})
    <2>1. /\ curNode' = IF curNode = n THEN NoNode ELSE curNode
          /\ curRoom' = IF curNode = n THEN NoRoom ELSE curRoom
          /\ up' = [up EXCEPT ![n] = <<>>]
          /\ UNCHANGED <<inProgress, pendingRoom, rejoin>>
      BY <1>2 DEF WsDisconnected
    <2>2. ConnectedIdle' /\ PendingHasSiblings'
      BY <1>0, <2>1 DEF Failover, ConnectedIdle, PendingHasSiblings
    <2>3. Seated'
      BY <1>0, <2>1 DEF Failover, Seated
    <2>4. ArmedAgree'
      BY <1>0, <2>1 DEF Failover, ArmedAgree
    <2>5. CurrentAgrees'
      BY <1>0, <2>1 DEF Failover, CurrentAgrees
    <2>6. FailoverAnswered'
      <3> SUFFICES ASSUME pendingRoom # NoRoom, undisturbed PROVE Awaited' \/ AllArmed'
        BY <1>0, <2>1, AnsweredFormNext
      <3>1. CASE AllArmed
        BY <1>0, <2>1, <3>1 DEF AllArmed
      <3>2. CASE Awaited
        <4>1. curNode # n
          BY <1>2, <3>2 DEF Awaited, Failover, ConnectedIdle, PendingHasSiblings
        <4>2. up'[curNode] = up[curNode]
          BY <2>1, <3>2, <4>1 DEF TypeOK, Awaited
        <4>3. curNode \in online' /\ curNode' = curNode /\ curRoom' = curRoom
          BY <1>0, <2>1, <3>2, <4>1 DEF Awaited
        <4> QED BY <1>0, <2>1, <3>2, <4>1, <4>2, <4>3 DEF Awaited, Queued, Message
      <3> QED BY <3>1, <3>2, AnsweredForm DEF Failover
    <2> QED BY <2>2, <2>3, <2>4, <2>5, <2>6 DEF Failover
  <1> QED BY <1>1, <1>2

LEMMA HandleMembersFailover ==
  ASSUME TypeOK, TypeOK', Failover, NEW n \in Nodes, NEW r \in Rooms, HandleMembers(n, r)
  PROVE  Failover'
  <1>0. /\ UNCHANGED <<online, inProgress, up, undisturbed>>
        /\ down' = down \ {Members(n, r)} /\ r # NoRoom
    BY RoomsAssumption DEF HandleMembers
  <1>1. CASE pendingRoom = r
    <2>1. /\ pendingRoom' = NoRoom /\ curNode' = n /\ curRoom' = r
          /\ rejoin' = Disarmed(r) /\ seat' = (n \in online)
      BY <1>1 DEF HandleMembers
    <2>2. \A m \in Nodes : rejoin'[m] \in {NoRoom, rejoin[m]}
      BY <2>1 DEF Disarmed
    <2>3. ConnectedIdle'
      BY <1>0, <2>2 DEF Failover, ConnectedIdle, TypeOK
    <2>4. PendingHasSiblings' /\ Seated'
      BY <1>0, <2>1 DEF PendingHasSiblings, Seated
    <2>5. ASSUME undisturbed PROVE ~FailingOver'
      <3>1. \A m \in Nodes : rejoin[m] \in {NoRoom, r}
        <4>1. CASE \A m \in Nodes : rejoin[m] \in {NoRoom, pendingRoom}
          BY <1>1, <4>1
        <4>2. CASE online = {}
          BY <1>0, <1>1, <2>5, <4>2, AnsweredForm DEF Failover, Awaited, AllArmed
        <4> QED BY <2>5, <4>1, <4>2 DEF Failover, ArmedAgree
      <3> QED BY <2>1, <3>1 DEF FailingOver, Disarmed
    <2> QED BY <1>0, <2>3, <2>4, <2>5, Quiet DEF Failover
  <1>2. CASE pendingRoom # r
    <2>1. /\ UNCHANGED <<pendingRoom, curNode, curRoom, rejoin>>
          /\ seat' => seat \/ (curRoom = r /\ curNode = n /\ n \in online)
      BY <1>2 DEF HandleMembers
    <2>2. (ConnectedIdle /\ PendingHasSiblings /\ ArmedAgree /\ CurrentAgrees)'
      BY <1>0, <2>1 DEF Failover, ConnectedIdle, PendingHasSiblings, ArmedAgree, CurrentAgrees
    <2>3. Seated'
      BY <1>0, <1>2, <2>1 DEF Failover, Seated
    <2>4. Awaited => Awaited'
      <3> SUFFICES ASSUME Awaited PROVE Awaited'
        OBVIOUS
      <3>1. \A m \in down : m.from = curNode /\ m.room = curRoom => m \in down'
        BY <1>0, <1>2, AnswerForm DEF Awaited
      <3> QED BY <1>0, <2>1, <3>1, AwaitedMonotone
    <2>5. AllArmed => AllArmed'
      BY <1>0, <2>1 DEF AllArmed
    <2>6. FailoverAnswered'
      BY <1>0, <2>1, <2>4, <2>5, AnsweredForm, AnsweredFormNext DEF Failover
    <2> QED BY <2>2, <2>3, <2>6 DEF Failover
  <1> QED BY <1>1, <1>2

LEMMA HandleJoinResultFailover ==
  ASSUME TypeOK, TypeOK', Failover, NEW n \in Nodes, NEW r \in Rooms,
         NEW why \in Reasons, HandleJoinResult(n, r, why)
  PROVE  Failover'
  <1>0. /\ UNCHANGED <<online, inProgress, up, undisturbed>>
        /\ down' = down \ {JoinResult(n, r, why)} /\ r # NoRoom
        /\ rejoin' = Disarmed(r) /\ pendingRoom' = NoPending(r)
    BY RoomsAssumption DEF HandleJoinResult
  <1>1. /\ curRoom # r => curRoom' = curRoom /\ curNode' = curNode
        /\ curRoom' \in {NoRoom, curRoom}
        /\ seat' => seat /\ curRoom' = curRoom /\ curNode' = curNode
    BY DEF HandleJoinResult
  <1>2. /\ \A m \in Nodes : rejoin'[m] \in {NoRoom, rejoin[m]}
        /\ pendingRoom' \in {NoRoom, pendingRoom}
    BY <1>0 DEF Disarmed, NoPending
  <1>3. ConnectedIdle'
    BY <1>0, <1>2 DEF Failover, ConnectedIdle, TypeOK
  <1>4. PendingHasSiblings'
    BY <1>2 DEF Failover, PendingHasSiblings
  <1>5. Seated'
    BY <1>0, <1>1, <1>2, RoomsAssumption DEF Failover, Seated
  <1>6. CASE ~undisturbed
    BY <1>0, <1>3, <1>4, <1>5, <1>6, Quiet DEF Failover
  <1>7. CASE undisturbed /\ pendingRoom' = pendingRoom /\ rejoin' = rejoin /\ pendingRoom # r
    <2>1. ArmedAgree'
      BY <1>0, <1>7 DEF Failover, ArmedAgree
    <2>2. CurrentAgrees'
      BY <1>0, <1>1, <1>7 DEF Failover, CurrentAgrees
    <2>3. AllArmed => AllArmed'
      BY <1>0, <1>7 DEF AllArmed
    <2>4. ASSUME Awaited PROVE Awaited'
      <3>1. curRoom # r
        BY <1>7, <2>4 DEF Awaited
      <3>2. \A m \in down : m.from = curNode /\ m.room = curRoom => m \in down'
        BY <1>0, <3>1, AnswerForm
      <3> QED BY <1>0, <1>1, <1>7, <2>4, <3>1, <3>2, AwaitedMonotone
    <2>5. FailoverAnswered'
      BY <1>0, <1>7, <2>3, <2>4, AnsweredForm, AnsweredFormNext DEF Failover
    <2> QED BY <1>3, <1>4, <1>5, <2>1, <2>2, <2>5 DEF Failover
  <1>8. ASSUME undisturbed
        PROVE  \/ ~FailingOver'
               \/ pendingRoom' = pendingRoom /\ rejoin' = rejoin /\ pendingRoom # r
    <2>0. pendingRoom # NoRoom /\ online = {} => \A m \in Nodes : rejoin[m] = pendingRoom
      BY <1>8, AnsweredForm DEF Failover, Awaited, AllArmed
    <2>1. CASE \A m \in Nodes : rejoin[m] \in {NoRoom, pendingRoom}
      <3>1. CASE pendingRoom = r
        BY <1>0, <2>1, <3>1 DEF FailingOver, Disarmed, NoPending
      <3>2. CASE pendingRoom # r
        <4>1. \A m \in Nodes : rejoin[m] # r
          BY <1>0, <2>1, <3>2
        <4>2. rejoin' = rejoin /\ pendingRoom' = pendingRoom
          BY <1>0, <3>2, <4>1 DEF Disarmed, NoPending, TypeOK
        <4> QED BY <3>2, <4>2
      <3> QED BY <3>1, <3>2
    <2>2. CASE online = {} /\ \A k, m \in Nodes : rejoin[k] = rejoin[m]
      <3>1. CASE rejoin[n] = r
        <4>1. pendingRoom \in {NoRoom, r}
          BY <2>0, <2>2, <3>1
        <4>2. \A m \in Nodes : rejoin[m] = r
          BY <2>2, <3>1
        <4> QED BY <1>0, <4>1, <4>2 DEF FailingOver, Disarmed, NoPending
      <3>2. CASE rejoin[n] # r
        <4>1. pendingRoom # r /\ \A m \in Nodes : rejoin[m] # r
          BY <1>0, <2>0, <2>2, <3>2
        <4>2. rejoin' = rejoin /\ pendingRoom' = pendingRoom
          BY <1>0, <4>1 DEF Disarmed, NoPending, TypeOK
        <4> QED BY <4>1, <4>2
      <3> QED BY <3>1, <3>2
    <2> QED BY <1>8, <2>1, <2>2 DEF Failover, ArmedAgree
  <1> QED BY <1>0, <1>3, <1>4, <1>5, <1>6, <1>7, <1>8, Quiet DEF Failover

LEMMA RetryJoinFailover ==
  ASSUME TypeOK, TypeOK', Failover, NEW n \in Nodes, NEW r \in Rooms, RetryJoin(n, r)
  PROVE  Failover'
  <1>0. /\ UNCHANGED <<online, inProgress, pendingRoom, rejoin, down>>
        /\ undisturbed' = (undisturbed /\ ~(FailingOver /\ curRoom = NoRoom))
    BY DEF RetryJoin
  <1>1. PICK m \in Routes(n) :
          LET moved == curRoom \in {r, NoRoom}
          IN  /\ curNode' = IF moved THEN m ELSE curNode
              /\ curRoom' = IF moved THEN r ELSE curRoom
              /\ seat' = (seat /\ ~moved)
              /\ SendJoin({m}, r)
    BY DEF RetryJoin
  <1>2. up' = SendTo(up, {m}, Message("join", r)) /\ Message("join", r) \in Messages
        /\ up \in [Nodes -> Seq(Messages)]
    BY <1>1, MessageForm DEF SendJoin, TypeOK
  <1>3. ConnectedIdle' /\ PendingHasSiblings'
    BY <1>0 DEF Failover, ConnectedIdle, PendingHasSiblings
  <1>4. CASE curRoom \notin {r, NoRoom}
    <2>1. UNCHANGED <<curNode, curRoom, seat, undisturbed>>
      <3>1. UNCHANGED <<curNode, curRoom>> /\ undisturbed' = undisturbed
        BY <1>0, <1>1, <1>4 DEF TypeOK
      <3>2. seat' = seat
        BY <1>1, <1>4 DEF TypeOK
      <3> QED BY <3>1, <3>2
    <2>2. ASSUME Awaited PROVE Awaited'
      <3>1. curNode \in Nodes
        BY <2>2 DEF Awaited, TypeOK
      <3>2. up'[curNode] = up[curNode] \/ up'[curNode] = Append(up[curNode], Message("join", r))
        BY <1>2, <3>1, SendToAdds
      <3> QED BY <1>0, <1>2, <2>1, <2>2, <3>2, AwaitedMonotone
    <2> QED BY <1>0, <2>1, <2>2, FailoverFrame
  <1>5. CASE curRoom = NoRoom
    <2>1. undisturbed' => ~FailingOver'
      BY <1>0, <1>5 DEF FailingOver
    <2>2. Seated'
      BY <1>1, <1>5 DEF Seated
    <2> QED BY <1>3, <2>1, <2>2, Quiet DEF Failover
  <1>6. CASE curRoom = r
    <2>1. curNode' = m /\ curRoom' = curRoom /\ seat' = FALSE /\ undisturbed' = undisturbed
      <3>1. r # NoRoom
        BY RoomsAssumption
      <3> QED BY <1>0, <1>1, <1>6, <3>1 DEF TypeOK
    <2>2. ArmedAgree' /\ CurrentAgrees' /\ Seated'
      BY <1>0, <2>1 DEF Failover, ArmedAgree, CurrentAgrees, Seated
    <2>3. AllArmed => AllArmed'
      BY <1>0 DEF AllArmed
    <2>4. ASSUME Awaited PROVE Awaited'
      <3>1. m \in online /\ m \in Nodes /\ up[m] \in Seq(Messages)
        BY <2>4, RoutesForm DEF Awaited, TypeOK
      <3>2. up'[m] = Append(up[m], Message("join", r))
        BY <1>2, <3>1, SendToAdds
      <3>3. Holds(up'[m], Message("join", r))
        BY <1>2, <3>1, <3>2, HoldsAppend
      <3> QED BY <1>0, <1>6, <2>1, <2>4, <3>1, <3>3 DEF Awaited, Queued, Holds, Message
    <2>5. FailoverAnswered'
      BY <1>0, <2>1, <2>3, <2>4, AnsweredForm, AnsweredFormNext DEF Failover
    <2> QED BY <1>3, <2>2, <2>5 DEF Failover
  <1> QED BY <1>4, <1>5, <1>6

(* A join is answered when it is read.                                     *)
LEMMA ServeAnswers ==
  ASSUME TypeOK, NEW n \in Nodes, NEW r \in Rooms, Serve(n), Head(up[n]) = Message("join", r)
  PROVE  \E m \in down' : m.from = n /\ m.room = r
  <1>1. Head(up[n]).kind = "join" /\ Head(up[n]).room = r
    BY MessageForm
  <1>2. ServeJoin(n, r)
    BY <1>1 DEF Serve
  <1>3. CASE voice' = [voice EXCEPT ![n] = @ \cup {r}] /\ down' = down \cup Roster(n, r)
    <2>1. r \in voice'[n]
      BY <1>3 DEF TypeOK
    <2>2. Members(n, r) \in down'
      BY <1>3, <2>1 DEF Roster
    <2> QED BY <2>2, AnswerForm
  <1>4. CASE \E why \in Reasons : down' = down \cup {JoinResult(n, r, why)}
    BY <1>4, AnswerForm
  <1> QED BY <1>2, <1>3, <1>4 DEF ServeJoin, Reasons

LEMMA ServeKeeps ==
  ASSUME NEW n \in Nodes, Serve(n)
  PROVE  down \subseteq down'
  <1> DEFINE r == Head(up[n]).room
  <1>1. \/ ServeJoin(n, r) \/ ServeLeave(n, r) \/ ServeSubscribe(n, r) \/ ServeUnsubscribe(n, r)
    BY DEF Serve
  <1> QED BY <1>1 DEF ServeJoin, ServeLeave, ServeSubscribe, ServeUnsubscribe

LEMMA ServeFailover ==
  ASSUME TypeOK, Failover, NEW n \in Nodes, Serve(n)
  PROVE  Failover'
  <1>1. /\ UNCHANGED <<online, curNode, curRoom, inProgress, pendingRoom, rejoin, seat, undisturbed>>
        /\ up[n] # <<>> /\ up' = [up EXCEPT ![n] = Tail(@)]
    BY DEF Serve, manager, history
  <1>2. ASSUME Awaited PROVE Awaited'
    <2>0. (curNode \in online /\ curRoom = pendingRoom)' /\ curNode \in Nodes
      BY <1>1, <1>2 DEF Awaited, TypeOK
    <2>1. CASE \E m \in down : m.from = curNode /\ m.room = curRoom
      BY <1>1, <2>0, <2>1, ServeKeeps DEF Awaited
    <2>2. CASE Queued(curNode, Message("join", curRoom)) /\ curNode # n
      <3>1. up'[curNode] = up[curNode]
        BY <1>1, <2>0, <2>2 DEF TypeOK
      <3> QED BY <1>1, <2>0, <2>2, <3>1 DEF Awaited, Queued, Message
    <2>3. CASE Queued(n, Message("join", curRoom)) /\ curNode = n
      <3>1. up[n] \in Seq(Messages) /\ Holds(up[n], Message("join", curRoom))
        BY <2>3 DEF TypeOK, Queued, Holds
      <3>2. CASE Head(up[n]) = Message("join", curRoom)
        <4>1. curRoom \in Rooms
          BY <1>1, <3>1, <3>2, TailForm DEF Messages, Message
        <4>2. \E m \in down' : m.from = n /\ m.room = curRoom
          BY <3>2, <4>1, ServeAnswers
        <4> QED BY <1>1, <2>0, <2>3, <4>2 DEF Awaited
      <3>3. CASE Holds(Tail(up[n]), Message("join", curRoom))
        <4>1. up'[n] = Tail(up[n])
          BY <1>1 DEF TypeOK
        <4> QED BY <1>1, <2>0, <2>3, <3>3, <4>1 DEF Awaited, Queued, Holds, Message
      <3> QED BY <1>1, <3>1, <3>2, <3>3, HoldsTail
    <2> QED BY <1>2, <2>1, <2>2, <2>3 DEF Awaited
  <1> QED BY <1>1, <1>2, FailoverFrame

(* A step of the rest of the system.                                       *)
LEMMA OtherFailover ==
  ASSUME TypeOK, Failover,
         UNCHANGED <<online, curNode, curRoom, inProgress, pendingRoom, rejoin, seat,
                     undisturbed>>,
         up' = up, down \subseteq down'
  PROVE  Failover'
  BY AwaitedMonotone, FailoverFrame

-----------------------------------------------------------------------------
(* The leaves                                                              *)

Leaves == LeaveFollows /\ LeaveReachesAll

(* Room r is left, or will be, at a node that lists the client as `listed' *)
(* says and has not read q.                                                *)
LeftFor(q, listed, r) ==
  Covered(q, r) /\ (r \in listed => Holds(q, Message("leave", r)))

LEMMA LeavesForm ==
  Leaves <=> \A n \in Nodes : \A r \in left[n] : LeftFor(up[n], voice[n], r)
  BY DEF Leaves, LeaveFollows, LeaveReachesAll, LeftFor, Covered, Holds, Queued

LEMMA LeavesFormNext ==
  Leaves' <=> \A n \in Nodes : \A r \in left'[n] : LeftFor(up'[n], voice'[n], r)
  BY DEF Leaves, LeaveFollows, LeaveReachesAll, LeftFor, Covered, Holds, Queued, Message

LEMMA JoinsDiffer ==
  \A r, s : Message("join", r) = Message("join", s) => r = s
  BY DEF Message

LEMMA OtherMessages ==
  \A r, s : /\ Message("leave", r) # Message("join", s)
            /\ Message("subscribe", r) # Message("join", s)
            /\ Message("unsubscribe", r) # Message("join", s)
  BY DEF Message

(* What node m did or was sent does not undo the leave of s.               *)
Kept(m, s) ==
  /\ s \in left[m] /\ (s \in voice'[m] => s \in voice[m])
  /\ \/ up'[m] = up[m]
     \/ \E k \in Messages : k # Message("join", s) /\ up'[m] = Append(up[m], k)

LEMMA LeavesFrame ==
  ASSUME TypeOK, Leaves, \A m \in Nodes : \A s \in left'[m] : Kept(m, s)
  PROVE  Leaves'
  <1> SUFFICES ASSUME NEW m \in Nodes, NEW s \in left'[m]
               PROVE  LeftFor(up'[m], voice'[m], s)
    BY LeavesFormNext
  <1>1. s \in left[m] /\ (s \in voice'[m] => s \in voice[m]) /\ up[m] \in Seq(Messages)
    BY DEF Kept, TypeOK
  <1>2. LeftFor(up[m], voice[m], s)
    BY <1>1, LeavesForm
  <1>3. CASE up'[m] = up[m]
    BY <1>1, <1>2, <1>3 DEF LeftFor
  <1>4. ASSUME NEW k \in Messages, k # Message("join", s), up'[m] = Append(up[m], k)
        PROVE  LeftFor(up'[m], voice'[m], s)
    <2>1. Covered(up'[m], s)
      BY <1>1, <1>2, <1>4, CoveredAppend DEF LeftFor
    <2>2. s \in voice'[m] => Holds(up'[m], Message("leave", s))
      BY <1>1, <1>2, <1>4, HoldsAppend DEF LeftFor
    <2> QED BY <2>1, <2>2 DEF LeftFor
  <1> QED BY <1>3, <1>4 DEF Kept

LEMMA SendJoinKept ==
  ASSUME TypeOK, NEW nodes, NEW r \in Rooms, SendJoin(nodes, r), voice' = voice,
         NEW m \in Nodes, NEW s \in left'[m]
  PROVE  Kept(m, s)
  <1>1. /\ up' = SendTo(up, nodes, Message("join", r)) /\ up \in [Nodes -> Seq(Messages)]
        /\ Message("join", r) \in Messages
    BY MessageForm DEF SendJoin, TypeOK
  <1>2. s \in left[m]
    BY DEF SendJoin, TypeOK
  <1>3. CASE m \in nodes
    <2>1. s # r
      BY <1>3 DEF SendJoin, TypeOK
    <2>2. Message("join", r) # Message("join", s)
      BY <2>1, JoinsDiffer
    <2>3. up'[m] = up[m] \/ up'[m] = Append(up[m], Message("join", r))
      BY <1>1, SendToAdds
    <2> QED BY <1>1, <1>2, <2>2, <2>3 DEF Kept
  <1>4. CASE m \notin nodes
    <2>1. up'[m] = up[m]
      BY <1>1, <1>4, SendToForm
    <2> QED BY <1>2, <2>1 DEF Kept
  <1> QED BY <1>3, <1>4

LEMMA LeaveRoomLeaves ==
  ASSUME TypeOK, Leaves, NEW n \in Named, NEW r \in Rooms, LeaveRoom(n, r)
  PROVE  Leaves'
  <1> DEFINE sent == SendTo(up, Nodes, Message("leave", r))
  <1>1. PICK k \in Routes(n) : up' \in {sent, SendTo(sent, {k}, Message("subscribe", r))}
    BY DEF LeaveRoom
  <1>2. voice' = voice
        /\ left' = [m \in Nodes |-> IF m \in online THEN left[m] \cup {r} ELSE left[m]]
    BY DEF LeaveRoom, node
  <1>3. /\ Message("leave", r) \in Messages /\ Message("subscribe", r) \in Messages
        /\ up \in [Nodes -> Seq(Messages)]
    BY MessageForm DEF TypeOK
  <1>4. /\ sent \in [Nodes -> Seq(Messages)]
        /\ \A m \in Nodes :
             sent[m] = IF m \in online THEN Append(up[m], Message("leave", r)) ELSE up[m]
    BY <1>3, SendToForm
  <1> HIDE DEF sent
  <1> SUFFICES ASSUME NEW m \in Nodes, NEW s \in left'[m]
               PROVE  LeftFor(up'[m], voice[m], s)
    BY <1>2, LeavesFormNext
  <1>5. LeftFor(sent[m], voice[m], s)
    <2>0. up[m] \in Seq(Messages)
      BY <1>3
    <2>1. CASE m \in online /\ s = r
      <3>1. sent[m] = Append(up[m], Message("leave", r))
        BY <1>4, <2>1
      <3>2. Covered(sent[m], r) /\ Holds(sent[m], Message("leave", r))
        BY <1>3, <2>0, <3>1, CoveredLeave, HoldsAppend
      <3> QED BY <2>1, <3>2 DEF LeftFor
    <2>2. CASE ~(m \in online /\ s = r)
      <3>1. s \in left[m]
        BY <1>2, <2>2 DEF TypeOK
      <3>2. LeftFor(up[m], voice[m], s)
        BY <3>1, LeavesForm
      <3>3. CASE sent[m] = up[m]
        BY <3>2, <3>3
      <3>4. CASE sent[m] = Append(up[m], Message("leave", r))
        <4>1. Covered(sent[m], s)
          BY <1>3, <2>0, <3>2, <3>4, CoveredAppend, OtherMessages DEF LeftFor
        <4>2. s \in voice[m] => Holds(sent[m], Message("leave", s))
          BY <1>3, <2>0, <3>2, <3>4, HoldsAppend DEF LeftFor
        <4> QED BY <4>1, <4>2 DEF LeftFor
      <3> QED BY <1>4, <3>3, <3>4
    <2> QED BY <2>1, <2>2
  <1>6. CASE up' = sent
    BY <1>5, <1>6
  <1>7. CASE up' = SendTo(sent, {k}, Message("subscribe", r))
    <2>1. up'[m] = sent[m] \/ up'[m] = Append(sent[m], Message("subscribe", r))
      BY <1>3, <1>4, <1>7, SendToAdds
    <2>2. sent[m] \in Seq(Messages)
      BY <1>4
    <2>3. CASE up'[m] = sent[m]
      BY <1>5, <2>3
    <2>4. CASE up'[m] = Append(sent[m], Message("subscribe", r))
      <3>1. Covered(up'[m], s)
        BY <1>3, <1>5, <2>2, <2>4, CoveredAppend, OtherMessages DEF LeftFor
      <3>2. s \in voice[m] => Holds(up'[m], Message("leave", s))
        BY <1>3, <1>5, <2>2, <2>4, HoldsAppend DEF LeftFor
      <3> QED BY <3>1, <3>2 DEF LeftFor
    <2> QED BY <2>1, <2>3, <2>4
  <1> QED BY <1>1, <1>6, <1>7

(* Reading a join lists the client, reading a leave delists it, and nothing *)
(* else changes what is listed.                                            *)
LEMMA ServeLists ==
  ASSUME TypeOK, NEW n \in Nodes, Serve(n), NEW r \in Rooms, r \in voice'[n]
  PROVE  /\ Head(up[n]) # Message("leave", r)
         /\ r \in voice[n] \/ Head(up[n]) = Message("join", r)
  <1> DEFINE h == Head(up[n])
  <1>1. h \in Messages /\ h = Message(h.kind, h.room)
    <2>1. up[n] \in Seq(Messages) /\ up[n] # <<>>
      BY DEF TypeOK, Serve
    <2>2. h \in Messages
      BY <2>1, TailForm
    <2> HIDE DEF h
    <2>3. h = Message(h.kind, h.room)
      BY <2>2 DEF Messages, Message
    <2> QED BY <2>2, <2>3
  <1>2. \/ h.kind = "join" /\ ServeJoin(n, h.room)
        \/ h.kind = "leave" /\ ServeLeave(n, h.room)
        \/ h.kind \notin {"join", "leave"} /\ voice' = voice
    BY DEF Serve, ServeSubscribe, ServeUnsubscribe
  <1> HIDE DEF h
  <1>3. Message("leave", r).kind = "leave" /\ Message("leave", r).room = r
    BY MessageForm
  <1>4. CASE h.kind = "join" /\ ServeJoin(n, h.room)
    <2>1. h # Message("leave", r)
      BY <1>3, <1>4
    <2>2. r \in voice[n] \/ r = h.room
      BY <1>4 DEF ServeJoin, TypeOK
    <2> QED BY <1>1, <1>4, <2>1, <2>2 DEF h
  <1>5. CASE h.kind = "leave" /\ ServeLeave(n, h.room)
    <2>1. r \in voice[n] /\ r # h.room
      BY <1>5 DEF ServeLeave, TypeOK
    <2> QED BY <1>3, <2>1 DEF h
  <1>6. CASE h.kind \notin {"join", "leave"} /\ voice' = voice
    BY <1>3, <1>6 DEF h
  <1> QED BY <1>2, <1>4, <1>5, <1>6

LEMMA ServeLeaves ==
  ASSUME TypeOK, Leaves, NEW n \in Nodes, Serve(n)
  PROVE  Leaves'
  <1>1. /\ left' = left /\ up[n] # <<>> /\ up' = [up EXCEPT ![n] = Tail(@)]
        /\ up[n] \in Seq(Messages)
    BY DEF Serve, history, TypeOK
  <1> SUFFICES ASSUME NEW m \in Nodes, NEW s \in left[m]
               PROVE  LeftFor(up'[m], voice'[m], s)
    BY <1>1, LeavesFormNext
  <1>2. LeftFor(up[m], voice[m], s) /\ s \in Rooms
    BY LeavesForm DEF TypeOK
  <1>3. CASE m # n
    <2>1. up'[m] = up[m]
      BY <1>1, <1>3 DEF TypeOK
    <2>2. voice'[m] = voice[m]
      <3> DEFINE r == Head(up[n]).room
      <3>1. \/ ServeJoin(n, r) \/ ServeLeave(n, r) \/ ServeSubscribe(n, r) \/ ServeUnsubscribe(n, r)
        BY DEF Serve
      <3> HIDE DEF r
      <3>2. \/ voice' = voice \/ voice' = [voice EXCEPT ![n] = @ \cup {r}]
            \/ voice' = [voice EXCEPT ![n] = @ \ {r}]
        BY <3>1 DEF ServeJoin, ServeLeave, ServeSubscribe, ServeUnsubscribe
      <3> QED BY <1>3, <3>2 DEF TypeOK
    <2> QED BY <1>2, <2>1, <2>2
  <1>4. CASE m = n
    <2>1. up'[n] = Tail(up[n])
      BY <1>1 DEF TypeOK
    <2>2. Covered(Tail(up[n]), s)
      BY <1>1, <1>2, <1>4, CoveredTail DEF LeftFor
    <2>3. ASSUME s \in voice'[n] PROVE Holds(Tail(up[n]), Message("leave", s))
      <3>1. CASE Head(up[n]) = Message("join", s)
        BY <1>1, <1>2, <1>4, <3>1, CoveredTail DEF LeftFor
      <3>2. CASE Head(up[n]) # Message("join", s)
        <4>1. s \in voice[n] /\ Head(up[n]) # Message("leave", s)
          BY <1>2, <2>3, <3>2, ServeLists
        <4>2. Holds(up[n], Message("leave", s))
          BY <1>2, <1>4, <4>1 DEF LeftFor
        <4> QED BY <1>1, <4>1, <4>2, HoldsTail
      <3> QED BY <3>1, <3>2
    <2> QED BY <1>4, <2>1, <2>2, <2>3 DEF LeftFor
  <1> QED BY <1>3, <1>4

LEMMA ChatLeaves ==
  ASSUME TypeOK, Leaves, NEW n \in Named, NEW r \in Rooms,
         SubscribeRoomChat(n, r) \/ UnsubscribeRoomChat(n, r)
  PROVE  Leaves'
  <1>1. PICK k \in Routes(n), kind \in {"subscribe", "unsubscribe"} :
          up' = SendTo(up, {k}, Message(kind, r))
    BY DEF SubscribeRoomChat, UnsubscribeRoomChat
  <1>2. voice' = voice /\ left' = left
    BY DEF SubscribeRoomChat, UnsubscribeRoomChat, node, history
  <1>3. Message(kind, r) \in Messages /\ up \in [Nodes -> Seq(Messages)]
    BY MessageForm DEF TypeOK
  <1>4. ASSUME NEW m \in Nodes, NEW s \in left'[m] PROVE Kept(m, s)
    <2>1. up'[m] = up[m] \/ up'[m] = Append(up[m], Message(kind, r))
      BY <1>1, <1>3, SendToAdds
    <2>2. Message(kind, r) # Message("join", s)
      BY OtherMessages
    <2> QED BY <1>2, <1>3, <1>4, <2>1, <2>2 DEF Kept
  <1> QED BY <1>4, LeavesFrame

LEMMA JoinLeaves ==
  ASSUME TypeOK, Leaves, NEW nodes, NEW r \in Rooms, SendJoin(nodes, r), voice' = voice
  PROVE  Leaves'
  BY SendJoinKept, LeavesFrame

LEMMA WsConnectedLeaves ==
  ASSUME TypeOK, Leaves, NEW n \in Nodes, WsConnected(n)
  PROVE  Leaves'
  <1>0. voice' = voice
    BY DEF WsConnected, node
  <1>1. CASE rejoin[n] = NoRoom
    <2>1. up' = up /\ left' = left
      BY <1>1 DEF WsConnected
    <2> QED BY <1>0, <2>1, LeavesFrame DEF Kept
  <1>2. CASE rejoin[n] # NoRoom
    <2>1. /\ up' = [up EXCEPT ![n] = Append(@, Message("join", rejoin[n]))]
          /\ left' = [left EXCEPT ![n] = @ \ {rejoin[n]}]
          /\ rejoin[n] \in Rooms
      BY <1>2 DEF WsConnected, TypeOK
    <2>2. Message("join", rejoin[n]) \in Messages
      BY <2>1, MessageForm
    <2>3. ASSUME NEW m \in Nodes, NEW s \in left'[m] PROVE Kept(m, s)
      <3>1. s \in left[m] /\ (m = n => s # rejoin[n])
        BY <2>1, <2>3 DEF TypeOK
      <3>2. m # n => up'[m] = up[m]
        BY <2>1 DEF TypeOK
      <3>3. m = n => up'[m] = Append(up[m], Message("join", rejoin[n]))
        BY <2>1 DEF TypeOK
      <3>4. m = n => Message("join", rejoin[n]) # Message("join", s)
        BY <3>1, JoinsDiffer
      <3> QED BY <1>0, <2>2, <3>1, <3>2, <3>3, <3>4 DEF Kept
    <2> QED BY <2>3, LeavesFrame
  <1> QED BY <1>1, <1>2

LEMMA WsDisconnectedLeaves ==
  ASSUME TypeOK, Leaves, NEW n \in Nodes, WsDisconnected(n)
  PROVE  Leaves'
  <1>0. voice' = voice
    BY DEF WsDisconnected, node
  <1>1. CASE curRoom # NoRoom /\ FailOver(n, curRoom, online \ {n})
    <2> DEFINE live == online \ {n}
               cleared == [up EXCEPT ![n] = <<>>]
    <2>1. /\ cleared \in [Nodes -> Seq(Messages)]
          /\ \A m \in Nodes : m # n => cleared[m] = up[m]
      BY DEF TypeOK
    <2>2. Message("join", curRoom) \in Messages
      BY <1>1, MessageForm DEF TypeOK
    <2>3. /\ up' = SendTo(cleared, live, Message("join", curRoom))
          /\ left' = [m \in Nodes |->
               IF m = n THEN {} ELSE IF m \in live THEN left[m] \ {curRoom} ELSE left[m]]
      BY <1>1 DEF FailOver
    <2> HIDE DEF cleared, live
    <2>4. ASSUME NEW m \in Nodes, NEW s \in left'[m] PROVE Kept(m, s)
      <3>1. m # n /\ s \in left[m] /\ (m \in live => s # curRoom)
        BY <2>3, <2>4 DEF TypeOK
      <3>2. m \notin live => up'[m] = up[m]
        BY <2>1, <2>2, <2>3, <3>1, SendToForm
      <3>3. up'[m] = up[m] \/ up'[m] = Append(up[m], Message("join", curRoom))
        BY <2>1, <2>2, <2>3, <3>1, SendToAdds
      <3>4. m \in live => Message("join", curRoom) # Message("join", s)
        BY <3>1, JoinsDiffer
      <3> QED BY <1>0, <2>2, <3>1, <3>2, <3>3, <3>4 DEF Kept
    <2> QED BY <2>4, LeavesFrame
  <1>2. CASE left' = [left EXCEPT ![n] = {}] /\ up' = [up EXCEPT ![n] = <<>>]
    <2>1. ASSUME NEW m \in Nodes, NEW s \in left'[m] PROVE Kept(m, s)
      <3>1. m # n /\ s \in left[m] /\ up'[m] = up[m]
        BY <1>2, <2>1 DEF TypeOK
      <3> QED BY <1>0, <3>1 DEF Kept
    <2> QED BY <2>1, LeavesFrame
  <1> QED BY <1>1, <1>2 DEF WsDisconnected

(* A step of the rest of the system.                                       *)
LEMMA OtherLeaves ==
  ASSUME TypeOK, Leaves, up' = up, left' = left,
         \A m \in Nodes : voice'[m] \subseteq voice[m]
  PROVE  Leaves'
  BY LeavesFrame DEF Kept

-----------------------------------------------------------------------------
(* The invariant                                                           *)

LEMMA InitInv == Init => Inv
  <1> SUFFICES ASSUME Init PROVE Inv
    OBVIOUS
  <1>1. TypeOK
    <2>1. -1 \in Attempts
      BY AttemptsForm
    <2>2. up \in [Nodes -> Seq(Messages)]
      BY DEF Init
    <2>3. commands \in 0 .. MaxCommands /\ events \in 0 .. MaxEvents
      BY BoundsAssumption DEF Init
    <2> QED BY <2>1, <2>2, <2>3, RoomsAssumption DEF Init, TypeOK
  <1>2. Failover
    BY RoomsAssumption
    DEF Init, Failover, ConnectedIdle, PendingHasSiblings, Seated, ArmedAgree, CurrentAgrees,
        FailoverAnswered
  <1>3. LeaveFollows /\ LeaveReachesAll
    BY DEF Init, LeaveFollows, LeaveReachesAll
  <1> QED BY <1>1, <1>2, <1>3 DEF Inv

LEMMA UserInv ==
  ASSUME Inv, NEW n \in Named, NEW r \in Rooms, UserStep(n, r)
  PROVE  Inv'
  <1>0. TypeOK /\ Failover /\ Leaves
    BY DEF Inv, Leaves
  <1>1. TypeOK'
    BY <1>0, UserTypes
  <1>2. Failover'
    BY <1>0, <1>1, JoinRoomFailover, LeaveRoomFailover, ChatFailover DEF UserStep
  <1>3. Leaves'
    <2>1. CASE JoinRoom(n, r)
      BY <1>0, <2>1, JoinLeaves DEF JoinRoom, node
    <2> QED BY <1>0, <2>1, LeaveRoomLeaves, ChatLeaves DEF UserStep
  <1> QED BY <1>1, <1>2, <1>3 DEF Inv, Leaves

LEMMA RoomInv ==
  ASSUME Inv, NEW n \in Nodes, NEW r \in Rooms, RoomStep(n, r)
  PROVE  Inv'
  <1>0. TypeOK /\ Failover /\ Leaves
    BY DEF Inv, Leaves
  <1>1. TypeOK'
    BY <1>0, RoomTypes
  <1>2. CASE HandleMembers(n, r)
    <2>1. Leaves'
      BY <1>0, <1>2, OtherLeaves DEF HandleMembers, node
    <2> QED BY <1>0, <1>1, <1>2, <2>1, HandleMembersFailover DEF Inv, Leaves
  <1>3. ASSUME NEW why \in Reasons, HandleJoinResult(n, r, why) PROVE Inv'
    <2>1. Leaves'
      BY <1>0, <1>3, OtherLeaves DEF HandleJoinResult, node
    <2> QED BY <1>0, <1>1, <1>3, <2>1, HandleJoinResultFailover DEF Inv, Leaves
  <1>4. CASE RetryJoin(n, r)
    <2>1. Leaves'
      BY <1>0, <1>4, JoinLeaves DEF RetryJoin, node
    <2> QED BY <1>0, <1>1, <1>4, <2>1, RetryJoinFailover DEF Inv, Leaves
  <1>5. CASE GiveUp(n, r) \/ Announce(n, r) \/ Materialise(n, r)
    <2>1. /\ UNCHANGED <<online, curNode, curRoom, inProgress, pendingRoom, rejoin, seat,
                         undisturbed>>
          /\ up' = up /\ down \subseteq down' /\ left' = left /\ voice' = voice
      BY <1>5 DEF GiveUp, Announce, Materialise, manager, node, history
    <2> QED BY <1>0, <1>1, <2>1, OtherFailover, OtherLeaves DEF Inv, Leaves
  <1> QED BY <1>2, <1>3, <1>4, <1>5 DEF RoomStep

LEMMA NodeInv ==
  ASSUME Inv, NEW n \in Nodes, NodeStep(n)
  PROVE  Inv'
  <1>0. TypeOK /\ Failover /\ Leaves
    BY DEF Inv, Leaves
  <1>1. TypeOK'
    BY <1>0, NodeTypes
  <1>2. CASE WsConnected(n)
    BY <1>0, <1>1, <1>2, WsConnectedFailover, WsConnectedLeaves DEF Inv, Leaves
  <1>3. CASE WsDisconnected(n)
    BY <1>0, <1>1, <1>3, WsDisconnectedFailover, WsDisconnectedLeaves DEF Inv, Leaves
  <1>4. CASE Serve(n)
    BY <1>0, <1>1, <1>4, ServeFailover, ServeLeaves DEF Inv, Leaves
  <1>5. CASE SocketClosed(n) \/ NodeRestart(n)
    <2>1. /\ UNCHANGED <<online, curNode, curRoom, inProgress, pendingRoom, rejoin, seat,
                         undisturbed>>
          /\ up' = up /\ down' = down /\ left' = left
          /\ voice' = [voice EXCEPT ![n] = {}]
      BY <1>5 DEF SocketClosed, NodeRestart, manager, history
    <2>2. \A m \in Nodes : voice'[m] \subseteq voice[m]
      BY <1>0, <2>1 DEF TypeOK
    <2> QED BY <1>0, <1>1, <2>1, <2>2, OtherFailover, OtherLeaves DEF Inv, Leaves
  <1> QED BY <1>2, <1>3, <1>4, <1>5 DEF NodeStep

LEMMA NextInv == Inv /\ [Next]_vars => Inv'
  <1> SUFFICES ASSUME Inv, [Next]_vars PROVE Inv'
    OBVIOUS
  <1>1. CASE Next
    BY <1>1, UserInv, RoomInv, NodeInv DEF Next
  <1>2. CASE UNCHANGED vars
    <2>1. TypeOK'
      BY <1>2 DEF Inv, TypeOK, vars, manager, node, history, counters
    <2>2. /\ UNCHANGED <<online, curNode, curRoom, inProgress, pendingRoom, rejoin, seat,
                         undisturbed>>
          /\ up' = up /\ down' = down /\ left' = left /\ voice' = voice
      BY <1>2 DEF vars, manager, node, history
    <2> QED BY <2>1, <2>2, OtherFailover, OtherLeaves DEF Inv, Leaves
  <1> QED BY <1>1, <1>2

LEMMA InvAlways == Spec => []Inv
  BY InitInv, NextInv, PTL DEF Spec

-----------------------------------------------------------------------------

\* The manager's fields and the nodes' rosters keep their types, and no join is
\* retried more than ROOM_JOIN_MAX_ATTEMPTS times before it is given up
\* (retry_pending_room_joins), in every behaviour.
THEOREM SessionTypes == Spec => []TypeOK
  <1>1. Inv => TypeOK
    BY DEF Inv
  <1> QED BY <1>1, InvAlways, PTL

\* Once a connected node has confirmed the room (SfuMembers), no other node is
\* armed for it, so that WsConnected of a node that comes back does not move
\* the client, for any number of nodes and of losses.
THEOREM ReturnNeverSeizes == Spec => []ReturnDoesNotSeize
  <1>1. Inv => ReturnDoesNotSeize
    <2> SUFFICES ASSUME Inv, seat, undisturbed, NEW n \in Nodes PROVE rejoin[n] # curRoom
      BY DEF ReturnDoesNotSeize
    <2>1. curNode \in online /\ curRoom \in Rooms /\ pendingRoom # curRoom
      BY DEF Inv, Failover, Seated
    <2>2. curRoom # NoRoom
      BY <2>1, RoomsAssumption
    <2>3. \A m \in Nodes : rejoin[m] \in {NoRoom, pendingRoom}
      BY <2>1 DEF Inv, Failover, ArmedAgree
    <2> QED BY <2>1, <2>2, <2>3
  <1> QED BY <1>1, InvAlways, PTL

\* A failover that is under way has an answer coming from the connected node
\* that it made the current one, or every node is armed to resume the room
\* (maybe_failover_to_cluster), however many nodes are lost on the way.
THEOREM FailoverAlwaysAnswered == Spec => []FailoverAnswered
  <1>1. Inv => FailoverAnswered
    BY DEF Inv, Failover
  <1> QED BY <1>1, InvAlways, PTL

\* A leave (leave_room_voice) takes the client off every connected node,
\* whatever joins and retries are under way to it.
THEOREM LeaveAlwaysReachesAll == Spec => []LeaveReachesAll
  <1>1. Inv => LeaveReachesAll
    BY DEF Inv
  <1> QED BY <1>1, InvAlways, PTL
=============================================================================
