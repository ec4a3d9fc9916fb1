---------------------------- MODULE MCSupernode ----------------------------
(* Instances of Supernode for TLC. *)
EXTENDS Supernode, TLC

CONSTANTS a, b

\* Two clients; the first has two devices.
TwoClients == {a, b}
Devices == {<<a, 1>>, <<a, 2>>, <<b, 1>>}

\* Two devices and another client; the fourth connection is a reconnect of the
\* first device, or its second transport.
ConnEnds == [c \in Conns |-> <<<<a, 1>>, <<a, 2>>, <<b, 1>>, <<a, 1>>>>[c]]
AllSockets == [c \in Conns |-> "ws"]
SocketAndStream == [c \in Conns |-> IF c = 4 THEN "quic" ELSE "ws"]

ComeAndGo ==
  {<<"allow", "join">>, <<"leaving">>, <<"subscribe">>, <<"unsubscribe">>, <<"audio">>}
WaysIn == Handlers \ ComeAndGo
JoinOnly == {<<"createWithToken">>, <<"allow", "join">>}

\* The sockets of the connections in `open' are open, the room is r with nobody in it.
Arrived(open, r) ==
  /\ room = r
  /\ status = [c \in Conns |-> IF c \in open THEN "open" ELSE "new"]
  /\ todo = [c \in Conns |-> <<>>]
  /\ route = [k \in Kinds |-> [e \in Endpoints |->
       IF k = "ws" /\ \E c \in open : EndOf[c] = e
         THEN CHOOSE c \in open : EndOf[c] = e ELSE NoConn]]
  /\ connected = Cardinality({IdOf(c) : c \in open})
  /\ view = [e \in Endpoints |-> {}]
  /\ joined = [c \in Conns |-> FALSE]
  /\ commands = 0

\* Both clients have connected.
ArrivedSpec == Arrived({1, 3}, NoRoom) /\ [][Next]_vars

\* All devices have connected, and the creator has created the room.
OpenedSpec ==
  Arrived({1, 2, 3}, AllowPeer(NewRoom(Private, Creator), Creator)) /\ [][Next]_vars

\* States that differ only in what clients were told are one to TLC: no step and
\* no property but the type of `view' depends on it.
ButView == <<room, status, todo, route, connected, joined, commands>>
=============================================================================
