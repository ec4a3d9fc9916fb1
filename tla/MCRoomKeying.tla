---------------------------- MODULE MCRoomKeying ----------------------------
(* Instances of RoomKeying for TLC. *)
EXTENDS RoomKeying

\* A room everybody has joined on the nodes `on', with c changes and r restarts
\* behind it: nobody is there yet, or the keyer minted epoch 0 and every seal has
\* been acknowledged.  Those who only listen have closed the room's chat.
RoomOn(on, c, r) ==
  /\ Voice \cup Chat = Members
  /\ voice = [n \in Nodes |-> IF n \in on THEN Voice ELSE {}]
  /\ chat = [n \in Nodes |-> IF n \in on THEN Chat ELSE {}]
  /\ task = [n \in Nodes |-> [m \in Members |-> "idle"]]
  /\ sending = [n \in Nodes |-> [m \in Members |-> {}]]
  /\ raced = [n \in Nodes |-> FALSE]
  /\ inbox = [n \in Nodes |-> [m \in Members |-> <<>>]]
  /\ inVoice = [m \in Members |-> IF m \in Voice THEN on ELSE {}]
  /\ inChat = [m \in Members |-> IF m \in Chat \cup Speakers THEN on ELSE {}]
  /\ mgr = [m \in Members |->
       [FreshManager EXCEPT
          !.view = [n \in Nodes |-> IF n \in on THEN Members \ {m} ELSE {}],
          !.devices = [n \in Nodes |-> IF n \in on THEN Members ELSE {}],
          !.group = IF on = {} THEN NoGroup ELSE Install(NoGroup, 0, 1)]]
  /\ net = {}
  /\ air = [m \in Members |-> NoFrame]
  /\ minted = IF on = {} THEN 0 ELSE 1
  /\ changes = c
  /\ restarts = r

\* From an empty room, from one that is keyed on one of the nodes, and from that
\* with a change less and the restarts still to come.
StartSpec ==
  /\ \/ RoomOn({}, 0, MaxRestarts)
     \/ LET on == {CHOOSE n \in Nodes : TRUE}
        IN  RoomOn(on, 0, MaxRestarts) \/ RoomOn(on, 1, 0)
  /\ [][Next]_vars
  /\ Fairness

\* From a keyed room, with restarts to come.
KeyedSpec == RoomOn(Nodes, 0, 0) /\ [][Next]_vars

=============================================================================
