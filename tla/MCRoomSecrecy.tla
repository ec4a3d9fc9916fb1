---------------------------- MODULE MCRoomSecrecy ----------------------------
(* Instance of RoomSecrecy for TLC: from a room everybody is keyed in. *)
EXTENDS RoomSecrecy

\* Epoch 0, minted by the first member, installed and acknowledged everywhere;
\* those in voice have closed the chat.
KeyedRoom ==
  /\ Voice \cup Chat = Members
  /\ voice = [n \in Nodes |-> Voice]
  /\ chat = [n \in Nodes |-> Chat]
  /\ task = [n \in Nodes |-> [m \in Members |-> "idle"]]
  /\ sending = [n \in Nodes |-> [m \in Members |-> {}]]
  /\ raced = [n \in Nodes |-> FALSE]
  /\ inbox = [n \in Nodes |-> [m \in Members |-> <<>>]]
  /\ inVoice = [m \in Members |-> IF m \in Voice THEN Nodes ELSE {}]
  /\ inChat = [m \in Members |-> IF m \in Chat THEN Nodes ELSE {}]
  /\ mgr = [m \in Members |->
       [FreshManager EXCEPT !.view = [n \in Nodes |-> Members \ {m}],
                            !.devices = [n \in Nodes |-> Members],
                            !.group = Install(NoGroup, 0, 1)]]
  /\ net = {}
  /\ air = [m \in Members |-> NoFrame]
  /\ minted = 1
  /\ changes = 0
  /\ restarts = 0
  /\ audience = [k \in Keys |-> IF k = 1 THEN Members ELSE {}]

KeyedSpec == KeyedRoom /\ [][SNext]_svars

=============================================================================
