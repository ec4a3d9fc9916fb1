------------------------------ MODULE RoomSecrecy ------------------------------
(***************************************************************************)
(* Who may ever come to hold a room key. RoomKeying with a history         *)
(* variable: audience[k] collects everybody who has been named as a member *)
(* anywhere - in a node's roster, in an announcement on its way or still   *)
(* to be sent by one of its tasks, in a client's view - since key k was    *)
(* minted, and its minter.                                                 *)
(***************************************************************************)
EXTENDS RoomKeying

VARIABLE audience

svars == <<vars, audience>>

AnnouncedIn(a) == a.set \cup (IF a.kind = "joined" THEN {a.peer} ELSE {})

\* Everybody named as a member of the room in some place.
Named ==
  {p \in Members :
     \/ \E n \in Nodes : p \in Roster(n)
     \/ \E n \in Nodes, m \in Members : p \in mgr[m].view[n]
     \/ \E n \in Nodes, m \in Members : \E i \in DOMAIN inbox[n][m] :
          p \in AnnouncedIn(inbox[n][m][i])
     \/ \E n \in Nodes, m \in Members : \E s \in sending[n][m] :
          p \in AnnouncedIn(s.what)}

SInit ==
  /\ Init
  /\ audience = [k \in Keys |-> {}]

\* A key minted by this step starts with the client that minted it.
SNext ==
  /\ Next
  /\ audience' = [k \in Keys |->
       audience[k]
         \cup (IF k <= minted' THEN Named' ELSE {})
         \cup (IF minted < k /\ k <= minted'
                 THEN {m \in Members : mgr'[m] # mgr[m]} ELSE {})]

SSpec == SInit /\ [][SNext]_svars

\* A room key is held by, and sealed to, only its minter and clients named as
\* members somewhere at a time since it was minted.  A client whose departure
\* has been handled everywhere can never get a key minted after it: what the
\* rotation of sync_room_membership and the membership test of
\* serve_group_key_request are for.
ForwardSecrecy ==
  \A k \in 1 .. minted :
    /\ \A m \in Members, e \in Epochs :
         mgr[m].group.keys[e] = k => m \in audience[k]
    /\ \A msg \in net : msg.type = "key" /\ msg.key = k => msg.to \in audience[k]

=============================================================================
