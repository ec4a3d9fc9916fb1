----------------------------- MODULE RoomStore ------------------------------
(***************************************************************************)
(* The rooms one device keeps on disk, and the merge of what a sibling     *)
(* device of the same identity says about its own (RoomStore of the        *)
(* client's room_store.rs and room_store/own_sync.rs), as operators on a   *)
(* record.                                                                 *)
(*                                                                         *)
(* A room may be filed under several supernodes (hosts).  What an entry    *)
(* holds besides its key - name, type, token - is left out: a merge fills  *)
(* empty fields and overwrites none.  The caps on what a snapshot carries  *)
(* are left out as well.                                                   *)
(***************************************************************************)
EXTENDS Naturals, FiniteSets

CONSTANTS
  Rooms,        \* room ids, without the built-in default room
  Hosts,        \* supernodes, numbered in the order of their ids
  Cluster,      \* Cluster[h]: the hosts that are one with h (same_host)
  SpaceHost,    \* the host of the Space the owner's rooms are in
  Contents      \* what a node of a Space may say, numbered by leaf hash

ASSUME HostsAssumption ==
  /\ Hosts \subseteq Nat /\ IsFiniteSet(Hosts) /\ SpaceHost \in Hosts
  /\ Cluster \in [Hosts -> SUBSET Hosts]
  /\ \A h \in Hosts : h \in Cluster[h]
  /\ \A g, h \in Hosts : g \in Cluster[h] => Cluster[g] = Cluster[h]

ASSUME ContentsAssumption == Contents \subseteq Nat \ {0}

(* Times are positive, so 0 stands for a removal that is not there and for *)
(* a room that was never added by hand.                                    *)
NoRemoval == [at |-> 0, hosts |-> {}]
Removal == [at : Nat, hosts : SUBSET Hosts]

(* What the store says of one room id.  filed: the hosts of its entries in *)
(* rooms; tombs: those of its keys in deleted_ids; added: added_at.        *)
RoomState ==
  [filed : SUBSET Hosts, tombs : SUBSET Hosts, added : Nat, removal : Removal]

Unheard == [filed |-> {}, tombs |-> {}, added |-> 0, removal |-> NoRemoval]

(* The owner's tree of rooms: what each room's node says (0: not there).   *)
Space == [epoch : Nat, nodes : [Rooms -> Contents \cup {0}]]
NoSpace == [epoch |-> 0, nodes |-> [r \in Rooms |-> 0]]

Store == [rooms : [Rooms -> RoomState], space : Space]
EmptyStore == [rooms |-> [r \in Rooms |-> Unheard], space |-> NoSpace]

Removed(x) == x.removal.at # 0
Shown(x) == x.filed \ x.tombs

-----------------------------------------------------------------------------
(* What the user and the supernodes do on one device                       *)

(* upsert: an explicit create, join or accepted invite at time t.  Only a  *)
(* room that is new under this host, or hidden, counts as added now, which *)
(* cancels our own removal.                                                *)
Upsert(x, h, t) ==
  LET counts == h \notin x.filed \/ h \in x.tombs
  IN [filed |-> x.filed \cup {h},
      tombs |-> x.tombs \ {h},
      added |-> IF counts THEN t ELSE x.added,
      removal |-> IF counts THEN NoRemoval ELSE x.removal]

\* Mutant: a room list brings a removed room back.
SyncFromRoomListAlways(x, h) == [x EXCEPT !.filed = @ \cup {h}]

(* sync_from_room_list: a room hidden or removed here is skipped.          *)
SyncFromRoomList(x, h) ==
  IF h \in x.tombs THEN x ELSE [x EXCEPT !.filed = @ \cup {h}]

(* Every copy goes, its hosts and the given ones are tombstoned, and the   *)
(* removal is recorded.                                                    *)
Drop(x, hosts, t) ==
  [filed |-> {},
   tombs |-> x.tombs \cup hosts \cup x.filed,
   added |-> 0,
   removal |-> [at |-> t, hosts |-> hosts \cup x.filed]]

(* adopt_room_into_space: the room's node enters the tree at a new epoch.  *)
AdoptRoomIntoSpace(sp, r, c) ==
  [epoch |-> sp.epoch + 1, nodes |-> [sp.nodes EXCEPT ![r] = c]]

-----------------------------------------------------------------------------
(* Snapshots between our own devices                                       *)

(* own_device_snapshot: rooms hidden here are left out, and with them the  *)
(* time they were added.                                                   *)
OwnDeviceSnapshot(s) ==
  [rooms |-> [r \in Rooms |->
     [shown |-> Shown(s.rooms[r]),
      added |-> IF Shown(s.rooms[r]) = {} THEN 0 ELSE s.rooms[r].added,
      removal |-> s.rooms[r].removal]],
   space |-> s.space]

(* The union of two trees: of two versions of a node the one of the later  *)
(* epoch, and on a tie the one with the greater leaf hash.                 *)
MergedNodes(mine, theirs) ==
  LET theirsWins(r) ==
        \/ theirs.epoch > mine.epoch
        \/ theirs.epoch = mine.epoch /\ theirs.nodes[r] > mine.nodes[r]
  IN [r \in Rooms |->
        IF mine.nodes[r] = 0 \/ (theirs.nodes[r] # 0 /\ theirsWins(r))
        THEN theirs.nodes[r] ELSE mine.nodes[r]]

Later(i, j) == IF i > j THEN i ELSE j

\* Mutant: the newer copy wins whole, the sender's on a tie.
MergeSpaceTheirs(mine, theirs) ==
  IF theirs.epoch >= mine.epoch THEN theirs ELSE mine

\* Mutant: the newer copy wins whole, our own on a tie.
MergeSpaceOurs(mine, theirs) ==
  IF theirs.epoch > mine.epoch THEN theirs ELSE mine

(* merge_space: the sender's copy, ours, or a union that neither has,      *)
(* signed at an epoch past both.  A store without the Space is NoSpace:    *)
(* an empty tree at epoch 0, for which each case comes out the same.       *)
MergeSpace(mine, theirs) ==
  LET nodes == MergedNodes(mine, theirs)
  IN IF theirs.nodes = nodes /\ theirs.epoch >= mine.epoch THEN theirs
     ELSE IF mine.nodes = nodes /\ mine.epoch >= theirs.epoch THEN mine
     ELSE [epoch |-> Later(mine.epoch, theirs.epoch) + 1, nodes |-> nodes]

(* The room was added here after the sibling removed it.                   *)
AddedLater(x, rem) == x.filed # {} /\ x.added > rem.at

(* apply_own_device_removal; it is recorded also where the room was never  *)
(* filed.                                                                  *)
ApplyOwnDeviceRemoval(x, rem) ==
  IF x.removal.at >= rem.at \/ AddedLater(x, rem)
  THEN x
  ELSE Drop(x, rem.hosts, rem.at)

\* Mutant: no removal stands against a sibling that shows the room.
NeverRemovedLater(x, at) == FALSE

(* Our removal is not older than the sender's adding.                      *)
RemovedLater(x, at) == Removed(x) /\ at <= x.removal.at

Least(H) == CHOOSE h \in H : \A g \in H : h <= g

(* merge_own_device_room, for the hosts the sender shows the room under    *)
(* and we know, in the order of their ids.  A removal that is outranked is *)
(* lifted, with the tombstones of its hosts and of the first host's        *)
(* cluster; then the room is filed once per cluster that does not hide it. *)
MergeOwnDeviceRoom(x, shown, at) ==
  IF shown = {} \/ RemovedLater(x, at)
  THEN x
  ELSE LET tombs == IF Removed(x)
                    THEN x.tombs \ (x.removal.hosts \cup Cluster[Least(shown)])
                    ELSE x.tombs
           new == {h \in shown : /\ (x.filed \cup tombs) \cap Cluster[h] = {}
                                 /\ h = Least(shown \cap Cluster[h])}
           filed == x.filed \cup new
       IN [filed |-> filed,
           tombs |-> tombs,
           removal |-> NoRemoval,
           added |-> IF filed = {} THEN x.added ELSE Later(x.added, at)]

(* merge_own_device_snapshot on a device that knows the hosts known: the   *)
(* Space, and for each room the removal before the entries.                *)
MergeOwnDeviceSnapshot(s, snap, known) ==
  [rooms |-> [r \in Rooms |->
     MergeOwnDeviceRoom(
       ApplyOwnDeviceRemoval(s.rooms[r], snap.rooms[r].removal),
       snap.rooms[r].shown \cap known,
       snap.rooms[r].added)],
   space |-> IF SpaceHost \in known THEN MergeSpace(s.space, snap.space)
                                    ELSE s.space]

(* OwnRoomMerge.sibling_behind: the merged Space is not the sender's, we   *)
(* added what it removed, or it shows what we removed.                     *)
SiblingBehind(s, snap, known) ==
  \/ /\ SpaceHost \in known /\ snap.space # NoSpace
     /\ MergeSpace(s.space, snap.space) # snap.space
  \/ \E r \in Rooms :
       LET x == s.rooms[r]
           rem == snap.rooms[r].removal
       IN \/ x.removal.at < rem.at /\ AddedLater(x, rem)
          \/ /\ snap.rooms[r].shown \cap known # {}
             /\ RemovedLater(ApplyOwnDeviceRemoval(x, rem),
                             snap.rooms[r].added)

=============================================================================
