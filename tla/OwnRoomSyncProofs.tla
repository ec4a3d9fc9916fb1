------------------------- MODULE OwnRoomSyncProofs --------------------------
(***************************************************************************)
(* Theorems about RoomStore and OwnRoomSync, for any devices, rooms, hosts *)
(* and clusters, any clocks and any number of changes.                     *)
(***************************************************************************)
EXTENDS OwnRoomSync, WellFoundedInduction, TLAPS

(* The devices know the same supernodes.  They trade their peer stores,    *)
(* but nothing makes them agree at every moment.                           *)
SameHosts == \A d, e \in Devices : Knows[d] = Knows[e]

(* A removal names every host that any of our devices knows.               *)
Covers(rem) ==
  SameHosts /\ rem.at # 0 => \A d \in Devices : Knows[d] \subseteq rem.hosts

(* A removed room has no entry on d, and no host d knows can list it back. *)
GoneOK(d, x) ==
  SameHosts /\ Removed(x) =>
    x.filed = {} /\ Knows[d] \subseteq x.tombs /\ Covers(x.removal)

StoreOK(d, s) == \A r \in Rooms : GoneOK(d, s.rooms[r])
SnapOK(s) == \A r \in Rooms : Covers(s.rooms[r].removal)

StoresOK ==
  /\ store \in [Devices -> Store]
  /\ \A d \in Devices : StoreOK(d, store[d])

PendingOK ==
  /\ pending \in [Devices -> SUBSET Letter]
  /\ \A d \in Devices : \A p, q \in pending[d] : p = q
  /\ \A d \in Devices : \A p \in pending[d] : SnapOK(p.snap)

QueueOK(q) == \A i \in 1..Len(q) : SnapOK(q[i].snap)

NetOK ==
  /\ net \in [Devices -> [Devices -> Seq(Letter)]]
  /\ \A d, e \in Devices : QueueOK(net[d][e])

StampsOK ==
  newest \in [Rooms -> [at : Nat, kind : {"none", "add", "remove", "open"}]]

CountsOK ==
  /\ online \subseteq Devices /\ owed \subseteq Devices /\ unheard \subseteq Devices
  /\ now \in Nat /\ changes \in 0..MaxChanges

(* A removed room stays away only because every removal that travels names *)
(* the hosts that could list the room: Removed => filed = {} alone is not  *)
(* kept by a room list.                                                    *)
Inv == StoresOK /\ PendingOK /\ NetOK /\ StampsOK /\ CountsOK

-----------------------------------------------------------------------------
(* The store's operations                                                  *)

LEMMA UpsertOK ==
  ASSUME NEW d \in Devices, NEW x \in RoomState, NEW h \in Hosts, NEW t \in Nat,
         GoneOK(d, x)
  PROVE  Upsert(x, h, t) \in RoomState /\ GoneOK(d, Upsert(x, h, t))
  BY DEF Upsert, RoomState, Removal, NoRemoval, GoneOK, Removed, Covers

LEMMA ListOK ==
  ASSUME NEW d \in Devices, NEW x \in RoomState, NEW h \in Knows[d], h \in Hosts,
         GoneOK(d, x)
  PROVE  SyncFromRoomList(x, h) \in RoomState /\ GoneOK(d, SyncFromRoomList(x, h))
  BY DEF SyncFromRoomList, RoomState, GoneOK, Removed, Covers

LEMMA DropOK ==
  ASSUME NEW d \in Devices, NEW x \in RoomState, NEW H \in SUBSET Hosts,
         NEW t \in Nat, SameHosts => \A e \in Devices : Knows[e] \subseteq H
  PROVE  Drop(x, H, t) \in RoomState /\ GoneOK(d, Drop(x, H, t))
  BY DEF Drop, RoomState, Removal, GoneOK, Removed, Covers

LEMMA ApplyOK ==
  ASSUME NEW d \in Devices, NEW x \in RoomState, NEW rem \in Removal,
         GoneOK(d, x), Covers(rem)
  PROVE  /\ ApplyOwnDeviceRemoval(x, rem) \in RoomState
         /\ GoneOK(d, ApplyOwnDeviceRemoval(x, rem))
  <1>1. CASE x.removal.at >= rem.at \/ AddedLater(x, rem)
    BY <1>1 DEF ApplyOwnDeviceRemoval
  <1>2. CASE ~(x.removal.at >= rem.at \/ AddedLater(x, rem))
    <2>1. rem.at # 0 /\ rem.at \in Nat /\ rem.hosts \in SUBSET Hosts
      BY <1>2 DEF Removal, RoomState
    <2>2. ApplyOwnDeviceRemoval(x, rem) = Drop(x, rem.hosts, rem.at)
      BY <1>2 DEF ApplyOwnDeviceRemoval
    <2> QED
      BY <2>1, <2>2, DropOK DEF Covers
  <1> QED
    BY <1>1, <1>2

LEMMA LaterIsNat == ASSUME NEW i \in Nat, NEW j \in Nat PROVE Later(i, j) \in Nat
  BY DEF Later

LEMMA MergeRoomOK ==
  ASSUME NEW d \in Devices, NEW x \in RoomState, NEW S \in SUBSET Hosts,
         NEW t \in Nat, GoneOK(d, x)
  PROVE  /\ MergeOwnDeviceRoom(x, S, t) \in RoomState
         /\ GoneOK(d, MergeOwnDeviceRoom(x, S, t))
  <1>1. CASE S = {} \/ RemovedLater(x, t)
    BY <1>1 DEF MergeOwnDeviceRoom
  <1>2. CASE ~(S = {} \/ RemovedLater(x, t))
    <2> DEFINE tombs == IF Removed(x)
                        THEN x.tombs \ (x.removal.hosts \cup Cluster[Least(S)])
                        ELSE x.tombs
               new == {h \in S : /\ (x.filed \cup tombs) \cap Cluster[h] = {}
                                 /\ h = Least(S \cap Cluster[h])}
               filed == x.filed \cup new
               added == IF filed = {} THEN x.added ELSE Later(x.added, t)
    <2>1. MergeOwnDeviceRoom(x, S, t) =
            [filed |-> filed, tombs |-> tombs, removal |-> NoRemoval, added |-> added]
      BY <1>2 DEF MergeOwnDeviceRoom
    <2>2. tombs \subseteq Hosts
      BY DEF RoomState
    <2>3. new \subseteq S
      OBVIOUS
    <2>4. filed \subseteq Hosts
      BY <2>3 DEF RoomState
    <2>5. added \in Nat
      BY LaterIsNat DEF RoomState
    <2> HIDE DEF tombs, filed, added
    <2> QED
      BY <2>1, <2>2, <2>4, <2>5
        DEF RoomState, Removal, NoRemoval, GoneOK, Removed
  <1> QED
    BY <1>1, <1>2

LEMMA MergeSpaceOK ==
  ASSUME NEW a \in Space, NEW b \in Space PROVE MergeSpace(a, b) \in Space
  <1>1. MergedNodes(a, b) \in [Rooms -> Contents \cup {0}]
    BY DEF MergedNodes, Space
  <1>2. Later(a.epoch, b.epoch) + 1 \in Nat
    <2>1. a.epoch \in Nat /\ b.epoch \in Nat
      BY DEF Space
    <2>2. Later(a.epoch, b.epoch) \in Nat
      BY <2>1, LaterIsNat
    <2> QED
      BY <2>2
  <1>3. [epoch |-> Later(a.epoch, b.epoch) + 1, nodes |-> MergedNodes(a, b)] \in Space
    BY <1>1, <1>2 DEF Space
  <1> QED
    BY <1>3 DEF MergeSpace

LEMMA MergeOK ==
  ASSUME NEW d \in Devices, NEW s \in Store, NEW snap \in Snapshot,
         StoreOK(d, s), SnapOK(snap)
  PROVE  /\ MergeOwnDeviceSnapshot(s, snap, Knows[d]) \in Store
         /\ StoreOK(d, MergeOwnDeviceSnapshot(s, snap, Knows[d]))
  <1> DEFINE Room(r) ==
        MergeOwnDeviceRoom(
          ApplyOwnDeviceRemoval(s.rooms[r], snap.rooms[r].removal),
          snap.rooms[r].shown \cap Knows[d], snap.rooms[r].added)
      sp == IF SpaceHost \in Knows[d] THEN MergeSpace(s.space, snap.space)
                                      ELSE s.space
  <1>1. ASSUME NEW r \in Rooms PROVE Room(r) \in RoomState /\ GoneOK(d, Room(r))
    <2>1. s.rooms[r] \in RoomState /\ GoneOK(d, s.rooms[r])
      BY DEF Store, StoreOK
    <2>2. /\ snap.rooms[r].removal \in Removal /\ Covers(snap.rooms[r].removal)
          /\ snap.rooms[r].shown \cap Knows[d] \in SUBSET Hosts
          /\ snap.rooms[r].added \in Nat
      BY DEF Snapshot, SnapOK
    <2> QED
      BY <2>1, <2>2, ApplyOK, MergeRoomOK
  <1>2. sp \in Space
    BY MergeSpaceOK DEF Store, Snapshot
  <1>3. MergeOwnDeviceSnapshot(s, snap, Knows[d]) =
          [rooms |-> [r \in Rooms |-> Room(r)], space |-> sp]
    BY DEF MergeOwnDeviceSnapshot
  <1> HIDE DEF Room, sp
  <1> QED
    BY <1>1, <1>2, <1>3 DEF Store, StoreOK

LEMMA SnapshotOK ==
  ASSUME NEW d \in Devices, NEW s \in Store, StoreOK(d, s)
  PROVE  OwnDeviceSnapshot(s) \in Snapshot /\ SnapOK(OwnDeviceSnapshot(s))
  <1>1. ASSUME NEW r \in Rooms
        PROVE  /\ s.rooms[r] \in RoomState
               /\ Shown(s.rooms[r]) \subseteq Hosts
               /\ s.rooms[r].added \in Nat /\ s.rooms[r].removal \in Removal
               /\ Covers(s.rooms[r].removal)
    BY DEF Store, RoomState, Shown, StoreOK, GoneOK, Removed, Covers
  <1>2. s.space \in Space
    BY DEF Store
  <1> QED
    BY <1>1, <1>2 DEF OwnDeviceSnapshot, Snapshot, SnapOK

-----------------------------------------------------------------------------
(* The merge of two trees                                                  *)

LEMMA MergedNodeOf ==
  ASSUME NEW a \in Space, NEW b \in Space, NEW r \in Rooms
  PROVE  /\ a.nodes[r] \in Nat /\ b.nodes[r] \in Nat
         /\ a.epoch \in Nat /\ b.epoch \in Nat
         /\ a.nodes[r] = 0 => MergedNodes(a, b)[r] = b.nodes[r]
         /\ b.nodes[r] = 0 => MergedNodes(a, b)[r] = a.nodes[r]
         /\ a.nodes[r] # 0 /\ b.nodes[r] # 0 /\ b.epoch > a.epoch =>
              MergedNodes(a, b)[r] = b.nodes[r]
         /\ a.nodes[r] # 0 /\ b.nodes[r] # 0 /\ a.epoch > b.epoch =>
              MergedNodes(a, b)[r] = a.nodes[r]
         /\ a.nodes[r] # 0 /\ b.nodes[r] # 0 /\ a.epoch = b.epoch =>
              MergedNodes(a, b)[r] = Later(a.nodes[r], b.nodes[r])
  <1>1. a.nodes[r] \in Contents \cup {0} /\ b.nodes[r] \in Contents \cup {0}
        /\ a.epoch \in Nat /\ b.epoch \in Nat
    BY DEF Space
  <1>2. a.nodes[r] \in Nat /\ b.nodes[r] \in Nat
    <2>1. \A c \in Contents \cup {0} : c \in Nat
      BY ContentsAssumption
    <2> QED
      BY <1>1, <2>1
  <1>3. MergedNodes(a, b)[r] =
          IF \/ a.nodes[r] = 0
             \/ /\ b.nodes[r] # 0
                /\ \/ b.epoch > a.epoch
                   \/ b.epoch = a.epoch /\ b.nodes[r] > a.nodes[r]
          THEN b.nodes[r] ELSE a.nodes[r]
    BY DEF MergedNodes
  <1> QED
    BY <1>1, <1>2, <1>3 DEF Later

LEMMA MergedNodesCommute ==
  ASSUME NEW a \in Space, NEW b \in Space
  PROVE  MergedNodes(a, b) = MergedNodes(b, a)
  <1>1. ASSUME NEW r \in Rooms PROVE MergedNodes(a, b)[r] = MergedNodes(b, a)[r]
    BY MergedNodeOf DEF Later
  <1> QED
    BY <1>1 DEF MergedNodes

(* merge_space settles two trees in one exchange: two devices that merge   *)
(* each other's copies hold the same tree at the same epoch, and merging   *)
(* the other's old copy once more changes nothing.                         *)
THEOREM SpacesSettle ==
  ASSUME NEW a \in Space, NEW b \in Space
  PROVE  /\ MergeSpace(a, b) = MergeSpace(b, a)
         /\ MergeSpace(MergeSpace(a, b), b) = MergeSpace(a, b)
  <1> DEFINE nodes == MergedNodes(a, b)
             m == [epoch |-> Later(a.epoch, b.epoch) + 1, nodes |-> nodes]
  <1>1. a.epoch \in Nat /\ b.epoch \in Nat
    BY DEF Space
  <1>2. \A s, u \in Space : s.epoch = u.epoch /\ s.nodes = u.nodes => s = u
    BY DEF Space
  <1>3. MergedNodes(b, a) = nodes /\ Later(a.epoch, b.epoch) = Later(b.epoch, a.epoch)
    BY <1>1, MergedNodesCommute DEF Later
  <1>4. MergeSpace(a, b) = MergeSpace(b, a)
    BY <1>1, <1>2, <1>3 DEF MergeSpace
  <1>5. CASE MergeSpace(a, b) = b
    <2>1. MergedNodes(b, b) = b.nodes
      <3>1. ASSUME NEW r \in Rooms PROVE MergedNodes(b, b)[r] = b.nodes[r]
        BY MergedNodeOf DEF Later
      <3> QED
        BY <3>1 DEF MergedNodes, Space
    <2>2. MergeSpace(b, b) = b
      BY <1>1, <2>1 DEF MergeSpace
    <2> QED
      BY <1>4, <1>5, <2>2
  <1>6. CASE MergeSpace(a, b) = a
    BY <1>4, <1>6
  <1>7. CASE MergeSpace(a, b) = m
    <2>1. m \in Space /\ m.epoch > b.epoch /\ m.nodes = nodes
      <3>1. m \in Space
        BY <1>7, MergeSpaceOK
      <3> QED
        BY <1>1, <3>1 DEF Later
    <2> HIDE DEF m
    <2>2. MergedNodes(m, b) = nodes
      <3>1. ASSUME NEW r \in Rooms PROVE MergedNodes(m, b)[r] = nodes[r]
        <4>1. nodes[r] = 0 => b.nodes[r] = 0
          BY MergedNodeOf DEF Later
        <4> QED
          BY <2>1, <4>1, MergedNodeOf
      <3>2. DOMAIN nodes = Rooms
        BY DEF MergedNodes
      <3> QED
        BY <2>1, <3>1, <3>2 DEF MergedNodes, Space
    <2>3. MergeSpace(m, b) = m
      BY <1>1, <2>1, <2>2 DEF MergeSpace, Space
    <2> QED
      BY <1>4, <1>7, <2>3
  <1> QED
    BY <1>5, <1>6, <1>7 DEF MergeSpace

-----------------------------------------------------------------------------
(* The parts of a step                                                     *)

LEMMA SetStoreOK ==
  ASSUME Inv, NEW d \in Devices, NEW s \in Store, StoreOK(d, s), SetStore(d, s)
  PROVE  StoresOK'
  BY DEF Inv, StoresOK, SetStore

LEMMA RoomInStore ==
  ASSUME Inv, NEW d \in Devices, NEW r \in Rooms, NEW x \in RoomState,
         GoneOK(d, x)
  PROVE  /\ [store[d] EXCEPT !.rooms[r] = x] \in Store
         /\ StoreOK(d, [store[d] EXCEPT !.rooms[r] = x])
  <1>1. store[d] \in Store /\ StoreOK(d, store[d])
    BY DEF Inv, StoresOK
  <1> QED
    BY <1>1 DEF Store, StoreOK

LEMMA RoomOf ==
  ASSUME Inv, NEW d \in Devices, NEW r \in Rooms
  PROVE  store[d].rooms[r] \in RoomState /\ GoneOK(d, store[d].rooms[r])
  BY DEF Inv, StoresOK, Store, StoreOK

LEMMA SyncOK ==
  ASSUME Inv, NEW d \in Devices, NEW s \in Store, StoreOK(d, s),
         NEW b \in BOOLEAN, SyncOwnRooms(d, s, b)
  PROVE  PendingOK' /\ owed' \subseteq Devices
  <1> DEFINE p == [snap |-> OwnDeviceSnapshot(s),
                   reply |-> b \/ \E q \in pending[d] : q.reply]
  <1>1. p \in Letter /\ SnapOK(p.snap)
    BY SnapshotOK DEF Letter
  <1>2. pending' = [pending EXCEPT ![d] = {p}]
    BY DEF SyncOwnRooms, QueueOwnRoomSync
  <1> HIDE DEF p
  <1>3. PendingOK'
    BY <1>1, <1>2 DEF Inv, PendingOK
  <1>4. owed' \subseteq Devices
    BY DEF SyncOwnRooms, QueueOwnRoomSync, Inv, CountsOK
  <1> QED
    BY <1>3, <1>4

LEMMA StampOK ==
  ASSUME Inv, NEW d \in Devices, NEW r \in Rooms, NEW t \in Nat,
         NEW k \in {"add", "remove"}, Stamp(d, r, t, k)
  PROVE  StampsOK'
  BY DEF Inv, StampsOK, Stamp

LEMMA QueueKept ==
  ASSUME NEW q \in Seq(Letter), QueueOK(q)
  PROVE  /\ \A p \in Letter : SnapOK(p.snap) => QueueOK(Append(q, p))
         /\ q # <<>> => QueueOK(Tail(q))
  <1>1. ASSUME NEW p \in Letter, SnapOK(p.snap), NEW i \in 1..Len(Append(q, p))
        PROVE  SnapOK(Append(q, p)[i].snap)
    <2>1. CASE i = Len(q) + 1
      BY <1>1, <2>1
    <2>2. CASE i \in 1..Len(q)
      BY <2>2 DEF QueueOK
    <2> QED
      BY <2>1, <2>2
  <1>2. ASSUME q # <<>>, NEW i \in 1..Len(Tail(q)) PROVE SnapOK(Tail(q)[i].snap)
    <2>1. i + 1 \in 1..Len(q) /\ Tail(q)[i] = q[i + 1]
      BY <1>2
    <2> QED
      BY <2>1 DEF QueueOK
  <1> QED
    BY <1>1, <1>2 DEF QueueOK

LEMMA ClockIsNat == ASSUME Inv, NEW d \in Devices PROVE Clock(d) \in Nat
  BY DevicesAssumption DEF Inv, CountsOK, Clock

LEMMA ActOK ==
  ASSUME Inv, NEW a, Act(a) PROVE changes' \in 0..MaxChanges
  BY DevicesAssumption DEF Inv, CountsOK, Act

-----------------------------------------------------------------------------
(* The steps                                                               *)

LEMMA InitOK == Init => Inv
  <1> SUFFICES ASSUME Init PROVE Inv
    OBVIOUS
  <1>1. EmptyStore \in Store /\ \A d \in Devices : StoreOK(d, EmptyStore)
    BY DEF EmptyStore, Store, RoomState, Removal, Unheard, NoRemoval, NoSpace,
           Space, StoreOK, GoneOK, Removed
  <1>2. StoresOK
    BY <1>1 DEF Init, StoresOK
  <1>3. PendingOK /\ StampsOK
    BY DEF Init, PendingOK, StampsOK
  <1>4. NetOK
    BY DEF Init, NetOK, QueueOK
  <1>5. CountsOK
    BY DevicesAssumption DEF Init, CountsOK
  <1> QED
    BY <1>2, <1>3, <1>4, <1>5 DEF Inv

LEMMA CreateStep ==
  ASSUME Inv, NEW d \in Devices, NEW r \in Rooms, NEW c \in Contents,
         Create(d, r, c)
  PROVE  Inv'
  <1> DEFINE x == Upsert(store[d].rooms[r], SpaceHost, Clock(d))
             sp == AdoptRoomIntoSpace(store[d].space, r, c)
             s == [store[d] EXCEPT !.rooms[r] = x, !.space = sp]
  <1>1. x \in RoomState /\ GoneOK(d, x)
    BY RoomOf, ClockIsNat, UpsertOK, HostsAssumption
  <1>2. store[d] \in Store /\ StoreOK(d, store[d])
    BY DEF Inv, StoresOK
  <1>3. sp \in Space
    BY <1>2 DEF AdoptRoomIntoSpace, Store, Space
  <1>4. SetStore(d, s) /\ SyncOwnRooms(d, s, TRUE)
    BY DEF Create
  <1> HIDE DEF x, sp
  <1>5. s \in Store /\ StoreOK(d, s)
    BY <1>1, <1>2, <1>3 DEF Store, StoreOK
  <1> HIDE DEF s
  <1>6. StoresOK' /\ PendingOK' /\ owed' \subseteq Devices
    BY <1>4, <1>5, SetStoreOK, SyncOK
  <1>7. StampsOK'
    BY ClockIsNat, StampOK DEF Create
  <1>8. NetOK' /\ CountsOK'
    BY <1>6, ActOK DEF Create, Inv, NetOK, CountsOK
  <1> QED
    BY <1>6, <1>7, <1>8 DEF Inv

LEMMA JoinStep ==
  ASSUME Inv, NEW d \in Devices, NEW r \in Rooms, NEW h \in Hosts, Join(d, r, h)
  PROVE  Inv'
  <1> DEFINE x == Upsert(store[d].rooms[r], h, Clock(d))
  <1>1. x \in RoomState /\ GoneOK(d, x)
    BY RoomOf, ClockIsNat, UpsertOK
  <1>2. SetStore(d, [store[d] EXCEPT !.rooms[r] = x])
    BY DEF Join, SetRoom
  <1> HIDE DEF x
  <1>3. StoresOK'
    BY <1>1, <1>2, RoomInStore, SetStoreOK
  <1>4. StampsOK'
    BY ClockIsNat, StampOK DEF Join
  <1>5. PendingOK' /\ NetOK'
    BY DEF Join, Inv, PendingOK, NetOK
  <1>6. CountsOK'
    BY ActOK DEF Join, Inv, CountsOK
  <1> QED
    BY <1>3, <1>4, <1>5, <1>6 DEF Inv

LEMMA DeleteStep ==
  ASSUME Inv, NEW d \in Devices, NEW r \in Rooms, Delete(d, r)
  PROVE  Inv'
  <1> DEFINE x == Drop(store[d].rooms[r], Knows[d], Clock(d))
             s == [store[d] EXCEPT !.rooms[r] = x]
  <1>1. Knows[d] \in SUBSET Hosts
        /\ (SameHosts => \A e \in Devices : Knows[e] \subseteq Knows[d])
    BY DevicesAssumption DEF SameHosts
  <1>2. x \in RoomState /\ GoneOK(d, x)
    BY <1>1, RoomOf, ClockIsNat, DropOK
  <1>3. SetStore(d, s) /\ SyncOwnRooms(d, s, FALSE)
    BY DEF Delete
  <1> HIDE DEF x
  <1>4. s \in Store /\ StoreOK(d, s)
    BY <1>2, RoomInStore
  <1> HIDE DEF s
  <1>5. StoresOK' /\ PendingOK' /\ owed' \subseteq Devices
    BY <1>3, <1>4, SetStoreOK, SyncOK
  <1>6. StampsOK'
    BY ClockIsNat, StampOK DEF Delete
  <1>7. NetOK' /\ CountsOK'
    BY <1>5, ActOK DEF Delete, Inv, NetOK, CountsOK
  <1> QED
    BY <1>5, <1>6, <1>7 DEF Inv

LEMMA HideStep ==
  ASSUME Inv, NEW d \in Devices, NEW r \in Rooms, NEW h \in Hosts,
         Hide(d, r, h) \/ Unhide(d, r, h)
  PROVE  Inv'
  <1> DEFINE x == store[d].rooms[r]
  <1>1. x \in RoomState /\ GoneOK(d, x)
    BY RoomOf
  <1>2. PICK y : /\ SetStore(d, [store[d] EXCEPT !.rooms[r] = y])
                 /\ \/ y = [x EXCEPT !.tombs = @ \cup {h}]
                    \/ y = [x EXCEPT !.tombs = @ \ {h}] /\ h \in x.filed
    BY DEF Hide, Unhide, SetRoom
  <1> HIDE DEF x
  <1>3. y \in RoomState /\ GoneOK(d, y)
    BY <1>1, <1>2 DEF RoomState, GoneOK, Removed
  <1>4. StoresOK'
    BY <1>2, <1>3, RoomInStore, SetStoreOK
  <1>5. PendingOK' /\ NetOK' /\ StampsOK'
    BY DEF Hide, Unhide, Inv, PendingOK, NetOK, StampsOK
  <1>6. CountsOK'
    BY ActOK DEF Hide, Unhide, Inv, CountsOK
  <1> QED
    BY <1>4, <1>5, <1>6 DEF Inv

LEMMA RoomListStep ==
  ASSUME Inv, NEW d \in Devices, NEW r \in Rooms, NEW h \in Hosts,
         RoomList(d, r, h)
  PROVE  Inv'
  <1> DEFINE x == SyncFromRoomList(store[d].rooms[r], h)
  <1>1. h \in Knows[d] /\ SetStore(d, [store[d] EXCEPT !.rooms[r] = x])
    BY DEF RoomList, SetRoom
  <1>2. x \in RoomState /\ GoneOK(d, x)
    BY <1>1, RoomOf, ListOK
  <1> HIDE DEF x
  <1>3. StoresOK'
    BY <1>1, <1>2, RoomInStore, SetStoreOK
  <1>4. PendingOK' /\ NetOK' /\ StampsOK' /\ CountsOK'
    BY DEF RoomList, Inv, PendingOK, NetOK, StampsOK, CountsOK
  <1> QED
    BY <1>3, <1>4 DEF Inv

LEMMA ConnectStep == ASSUME Inv, NEW d \in Devices, Connect(d) PROVE Inv'
  <1>1. store[d] \in Store /\ StoreOK(d, store[d])
    BY DEF Inv, StoresOK
  <1>2. PendingOK' /\ owed' \subseteq Devices
    BY <1>1, SyncOK DEF Connect
  <1>3. StoresOK' /\ NetOK' /\ StampsOK' /\ CountsOK'
    BY <1>2 DEF Connect, Inv, StoresOK, NetOK, StampsOK, CountsOK
  <1> QED
    BY <1>2, <1>3 DEF Inv

LEMMA FlushStep == ASSUME Inv, NEW d \in Devices, Flush(d) PROVE Inv'
  <1>1. PICK p \in pending[d] :
          net' = [net EXCEPT ![d] = [e \in Devices |->
                   IF e \in online \ {d} THEN Append(@[e], p) ELSE @[e]]]
    BY DEF Flush
  <1>2. p \in Letter /\ SnapOK(p.snap)
    BY DEF Inv, PendingOK
  <1>3. \A a, e \in Devices :
          /\ net[a][e] \in Seq(Letter)
          /\ net'[a][e] = net[a][e] \/ net'[a][e] = Append(net[a][e], p)
    BY <1>1 DEF Inv, NetOK
  <1>4. net' \in [Devices -> [Devices -> Seq(Letter)]]
    <2> DEFINE f == [e \in Devices |->
                      IF e \in online \ {d} THEN Append(net[d][e], p) ELSE net[d][e]]
    <2>1. ASSUME NEW e \in Devices PROVE f[e] \in Seq(Letter)
      BY <1>2, <1>3
    <2>2. net' = [net EXCEPT ![d] = f]
      BY <1>1
    <2> HIDE DEF f
    <2>3. f \in [Devices -> Seq(Letter)]
      BY <2>1 DEF f
    <2> QED
      BY <2>2, <2>3 DEF Inv, NetOK
  <1>5. \A a, e \in Devices : QueueOK(net'[a][e])
    BY <1>2, <1>3, QueueKept DEF Inv, NetOK
  <1>6. NetOK'
    BY <1>4, <1>5 DEF NetOK
  <1>7. StoresOK' /\ PendingOK' /\ StampsOK' /\ CountsOK'
    BY DEF Flush, Inv, StoresOK, PendingOK, StampsOK, CountsOK
  <1> QED
    BY <1>6, <1>7 DEF Inv

LEMMA FlushLostStep == ASSUME Inv, NEW d \in Devices, FlushLost(d) PROVE Inv'
  <1>1. StoresOK' /\ NetOK' /\ StampsOK'
    BY DEF FlushLost, Inv, StoresOK, NetOK, StampsOK
  <1>2. PendingOK'
    BY DEF FlushLost, Inv, PendingOK
  <1>3. CountsOK'
    BY ActOK DEF FlushLost, Inv, CountsOK
  <1> QED
    BY <1>1, <1>2, <1>3 DEF Inv

LEMMA ReceiveStep ==
  ASSUME Inv, NEW d \in Devices, NEW e \in Devices, Receive(d, e) PROVE Inv'
  <1> DEFINE m == Head(net[e][d])
             s == MergeOwnDeviceSnapshot(store[d], m.snap, Knows[d])
  <1>1. net[e][d] \in Seq(Letter) /\ net[e][d] # <<>>
        /\ net' = [net EXCEPT ![e][d] = Tail(@)]
    BY DEF Receive, Arrives, Inv, NetOK
  <1>2. m \in Letter /\ m = net[e][d][1] /\ 1 \in 1..Len(net[e][d])
    BY <1>1
  <1>3. SnapOK(m.snap) /\ m.snap \in Snapshot
    BY <1>2 DEF Inv, NetOK, QueueOK, Letter
  <1>4. store[d] \in Store /\ StoreOK(d, store[d])
    BY DEF Inv, StoresOK
  <1> HIDE DEF m
  <1>5. s \in Store /\ StoreOK(d, s)
    BY <1>3, <1>4, MergeOK
  <1>6. SetStore(d, s) /\ (SyncOwnRooms(d, s, FALSE) \/ UNCHANGED <<pending, owed>>)
    BY DEF Receive, m
  <1> HIDE DEF s
  <1>7. StoresOK'
    BY <1>5, <1>6, SetStoreOK
  <1>8. PendingOK' /\ owed' \subseteq Devices
    <2>1. CASE SyncOwnRooms(d, s, FALSE)
      BY <1>5, <2>1, SyncOK
    <2>2. CASE UNCHANGED <<pending, owed>>
      BY <2>2 DEF Inv, PendingOK, CountsOK
    <2> QED
      BY <1>6, <2>1, <2>2
  <1>9. NetOK'
    <2>1. \A a, b \in Devices :
            /\ net[a][b] \in Seq(Letter)
            /\ \/ net'[a][b] = net[a][b]
               \/ net[a][b] # <<>> /\ net'[a][b] = Tail(net[a][b])
      BY <1>1 DEF Inv, NetOK
    <2>2. net' \in [Devices -> [Devices -> Seq(Letter)]]
      <3> DEFINE f == [net[e] EXCEPT ![d] = Tail(net[e][d])]
      <3>1. Tail(net[e][d]) \in Seq(Letter) /\ net[e] \in [Devices -> Seq(Letter)]
        BY <1>1 DEF Inv, NetOK
      <3>2. f \in [Devices -> Seq(Letter)]
        BY <3>1
      <3>3. net' = [net EXCEPT ![e] = f]
        BY <1>1
      <3> HIDE DEF f
      <3> QED
        BY <3>2, <3>3 DEF Inv, NetOK
    <2>3. \A a, b \in Devices : QueueOK(net'[a][b])
      BY <2>1, QueueKept DEF Inv, NetOK
    <2> QED
      BY <2>2, <2>3 DEF NetOK
  <1>10. StampsOK' /\ CountsOK'
    BY <1>8 DEF Receive, Inv, StampsOK, CountsOK
  <1> QED
    BY <1>7, <1>8, <1>9, <1>10 DEF Inv

LEMMA DisconnectStep == ASSUME Inv, NEW d \in Devices, Disconnect(d) PROVE Inv'
  <1>1. net' = [e \in Devices |-> [net[e] EXCEPT ![d] = <<>>]]
    BY DEF Disconnect
  <1>2. \A a, b \in Devices :
          net'[a][b] = net[a][b] \/ net'[a][b] = <<>>
    BY <1>1 DEF Inv, NetOK
  <1>3. net' \in [Devices -> [Devices -> Seq(Letter)]]
    <2>1. ASSUME NEW e \in Devices
          PROVE  [net[e] EXCEPT ![d] = <<>>] \in [Devices -> Seq(Letter)]
      <3>1. <<>> \in Seq(Letter) /\ net[e] \in [Devices -> Seq(Letter)]
        BY DEF Inv, NetOK
      <3> QED
        BY <3>1
    <2> QED
      BY <1>1, <2>1
  <1>4. NetOK'
    <2>1. QueueOK(<<>>)
      BY DEF QueueOK
    <2> QED
      BY <1>2, <1>3, <2>1 DEF Inv, NetOK
  <1>5. PendingOK'
    BY DEF Disconnect, Inv, PendingOK
  <1>6. StoresOK' /\ StampsOK' /\ CountsOK'
    BY ActOK DEF Disconnect, Inv, StoresOK, StampsOK, CountsOK
  <1> QED
    BY <1>4, <1>5, <1>6 DEF Inv

LEMMA InvStep == Inv /\ [Next]_vars => Inv'
  <1> SUFFICES ASSUME Inv, [Next]_vars PROVE Inv'
    OBVIOUS
  <1>1. CASE UNCHANGED vars
    BY <1>1 DEF vars, Inv, StoresOK, PendingOK, NetOK, StampsOK, CountsOK
  <1>2. CASE Tick
    BY <1>2 DEF Tick, Inv, StoresOK, PendingOK, NetOK, StampsOK, CountsOK
  <1>3. ASSUME NEW d \in Devices,
               \/ Connect(d) \/ Flush(d) \/ FlushLost(d) \/ Disconnect(d)
               \/ \E e \in Devices : Receive(d, e)
        PROVE  Inv'
    BY <1>3, ConnectStep, FlushStep, FlushLostStep, DisconnectStep, ReceiveStep
  <1>4. ASSUME NEW d \in Devices, NEW r \in Rooms,
               \/ \E c \in Contents : Create(d, r, c)
               \/ Delete(d, r)
               \/ \E h \in Hosts : \/ Join(d, r, h) \/ Hide(d, r, h)
                                   \/ Unhide(d, r, h) \/ RoomList(d, r, h)
        PROVE  Inv'
    BY <1>4, CreateStep, DeleteStep, JoinStep, HideStep, RoomListStep
  <1> QED
    BY <1>1, <1>2, <1>3, <1>4 DEF Next

LEMMA InvHolds == Spec => []Inv
  BY InitOK, InvStep, PTL DEF Spec

(* Merging keeps the stores of all devices well formed, the Space included,*)
(* and at most one snapshot waits to be sent on a device (sync_own_rooms   *)
(* replaces the one that waits), for any devices, clusters and clocks.     *)
THEOREM StoresWellFormed == Spec => []TypeOK
  <1>1. Inv => TypeOK
    BY DEF Inv, StoresOK, PendingOK, NetOK, StampsOK, CountsOK, TypeOK
  <1> QED
    BY <1>1, InvHolds, PTL

(* Where the devices know the same hosts, a room that delete_room or a     *)
(* sibling's removal took away has no entry on the device, whatever room   *)
(* lists, stale snapshots and merges come after it.                        *)
THEOREM RemovedStaysGone == ASSUME SameHosts PROVE Spec => []RemovedIsGone
  <1>1. Inv => RemovedIsGone
    BY SameHosts DEF Inv, StoresOK, StoreOK, GoneOK, RemovedIsGone
  <1> QED
    BY <1>1, InvHolds, PTL

-----------------------------------------------------------------------------
(* How news reaches a device. H: the devices that hold it; C: the letters  *)
(* that carry it; M: the devices that hold it and still owe a letter, or   *)
(* keep it to themselves. on, pn and nt are Heard, pending and net.        *)

(* What is in a queue.                                                     *)
Letters(q) == {q[i] : i \in 1..Len(q)}

LEMMA LettersAppend ==
  ASSUME NEW q \in Seq(Letter), NEW p \in Letter
  PROVE  Letters(Append(q, p)) = Letters(q) \cup {p}
  <1>1. Len(Append(q, p)) = Len(q) + 1 /\ Append(q, p)[Len(q) + 1] = p
        /\ Len(q) \in Nat
    OBVIOUS
  <1>2. \A i \in 1..Len(q) : Append(q, p)[i] = q[i]
    OBVIOUS
  <1> QED
    BY <1>1, <1>2 DEF Letters

LEMMA LettersTail ==
  ASSUME NEW q \in Seq(Letter), q # <<>>
  PROVE  /\ Head(q) \in Letters(q)
         /\ Letters(q) = {Head(q)} \cup Letters(Tail(q))
  <1>1. Len(q) \in Nat /\ Len(q) >= 1 /\ Head(q) = q[1] /\ Len(Tail(q)) = Len(q) - 1
    OBVIOUS
  <1>2. \A i \in 1..Len(q) - 1 : Tail(q)[i] = q[i + 1]
    OBVIOUS
  <1>3. ASSUME NEW i \in 1..Len(q), i # 1
        PROVE  i - 1 \in 1..Len(Tail(q)) /\ q[i] = Tail(q)[i - 1]
    BY <1>1, <1>2, <1>3
  <1>4. Letters(q) \subseteq {Head(q)} \cup Letters(Tail(q))
    BY <1>1, <1>3 DEF Letters
  <1>5. ASSUME NEW i \in 1..Len(Tail(q)) PROVE i + 1 \in 1..Len(q) /\ Tail(q)[i] = q[i + 1]
    BY <1>1, <1>2
  <1>6. Letters(Tail(q)) \subseteq Letters(q)
    BY <1>5 DEF Letters
  <1>7. Head(q) \in Letters(q)
    BY <1>1 DEF Letters
  <1> QED
    BY <1>4, <1>6, <1>7

(* The device g, which holds the news, is going to tell e: it is offline,  *)
(* or had a snapshot refused, and says all it has when it connects again,  *)
(* a letter waits on it, or e has asked for an answer.                     *)
Told(on, pn, nt, C, M, g, e) ==
  \/ g \notin on
  \/ g \in M
  \/ \E p \in pn[g] : p \in C
  \/ \E p \in pn[e] : p.reply = TRUE
  \/ \E p \in Letters(nt[e][g]) : p.reply = TRUE

Arriving(nt, C, e) ==
  \E f \in Devices : \E p \in Letters(nt[f][e]) : p \in C

Reaches(on, pn, nt, H, C, M, e) ==
  \/ e \in H
  \/ Arriving(nt, C, e)
  \/ \E g \in H \ {e} : Told(on, pn, nt, C, M, g, e)

(* A device's store changes, nothing is sent.                              *)
LEMMA ReachSame ==
  ASSUME NEW on, NEW pn, NEW nt, NEW H \in SUBSET Devices, NEW H2, NEW C, NEW M, NEW M2, NEW e,
         H \subseteq H2, H \cap M \subseteq M2,
         Reaches(on, pn, nt, H, C, M, e)
  PROVE  Reaches(on, pn, nt, H2, C, M2, e)
  BY DEF Reaches, Told

(* sync_own_rooms on d: the letter q replaces what waits there.            *)
LEMMA ReachSync ==
  ASSUME NEW on, NEW pn, NEW nt, NEW H \in SUBSET Devices, NEW H2, NEW C, NEW M, NEW M2,
         NEW d \in Devices, NEW e \in Devices, NEW q, DOMAIN pn = Devices,
         H \subseteq H2, (H \cap M) \ {d} \subseteq M2,
         d \in H2 => q \in C \/ d \in M2,
         (\E p \in pn[d] : p.reply = TRUE) => q.reply = TRUE,
         Reaches(on, pn, nt, H, C, M, e)
  PROVE  Reaches(on, [pn EXCEPT ![d] = {q}], nt, H2, C, M2, e)
  <1> DEFINE pn2 == [pn EXCEPT ![d] = {q}]
  <1>1. pn2[d] = {q} /\ \A a \in Devices \ {d} : pn2[a] = pn[a]
    OBVIOUS
  <1> HIDE DEF pn2
  <1>2. ASSUME NEW g \in H \ {e}, Told(on, pn, nt, C, M, g, e)
        PROVE  Told(on, pn2, nt, C, M2, g, e)
    BY <1>1, <1>2 DEF Told
  <1> QED
    BY <1>2 DEF Reaches, pn2

(* d connects: it says what it has, and asks.                              *)
LEMMA ReachConnect ==
  ASSUME NEW on \in SUBSET Devices, NEW pn, NEW nt, NEW H \in SUBSET Devices, NEW C, NEW M, NEW M2,
         NEW d \in Devices, NEW e \in on \cup {d}, NEW q, DOMAIN pn = Devices,
         H # {}, (H \cap M) \ {d} \subseteq M2,
         d \in H => q \in C \/ d \in M2, q.reply = TRUE,
         e \in on => Reaches(on, pn, nt, H, C, M, e)
  PROVE  Reaches(on \cup {d}, [pn EXCEPT ![d] = {q}], nt, H, C, M2, e)
  <1> DEFINE pn2 == [pn EXCEPT ![d] = {q}]
  <1>1. pn2[d] = {q} /\ \A a \in Devices \ {d} : pn2[a] = pn[a]
    OBVIOUS
  <1> HIDE DEF pn2
  <1>2. CASE e = d
    <2>1. ASSUME NEW g \in H \ {e} PROVE Told(on \cup {d}, pn2, nt, C, M2, g, e)
      BY <1>1, <1>2 DEF Told
    <2> QED
      BY <2>1 DEF Reaches, pn2
  <1>3. CASE e # d
    <2>1. ASSUME NEW g \in H \ {e}, Told(on, pn, nt, C, M, g, e)
          PROVE  Told(on \cup {d}, pn2, nt, C, M2, g, e)
      BY <1>1, <1>3, <2>1 DEF Told
    <2> QED
      BY <1>3, <2>1 DEF Reaches, pn2
  <1> QED
    BY <1>2, <1>3

(* d loses its connection, and with it what was on its way to d.           *)
LEMMA ReachDisconnect ==
  ASSUME NEW on, NEW pn, NEW pn2, NEW nt, NEW nt2, NEW H, NEW C, NEW M,
         NEW d \in Devices, NEW e \in Devices \ {d}, H \subseteq Devices,
         \A a \in Devices \ {d} : pn2[a] = pn[a],
         \A a \in Devices, b \in Devices \ {d} : nt2[a][b] = nt[a][b],
         Reaches(on, pn, nt, H, C, M, e)
  PROVE  Reaches(on \ {d}, pn2, nt2, H, C, M, e)
  <1>1. Arriving(nt, C, e) => Arriving(nt2, C, e)
    BY DEF Arriving
  <1>2. ASSUME NEW g \in H \ {e}, Told(on, pn, nt, C, M, g, e)
        PROVE  Told(on \ {d}, pn2, nt2, C, M, g, e)
    <2>1. CASE g = d
      BY <2>1 DEF Told
    <2>2. CASE g # d
      <3>1. pn2[g] = pn[g] /\ pn2[e] = pn[e] /\ nt2[e][g] = nt[e][g]
        BY <2>2
      <3> QED
        BY <1>2, <3>1 DEF Told
    <2> QED
      BY <2>1, <2>2
  <1> QED
    BY <1>1, <1>2 DEF Reaches

(* flush_own_room_sync: the one letter that waits goes to all who are there. *)
Sends(on, pn, pn2, nt, nt2, d, p) ==
  /\ pn[d] = {p} /\ pn2[d] = {} /\ \A a \in Devices \ {d} : pn2[a] = pn[a]
  /\ \A a, b \in Devices : nt[a][b] \in Seq(Letter)
  /\ \A a, b \in Devices :
       \/ a = d /\ nt2[a][b] = Append(nt[a][b], p)
       \/ ~(a = d /\ b \in on \ {d}) /\ nt2[a][b] = nt[a][b]

LEMMA ReachFlush ==
  ASSUME NEW on \in SUBSET Devices, NEW pn, NEW pn2, NEW nt, NEW nt2,
         NEW H \in SUBSET Devices, NEW C, NEW M,
         NEW d \in Devices, NEW e \in on, NEW p \in Letter,
         Sends(on, pn, pn2, nt, nt2, d, p),
         Reaches(on, pn, nt, H, C, M, e)
  PROVE  Reaches(on, pn2, nt2, H, C, M, e)
  <1>1. ASSUME NEW a \in Devices, NEW b \in Devices
        PROVE  Letters(nt[a][b]) \subseteq Letters(nt2[a][b])
    <2>1. nt[a][b] \in Seq(Letter)
          /\ (nt2[a][b] = nt[a][b] \/ nt2[a][b] = Append(nt[a][b], p))
      BY DEF Sends
    <2> QED
      BY <2>1, LettersAppend
  <1>2. ASSUME NEW b \in on \ {d} PROVE p \in Letters(nt2[d][b])
    <2>1. nt[d][b] \in Seq(Letter) /\ nt2[d][b] = Append(nt[d][b], p)
      BY DEF Sends
    <2> QED
      BY <2>1, LettersAppend
  <1>s. pn[d] = {p} /\ pn2[d] = {} /\ \A a \in Devices \ {d} : pn2[a] = pn[a]
    BY DEF Sends
  <1>3. Arriving(nt, C, e) => Arriving(nt2, C, e)
    BY <1>1 DEF Arriving
  <1>4. ASSUME NEW g \in H \ {e}, Told(on, pn, nt, C, M, g, e)
        PROVE  Told(on, pn2, nt2, C, M, g, e) \/ Arriving(nt2, C, e)
    <2>1. CASE \E q \in pn[g] : q \in C
      <3>1. CASE g = d
        BY <1>2, <1>4, <1>s, <2>1, <3>1 DEF Arriving
      <3>2. CASE g # d
        BY <1>s, <2>1, <3>2 DEF Told
      <3> QED
        BY <3>1, <3>2
    <2>2. CASE \E q \in pn[e] : q.reply = TRUE
      <3>1. CASE e = d
        <4>1. p.reply = TRUE
          BY <1>s, <2>2, <3>1
        <4>2. g \in on => \E x \in Letters(nt2[e][g]) : x.reply = TRUE
          BY <1>2, <3>1, <4>1
        <4> QED
          BY <4>2 DEF Told
      <3>2. CASE e # d
        BY <1>s, <2>2, <3>2 DEF Told
      <3> QED
        BY <3>1, <3>2
    <2>3. CASE \E x \in Letters(nt[e][g]) : x.reply = TRUE
      BY <1>1, <2>3 DEF Told
    <2> QED
      BY <1>4, <2>1, <2>2, <2>3 DEF Told
  <1> QED
    BY <1>3, <1>4 DEF Reaches

(* A letter of d is ready that carries the news, if d holds it, and asks   *)
(* if the one it replaces did.                                             *)
Answers(pn, pn2, H2, C, M2, d) ==
  \E q :
    /\ pn2[d] = {q}
    /\ d \in H2 => q \in C \/ d \in M2
    /\ (\E p \in pn[d] : p.reply = TRUE) => q.reply = TRUE

(* The first letter from f to d is taken out.                              *)
Takes(pn, pn2, nt, nt2, d, f) ==
  /\ \A a \in Devices \ {d} : pn2[a] = pn[a]
  /\ \A a, b \in Devices : nt[a][b] \in Seq(Letter)
  /\ nt[f][d] # <<>>
  /\ \A a, b \in Devices :
       nt2[a][b] = IF a = f /\ b = d THEN Tail(nt[a][b]) ELSE nt[a][b]

(* merge_own_rooms on d of that letter: it is held from then on, and who   *)
(* asked is answered.                                                      *)
LEMMA ReachReceive ==
  ASSUME NEW on, NEW pn, NEW pn2, NEW nt, NEW nt2,
         NEW H \in SUBSET Devices, NEW H2, NEW C, NEW M, NEW M2,
         NEW d \in Devices, NEW f \in Devices, NEW e \in Devices,
         H \subseteq H2, (H \cap M) \ {d} \subseteq M2,
         Takes(pn, pn2, nt, nt2, d, f),
         Head(nt[f][d]) \in C => d \in H2,
         \/ Answers(pn, pn2, H2, C, M2, d)
         \/ /\ pn2[d] = pn[d] /\ Head(nt[f][d]).reply # TRUE
            /\ d \in H \cap M => d \in M2,
         Reaches(on, pn, nt, H, C, M, e)
  PROVE  Reaches(on, pn2, nt2, H2, C, M2, e)
  <1> USE DEF Takes
  <1> DEFINE m == Head(nt[f][d])
  <1>1. \/ Answers(pn, pn2, H2, C, M2, d)
        \/ /\ pn2[d] = pn[d] /\ m.reply # TRUE
           /\ d \in H \cap M => d \in M2
    OBVIOUS
  <1>2. ASSUME NEW a \in Devices, NEW b \in Devices, NEW p \in Letters(nt[a][b]),
               ~(a = f /\ b = d /\ p = m)
        PROVE  p \in Letters(nt2[a][b])
    <2>1. CASE a = f /\ b = d
      <3>1. nt[f][d] \in Seq(Letter) /\ nt2[f][d] = Tail(nt[f][d])
        OBVIOUS
      <3> QED
        BY <1>2, <2>1, <3>1, LettersTail
    <2>2. CASE ~(a = f /\ b = d)
      <3>1. nt2[a][b] = nt[a][b]
        BY <2>2
      <3> QED
        BY <3>1
    <2> QED
      BY <2>1, <2>2
  <1> HIDE DEF m
  <1>3. m \in C => d \in H2
    BY DEF m
  <1>4. Arriving(nt, C, e) => e \in H2 \/ Arriving(nt2, C, e)
    <2>1. ASSUME NEW a \in Devices, NEW p \in Letters(nt[a][e]), p \in C
          PROVE  e \in H2 \/ Arriving(nt2, C, e)
      <3>1. CASE a = f /\ e = d /\ p = m
        BY <1>3, <2>1, <3>1
      <3>2. CASE ~(a = f /\ e = d /\ p = m)
        BY <1>2, <2>1, <3>2 DEF Arriving
      <3> QED
        BY <3>1, <3>2
    <2> QED
      BY <2>1 DEF Arriving
  <1>5. ASSUME NEW g \in H \ {e}, Told(on, pn, nt, C, M, g, e)
        PROVE  Told(on, pn2, nt2, C, M2, g, e)
    <2>1. CASE Answers(pn, pn2, H2, C, M2, d)
      <3>1. g = d => Told(on, pn2, nt2, C, M2, g, e)
        BY <2>1 DEF Told, Answers
      <3>2. ASSUME g # d, \E p \in Letters(nt[e][g]) : p.reply = TRUE
            PROVE  \E p \in Letters(nt2[e][g]) : p.reply = TRUE
        BY <1>2, <3>2
      <3>3. (\E p \in pn[e] : p.reply = TRUE) => \E p \in pn2[e] : p.reply = TRUE
        BY <2>1 DEF Answers
      <3> QED
        BY <1>5, <3>1, <3>2, <3>3 DEF Told
    <2>2. CASE /\ pn2[d] = pn[d] /\ m.reply # TRUE
               /\ d \in H \cap M => d \in M2
      <3>1. pn2[g] = pn[g] /\ pn2[e] = pn[e] /\ (g \in M => g \in M2)
        BY <2>2
      <3>2. ASSUME \E p \in Letters(nt[e][g]) : p.reply = TRUE
            PROVE  \E p \in Letters(nt2[e][g]) : p.reply = TRUE
        <4>1. PICK p \in Letters(nt[e][g]) : p.reply = TRUE
          BY <3>2
        <4>2. p # m
          BY <2>2, <4>1
        <4> QED
          BY <1>2, <4>1, <4>2
      <3> QED
        BY <1>5, <3>1, <3>2 DEF Told
    <2> QED
      BY <1>1, <2>1, <2>2
  <1> QED
    BY <1>4, <1>5 DEF Reaches

-----------------------------------------------------------------------------
(* What the steps that trade do to pending and net                         *)

(* q is the letter of d about the store s.                                 *)
Writes(d, s, asks, q) ==
  /\ pending' = [pending EXCEPT ![d] = {q}]
  /\ q \in Letter /\ q.snap = OwnDeviceSnapshot(s)
  /\ (asks \/ \E p \in pending[d] : p.reply = TRUE) => q.reply = TRUE

LEMMA SyncWrites ==
  ASSUME Inv, NEW d \in Devices, NEW s \in Store, StoreOK(d, s),
         NEW b \in BOOLEAN, SyncOwnRooms(d, s, b)
  PROVE  (\E q : Writes(d, s, b, q)) /\ owed' = owed \ {d}
  <1> DEFINE rep == b \/ \E p \in pending[d] : p.reply
             q == [snap |-> OwnDeviceSnapshot(s), reply |-> rep]
  <1>1. rep \in BOOLEAN /\ ((b \/ \E p \in pending[d] : p.reply = TRUE) => rep = TRUE)
    OBVIOUS
  <1>2. OwnDeviceSnapshot(s) \in Snapshot
    BY SnapshotOK
  <1>3. pending' = [pending EXCEPT ![d] = {q}] /\ owed' = owed \ {d}
    BY DEF SyncOwnRooms, QueueOwnRoomSync
  <1> HIDE DEF rep
  <1>4. q \in Letter /\ q.snap = OwnDeviceSnapshot(s) /\ q.reply = rep
    BY <1>1, <1>2 DEF Letter
  <1> HIDE DEF q
  <1> QED
    BY <1>1, <1>3, <1>4 DEF Writes

LEMMA FlushSends ==
  ASSUME Inv, NEW d \in Devices, Flush(d)
  PROVE  \E p \in Letter : Sends(Heard, pending, pending', net, net', d, p)
  <1>1. PICK p \in pending[d] :
          net' = [net EXCEPT ![d] = [e \in Devices |->
                   IF e \in online \ {d} THEN Append(@[e], p) ELSE @[e]]]
    BY DEF Flush
  <1>2. p \in Letter /\ pending[d] = {p}
    BY DEF Inv, PendingOK
  <1>3. ASSUME NEW a \in Devices, NEW b \in Devices
        PROVE  net'[a][b] = IF a = d /\ b \in online \ {d}
                            THEN Append(net[a][b], p) ELSE net[a][b]
    BY <1>1 DEF Inv, NetOK
  <1>4. pending'[d] = {} /\ \A a \in Devices \ {d} : pending'[a] = pending[a]
    BY DEF Flush, Inv, PendingOK
  <1>5. \A a, b \in Devices : net[a][b] \in Seq(Letter)
    BY DEF Inv, NetOK
  <1> QED
    <2>1. ASSUME NEW a \in Devices, NEW b \in Devices
          PROVE  \/ a = d /\ net'[a][b] = Append(net[a][b], p)
                 \/ ~(a = d /\ b \in Heard \ {d}) /\ net'[a][b] = net[a][b]
      <3>1. CASE a = d /\ b \in online \ {d}
        BY <1>3, <3>1
      <3>2. CASE ~(a = d /\ b \in online \ {d})
        BY <1>3, <3>2 DEF Heard
      <3> QED
        BY <3>1, <3>2
    <2> QED
      BY <1>2, <1>4, <1>5, <2>1 DEF Sends

LEMMA ReceiveTakes ==
  ASSUME Inv, NEW d \in Devices, NEW f \in Devices, Receive(d, f)
  PROVE  /\ net[f][d] # <<>>
         /\ Head(net[f][d]) \in Letter /\ Head(net[f][d]) \in Letters(net[f][d])
         /\ SnapOK(Head(net[f][d]).snap)
         /\ \A a, b \in Devices :
              /\ net[a][b] \in Seq(Letter)
              /\ net'[a][b] = IF a = f /\ b = d THEN Tail(net[a][b]) ELSE net[a][b]
  <1>1. net[f][d] # <<>> /\ net' = [net EXCEPT ![f][d] = Tail(@)]
    BY DEF Receive, Arrives
  <1>2. \A a, b \in Devices : net[a][b] \in Seq(Letter)
    BY DEF Inv, NetOK
  <1>3. Head(net[f][d]) \in Letter /\ Head(net[f][d]) = net[f][d][1]
        /\ 1 \in 1..Len(net[f][d])
    BY <1>1, <1>2
  <1>4. SnapOK(Head(net[f][d]).snap)
    BY <1>3 DEF Inv, NetOK, QueueOK
  <1>5. Head(net[f][d]) \in Letters(net[f][d])
    BY <1>1, <1>2, LettersTail
  <1>6. ASSUME NEW a \in Devices, NEW b \in Devices
        PROVE  net'[a][b] = IF a = f /\ b = d THEN Tail(net[a][b]) ELSE net[a][b]
    BY <1>1 DEF Inv, NetOK
  <1> QED
    BY <1>1, <1>2, <1>3, <1>4, <1>5, <1>6

LEMMA HeardType == ASSUME Inv PROVE Heard \in SUBSET Devices
  BY DEF Inv, CountsOK, Heard

(* A refused snapshot: who wrote it is no longer heard.                    *)
LEMMA LostSilences ==
  ASSUME Inv, NEW d \in Devices, FlushLost(d)
  PROVE  /\ \A a \in Devices \ {d} : pending'[a] = pending[a]
         /\ pending'[d] = {} /\ net' = net /\ Heard' = Heard \ {d}
         /\ UNCHANGED <<store, newest, owed, now>>
  BY DEF FlushLost, Heard, Inv, PendingOK

LEMMA DisconnectLoses ==
  ASSUME Inv, NEW d \in Devices, Disconnect(d)
  PROVE  /\ \A a \in Devices \ {d} : pending'[a] = pending[a]
         /\ pending'[d] \subseteq pending[d]
         /\ \A a, b \in Devices :
              net'[a][b] = IF b = d THEN <<>> ELSE net[a][b]
  <1>1. net' = [e \in Devices |-> [net[e] EXCEPT ![d] = <<>>]]
    BY DEF Disconnect
  <1>2. ASSUME NEW a \in Devices, NEW b \in Devices
        PROVE  net'[a][b] = IF b = d THEN <<>> ELSE net[a][b]
    BY <1>1 DEF Inv, NetOK
  <1> QED
    BY <1>2 DEF Disconnect, Inv, PendingOK

-----------------------------------------------------------------------------
(* All devices end up with the same tree                                   *)

(* Every device knows the host of the Space, so that it merges the trees   *)
(* its siblings send.                                                      *)
SpaceKnown == \A d \in Devices : SpaceHost \in Knows[d]

(* Whoever holds the tree a has taken in the tree b.                       *)
Above(a, b) ==
  \/ a.epoch > b.epoch
  \/ a.epoch = b.epoch /\ \A r \in Rooms : a.nodes[r] >= b.nodes[r]

LEMMA SpaceParts ==
  ASSUME NEW a \in Space
  PROVE  /\ a.epoch \in Nat /\ \A r \in Rooms : a.nodes[r] \in Nat
         /\ a.nodes = [r \in Rooms |-> a.nodes[r]]
         /\ a = [epoch |-> a.epoch, nodes |-> a.nodes]
  <1>1. a.epoch \in Nat /\ a.nodes \in [Rooms -> Contents \cup {0}]
        /\ a = [epoch |-> a.epoch, nodes |-> a.nodes]
    BY DEF Space
  <1>2. \A c \in Contents \cup {0} : c \in Nat
    BY ContentsAssumption
  <1> QED
    BY <1>1, <1>2

LEMMA AboveOrder ==
  ASSUME NEW a \in Space, NEW b \in Space
  PROVE  /\ Above(a, a)
         /\ Above(a, b) /\ Above(b, a) => a = b
         /\ \A c \in Space : Above(a, b) /\ Above(b, c) => Above(a, c)
  <1>0. /\ a.epoch \in Nat /\ \A r \in Rooms : a.nodes[r] \in Nat
        /\ b.epoch \in Nat /\ \A r \in Rooms : b.nodes[r] \in Nat
    BY SpaceParts
  <1>1. Above(a, a)
    BY <1>0 DEF Above
  <1>2. ASSUME Above(a, b), Above(b, a) PROVE a = b
    <2>1. a.epoch = b.epoch /\ \A r \in Rooms : a.nodes[r] = b.nodes[r]
      BY <1>0, <1>2 DEF Above
    <2>2. a.nodes = b.nodes
      <3>1. a.nodes = [r \in Rooms |-> a.nodes[r]] /\ b.nodes = [r \in Rooms |-> b.nodes[r]]
        BY SpaceParts
      <3> QED
        BY <2>1, <3>1
    <2>3. \A x, y \in Space : x.epoch = y.epoch /\ x.nodes = y.nodes => x = y
      BY DEF Space
    <2> QED
      BY <2>1, <2>2, <2>3
  <1>3. ASSUME NEW c \in Space, Above(a, b), Above(b, c) PROVE Above(a, c)
    <2>1. c.epoch \in Nat /\ \A r \in Rooms : c.nodes[r] \in Nat
      BY SpaceParts
    <2> QED
      BY <1>0, <1>3, <2>1 DEF Above
  <1> QED
    BY <1>1, <1>2, <1>3

LEMMA MergeAbove ==
  ASSUME NEW a \in Space, NEW b \in Space
  PROVE  Above(MergeSpace(a, b), a) /\ Above(MergeSpace(a, b), b)
  <1> DEFINE nodes == MergedNodes(a, b)
             m == [epoch |-> Later(a.epoch, b.epoch) + 1, nodes |-> nodes]
  <1>1. a.epoch \in Nat /\ b.epoch \in Nat
    BY DEF Space
  <1>2. ASSUME a.epoch = b.epoch, NEW r \in Rooms
        PROVE  nodes[r] >= a.nodes[r] /\ nodes[r] >= b.nodes[r]
    BY <1>2, MergedNodeOf DEF Later
  <1> HIDE DEF nodes
  <1>3. CASE b.nodes = nodes /\ b.epoch >= a.epoch
    <2>1. MergeSpace(a, b) = b
      BY <1>3 DEF MergeSpace, nodes
    <2>2. Above(b, b)
      BY AboveOrder
    <2>3. Above(b, a)
      BY <1>1, <1>2, <1>3 DEF Above
    <2> QED
      BY <2>1, <2>2, <2>3
  <1>4. CASE a.nodes = nodes /\ a.epoch >= b.epoch
    <2>1. MergeSpace(a, b) = a \/ (MergeSpace(a, b) = b /\ a.epoch = b.epoch)
      BY <1>1, <1>4 DEF MergeSpace, nodes
    <2>2. CASE MergeSpace(a, b) = a
      <3>1. Above(a, a)
        BY AboveOrder
      <3>2. Above(a, b)
        BY <1>1, <1>2, <1>4 DEF Above
      <3> QED
        BY <2>2, <3>1, <3>2
    <2>3. CASE MergeSpace(a, b) = b /\ MergeSpace(a, b) # a /\ a.epoch = b.epoch
      <3>1. b.nodes = nodes
        BY <2>3, <1>1, <1>4 DEF MergeSpace, nodes
      <3> QED
        BY <1>3, <2>3, <3>1, <1>1
    <2> QED
      BY <2>1, <2>2, <2>3
  <1>5. CASE ~(b.nodes = nodes /\ b.epoch >= a.epoch)
             /\ ~(a.nodes = nodes /\ a.epoch >= b.epoch)
    <2>1. MergeSpace(a, b) = m
      BY <1>5 DEF MergeSpace, nodes
    <2>2. m.epoch > a.epoch /\ m.epoch > b.epoch
      BY <1>1 DEF Later
    <2> QED
      BY <2>1, <2>2 DEF Above
  <1> QED
    BY <1>3, <1>4, <1>5

(* A device that has no tree of its own to send leaves the receiver's as   *)
(* it is.                                                                  *)
LEMMA MergeNothing ==
  ASSUME NEW a \in Space PROVE MergeSpace(a, NoSpace) = a
  <1>1. NoSpace \in Space
    BY DEF NoSpace, Space
  <1>2. MergedNodes(a, NoSpace) = a.nodes
    <2>1. ASSUME NEW r \in Rooms PROVE MergedNodes(a, NoSpace)[r] = a.nodes[r]
      <3>1. NoSpace.nodes[r] = 0
        BY DEF NoSpace
      <3> QED
        BY <1>1, <3>1, MergedNodeOf
    <2> QED
      BY <2>1, SpaceParts DEF MergedNodes
  <1>3. a.epoch \in Nat /\ NoSpace.epoch = 0
    BY DEF Space, NoSpace
  <1>4. CASE NoSpace.nodes = a.nodes /\ a.epoch = 0
    <2>1. a = NoSpace
      BY <1>4, SpaceParts DEF NoSpace
    <2> QED
      <3>1. MergeSpace(a, a) = a
        BY <1>2, <1>3, <2>1 DEF MergeSpace
      <3> QED
        BY <2>1, <3>1
  <1>5. CASE ~(NoSpace.nodes = a.nodes /\ a.epoch = 0)
    BY <1>2, <1>3, <1>5 DEF MergeSpace
  <1> QED
    BY <1>4, <1>5

HoldTree(st, X) == {d \in Devices : Above(st[d].space, X)}
BearTree(X) == {p \in Letter : Above(p.snap.space, X)}

(* The tree X reaches every device that is connected.                      *)
TreeReach(on, pn, nt, st, X) ==
  \A e \in on : Reaches(on, pn, nt, HoldTree(st, X), BearTree(X), {}, e)

(* A device has taken in all it sent, and the tree of each device reaches  *)
(* all others that are connected.                                          *)
SentTrees ==
  \A d \in Devices :
    /\ \A p \in pending[d] : Above(store[d].space, p.snap.space)
    /\ \A e \in Devices : \A p \in Letters(net[d][e]) :
         Above(store[d].space, p.snap.space)

TreeInv ==
  /\ SentTrees
  /\ \A d \in Devices : TreeReach(Heard, pending, net, store, store[d].space)

LEMMA ReachMore ==
  ASSUME NEW on, NEW pn, NEW nt, NEW H \in SUBSET Devices, NEW H2, NEW C, NEW C2,
         NEW M, NEW e, H \subseteq H2, C \subseteq C2,
         Reaches(on, pn, nt, H, C, M, e)
  PROVE  Reaches(on, pn, nt, H2, C2, M, e)
  BY DEF Reaches, Told, Arriving

(* A device that has a letter about the news ready tells everybody.        *)
LEMMA ReachWritten ==
  ASSUME NEW on, NEW pn, NEW nt, NEW H \in SUBSET Devices, NEW C, NEW M, NEW e,
         NEW d \in H, NEW p \in pn[d], p \in C
  PROVE  Reaches(on, pn, nt, H, C, M, e)
  BY DEF Reaches, Told

LEMMA LetterSpace ==
  ASSUME NEW p \in Letter PROVE p.snap \in Snapshot /\ p.snap.space \in Space
  BY DEF Letter, Snapshot

LEMMA SpaceOf == ASSUME Inv, NEW d \in Devices PROVE store[d].space \in Space
  BY DEF Inv, StoresOK, Store

LEMMA SnapshotSpace ==
  ASSUME NEW s PROVE OwnDeviceSnapshot(s).space = s.space
  BY DEF OwnDeviceSnapshot

LEMMA TreeReachLower ==
  ASSUME NEW on, NEW pn, NEW nt, NEW st, NEW X \in Space, NEW Y \in Space,
         \A d \in Devices : st[d].space \in Space,
         Above(Y, X), TreeReach(on, pn, nt, st, Y)
  PROVE  TreeReach(on, pn, nt, st, X)
  <1>1. HoldTree(st, Y) \subseteq HoldTree(st, X)
    BY AboveOrder DEF HoldTree
  <1>2. BearTree(Y) \subseteq BearTree(X)
    BY AboveOrder, LetterSpace DEF BearTree
  <1>3. HoldTree(st, Y) \in SUBSET Devices
    BY DEF HoldTree
  <1> QED
    BY <1>1, <1>2, <1>3, ReachMore DEF TreeReach

(* The trees only grow, and the letters in pending and net were said.      *)
LEMMA SentKept ==
  ASSUME Inv, Inv', SentTrees,
         \A d \in Devices :
           /\ Above(store'[d].space, store[d].space)
           /\ \A p \in pending'[d] :
                p \in pending[d] \/ Above(store'[d].space, p.snap.space)
           /\ \A e \in Devices : \A p \in Letters(net'[d][e]) :
                p \in Letters(net[d][e]) \/ p \in pending[d]
  PROVE  SentTrees'
  <1>1. ASSUME NEW d \in Devices, NEW p \in Letter,
               Above(store[d].space, p.snap.space)
        PROVE  Above(store'[d].space, p.snap.space)
    <2>1. store[d].space \in Space /\ store'[d].space \in Space
      BY DEF Inv, StoresOK, Store
    <2> QED
      BY <1>1, <2>1, AboveOrder, LetterSpace
  <1>2. \A d \in Devices : pending[d] \subseteq Letter
    BY DEF Inv, PendingOK
  <1>3. \A d, e \in Devices : Letters(net[d][e]) \subseteq Letter
    BY DEF Inv, NetOK, Letters
  <1>4. ASSUME NEW d \in Devices, NEW p \in pending'[d]
        PROVE  Above(store'[d].space, p.snap.space)
    BY <1>1, <1>2 DEF SentTrees
  <1>5. ASSUME NEW d \in Devices, NEW e \in Devices, NEW p \in Letters(net'[d][e])
        PROVE  Above(store'[d].space, p.snap.space)
    BY <1>1, <1>2, <1>3 DEF SentTrees
  <1> QED
    BY <1>4, <1>5 DEF SentTrees

LEMMA HoldTreeGrows ==
  ASSUME Inv, Inv', NEW X \in Space,
         \A d \in Devices : Above(store'[d].space, store[d].space)
  PROVE  /\ HoldTree(store, X) \subseteq HoldTree(store', X)
         /\ HoldTree(store, X) \in SUBSET Devices
         /\ HoldTree(store', X) \in SUBSET Devices
  <1>1. \A d \in Devices : store[d].space \in Space /\ store'[d].space \in Space
    BY DEF Inv, StoresOK, Store
  <1> QED
    BY <1>1, AboveOrder DEF HoldTree

(* Nothing is sent and the trees stay.                                     *)
LEMMA TreeQuiet ==
  ASSUME Inv, Inv', TreeInv, UNCHANGED <<pending, Heard, net>>,
         \A d \in Devices : store'[d].space = store[d].space
  PROVE  TreeInv'
  <1>1. SentTrees'
    BY DEF TreeInv, SentTrees
  <1>2. ASSUME NEW X PROVE HoldTree(store', X) = HoldTree(store, X)
    BY DEF HoldTree
  <1>3. \A d \in Devices : TreeReach(Heard', pending', net', store', store'[d].space)
    BY <1>2 DEF TreeInv, TreeReach
  <1> QED
    BY <1>1, <1>3 DEF TreeInv

(* d changes its tree, or not, and writes to the others.                   *)
LEMMA TreeWritten ==
  ASSUME Inv, Inv', TreeInv, NEW d \in Devices, NEW s \in Store, NEW b \in BOOLEAN,
         NEW q, Writes(d, s, b, q), SetStore(d, s), UNCHANGED <<Heard, net>>,
         Above(s.space, store[d].space)
  PROVE  TreeInv'
  <1>1. /\ q \in Letter /\ q.snap.space = s.space
        /\ pending' = [pending EXCEPT ![d] = {q}] /\ DOMAIN pending = Devices
        /\ (\E p \in pending[d] : p.reply = TRUE) => q.reply = TRUE
    BY SnapshotSpace DEF Writes, Inv, PendingOK
  <1>2. store'[d] = s /\ \A a \in Devices \ {d} : store'[a] = store[a]
    BY DEF SetStore, Inv, StoresOK
  <1>3. \A a \in Devices : store[a].space \in Space /\ store'[a].space \in Space
    BY DEF Inv, StoresOK, Store
  <1>4. \A a \in Devices : Above(store'[a].space, store[a].space)
    BY <1>2, <1>3, AboveOrder
  <1>5. pending'[d] = {q} /\ \A a \in Devices \ {d} : pending'[a] = pending[a]
    BY <1>1
  <1>6. SentTrees'
    <2>1. Above(store'[d].space, q.snap.space)
      BY <1>1, <1>2, <1>3, AboveOrder
    <2> QED
      BY <1>4, <1>5, <2>1, SentKept DEF TreeInv
  <1>7. ASSUME NEW X \in Space, TreeReach(Heard, pending, net, store, X)
        PROVE  TreeReach(Heard', pending', net', store', X)
    <2>1. d \in HoldTree(store', X) => q \in BearTree(X)
      BY <1>1, <1>2 DEF HoldTree, BearTree
    <2>2. Heard \subseteq Devices /\ Heard' = Heard /\ net' = net
      BY HeardType
    <2>3. ASSUME NEW e \in Heard
          PROVE  Reaches(Heard, pending', net, HoldTree(store', X), BearTree(X), {}, e)
      <3>1. Reaches(Heard, pending, net, HoldTree(store, X), BearTree(X), {}, e)
        BY <1>7 DEF TreeReach
      <3>2. /\ HoldTree(store, X) \subseteq HoldTree(store', X)
            /\ HoldTree(store, X) \in SUBSET Devices
        BY <1>4, HoldTreeGrows
      <3>3. Reaches(Heard, [pending EXCEPT ![d] = {q}], net,
                    HoldTree(store', X), BearTree(X), {}, e)
        <4>1. (HoldTree(store, X) \cap {}) \ {d} \subseteq {} /\ e \in Devices
          BY <2>2
        <4> QED
          BY <1>1, <2>1, <3>1, <3>2, <4>1, ReachSync
      <3> QED
        BY <1>1, <3>3
    <2> QED
      BY <2>2, <2>3 DEF TreeReach
  <1>8. TreeReach(Heard', pending', net', store', s.space)
    <2>1. d \in HoldTree(store', s.space) /\ q \in BearTree(s.space)
          /\ HoldTree(store', s.space) \in SUBSET Devices
      BY <1>1, <1>2, <1>3, AboveOrder DEF HoldTree, BearTree
    <2> QED
      BY <1>5, <2>1, ReachWritten DEF TreeReach
  <1>9. \A a \in Devices : TreeReach(Heard', pending', net', store', store'[a].space)
    BY <1>2, <1>3, <1>7, <1>8 DEF TreeInv
  <1> QED
    BY <1>6, <1>9 DEF TreeInv

LEMMA TreeConnect ==
  ASSUME Inv, Inv', TreeInv, NEW d \in Devices, Connect(d)
  PROVE  TreeInv'
  <1>1. store[d] \in Store /\ StoreOK(d, store[d])
    BY DEF Inv, StoresOK
  <1>2. PICK q : Writes(d, store[d], TRUE, q)
    BY <1>1, SyncWrites DEF Connect
  <1>3. /\ q \in Letter /\ q.snap.space = store[d].space /\ q.reply = TRUE
        /\ pending' = [pending EXCEPT ![d] = {q}] /\ DOMAIN pending = Devices
    BY <1>2, SnapshotSpace DEF Writes, Inv, PendingOK
  <1>4. store' = store /\ net' = net /\ Heard' = Heard \cup {d}
        /\ Heard \in SUBSET Devices
    BY DEF Connect, Inv, CountsOK, Heard
  <1>5. pending'[d] = {q} /\ \A a \in Devices \ {d} : pending'[a] = pending[a]
    BY <1>3
  <1>6. \A a \in Devices : store[a].space \in Space
    BY SpaceOf
  <1>7. SentTrees'
    BY <1>3, <1>4, <1>5, <1>6, AboveOrder, SentKept DEF TreeInv
  <1>8. ASSUME NEW a \in Devices
        PROVE  TreeReach(Heard', pending', net', store', store'[a].space)
    <2> DEFINE X == store[a].space
               H == HoldTree(store, X)
               C == BearTree(X)
    <2>1. a \in H /\ H \in SUBSET Devices /\ (d \in H => q \in C)
      BY <1>3, <1>6, AboveOrder DEF HoldTree, BearTree
    <2>2. \A e \in Heard : Reaches(Heard, pending, net, H, C, {}, e)
      BY DEF TreeInv, TreeReach
    <2> HIDE DEF H, C
    <2>3. ASSUME NEW e \in Heard \cup {d}
          PROVE  Reaches(Heard \cup {d}, [pending EXCEPT ![d] = {q}], net, H, C, {}, e)
      <3>1. (H \cap {}) \ {d} \subseteq {} /\ H # {}
        BY <2>1
      <3> QED
        BY <1>3, <1>4, <2>1, <2>2, <3>1, ReachConnect
    <2> QED
      BY <1>3, <1>4, <2>3 DEF TreeReach, H, C
  <1> QED
    BY <1>7, <1>8 DEF TreeInv

LEMMA TreeFlush ==
  ASSUME Inv, Inv', TreeInv, NEW d \in Devices, Flush(d)
  PROVE  TreeInv'
  <1>1. PICK p \in Letter : Sends(Heard, pending, pending', net, net', d, p)
    BY FlushSends
  <1>2. pending'[d] = {} /\ \A a \in Devices \ {d} : pending'[a] = pending[a]
    BY <1>1 DEF Sends
  <1>4. store' = store /\ Heard' = Heard /\ Heard \in SUBSET Devices
    BY DEF Flush, Inv, CountsOK, Heard
  <1>5. ASSUME NEW a \in Devices, NEW b \in Devices, NEW m \in Letters(net'[a][b])
        PROVE  m \in Letters(net[a][b]) \/ m \in pending[a]
    <2>1. net[a][b] \in Seq(Letter)
          /\ (net'[a][b] = net[a][b] \/ (a = d /\ net'[a][b] = Append(net[a][b], p)))
          /\ pending[d] = {p}
      BY <1>1 DEF Sends
    <2> QED
      BY <2>1, LettersAppend
  <1>6. SentTrees'
    BY <1>2, <1>4, <1>5, SpaceOf, AboveOrder, SentKept DEF TreeInv
  <1>7. ASSUME NEW a \in Devices
        PROVE  TreeReach(Heard', pending', net', store', store'[a].space)
    <2> DEFINE H == HoldTree(store, store[a].space)
               C == BearTree(store[a].space)
    <2>1. H \in SUBSET Devices /\ \A e \in Heard : Reaches(Heard, pending, net, H, C, {}, e)
      BY DEF TreeInv, TreeReach, HoldTree
    <2> HIDE DEF H, C
    <2>2. ASSUME NEW e \in Heard
          PROVE  Reaches(Heard, pending', net', H, C, {}, e)
      BY <1>1, <1>4, <2>1, ReachFlush
    <2> QED
      BY <1>4, <2>2 DEF TreeReach, H, C
  <1> QED
    BY <1>6, <1>7 DEF TreeInv

LEMMA TreeDisconnect ==
  ASSUME Inv, Inv', TreeInv, NEW d \in Devices, Disconnect(d)
  PROVE  TreeInv'
  <1>1. /\ \A a \in Devices \ {d} : pending'[a] = pending[a]
        /\ pending'[d] \subseteq pending[d]
        /\ \A a, b \in Devices : net'[a][b] = IF b = d THEN <<>> ELSE net[a][b]
    BY DisconnectLoses
  <1>2. store' = store /\ Heard' = Heard \ {d} /\ Heard \in SUBSET Devices
    BY DEF Disconnect, Inv, CountsOK, Heard
  <1>3. \A a, b \in Devices : Letters(net'[a][b]) \subseteq Letters(net[a][b])
    BY <1>1 DEF Letters
  <1>4. SentTrees'
    BY <1>1, <1>2, <1>3, SpaceOf, AboveOrder, SentKept DEF TreeInv
  <1>5. ASSUME NEW a \in Devices
        PROVE  TreeReach(Heard', pending', net', store', store'[a].space)
    <2> DEFINE H == HoldTree(store, store[a].space)
               C == BearTree(store[a].space)
    <2>1. H \subseteq Devices /\ \A e \in Heard : Reaches(Heard, pending, net, H, C, {}, e)
      BY DEF TreeInv, TreeReach, HoldTree
    <2> HIDE DEF H, C
    <2>2. ASSUME NEW e \in Heard \ {d}
          PROVE  Reaches(Heard \ {d}, pending', net', H, C, {}, e)
      <3>1. e \in Devices \ {d} /\ e \in Heard
        BY <1>2
      <3>2. \A x \in Devices, y \in Devices \ {d} : net'[x][y] = net[x][y]
        BY <1>1
      <3> QED
        BY <1>1, <2>1, <3>1, <3>2, ReachDisconnect
    <2> QED
      BY <1>2, <2>2 DEF TreeReach, H, C
  <1> QED
    BY <1>4, <1>5 DEF TreeInv

LEMMA TreeLost ==
  ASSUME Inv, Inv', TreeInv, NEW d \in Devices, FlushLost(d)
  PROVE  TreeInv'
  <1>1. /\ \A a \in Devices \ {d} : pending'[a] = pending[a]
        /\ pending'[d] = {} /\ net' = net
    BY LostSilences
  <1>2. store' = store /\ Heard' = Heard \ {d} /\ Heard \in SUBSET Devices
    BY HeardType, LostSilences
  <1>3. \A a, b \in Devices : Letters(net'[a][b]) \subseteq Letters(net[a][b])
    BY <1>1 DEF Letters
  <1>4. SentTrees'
    BY <1>1, <1>2, <1>3, SpaceOf, AboveOrder, SentKept DEF TreeInv
  <1>5. ASSUME NEW a \in Devices
        PROVE  TreeReach(Heard', pending', net', store', store'[a].space)
    <2> DEFINE H == HoldTree(store, store[a].space)
               C == BearTree(store[a].space)
    <2>1. H \subseteq Devices /\ \A e \in Heard : Reaches(Heard, pending, net, H, C, {}, e)
      BY DEF TreeInv, TreeReach, HoldTree
    <2> HIDE DEF H, C
    <2>2. ASSUME NEW e \in Heard \ {d}
          PROVE  Reaches(Heard \ {d}, pending', net', H, C, {}, e)
      <3>1. e \in Devices \ {d} /\ e \in Heard
        BY <1>2
      <3>2. \A x \in Devices, y \in Devices \ {d} : net'[x][y] = net[x][y]
        BY <1>1
      <3> QED
        BY <1>1, <2>1, <3>1, <3>2, ReachDisconnect
    <2> QED
      BY <1>2, <2>2 DEF TreeReach, H, C
  <1> QED
    BY <1>4, <1>5 DEF TreeInv

LEMMA TreeReceive ==
  ASSUME SpaceKnown, Inv, Inv', TreeInv, NEW d \in Devices, NEW f \in Devices,
         Receive(d, f)
  PROVE  TreeInv'
  <1> DEFINE m == Head(net[f][d])
             s == MergeOwnDeviceSnapshot(store[d], m.snap, Knows[d])
             sync == SyncOwnRooms(d, s, FALSE)
  <1>1. /\ net[f][d] # <<>> /\ m \in Letter /\ m \in Letters(net[f][d])
        /\ SnapOK(m.snap)
        /\ \A a, b \in Devices : net[a][b] \in Seq(Letter)
        /\ \A a, b \in Devices :
             net'[a][b] = IF a = f /\ b = d THEN Tail(net[a][b]) ELSE net[a][b]
    BY ReceiveTakes
  <1>2. store[d] \in Store /\ StoreOK(d, store[d]) /\ m.snap \in Snapshot
        /\ m.snap.space \in Space
    BY <1>1, LetterSpace DEF Inv, StoresOK
  <1>3. SetStore(d, s) /\ Heard' = Heard /\ Heard \in SUBSET Devices
    BY DEF Receive, Inv, CountsOK, Heard
  <1>4. s \in Store /\ StoreOK(d, s)
    BY <1>1, <1>2, MergeOK
  <1>5. s.space = MergeSpace(store[d].space, m.snap.space)
    BY DEF MergeOwnDeviceSnapshot, SpaceKnown
  <1>6. \/ sync
        \/ /\ UNCHANGED pending
           /\ ~m.reply /\ ~SiblingBehind(store[d], m.snap, Knows[d])
    BY DEF Receive
  <1>7. \/ s.space = m.snap.space \/ s.space = store[d].space
        \/ SiblingBehind(store[d], m.snap, Knows[d])
    <2>1. CASE m.snap.space = NoSpace
      BY <1>5, <2>1, MergeNothing, SpaceOf
    <2>2. CASE m.snap.space # NoSpace
      BY <1>5, <2>2 DEF SiblingBehind, SpaceKnown
    <2> QED
      BY <2>1, <2>2
  <1> HIDE DEF m, s
  <1>8. ASSUME sync PROVE \E q : Writes(d, s, FALSE, q)
    BY <1>4, <1>8, SyncWrites
  <1> HIDE DEF sync
  <1>9. store'[d] = s /\ \A a \in Devices \ {d} : store'[a] = store[a]
    BY <1>3 DEF SetStore, Inv, StoresOK
  <1>10. \A a \in Devices : store[a].space \in Space /\ store'[a].space \in Space
    BY DEF Inv, StoresOK, Store
  <1>11. Above(s.space, store[d].space) /\ Above(s.space, m.snap.space)
    BY <1>2, <1>5, <1>10, MergeAbove
  <1>12. \A a \in Devices : Above(store'[a].space, store[a].space)
    BY <1>9, <1>10, <1>11, AboveOrder
  <1>13. /\ Takes(pending, pending', net, net', d, f)
         /\ \/ sync /\ \E q : Writes(d, s, FALSE, q) /\ pending'[d] = {q}
            \/ ~m.reply /\ pending'[d] = pending[d]
               /\ ~SiblingBehind(store[d], m.snap, Knows[d])
    <2>1. CASE sync
      <3>1. PICK q : Writes(d, s, FALSE, q)
        BY <1>8, <2>1
      <3>2. pending'[d] = {q} /\ \A a \in Devices \ {d} : pending'[a] = pending[a]
        BY <3>1 DEF Writes, Inv, PendingOK
      <3> QED
        BY <1>1, <2>1, <3>1, <3>2 DEF Takes
    <2>2. CASE ~sync
      BY <1>1, <1>6, <2>2 DEF Takes
    <2> QED
      BY <2>1, <2>2
  <1>14. SentTrees'
    <2>1. ASSUME NEW q, Writes(d, s, FALSE, q) PROVE Above(s.space, q.snap.space)
      BY <1>9, <1>10, <2>1, SnapshotSpace, AboveOrder DEF Writes
    <2>2. \A a \in Devices : \A p \in pending'[a] :
            p \in pending[a] \/ Above(store'[a].space, p.snap.space)
      BY <1>9, <1>13, <2>1 DEF Takes
    <2>3. ASSUME NEW a \in Devices, NEW b \in Devices
          PROVE  Letters(net'[a][b]) \subseteq Letters(net[a][b])
      <3>1. net[a][b] \in Seq(Letter)
            /\ (net'[a][b] = net[a][b]
                 \/ (net[a][b] # <<>> /\ net'[a][b] = Tail(net[a][b])))
        BY <1>1
      <3> QED
        BY <3>1, LettersTail
    <2> QED
      BY <1>12, <2>2, <2>3, SentKept DEF TreeInv
  <1>15. ASSUME NEW X \in Space, TreeReach(Heard, pending, net, store, X)
         PROVE  TreeReach(Heard', pending', net', store', X)
    <2> DEFINE H == HoldTree(store, X)
               H2 == HoldTree(store', X)
               C == BearTree(X)
    <2>1. H \subseteq H2 /\ H \in SUBSET Devices /\ (H \cap {}) \ {d} \subseteq {}
      BY <1>12, HoldTreeGrows
    <2>2. m \in C => d \in H2
      <3>1. Above(m.snap.space, X) => Above(s.space, X)
        BY <1>2, <1>9, <1>10, <1>11, AboveOrder
      <3> QED
        BY <1>9, <3>1 DEF HoldTree, BearTree
    <2>3. ASSUME NEW q, Writes(d, s, FALSE, q), pending'[d] = {q}
          PROVE  Answers(pending, pending', H2, C, {}, d)
      <3>1. q \in Letter /\ q.snap.space = s.space
            /\ ((\E p \in pending[d] : p.reply = TRUE) => q.reply = TRUE)
        BY <2>3, SnapshotSpace DEF Writes
      <3>2. d \in H2 => q \in C
        BY <1>9, <3>1 DEF HoldTree, BearTree
      <3> QED
        BY <2>3, <3>1, <3>2 DEF Answers
    <2>4. \A e \in Heard : Reaches(Heard, pending, net, H, C, {}, e)
      BY <1>15 DEF TreeReach
    <2> HIDE DEF H, H2, C
    <2>5. \/ Answers(pending, pending', H2, C, {}, d)
          \/ /\ pending'[d] = pending[d] /\ m.reply # TRUE
             /\ d \in H \cap {} => d \in {}
      BY <1>13, <2>3
    <2>6. ASSUME NEW e \in Heard PROVE Reaches(Heard, pending', net', H2, C, {}, e)
      <3>1. e \in Devices
        BY <1>3
      <3> QED
        BY <1>13, <2>1, <2>2, <2>4, <2>5, <3>1, ReachReceive DEF m
    <2> QED
      BY <1>3, <2>6 DEF TreeReach, H2, C
  <1>16. TreeReach(Heard', pending', net', store', s.space)
    <2>1. CASE s.space = store[d].space
      BY <1>10, <1>15, <2>1 DEF TreeInv
    <2>2. CASE s.space = m.snap.space
      <3>1. Above(store[f].space, m.snap.space)
        BY <1>1 DEF TreeInv, SentTrees
      <3>2. TreeReach(Heard', pending', net', store', store[f].space)
        BY <1>10, <1>15 DEF TreeInv
      <3> QED
        BY <1>2, <1>10, <2>2, <3>1, <3>2, TreeReachLower
    <2>3. CASE SiblingBehind(store[d], m.snap, Knows[d])
      <3>1. PICK q : Writes(d, s, FALSE, q) /\ pending'[d] = {q}
        BY <1>13, <2>3
      <3>2. q \in Letter /\ q.snap.space = s.space
        BY <3>1, SnapshotSpace DEF Writes
      <3>3. d \in HoldTree(store', s.space) /\ q \in BearTree(s.space)
            /\ HoldTree(store', s.space) \in SUBSET Devices
        BY <1>9, <1>10, <3>2, AboveOrder DEF HoldTree, BearTree
      <3> QED
        BY <3>1, <3>3, ReachWritten DEF TreeReach
    <2> QED
      BY <1>7, <2>1, <2>2, <2>3
  <1>17. \A a \in Devices : TreeReach(Heard', pending', net', store', store'[a].space)
    BY <1>9, <1>10, <1>15, <1>16 DEF TreeInv
  <1> QED
    BY <1>14, <1>17 DEF TreeInv

LEMMA TreeCreate ==
  ASSUME Inv, Inv', TreeInv, NEW d \in Devices, NEW r \in Rooms, NEW c \in Contents,
         Create(d, r, c)
  PROVE  TreeInv'
  <1> DEFINE s == [store[d] EXCEPT
                     !.rooms[r] = Upsert(@, SpaceHost, Clock(d)),
                     !.space = AdoptRoomIntoSpace(@, r, c)]
  <1>1. SetStore(d, s) /\ SyncOwnRooms(d, s, TRUE) /\ UNCHANGED <<Heard, net>>
    BY DEF Create, Heard
  <1>2. s.space = AdoptRoomIntoSpace(store[d].space, r, c)
    BY DEF Inv, StoresOK, Store
  <1> HIDE DEF s
  <1>3. store'[d] = s /\ s \in Store /\ StoreOK(d, s)
    BY <1>1 DEF SetStore, Inv, StoresOK
  <1>4. Above(s.space, store[d].space)
    <2>1. store[d].space.epoch \in Nat
      BY SpaceOf DEF Space
    <2> QED
      BY <1>2, <2>1 DEF AdoptRoomIntoSpace, Above
  <1>5. PICK q : Writes(d, s, TRUE, q)
    BY <1>1, <1>3, SyncWrites
  <1> QED
    BY <1>1, <1>3, <1>4, <1>5, TreeWritten

LEMMA TreeDelete ==
  ASSUME Inv, Inv', TreeInv, NEW d \in Devices, NEW r \in Rooms, Delete(d, r)
  PROVE  TreeInv'
  <1> DEFINE s == [store[d] EXCEPT !.rooms[r] = Drop(@, Knows[d], Clock(d))]
  <1>1. SetStore(d, s) /\ SyncOwnRooms(d, s, FALSE) /\ UNCHANGED <<Heard, net>>
    BY DEF Delete, Heard
  <1>2. s.space = store[d].space
    BY DEF Inv, StoresOK, Store
  <1> HIDE DEF s
  <1>3. store'[d] = s /\ s \in Store /\ StoreOK(d, s)
    BY <1>1 DEF SetStore, Inv, StoresOK
  <1>4. Above(s.space, store[d].space)
    BY <1>2, SpaceOf, AboveOrder
  <1>5. PICK q : Writes(d, s, FALSE, q)
    BY <1>1, <1>3, SyncWrites
  <1> QED
    BY <1>1, <1>3, <1>4, <1>5, TreeWritten

LEMMA TreeRoom ==
  ASSUME Inv, Inv', TreeInv, NEW d \in Devices, NEW r \in Rooms, NEW h \in Hosts,
         Join(d, r, h) \/ Hide(d, r, h) \/ Unhide(d, r, h) \/ RoomList(d, r, h)
  PROVE  TreeInv'
  <1>1. PICK y : SetStore(d, [store[d] EXCEPT !.rooms[r] = y])
    BY DEF Join, Hide, Unhide, RoomList, SetRoom
  <1>2. UNCHANGED <<pending, Heard, net>>
    BY DEF Join, Hide, Unhide, RoomList, Heard
  <1>3. \A a \in Devices : store'[a].space = store[a].space
    BY <1>1 DEF SetStore, Inv, StoresOK, Store
  <1> QED
    BY <1>2, <1>3, TreeQuiet

LEMMA TreeStep ==
  SpaceKnown /\ Inv /\ Inv' /\ TreeInv /\ [Next]_vars => TreeInv'
  <1> SUFFICES ASSUME SpaceKnown, Inv, Inv', TreeInv, [Next]_vars PROVE TreeInv'
    OBVIOUS
  <1>1. CASE UNCHANGED vars
    BY <1>1, TreeQuiet DEF vars, Heard
  <1>2. CASE Tick
    BY <1>2, TreeQuiet DEF Tick, Heard
  <1>3. ASSUME NEW d \in Devices,
               \/ Connect(d) \/ Flush(d) \/ FlushLost(d) \/ Disconnect(d)
               \/ \E e \in Devices : Receive(d, e)
        PROVE  TreeInv'
    BY <1>3, TreeConnect, TreeFlush, TreeLost, TreeDisconnect, TreeReceive
  <1>4. ASSUME NEW d \in Devices, NEW r \in Rooms,
               \/ \E c \in Contents : Create(d, r, c)
               \/ Delete(d, r)
               \/ \E h \in Hosts : \/ Join(d, r, h) \/ Hide(d, r, h)
                                   \/ Unhide(d, r, h) \/ RoomList(d, r, h)
        PROVE  TreeInv'
    BY <1>4, TreeCreate, TreeDelete, TreeRoom
  <1> QED
    BY <1>1, <1>2, <1>3, <1>4 DEF Next

LEMMA TreeInit == Init => TreeInv
  BY DEF Init, TreeInv, SentTrees, TreeReach, Letters, Heard

(* When nobody has anything left to say, what reaches a device is there.   *)
LEMMA QuietReached ==
  ASSUME Inv, Quiet, NEW H \in SUBSET Devices, NEW C, NEW M, H \cap M = {},
         NEW e \in Devices, Reaches(Heard, pending, net, H, C, M, e)
  PROVE  e \in H
  <1>1. /\ Heard = Devices /\ \A a \in Devices : pending[a] = {}
        /\ \A a, b \in Devices : net[a][b] = <<>>
    BY DEF Quiet, Trading
  <1>2. \A a, b \in Devices : Letters(net[a][b]) = {}
    BY <1>1 DEF Letters
  <1> QED
    BY <1>1, <1>2 DEF Reaches, Arriving, Told

(* Where every device knows the host of the Space, devices that have all   *)
(* connected, have nothing left to say and had nothing refused since they  *)
(* connected hold the same tree at the same epoch, whatever snapshots were *)
(* lost with a connection or a process or refused before, replaced while   *)
(* they waited, merged in different orders or answered late: no two of     *)
(* them announce different roots.                                          *)
THEOREM TreesAgree == ASSUME SpaceKnown PROVE Spec => []SameTree
  <1>1. Inv /\ TreeInv => SameTree
    <2> SUFFICES ASSUME Inv, TreeInv, Quiet, NEW d \in Devices, NEW e \in Devices
                 PROVE  store[d].space = store[e].space
      BY DEF SameTree
    <2>1. ASSUME NEW a \in Devices, NEW b \in Devices
          PROVE  Above(store[b].space, store[a].space)
      <3> DEFINE H == HoldTree(store, store[a].space)
      <3>1. b \in Heard /\ H \in SUBSET Devices /\ H \cap {} = {}
        BY DEF Quiet, HoldTree
      <3>2. Reaches(Heard, pending, net, H, BearTree(store[a].space), {}, b)
        BY <3>1 DEF TreeInv, TreeReach
      <3>3. b \in H
        BY <3>1, <3>2, QuietReached
      <3> QED
        BY <3>3 DEF HoldTree
    <2> QED
      BY <2>1, SpaceOf, AboveOrder
  <1>2. Spec => []TreeInv
    BY InvHolds, SpaceKnown, TreeInit, TreeStep, PTL DEF Spec
  <1> QED
    BY <1>1, <1>2, InvHolds, PTL

-----------------------------------------------------------------------------
(* The later of adding and removing a room wins on all devices             *)

(* No stamp is later than the newest, s, and none of the other kind is as  *)
(* late.                                                                   *)
Within(added, removed, s) ==
  /\ added \in Nat /\ removed \in Nat
  /\ added <= s.at /\ removed <= s.at
  /\ s.kind = "remove" => added < s.at
  /\ s.kind = "add" => removed < s.at

(* What a store says of a room: it is filed under hosts the device knows,  *)
(* and one that is neither filed nor removed is not hidden either.         *)
RoomFacts(d, x, s) ==
  /\ x.filed \subseteq Knows[d]
  /\ x.filed = {} /\ ~Removed(x) => x.tombs = {}
  /\ Within(x.added, x.removal.at, s)

(* What a snapshot says of a room.                                         *)
EntryFacts(y, s) ==
  /\ \A d \in Devices : y.shown \subseteq Knows[d]
  /\ Within(y.added, y.removal.at, s)

(* A snapshot tells of the stamp s.                                        *)
Carries(y, s) ==
  CASE s.kind = "add"    -> y.shown # {} /\ y.added = s.at
    [] s.kind = "remove" -> y.removal.at = s.at
    [] OTHER             -> FALSE

Decided(s) == s.kind \in {"add", "remove"} /\ s.at \in Nat \ {0}

Hides(x) == x.filed \cap x.tombs # {}

LEMMA LeastOf ==
  ASSUME NEW S \in SUBSET Hosts, S # {}
  PROVE  Least(S) \in S /\ \A h \in S : Least(S) <= h
  <1>1. S \subseteq Nat
    BY HostsAssumption
  <1>2. \E m \in S : \A n \in S : ~(<<n, m>> \in OpToRel(<, Nat))
    BY <1>1, NatLessThanWellFounded, WFMin, Zenon
  <1>3. \E m \in S : \A n \in S : n \in Nat /\ m \in Nat /\ ~(n < m)
    BY <1>1, <1>2, Zenon DEF OpToRel
  <1>4. \E m \in S : \A n \in S : m <= n
    BY <1>3
  <1> QED
    BY <1>4 DEF Least

LEMMA LeastIs ==
  ASSUME NEW S \in SUBSET Hosts, NEW h \in S, \A g \in S : h <= g
  PROVE  Least(S) = h
  <1>1. Least(S) \in S /\ Least(S) <= h /\ h <= Least(S)
    BY LeastOf
  <1>2. Least(S) \in Nat /\ h \in Nat
    BY <1>1, HostsAssumption
  <1> QED
    BY <1>1, <1>2

(* z is x with the room shown under S since t accepted.                    *)
Accepted(x, S, t, z) ==
  /\ z.filed # {} /\ x.filed \subseteq z.filed
  /\ z.filed \subseteq x.filed \cup S
  /\ z.removal.at = 0 /\ z.added = Later(x.added, t)
  /\ ~Removed(x) => z.tombs = x.tombs

(* merge_own_device_room leaves a room it accepts filed somewhere: a       *)
(* removal that is lifted takes the tombstones of the first host with it.  *)
LEMMA MergeFiles ==
  ASSUME NEW x \in RoomState, NEW S \in SUBSET Hosts, NEW t \in Nat,
         S # {}, ~RemovedLater(x, t),
         x.filed = {} /\ ~Removed(x) => x.tombs = {},
         NEW z, z = MergeOwnDeviceRoom(x, S, t)
  PROVE  Accepted(x, S, t, z)
  <1> DEFINE l == Least(S)
             tombs == IF Removed(x)
                      THEN x.tombs \ (x.removal.hosts \cup Cluster[l])
                      ELSE x.tombs
             new == {h \in S : /\ (x.filed \cup tombs) \cap Cluster[h] = {}
                               /\ h = Least(S \cap Cluster[h])}
             filed == x.filed \cup new
             added == IF filed = {} THEN x.added ELSE Later(x.added, t)
  <1>1. z = [filed |-> filed, tombs |-> tombs, removal |-> NoRemoval, added |-> added]
    BY DEF MergeOwnDeviceRoom
  <1>2. l \in S /\ \A h \in S : l <= h
    BY LeastOf
  <1>3. l \in Cluster[l] /\ l \in Hosts
    BY <1>2, HostsAssumption
  <1>4. l = Least(S \cap Cluster[l])
    <2>1. l \in S \cap Cluster[l] /\ S \cap Cluster[l] \in SUBSET Hosts
      BY <1>2, <1>3
    <2> HIDE DEF l
    <2> QED
      BY <1>2, <2>1, LeastIs
  <1> HIDE DEF l
  <1>5. ASSUME x.filed = {} PROVE l \in new
    <2>1. tombs \cap Cluster[l] = {}
      BY <1>5
    <2> QED
      BY <1>2, <1>4, <1>5, <2>1
  <1>6. new \subseteq S
    OBVIOUS
  <1>7. ~Removed(x) => tombs = x.tombs
    OBVIOUS
  <1> HIDE DEF new, tombs
  <1>8. filed # {} /\ x.filed \subseteq filed /\ filed \subseteq x.filed \cup S
    BY <1>5, <1>6
  <1>9. added = Later(x.added, t)
    BY <1>8
  <1>10. z.filed = filed /\ z.tombs = tombs /\ z.removal.at = 0 /\ z.added = added
    BY <1>1 DEF NoRemoval
  <1> HIDE DEF filed, added
  <1> QED
    BY <1>7, <1>8, <1>9, <1>10 DEF Accepted

(* merge_own_device_snapshot on one room: what d says of it stays within   *)
(* the stamps, what d holds it goes on holding, and a stamp the letter     *)
(* carries arrives.                                                        *)
MergedRoom(x, y, known) ==
  MergeOwnDeviceRoom(ApplyOwnDeviceRemoval(x, y.removal), y.shown \cap known, y.added)

LEMMA StampKinds ==
  ASSUME NEW x, NEW y, NEW s, Decided(s)
  PROVE  /\ s.kind = "add" \/ s.kind = "remove"
         /\ s.kind = "add" => /\ Holds(x, s) <=> (x.filed # {} /\ x.added = s.at)
                              /\ Carries(y, s) <=> (y.shown # {} /\ y.added = s.at)
         /\ s.kind = "remove" => /\ Holds(x, s) <=> (x.removal.at = s.at)
                                 /\ Carries(y, s) <=> (y.removal.at = s.at)
  BY DEF Decided, Holds, Carries

Entry == [shown : SUBSET Hosts, added : Nat, removal : Removal]

LEMMA AppliedFacts ==
  ASSUME NEW d \in Devices, NEW x \in RoomState, NEW y \in Entry,
         NEW s \in [at : Nat, kind : {"none", "add", "remove", "open"}],
         RoomFacts(d, x, s), EntryFacts(y, s), Decided(s) \/ s.kind \in {"none", "open"},
         NEW z, z = ApplyOwnDeviceRemoval(x, y.removal)
  PROVE  /\ RoomFacts(d, z, s)
         /\ Decided(s) /\ Holds(x, s) => z = x
         /\ s.kind = "remove" /\ Decided(s) /\ Carries(y, s) => Holds(z, s)
  <1>1. x.added \in Nat /\ x.removal.at \in Nat /\ y.removal.at \in Nat /\ s.at \in Nat
        /\ s.kind \in {"none", "add", "remove", "open"}
    BY DEF RoomState, Entry, Removal
  <1>2. CASE x.removal.at >= y.removal.at \/ AddedLater(x, y.removal)
    <2>1. z = x
      BY <1>2 DEF ApplyOwnDeviceRemoval
    <2>2. s.kind = "remove" /\ Carries(y, s) => x.removal.at = s.at
      BY <1>1, <1>2 DEF Carries, AddedLater, RoomFacts, EntryFacts, Within
    <2> QED
      BY <2>1, <2>2 DEF Holds
  <1>3. CASE ~(x.removal.at >= y.removal.at \/ AddedLater(x, y.removal))
    <2>1. z = Drop(x, y.removal.hosts, y.removal.at)
      BY <1>3 DEF ApplyOwnDeviceRemoval
    <2>2. z.filed = {} /\ z.added = 0 /\ z.removal.at = y.removal.at /\ z.removal.at > 0
      BY <1>1, <1>3, <2>1 DEF Drop
    <2>3. RoomFacts(d, z, s)
      BY <1>1, <2>2 DEF RoomFacts, EntryFacts, Within, Removed, Decided
    <2>4. Decided(s) => ~Holds(x, s)
      BY <1>1, <1>3 DEF Holds, Decided, AddedLater, EntryFacts, Within
    <2>5. s.kind = "remove" /\ Carries(y, s) => Holds(z, s)
      BY <2>2 DEF Holds, Carries
    <2> QED
      BY <2>3, <2>4, <2>5
  <1> QED
    BY <1>2, <1>3

LEMMA MergedFacts ==
  ASSUME NEW d \in Devices, NEW x \in RoomState, NEW y \in Entry,
         NEW s \in [at : Nat, kind : {"none", "add", "remove", "open"}],
         GoneOK(d, x), Covers(y.removal), SameHosts,
         RoomFacts(d, x, s), EntryFacts(y, s), Decided(s) \/ s.kind \in {"none", "open"},
         NEW z, z = MergedRoom(x, y, Knows[d])
  PROVE  /\ RoomFacts(d, z, s)
         /\ Decided(s) /\ (Holds(x, s) \/ Carries(y, s)) => Holds(z, s)
         /\ Decided(s) /\ Holds(x, s) /\ Hides(x) => Hides(z)
  <1> DEFINE a == ApplyOwnDeviceRemoval(x, y.removal)
             S == y.shown \cap Knows[d]
  <1>1. y.removal \in Removal /\ S \in SUBSET Hosts /\ y.added \in Nat /\ S = y.shown
    BY DEF Entry, EntryFacts
  <1>2. a \in RoomState /\ GoneOK(d, a)
    BY <1>1, ApplyOK
  <1>3. /\ RoomFacts(d, a, s)
        /\ Decided(s) /\ Holds(x, s) => a = x
        /\ s.kind = "remove" /\ Decided(s) /\ Carries(y, s) => Holds(a, s)
    BY AppliedFacts
  <1>4. z = MergeOwnDeviceRoom(a, S, y.added)
    BY DEF MergedRoom
  <1>5. a.added \in Nat /\ a.removal.at \in Nat /\ s.at \in Nat
        /\ s.kind \in {"none", "add", "remove", "open"}
    BY <1>2 DEF RoomState, Removal
  <1> HIDE DEF a, S
  <1>6. CASE S = {} \/ RemovedLater(a, y.added)
    <2>1. z = a
      BY <1>4, <1>6 DEF MergeOwnDeviceRoom
    <2>2. ~(s.kind = "add" /\ Decided(s) /\ Carries(y, s))
      BY <1>1, <1>3, <1>5, <1>6, StampKinds DEF RoomFacts, Within, RemovedLater
    <2>3. Decided(s) /\ Carries(y, s) => s.kind = "remove"
      BY <2>2, StampKinds
    <2>4. Decided(s) /\ Holds(x, s) => z = x
      BY <1>3, <2>1
    <2>5. Decided(s) /\ Carries(y, s) => Holds(z, s)
      BY <1>3, <2>1, <2>3
    <2>6. Decided(s) /\ Holds(x, s) => Holds(z, s)
      BY <2>4
    <2>7. RoomFacts(d, z, s)
      BY <1>3, <2>1
    <2> QED
      BY <2>4, <2>5, <2>6, <2>7
  <1>7. CASE S # {} /\ ~RemovedLater(a, y.added)
    <2>1. /\ z.filed # {} /\ a.filed \subseteq z.filed
          /\ z.filed \subseteq a.filed \cup S
          /\ z.removal.at = 0 /\ z.added = Later(a.added, y.added)
          /\ ~Removed(a) => z.tombs = a.tombs
      <3>1. a.filed = {} /\ ~Removed(a) => a.tombs = {}
        BY <1>3 DEF RoomFacts
      <3>2. S \in SUBSET Hosts /\ y.added \in Nat /\ a \in RoomState
        BY <1>1, <1>2
      <3>3. Accepted(a, S, y.added, z)
        BY <1>4, <1>7, <3>1, <3>2, MergeFiles
      <3> QED
        BY <3>3 DEF Accepted
    <2>2. z.filed \subseteq Knows[d]
      BY <1>3, <2>1 DEF RoomFacts, S
    <2>3. Within(z.added, z.removal.at, s)
      BY <1>3, <1>5, <2>1 DEF RoomFacts, EntryFacts, Within, Later, Decided
    <2>4. s.kind = "remove" /\ Decided(s) => ~Holds(a, s)
      BY <1>1, <1>5, <1>7, StampKinds DEF RemovedLater, Removed, EntryFacts, Within, Decided
    <2>5. s.kind = "add" /\ Decided(s) /\ (Holds(a, s) \/ Carries(y, s)) => Holds(z, s)
      BY <1>1, <1>3, <1>5, <2>1, StampKinds DEF RoomFacts, EntryFacts, Within, Later
    <2>6. Hides(a) => Hides(z)
      <3>1. Hides(a) => ~Removed(a)
        BY <1>2 DEF Hides, GoneOK
      <3> QED
        BY <2>1, <3>1 DEF Hides
    <2>7. Decided(s) /\ Holds(x, s) => Holds(a, s)
      BY <1>3
    <2>8. Decided(s) => s.kind \in {"add", "remove"}
      BY DEF Decided
    <2>9. RoomFacts(d, z, s)
      BY <2>1, <2>2, <2>3 DEF RoomFacts
    <2>10. Decided(s) /\ (Holds(x, s) \/ Carries(y, s)) => Holds(z, s)
      <3>1. Decided(s) /\ Holds(x, s) => s.kind = "add"
        BY <2>4, <2>7, <2>8
      <3>2. Decided(s) /\ Carries(y, s) => s.kind = "add"
        BY <1>3, <2>4, <2>8
      <3>3. Decided(s) /\ Holds(x, s) => Holds(z, s)
        BY <2>5, <2>7, <3>1
      <3>4. Decided(s) /\ Carries(y, s) => Holds(z, s)
        BY <2>5, <3>2
      <3> QED
        BY <3>3, <3>4
    <2>11. Decided(s) /\ Holds(x, s) /\ Hides(x) => Hides(z)
      BY <1>3, <2>6
    <2> QED
      BY <2>9, <2>10, <2>11
  <1> QED
    BY <1>6, <1>7

HoldRoom(st, r, s) == {d \in Devices : Holds(st[d].rooms[r], s)}
BearRoom(r, s) == {p \in Letter : Carries(p.snap.rooms[r], s)}
Mute(st, ow, r) == ow \cup {d \in Devices : Hides(st[d].rooms[r])}

(* The stamp s on r is held somewhere and reaches who is connected.        *)
News(on, pn, nt, st, ow, r, s) ==
  Decided(s) =>
    /\ HoldRoom(st, r, s) # {}
    /\ \A e \in on : Reaches(on, pn, nt, HoldRoom(st, r, s), BearRoom(r, s),
                             Mute(st, ow, r), e)

StampFacts(s) == s.kind \in {"add", "remove"} => s.at # 0

WinFacts ==
  /\ now # 0
  /\ \A r \in Rooms :
       /\ StampFacts(newest[r])
       /\ \A d \in Devices :
            /\ RoomFacts(d, store[d].rooms[r], newest[r])
            /\ \A p \in pending[d] : EntryFacts(p.snap.rooms[r], newest[r])
            /\ \A e \in Devices : \A p \in Letters(net[d][e]) :
                 EntryFacts(p.snap.rooms[r], newest[r])

(* A stamp decides only because no device and no letter knows a later one, *)
(* and because somebody who holds it is going to tell each device that is  *)
(* connected.                                                              *)
WinInv ==
  /\ WinFacts
  /\ \A r \in Rooms : News(Heard, pending, net, store, owed, r, newest[r])

Stamps == [at : Nat, kind : {"none", "add", "remove", "open"}]

Grows(s, u) ==
  /\ StampFacts(u)
  /\ \A a, b \in Nat : Within(a, b, s) => Within(a, b, u)

LEMMA StampOf ==
  ASSUME Inv, WinFacts, NEW r \in Rooms
  PROVE  /\ newest[r] \in Stamps /\ newest[r].at \in Nat
         /\ Decided(newest[r]) \/ newest[r].kind \in {"none", "open"}
         /\ Grows(newest[r], newest[r])
  <1>1. newest[r] \in Stamps
    BY DEF Inv, StampsOK, Stamps
  <1>2. newest[r].at \in Nat /\ newest[r].kind \in {"none", "add", "remove", "open"}
        /\ StampFacts(newest[r])
    BY <1>1 DEF Stamps, WinFacts
  <1> QED
    BY <1>1, <1>2 DEF StampFacts, Decided, Grows

(* What Stamp may do: t of kind k is the newest, nothing is decided, or d  *)
(* did not hold the newest and its own is older.                           *)
LEMMA StampCases ==
  ASSUME Inv, WinFacts, NEW d \in Devices, NEW r \in Rooms, NEW t \in Nat, t # 0,
         NEW k \in {"add", "remove"}, Stamp(d, r, t, k)
  PROVE  /\ \A o \in Rooms \ {r} : newest'[o] = newest[o]
         /\ Grows(newest[r], newest'[r])
         /\ t <= newest'[r].at
         /\ \/ newest'[r] = [at |-> t, kind |-> k]
            \/ newest'[r].kind = "open"
            \/ /\ newest'[r] = newest[r] /\ t < newest[r].at
               /\ ~Holds(store[d].rooms[r], newest[r])
  <1> DEFINE s == newest[r]
             n == newest'[r]
             hold == Holds(store[d].rooms[r], s)
  <1>1. s \in Stamps /\ s.at \in Nat /\ s.kind \in {"none", "add", "remove", "open"}
        /\ Grows(s, s) /\ newest \in [Rooms -> Stamps]
        /\ s = [at |-> s.at, kind |-> s.kind]
    BY StampOf DEF Stamps, Inv, StampsOK
  <1>2. /\ \A o \in Rooms \ {r} : newest'[o] = newest[o]
        /\ t > s.at => n = [at |-> t, kind |-> k]
        /\ (t = s.at /\ k # s.kind) \/ (t < s.at /\ hold) =>
             n = [s EXCEPT !.kind = "open"]
        /\ (t = s.at /\ k = s.kind) \/ (t < s.at /\ ~hold) => n = s
    BY <1>1 DEF Stamp
  <1> HIDE DEF s, n, hold
  <1>3. CASE t > s.at
    <2>1. n = [at |-> t, kind |-> k]
      BY <1>1, <1>2, <1>3
    <2>2. Grows(s, n) /\ t <= n.at
      BY <1>1, <1>3, <2>1 DEF Grows, Within, StampFacts
    <2> QED
      BY <1>2, <2>1, <2>2 DEF s, n, hold
  <1>4. CASE (t = s.at /\ k # s.kind) \/ (t < s.at /\ hold)
    <2>1. n = [s EXCEPT !.kind = "open"]
      BY <1>1, <1>2, <1>4
    <2>2. n.kind = "open" /\ n.at = s.at
      BY <1>1, <2>1 DEF Stamps
    <2>3. Grows(s, n) /\ t <= n.at
      BY <1>1, <1>4, <2>2 DEF Grows, Within, StampFacts
    <2> QED
      BY <1>2, <2>2, <2>3 DEF s, n, hold
  <1>5. CASE t = s.at /\ k = s.kind
    <2>1. n = s
      BY <1>1, <1>2, <1>5
    <2> QED
      BY <1>1, <1>2, <1>5, <2>1 DEF s, n, hold
  <1>6. CASE t < s.at /\ ~hold
    <2>1. n = s
      BY <1>1, <1>2, <1>6
    <2> QED
      BY <1>1, <1>2, <1>6, <2>1 DEF s, n, hold
  <1> QED
    BY <1>1, <1>3, <1>4, <1>5, <1>6

LEMMA EntryOf ==
  ASSUME NEW s \in Stamps, NEW d \in Devices, NEW st, NEW r \in Rooms, SameHosts,
         RoomFacts(d, st.rooms[r], s)
  PROVE  EntryFacts(OwnDeviceSnapshot(st).rooms[r], s)
  <1> DEFINE x == st.rooms[r]
             y == OwnDeviceSnapshot(st).rooms[r]
  <1>1. y.shown = x.filed \ x.tombs /\ (y.added = 0 \/ y.added = x.added)
        /\ y.removal = x.removal
    BY DEF OwnDeviceSnapshot, Shown
  <1>2. s.at \in Nat
    BY DEF Stamps
  <1> HIDE DEF x, y
  <1>3. RoomFacts(d, x, s)
    BY DEF x
  <1>4. EntryFacts(y, s)
    BY <1>1, <1>2, <1>3 DEF RoomFacts, EntryFacts, Within, SameHosts
  <1> QED
    BY <1>4 DEF y

LEMMA LetterEntry ==
  ASSUME NEW p \in Letter, NEW r \in Rooms
  PROVE  p.snap.rooms[r] \in Entry
  BY DEF Letter, Snapshot, Entry

LEMMA FactsKept ==
  ASSUME SameHosts, Inv, Inv', WinFacts, now' # 0,
         \A r \in Rooms :
           /\ Grows(newest[r], newest'[r])
           /\ \A d \in Devices : RoomFacts(d, store'[d].rooms[r], newest'[r]),
         \A d \in Devices :
           /\ \A p \in pending'[d] :
                p \in pending[d] \/ p.snap = OwnDeviceSnapshot(store'[d])
           /\ \A e \in Devices : \A p \in Letters(net'[d][e]) :
                p \in Letters(net[d][e]) \/ p \in pending[d]
  PROVE  WinFacts'
  <1>1. \A d \in Devices : pending[d] \subseteq Letter
    BY DEF Inv, PendingOK
  <1>2. \A d, e \in Devices : Letters(net[d][e]) \subseteq Letter
    BY DEF Inv, NetOK, Letters
  <1>3. ASSUME NEW r \in Rooms, NEW p \in Letter,
               EntryFacts(p.snap.rooms[r], newest[r])
        PROVE  EntryFacts(p.snap.rooms[r], newest'[r])
    <2> DEFINE y == p.snap.rooms[r]
    <2>1. y.added \in Nat /\ y.removal.at \in Nat
      BY LetterEntry DEF Entry, Removal
    <2> QED
      BY <1>3, <2>1 DEF EntryFacts, Grows
  <1>4. ASSUME NEW r \in Rooms, NEW d \in Devices, NEW p \in pending'[d]
        PROVE  EntryFacts(p.snap.rooms[r], newest'[r])
    <2>1. CASE p \in pending[d]
      BY <1>1, <1>3, <2>1 DEF WinFacts
    <2>2. CASE p.snap = OwnDeviceSnapshot(store'[d])
      <3>1. newest'[r] \in Stamps
        BY DEF Inv, StampsOK, Stamps
      <3> QED
        BY <2>2, <3>1, EntryOf
    <2> QED
      BY <2>1, <2>2
  <1>5. ASSUME NEW r \in Rooms, NEW d \in Devices, NEW e \in Devices,
               NEW p \in Letters(net'[d][e])
        PROVE  EntryFacts(p.snap.rooms[r], newest'[r])
    BY <1>1, <1>2, <1>3 DEF WinFacts
  <1>6. \A r \in Rooms : StampFacts(newest'[r])
    BY DEF Grows
  <1> QED
    BY <1>4, <1>5, <1>6 DEF WinFacts

(* A device that holds a stamp writes of it, unless it hides the room.     *)
LEMMA WriteCarries ==
  ASSUME NEW d, NEW st, NEW b, NEW q, Writes(d, st, b, q), NEW r \in Rooms, NEW s,
         Decided(s), Holds(st.rooms[r], s)
  PROVE  q \in BearRoom(r, s) \/ Hides(st.rooms[r])
  <1> DEFINE x == st.rooms[r]
             y == q.snap.rooms[r]
  <1>1. q \in Letter /\ y.shown = x.filed \ x.tombs
        /\ (y.shown # {} => y.added = x.added) /\ y.removal = x.removal
    BY DEF Writes, OwnDeviceSnapshot, Shown
  <1> HIDE DEF x, y
  <1>2. Holds(x, s)
    BY DEF x
  <1>3. Carries(y, s) \/ Hides(x)
    BY <1>1, <1>2, StampKinds DEF Hides
  <1> QED
    BY <1>1, <1>3 DEF BearRoom, x, y

(* Only the store of d changes.                                            *)
OnlyStore(d) == \A a \in Devices \ {d} : store'[a] = store[a]

LEMMA NewsWritten ==
  ASSUME Inv, Inv', NEW d \in Devices, NEW st, NEW b, NEW q, Writes(d, st, b, q),
         store'[d] = st, OnlyStore(d), owed' = owed \ {d},
         UNCHANGED <<Heard, net>>, NEW r \in Rooms, NEW s,
         Decided(s) /\ Holds(store[d].rooms[r], s) => Holds(st.rooms[r], s),
         News(Heard, pending, net, store, owed, r, s)
  PROVE  News(Heard', pending', net', store', owed', r, s)
  <1> SUFFICES ASSUME Decided(s)
               PROVE  News(Heard', pending', net', store', owed', r, s)
    BY DEF News
  <1> DEFINE H == HoldRoom(store, r, s)
             H2 == HoldRoom(store', r, s)
             C == BearRoom(r, s)
             M == Mute(store, owed, r)
             M2 == Mute(store', owed', r)
  <1>1. H \subseteq H2 /\ H \in SUBSET Devices /\ (H \cap M) \ {d} \subseteq M2
    BY DEF HoldRoom, Mute, OnlyStore
  <1>2. d \in H2 => q \in C \/ d \in M2
    BY WriteCarries DEF HoldRoom, Mute
  <1>3. pending' = [pending EXCEPT ![d] = {q}] /\ DOMAIN pending = Devices
        /\ ((\E p \in pending[d] : p.reply = TRUE) => q.reply = TRUE)
    BY DEF Writes, Inv, PendingOK
  <1>4. H # {} /\ \A e \in Heard : e \in Devices /\ Reaches(Heard, pending, net, H, C, M, e)
    BY HeardType DEF News
  <1> HIDE DEF H, H2, C, M, M2
  <1>5. ASSUME NEW e \in Heard PROVE Reaches(Heard, pending', net, H2, C, M2, e)
    <2>1. e \in Devices /\ Reaches(Heard, pending, net, H, C, M, e)
      BY <1>4
    <2>2. Reaches(Heard, [pending EXCEPT ![d] = {q}], net, H2, C, M2, e)
      BY <1>1, <1>2, <1>3, <2>1, ReachSync
    <2> QED
      BY <1>3, <2>2
  <1>6. H2 # {}
    BY <1>1, <1>4
  <1> QED
    BY <1>5, <1>6 DEF News, H2, C, M2

LEMMA NewsStored ==
  ASSUME NEW d \in Devices, OnlyStore(d), owed \subseteq owed',
         UNCHANGED <<pending, Heard, net>>, NEW r \in Rooms, NEW s,
         Decided(s) /\ Holds(store[d].rooms[r], s) =>
           /\ Holds(store'[d].rooms[r], s)
           /\ d \in Mute(store, owed, r) => d \in Mute(store', owed', r),
         News(Heard, pending, net, store, owed, r, s)
  PROVE  News(Heard', pending', net', store', owed', r, s)
  <1> SUFFICES ASSUME Decided(s)
               PROVE  News(Heard', pending', net', store', owed', r, s)
    BY DEF News
  <1> DEFINE H == HoldRoom(store, r, s)
             H2 == HoldRoom(store', r, s)
             C == BearRoom(r, s)
             M == Mute(store, owed, r)
             M2 == Mute(store', owed', r)
  <1>1. H \subseteq H2 /\ H \in SUBSET Devices
    BY DEF HoldRoom, OnlyStore
  <1>2. H \cap M \subseteq M2
    <2>1. ASSUME NEW a \in H \cap M PROVE a \in M2
      <3>1. CASE a = d
        BY <3>1 DEF HoldRoom
      <3>2. CASE a # d
        BY <3>2 DEF HoldRoom, Mute, OnlyStore
      <3> QED
        BY <3>1, <3>2
    <2> QED
      BY <2>1
  <1>3. H # {} /\ \A e \in Heard : Reaches(Heard, pending, net, H, C, M, e)
    BY DEF News
  <1> HIDE DEF H, H2, C, M, M2
  <1>4. \A e \in Heard : Reaches(Heard, pending, net, H2, C, M2, e)
    BY <1>1, <1>2, <1>3, ReachSame
  <1> QED
    BY <1>1, <1>3, <1>4 DEF News, H2, C, M2

(* d has just put the stamp s on r.                                        *)
LEMMA NewsFresh ==
  ASSUME NEW d \in Devices, NEW r \in Rooms, NEW s,
         Holds(store'[d].rooms[r], s),
         \/ d \in Mute(store', owed', r)
         \/ \E p \in pending'[d] : p \in BearRoom(r, s)
  PROVE  News(Heard', pending', net', store', owed', r, s)
  <1>1. d \in HoldRoom(store', r, s)
    BY DEF HoldRoom
  <1> QED
    BY <1>1 DEF News, Reaches, Told

(* n is the newest stamp on a room after d has put t of kind k on it.      *)
Stamped(x, s, t, k, n) ==
  /\ n \in Stamps /\ Grows(s, n) /\ t <= n.at
  /\ \/ n = [at |-> t, kind |-> k]
     \/ n.kind = "open"
     \/ n = s /\ t < s.at /\ ~Holds(x, s)

LEMMA UpsertFacts ==
  ASSUME NEW d \in Devices, NEW x, NEW h \in Knows[d], NEW t \in Nat, t # 0,
         h \notin x.filed \/ h \in x.tombs, NEW s, NEW n,
         RoomFacts(d, x, s), Stamped(x, s, t, "add", n),
         NEW z, z = Upsert(x, h, t)
  PROVE  RoomFacts(d, z, n) /\ (n = [at |-> t, kind |-> "add"] => Holds(z, n))
  <1>1. z.filed = x.filed \cup {h} /\ z.added = t /\ z.removal.at = 0
    BY DEF Upsert, NoRemoval
  <1>2. n.at \in Nat
    BY DEF Stamped, Stamps
  <1>3. Within(z.added, z.removal.at, n)
    BY <1>1, <1>2 DEF Stamped, Within
  <1>4. RoomFacts(d, z, n)
    BY <1>1, <1>3 DEF RoomFacts
  <1> QED
    BY <1>1, <1>4 DEF Holds

LEMMA DropFacts ==
  ASSUME NEW d \in Devices, NEW x, NEW t \in Nat, t # 0, NEW s, NEW n,
         Stamped(x, s, t, "remove", n), NEW z, z = Drop(x, Knows[d], t)
  PROVE  RoomFacts(d, z, n) /\ (n = [at |-> t, kind |-> "remove"] => Holds(z, n))
  <1>1. z.filed = {} /\ z.added = 0 /\ z.removal.at = t
    BY DEF Drop
  <1>2. n.at \in Nat
    BY DEF Stamped, Stamps
  <1>3. Within(z.added, z.removal.at, n)
    BY <1>1, <1>2 DEF Stamped, Within
  <1>4. RoomFacts(d, z, n)
    BY <1>1, <1>3 DEF RoomFacts, Removed
  <1> QED
    BY <1>1, <1>4 DEF Holds

LEMMA StampedBy ==
  ASSUME Inv, Inv', WinFacts, NEW d \in Devices, NEW r \in Rooms,
         NEW k \in {"add", "remove"}, Stamp(d, r, Clock(d), k)
  PROVE  /\ Clock(d) \in Nat /\ Clock(d) # 0
         /\ Stamped(store[d].rooms[r], newest[r], Clock(d), k, newest'[r])
         /\ \A o \in Rooms \ {r} : newest'[o] = newest[o]
         /\ \A o \in Rooms : Grows(newest[o], newest'[o])
  <1>1. Clock(d) \in Nat /\ Clock(d) # 0
    BY DevicesAssumption DEF Clock, WinFacts, Inv, CountsOK
  <1>2. newest'[r] \in Stamps
    BY DEF Inv, StampsOK, Stamps
  <1>3. /\ \A o \in Rooms \ {r} : newest'[o] = newest[o]
        /\ Grows(newest[r], newest'[r])
        /\ Clock(d) <= newest'[r].at
        /\ \/ newest'[r] = [at |-> Clock(d), kind |-> k]
           \/ newest'[r].kind = "open"
           \/ /\ newest'[r] = newest[r] /\ Clock(d) < newest[r].at
              /\ ~Holds(store[d].rooms[r], newest[r])
    BY <1>1, StampCases
  <1>4. \A o \in Rooms : Grows(newest[o], newest'[o])
    BY <1>3, StampOf
  <1> QED
    BY <1>1, <1>2, <1>3, <1>4 DEF Stamped

(* The user adds or removes r on d, which then holds the stamp, if it      *)
(* counts, and writes of it at once.                                       *)
LEMMA WinWritten ==
  ASSUME SameHosts, Inv, Inv', WinInv, NEW d \in Devices, NEW r \in Rooms,
         NEW k \in {"add", "remove"}, Stamp(d, r, Clock(d), k),
         NEW st, NEW b, NEW q, Writes(d, st, b, q), SetStore(d, st),
         owed' = owed \ {d}, UNCHANGED <<Heard, net, now>>,
         \A o \in Rooms \ {r} : st.rooms[o] = store[d].rooms[o],
         RoomFacts(d, st.rooms[r], newest'[r]),
         newest'[r] = [at |-> Clock(d), kind |-> k] => Holds(st.rooms[r], newest'[r])
  PROVE  WinInv'
  <1>1. /\ Clock(d) \in Nat /\ Clock(d) # 0
        /\ Stamped(store[d].rooms[r], newest[r], Clock(d), k, newest'[r])
        /\ \A o \in Rooms \ {r} : newest'[o] = newest[o]
        /\ \A o \in Rooms : Grows(newest[o], newest'[o])
    BY StampedBy DEF WinInv
  <1>2. store'[d] = st /\ OnlyStore(d)
    BY DEF SetStore, OnlyStore, Inv, StoresOK
  <1>3. pending'[d] = {q} /\ q.snap = OwnDeviceSnapshot(st)
        /\ \A a \in Devices \ {d} : pending'[a] = pending[a]
    BY DEF Writes, Inv, PendingOK
  <1>4. ASSUME NEW o \in Rooms, NEW a \in Devices
        PROVE  RoomFacts(a, store'[a].rooms[o], newest'[o])
    <2>0. RoomFacts(a, store[a].rooms[o], newest[o]) /\ Grows(newest[o], newest'[o])
      BY <1>1 DEF WinInv, WinFacts
    <2>1. CASE a = d /\ o = r
      BY <1>2, <2>1
    <2>2. CASE ~(a = d /\ o = r)
      <3>1. store'[a].rooms[o] = store[a].rooms[o]
        BY <1>2, <2>2 DEF OnlyStore
      <3> QED
        BY <2>0, <3>1 DEF RoomFacts, Grows, Within
    <2> QED
      BY <2>1, <2>2
  <1>5. WinFacts'
    BY <1>1, <1>2, <1>3, <1>4, FactsKept DEF WinInv, WinFacts
  <1>6. ASSUME NEW o \in Rooms \ {r}
        PROVE  News(Heard', pending', net', store', owed', o, newest'[o])
    BY <1>1, <1>2, NewsWritten DEF WinInv
  <1>7. News(Heard', pending', net', store', owed', r, newest'[r])
    <2>1. CASE newest'[r].kind = "open"
      BY <2>1 DEF News, Decided
    <2>2. CASE newest'[r] = newest[r] /\ ~Holds(store[d].rooms[r], newest[r])
      BY <1>2, <2>2, NewsWritten DEF WinInv
    <2>3. CASE newest'[r] = [at |-> Clock(d), kind |-> k]
      <3>1. Decided(newest'[r])
        BY <1>1, <2>3 DEF Decided
      <3>2. q \in BearRoom(r, newest'[r]) \/ Hides(st.rooms[r])
        BY <2>3, <3>1, WriteCarries
      <3> QED
        BY <1>2, <1>3, <2>3, <3>2, NewsFresh DEF Mute
    <2> QED
      BY <1>1, <2>1, <2>2, <2>3 DEF Stamped
  <1> QED
    BY <1>5, <1>6, <1>7 DEF WinInv

LEMMA WinCreate ==
  ASSUME SameHosts, Inv, Inv', WinInv, NEW d \in Devices, NEW r \in Rooms,
         NEW c \in Contents, Create(d, r, c)
  PROVE  WinInv'
  <1> DEFINE x == store[d].rooms[r]
             z == Upsert(x, SpaceHost, Clock(d))
             st == [store[d] EXCEPT !.rooms[r] = Upsert(@, SpaceHost, Clock(d)),
                                    !.space = AdoptRoomIntoSpace(@, r, c)]
  <1>1. SetStore(d, st) /\ SyncOwnRooms(d, st, TRUE) /\ UNCHANGED <<Heard, net, now>>
        /\ Stamp(d, r, Clock(d), "add") /\ SpaceHost \in Knows[d]
        /\ x.filed \cap Cluster[SpaceHost] = {}
    BY DEF Create, Heard
  <1>2. st.rooms[r] = z /\ \A o \in Rooms \ {r} : st.rooms[o] = store[d].rooms[o]
    BY DEF Inv, StoresOK, Store
  <1>3. SpaceHost \notin x.filed
    BY <1>1, HostsAssumption
  <1> HIDE DEF st
  <1>4. store'[d] = st /\ st \in Store /\ StoreOK(d, st)
    BY <1>1 DEF SetStore, Inv, StoresOK
  <1>5. PICK q : Writes(d, st, TRUE, q)
    BY <1>1, <1>4, SyncWrites
  <1>6. owed' = owed \ {d}
    BY <1>1 DEF SyncOwnRooms, QueueOwnRoomSync
  <1>7. RoomFacts(d, x, newest[r])
    BY DEF WinInv, WinFacts
  <1>8. Clock(d) \in Nat /\ Clock(d) # 0
        /\ Stamped(x, newest[r], Clock(d), "add", newest'[r])
    BY <1>1, StampedBy DEF WinInv
  <1> HIDE DEF x
  <1>9. RoomFacts(d, z, newest'[r])
        /\ (newest'[r] = [at |-> Clock(d), kind |-> "add"] => Holds(z, newest'[r]))
    BY <1>1, <1>3, <1>7, <1>8, UpsertFacts
  <1> HIDE DEF z
  <1> QED
    BY <1>1, <1>2, <1>5, <1>6, <1>9, WinWritten

LEMMA WinDelete ==
  ASSUME SameHosts, Inv, Inv', WinInv, NEW d \in Devices, NEW r \in Rooms, Delete(d, r)
  PROVE  WinInv'
  <1> DEFINE x == store[d].rooms[r]
             z == Drop(x, Knows[d], Clock(d))
             st == [store[d] EXCEPT !.rooms[r] = Drop(@, Knows[d], Clock(d))]
  <1>1. SetStore(d, st) /\ SyncOwnRooms(d, st, FALSE) /\ UNCHANGED <<Heard, net, now>>
        /\ Stamp(d, r, Clock(d), "remove")
    BY DEF Delete, Heard
  <1>2. st.rooms[r] = z /\ \A o \in Rooms \ {r} : st.rooms[o] = store[d].rooms[o]
    BY DEF Inv, StoresOK, Store
  <1> HIDE DEF st
  <1>3. store'[d] = st /\ st \in Store /\ StoreOK(d, st)
    BY <1>1 DEF SetStore, Inv, StoresOK
  <1>4. PICK q : Writes(d, st, FALSE, q)
    BY <1>1, <1>3, SyncWrites
  <1>5. owed' = owed \ {d}
    BY <1>1 DEF SyncOwnRooms, QueueOwnRoomSync
  <1>6. Clock(d) \in Nat /\ Clock(d) # 0
        /\ Stamped(x, newest[r], Clock(d), "remove", newest'[r])
    BY <1>1, StampedBy DEF WinInv
  <1> HIDE DEF x
  <1>7. RoomFacts(d, z, newest'[r])
        /\ (newest'[r] = [at |-> Clock(d), kind |-> "remove"] => Holds(z, newest'[r]))
    BY <1>6, DropFacts
  <1> HIDE DEF z
  <1> QED
    BY <1>1, <1>2, <1>4, <1>5, <1>7, WinWritten

LEMMA WinJoin ==
  ASSUME SameHosts, Inv, Inv', WinInv, NEW d \in Devices, NEW r \in Rooms,
         NEW h \in Hosts, Join(d, r, h)
  PROVE  WinInv'
  <1> DEFINE x == store[d].rooms[r]
             z == Upsert(x, h, Clock(d))
  <1>1. /\ store' = [store EXCEPT ![d] = [store[d] EXCEPT !.rooms[r] = z]]
        /\ store' # store /\ owed' = owed \cup {d} /\ h \in Knows[d]
        /\ UNCHANGED <<pending, Heard, net, now>> /\ Stamp(d, r, Clock(d), "add")
    BY DEF Join, SetRoom, SetStore, Heard
  <1>2. x \in RoomState /\ store \in [Devices -> Store] /\ store[d].rooms \in [Rooms -> RoomState]
    BY RoomOf DEF Inv, StoresOK, Store
  <1>3. h \notin x.filed \/ h \in x.tombs
    <2> SUFFICES ASSUME h \in x.filed, h \notin x.tombs PROVE FALSE
      OBVIOUS
    <2>1. z = x
      <3>1. z = [filed |-> x.filed, tombs |-> x.tombs, added |-> x.added,
                 removal |-> x.removal]
        <4>1. x.filed \cup {h} = x.filed /\ x.tombs \ {h} = x.tombs
          OBVIOUS
        <4> QED
          BY <4>1 DEF Upsert
      <3> QED
        BY <1>2, <3>1 DEF RoomState
    <2> HIDE DEF z
    <2>2. [store[d] EXCEPT !.rooms[r] = z] = store[d]
      BY <1>2, <2>1 DEF Store
    <2> QED
      BY <1>1, <1>2, <2>2
  <1>4. RoomFacts(d, x, newest[r])
    BY DEF WinInv, WinFacts
  <1>5. /\ Clock(d) \in Nat /\ Clock(d) # 0
        /\ Stamped(x, newest[r], Clock(d), "add", newest'[r])
        /\ \A o \in Rooms \ {r} : newest'[o] = newest[o]
        /\ \A o \in Rooms : Grows(newest[o], newest'[o])
    BY <1>1, StampedBy DEF WinInv
  <1> HIDE DEF x
  <1>6. RoomFacts(d, z, newest'[r])
        /\ (newest'[r] = [at |-> Clock(d), kind |-> "add"] => Holds(z, newest'[r]))
    BY <1>1, <1>3, <1>4, <1>5, UpsertFacts
  <1> HIDE DEF z
  <1>7. /\ store'[d].rooms[r] = z /\ OnlyStore(d)
        /\ \A o \in Rooms \ {r} : store'[d].rooms[o] = store[d].rooms[o]
    BY <1>1, <1>2 DEF Store, OnlyStore
  <1>8. ASSUME NEW o \in Rooms, NEW a \in Devices
        PROVE  RoomFacts(a, store'[a].rooms[o], newest'[o])
    <2>0. RoomFacts(a, store[a].rooms[o], newest[o]) /\ Grows(newest[o], newest'[o])
      BY <1>5 DEF WinInv, WinFacts
    <2>1. CASE a = d /\ o = r
      BY <1>6, <1>7, <2>1
    <2>2. CASE ~(a = d /\ o = r)
      <3>1. store'[a].rooms[o] = store[a].rooms[o]
        BY <1>7, <2>2 DEF OnlyStore
      <3> QED
        BY <2>0, <3>1 DEF RoomFacts, Grows, Within
    <2> QED
      BY <2>1, <2>2
  <1>9. WinFacts'
    BY <1>1, <1>5, <1>8, FactsKept DEF WinInv, WinFacts
  <1>10. d \in Mute(store', owed', r) /\ \A o \in Rooms : d \in Mute(store', owed', o)
    BY <1>1 DEF Mute
  <1>11. ASSUME NEW o \in Rooms \ {r}
         PROVE  News(Heard', pending', net', store', owed', o, newest'[o])
    BY <1>1, <1>5, <1>7, <1>10, NewsStored DEF WinInv
  <1>12. News(Heard', pending', net', store', owed', r, newest'[r])
    <2>1. CASE newest'[r].kind = "open"
      BY <2>1 DEF News, Decided
    <2>2. CASE newest'[r] = newest[r] /\ ~Holds(x, newest[r])
      BY <1>1, <1>7, <2>2, NewsStored DEF WinInv, x
    <2>3. CASE newest'[r] = [at |-> Clock(d), kind |-> "add"]
      BY <1>6, <1>7, <1>10, <2>3, NewsFresh
    <2> QED
      BY <1>5, <2>1, <2>2, <2>3 DEF Stamped
  <1> QED
    BY <1>9, <1>11, <1>12 DEF WinInv

(* The store of d changes in a way that says no more of any stamp than     *)
(* before, and nothing is sent.                                            *)
LEMMA WinStored ==
  ASSUME SameHosts, Inv, Inv', WinInv, NEW d \in Devices, NEW r \in Rooms, NEW z,
         SetStore(d, [store[d] EXCEPT !.rooms[r] = z]),
         owed \subseteq owed', UNCHANGED <<pending, Heard, net, newest, now>>,
         RoomFacts(d, z, newest[r]),
         Decided(newest[r]) /\ Holds(store[d].rooms[r], newest[r]) => Holds(z, newest[r]),
         d \notin owed' /\ Hides(store[d].rooms[r]) => Hides(z)
  PROVE  WinInv'
  <1>1. store \in [Devices -> Store] /\ store[d].rooms \in [Rooms -> RoomState]
    BY DEF Inv, StoresOK, Store
  <1>2. /\ store'[d].rooms[r] = z /\ OnlyStore(d)
        /\ \A o \in Rooms \ {r} : store'[d].rooms[o] = store[d].rooms[o]
    BY <1>1 DEF Store, OnlyStore, SetStore
  <1>3. ASSUME NEW o \in Rooms, NEW a \in Devices
        PROVE  RoomFacts(a, store'[a].rooms[o], newest'[o])
    <2>0. RoomFacts(a, store[a].rooms[o], newest[o])
      BY DEF WinInv, WinFacts
    <2>1. CASE a = d /\ o = r
      BY <1>2, <2>1
    <2>2. CASE ~(a = d /\ o = r)
      BY <1>2, <2>0, <2>2 DEF OnlyStore
    <2> QED
      BY <2>1, <2>2
  <1>4. \A o \in Rooms : Grows(newest[o], newest'[o])
    BY StampOf DEF WinInv
  <1>5. WinFacts'
    BY <1>3, <1>4, FactsKept DEF WinInv, WinFacts
  <1>6. ASSUME NEW o \in Rooms
        PROVE  News(Heard', pending', net', store', owed', o, newest'[o])
    <2>1. /\ Decided(newest[o]) /\ Holds(store[d].rooms[o], newest[o]) =>
               Holds(store'[d].rooms[o], newest[o])
          /\ d \in Mute(store, owed, o) => d \in Mute(store', owed', o)
      <3>1. CASE o = r
        BY <1>2, <3>1 DEF Mute
      <3>2. CASE o # r
        BY <1>2, <3>2 DEF Mute
      <3> QED
        BY <3>1, <3>2
    <2>2. newest'[o] = newest[o] /\ News(Heard, pending, net, store, owed, o, newest[o])
      BY DEF WinInv
    <2> QED
      BY <1>2, <2>1, <2>2, NewsStored
  <1> QED
    BY <1>5, <1>6 DEF WinInv

LEMMA WinRoom ==
  ASSUME SameHosts, Inv, Inv', WinInv, NEW d \in Devices, NEW r \in Rooms,
         NEW h \in Hosts, Hide(d, r, h) \/ Unhide(d, r, h) \/ RoomList(d, r, h)
  PROVE  WinInv'
  <1> DEFINE x == store[d].rooms[r]
  <1>1. x \in RoomState /\ RoomFacts(d, x, newest[r])
    BY RoomOf DEF WinInv, WinFacts
  <1>2. CASE Hide(d, r, h)
    <2> DEFINE z == [x EXCEPT !.tombs = @ \cup {h}]
    <2>1. SetStore(d, [store[d] EXCEPT !.rooms[r] = z]) /\ h \in x.filed
          /\ UNCHANGED <<pending, Heard, net, owed, newest, now>>
      BY <1>2 DEF Hide, SetRoom, Shown, Heard
    <2> HIDE DEF x
    <2>2. /\ z.filed = x.filed /\ z.added = x.added /\ z.removal = x.removal
          /\ z.tombs = x.tombs \cup {h}
      BY <1>1 DEF RoomState
    <2> HIDE DEF z
    <2>3. RoomFacts(d, z, newest[r]) /\ (Holds(x, newest[r]) => Holds(z, newest[r]))
          /\ (Hides(x) => Hides(z))
      BY <1>1, <2>1, <2>2 DEF RoomFacts, Holds, Hides, Removed
    <2> QED
      BY <2>1, <2>3, WinStored DEF x
  <1>3. CASE Unhide(d, r, h)
    <2> DEFINE z == [x EXCEPT !.tombs = @ \ {h}]
    <2>1. SetStore(d, [store[d] EXCEPT !.rooms[r] = z])
          /\ h \in x.filed /\ owed' = owed \cup {d}
          /\ UNCHANGED <<pending, Heard, net, newest, now>>
      BY <1>3 DEF Unhide, SetRoom, Heard
    <2> HIDE DEF x
    <2>2. /\ z.filed = x.filed /\ z.added = x.added /\ z.removal = x.removal
          /\ z.tombs = x.tombs \ {h}
      BY <1>1 DEF RoomState
    <2> HIDE DEF z
    <2>3. RoomFacts(d, z, newest[r]) /\ (Holds(x, newest[r]) => Holds(z, newest[r]))
      BY <1>1, <2>1, <2>2 DEF RoomFacts, Holds, Removed
    <2> QED
      BY <2>1, <2>3, WinStored DEF x
  <1>4. CASE RoomList(d, r, h)
    <2> DEFINE z == SyncFromRoomList(x, h)
    <2>1. SetStore(d, [store[d] EXCEPT !.rooms[r] = z])
          /\ h \in Knows[d] /\ owed' = owed \cup {d}
          /\ UNCHANGED <<pending, Heard, net, newest, now>>
      BY <1>4 DEF RoomList, SetRoom, Heard
    <2> HIDE DEF x
    <2>2. \/ z = x
          \/ /\ z.filed = x.filed \cup {h} /\ z.added = x.added /\ z.removal = x.removal
             /\ z.tombs = x.tombs
      BY <1>1 DEF RoomState, SyncFromRoomList
    <2> HIDE DEF z
    <2>3. RoomFacts(d, z, newest[r]) /\ (Holds(x, newest[r]) => Holds(z, newest[r]))
      <3>1. CASE z = x
        BY <1>1, <3>1
      <3>2. CASE z # x
        BY <1>1, <2>1, <2>2, <3>2 DEF RoomFacts, Holds
      <3> QED
        BY <3>1, <3>2
    <2> QED
      BY <2>1, <2>3, WinStored DEF x
  <1> QED
    BY <1>2, <1>3, <1>4

(* The stores and stamps stay.                                             *)
LEMMA FactsTraded ==
  ASSUME SameHosts, Inv, Inv', WinInv, UNCHANGED <<store, newest>>, now' # 0,
         \A d \in Devices :
           /\ \A p \in pending'[d] :
                p \in pending[d] \/ p.snap = OwnDeviceSnapshot(store[d])
           /\ \A e \in Devices : \A p \in Letters(net'[d][e]) :
                p \in Letters(net[d][e]) \/ p \in pending[d]
  PROVE  WinFacts'
  <1>1. \A r \in Rooms :
          /\ Grows(newest[r], newest'[r])
          /\ \A d \in Devices : RoomFacts(d, store'[d].rooms[r], newest'[r])
    BY StampOf DEF WinInv, WinFacts
  <1> QED
    BY <1>1, FactsKept DEF WinInv

LEMMA WinQuiet ==
  ASSUME SameHosts, Inv, Inv', WinInv, now' # 0,
         UNCHANGED <<store, pending, Heard, net, owed, newest>>
  PROVE  WinInv'
  <1>1. WinFacts'
    BY FactsTraded
  <1>2. \A r \in Rooms : News(Heard', pending', net', store', owed', r, newest'[r])
    BY DEF WinInv
  <1> QED
    BY <1>1, <1>2 DEF WinInv

LEMMA WinConnect ==
  ASSUME SameHosts, Inv, Inv', WinInv, NEW d \in Devices, Connect(d)
  PROVE  WinInv'
  <1>1. store[d] \in Store /\ StoreOK(d, store[d])
    BY DEF Inv, StoresOK
  <1>2. PICK q : Writes(d, store[d], TRUE, q)
    BY <1>1, SyncWrites DEF Connect
  <1>3. /\ q \in Letter /\ q.snap = OwnDeviceSnapshot(store[d]) /\ q.reply = TRUE
        /\ pending' = [pending EXCEPT ![d] = {q}] /\ DOMAIN pending = Devices
    BY <1>2 DEF Writes, Inv, PendingOK
  <1>4. /\ store' = store /\ net' = net /\ Heard' = Heard \cup {d} /\ newest' = newest
        /\ Heard \in SUBSET Devices /\ now' = now /\ owed' = owed \ {d}
    BY DEF Connect, SyncOwnRooms, QueueOwnRoomSync, Inv, CountsOK, Heard
  <1>5. pending'[d] = {q} /\ \A a \in Devices \ {d} : pending'[a] = pending[a]
    BY <1>3
  <1>6. WinFacts'
    BY <1>3, <1>4, <1>5, FactsTraded DEF WinInv, WinFacts
  <1>7. ASSUME NEW r \in Rooms
        PROVE  News(Heard', pending', net', store', owed', r, newest'[r])
    <2> SUFFICES ASSUME Decided(newest[r])
                 PROVE  News(Heard', pending', net', store', owed', r, newest'[r])
      BY <1>4 DEF News
    <2> DEFINE H == HoldRoom(store, r, newest[r])
               C == BearRoom(r, newest[r])
               M == Mute(store, owed, r)
               M2 == Mute(store, owed', r)
    <2>1. H # {} /\ \A e \in Heard : Reaches(Heard, pending, net, H, C, M, e)
      BY DEF WinInv, News
    <2>2. H \in SUBSET Devices /\ (H \cap M) \ {d} \subseteq M2
      BY <1>4 DEF HoldRoom, Mute
    <2>3. d \in H => q \in C \/ d \in M2
      BY <1>2, WriteCarries DEF HoldRoom, Mute
    <2> HIDE DEF H, C, M, M2
    <2>4. ASSUME NEW e \in Heard \cup {d}
          PROVE  Reaches(Heard \cup {d}, [pending EXCEPT ![d] = {q}], net, H, C, M2, e)
      BY <1>3, <1>4, <2>1, <2>2, <2>3, ReachConnect
    <2> QED
      BY <1>3, <1>4, <2>1, <2>4 DEF News, H, C, M2
  <1> QED
    BY <1>6, <1>7 DEF WinInv

LEMMA WinFlush ==
  ASSUME SameHosts, Inv, Inv', WinInv, NEW d \in Devices, Flush(d)
  PROVE  WinInv'
  <1>1. PICK p \in Letter : Sends(Heard, pending, pending', net, net', d, p)
    BY FlushSends
  <1>2. pending'[d] = {} /\ \A a \in Devices \ {d} : pending'[a] = pending[a]
    BY <1>1 DEF Sends
  <1>3. /\ store' = store /\ Heard' = Heard /\ Heard \in SUBSET Devices
        /\ newest' = newest /\ owed' = owed /\ now' = now
    BY DEF Flush, Inv, CountsOK, Heard
  <1>4. ASSUME NEW a \in Devices, NEW b \in Devices, NEW m \in Letters(net'[a][b])
        PROVE  m \in Letters(net[a][b]) \/ m \in pending[a]
    <2>1. net[a][b] \in Seq(Letter)
          /\ (net'[a][b] = net[a][b] \/ (a = d /\ net'[a][b] = Append(net[a][b], p)))
          /\ pending[d] = {p}
      BY <1>1 DEF Sends
    <2> QED
      BY <2>1, LettersAppend
  <1>5. WinFacts'
    BY <1>2, <1>3, <1>4, FactsTraded DEF WinInv, WinFacts
  <1>6. ASSUME NEW r \in Rooms
        PROVE  News(Heard', pending', net', store', owed', r, newest'[r])
    <2> SUFFICES ASSUME Decided(newest[r])
                 PROVE  News(Heard', pending', net', store', owed', r, newest'[r])
      BY <1>3 DEF News
    <2> DEFINE H == HoldRoom(store, r, newest[r])
               C == BearRoom(r, newest[r])
               M == Mute(store, owed, r)
    <2>1. H \in SUBSET Devices /\ H # {}
          /\ \A e \in Heard : Reaches(Heard, pending, net, H, C, M, e)
      BY DEF WinInv, News, HoldRoom
    <2> HIDE DEF H, C, M
    <2>2. ASSUME NEW e \in Heard PROVE Reaches(Heard, pending', net', H, C, M, e)
      BY <1>1, <1>3, <2>1, ReachFlush
    <2> QED
      BY <1>3, <2>1, <2>2 DEF News, H, C, M
  <1> QED
    BY <1>5, <1>6 DEF WinInv

LEMMA WinDisconnect ==
  ASSUME SameHosts, Inv, Inv', WinInv, NEW d \in Devices, Disconnect(d)
  PROVE  WinInv'
  <1>1. /\ \A a \in Devices \ {d} : pending'[a] = pending[a]
        /\ pending'[d] \subseteq pending[d]
        /\ \A a, b \in Devices : net'[a][b] = IF b = d THEN <<>> ELSE net[a][b]
    BY DisconnectLoses
  <1>2. /\ store' = store /\ Heard' = Heard \ {d} /\ Heard \in SUBSET Devices
        /\ newest' = newest /\ owed' = owed /\ now' = now
    BY DEF Disconnect, Inv, CountsOK, Heard
  <1>3. \A a, b \in Devices : Letters(net'[a][b]) \subseteq Letters(net[a][b])
    BY <1>1 DEF Letters
  <1>4. WinFacts'
    BY <1>1, <1>2, <1>3, FactsTraded DEF WinInv, WinFacts
  <1>5. ASSUME NEW r \in Rooms
        PROVE  News(Heard', pending', net', store', owed', r, newest'[r])
    <2> SUFFICES ASSUME Decided(newest[r])
                 PROVE  News(Heard', pending', net', store', owed', r, newest'[r])
      BY <1>2 DEF News
    <2> DEFINE H == HoldRoom(store, r, newest[r])
               C == BearRoom(r, newest[r])
               M == Mute(store, owed, r)
    <2>1. H \subseteq Devices /\ H # {}
          /\ \A e \in Heard : Reaches(Heard, pending, net, H, C, M, e)
      BY DEF WinInv, News, HoldRoom
    <2> HIDE DEF H, C, M
    <2>2. ASSUME NEW e \in Heard \ {d}
          PROVE  Reaches(Heard \ {d}, pending', net', H, C, M, e)
      <3>1. e \in Devices \ {d} /\ e \in Heard
        BY <1>2
      <3>2. \A x \in Devices, y \in Devices \ {d} : net'[x][y] = net[x][y]
        BY <1>1
      <3> QED
        BY <1>1, <2>1, <3>1, <3>2, ReachDisconnect
    <2> QED
      BY <1>2, <2>1, <2>2 DEF News, H, C, M
  <1> QED
    BY <1>4, <1>5 DEF WinInv

LEMMA WinLost ==
  ASSUME SameHosts, Inv, Inv', WinInv, NEW d \in Devices, FlushLost(d)
  PROVE  WinInv'
  <1>1. /\ \A a \in Devices \ {d} : pending'[a] = pending[a]
        /\ pending'[d] = {} /\ net' = net
    BY LostSilences
  <1>2. /\ store' = store /\ Heard' = Heard \ {d} /\ Heard \in SUBSET Devices
        /\ newest' = newest /\ owed' = owed /\ now' = now
    BY HeardType, LostSilences
  <1>3. \A a, b \in Devices : Letters(net'[a][b]) \subseteq Letters(net[a][b])
    BY <1>1 DEF Letters
  <1>4. WinFacts'
    BY <1>1, <1>2, <1>3, FactsTraded DEF WinInv, WinFacts
  <1>5. ASSUME NEW r \in Rooms
        PROVE  News(Heard', pending', net', store', owed', r, newest'[r])
    <2> SUFFICES ASSUME Decided(newest[r])
                 PROVE  News(Heard', pending', net', store', owed', r, newest'[r])
      BY <1>2 DEF News
    <2> DEFINE H == HoldRoom(store, r, newest[r])
               C == BearRoom(r, newest[r])
               M == Mute(store, owed, r)
    <2>1. H \subseteq Devices /\ H # {}
          /\ \A e \in Heard : Reaches(Heard, pending, net, H, C, M, e)
      BY DEF WinInv, News, HoldRoom
    <2> HIDE DEF H, C, M
    <2>2. ASSUME NEW e \in Heard \ {d}
          PROVE  Reaches(Heard \ {d}, pending', net', H, C, M, e)
      <3>1. e \in Devices \ {d} /\ e \in Heard
        BY <1>2
      <3>2. \A x \in Devices, y \in Devices \ {d} : net'[x][y] = net[x][y]
        BY <1>1
      <3> QED
        BY <1>1, <2>1, <3>1, <3>2, ReachDisconnect
    <2> QED
      BY <1>2, <2>1, <2>2 DEF News, H, C, M
  <1> QED
    BY <1>4, <1>5 DEF WinInv

LEMMA WinReceive ==
  ASSUME SameHosts, Inv, Inv', WinInv, NEW d \in Devices, NEW f \in Devices,
         Receive(d, f)
  PROVE  WinInv'
  <1> DEFINE m == Head(net[f][d])
             st == MergeOwnDeviceSnapshot(store[d], m.snap, Knows[d])
             sync == SyncOwnRooms(d, st, FALSE)
  <1>1. /\ net[f][d] # <<>> /\ m \in Letter /\ m \in Letters(net[f][d])
        /\ SnapOK(m.snap)
        /\ \A a, b \in Devices : net[a][b] \in Seq(Letter)
        /\ \A a, b \in Devices :
             net'[a][b] = IF a = f /\ b = d THEN Tail(net[a][b]) ELSE net[a][b]
    BY ReceiveTakes
  <1>2. SetStore(d, st) /\ Heard' = Heard /\ Heard \in SUBSET Devices
        /\ newest' = newest /\ now' = now
    BY DEF Receive, Inv, CountsOK, Heard
  <1>3. sync \/ (UNCHANGED <<pending, owed>> /\ ~m.reply)
    BY DEF Receive
  <1>4. \A r \in Rooms :
          st.rooms[r] = MergedRoom(store[d].rooms[r], m.snap.rooms[r], Knows[d])
    BY DEF MergeOwnDeviceSnapshot, MergedRoom
  <1> HIDE DEF m, st
  <1>5. store'[d] = st /\ st \in Store /\ StoreOK(d, st) /\ OnlyStore(d)
    BY <1>2 DEF SetStore, OnlyStore, Inv, StoresOK
  <1>6. sync => (\E q : Writes(d, st, FALSE, q)) /\ owed' = owed \ {d}
    BY <1>5, SyncWrites
  <1> HIDE DEF sync
  <1>7. /\ Takes(pending, pending', net, net', d, f)
        /\ \/ /\ \E q : Writes(d, st, FALSE, q) /\ pending'[d] = {q}
              /\ owed' = owed \ {d}
           \/ ~m.reply /\ pending'[d] = pending[d] /\ owed' = owed
    <2>1. CASE sync
      <3>1. PICK q : Writes(d, st, FALSE, q)
        BY <1>6, <2>1
      <3>2. pending'[d] = {q} /\ \A a \in Devices \ {d} : pending'[a] = pending[a]
        BY <3>1 DEF Writes, Inv, PendingOK
      <3> QED
        BY <1>1, <1>6, <2>1, <3>1, <3>2 DEF Takes, m
    <2>2. CASE ~sync
      BY <1>1, <1>3, <2>2 DEF Takes, m
    <2> QED
      BY <2>1, <2>2
  <1>8. ASSUME NEW r \in Rooms
        PROVE  LET x == store[d].rooms[r]
                   y == m.snap.rooms[r]
                   s == newest[r]
               IN /\ RoomFacts(d, st.rooms[r], s)
                  /\ Decided(s) /\ (Holds(x, s) \/ Carries(y, s)) => Holds(st.rooms[r], s)
                  /\ Decided(s) /\ Holds(x, s) /\ Hides(x) => Hides(st.rooms[r])
    <2>1. store[d].rooms[r] \in RoomState /\ GoneOK(d, store[d].rooms[r])
          /\ RoomFacts(d, store[d].rooms[r], newest[r])
      BY RoomOf DEF WinInv, WinFacts
    <2>2. m.snap.rooms[r] \in Entry /\ Covers(m.snap.rooms[r].removal)
          /\ EntryFacts(m.snap.rooms[r], newest[r])
      BY <1>1, LetterEntry DEF SnapOK, WinInv, WinFacts
    <2>3. newest[r] \in [at : Nat, kind : {"none", "add", "remove", "open"}]
          /\ (Decided(newest[r]) \/ newest[r].kind \in {"none", "open"})
      BY StampOf DEF WinInv, Stamps
    <2> QED
      BY <1>4, <2>1, <2>2, <2>3, MergedFacts
  <1>9. WinFacts'
    <2>1. ASSUME NEW r \in Rooms, NEW a \in Devices
          PROVE  RoomFacts(a, store'[a].rooms[r], newest'[r])
      BY <1>2, <1>5, <1>8 DEF WinInv, WinFacts, OnlyStore
    <2>2. ASSUME NEW a \in Devices, NEW b \in Devices
          PROVE  Letters(net'[a][b]) \subseteq Letters(net[a][b])
      <3>1. net[a][b] \in Seq(Letter)
            /\ (net'[a][b] = net[a][b]
                 \/ (net[a][b] # <<>> /\ net'[a][b] = Tail(net[a][b])))
        BY <1>1
      <3> QED
        BY <3>1, LettersTail
    <2>3. \A a \in Devices : \A p \in pending'[a] :
            p \in pending[a] \/ p.snap = OwnDeviceSnapshot(store'[a])
      BY <1>5, <1>7 DEF Takes, Writes
    <2>4. \A r \in Rooms : Grows(newest[r], newest'[r])
      BY <1>2, StampOf DEF WinInv
    <2> QED
      BY <1>2, <2>1, <2>2, <2>3, <2>4, FactsKept DEF WinInv, WinFacts
  <1>10. ASSUME NEW r \in Rooms
         PROVE  News(Heard', pending', net', store', owed', r, newest'[r])
    <2> SUFFICES ASSUME Decided(newest[r])
                 PROVE  News(Heard', pending', net', store', owed', r, newest'[r])
      BY <1>2 DEF News
    <2> DEFINE H == HoldRoom(store, r, newest[r])
               H2 == HoldRoom(store', r, newest[r])
               C == BearRoom(r, newest[r])
               M == Mute(store, owed, r)
               M2 == Mute(store', owed', r)
    <2>1. H \subseteq H2 /\ H \in SUBSET Devices
      BY <1>5, <1>8 DEF HoldRoom, OnlyStore
    <2>2. (H \cap M) \ {d} \subseteq M2
      BY <1>5, <1>7 DEF HoldRoom, Mute, OnlyStore
    <2>3. m \in C => d \in H2
      BY <1>5, <1>8 DEF HoldRoom, BearRoom
    <2>4. ASSUME NEW q, Writes(d, st, FALSE, q), pending'[d] = {q}
          PROVE  Answers(pending, pending', H2, C, M2, d)
      <3>1. (\E p \in pending[d] : p.reply = TRUE) => q.reply = TRUE
        BY <2>4 DEF Writes
      <3>2. d \in H2 => q \in C \/ d \in M2
        BY <1>5, <2>4, WriteCarries DEF HoldRoom, Mute
      <3> QED
        BY <2>4, <3>1, <3>2 DEF Answers
    <2>5. owed' = owed /\ d \in H \cap M => d \in M2
      BY <1>5, <1>8 DEF HoldRoom, Mute
    <2>6. H # {} /\ \A e \in Heard : Reaches(Heard, pending, net, H, C, M, e)
      BY DEF WinInv, News
    <2> HIDE DEF H, H2, C, M, M2
    <2>7. \/ Answers(pending, pending', H2, C, M2, d)
          \/ /\ pending'[d] = pending[d] /\ m.reply # TRUE
             /\ d \in H \cap M => d \in M2
      BY <1>7, <2>4, <2>5
    <2>8. ASSUME NEW e \in Heard PROVE Reaches(Heard, pending', net', H2, C, M2, e)
      <3>1. e \in Devices
        BY <1>2
      <3> QED
        BY <1>7, <2>1, <2>2, <2>3, <2>6, <2>7, <3>1, ReachReceive DEF m
    <2> QED
      BY <1>2, <2>1, <2>6, <2>8 DEF News, H2, C, M2
  <1> QED
    BY <1>9, <1>10 DEF WinInv

LEMMA WinStep ==
  SameHosts /\ Inv /\ Inv' /\ WinInv /\ [Next]_vars => WinInv'
  <1> SUFFICES ASSUME SameHosts, Inv, Inv', WinInv, [Next]_vars PROVE WinInv'
    OBVIOUS
  <1>1. now \in Nat /\ now # 0
    BY DEF WinInv, WinFacts, Inv, CountsOK
  <1>2. CASE UNCHANGED vars
    BY <1>1, <1>2, WinQuiet DEF vars, Heard
  <1>3. CASE Tick
    BY <1>1, <1>3, WinQuiet DEF Tick, Heard
  <1>4. ASSUME NEW d \in Devices,
               \/ Connect(d) \/ Flush(d) \/ FlushLost(d) \/ Disconnect(d)
               \/ \E e \in Devices : Receive(d, e)
        PROVE  WinInv'
    BY <1>4, WinConnect, WinFlush, WinLost, WinDisconnect, WinReceive
  <1>5. ASSUME NEW d \in Devices, NEW r \in Rooms,
               \/ \E c \in Contents : Create(d, r, c)
               \/ Delete(d, r)
               \/ \E h \in Hosts : \/ Join(d, r, h) \/ Hide(d, r, h)
                                   \/ Unhide(d, r, h) \/ RoomList(d, r, h)
        PROVE  WinInv'
    BY <1>5, WinCreate, WinDelete, WinJoin, WinRoom
  <1> QED
    BY <1>2, <1>3, <1>4, <1>5 DEF Next

LEMMA WinInit == Init => WinInv
  <1> SUFFICES ASSUME Init PROVE WinInv
    OBVIOUS
  <1>1. ASSUME NEW r \in Rooms PROVE ~Decided(newest[r]) /\ StampFacts(newest[r])
    BY DEF Init, Decided, StampFacts
  <1>2. ASSUME NEW r \in Rooms, NEW d \in Devices
        PROVE  RoomFacts(d, store[d].rooms[r], newest[r])
    BY DEF Init, EmptyStore, Unheard, NoRemoval, RoomFacts, Within
  <1>3. ASSUME NEW d \in Devices, NEW e \in Devices PROVE Letters(net[d][e]) = {}
    BY DEF Init, Letters
  <1>4. now # 0 /\ \A d \in Devices : pending[d] = {}
    BY DEF Init
  <1> QED
    BY <1>1, <1>2, <1>3, <1>4 DEF WinInv, WinFacts, News

(* Where the devices know the same hosts: once all are connected, have     *)
(* nothing left to say and had nothing refused since they connected, a     *)
(* room whose latest stamp is a removal is filed nowhere, and one whose    *)
(* latest stamp is an adding is filed everywhere, unless somebody hides    *)
(* it. So it is for any devices and clocks, however many connections and   *)
(* processes were lost, and whatever snapshots were refused before,        *)
(* replaced while they waited, merged in different orders or answered      *)
(* late.                                                                   *)
THEOREM LaterOneWins == ASSUME SameHosts PROVE Spec => []LaterWins
  <1>1. Inv /\ WinInv => LaterWins
    <2> SUFFICES ASSUME Inv, WinInv, Quiet, NEW r \in Rooms
                 PROVE  LET filed == {d \in Devices : store[d].rooms[r].filed # {}}
                            hidden == {d \in Devices : store[d].rooms[r].filed
                                         \cap store[d].rooms[r].tombs # {}}
                        IN /\ newest[r].kind = "remove" => filed = {}
                           /\ newest[r].kind = "add" /\ hidden = {} => filed = Devices
      BY DEF LaterWins
    <2> DEFINE s == newest[r]
               H == HoldRoom(store, r, s)
               M == Mute(store, owed, r)
    <2>1. Heard = Devices /\ owed = {} /\ H \in SUBSET Devices
      BY DEF Quiet, HoldRoom
    <2>2. ASSUME Decided(s), H \cap M = {}, NEW e \in Devices
          PROVE  Holds(store[e].rooms[r], s)
      <3>1. Reaches(Heard, pending, net, H, BearRoom(r, s), M, e)
        BY <2>1, <2>2 DEF WinInv, News
      <3>2. e \in H
        BY <2>1, <2>2, <3>1, QuietReached
      <3> QED
        BY <3>2 DEF HoldRoom
    <2>3. s.kind = "add" \/ s.kind = "remove" => Decided(s)
      BY StampOf DEF WinInv
    <2>4. ASSUME s.kind = "remove", NEW e \in Devices PROVE store[e].rooms[r].filed = {}
      <3>1. ASSUME NEW a \in Devices, Holds(store[a].rooms[r], s)
            PROVE  store[a].rooms[r].filed = {}
        <4>1. store[a].rooms[r].removal.at = s.at /\ s.at # 0
          BY <2>3, <2>4, <3>1, StampKinds DEF Decided
        <4> QED
          BY <4>1, SameHosts, RoomOf DEF GoneOK, Removed
      <3>2. H \cap M = {}
        BY <2>1, <3>1 DEF HoldRoom, Mute, Hides
      <3> QED
        BY <2>2, <2>3, <2>4, <3>1, <3>2
    <2>5. ASSUME s.kind = "add", NEW e \in Devices,
                 \A a \in Devices : store[a].rooms[r].filed \cap store[a].rooms[r].tombs = {}
          PROVE  store[e].rooms[r].filed # {}
      <3>1. H \cap M = {}
        BY <2>1, <2>5 DEF Mute, Hides
      <3> QED
        BY <2>2, <2>3, <2>5, <3>1, StampKinds
    <2> QED
      BY <2>4, <2>5
  <1>2. Spec => []WinInv
    BY InvHolds, SameHosts, WinInit, WinStep, PTL DEF Spec
  <1> QED
    BY <1>1, <1>2, InvHolds, PTL

=============================================================================
