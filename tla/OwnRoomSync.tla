----------------------------- MODULE OwnRoomSync ----------------------------
(***************************************************************************)
(* The devices of one identity trading snapshots of their rooms            *)
(* (queue_own_room_sync, flush_own_room_sync and handle_own_room_sync of   *)
(* the connection manager, sync_own_rooms and merge_own_rooms of the app). *)
(*                                                                         *)
(* A snapshot waits (pending) until the spacing is over and a supernode is *)
(* connected; one that is sent reaches every device that is connected      *)
(* then, or none: flush_own_room_sync takes it from pending before it is   *)
(* known whether it can go out.  Two snapshots of one device are seconds   *)
(* apart and arrive in the order sent.  Stores are saved with every        *)
(* change; what waits to be sent is lost with the process.                 *)
(***************************************************************************)
EXTENDS RoomStore, Sequences

CONSTANTS
  Devices,
  Knows,        \* Knows[d]: hosts in the peer store and the rosters of d
  Skew,         \* Skew[d]: how far the clock of d is ahead
  Acts,         \* what users and connections do, see AllActs
  MaxTime,      \* bound on the clock
  MaxChanges    \* bound on what users and connections do

AllActs == {"create", "join", "delete", "hide", "list", "leave", "refuse"}

ASSUME DevicesAssumption ==
  /\ Acts \subseteq AllActs
  /\ Knows \in [Devices -> SUBSET Hosts]
  /\ Skew \in [Devices -> Nat]
  /\ MaxTime \in Nat /\ MaxChanges \in Nat

VARIABLES
  store,        \* store[d]: the room store of d
  pending,      \* own_room_sync.pending: at most one, the newest
  online,       \* devices connected to a supernode
  net,          \* net[d][e]: snapshots on their way from d to e
  owed,         \* devices that changed rooms without a SyncOwnRooms since
  unheard,      \* devices that lost a snapshot since they connected
  newest,       \* history: the latest stamp on each room and its kind
  now,
  changes

vars == <<store, pending, online, net, owed, unheard, newest, now, changes>>

Clock(d) == now + Skew[d]

Init ==
  /\ store = [d \in Devices |-> EmptyStore]
  /\ pending = [d \in Devices |-> {}]
  /\ online = {}
  /\ net = [d \in Devices |-> [e \in Devices |-> <<>>]]
  /\ owed = {}
  /\ unheard = {}
  /\ newest = [r \in Rooms |-> [at |-> 0, kind |-> "none"]]
  /\ now = 1
  /\ changes = 0

Act(a) ==
  a \in Acts /\ changes < MaxChanges /\ changes' = changes + 1

(* The stamp s on a room has reached a device whose store says x of it.    *)
Holds(x, s) ==
  CASE s.kind = "add"    -> x.filed # {} /\ x.added = s.at
    [] s.kind = "remove" -> x.removal.at = s.at
    [] OTHER             -> FALSE

(* The user of d adds or removes r at time t.  Nothing is said, until the  *)
(* next later stamp, of an adding and a removal in the same second, nor    *)
(* after a device has acted against a stamp it holds and its clock has not *)
(* reached.                                                                *)
Stamp(d, r, t, kind) ==
  LET s == newest[r]
  IN newest' = [newest EXCEPT ![r] =
       CASE t > s.at -> [at |-> t, kind |-> kind]
         [] \/ t = s.at /\ kind # s.kind
            \/ t < s.at /\ Holds(store[d].rooms[r], s) -> [s EXCEPT !.kind = "open"]
         [] OTHER -> s]

SetStore(d, s) == store' = [store EXCEPT ![d] = s]
SetRoom(d, r, x) == SetStore(d, [store[d] EXCEPT !.rooms[r] = x])

\* Mutant: a waiting snapshot is kept beside the new one.
QueueBeside(d, snap, reply) ==
  pending' = [pending EXCEPT ![d] = @ \cup {[snap |-> snap, reply |-> reply]}]

(* queue_own_room_sync: a waiting snapshot is replaced, its wish for a     *)
(* reply kept.                                                             *)
QueueOwnRoomSync(d, snap, reply) ==
  pending' = [pending EXCEPT ![d] =
    {[snap |-> snap, reply |-> reply \/ \E p \in @ : p.reply]}]

(* sync_own_rooms of the store s.  The command channel to the manager has  *)
(* room for it.                                                            *)
SyncOwnRooms(d, s, reply) ==
  /\ QueueOwnRoomSync(d, OwnDeviceSnapshot(s), reply)
  /\ owed' = owed \ {d}

-----------------------------------------------------------------------------
(* RoomCreated: the room is stored, put in the Space and sent.             *)
Create(d, r, c) ==
  /\ Act("create")
  /\ SpaceHost \in Knows[d] /\ d \in online
  /\ store[d].rooms[r].filed \cap Cluster[SpaceHost] = {}
  /\ LET s == [store[d] EXCEPT
                  !.rooms[r] = Upsert(@, SpaceHost, Clock(d)),
                  !.space = AdoptRoomIntoSpace(@, r, c)]
     IN SetStore(d, s) /\ SyncOwnRooms(d, s, TRUE)
  /\ Stamp(d, r, Clock(d), "add")
  /\ UNCHANGED <<online, net, unheard, now>>

(* Joining a room or accepting an invite stores it; nothing is sent.       *)
Join(d, r, h) ==
  /\ Act("join")
  /\ h \in Knows[d]
  /\ SetRoom(d, r, Upsert(store[d].rooms[r], h, Clock(d)))
  /\ store' # store
  /\ owed' = owed \cup {d}
  /\ Stamp(d, r, Clock(d), "add")
  /\ UNCHANGED <<pending, online, net, unheard, now>>

(* delete_room, of a room the sidebar shows.                               *)
Delete(d, r) ==
  /\ Act("delete")
  /\ store[d].rooms[r].filed # {}
  /\ LET s == [store[d] EXCEPT !.rooms[r] = Drop(@, Knows[d], Clock(d))]
     IN SetStore(d, s) /\ SyncOwnRooms(d, s, FALSE)
  /\ Stamp(d, r, Clock(d), "remove")
  /\ UNCHANGED <<online, net, unheard, now>>

(* remove_room of the sidebar hides; unhide_room shows a stored room again.*)
Hide(d, r, h) ==
  /\ Act("hide")
  /\ h \in Shown(store[d].rooms[r])
  /\ SetRoom(d, r, [store[d].rooms[r] EXCEPT !.tombs = @ \cup {h}])
  /\ UNCHANGED <<pending, online, net, owed, unheard, newest, now>>

Unhide(d, r, h) ==
  /\ Act("hide")
  /\ h \in store[d].rooms[r].filed \cap store[d].rooms[r].tombs
  /\ SetRoom(d, r, [store[d].rooms[r] EXCEPT !.tombs = @ \ {h}])
  /\ owed' = owed \cup {d}
  /\ UNCHANGED <<pending, online, net, unheard, newest, now>>

(* A host lists the room.                                                  *)
RoomList(d, r, h) ==
  /\ "list" \in Acts /\ d \in online /\ h \in Knows[d]
  /\ SetRoom(d, r, SyncFromRoomList(store[d].rooms[r], h))
  /\ store' # store
  /\ owed' = owed \cup {d}
  /\ UNCHANGED <<pending, online, net, unheard, newest, now, changes>>

-----------------------------------------------------------------------------
(* SupernodeConnected: trade rooms, asking for theirs.                     *)
Connect(d) ==
  /\ d \notin online
  /\ online' = online \cup {d}
  /\ unheard' = unheard \ {d}
  /\ SyncOwnRooms(d, store[d], TRUE)
  /\ UNCHANGED <<store, net, newest, now, changes>>

(* flush_own_room_sync, the snapshot going out.                            *)
Flush(d) ==
  /\ d \in online
  /\ \E p \in pending[d] :
       net' = [net EXCEPT ![d] = [e \in Devices |->
                 IF e \in online \ {d} THEN Append(@[e], p) ELSE @[e]]]
  /\ pending' = [pending EXCEPT ![d] = {}]
  /\ UNCHANGED <<store, online, owed, unheard, newest, now, changes>>

(* flush_own_room_sync of a snapshot that is too large or cannot be        *)
(* encoded, signed or sealed, that the connection's full queue refuses     *)
(* (the answer of dispatch_outbound is ignored), or that the supernode's   *)
(* control limit drops: it is taken from pending and reaches nobody.       *)
FlushLost(d) ==
  /\ Act("refuse")
  /\ d \in online /\ pending[d] # {}
  /\ pending' = [pending EXCEPT ![d] = {}]
  /\ unheard' = unheard \cup {d}
  /\ UNCHANGED <<store, online, net, owed, newest, now>>

(* handle_own_room_sync *)
Arrives(d, e) ==
  net[e][d] # <<>> /\ net' = [net EXCEPT ![e][d] = Tail(@)]

(* merge_own_rooms: merge, and answer when asked or when the sender is     *)
(* behind.                                                                 *)
Receive(d, e) ==
  /\ Arrives(d, e)
  /\ LET m == Head(net[e][d])
         s == MergeOwnDeviceSnapshot(store[d], m.snap, Knows[d])
     IN /\ SetStore(d, s)
        /\ IF m.reply \/ SiblingBehind(store[d], m.snap, Knows[d])
           THEN SyncOwnRooms(d, s, FALSE)
           ELSE UNCHANGED <<pending, owed>>
  /\ UNCHANGED <<online, unheard, newest, now, changes>>

(* The connection is lost, and what was on its way to d with it; the       *)
(* process may go too.                                                     *)
Disconnect(d) ==
  /\ Act("leave")
  /\ d \in online
  /\ online' = online \ {d}
  /\ net' = [e \in Devices |-> [net[e] EXCEPT ![d] = <<>>]]
  /\ \/ UNCHANGED pending
     \/ pending' = [pending EXCEPT ![d] = {}]
  /\ UNCHANGED <<store, owed, unheard, newest, now>>

Tick ==
  /\ now < MaxTime
  /\ now' = now + 1
  /\ UNCHANGED <<store, pending, online, net, owed, unheard, newest, changes>>

-----------------------------------------------------------------------------
Next ==
  \/ Tick
  \/ \E d \in Devices :
       \/ Connect(d) \/ Flush(d) \/ FlushLost(d) \/ Disconnect(d)
       \/ \E e \in Devices : Receive(d, e)
       \/ \E r \in Rooms :
            \/ \E c \in Contents : Create(d, r, c)
            \/ Delete(d, r)
            \/ \E h \in Hosts : \/ Join(d, r, h) \/ Hide(d, r, h)
                                \/ Unhide(d, r, h) \/ RoomList(d, r, h)

Spec == Init /\ [][Next]_vars

(* The managers' loops go on sending what waits and handling what arrives. *)
Trade ==
  \E d \in Devices :
    Connect(d) \/ Flush(d) \/ \E e \in Devices : Receive(d, e)

Fairness == WF_vars(Trade)

FairSpec == Spec /\ Fairness

-----------------------------------------------------------------------------
Snapshot ==
  [rooms : [Rooms -> [shown : SUBSET Hosts, added : Nat, removal : Removal]],
   space : Space]
Letter == [snap : Snapshot, reply : BOOLEAN]

TypeOK ==
  /\ store \in [Devices -> Store]
  /\ pending \in [Devices -> SUBSET Letter]
  /\ \A d \in Devices : \A p, q \in pending[d] : p = q
  /\ online \subseteq Devices /\ owed \subseteq Devices /\ unheard \subseteq Devices
  /\ net \in [Devices -> [Devices -> Seq(Letter)]]
  /\ newest \in [Rooms -> [at : Nat, kind : {"none", "add", "remove", "open"}]]
  /\ now \in Nat /\ changes \in 0..MaxChanges

(* A room this device removed is not filed on it: nothing but the user     *)
(* adding it again, here or later on a sibling, brings it back; a          *)
(* supernode's room list does not.                                         *)
RemovedIsGone ==
  \A d \in Devices, r \in Rooms :
    Removed(store[d].rooms[r]) => store[d].rooms[r].filed = {}

Trading ==
  \E d \in Devices : pending[d] # {} \/ \E e \in Devices : net[d][e] # <<>>

(* Connected, with nothing refused since.                                  *)
Heard == online \ unheard

Quiet == Heard = Devices /\ owed = {} /\ ~Trading

(* Once every device is connected, has said what it has to say and has had *)
(* no snapshot refused since it connected, the later of adding and         *)
(* removing a room has won on all of them, whatever was missed, merged or  *)
(* answered in between, and however far apart their clocks are: the stamps *)
(* decide (see Stamp for the two cases in which they do not). A removed    *)
(* room is filed nowhere; one that was added is filed everywhere, unless   *)
(* somebody hides it, which keeps it out of the snapshots of that device.  *)
LaterWins ==
  Quiet =>
    \A r \in Rooms :
      LET filed == {d \in Devices : store[d].rooms[r].filed # {}}
          hidden == {d \in Devices : store[d].rooms[r].filed
                                       \cap store[d].rooms[r].tombs # {}}
      IN /\ newest[r].kind = "remove" => filed = {}
         /\ newest[r].kind = "add" /\ hidden = {} => filed = Devices

(* ... and all devices hold the same tree at the same epoch, so that no    *)
(* two of them announce different roots for it.                            *)
SameTree ==
  Quiet => \A d, e \in Devices : store[d].space = store[e].space

(* Two devices do not trade snapshots for ever.                            *)
TradingStops == <>[]~Trading

=============================================================================
