--------------------------- MODULE MCOwnRoomSync ----------------------------
(* Instances of OwnRoomSync for TLC.                                       *)
EXTENDS OwnRoomSync

CONSTANTS d1, d2, d3, r1, r2

OneCluster == [h \in Hosts |-> Hosts]
AllKnown == [d \in Devices |-> Hosts]
Alone == [h \in Hosts |-> {h}]
SecondAhead == [d \in Devices |-> IF d = d2 THEN 1 ELSE 0]
InStep == [d \in Devices |-> 0]

(* The devices in `there' are connected and have sent their empty stores.  *)
Arrived(there) ==
  /\ store = [d \in Devices |-> EmptyStore]
  /\ pending = [d \in Devices |-> {}]
  /\ online = there
  /\ net = [d \in Devices |-> [e \in Devices |-> <<>>]]
  /\ owed = {}
  /\ unheard = {}
  /\ newest = [r \in Rooms |-> [at |-> 0, kind |-> "none"]]
  /\ now = 1
  /\ changes = 0

(* One of the devices is connected before anything is done.                *)
FirstSpec == (\E d \in Devices : Arrived({d})) /\ [][Next]_vars

(* All devices are.                                                        *)
ConnectedSpec == Arrived(Devices) /\ [][Next]_vars /\ Fairness

=============================================================================
