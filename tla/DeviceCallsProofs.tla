-------------------------- MODULE DeviceCallsProofs -------------------------
(***************************************************************************)
(* Theorems about DeviceCalls, for any devices and any number of calls,    *)
(* commands, path changes and restarts, and whatever messages are lost or  *)
(* overtake each other.                                                    *)
(***************************************************************************)
EXTENDS DeviceCalls, TLAPS

Phases == {"Idle", "Outgoing", "Incoming", "Answering", "Active"}

(* A call entry, with n ids drawn.                                         *)
Fields(n) ==
  [phase : Phases, id : 0 .. n, remote : Devices \cup {NoDevice},
   initiator : BOOLEAN, confirmed : BOOLEAN]

IsCall(c, n) ==
  /\ c \in Fields(n)
  /\ c.phase = "Idle" => c = Idle
  /\ c.phase # "Idle" => c.id \in 1 .. n
  /\ c.phase = "Outgoing" => c.remote = NoDevice /\ c.initiator /\ ~c.confirmed
  /\ c.phase \in {"Incoming", "Answering"} =>
       c.remote \in Devices /\ ~c.initiator /\ ~c.confirmed
  /\ c.phase = "Active" => c.remote \in Devices

(* c calls a in call i, as one of the two has it or as a selection still   *)
(* on its way says.                                                        *)
InPair(i, c, a) ==
  \/ /\ c \in Devices /\ call[c].phase = "Active" /\ call[c].initiator
     /\ call[c].id = i /\ call[c].remote = a
  \/ /\ a \in Devices /\ call[a].phase = "Active" /\ ~call[a].initiator
     /\ call[a].id = i /\ call[a].remote = c
  \/ \E m \in net : m.kind = "selection" /\ m.id = i /\ m.from = c /\ m.selected = a

(* A call is placed by one device.                                         *)
OneCaller ==
  \A d, e \in Devices :
    call[d].initiator /\ call[e].initiator /\ call[d].id = call[e].id => d = e

(* OneAnswer says it of the devices only; a selection that is late would   *)
(* break it.                                                               *)
PairsAgree ==
  \A i, c, a, c2, a2 : InPair(i, c, a) /\ InPair(i, c2, a2) => c = c2 /\ a = a2

(* Nobody has been selected for a call that has no answer yet.             *)
NotYetSelected ==
  \A d \in Devices : call[d].phase = "Outgoing" =>
    \A c, a : ~InPair(call[d].id, c, a)

(* No device has a call with itself, or sends itself a message.            *)
Apart ==
  /\ \A d \in Devices : call[d].remote # d
  /\ \A m \in net : m.from # m.to

Inv == TypeOK /\ OneCaller /\ PairsAgree /\ NotYetSelected /\ Apart /\ FallbackInCall

-----------------------------------------------------------------------------
(* Entries and messages                                                    *)

LEMMA IdleForm ==
  /\ Idle.phase = "Idle" /\ Idle.id = 0 /\ Idle.remote = NoDevice
  /\ ~Idle.initiator /\ ~Idle.confirmed
  BY DEF Idle, Entry

LEMMA CallForm ==
  ASSUME placed \in Nat, NEW c
  PROVE  c \in Call <=> IsCall(c, placed)
  <1>1. ASSUME c \in Call PROVE IsCall(c, placed)
    <2>1. CASE c = Idle
      BY <2>1 DEF IsCall, Fields, Phases, Idle, Entry
    <2>2. CASE \E i \in Ids : c = Outgoing(i)
      BY <2>2 DEF IsCall, Fields, Phases, Outgoing, Entry, Ids
    <2>3. CASE c \in [phase : {"Incoming", "Answering"}, id : Ids, remote : Devices,
                      initiator : {FALSE}, confirmed : {FALSE}]
      <3>1. /\ c.phase \in {"Incoming", "Answering"} /\ c.id \in Ids /\ c.remote \in Devices
            /\ c.initiator = FALSE /\ c.confirmed = FALSE
            /\ c = [phase |-> c.phase, id |-> c.id, remote |-> c.remote,
                    initiator |-> c.initiator, confirmed |-> c.confirmed]
        BY <2>3
      <3>2. Ids = 1 .. placed /\ c.id \in 0 .. placed
        BY <3>1 DEF Ids
      <3>3. c \in Fields(placed)
        BY <3>1, <3>2, Zenon DEF Fields, Phases
      <3> QED BY <3>1, <3>2, <3>3 DEF IsCall
    <2>4. CASE c \in [phase : {"Active"}, id : Ids, remote : Devices,
                      initiator : BOOLEAN, confirmed : BOOLEAN]
      <3>1. /\ c.phase = "Active" /\ c.id \in Ids /\ c.remote \in Devices
            /\ c.initiator \in BOOLEAN /\ c.confirmed \in BOOLEAN
            /\ c = [phase |-> c.phase, id |-> c.id, remote |-> c.remote,
                    initiator |-> c.initiator, confirmed |-> c.confirmed]
        BY <2>4
      <3>2. Ids = 1 .. placed /\ c.id \in 0 .. placed
        BY <3>1 DEF Ids
      <3>3. c \in Fields(placed)
        BY <3>1, <3>2, Zenon DEF Fields, Phases
      <3> QED BY <3>1, <3>2, <3>3 DEF IsCall
    <2> QED BY <1>1, <2>1, <2>2, <2>3, <2>4 DEF Call
  <1>2. ASSUME IsCall(c, placed) PROVE c \in Call
    <2>1. CASE c.phase = "Idle"
      BY <1>2, <2>1 DEF IsCall, Call
    <2>2. CASE c.phase = "Outgoing"
      <3>1. /\ c = [phase |-> c.phase, id |-> c.id, remote |-> c.remote,
                    initiator |-> c.initiator, confirmed |-> c.confirmed]
            /\ c.remote = NoDevice /\ c.initiator \in BOOLEAN /\ c.confirmed \in BOOLEAN
            /\ c.initiator /\ ~c.confirmed /\ c.id \in 1 .. placed
        BY <1>2, <2>2 DEF IsCall, Fields
      <3>2. c.initiator = TRUE /\ c.confirmed = FALSE
        BY <3>1
      <3>3. Outgoing(c.id) = [phase |-> "Outgoing", id |-> c.id, remote |-> NoDevice,
                              initiator |-> TRUE, confirmed |-> FALSE]
        BY DEF Outgoing, Entry
      <3>4. c = Outgoing(c.id)
        BY <2>2, <3>1, <3>2, <3>3, Zenon
      <3> QED BY <3>1, <3>4 DEF Call, Ids
    <2>3. CASE c.phase \in {"Incoming", "Answering"}
      BY <1>2, <2>3 DEF IsCall, Fields, Call, Ids
    <2>4. CASE c.phase = "Active"
      BY <1>2, <2>4 DEF IsCall, Fields, Call, Ids
    <2> QED BY <1>2, <2>1, <2>2, <2>3, <2>4 DEF IsCall, Fields, Phases
  <1> QED BY <1>1, <1>2

(* TypeOK with the entries spelled out.                                    *)
Typed ==
  /\ placed \in Nat /\ placed <= MaxCalls
  /\ DOMAIN call = Devices /\ call = [d \in Devices |-> call[d]]
  /\ \A d \in Devices : IsCall(call[d], placed)
  /\ check \in [Devices -> BOOLEAN]
  /\ fallback \in [Devices -> {"no", "creating", "invited"}]
  /\ direct \in [Devices -> SUBSET Devices]
  /\ net \subseteq Message
  /\ commands \in 0 .. MaxCommands /\ paths \in 0 .. MaxPaths /\ restarts \in 0 .. MaxRestarts

LEMMA TypedForm == TypeOK <=> Typed
  <1>1. ASSUME TypeOK PROVE Typed
    BY <1>1, CallForm DEF TypeOK, Typed
  <1>2. ASSUME Typed PROVE TypeOK
    BY <1>2, CallForm DEF TypeOK, Typed
  <1> QED BY <1>1, <1>2

LEMMA TypedFormNext == TypeOK' <=> Typed'
  BY TypedForm, PTL

LEMMA IdleIsCall == \A n \in Nat : IsCall(Idle, n)
  BY DEF IsCall, Fields, Phases, Idle, Entry

LEMMA OutgoingIsCall == \A n \in Nat : n >= 1 => IsCall(Outgoing(n), n)
  BY DEF IsCall, Fields, Phases, Outgoing, Entry

LEMMA IncomingIsCall ==
  ASSUME NEW n \in Nat, NEW i \in 1 .. n, NEW e \in Devices
  PROVE  IsCall(Incoming(i, e), n)
  BY DEF IsCall, Fields, Phases, Incoming, Entry

LEMMA IsCallMonotone ==
  ASSUME NEW n \in Nat, NEW k \in Nat, n <= k, NEW c, IsCall(c, n)
  PROVE  IsCall(c, k)
  <1>1. c \in Fields(k)
    <2>1. 0 .. n \subseteq 0 .. k
      OBVIOUS
    <2> QED BY <2>1 DEF IsCall, Fields
  <1> QED BY <1>1 DEF IsCall

LEMMA MessagesMonotone ==
  ASSUME placed \in Nat, placed' \in Nat, placed <= placed'
  PROVE  Message \subseteq Message'
  BY DEF Message, Ids

(* What a device that has a call sends.                                    *)
LEMMA ToForm ==
  ASSUME NEW n \in Nat, NEW c, IsCall(c, n), c.phase # "Idle", NEW d \in Devices, c.remote # d,
         NEW kind \in {"request", "invite", "accept", "ack", "end"}
  PROVE  /\ To(c, d, kind) \subseteq
              [kind : {kind}, id : 1 .. n, from : {d}, to : Devices, selected : {NoDevice}]
         /\ \A m \in To(c, d, kind) : m.to # d
  <1>1. \A e \in Remotes(d) : e \in Devices /\ e # d
    BY DEF Remotes
  <1>2. c.id \in 1 .. n /\ (c.remote # NoDevice => c.remote \in Devices)
    BY DEF IsCall, Fields
  <1> QED BY <1>1, <1>2 DEF To

LEMMA SelectionForm ==
  ASSUME NEW n \in Nat, NEW c, IsCall(c, n), c.phase = "Active", NEW d \in Devices
  PROVE  \A m \in Selection(c, d) :
           /\ m \in [kind : {"selection"}, id : {c.id}, from : {d}, to : Devices,
                     selected : {c.remote}]
           /\ m.to # d
  <1>1. \A e \in Remotes(d) : e \in Devices /\ e # d
    BY DEF Remotes
  <1> QED BY <1>1 DEF Selection

LEMMA SelectionTyped ==
  ASSUME placed \in Nat, NEW c, IsCall(c, placed), c.phase = "Active", NEW d \in Devices
  PROVE  Selection(c, d) \subseteq Message
  <1>1. c.id \in 1 .. placed /\ c.remote \in Devices
    BY DEF IsCall
  <1> QED BY <1>1, SelectionForm DEF Message, Ids

-----------------------------------------------------------------------------
(* One device's entry changes                                              *)

LEMMA SetEntry ==
  ASSUME Typed, NEW d \in Devices, NEW c, call' = [call EXCEPT ![d] = c]
  PROVE  /\ call'[d] = c /\ \A x \in Devices : x # d => call'[x] = call[x]
         /\ DOMAIN call' = Devices /\ call' = [x \in Devices |-> call'[x]]
  BY DEF Typed

LEMMA EntriesTyped ==
  ASSUME Typed, NEW d \in Devices, NEW c, call' = [call EXCEPT ![d] = c],
         placed' \in Nat, placed <= placed', IsCall(c, placed')
  PROVE  /\ \A x \in Devices : IsCall(call'[x], placed')
         /\ DOMAIN call' = Devices /\ call' = [x \in Devices |-> call'[x]]
  BY SetEntry, IsCallMonotone DEF Typed

LEMMA SameIdsTyped ==
  ASSUME Typed, NEW d \in Devices, NEW c, call' = [call EXCEPT ![d] = c],
         placed' = placed, IsCall(c, placed)
  PROVE  /\ \A x \in Devices : IsCall(call'[x], placed')
         /\ DOMAIN call' = Devices /\ call' = [x \in Devices |-> call'[x]]
  <1>1. call'[d] = c /\ \A x \in Devices : x # d => call'[x] = call[x]
    BY SetEntry
  <1>2. \A x \in Devices : IsCall(call'[x], placed)
    BY <1>1 DEF Typed
  <1>3. \A x \in Devices : IsCall(call'[x], placed')
    BY <1>2
  <1> QED BY <1>3, SetEntry

LEMMA PairsInIds ==
  ASSUME Typed, NEW i, NEW c, NEW a, InPair(i, c, a)
  PROVE  i \in 1 .. placed
  <1>1. \A d \in Devices : call[d].phase = "Active" => call[d].id \in 1 .. placed
    BY DEF Typed, IsCall
  <1>2. \A m \in net : m.id \in 1 .. placed
    BY DEF Typed, Message, Ids
  <1> QED BY <1>1, <1>2 DEF InPair

(* A step in which d's entry becomes c and no pair is new.                 *)
OldPair(d, c) ==
  c.phase = "Active" =>
    IF c.initiator THEN InPair(c.id, d, c.remote) ELSE InPair(c.id, c.remote, d)

LEMMA NoNewPair ==
  ASSUME Typed, NEW d \in Devices, NEW c, call' = [call EXCEPT ![d] = c], OldPair(d, c),
         \A m \in net' : m.kind = "selection" => m \in net \/ InPair(m.id, m.from, m.selected)
  PROVE  \A i, x, y : InPair(i, x, y)' => InPair(i, x, y)
  <1> SUFFICES ASSUME NEW i, NEW x, NEW y, InPair(i, x, y)'
               PROVE  InPair(i, x, y)
    OBVIOUS
  <1>0. call'[d] = c /\ \A e \in Devices : e # d => call'[e] = call[e]
    BY SetEntry
  <1>1. CASE /\ x \in Devices /\ call'[x].phase = "Active" /\ call'[x].initiator
             /\ call'[x].id = i /\ call'[x].remote = y
    BY <1>0, <1>1 DEF InPair, OldPair
  <1>2. CASE /\ y \in Devices /\ call'[y].phase = "Active" /\ ~call'[y].initiator
             /\ call'[y].id = i /\ call'[y].remote = x
    BY <1>0, <1>2 DEF InPair, OldPair
  <1>3. CASE \E m \in net' : m.kind = "selection" /\ m.id = i /\ m.from = x /\ m.selected = y
    <2>1. PICK m \in net' : m.kind = "selection" /\ m.id = i /\ m.from = x /\ m.selected = y
      BY <1>3
    <2>2. CASE m \in net
      BY <2>1, <2>2 DEF InPair
    <2>3. CASE InPair(m.id, m.from, m.selected)
      BY <2>1, <2>3
    <2> QED BY <2>1, <2>2, <2>3
  <1> QED BY <1>1, <1>2, <1>3 DEF InPair

(* It keeps what ties the calls together, if it places no call with an id  *)
(* that is in use.                                                         *)
LEMMA QuietStep ==
  ASSUME Inv, NEW d \in Devices, NEW c, call' = [call EXCEPT ![d] = c], OldPair(d, c),
         \A m \in net' : m.kind = "selection" => m \in net \/ InPair(m.id, m.from, m.selected),
         c.initiator => \/ call[d].initiator /\ call[d].id = c.id
                        \/ c.id \in Nat /\ c.id > placed,
         c.phase = "Outgoing" => \/ call[d].phase = "Outgoing" /\ call[d].id = c.id
                                 \/ c.id \in Nat /\ c.id > placed
  PROVE  OneCaller' /\ PairsAgree' /\ NotYetSelected'
  <1>0. Typed
    BY TypedForm DEF Inv
  <1>1. call'[d] = c /\ \A e \in Devices : e # d => call'[e] = call[e]
    BY <1>0, SetEntry
  <1>2. \A i, x, y : InPair(i, x, y)' => InPair(i, x, y)
    BY <1>0, NoNewPair
  <1>3. \A e \in Devices : call[e].id \in 0 .. placed
    BY <1>0 DEF Typed, IsCall, Fields
  <1>4. placed \in Nat
    BY <1>0 DEF Typed
  <1>5. OneCaller'
    <2> SUFFICES ASSUME NEW e \in Devices, NEW g \in Devices,
                        call'[e].initiator, call'[g].initiator, call'[e].id = call'[g].id,
                        e # g
                 PROVE  FALSE
      BY DEF OneCaller
    <2>1. CASE e = d
      BY <1>1, <1>3, <1>4, <2>1 DEF Inv, OneCaller
    <2>2. CASE g = d
      BY <1>1, <1>3, <1>4, <2>2 DEF Inv, OneCaller
    <2>3. CASE e # d /\ g # d
      BY <1>1, <2>3 DEF Inv, OneCaller
    <2> QED BY <2>1, <2>2, <2>3
  <1>6. PairsAgree'
    BY <1>2 DEF Inv, PairsAgree
  <1>7. NotYetSelected'
    <2> SUFFICES ASSUME NEW e \in Devices, call'[e].phase = "Outgoing",
                        NEW x, NEW y, NEW i, i = call'[e].id, InPair(i, x, y)'
                 PROVE  FALSE
      BY DEF NotYetSelected
    <2>1. InPair(i, x, y)
      BY <1>2
    <2>2. i \in 1 .. placed
      BY <1>0, <2>1, PairsInIds
    <2>3. call[e].phase = "Outgoing" /\ call[e].id = i
      BY <1>1, <1>4, <2>2
    <2> QED BY <2>1, <2>3 DEF Inv, NotYetSelected
  <1> QED BY <1>5, <1>6, <1>7

LEMMA OwnPair ==
  ASSUME NEW d \in Devices
  PROVE  OldPair(d, call[d])
  BY DEF OldPair, InPair

(* The step leaves the calls as they are.                                  *)
LEMMA SameCalls ==
  ASSUME Inv, call' = call, placed' = placed,
         \A m \in net' : m.kind = "selection" => m \in net \/ InPair(m.id, m.from, m.selected)
  PROVE  OneCaller' /\ PairsAgree' /\ NotYetSelected'
  <1>1. CASE Devices = {}
    <2>1. \A i, x, y : InPair(i, x, y)' => InPair(i, x, y)
      BY <1>1 DEF InPair
    <2> QED BY <1>1, <2>1 DEF Inv, OneCaller, PairsAgree, NotYetSelected
  <1>2. CASE Devices # {}
    <2>1. PICK d \in Devices : TRUE
      BY <1>2
    <2>2. call' = [call EXCEPT ![d] = call[d]]
      BY <2>1, TypedForm DEF Inv, Typed
    <2>3. OldPair(d, call[d])
      BY <2>1, OwnPair
    <2> QED BY <2>1, <2>2, <2>3, QuietStep
  <1> QED BY <1>1, <1>2

LEMMA Together ==
  ASSUME Typed', OneCaller', PairsAgree', NotYetSelected', Apart', FallbackInCall'
  PROVE  Inv'
  BY TypedFormNext DEF Inv

-----------------------------------------------------------------------------
(* d's call is over: its user ends it, it expires, or d restarts           *)

LEMMA OverStep ==
  ASSUME Inv, NEW d \in Devices, call' = [call EXCEPT ![d] = Idle],
         check' = [check EXCEPT ![d] = FALSE], fallback' = [fallback EXCEPT ![d] = "no"],
         placed' = placed,
         \A m \in net' : m.kind = "selection" => m \in net,
         net' \subseteq Message, \A m \in net' : m.from # m.to,
         direct' \in [Devices -> SUBSET Devices],
         commands' \in 0 .. MaxCommands, paths' \in 0 .. MaxPaths,
         restarts' \in 0 .. MaxRestarts
  PROVE  Inv'
  <1>0. Typed
    BY TypedForm DEF Inv
  <1>1. call'[d] = Idle /\ \A e \in Devices : e # d => call'[e] = call[e]
    BY <1>0, SetEntry
  <1>2. Typed'
    <2>1. placed' \in Nat /\ IsCall(Idle, placed')
      BY <1>0, IdleIsCall DEF Typed
    <2>2. /\ \A x \in Devices : IsCall(call'[x], placed')
          /\ DOMAIN call' = Devices /\ call' = [x \in Devices |-> call'[x]]
      BY <1>0, <2>1, EntriesTyped DEF Typed
    <2>3. Message' = Message
      BY DEF Message, Ids
    <2>4. check' \in [Devices -> BOOLEAN] /\ fallback' \in [Devices -> {"no", "creating", "invited"}]
      BY <1>0 DEF Typed
    <2> QED BY <1>0, <2>1, <2>2, <2>3, <2>4 DEF Typed
  <1>3. OneCaller' /\ PairsAgree' /\ NotYetSelected'
    <2>1. OldPair(d, Idle) /\ ~Idle.initiator /\ Idle.phase # "Outgoing"
      BY IdleForm DEF OldPair
    <2> QED BY <2>1, QuietStep
  <1>4. Apart'
    BY <1>1, IdleForm, NoDeviceAssumption DEF Inv, Apart
  <1>5. FallbackInCall'
    BY <1>0, <1>1 DEF Inv, FallbackInCall, Typed
  <1> QED BY <1>2, <1>3, <1>4, <1>5, Together

LEMMA EndCallKeeps ==
  ASSUME Inv, NEW d \in Devices, EndCall(d)
  PROVE  Inv'
  <1>0. Typed
    BY TypedForm DEF Inv
  <1>1. /\ To(call[d], d, "end") \subseteq
             [kind : {"end"}, id : 1 .. placed, from : {d}, to : Devices, selected : {NoDevice}]
        /\ \A m \in To(call[d], d, "end") : m.to # d
    BY <1>0, ToForm DEF EndCall, Typed, Inv, Apart
  <1>2. To(call[d], d, "end") \subseteq Message
    BY <1>0, <1>1 DEF Message, Ids
  <1>3. \A m \in net' : m.kind = "selection" => m \in net
    BY <1>1 DEF EndCall
  <1>4. net' \subseteq Message /\ \A m \in net' : m.from # m.to
    BY <1>0, <1>1, <1>2 DEF EndCall, Typed, Inv, Apart
  <1>5. commands' \in 0 .. MaxCommands
    BY <1>0, BoundsAssumption DEF EndCall, Typed
  <1> QED BY <1>0, <1>3, <1>4, <1>5, OverStep DEF EndCall, Typed

LEMMA ExpireKeeps ==
  ASSUME Inv, NEW d \in Devices, Expire(d)
  PROVE  Inv'
  <1>0. Typed
    BY TypedForm DEF Inv
  <1> QED BY <1>0, OverStep DEF Expire, Typed, Inv, Apart

LEMMA RestartKeeps ==
  ASSUME Inv, NEW d \in Devices, Restart(d)
  PROVE  Inv'
  <1>0. Typed
    BY TypedForm DEF Inv
  <1>1. restarts' \in 0 .. MaxRestarts
    BY <1>0, BoundsAssumption DEF Restart, Typed
  <1>2. direct' \in [Devices -> SUBSET Devices]
    BY <1>0 DEF Restart, Typed
  <1> QED BY <1>0, <1>1, <1>2, OverStep DEF Restart, Typed, Inv, Apart

-----------------------------------------------------------------------------
(* The users                                                               *)

LEMMA RequestKeeps ==
  ASSUME Inv, NEW d \in Devices, NEW kind \in {"request", "invite"}, Request(d, kind)
  PROVE  /\ placed' \in Nat /\ placed' <= MaxCalls
         /\ DOMAIN call' = Devices /\ call' = [x \in Devices |-> call'[x]]
         /\ \A x \in Devices : IsCall(call'[x], placed')
         /\ net' \subseteq Message'
         /\ OneCaller' /\ PairsAgree' /\ NotYetSelected' /\ Apart'
         /\ \A x \in Devices : call[x].phase = "Active" => call'[x] = call[x]
  <1> DEFINE c == IF call[d].phase = "Idle" THEN Outgoing(placed + 1) ELSE call[d]
  <1>0. Typed
    BY TypedForm DEF Inv
  <1>1. call' = [call EXCEPT ![d] = c]
    BY DEF Request
  <1>2. call'[d] = c /\ \A e \in Devices : e # d => call'[e] = call[e]
    BY <1>0, <1>1, SetEntry
  <1>3. /\ placed' \in Nat /\ placed' <= MaxCalls /\ placed <= placed'
        /\ IsCall(c, placed') /\ c.phase # "Idle"
    <2>1. CASE call[d].phase = "Idle"
      <3>1. placed' = placed + 1 /\ placed < MaxCalls /\ placed \in Nat /\ c = Outgoing(placed')
        BY <1>0, <2>1 DEF Request, Typed
      <3>2. IsCall(Outgoing(placed'), placed') /\ Outgoing(placed').phase = "Outgoing"
        BY <3>1, OutgoingIsCall DEF Outgoing, Entry
      <3> QED BY <3>1, <3>2, BoundsAssumption
    <2>2. CASE call[d].phase # "Idle"
      BY <1>0, <2>2 DEF Request, Typed
    <2> QED BY <2>1, <2>2
  <1>4. c.remote # d
    BY NoDeviceAssumption DEF Outgoing, Entry, Inv, Apart
  <1> DEFINE S == To(c, d, kind)
  <1>5. /\ S \subseteq [kind : {kind}, id : 1 .. placed', from : {d}, to : Devices,
                        selected : {NoDevice}]
        /\ \A m \in S : m.to # d
    <2> HIDE DEF c
    <2> QED BY <1>3, <1>4, ToForm
  <1>6. net' = net \cup S
    BY <1>2 DEF Request
  <1>7. net' \subseteq Message'
    <2>1. net \subseteq Message'
      BY <1>0, <1>3, MessagesMonotone DEF Typed
    <2>2. S \subseteq Message'
      <3> HIDE DEF S
      <3> QED BY <1>3, <1>5 DEF Message, Ids
    <2> QED BY <1>6, <2>1, <2>2
  <1>8. OneCaller' /\ PairsAgree' /\ NotYetSelected'
    <2>1. OldPair(d, c)
      <3>1. CASE call[d].phase = "Idle"
        BY <3>1 DEF OldPair, Outgoing, Entry
      <3>2. CASE call[d].phase # "Idle"
        BY <3>2, OwnPair
      <3> QED BY <3>1, <3>2
    <2>2. \A m \in net' : m.kind = "selection" => m \in net
      <3> HIDE DEF S
      <3> QED BY <1>5, <1>6
    <2>3. c = call[d] \/ (c.id \in Nat /\ c.id > placed)
      <3>1. placed + 1 \in Nat /\ placed + 1 > placed /\ Outgoing(placed + 1).id = placed + 1
        BY <1>0 DEF Outgoing, Entry, Typed
      <3> QED BY <3>1
    <2> HIDE DEF c
    <2> QED BY <1>1, <2>1, <2>2, <2>3, QuietStep
  <1>9. Apart'
    <2>1. \A m \in net' : m.from # m.to
      <3> HIDE DEF S
      <3> QED BY <1>5, <1>6 DEF Inv, Apart
    <2>2. \A x \in Devices : call'[x].remote # x
      <3> HIDE DEF c
      <3> QED BY <1>2, <1>4 DEF Inv, Apart
    <2> QED BY <2>1, <2>2 DEF Apart
  <1>10. \A x \in Devices : call[x].phase = "Active" => call'[x] = call[x]
    BY <1>2
  <1>11. /\ \A x \in Devices : IsCall(call'[x], placed')
         /\ DOMAIN call' = Devices /\ call' = [x \in Devices |-> call'[x]]
    <2> HIDE DEF c
    <2> QED BY <1>0, <1>1, <1>3, EntriesTyped
  <1> QED BY <1>3, <1>7, <1>8, <1>9, <1>10, <1>11

LEMMA StartCallKeeps ==
  ASSUME Inv, NEW d \in Devices, StartCall(d)
  PROVE  Inv'
  <1>0. Typed
    BY TypedForm DEF Inv
  <1>1. Request(d, "request") /\ check' = check /\ fallback' = fallback
    BY DEF StartCall
  <1>2. /\ placed' \in Nat /\ placed' <= MaxCalls
        /\ DOMAIN call' = Devices /\ call' = [x \in Devices |-> call'[x]]
        /\ \A x \in Devices : IsCall(call'[x], placed')
        /\ net' \subseteq Message'
        /\ OneCaller' /\ PairsAgree' /\ NotYetSelected' /\ Apart'
        /\ \A x \in Devices : call[x].phase = "Active" => call'[x] = call[x]
    BY <1>1, RequestKeeps
  <1>3. commands' \in 0 .. MaxCommands
    BY <1>0, BoundsAssumption DEF StartCall, Typed
  <1>4. Typed'
    BY <1>0, <1>2, <1>3 DEF StartCall, Typed
  <1>5. FallbackInCall'
    BY <1>1, <1>2 DEF Inv, FallbackInCall
  <1> QED BY <1>2, <1>4, <1>5, Together

LEMMA RoomCreatedKeeps ==
  ASSUME Inv, NEW d \in Devices, RoomCreated(d)
  PROVE  Inv'
  <1>0. Typed
    BY TypedForm DEF Inv
  <1>1. Request(d, "invite") /\ check' = check
    BY DEF RoomCreated
  <1>2. /\ placed' \in Nat /\ placed' <= MaxCalls
        /\ DOMAIN call' = Devices /\ call' = [x \in Devices |-> call'[x]]
        /\ \A x \in Devices : IsCall(call'[x], placed')
        /\ net' \subseteq Message'
        /\ OneCaller' /\ PairsAgree' /\ NotYetSelected' /\ Apart'
        /\ \A x \in Devices : call[x].phase = "Active" => call'[x] = call[x]
    BY <1>1, RequestKeeps
  <1>3. fallback' \in [Devices -> {"no", "creating", "invited"}]
    BY <1>0 DEF RoomCreated, Typed
  <1>4. Typed'
    BY <1>0, <1>2, <1>3 DEF RoomCreated, Typed
  <1>5. FallbackInCall'
    BY <1>0, <1>1, <1>2 DEF RoomCreated, Inv, FallbackInCall, Typed
  <1> QED BY <1>2, <1>4, <1>5, Together

LEMMA AcceptCallKeeps ==
  ASSUME Inv, NEW d \in Devices, AcceptCall(d)
  PROVE  Inv'
  <1> DEFINE c == [call[d] EXCEPT !.phase = "Answering"]
             S == To(call[d], d, "accept")
  <1>0. Typed
    BY TypedForm DEF Inv
  <1>1. IsCall(call[d], placed) /\ call[d].phase \in {"Incoming", "Answering"} /\ placed \in Nat
    BY <1>0 DEF AcceptCall, Typed
  <1>2. /\ IsCall(c, placed) /\ c.phase = "Answering" /\ ~c.initiator
        /\ c.remote = call[d].remote
    BY <1>1 DEF IsCall, Fields, Phases
  <1>3. call' = [call EXCEPT ![d] = c]
    BY DEF AcceptCall
  <1>4. call'[d] = c /\ \A e \in Devices : e # d => call'[e] = call[e]
    BY <1>0, <1>3, SetEntry
  <1>5. /\ S \subseteq [kind : {"accept"}, id : 1 .. placed, from : {d}, to : Devices,
                        selected : {NoDevice}]
        /\ \A m \in S : m.to # d
    BY <1>1, ToForm DEF Inv, Apart
  <1>6. net' = net \cup S /\ placed' = placed
    BY DEF AcceptCall
  <1> HIDE DEF c, S
  <1>7. Typed'
    <2>1. /\ \A x \in Devices : IsCall(call'[x], placed')
          /\ DOMAIN call' = Devices /\ call' = [x \in Devices |-> call'[x]]
      BY <1>0, <1>2, <1>3, <1>6, SameIdsTyped
    <2>2. net' \subseteq Message'
      <3>1. Message' = Message /\ net \subseteq Message
        BY <1>0, <1>6 DEF Typed, Message, Ids
      <3>2. S \subseteq Message
        BY <1>5 DEF Message, Ids
      <3> QED BY <1>6, <3>1, <3>2
    <2>3. commands' \in 0 .. MaxCommands
      BY <1>0, BoundsAssumption DEF AcceptCall, Typed
    <2> QED BY <1>0, <1>6, <2>1, <2>2, <2>3 DEF Typed, AcceptCall
  <1>8. OneCaller' /\ PairsAgree' /\ NotYetSelected'
    <2>1. OldPair(d, c)
      BY <1>2 DEF OldPair
    <2>2. \A m \in net' : m.kind = "selection" => m \in net
      BY <1>5, <1>6
    <2> QED BY <1>2, <1>3, <2>1, <2>2, QuietStep
  <1>9. Apart'
    BY <1>2, <1>4, <1>5, <1>6 DEF Inv, Apart
  <1>10. FallbackInCall'
    BY <1>1, <1>4 DEF Inv, FallbackInCall, AcceptCall
  <1> QED BY <1>7, <1>8, <1>9, <1>10, Together

-----------------------------------------------------------------------------
(* Timers, paths and the room, which leave the calls as they are           *)

LEMMA SameCallsKeep ==
  ASSUME Inv, call' = call, placed' = placed, net' = net,
         check' \in [Devices -> BOOLEAN],
         fallback' \in [Devices -> {"no", "creating", "invited"}],
         direct' \in [Devices -> SUBSET Devices],
         commands' \in 0 .. MaxCommands, paths' \in 0 .. MaxPaths,
         restarts' \in 0 .. MaxRestarts,
         \A d \in Devices : check'[d] \/ fallback'[d] # "no" => call[d].phase = "Active"
  PROVE  Inv'
  <1>0. Typed
    BY TypedForm DEF Inv
  <1>1. Message' = Message
    BY DEF Message, Ids
  <1>2. Typed'
    BY <1>0, <1>1 DEF Typed
  <1>3. OneCaller' /\ PairsAgree' /\ NotYetSelected'
    BY SameCalls
  <1> QED BY <1>2, <1>3, Together DEF Inv, Apart, FallbackInCall

LEMMA RetrySelectionKeeps ==
  ASSUME Inv, NEW d \in Devices, RetrySelection(d)
  PROVE  Inv'
  <1> DEFINE S == Selection(call[d], d)
  <1>0. Typed
    BY TypedForm DEF Inv
  <1>1. /\ IsCall(call[d], placed) /\ placed \in Nat /\ call[d].phase = "Active"
        /\ call[d].initiator
    BY <1>0 DEF RetrySelection, Typed
  <1>2. /\ S \subseteq Message
        /\ \A m \in S : /\ m.id = call[d].id /\ m.from = d /\ m.selected = call[d].remote
                        /\ m.to # d
    BY <1>1, SelectionForm, SelectionTyped
  <1>3. InPair(call[d].id, d, call[d].remote)
    BY <1>1 DEF InPair
  <1>4. net' = net \cup S /\ placed' = placed /\ call' = call
    BY DEF RetrySelection
  <1> HIDE DEF S
  <1>5. OneCaller' /\ PairsAgree' /\ NotYetSelected'
    <2>1. \A m \in net' : m.kind = "selection" => m \in net \/ InPair(m.id, m.from, m.selected)
      BY <1>2, <1>3, <1>4
    <2> QED BY <1>4, <2>1, SameCalls
  <1>6. Typed'
    <2>1. Message' = Message
      BY <1>4 DEF Message, Ids
    <2> QED BY <1>0, <1>2, <1>4, <2>1 DEF Typed, RetrySelection
  <1>7. Apart' /\ FallbackInCall'
    BY <1>2, <1>4 DEF Inv, Apart, FallbackInCall, RetrySelection
  <1> QED BY <1>5, <1>6, <1>7, Together

LEMMA FallbackDueKeeps ==
  ASSUME Inv, NEW d \in Devices, FallbackDue(d)
  PROVE  Inv'
  <1>0. Typed
    BY TypedForm DEF Inv
  <1>1. check' \in [Devices -> BOOLEAN] /\ fallback' \in [Devices -> {"no", "creating", "invited"}]
    BY <1>0 DEF FallbackDue, Typed
  <1>2. \A x \in Devices : check'[x] \/ fallback'[x] # "no" => call[x].phase = "Active"
    BY <1>0 DEF FallbackDue, Typed, Inv, FallbackInCall
  <1> QED BY <1>0, <1>1, <1>2, SameCallsKeep DEF FallbackDue, Typed

LEMMA ConnectDirectKeeps ==
  ASSUME Inv, NEW d \in Devices, ConnectDirect(d)
  PROVE  Inv'
  <1>0. Typed
    BY TypedForm DEF Inv
  <1>1. fallback' \in [Devices -> {"no", "creating", "invited"}]
    BY <1>0 DEF ConnectDirect, Typed
  <1>2. \A x \in Devices : check'[x] \/ fallback'[x] # "no" => call[x].phase = "Active"
    BY <1>0 DEF ConnectDirect, Typed, Inv, FallbackInCall
  <1> QED BY <1>0, <1>1, <1>2, SameCallsKeep DEF ConnectDirect, Typed

LEMMA QuicConnectedKeeps ==
  ASSUME Inv, NEW d \in Devices, NEW e \in Remotes(d), QuicConnected(d, e)
  PROVE  Inv'
  <1>0. Typed /\ e \in Devices
    BY TypedForm DEF Inv, Remotes
  <1> DEFINE usable == call[d].phase = "Active" /\ call[d].remote \in direct[d] \cup {e}
  <1>1. /\ direct' = [direct EXCEPT ![d] = direct[d] \cup {e}]
        /\ check' = [check EXCEPT ![d] = check[d] /\ ~usable]
        /\ fallback' = [fallback EXCEPT ![d] = IF usable THEN "no" ELSE fallback[d]]
        /\ paths' = paths + 1 /\ paths < MaxPaths
        /\ UNCHANGED <<call, net, placed, commands, restarts>>
    BY DEF QuicConnected
  <1> HIDE DEF usable
  <1>2. /\ direct' \in [Devices -> SUBSET Devices]
        /\ fallback' \in [Devices -> {"no", "creating", "invited"}]
        /\ paths' \in 0 .. MaxPaths
    BY <1>0, <1>1, BoundsAssumption DEF Typed
  <1>3. check' \in [Devices -> BOOLEAN]
    BY <1>0, <1>1 DEF Typed
  <1>4. \A x \in Devices : check'[x] \/ fallback'[x] # "no" => call[x].phase = "Active"
    BY <1>0, <1>1 DEF Typed, Inv, FallbackInCall
  <1> QED BY <1>0, <1>1, <1>2, <1>3, <1>4, SameCallsKeep DEF Typed

LEMMA QuicDisconnectedKeeps ==
  ASSUME Inv, NEW d \in Devices, NEW e, QuicDisconnected(d, e)
  PROVE  Inv'
  <1>0. Typed
    BY TypedForm DEF Inv
  <1>1. direct' \in [Devices -> SUBSET Devices] /\ paths' \in 0 .. MaxPaths
    BY <1>0, BoundsAssumption DEF QuicDisconnected, Typed
  <1>2. check' \in [Devices -> BOOLEAN]
    BY <1>0 DEF QuicDisconnected, Typed, AcceptsMedia
  <1>3. \A x \in Devices : check'[x] \/ fallback'[x] # "no" => call[x].phase = "Active"
    BY <1>0 DEF QuicDisconnected, Typed, Inv, FallbackInCall, AcceptsMedia
  <1> QED BY <1>0, <1>1, <1>2, <1>3, SameCallsKeep DEF QuicDisconnected, Typed

-----------------------------------------------------------------------------
(* Messages                                                                *)

LEMMA ReceiveRequestKeeps ==
  ASSUME Inv, NEW m \in net, ReceiveRequest(m)
  PROVE  Inv'
  <1> DEFINE d == m.to
             c == IF call[d].phase = "Idle" THEN Incoming(m.id, m.from) ELSE call[d]
  <1>0. Typed
    BY TypedForm DEF Inv
  <1>1. d \in Devices /\ m.id \in 1 .. placed /\ m.from \in Devices /\ m.from # d /\ placed \in Nat
    BY <1>0 DEF Typed, Message, Ids, Inv, Apart
  <1>2. /\ call' = [call EXCEPT ![d] = c] /\ net' = net \ {m}
        /\ UNCHANGED <<check, fallback, direct, placed, commands, paths, restarts>>
    BY DEF ReceiveRequest
  <1>3. IsCall(c, placed) /\ c.remote # d
    <2>1. IsCall(Incoming(m.id, m.from), placed) /\ Incoming(m.id, m.from).remote = m.from
      BY <1>1, IncomingIsCall DEF Incoming, Entry
    <2>2. IsCall(call[d], placed) /\ call[d].remote # d
      BY <1>0, <1>1 DEF Typed, Inv, Apart
    <2> QED BY <1>1, <2>1, <2>2
  <1>4. c = call[d] \/ (c.phase = "Incoming" /\ ~c.initiator /\ call[d].phase = "Idle")
    BY DEF Incoming, Entry
  <1>5. OldPair(d, c)
    <2>1. CASE c = call[d]
      BY <1>1, <2>1, OwnPair
    <2>2. CASE c.phase = "Incoming"
      BY <2>2 DEF OldPair
    <2> QED BY <1>4, <2>1, <2>2
  <1> HIDE DEF d, c
  <1>6. call'[d] = c /\ \A e \in Devices : e # d => call'[e] = call[e]
    BY <1>0, <1>1, <1>2, SetEntry
  <1>7. Typed'
    <2>1. /\ \A x \in Devices : IsCall(call'[x], placed')
          /\ DOMAIN call' = Devices /\ call' = [x \in Devices |-> call'[x]]
      BY <1>0, <1>1, <1>2, <1>3, SameIdsTyped
    <2>2. Message' = Message
      BY <1>2 DEF Message, Ids
    <2> QED BY <1>0, <1>2, <2>1, <2>2 DEF Typed
  <1>8. OneCaller' /\ PairsAgree' /\ NotYetSelected'
    BY <1>1, <1>2, <1>4, <1>5, QuietStep
  <1>9. Apart'
    BY <1>2, <1>3, <1>6 DEF Inv, Apart
  <1>10. FallbackInCall'
    BY <1>1, <1>2, <1>4, <1>6 DEF Inv, FallbackInCall
  <1> QED BY <1>7, <1>8, <1>9, <1>10, Together

LEMMA ReceiveAckKeeps ==
  ASSUME Inv, NEW m \in net, ReceiveAck(m)
  PROVE  Inv'
  <1> DEFINE d == m.to
             known == call[d].id = m.id /\ call[d].initiator /\ call[d].phase = "Active"
                        /\ call[d].remote = m.from
             c == [call[d] EXCEPT !.confirmed = call[d].confirmed \/ known]
  <1>0. Typed
    BY TypedForm DEF Inv
  <1>1. d \in Devices /\ placed \in Nat /\ IsCall(call[d], placed)
    BY <1>0 DEF Typed, Message
  <1>2. /\ call' = [call EXCEPT ![d] = c] /\ net' = net \ {m}
        /\ UNCHANGED <<check, fallback, direct, placed, commands, paths, restarts>>
    BY DEF ReceiveAck
  <1>3. CASE known
    <2>1. /\ c = [call[d] EXCEPT !.confirmed = TRUE] /\ call[d].phase = "Active"
      BY <1>3
    <2>2. /\ IsCall(c, placed) /\ c.phase = "Active" /\ c.id = call[d].id
          /\ c.remote = call[d].remote /\ c.initiator = call[d].initiator
      BY <1>1, <2>1 DEF IsCall, Fields, Phases
    <2>3. OldPair(d, c)
      BY <1>1, <2>1, <2>2, OwnPair DEF OldPair
    <2>4. c.remote # d
      BY <1>1, <2>2 DEF Inv, Apart
    <2> HIDE DEF d, c, known
    <2>5. call'[d] = c /\ \A e \in Devices : e # d => call'[e] = call[e]
      BY <1>0, <1>1, <1>2, SetEntry
    <2>6. Typed'
      <3>1. /\ \A x \in Devices : IsCall(call'[x], placed')
            /\ DOMAIN call' = Devices /\ call' = [x \in Devices |-> call'[x]]
        BY <1>0, <1>1, <1>2, <2>2, SameIdsTyped
      <3>2. Message' = Message
        BY <1>2 DEF Message, Ids
      <3> QED BY <1>0, <1>2, <3>1, <3>2 DEF Typed
    <2>7. OneCaller' /\ PairsAgree' /\ NotYetSelected'
      BY <1>1, <1>2, <2>2, <2>3, QuietStep
    <2>8. Apart' /\ FallbackInCall'
      BY <1>1, <1>2, <2>2, <2>4, <2>5 DEF Inv, Apart, FallbackInCall
    <2> QED BY <2>6, <2>7, <2>8, Together
  <1>4. CASE ~known
    <2>1. c = call[d]
      <3>1. call[d].confirmed \in BOOLEAN /\ call[d] = [call[d] EXCEPT !.confirmed = @]
        BY <1>1 DEF IsCall, Fields
      <3>2. (call[d].confirmed \/ known) = call[d].confirmed
        BY <1>4, <3>1
      <3> QED BY <3>1, <3>2
    <2> HIDE DEF d, c, known
    <2>2. call' = call
      BY <1>0, <1>1, <1>2, <2>1 DEF Typed
    <2>3. Typed'
      <3>1. Message' = Message
        BY <1>2 DEF Message, Ids
      <3> QED BY <1>0, <1>2, <2>2, <3>1 DEF Typed
    <2>4. OneCaller' /\ PairsAgree' /\ NotYetSelected'
      BY <1>2, <2>2, SameCalls
    <2>5. Apart' /\ FallbackInCall'
      BY <1>2, <2>2 DEF Inv, Apart, FallbackInCall
    <2> QED BY <2>3, <2>4, <2>5, Together
  <1> QED BY <1>3, <1>4

(* A message that changes nothing is gone.                                 *)
LEMMA IgnoredKeeps ==
  ASSUME Inv, NEW m \in net, net' = net \ {m},
         UNCHANGED <<call, check, fallback, direct, placed, commands, paths, restarts>>
  PROVE  Inv'
  <1>0. Typed
    BY TypedForm DEF Inv
  <1>1. Typed'
    <2>1. Message' = Message
      BY DEF Message, Ids
    <2> QED BY <1>0, <2>1 DEF Typed
  <1>2. OneCaller' /\ PairsAgree' /\ NotYetSelected'
    BY SameCalls
  <1>3. Apart' /\ FallbackInCall'
    BY DEF Inv, Apart, FallbackInCall
  <1> QED BY <1>1, <1>2, <1>3, Together

LEMMA ReceiveEndKeeps ==
  ASSUME Inv, NEW m \in net, ReceiveEnd(m)
  PROVE  Inv'
  <1> DEFINE d == m.to
             over == call[d].id = m.id /\ call[d].phase # "Outgoing" /\ call[d].remote = m.from
  <1>0. Typed
    BY TypedForm DEF Inv
  <1>1. d \in Devices
    BY <1>0 DEF Typed, Message
  <1>2. /\ call' = [call EXCEPT ![d] = IF over THEN Idle ELSE call[d]]
        /\ check' = [check EXCEPT ![d] = check[d] /\ ~over]
        /\ fallback' = [fallback EXCEPT ![d] = IF over THEN "no" ELSE fallback[d]]
        /\ net' = net \ {m}
        /\ UNCHANGED <<direct, placed, commands, paths, restarts>>
    BY DEF ReceiveEnd
  <1> HIDE DEF d, over
  <1>3. CASE over
    <2>1. /\ call' = [call EXCEPT ![d] = Idle] /\ check' = [check EXCEPT ![d] = FALSE]
          /\ fallback' = [fallback EXCEPT ![d] = "no"]
      BY <1>2, <1>3
    <2> QED BY <1>0, <1>1, <1>2, <2>1, OverStep DEF Typed, Inv, Apart
  <1>4. CASE ~over
    <2>1. call' = call /\ fallback' = fallback
      BY <1>0, <1>1, <1>2, <1>4 DEF Typed
    <2>2. check' = check
      <3>1. (check[d] /\ ~over) = check[d]
        BY <1>0, <1>1, <1>4 DEF Typed
      <3> QED BY <1>0, <1>1, <1>2, <3>1 DEF Typed
    <2> QED BY <1>2, <2>1, <2>2, IgnoredKeeps
  <1> QED BY <1>3, <1>4

(* An active call is of the pair that was selected: a selection that names *)
(* another device never reaches a device that would take it as its own.    *)
LEMMA WinnerNotDismissed ==
  ASSUME Inv, NEW m \in net, m.kind = "selection", NEW d \in Devices, d = m.to,
         call[d].phase = "Active", call[d].id = m.id, call[d].remote = m.from
  PROVE  m.selected = d
  <1>1. InPair(m.id, m.from, m.selected)
    BY DEF InPair
  <1>2. CASE call[d].initiator
    <2>1. InPair(m.id, d, call[d].remote)
      BY <1>2 DEF InPair
    <2>2. m.from = d
      BY <1>1, <2>1 DEF Inv, PairsAgree
    <2> QED BY <2>2 DEF Inv, Apart
  <1>3. CASE ~call[d].initiator
    <2>1. InPair(m.id, call[d].remote, d)
      BY <1>3 DEF InPair
    <2> QED BY <1>1, <2>1 DEF Inv, PairsAgree
  <1> QED BY <1>2, <1>3

LEMMA ReceiveSelectionKeeps ==
  ASSUME Inv, NEW m \in net, ReceiveSelection(m)
  PROVE  Inv'
  <1> DEFINE d == m.to
             heeded == call[d].id = m.id /\ call[d].remote = m.from /\ call[d].phase # "Outgoing"
  <1>0. Typed
    BY TypedForm DEF Inv
  <1>1. d \in Devices /\ placed \in Nat /\ IsCall(call[d], placed) /\ call[d].remote # d
    BY <1>0 DEF Typed, Message, Inv, Apart
  <1>2. /\ m.kind = "selection"
        /\ UNCHANGED <<check, fallback, direct, placed, commands, paths, restarts>>
    BY DEF ReceiveSelection, Arrives
  <1>3. CASE /\ heeded /\ m.selected = d /\ call[d].phase \in {"Answering", "Active"}
             /\ call' = [call EXCEPT ![d].phase = "Active", ![d].confirmed = TRUE]
             /\ net' = (net \ {m}) \cup To(call[d], d, "ack")
    <2> DEFINE c == [call[d] EXCEPT !.phase = "Active", !.confirmed = TRUE]
               S == To(call[d], d, "ack")
    <2>1. call' = [call EXCEPT ![d] = c]
      BY <1>0, <1>1, <1>3 DEF Typed
    <2>2. /\ c.phase = "Active" /\ c.id = call[d].id /\ c.remote = call[d].remote
          /\ c.initiator = call[d].initiator
      BY <1>1 DEF IsCall, Fields
    <2>3. IsCall(c, placed)
      <3>1. call[d].remote \in Devices /\ call[d].id \in 1 .. placed
        BY <1>1, <1>3 DEF IsCall
      <3>2. c \in Fields(placed)
        BY <1>1 DEF IsCall, Fields, Phases
      <3> QED BY <2>2, <3>1, <3>2 DEF IsCall
    <2>4. OldPair(d, c)
      <3>1. CASE call[d].phase = "Active"
        BY <1>1, <2>2, <3>1, OwnPair DEF OldPair
      <3>2. CASE call[d].phase = "Answering"
        <4>1. ~call[d].initiator
          BY <1>1, <3>2 DEF IsCall
        <4>2. InPair(m.id, m.from, m.selected)
          BY <1>2 DEF InPair
        <4> QED BY <1>3, <2>2, <4>1, <4>2 DEF OldPair
      <3> QED BY <1>3, <3>1, <3>2
    <2>5. /\ S \subseteq [kind : {"ack"}, id : 1 .. placed, from : {d}, to : Devices,
                          selected : {NoDevice}]
          /\ \A x \in S : x.to # d
      BY <1>1, <1>3, ToForm
    <2>6. net' = (net \ {m}) \cup S
      BY <1>3
    <2> HIDE DEF d, c, S, heeded
    <2>7. call'[d] = c /\ \A e \in Devices : e # d => call'[e] = call[e]
      BY <1>0, <1>1, <2>1, SetEntry
    <2>8. Typed'
      <3>1. /\ \A x \in Devices : IsCall(call'[x], placed')
            /\ DOMAIN call' = Devices /\ call' = [x \in Devices |-> call'[x]]
        BY <1>0, <1>1, <1>2, <2>1, <2>3, SameIdsTyped
      <3>2. Message' = Message
        BY <1>2 DEF Message, Ids
      <3>3. S \subseteq Message
        BY <1>1, <2>5 DEF Message, Ids
      <3> QED BY <1>0, <1>2, <2>6, <3>1, <3>2, <3>3 DEF Typed
    <2>9. OneCaller' /\ PairsAgree' /\ NotYetSelected'
      <3>1. \A x \in net' : x.kind = "selection" => x \in net
        BY <2>5, <2>6
      <3> QED BY <1>1, <2>1, <2>2, <2>4, <3>1, QuietStep
    <2>10. Apart'
      BY <1>1, <2>2, <2>5, <2>6, <2>7 DEF Inv, Apart
    <2>11. FallbackInCall'
      BY <1>1, <1>2, <2>2, <2>7 DEF Inv, FallbackInCall
    <2> QED BY <2>8, <2>9, <2>10, <2>11, Together
  <1>4. CASE heeded /\ m.selected # d /\ call' = [call EXCEPT ![d] = Idle] /\ net' = net \ {m}
    <2>1. call[d].phase # "Active"
      BY <1>1, <1>2, <1>4, WinnerNotDismissed
    <2>2. check[d] = FALSE /\ fallback[d] = "no"
      BY <1>0, <1>1, <2>1 DEF Inv, FallbackInCall, Typed
    <2> HIDE DEF d, heeded
    <2>3. check' = [check EXCEPT ![d] = FALSE] /\ fallback' = [fallback EXCEPT ![d] = "no"]
      BY <1>0, <1>1, <1>2, <2>2 DEF Typed
    <2> QED BY <1>0, <1>1, <1>2, <1>4, <2>3, OverStep DEF Typed, Inv, Apart
  <1>5. CASE net' = net \ {m} /\ UNCHANGED call
    BY <1>2, <1>5, IgnoredKeeps
  <1> QED BY <1>3, <1>4, <1>5 DEF ReceiveSelection

(* The first answer makes the one new pair of its call.                    *)
LEMMA FirstAnswer ==
  ASSUME Inv, NEW d \in Devices, NEW e \in Devices, NEW s,
         call[d].phase = "Outgoing", call' = [call EXCEPT ![d] = s],
         s.phase = "Active", s.initiator, s.id = call[d].id, s.remote = e,
         \A x \in net' : x.kind = "selection" =>
           x \in net \/ (x.id = call[d].id /\ x.from = d /\ x.selected = e)
  PROVE  OneCaller' /\ PairsAgree' /\ NotYetSelected'
  <1>0. Typed
    BY TypedForm DEF Inv
  <1>1. call'[d] = s /\ \A x \in Devices : x # d => call'[x] = call[x]
    BY <1>0, SetEntry
  <1>2. call[d].initiator
    BY <1>0 DEF Typed, IsCall
  <1>3. \A c, a : ~InPair(call[d].id, c, a)
    BY DEF Inv, NotYetSelected
  <1>4. \A j, x, y : InPair(j, x, y)' =>
          InPair(j, x, y) \/ (j = call[d].id /\ x = d /\ y = e)
    <2> SUFFICES ASSUME NEW j, NEW x, NEW y, InPair(j, x, y)'
                 PROVE  InPair(j, x, y) \/ (j = call[d].id /\ x = d /\ y = e)
      OBVIOUS
    <2>1. CASE /\ x \in Devices /\ call'[x].phase = "Active" /\ call'[x].initiator
               /\ call'[x].id = j /\ call'[x].remote = y
      BY <1>1, <2>1 DEF InPair
    <2>2. CASE /\ y \in Devices /\ call'[y].phase = "Active" /\ ~call'[y].initiator
               /\ call'[y].id = j /\ call'[y].remote = x
      BY <1>1, <2>2 DEF InPair
    <2>3. CASE \E m \in net' : m.kind = "selection" /\ m.id = j /\ m.from = x /\ m.selected = y
      BY <2>3 DEF InPair
    <2> QED BY <2>1, <2>2, <2>3 DEF InPair
  <1>5. OneCaller'
    <2>1. \A x \in Devices : call'[x].id = call[x].id /\ (call'[x].initiator => call[x].initiator)
      BY <1>1, <1>2
    <2> QED BY <2>1 DEF Inv, OneCaller
  <1>6. PairsAgree'
    BY <1>3, <1>4 DEF Inv, PairsAgree
  <1>7. NotYetSelected'
    <2> SUFFICES ASSUME NEW g \in Devices, call'[g].phase = "Outgoing",
                        NEW x, NEW y, NEW i, i = call'[g].id, InPair(i, x, y)'
                 PROVE  FALSE
      BY DEF NotYetSelected
    <2>1. g # d /\ call[g].phase = "Outgoing" /\ call[g].id = i
      BY <1>1
    <2>2. call[g].initiator
      BY <1>0, <2>1 DEF Typed, IsCall
    <2>3. i # call[d].id
      BY <1>2, <2>1, <2>2 DEF Inv, OneCaller
    <2>4. InPair(i, x, y)
      BY <1>4, <2>3
    <2> QED BY <2>1, <2>4 DEF Inv, NotYetSelected
  <1> QED BY <1>5, <1>6, <1>7

LEMMA ReceiveAcceptKeeps ==
  ASSUME Inv, NEW m \in net, ReceiveAccept(m)
  PROVE  Inv'
  <1> DEFINE d == m.to
             first == call[d].phase = "Outgoing"
             s == IF first THEN [call[d] EXCEPT !.phase = "Active", !.remote = m.from]
                  ELSE call[d]
             S == Selection(s, d)
             arm == first /\ ~HasMediaPath(s, d) /\ fallback[d] = "no"
  <1>0. Typed
    BY TypedForm DEF Inv
  <1>1. /\ d \in Devices /\ placed \in Nat /\ IsCall(call[d], placed) /\ call[d].remote # d
        /\ m.from \in Devices /\ m.from # d
    BY <1>0 DEF Typed, Message, Inv, Apart
  <1>2. UNCHANGED <<fallback, direct, placed, commands, paths, restarts>>
    BY DEF ReceiveAccept
  <1>3. CASE call[d].id = m.id /\ call[d].initiator
    <2>1. /\ call' = [call EXCEPT ![d] = s] /\ net' = (net \ {m}) \cup S
          /\ check' = [check EXCEPT ![d] = check[d] \/ arm]
      BY <1>3 DEF ReceiveAccept
    <2>2. call[d].phase \in {"Outgoing", "Active"}
      BY <1>1, <1>3, IdleForm DEF IsCall, Fields, Phases
    <2>3. /\ s.phase = "Active" /\ s.initiator /\ s.id = call[d].id
          /\ s.remote = (IF first THEN m.from ELSE call[d].remote)
      BY <1>1, <1>3, <2>2 DEF IsCall, Fields
    <2>4. IsCall(s, placed)
      <3>1. CASE first
        <4>1. s \in Fields(placed) /\ s.id \in 1 .. placed /\ s.remote \in Devices
          BY <1>1, <2>3, <3>1 DEF IsCall, Fields, Phases
        <4> QED BY <2>3, <4>1 DEF IsCall
      <3>2. CASE ~first
        BY <1>1, <3>2
      <3> QED BY <3>1, <3>2
    <2>5. /\ S \subseteq Message
          /\ \A x \in S : x.id = s.id /\ x.from = d /\ x.selected = s.remote /\ x.to # d
      <3> HIDE DEF d, s
      <3> QED BY <1>1, <2>3, <2>4, SelectionForm, SelectionTyped
    <2>6. s.remote # d
      BY <1>1, <2>3
    <2>7. OneCaller' /\ PairsAgree' /\ NotYetSelected'
      <3>1. CASE first
        <4>1. call[d].phase = "Outgoing" /\ s.remote = m.from
          BY <2>3, <3>1
        <4>2. \A x \in net' : x.kind = "selection" =>
                x \in net \/ (x.id = call[d].id /\ x.from = d /\ x.selected = m.from)
          <5> HIDE DEF d, s, S
          <5> QED BY <2>1, <2>3, <2>5, <4>1
        <4> HIDE DEF d, s, S
        <4> QED BY <1>1, <2>1, <2>3, <4>1, <4>2, FirstAnswer
      <3>2. CASE ~first
        <4>1. s = call[d] /\ call[d].phase = "Active"
          BY <2>2, <3>2
        <4>2. OldPair(d, s) /\ InPair(s.id, d, s.remote)
          BY <1>1, <1>3, <4>1, OwnPair DEF InPair
        <4>3. \A x \in net' : x.kind = "selection" => x \in net \/ InPair(x.id, x.from, x.selected)
          <5> HIDE DEF d, s, S
          <5> QED BY <2>1, <2>5, <4>2
        <4> HIDE DEF d, s, S
        <4> QED BY <1>1, <1>3, <2>1, <2>3, <4>2, <4>3, QuietStep
      <3> QED BY <3>1, <3>2
    <2> HIDE DEF d, s, S, first, arm
    <2>8. call'[d] = s /\ \A e \in Devices : e # d => call'[e] = call[e]
      BY <1>0, <1>1, <2>1, SetEntry
    <2>9. Typed'
      <3>1. /\ \A x \in Devices : IsCall(call'[x], placed')
            /\ DOMAIN call' = Devices /\ call' = [x \in Devices |-> call'[x]]
        BY <1>0, <1>1, <1>2, <2>1, <2>4, SameIdsTyped
      <3>2. Message' = Message
        BY <1>2 DEF Message, Ids
      <3>3. check' \in [Devices -> BOOLEAN]
        BY <1>0, <1>1, <2>1 DEF Typed
      <3> QED BY <1>0, <1>2, <2>1, <2>5, <3>1, <3>2, <3>3 DEF Typed
    <2>10. Apart'
      BY <1>1, <2>1, <2>5, <2>6, <2>8 DEF Inv, Apart
    <2>11. FallbackInCall'
      BY <1>0, <1>1, <1>2, <2>1, <2>3, <2>8 DEF Inv, FallbackInCall, Typed
    <2> QED BY <2>7, <2>9, <2>10, <2>11, Together
  <1>4. CASE ~(call[d].id = m.id /\ call[d].initiator)
    <2>1. net' = net \ {m} /\ UNCHANGED <<call, check>>
      BY <1>4 DEF ReceiveAccept
    <2> QED BY <1>2, <2>1, IgnoredKeeps
  <1> QED BY <1>3, <1>4

-----------------------------------------------------------------------------
LEMMA InitInv == Init => Inv
  <1> SUFFICES ASSUME Init PROVE Inv
    OBVIOUS
  <1>1. \A d \in Devices : call[d] = Idle /\ ~check[d] /\ fallback[d] = "no"
    BY DEF Init
  <1>2. Typed
    <2>1. \A d \in Devices : IsCall(call[d], placed)
      BY <1>1, IdleIsCall DEF Init
    <2> QED BY <2>1, BoundsAssumption DEF Init, Typed
  <1>3. \A i, c, a : ~InPair(i, c, a)
    BY <1>1, IdleForm DEF InPair, Init
  <1>4. OneCaller /\ PairsAgree /\ NotYetSelected
    BY <1>1, <1>3, IdleForm DEF OneCaller, PairsAgree, NotYetSelected
  <1>5. Apart /\ FallbackInCall
    BY <1>1, IdleForm, NoDeviceAssumption DEF Apart, FallbackInCall, Init
  <1> QED BY <1>2, <1>4, <1>5, TypedForm DEF Inv

LEMMA NextInv == Inv /\ [Next]_vars => Inv'
  <1> SUFFICES ASSUME Inv, [Next]_vars PROVE Inv'
    OBVIOUS
  <1>1. ASSUME NEW d \in Devices, Step(d) PROVE Inv'
    BY <1>1, StartCallKeeps, AcceptCallKeeps, EndCallKeeps, ExpireKeeps, RetrySelectionKeeps,
       FallbackDueKeeps, RoomCreatedKeeps, ConnectDirectKeeps, QuicConnectedKeeps,
       QuicDisconnectedKeeps, RestartKeeps DEF Step
  <1>2. ASSUME NEW m \in net, Receive(m) PROVE Inv'
    BY <1>2, ReceiveRequestKeeps, ReceiveAcceptKeeps, ReceiveSelectionKeeps, ReceiveAckKeeps,
       ReceiveEndKeeps DEF Receive
  <1>3. CASE UNCHANGED vars
    <2>1. Typed /\ UNCHANGED <<call, check, fallback, direct, net, placed, commands, paths, restarts>>
      BY <1>3, TypedForm DEF vars, Inv
    <2> QED BY <2>1, SameCallsKeep DEF Inv, Typed, FallbackInCall
  <1> QED BY <1>1, <1>2, <1>3 DEF Next

LEMMA Invariance == Spec => []Inv
  BY InitInv, NextInv, PTL DEF Spec

-----------------------------------------------------------------------------
(* The entries, timers and messages of the call managers stay well formed: *)
(* a call that rings or is active is with a device, one that was placed is *)
(* with none until it is answered (device_calls.rs).                       *)
THEOREM CallsWellFormed == Spec => []TypeOK
  <1>1. Inv => TypeOK
    BY DEF Inv
  <1> QED BY <1>1, Invariance, PTL

(* One device answers a call, and it and the caller mean each other,       *)
(* whatever answers compete and whatever is lost, late or restarted        *)
(* (receive_device_call).                                                  *)
THEOREM OneDeviceAnswers == Spec => []OneAnswer
  <1>1. Inv => OneAnswer
    <2> SUFFICES ASSUME Inv, NEW i \in Ids, NEW p \in Pairs(i), NEW q \in Pairs(i)
                 PROVE  p = q
      BY DEF OneAnswer
    <2>1. \A r \in Pairs(i) : \E c, a : r = <<c, a>> /\ InPair(i, c, a)
      BY DEF Pairs, InPair
    <2> QED BY <2>1 DEF Inv, PairsAgree
  <1> QED BY <1>1, Invariance, PTL

(* The fallback to a private room never outlives its call, though the      *)
(* losing device's dismissal does not touch it (direct_fallback,           *)
(* pending_call_fallback_checks).                                          *)
THEOREM FallbackEndsWithCall == Spec => []FallbackInCall
  <1>1. Inv => FallbackInCall
    BY DEF Inv
  <1> QED BY <1>1, Invariance, PTL
-----------------------------------------------------------------------------
(* What may take x out of a call it is active in: the consequent of        *)
(* AnswerKept.                                                             *)
EndedByItsOwn(x) ==
  \/ commands' # commands \/ restarts' # restarts
  \/ ~call[x].confirmed /\ net' = net
  \/ \E m \in net \ net' :
       m.kind = "end" /\ m.id = call[x].id /\ m.from = call[x].remote

LEMMA StepEndsItsOwn ==
  ASSUME Inv, NEW d \in Devices, Step(d), NEW x \in Devices,
         call[x].phase = "Active", call'[x].phase # "Active"
  PROVE  EndedByItsOwn(x)
  <1>0. Typed
    BY TypedForm DEF Inv
  <1>1. CASE StartCall(d) \/ AcceptCall(d) \/ EndCall(d)
    BY <1>0, <1>1 DEF StartCall, AcceptCall, EndCall, EndedByItsOwn, Typed
  <1>2. CASE Restart(d)
    BY <1>0, <1>2 DEF Restart, EndedByItsOwn, Typed
  <1>3. CASE Expire(d)
    <2>1. call' = [call EXCEPT ![d] = Idle] /\ MayExpire(call[d]) /\ net' = net
      BY <1>3 DEF Expire
    <2>2. x = d
      BY <1>0, <2>1, SetEntry
    <2> QED BY <2>1, <2>2 DEF MayExpire, EndedByItsOwn
  <1>4. CASE RoomCreated(d)
    <2>1. call' = [call EXCEPT ![d] = IF call[d].phase = "Idle" THEN Outgoing(placed + 1) ELSE call[d]]
      BY <1>0, <1>4 DEF RoomCreated, Request, Typed
    <2>2. call'[x] = call[x]
      BY <1>0, <2>1, SetEntry
    <2> QED BY <2>2
  <1>5. CASE call' = call
    BY <1>5
  <1> QED BY <1>1, <1>2, <1>3, <1>4, <1>5
          DEF Step, RetrySelection, FallbackDue, ConnectDirect, QuicConnected, QuicDisconnected

LEMMA ReceiveEndsItsOwn ==
  ASSUME Inv, NEW m \in net, Receive(m), NEW x \in Devices,
         call[x].phase = "Active", call'[x].phase # "Active"
  PROVE  EndedByItsOwn(x)
  <1> DEFINE d == m.to
  <1>0. Typed
    BY TypedForm DEF Inv
  <1>1. d \in Devices
    BY <1>0 DEF Typed, Message
  <1>2. CASE ReceiveRequest(m)
    <2>1. call' = [call EXCEPT ![d] = IF call[d].phase = "Idle" THEN Incoming(m.id, m.from) ELSE call[d]]
      BY <1>0, <1>1, <1>2 DEF ReceiveRequest, Typed
    <2>2. call'[x] = call[x]
      BY <1>0, <1>1, <2>1, SetEntry
    <2> QED BY <2>2
  <1>3. CASE ReceiveAccept(m)
    <2> DEFINE s == IF call[d].phase = "Outgoing"
                      THEN [call[d] EXCEPT !.phase = "Active", !.remote = m.from]
                      ELSE call[d]
    <2>1. call' = call \/ call' = [call EXCEPT ![d] = s]
      BY <1>3 DEF ReceiveAccept
    <2>2. call'[x] = call[x]
      BY <1>0, <1>1, <2>1, SetEntry
    <2> QED BY <2>2
  <1>4. CASE ReceiveSelection(m)
    <2>1. m.kind = "selection"
      BY <1>4 DEF ReceiveSelection, Arrives
    <2>2. CASE call' = [call EXCEPT ![d].phase = "Active", ![d].confirmed = TRUE]
      BY <1>0, <1>1, <2>2 DEF Typed, IsCall, Fields
    <2>3. CASE /\ call[d].id = m.id /\ call[d].remote = m.from /\ m.selected # d
               /\ call' = [call EXCEPT ![d] = Idle]
      <3>1. x = d
        BY <1>0, <1>1, <2>3, SetEntry
      <3> QED BY <1>1, <2>1, <2>3, <3>1, WinnerNotDismissed
    <2>4. CASE call' = call
      BY <2>4
    <2> QED BY <1>4, <2>2, <2>3, <2>4 DEF ReceiveSelection
  <1>5. CASE ReceiveAck(m)
    BY <1>0, <1>1, <1>5 DEF ReceiveAck, Typed, IsCall, Fields
  <1>6. CASE ReceiveEnd(m)
    <2> DEFINE over == call[d].id = m.id /\ call[d].phase # "Outgoing" /\ call[d].remote = m.from
    <2>1. /\ call' = [call EXCEPT ![d] = IF over THEN Idle ELSE call[d]]
          /\ m \in net \ net' /\ m.kind = "end"
      BY <1>0, <1>1, <1>6 DEF ReceiveEnd, Arrives, Typed
    <2>2. x = d /\ over
      BY <1>0, <1>1, <2>1, SetEntry
    <2> QED BY <2>1, <2>2 DEF EndedByItsOwn
  <1> QED BY <1>2, <1>3, <1>4, <1>5, <1>6 DEF Receive

(* An answered call is ended by its two devices only: by no decline, late  *)
(* message or dismissal of a third device or of another call               *)
(* (receive_device_call, expire_device_calls).                             *)
THEOREM AnswerAlwaysKept == Spec => AnswerKept
  <1>1. Inv /\ [Next]_vars =>
          [\A d \in Devices :
             call[d].phase = "Active" /\ call'[d].phase # "Active"
               => \/ commands' # commands \/ restarts' # restarts
                  \/ ~call[d].confirmed /\ net' = net
                  \/ \E m \in net \ net' :
                       m.kind = "end" /\ m.id = call[d].id /\ m.from = call[d].remote]_vars
    <2> SUFFICES ASSUME Inv, Next, NEW d \in Devices,
                        call[d].phase = "Active", call'[d].phase # "Active"
                 PROVE  EndedByItsOwn(d)
      BY DEF EndedByItsOwn
    <2> QED BY StepEndsItsOwn, ReceiveEndsItsOwn DEF Next
  <1> QED BY <1>1, Invariance, PTL DEF Spec, AnswerKept
=============================================================================
