----------------------------- MODULE DeviceCalls -----------------------------
(***************************************************************************)
(* Calls between two identities that have several devices each             *)
(* (connection_manager/manager/device_calls.rs): all devices of the callee *)
(* ring, the first answer that reaches the caller is selected, the         *)
(* selection is announced to all of them and acknowledged by the selected  *)
(* one.  Each device runs a manager of its own; they share nothing but     *)
(* messages, which may be delayed, reordered or lost.                      *)
(*                                                                         *)
(* A call also has a fallback: when no direct path to the selected device  *)
(* is up in time, a private room is created and the other side invited to  *)
(* it with a second CallRequest (room_session.rs, connection_fallback.rs). *)
(*                                                                         *)
(* Deadlines are left open: a call that may expire may do so at any time.  *)
(* A message that is lost is one that is never received.                   *)
(***************************************************************************)
EXTENDS Integers

CONSTANTS
  Devices,      \* devices of the two identities
  IdentityOf,   \* IdentityOf[d]: the identity of device d
  NoDevice,     \* None
  MaxCalls,     \* bound: calls placed
  MaxCommands,  \* bound: what the users do
  MaxPaths,     \* bound: direct paths that come up or go down
  MaxRestarts   \* bound: restarts of a client

ASSUME NoDeviceAssumption == NoDevice \notin Devices
ASSUME BoundsAssumption ==
  MaxCalls \in Nat /\ MaxCommands \in Nat /\ MaxPaths \in Nat /\ MaxRestarts \in Nat

VARIABLES
  call,      \* call[d]: device_calls of d for the other identity
  check,     \* check[d]: pending_call_fallback_checks
  fallback,  \* fallback[d]: direct_fallback, "no", "creating" its room, or "invited"
  direct,    \* direct[d]: remote devices with a direct path to d (endpoints)
  net,       \* messages sent and not received
  placed,    \* call ids drawn so far
  commands, paths, restarts  \* counters behind the bounds

vars == <<call, check, fallback, direct, net, placed, commands, paths, restarts>>

\* The devices of the other identity.
Remotes(d) == {e \in Devices : IdentityOf[e] # IdentityOf[d]}

\* No entry in device_calls, and the entries prepare_device_call and
\* receive_device_call insert.
Entry(phase, i, e, initiator) ==
  [phase |-> phase, id |-> i, remote |-> e, initiator |-> initiator, confirmed |-> FALSE]
Idle == Entry("Idle", 0, NoDevice, FALSE)
Outgoing(i) == Entry("Outgoing", i, NoDevice, TRUE)
Incoming(i, e) == Entry("Incoming", i, e, FALSE)

\* A message to the remote device of the call, or to all while there is none.
To(c, d, kind) ==
  {[kind |-> kind, id |-> c.id, from |-> d, to |-> e, selected |-> NoDevice] :
     e \in IF c.remote = NoDevice THEN Remotes(d) ELSE {c.remote}}

\* The announcement of the selected device, to every device.
Selection(c, d) ==
  {[kind |-> "selection", id |-> c.id, from |-> d, to |-> e, selected |-> c.remote] :
     e \in Remotes(d)}

\* direct_media_sender is some.
HasMediaPath(c, d) == c.phase = "Active" /\ c.remote \in direct[d]

\* device_call_accepts_media.
AcceptsMedia(d, e) == call[d].phase = "Active" /\ call[d].remote = e

-----------------------------------------------------------------------------
(* What the users do.  prepare_device_call runs before the message is sent,  *)
(* and counts whether or not a transport takes it.                           *)

\* CallRequest: an entry that is there keeps its id and its remote device.
Request(d, kind) ==
  /\ call[d].phase # "Idle" \/ placed < MaxCalls
  /\ placed' = IF call[d].phase = "Idle" THEN placed + 1 ELSE placed
  /\ call' = [call EXCEPT ![d] = IF @.phase = "Idle" THEN Outgoing(placed + 1) ELSE @]
  /\ net' = net \cup To(call'[d], d, kind)

StartCall(d) ==
  /\ commands < MaxCommands
  /\ Request(d, "request")
  /\ commands' = commands + 1
  /\ UNCHANGED <<check, fallback, direct, paths, restarts>>

\* CallAccept, and again if it is pressed again.
AcceptCall(d) ==
  /\ commands < MaxCommands
  /\ call[d].phase \in {"Incoming", "Answering"}
  /\ call' = [call EXCEPT ![d].phase = "Answering"]
  /\ net' = net \cup To(call[d], d, "accept")
  /\ commands' = commands + 1
  /\ UNCHANGED <<check, fallback, direct, placed, paths, restarts>>

\* CallEnd and CallReject: hanging up, giving up, declining.
EndCall(d) ==
  /\ commands < MaxCommands
  /\ call[d].phase # "Idle"
  /\ call' = [call EXCEPT ![d] = Idle]
  /\ check' = [check EXCEPT ![d] = FALSE]
  /\ fallback' = [fallback EXCEPT ![d] = "no"]
  /\ net' = net \cup To(call[d], d, "end")
  /\ commands' = commands + 1
  /\ UNCHANGED <<direct, placed, paths, restarts>>

-----------------------------------------------------------------------------
(* receive_device_call. *)

Arrives(m, kind) == m \in net /\ m.kind = kind

\* A request rings where no call is; the coordinates of a fallback room change
\* nothing here.
ReceiveRequest(m) ==
  LET d == m.to IN
  /\ m \in net /\ m.kind \in {"request", "invite"}
  /\ call' = [call EXCEPT ![d] = IF @.phase = "Idle" THEN Incoming(m.id, m.from) ELSE @]
  /\ net' = net \ {m}
  /\ UNCHANGED <<check, fallback, direct, placed, commands, paths, restarts>>

\* Mutant: the device that answered last is selected.
ReceiveAcceptLast(m) ==
  LET d == m.to
      c == call[d]
      s == [c EXCEPT !.phase = "Active", !.remote = m.from]
  IN
  /\ Arrives(m, "accept")
  /\ IF c.id = m.id /\ c.initiator
       THEN /\ call' = [call EXCEPT ![d] = s]
            /\ net' = (net \ {m}) \cup Selection(s, d)
            /\ check' = [check EXCEPT ![d] = @ \/ ~HasMediaPath(s, d)]
       ELSE net' = net \ {m} /\ UNCHANGED <<call, check>>
  /\ UNCHANGED <<fallback, direct, placed, commands, paths, restarts>>

\* Mutant: the answering device is not recorded.
ReceiveAcceptForgetful(m) ==
  LET d == m.to
      c == call[d]
      s == [c EXCEPT !.phase = "Active"]
  IN
  /\ Arrives(m, "accept")
  /\ IF c.id = m.id /\ c.initiator
       THEN /\ call' = [call EXCEPT ![d] = s]
            /\ net' = (net \ {m}) \cup Selection(s, d)
            /\ check' = [check EXCEPT ![d] = @ \/ ~HasMediaPath(s, d)]
       ELSE net' = net \ {m} /\ UNCHANGED <<call, check>>
  /\ UNCHANGED <<fallback, direct, placed, commands, paths, restarts>>

\* The first answer is selected, and the selection told to every device; another
\* answer is told of it again.  The first one also arms the check for a direct path.
ReceiveAccept(m) ==
  LET d     == m.to
      c     == call[d]
      first == c.phase = "Outgoing"
      s     == IF first THEN [c EXCEPT !.phase = "Active", !.remote = m.from] ELSE c
  IN
  /\ Arrives(m, "accept")
  /\ IF c.id = m.id /\ c.initiator
       THEN /\ call' = [call EXCEPT ![d] = s]
            /\ net' = (net \ {m}) \cup Selection(s, d)
            /\ check' = [check EXCEPT ![d] =
                 @ \/ (first /\ ~HasMediaPath(s, d) /\ fallback[d] = "no")]
       ELSE net' = net \ {m} /\ UNCHANGED <<call, check>>
  /\ UNCHANGED <<fallback, direct, placed, commands, paths, restarts>>

\* The selected device has its call and acknowledges; any other one stops ringing
\* (CallAnsweredElsewhere).  The fallback is not touched.
ReceiveSelection(m) ==
  LET d == m.to
      c == call[d]
      heeded == c.id = m.id /\ c.remote = m.from /\ c.phase # "Outgoing"
  IN
  /\ Arrives(m, "selection")
  /\ \/ /\ heeded /\ m.selected = d /\ c.phase \in {"Answering", "Active"}
        /\ call' = [call EXCEPT ![d].phase = "Active", ![d].confirmed = TRUE]
        /\ net' = (net \ {m}) \cup To(c, d, "ack")
     \/ /\ heeded /\ m.selected # d
        /\ call' = [call EXCEPT ![d] = Idle]
        /\ net' = net \ {m}
     \/ /\ ~heeded \/ (m.selected = d /\ c.phase \notin {"Answering", "Active"})
        /\ net' = net \ {m}
        /\ UNCHANGED call
  /\ UNCHANGED <<check, fallback, direct, placed, commands, paths, restarts>>

ReceiveAck(m) ==
  LET d == m.to
      c == call[d]
  IN
  /\ Arrives(m, "ack")
  /\ call' = [call EXCEPT ![d].confirmed =
       @ \/ (c.id = m.id /\ c.initiator /\ c.phase = "Active" /\ c.remote = m.from)]
  /\ net' = net \ {m}
  /\ UNCHANGED <<check, fallback, direct, placed, commands, paths, restarts>>

\* Mutant: any device of the other identity ends the call.
ReceiveEndOfAny(m) ==
  LET d == m.to
      over == call[d].id = m.id /\ call[d].phase # "Outgoing"
  IN
  /\ Arrives(m, "end")
  /\ call' = [call EXCEPT ![d] = IF over THEN Idle ELSE @]
  /\ check' = [check EXCEPT ![d] = @ /\ ~over]
  /\ fallback' = [fallback EXCEPT ![d] = IF over THEN "no" ELSE @]
  /\ net' = net \ {m}
  /\ UNCHANGED <<direct, placed, commands, paths, restarts>>

\* CallEnd and CallReject: only the device the call is with ends it.  What follows
\* in the handler of inbound.rs is part of it.
ReceiveEnd(m) ==
  LET d == m.to
      c == call[d]
      over == c.id = m.id /\ c.phase # "Outgoing" /\ c.remote = m.from
  IN
  /\ Arrives(m, "end")
  /\ call' = [call EXCEPT ![d] = IF over THEN Idle ELSE @]
  /\ check' = [check EXCEPT ![d] = @ /\ ~over]
  /\ fallback' = [fallback EXCEPT ![d] = IF over THEN "no" ELSE @]
  /\ net' = net \ {m}
  /\ UNCHANGED <<direct, placed, commands, paths, restarts>>

-----------------------------------------------------------------------------
(* Timers. *)

MayExpire(c) == c.phase # "Idle" /\ (c.phase # "Active" \/ ~c.confirmed)

\* Mutant: the fallback outlives the call.
ExpireKeepingFallback(d) ==
  /\ MayExpire(call[d])
  /\ call' = [call EXCEPT ![d] = Idle]
  /\ UNCHANGED <<check, fallback, direct, net, placed, commands, paths, restarts>>

\* expire_device_calls.  The other side is not told.
Expire(d) ==
  /\ MayExpire(call[d])
  /\ call' = [call EXCEPT ![d] = Idle]
  /\ check' = [check EXCEPT ![d] = FALSE]
  /\ fallback' = [fallback EXCEPT ![d] = "no"]
  /\ UNCHANGED <<direct, net, placed, commands, paths, restarts>>

\* retry_device_call_selections.
RetrySelection(d) ==
  /\ call[d].initiator /\ call[d].phase = "Active" /\ ~call[d].confirmed
  /\ net' = net \cup Selection(call[d], d)
  /\ UNCHANGED <<call, check, fallback, direct, placed, commands, paths, restarts>>

-----------------------------------------------------------------------------
(* The fallback room. *)

\* tick_call_fallback_checks and start_direct_call_fallback; with no supernode to
\* ask, nothing but the user interface hears of it.  The StartDirectCallFallback
\* command, which asks for a room without a check and which nothing sends, is
\* left out.
FallbackDue(d) ==
  /\ check[d]
  /\ check' = [check EXCEPT ![d] = FALSE]
  /\ \/ /\ ~HasMediaPath(call[d], d) /\ fallback[d] = "no"
        /\ fallback' = [fallback EXCEPT ![d] = "creating"]
     \/ UNCHANGED fallback
  /\ UNCHANGED <<call, direct, net, placed, commands, paths, restarts>>

\* SfuRoomCreated of the pending room: complete_direct_call_fallback.
RoomCreated(d) ==
  /\ fallback[d] = "creating"
  /\ fallback' = [fallback EXCEPT ![d] = "invited"]
  /\ Request(d, "invite")
  /\ UNCHANGED <<check, direct, commands, paths, restarts>>

\* ConnectionCommand::ConnectDirect: a dial by hand.
ConnectDirect(d) ==
  /\ fallback[d] # "no"
  /\ fallback' = [fallback EXCEPT ![d] = "no"]
  /\ UNCHANGED <<call, check, direct, net, placed, commands, paths, restarts>>

\* A direct path to e comes up: what was to replace it is dropped if it is the one
\* the call needs.
QuicConnected(d, e) ==
  LET up == direct[d] \cup {e}
      usable == call[d].phase = "Active" /\ call[d].remote \in up
  IN
  /\ paths < MaxPaths
  /\ direct' = [direct EXCEPT ![d] = up]
  /\ check' = [check EXCEPT ![d] = @ /\ ~usable]
  /\ fallback' = [fallback EXCEPT ![d] = IF usable THEN "no" ELSE @]
  /\ paths' = paths + 1
  /\ UNCHANGED <<call, net, placed, commands, restarts>>

QuicDisconnected(d, e) ==
  /\ paths < MaxPaths
  /\ e \in direct[d]
  /\ direct' = [direct EXCEPT ![d] = @ \ {e}]
  /\ check' = [check EXCEPT ![d] = @ \/ AcceptsMedia(d, e)]
  /\ paths' = paths + 1
  /\ UNCHANGED <<call, fallback, net, placed, commands, restarts>>

-----------------------------------------------------------------------------
\* Calls are kept in memory only.
Restart(d) ==
  /\ restarts < MaxRestarts
  /\ call' = [call EXCEPT ![d] = Idle]
  /\ check' = [check EXCEPT ![d] = FALSE]
  /\ fallback' = [fallback EXCEPT ![d] = "no"]
  /\ direct' = [direct EXCEPT ![d] = {}]
  /\ restarts' = restarts + 1
  /\ UNCHANGED <<net, placed, commands, paths>>

Init ==
  /\ call = [d \in Devices |-> Idle]
  /\ check = [d \in Devices |-> FALSE]
  /\ fallback = [d \in Devices |-> "no"]
  /\ direct = [d \in Devices |-> {}]
  /\ net = {}
  /\ placed = 0
  /\ commands = 0 /\ paths = 0 /\ restarts = 0

Receive(m) ==
  \/ ReceiveRequest(m) \/ ReceiveAccept(m) \/ ReceiveSelection(m)
  \/ ReceiveAck(m) \/ ReceiveEnd(m)

Step(d) ==
  \/ StartCall(d) \/ AcceptCall(d) \/ EndCall(d)
  \/ Expire(d) \/ RetrySelection(d)
  \/ FallbackDue(d) \/ RoomCreated(d) \/ ConnectDirect(d)
  \/ \E e \in Remotes(d) : QuicConnected(d, e) \/ QuicDisconnected(d, e)
  \/ Restart(d)

Next ==
  \/ \E d \in Devices : Step(d)
  \/ \E m \in net : Receive(m)

Spec == Init /\ [][Next]_vars

-----------------------------------------------------------------------------
(* Properties. *)

Ids == 1 .. placed
Call ==
  {Idle}
  \cup {Outgoing(i) : i \in Ids}
  \cup [phase : {"Incoming", "Answering"}, id : Ids, remote : Devices,
        initiator : {FALSE}, confirmed : {FALSE}]
  \cup [phase : {"Active"}, id : Ids, remote : Devices,
        initiator : BOOLEAN, confirmed : BOOLEAN]
Message ==
  [kind : {"request", "invite", "accept", "selection", "ack", "end"},
   id : Ids, from : Devices, to : Devices, selected : Devices \cup {NoDevice}]

\* Every variable keeps its type: a call that rings or is active is with a device,
\* one that was placed is with none until it is answered.
TypeOK ==
  /\ placed \in Nat /\ placed <= MaxCalls
  /\ call \in [Devices -> Call]
  /\ check \in [Devices -> BOOLEAN]
  /\ fallback \in [Devices -> {"no", "creating", "invited"}]
  /\ direct \in [Devices -> SUBSET Devices]
  /\ net \subseteq Message
  /\ commands \in 0 .. MaxCommands /\ paths \in 0 .. MaxPaths /\ restarts \in 0 .. MaxRestarts

\* Who is in call i: the calling and the answering device, as each of them has it.
Pairs(i) ==
  {<<d, call[d].remote>> :
     d \in {x \in Devices : call[x].phase = "Active" /\ call[x].id = i /\ call[x].initiator}}
  \cup
  {<<call[d].remote, d>> :
     d \in {x \in Devices : call[x].phase = "Active" /\ call[x].id = i /\ ~call[x].initiator}}

\* "One answering endpoint per call" (device_calls.rs): however answers,
\* selections, hang-ups, expiries and restarts are interleaved, no two devices
\* are ever active in the same call, and caller and callee mean each other, so
\* that each takes the media of the other and of nobody else.
OneAnswer == \A i \in Ids : \A p, q \in Pairs(i) : p = q

\* The fallback is bound to the call: no check is armed and no room is pending
\* once the call is over.  The invitation to a room that outlived its call would
\* be a new call, placed by nobody, ringing on every device.
FallbackInCall ==
  \A d \in Devices : check[d] \/ fallback[d] # "no" => call[d].phase = "Active"

\* An answered call ends by its two devices only: its user hangs up or restarts,
\* the device it is with hangs up, or it was never confirmed.  A decline or a late
\* message of another device, or of another call, does not end it.
AnswerKept ==
  [][\A d \in Devices :
       call[d].phase = "Active" /\ call'[d].phase # "Active"
         => \/ commands' # commands \/ restarts' # restarts
            \/ ~call[d].confirmed /\ net' = net
            \/ \E m \in net \ net' :
                 m.kind = "end" /\ m.id = call[d].id /\ m.from = call[d].remote]_vars

=============================================================================
