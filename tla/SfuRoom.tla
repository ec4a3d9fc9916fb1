------------------------------- MODULE SfuRoom -------------------------------
(***************************************************************************)
(* SFURoom of doubleslash-supernode/src/sfu.rs: who takes part in a room,  *)
(* with which devices, who may, and who is being forwarded.  Every operator *)
(* here is one method and runs under the room manager's write lock.        *)
(*                                                                         *)
(* An endpoint <<i, d>> is device d of identity i; d = 0 is the legacy      *)
(* endpoint without a device id.  device_members is kept as the set of its  *)
(* keys with the voice flag and the set of those with the chat flag.  The   *)
(* participant index, which nothing reads, and the invite tokens are left   *)
(* out: a presented token is registered again without a limit before it is  *)
(* looked up, so it always admits its bearer (see Supernode!InviteToken).   *)
(***************************************************************************)
EXTENDS Integers, FiniteSets

CONSTANTS
  Identities,    \* the clients
  Endpoints,     \* the <<identity, device>> pairs that can connect
  NoOne,         \* the empty creator id
  MaxRoomSize,   \* MAX_ROOM_SIZE
  MaxRoutes,     \* MAX_LIVE_DEVICE_ROUTES
  MaxSpeakers    \* MAX_ACTIVE_SPEAKERS

ASSUME EndpointsAssumption == Endpoints \subseteq Identities \X Nat
ASSUME NoOneAssumption == NoOne \notin Identities
ASSUME LimitsAssumption ==
  MaxRoomSize \in Nat \ {0} /\ MaxRoutes \in Nat \ {0} /\ MaxSpeakers \in Nat \ {0}

\* `exists': the manager has the room.  `empty': empty_since, which is None, set,
\* or set so long ago that the room may be collected.  `tracked': the senders
\* with a speaker score.
Room ==
  [exists : BOOLEAN, private : BOOLEAN, creator : Identities \cup {NoOne},
   voiceDev : SUBSET Endpoints, chatDev : SUBSET Endpoints,
   participants : SUBSET Identities, subscribers : SUBSET Identities,
   allowed : SUBSET Identities, empty : {"no", "recent", "long"},
   tracked : SUBSET Identities, active : SUBSET Identities]

NoRoom ==
  [exists |-> FALSE, private |-> FALSE, creator |-> NoOne,
   voiceDev |-> {}, chatDev |-> {}, participants |-> {}, subscribers |-> {},
   allowed |-> {}, empty |-> "no", tracked |-> {}, active |-> {}]

\* create_room_with_policy for a room that is not there.
NewRoom(private, creator) ==
  [NoRoom EXCEPT !.exists = TRUE, !.private = private, !.creator = creator,
                 !.empty = "recent"]

IdsOf(devs) == {e[1] : e \in devs}

IsUnused(r) == r.participants = {} /\ r.subscribers = {}

\* Mutant: the mark is not cleared.
NeverMarkInUse(r) == r

\* mark_in_use.
MarkInUse(r) == [r EXCEPT !.empty = "no"]

\* mark_unused_if_empty; a mark that is set already keeps its time.
MarkUnusedIfEmpty(r) ==
  IF IsUnused(r) /\ r.empty = "no" THEN [r EXCEPT !.empty = "recent"] ELSE r

\* is_peer_allowed.
IsPeerAllowed(r, i) ==
  \/ ~r.private
  \/ i \in r.allowed \cup r.participants
  \/ i = r.creator

AllowPeer(r, i) == [r EXCEPT !.allowed = @ \cup {i}]

\* Mutant: one participant too many.
IsOverfull(r) == Cardinality(r.participants) > MaxRoomSize

IsFull(r) == Cardinality(r.participants) >= MaxRoomSize

AddParticipant(r, i) ==
  IF i \in r.participants \/ IsFull(r) THEN r
  ELSE MarkInUse([r EXCEPT !.participants = @ \cup {i}, !.subscribers = @ \ {i}])

RemoveParticipant(r, i) ==
  IF i \notin r.participants THEN r
  ELSE [MarkUnusedIfEmpty([r EXCEPT !.participants = @ \ {i}])
          EXCEPT !.tracked = @ \ {i}, !.active = @ \ {i}]

\* SFURoom::subscribe and SFURoom::unsubscribe, for the identity.
Subscribe(r, i) ==
  IF i \in r.participants THEN r
  ELSE MarkInUse([r EXCEPT !.subscribers = @ \cup {i}])

Unsubscribe(r, i) ==
  IF i \notin r.subscribers THEN r
  ELSE MarkUnusedIfEmpty([r EXCEPT !.subscribers = @ \ {i}])

-----------------------------------------------------------------------------
(* A flag of one device is set, cleared or kept: Some(true), Some(false), None. *)

Change(devs, e, flag) ==
  CASE flag = "set"   -> devs \cup {e}
    [] flag = "clear" -> devs \ {e}
    [] OTHER          -> devs

DeviceMembers(r) == r.voiceDev \cup r.chatDev

\* Mutant: the limits are not looked at.
NeverRefused(r, e, voice) == FALSE

\* set_device_membership returns false: the room is full for a new voice
\* participant, or the identity has its devices in it already.
Refused(r, e, voice) ==
  \/ voice = "set" /\ e[1] \notin r.participants /\ IsFull(r)
  \/ /\ e \notin DeviceMembers(r) /\ e[2] # 0
     /\ Cardinality({d \in DeviceMembers(r) : d[1] = e[1] /\ d[2] # 0}) >= MaxRoutes

\* Mutant: the identity follows the device that changed, not all its devices.
SetByLastDevice(r, e, voice, chat) ==
  LET s  == [r EXCEPT !.voiceDev = Change(@, e, voice), !.chatDev = Change(@, e, chat)]
      i  == e[1]
      t  == IF e \in s.voiceDev THEN AddParticipant(s, i) ELSE RemoveParticipant(s, i)
  IN  IF Refused(r, e, voice) THEN r
      ELSE IF e \in s.chatDev \ s.voiceDev THEN Subscribe(t, i) ELSE Unsubscribe(t, i)

\* set_device_membership: the device's flags, then what they make of its
\* identity.  An identity takes part while any of its devices does.
SetDeviceMembership(r, e, voice, chat) ==
  LET s  == [r EXCEPT !.voiceDev = Change(@, e, voice), !.chatDev = Change(@, e, chat)]
      i  == e[1]
      inVoice == i \in IdsOf(s.voiceDev)
      t  == IF inVoice THEN AddParticipant(s, i) ELSE RemoveParticipant(s, i)
  IN  IF Refused(r, e, voice) THEN r
      ELSE IF i \in IdsOf(s.chatDev) /\ ~inVoice
        THEN Subscribe(t, i) ELSE Unsubscribe(t, i)

\* remove_peer_entirely.
RemovePeerEntirely(r, i) ==
  LET s == [r EXCEPT !.voiceDev = {e \in @ : e[1] # i},
                     !.chatDev = {e \in @ : e[1] # i},
                     !.participants = @ \ {i}, !.subscribers = @ \ {i}]
      t == IF i \in r.participants
             THEN [s EXCEPT !.tracked = @ \ {i}, !.active = @ \ {i}] ELSE s
  IN  IF i \in r.participants \cup r.subscribers THEN MarkUnusedIfEmpty(t) ELSE t

\* An anonymous room is dropped as soon as it is empty.
DropIfAnonymous(r) ==
  IF IsUnused(r) /\ r.creator = NoOne THEN NoRoom ELSE r

\* Everybody who receives the room's text chat, which is the key group.
ChatRecipients(r) == r.participants \cup r.subscribers

\* Mutant: a silent speaker gives up its score but not its place.
NoteAudioKeepingPlaces(r, i, silent) ==
  [r EXCEPT !.tracked = (@ \cup {i}) \ silent]

\* The first half of note_audio_should_forward: the sender is tracked, the
\* `silent' speakers are forgotten.
NoteAudio(r, i, silent) ==
  LET tracked == (r.tracked \cup {i}) \ silent
  IN  [r EXCEPT !.tracked = tracked, !.active = @ \cap tracked]

\* The second half: the rooms the frame may leave behind.  Scores decay with
\* time, so which active speaker is weakest, and whether the sender is stronger
\* than it, is open.
Forwarded(r, i) ==
  IF i \in r.active \/ Cardinality(r.active) < MaxSpeakers
    THEN {[r EXCEPT !.active = @ \cup {i}]}
    ELSE {r} \cup {[r EXCEPT !.active = (@ \ {w}) \cup {i}] : w \in r.active}

=============================================================================
