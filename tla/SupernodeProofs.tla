--------------------------- MODULE SupernodeProofs ---------------------------
(***************************************************************************)
(* What a room of a supernode never loses, whatever the connections, the   *)
(* limits and the interleaving of the handlers: theorems about Supernode.  *)
(***************************************************************************)
EXTENDS Supernode, FiniteSetTheorems, TLAPS

-----------------------------------------------------------------------------
(* The inductive invariant is about the room alone: every step of a handler  *)
(* leaves it as it is, or applies one method of SFURoom to it.               *)

Mirrors(r) ==
  /\ r.participants = IdsOf(r.voiceDev)
  /\ r.subscribers = IdsOf(r.chatDev) \ IdsOf(r.voiceDev)

Marked(r) == r.exists => (r.empty # "no" <=> IsUnused(r))

Admitted(r) == r.private => ChatRecipients(r) \subseteq r.allowed \cup {r.creator}

\* A room the manager does not have is in its default state.
Gone(r) == ~r.exists => r = NoRoom

GoodRoom(r) == r \in Room /\ Mirrors(r) /\ Marked(r) /\ Admitted(r) /\ Gone(r)

\* An endpoint belongs to an identity.
LEMMA EndpointType ==
  ASSUME NEW e \in Endpoints
  PROVE  e[1] \in Identities
BY EndpointsAssumption

\* The identities of a set of endpoints.
LEMMA IdsType ==
  ASSUME NEW D \in SUBSET Endpoints
  PROVE  IdsOf(D) \in SUBSET Identities
BY EndpointType DEF IdsOf

\* The state of an absent room is good.
LEMMA NoRoomGood == GoodRoom(NoRoom)
<1>1. NoRoom \in Room
  BY DEF NoRoom, Room
<1>2. Mirrors(NoRoom)
  BY DEF Mirrors, IdsOf, NoRoom
<1>3. Marked(NoRoom) /\ Admitted(NoRoom)
  BY DEF Marked, Admitted, NoRoom
<1>4. Gone(NoRoom)
  BY DEF Gone
<1> QED
  BY <1>1, <1>2, <1>3, <1>4 DEF GoodRoom

\* A room just created is good: empty, and marked so.
LEMMA NewRoomGood ==
  ASSUME NEW p \in BOOLEAN, NEW k \in Identities \cup {NoOne}
  PROVE  GoodRoom(NewRoom(p, k)) /\ NewRoom(p, k).exists
<1> DEFINE r == NewRoom(p, k)
           s == [NoRoom EXCEPT !.exists = TRUE, !.private = p]
<1>1. /\ r \in Room /\ r.exists /\ r.empty = "recent"
      /\ r.voiceDev = {} /\ r.chatDev = {} /\ r.participants = {} /\ r.subscribers = {}
  <2>1. /\ NoRoom \in Room
        /\ NoRoom.voiceDev = {} /\ NoRoom.chatDev = {}
        /\ NoRoom.participants = {} /\ NoRoom.subscribers = {}
    BY DEF NoRoom, Room
  <2>2. /\ s \in Room /\ s.exists
        /\ s.voiceDev = {} /\ s.chatDev = {} /\ s.participants = {} /\ s.subscribers = {}
    BY <2>1 DEF Room
  <2>3. r = [s EXCEPT !.creator = k, !.empty = "recent"]
    BY DEF NewRoom
  <2> HIDE DEF s, r
  <2> QED
    BY <2>2, <2>3 DEF Room
<1> HIDE DEF r
<1>3. Mirrors(r)
  BY <1>1 DEF Mirrors, IdsOf
<1>4. Marked(r) /\ Admitted(r) /\ Gone(r)
  BY <1>1 DEF Marked, Admitted, Gone, IsUnused, ChatRecipients
<1> QED
  BY <1>1, <1>3, <1>4 DEF GoodRoom, r

\* Admitting somebody, and adopting a creator, keep a room good.
LEMMA AllowPeerGood ==
  ASSUME NEW r, GoodRoom(r), r.exists, NEW i \in Identities
  PROVE  GoodRoom(AllowPeer(r, i)) /\ AllowPeer(r, i).exists
<1> DEFINE s == AllowPeer(r, i)
<1>1. r \in Room
  BY DEF GoodRoom
<1>2. /\ s \in Room
      /\ s.allowed = r.allowed \cup {i}
      /\ s.exists = r.exists /\ s.private = r.private /\ s.creator = r.creator
      /\ s.voiceDev = r.voiceDev /\ s.chatDev = r.chatDev
      /\ s.participants = r.participants /\ s.subscribers = r.subscribers
      /\ s.empty = r.empty
  BY <1>1 DEF AllowPeer, Room
<1> HIDE DEF s
<1> QED
  <2>1. Mirrors(s)
    BY <1>2 DEF GoodRoom, Mirrors
  <2>2. Marked(s) /\ Admitted(s) /\ Gone(s)
    BY <1>2 DEF GoodRoom, Marked, Admitted, Gone, IsUnused, ChatRecipients
  <2> QED
    BY <1>2, <2>1, <2>2 DEF GoodRoom, s

-----------------------------------------------------------------------------
(* set_device_membership.                                                     *)

Flags == {"set", "clear", "keep"}

\* Changing one device changes nothing for other identities, and takes in nobody
\* unless the flag is set.
LEMMA ChangeIds ==
  ASSUME NEW D \in SUBSET Endpoints, NEW e \in Endpoints, NEW f \in Flags
  PROVE  /\ Change(D, e, f) \in SUBSET Endpoints
         /\ IdsOf(Change(D, e, f)) \ {e[1]} = IdsOf(D) \ {e[1]}
         /\ e[1] \in IdsOf(Change(D, e, f)) => f = "set" \/ e[1] \in IdsOf(D)
<1>1. CASE f = "set"
  <2>1. Change(D, e, f) = D \cup {e}
    BY <1>1 DEF Change
  <2> QED
    BY <1>1, <2>1 DEF IdsOf
<1>2. CASE f = "clear"
  <2>1. Change(D, e, f) = D \ {e}
    BY <1>2 DEF Change
  <2> QED
    BY <2>1 DEF IdsOf
<1>3. CASE f = "keep"
  <2>1. Change(D, e, f) = D
    BY <1>3 DEF Change
  <2> QED
    BY <2>1
<1> QED
  BY <1>1, <1>2, <1>3 DEF Flags

\* The rest of the room stays as it is.
SameDefinition(r, q) ==
  /\ q.exists = r.exists /\ q.private = r.private /\ q.creator = r.creator
  /\ q.allowed = r.allowed

\* What a change of membership that is not refused makes of a good room.
LEMMA MembershipResult ==
  ASSUME NEW r, GoodRoom(r), r.exists,
         NEW e \in Endpoints, NEW v \in Flags, NEW f \in Flags,
         ~Refused(r, e, v)
  PROVE  LET q == SetDeviceMembership(r, e, v, f)
             V == Change(r.voiceDev, e, v)
             C == Change(r.chatDev, e, f)
         IN  /\ q \in Room /\ SameDefinition(r, q)
             /\ q.voiceDev = V /\ q.chatDev = C
             /\ q.participants = IdsOf(V)
             /\ q.subscribers = IdsOf(C) \ IdsOf(V)
             /\ q.empty # "no" <=> IsUnused(q)
<1> DEFINE V == Change(r.voiceDev, e, v)
           C == Change(r.chatDev, e, f)
           i == e[1]
           s == [r EXCEPT !.voiceDev = V, !.chatDev = C]
           t == IF i \in IdsOf(V) THEN AddParticipant(s, i) ELSE RemoveParticipant(s, i)
           q == IF i \in IdsOf(C) /\ ~(i \in IdsOf(V)) THEN Subscribe(t, i)
                                                       ELSE Unsubscribe(t, i)
<1>1. r \in Room /\ Mirrors(r) /\ (r.empty # "no" <=> IsUnused(r))
  BY DEF GoodRoom, Marked
<1>2. i \in Identities
  BY EndpointType
<1>3. /\ V \in SUBSET Endpoints /\ C \in SUBSET Endpoints
      /\ IdsOf(V) \ {i} = IdsOf(r.voiceDev) \ {i}
      /\ IdsOf(C) \ {i} = IdsOf(r.chatDev) \ {i}
      /\ i \in IdsOf(V) => v = "set" \/ i \in IdsOf(r.voiceDev)
  <2>1. r.voiceDev \in SUBSET Endpoints /\ r.chatDev \in SUBSET Endpoints
    BY <1>1 DEF Room
  <2> QED
    BY <2>1, ChangeIds
<1>4. SetDeviceMembership(r, e, v, f) = q
  <2>1. s.voiceDev = V /\ s.chatDev = C
    BY <1>1 DEF Room
  <2> QED
    BY <2>1 DEF SetDeviceMembership
<1> HIDE DEF V, C
<1>5. /\ s \in Room /\ s.voiceDev = V /\ s.chatDev = C
      /\ s.participants = r.participants /\ s.subscribers = r.subscribers
      /\ s.empty = r.empty /\ SameDefinition(r, s)
  BY <1>1, <1>3 DEF Room, SameDefinition
<1>6. /\ r.participants = IdsOf(r.voiceDev)
      /\ r.subscribers = IdsOf(r.chatDev) \ IdsOf(r.voiceDev)
  BY <1>1 DEF Mirrors
<1> HIDE DEF s
<1>7. CASE i \in IdsOf(V)
  <2>1. /\ t \in Room /\ t.voiceDev = V /\ t.chatDev = C
        /\ t.participants = r.participants \cup {i}
        /\ t.subscribers = r.subscribers \ {i}
        /\ t.empty = "no" /\ SameDefinition(r, t)
    <3>1. t = AddParticipant(s, i)
      BY <1>7
    <3>2. CASE i \in r.participants
      <4>1. t = s /\ ~IsUnused(r)
        BY <3>1, <3>2, <1>5 DEF AddParticipant, IsUnused
      <4>2. i \notin r.subscribers
        BY <3>2, <1>6
      <4> QED
        BY <4>1, <4>2, <1>1, <1>5, <3>2
    <3>3. CASE i \notin r.participants
      <4>1. v = "set"
        BY <3>3, <1>7, <1>3, <1>6
      <4>2. ~IsFull(s)
        BY <4>1, <3>3, <1>5 DEF Refused, IsFull
      <4> DEFINE u == [s EXCEPT !.participants = @ \cup {i}, !.subscribers = @ \ {i}]
      <4>3. t = [u EXCEPT !.empty = "no"]
        BY <3>1, <3>3, <4>2, <1>5 DEF AddParticipant, MarkInUse
      <4>4. /\ u \in Room /\ u.voiceDev = V /\ u.chatDev = C
            /\ u.participants = r.participants \cup {i}
            /\ u.subscribers = r.subscribers \ {i} /\ SameDefinition(r, u)
        BY <1>5, <1>2 DEF Room, SameDefinition
      <4> HIDE DEF u, t
      <4> QED
        BY <4>3, <4>4 DEF Room, SameDefinition
    <3> QED
      BY <3>2, <3>3
  <2> HIDE DEF t
  <2>2. q = t
    BY <2>1, <1>7 DEF Unsubscribe
  <2>3. t.participants = IdsOf(V) /\ t.subscribers = IdsOf(C) \ IdsOf(V)
    BY <2>1, <1>3, <1>6, <1>7
  <2>4. ~IsUnused(t)
    BY <2>1 DEF IsUnused
  <2> QED
    BY <2>1, <2>2, <2>3, <2>4, <1>4 DEF V, C
<1>8. CASE i \notin IdsOf(V)
  <2>1. /\ t \in Room /\ t.voiceDev = V /\ t.chatDev = C
        /\ t.participants = r.participants \ {i}
        /\ t.subscribers = r.subscribers
        /\ t.empty # "no" <=> IsUnused(t)
        /\ SameDefinition(r, t)
    <3>1. t = RemoveParticipant(s, i)
      BY <1>8
    <3>2. CASE i \notin r.participants
      BY <3>1, <3>2, <1>1, <1>5 DEF RemoveParticipant, IsUnused
    <3>3. CASE i \in r.participants
      <4> DEFINE u == [s EXCEPT !.participants = @ \ {i}]
      <4>1. t = [MarkUnusedIfEmpty(u) EXCEPT !.tracked = @ \ {i}, !.active = @ \ {i}]
        BY <3>1, <3>3, <1>5 DEF RemoveParticipant
      <4>2. /\ u \in Room /\ u.voiceDev = V /\ u.chatDev = C
            /\ u.participants = r.participants \ {i}
            /\ u.subscribers = r.subscribers
            /\ u.empty = r.empty /\ SameDefinition(r, u)
        BY <1>5 DEF Room, SameDefinition
      <4>3. r.empty = "no"
        BY <3>3, <1>1 DEF IsUnused
      <4> HIDE DEF u
      <4> DEFINE w == MarkUnusedIfEmpty(u)
      <4>4. /\ w \in Room /\ w.voiceDev = V /\ w.chatDev = C
            /\ w.participants = r.participants \ {i}
            /\ w.subscribers = r.subscribers
            /\ w.empty # "no" <=> IsUnused(u)
            /\ SameDefinition(r, w)
        BY <4>2, <4>3 DEF MarkUnusedIfEmpty, Room, SameDefinition
      <4> HIDE DEF w
      <4>5. t = [w EXCEPT !.tracked = @ \ {i}, !.active = @ \ {i}]
        BY <4>1 DEF w
      <4> HIDE DEF t
      <4>6. /\ t \in Room /\ t.voiceDev = V /\ t.chatDev = C
            /\ t.participants = u.participants
            /\ t.subscribers = u.subscribers
            /\ t.empty # "no" <=> IsUnused(u)
            /\ SameDefinition(r, t)
        BY <4>5, <4>4, <4>2 DEF Room, SameDefinition
      <4>7. IsUnused(t) <=> IsUnused(u)
        BY <4>6 DEF IsUnused
      <4> QED
        BY <4>2, <4>6, <4>7
    <3> QED
      BY <3>2, <3>3
  <2> HIDE DEF t
  <2>2. i \notin t.participants
    BY <2>1
  <2>3. t.participants = IdsOf(V)
    BY <2>1, <1>3, <1>6, <1>8
  <2>4. r.subscribers \ {i} = (IdsOf(C) \ IdsOf(V)) \ {i}
    BY <1>3, <1>6
  <2>5. CASE i \in IdsOf(C)
    <3> DEFINE u == [t EXCEPT !.subscribers = @ \cup {i}]
    <3>0. /\ u \in Room /\ u.voiceDev = V /\ u.chatDev = C
          /\ u.participants = t.participants
          /\ u.subscribers = r.subscribers \cup {i} /\ SameDefinition(r, u)
      BY <2>1, <1>2 DEF Room, SameDefinition
    <3>1. q = [u EXCEPT !.empty = "no"]
      BY <2>5, <2>2, <1>8 DEF Subscribe, MarkInUse
    <3> HIDE DEF q, u
    <3>2. /\ q \in Room /\ q.voiceDev = V /\ q.chatDev = C
          /\ q.participants = t.participants
          /\ q.subscribers = r.subscribers \cup {i}
          /\ q.empty = "no" /\ SameDefinition(r, q)
      BY <3>0, <3>1 DEF Room, SameDefinition
    <3>3. q.subscribers = IdsOf(C) \ IdsOf(V) /\ ~IsUnused(q)
      BY <3>2, <2>4, <2>5, <1>8 DEF IsUnused
    <3> QED
      BY <3>2, <3>3, <2>3, <1>4 DEF V, C
  <2>6. CASE i \notin IdsOf(C)
    <3>1. q = Unsubscribe(t, i)
      BY <2>6
    <3>2. r.subscribers \ {i} = IdsOf(C) \ IdsOf(V)
      BY <2>4, <2>6
    <3>3. CASE i \notin r.subscribers
      <4>1. q = t /\ t.subscribers = IdsOf(C) \ IdsOf(V)
        BY <3>1, <3>2, <3>3, <2>1 DEF Unsubscribe
      <4> QED
        BY <4>1, <2>1, <2>3, <1>4 DEF V, C
    <3>4. CASE i \in r.subscribers
      <4> DEFINE u == [t EXCEPT !.subscribers = @ \ {i}]
      <4>1. q = MarkUnusedIfEmpty(u)
        BY <3>1, <3>4, <2>1 DEF Unsubscribe
      <4>2. /\ u \in Room /\ u.voiceDev = V /\ u.chatDev = C
            /\ u.participants = t.participants
            /\ u.subscribers = r.subscribers \ {i}
            /\ u.empty = "no" /\ SameDefinition(r, u)
        BY <2>1, <3>4 DEF Room, SameDefinition, IsUnused
      <4> HIDE DEF u, q
      <4>3. /\ q \in Room /\ q.voiceDev = V /\ q.chatDev = C
            /\ q.participants = u.participants /\ q.subscribers = u.subscribers
            /\ q.empty # "no" <=> IsUnused(u)
            /\ SameDefinition(r, q)
        BY <4>1, <4>2 DEF MarkUnusedIfEmpty, Room, SameDefinition
      <4>4. IsUnused(q) <=> IsUnused(u)
        BY <4>3 DEF IsUnused
      <4> QED
        BY <4>2, <4>3, <4>4, <3>2, <2>3, <1>4 DEF V, C
    <3> QED
      BY <3>3, <3>4
  <2> QED
    BY <2>5, <2>6
<1> QED
  BY <1>7, <1>8

\* A membership change keeps a room good, if only somebody admitted comes in.
LEMMA SetDeviceMembershipGood ==
  ASSUME NEW r, GoodRoom(r), r.exists,
         NEW e \in Endpoints, NEW v \in Flags, NEW f \in Flags,
         v = "set" \/ f = "set" => IsPeerAllowed(r, e[1])
  PROVE  LET q == SetDeviceMembership(r, e, v, f) IN GoodRoom(q) /\ q.exists
<1> DEFINE q == SetDeviceMembership(r, e, v, f)
<1>1. CASE Refused(r, e, v)
  BY <1>1 DEF SetDeviceMembership
<1>2. CASE ~Refused(r, e, v)
  <2> DEFINE V == Change(r.voiceDev, e, v)
             C == Change(r.chatDev, e, f)
  <2>1. /\ q \in Room /\ SameDefinition(r, q)
        /\ q.voiceDev = V /\ q.chatDev = C
        /\ q.participants = IdsOf(V)
        /\ q.subscribers = IdsOf(C) \ IdsOf(V)
        /\ q.empty # "no" <=> IsUnused(q)
    BY <1>2, MembershipResult
  <2>2. /\ IdsOf(V) \ {e[1]} = IdsOf(r.voiceDev) \ {e[1]}
        /\ IdsOf(C) \ {e[1]} = IdsOf(r.chatDev) \ {e[1]}
        /\ e[1] \in IdsOf(V) => v = "set" \/ e[1] \in IdsOf(r.voiceDev)
        /\ e[1] \in IdsOf(C) => f = "set" \/ e[1] \in IdsOf(r.chatDev)
    <3>1. r.voiceDev \in SUBSET Endpoints /\ r.chatDev \in SUBSET Endpoints
      BY DEF GoodRoom, Room
    <3> QED
      BY <3>1, ChangeIds
  <2> HIDE DEF q, V, C
  <2>3. Mirrors(q) /\ Marked(q) /\ Gone(q) /\ q.exists
    BY <2>1 DEF Mirrors, Marked, Gone, SameDefinition
  <2>4. Admitted(q)
    <3>1. SUFFICES ASSUME q.private PROVE ChatRecipients(q) \subseteq r.allowed \cup {r.creator}
      BY <2>1 DEF Admitted, SameDefinition
    <3>2. ChatRecipients(r) \subseteq r.allowed \cup {r.creator}
      BY <3>1, <2>1 DEF GoodRoom, Admitted, SameDefinition
    <3>3. ChatRecipients(r) = IdsOf(r.voiceDev) \cup IdsOf(r.chatDev)
      BY DEF GoodRoom, Mirrors, ChatRecipients
    <3>4. ChatRecipients(q) = IdsOf(V) \cup IdsOf(C)
      BY <2>1 DEF ChatRecipients
    <3>5. v = "set" \/ f = "set" => e[1] \in r.allowed \cup {r.creator}
      BY <3>1, <3>2, <2>1 DEF IsPeerAllowed, ChatRecipients, SameDefinition
    <3> QED
      BY <2>2, <3>2, <3>3, <3>4, <3>5
  <2> QED
    BY <2>1, <2>3, <2>4 DEF GoodRoom, q
<1> QED
  BY <1>1, <1>2

\* A room that is empty already, or in use, is marked as it should be.
LEMMA MarkUnusedGood ==
  ASSUME NEW r, GoodRoom(r), r.exists
  PROVE  MarkUnusedIfEmpty(r) = r
BY DEF GoodRoom, Marked, MarkUnusedIfEmpty

\* Removing an identity with all its devices keeps a room good.
LEMMA RemovePeerGood ==
  ASSUME NEW r, GoodRoom(r), r.exists, NEW i \in ChatRecipients(r)
  PROVE  GoodRoom(RemovePeerEntirely(r, i))
<1> DEFINE V == {e \in r.voiceDev : e[1] # i}
           C == {e \in r.chatDev : e[1] # i}
           s1 == [r EXCEPT !.voiceDev = V, !.chatDev = C]
           s == [s1 EXCEPT !.participants = @ \ {i}, !.subscribers = @ \ {i}]
           t == IF i \in r.participants
                  THEN [s EXCEPT !.tracked = @ \ {i}, !.active = @ \ {i}] ELSE s
           q == MarkUnusedIfEmpty(t)
<1>1. r \in Room /\ r.voiceDev \in SUBSET Endpoints /\ r.chatDev \in SUBSET Endpoints
  BY DEF GoodRoom, Room
<1>2. RemovePeerEntirely(r, i) = q
  <2>1. s1.voiceDev = V /\ s1.chatDev = C
    BY <1>1 DEF Room
  <2> QED
    BY <1>1 DEF RemovePeerEntirely, ChatRecipients, Room
<1>3. IdsOf(V) = IdsOf(r.voiceDev) \ {i} /\ IdsOf(C) = IdsOf(r.chatDev) \ {i}
  BY DEF IdsOf
<1>4. V \in SUBSET Endpoints /\ C \in SUBSET Endpoints
  BY <1>1
<1> HIDE DEF V, C
<1>5. /\ s1 \in Room /\ s1.voiceDev = V /\ s1.chatDev = C
      /\ s1.participants = r.participants /\ s1.subscribers = r.subscribers
      /\ s1.empty = r.empty /\ SameDefinition(r, s1)
  BY <1>1, <1>4 DEF Room, SameDefinition
<1> HIDE DEF s1
<1>6. /\ s \in Room /\ s.voiceDev = V /\ s.chatDev = C
      /\ s.participants = r.participants \ {i} /\ s.subscribers = r.subscribers \ {i}
      /\ s.empty = r.empty /\ SameDefinition(r, s)
  BY <1>5 DEF Room, SameDefinition
<1> HIDE DEF s
<1>7. /\ t \in Room /\ t.voiceDev = V /\ t.chatDev = C
      /\ t.participants = r.participants \ {i} /\ t.subscribers = r.subscribers \ {i}
      /\ t.empty = "no" /\ SameDefinition(r, t)
  <2>1. r.empty = "no"
    BY DEF GoodRoom, Marked, IsUnused, ChatRecipients
  <2> QED
    BY <2>1, <1>6 DEF Room, SameDefinition
<1> HIDE DEF t
<1>8. /\ q \in Room /\ q.voiceDev = V /\ q.chatDev = C
      /\ q.participants = t.participants /\ q.subscribers = t.subscribers
      /\ q.empty # "no" <=> IsUnused(t)
      /\ SameDefinition(r, q)
  BY <1>7 DEF MarkUnusedIfEmpty, Room, SameDefinition
<1> HIDE DEF q
<1>9. Marked(q) /\ Gone(q)
  BY <1>8 DEF Marked, Gone, IsUnused, SameDefinition
<1>10. Mirrors(q)
  BY <1>3, <1>7, <1>8 DEF Mirrors, GoodRoom
<1>11. Admitted(q)
  BY <1>7, <1>8 DEF Admitted, GoodRoom, ChatRecipients, SameDefinition
<1> QED
  BY <1>2, <1>8, <1>9, <1>10, <1>11 DEF GoodRoom

\* Dropping an anonymous room that is empty.
LEMMA DropIfAnonymousGood ==
  ASSUME NEW r, GoodRoom(r)
  PROVE  GoodRoom(DropIfAnonymous(r))
BY NoRoomGood DEF DropIfAnonymous

\* An audio frame touches the speakers alone.
LEMMA AudioGood ==
  ASSUME NEW r, GoodRoom(r), r.exists, NEW i \in Identities, NEW silent,
         NEW q \in Forwarded(NoteAudio(r, i, silent), i)
  PROVE  GoodRoom(q)
<1> DEFINE n == NoteAudio(r, i, silent)
           Same(x) == /\ x \in Room /\ SameDefinition(r, x) /\ x.empty = r.empty
                      /\ x.voiceDev = r.voiceDev /\ x.chatDev = r.chatDev
                      /\ x.participants = r.participants
                      /\ x.subscribers = r.subscribers
<1>1. r \in Room
  BY DEF GoodRoom
<1>2. Same(n)
  BY <1>1 DEF NoteAudio, Room, SameDefinition
<1> HIDE DEF n
<1>3. Same(q)
  <2>1. CASE i \in n.active \/ Cardinality(n.active) < MaxSpeakers
    <3>1. q = [n EXCEPT !.active = @ \cup {i}]
      BY <2>1 DEF Forwarded, n
    <3> QED
      BY <3>1, <1>2 DEF Room, SameDefinition
  <2>2. CASE ~(i \in n.active \/ Cardinality(n.active) < MaxSpeakers)
    <3>1. q = n \/ \E w \in n.active : q = [n EXCEPT !.active = (@ \ {w}) \cup {i}]
      BY <2>2 DEF Forwarded, n
    <3>2. CASE q = n
      BY <3>2, <1>2
    <3>3. CASE \E w \in n.active : q = [n EXCEPT !.active = (@ \ {w}) \cup {i}]
      <4>1. PICK w \in n.active : q = [n EXCEPT !.active = (@ \ {w}) \cup {i}]
        BY <3>3
      <4>2. (n.active \ {w}) \cup {i} \in SUBSET Identities
        BY <1>2 DEF Room
      <4> QED
        BY <4>1, <4>2, <1>2 DEF Room, SameDefinition
    <3> QED
      BY <3>1, <3>2, <3>3
  <2> QED
    BY <2>1, <2>2
<1>4. Mirrors(q)
  BY <1>3 DEF Mirrors, GoodRoom
<1>5. Marked(q) /\ Admitted(q) /\ Gone(q)
  BY <1>3 DEF Marked, Admitted, Gone, GoodRoom, IsUnused, ChatRecipients, SameDefinition
<1> QED
  BY <1>3, <1>4, <1>5 DEF GoodRoom

\* A room without a creator lists only admitted clients, so it may adopt one.
LEMMA AdoptGood ==
  ASSUME NEW r, GoodRoom(r), r.exists
  PROVE  GoodRoom([r EXCEPT !.creator = IF @ = NoOne THEN Creator ELSE @])
<1> DEFINE q == [r EXCEPT !.creator = IF @ = NoOne THEN Creator ELSE @]
<1>1. r \in Room
  BY DEF GoodRoom
<1>2. /\ q \in Room /\ q.exists = r.exists /\ q.private = r.private
      /\ q.allowed = r.allowed /\ q.empty = r.empty
      /\ q.creator = IF r.creator = NoOne THEN Creator ELSE r.creator
      /\ q.voiceDev = r.voiceDev /\ q.chatDev = r.chatDev
      /\ q.participants = r.participants /\ q.subscribers = r.subscribers
  BY <1>1, CreatorAssumption DEF Room
<1>3. NoOne \notin ChatRecipients(r)
  BY <1>1, NoOneAssumption DEF Room, ChatRecipients
<1> HIDE DEF q
<1>4. Mirrors(q)
  BY <1>2 DEF Mirrors, GoodRoom
<1>5. Marked(q) /\ Gone(q)
  BY <1>2 DEF Marked, Gone, GoodRoom, IsUnused
<1>6. Admitted(q)
  BY <1>2, <1>3 DEF Admitted, GoodRoom, ChatRecipients
<1> QED
  BY <1>2, <1>4, <1>5, <1>6 DEF GoodRoom, q

-----------------------------------------------------------------------------
(* The steps.                                                                *)

RoomInv == GoodRoom(room)

LEMMA ConnType ==
  ASSUME NEW c \in Conns
  PROVE  EndOf[c] \in Endpoints /\ IdOf(c) \in Identities /\ IdOf(c) = EndOf[c][1]
BY ConnsAssumption, EndpointType DEF IdOf

\* Nobody is in a room that is not there.
LEMMA InRoomExists ==
  ASSUME RoomInv, DeviceMembers(room) # {} \/ ChatRecipients(room) # {}
  PROVE  room.exists
<1>1. DeviceMembers(NoRoom) = {} /\ ChatRecipients(NoRoom) = {}
  BY DEF DeviceMembers, ChatRecipients, NoRoom
<1> QED
  BY <1>1 DEF RoomInv, GoodRoom, Gone

\* Every step of a handler keeps the room good.
LEMMA HandleGood ==
  ASSUME RoomInv, NEW c \in Conns, Handle(c)
  PROVE  RoomInv'
<1> USE ConnType, CreatorAssumption
<1>1. CASE Materialise(c)
  BY <1>1, AdoptGood, NewRoomGood DEF Materialise, Become, RoomInv
<1>2. CASE Admit(c)
  <2> DEFINE r == IF room.exists THEN room ELSE NewRoom(Private, NoOne)
  <2>1. GoodRoom(r) /\ r.exists
    BY NewRoomGood DEF RoomInv
  <2>2. room' = AllowPeer(r, IdOf(c))
    BY <1>2 DEF Admit, Become
  <2> HIDE DEF r
  <2> QED
    BY <2>1, <2>2, AllowPeerGood DEF RoomInv
<1>3. CASE Allow(c)
  BY <1>3, AllowPeerGood DEF Allow, Become, RoomInv
<1>4. CASE \E step \in {"create", "createWithToken"} : Create(c, step)
  BY <1>4, NewRoomGood DEF Create, Become, RoomInv
<1>5. CASE Join(c)
  <2>1. room' = room
          \/ /\ room.exists /\ IsPeerAllowed(room, EndOf[c][1])
             /\ room' = SetDeviceMembership(room, EndOf[c], "set", "keep")
    BY <1>5 DEF Join, Become
  <2> QED
    BY <2>1, SetDeviceMembershipGood DEF RoomInv, Flags
<1>6. CASE Leaving(c)
  BY <1>6 DEF Leaving, Become, RoomInv
<1>7. CASE Leave(c)
  <2> DEFINE q == SetDeviceMembership(room, EndOf[c], "clear", "keep")
             r == IF room.exists THEN MarkUnusedIfEmpty(q) ELSE room
  <2>1. room.exists => GoodRoom(q) /\ q.exists
    BY SetDeviceMembershipGood DEF RoomInv, Flags
  <2>2. room' = DropIfAnonymous(r)
    BY <1>7 DEF Leave, Become
  <2>3. GoodRoom(r)
    BY <2>1, MarkUnusedGood DEF RoomInv
  <2> HIDE DEF r
  <2> QED
    BY <2>2, <2>3, DropIfAnonymousGood DEF RoomInv
<1>8. CASE SfuSubscribe(c)
  <2>1. room' = room
          \/ /\ room.exists /\ IsPeerAllowed(room, EndOf[c][1])
             /\ room' = SetDeviceMembership(room, EndOf[c], "keep", "set")
    BY <1>8 DEF SfuSubscribe, Become
  <2> QED
    BY <2>1, SetDeviceMembershipGood DEF RoomInv, Flags
<1>9. CASE SfuUnsubscribe(c)
  <2>1. room' = room
          \/ /\ room.exists
             /\ room' = SetDeviceMembership(room, EndOf[c], "keep", "clear")
    <3>1. room' = IF room.exists
                    THEN SetDeviceMembership(room, EndOf[c], "keep", "clear") ELSE room
      BY <1>9 DEF SfuUnsubscribe, Become
    <3> QED
      BY <3>1
  <2> QED
    BY <2>1, SetDeviceMembershipGood DEF RoomInv, Flags
<1>10. CASE Audio(c)
  <2>1. PICK silent \in SUBSET (room.tracked \ {IdOf(c)}) :
          \E r \in IF room.exists
                    THEN Forwarded(NoteAudio(room, IdOf(c), silent), IdOf(c)) ELSE {room} :
            room' = r
    BY <1>10 DEF Audio, Become
  <2>2. CASE room.exists
    <3>1. room' \in Forwarded(NoteAudio(room, IdOf(c), silent), IdOf(c))
      BY <2>1, <2>2
    <3> QED
      BY <3>1, <2>2, AudioGood DEF RoomInv
  <2>3. CASE ~room.exists
    BY <2>1, <2>3 DEF RoomInv
  <2> QED
    BY <2>2, <2>3
<1>11. CASE DropEndpoint(c)
  <2>1. room' = room
          \/ /\ EndOf[c] \in DeviceMembers(room)
             /\ room' = SetDeviceMembership(room, EndOf[c], "clear", "clear")
    BY <1>11 DEF DropEndpoint, Become
  <2> QED
    BY <2>1, InRoomExists, SetDeviceMembershipGood DEF RoomInv, Flags
<1>12. CASE \E step \in {"dropPeer", "dropPeerIfGone"} : DropPeer(c, step)
  <2>1. room' = room
          \/ /\ IdOf(c) \in ChatRecipients(room)
             /\ room' = DropIfAnonymous(RemovePeerEntirely(room, IdOf(c)))
    BY <1>12 DEF DropPeer, Become
  <2> QED
    BY <2>1, InRoomExists, RemovePeerGood, DropIfAnonymousGood DEF RoomInv
<1>13. CASE ReadRoster(c)
  BY <1>13 DEF ReadRoster, Become, RoomInv
<1>14. CASE \E p \in Identities : Deliver(c, p)
  BY <1>14 DEF Deliver, RoomInv
<1> QED
  BY <1>1, <1>2, <1>3, <1>4, <1>5, <1>6, <1>7, <1>8, <1>9, <1>10, <1>11, <1>12,
     <1>13, <1>14 DEF Handle

\* Time passing leaves an empty room empty.
LEMMA TimeGood ==
  ASSUME RoomInv, TimePasses
  PROVE  RoomInv'
<1>1. room \in Room /\ room.empty = "recent" /\ room' = [room EXCEPT !.empty = "long"]
  BY DEF TimePasses, RoomInv, GoodRoom
<1>2. room.exists
  BY <1>1 DEF RoomInv, GoodRoom, Gone, NoRoom
<1>3. /\ room' \in Room /\ room'.empty = "long" /\ SameDefinition(room, room')
      /\ room'.voiceDev = room.voiceDev /\ room'.chatDev = room.chatDev
      /\ room'.participants = room.participants
      /\ room'.subscribers = room.subscribers
  BY <1>1 DEF Room, SameDefinition
<1>4. Mirrors(room')
  BY <1>3 DEF Mirrors, GoodRoom, RoomInv
<1>5. Marked(room') /\ Admitted(room') /\ Gone(room')
  BY <1>1, <1>2, <1>3 DEF Marked, Admitted, Gone, GoodRoom, RoomInv, IsUnused,
                          ChatRecipients, SameDefinition
<1> QED
  BY <1>3, <1>4, <1>5 DEF RoomInv, GoodRoom

\* The room stays good in every behaviour of the supernode.
LEMMA RoomAlwaysGood == Spec => []RoomInv
<1>1. Init => RoomInv
  BY NoRoomGood DEF Init, RoomInv
<1>2. RoomInv /\ [Next]_vars => RoomInv'
  <2>1. SUFFICES ASSUME RoomInv, [Next]_vars PROVE RoomInv'
    OBVIOUS
  <2>2. CASE \E c \in Conns :
               \/ Connect(c) \/ CloseWs(c) \/ CloseQuic(c)
               \/ \E h \in Messages : Receive(c, h)
    BY <2>1, <2>2 DEF Connect, CloseWs, CloseQuic, Receive, RoomInv
  <2>3. CASE \E c \in Conns : Handle(c)
    BY <2>1, <2>3, HandleGood
  <2>4. CASE TimePasses
    BY <2>1, <2>4, TimeGood
  <2>5. CASE GcIdleRooms
    BY <2>5, NoRoomGood DEF GcIdleRooms, RoomInv
  <2>6. CASE ApplyRoomRoster
    BY <2>6, NewRoomGood, CreatorAssumption DEF ApplyRoomRoster, RoomInv
  <2>7. CASE UNCHANGED vars
    BY <2>1, <2>7 DEF vars, RoomInv
  <2> QED
    BY <2>1, <2>2, <2>3, <2>4, <2>5, <2>6, <2>7 DEF Next
<1> QED
  BY <1>1, <1>2, PTL DEF Spec

\* participants, subscribers and device_members of a room never drift apart,
\* though every change of one device rewrites the roster of its identity, and a
\* refused change must rewrite nothing.
THEOREM RosterAlwaysMirrorsDevices == Spec => []RosterMirrorsDevices
<1>1. RoomInv => RosterMirrorsDevices
  BY DEF RoomInv, GoodRoom, Mirrors, RosterMirrorsDevices
<1> QED
  BY <1>1, RoomAlwaysGood, PTL

\* empty_since is set exactly while nobody is in the room: gc_idle_rooms never
\* takes a room in use.
THEOREM EmptyMarkAlwaysExact == Spec => []EmptyMarkExact
<1>1. RoomInv => EmptyMarkExact
  BY DEF RoomInv, GoodRoom, Marked, EmptyMarkExact
<1> QED
  BY <1>1, RoomAlwaysGood, PTL

\* A private room lists only clients on its own list and its creator, however
\* admission, collection and re-creation interleave.
THEOREM OnlyAdmittedAlways == Spec => []OnlyAdmitted
<1>1. RoomInv => OnlyAdmitted
  BY DEF RoomInv, GoodRoom, Admitted, OnlyAdmitted
<1> QED
  BY <1>1, RoomAlwaysGood, PTL

-----------------------------------------------------------------------------
(* The limits.  No set of the model is assumed finite: those that are limited *)
(* grow by one element at a time.                                            *)

AtMost(S, n) == IsFiniteSet(S) /\ Cardinality(S) <= n

\* The devices that count against the limit of an identity.
DevicesOf(r, i) == {e \in DeviceMembers(r) : e[1] = i /\ e[2] # 0}

Limited(r) ==
  /\ AtMost(r.participants, MaxRoomSize)
  /\ AtMost(r.active, MaxSpeakers) /\ r.active \subseteq r.tracked
  /\ IsFiniteSet(r.tracked)
  /\ \A i \in Identities : AtMost(DevicesOf(r, i), MaxRoutes)

\* The empty set is within every limit.
LEMMA AtMostEmpty ==
  ASSUME NEW n \in Nat
  PROVE  AtMost({}, n)
BY FS_EmptySet DEF AtMost

\* A limit holds for subsets.
LEMMA AtMostSubset ==
  ASSUME NEW n \in Nat, NEW S, AtMost(S, n), NEW T \in SUBSET S
  PROVE  AtMost(T, n)
<1>1. IsFiniteSet(T) /\ Cardinality(T) <= Cardinality(S)
  BY FS_Subset DEF AtMost
<1>2. Cardinality(T) \in Nat /\ Cardinality(S) \in Nat
  BY <1>1, FS_CardinalityType DEF AtMost
<1> QED
  BY <1>1, <1>2 DEF AtMost

\* A set below its limit has room for one more.
LEMMA AtMostAdd ==
  ASSUME NEW n \in Nat, NEW S, AtMost(S, n), ~(Cardinality(S) >= n), NEW x
  PROVE  AtMost(S \cup {x}, n)
<1>1. Cardinality(S) \in Nat
  BY FS_CardinalityType DEF AtMost
<1>2. /\ IsFiniteSet(S \cup {x})
      /\ Cardinality(S \cup {x}) = IF x \in S THEN Cardinality(S) ELSE Cardinality(S) + 1
  BY FS_AddElement DEF AtMost
<1> QED
  BY <1>1, <1>2 DEF AtMost

\* A set at its limit stays within it when one element replaces another.
LEMMA AtMostSwap ==
  ASSUME NEW n \in Nat, NEW S, AtMost(S, n), NEW w \in S, NEW x
  PROVE  AtMost((S \ {w}) \cup {x}, n)
<1> DEFINE T == S \ {w}
<1>1. Cardinality(S) \in Nat
  BY FS_CardinalityType DEF AtMost
<1>2. IsFiniteSet(T) /\ Cardinality(T) = Cardinality(S) - 1
  BY FS_RemoveElement DEF AtMost
<1>3. AtMost(T, n) /\ ~(Cardinality(T) >= n)
  BY <1>1, <1>2 DEF AtMost
<1> HIDE DEF T
<1>4. AtMost(T \cup {x}, n)
  BY <1>3, AtMostAdd
<1> QED
  BY <1>4 DEF T

\* An absent room and a new one have nobody in them.
LEMMA EmptyRoomLimited ==
  ASSUME NEW r \in Room, r.voiceDev = {}, r.chatDev = {}, r.participants = {},
         r.active = {}, r.tracked = {}
  PROVE  Limited(r)
<1>1. \A i \in Identities : DevicesOf(r, i) = {}
  BY DEF DevicesOf, DeviceMembers
<1>2. MaxRoomSize \in Nat /\ MaxRoutes \in Nat /\ MaxSpeakers \in Nat
  BY LimitsAssumption
<1>3. AtMost({}, MaxRoomSize) /\ AtMost({}, MaxRoutes) /\ AtMost({}, MaxSpeakers)
  BY <1>2, AtMostEmpty
<1>4. IsFiniteSet({})
  BY FS_EmptySet
<1> QED
  BY <1>1, <1>3, <1>4 DEF Limited

LEMMA NoRoomLimited == Limited(NoRoom)
<1>1. /\ NoRoom \in Room /\ NoRoom.voiceDev = {} /\ NoRoom.chatDev = {}
      /\ NoRoom.participants = {} /\ NoRoom.active = {} /\ NoRoom.tracked = {}
  BY DEF NoRoom, Room
<1> QED
  BY <1>1, EmptyRoomLimited

LEMMA NewRoomLimited ==
  ASSUME NEW p \in BOOLEAN, NEW k \in Identities \cup {NoOne}
  PROVE  Limited(NewRoom(p, k))
<1> DEFINE r == NewRoom(p, k)
           s == [NoRoom EXCEPT !.exists = TRUE, !.private = p]
<1>1. /\ NoRoom \in Room /\ NoRoom.voiceDev = {} /\ NoRoom.chatDev = {}
      /\ NoRoom.participants = {} /\ NoRoom.active = {} /\ NoRoom.tracked = {}
  BY DEF NoRoom, Room
<1>2. /\ s \in Room /\ s.voiceDev = {} /\ s.chatDev = {}
      /\ s.participants = {} /\ s.active = {} /\ s.tracked = {}
  BY <1>1 DEF Room
<1>3. r = [s EXCEPT !.creator = k, !.empty = "recent"]
  BY DEF NewRoom
<1> HIDE DEF s, r
<1>4. /\ r \in Room /\ r.voiceDev = {} /\ r.chatDev = {}
      /\ r.participants = {} /\ r.active = {} /\ r.tracked = {}
  BY <1>2, <1>3 DEF Room
<1> QED
  BY <1>4, EmptyRoomLimited DEF r

\* The limits depend on nothing else of a room.
LEMMA SameLimited ==
  ASSUME NEW r, Limited(r), NEW q,
         q.voiceDev = r.voiceDev, q.chatDev = r.chatDev,
         q.participants = r.participants, q.active = r.active, q.tracked = r.tracked
  PROVE  Limited(q)
BY DEF Limited, DevicesOf, DeviceMembers

\* A change of membership leaves the speakers alone, or takes one out of both sets.
LEMMA MembershipSpeakers ==
  ASSUME NEW r \in Room, NEW e \in Endpoints, NEW v \in Flags, NEW f \in Flags
  PROVE  LET q == SetDeviceMembership(r, e, v, f) IN
         \/ q.active = r.active /\ q.tracked = r.tracked
         \/ q.active = r.active \ {e[1]} /\ q.tracked = r.tracked \ {e[1]}
<1> DEFINE V == Change(r.voiceDev, e, v)
           C == Change(r.chatDev, e, f)
           i == e[1]
           s == [r EXCEPT !.voiceDev = V, !.chatDev = C]
           t == IF i \in IdsOf(V) THEN AddParticipant(s, i) ELSE RemoveParticipant(s, i)
           q == IF i \in IdsOf(C) /\ ~(i \in IdsOf(V)) THEN Subscribe(t, i)
                                                       ELSE Unsubscribe(t, i)
           Kept(x) == \/ x.active = r.active /\ x.tracked = r.tracked
                      \/ x.active = r.active \ {i} /\ x.tracked = r.tracked \ {i}
<1>0. V \in SUBSET Endpoints /\ C \in SUBSET Endpoints /\ i \in Identities
  <2>1. r.voiceDev \in SUBSET Endpoints /\ r.chatDev \in SUBSET Endpoints
    BY DEF Room
  <2> QED
    BY <2>1, ChangeIds, EndpointType
<1>1. SetDeviceMembership(r, e, v, f) = IF Refused(r, e, v) THEN r ELSE q
  <2>1. s.voiceDev = V /\ s.chatDev = C
    BY DEF Room
  <2> QED
    BY <2>1 DEF SetDeviceMembership
<1> HIDE DEF V, C
<1>2. s \in Room /\ s.active = r.active /\ s.tracked = r.tracked
  BY <1>0 DEF Room
<1> HIDE DEF s
<1>3. t \in Room /\ Kept(t)
  <2>1. CASE i \in IdsOf(V)
    <3> DEFINE u == [s EXCEPT !.participants = @ \cup {i}, !.subscribers = @ \ {i}]
    <3>1. t = s \/ t = [u EXCEPT !.empty = "no"]
      BY <2>1 DEF AddParticipant, MarkInUse
    <3>2. u \in Room /\ u.active = r.active /\ u.tracked = r.tracked
      BY <1>0, <1>2 DEF Room
    <3> HIDE DEF u, t
    <3> QED
      BY <3>1, <3>2, <1>2 DEF Room
  <2>2. CASE i \notin IdsOf(V)
    <3> DEFINE u == [s EXCEPT !.participants = @ \ {i}]
               w == MarkUnusedIfEmpty(u)
    <3>1. t = s \/ t = [w EXCEPT !.tracked = @ \ {i}, !.active = @ \ {i}]
      BY <2>2 DEF RemoveParticipant
    <3>2. u \in Room /\ u.active = r.active /\ u.tracked = r.tracked
      BY <1>2 DEF Room
    <3> HIDE DEF u
    <3>3. w \in Room /\ w.active = r.active /\ w.tracked = r.tracked
      BY <3>2 DEF MarkUnusedIfEmpty, Room
    <3> HIDE DEF w, t
    <3>4. CASE t = s
      BY <3>4, <1>2
    <3>5. CASE t = [w EXCEPT !.tracked = @ \ {i}, !.active = @ \ {i}]
      <4>1. t \in Room /\ t.tracked = w.tracked \ {i} /\ t.active = w.active \ {i}
        BY <3>5, <3>3 DEF Room
      <4> QED
        BY <4>1, <3>3
    <3> QED
      BY <3>1, <3>4, <3>5
  <2> QED
    BY <2>1, <2>2
<1> HIDE DEF t
<1>4. q.active = t.active /\ q.tracked = t.tracked
  <2>1. CASE i \in IdsOf(C) /\ ~(i \in IdsOf(V))
    <3> DEFINE u == [t EXCEPT !.subscribers = @ \cup {i}]
    <3>1. q = t \/ q = [u EXCEPT !.empty = "no"]
      BY <2>1 DEF Subscribe, MarkInUse
    <3>2. u \in Room /\ u.active = t.active /\ u.tracked = t.tracked
      BY <1>0, <1>3 DEF Room
    <3> HIDE DEF u, q
    <3> QED
      BY <3>1, <3>2 DEF Room
  <2>2. CASE ~(i \in IdsOf(C) /\ ~(i \in IdsOf(V)))
    <3> DEFINE u == [t EXCEPT !.subscribers = @ \ {i}]
    <3>1. q = t \/ q = MarkUnusedIfEmpty(u)
      BY <2>2 DEF Unsubscribe
    <3>2. u \in Room /\ u.active = t.active /\ u.tracked = t.tracked
      BY <1>3 DEF Room
    <3> HIDE DEF u, q
    <3> QED
      BY <3>1, <3>2 DEF MarkUnusedIfEmpty, Room
  <2> QED
    BY <2>1, <2>2
<1> QED
  BY <1>1, <1>3, <1>4

\* A change of membership respects the limits: whoever does not fit is refused
\* before anything is changed.
LEMMA MembershipLimited ==
  ASSUME NEW r, GoodRoom(r), Limited(r), r.exists,
         NEW e \in Endpoints, NEW v \in Flags, NEW f \in Flags
  PROVE  Limited(SetDeviceMembership(r, e, v, f))
<1> DEFINE q == SetDeviceMembership(r, e, v, f)
           V == Change(r.voiceDev, e, v)
           C == Change(r.chatDev, e, f)
<1>0. MaxRoomSize \in Nat /\ MaxRoutes \in Nat /\ MaxSpeakers \in Nat
  BY LimitsAssumption
<1>1. CASE Refused(r, e, v)
  BY <1>1 DEF SetDeviceMembership
<1>2. CASE ~Refused(r, e, v)
  <2>1. /\ q.voiceDev = V /\ q.chatDev = C /\ q.participants = IdsOf(V)
    BY <1>2, MembershipResult
  <2>2. /\ V \subseteq r.voiceDev \cup {e} /\ C \subseteq r.chatDev \cup {e}
        /\ IdsOf(V) \ {e[1]} = IdsOf(r.voiceDev) \ {e[1]}
        /\ e[1] \in IdsOf(V) => v = "set" \/ e[1] \in IdsOf(r.voiceDev)
    <3>1. r.voiceDev \in SUBSET Endpoints /\ r.chatDev \in SUBSET Endpoints
      BY DEF GoodRoom, Room
    <3>2. V \subseteq r.voiceDev \cup {e} /\ C \subseteq r.chatDev \cup {e}
      BY DEF Change, Flags
    <3> QED
      BY <3>1, <3>2, ChangeIds
  <2>3. r \in Room /\ r.participants = IdsOf(r.voiceDev)
    BY DEF GoodRoom, Mirrors
  <2>4. \/ q.active = r.active /\ q.tracked = r.tracked
        \/ q.active = r.active \ {e[1]} /\ q.tracked = r.tracked \ {e[1]}
    BY <2>3, MembershipSpeakers
  <2> HIDE DEF q, V, C
  <2>5. AtMost(q.participants, MaxRoomSize)
    <3>1. CASE q.participants \subseteq r.participants
      BY <3>1, <1>0, AtMostSubset DEF Limited
    <3>2. CASE ~(q.participants \subseteq r.participants)
      <4>1. /\ v = "set" /\ e[1] \notin r.participants
            /\ q.participants \subseteq r.participants \cup {e[1]}
        BY <3>2, <2>1, <2>2, <2>3
      <4>2. ~(Cardinality(r.participants) >= MaxRoomSize)
        BY <4>1, <1>2 DEF Refused, IsFull
      <4>3. AtMost(r.participants \cup {e[1]}, MaxRoomSize)
        BY <4>2, <1>0, AtMostAdd DEF Limited
      <4> QED
        BY <4>1, <4>3, <1>0, AtMostSubset
    <3> QED
      BY <3>1, <3>2
  <2>6. /\ AtMost(q.active, MaxSpeakers) /\ q.active \subseteq q.tracked
        /\ IsFiniteSet(q.tracked)
    <3>1. /\ q.active \subseteq r.active /\ q.active \subseteq q.tracked
          /\ q.tracked \subseteq r.tracked
      BY <2>4 DEF Limited
    <3>2. IsFiniteSet(q.tracked)
      BY <3>1, FS_Subset DEF Limited
    <3> QED
      BY <3>1, <3>2, <1>0, AtMostSubset DEF Limited
  <2>7. ASSUME NEW i \in Identities PROVE AtMost(DevicesOf(q, i), MaxRoutes)
    <3>0. AtMost(DevicesOf(r, i), MaxRoutes)
      BY DEF Limited
    <3>1. DeviceMembers(q) \subseteq DeviceMembers(r) \cup {e}
      BY <2>1, <2>2 DEF DeviceMembers
    <3>2. CASE e \in DeviceMembers(r) \/ e[1] # i \/ e[2] = 0
      <4>1. DevicesOf(q, i) \subseteq DevicesOf(r, i)
        BY <3>1, <3>2 DEF DevicesOf
      <4> QED
        BY <4>1, <3>0, <1>0, AtMostSubset
    <3>3. CASE e \notin DeviceMembers(r) /\ e[1] = i /\ e[2] # 0
      <4>1. ~(Cardinality(DevicesOf(r, i)) >= MaxRoutes)
        BY <3>3, <1>2 DEF Refused, DevicesOf
      <4>2. AtMost(DevicesOf(r, i) \cup {e}, MaxRoutes)
        BY <4>1, <3>0, <1>0, AtMostAdd
      <4>3. DevicesOf(q, i) \subseteq DevicesOf(r, i) \cup {e}
        BY <3>1 DEF DevicesOf
      <4> QED
        BY <4>2, <4>3, <1>0, AtMostSubset
    <3> QED
      BY <3>2, <3>3
  <2> QED
    BY <2>5, <2>6, <2>7 DEF Limited, q
<1> QED
  BY <1>1, <1>2

\* Removing an identity stays within the limits.
LEMMA RemovePeerLimited ==
  ASSUME NEW r, GoodRoom(r), Limited(r), NEW i \in Identities
  PROVE  Limited(RemovePeerEntirely(r, i))
<1> DEFINE V == {e \in r.voiceDev : e[1] # i}
           C == {e \in r.chatDev : e[1] # i}
           s1 == [r EXCEPT !.voiceDev = V, !.chatDev = C]
           s == [s1 EXCEPT !.participants = @ \ {i}, !.subscribers = @ \ {i}]
           t == IF i \in r.participants
                  THEN [s EXCEPT !.tracked = @ \ {i}, !.active = @ \ {i}] ELSE s
           q == IF i \in r.participants \cup r.subscribers THEN MarkUnusedIfEmpty(t) ELSE t
<1>0. MaxRoomSize \in Nat /\ MaxRoutes \in Nat /\ MaxSpeakers \in Nat
  BY LimitsAssumption
<1>1. r \in Room /\ r.voiceDev \in SUBSET Endpoints /\ r.chatDev \in SUBSET Endpoints
  BY DEF GoodRoom, Room
<1>2. RemovePeerEntirely(r, i) = q
  <2>1. s1.voiceDev = V /\ s1.chatDev = C
    BY <1>1 DEF Room
  <2> QED
    BY <1>1 DEF RemovePeerEntirely, Room
<1>3. V \subseteq r.voiceDev /\ C \subseteq r.chatDev
  OBVIOUS
<1>4. V \in SUBSET Endpoints /\ C \in SUBSET Endpoints
  BY <1>1
<1> HIDE DEF V, C
<1>5. /\ s1 \in Room /\ s1.voiceDev = V /\ s1.chatDev = C
      /\ s1.participants = r.participants
      /\ s1.active = r.active /\ s1.tracked = r.tracked
  BY <1>1, <1>4 DEF Room
<1> HIDE DEF s1
<1>6. /\ s \in Room /\ s.voiceDev = V /\ s.chatDev = C
      /\ s.participants = r.participants \ {i}
      /\ s.active = r.active /\ s.tracked = r.tracked
  BY <1>5 DEF Room
<1> HIDE DEF s
<1>7. /\ t \in Room /\ t.voiceDev = V /\ t.chatDev = C
      /\ t.participants = r.participants \ {i}
      /\ \/ t.active = r.active /\ t.tracked = r.tracked
         \/ t.active = r.active \ {i} /\ t.tracked = r.tracked \ {i}
  BY <1>6 DEF Room
<1> HIDE DEF t
<1>8. /\ q.voiceDev = t.voiceDev /\ q.chatDev = t.chatDev
      /\ q.participants = t.participants
      /\ q.active = t.active /\ q.tracked = t.tracked
  BY <1>7 DEF MarkUnusedIfEmpty, Room
<1> HIDE DEF q
<1>9. AtMost(q.participants, MaxRoomSize)
  BY <1>0, <1>7, <1>8, AtMostSubset DEF Limited
<1>10. /\ AtMost(q.active, MaxSpeakers) /\ q.active \subseteq q.tracked
       /\ IsFiniteSet(q.tracked)
  <2>1. /\ q.active \subseteq r.active /\ q.active \subseteq q.tracked
        /\ q.tracked \subseteq r.tracked
    BY <1>7, <1>8 DEF Limited
  <2>2. IsFiniteSet(q.tracked)
    BY <2>1, FS_Subset DEF Limited
  <2> QED
    BY <2>1, <2>2, <1>0, AtMostSubset DEF Limited
<1>11. ASSUME NEW j \in Identities PROVE AtMost(DevicesOf(q, j), MaxRoutes)
  <2>1. DevicesOf(q, j) \subseteq DevicesOf(r, j)
    BY <1>3, <1>7, <1>8 DEF DevicesOf, DeviceMembers
  <2> QED
    BY <2>1, <1>0, AtMostSubset DEF Limited
<1> QED
  BY <1>2, <1>9, <1>10, <1>11 DEF Limited

\* A frame never forwards more speakers than the limit, and only tracked ones.
LEMMA AudioLimited ==
  ASSUME NEW r, GoodRoom(r), Limited(r), NEW i \in Identities,
         NEW silent \in SUBSET (r.tracked \ {i}),
         NEW q \in Forwarded(NoteAudio(r, i, silent), i)
  PROVE  Limited(q)
<1> DEFINE n == NoteAudio(r, i, silent)
           Same(x) == /\ x \in Room
                      /\ x.voiceDev = r.voiceDev /\ x.chatDev = r.chatDev
                      /\ x.participants = r.participants /\ x.tracked = n.tracked
<1>0. MaxSpeakers \in Nat
  BY LimitsAssumption
<1>1. r \in Room
  BY DEF GoodRoom
<1>2. /\ Same(n) /\ i \in n.tracked
      /\ n.active \subseteq r.active /\ n.active \subseteq n.tracked
  BY <1>1 DEF NoteAudio, Room
<1>3. AtMost(n.active, MaxSpeakers)
  BY <1>0, <1>2, AtMostSubset DEF Limited
<1>4. IsFiniteSet(n.tracked)
  <2>1. IsFiniteSet(r.tracked \cup {i})
    BY FS_AddElement DEF Limited
  <2>2. n.tracked \subseteq r.tracked \cup {i}
    BY <1>1 DEF NoteAudio, Room
  <2> QED
    BY <2>1, <2>2, FS_Subset
<1> HIDE DEF n
<1>5. Same(q) /\ AtMost(q.active, MaxSpeakers) /\ q.active \subseteq n.tracked
  <2>1. CASE i \in n.active
    <3>1. q = [n EXCEPT !.active = @ \cup {i}]
      BY <2>1 DEF Forwarded, n
    <3>2. q.active = n.active /\ Same(q)
      BY <3>1, <2>1, <1>2 DEF Room
    <3> QED
      BY <3>2, <1>2, <1>3
  <2>2. CASE i \notin n.active /\ Cardinality(n.active) < MaxSpeakers
    <3>1. q = [n EXCEPT !.active = @ \cup {i}]
      BY <2>2 DEF Forwarded, n
    <3>2. q.active = n.active \cup {i} /\ Same(q)
      BY <3>1, <1>2 DEF Room
    <3>3. ~(Cardinality(n.active) >= MaxSpeakers)
      BY <2>2, <1>0, <1>3, FS_CardinalityType DEF AtMost
    <3>4. AtMost(n.active \cup {i}, MaxSpeakers)
      BY <3>3, <1>0, <1>3, AtMostAdd
    <3> QED
      BY <3>2, <3>4, <1>2
  <2>3. CASE ~(i \in n.active \/ Cardinality(n.active) < MaxSpeakers)
    <3>1. q = n \/ \E w \in n.active : q = [n EXCEPT !.active = (@ \ {w}) \cup {i}]
      BY <2>3 DEF Forwarded, n
    <3>2. CASE q = n
      BY <3>2, <1>2, <1>3
    <3>3. CASE \E w \in n.active : q = [n EXCEPT !.active = (@ \ {w}) \cup {i}]
      <4>1. PICK w \in n.active : q = [n EXCEPT !.active = (@ \ {w}) \cup {i}]
        BY <3>3
      <4>2. (n.active \ {w}) \cup {i} \in SUBSET Identities
        BY <1>2 DEF Room
      <4>3. q.active = (n.active \ {w}) \cup {i} /\ Same(q)
        BY <4>1, <4>2, <1>2 DEF Room
      <4>4. AtMost((n.active \ {w}) \cup {i}, MaxSpeakers)
        BY <1>0, <1>3, AtMostSwap
      <4> QED
        BY <4>3, <4>4, <1>2
    <3> QED
      BY <3>1, <3>2, <3>3
  <2> QED
    BY <2>1, <2>2, <2>3
<1>6. \A j \in Identities : DevicesOf(q, j) = DevicesOf(r, j)
  BY <1>5 DEF DevicesOf, DeviceMembers
<1> QED
  BY <1>4, <1>5, <1>6 DEF Limited

LimitInv == Limited(room)

\* Every step of a handler stays within the limits.
LEMMA HandleLimited ==
  ASSUME RoomInv, LimitInv, NEW c \in Conns, Handle(c)
  PROVE  LimitInv'
<1> USE ConnType, CreatorAssumption
<1>0. GoodRoom(room) /\ Limited(room) /\ room \in Room
  BY DEF RoomInv, LimitInv, GoodRoom
<1>1. CASE Materialise(c)
  <2> DEFINE q == [room EXCEPT !.creator = IF @ = NoOne THEN Creator ELSE @]
  <2>1. room' = IF room.exists THEN q ELSE NewRoom(Private, Creator)
    BY <1>1 DEF Materialise, Become
  <2>2. /\ q.voiceDev = room.voiceDev /\ q.chatDev = room.chatDev
        /\ q.participants = room.participants
        /\ q.active = room.active /\ q.tracked = room.tracked
    BY <1>0 DEF Room
  <2> HIDE DEF q
  <2>3. Limited(q)
    BY <1>0, <2>2, SameLimited
  <2> QED
    BY <2>1, <2>3, NewRoomLimited DEF LimitInv
<1>2. CASE Admit(c)
  <2> DEFINE r == IF room.exists THEN room ELSE NewRoom(Private, NoOne)
             q == AllowPeer(r, IdOf(c))
  <2>1. Limited(r) /\ r \in Room
    BY <1>0, NewRoomLimited, NewRoomGood DEF GoodRoom
  <2>2. room' = q
    BY <1>2 DEF Admit, Become
  <2> HIDE DEF r
  <2>3. /\ q.voiceDev = r.voiceDev /\ q.chatDev = r.chatDev
        /\ q.participants = r.participants
        /\ q.active = r.active /\ q.tracked = r.tracked
    BY <2>1 DEF AllowPeer, Room
  <2> HIDE DEF q
  <2> QED
    BY <2>1, <2>2, <2>3, SameLimited DEF LimitInv
<1>3. CASE Allow(c)
  <2> DEFINE q == AllowPeer(room, IdOf(c))
  <2>1. room' = q \/ room' = room
    BY <1>3 DEF Allow, Become
  <2>2. /\ q.voiceDev = room.voiceDev /\ q.chatDev = room.chatDev
        /\ q.participants = room.participants
        /\ q.active = room.active /\ q.tracked = room.tracked
    BY <1>0 DEF AllowPeer, Room
  <2> HIDE DEF q
  <2>3. Limited(q)
    BY <1>0, <2>2, SameLimited
  <2> QED
    BY <1>0, <2>1, <2>3 DEF LimitInv
<1>4. CASE \E step \in {"create", "createWithToken"} : Create(c, step)
  BY <1>4, NewRoomLimited DEF Create, Become, LimitInv
<1>5. CASE Join(c) \/ SfuSubscribe(c)
  <2>1. room' = room
          \/ /\ room.exists
             /\ \E v, f \in Flags : room' = SetDeviceMembership(room, EndOf[c], v, f)
    BY <1>5 DEF Join, SfuSubscribe, Become, Flags
  <2> QED
    BY <1>0, <2>1, MembershipLimited DEF LimitInv
<1>6. CASE Leaving(c) \/ ReadRoster(c) \/ \E p \in Identities : Deliver(c, p)
  BY <1>6 DEF Leaving, ReadRoster, Deliver, Become, LimitInv
<1>7. CASE Leave(c)
  <2> DEFINE q == SetDeviceMembership(room, EndOf[c], "clear", "keep")
             r == IF room.exists THEN MarkUnusedIfEmpty(q) ELSE room
  <2>1. room.exists => GoodRoom(q) /\ q.exists /\ Limited(q)
    BY <1>0, SetDeviceMembershipGood, MembershipLimited DEF Flags
  <2>2. room' = DropIfAnonymous(r)
    BY <1>7 DEF Leave, Become
  <2>3. Limited(r)
    BY <1>0, <2>1, MarkUnusedGood
  <2> HIDE DEF r
  <2> QED
    BY <2>2, <2>3, NoRoomLimited DEF LimitInv, DropIfAnonymous
<1>8. CASE SfuUnsubscribe(c)
  <2>1. room' = IF room.exists
                  THEN SetDeviceMembership(room, EndOf[c], "keep", "clear") ELSE room
    BY <1>8 DEF SfuUnsubscribe, Become
  <2> QED
    BY <1>0, <2>1, MembershipLimited DEF LimitInv, Flags
<1>9. CASE Audio(c)
  <2>1. PICK silent \in SUBSET (room.tracked \ {IdOf(c)}) :
          \E r \in IF room.exists
                    THEN Forwarded(NoteAudio(room, IdOf(c), silent), IdOf(c)) ELSE {room} :
            room' = r
    BY <1>9 DEF Audio, Become
  <2>2. CASE room.exists
    <3>1. room' \in Forwarded(NoteAudio(room, IdOf(c), silent), IdOf(c))
      BY <2>1, <2>2
    <3> QED
      BY <1>0, <3>1, AudioLimited DEF LimitInv
  <2>3. CASE ~room.exists
    BY <1>0, <2>1, <2>3 DEF LimitInv
  <2> QED
    BY <2>2, <2>3
<1>10. CASE DropEndpoint(c)
  <2>1. room' = room
          \/ /\ EndOf[c] \in DeviceMembers(room)
             /\ room' = SetDeviceMembership(room, EndOf[c], "clear", "clear")
    BY <1>10 DEF DropEndpoint, Become
  <2> QED
    BY <1>0, <2>1, InRoomExists, MembershipLimited DEF LimitInv, Flags
<1>11. CASE \E step \in {"dropPeer", "dropPeerIfGone"} : DropPeer(c, step)
  <2>1. room' = room \/ room' = DropIfAnonymous(RemovePeerEntirely(room, IdOf(c)))
    BY <1>11 DEF DropPeer, Become
  <2>2. Limited(RemovePeerEntirely(room, IdOf(c)))
    BY <1>0, RemovePeerLimited
  <2> QED
    BY <1>0, <2>1, <2>2, NoRoomLimited DEF LimitInv, DropIfAnonymous
<1> QED
  BY <1>1, <1>2, <1>3, <1>4, <1>5, <1>6, <1>7, <1>8, <1>9, <1>10, <1>11 DEF Handle

\* The limits hold in every reachable state.
LEMMA LimitAlways == Spec => []LimitInv
<1>1. Init => LimitInv
  BY NoRoomLimited DEF Init, LimitInv
<1>2. RoomInv /\ LimitInv /\ [Next]_vars => LimitInv'
  <2>1. SUFFICES ASSUME RoomInv, LimitInv, [Next]_vars PROVE LimitInv'
    OBVIOUS
  <2>2. CASE \E c \in Conns :
               \/ Connect(c) \/ CloseWs(c) \/ CloseQuic(c)
               \/ \E h \in Messages : Receive(c, h)
    BY <2>1, <2>2 DEF Connect, CloseWs, CloseQuic, Receive, LimitInv
  <2>3. CASE \E c \in Conns : Handle(c)
    BY <2>1, <2>3, HandleLimited
  <2>4. CASE TimePasses
    <3>1. room \in Room /\ room' = [room EXCEPT !.empty = "long"]
      BY <2>1, <2>4 DEF TimePasses, RoomInv, GoodRoom
    <3>2. /\ room'.voiceDev = room.voiceDev /\ room'.chatDev = room.chatDev
          /\ room'.participants = room.participants
          /\ room'.active = room.active /\ room'.tracked = room.tracked
      BY <3>1 DEF Room
    <3> QED
      BY <2>1, <3>2, SameLimited DEF LimitInv
  <2>5. CASE GcIdleRooms
    BY <2>5, NoRoomLimited DEF GcIdleRooms, LimitInv
  <2>6. CASE ApplyRoomRoster
    BY <2>6, NewRoomLimited, CreatorAssumption DEF ApplyRoomRoster, LimitInv
  <2>7. CASE UNCHANGED vars
    BY <2>1, <2>7 DEF vars, LimitInv
  <2> QED
    BY <2>1, <2>2, <2>3, <2>4, <2>5, <2>6, <2>7 DEF Next
<1> QED
  BY <1>1, <1>2, RoomAlwaysGood, PTL DEF Spec

\* MAX_ROOM_SIZE, MAX_LIVE_DEVICE_ROUTES and MAX_ACTIVE_SPEAKERS hold of every room,
\* for any limits and any number of clients, though they are looked at only when one
\* device changes and cleanups of others are under way.
THEOREM AlwaysWithinLimits == Spec => []WithinLimits
<1>1. LimitInv => WithinLimits
  BY DEF LimitInv, Limited, AtMost, DevicesOf, WithinLimits
<1> QED
  BY <1>1, LimitAlways, PTL


\* A frame that is not forwarded leaves its sender beside a full set of others.
LEMMA AudioUnaffected ==
  ASSUME NEW r, GoodRoom(r), Limited(r), NEW i \in Identities,
         NEW silent \in SUBSET (r.tracked \ {i}),
         NEW q \in Forwarded(NoteAudio(r, i, silent), i), i \notin q.active
  PROVE  Cardinality(q.tracked) > MaxSpeakers
<1> DEFINE n == NoteAudio(r, i, silent)
<1>1. r \in Room /\ MaxSpeakers \in Nat
  BY LimitsAssumption DEF GoodRoom
<1>2. n \in Room /\ i \in n.tracked
  BY <1>1 DEF NoteAudio, Room
<1> HIDE DEF n
<1>3. i \notin n.active /\ ~(Cardinality(n.active) < MaxSpeakers) /\ q = n
  <2>1. ASSUME NEW S, q = [n EXCEPT !.active = S \cup {i}] PROVE FALSE
    BY <1>2, <2>1 DEF Room
  <2> QED
    BY <2>1 DEF Forwarded, n
<1>4. Limited(q)
  BY AudioLimited
<1>5. /\ IsFiniteSet(q.tracked) /\ IsFiniteSet(q.active) /\ q.active \subseteq q.tracked
      /\ q.active \in SUBSET (q.tracked \ {i})
  BY <1>4, <1>3 DEF Limited, AtMost
<1>6. IsFiniteSet(q.tracked \ {i}) /\ Cardinality(q.tracked \ {i}) = Cardinality(q.tracked) - 1
  BY <1>2, <1>3, <1>5, FS_RemoveElement
<1>7. Cardinality(q.active) <= Cardinality(q.tracked \ {i})
  BY <1>5, <1>6, FS_Subset
<1>8. Cardinality(q.active) \in Nat /\ Cardinality(q.tracked) \in Nat
  BY <1>5, FS_CardinalityType
<1> QED
  BY <1>1, <1>3, <1>6, <1>7, <1>8

Unaffected ==
  \A c \in Conns :
    Audio(c) /\ room.exists /\ IdOf(c) \notin room'.active
      => Cardinality(room'.tracked) > MaxSpeakers

\* Rooms with at most MAX_ACTIVE_SPEAKERS talkers are unaffected, for every limit:
\* a frame is dropped only while more than that many have a score, though scores
\* and places are taken away by leaves, disconnects and silence at any moment.
THEOREM SpeakersAlwaysUnaffected == Spec => SpeakersUnaffected
<1>1. RoomInv /\ LimitInv => Unaffected
  <2> SUFFICES ASSUME RoomInv, LimitInv, NEW c \in Conns, Audio(c), room.exists,
                      IdOf(c) \notin room'.active
               PROVE  Cardinality(room'.tracked) > MaxSpeakers
    BY DEF Unaffected
  <2>1. PICK silent \in SUBSET (room.tracked \ {IdOf(c)}) :
          room' \in Forwarded(NoteAudio(room, IdOf(c), silent), IdOf(c))
    BY DEF Audio, Become
  <2> QED
    BY <2>1, ConnType, AudioUnaffected DEF RoomInv, LimitInv
<1>2. RoomInv /\ LimitInv /\ [Next]_vars => [Unaffected]_vars
  BY <1>1
<1>3. Spec => [][Unaffected]_vars
  BY <1>2, RoomAlwaysGood, LimitAlways, PTL DEF Spec
<1> QED
  BY <1>3 DEF SpeakersUnaffected, Unaffected

-----------------------------------------------------------------------------
(* The connection tables.                                                    *)

Routes == [Kinds -> [Endpoints -> Conns \cup {NoConn}]]

\* The identities with a socket.
Online(rt) == {i \in Identities : HasRoute(rt, "ws", i)}

\* The clients counted are the clients online, of whom there are finitely many.
CountInv ==
  /\ route \in Routes
  /\ IsFiniteSet(Online(route)) /\ connected = Cardinality(Online(route))

\* Registering a connection brings its own identity online, and nobody else.
LEMMA OnlineAfterConnect ==
  ASSUME NEW rt \in Routes, NEW c \in Conns
  PROVE  LET after == [rt EXCEPT !["ws"][EndOf[c]] = c]
         IN  after \in Routes /\ Online(after) = Online(rt) \cup {IdOf(c)}
<1> DEFINE e == EndOf[c]
           after == [rt EXCEPT !["ws"][e] = c]
<1>1. e \in Endpoints /\ IdOf(c) = e[1] /\ IdOf(c) \in Identities
  BY ConnType
<1>2. after \in Routes
  BY <1>1 DEF Routes, Kinds
<1>3. \A d \in Endpoints : after["ws"][d] = IF d = e THEN c ELSE rt["ws"][d]
  BY <1>1 DEF Routes, Kinds
<1>4. c # NoConn
  BY NoConnAssumption
<1> HIDE DEF after
<1>5. \A i \in Identities : HasRoute(after, "ws", i) <=> HasRoute(rt, "ws", i) \/ i = e[1]
  BY <1>1, <1>3, <1>4 DEF HasRoute
<1> HIDE DEF e
<1> QED
  BY <1>1, <1>2, <1>5 DEF Online, after, e

\* Removing a connection takes its identity offline, or nobody.
LEMMA OnlineAfterClose ==
  ASSUME NEW rt \in Routes, NEW c \in Conns, rt["ws"][EndOf[c]] = c
  PROVE  LET after == [rt EXCEPT !["ws"][EndOf[c]] = NoConn]
         IN  /\ after \in Routes /\ IdOf(c) \in Online(rt)
             /\ Online(after) = IF HasRoute(after, "ws", IdOf(c))
                                  THEN Online(rt) ELSE Online(rt) \ {IdOf(c)}
<1> DEFINE e == EndOf[c]
           after == [rt EXCEPT !["ws"][e] = NoConn]
<1>1. e \in Endpoints /\ IdOf(c) = e[1] /\ IdOf(c) \in Identities
  BY ConnType
<1>2. after \in Routes
  BY <1>1 DEF Routes, Kinds
<1>3. \A d \in Endpoints : after["ws"][d] = IF d = e THEN NoConn ELSE rt["ws"][d]
  BY <1>1 DEF Routes, Kinds
<1>4. c # NoConn /\ rt["ws"][e] = c
  BY NoConnAssumption
<1> HIDE DEF after
<1>5. HasRoute(rt, "ws", e[1])
  BY <1>1, <1>4 DEF HasRoute
<1>6. \A i \in Identities \ {e[1]} : HasRoute(after, "ws", i) <=> HasRoute(rt, "ws", i)
  BY <1>1, <1>3 DEF HasRoute
<1> HIDE DEF e
<1>7. IdOf(c) \in Online(rt)
  BY <1>1, <1>5 DEF Online
<1>8. Online(after) = IF HasRoute(after, "ws", IdOf(c))
                        THEN Online(rt) ELSE Online(rt) \ {IdOf(c)}
  BY <1>1, <1>5, <1>6 DEF Online
<1> QED
  BY <1>2, <1>7, <1>8 DEF after, e

\* The relay's streams have no part in the count.
LEMMA OnlineWithoutQuic ==
  ASSUME NEW rt \in Routes, NEW e \in Endpoints, NEW x \in Conns \cup {NoConn}
  PROVE  LET after == [rt EXCEPT !["quic"][e] = x]
         IN  after \in Routes /\ Online(after) = Online(rt)
<1> DEFINE after == [rt EXCEPT !["quic"][e] = x]
<1>1. after \in Routes /\ after["ws"] = rt["ws"]
  BY DEF Routes, Kinds
<1> HIDE DEF after
<1>2. Online(after) = Online(rt)
  BY <1>1 DEF Online, HasRoute
<1> QED
  BY <1>1, <1>2 DEF after

\* A new connection is counted if it is the identity's first socket.
LEMMA ConnectCounts ==
  ASSUME CountInv, NEW c \in Conns, Connect(c)
  PROVE  CountInv'
<1> DEFINE e == EndOf[c]
           k == KindOf[c]
<1>1. e \in Endpoints /\ k \in {"ws", "quic"} /\ IdOf(c) = e[1] /\ e[1] \in Identities
  BY ConnType, ConnsAssumption
<1>2. CASE AtRouteLimit(k, e)
  <2>1. route' = route /\ connected' = connected
    BY <1>2 DEF Connect
  <2> QED
    BY <2>1 DEF CountInv
<1>3. CASE ~AtRouteLimit(k, e)
  <2>1. /\ route' = [route EXCEPT ![k][e] = c]
        /\ connected' = IF k = "ws" /\ ~HasRoute(route, "ws", e[1])
                          THEN connected + 1 ELSE connected
    BY <1>3 DEF Connect
  <2>2. CASE k = "quic"
    <3>0. route' = [route EXCEPT !["quic"][e] = c]
      BY <2>1, <2>2
    <3>1. route' \in Routes /\ Online(route') = Online(route)
      BY <1>1, <3>0, OnlineWithoutQuic DEF CountInv
    <3>2. connected' = connected
      BY <2>1, <2>2
    <3> QED
      BY <3>1, <3>2 DEF CountInv
  <2>3. CASE k = "ws"
    <3>1. route' \in Routes /\ Online(route') = Online(route) \cup {e[1]}
      BY <1>1, <2>1, <2>3, OnlineAfterConnect DEF CountInv
    <3>2. e[1] \in Online(route) <=> HasRoute(route, "ws", e[1])
      BY <1>1 DEF Online
    <3>3. /\ IsFiniteSet(Online(route) \cup {e[1]})
          /\ Cardinality(Online(route) \cup {e[1]}) =
               IF e[1] \in Online(route) THEN Cardinality(Online(route))
                                         ELSE Cardinality(Online(route)) + 1
      BY FS_AddElement DEF CountInv
    <3>4. connected' = Cardinality(Online(route) \cup {e[1]})
      BY <2>1, <2>3, <3>2, <3>3 DEF CountInv
    <3> QED
      BY <3>1, <3>3, <3>4 DEF CountInv
  <2> QED
    BY <1>1, <2>2, <2>3
<1> QED
  BY <1>2, <1>3

\* A socket that closes is discounted if it is still registered and the identity's
\* last; the decrement never meets its saturation.
LEMMA CloseWsCounts ==
  ASSUME CountInv, NEW c \in Conns, CloseWs(c)
  PROVE  CountInv'
<1> DEFINE e == EndOf[c]
           mine == route["ws"][e] = c
           after == IF mine THEN [route EXCEPT !["ws"][e] = NoConn] ELSE route
           gone == mine /\ ~HasRoute(after, "ws", e[1])
<1>1. e \in Endpoints /\ IdOf(c) = e[1] /\ e[1] \in Identities
  BY ConnType
<1>2. /\ route' = after
      /\ connected' = IF gone /\ connected > 0 THEN connected - 1 ELSE connected
  BY DEF CloseWs
<1>3. CASE ~mine
  BY <1>2, <1>3 DEF CountInv
<1>4. CASE mine
  <2>1. /\ after \in Routes /\ e[1] \in Online(route)
        /\ Online(after) = IF HasRoute(after, "ws", e[1])
                             THEN Online(route) ELSE Online(route) \ {e[1]}
    BY <1>1, <1>4, OnlineAfterClose DEF CountInv
  <2> HIDE DEF after
  <2>2. CASE HasRoute(after, "ws", e[1])
    <3>1. Online(after) = Online(route) /\ connected' = connected
      BY <1>2, <2>1, <2>2
    <3> QED
      BY <1>2, <2>1, <3>1 DEF CountInv
  <2>3. CASE ~HasRoute(after, "ws", e[1])
    <3>1. /\ IsFiniteSet(Online(route) \ {e[1]})
          /\ Cardinality(Online(route) \ {e[1]}) = Cardinality(Online(route)) - 1
      BY <2>1, FS_RemoveElement DEF CountInv
    <3>2. /\ Cardinality(Online(route) \ {e[1]}) \in Nat
          /\ Cardinality(Online(route)) \in Nat
      BY <3>1, FS_CardinalityType DEF CountInv
    <3>3. connected > 0
      BY <3>1, <3>2 DEF CountInv
    <3>4. connected' = connected - 1
      BY <1>2, <1>4, <2>3, <3>3
    <3> QED
      BY <1>2, <2>1, <2>3, <3>1, <3>4 DEF CountInv
  <2> QED
    BY <2>2, <2>3
<1> QED
  BY <1>3, <1>4

\* A stream of the relay that closes is not counted.
LEMMA CloseQuicCounts ==
  ASSUME CountInv, NEW c \in Conns, CloseQuic(c)
  PROVE  CountInv'
<1>1. EndOf[c] \in Endpoints
  BY ConnType
<1>2. /\ connected' = connected
      /\ route' = route \/ route' = [route EXCEPT !["quic"][EndOf[c]] = NoConn]
  BY DEF CloseQuic
<1>3. route' \in Routes /\ Online(route') = Online(route)
  BY <1>1, <1>2, OnlineWithoutQuic DEF CountInv
<1> QED
  BY <1>2, <1>3 DEF CountInv

\* connected_count is the number of identities with a socket, however devices
\* connect, replace each other, are refused and close: it does not drift.
LEMMA CountAlways == Spec => []CountInv
<1>1. Init => CountInv
  <2>1. SUFFICES ASSUME Init PROVE CountInv
    OBVIOUS
  <2>2. route \in Routes /\ connected = 0
    BY <2>1 DEF Init, Routes
  <2>3. Online(route) = {}
    BY <2>1 DEF Init, Online, HasRoute, Kinds
  <2> QED
    BY <2>2, <2>3, FS_EmptySet DEF CountInv
<1>2. CountInv /\ [Next]_vars => CountInv'
  <2>1. SUFFICES ASSUME CountInv, [Next]_vars PROVE CountInv'
    OBVIOUS
  <2>2. CASE \E c \in Conns : Connect(c)
    BY <2>1, <2>2, ConnectCounts
  <2>3. CASE \E c \in Conns : CloseWs(c)
    BY <2>1, <2>3, CloseWsCounts
  <2>4. CASE \E c \in Conns : CloseQuic(c)
    BY <2>1, <2>4, CloseQuicCounts
  <2>5. CASE UNCHANGED <<route, connected>>
    BY <2>1, <2>5 DEF CountInv
  <2>6. ASSUME NEW c \in Conns, Handle(c) \/ \E h \in Messages : Receive(c, h)
        PROVE  UNCHANGED <<route, connected>>
    BY <2>6 DEF Handle, Receive, Materialise, Admit, Allow, Create, Join, Leaving, Leave,
      SfuSubscribe, SfuUnsubscribe, Audio, DropEndpoint, DropPeer, ReadRoster, Deliver,
      Others
  <2>7. TimePasses \/ GcIdleRooms \/ ApplyRoomRoster \/ UNCHANGED vars
          => UNCHANGED <<route, connected>>
    BY DEF TimePasses, GcIdleRooms, ApplyRoomRoster, vars
  <2> QED
    BY <2>1, <2>2, <2>3, <2>4, <2>5, <2>6, <2>7 DEF Next
<1> QED
  BY <1>1, <1>2, PTL DEF Spec

\* connected_count never drifts from the number of identities with a socket, however
\* devices connect, replace each other, are refused and close, and its saturating
\* decrement never saturates.
THEOREM ConnectedCountAlwaysExact == Spec => []ConnectedCountExact
<1>1. CountInv => ConnectedCountExact
  BY DEF CountInv, Online, ConnectedCountExact
<1> QED
  BY <1>1, CountAlways, PTL

-----------------------------------------------------------------------------
(* Types.                                                                    *)

\* What a task has to do; an announcement says what it is about.
Task == {m \in Item : m.step = "send" => m.kind # ""}

TasksType ==
  /\ status \in [Conns -> {"new", "open", "closed"}]
  /\ todo \in [Conns -> Seq(Task)]
  /\ view \in [Endpoints -> SUBSET Identities]
  /\ joined \in [Conns -> BOOLEAN]
  /\ commands \in 0 .. MaxCommands

\* A message starts a sequence of known steps.
LEMMA HandlerType ==
  ASSUME NEW h \in Messages
  PROVE  h \in Seq(Steps)
<1>0. /\ \A a \in Steps : <<a>> \in Seq(Steps)
      /\ \A a, b \in Steps : <<a, b>> \in Seq(Steps)
      /\ <<>> \in Seq(Steps)
  OBVIOUS
<1>00. /\ "materialise" \in Steps /\ "admit" \in Steps /\ "allow" \in Steps
       /\ "create" \in Steps /\ "createWithToken" \in Steps /\ "leaving" \in Steps
       /\ "subscribe" \in Steps /\ "unsubscribe" \in Steps /\ "audio" \in Steps
       /\ "join" \in Steps
  BY DEF Steps
<1>1. \A s \in SpaceProof : s \in Seq(Steps)
  BY <1>0, <1>00 DEF SpaceProof
<1>2. \A t \in InviteToken : t \in Seq(Steps)
  BY <1>0, <1>00 DEF InviteToken
<1>3. <<"join">> \in Seq(Steps)
  BY <1>0, <1>00
<1>4. CASE \E s \in SpaceProof, t \in InviteToken : h = s \o t \o <<"join">>
  <2>1. PICK s \in SpaceProof, t \in InviteToken : h = s \o t \o <<"join">>
    BY <1>4
  <2>2. s \in Seq(Steps) /\ t \in Seq(Steps)
    BY <1>1, <1>2
  <2>3. s \o t \in Seq(Steps)
    BY <2>2
  <2> QED
    BY <2>1, <2>3, <1>3
<1>5. CASE h \in SpaceProof
  BY <1>1, <1>5
<1>6. CASE h \in {<<"create">>, <<"createWithToken">>, <<"allow">>, <<"leaving">>,
                  <<"subscribe">>, <<"unsubscribe">>, <<"audio">>}
  BY <1>0, <1>00, <1>6
<1>7. CASE h = <<"materialise", "allow">>
  BY <1>0, <1>00, <1>7
<1> QED
  BY <1>4, <1>5, <1>6, <1>7, MessagesAssumption DEF Handlers

\* A step of a task.
LEMMA DoType ==
  ASSUME NEW s \in Steps
  PROVE  Do(s) \in Task
BY DEF Do, Task, Item, Steps

\* An announcement.
LEMMA SendType ==
  ASSUME NEW k \in {"members", "joined", "left"}, NEW p \in SUBSET Identities,
         NEW to \in SUBSET Identities
  PROVE  Send(k, p, to) \in Seq(Task)
<1> DEFINE m == [step |-> "send", kind |-> k, peer |-> p, to |-> to]
<1>1. m \in Task
  BY DEF Task, Item
<1> HIDE DEF m
<1>2. <<m>> \in Seq(Task)
  BY <1>1
<1> QED
  BY <1>2 DEF Send, m

\* What a task goes on with.
LEMMA BecomeType ==
  ASSUME TasksType, NEW c \in Conns, todo[c] # <<>>, NEW r,
         NEW more \in Seq(Task), Become(c, r, more)
  PROVE  todo' \in [Conns -> Seq(Task)]
<1>1. todo[c] \in Seq(Task) /\ Tail(todo[c]) \in Seq(Task)
  BY DEF TasksType
<1>2. more \o Tail(todo[c]) \in Seq(Task)
  BY <1>1
<1> QED
  BY <1>2 DEF Become, TasksType

\* The steps that follow a change of the room.
LEMMA FollowUpType ==
  ASSUME NEW k \in {"joined", "left"}, NEW p \in SUBSET Identities,
         NEW to \in SUBSET Identities
  PROVE  /\ <<>> \in Seq(Task) /\ <<Do("broadcast")>> \in Seq(Task)
         /\ <<Do("allow")>> \in Seq(Task) /\ <<Do("leave")>> \in Seq(Task)
         /\ Send(k, p, to) \o <<Do("broadcast")>> \in Seq(Task)
         /\ <<>> \o <<Do("broadcast")>> \in Seq(Task)
         /\ <<Do("first")>> \o Send(k, p, to) \o <<Do("broadcast")>> \in Seq(Task)
<1>1. /\ Do("broadcast") \in Task /\ Do("allow") \in Task
      /\ Do("leave") \in Task /\ Do("first") \in Task
  BY DoType DEF Steps
<1>2. Send(k, p, to) \in Seq(Task)
  BY SendType
<1> QED
  BY <1>1, <1>2

\* A change of the room keeps it a room with identities in it.
LEMMA RosterType ==
  ASSUME NEW r, GoodRoom(r)
  PROVE  ChatRecipients(r) \in SUBSET Identities /\ r.participants \in SUBSET Identities
BY DEF GoodRoom, Room, ChatRecipients

\* Every step of a handler leaves a well-formed task.
LEMMA HandleTypes ==
  ASSUME RoomInv, TasksType, NEW c \in Conns, Handle(c)
  PROVE  todo' \in [Conns -> Seq(Task)]
<1> USE ConnType
<1>0. IdOf(c) \in Identities /\ {IdOf(c)} \in SUBSET Identities /\ GoodRoom(room)
  BY DEF RoomInv
<1>00. <<>> \in Seq(Task) /\ <<Do("broadcast")>> \in Seq(Task)
       /\ <<Do("allow")>> \in Seq(Task) /\ <<Do("leave")>> \in Seq(Task)
  BY <1>0, FollowUpType
<1>1. CASE Materialise(c)
  <2>1. PICK r : Become(c, r, <<>>)
    BY <1>1 DEF Materialise
  <2> QED
    BY <1>1, <1>00, <2>1, BecomeType DEF Materialise, Take
<1>2. CASE Admit(c)
  <2>1. PICK r : Become(c, r, <<>>)
    BY <1>2 DEF Admit
  <2> QED
    BY <1>2, <1>00, <2>1, BecomeType DEF Admit, Take
<1>3. CASE Allow(c)
  <2>1. PICK r : Become(c, r, <<>>)
    BY <1>3 DEF Allow
  <2> QED
    BY <1>3, <1>00, <2>1, BecomeType DEF Allow, Take
<1>4. CASE \E step \in {"create", "createWithToken"} : Create(c, step)
  <2>1. todo[c] # <<>>
    BY <1>4 DEF Create, Take
  <2>2. \E r : Become(c, r, <<>>) \/ Become(c, r, <<Do("allow")>>)
    BY <1>4 DEF Create
  <2> QED
    BY <1>00, <2>1, <2>2, BecomeType
<1>5. CASE Join(c)
  <2> DEFINE to(r) == r.participants \ {IdOf(c)}
             more(r) == <<Do("first")>> \o Send("joined", {IdOf(c)}, to(r))
                                        \o <<Do("broadcast")>>
  <2>1. todo[c] # <<>>
    BY <1>5 DEF Join, Take
  <2>2. Become(c, room', <<>>) \/ Become(c, room', more(room'))
    BY <1>5 DEF Join, Become
  <2>3. to(room') \in SUBSET Identities
    BY HandleGood, RosterType DEF RoomInv
  <2>4. more(room') \in Seq(Task)
    BY <1>0, <2>3, FollowUpType
  <2> HIDE DEF more
  <2> QED
    BY <1>00, <2>1, <2>2, <2>4, BecomeType
<1>6. CASE Leaving(c)
  <2>1. todo[c] # <<>>
    BY <1>6 DEF Leaving, Take
  <2>2. Become(c, room, <<>>) \/ Become(c, room, <<Do("leave")>>)
    BY <1>6 DEF Leaving
  <2> QED
    BY <1>00, <2>1, <2>2, BecomeType
<1>7. CASE Leave(c)
  <2> DEFINE q == SetDeviceMembership(room, EndOf[c], "clear", "keep")
             r == IF room.exists THEN MarkUnusedIfEmpty(q) ELSE room
             s == Send("left", {IdOf(c)}, r.participants)
  <2>1. todo[c] # <<>>
    BY <1>7 DEF Leave, Take
  <2>2. \/ Become(c, DropIfAnonymous(r), <<>> \o <<Do("broadcast")>>)
        \/ Become(c, DropIfAnonymous(r), s \o <<Do("broadcast")>>)
    BY <1>7 DEF Leave
  <2>3. r.participants \in SUBSET Identities
    <3>1. room.exists => GoodRoom(q) /\ q.exists
      BY <1>0, SetDeviceMembershipGood DEF Flags
    <3>2. GoodRoom(r)
      BY <1>0, <3>1, MarkUnusedGood
    <3> QED
      BY <3>2, RosterType
  <2>4. /\ <<>> \o <<Do("broadcast")>> \in Seq(Task)
        /\ s \o <<Do("broadcast")>> \in Seq(Task)
    BY <1>0, <2>3, FollowUpType
  <2> HIDE DEF r, s
  <2> QED
    BY <2>1, <2>2, <2>4, BecomeType
<1>8. CASE SfuSubscribe(c)
  <2>1. todo[c] # <<>>
    BY <1>8 DEF SfuSubscribe, Take
  <2>2. \E r : Become(c, r, <<>>) \/ Become(c, r, <<Do("broadcast")>>)
    BY <1>8 DEF SfuSubscribe
  <2> QED
    BY <1>00, <2>1, <2>2, BecomeType
<1>9. CASE SfuUnsubscribe(c)
  <2>1. todo[c] # <<>>
    BY <1>9 DEF SfuUnsubscribe, Take
  <2>2. \E r : Become(c, r, <<Do("broadcast")>>)
    BY <1>9 DEF SfuUnsubscribe
  <2> QED
    BY <1>00, <2>1, <2>2, BecomeType
<1>10. CASE Audio(c)
  <2>1. todo[c] # <<>>
    BY <1>10 DEF Audio, Take
  <2>2. \E r : Become(c, r, <<>>)
    BY <1>10 DEF Audio
  <2> QED
    BY <1>00, <2>1, <2>2, BecomeType
<1>11. CASE DropEndpoint(c)
  <2>1. todo[c] # <<>>
    BY <1>11 DEF DropEndpoint, Take
  <2>2. \E r : Become(c, r, <<>>) \/ Become(c, r, <<Do("broadcast")>>)
    BY <1>11 DEF DropEndpoint
  <2> QED
    BY <1>00, <2>1, <2>2, BecomeType
<1>12. CASE \E step \in {"dropPeer", "dropPeerIfGone"} : DropPeer(c, step)
  <2> DEFINE q == RemovePeerEntirely(room, IdOf(c))
             more == Send("left", {IdOf(c)}, q.participants) \o <<Do("broadcast")>>
  <2>1. todo[c] # <<>>
    BY <1>12 DEF DropPeer, Take
  <2>2. \/ \E r : Become(c, r, <<>>)
        \/ IdOf(c) \in ChatRecipients(room) /\ \E r : Become(c, r, more)
    BY <1>12 DEF DropPeer
  <2>3. IdOf(c) \in ChatRecipients(room) => more \in Seq(Task)
    <3>1. SUFFICES ASSUME IdOf(c) \in ChatRecipients(room) PROVE more \in Seq(Task)
      OBVIOUS
    <3>2. GoodRoom(q)
      BY <1>0, <3>1, InRoomExists, RemovePeerGood
    <3>3. q.participants \in SUBSET Identities
      BY <3>2, RosterType
    <3> HIDE DEF q
    <3> QED
      BY <1>0, <3>3, FollowUpType
  <2> HIDE DEF more
  <2> QED
    BY <1>00, <2>1, <2>2, <2>3, BecomeType
<1>13. CASE ReadRoster(c)
  <2> DEFINE roster == ChatRecipients(room)
  <2>1. todo[c] # <<>>
    BY <1>13 DEF ReadRoster, Take
  <2>2. \/ Become(c, room, Send("members", roster, {IdOf(c)}))
        \/ Become(c, room, Send("members", roster, roster))
    BY <1>13 DEF ReadRoster
  <2>3. roster \in SUBSET Identities
    BY <1>0, RosterType
  <2> HIDE DEF roster
  <2>4. /\ Send("members", roster, {IdOf(c)}) \in Seq(Task)
        /\ Send("members", roster, roster) \in Seq(Task)
    BY <1>0, <2>3, SendType
  <2> QED
    BY <2>1, <2>2, <2>4, BecomeType
<1>14. CASE \E p \in Identities : Deliver(c, p)
  <2>1. PICK p \in Identities : Deliver(c, p)
    BY <1>14
  <2> DEFINE m == Head(todo[c])
             more == Send(m.kind, m.peer, m.to \ {p})
  <2>2. todo[c] # <<>> /\ p \in m.to /\ todo' = [todo EXCEPT ![c] = more \o Tail(@)]
    BY <2>1 DEF Deliver, Take
  <2>3. todo[c] \in Seq(Task) /\ m \in Task /\ Tail(todo[c]) \in Seq(Task)
    BY <2>2 DEF TasksType
  <2>4. more \in Seq(Task)
    <3> DEFINE n == [step |-> "send", kind |-> m.kind, peer |-> m.peer, to |-> m.to \ {p}]
    <3>1. n \in Task
      BY <2>1, <2>3 DEF Task, Item, Deliver, Take
    <3>2. more = <<>> \/ more = <<n>>
      BY DEF Send
    <3> HIDE DEF n, more
    <3>3. <<n>> \in Seq(Task)
      BY <3>1
    <3>4. <<>> \in Seq(Task)
      OBVIOUS
    <3> QED
      BY <3>2, <3>3, <3>4
  <2> HIDE DEF more, m
  <2>5. more \o Tail(todo[c]) \in Seq(Task)
    BY <2>3, <2>4
  <2> QED
    BY <2>2, <2>5 DEF TasksType
<1> QED
  BY <1>1, <1>2, <1>3, <1>4, <1>5, <1>6, <1>7, <1>8, <1>9, <1>10, <1>11, <1>12,
     <1>13, <1>14 DEF Handle

\* What a delivery tells a client is a set of identities.
LEMMA DeliverView ==
  ASSUME TasksType, NEW c \in Conns, NEW p \in Identities, Deliver(c, p)
  PROVE  view' \in [Endpoints -> SUBSET Identities]
<1> DEFINE m == Head(todo[c])
           told(e) == CASE m.kind = "members" -> m.peer
                        [] m.kind = "joined"  -> view[e] \cup m.peer
                        [] m.kind = "left"    -> view[e] \ m.peer
<1>1. todo[c] # <<>> /\ m.step = "send"
  BY DEF Deliver, Take
<1>2. m \in Task
  BY <1>1 DEF TasksType
<1>3. m.peer \in SUBSET Identities /\ m.kind \in {"members", "joined", "left"}
  BY <1>1, <1>2 DEF Task, Item
<1>4. view' = [e \in Endpoints |-> IF e[1] # p \/ ~Registered(e) THEN view[e] ELSE told(e)]
  BY DEF Deliver
<1> HIDE DEF m
<1>5. \A e \in Endpoints : view[e] \in SUBSET Identities /\ told(e) \in SUBSET Identities
  BY <1>3 DEF TasksType
<1> HIDE DEF told
<1> QED
  BY <1>4, <1>5

\* Tasks stay well formed in every behaviour.
LEMMA TasksAlways == Spec => []TasksType
<1>1. Init => TasksType
  <2>1. <<>> \in Seq(Task)
    OBVIOUS
  <2> QED
    BY <2>1, MaxCommandsAssumption DEF Init, TasksType
<1>2. RoomInv /\ TasksType /\ [Next]_vars => TasksType'
  <2>1. SUFFICES ASSUME RoomInv, TasksType, [Next]_vars PROVE TasksType'
    OBVIOUS
  <2>2. ASSUME NEW c \in Conns, Handle(c)
        PROVE  TasksType'
    <3>1. todo' \in [Conns -> Seq(Task)]
      BY <2>1, <2>2, HandleTypes
    <3>2. CASE \E p \in Identities : Deliver(c, p)
      <4>1. view' \in [Endpoints -> SUBSET Identities]
        BY <2>1, <3>2, DeliverView
      <4> QED
        BY <2>1, <3>1, <3>2, <4>1 DEF TasksType, Deliver
    <3>3. CASE ~\E p \in Identities : Deliver(c, p)
      <4>1. UNCHANGED Others
        BY <2>2, <3>3 DEF Handle, Materialise, Admit, Allow, Create, Join, Leaving, Leave,
          SfuSubscribe, SfuUnsubscribe, Audio, DropEndpoint, DropPeer, ReadRoster
      <4>2. CASE Join(c)
        <5>1. joined' \in [Conns -> BOOLEAN]
          BY <2>1, <4>2 DEF Join, TasksType
        <5> QED
          BY <2>1, <3>1, <4>1, <5>1 DEF TasksType, Others
      <4>3. CASE Leave(c)
        <5>1. joined' \in [Conns -> BOOLEAN]
          BY <2>1, <4>3 DEF Leave, TasksType
        <5> QED
          BY <2>1, <3>1, <4>1, <5>1 DEF TasksType, Others
      <4>4. CASE ~(Join(c) \/ Leave(c))
        <5>1. joined' = joined
          BY <2>2, <3>3, <4>4 DEF Handle, Materialise, Admit, Allow, Create, Leaving,
            SfuSubscribe, SfuUnsubscribe, Audio, DropEndpoint, DropPeer, ReadRoster
        <5> QED
          BY <2>1, <3>1, <4>1, <5>1 DEF TasksType, Others
      <4> QED
        BY <4>2, <4>3, <4>4
    <3> QED
      BY <3>2, <3>3
  <2>3. ASSUME NEW c \in Conns, NEW h \in Messages, Receive(c, h)
        PROVE  TasksType'
    <3> DEFINE t == [n \in DOMAIN h |-> Do(h[n])]
    <3>1. t \in Seq(Task)
      <4>1. h \in Seq(Steps)
        BY HandlerType
      <4>2. DOMAIN h = 1 .. Len(h) /\ Len(h) \in Nat /\ \A n \in 1 .. Len(h) : h[n] \in Steps
        BY <4>1
      <4>3. \A n \in 1 .. Len(h) : Do(h[n]) \in Task
        BY <4>2, DoType
      <4>4. t = [n \in 1 .. Len(h) |-> Do(h[n])]
        BY <4>2
      <4> QED
        BY <4>2, <4>3, <4>4
    <3>2. /\ todo' = [todo EXCEPT ![c] = t] /\ commands' = commands + 1
          /\ commands < MaxCommands /\ UNCHANGED <<status, view, joined>>
      BY <2>3 DEF Receive
    <3> HIDE DEF t
    <3> QED
      BY <2>1, <3>1, <3>2, MaxCommandsAssumption DEF TasksType
  <2>4. ASSUME NEW c \in Conns, Connect(c)
        PROVE  TasksType'
    BY <2>1, <2>4 DEF Connect, TasksType
  <2>5. ASSUME NEW c \in Conns, CloseWs(c) \/ CloseQuic(c)
        PROVE  TasksType'
    <3>1. /\ status' = [status EXCEPT ![c] = "closed"] /\ UNCHANGED <<view, joined, commands>>
          /\ \E x \in {<<>>, <<Do("dropEndpoint")>>}, y \in {<<>>, <<Do("dropPeer")>>} :
               \/ todo' = [todo EXCEPT ![c] = x \o y]
               \/ todo' = [todo EXCEPT ![c] = <<Do("dropEndpoint"), Do("dropPeerIfGone")>>]
               \/ todo' = [todo EXCEPT ![c] = <<>>]
      BY <2>5 DEF CloseWs, CloseQuic
    <3>2. /\ Do("dropEndpoint") \in Task /\ Do("dropPeer") \in Task
          /\ Do("dropPeerIfGone") \in Task
      BY DoType DEF Steps
    <3>3. /\ <<>> \in Seq(Task) /\ <<Do("dropEndpoint")>> \in Seq(Task)
          /\ <<Do("dropPeer")>> \in Seq(Task)
          /\ <<Do("dropEndpoint"), Do("dropPeerIfGone")>> \in Seq(Task)
      BY <3>2
    <3>4. \A x \in {<<>>, <<Do("dropEndpoint")>>}, y \in {<<>>, <<Do("dropPeer")>>} :
            x \o y \in Seq(Task)
      <4>1. ASSUME NEW x \in Seq(Task), NEW y \in Seq(Task) PROVE x \o y \in Seq(Task)
        OBVIOUS
      <4> QED
        BY <3>3, <4>1
    <3>5. todo' \in [Conns -> Seq(Task)]
      BY <2>1, <3>1, <3>3, <3>4 DEF TasksType
    <3> QED
      BY <2>1, <3>1, <3>5 DEF TasksType
  <2>6. CASE TimePasses \/ GcIdleRooms \/ ApplyRoomRoster \/ UNCHANGED vars
    BY <2>1, <2>6 DEF TimePasses, GcIdleRooms, ApplyRoomRoster, vars, TasksType
  <2> QED
    BY <2>1, <2>2, <2>3, <2>4, <2>5, <2>6 DEF Next
<1> QED
  BY <1>1, <1>2, RoomAlwaysGood, PTL DEF Spec

\* Every variable keeps its type, and no bound is passed.
THEOREM SupernodeTypes == Spec => []TypeOK
<1>1. RoomInv /\ CountInv /\ TasksType => TypeOK
  <2>1. CountInv => route \in [Kinds -> [Endpoints -> Conns \cup {NoConn}]] /\ connected \in Nat
    BY FS_CardinalityType DEF CountInv, Routes
  <2>2. TasksType => todo \in [Conns -> Seq(Item)]
    <3>0. Task \subseteq Item
      BY DEF Task
    <3>1. \A q \in Seq(Task) : q \in Seq(Item)
      <4>1. SUFFICES ASSUME NEW q \in Seq(Task) PROVE q \in Seq(Item)
        OBVIOUS
      <4>2. /\ q = [n \in 1 .. Len(q) |-> q[n]] /\ Len(q) \in Nat
            /\ \A n \in 1 .. Len(q) : q[n] \in Item
        BY <3>0
      <4> QED
        BY <4>2
    <3> QED
      BY <3>1 DEF TasksType
  <2> QED
    BY <2>1, <2>2 DEF RoomInv, GoodRoom, TasksType, TypeOK
<1> QED
  BY <1>1, TasksAlways, RoomAlwaysGood, CountAlways, PTL

-----------------------------------------------------------------------------
(* No ghosts.  A connection's task brings in its own endpoint and no other,    *)
(* and only while it is open; the cleanup it ends with is the last thing it    *)
(* does.  So a device that is not connected is taken out next, unless the task *)
(* of a connection that was replaced brings it in again.                       *)

\* What the task of a connection that is not open may still have to do.
Cleanup == {m \in Task : m.step \in {"dropEndpoint", "dropPeer", "dropPeerIfGone",
                                     "broadcast", "send"}}

\* A connection that is not open brings nobody in.
OnlyCleanup == \A c \in Conns : status[c] # "open" => todo[c] \in Seq(Cleanup)

\* The removal of a device that is no longer connected is the next thing a task does.
Leaves(e) == \E c \in Conns : EndOf[c] = e /\ Take(c, "dropEndpoint")

\* The task of a replaced connection brings its endpoint in.
LateFor(e) ==
  \E c \in Conns : EndOf[c] = e /\ Replaced(c) /\ (Join(c) \/ SfuSubscribe(c))

NoNewGhost == \A e \in Endpoints : Ghost(e)' /\ ~Ghost(e) => LateFor(e)

\* A membership change brings in the device it is about, if it sets a flag, and
\* nobody else; clearing both flags takes the device out.
LEMMA MembershipMembers ==
  ASSUME NEW r, GoodRoom(r), r.exists,
         NEW e \in Endpoints, NEW v \in Flags, NEW f \in Flags,
         NEW q, q = SetDeviceMembership(r, e, v, f)
  PROVE  /\ DeviceMembers(q) \subseteq DeviceMembers(r) \cup {e}
         /\ v # "set" /\ f # "set" => DeviceMembers(q) \subseteq DeviceMembers(r)
         /\ v = "clear" /\ f = "clear" /\ e \in DeviceMembers(r) => e \notin DeviceMembers(q)
<1>1. CASE Refused(r, e, v)
  <2>1. q = r
    BY <1>1 DEF SetDeviceMembership
  <2>2. ~(v = "clear" /\ e \in DeviceMembers(r))
    BY <1>1 DEF Refused
  <2> QED
    BY <2>1, <2>2
<1>2. CASE ~Refused(r, e, v)
  <2>1. q.voiceDev = Change(r.voiceDev, e, v) /\ q.chatDev = Change(r.chatDev, e, f)
    BY <1>2, MembershipResult
  <2> QED
    BY <2>1 DEF DeviceMembers, Change, Flags
<1> QED
  BY <1>1, <1>2

\* Removing an identity takes devices out.
LEMMA RemovePeerMembers ==
  ASSUME NEW r, GoodRoom(r), NEW i
  PROVE  DeviceMembers(RemovePeerEntirely(r, i)) \subseteq DeviceMembers(r)
<1> DEFINE V == {e \in r.voiceDev : e[1] # i}
           C == {e \in r.chatDev : e[1] # i}
           q == RemovePeerEntirely(r, i)
<1>1. r \in Room
  BY DEF GoodRoom
<1>2. q.voiceDev = V /\ q.chatDev = C
  BY <1>1 DEF RemovePeerEntirely, MarkUnusedIfEmpty, Room
<1> QED
  BY <1>2 DEF DeviceMembers

\* A room that is dropped has no devices in it.
LEMMA DropMembers ==
  ASSUME NEW r
  PROVE  DeviceMembers(DropIfAnonymous(r)) \subseteq DeviceMembers(r)
BY DEF DropIfAnonymous, DeviceMembers, NoRoom

LEMMA NewRoomMembers ==
  ASSUME NEW private, NEW creator
  PROVE  DeviceMembers(NewRoom(private, creator)) = {} /\ DeviceMembers(NoRoom) = {}
BY DEF DeviceMembers, NewRoom, NoRoom

LEMMA AllowPeerMembers ==
  ASSUME NEW r \in Room, NEW i
  PROVE  DeviceMembers(AllowPeer(r, i)) = DeviceMembers(r)
BY DEF DeviceMembers, AllowPeer, Room

\* Audio moves no devices.
LEMMA AudioMembers ==
  ASSUME NEW r \in Room, NEW i, NEW silent,
         NEW q \in Forwarded(NoteAudio(r, i, silent), i)
  PROVE  DeviceMembers(q) = DeviceMembers(r)
<1> DEFINE n == NoteAudio(r, i, silent)
<1>1. /\ n.voiceDev = r.voiceDev /\ n.chatDev = r.chatDev
      /\ \A x : [n EXCEPT !.active = x].voiceDev = n.voiceDev
      /\ \A x : [n EXCEPT !.active = x].chatDev = n.chatDev
  BY DEF NoteAudio, Room
<1>2. q = n \/ \E x : q = [n EXCEPT !.active = x]
  BY DEF Forwarded
<1> HIDE DEF n
<1> QED
  BY <1>1, <1>2 DEF DeviceMembers

\* A step of a handler brings in at most the endpoint it serves, and only from a
\* join or a subscription.
LEMMA HandleMembers ==
  ASSUME RoomInv, NEW c \in Conns, Handle(c)
  PROVE  \/ DeviceMembers(room') \subseteq DeviceMembers(room)
         \/ /\ Take(c, "join") \/ Take(c, "subscribe")
            /\ DeviceMembers(room') \subseteq DeviceMembers(room) \cup {EndOf[c]}
<1> USE ConnType
<1>0. GoodRoom(room) /\ room \in Room
  BY DEF RoomInv, GoodRoom
<1>1. CASE Materialise(c)
  <2>1. \/ room' = [room EXCEPT !.creator = IF @ = NoOne THEN Creator ELSE @]
        \/ room' = NewRoom(Private, Creator)
    BY <1>1 DEF Materialise, Become
  <2>2. ASSUME NEW x
        PROVE  DeviceMembers([room EXCEPT !.creator = x]) = DeviceMembers(room)
    BY <1>0 DEF DeviceMembers, Room
  <2> QED
    BY <2>1, <2>2, NewRoomMembers
<1>2. CASE Admit(c)
  <2> DEFINE r == IF room.exists THEN room ELSE NewRoom(Private, NoOne)
  <2>1. r \in Room
    BY <1>0, NewRoomGood, CreatorAssumption DEF GoodRoom
  <2>2. room' = AllowPeer(r, IdOf(c))
    BY <1>2 DEF Admit, Become
  <2>3. DeviceMembers(r) \subseteq DeviceMembers(room)
    BY NewRoomMembers
  <2> HIDE DEF r
  <2> QED
    BY <2>1, <2>2, <2>3, AllowPeerMembers
<1>3. CASE Allow(c)
  BY <1>0, <1>3, AllowPeerMembers DEF Allow, Become
<1>4. CASE \E step \in {"create", "createWithToken"} : Create(c, step)
  BY <1>4, NewRoomMembers DEF Create, Become
<1>5. CASE Join(c)
  <2>1. /\ Take(c, "join")
        /\ room' = room
             \/ (room.exists /\ room' = SetDeviceMembership(room, EndOf[c], "set", "keep"))
    BY <1>5 DEF Join, Become
  <2> QED
    BY <1>0, <2>1, MembershipMembers DEF Flags
<1>6. CASE Leaving(c)
  BY <1>6 DEF Leaving, Become
<1>7. CASE Leave(c)
  <2> DEFINE q == SetDeviceMembership(room, EndOf[c], "clear", "keep")
             r == IF room.exists THEN MarkUnusedIfEmpty(q) ELSE room
  <2>1. room.exists => GoodRoom(q) /\ q.exists
    BY <1>0, SetDeviceMembershipGood DEF Flags
  <2>2. room.exists => DeviceMembers(q) \subseteq DeviceMembers(room)
    BY <1>0, MembershipMembers DEF Flags
  <2>3. room' = DropIfAnonymous(r)
    BY <1>7 DEF Leave, Become
  <2> HIDE DEF q
  <2>4. DeviceMembers(r) \subseteq DeviceMembers(room)
    BY <2>1, <2>2, MarkUnusedGood
  <2> HIDE DEF r
  <2> QED
    BY <2>3, <2>4, DropMembers
<1>8. CASE SfuSubscribe(c)
  <2>1. /\ Take(c, "subscribe")
        /\ room' = room
             \/ (room.exists /\ room' = SetDeviceMembership(room, EndOf[c], "keep", "set"))
    BY <1>8 DEF SfuSubscribe, Become
  <2> QED
    BY <1>0, <2>1, MembershipMembers DEF Flags
<1>9. CASE SfuUnsubscribe(c)
  <2>1. room' = IF room.exists
                  THEN SetDeviceMembership(room, EndOf[c], "keep", "clear") ELSE room
    BY <1>9 DEF SfuUnsubscribe, Become
  <2> QED
    BY <1>0, <2>1, MembershipMembers DEF Flags
<1>10. CASE Audio(c)
  <2>1. PICK silent \in SUBSET (room.tracked \ {IdOf(c)}) :
          \E r \in IF room.exists
                    THEN Forwarded(NoteAudio(room, IdOf(c), silent), IdOf(c)) ELSE {room} :
            room' = r
    BY <1>10 DEF Audio, Become
  <2>2. room' = room \/ room' \in Forwarded(NoteAudio(room, IdOf(c), silent), IdOf(c))
    BY <2>1
  <2> QED
    BY <1>0, <2>2, AudioMembers
<1>11. CASE DropEndpoint(c)
  <2>1. room' = room
          \/ (/\ EndOf[c] \in DeviceMembers(room)
              /\ room' = SetDeviceMembership(room, EndOf[c], "clear", "clear"))
    BY <1>11 DEF DropEndpoint, Become
  <2> QED
    BY <1>0, <2>1, InRoomExists, MembershipMembers DEF Flags
<1>12. CASE \E step \in {"dropPeer", "dropPeerIfGone"} : DropPeer(c, step)
  <2>1. room' = room \/ room' = DropIfAnonymous(RemovePeerEntirely(room, IdOf(c)))
    BY <1>12 DEF DropPeer, Become
  <2> QED
    BY <1>0, <2>1, DropMembers, RemovePeerMembers
<1>13. CASE ReadRoster(c)
  BY <1>13 DEF ReadRoster, Become
<1>14. CASE \E p \in Identities : Deliver(c, p)
  BY <1>14 DEF Deliver
<1> QED
  BY <1>1, <1>2, <1>3, <1>4, <1>5, <1>6, <1>7, <1>8, <1>9, <1>10, <1>11, <1>12,
     <1>13, <1>14 DEF Handle

\* on_endpoint_disconnected takes the endpoint out.
LEMMA DropEndpointRemoves ==
  ASSUME RoomInv, NEW c \in Conns, DropEndpoint(c)
  PROVE  EndOf[c] \notin DeviceMembers(room')
<1>1. CASE EndOf[c] \in DeviceMembers(room)
  <2>1. room' = SetDeviceMembership(room, EndOf[c], "clear", "clear")
    BY <1>1 DEF DropEndpoint, Become
  <2> QED
    BY <1>1, <2>1, ConnType, InRoomExists, MembershipMembers DEF Flags, RoomInv
<1>2. CASE EndOf[c] \notin DeviceMembers(room)
  BY <1>2 DEF DropEndpoint, Become
<1> QED
  BY <1>1, <1>2

\* A task that has to take an endpoint out does nothing else first.
LEMMA DropEndpointNext ==
  ASSUME NEW c \in Conns, Handle(c), Take(c, "dropEndpoint")
  PROVE  DropEndpoint(c)
BY DEF Handle, Take, Materialise, Admit, Allow, Create, Join, Leaving, Leave, SfuSubscribe,
       SfuUnsubscribe, Audio, DropPeer, ReadRoster, Deliver

\* A step of a handler changes the work of its own task alone.
LEMMA HandleAlone ==
  ASSUME TasksType, NEW c \in Conns, Handle(c)
  PROVE  /\ todo[c] # <<>> /\ UNCHANGED <<status, route>>
         /\ \A d \in Conns \ {c} : todo'[d] = todo[d]
<1>1. todo[c] # <<>> /\ UNCHANGED <<status, route>>
  BY DEF Handle, Take, Materialise, Admit, Allow, Create, Join, Leaving, Leave, SfuSubscribe,
       SfuUnsubscribe, Audio, DropEndpoint, DropPeer, ReadRoster, Deliver, Others
<1>2. \E x : todo' = [todo EXCEPT ![c] = x]
  BY DEF Handle, Become, Materialise, Admit, Allow, Create, Join, Leaving, Leave,
       SfuSubscribe, SfuUnsubscribe, Audio, DropEndpoint, DropPeer, ReadRoster, Deliver
<1> QED
  BY <1>1, <1>2 DEF TasksType

\* The first thing that a connection which is not open does is a cleanup step.
LEMMA CleanupHead ==
  ASSUME NEW c \in Conns, NEW s, todo[c] \in Seq(Cleanup), Take(c, s)
  PROVE  /\ s \in {"dropEndpoint", "dropPeer", "dropPeerIfGone", "broadcast", "send"}
         /\ Head(todo[c]) \in Cleanup /\ Tail(todo[c]) \in Seq(Cleanup)
<1>1. Head(todo[c]) \in Cleanup /\ Tail(todo[c]) \in Seq(Cleanup)
  BY DEF Take
<1> QED
  BY <1>1 DEF Take, Cleanup

\* Cleanup is followed by cleanup.
LEMMA CleanupMore ==
  ASSUME NEW k \in {"members", "joined", "left"}, NEW p \in SUBSET Identities,
         NEW to \in SUBSET Identities
  PROVE  /\ Send(k, p, to) \in Seq(Cleanup)
         /\ <<>> \in Seq(Cleanup) /\ <<Do("broadcast")>> \in Seq(Cleanup)
         /\ Send(k, p, to) \o <<Do("broadcast")>> \in Seq(Cleanup)
<1> DEFINE m == [step |-> "send", kind |-> k, peer |-> p, to |-> to]
<1>1. m \in Cleanup
  BY DEF Cleanup, Task, Item
<1>2. Do("broadcast") \in Cleanup
  BY DoType DEF Do, Cleanup, Steps
<1> HIDE DEF m
<1>3. <<m>> \in Seq(Cleanup) /\ <<>> \in Seq(Cleanup) /\ <<Do("broadcast")>> \in Seq(Cleanup)
  BY <1>1, <1>2
<1>4. Send(k, p, to) = <<>> \/ Send(k, p, to) = <<m>>
  BY DEF Send, m
<1>5. Send(k, p, to) \in Seq(Cleanup)
  BY <1>3, <1>4
<1> QED
  BY <1>3, <1>5

LEMMA BecomeCleanup ==
  ASSUME TasksType, NEW c \in Conns, NEW r, NEW more \in Seq(Cleanup),
         Tail(todo[c]) \in Seq(Cleanup), Become(c, r, more)
  PROVE  todo'[c] \in Seq(Cleanup)
<1>1. todo'[c] = more \o Tail(todo[c])
  BY DEF Become, TasksType
<1> QED
  BY <1>1

LEMMA HandleCleanup ==
  ASSUME RoomInv, TasksType, NEW c \in Conns, Handle(c), todo[c] \in Seq(Cleanup)
  PROVE  todo'[c] \in Seq(Cleanup)
<1> USE ConnType
<1>0. IdOf(c) \in Identities /\ {IdOf(c)} \in SUBSET Identities /\ GoodRoom(room)
  BY DEF RoomInv
<1>1. \A s : Take(c, s) =>
        /\ s \in {"dropEndpoint", "dropPeer", "dropPeerIfGone", "broadcast", "send"}
        /\ Head(todo[c]) \in Cleanup /\ Tail(todo[c]) \in Seq(Cleanup)
  BY CleanupHead
<1>2. <<>> \in Seq(Cleanup) /\ <<Do("broadcast")>> \in Seq(Cleanup)
  BY <1>0, CleanupMore
<1>3. CASE DropEndpoint(c)
  <2>1. Tail(todo[c]) \in Seq(Cleanup)
    BY <1>1, <1>3 DEF DropEndpoint
  <2>2. \E r : Become(c, r, <<>>) \/ Become(c, r, <<Do("broadcast")>>)
    BY <1>3 DEF DropEndpoint
  <2> QED
    BY <1>2, <2>1, <2>2, BecomeCleanup
<1>4. CASE \E step \in {"dropPeer", "dropPeerIfGone"} : DropPeer(c, step)
  <2> DEFINE q == RemovePeerEntirely(room, IdOf(c))
             more == Send("left", {IdOf(c)}, q.participants) \o <<Do("broadcast")>>
  <2>1. Tail(todo[c]) \in Seq(Cleanup)
    BY <1>1, <1>4 DEF DropPeer
  <2>2. \/ \E r : Become(c, r, <<>>)
        \/ IdOf(c) \in ChatRecipients(room) /\ \E r : Become(c, r, more)
    BY <1>4 DEF DropPeer
  <2>3. IdOf(c) \in ChatRecipients(room) => more \in Seq(Cleanup)
    <3>1. SUFFICES ASSUME IdOf(c) \in ChatRecipients(room) PROVE more \in Seq(Cleanup)
      OBVIOUS
    <3>2. GoodRoom(q)
      BY <1>0, <3>1, InRoomExists, RemovePeerGood
    <3>3. q.participants \in SUBSET Identities
      BY <3>2, RosterType
    <3> HIDE DEF q
    <3> QED
      BY <1>0, <3>3, CleanupMore
  <2> HIDE DEF more
  <2> QED
    BY <1>2, <2>1, <2>2, <2>3, BecomeCleanup
<1>5. CASE ReadRoster(c)
  <2> DEFINE roster == ChatRecipients(room)
  <2>1. Take(c, "broadcast") /\ Become(c, room, Send("members", roster, roster))
    BY <1>1, <1>5 DEF ReadRoster
  <2>2. Tail(todo[c]) \in Seq(Cleanup)
    BY <1>1, <2>1
  <2>3. roster \in SUBSET Identities
    BY <1>0, RosterType
  <2> HIDE DEF roster
  <2>4. Send("members", roster, roster) \in Seq(Cleanup)
    BY <2>3, CleanupMore
  <2> QED
    BY <2>1, <2>2, <2>4, BecomeCleanup
<1>6. CASE \E p \in Identities : Deliver(c, p)
  <2>1. PICK p \in Identities : Deliver(c, p)
    BY <1>6
  <2> DEFINE m == Head(todo[c])
             more == Send(m.kind, m.peer, m.to \ {p})
  <2>2. Take(c, "send") /\ todo' = [todo EXCEPT ![c] = more \o Tail(@)]
    BY <2>1 DEF Deliver
  <2>3. m \in Cleanup /\ m.step = "send" /\ Tail(todo[c]) \in Seq(Cleanup)
    BY <1>1, <2>2 DEF Take
  <2>4. more \in Seq(Cleanup)
    <3>1. /\ m.kind \in {"members", "joined", "left"} /\ m.peer \in SUBSET Identities
          /\ m.to \ {p} \in SUBSET Identities
      BY <2>3 DEF Cleanup, Task, Item
    <3> HIDE DEF m
    <3> QED
      BY <3>1, CleanupMore
  <2> HIDE DEF more, m
  <2>5. todo'[c] = more \o Tail(todo[c])
    BY <2>2 DEF TasksType
  <2> QED
    BY <2>3, <2>4, <2>5
<1>7. CASE ~(DropEndpoint(c) \/ ReadRoster(c) \/ (\E p \in Identities : Deliver(c, p))
              \/ \E step \in {"dropPeer", "dropPeerIfGone"} : DropPeer(c, step))
  BY <1>1, <1>7 DEF Handle, Materialise, Admit, Allow, Create, Join, Leaving, Leave,
       SfuSubscribe, SfuUnsubscribe, Audio
<1> QED
  BY <1>3, <1>4, <1>5, <1>6, <1>7

\* A join or a subscription that is next is what the handler does.
LEMMA JoinNext ==
  ASSUME NEW c \in Conns, Handle(c), Take(c, "join") \/ Take(c, "subscribe")
  PROVE  Join(c) \/ SfuSubscribe(c)
BY DEF Handle, Take, Materialise, Admit, Allow, Create, Leaving, Leave,
       SfuUnsubscribe, Audio, DropEndpoint, DropPeer, ReadRoster, Deliver

\* A step of a handler leaves no ghost, unless it brings in the endpoint of a
\* connection that was replaced.
LEMMA HandleNoGhost ==
  ASSUME RoomInv, TasksType, OnlyCleanup, NEW c \in Conns, Handle(c)
  PROVE  OnlyCleanup' /\ NoNewGhost
<1>1. /\ todo[c] # <<>> /\ UNCHANGED <<status, route>>
      /\ \A d \in Conns \ {c} : todo'[d] = todo[d]
  BY HandleAlone
<1>2. OnlyCleanup'
  BY <1>1, HandleCleanup DEF OnlyCleanup
<1>3. ASSUME NEW e \in Endpoints, Ghost(e)', ~Ghost(e) PROVE LateFor(e)
  <2>1. e \in DeviceMembers(room') /\ ~Registered(e)
    BY <1>1, <1>3 DEF Ghost, Registered
  <2>2. CASE e \in DeviceMembers(room)
    <3>1. PICK d \in Conns : EndOf[d] = e /\ Take(d, "dropEndpoint")
      BY <1>3, <2>1, <2>2 DEF Ghost
    <3>2. d # c
      BY <2>1, <3>1, DropEndpointNext, DropEndpointRemoves
    <3>3. todo'[d] = todo[d]
      BY <1>1, <3>2
    <3> QED
      BY <1>3, <3>1, <3>3 DEF Ghost, Take
  <2>3. CASE e \notin DeviceMembers(room)
    <3>1. e = EndOf[c] /\ (Take(c, "join") \/ Take(c, "subscribe"))
      BY <2>1, <2>3, HandleMembers
    <3>2. status[c] = "open"
      BY <3>1, CleanupHead DEF OnlyCleanup
    <3>3. route[KindOf[c]][e] # c
      BY <2>1, ConnsAssumption, NoConnAssumption DEF Registered, Kinds
    <3> QED
      BY <3>1, <3>2, <3>3, JoinNext DEF LateFor, Replaced
  <2> QED
    BY <2>2, <2>3
<1> QED
  BY <1>2, <1>3 DEF NoNewGhost

\* A step in which the devices of the room stay or go, nobody loses its route and
\* no task its work.
LEMMA QuietNoGhost ==
  ASSUME DeviceMembers(room') \subseteq DeviceMembers(room),
         \A e \in Endpoints : Registered(e) => Registered(e)',
         \A c \in Conns : todo[c] = <<>> \/ todo'[c] = todo[c]
  PROVE  NoNewGhost
BY DEF NoNewGhost, Ghost, Take

\* A connection that is registered takes the place of an older one, or is the
\* first; one that is refused leaves the tables alone.
LEMMA ConnectNoGhost ==
  ASSUME CountInv, TasksType, OnlyCleanup, NEW c \in Conns, Connect(c)
  PROVE  OnlyCleanup' /\ NoNewGhost
<1> DEFINE e == EndOf[c]
           k == KindOf[c]
<1>1. status[c] = "new" /\ UNCHANGED <<room, todo>>
  BY DEF Connect
<1>2. e \in Endpoints /\ k \in Kinds
  BY ConnsAssumption DEF Kinds
<1>3. \A d \in Conns \ {c} : status'[d] = status[d]
  BY DEF Connect, TasksType
<1>4. OnlyCleanup'
  BY <1>1, <1>3 DEF OnlyCleanup, TasksType
<1>5. route' = route \/ route' = [route EXCEPT ![k][e] = c]
  BY DEF Connect
<1>6. ASSUME NEW x \in Endpoints, Registered(x) PROVE Registered(x)'
  <2>1. PICK l \in Kinds : route[l][x] # NoConn
    BY <1>6 DEF Registered
  <2>2. route'[l][x] = route[l][x] \/ route'[l][x] = c
    BY <1>2, <1>5 DEF CountInv, Routes
  <2> QED
    BY <2>1, <2>2, NoConnAssumption DEF Registered
<1> QED
  BY <1>1, <1>4, <1>6, QuietNoGhost

\* What the end of a connection leaves behind: it was replaced, and the routes
\* stay as they are; or its route is free, and its endpoint is taken out next,
\* unless it is registered with the other kind.
Ends(c) ==
  LET e == EndOf[c]
      k == KindOf[c]
  IN
  /\ todo[c] = <<>> /\ room' = room
  /\ status' = [status EXCEPT ![c] = "closed"]
  /\ \E t \in Seq(Cleanup) :
       /\ todo' = [todo EXCEPT ![c] = t]
       /\ \/ route' = route
          \/ /\ route' = [route EXCEPT ![k][e] = NoConn]
             /\ \/ t # <<>> /\ Head(t).step = "dropEndpoint"
                \/ \E l \in Kinds : l # k /\ route[l][e] # NoConn

LEMMA CloseEnds ==
  ASSUME NEW c \in Conns, CloseWs(c) \/ CloseQuic(c)
  PROVE  Ends(c)
<1> DEFINE e == EndOf[c]
           a == <<Do("dropEndpoint")>>
           ab == <<Do("dropEndpoint")>> \o <<Do("dropPeer")>>
           ac == <<Do("dropEndpoint"), Do("dropPeerIfGone")>>
           b == <<Do("dropPeer")>>
<1>1. /\ Do("dropEndpoint") \in Cleanup /\ Do("dropPeer") \in Cleanup
      /\ Do("dropPeerIfGone") \in Cleanup
  BY DoType DEF Do, Cleanup, Steps
<1>2. /\ a \in Seq(Cleanup) /\ ab \in Seq(Cleanup) /\ ac \in Seq(Cleanup)
      /\ b \in Seq(Cleanup) /\ <<>> \in Seq(Cleanup)
      /\ a \o <<>> = a /\ <<>> \o b = b /\ <<>> \o <<>> = <<>>
  BY <1>1
<1>3. \A t \in {a, ab, ac} : t # <<>> /\ Head(t).step = "dropEndpoint"
  <2>1. Do("dropEndpoint").step = "dropEndpoint"
    BY DEF Do
  <2>2. \A t \in {a, ab, ac} : t # <<>> /\ Head(t) = Do("dropEndpoint")
    BY <1>1
  <2> QED
    BY <2>1, <2>2
<1> HIDE DEF a, ab, ac, b
<1>4. CASE CloseWs(c)
  <2>1. /\ KindOf[c] = "ws" /\ todo[c] = <<>> /\ room' = room
        /\ status' = [status EXCEPT ![c] = "closed"]
    BY <1>4 DEF CloseWs
  <2>2. PICK x \in {<<>>, <<Do("dropEndpoint")>>}, y \in {<<>>, <<Do("dropPeer")>>} :
          /\ todo' = [todo EXCEPT ![c] = x \o y]
          /\ \/ route' = route
             \/ /\ route' = [route EXCEPT !["ws"][e] = NoConn]
                /\ x = <<Do("dropEndpoint")>> \/ route["quic"][e] # NoConn
    BY <1>4 DEF CloseWs
  <2>3. x \o y \in {a, ab, b, <<>>} /\ (x = a => x \o y \in {a, ab})
    BY <1>2, <2>2 DEF a, ab, b
  <2>4. x \o y \in Seq(Cleanup)
    BY <1>2, <2>3
  <2>5. x = <<Do("dropEndpoint")>> => x = a
    BY DEF a
  <2> QED
    BY <1>3, <2>1, <2>2, <2>3, <2>4, <2>5 DEF Ends, Kinds
<1>5. CASE CloseQuic(c)
  <2>1. /\ KindOf[c] = "quic" /\ todo[c] = <<>> /\ room' = room
        /\ status' = [status EXCEPT ![c] = "closed"]
    BY <1>5 DEF CloseQuic
  <2>2. PICK t \in {ac, <<>>} :
          /\ todo' = [todo EXCEPT ![c] = t]
          /\ \/ route' = route
             \/ /\ route' = [route EXCEPT !["quic"][e] = NoConn]
                /\ t = ac \/ route["ws"][e] # NoConn
    BY <1>5 DEF CloseQuic, ac
  <2> QED
    BY <1>2, <1>3, <2>1, <2>2 DEF Ends, Kinds
<1> QED
  BY <1>4, <1>5

\* A connection that ends leaves no ghost.
LEMMA CloseNoGhost ==
  ASSUME CountInv, TasksType, OnlyCleanup, NEW c \in Conns, Ends(c)
  PROVE  OnlyCleanup' /\ NoNewGhost
<1> DEFINE e == EndOf[c]
           k == KindOf[c]
<1>1. e \in Endpoints /\ k \in Kinds
  BY ConnsAssumption DEF Kinds
<1>2. /\ \A d \in Conns \ {c} : status'[d] = status[d]
      /\ \A d \in Conns \ {c} : todo'[d] = todo[d]
      /\ todo[c] = <<>> /\ room' = room
  BY DEF Ends, TasksType
<1>3. todo'[c] \in Seq(Cleanup)
  BY DEF Ends, TasksType
<1>4. OnlyCleanup'
  BY <1>2, <1>3 DEF OnlyCleanup
<1>5. CASE route' = route
  <2>1. \A x \in Endpoints : Registered(x) => Registered(x)'
    BY <1>5 DEF Registered
  <2> QED
    BY <1>2, <1>4, <2>1, QuietNoGhost
<1>6. CASE /\ route' = [route EXCEPT ![k][e] = NoConn]
           /\ \/ todo'[c] # <<>> /\ Head(todo'[c]).step = "dropEndpoint"
              \/ \E l \in Kinds : l # k /\ route[l][e] # NoConn
  <2>1. \A x \in Endpoints, l \in Kinds :
          x # e \/ l # k => route'[l][x] = route[l][x]
    BY <1>1, <1>6 DEF CountInv, Routes
  <2>2. ASSUME NEW x \in Endpoints, Ghost(x)', ~Ghost(x) PROVE FALSE
    <3>1. CASE x = e
      BY <1>1, <1>6, <2>1, <2>2, <3>1 DEF Ghost, Registered, Take
    <3>2. CASE x # e
      <4>1. Registered(x) => Registered(x)'
        BY <2>1, <3>2 DEF Registered
      <4>2. Leaves(x) => Leaves(x)'
        BY <1>2, <3>2 DEF Leaves, Take
      <4> QED
        BY <1>2, <2>2, <4>1, <4>2 DEF Ghost, Leaves
    <3> QED
      BY <3>1, <3>2
  <2> QED
    BY <1>4, <2>2 DEF NoNewGhost
<1> QED
  BY <1>5, <1>6 DEF Ends, TasksType

\* A message is taken from an open connection whose task has nothing to do.
LEMMA ReceiveNoGhost ==
  ASSUME TasksType, OnlyCleanup, NEW c \in Conns, NEW h \in Messages, Receive(c, h)
  PROVE  OnlyCleanup' /\ NoNewGhost
<1>1. /\ status[c] = "open" /\ todo[c] = <<>> /\ UNCHANGED <<room, status, route>>
      /\ \A d \in Conns \ {c} : todo'[d] = todo[d]
  BY DEF Receive, TasksType
<1>2. OnlyCleanup'
  BY <1>1 DEF OnlyCleanup
<1>3. \A x \in Endpoints : Registered(x) => Registered(x)'
  BY <1>1 DEF Registered
<1> QED
  BY <1>1, <1>2, <1>3, QuietNoGhost

\* Every step.
LEMMA StepNoGhost ==
  ASSUME RoomInv, CountInv, TasksType, OnlyCleanup, [Next]_vars
  PROVE  OnlyCleanup' /\ NoNewGhost
<1>1. ASSUME NEW c \in Conns, Connect(c) PROVE OnlyCleanup' /\ NoNewGhost
  BY <1>1, ConnectNoGhost
<1>2. ASSUME NEW c \in Conns, CloseWs(c) \/ CloseQuic(c) PROVE OnlyCleanup' /\ NoNewGhost
  BY <1>2, CloseEnds, CloseNoGhost
<1>3. ASSUME NEW c \in Conns, NEW h \in Messages, Receive(c, h)
      PROVE  OnlyCleanup' /\ NoNewGhost
  BY <1>3, ReceiveNoGhost
<1>4. ASSUME NEW c \in Conns, Handle(c) PROVE OnlyCleanup' /\ NoNewGhost
  BY <1>4, HandleNoGhost
<1>5. CASE TimePasses \/ GcIdleRooms \/ ApplyRoomRoster \/ UNCHANGED vars
  <2>1. UNCHANGED <<status, todo, route>>
    BY <1>5 DEF TimePasses, GcIdleRooms, ApplyRoomRoster, vars
  <2>2. DeviceMembers(room') \subseteq DeviceMembers(room)
    <3>1. room \in Room
      BY DEF RoomInv, GoodRoom
    <3>2. CASE TimePasses
      BY <3>1, <3>2 DEF TimePasses, DeviceMembers, Room
    <3>3. CASE GcIdleRooms \/ ApplyRoomRoster
      BY <3>3, NewRoomMembers DEF GcIdleRooms, ApplyRoomRoster
    <3> QED
      BY <1>5, <3>2, <3>3 DEF vars
  <2>3. OnlyCleanup' /\ \A x \in Endpoints : Registered(x) => Registered(x)'
    BY <2>1 DEF OnlyCleanup, Registered
  <2> QED
    BY <2>1, <2>2, <2>3, QuietNoGhost
<1> QED
  BY <1>1, <1>2, <1>3, <1>4, <1>5 DEF Next

\* A connection that is not open only cleans up.
LEMMA OnlyCleanupAlways == Spec => []OnlyCleanup
<1>1. Init => OnlyCleanup
  <2>1. <<>> \in Seq(Cleanup)
    OBVIOUS
  <2> QED
    BY <2>1 DEF Init, OnlyCleanup
<1>2. RoomInv /\ CountInv /\ TasksType /\ OnlyCleanup /\ [Next]_vars => OnlyCleanup'
  BY StepNoGhost
<1> QED
  BY <1>1, <1>2, RoomAlwaysGood, CountAlways, TasksAlways, PTL DEF Spec

\* However often devices reconnect, and in whichever order their sockets and relay
\* streams close, a device that is left in the room without a connection was
\* brought in by the task of a replaced connection: handle_ws_connection and
\* unregister_quic_sender between them forget nobody.
THEOREM GhostsComeFromReplaced == Spec => GhostsOnlyFromReplaced
<1>1. RoomInv /\ CountInv /\ TasksType /\ OnlyCleanup /\ [Next]_vars => [NoNewGhost]_vars
  BY StepNoGhost
<1>2. Spec => [][NoNewGhost]_vars
  BY <1>1, OnlyCleanupAlways, RoomAlwaysGood, CountAlways, TasksAlways, PTL DEF Spec
<1> QED
  BY <1>2 DEF GhostsOnlyFromReplaced, NoNewGhost, LateFor

\* A task serves a join or a subscription of a connection that was replaced.
LateJoin == \E c \in Conns : Replaced(c) /\ (Join(c) \/ SfuSubscribe(c))

\* As long as no task serves a join of a connection that was replaced, reconnects
\* included, a device in the room is connected, by its socket or by its relay
\* stream, or a task is about to take it out.
THEOREM GhostsAlwaysLeave == Spec /\ [][~LateJoin]_vars => []NoGhost
<1>1. Init => NoGhost
  BY NewRoomMembers DEF Init, NoGhost, Ghost
<1>2. RoomInv /\ CountInv /\ TasksType /\ OnlyCleanup /\ NoGhost
      /\ [Next]_vars /\ [~LateJoin]_vars => NoGhost'
  <2> SUFFICES ASSUME RoomInv, CountInv, TasksType, OnlyCleanup, NoGhost,
                      [Next]_vars, [~LateJoin]_vars
               PROVE  NoGhost'
    OBVIOUS
  <2>1. CASE UNCHANGED vars
    BY <2>1 DEF vars, NoGhost, Ghost, Registered, Take
  <2>2. CASE ~LateJoin
    <3>1. NoNewGhost
      BY StepNoGhost
    <3> QED
      BY <2>2, <3>1 DEF NoNewGhost, NoGhost, LateFor, LateJoin
  <2> QED
    BY <2>1, <2>2
<1> QED
  BY <1>1, <1>2, OnlyCleanupAlways, RoomAlwaysGood, CountAlways, TasksAlways, PTL DEF Spec

=============================================================================
