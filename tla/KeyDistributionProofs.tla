------------------------- MODULE KeyDistributionProofs -------------------------
(* Theorems about the entries of pending_group_key_acks - who has seals       *)
(* outstanding, to whom, and for which epoch - and about who can ever come to *)
(* hold a room key, for every number of members, nodes, keys and attempts.    *)
EXTENDS RoomKeyingProofs, RoomSecrecy

USE EpochModAssumption, RetainedAssumption, MaxKeysAssumption,
    MembersAssumption, RolesAssumption, MaxAdvanceAssumption,
    MaxAttemptsAssumption, BoundsAssumption, LossyAssumption

-----------------------------------------------------------------------------
(* The invariant.  HasKeys is what makes it inductive: a client that mints    *)
(* its first key adds one attempt to whatever it has on record, and only an   *)
(* empty record keeps that within the limit.                                  *)

\* What an entry q for member p means at client m in state c.
Owed(m, c, p, q) ==
  q.attempts > 0 => /\ IsElectedKeyer(m, c)
                    /\ p \in Union(c)
                    /\ q.attempts <= MaxAttempts
                    /\ HasKeys(c.group)
                    /\ q.epoch <= c.group.current

\* No node's view lists the client itself, and every entry is owed.
OwedOK(m, c) ==
  /\ \A n \in Nodes : m \notin c.view[n]
  /\ \A p \in Members : Owed(m, c, p, c.pending[p])

OwedInv == \A m \in Members : OwedOK(m, mgr[m])

\* The election depends on the views alone.
LEMMA SameViewSameKeyer ==
  ASSUME NEW m, NEW c, NEW d, d.view = c.view
  PROVE  Union(d) = Union(c) /\ (IsElectedKeyer(m, d) <=> IsElectedKeyer(m, c))
  BY DEF Union, IsElectedKeyer

\* Entries may be dropped, and the group may move forward.
LEMMA KeepOwed ==
  ASSUME NEW m \in Members, NEW c \in Manager, NEW d \in Manager, OwedOK(m, c),
         d.view = c.view, Forward(c.group, d.group),
         \A p \in Members : d.pending[p] \in {c.pending[p], NoPending}
  PROVE  OwedOK(m, d)
  <1>1. Union(d) = Union(c) /\ (IsElectedKeyer(m, d) <=> IsElectedKeyer(m, c))
    BY SameViewSameKeyer
  <1>2. c.group.current \in Int /\ d.group.current \in Int
    BY DEF Manager, GroupState, Epochs
  <1>3. ASSUME NEW p \in Members PROVE Owed(m, d, p, d.pending[p])
    <2>1. CASE d.pending[p] = NoPending
      BY <2>1 DEF Owed, NoPending
    <2>2. CASE d.pending[p] = c.pending[p]
      <3>1. Owed(m, c, p, c.pending[p]) /\ c.pending[p].epoch \in Int
        BY DEF OwedOK, Manager, Pending, Epochs
      <3> QED
        BY <1>1, <1>2, <2>2, <3>1 DEF Owed, Forward
    <2> QED
      BY <2>1, <2>2
  <1> QED
    BY <1>3 DEF OwedOK

\* distribute_group_key to members nothing is outstanding for.
LEMMA DistributeOwed ==
  ASSUME NEW m \in Members, NEW r \in Results, OwedOK(m, r.mgr),
         IsElectedKeyer(m, r.mgr), HasKeys(r.mgr.group),
         NEW e \in Epochs, NEW k \in Keys, e <= r.mgr.group.current,
         NEW T \in SUBSET Members, T \subseteq Union(r.mgr),
         \A p \in T : r.mgr.pending[p].attempts = 0
  PROVE  OwedOK(m, Distribute(m, r, e, k, T).mgr)
  <1> DEFINE d == Distribute(m, r, e, k, T).mgr
             P == [p \in Members |->
               IF p \in T THEN Attempt(r.mgr.pending[p], e) ELSE r.mgr.pending[p]]
  <1>1. r.mgr \in Manager
    BY DEF Results
  <1>2. d = [r.mgr EXCEPT !.pending = P]
    BY DEF Distribute, Then
  <1>3. d.view = r.mgr.view /\ d.group = r.mgr.group /\ d.pending = P
    BY <1>1, <1>2 DEF Manager
  <1> HIDE DEF d
  <1>4. Union(d) = Union(r.mgr) /\ (IsElectedKeyer(m, d) <=> IsElectedKeyer(m, r.mgr))
    BY <1>3, SameViewSameKeyer
  <1>5. ASSUME NEW p \in Members PROVE Owed(m, d, p, d.pending[p])
    <2>1. CASE p \in T
      <3>1. d.pending[p] = Attempt(r.mgr.pending[p], e)
        BY <1>3, <2>1
      <3>2. d.pending[p].attempts = 1 /\ d.pending[p].epoch = e
        BY <2>1, <3>1 DEF Attempt
      <3> QED
        BY <1>3, <1>4, <2>1, <3>2 DEF Owed
    <2>2. CASE p \notin T
      <3>1. d.pending[p] = r.mgr.pending[p]
        BY <1>3, <2>2
      <3>2. Owed(m, r.mgr, p, r.mgr.pending[p])
        BY DEF OwedOK
      <3> QED
        BY <1>3, <1>4, <3>1, <3>2 DEF Owed
    <2> QED
      BY <2>1, <2>2
  <1>6. OwedOK(m, d)
    BY <1>3, <1>5 DEF OwedOK
  <1> QED
    BY <1>6 DEF d

\* Dropping entries leaves the others owed.
LEMMA DropOwed ==
  ASSUME NEW m \in Members, NEW r, Good(r), OwedOK(m, r.mgr), NEW T
  PROVE  /\ OwedOK(m, DropPending(r, T).mgr)
         /\ \A p \in Members : p \in T => DropPending(r, T).mgr.pending[p].attempts = 0
  <1> DEFINE d == DropPending(r, T).mgr
             P == [p \in Members |-> IF p \in T THEN NoPending ELSE r.mgr.pending[p]]
  <1>1. r.mgr \in Manager
    BY DEF Good, Results
  <1>2. d = [r.mgr EXCEPT !.pending = P]
    BY DEF DropPending, Then
  <1>3. d.view = r.mgr.view /\ d.group = r.mgr.group /\ d.pending = P
    BY <1>1, <1>2 DEF Manager
  <1>4. d \in Manager
    BY DropPendingType DEF Good, Results
  <1> HIDE DEF d
  <1>5. Forward(r.mgr.group, d.group)
    BY <1>1, <1>3 DEF Forward, Manager, GroupState, Epochs
  <1>6. OwedOK(m, d)
    BY <1>1, <1>3, <1>4, <1>5, KeepOwed
  <1>7. \A p \in Members : p \in T => d.pending[p].attempts = 0
    BY <1>3 DEF NoPending
  <1> QED
    BY <1>6, <1>7 DEF d

\* request_group_key changes no entry.
LEMMA RequestOwed ==
  ASSUME NEW m \in Members, NEW r, Good(r), OwedOK(m, r.mgr), NEW due \in BOOLEAN
  PROVE  OwedOK(m, RequestGroupKey(m, r, due).mgr)
  <1> DEFINE d == RequestGroupKey(m, r, due).mgr
             O == {[type |-> "request", from |-> m, to |-> p, epoch |-> 0,
                    key |-> NoKey] : p \in ElectedKeyer(r.mgr)}
  <1>1. r.mgr \in Manager
    BY DEF Good, Results
  <1>2. \/ d = r.mgr
        \/ d = [r.mgr EXCEPT !.asked = FALSE]
        \/ d = [r.mgr EXCEPT !.asked = TRUE]
    <2> DEFINE q1 == Then(r, [r.mgr EXCEPT !.asked = FALSE], {})
               q2 == Then(r, [r.mgr EXCEPT !.asked = TRUE], O)
    <2>1. \/ RequestGroupKey(m, r, due) = r
          \/ RequestGroupKey(m, r, due) = q1
          \/ RequestGroupKey(m, r, due) = q2
      BY DEF RequestGroupKey
    <2>2. q1.mgr = [r.mgr EXCEPT !.asked = FALSE] /\ q2.mgr = [r.mgr EXCEPT !.asked = TRUE]
      BY DEF Then
    <2> HIDE DEF q1, q2
    <2> QED
      BY <2>1, <2>2, Zenon
  <1> HIDE DEF d
  <1>3. /\ d \in Manager /\ d.view = r.mgr.view /\ d.group = r.mgr.group
        /\ d.pending = r.mgr.pending
    <2>1. \A b \in BOOLEAN : /\ [r.mgr EXCEPT !.asked = b] \in Manager
                             /\ [r.mgr EXCEPT !.asked = b].view = r.mgr.view
                             /\ [r.mgr EXCEPT !.asked = b].group = r.mgr.group
                             /\ [r.mgr EXCEPT !.asked = b].pending = r.mgr.pending
      BY <1>1 DEF Manager
    <2> QED
      BY <1>1, <1>2, <2>1
  <1>4. Forward(r.mgr.group, d.group)
    BY <1>1, <1>3 DEF Forward, Manager, GroupState, Epochs
  <1>5. OwedOK(m, d)
    BY <1>1, <1>3, <1>4, KeepOwed
  <1> QED
    BY <1>5 DEF d

\* The tail of serve_group_key_request and reseal_to_lagging_member.
LEMMA SealCurrentOwed ==
  ASSUME NEW m \in Members, NEW r, Good(r), OwedOK(m, r.mgr), NEW p \in Members
  PROVE  OwedOK(m, SealCurrentTo(m, r, p).mgr)
  <1> DEFINE g == r.mgr.group
             e == CurrentEpoch(g)
             d == DropPending(r, {p})
  <1>1. /\ r \in Results /\ r.mgr \in Manager /\ g \in GroupState
        /\ GroupOK(g, r.minted) /\ r.minted \in Nat
    BY DEF Good, Results, Manager
  <1>2. CASE SealCurrentTo(m, r, p) = r
    BY <1>2
  <1>3. CASE SealCurrentTo(m, r, p) # r
    <2>1. HasKeys(g) /\ p \in Union(r.mgr) /\ IsElectedKeyer(m, r.mgr)
      BY <1>3 DEF SealCurrentTo, IsKeyer
    <2>2. SealCurrentTo(m, r, p) = Distribute(m, d, e, EpochKey(g, e), {p})
      BY <1>3 DEF SealCurrentTo
    <2>3. e \in Epochs /\ e = g.current /\ EpochKey(g, e) \in Keys
      BY <1>1, <2>1, CurrentBelow
    <2>4. d \in Results /\ d.mgr.group = g /\ d.mgr.view = r.mgr.view
      BY <1>1, DropPendingType
    <2>5. OwedOK(m, d.mgr) /\ d.mgr.pending[p].attempts = 0
      <3>1. d.mgr.pending[p].attempts = 0
        BY <1>1 DEF DropPending, Then, Manager, NoPending
      <3>2. OwedOK(m, d.mgr)
        BY DropOwed, Zenon
      <3> QED
        BY <3>1, <3>2, Zenon
    <2> HIDE DEF d
    <2>6. Union(d.mgr) = Union(r.mgr) /\ IsElectedKeyer(m, d.mgr)
      BY <2>1, <2>4, SameViewSameKeyer
    <2>7. e <= d.mgr.group.current
      BY <2>3, <2>4 DEF Epochs
    <2> HIDE DEF e, g
    <2>8. HasKeys(d.mgr.group)
      BY <2>1, <2>4
    <2>9. OwedOK(m, Distribute(m, d, e, EpochKey(g, e), {p}).mgr)
      BY <2>1, <2>3, <2>4, <2>5, <2>6, <2>7, <2>8, DistributeOwed
    <2> QED
      BY <2>2, <2>9
  <1> QED
    BY <1>2, <1>3

\* reseal_to_lagging_member.
LEMMA ResealOwed ==
  ASSUME NEW m \in Members, NEW r, Good(r), OwedOK(m, r.mgr), NEW p \in Members,
         NEW e, NEW old
  PROVE  OwedOK(m, ResealToLaggingMember(m, r, p, e, old).mgr)
  BY SealCurrentOwed DEF ResealToLaggingMember

\* A new group state ahead of the old one is put in place.
LEMMA NewGroupOwed ==
  ASSUME NEW m \in Members, NEW r, Good(r), OwedOK(m, r.mgr),
         NEW g \in GroupState, NEW t \in 0 .. MaxKeys, Forward(r.mgr.group, g)
  PROVE  OwedOK(m, NewGroup(r, g, t).mgr)
  <1> DEFINE d == NewGroup(r, g, t).mgr
  <1>1. r.mgr \in Manager
    BY DEF Good, Results
  <1>2. d = [r.mgr EXCEPT !.group = g]
    BY DEF NewGroup
  <1>3. /\ d \in Manager /\ d.view = r.mgr.view /\ d.group = g
        /\ d.pending = r.mgr.pending
    BY <1>1, <1>2 DEF Manager
  <1> HIDE DEF d
  <1>4. OwedOK(m, d)
    BY <1>1, <1>3, KeepOwed
  <1> QED
    BY <1>4 DEF d

\* A freshly minted key is held.
LEMMA MintHolds ==
  ASSUME NoWrap, NEW g \in GroupState, NEW t \in Nat, t < MaxKeys, GroupOK(g, t),
         NEW k \in Keys
  PROVE  /\ HasKeys(NewOwnerEpoch(g, k))
         /\ g.seen_high # NoEpoch => HasKeys(Rotate(g, k))
  <1> DEFINE blank == [NoGroup EXCEPT !.seen_high = g.seen_high]
  <1>1. FirstEpoch(g) \in Epochs /\ NextEpoch(g) \in Epochs
    BY NextEpochType
  <1>2. blank \in GroupState /\ \A f \in Epochs : blank.keys[f] = NoKey
    BY NoGroupType DEF NoGroup, GroupState
  <1>3. NewOwnerEpoch(g, k) = Install(blank, FirstEpoch(g), k)
    BY DEF NewOwnerEpoch
  <1> HIDE DEF blank
  <1>4. HasKeys(NewOwnerEpoch(g, k))
    BY <1>1, <1>2, <1>3, InstallHolds
  <1>5. ASSUME g.seen_high # NoEpoch PROVE HasKeys(Rotate(g, k))
    <2>1. Rotate(g, k) = Install(g, NextEpoch(g), k)
      BY <1>5 DEF Rotate
    <2>2. NextEpoch(g) > g.current
      BY <1>5, NextEpochFresh
    <2>3. ASSUME NEW f \in Epochs, g.keys[f] # NoKey PROVE f <= NextEpoch(g)
      <3>1. HasKeys(g)
        BY <2>3 DEF HasKeys, Held
      <3>2. f <= g.current
        BY <2>3, <3>1 DEF GroupOK
      <3> QED
        BY <1>1, <2>2, <3>2 DEF GroupState, Epochs
    <2> QED
      BY <1>1, <2>1, <2>3, InstallHolds
  <1> QED
    BY <1>4, <1>5

\* The entries of a client's state have their type.
LEMMA EntryType ==
  ASSUME NEW c \in Manager, NEW p \in Members
  PROVE  c.pending[p] \in Pending
  BY DEF Manager

\* The members a node lists are replaced.
LEMMA ViewType ==
  ASSUME NEW c \in Manager, NEW n \in Nodes, NEW T \in SUBSET Members
  PROVE  [c EXCEPT !.view[n] = T] \in Manager
  BY DEF Manager

\* An entry with no attempts is none.
LEMMA NoAttempts ==
  ASSUME NEW x \in 0 .. 255, ~(x > 0)
  PROVE  x = 0
  OBVIOUS

\* Minting the first key of a room: without keys nothing is outstanding.
LEMMA MintFirstOwed ==
  ASSUME NoWrap, NEW m \in Members, NEW r, Good(r), ~HasKeys(r.mgr.group),
         r.minted < MaxKeys, OwedOK(m, r.mgr), IsElectedKeyer(m, r.mgr)
  PROVE  OwedOK(m, MintFirst(m, r).mgr)
  <1> DEFINE k == r.minted + 1
             g == NewOwnerEpoch(r.mgr.group, k)
             s == NewGroup(r, g, k)
  <1>1. /\ r \in Results /\ r.mgr \in Manager /\ r.mgr.group \in GroupState
        /\ r.minted \in Nat /\ GroupOK(r.mgr.group, r.minted)
    BY DEF Good, Results, Manager
  <1>2. k \in Keys /\ k \in 0 .. MaxKeys /\ r.minted <= k
    BY <1>1 DEF Keys
  <1>3. g \in GroupState
    BY <1>1, <1>2, MintType
  <1>4. GroupOK(g, k)
    BY <1>1, <1>2, MintOK
  <1>5. HasKeys(g)
    BY <1>1, <1>2, MintHolds
  <1>6. MintFirst(m, r) = Distribute(m, s, g.current, k, Union(r.mgr))
    BY DEF MintFirst
  <1>7. Union(r.mgr) \in SUBSET Members /\ g.current \in Epochs
    BY <1>1, <1>3, UnionType DEF GroupState
  <1>8. s.mgr.pending = r.mgr.pending
    BY <1>1 DEF NewGroup, Manager
  <1> HIDE DEF k, g
  <1>9. Forward(r.mgr.group, g)
    BY DEF Forward
  <1>10. s \in Results /\ s.mgr.group = g /\ s.mgr.view = r.mgr.view
    BY <1>2, <1>3, <1>4, <1>9, NewGroupStep DEF Step, Good
  <1>11. OwedOK(m, s.mgr)
    BY <1>2, <1>3, <1>9, NewGroupOwed
  <1> HIDE DEF s
  <1>12. Union(s.mgr) = Union(r.mgr) /\ IsElectedKeyer(m, s.mgr)
    BY <1>10, SameViewSameKeyer
  <1>13. ASSUME NEW p \in Members PROVE s.mgr.pending[p].attempts = 0
    <2>1. ~(r.mgr.pending[p].attempts > 0)
      BY DEF OwedOK, Owed
    <2>2. r.mgr.pending[p] \in Pending
      <3>1. r.mgr \in Manager
        BY <1>1
      <3> QED
        BY <3>1, EntryType, ZenonT(60)
    <2>3. r.mgr.pending[p].attempts \in 0 .. 255
      BY <2>2 DEF Pending
    <2>4. r.mgr.pending[p].attempts = 0
      BY <2>1, <2>3, NoAttempts, Zenon
    <2> QED
      BY <1>8, <2>4
  <1>14. g.current <= s.mgr.group.current
    BY <1>7, <1>10 DEF Epochs
  <1>15. OwedOK(m, Distribute(m, s, g.current, k, Union(r.mgr)).mgr)
    BY <1>2, <1>5, <1>7, <1>10, <1>11, <1>12, <1>13, <1>14, DistributeOwed
  <1> QED
    BY <1>6, <1>15

\* Rotating the key of a room: the entries for the old epochs go first.
LEMMA RotateKeyOwed ==
  ASSUME NoWrap, NEW m \in Members, NEW r, Good(r), r.minted < MaxKeys,
         r.mgr.group.seen_high # NoEpoch, OwedOK(m, r.mgr), IsElectedKeyer(m, r.mgr)
  PROVE  OwedOK(m, RotateKey(m, r).mgr)
  <1> DEFINE k == r.minted + 1
             g == Rotate(r.mgr.group, k)
             s == NewGroup(r, g, k)
             d == DropPending(s, Members)
  <1>1. /\ r \in Results /\ r.mgr \in Manager /\ r.mgr.group \in GroupState
        /\ r.minted \in Nat /\ GroupOK(r.mgr.group, r.minted)
    BY DEF Good, Results, Manager
  <1>2. k \in Keys /\ k \in 0 .. MaxKeys /\ r.minted <= k
    BY <1>1 DEF Keys
  <1>3. g \in GroupState
    BY <1>1, <1>2, MintType
  <1>4. GroupOK(g, k) /\ g.current >= r.mgr.group.current
    BY <1>1, <1>2, MintOK
  <1>5. HasKeys(g)
    BY <1>1, <1>2, MintHolds
  <1>6. RotateKey(m, r) = Distribute(m, d, g.current, k, Union(r.mgr))
    BY DEF RotateKey
  <1>7. Union(r.mgr) \in SUBSET Members /\ g.current \in Epochs
    BY <1>1, <1>3, UnionType DEF GroupState
  <1> HIDE DEF k, g
  <1>8. Forward(r.mgr.group, g)
    BY <1>4, <1>5 DEF Forward
  <1>9. Good(s) /\ s.mgr.group = g /\ s.mgr.view = r.mgr.view
    BY <1>2, <1>3, <1>4, <1>8, NewGroupStep DEF Step
  <1>10. OwedOK(m, s.mgr)
    BY <1>2, <1>3, <1>8, NewGroupOwed
  <1> HIDE DEF s
  <1>11. d \in Results /\ d.mgr.group = g /\ d.mgr.view = r.mgr.view
    BY <1>9, DropPendingType DEF Good
  <1>12. OwedOK(m, d.mgr) /\ \A p \in Members : d.mgr.pending[p].attempts = 0
    <2>1. OwedOK(m, d.mgr)
      BY <1>9, <1>10, DropOwed
    <2>2. s.mgr \in Manager
      BY <1>9 DEF Good, Results
    <2>3. d.mgr.pending = [p \in Members |-> NoPending]
      BY <2>2 DEF DropPending, Then, Manager
    <2> QED
      BY <2>1, <2>3 DEF NoPending
  <1> HIDE DEF d
  <1>13. Union(d.mgr) = Union(r.mgr) /\ IsElectedKeyer(m, d.mgr)
    BY <1>11, SameViewSameKeyer
  <1>14. g.current <= d.mgr.group.current
    BY <1>7, <1>11 DEF Epochs
  <1>15. OwedOK(m, Distribute(m, d, g.current, k, Union(r.mgr)).mgr)
    BY <1>2, <1>5, <1>7, <1>11, <1>12, <1>13, <1>14, DistributeOwed
  <1> QED
    BY <1>6, <1>15

\* rekey_room_if_behind.
LEMMA RekeyOwed ==
  ASSUME NoWrap, NEW m \in Members, NEW r, Good(r), OwedOK(m, r.mgr),
         RekeyIfBehind(m, r).minted <= MaxKeys
  PROVE  OwedOK(m, RekeyIfBehind(m, r).mgr)
  <1>1. r.minted \in Nat
    BY DEF Good, Results
  <1>2. CASE RekeyIfBehind(m, r) = r
    BY <1>2
  <1>3. CASE /\ RekeyIfBehind(m, r) = RotateKey(m, r)
             /\ IsBehind(r.mgr.group) /\ IsKeyer(m, r.mgr)
    <2>1. r.minted < MaxKeys
      BY <1>1, <1>3, MintedCount
    <2> QED
      BY <1>3, <2>1, RotateKeyOwed DEF IsBehind, IsKeyer
  <1> QED
    BY <1>2, <1>3 DEF RekeyIfBehind

\* on_unopenable_room_frame.
LEMMA UnopenableOwed ==
  ASSUME NoWrap, NEW m \in Members, NEW r, Good(r), NEW p \in Members,
         NEW e \in Epochs, e < r.minted, NEW due \in BOOLEAN, NEW old,
         OwedOK(m, r.mgr), OnUnopenable(m, r, p, e, due, old).minted <= MaxKeys
  PROVE  OwedOK(m, OnUnopenable(m, r, p, e, due, old).mgr)
  <1> DEFINE h == NoteSeen(r.mgr.group, e)
             a == NewGroup(r, h, r.minted)
             b == RekeyIfBehind(m, a)
             c == RequestGroupKey(m, b, due)
             d == ResealToLaggingMember(m, c, p, e, old)
  <1>1. /\ r \in Results /\ r.mgr.group \in GroupState /\ r.minted \in 0 .. MaxKeys
        /\ GroupOK(r.mgr.group, r.minted)
    BY DEF Good, Results, Manager
  <1>2. d = OnUnopenable(m, r, p, e, due, old)
    BY DEF OnUnopenable
  <1>3. h \in GroupState /\ GroupOK(h, r.minted) /\ Forward(r.mgr.group, h)
    BY <1>1, NoteSeenOK
  <1> HIDE DEF h
  <1>4. Good(a)
    BY <1>1, <1>3, NewGroupStep DEF Step
  <1>5. OwedOK(m, a.mgr)
    BY <1>1, <1>3, NewGroupOwed
  <1> HIDE DEF a
  <1>6. d.minted = c.minted /\ c.minted = b.minted
    BY DEF ResealToLaggingMember, SealCurrentTo, Distribute, DropPending,
           RequestGroupKey, Then
  <1> HIDE DEF d
  <1>7. Good(b)
    BY <1>2, <1>4, <1>6, RekeyStep DEF Step
  <1>8. OwedOK(m, b.mgr)
    BY <1>2, <1>4, <1>5, <1>6, RekeyOwed
  <1> HIDE DEF b
  <1>9. Good(c)
    BY <1>7, RequestStep DEF Step
  <1>10. OwedOK(m, c.mgr)
    BY <1>7, <1>8, RequestOwed
  <1> HIDE DEF c
  <1>11. OwedOK(m, d.mgr)
    BY <1>9, <1>10, ResealOwed DEF d
  <1> QED
    BY <1>2, <1>11

\* sync_room_membership: a client that has lost the election owes nothing, one
\* that has kept it owes nothing to the members that left, and owed nothing yet
\* to the ones that came.
LEMMA SyncOwed ==
  ASSUME NoWrap, NEW m \in Members, NEW r, Good(r), NEW n \in Nodes,
         NEW S \in SUBSET Members, NEW due \in BOOLEAN, OwedOK(m, r.mgr),
         SyncRoomMembership(m, r, n, S, due).minted <= MaxKeys
  PROVE  OwedOK(m, SyncRoomMembership(m, r, n, S, due).mgr)
  <1> DEFINE q    == SyncRoomMembership(m, r, n, S, due)
             s    == Then(r, [r.mgr EXCEPT !.view[n] = S \ {m}], {})
             old  == Union(r.mgr)
             new  == Union(s.mgr)
             g    == s.mgr.group
             e    == CurrentEpoch(g)
             kept == DropPending(s, Members \ new)
             none == DropPending(s, Members)
  <1>1. r \in Results /\ r.mgr \in Manager /\ r.minted \in Nat
    BY DEF Good, Results
  <1>2. /\ s.mgr \in Manager /\ s.mgr.group = r.mgr.group
        /\ s.mgr.pending = r.mgr.pending
        /\ \A k \in Nodes : m \notin s.mgr.view[k]
        /\ s.minted = r.minted /\ s.out = r.out
    <2>1. s.mgr = [r.mgr EXCEPT !.view[n] = S \ {m}]
      BY DEF Then
    <2>2. \A k \in Nodes : m \notin r.mgr.view[k]
      BY DEF OwedOK
    <2>3. s.minted = r.minted /\ s.out = r.out
      BY DEF Then
    <2>4. s.mgr.group = r.mgr.group /\ s.mgr.pending = r.mgr.pending
      BY <1>1, <2>1 DEF Manager
    <2>5. s.mgr.view = [r.mgr.view EXCEPT ![n] = S \ {m}]
      BY <1>1, <2>1 DEF Manager
    <2>6. r.mgr.view \in [Nodes -> SUBSET Members]
      BY <1>1 DEF Manager
    <2>7. \A k \in Nodes : m \notin s.mgr.view[k]
      BY <2>2, <2>5, <2>6
    <2>8. s.mgr \in Manager
      <3>1. ASSUME NEW T \in SUBSET Members PROVE [r.mgr EXCEPT !.view[n] = T] \in Manager
        BY <1>1, ViewType, Zenon
      <3> QED
        BY <2>1, <3>1
    <2> QED
      BY <2>3, <2>4, <2>7, <2>8
  <1>3. s \in Results
    BY <1>1, <1>2 DEF Then, Results
  <1>4. \/ q = RequestGroupKey(m, none, due)
        \/ /\ IsKeyer(m, s.mgr)
           /\ \/ ~HasKeys(g) /\ q = MintFirst(m, kept)
              \/ HasKeys(g) /\ q = RotateKey(m, kept)
              \/ HasKeys(g) /\ q = Distribute(m, kept, e, EpochKey(g, e), new \ old)
              \/ q = kept
    BY DEF SyncRoomMembership
  <1>5. new \in SUBSET Members
    BY <1>2, UnionType
  <1> HIDE DEF s, q
  <1>6. Good(s)
    BY <1>2, <1>3, QuietStep DEF Step
  <1>7. g \in GroupState /\ GroupOK(g, s.minted) /\ s.minted \in Nat
    BY <1>6 DEF Good, Results, Manager
  <1>8. /\ Good(kept) /\ kept \in Results /\ kept.mgr \in Manager
        /\ kept.minted = s.minted /\ kept.mgr.group = g
        /\ kept.mgr.view = s.mgr.view
    BY <1>6, DropPendingStep DEF Step, Good, Results
  <1>9. Good(none) /\ none.mgr.view = s.mgr.view
    BY <1>6, DropPendingStep DEF Step
  <1>10. none.mgr.pending = [p \in Members |-> NoPending]
    BY <1>2 DEF DropPending, Then, Manager
  <1>11. kept.mgr.pending = [p \in Members |->
           IF p \in Members \ new THEN NoPending ELSE r.mgr.pending[p]]
    BY <1>2 DEF DropPending, Then, Manager
  <1> HIDE DEF kept, none
  <1>12. CASE q = RequestGroupKey(m, none, due)
    <2>1. ASSUME NEW p \in Members PROVE Owed(m, none.mgr, p, none.mgr.pending[p])
      BY <1>10 DEF Owed, NoPending
    <2>2. OwedOK(m, none.mgr)
      BY <1>2, <1>9, <2>1 DEF OwedOK
    <2>3. OwedOK(m, RequestGroupKey(m, none, due).mgr)
      BY <1>9, <2>2, RequestOwed
    <2> QED
      BY <1>12, <2>3 DEF q
  <1>13. CASE IsKeyer(m, s.mgr)
    <2>1. Union(kept.mgr) = new /\ IsElectedKeyer(m, kept.mgr)
      BY <1>8, <1>13, SameViewSameKeyer DEF IsKeyer
    <2> HIDE DEF new, old
    <2>2. OwedOK(m, kept.mgr)
      <3>1. ASSUME NEW p \in Members PROVE Owed(m, kept.mgr, p, kept.mgr.pending[p])
        <4>1. CASE p \in new
          <5>1. kept.mgr.pending[p] = r.mgr.pending[p]
            BY <1>11, <4>1
          <5>2. Owed(m, r.mgr, p, r.mgr.pending[p])
            BY DEF OwedOK
          <5> QED
            BY <1>2, <1>8, <2>1, <4>1, <5>1, <5>2 DEF Owed
        <4>2. CASE p \notin new
          BY <1>11, <4>2 DEF Owed, NoPending
        <4> QED
          BY <4>1, <4>2
      <3> QED
        BY <1>2, <1>8, <3>1 DEF OwedOK
    <2>3. CASE ~HasKeys(g) /\ q = MintFirst(m, kept)
      <3>1. kept.minted < MaxKeys
        BY <1>1, <1>2, <1>8, <2>3, MintedCount DEF q
      <3>2. OwedOK(m, MintFirst(m, kept).mgr)
        BY <1>8, <2>1, <2>2, <2>3, <3>1, MintFirstOwed
      <3> QED
        BY <2>3, <3>2 DEF q
    <2>4. CASE HasKeys(g) /\ q = RotateKey(m, kept)
      <3>1. kept.minted < MaxKeys
        BY <1>1, <1>2, <1>8, <2>4, MintedCount DEF q
      <3>2. g.seen_high # NoEpoch
        BY <1>7, <2>4, CurrentBelow
      <3>3. OwedOK(m, RotateKey(m, kept).mgr)
        BY <1>8, <2>1, <2>2, <3>1, <3>2, RotateKeyOwed
      <3> QED
        BY <2>4, <3>3 DEF q
    <2>5. CASE HasKeys(g) /\ q = Distribute(m, kept, e, EpochKey(g, e), new \ old)
      <3>1. e \in Epochs /\ e = g.current /\ EpochKey(g, e) \in Keys
        BY <1>7, <2>5, CurrentBelow
      <3>2. e <= kept.mgr.group.current
        BY <1>8, <3>1 DEF Epochs
      <3>3. ASSUME NEW p \in new \ old PROVE kept.mgr.pending[p].attempts = 0
        <4>1. p \in Members /\ p \notin Union(r.mgr)
          BY <1>5 DEF old
        <4>2. ~(r.mgr.pending[p].attempts > 0)
          BY <4>1 DEF OwedOK, Owed
        <4>3. r.mgr.pending[p] \in Pending
          <5>1. r.mgr \in Manager /\ p \in Members
            BY <1>1, <4>1
          <5> QED
            BY <5>1, EntryType, ZenonT(60)
        <4>4. r.mgr.pending[p].attempts \in 0 .. 255
          BY <4>3 DEF Pending
        <4>5. r.mgr.pending[p].attempts = 0
          BY <4>2, <4>4, NoAttempts, Zenon
        <4> QED
          BY <1>11, <4>1, <4>5
      <3> HIDE DEF e
      <3>4. HasKeys(kept.mgr.group) /\ new \ old \subseteq Union(kept.mgr)
            /\ new \ old \in SUBSET Members
        BY <1>5, <1>8, <2>1, <2>5
      <3>5. OwedOK(m, Distribute(m, kept, e, EpochKey(g, e), new \ old).mgr)
        BY <1>8, <2>1, <2>2, <3>1, <3>2, <3>3, <3>4, DistributeOwed
      <3> QED
        BY <2>5, <3>5 DEF q
    <2>6. CASE q = kept
      BY <2>2, <2>6 DEF q
    <2> QED
      BY <1>4, <1>12, <2>3, <2>4, <2>5, <2>6
  <1> QED
    BY <1>4, <1>12, <1>13

-----------------------------------------------------------------------------
(* Every action keeps the invariant. *)

\* One client's state is replaced.
LEMMA ReplaceOwed ==
  ASSUME EpochInv, OwedInv, NEW m \in Members, NEW c, OwedOK(m, c),
         mgr' = [mgr EXCEPT ![m] = c]
  PROVE  OwedInv'
  <1>1. mgr \in [Members -> Manager]
    BY DEF EpochInv, ManagersOK
  <1>2. ASSUME NEW p \in Members PROVE OwedOK(p, mgr'[p])
    <2>1. CASE p = m
      BY <1>1, <2>1
    <2>2. CASE p # m
      BY <1>1, <2>2 DEF OwedInv
    <2> QED
      BY <2>1, <2>2
  <1> QED
    BY <1>2 DEF OwedInv

\* SfuMembers, SfuPeerJoined, SfuPeerLeft.
LEMMA HandleAnnouncementOwed ==
  ASSUME NoWrap, EpochInv, OwedInv, NEW m \in Members, NEW n \in Nodes,
         NEW due \in BOOLEAN, HandleAnnouncement(m, n, due)
  PROVE  OwedInv'
  <1> DEFINE a == Head(inbox[n][m])
             b == Before(m)
             r == IF a.kind = "members" THEN SyncRosters(m, n, a, due)
                                        ELSE SyncEdge(m, n, a, due)
  <1>1. inbox[n][m] \in Seq(Announcement) /\ inbox[n][m] # <<>>
    BY DEF EpochInv, ServersOK, HandleAnnouncement
  <1>2. a \in Announcement
    BY <1>1
  <1>3. a.set \in SUBSET Members /\ a.peer \in Members
    BY <1>2 DEF Announcement
  <1>4. r.minted <= MaxKeys /\ mgr' = [mgr EXCEPT ![m] = r.mgr]
    BY DEF HandleAnnouncement, Commit
  <1>5. Good(b) /\ OwedOK(m, b.mgr) /\ b.mgr = mgr[m] /\ mgr[m] \in Manager
    BY BeforeGood DEF OwedInv, Before, EpochInv, ManagersOK
  <1> HIDE DEF a
  <1>6. CASE a.kind = "members" /\ InRoom(m) = {}
    <2>1. r = b
      BY <1>6 DEF SyncRosters
    <2> HIDE DEF r, b
    <2> QED
      BY <1>4, <1>5, <2>1, ReplaceOwed
  <1>7. CASE a.kind = "members" /\ InRoom(m) # {}
    <2> DEFINE d == RecordRoomDevices(b, n, a.set)
    <2>1. r = SyncRoomMembership(m, d, n, a.set, due)
      BY <1>7 DEF SyncRosters
    <2> HIDE DEF r, b
    <2>2. Good(d)
      BY <1>3, <1>5, RecordDevicesStep DEF Step
    <2>3. d.mgr = [b.mgr EXCEPT !.devices[n] = a.set]
      BY DEF RecordRoomDevices, Then
    <2>4. d.mgr.view = b.mgr.view /\ d.mgr.pending = b.mgr.pending
          /\ d.mgr.group = b.mgr.group
      BY <1>5, <2>3 DEF Manager
    <2> HIDE DEF d
    <2>5. OwedOK(m, d.mgr)
      <3>1. d.mgr \in Manager /\ b.mgr \in Manager
        BY <1>5, <2>2 DEF Good, Results
      <3>2. Forward(b.mgr.group, d.mgr.group)
        BY <2>4, <3>1 DEF Forward, Manager, GroupState, Epochs
      <3> QED
        BY <1>5, <2>4, <3>1, <3>2, KeepOwed
    <2>6. OwedOK(m, SyncRoomMembership(m, d, n, a.set, due).mgr)
      BY <1>3, <1>4, <2>1, <2>2, <2>5, SyncOwed
    <2> QED
      BY <1>4, <2>1, <2>6, ReplaceOwed
  <1>8. CASE a.kind # "members"
    <2> DEFINE seen == mgr[m].view[n]
               S == IF a.kind = "joined" THEN seen \cup {a.peer} ELSE seen \ {a.peer}
    <2>1. S \in SUBSET Members
      BY <1>3, <1>5 DEF Manager
    <2>2. r = SyncRoomMembership(m, b, n, S, due)
      BY <1>8 DEF SyncEdge
    <2> HIDE DEF r, b, S
    <2>3. OwedOK(m, SyncRoomMembership(m, b, n, S, due).mgr)
      BY <1>4, <1>5, <2>1, <2>2, SyncOwed
    <2> QED
      BY <1>4, <2>2, <2>3, ReplaceOwed
  <1> QED
    BY <1>6, <1>7, <1>8

\* SfuGroupKey: the epoch moves forward, the entries stay.
LEMMA HandleGroupKeyOwed ==
  ASSUME NoWrap, EpochInv, OwedInv, NEW msg \in net, HandleGroupKey(msg)
  PROVE  OwedInv'
  <1> DEFINE m == msg.to
             c == [mgr[m] EXCEPT !.group = Install(@, msg.epoch, msg.key), !.asked = FALSE]
  <1>1. m \in Members
    BY DEF EpochInv, NetOK, Message
  <1>2. mgr \in [Members -> Manager] /\ mgr' \in [Members -> Manager] /\ AllForward
    BY HandleGroupKeyOK DEF EpochInv, ManagersOK
  <1>3. mgr' = [mgr EXCEPT ![m] = c] \/ mgr' = [mgr EXCEPT ![m] = mgr[m]]
    BY DEF HandleGroupKey, Commit, Then, Before
  <1>4. c.view = mgr[m].view /\ c.pending = mgr[m].pending
    BY <1>1, <1>2 DEF Manager
  <1>5. OwedOK(m, mgr[m]) /\ mgr[m] \in Manager
    BY <1>1, <1>2 DEF OwedInv
  <1> HIDE DEF c, m
  <1>6. CASE mgr' = [mgr EXCEPT ![m] = c]
    <2>1. mgr'[m] = c
      BY <1>1, <1>2, <1>6
    <2>2. c \in Manager /\ Forward(mgr[m].group, c.group)
      BY <1>1, <1>2, <2>1 DEF AllForward
    <2>3. OwedOK(m, c)
      BY <1>1, <1>4, <1>5, <2>2, KeepOwed
    <2> QED
      BY <1>1, <1>6, <2>3, ReplaceOwed
  <1>7. CASE mgr' = [mgr EXCEPT ![m] = mgr[m]]
    BY <1>1, <1>5, <1>7, ReplaceOwed
  <1> QED
    BY <1>3, <1>6, <1>7

\* SfuGroupKeyAck: an entry goes.
LEMMA HandleGroupKeyAckOwed ==
  ASSUME EpochInv, OwedInv, NEW msg \in net, HandleGroupKeyAck(msg)
  PROVE  OwedInv'
  <1> DEFINE m == msg.to
             c == [mgr[m] EXCEPT !.pending[msg.from] = NoPending]
  <1>1. m \in Members /\ msg.from \in Members
    BY DEF EpochInv, NetOK, Message
  <1>2. mgr \in [Members -> Manager] /\ mgr' \in [Members -> Manager] /\ AllForward
    BY HandleGroupKeyAckOK DEF EpochInv, ManagersOK
  <1>3. mgr' = [mgr EXCEPT ![m] = c] \/ mgr' = mgr
    BY <1>1, <1>2 DEF HandleGroupKeyAck
  <1>4. OwedOK(m, mgr[m]) /\ mgr[m] \in Manager
    BY <1>1, <1>2 DEF OwedInv
  <1>5. /\ c.view = mgr[m].view
        /\ \A p \in Members : c.pending[p] \in {mgr[m].pending[p], NoPending}
    BY <1>4 DEF Manager
  <1> HIDE DEF c, m
  <1>6. CASE mgr' = [mgr EXCEPT ![m] = c]
    <2>1. mgr'[m] = c
      BY <1>1, <1>2, <1>6
    <2>2. c \in Manager /\ Forward(mgr[m].group, c.group)
      BY <1>1, <1>2, <2>1 DEF AllForward
    <2>3. OwedOK(m, c)
      BY <1>1, <1>4, <1>5, <2>2, KeepOwed
    <2> QED
      BY <1>1, <1>6, <2>3, ReplaceOwed
  <1>7. CASE mgr' = mgr
    BY <1>7 DEF OwedInv
  <1> QED
    BY <1>3, <1>6, <1>7

\* SfuGroupKeyRequest.
LEMMA HandleGroupKeyRequestOwed ==
  ASSUME EpochInv, OwedInv, NEW msg \in net, HandleGroupKeyRequest(msg)
  PROVE  OwedInv'
  <1> DEFINE r == SealCurrentTo(msg.to, Before(msg.to), msg.from)
  <1>1. msg.to \in Members /\ msg.from \in Members
    BY DEF EpochInv, NetOK, Message
  <1>2. mgr' = [mgr EXCEPT ![msg.to] = r.mgr]
    BY DEF HandleGroupKeyRequest, Commit
  <1>3. Good(Before(msg.to)) /\ OwedOK(msg.to, Before(msg.to).mgr)
    BY <1>1, BeforeGood DEF OwedInv, Before
  <1>4. OwedOK(msg.to, r.mgr)
    BY <1>1, <1>3, SealCurrentOwed
  <1> HIDE DEF r
  <1> QED
    BY <1>1, <1>2, <1>4, ReplaceOwed

\* retry_group_key_requests.
LEMMA RetryRequestsOwed ==
  ASSUME EpochInv, OwedInv, NEW m \in Members, NEW due \in BOOLEAN,
         RetryGroupKeyRequests(m, due)
  PROVE  OwedInv'
  <1> DEFINE r == RequestGroupKey(m, Before(m), due)
  <1>1. mgr' = [mgr EXCEPT ![m] = r.mgr]
    BY DEF RetryGroupKeyRequests, Commit
  <1>2. Good(Before(m)) /\ OwedOK(m, Before(m).mgr)
    BY BeforeGood DEF OwedInv, Before
  <1>3. OwedOK(m, r.mgr)
    BY <1>2, RequestOwed
  <1> HIDE DEF r
  <1> QED
    BY <1>1, <1>3, ReplaceOwed

\* A room frame is heard.
LEMMA HearFrameOwed ==
  ASSUME NoWrap, EpochInv, OwedInv, NEW m \in Members, NEW p \in Members,
         NEW due \in BOOLEAN, NEW old \in BOOLEAN, HearFrame(m, p, due, old)
  PROVE  OwedInv'
  <1> DEFINE f == air[p]
             b == Before(m)
             r1 == ResealToLaggingMember(m, b, p, f.epoch, old)
             r2 == OnUnopenable(m, b, p, f.epoch, due, old)
             r == IF mgr[m].group.keys[f.epoch] = f.key THEN r1 ELSE r2
  <1>1. r.minted <= MaxKeys /\ mgr' = [mgr EXCEPT ![m] = r.mgr] /\ f.key # NoKey
    BY DEF HearFrame, Commit
  <1>2. f.epoch \in Epochs /\ (f.key # NoKey => f.epoch < minted)
    BY DEF EpochInv, AirOK, Frame
  <1>3. Good(b) /\ b.minted = minted /\ OwedOK(m, b.mgr)
    BY BeforeGood DEF Before, OwedInv
  <1> HIDE DEF b
  <1>4. OwedOK(m, r.mgr)
    <2>1. CASE mgr[m].group.keys[f.epoch] = f.key
      <3>1. OwedOK(m, r1.mgr)
        BY <1>3, ResealOwed
      <3> QED
        BY <2>1, <3>1
    <2>2. CASE mgr[m].group.keys[f.epoch] # f.key
      <3>1. r = r2
        BY <2>2
      <3> HIDE DEF r
      <3>2. OwedOK(m, r2.mgr)
        BY <1>1, <1>2, <1>3, <3>1, UnopenableOwed
      <3> QED
        BY <3>1, <3>2
    <2> QED
      BY <2>1, <2>2
  <1> HIDE DEF r
  <1> QED
    BY <1>1, <1>4, ReplaceOwed

\* One more attempt of an entry that is not given up on.
LEMMA AttemptWithin ==
  ASSUME NEW q \in Pending, ~(q.attempts >= MaxAttempts)
  PROVE  /\ Attempt(q, q.epoch).attempts <= MaxAttempts
         /\ Attempt(q, q.epoch).epoch = q.epoch
  BY DEF Attempt, Pending

\* retry_pending_group_keys: an entry is sent again only below the limit.
LEMMA RetryPendingOwed ==
  ASSUME EpochInv, OwedInv, NEW m \in Members, RetryPendingGroupKeys(m)
  PROVE  OwedInv'
  <1> DEFINE c    == mgr[m]
             open == {p \in Members : c.pending[p].attempts > 0}
             drop == Abandoned(m, c)
  <1>1. PICK due \in SUBSET (open \ drop) :
          LET gone == {p \in due : EpochKey(c.group, c.pending[p].epoch) = NoKey}
              sent == due \ gone
          IN  mgr' = [mgr EXCEPT ![m].pending = [p \in Members |->
                IF p \in drop \cup gone THEN NoPending
                ELSE IF p \in sent THEN Attempt(@[p], @[p].epoch)
                ELSE @[p]]]
    BY DEF RetryPendingGroupKeys
  <1> DEFINE gone == {p \in due : EpochKey(c.group, c.pending[p].epoch) = NoKey}
             sent == due \ gone
             P == [p \in Members |->
                     IF p \in drop \cup gone THEN NoPending
                     ELSE IF p \in sent THEN Attempt(c.pending[p], c.pending[p].epoch)
                     ELSE c.pending[p]]
             d == [c EXCEPT !.pending = P]
  <1>2. mgr \in [Members -> Manager] /\ c \in Manager /\ OwedOK(m, c)
    BY DEF EpochInv, ManagersOK, OwedInv
  <1>3. mgr' = [mgr EXCEPT ![m] = d]
    BY <1>1, <1>2
  <1>4. d.view = c.view /\ d.group = c.group /\ d.pending = P
    BY <1>2 DEF Manager
  <1> HIDE DEF d
  <1>5. Union(d) = Union(c) /\ (IsElectedKeyer(m, d) <=> IsElectedKeyer(m, c))
    BY <1>4, SameViewSameKeyer
  <1>6. ASSUME NEW p \in Members PROVE Owed(m, d, p, d.pending[p])
    <2>1. Owed(m, c, p, c.pending[p]) /\ c.pending[p] \in Pending
      <3>1. Owed(m, c, p, c.pending[p])
        BY <1>2 DEF OwedOK
      <3>2. c \in Manager
        BY <1>2
      <3>3. c.pending[p] \in Pending
        BY <3>2, EntryType, ZenonT(60)
      <3> QED
        BY <3>1, <3>3
    <2>2. CASE d.pending[p] = NoPending
      BY <2>2 DEF Owed, NoPending
    <2>3. CASE d.pending[p] = c.pending[p]
      BY <1>4, <1>5, <2>1, <2>3 DEF Owed
    <2>4. CASE p \in sent /\ d.pending[p] = Attempt(c.pending[p], c.pending[p].epoch)
      <3>1. c.pending[p].attempts > 0 /\ ~(c.pending[p].attempts >= MaxAttempts)
        <4>1. c.pending[p].attempts > 0 /\ p \notin Abandoned(m, c)
          BY <2>4
        <4> QED
          BY <4>1 DEF Abandoned
      <3>2. d.pending[p].attempts <= MaxAttempts /\ d.pending[p].epoch = c.pending[p].epoch
        BY <2>1, <2>4, <3>1, AttemptWithin, Zenon
      <3> QED
        BY <1>4, <1>5, <2>1, <3>1, <3>2 DEF Owed
    <2> HIDE DEF drop, gone, sent
    <2> QED
      BY <1>4, <2>2, <2>3, <2>4
  <1>7. OwedOK(m, d)
    BY <1>2, <1>4, <1>6 DEF OwedOK
  <1> QED
    BY <1>3, <1>7, ReplaceOwed

\* A client that starts again, or leaves a node for good, owes nothing.
LEMMA ForgetOwed ==
  ASSUME NEW m \in Members, NEW c \in Manager, OwedOK(m, c), NEW n \in Nodes
  PROVE  OwedOK(m, Forget(c, n)) /\ OwedOK(m, FreshManager)
  <1>1. ASSUME NEW d, d.pending = [p \in Members |-> NoPending],
               \A k \in Nodes : m \notin d.view[k]
        PROVE  OwedOK(m, d)
    <2>1. \A p \in Members : d.pending[p].attempts = 0
      BY <1>1 DEF NoPending
    <2> QED
      BY <1>1, <2>1 DEF OwedOK, Owed
  <1>2. FreshManager.pending = [p \in Members |-> NoPending]
        /\ \A k \in Nodes : m \notin FreshManager.view[k]
    BY DEF FreshManager
  <1>3. Forget(c, n).pending = FreshManager.pending
        /\ Forget(c, n).view = [c.view EXCEPT ![n] = {}]
    BY DEF Forget, Manager
  <1>4. \A k \in Nodes : m \notin Forget(c, n).view[k]
    BY <1>3 DEF OwedOK, Manager
  <1> QED
    BY <1>1, <1>2, <1>3, <1>4

\* Joins, leaves, lost connections and restarts.
LEMMA MembershipOwed ==
  ASSUME EpochInv, OwedInv, NEW m \in Members, Membership(m)
  PROVE  OwedInv'
  <1>1. mgr \in [Members -> Manager] /\ mgr[m] \in Manager /\ OwedOK(m, mgr[m])
    BY DEF EpochInv, ManagersOK, OwedInv
  <1>2. CASE mgr' = mgr
    BY <1>2 DEF OwedInv
  <1>3. ASSUME NEW n \in Nodes, mgr' = [mgr EXCEPT ![m] = Forget(@, n)]
        PROVE  OwedInv'
    <2>1. mgr' = [mgr EXCEPT ![m] = Forget(mgr[m], n)]
      BY <1>1, <1>3
    <2> QED
      BY <1>1, <2>1, ForgetOwed, ReplaceOwed
  <1>4. ASSUME NEW n \in Nodes, Disconnect(m, n) PROVE OwedInv'
    <2> DEFINE d == [mgr[m] EXCEPT !.devices[n] = {}]
    <2>1. mgr' = [mgr EXCEPT ![m] = d]
      BY <1>1, <1>4 DEF Disconnect
    <2>2. /\ d \in Manager /\ d.view = mgr[m].view /\ d.group = mgr[m].group
          /\ d.pending = mgr[m].pending
      BY <1>1 DEF Manager
    <2> HIDE DEF d
    <2>3. Forward(mgr[m].group, d.group)
      BY <1>1, <2>2 DEF Forward, Manager, GroupState, Epochs
    <2>4. OwedOK(m, d)
      BY <1>1, <2>2, <2>3, KeepOwed
    <2> QED
      BY <2>1, <2>4, ReplaceOwed
  <1>5. CASE Restart(m)
    <2>1. mgr' = [mgr EXCEPT ![m] = FreshManager]
      BY <1>5 DEF Restart
    <2>2. OwedOK(m, FreshManager)
      BY DEF OwedOK, Owed, FreshManager, NoPending
    <2> QED
      BY <2>1, <2>2, ReplaceOwed
  <1>6. ASSUME NEW n \in Nodes, NEW here \in BOOLEAN,
               LeaveVoice(m, n) \/ Unsubscribe(m, n, here)
        PROVE  OwedInv'
    <2>1. mgr' = mgr \/ mgr' = [mgr EXCEPT ![m] = Forget(@, n)]
      BY <1>6 DEF LeaveVoice, Unsubscribe
    <2> QED
      BY <1>2, <1>3, <2>1
  <1>7. ASSUME NEW n \in Nodes, JoinVoice(m, n) \/ Subscribe(m, n) \/ Expel(m, n)
        PROVE  OwedInv'
    BY <1>2, <1>7 DEF JoinVoice, Subscribe, Expel
  <1> QED
    BY <1>4, <1>5, <1>6, <1>7 DEF Membership

\* A step keeps the invariant.
LEMMA OwedStep ==
  ASSUME NoWrap, EpochInv, OwedInv, [Next]_vars
  PROVE  OwedInv'
  <1>1. CASE UNCHANGED mgr
    BY <1>1 DEF OwedInv
  <1>2. ASSUME NEW m \in Members, Membership(m) PROVE OwedInv'
    BY <1>2, MembershipOwed
  <1>3. ASSUME NEW m \in Members, NEW n \in Nodes, NEW due \in BOOLEAN,
               HandleAnnouncement(m, n, due)
        PROVE  OwedInv'
    BY <1>3, HandleAnnouncementOwed
  <1>4. ASSUME NEW m \in Members, Timers(m) PROVE OwedInv'
    BY <1>4, RetryPendingOwed, RetryRequestsOwed DEF Timers
  <1>5. ASSUME NEW m \in Members, SendFrame(m) PROVE OwedInv'
    BY <1>1, <1>5 DEF SendFrame
  <1>6. ASSUME NEW m \in Members, NEW p \in Members, NEW due \in BOOLEAN,
               NEW old \in BOOLEAN, HearFrame(m, p, due, old)
        PROVE  OwedInv'
    BY <1>6, HearFrameOwed
  <1>7. ASSUME NEW msg \in net, Deliver(msg) PROVE OwedInv'
    BY <1>7, HandleGroupKeyOwed, HandleGroupKeyAckOwed, HandleGroupKeyRequestOwed
    DEF Deliver
  <1>8. ASSUME NEW msg \in net, Lose(msg) PROVE OwedInv'
    BY <1>1, <1>8 DEF Lose
  <1>9. ASSUME NEW n \in Nodes, NEW h \in Members, Serve(n, h) PROVE OwedInv'
    BY <1>1, <1>9 DEF Serve, ReadRoster, SendAnnouncement, ServeSubscribe
  <1> QED
    BY <1>1, <1>2, <1>3, <1>4, <1>5, <1>6, <1>7, <1>8, <1>9 DEF Next, vars

\* The invariant holds in every reachable state.
LEMMA OwedInvHolds == ASSUME NoWrap PROVE Spec => []OwedInv
  <1>1. Init => OwedInv
    BY DEF Init, OwedInv, OwedOK, Owed, FreshManager, NoPending
  <1>2. EpochInv /\ OwedInv /\ [Next]_vars => OwedInv'
    BY OwedStep
  <1> QED
    BY <1>1, <1>2, EpochInvHolds, PTL DEF Spec

-----------------------------------------------------------------------------

\* For any number of members, nodes and attempts, and however announcements of
\* several nodes, lost seals, restarts and leaves interleave, only a client that
\* wins the election in its own view has seals outstanding, and only to members
\* that view lists: sync_room_membership ends the others with the change itself.
THEOREM OnlyTheKeyerDistributes == ASSUME NoWrap PROVE Spec => []OnlyKeyerDistributes
  <1>1. OwedInv => OnlyKeyerDistributes
    BY DEF OwedInv, OwedOK, Owed, OnlyKeyerDistributes
  <1> QED
    BY <1>1, OwedInvHolds, PTL

\* No entry counts more than GROUP_KEY_MAX_ATTEMPTS sends, no client waits for an
\* acknowledgement of its own, and no entry is for an epoch its keyer has not
\* reached: every new key starts its entries from nothing.
THEOREM PendingAlwaysWithinAttempts ==
  ASSUME NoWrap PROVE Spec => []PendingWithinAttempts
  <1>1. OwedInv => PendingWithinAttempts
    <2> SUFFICES ASSUME OwedInv, NEW m \in Members, NEW p \in Members,
                        mgr[m].pending[p].attempts > 0
                 PROVE  /\ mgr[m].pending[p].attempts <= MaxAttempts
                        /\ p # m
                        /\ mgr[m].pending[p].epoch <= mgr[m].group.current
      BY DEF PendingWithinAttempts
    <2>1. OwedOK(m, mgr[m]) /\ Owed(m, mgr[m], p, mgr[m].pending[p])
      BY DEF OwedInv, OwedOK
    <2>2. p # m
      BY <2>1 DEF OwedOK, Owed, Union
    <2> QED
      BY <2>1, <2>2 DEF Owed
  <1> QED
    BY <1>1, OwedInvHolds, PTL

-----------------------------------------------------------------------------
(* Who may hold a key.  ForwardSecrecy alone is not inductive: a key already  *)
(* minted is sealed again to whoever its holder sees as a member, so those    *)
(* must be in its audience as well; and a key is told from every key still to *)
(* come only if everything held or sealed has been minted.                    *)

\* The keys client m may hold, for given audiences A of the t keys minted.
May(m, A, t) == {NoKey} \cup {k \in 1 .. t : m \in A[k]}

\* Everybody named anywhere may hold every key minted so far.
NamedOK == \A p \in Named : \A k \in 1 .. minted : p \in audience[k]

HeldOK == \A m \in Members, e \in Epochs :
            mgr[m].group.keys[e] \in May(m, audience, minted)

SealedOK == \A msg \in net : msg.type = "key" => msg.key \in May(msg.to, audience, minted)

SecrecyInv == NamedOK /\ HeldOK /\ SealedOK

\* The invariant says what the property says.
LEMMA SecrecyInvImplies == ASSUME EpochInv, SecrecyInv PROVE ForwardSecrecy
  <1> SUFFICES ASSUME NEW k \in 1 .. minted
               PROVE  /\ \A m \in Members, e \in Epochs :
                           mgr[m].group.keys[e] = k => m \in audience[k]
                      /\ \A msg \in net :
                           msg.type = "key" /\ msg.key = k => msg.to \in audience[k]
    BY DEF ForwardSecrecy
  <1>1. minted \in Nat
    BY DEF EpochInv
  <1>2. k # NoKey
    BY <1>1 DEF NoKey
  <1> QED
    BY <1>2 DEF SecrecyInv, HeldOK, SealedOK, May

\* A handler that may hold the keys K, t of them minted when it started, has
\* got to r: it holds one of K or a key it minted itself, and has sealed minted
\* keys to members of its view.
Within(K, t, r) ==
  /\ \A e \in Epochs : r.mgr.group.keys[e] \in K \cup ((t + 1) .. r.minted)
  /\ \A msg \in r.out :
       msg.type = "key" => msg.to \in Union(r.mgr) /\ msg.key \in 1 .. r.minted

\* A step that leaves the view, the group and the counter as they are, and seals
\* only minted keys to members of the view.
LEMMA SameGroupWithin ==
  ASSUME NEW K, NEW t, NEW r, NEW q, Within(K, t, r),
         q.mgr.group = r.mgr.group, q.mgr.view = r.mgr.view, q.minted = r.minted,
         \A msg \in q.out : \/ msg \in r.out
                            \/ msg.type # "key"
                            \/ msg.to \in Union(r.mgr) /\ msg.key \in 1 .. r.minted
  PROVE  Within(K, t, q)
  <1>1. Union(q.mgr) = Union(r.mgr)
    BY DEF Union
  <1> QED
    BY <1>1 DEF Within

\* distribute_group_key of a minted key, to members of the view.
LEMMA DistributeWithin ==
  ASSUME NEW K, NEW t, NEW m, NEW r \in Results, Within(K, t, r), NEW e,
         NEW k \in 1 .. r.minted, NEW T, T \subseteq Union(r.mgr)
  PROVE  Within(K, t, Distribute(m, r, e, k, T))
  <1> DEFINE q == Distribute(m, r, e, k, T)
             P == [p \in Members |->
               IF p \in T THEN Attempt(r.mgr.pending[p], e) ELSE r.mgr.pending[p]]
             O == {[type |-> "key", from |-> m, to |-> p,
                    epoch |-> e, key |-> k] : p \in T}
  <1>1. r.mgr \in Manager
    BY DEF Results
  <1>2. q = [mgr |-> [r.mgr EXCEPT !.pending = P], out |-> r.out \cup O,
             minted |-> r.minted]
    BY DEF Distribute, Then
  <1>3. \A msg \in O : msg.to \in Union(r.mgr) /\ msg.key = k
    OBVIOUS
  <1> HIDE DEF q, P, O
  <1>4. q.mgr.group = r.mgr.group /\ q.mgr.view = r.mgr.view /\ q.minted = r.minted
    BY <1>1, <1>2 DEF Manager
  <1>5. q.out = r.out \cup O
    BY <1>2
  <1>6. Within(K, t, q)
    BY <1>3, <1>4, <1>5, SameGroupWithin
  <1> QED
    BY <1>6 DEF q

\* Dropping entries seals nothing.
LEMMA DropWithin ==
  ASSUME NEW K, NEW t, NEW r \in Results, Within(K, t, r), NEW T
  PROVE  Within(K, t, DropPending(r, T))
  <1> DEFINE q == DropPending(r, T)
  <1>1. /\ q.mgr.group = r.mgr.group /\ q.mgr.view = r.mgr.view
        /\ q.minted = r.minted /\ q.out = r.out
    BY DropPendingType
  <1> HIDE DEF q
  <1>2. Within(K, t, q)
    BY <1>1, SameGroupWithin
  <1> QED
    BY <1>2 DEF q

\* A group of keys the handler may hold is put in place.
LEMMA NewGroupWithin ==
  ASSUME NEW K, NEW t, NEW r \in Results, Within(K, t, r), NEW g,
         NEW u \in Nat, r.minted <= u,
         \A e \in Epochs : g.keys[e] \in K \cup ((t + 1) .. u)
  PROVE  Within(K, t, NewGroup(r, g, u))
  <1> DEFINE q == NewGroup(r, g, u)
  <1>1. r.mgr \in Manager /\ r.minted \in Nat
    BY DEF Results
  <1>2. q = [mgr |-> [r.mgr EXCEPT !.group = g], out |-> r.out, minted |-> u]
    BY DEF NewGroup
  <1> HIDE DEF q
  <1>3. q.mgr.group = g /\ q.mgr.view = r.mgr.view /\ q.minted = u /\ q.out = r.out
    BY <1>1, <1>2 DEF Manager
  <1>4. Union(q.mgr) = Union(r.mgr)
    BY <1>3 DEF Union
  <1>5. \A x \in 1 .. r.minted : x \in 1 .. u
    BY <1>1
  <1>6. Within(K, t, q)
    BY <1>3, <1>4, <1>5 DEF Within
  <1> QED
    BY <1>6 DEF q

\* The group state operators hold what they held, the key given to them, or
\* nothing.
LEMMA InstallKeys ==
  ASSUME NEW g \in GroupState, NEW e \in Epochs, NEW k, NEW f \in Epochs
  PROVE  Install(g, e, k).keys[f] \in {g.keys[f], k, NoKey}
  BY DEF Install, Retain, GroupState

LEMMA MintKeys ==
  ASSUME NEW g \in GroupState, NEW k, NEW f \in Epochs
  PROVE  /\ NewOwnerEpoch(g, k).keys[f] \in {k, NoKey}
         /\ Rotate(g, k).keys[f] \in {g.keys[f], k, NoKey}
  <1> DEFINE blank == [NoGroup EXCEPT !.seen_high = g.seen_high]
  <1>1. FirstEpoch(g) \in Epochs /\ NextEpoch(g) \in Epochs
    BY NextEpochType
  <1>2. blank \in GroupState /\ blank.keys[f] = NoKey
    BY NoGroupType DEF NoGroup, GroupState
  <1>3. NewOwnerEpoch(g, k) = Install(blank, FirstEpoch(g), k)
    BY DEF NewOwnerEpoch
  <1> HIDE DEF blank
  <1>4. NewOwnerEpoch(g, k).keys[f] \in {k, NoKey}
    BY <1>1, <1>2, <1>3, InstallKeys
  <1>5. Rotate(g, k).keys[f] \in {g.keys[f], k, NoKey}
    BY <1>1, <1>4, InstallKeys DEF Rotate
  <1> QED
    BY <1>4, <1>5

\* request_group_key.
LEMMA RequestWithin ==
  ASSUME NEW K, NEW t, NEW m \in Members, NEW r, Good(r), Within(K, t, r),
         NEW due \in BOOLEAN
  PROVE  Within(K, t, RequestGroupKey(m, r, due))
  <1> DEFINE q == RequestGroupKey(m, r, due)
             O == {[type |-> "request", from |-> m, to |-> p, epoch |-> 0,
                    key |-> NoKey] : p \in ElectedKeyer(r.mgr)}
  <1>1. q.minted = r.minted /\ q.mgr.group = r.mgr.group /\ q.mgr.view = r.mgr.view
    BY RequestStep
  <1>2. q.out \in {r.out, r.out \cup {}, r.out \cup O}
    BY DEF RequestGroupKey, Then
  <1>3. \A msg \in O : msg.type # "key"
    OBVIOUS
  <1> HIDE DEF q, O
  <1>4. Within(K, t, q)
    BY <1>1, <1>2, <1>3, SameGroupWithin
  <1> QED
    BY <1>4 DEF q

\* Keys a handler may hold: none, one minted before it started.
MayHold(K, t) == t \in Nat /\ K \subseteq 0 .. t /\ NoKey \in K

\* Every key the handler holds has been minted.
LEMMA WithinMinted ==
  ASSUME NEW K, NEW t, MayHold(K, t), NEW r \in Results, Within(K, t, r), t <= r.minted,
         NEW e \in Epochs, r.mgr.group.keys[e] # NoKey
  PROVE  r.mgr.group.keys[e] \in 1 .. r.minted
  <1>1. r.minted \in Nat
    BY DEF Results
  <1>2. r.mgr.group.keys[e] \in K \cup ((t + 1) .. r.minted)
    BY DEF Within
  <1>3. \A x \in K \cup ((t + 1) .. r.minted) : x # NoKey => x \in 1 .. r.minted
    BY <1>1 DEF MayHold, NoKey
  <1> QED
    BY <1>2, <1>3, Zenon

\* Minting the first key of a room.
LEMMA MintFirstWithin ==
  ASSUME NoWrap, NEW K, NEW t, MayHold(K, t), NEW m \in Members, NEW r, Good(r),
         Within(K, t, r), t <= r.minted, ~HasKeys(r.mgr.group), r.minted < MaxKeys
  PROVE  Within(K, t, MintFirst(m, r))
  <1> DEFINE k == r.minted + 1
             g == NewOwnerEpoch(r.mgr.group, k)
             s == NewGroup(r, g, k)
  <1>1. /\ r \in Results /\ r.mgr \in Manager /\ r.mgr.group \in GroupState
        /\ r.minted \in Nat /\ GroupOK(r.mgr.group, r.minted)
    BY DEF Good, Results, Manager
  <1>2. /\ k \in Keys /\ k \in 0 .. MaxKeys /\ r.minted <= k /\ k \in Nat
        /\ k \in 1 .. k /\ k \in (t + 1) .. k
    BY <1>1 DEF Keys, MayHold
  <1>3. g \in GroupState /\ GroupOK(g, k)
    BY <1>1, <1>2, MintType, MintOK
  <1>4. \A f \in Epochs : g.keys[f] \in K \cup ((t + 1) .. k)
    BY <1>1, <1>2, MintKeys DEF MayHold
  <1>5. MintFirst(m, r) = Distribute(m, s, g.current, k, Union(r.mgr))
    BY DEF MintFirst
  <1> HIDE DEF k, g
  <1>6. Forward(r.mgr.group, g)
    BY DEF Forward
  <1>7. s \in Results /\ s.minted = k /\ s.mgr.view = r.mgr.view
    BY <1>2, <1>3, <1>6, NewGroupStep DEF Step, Good
  <1>8. Within(K, t, s)
    BY <1>1, <1>2, <1>4, NewGroupWithin
  <1> HIDE DEF s
  <1>9. Union(s.mgr) = Union(r.mgr)
    BY <1>7 DEF Union
  <1> QED
    BY <1>2, <1>5, <1>7, <1>8, <1>9, DistributeWithin

\* Minting a later one.
LEMMA RotateKeyWithin ==
  ASSUME NoWrap, NEW K, NEW t, MayHold(K, t), NEW m \in Members, NEW r, Good(r),
         Within(K, t, r), t <= r.minted, r.minted < MaxKeys,
         r.mgr.group.seen_high # NoEpoch
  PROVE  Within(K, t, RotateKey(m, r))
  <1> DEFINE k == r.minted + 1
             g == Rotate(r.mgr.group, k)
             s == NewGroup(r, g, k)
             d == DropPending(s, Members)
  <1>1. /\ r \in Results /\ r.mgr \in Manager /\ r.mgr.group \in GroupState
        /\ r.minted \in Nat /\ GroupOK(r.mgr.group, r.minted)
    BY DEF Good, Results, Manager
  <1>2. /\ k \in Keys /\ k \in 0 .. MaxKeys /\ r.minted <= k /\ k \in Nat
        /\ k \in 1 .. k /\ k \in (t + 1) .. k
    BY <1>1 DEF Keys, MayHold
  <1>3. g \in GroupState
    BY <1>1, <1>2, MintType
  <1>4. GroupOK(g, k) /\ g.current >= r.mgr.group.current
    BY <1>1, <1>2, MintOK
  <1>5. HasKeys(g)
    BY <1>1, <1>2, MintHolds
  <1>6. \A f \in Epochs : g.keys[f] \in K \cup ((t + 1) .. k)
    <2> SUFFICES ASSUME NEW f \in Epochs PROVE g.keys[f] \in K \cup ((t + 1) .. k)
      OBVIOUS
    <2>1. r.mgr.group.keys[f] \in K \cup ((t + 1) .. r.minted)
      BY DEF Within
    <2>2. r.mgr.group.keys[f] \in K \cup ((t + 1) .. k)
      BY <1>1, <2>1 DEF MayHold
    <2>3. g.keys[f] \in {r.mgr.group.keys[f], k, NoKey}
      BY <1>1, MintKeys
    <2> QED
      BY <1>2, <2>2, <2>3 DEF MayHold
  <1>7. RotateKey(m, r) = Distribute(m, d, g.current, k, Union(r.mgr))
    BY DEF RotateKey
  <1> HIDE DEF k, g
  <1>8. Forward(r.mgr.group, g)
    BY <1>4, <1>5 DEF Forward
  <1>9. s \in Results /\ s.minted = k /\ s.mgr.view = r.mgr.view
    BY <1>2, <1>3, <1>4, <1>8, NewGroupStep DEF Step, Good
  <1>10. Within(K, t, s)
    BY <1>1, <1>2, <1>6, NewGroupWithin
  <1> HIDE DEF s
  <1>11. d \in Results /\ d.minted = k /\ d.mgr.view = r.mgr.view
    BY <1>9, DropPendingType
  <1>12. Within(K, t, d)
    BY <1>9, <1>10, DropWithin
  <1> HIDE DEF d
  <1>13. Union(d.mgr) = Union(r.mgr)
    BY <1>11 DEF Union
  <1> QED
    BY <1>2, <1>7, <1>11, <1>12, <1>13, DistributeWithin

\* The tail of serve_group_key_request and reseal_to_lagging_member: the member
\* served is one of the view.
LEMMA SealCurrentWithin ==
  ASSUME NEW K, NEW t, MayHold(K, t), NEW m \in Members, NEW r, Good(r),
         Within(K, t, r), t <= r.minted, NEW p \in Members
  PROVE  Within(K, t, SealCurrentTo(m, r, p))
  <1> DEFINE g == r.mgr.group
             e == CurrentEpoch(g)
             d == DropPending(r, {p})
  <1>1. /\ r \in Results /\ r.mgr \in Manager /\ g \in GroupState
        /\ GroupOK(g, r.minted) /\ r.minted \in Nat
    BY DEF Good, Results, Manager
  <1>2. CASE SealCurrentTo(m, r, p) = r
    BY <1>2
  <1>3. CASE SealCurrentTo(m, r, p) # r
    <2>1. HasKeys(g) /\ p \in Union(r.mgr) /\ EpochKey(g, e) # NoKey
      BY <1>3 DEF SealCurrentTo
    <2>2. SealCurrentTo(m, r, p) = Distribute(m, d, e, EpochKey(g, e), {p})
      BY <1>3 DEF SealCurrentTo
    <2>3. e \in Epochs
      BY <1>1, <2>1, CurrentBelow
    <2>4. EpochKey(g, e) \in 1 .. r.minted
      BY <1>1, <2>1, <2>3, WithinMinted DEF EpochKey
    <2>5. /\ d \in Results /\ d.mgr.view = r.mgr.view /\ d.minted = r.minted
          /\ Within(K, t, d)
      BY <1>1, DropPendingType, DropWithin
    <2> HIDE DEF d, e, g
    <2>6. {p} \subseteq Union(d.mgr)
      BY <2>1, <2>5 DEF Union
    <2> QED
      BY <2>2, <2>4, <2>5, <2>6, DistributeWithin
  <1> QED
    BY <1>2, <1>3

\* reseal_to_lagging_member.
LEMMA ResealWithin ==
  ASSUME NEW K, NEW t, MayHold(K, t), NEW m \in Members, NEW r, Good(r),
         Within(K, t, r), t <= r.minted, NEW p \in Members, NEW e, NEW old
  PROVE  Within(K, t, ResealToLaggingMember(m, r, p, e, old))
  BY SealCurrentWithin DEF ResealToLaggingMember

\* rekey_room_if_behind.
LEMMA RekeyWithin ==
  ASSUME NoWrap, NEW K, NEW t, MayHold(K, t), NEW m \in Members, NEW r, Good(r),
         Within(K, t, r), t <= r.minted, RekeyIfBehind(m, r).minted <= MaxKeys
  PROVE  Within(K, t, RekeyIfBehind(m, r))
  <1>1. r.minted \in Nat
    BY DEF Good, Results
  <1>2. CASE RekeyIfBehind(m, r) = r
    BY <1>2
  <1>3. CASE RekeyIfBehind(m, r) = RotateKey(m, r) /\ IsBehind(r.mgr.group)
    <2>1. r.minted < MaxKeys
      BY <1>1, <1>3, MintedCount
    <2> QED
      BY <1>3, <2>1, RotateKeyWithin DEF IsBehind
  <1> QED
    BY <1>2, <1>3 DEF RekeyIfBehind

\* on_unopenable_room_frame.
LEMMA UnopenableWithin ==
  ASSUME NoWrap, NEW K, NEW t, MayHold(K, t), NEW m \in Members, NEW r, Good(r),
         Within(K, t, r), t <= r.minted, NEW p \in Members,
         NEW e \in Epochs, e < r.minted, NEW due \in BOOLEAN, NEW old,
         OnUnopenable(m, r, p, e, due, old).minted <= MaxKeys
  PROVE  Within(K, t, OnUnopenable(m, r, p, e, due, old))
  <1> DEFINE h == NoteSeen(r.mgr.group, e)
             a == NewGroup(r, h, r.minted)
             b == RekeyIfBehind(m, a)
             c == RequestGroupKey(m, b, due)
             d == ResealToLaggingMember(m, c, p, e, old)
  <1>1. /\ r \in Results /\ r.mgr.group \in GroupState /\ r.minted \in 0 .. MaxKeys
        /\ r.minted \in Nat /\ GroupOK(r.mgr.group, r.minted) /\ t \in Nat
    BY DEF Good, Results, Manager, MayHold
  <1>2. d = OnUnopenable(m, r, p, e, due, old)
    BY DEF OnUnopenable
  <1>3. h \in GroupState /\ GroupOK(h, r.minted) /\ Forward(r.mgr.group, h)
    BY <1>1, NoteSeenOK
  <1>4. h.keys = r.mgr.group.keys
    BY <1>1 DEF NoteSeen, GroupState
  <1> HIDE DEF h
  <1>5. Good(a) /\ a.minted = r.minted
    BY <1>1, <1>3, NewGroupStep DEF Step
  <1>6. Within(K, t, a)
    <2>1. \A f \in Epochs : h.keys[f] \in K \cup ((t + 1) .. r.minted)
      BY <1>4 DEF Within
    <2> QED
      BY <1>1, <2>1, NewGroupWithin
  <1> HIDE DEF a
  <1>7. d.minted = c.minted /\ c.minted = b.minted
    BY DEF ResealToLaggingMember, SealCurrentTo, Distribute, DropPending,
           RequestGroupKey, Then
  <1> HIDE DEF d
  <1>8. Good(b) /\ a.minted <= b.minted
    BY <1>2, <1>5, <1>7, RekeyStep DEF Step
  <1>9. Within(K, t, b)
    BY <1>2, <1>5, <1>6, <1>7, RekeyWithin
  <1> HIDE DEF b
  <1>10. t <= b.minted
    BY <1>1, <1>5, <1>8 DEF Good, Results
  <1>11. Good(c) /\ c.minted = b.minted
    BY <1>8, RequestStep DEF Step
  <1>12. Within(K, t, c)
    BY <1>8, <1>9, RequestWithin
  <1> HIDE DEF c
  <1>13. Within(K, t, d)
    BY <1>10, <1>11, <1>12, ResealWithin DEF d
  <1> QED
    BY <1>2, <1>13

\* sync_room_membership, the first thing a handler does: the view changes before
\* anything is sealed.
LEMMA SyncWithin ==
  ASSUME NoWrap, NEW K, NEW t, MayHold(K, t), NEW m \in Members, NEW r, Good(r),
         Within(K, t, r), t <= r.minted, r.out = {}, NEW n \in Nodes,
         NEW S \in SUBSET Members, NEW due \in BOOLEAN,
         SyncRoomMembership(m, r, n, S, due).minted <= MaxKeys
  PROVE  Within(K, t, SyncRoomMembership(m, r, n, S, due))
  <1> DEFINE q    == SyncRoomMembership(m, r, n, S, due)
             s    == Then(r, [r.mgr EXCEPT !.view[n] = S \ {m}], {})
             old  == Union(r.mgr)
             new  == Union(s.mgr)
             g    == s.mgr.group
             e    == CurrentEpoch(g)
             kept == DropPending(s, Members \ new)
             none == DropPending(s, Members)
  <1>1. r \in Results /\ r.mgr \in Manager /\ r.minted \in Nat
    BY DEF Good, Results
  <1>2. /\ s.mgr \in Manager /\ s.mgr.group = r.mgr.group
        /\ s.minted = r.minted /\ s.out = {}
    <2>1. s.mgr = [r.mgr EXCEPT !.view[n] = S \ {m}]
      BY DEF Then
    <2>2. s.minted = r.minted /\ s.out = {}
      BY DEF Then
    <2>3. s.mgr.group = r.mgr.group
      BY <1>1, <2>1 DEF Manager
    <2>4. s.mgr \in Manager
      <3>1. ASSUME NEW T \in SUBSET Members PROVE [r.mgr EXCEPT !.view[n] = T] \in Manager
        BY <1>1, ViewType, Zenon
      <3> QED
        BY <2>1, <3>1
    <2> QED
      BY <2>2, <2>3, <2>4
  <1>3. s \in Results
    BY <1>1, <1>2 DEF Then, Results
  <1>4. \/ q = RequestGroupKey(m, none, due)
        \/ ~HasKeys(g) /\ q = MintFirst(m, kept)
        \/ HasKeys(g) /\ q = RotateKey(m, kept)
        \/ /\ HasKeys(g) /\ EpochKey(g, e) # NoKey
           /\ q = Distribute(m, kept, e, EpochKey(g, e), new \ old)
        \/ q = kept
    BY DEF SyncRoomMembership
  <1> HIDE DEF s, q
  <1>5. Good(s)
    BY <1>2, <1>3, QuietStep DEF Step
  <1>6. Within(K, t, s)
    BY <1>2 DEF Within
  <1>7. g \in GroupState /\ GroupOK(g, s.minted) /\ s.minted \in Nat
    BY <1>5 DEF Good, Results, Manager
  <1>8. /\ Good(kept) /\ kept \in Results /\ t <= kept.minted
        /\ kept.minted = s.minted /\ kept.mgr.group = g
        /\ kept.mgr.view = s.mgr.view
    BY <1>2, <1>5, DropPendingStep DEF Step, Good
  <1>9. Good(none) /\ Within(K, t, none) /\ Within(K, t, kept)
    BY <1>3, <1>5, <1>6, DropPendingStep, DropWithin DEF Step
  <1> HIDE DEF kept, none
  <1>10. CASE q = RequestGroupKey(m, none, due)
    <2>1. Within(K, t, RequestGroupKey(m, none, due))
      BY <1>9, RequestWithin
    <2> QED
      BY <1>10, <2>1 DEF q
  <1>11. CASE ~HasKeys(g) /\ q = MintFirst(m, kept)
    <2>1. kept.minted < MaxKeys
      BY <1>1, <1>2, <1>8, <1>11, MintedCount DEF q
    <2>2. Within(K, t, MintFirst(m, kept))
      BY <1>8, <1>9, <1>11, <2>1, MintFirstWithin
    <2> QED
      BY <1>11, <2>2 DEF q
  <1>12. CASE HasKeys(g) /\ q = RotateKey(m, kept)
    <2>1. kept.minted < MaxKeys
      BY <1>1, <1>2, <1>8, <1>12, MintedCount DEF q
    <2>2. g.seen_high # NoEpoch
      BY <1>7, <1>12, CurrentBelow
    <2>3. Within(K, t, RotateKey(m, kept))
      BY <1>8, <1>9, <2>1, <2>2, RotateKeyWithin
    <2> QED
      BY <1>12, <2>3 DEF q
  <1>13. CASE /\ HasKeys(g) /\ EpochKey(g, e) # NoKey
              /\ q = Distribute(m, kept, e, EpochKey(g, e), new \ old)
    <2>1. e \in Epochs
      BY <1>7, <1>13, CurrentBelow
    <2>2. EpochKey(g, e) \in 1 .. kept.minted
      BY <1>8, <1>9, <1>13, <2>1, WithinMinted DEF EpochKey
    <2>3. new \ old \subseteq Union(kept.mgr)
      BY <1>8 DEF Union
    <2> HIDE DEF e, g, new, old
    <2>4. Within(K, t, Distribute(m, kept, e, EpochKey(g, e), new \ old))
      BY <1>8, <1>9, <2>2, <2>3, DistributeWithin
    <2> QED
      BY <1>13, <2>4 DEF q
  <1>14. CASE q = kept
    BY <1>9, <1>14 DEF q
  <1> QED
    BY <1>4, <1>10, <1>11, <1>12, <1>13, <1>14

-----------------------------------------------------------------------------
(* Every action is careful: one client's state is replaced by a result that   *)
(* is within what the client may hold.                                        *)

Careful(m, r) ==
  /\ mgr' = [mgr EXCEPT ![m] = r.mgr]
  /\ minted' = r.minted
  /\ minted <= r.minted
  /\ \A msg \in net' : msg \in net \/ msg.type # "key" \/ msg \in r.out
  /\ Within(May(m, audience, minted), minted, r)

CarefulStep == \E m \in Members : \E r : Careful(m, r)

\* The second conjunct of SNext.
Collects ==
  audience' = [k \in Keys |->
    audience[k]
      \cup (IF k <= minted' THEN Named' ELSE {})
      \cup (IF minted < k /\ k <= minted'
              THEN {m \in Members : mgr'[m] # mgr[m]} ELSE {})]

\* What the audiences collect.
LEMMA AudienceGrows ==
  ASSUME EpochInv, EpochInv', Collects, minted <= minted'
  PROVE  /\ \A k \in 1 .. minted : audience[k] \subseteq audience'[k]
         /\ \A k \in 1 .. minted' : Named' \subseteq audience'[k]
         /\ \A k \in (minted + 1) .. minted' : \A m \in Members :
              mgr'[m] # mgr[m] => m \in audience'[k]
         /\ \A m : May(m, audience, minted) \subseteq May(m, audience', minted')
  <1>1. minted \in Nat /\ minted' \in Nat /\ minted <= MaxKeys /\ minted' <= MaxKeys
    BY DEF EpochInv
  <1>2. ASSUME NEW k \in 1 .. minted'
        PROVE  /\ k \in Keys /\ k <= minted'
               /\ audience'[k] = audience[k] \cup Named'
                    \cup (IF minted < k /\ k <= minted'
                            THEN {m \in Members : mgr'[m] # mgr[m]} ELSE {})
    <2>1. k \in Keys /\ k <= minted'
      BY <1>1 DEF Keys
    <2> QED
      BY <2>1 DEF Collects
  <1>3. ASSUME NEW k \in 1 .. minted PROVE audience[k] \subseteq audience'[k]
    <2>1. k \in 1 .. minted'
      BY <1>1
    <2> QED
      BY <1>2, <2>1
  <1>4. ASSUME NEW k \in (minted + 1) .. minted', NEW m \in Members, mgr'[m] # mgr[m]
        PROVE  m \in audience'[k]
    <2>1. k \in 1 .. minted' /\ minted < k /\ k <= minted'
      BY <1>1
    <2> QED
      BY <1>2, <1>4, <2>1
  <1>5. ASSUME NEW m PROVE May(m, audience, minted) \subseteq May(m, audience', minted')
    <2>1. \A k \in 1 .. minted : k \in 1 .. minted'
      BY <1>1
    <2> QED
      BY <1>3, <2>1 DEF May
  <1>6. \A k \in 1 .. minted' : Named' \subseteq audience'[k]
    BY <1>2
  <1> QED
    BY <1>3, <1>4, <1>5, <1>6

\* A careful step keeps the invariant: what the client holds it held, was sealed
\* to it, or has just been minted by it, and whoever it seals to is named.
LEMMA CarefulSecrecy ==
  ASSUME EpochInv, EpochInv', SecrecyInv, Collects, CarefulStep
  PROVE  SecrecyInv'
  <1> PICK m \in Members : \E r : Careful(m, r)
    BY DEF CarefulStep
  <1> PICK r : Careful(m, r)
    OBVIOUS
  <1>1. /\ mgr \in [Members -> Manager] /\ mgr' \in [Members -> Manager]
        /\ minted \in Nat /\ minted' \in Nat
        /\ mgr' = [mgr EXCEPT ![m] = r.mgr] /\ mgr'[m] = r.mgr /\ minted' = r.minted
        /\ minted <= minted'
    <2>1. /\ mgr \in [Members -> Manager] /\ mgr' \in [Members -> Manager]
          /\ minted \in Nat /\ minted' \in Nat
      BY DEF EpochInv, ManagersOK
    <2>2. /\ mgr' = [mgr EXCEPT ![m] = r.mgr] /\ minted' = r.minted
          /\ minted <= r.minted
      BY DEF Careful
    <2> QED
      BY <2>1, <2>2
  <1>2. Within(May(m, audience, minted), minted, r)
    BY DEF Careful
  <1>3. /\ \A k \in 1 .. minted' : Named' \subseteq audience'[k]
        /\ \A k \in (minted + 1) .. minted' : \A p \in Members :
             mgr'[p] # mgr[p] => p \in audience'[k]
        /\ \A p : May(p, audience, minted) \subseteq May(p, audience', minted')
    BY <1>1, AudienceGrows
  <1>4. NamedOK'
    BY <1>3 DEF NamedOK
  <1>5. ASSUME NEW p \in Members, NEW e \in Epochs
        PROVE  mgr'[p].group.keys[e] \in May(p, audience', minted')
    <2>1. mgr[p].group.keys[e] \in May(p, audience, minted)
      BY DEF SecrecyInv, HeldOK
    <2>2. CASE p # m
      BY <1>1, <1>3, <2>1, <2>2
    <2>3. CASE p = m
      <3> DEFINE x == mgr'[m].group.keys[e]
      <3>1. x \in May(m, audience, minted) \cup ((minted + 1) .. minted')
        BY <1>1, <1>2 DEF Within
      <3>2. CASE x \in May(m, audience, minted)
        BY <1>3, <2>3, <3>2
      <3>3. CASE x \in (minted + 1) .. minted'
        <4>1. \A y \in May(m, audience, minted) : y <= minted
          BY <1>1 DEF May, NoKey
        <4>2. mgr'[m] # mgr[m]
          <5>1. x # mgr[m].group.keys[e]
            BY <1>1, <2>1, <2>3, <3>3, <4>1
          <5> QED
            BY <5>1
        <4>3. m \in audience'[x] /\ x \in 1 .. minted'
          BY <1>1, <1>3, <3>3, <4>2
        <4> QED
          BY <2>3, <4>3 DEF May
      <3> QED
        BY <3>1, <3>2, <3>3
    <2> QED
      BY <2>2, <2>3
  <1>6. HeldOK'
    BY <1>5 DEF HeldOK
  <1>7. ASSUME NEW p \in Union(r.mgr) PROVE p \in Named'
    <2>1. PICK n \in Nodes : p \in mgr'[m].view[n]
      BY <1>1 DEF Union
    <2>2. p \in Members
      BY <1>1, <2>1 DEF Manager
    <2> QED
      BY <2>1, <2>2 DEF Named
  <1>8. ASSUME NEW msg \in net', msg.type = "key"
        PROVE  msg.key \in May(msg.to, audience', minted')
    <2>1. CASE msg \in net
      BY <1>3, <1>8, <2>1 DEF SecrecyInv, SealedOK
    <2>2. CASE msg \in r.out
      <3>1. msg.to \in Named' /\ msg.key \in 1 .. minted'
        BY <1>1, <1>2, <1>7, <1>8, <2>2 DEF Within
      <3> QED
        BY <1>3, <3>1 DEF May
    <2> QED
      BY <1>8, <2>1, <2>2 DEF Careful
  <1>9. SealedOK'
    BY <1>8 DEF SealedOK
  <1> QED
    BY <1>4, <1>6, <1>9 DEF SecrecyInv

\* A handler starts within what its client may hold.
LEMMA BeforeWithin ==
  ASSUME EpochInv, SecrecyInv, NEW m \in Members
  PROVE  /\ MayHold(May(m, audience, minted), minted)
         /\ Within(May(m, audience, minted), minted, Before(m))
  <1>1. minted \in Nat
    BY DEF EpochInv
  <1>2. MayHold(May(m, audience, minted), minted)
    BY <1>1 DEF MayHold, May, NoKey
  <1>3. \A e \in Epochs : mgr[m].group.keys[e] \in May(m, audience, minted)
    BY DEF SecrecyInv, HeldOK
  <1>4. Within(May(m, audience, minted), minted, Before(m))
    BY <1>3 DEF Within, Before
  <1> QED
    BY <1>2, <1>4

\* A client keeps the group it has, or gives it up, and seals nothing.
LEMMA QuietCareful ==
  ASSUME EpochInv, SecrecyInv, NEW m \in Members, NEW c,
         mgr' = [mgr EXCEPT ![m] = c], minted' = minted,
         \A msg \in net' : msg \in net \/ msg.type # "key",
         c.group = mgr[m].group \/ c.group = NoGroup
  PROVE  CarefulStep
  <1> DEFINE r == [mgr |-> c, out |-> {}, minted |-> minted]
  <1>1. minted \in Nat
    BY DEF EpochInv
  <1>2. \A e \in Epochs : c.group.keys[e] \in May(m, audience, minted)
    BY DEF SecrecyInv, HeldOK, NoGroup, May
  <1>3. Within(May(m, audience, minted), minted, r)
    BY <1>2 DEF Within
  <1>4. Careful(m, r)
    BY <1>1, <1>3 DEF Careful
  <1> QED
    BY <1>4 DEF CarefulStep

\* A handler that ends with a result within what its client may hold.
LEMMA CommitCareful ==
  ASSUME EpochInv, NEW m \in Members, NEW r, Commit(m, r), minted <= r.minted,
         net' \subseteq net \cup r.out, Within(May(m, audience, minted), minted, r)
  PROVE  CarefulStep
  <1>1. Careful(m, r)
    BY DEF Careful, Commit
  <1> QED
    BY <1>1 DEF CarefulStep

\* record_room_devices changes nothing a key depends on.
LEMMA RecordWithin ==
  ASSUME NEW K, NEW t, NEW r, Good(r), Within(K, t, r), NEW n \in Nodes, NEW S
  PROVE  Within(K, t, RecordRoomDevices(r, n, S))
  <1> DEFINE q == RecordRoomDevices(r, n, S)
  <1>1. r.mgr \in Manager
    BY DEF Good, Results
  <1>2. q = [mgr |-> [r.mgr EXCEPT !.devices[n] = S], out |-> r.out \cup {},
             minted |-> r.minted]
    BY DEF RecordRoomDevices, Then
  <1> HIDE DEF q
  <1>3. q.mgr.group = r.mgr.group /\ q.mgr.view = r.mgr.view /\ q.minted = r.minted
        /\ q.out = r.out
    BY <1>1, <1>2 DEF Manager
  <1>4. Within(K, t, q)
    BY <1>3, SameGroupWithin
  <1> QED
    BY <1>4 DEF q

\* SfuMembers, SfuPeerJoined, SfuPeerLeft.
LEMMA HandleAnnouncementCareful ==
  ASSUME NoWrap, EpochInv, SecrecyInv, NEW m \in Members, NEW n \in Nodes,
         NEW due \in BOOLEAN, HandleAnnouncement(m, n, due)
  PROVE  CarefulStep
  <1> DEFINE a == Head(inbox[n][m])
             b == Before(m)
             r == IF a.kind = "members" THEN SyncRosters(m, n, a, due)
                                        ELSE SyncEdge(m, n, a, due)
             K == May(m, audience, minted)
  <1>1. inbox[n][m] \in Seq(Announcement) /\ inbox[n][m] # <<>>
    BY DEF EpochInv, ServersOK, HandleAnnouncement
  <1>2. a \in Announcement
    BY <1>1
  <1>3. a.set \in SUBSET Members /\ a.peer \in Members
    BY <1>2 DEF Announcement
  <1>4. Commit(m, r) /\ net' \subseteq net \cup r.out /\ r.minted <= MaxKeys
    BY DEF HandleAnnouncement, Commit
  <1>5. /\ Good(b) /\ b.mgr = mgr[m] /\ b.minted = minted /\ b.out = {}
        /\ mgr[m] \in Manager /\ minted <= b.minted
    <2>1. mgr[m] \in Manager /\ minted \in 0 .. MaxKeys
      BY DEF EpochInv, ManagersOK
    <2>2. Good(b) /\ b.mgr = mgr[m] /\ b.minted = minted /\ b.out = {}
      BY BeforeGood DEF Before
    <2> QED
      BY <2>1, <2>2
  <1>6. MayHold(K, minted) /\ Within(K, minted, b)
    BY BeforeWithin
  <1>7. Step(b, r)
    BY <1>2, <1>4, SyncRostersStep, SyncEdgeStep
  <1>8. minted <= r.minted
    BY <1>5, <1>7 DEF Step
  <1> HIDE DEF a, K
  <1>9. Within(K, minted, r)
    <2>1. CASE a.kind = "members" /\ InRoom(m) = {}
      <3>1. r = b
        BY <2>1 DEF SyncRosters
      <3> QED
        BY <1>6, <3>1
    <2>2. CASE a.kind = "members" /\ InRoom(m) # {}
      <3> DEFINE d == RecordRoomDevices(b, n, a.set)
      <3>1. r = SyncRoomMembership(m, d, n, a.set, due)
        BY <2>2 DEF SyncRosters
      <3> HIDE DEF r, b
      <3>2. Good(d) /\ Within(K, minted, d)
        BY <1>3, <1>5, <1>6, RecordDevicesStep, RecordWithin DEF Step
      <3>3. d.out = {} /\ d.minted = b.minted
        BY <1>5 DEF RecordRoomDevices, Then
      <3> HIDE DEF d
      <3>4. Within(K, minted, SyncRoomMembership(m, d, n, a.set, due))
        BY <1>3, <1>4, <1>5, <1>6, <3>1, <3>2, <3>3, SyncWithin
      <3> QED
        BY <3>1, <3>4
    <2>3. CASE a.kind # "members"
      <3> DEFINE seen == mgr[m].view[n]
                 S == IF a.kind = "joined" THEN seen \cup {a.peer} ELSE seen \ {a.peer}
      <3>1. S \in SUBSET Members
        BY <1>3, <1>5 DEF Manager
      <3>2. r = SyncRoomMembership(m, b, n, S, due)
        BY <2>3 DEF SyncEdge
      <3> HIDE DEF r, b, S
      <3>3. Within(K, minted, SyncRoomMembership(m, b, n, S, due))
        BY <1>4, <1>5, <1>6, <3>1, <3>2, SyncWithin
      <3> QED
        BY <3>2, <3>3
    <2> QED
      BY <2>1, <2>2, <2>3
  <1> HIDE DEF r
  <1> QED
    BY <1>4, <1>8, <1>9, CommitCareful DEF K

\* SfuGroupKey: the client installs a key that was sealed to it.
LEMMA HandleGroupKeyCareful ==
  ASSUME EpochInv, SecrecyInv, NEW msg \in net, HandleGroupKey(msg)
  PROVE  CarefulStep
  <1> DEFINE m == msg.to
             c == [mgr[m] EXCEPT !.group = Install(@, msg.epoch, msg.key), !.asked = FALSE]
             g == Install(mgr[m].group, msg.epoch, msg.key)
             K == May(m, audience, minted)
             r == [mgr |-> c, out |-> {}, minted |-> minted]
             ack == [type |-> "ack", from |-> m, to |-> msg.from,
                     epoch |-> msg.epoch, key |-> NoKey]
  <1>1. /\ m \in Members /\ msg.type = "key" /\ msg.epoch \in Epochs
        /\ mgr \in [Members -> Manager] /\ minted \in Nat
    <2>1. msg \in Message /\ msg.type = "key"
      BY DEF EpochInv, NetOK, HandleGroupKey
    <2> QED
      BY <2>1 DEF Message, EpochInv, ManagersOK
  <1>2. mgr[m] \in Manager /\ mgr[m].group \in GroupState
    BY <1>1 DEF Manager
  <1>3. minted' = minted /\ \A x \in net' : x \in net \/ x = ack
    BY DEF HandleGroupKey, Commit, Then, Before
  <1>4. mgr' = [mgr EXCEPT ![m] = c] \/ mgr' = [mgr EXCEPT ![m] = mgr[m]]
    BY DEF HandleGroupKey, Commit, Then, Before
  <1>5. c.group = g
    BY <1>2 DEF Manager
  <1>6. ack.type # "key"
    OBVIOUS
  <1>7. msg.key \in K /\ NoKey \in K /\ \A e \in Epochs : mgr[m].group.keys[e] \in K
    BY <1>1 DEF SecrecyInv, SealedOK, HeldOK, May
  <1>8. \A e \in Epochs : g.keys[e] \in K
    <2> SUFFICES ASSUME NEW e \in Epochs PROVE g.keys[e] \in K
      OBVIOUS
    <2>1. g.keys[e] \in {mgr[m].group.keys[e], msg.key, NoKey}
      BY <1>1, <1>2, InstallKeys
    <2> QED
      BY <1>7, <2>1
  <1> HIDE DEF c, g, K, ack, m
  <1>9. CASE mgr' = [mgr EXCEPT ![m] = c]
    <2>1. Within(K, minted, r)
      BY <1>5, <1>8 DEF Within
    <2>2. Careful(m, r)
      BY <1>1, <1>3, <1>6, <1>9, <2>1 DEF Careful, K
    <2> QED
      BY <1>1, <2>2 DEF CarefulStep
  <1>10. CASE mgr' = [mgr EXCEPT ![m] = mgr[m]]
    BY <1>1, <1>3, <1>6, <1>10, QuietCareful
  <1> QED
    BY <1>4, <1>9, <1>10

\* SfuGroupKeyAck.
LEMMA HandleGroupKeyAckCareful ==
  ASSUME EpochInv, SecrecyInv, NEW msg \in net, HandleGroupKeyAck(msg)
  PROVE  CarefulStep
  <1> DEFINE m == msg.to
             c == [mgr[m] EXCEPT !.pending[msg.from] = NoPending]
  <1>1. m \in Members /\ mgr \in [Members -> Manager]
    BY DEF EpochInv, NetOK, Message, ManagersOK
  <1>2. mgr' = [mgr EXCEPT ![m] = c] \/ mgr' = [mgr EXCEPT ![m] = mgr[m]]
    BY <1>1 DEF HandleGroupKeyAck
  <1>3. minted' = minted /\ \A x \in net' : x \in net
    BY DEF HandleGroupKeyAck
  <1>4. c.group = mgr[m].group
    BY <1>1 DEF Manager
  <1> HIDE DEF c, m
  <1> QED
    BY <1>1, <1>2, <1>3, <1>4, QuietCareful

\* SfuGroupKeyRequest: serve_group_key_request serves members only.
LEMMA HandleGroupKeyRequestCareful ==
  ASSUME EpochInv, SecrecyInv, NEW msg \in net, HandleGroupKeyRequest(msg)
  PROVE  CarefulStep
  <1> DEFINE m == msg.to
             r == SealCurrentTo(m, Before(m), msg.from)
  <1>1. m \in Members /\ msg.from \in Members /\ minted \in Nat
    BY DEF EpochInv, NetOK, Message
  <1>2. Commit(m, r) /\ net' \subseteq net \cup r.out
    BY DEF HandleGroupKeyRequest
  <1> HIDE DEF m
  <1>3. Good(Before(m)) /\ Before(m).minted = minted
    BY <1>1, BeforeGood DEF Before
  <1>4. Within(May(m, audience, minted), minted, r) /\ r.minted = minted
    <2>1. /\ MayHold(May(m, audience, minted), minted)
          /\ Within(May(m, audience, minted), minted, Before(m))
      BY <1>1, BeforeWithin
    <2>2. minted <= Before(m).minted
      BY <1>1, <1>3
    <2>3. r.minted = minted
      BY <1>1, <1>3, SealCurrentStep
    <2> QED
      BY <1>1, <1>3, <2>1, <2>2, <2>3, SealCurrentWithin
  <1> HIDE DEF r
  <1> QED
    BY <1>1, <1>2, <1>4, CommitCareful

\* retry_group_key_requests.
LEMMA RetryRequestsCareful ==
  ASSUME EpochInv, SecrecyInv, NEW m \in Members, NEW due \in BOOLEAN,
         RetryGroupKeyRequests(m, due)
  PROVE  CarefulStep
  <1> DEFINE r == RequestGroupKey(m, Before(m), due)
  <1>1. Commit(m, r) /\ net' \subseteq net \cup r.out /\ minted \in Nat
    BY DEF RetryGroupKeyRequests, EpochInv
  <1>2. Good(Before(m)) /\ Before(m).minted = minted
    BY BeforeGood DEF Before
  <1>3. Within(May(m, audience, minted), minted, r) /\ r.minted = minted
    BY <1>2, BeforeWithin, RequestWithin, RequestStep
  <1> HIDE DEF r
  <1> QED
    BY <1>1, <1>3, CommitCareful

\* A room frame is heard.
LEMMA HearFrameCareful ==
  ASSUME NoWrap, EpochInv, SecrecyInv, NEW m \in Members, NEW p \in Members,
         NEW due \in BOOLEAN, NEW old \in BOOLEAN, HearFrame(m, p, due, old)
  PROVE  CarefulStep
  <1> DEFINE f == air[p]
             b == Before(m)
             K == May(m, audience, minted)
             r1 == ResealToLaggingMember(m, b, p, f.epoch, old)
             r2 == OnUnopenable(m, b, p, f.epoch, due, old)
             r == IF mgr[m].group.keys[f.epoch] = f.key THEN r1 ELSE r2
  <1>1. /\ Commit(m, r) /\ net' \subseteq net \cup r.out /\ f.key # NoKey
        /\ r.minted <= MaxKeys
    BY DEF HearFrame, Commit
  <1>2. f.epoch \in Epochs /\ (f.key # NoKey => f.epoch < minted) /\ minted \in Nat
    BY DEF EpochInv, AirOK, Frame
  <1>3. Good(b) /\ b.minted = minted /\ minted <= b.minted
    BY <1>2, BeforeGood DEF Before
  <1>4. MayHold(K, minted) /\ Within(K, minted, b)
    BY BeforeWithin
  <1> HIDE DEF b, K
  <1>5. Within(K, minted, r) /\ minted <= r.minted
    <2>1. CASE mgr[m].group.keys[f.epoch] = f.key
      <3>1. r = r1
        BY <2>1
      <3> HIDE DEF r
      <3>2. Within(K, minted, r1) /\ r1.minted = minted
        BY <1>3, <1>4, ResealWithin, ResealStep
      <3> QED
        BY <1>2, <3>1, <3>2
    <2>2. CASE mgr[m].group.keys[f.epoch] # f.key
      <3>1. r = r2
        BY <2>2
      <3> HIDE DEF r
      <3>2. Within(K, minted, r2)
        BY <1>1, <1>2, <1>3, <1>4, <3>1, UnopenableWithin
      <3>3. minted <= r2.minted
        BY <1>1, <1>2, <1>3, <3>1, UnopenableStep DEF Step
      <3> QED
        BY <3>1, <3>2, <3>3
    <2> QED
      BY <2>1, <2>2
  <1> HIDE DEF r
  <1> QED
    BY <1>1, <1>5, CommitCareful DEF K

\* retry_pending_group_keys: an entry is sent again only to a member of the view.
LEMMA RetryPendingCareful ==
  ASSUME EpochInv, SecrecyInv, NEW m \in Members, RetryPendingGroupKeys(m)
  PROVE  CarefulStep
  <1> DEFINE c    == mgr[m]
             open == {p \in Members : c.pending[p].attempts > 0}
             drop == Abandoned(m, c)
             K    == May(m, audience, minted)
             key(p) == EpochKey(c.group, c.pending[p].epoch)
             seal(p) == [type |-> "key", from |-> m, to |-> p,
                         epoch |-> c.pending[p].epoch, key |-> key(p)]
  <1>1. mgr \in [Members -> Manager] /\ c \in Manager /\ minted \in Nat
    BY DEF EpochInv, ManagersOK
  <1>2. PICK due \in SUBSET (open \ drop) :
          LET gone == {p \in due : key(p) = NoKey}
              sent == due \ gone
          IN  /\ mgr' = [mgr EXCEPT ![m].pending = [p \in Members |->
                   IF p \in drop \cup gone THEN NoPending
                   ELSE IF p \in sent THEN Attempt(@[p], @[p].epoch)
                   ELSE @[p]]]
              /\ net' = net \cup {seal(p) : p \in sent}
              /\ minted' = minted
    BY DEF RetryPendingGroupKeys
  <1> DEFINE gone == {p \in due : key(p) = NoKey}
             sent == due \ gone
             P == [p \in Members |->
                     IF p \in drop \cup gone THEN NoPending
                     ELSE IF p \in sent THEN Attempt(c.pending[p], c.pending[p].epoch)
                     ELSE c.pending[p]]
             d == [c EXCEPT !.pending = P]
             O == {seal(p) : p \in sent}
             r == [mgr |-> d, out |-> O, minted |-> minted]
  <1>3. mgr' = [mgr EXCEPT ![m] = d] /\ net' = net \cup O /\ minted' = minted
    <2>1. mgr' = [mgr EXCEPT ![m] = d]
      BY <1>1, <1>2
    <2> HIDE DEF d, P
    <2> QED
      BY <1>2, <2>1, Zenon
  <1>4. d.view = c.view /\ d.group = c.group
    BY <1>1 DEF Manager
  <1>5. Union(d) = Union(c)
    BY <1>4 DEF Union
  <1>6. ASSUME NEW p \in sent PROVE p \in Union(c) /\ key(p) \in 1 .. minted
    <2>1. p \in Members /\ c.pending[p].attempts > 0 /\ p \notin drop /\ key(p) # NoKey
      OBVIOUS
    <2>2. p \in Union(c)
      BY <2>1 DEF Abandoned
    <2>3. c.pending[p] \in Pending
      BY <1>1, <2>1, EntryType
    <2>4. c.pending[p].epoch \in Epochs
      BY <2>3 DEF Pending
    <2>5. key(p) \in K
      BY <2>4 DEF SecrecyInv, HeldOK, EpochKey
    <2>6. \A x \in K : x # NoKey => x \in 1 .. minted
      BY DEF May
    <2> QED
      BY <2>1, <2>2, <2>5, <2>6, Zenon
  <1>7. \A msg \in O : msg.to \in Union(d) /\ msg.key \in 1 .. minted
    <2> SUFFICES ASSUME NEW p \in sent
                 PROVE  seal(p).to \in Union(d) /\ seal(p).key \in 1 .. minted
      OBVIOUS
    <2>1. seal(p).to = p /\ seal(p).key = key(p)
      OBVIOUS
    <2> QED
      BY <1>5, <1>6, <2>1
  <1>8. \A e \in Epochs : d.group.keys[e] \in K
    BY <1>4 DEF SecrecyInv, HeldOK
  <1> HIDE DEF d, O, K
  <1>9. Within(K, minted, r)
    BY <1>7, <1>8 DEF Within
  <1>10. Careful(m, r)
    BY <1>1, <1>3, <1>9 DEF Careful, K
  <1> QED
    BY <1>10 DEF CarefulStep

\* Joins, leaves, lost connections and restarts seal nothing.
LEMMA MembershipCareful ==
  ASSUME EpochInv, SecrecyInv, NEW m \in Members, Membership(m)
  PROVE  CarefulStep
  <1>1. mgr \in [Members -> Manager] /\ mgr[m] \in Manager
    BY DEF EpochInv, ManagersOK
  <1>2. ASSUME NEW c, mgr' = [mgr EXCEPT ![m] = c],
               c.group = mgr[m].group \/ c.group = NoGroup, UNCHANGED <<net, minted>>
        PROVE  CarefulStep
    BY <1>2, QuietCareful
  <1>3. CASE UNCHANGED <<mgr, net, minted>>
    BY <1>1, <1>2, <1>3
  <1>4. ASSUME NEW n \in Nodes, mgr' = [mgr EXCEPT ![m] = Forget(@, n)],
               UNCHANGED <<net, minted>>
        PROVE  CarefulStep
    <2>1. Forget(mgr[m], n).group = NoGroup
      BY <1>1 DEF Forget, Manager
    <2>2. mgr' = [mgr EXCEPT ![m] = Forget(mgr[m], n)]
      BY <1>1, <1>4
    <2> QED
      BY <1>2, <1>4, <2>1, <2>2
  <1>5. ASSUME NEW n \in Nodes, Disconnect(m, n) PROVE CarefulStep
    <2> DEFINE d == [mgr[m] EXCEPT !.devices[n] = {}]
    <2>1. mgr' = [mgr EXCEPT ![m] = d] /\ UNCHANGED <<net, minted>>
      BY <1>1, <1>5 DEF Disconnect
    <2>2. d.group = mgr[m].group
      BY <1>1 DEF Manager
    <2> HIDE DEF d
    <2> QED
      BY <1>2, <2>1, <2>2
  <1>6. CASE Restart(m)
    <2>1. mgr' = [mgr EXCEPT ![m] = FreshManager] /\ UNCHANGED <<net, minted>>
      BY <1>6 DEF Restart
    <2>2. FreshManager.group = NoGroup
      BY DEF FreshManager
    <2> QED
      BY <1>2, <2>1, <2>2
  <1>7. ASSUME NEW n \in Nodes, NEW here \in BOOLEAN,
               LeaveVoice(m, n) \/ Unsubscribe(m, n, here)
        PROVE  CarefulStep
    <2>1. /\ mgr' = mgr \/ mgr' = [mgr EXCEPT ![m] = Forget(@, n)]
          /\ UNCHANGED <<net, minted>>
      BY <1>7 DEF LeaveVoice, Unsubscribe
    <2> QED
      BY <1>3, <1>4, <2>1
  <1>8. ASSUME NEW n \in Nodes, JoinVoice(m, n) \/ Subscribe(m, n) \/ Expel(m, n)
        PROVE  CarefulStep
    BY <1>3, <1>8 DEF JoinVoice, Subscribe, Expel
  <1> QED
    BY <1>5, <1>6, <1>7, <1>8 DEF Membership

\* Every step of the room is careful.
LEMMA NextCareful ==
  ASSUME NoWrap, EpochInv, SecrecyInv, Next
  PROVE  CarefulStep
  <1>1. mgr \in [Members -> Manager]
    BY DEF EpochInv, ManagersOK
  <1>2. ASSUME NEW m \in Members, UNCHANGED <<mgr, minted>>, net' \subseteq net
        PROVE  CarefulStep
    <2>1. mgr' = [mgr EXCEPT ![m] = mgr[m]]
      BY <1>1, <1>2
    <2> QED
      BY <1>2, <2>1, QuietCareful
  <1>3. ASSUME NEW m \in Members, Membership(m) PROVE CarefulStep
    BY <1>3, MembershipCareful
  <1>4. ASSUME NEW m \in Members, NEW n \in Nodes, NEW due \in BOOLEAN,
               HandleAnnouncement(m, n, due)
        PROVE  CarefulStep
    BY <1>4, HandleAnnouncementCareful
  <1>5. ASSUME NEW m \in Members, Timers(m) PROVE CarefulStep
    BY <1>5, RetryPendingCareful, RetryRequestsCareful DEF Timers
  <1>6. ASSUME NEW m \in Members, SendFrame(m) PROVE CarefulStep
    BY <1>2, <1>6 DEF SendFrame
  <1>7. ASSUME NEW m \in Members, NEW p \in Members, NEW due \in BOOLEAN,
               NEW old \in BOOLEAN, HearFrame(m, p, due, old)
        PROVE  CarefulStep
    BY <1>7, HearFrameCareful
  <1>8. ASSUME NEW msg \in net, Deliver(msg) PROVE CarefulStep
    BY <1>8, HandleGroupKeyCareful, HandleGroupKeyAckCareful,
       HandleGroupKeyRequestCareful DEF Deliver
  <1>9. ASSUME NEW msg \in net, Lose(msg) PROVE CarefulStep
    <2>1. msg.to \in Members
      BY DEF EpochInv, NetOK, Message
    <2> QED
      BY <1>2, <1>9, <2>1 DEF Lose
  <1>10. ASSUME NEW n \in Nodes, NEW h \in Members, Serve(n, h) PROVE CarefulStep
    BY <1>2, <1>10 DEF Serve, ReadRoster, SendAnnouncement, ServeSubscribe
  <1> QED
    BY <1>3, <1>4, <1>5, <1>6, <1>7, <1>8, <1>9, <1>10 DEF Next

-----------------------------------------------------------------------------

\* Whichever members join, leave, lose their connection or restart, and however
\* announcements, seals and requests interleave, a room key is held by, and
\* sealed to, only its minter and clients named as members somewhere since it was
\* minted: distribution, the retry timer, the answer to a request and the reseal
\* to a lagging member all stay within the view of the sealing client.
THEOREM KeysStayInside == ASSUME NoWrap PROVE SSpec => []ForwardSecrecy
  <1>1. SInit => EpochInv /\ SecrecyInv
    <2> SUFFICES ASSUME SInit PROVE EpochInv /\ SecrecyInv
      OBVIOUS
    <2>1. EpochInv
      BY InitOK DEF SInit
    <2>2. minted = 0 /\ net = {} /\ mgr = [m \in Members |-> FreshManager]
      BY DEF SInit, Init
    <2>3. NamedOK /\ SealedOK
      BY <2>2 DEF NamedOK, SealedOK
    <2>4. HeldOK
      BY <2>2 DEF HeldOK, FreshManager, NoGroup, May
    <2> QED
      BY <2>1, <2>3, <2>4 DEF SecrecyInv
  <1>2. EpochInv /\ SecrecyInv /\ [SNext]_svars => (EpochInv /\ SecrecyInv)'
    <2> SUFFICES ASSUME EpochInv, SecrecyInv, [SNext]_svars
                 PROVE  EpochInv' /\ SecrecyInv'
      OBVIOUS
    <2>1. CASE SNext
      <3>1. Next /\ Collects
        BY <2>1 DEF SNext, Collects
      <3>2. EpochInv'
        BY <3>1, NextOK
      <3> QED
        BY <3>1, <3>2, NextCareful, CarefulSecrecy
    <2>2. CASE UNCHANGED svars
      <3>1. EpochInv'
        BY <2>2, StutterOK DEF svars
      <3>2. SecrecyInv'
        BY <2>2 DEF svars, vars, SecrecyInv, NamedOK, HeldOK, SealedOK, Named, Roster
      <3> QED
        BY <3>1, <3>2
    <2> QED
      BY <2>1, <2>2
  <1>3. EpochInv /\ SecrecyInv => ForwardSecrecy
    BY SecrecyInvImplies
  <1> QED
    BY <1>1, <1>2, <1>3, PTL DEF SSpec

=============================================================================
