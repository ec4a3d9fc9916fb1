--------------------------- MODULE RoomKeyingProofs ---------------------------
(* Theorems about RoomKeying, for every number of members, nodes and keys. *)
EXTENDS RoomKeying, FiniteSetTheorems, TLAPS

USE EpochModAssumption, RetainedAssumption, MaxKeysAssumption,
    MembersAssumption, RolesAssumption, MaxAdvanceAssumption,
    MaxAttemptsAssumption, BoundsAssumption, LossyAssumption

-----------------------------------------------------------------------------
(* Arithmetic of epochs.  Within the bound on minted keys no epoch wraps.     *)

\* Adding within the ring.
LEMMA ModSmall ==
  ASSUME NEW a \in Nat, a < EpochMod
  PROVE  a % EpochMod = a
  OBVIOUS

\* A difference that is negative reads as one near the top of the ring.
LEMMA ModNegative ==
  ASSUME NEW a \in Int, a < 0, -EpochMod < a
  PROVE  a % EpochMod = a + EpochMod
  OBVIOUS

\* accept_group_key_epoch takes no epoch below the current one.
LEMMA AcceptedIsForward ==
  ASSUME NEW c \in Epochs, NEW e \in Epochs, c < MaxKeys, NoWrap,
         (e - c) % EpochMod <= MaxAdvance
  PROVE  c <= e
  <1> SUFFICES ASSUME e < c PROVE FALSE
    BY DEF Epochs
  <1>1. (e - c) % EpochMod = (e - c) + EpochMod
    BY ModNegative DEF Epochs
  <1> QED
    BY <1>1 DEF Epochs, NoWrap

-----------------------------------------------------------------------------
(* The group state operators keep the group state's type. *)

\* GroupState::default is a group state.
LEMMA NoGroupType == NoGroup \in GroupState
  <1>1. 0 \in Epochs
    BY DEF Epochs
  <1> QED
    BY <1>1 DEF NoGroup, GroupState

\* GroupState::install yields a group state.
LEMMA InstallType ==
  ASSUME NEW g \in GroupState, NEW e \in Epochs, NEW k \in Keys
  PROVE  Install(g, e, k) \in GroupState
  BY DEF Install, GroupState, NoteSeen, Retain, Epochs, Keys, NoKey, NoEpoch

\* GroupState::next_epoch is an epoch.
LEMMA NextEpochType ==
  ASSUME NEW g \in GroupState
  PROVE  NextEpoch(g) \in Epochs /\ FirstEpoch(g) \in Epochs
  <1>1. ASSUME NEW x \in Int PROVE x % EpochMod \in Epochs
    BY DEF Epochs
  <1>2. g.seen_high \in Int /\ g.current \in Int
    BY DEF GroupState, Epochs, NoEpoch
  <1>3. NextEpoch(g) \in Epochs
    BY <1>1, <1>2 DEF NextEpoch
  <1> QED
    BY <1>3 DEF FirstEpoch, Epochs

\* SenderKeysGroup::new_owner_epoch and rotate yield a group state.
LEMMA MintType ==
  ASSUME NEW g \in GroupState, NEW k \in Keys
  PROVE  NewOwnerEpoch(g, k) \in GroupState /\ Rotate(g, k) \in GroupState
  <1>1. [NoGroup EXCEPT !.seen_high = g.seen_high] \in GroupState
    <2>1. NoGroup \in GroupState
      BY NoGroupType
    <2>2. g.seen_high \in Epochs \cup {NoEpoch}
      BY DEF GroupState
    <2> QED
      BY <2>1, <2>2 DEF GroupState
  <1> QED
    BY <1>1, InstallType, NextEpochType DEF NewOwnerEpoch, Rotate

-----------------------------------------------------------------------------
(* The steps of a handler keep the type of its result, as long as the keys    *)
(* they mint stay within the bound.                                           *)

Results == [mgr : Manager, out : SUBSET Message, minted : 0 .. MaxKeys]

\* The state of a client that has just started has its type.
LEMMA FreshType == FreshManager \in Manager
  <1>1. NoPending \in Pending
    BY DEF NoPending, Pending, Epochs
  <1> QED
    BY <1>1, NoGroupType DEF FreshManager, Manager

\* The union of the views is a set of members.
LEMMA UnionType ==
  ASSUME NEW c \in Manager
  PROVE  Union(c) \subseteq Members
  BY DEF Union, Manager

\* distribute_group_key.
LEMMA DistributeType ==
  ASSUME NEW m \in Members, NEW r \in Results, NEW e \in Epochs, NEW k \in Keys,
         NEW T \in SUBSET Members
  PROVE  /\ Distribute(m, r, e, k, T) \in Results
         /\ Distribute(m, r, e, k, T).minted = r.minted
         /\ Distribute(m, r, e, k, T).mgr.group = r.mgr.group
         /\ \A msg \in Distribute(m, r, e, k, T).out : msg \in r.out \/ msg.epoch = e
  <1> DEFINE P == [p \in Members |->
               IF p \in T THEN Attempt(r.mgr.pending[p], e) ELSE r.mgr.pending[p]]
             O == {[type |-> "key", from |-> m, to |-> p,
                    epoch |-> e, key |-> k] : p \in T}
  <1>1. P \in [Members -> Pending]
    BY DEF Results, Manager, Pending, Attempt
  <1>2. r.out \cup O \in SUBSET Message
    BY DEF Results, Message
  <1>6. \A msg \in O : msg.epoch = e
    OBVIOUS
  <1> HIDE DEF P, O
  <1>4. [r.mgr EXCEPT !.pending = P] \in Manager
    BY <1>1 DEF Results, Manager
  <1>5. Distribute(m, r, e, k, T) =
          [mgr |-> [r.mgr EXCEPT !.pending = P], out |-> r.out \cup O,
           minted |-> r.minted]
    BY DEF Distribute, Then, P, O
  <1> QED
    BY <1>2, <1>4, <1>5, <1>6 DEF Results, Manager

\* Dropping entries of pending_group_key_acks.
LEMMA DropPendingType ==
  ASSUME NEW r \in Results, NEW T
  PROVE  /\ DropPending(r, T) \in Results
         /\ DropPending(r, T).minted = r.minted
         /\ DropPending(r, T).mgr.group = r.mgr.group
         /\ DropPending(r, T).mgr.view = r.mgr.view
         /\ DropPending(r, T).out = r.out
  <1> DEFINE P == [p \in Members |-> IF p \in T THEN NoPending ELSE r.mgr.pending[p]]
  <1>1. P \in [Members -> Pending]
    BY DEF Results, Manager, Pending, NoPending, Epochs
  <1>2. DropPending(r, T) =
          [mgr |-> [r.mgr EXCEPT !.pending = P], out |-> r.out, minted |-> r.minted]
    BY DEF DropPending, Then
  <1> HIDE DEF P
  <1> QED
    BY <1>1, <1>2 DEF Results, Manager

-----------------------------------------------------------------------------
(* The inductive invariant behind the epoch properties.  A group state is in   *)
(* order when its current epoch is the highest it holds a key for, and all it  *)
(* has seen lies below the number t of keys minted so far.                     *)

GroupOK(g, t) ==
  /\ g.seen_high < t
  /\ g.current = 0 \/ g.current < t
  /\ HasKeys(g) => /\ g.current < t
                   /\ g.current <= g.seen_high
                   /\ g.keys[g.current] # NoKey
                   /\ \A e \in Epochs : g.keys[e] # NoKey => e <= g.current

\* What is in order stays so as more keys are minted.
LEMMA GroupOKGrows ==
  ASSUME NEW g \in GroupState, NEW t \in Nat, NEW u \in Nat, t <= u, GroupOK(g, t)
  PROVE  GroupOK(g, u)
  BY DEF GroupOK, GroupState, Epochs, NoEpoch

\* A fresh group state is in order.
LEMMA NoGroupOK == ASSUME NEW t \in Nat PROVE GroupOK(NoGroup, t)
  <1>1. ~HasKeys(NoGroup)
    BY DEF HasKeys, NoGroup, Held
  <1> QED
    BY <1>1 DEF GroupOK, NoGroup, NoEpoch

\* GroupState::install of an epoch that is not below anything held makes it
\* current, keeps its key through the eviction, and stays in order.
LEMMA InstallOK ==
  ASSUME NEW g \in GroupState, NEW t \in Nat, NEW e \in Epochs, NEW k \in Keys,
         GroupOK(g, t), e < t,
         \A f \in Epochs : g.keys[f] # NoKey => f <= e
  PROVE  GroupOK(Install(g, e, k), t)
  <1> DEFINE K == [g.keys EXCEPT ![e] = k]
             i == Install(g, e, k)
  <1>1. K \in [Epochs -> Keys \cup {NoKey}] /\ K[e] = k
    BY DEF GroupState
  <1>2. \A f \in Epochs : K[f] # NoKey => f <= e
    BY <1>1 DEF GroupState, Epochs
  <1>3. {f \in Held(K) : f > e} = {}
    BY <1>2 DEF Held, Epochs
  <1>4. Cardinality({f \in Held(K) : f > e}) < Retained
    BY <1>3, FS_EmptySet
  <1>5. i.keys = Retain(K) /\ i.current = e
    BY DEF Install
  <1>6. i.keys[e] # NoKey
    BY <1>1, <1>4, <1>5 DEF Retain, Keys, NoKey
  <1>7. \A f \in Epochs : i.keys[f] # NoKey => f <= e
    BY <1>2, <1>5 DEF Retain
  <1>8. i.seen_high < t /\ e <= i.seen_high
    BY DEF Install, NoteSeen, GroupOK, GroupState, Epochs, NoEpoch
  <1> QED
    BY <1>5, <1>6, <1>7, <1>8 DEF GroupOK

\* ... and leaves real key material.
LEMMA InstallHolds ==
  ASSUME NEW g \in GroupState, NEW e \in Epochs, NEW k \in Keys,
         \A f \in Epochs : g.keys[f] # NoKey => f <= e
  PROVE  HasKeys(Install(g, e, k))
  <1> DEFINE K == [g.keys EXCEPT ![e] = k]
  <1>1. K \in [Epochs -> Keys \cup {NoKey}] /\ K[e] = k
    BY DEF GroupState
  <1>2. {f \in Held(K) : f > e} = {}
    BY <1>1 DEF GroupState, Held, Epochs
  <1>3. Cardinality({f \in Held(K) : f > e}) < Retained
    BY <1>2, FS_EmptySet
  <1>4. Install(g, e, k).keys = Retain(K)
    BY DEF Install
  <1>5. Install(g, e, k).keys[e] # NoKey
    BY <1>1, <1>3, <1>4 DEF Retain, Keys, NoKey
  <1> QED
    BY <1>5 DEF HasKeys, Held

\* The epoch a keyer mints is above everything held and seen, and new.
LEMMA NextEpochFresh ==
  ASSUME NoWrap, NEW g \in GroupState, NEW t \in Nat, t < MaxKeys, GroupOK(g, t),
         g.seen_high # NoEpoch
  PROVE  /\ NextEpoch(g) <= t
         /\ NextEpoch(g) > g.current
  <1> DEFINE top == IF g.seen_high >= g.current THEN g.seen_high ELSE g.current
  <1>1. top \in Nat /\ top + 1 <= t /\ top >= g.current
    BY DEF GroupState, GroupOK, Epochs, NoEpoch
  <1>2. (top + 1) % EpochMod = top + 1
    BY <1>1, ModSmall DEF NoWrap
  <1> QED
    BY <1>1, <1>2 DEF NextEpoch, GroupState, Epochs

\* Minting keeps the group state in order, counting the new key, and moves the
\* current epoch forward.
LEMMA MintOK ==
  ASSUME NoWrap, NEW g \in GroupState, NEW t \in Nat, t < MaxKeys, GroupOK(g, t),
         NEW k \in Keys
  PROVE  /\ GroupOK(NewOwnerEpoch(g, k), t + 1)
         /\ NewOwnerEpoch(g, k).current < t + 1
         /\ GroupOK(Rotate(g, k), t + 1)
         /\ Rotate(g, k).current < t + 1
         /\ g.seen_high # NoEpoch => Rotate(g, k).current >= g.current
  <1> DEFINE blank == [NoGroup EXCEPT !.seen_high = g.seen_high]
  <1>1. FirstEpoch(g) \in Epochs /\ NextEpoch(g) \in Epochs
    BY NextEpochType
  <1>2. FirstEpoch(g) <= t
    BY NextEpochFresh DEF FirstEpoch
  <1>3. /\ blank \in GroupState
        /\ blank.keys = [e \in Epochs |-> NoKey]
        /\ blank.current = 0
        /\ blank.seen_high = g.seen_high
    BY NoGroupType DEF NoGroup, GroupState
  <1>4. ~HasKeys(blank)
    BY <1>3 DEF HasKeys, Held
  <1> HIDE DEF blank
  <1>5. GroupOK(blank, t)
    BY <1>3, <1>4 DEF GroupOK
  <1>6. GroupOK(blank, t + 1)
    BY <1>3, <1>5, GroupOKGrows
  <1>7. NewOwnerEpoch(g, k) = Install(blank, FirstEpoch(g), k)
    BY DEF NewOwnerEpoch, blank
  <1>8. GroupOK(NewOwnerEpoch(g, k), t + 1)
    <2>1. FirstEpoch(g) < t + 1
      BY <1>1, <1>2 DEF Epochs
    <2> QED
      BY <1>1, <1>3, <1>6, <1>7, <2>1, InstallOK
  <1>9. NewOwnerEpoch(g, k).current < t + 1
    BY <1>1, <1>2, <1>7 DEF Install, Epochs
  <1>10. CASE g.seen_high = NoEpoch
    BY <1>8, <1>9, <1>10 DEF Rotate
  <1>11. CASE g.seen_high # NoEpoch
    <2>1. NextEpoch(g) < t + 1 /\ NextEpoch(g) > g.current
      BY <1>1, <1>11, NextEpochFresh DEF Epochs
    <2>2. Rotate(g, k) = Install(g, NextEpoch(g), k)
      BY <1>11 DEF Rotate
    <2>3. \A f \in Epochs : g.keys[f] # NoKey => f <= NextEpoch(g)
      <3> SUFFICES ASSUME NEW f \in Epochs, g.keys[f] # NoKey PROVE f <= NextEpoch(g)
        OBVIOUS
      <3>1. HasKeys(g)
        BY DEF HasKeys, Held
      <3>2. f <= g.current
        BY <3>1 DEF GroupOK
      <3> QED
        BY <1>1, <2>1, <3>2 DEF GroupState, Epochs
    <2>4. GroupOK(g, t + 1)
      BY GroupOKGrows
    <2>5. GroupOK(Rotate(g, k), t + 1)
      BY <1>1, <2>1, <2>2, <2>3, <2>4, InstallOK
    <2>6. Rotate(g, k).current = NextEpoch(g)
      BY <2>2 DEF Install
    <2> QED
      BY <1>1, <1>8, <1>9, <2>1, <2>5, <2>6 DEF GroupState, Epochs
  <1> QED
    BY <1>10, <1>11

\* A real key, once held, is replaced only by one of the same or a later epoch.
Forward(g, h) == HasKeys(g) => HasKeys(h) /\ h.current >= g.current

\* A result in order: typed, its group in order, its seals below the counter.
Good(r) ==
  /\ r \in Results
  /\ GroupOK(r.mgr.group, r.minted)
  /\ \A msg \in r.out : msg.type = "key" => msg.epoch < r.minted

\* A step of a handler from r to q.
Step(r, q) ==
  /\ Good(q)
  /\ r.minted <= q.minted
  /\ Forward(r.mgr.group, q.mgr.group)

\* A group state that holds its current epoch's key holds real key material.
LEMMA HasKeysCurrent ==
  ASSUME NEW g \in GroupState, g.keys[g.current] # NoKey
  PROVE  HasKeys(g)
  BY DEF HasKeys, Held, GroupState

\* Steps compose.
LEMMA StepTrans ==
  ASSUME NEW r \in Results, NEW q \in Results, NEW s \in Results,
         Step(r, q), Step(q, s)
  PROVE  Step(r, s)
  <1>1. r.mgr.group \in GroupState /\ q.mgr.group \in GroupState /\ s.mgr.group \in GroupState
    BY DEF Results, Manager
  <1> QED
    BY <1>1 DEF Step, Forward, Results, GroupState, Epochs

\* distribute_group_key of an epoch below the counter.
LEMMA DistributeStep ==
  ASSUME NEW m \in Members, NEW r, Good(r), NEW e \in Epochs, NEW k \in Keys,
         NEW T \in SUBSET Members, e < r.minted
  PROVE  Step(r, Distribute(m, r, e, k, T))
  <1> DEFINE q == Distribute(m, r, e, k, T)
  <1>1. /\ q \in Results /\ q.minted = r.minted /\ q.mgr.group = r.mgr.group
        /\ \A msg \in q.out : msg \in r.out \/ msg.epoch = e
    <2>1. r \in Results
      BY DEF Good
    <2> QED
      BY <2>1, DistributeType
  <1>2. r \in Results /\ r.mgr.group \in GroupState
    BY DEF Good, Results, Manager
  <1> HIDE DEF q
  <1>3. Step(r, q)
    BY <1>1, <1>2 DEF Step, Good, Forward, Results, GroupState, Epochs
  <1> QED
    BY <1>3 DEF q

\* Dropping entries of pending_group_key_acks.
LEMMA DropPendingStep ==
  ASSUME NEW r, Good(r), NEW T
  PROVE  /\ Step(r, DropPending(r, T))
         /\ DropPending(r, T).minted = r.minted
         /\ DropPending(r, T).mgr.group = r.mgr.group
         /\ DropPending(r, T).mgr.view = r.mgr.view
  <1> DEFINE q == DropPending(r, T)
  <1>1. /\ q \in Results /\ q.minted = r.minted /\ q.mgr.group = r.mgr.group
        /\ q.mgr.view = r.mgr.view /\ q.out = r.out
    BY DropPendingType DEF Good
  <1>2. r \in Results /\ r.mgr.group \in GroupState
    BY DEF Good, Results, Manager
  <1> HIDE DEF q
  <1>3. Step(r, q)
    BY <1>1, <1>2 DEF Step, Good, Forward, Results, GroupState, Epochs
  <1> QED
    BY <1>1, <1>3 DEF q

\* Putting a new group state in place, with the keys minted for it.
LEMMA NewGroupStep ==
  ASSUME NEW r, Good(r), NEW g \in GroupState, NEW t \in 0 .. MaxKeys,
         r.minted <= t, GroupOK(g, t), Forward(r.mgr.group, g)
  PROVE  /\ Step(r, NewGroup(r, g, t))
         /\ NewGroup(r, g, t).mgr.group = g
         /\ NewGroup(r, g, t).minted = t
         /\ NewGroup(r, g, t).mgr.view = r.mgr.view
  <1> DEFINE c == [r.mgr EXCEPT !.group = g]
             q == NewGroup(r, g, t)
  <1>1. c \in Manager /\ c.group = g /\ c.view = r.mgr.view
    BY DEF Good, Results, Manager
  <1>2. q = [mgr |-> c, out |-> r.out, minted |-> t]
    BY DEF NewGroup
  <1>3. r.out \in SUBSET Message /\ \A msg \in r.out : msg.type = "key" => msg.epoch < t
    BY DEF Good, Results, Message, Epochs
  <1> HIDE DEF c, q
  <1>4. q \in Results
    BY <1>1, <1>2, <1>3 DEF Results
  <1>5. Step(r, q)
    BY <1>1, <1>2, <1>3, <1>4 DEF Step, Good
  <1> QED
    BY <1>1, <1>2, <1>5 DEF q

\* Minting the first key of a room.
LEMMA MintFirstStep ==
  ASSUME NoWrap, NEW m \in Members, NEW r, Good(r), ~HasKeys(r.mgr.group),
         r.minted < MaxKeys
  PROVE  Step(r, MintFirst(m, r))
  <1> DEFINE k == r.minted + 1
             g == NewOwnerEpoch(r.mgr.group, k)
             s == NewGroup(r, g, k)
  <1>1. r \in Results /\ r.mgr \in Manager /\ r.mgr.group \in GroupState /\ r.minted \in Nat
    BY DEF Good, Results, Manager
  <1>2. k \in Keys /\ k \in 0 .. MaxKeys /\ r.minted <= k
    BY <1>1 DEF Keys
  <1>3. g \in GroupState
    BY <1>1, <1>2, MintType
  <1>4. GroupOK(g, k) /\ g.current < k
    BY <1>1, <1>2, MintOK DEF Good
  <1>5. Step(r, s) /\ s.minted = k
    BY <1>2, <1>3, <1>4, NewGroupStep DEF Forward
  <1>6. g.current \in Epochs /\ Union(r.mgr) \in SUBSET Members
    BY <1>1, <1>3, UnionType DEF GroupState
  <1>7. MintFirst(m, r) = Distribute(m, s, g.current, k, Union(r.mgr))
    BY DEF MintFirst
  <1> HIDE DEF k, g, s
  <1>8. Good(s)
    BY <1>5 DEF Step
  <1>9. Step(s, MintFirst(m, r))
    BY <1>2, <1>4, <1>5, <1>6, <1>7, <1>8, DistributeStep
  <1> QED
    BY <1>1, <1>5, <1>8, <1>9, StepTrans DEF Step, Good

\* Rotating the key of a room.
LEMMA RotateKeyStep ==
  ASSUME NoWrap, NEW m \in Members, NEW r, Good(r), r.minted < MaxKeys,
         r.mgr.group.seen_high # NoEpoch
  PROVE  Step(r, RotateKey(m, r))
  <1> DEFINE k == r.minted + 1
             g == Rotate(r.mgr.group, k)
             s == NewGroup(r, g, k)
             d == DropPending(s, Members)
  <1>1. r \in Results /\ r.mgr \in Manager /\ r.mgr.group \in GroupState /\ r.minted \in Nat
    BY DEF Good, Results, Manager
  <1>2. k \in Keys /\ k \in 0 .. MaxKeys /\ r.minted <= k
    BY <1>1 DEF Keys
  <1>3. g \in GroupState
    BY <1>1, <1>2, MintType
  <1>4. GroupOK(g, k) /\ g.current < k /\ g.current >= r.mgr.group.current
    BY <1>1, <1>2, MintOK DEF Good
  <1>5. HasKeys(g)
    <2>1. g = Install(r.mgr.group, NextEpoch(r.mgr.group), k)
      BY DEF Rotate
    <2>2. NextEpoch(r.mgr.group) \in Epochs
      BY <1>1, NextEpochType
    <2>3. NextEpoch(r.mgr.group) > r.mgr.group.current
      BY <1>1, NextEpochFresh DEF Good
    <2>4. \A f \in Epochs : r.mgr.group.keys[f] # NoKey => f <= NextEpoch(r.mgr.group)
      <3> SUFFICES ASSUME NEW f \in Epochs, r.mgr.group.keys[f] # NoKey
                   PROVE  f <= NextEpoch(r.mgr.group)
        OBVIOUS
      <3>1. HasKeys(r.mgr.group)
        BY DEF HasKeys, Held
      <3>2. f <= r.mgr.group.current
        BY <3>1 DEF Good, GroupOK
      <3> QED
        BY <1>1, <2>2, <2>3, <3>2 DEF GroupState, Epochs
    <2> QED
      BY <1>1, <1>2, <2>1, <2>2, <2>4, InstallHolds
  <1>6. Step(r, s) /\ s.minted = k
    BY <1>2, <1>3, <1>4, <1>5, NewGroupStep DEF Forward
  <1>7. g.current \in Epochs /\ Union(r.mgr) \in SUBSET Members
    BY <1>1, <1>3, UnionType DEF GroupState
  <1>8. RotateKey(m, r) = Distribute(m, d, g.current, k, Union(r.mgr))
    BY DEF RotateKey
  <1> HIDE DEF k, g, s
  <1>9. Step(s, d) /\ d.minted = k
    BY <1>6, DropPendingStep DEF Step
  <1> HIDE DEF d
  <1>10. Good(s) /\ Good(d)
    BY <1>6, <1>9 DEF Step
  <1>11. Step(d, RotateKey(m, r))
    BY <1>2, <1>4, <1>7, <1>8, <1>9, <1>10, DistributeStep
  <1>12. s \in Results /\ d \in Results /\ RotateKey(m, r) \in Results
    BY <1>10, <1>11 DEF Step, Good
  <1>13. Step(r, d)
    BY <1>1, <1>6, <1>9, <1>12, StepTrans
  <1> QED
    BY <1>1, <1>11, <1>12, <1>13, StepTrans

\* A step that changes neither the group nor the keys minted, and seals nothing.
LEMMA QuietStep ==
  ASSUME NEW r, Good(r), NEW q \in Results, q.minted = r.minted,
         q.mgr.group = r.mgr.group,
         \A msg \in q.out : msg \in r.out \/ msg.type # "key"
  PROVE  Step(r, q)
  <1>1. r \in Results /\ r.mgr.group \in GroupState /\ r.minted \in Nat
    BY DEF Good, Results, Manager
  <1> QED
    BY <1>1 DEF Step, Good, Forward, GroupState, Epochs

\* request_group_key.
LEMMA RequestStep ==
  ASSUME NEW m \in Members, NEW r, Good(r), NEW due \in BOOLEAN
  PROVE  /\ Step(r, RequestGroupKey(m, r, due))
         /\ RequestGroupKey(m, r, due).minted = r.minted
         /\ RequestGroupKey(m, r, due).mgr.group = r.mgr.group
         /\ RequestGroupKey(m, r, due).mgr.view = r.mgr.view
  <1> DEFINE O == {[type |-> "request", from |-> m, to |-> p, epoch |-> 0,
                    key |-> NoKey] : p \in ElectedKeyer(r.mgr)}
             q1 == Then(r, [r.mgr EXCEPT !.asked = FALSE], {})
             q2 == Then(r, [r.mgr EXCEPT !.asked = TRUE], O)
  <1>1. r \in Results /\ r.mgr \in Manager
    BY DEF Good, Results
  <1>3. O \subseteq Message /\ \A msg \in O : msg.type # "key"
    <2>1. ElectedKeyer(r.mgr) \subseteq Members
      BY <1>1, UnionType DEF ElectedKeyer
    <2>2. 0 \in Epochs
      BY DEF Epochs
    <2> QED
      BY <2>1, <2>2 DEF Message
  <1> HIDE DEF O
  <1>4. \A b \in BOOLEAN : /\ [r.mgr EXCEPT !.asked = b] \in Manager
                           /\ [r.mgr EXCEPT !.asked = b].group = r.mgr.group
                           /\ [r.mgr EXCEPT !.asked = b].view = r.mgr.view
    BY <1>1 DEF Manager
  <1>5. q1 = [mgr |-> [r.mgr EXCEPT !.asked = FALSE], out |-> r.out, minted |-> r.minted]
    BY DEF Then
  <1>6. q2 = [mgr |-> [r.mgr EXCEPT !.asked = TRUE], out |-> r.out \cup O,
              minted |-> r.minted]
    BY DEF Then
  <1>7. RequestGroupKey(m, r, due) \in {r, q1, q2}
    BY DEF RequestGroupKey, O
  <1> HIDE DEF q1, q2
  <1>8. q1 \in Results /\ q2 \in Results
    BY <1>1, <1>3, <1>4, <1>5, <1>6 DEF Results
  <1>9. /\ q1.minted = r.minted /\ q1.mgr.group = r.mgr.group
        /\ q1.mgr.view = r.mgr.view /\ q1.out = r.out
    BY <1>4, <1>5
  <1>10. /\ q2.minted = r.minted /\ q2.mgr.group = r.mgr.group
         /\ q2.mgr.view = r.mgr.view /\ q2.out = r.out \cup O
    BY <1>4, <1>6
  <1>11. Step(r, r) /\ Step(r, q1) /\ Step(r, q2)
    BY <1>1, <1>3, <1>8, <1>9, <1>10, QuietStep
  <1> QED
    BY <1>7, <1>9, <1>10, <1>11

\* Minting counts one key.
LEMMA MintedCount ==
  ASSUME NEW m, NEW r
  PROVE  MintFirst(m, r).minted = r.minted + 1 /\ RotateKey(m, r).minted = r.minted + 1
  BY DEF MintFirst, RotateKey, Distribute, DropPending, NewGroup, Then

\* The current epoch of a group in order is below the counter.
LEMMA CurrentBelow ==
  ASSUME NEW g \in GroupState, NEW t \in Nat, GroupOK(g, t), HasKeys(g)
  PROVE  /\ CurrentEpoch(g) = g.current
         /\ CurrentEpoch(g) \in Epochs
         /\ CurrentEpoch(g) < t
         /\ EpochKey(g, CurrentEpoch(g)) \in Keys
         /\ g.seen_high # NoEpoch
  <1>1. g.current \in Epochs /\ g.keys[g.current] \in Keys \cup {NoKey}
    BY DEF GroupState
  <1>2. g.current >= 0
    BY <1>1 DEF Epochs
  <1>3. g.seen_high # NoEpoch
    BY <1>1, <1>2 DEF GroupOK, GroupState, Epochs, NoEpoch
  <1> QED
    BY <1>1, <1>3 DEF GroupOK, CurrentEpoch, EpochKey

\* The tail of serve_group_key_request and reseal_to_lagging_member.
LEMMA SealCurrentStep ==
  ASSUME NEW m \in Members, NEW r, Good(r), NEW p \in Members
  PROVE  Step(r, SealCurrentTo(m, r, p)) /\ SealCurrentTo(m, r, p).minted = r.minted
  <1> DEFINE g == r.mgr.group
             e == CurrentEpoch(g)
             d == DropPending(r, {p})
  <1>1. r \in Results /\ g \in GroupState /\ GroupOK(g, r.minted) /\ r.minted \in Nat
    BY DEF Good, Results, Manager
  <1>2. Step(r, r)
    BY <1>1, QuietStep
  <1>3. CASE SealCurrentTo(m, r, p) = r
    BY <1>2, <1>3
  <1>4. CASE SealCurrentTo(m, r, p) # r
    <2>1. HasKeys(g)
      BY <1>4 DEF SealCurrentTo
    <2>2. SealCurrentTo(m, r, p) = Distribute(m, d, e, EpochKey(g, e), {p})
      BY <1>4 DEF SealCurrentTo
    <2>3. e \in Epochs /\ e < r.minted /\ EpochKey(g, e) \in Keys
      BY <1>1, <2>1, CurrentBelow
    <2>4. Step(r, d) /\ d.minted = r.minted /\ Good(d) /\ d \in Results
      BY DropPendingStep DEF Step, Good
    <2> HIDE DEF d, e, g
    <2>5. Step(d, SealCurrentTo(m, r, p)) /\ SealCurrentTo(m, r, p).minted = d.minted
      BY <2>2, <2>3, <2>4, DistributeStep, DistributeType
    <2> QED
      BY <1>1, <2>4, <2>5, StepTrans DEF Step, Good
  <1> QED
    BY <1>3, <1>4

\* reseal_to_lagging_member.
LEMMA ResealStep ==
  ASSUME NEW m \in Members, NEW r, Good(r), NEW p \in Members, NEW e, NEW old
  PROVE  /\ Step(r, ResealToLaggingMember(m, r, p, e, old))
         /\ ResealToLaggingMember(m, r, p, e, old).minted = r.minted
  <1>1. Step(r, r)
    BY QuietStep DEF Good
  <1> QED
    BY <1>1, SealCurrentStep DEF ResealToLaggingMember

\* rekey_room_if_behind.
LEMMA RekeyStep ==
  ASSUME NoWrap, NEW m \in Members, NEW r, Good(r),
         RekeyIfBehind(m, r).minted <= MaxKeys
  PROVE  Step(r, RekeyIfBehind(m, r))
  <1>1. Step(r, r) /\ r.minted \in Nat
    BY QuietStep DEF Good, Results
  <1>2. CASE RekeyIfBehind(m, r) = r
    BY <1>1, <1>2
  <1>3. CASE RekeyIfBehind(m, r) = RotateKey(m, r) /\ IsBehind(r.mgr.group)
    BY <1>1, <1>3, MintedCount, RotateKeyStep DEF IsBehind
  <1> QED
    BY <1>2, <1>3 DEF RekeyIfBehind

\* note_observed_epoch of an epoch in circulation.
LEMMA NoteSeenOK ==
  ASSUME NEW g \in GroupState, NEW t \in Nat, GroupOK(g, t), NEW e \in Epochs, e < t
  PROVE  /\ NoteSeen(g, e) \in GroupState
         /\ GroupOK(NoteSeen(g, e), t)
         /\ Forward(g, NoteSeen(g, e))
  <1> DEFINE h == NoteSeen(g, e)
  <1>1. h \in GroupState /\ h.keys = g.keys /\ h.current = g.current
    BY DEF NoteSeen, GroupState
  <1>2. h.seen_high < t /\ g.seen_high <= h.seen_high
    BY DEF NoteSeen, GroupOK, GroupState, Epochs, NoEpoch
  <1>3. HasKeys(h) = HasKeys(g)
    BY <1>1 DEF HasKeys
  <1> HIDE DEF h
  <1>4. GroupOK(h, t) /\ Forward(g, h)
    BY <1>1, <1>2, <1>3 DEF GroupOK, Forward, GroupState, Epochs, NoEpoch
  <1> QED
    BY <1>1, <1>4 DEF h

\* on_unopenable_room_frame.
LEMMA UnopenableStep ==
  ASSUME NoWrap, NEW m \in Members, NEW r, Good(r), NEW p \in Members,
         NEW e \in Epochs, e < r.minted, NEW due \in BOOLEAN, NEW old,
         OnUnopenable(m, r, p, e, due, old).minted <= MaxKeys
  PROVE  Step(r, OnUnopenable(m, r, p, e, due, old))
  <1> DEFINE a == NewGroup(r, NoteSeen(r.mgr.group, e), r.minted)
             b == RekeyIfBehind(m, a)
             c == RequestGroupKey(m, b, due)
             d == ResealToLaggingMember(m, c, p, e, old)
  <1>1. r \in Results /\ r.mgr.group \in GroupState /\ r.minted \in 0 .. MaxKeys
        /\ GroupOK(r.mgr.group, r.minted)
    BY DEF Good, Results, Manager
  <1>2. d = OnUnopenable(m, r, p, e, due, old)
    BY DEF OnUnopenable
  <1>3. Step(r, a)
    BY <1>1, NoteSeenOK, NewGroupStep
  <1> HIDE DEF a
  <1>4. Good(a)
    BY <1>3 DEF Step
  <1>5. d.minted = c.minted /\ c.minted = b.minted
    BY DEF d, c, ResealToLaggingMember, SealCurrentTo, Distribute, DropPending,
           RequestGroupKey, Then
  <1> HIDE DEF d
  <1>6. Step(a, b)
    BY <1>2, <1>4, <1>5, RekeyStep
  <1>7. Good(b)
    BY <1>6 DEF Step
  <1> HIDE DEF b
  <1>8. Step(b, c)
    BY <1>7, RequestStep
  <1>9. Good(c)
    BY <1>8 DEF Step
  <1> HIDE DEF c
  <1>10. Step(c, d)
    BY <1>9, ResealStep DEF d
  <1>11. a \in Results /\ b \in Results /\ c \in Results /\ d \in Results
    BY <1>4, <1>7, <1>9, <1>10 DEF Step, Good
  <1>12. Step(r, b)
    BY <1>1, <1>3, <1>6, <1>11, StepTrans
  <1>13. Step(r, c)
    BY <1>1, <1>8, <1>11, <1>12, StepTrans
  <1>14. Step(r, d)
    BY <1>1, <1>10, <1>11, <1>13, StepTrans
  <1> QED
    BY <1>2, <1>14

\* sync_room_membership.
LEMMA SyncStep ==
  ASSUME NoWrap, NEW m \in Members, NEW r, Good(r), NEW n \in Nodes,
         NEW S \in SUBSET Members, NEW due \in BOOLEAN,
         SyncRoomMembership(m, r, n, S, due).minted <= MaxKeys
  PROVE  Step(r, SyncRoomMembership(m, r, n, S, due))
  <1> DEFINE q    == SyncRoomMembership(m, r, n, S, due)
             s    == Then(r, [r.mgr EXCEPT !.view[n] = S \ {m}], {})
             old  == Union(r.mgr)
             new  == Union(s.mgr)
             g    == s.mgr.group
             e    == CurrentEpoch(g)
             kept == DropPending(s, Members \ new)
             none == DropPending(s, Members)
  <1>1. r \in Results /\ r.mgr \in Manager /\ r.minted \in Nat
    BY DEF Good, Results
  <1>2. /\ [r.mgr EXCEPT !.view[n] = S \ {m}] \in Manager
        /\ [r.mgr EXCEPT !.view[n] = S \ {m}].group = r.mgr.group
    BY <1>1 DEF Manager
  <1>3. s \in Results /\ s.minted = r.minted /\ s.mgr.group = r.mgr.group /\ s.out = r.out
    BY <1>1, <1>2 DEF Then, Results
  <1>4. \/ q = RequestGroupKey(m, none, due)
        \/ ~HasKeys(g) /\ q = MintFirst(m, kept)
        \/ HasKeys(g) /\ q = RotateKey(m, kept)
        \/ HasKeys(g) /\ q = Distribute(m, kept, e, EpochKey(g, e), new \ old)
        \/ q = kept
    BY DEF SyncRoomMembership
  <1>5. new \ old \in SUBSET Members
    BY <1>3, UnionType DEF Results
  <1> HIDE DEF s, q
  <1>6. Step(r, s) /\ Good(s)
    BY <1>3, QuietStep DEF Step
  <1>7. g \in GroupState /\ GroupOK(g, s.minted) /\ s.minted \in Nat
    BY <1>6 DEF Good, Results, Manager
  <1>8. /\ Step(s, kept) /\ Good(kept) /\ kept \in Results
        /\ kept.minted = s.minted /\ kept.mgr.group = g
    BY <1>6, DropPendingStep DEF Step, Good
  <1>9. Step(s, none) /\ Good(none) /\ none \in Results
    BY <1>6, DropPendingStep DEF Step, Good
  <1>10. Step(r, kept) /\ Step(r, none)
    BY <1>1, <1>3, <1>6, <1>8, <1>9, StepTrans
  <1> HIDE DEF kept, none, new, old
  <1>11. CASE q = RequestGroupKey(m, none, due)
    <2>1. Step(none, q) /\ q \in Results
      BY <1>9, <1>11, RequestStep DEF Step, Good
    <2> QED
      BY <1>1, <1>9, <1>10, <2>1, StepTrans DEF q
  <1>12. CASE ~HasKeys(g) /\ q = MintFirst(m, kept)
    <2>1. kept.minted < MaxKeys
      BY <1>1, <1>3, <1>8, <1>12, MintedCount DEF q
    <2>2. Step(kept, q) /\ q \in Results
      BY <1>8, <1>12, <2>1, MintFirstStep DEF Step, Good
    <2> QED
      BY <1>1, <1>8, <1>10, <2>2, StepTrans DEF q
  <1>13. CASE HasKeys(g) /\ q = RotateKey(m, kept)
    <2>1. kept.minted < MaxKeys
      BY <1>1, <1>3, <1>8, <1>13, MintedCount DEF q
    <2>2. g.seen_high # NoEpoch
      BY <1>7, <1>13, CurrentBelow
    <2>3. Step(kept, q) /\ q \in Results
      BY <1>8, <1>13, <2>1, <2>2, RotateKeyStep DEF Step, Good
    <2> QED
      BY <1>1, <1>8, <1>10, <2>3, StepTrans DEF q
  <1>14. CASE HasKeys(g) /\ q = Distribute(m, kept, e, EpochKey(g, e), new \ old)
    <2>1. e \in Epochs /\ e < kept.minted /\ EpochKey(g, e) \in Keys
      BY <1>7, <1>8, <1>14, CurrentBelow
    <2>2. Step(kept, q) /\ q \in Results
      BY <1>5, <1>8, <1>14, <2>1, DistributeStep DEF Step, Good
    <2> QED
      BY <1>1, <1>8, <1>10, <2>2, StepTrans DEF q
  <1>15. CASE q = kept
    BY <1>10, <1>15 DEF q
  <1> QED
    BY <1>4, <1>11, <1>12, <1>13, <1>14, <1>15

-----------------------------------------------------------------------------
(* The invariant of the specification, and its preservation.                   *)

ServersOK ==
  /\ voice \in [Nodes -> SUBSET Members]
  /\ chat \in [Nodes -> SUBSET Members]
  /\ task \in [Nodes -> [Members -> Tasks]]
  /\ sending \in [Nodes -> [Members -> SUBSET Outgoing]]
  /\ raced \in [Nodes -> BOOLEAN]
  /\ inbox \in [Nodes -> [Members -> Seq(Announcement)]]
  /\ inVoice \in [Members -> SUBSET Nodes]
  /\ inChat \in [Members -> SUBSET Nodes]
  /\ changes \in 0 .. MaxChanges
  /\ restarts \in 0 .. MaxRestarts

ManagersOK ==
  /\ mgr \in [Members -> Manager]
  /\ \A m \in Members : GroupOK(mgr[m].group, minted)

NetOK ==
  /\ net \subseteq Message
  /\ \A msg \in net : msg.type = "key" => msg.epoch < minted

AirOK ==
  /\ air \in [Members -> Frame]
  /\ \A m \in Members : air[m].key # NoKey => air[m].epoch < minted

EpochInv == ServersOK /\ ManagersOK /\ NetOK /\ AirOK /\ minted \in 0 .. MaxKeys

\* No step but leaving the room and restarting gives a real key up.
AllForward == \A m \in Members : Forward(mgr[m].group, mgr'[m].group)

\* A handler starts from a result in order.
LEMMA BeforeGood ==
  ASSUME EpochInv, NEW m \in Members
  PROVE  Good(Before(m))
  BY DEF EpochInv, ManagersOK, Before, Good, Results

\* A handler that made a step, and adds at most its signals to the network.
LEMMA CommitOK ==
  ASSUME EpochInv, NEW m \in Members, NEW r, Step(Before(m), r), Commit(m, r),
         net' \subseteq net \cup r.out, UNCHANGED air
  PROVE  ManagersOK' /\ NetOK' /\ AirOK' /\ (minted \in 0 .. MaxKeys)' /\ AllForward
  <1>1. /\ r \in Results /\ r.mgr \in Manager /\ r.minted \in 0 .. MaxKeys
        /\ r.out \subseteq Message
        /\ GroupOK(r.mgr.group, r.minted)
        /\ \A msg \in r.out : msg.type = "key" => msg.epoch < r.minted
    BY DEF Step, Good, Results
  <1>2. /\ mgr \in [Members -> Manager] /\ minted \in 0 .. MaxKeys
        /\ mgr' = [mgr EXCEPT ![m] = r.mgr] /\ minted' = r.minted
    BY DEF EpochInv, ManagersOK, Commit
  <1>3. minted <= minted'
    BY <1>2 DEF Step, Before
  <1>4. mgr' \in [Members -> Manager]
    BY <1>1, <1>2
  <1>5. \A p \in Members : GroupOK(mgr'[p].group, minted')
    <2> SUFFICES ASSUME NEW p \in Members PROVE GroupOK(mgr'[p].group, minted')
      OBVIOUS
    <2>1. CASE p = m
      BY <1>1, <1>2, <2>1
    <2>2. CASE p # m
      <3>1. mgr'[p] = mgr[p] /\ mgr[p].group \in GroupState /\ GroupOK(mgr[p].group, minted)
        BY <1>2, <2>2 DEF EpochInv, ManagersOK, Manager
      <3> QED
        BY <1>1, <1>2, <1>3, <3>1, GroupOKGrows
    <2> QED
      BY <2>1, <2>2
  <1>6. NetOK'
    <2> SUFFICES ASSUME NEW msg \in net' PROVE msg \in Message /\
                                               (msg.type = "key" => msg.epoch < minted')
      BY DEF NetOK
    <2>1. CASE msg \in r.out
      BY <1>1, <1>2, <2>1
    <2>2. CASE msg \in net
      <3>1. msg \in Message /\ (msg.type = "key" => msg.epoch < minted)
        BY <2>2 DEF EpochInv, NetOK
      <3>2. msg.epoch \in Int
        BY <3>1 DEF Message, Epochs
      <3> QED
        BY <1>1, <1>2, <1>3, <3>1, <3>2
    <2> QED
      BY <2>1, <2>2
  <1>7. AirOK'
    <2>1. /\ air' = air /\ air \in [Members -> Frame]
          /\ \A p \in Members : air[p].key # NoKey => air[p].epoch < minted
      BY DEF EpochInv, AirOK
    <2>2. \A p \in Members : air[p].epoch \in Int
      <3>1. \A f \in Frame : f.epoch \in Int
        BY DEF Frame, Epochs
      <3> QED
        BY <2>1, <3>1
    <2>3. minted \in Int /\ minted' \in Int
      BY <1>1, <1>2
    <2>4. ASSUME NEW p \in Members, air[p].key # NoKey PROVE air[p].epoch < minted'
      BY <1>3, <2>1, <2>2, <2>3, <2>4
    <2> QED
      BY <2>1, <2>4 DEF AirOK
  <1>8. AllForward
    <2> SUFFICES ASSUME NEW p \in Members PROVE Forward(mgr[p].group, mgr'[p].group)
      BY DEF AllForward
    <2>1. CASE p = m
      BY <1>2, <2>1 DEF Step, Before
    <2>2. CASE p # m
      <3>1. mgr'[p] = mgr[p] /\ mgr[p].group \in GroupState
        BY <1>2, <2>2 DEF Manager
      <3> QED
        BY <3>1 DEF Forward, GroupState, Epochs
    <2> QED
      BY <2>1, <2>2
  <1> QED
    BY <1>1, <1>2, <1>4, <1>5, <1>6, <1>7, <1>8 DEF ManagersOK

\* The devices a node lists are replaced.
LEMMA DevicesType ==
  ASSUME NEW c \in Manager, NEW n \in Nodes, NEW S \in SUBSET Members
  PROVE  /\ [c EXCEPT !.devices[n] = S] \in Manager
         /\ [c EXCEPT !.devices[n] = S].group = c.group
  BY DEF Manager

\* record_room_devices changes nothing the group depends on.
LEMMA RecordDevicesStep ==
  ASSUME NEW r, Good(r), NEW n \in Nodes, NEW S \in SUBSET Members
  PROVE  Step(r, RecordRoomDevices(r, n, S))
  <1> DEFINE c == [r.mgr EXCEPT !.devices[n] = S]
             q == RecordRoomDevices(r, n, S)
  <1>1. r \in Results /\ r.mgr \in Manager
    BY DEF Good, Results
  <1>2. c \in Manager /\ c.group = r.mgr.group
    BY <1>1, DevicesType
  <1>3. q = [mgr |-> c, out |-> r.out, minted |-> r.minted]
    BY DEF RecordRoomDevices, Then
  <1> HIDE DEF c, q
  <1>4. q \in Results /\ q.minted = r.minted /\ q.mgr.group = r.mgr.group /\ q.out = r.out
    BY <1>1, <1>2, <1>3 DEF Results
  <1>5. Step(r, q)
    BY <1>4, QuietStep
  <1> QED
    BY <1>5 DEF q

\* SfuMembers.
LEMMA SyncRostersStep ==
  ASSUME NoWrap, EpochInv, NEW m \in Members, NEW n \in Nodes, NEW a \in Announcement,
         NEW due \in BOOLEAN, SyncRosters(m, n, a, due).minted <= MaxKeys
  PROVE  Step(Before(m), SyncRosters(m, n, a, due))
  <1> DEFINE r == Before(m)
             d == RecordRoomDevices(r, n, a.set)
             q == SyncRoomMembership(m, d, n, a.set, due)
  <1>1. Good(r) /\ r \in Results
    BY BeforeGood DEF Good
  <1>2. a.set \in SUBSET Members
    BY DEF Announcement
  <1> HIDE DEF r
  <1>3. Step(r, d) /\ Good(d) /\ d \in Results
    BY <1>1, <1>2, RecordDevicesStep DEF Step, Good
  <1>4. CASE InRoom(m) = {}
    <2>1. Step(r, r)
      BY <1>1, QuietStep
    <2> QED
      BY <1>4, <2>1 DEF SyncRosters, r
  <1>5. CASE InRoom(m) # {}
    <2>1. SyncRosters(m, n, a, due) = q
      BY <1>5 DEF SyncRosters, r
    <2> HIDE DEF d
    <2>2. Step(d, q)
      BY <1>2, <1>3, <2>1, SyncStep
    <2>3. q \in Results
      BY <2>2 DEF Step, Good
    <2> HIDE DEF q
    <2>4. Step(r, q)
      BY <1>1, <1>3, <2>2, <2>3, StepTrans
    <2> QED
      BY <2>1, <2>4 DEF r
  <1> QED
    BY <1>4, <1>5

\* SfuPeerJoined and SfuPeerLeft.
LEMMA SyncEdgeStep ==
  ASSUME NoWrap, EpochInv, NEW m \in Members, NEW n \in Nodes, NEW a \in Announcement,
         NEW due \in BOOLEAN, SyncEdge(m, n, a, due).minted <= MaxKeys
  PROVE  Step(Before(m), SyncEdge(m, n, a, due))
  <1> DEFINE seen == mgr[m].view[n]
             S == IF a.kind = "joined" THEN seen \cup {a.peer} ELSE seen \ {a.peer}
  <1>1. seen \in SUBSET Members /\ a.peer \in Members
    BY DEF EpochInv, ManagersOK, Manager, Announcement
  <1>2. S \in SUBSET Members
    BY <1>1
  <1>3. SyncEdge(m, n, a, due) = SyncRoomMembership(m, Before(m), n, S, due)
    BY DEF SyncEdge
  <1> HIDE DEF S
  <1> QED
    BY <1>2, <1>3, BeforeGood, SyncStep

\* SfuMembers, SfuPeerJoined, SfuPeerLeft.
LEMMA HandleAnnouncementOK ==
  ASSUME NoWrap, EpochInv, NEW m \in Members, NEW n \in Nodes, NEW due \in BOOLEAN,
         HandleAnnouncement(m, n, due)
  PROVE  EpochInv' /\ AllForward
  <1> DEFINE a == Head(inbox[n][m])
             r == IF a.kind = "members" THEN SyncRosters(m, n, a, due)
                                        ELSE SyncEdge(m, n, a, due)
  <1>1. inbox[n][m] \in Seq(Announcement) /\ inbox[n][m] # <<>>
    BY DEF EpochInv, ServersOK, HandleAnnouncement
  <1>2. a \in Announcement
    BY <1>1
  <1>3. Commit(m, r) /\ net' = net \cup r.out
    BY DEF HandleAnnouncement
  <1>4. UNCHANGED <<voice, chat, task, sending, raced, inVoice, inChat, air,
                    changes, restarts>>
        /\ inbox' = [inbox EXCEPT ![n][m] = Tail(@)]
    BY DEF HandleAnnouncement, servers
  <1> HIDE DEF a
  <1>5. r.minted <= MaxKeys
    BY <1>3 DEF Commit
  <1>6. Step(Before(m), r)
    <2>1. CASE a.kind = "members"
      BY <1>2, <1>5, <2>1, SyncRostersStep
    <2>2. CASE a.kind # "members"
      BY <1>2, <1>5, <2>2, SyncEdgeStep
    <2> QED
      BY <2>1, <2>2
  <1> HIDE DEF r
  <1>7. ManagersOK' /\ NetOK' /\ AirOK' /\ (minted \in 0 .. MaxKeys)' /\ AllForward
    BY <1>3, <1>4, <1>6, CommitOK
  <1>8. ServersOK'
    BY <1>1, <1>4 DEF EpochInv, ServersOK
  <1> QED
    BY <1>7, <1>8 DEF EpochInv

\* SfuGroupKey.
LEMMA HandleGroupKeyOK ==
  ASSUME NoWrap, EpochInv, NEW msg \in net, HandleGroupKey(msg)
  PROVE  EpochInv' /\ AllForward
  <1> DEFINE m == msg.to
             g == mgr[m].group
             c == [mgr[m] EXCEPT !.group = Install(@, msg.epoch, msg.key), !.asked = FALSE]
             r == Before(m)
             s == Then(r, c, {})
             ack == [type |-> "ack", from |-> m, to |-> msg.from,
                     epoch |-> msg.epoch, key |-> NoKey]
             t == Then(r, c, {ack})
  <1>1. /\ msg \in Message /\ msg.type = "key" /\ msg.epoch < minted
        /\ UNCHANGED <<voice, chat, task, sending, raced, inbox, inVoice, inChat,
                       air, changes, restarts>>
    BY DEF EpochInv, NetOK, HandleGroupKey, servers
  <1>2. msg.key \in Keys /\ msg.epoch \in Epochs /\ m \in Members /\ msg.from \in Members
    BY <1>1 DEF Message
  <1>3. /\ mgr[m] \in Manager /\ g \in GroupState /\ GroupOK(g, minted)
        /\ minted \in 0 .. MaxKeys
    BY <1>2 DEF EpochInv, ManagersOK, Manager
  <1>4. Good(r)
    BY <1>2, BeforeGood
  <1>5. CASE AcceptGroupKeyFrom(m, mgr[m], msg.from, msg.epoch)
    <2>1. Commit(m, s) /\ net' = (net \ {msg}) \cup {ack}
      BY <1>5 DEF HandleGroupKey
    <2>2. \A f \in Epochs : g.keys[f] # NoKey => f <= msg.epoch
      <3> SUFFICES ASSUME NEW f \in Epochs, g.keys[f] # NoKey PROVE f <= msg.epoch
        OBVIOUS
      <3>1. HasKeys(g)
        BY DEF HasKeys, Held
      <3>2. g.current \in Epochs /\ g.current < MaxKeys /\ f <= g.current
        BY <1>3, <3>1 DEF GroupOK, GroupState, Epochs
      <3>3. (msg.epoch - g.current) % EpochMod <= MaxAdvance
        BY <1>5, <3>1 DEF AcceptGroupKeyFrom, AcceptGroupKeyEpoch, CurrentEpoch
      <3>4. g.current <= msg.epoch
        BY <1>2, <3>2, <3>3, AcceptedIsForward
      <3> QED
        BY <1>2, <3>2, <3>4 DEF Epochs
    <2>3. HasKeys(g) => g.current <= msg.epoch
      BY <1>2, <1>3, <2>2 DEF GroupOK, GroupState
    <2>4. /\ Install(g, msg.epoch, msg.key) \in GroupState
          /\ GroupOK(Install(g, msg.epoch, msg.key), minted)
          /\ HasKeys(Install(g, msg.epoch, msg.key))
          /\ Install(g, msg.epoch, msg.key).current = msg.epoch
      <3>1. minted \in Nat
        BY <1>3
      <3>2. GroupOK(Install(g, msg.epoch, msg.key), minted)
        BY <1>1, <1>2, <1>3, <2>2, <3>1, InstallOK
      <3> QED
        BY <1>2, <1>3, <2>2, <3>2, InstallType, InstallHolds DEF Install
    <2>5. c \in Manager /\ c.group = Install(g, msg.epoch, msg.key)
      BY <1>3, <2>4 DEF Manager
    <2>6. ack \in Message /\ ack.type # "key"
      BY <1>2 DEF Message
    <2> HIDE DEF c, ack
    <2>7. /\ t.mgr = c /\ t.minted = minted /\ t.out = {ack}
          /\ s.mgr = c /\ s.minted = minted
      BY DEF Then, Before
    <2>8. t \in Results
      BY <1>3, <2>5, <2>6 DEF Then, Before, Results
    <2>9. Step(r, t)
      <3>1. r.minted = minted /\ r.mgr.group = g
        BY DEF Before
      <3>2. Forward(g, c.group)
        BY <2>3, <2>4, <2>5 DEF Forward, GroupState, Epochs
      <3>3. Good(t)
        BY <2>4, <2>5, <2>6, <2>7, <2>8 DEF Good
      <3> QED
        BY <1>3, <2>7, <3>1, <3>2, <3>3 DEF Step
    <2>10. Commit(m, t)
      BY <2>1, <2>7 DEF Commit
    <2>11. net' \subseteq net \cup t.out
      BY <2>1, <2>7
    <2> HIDE DEF t, s, r
    <2>12. ManagersOK' /\ NetOK' /\ AirOK' /\ (minted \in 0 .. MaxKeys)' /\ AllForward
      BY <1>1, <1>2, <2>9, <2>10, <2>11, CommitOK DEF r
    <2> QED
      BY <1>1, <2>12 DEF EpochInv, ServersOK
  <1>6. CASE ~AcceptGroupKeyFrom(m, mgr[m], msg.from, msg.epoch)
    <2>1. Commit(m, r) /\ net' = net \ {msg}
      BY <1>6 DEF HandleGroupKey
    <2>2. Step(r, r)
      BY <1>4, QuietStep DEF Good
    <2>3. ManagersOK' /\ NetOK' /\ AirOK' /\ (minted \in 0 .. MaxKeys)' /\ AllForward
      BY <1>1, <1>2, <2>1, <2>2, CommitOK
    <2> QED
      BY <1>1, <2>3 DEF EpochInv, ServersOK
  <1> QED
    BY <1>5, <1>6

\* A step that changes no group state, no frame and mints nothing.
LEMMA SameGroupsOK ==
  ASSUME EpochInv, ServersOK', NetOK', UNCHANGED <<air, minted>>,
         mgr' \in [Members -> Manager],
         \A p \in Members : mgr'[p].group = mgr[p].group
  PROVE  EpochInv' /\ AllForward
  <1>1. ManagersOK'
    BY DEF EpochInv, ManagersOK
  <1>2. AirOK' /\ (minted \in 0 .. MaxKeys)'
    BY DEF EpochInv, AirOK
  <1>3. AllForward
    <2> SUFFICES ASSUME NEW p \in Members PROVE Forward(mgr[p].group, mgr'[p].group)
      BY DEF AllForward
    <2>1. mgr[p].group \in GroupState
      BY DEF EpochInv, ManagersOK, Manager
    <2>2. mgr'[p].group = mgr[p].group
      OBVIOUS
    <2>3. mgr[p].group.current \in Int
      BY <2>1 DEF GroupState, Epochs
    <2> QED
      BY <2>2, <2>3 DEF Forward
  <1> QED
    BY <1>1, <1>2, <1>3 DEF EpochInv

\* SfuGroupKeyAck.
LEMMA HandleGroupKeyAckOK ==
  ASSUME EpochInv, NEW msg \in net, HandleGroupKeyAck(msg)
  PROVE  EpochInv' /\ AllForward
  <1> DEFINE m == msg.to
             c == [mgr[m] EXCEPT !.pending[msg.from] = NoPending]
  <1>1. m \in Members /\ msg.from \in Members
    BY DEF EpochInv, NetOK, Message
  <1>2. mgr \in [Members -> Manager] /\ mgr[m] \in Manager
    BY <1>1 DEF EpochInv, ManagersOK
  <1>3. c \in Manager /\ c.group = mgr[m].group
    <2>1. NoPending \in Pending
      BY DEF NoPending, Pending, Epochs
    <2> QED
      BY <1>1, <1>2, <2>1 DEF Manager
  <1>4. mgr' \in {mgr, [mgr EXCEPT ![m] = c]}
    BY <1>1, <1>2 DEF HandleGroupKeyAck
  <1> HIDE DEF c, m
  <1>5. mgr' \in [Members -> Manager] /\ \A p \in Members : mgr'[p].group = mgr[p].group
    BY <1>1, <1>2, <1>3, <1>4
  <1>6. UNCHANGED <<voice, chat, task, sending, raced, inbox, inVoice, inChat,
                    air, minted, changes, restarts>>
        /\ net' = net \ {msg}
    BY DEF HandleGroupKeyAck, servers
  <1>7. ServersOK' /\ NetOK'
    BY <1>6 DEF EpochInv, ServersOK, NetOK
  <1> QED
    BY <1>5, <1>6, <1>7, SameGroupsOK

\* SfuGroupKeyRequest.
LEMMA HandleGroupKeyRequestOK ==
  ASSUME EpochInv, NEW msg \in net, HandleGroupKeyRequest(msg)
  PROVE  EpochInv' /\ AllForward
  <1> DEFINE r == SealCurrentTo(msg.to, Before(msg.to), msg.from)
  <1>1. msg.to \in Members /\ msg.from \in Members
    BY DEF EpochInv, NetOK, Message
  <1>2. Commit(msg.to, r) /\ net' = (net \ {msg}) \cup r.out
    BY DEF HandleGroupKeyRequest
  <1>3. UNCHANGED <<voice, chat, task, sending, raced, inbox, inVoice, inChat,
                    air, changes, restarts>>
    BY DEF HandleGroupKeyRequest, servers
  <1>4. Step(Before(msg.to), r)
    BY <1>1, BeforeGood, SealCurrentStep
  <1> HIDE DEF r
  <1>5. ManagersOK' /\ NetOK' /\ AirOK' /\ (minted \in 0 .. MaxKeys)' /\ AllForward
    BY <1>1, <1>2, <1>3, <1>4, CommitOK
  <1> QED
    BY <1>3, <1>5 DEF EpochInv, ServersOK

\* retry_group_key_requests.
LEMMA RetryRequestsOK ==
  ASSUME EpochInv, NEW m \in Members, NEW due \in BOOLEAN, RetryGroupKeyRequests(m, due)
  PROVE  EpochInv' /\ AllForward
  <1> DEFINE r == RequestGroupKey(m, Before(m), due)
  <1>1. Commit(m, r) /\ net' = net \cup r.out
    BY DEF RetryGroupKeyRequests
  <1>2. UNCHANGED <<voice, chat, task, sending, raced, inbox, inVoice, inChat,
                    air, changes, restarts>>
    BY DEF RetryGroupKeyRequests, servers
  <1>3. Step(Before(m), r)
    BY BeforeGood, RequestStep
  <1> HIDE DEF r
  <1>4. ManagersOK' /\ NetOK' /\ AirOK' /\ (minted \in 0 .. MaxKeys)' /\ AllForward
    BY <1>1, <1>2, <1>3, CommitOK
  <1> QED
    BY <1>2, <1>4 DEF EpochInv, ServersOK

\* A room frame is heard.
LEMMA HearFrameOK ==
  ASSUME NoWrap, EpochInv, NEW m \in Members, NEW p \in Members,
         NEW due \in BOOLEAN, NEW old \in BOOLEAN, HearFrame(m, p, due, old)
  PROVE  EpochInv' /\ AllForward
  <1> DEFINE f == air[p]
             r1 == ResealToLaggingMember(m, Before(m), p, f.epoch, old)
             r2 == OnUnopenable(m, Before(m), p, f.epoch, due, old)
             r == IF mgr[m].group.keys[f.epoch] = f.key THEN r1 ELSE r2
  <1>1. Commit(m, r) /\ net' = net \cup r.out /\ f.key # NoKey
    BY DEF HearFrame
  <1>2. UNCHANGED <<voice, chat, task, sending, raced, inbox, inVoice, inChat,
                    air, changes, restarts>>
    BY DEF HearFrame, servers
  <1>3. f.epoch \in Epochs /\ (f.key # NoKey => f.epoch < minted) /\ f \in Frame
    BY DEF EpochInv, AirOK, Frame
  <1>4. Good(Before(m)) /\ Before(m).minted = minted
    BY BeforeGood DEF Before
  <1>5. r.minted <= MaxKeys
    BY <1>1 DEF Commit
  <1>6. Step(Before(m), r)
    <2>1. CASE mgr[m].group.keys[f.epoch] = f.key
      BY <1>4, <2>1, ResealStep
    <2>2. CASE mgr[m].group.keys[f.epoch] # f.key
      <3>1. r = r2
        BY <2>2
      <3> HIDE DEF r
      <3> QED
        BY <1>1, <1>3, <1>4, <1>5, <3>1, UnopenableStep
    <2> QED
      BY <2>1, <2>2
  <1> HIDE DEF r
  <1>7. ManagersOK' /\ NetOK' /\ AirOK' /\ (minted \in 0 .. MaxKeys)' /\ AllForward
    BY <1>1, <1>2, <1>6, CommitOK
  <1> QED
    BY <1>2, <1>7 DEF EpochInv, ServersOK

\* retry_pending_group_keys.
LEMMA RetryPendingOK ==
  ASSUME EpochInv, NEW m \in Members, RetryPendingGroupKeys(m)
  PROVE  EpochInv' /\ AllForward
  <1> DEFINE c    == mgr[m]
             open == {p \in Members : c.pending[p].attempts > 0}
             drop == Abandoned(m, c)
  <1>1. PICK due \in SUBSET (open \ drop) :
          LET gone == {p \in due : EpochKey(c.group, c.pending[p].epoch) = NoKey}
              sent == due \ gone
          IN
          /\ mgr' = [mgr EXCEPT ![m].pending = [p \in Members |->
               IF p \in drop \cup gone THEN NoPending
               ELSE IF p \in sent THEN Attempt(@[p], @[p].epoch)
               ELSE @[p]]]
          /\ net' = net \cup {[type |-> "key", from |-> m, to |-> p,
                                epoch |-> c.pending[p].epoch,
                                key |-> EpochKey(c.group, c.pending[p].epoch)] : p \in sent}
          /\ UNCHANGED <<voice, chat, task, sending, raced, inbox, inVoice, inChat,
                         air, minted, changes, restarts>>
    BY DEF RetryPendingGroupKeys, servers
  <1> DEFINE gone == {p \in due : EpochKey(c.group, c.pending[p].epoch) = NoKey}
             sent == due \ gone
             P == [p \in Members |->
                     IF p \in drop \cup gone THEN NoPending
                     ELSE IF p \in sent THEN Attempt(c.pending[p], c.pending[p].epoch)
                     ELSE c.pending[p]]
             O == {[type |-> "key", from |-> m, to |-> p, epoch |-> c.pending[p].epoch,
                    key |-> EpochKey(c.group, c.pending[p].epoch)] : p \in sent}
  <1>2. mgr \in [Members -> Manager] /\ c \in Manager /\ minted \in 0 .. MaxKeys
    BY DEF EpochInv, ManagersOK
  <1>3. P \in [Members -> Pending]
    <2>1. NoPending \in Pending
      BY DEF NoPending, Pending, Epochs
    <2>2. \A p \in Members : c.pending[p] \in Pending
      BY <1>2 DEF Manager
    <2>3. ASSUME NEW q \in Pending PROVE Attempt(q, q.epoch) \in Pending
      BY DEF Attempt, Pending
    <2>4. \A p \in Members : Attempt(c.pending[p], c.pending[p].epoch) \in Pending
      BY <2>2, <2>3
    <2> QED
      BY <2>1, <2>2, <2>4
  <1>4. O \subseteq Message /\ \A msg \in O : msg.epoch < minted
    <2> SUFFICES ASSUME NEW p \in sent
                 PROVE  /\ [type |-> "key", from |-> m, to |-> p,
                             epoch |-> c.pending[p].epoch,
                             key |-> EpochKey(c.group, c.pending[p].epoch)] \in Message
                        /\ c.pending[p].epoch < minted
      OBVIOUS
    <2>1. p \in Members /\ EpochKey(c.group, c.pending[p].epoch) # NoKey
      OBVIOUS
    <2>2. c.pending[p].epoch \in Epochs /\ c.group \in GroupState
      BY <1>2, <2>1 DEF Manager, Pending
    <2>3. c.group.keys[c.pending[p].epoch] \in Keys
      BY <2>1, <2>2 DEF EpochKey, GroupState
    <2>4. HasKeys(c.group) /\ GroupOK(c.group, minted)
      <3>1. GroupOK(c.group, minted)
        BY DEF EpochInv, ManagersOK
      <3>2. HasKeys(c.group)
        BY <2>1, <2>2 DEF HasKeys, Held, EpochKey
      <3> QED
        BY <3>1, <3>2
    <2>5. c.pending[p].epoch <= c.group.current /\ c.group.current < minted
      BY <2>1, <2>2, <2>4 DEF GroupOK, EpochKey
    <2>6. c.pending[p].epoch < minted
      BY <1>2, <2>2, <2>5 DEF GroupState, Epochs
    <2> QED
      BY <2>1, <2>2, <2>3, <2>6 DEF Message, EpochKey
  <1>5. mgr' = [mgr EXCEPT ![m].pending = P] /\ net' = net \cup O
        /\ UNCHANGED <<voice, chat, task, sending, raced, inbox, inVoice, inChat,
                       air, minted, changes, restarts>>
    BY <1>1, <1>2
  <1> HIDE DEF P, O
  <1>6. mgr' \in [Members -> Manager] /\ \A p \in Members : mgr'[p].group = mgr[p].group
    BY <1>2, <1>3, <1>5 DEF Manager
  <1>7. ServersOK' /\ NetOK'
    BY <1>4, <1>5 DEF EpochInv, ServersOK, NetOK
  <1> QED
    BY <1>5, <1>6, <1>7, SameGroupsOK

-----------------------------------------------------------------------------
(* The steps of the supernodes, and the ones that give keys up. *)

\* Edges and rosters are messages that can be sent.
LEMMA OutgoingType ==
  ASSUME NEW kind \in {"members", "joined", "left"}, NEW m \in Members,
         NEW S \in SUBSET Members, NEW P \in SUBSET Members
  PROVE  {[to |-> p, what |-> [kind |-> kind, peer |-> m, set |-> S]] : p \in P}
           \in SUBSET Outgoing
  <1> DEFINE a == [kind |-> kind, peer |-> m, set |-> S]
  <1>1. a \in Announcement
    BY DEF Announcement
  <1> HIDE DEF a
  <1>2. \A p \in P : [to |-> p, what |-> a] \in Outgoing
    BY <1>1 DEF Outgoing
  <1>3. {[to |-> p, what |-> a] : p \in P} \in SUBSET Outgoing
    BY <1>2
  <1> QED
    BY <1>3 DEF a

\* A step of the supernodes: keys, signals and frames stay as they are.
LEMMA ServerStepOK ==
  ASSUME EpochInv, ServersOK', UNCHANGED <<mgr, net, air, minted>>
  PROVE  EpochInv' /\ AllForward
  <1>1. NetOK' /\ mgr' \in [Members -> Manager]
    BY DEF EpochInv, NetOK, ManagersOK
  <1> QED
    BY <1>1, SameGroupsOK

\* A counted change.
LEMMA ChangesOK ==
  ASSUME EpochInv, changes < MaxChanges, changes' = changes + 1
  PROVE  changes' \in 0 .. MaxChanges
  BY BoundsAssumption DEF EpochInv, ServersOK

\* The task of one client on one node gets something to do.
LEMMA TaskOK ==
  ASSUME EpochInv, NEW m \in Members, NEW n \in Nodes, NEW s \in Tasks,
         task' = [task EXCEPT ![n][m] = s]
  PROVE  task' \in [Nodes -> [Members -> Tasks]]
  BY DEF EpochInv, ServersOK

\* JoinRoom and handle_sfu_join.
LEMMA JoinVoiceOK ==
  ASSUME EpochInv, NEW m \in Members, NEW n \in Nodes, JoinVoice(m, n)
  PROVE  EpochInv' /\ AllForward
  <1> DEFINE E == Edges("joined", m, voice[n])
  <1>1. ServersOK
    BY DEF EpochInv
  <1>2. E \in SUBSET Outgoing
    <2>1. voice[n] \ {m} \in SUBSET Members /\ {} \in SUBSET Members
      BY <1>1 DEF ServersOK
    <2> QED
      BY <2>1, OutgoingType DEF Edges
  <1>3. sending' = [sending EXCEPT ![n][m] = E]
    BY DEF JoinVoice
  <1> HIDE DEF E
  <1>4. sending' \in [Nodes -> [Members -> SUBSET Outgoing]]
    BY <1>1, <1>2, <1>3 DEF ServersOK
  <1>5. task' \in [Nodes -> [Members -> Tasks]]
    BY TaskOK DEF JoinVoice, Tasks
  <1>6. changes' \in 0 .. MaxChanges
    BY ChangesOK DEF JoinVoice
  <1>7. /\ voice' \in [Nodes -> SUBSET Members] /\ inVoice' \in [Members -> SUBSET Nodes]
        /\ inChat' \in [Members -> SUBSET Nodes]
    BY <1>1 DEF ServersOK, JoinVoice
  <1>8. ServersOK'
    BY <1>1, <1>4, <1>5, <1>6, <1>7 DEF ServersOK, JoinVoice
  <1> QED
    BY <1>8, ServerStepOK DEF JoinVoice

\* SubscribeRoomChat and handle_sfu_subscribe.
LEMMA SubscribeOK ==
  ASSUME EpochInv, NEW m \in Members, NEW n \in Nodes, Subscribe(m, n)
  PROVE  EpochInv' /\ AllForward
  <1>1. ServersOK
    BY DEF EpochInv
  <1>2. task' \in [Nodes -> [Members -> Tasks]]
    BY TaskOK DEF Subscribe, Tasks
  <1>3. changes' \in 0 .. MaxChanges
    BY ChangesOK DEF Subscribe
  <1>4. ServersOK'
    BY <1>1, <1>2, <1>3 DEF ServersOK, Subscribe
  <1> QED
    BY <1>4, ServerStepOK DEF Subscribe

\* broadcast_sfu_members reads the roster.
LEMMA ReadRosterOK ==
  ASSUME EpochInv, NEW n \in Nodes, NEW h \in Members, ReadRoster(n, h)
  PROVE  EpochInv' /\ AllForward
  <1> DEFINE M == RosterToAll(n, h)
             s == IF task[n][h] = "read" THEN "idle" ELSE "subscribe"
             b == \E g \in Members \ {h} : ~UpToDate(n, g)
  <1>1. ServersOK
    BY DEF EpochInv
  <1>2. M \in SUBSET Outgoing
    <2>1. Roster(n) \in SUBSET Members
      BY <1>1 DEF ServersOK, Roster
    <2> QED
      BY <2>1, OutgoingType DEF RosterToAll
  <1>3. sending' = [sending EXCEPT ![n][h] = M]
    BY DEF ReadRoster
  <1>4. task' = [task EXCEPT ![n][h] = s] /\ s \in Tasks
    BY <1>1 DEF ReadRoster, ServersOK, Tasks
  <1>5. raced' = [raced EXCEPT ![n] = b] /\ b \in BOOLEAN
    BY DEF ReadRoster
  <1> HIDE DEF M, s, b
  <1>6. sending' \in [Nodes -> [Members -> SUBSET Outgoing]]
    BY <1>1, <1>2, <1>3 DEF ServersOK
  <1>7. task' \in [Nodes -> [Members -> Tasks]]
    BY <1>4, TaskOK
  <1>8. raced' \in [Nodes -> BOOLEAN]
    BY <1>1, <1>5 DEF ServersOK
  <1>9. ServersOK'
    BY <1>1, <1>6, <1>7, <1>8 DEF ServersOK, ReadRoster
  <1> QED
    BY <1>9, ServerStepOK DEF ReadRoster

\* A queue grows by one announcement.
LEMMA AppendType ==
  ASSUME NEW q \in Seq(Announcement), NEW a \in Announcement
  PROVE  Append(q, a) \in Seq(Announcement)
  OBVIOUS

\* send_signed, to one client.
LEMMA SendAnnouncementOK ==
  ASSUME EpochInv, NEW n \in Nodes, NEW h \in Members, SendAnnouncement(n, h)
  PROVE  EpochInv' /\ AllForward
  <1>1. ServersOK
    BY DEF EpochInv
  <1>2. PICK s \in sending[n][h] :
          /\ sending' = [sending EXCEPT ![n][h] = @ \ {s}]
          /\ inbox' = IF Gone(n, s.to) THEN inbox
                      ELSE [inbox EXCEPT ![n][s.to] = Append(@, s.what)]
    BY DEF SendAnnouncement
  <1>3. s.to \in Members /\ s.what \in Announcement
    BY <1>1 DEF ServersOK, Outgoing
  <1>4. sending' \in [Nodes -> [Members -> SUBSET Outgoing]]
    BY <1>1, <1>2 DEF ServersOK
  <1>5. inbox' \in [Nodes -> [Members -> Seq(Announcement)]]
    <2>1. inbox \in [Nodes -> [Members -> Seq(Announcement)]]
      BY <1>1 DEF ServersOK
    <2>2. inbox[n][s.to] \in Seq(Announcement)
      BY <1>3, <2>1
    <2>3. Append(inbox[n][s.to], s.what) \in Seq(Announcement)
      BY <1>3, <2>2, AppendType
    <2> QED
      BY <1>2, <1>3, <2>1, <2>3
  <1>6. ServersOK'
    BY <1>1, <1>4, <1>5 DEF ServersOK, SendAnnouncement
  <1> QED
    BY <1>6, ServerStepOK DEF SendAnnouncement

\* handle_sfu_subscribe, behind a leave.
LEMMA ServeSubscribeOK ==
  ASSUME EpochInv, NEW n \in Nodes, NEW m \in Members, ServeSubscribe(n, m)
  PROVE  EpochInv' /\ AllForward
  <1>1. ServersOK
    BY DEF EpochInv
  <1>2. task' \in [Nodes -> [Members -> Tasks]]
    BY TaskOK DEF ServeSubscribe, Tasks
  <1>3. ServersOK'
    BY <1>1, <1>2 DEF ServersOK, ServeSubscribe
  <1> QED
    BY <1>3, ServerStepOK DEF ServeSubscribe

\* InternalEvent::WsDisconnected: the client forgets the node's devices.
LEMMA DisconnectOK ==
  ASSUME EpochInv, NEW m \in Members, NEW n \in Nodes, Disconnect(m, n)
  PROVE  EpochInv' /\ AllForward
  <1>1. ServersOK /\ NetOK /\ mgr \in [Members -> Manager]
    BY DEF EpochInv, ManagersOK
  <1>2. inbox' \in [Nodes -> [Members -> Seq(Announcement)]]
    BY <1>1 DEF ServersOK, Disconnect
  <1>3. changes' \in 0 .. MaxChanges
    BY ChangesOK DEF Disconnect
  <1>4. ServersOK'
    BY <1>1, <1>2, <1>3 DEF ServersOK, Disconnect, servers
  <1>5. NetOK'
    BY <1>1 DEF NetOK, Disconnect
  <1> DEFINE c == [mgr[m] EXCEPT !.devices[n] = {}]
  <1>6. c \in Manager /\ c.group = mgr[m].group
    <2>1. mgr[m] \in Manager /\ {} \in SUBSET Members
      BY <1>1
    <2> QED
      BY <2>1, DevicesType
  <1>7. mgr' = [mgr EXCEPT ![m] = c]
    BY <1>1 DEF Disconnect
  <1> HIDE DEF c
  <1>8. mgr' \in [Members -> Manager] /\ \A p \in Members : mgr'[p].group = mgr[p].group
    BY <1>1, <1>6, <1>7
  <1> QED
    BY <1>4, <1>5, <1>8, SameGroupsOK DEF Disconnect

\* on_endpoint_disconnected.
LEMMA ExpelOK ==
  ASSUME EpochInv, NEW m \in Members, NEW n \in Nodes, Expel(m, n)
  PROVE  EpochInv' /\ AllForward
  <1>1. ServersOK
    BY DEF EpochInv
  <1>2. task' \in [Nodes -> [Members -> Tasks]]
    BY TaskOK DEF Expel, Tasks
  <1>3. ServersOK'
    BY <1>1, <1>2 DEF ServersOK, Expel
  <1> QED
    BY <1>3, ServerStepOK DEF Expel

\* One client forgets its key; the others keep theirs.
NoRollback ==
  \A m \in Members :
    HasKeys(mgr[m].group) /\ HasKeys(mgr'[m].group)
      => mgr'[m].group.current >= mgr[m].group.current

LEMMA ForwardNoRollback ==
  ASSUME EpochInv, AllForward
  PROVE  NoRollback
  <1> SUFFICES ASSUME NEW m \in Members, HasKeys(mgr[m].group)
               PROVE  mgr'[m].group.current >= mgr[m].group.current
    BY DEF NoRollback
  <1> QED
    BY DEF AllForward, Forward

LEMMA ForgetOK ==
  ASSUME EpochInv, NEW m \in Members, NEW c \in Manager, c.group = NoGroup,
         mgr' = [mgr EXCEPT ![m] = c], ServersOK', UNCHANGED <<net, air, minted>>
  PROVE  EpochInv' /\ NoRollback
  <1>1. mgr \in [Members -> Manager] /\ minted \in Nat
    BY DEF EpochInv, ManagersOK
  <1>2. mgr' \in [Members -> Manager]
    BY <1>1
  <1>3. GroupOK(NoGroup, minted) /\ ~HasKeys(NoGroup)
    BY <1>1, NoGroupOK DEF HasKeys, Held, NoGroup, NoKey
  <1>4. ASSUME NEW p \in Members
        PROVE  \/ mgr'[p].group = NoGroup
               \/ mgr'[p] = mgr[p] /\ mgr[p].group \in GroupState /\ GroupOK(mgr[p].group, minted)
    <2>1. CASE p = m
      BY <1>1, <2>1
    <2>2. CASE p # m
      BY <1>1, <2>2 DEF EpochInv, ManagersOK, Manager
    <2> QED
      BY <2>1, <2>2
  <1>5. ManagersOK'
    BY <1>2, <1>3, <1>4 DEF ManagersOK
  <1>6. NetOK' /\ AirOK' /\ (minted \in 0 .. MaxKeys)'
    BY DEF EpochInv, NetOK, AirOK
  <1>7. NoRollback
    BY <1>3, <1>4 DEF NoRollback, GroupState, Epochs
  <1> QED
    BY <1>5, <1>6, <1>7 DEF EpochInv

LEMMA RestartOK ==
  ASSUME EpochInv, NEW m \in Members, Restart(m)
  PROVE  EpochInv' /\ NoRollback
  <1>1. ServersOK
    BY DEF EpochInv
  <1>2. restarts' \in 0 .. MaxRestarts
    BY <1>1, BoundsAssumption DEF ServersOK, Restart
  <1>3. inbox' \in [Nodes -> [Members -> Seq(Announcement)]]
    BY <1>1 DEF ServersOK, Restart
  <1>4. ServersOK'
    BY <1>1, <1>2, <1>3 DEF ServersOK, Restart, servers
  <1>5. FreshManager \in Manager /\ FreshManager.group = NoGroup
    BY FreshType DEF FreshManager
  <1> QED
    BY <1>4, <1>5, ForgetOK DEF Restart

\* What a client is left with when it forgets the room on a node.
LEMMA ForgetType ==
  ASSUME NEW c \in Manager, NEW n \in Nodes
  PROVE  Forget(c, n) \in Manager /\ Forget(c, n).group = NoGroup
  <1>1. FreshManager.pending \in [Members -> Pending]
    BY FreshType DEF Manager
  <1> QED
    BY <1>1, NoGroupType DEF Forget, Manager

\* The client keeps its keys, or forgets the room on a node.
LEMMA KeepOrForgetOK ==
  ASSUME EpochInv, NEW m \in Members, NEW n \in Nodes, ServersOK',
         mgr' \in {mgr, [mgr EXCEPT ![m] = Forget(@, n)]},
         UNCHANGED <<net, air, minted>>
  PROVE  EpochInv' /\ NoRollback
  <1>1. CASE mgr' = mgr
    BY <1>1, ServerStepOK, ForwardNoRollback
  <1>2. CASE mgr' = [mgr EXCEPT ![m] = Forget(@, n)]
    <2> DEFINE c == Forget(mgr[m], n)
    <2>1. c \in Manager /\ c.group = NoGroup
      BY ForgetType DEF EpochInv, ManagersOK
    <2>2. mgr' = [mgr EXCEPT ![m] = c]
      BY <1>2 DEF EpochInv, ManagersOK
    <2> HIDE DEF c
    <2> QED
      BY <2>1, <2>2, ForgetOK
  <1> QED
    BY <1>1, <1>2

\* leave_room_voice and handle_sfu_leave.
LEMMA LeaveVoiceOK ==
  ASSUME EpochInv, NEW m \in Members, NEW n \in Nodes, LeaveVoice(m, n)
  PROVE  EpochInv' /\ NoRollback
  <1> DEFINE keep == n \in inChat[m]
             left == {k \in Nodes : m \in voice[k]}
             E(k) == Edges("left", m, voice[k])
             S(k) == IF k \in left THEN E(k) ELSE sending[k][m]
             D(k) == IF k \notin left THEN task[k][m]
                     ELSE IF keep /\ k = n THEN "readThenSubscribe" ELSE "read"
  <1>1. ServersOK
    BY DEF EpochInv
  <1>2. ASSUME NEW k \in Nodes PROVE E(k) \in SUBSET Outgoing
    <2>1. voice[k] \ {m} \in SUBSET Members /\ {} \in SUBSET Members
      BY <1>1 DEF ServersOK
    <2> QED
      BY <2>1, OutgoingType DEF Edges
  <1>3. /\ sending' = [k \in Nodes |-> [sending[k] EXCEPT ![m] = S(k)]]
        /\ task' = [k \in Nodes |-> [task[k] EXCEPT ![m] = D(k)]]
    BY <1>1 DEF LeaveVoice, ServersOK
  <1> HIDE DEF E
  <1>4. \A k \in Nodes : S(k) \in SUBSET Outgoing /\ D(k) \in Tasks
    BY <1>1, <1>2 DEF ServersOK, Tasks
  <1> HIDE DEF S, D
  <1>5. /\ sending' \in [Nodes -> [Members -> SUBSET Outgoing]]
        /\ task' \in [Nodes -> [Members -> Tasks]]
    BY <1>1, <1>3, <1>4 DEF ServersOK
  <1>6. changes' \in 0 .. MaxChanges
    BY ChangesOK DEF LeaveVoice
  <1>7. voice' \in [Nodes -> SUBSET Members] /\ inVoice' \in [Members -> SUBSET Nodes]
    BY <1>1 DEF ServersOK, LeaveVoice
  <1>8. ServersOK'
    BY <1>1, <1>5, <1>6, <1>7 DEF ServersOK, LeaveVoice
  <1>9. mgr' \in {mgr, [mgr EXCEPT ![m] = Forget(@, n)]} /\ UNCHANGED <<net, air, minted>>
    BY DEF LeaveVoice
  <1> QED
    BY <1>8, <1>9, KeepOrForgetOK

\* UnsubscribeRoomChat and handle_sfu_unsubscribe.
LEMMA UnsubscribeOK ==
  ASSUME EpochInv, NEW m \in Members, NEW n \in Nodes, NEW here \in BOOLEAN,
         Unsubscribe(m, n, here)
  PROVE  EpochInv' /\ NoRollback
  <1>1. ServersOK
    BY DEF EpochInv
  <1>2. task' \in [Nodes -> [Members -> Tasks]]
    BY TaskOK DEF Unsubscribe, Tasks
  <1>3. changes' \in 0 .. MaxChanges
    BY ChangesOK DEF Unsubscribe
  <1>4. ServersOK'
    BY <1>1, <1>2, <1>3 DEF ServersOK, Unsubscribe
  <1>5. mgr' \in {mgr, [mgr EXCEPT ![m] = Forget(@, n)]} /\ UNCHANGED <<net, air, minted>>
    BY DEF Unsubscribe
  <1> QED
    BY <1>4, <1>5, KeepOrForgetOK

\* A frame is sealed under the current epoch.
LEMMA SendFrameOK ==
  ASSUME EpochInv, NEW m \in Members, SendFrame(m)
  PROVE  EpochInv' /\ AllForward
  <1> DEFINE g == mgr[m].group
             f == [epoch |-> CurrentEpoch(g), key |-> EpochKey(g, CurrentEpoch(g))]
  <1>1. /\ HasKeys(g) /\ air' = [air EXCEPT ![m] = f]
        /\ UNCHANGED <<voice, chat, task, sending, raced, inbox, inVoice, inChat,
                       mgr, net, minted, changes, restarts>>
    BY DEF SendFrame, servers
  <1>2. g \in GroupState /\ GroupOK(g, minted) /\ minted \in Nat
    BY DEF EpochInv, ManagersOK, Manager
  <1>3. CurrentEpoch(g) \in Epochs /\ CurrentEpoch(g) < minted
        /\ EpochKey(g, CurrentEpoch(g)) \in Keys
    BY <1>1, <1>2, CurrentBelow
  <1>4. f \in Frame /\ f.epoch < minted
    BY <1>3 DEF Frame
  <1> HIDE DEF f
  <1>5. AirOK'
    BY <1>1, <1>4 DEF EpochInv, AirOK
  <1>6. ServersOK' /\ NetOK' /\ ManagersOK' /\ (minted \in 0 .. MaxKeys)'
    BY <1>1 DEF EpochInv, ServersOK, NetOK, ManagersOK
  <1>7. AllForward
    <2> SUFFICES ASSUME NEW p \in Members PROVE Forward(mgr[p].group, mgr'[p].group)
      BY DEF AllForward
    <2>1. mgr' = mgr /\ mgr[p].group \in GroupState
      BY <1>1 DEF EpochInv, ManagersOK, Manager
    <2> QED
      BY <2>1 DEF Forward, GroupState, Epochs
  <1> QED
    BY <1>5, <1>6, <1>7 DEF EpochInv

\* A signal is lost.
LEMMA LoseOK ==
  ASSUME EpochInv, NEW msg \in net, Lose(msg)
  PROVE  EpochInv' /\ AllForward
  <1>1. /\ net' = net \ {msg}
        /\ UNCHANGED <<voice, chat, task, sending, raced, inbox, inVoice, inChat,
                       mgr, air, minted, changes, restarts>>
    BY DEF Lose, servers
  <1>2. ServersOK' /\ NetOK'
    BY <1>1 DEF EpochInv, ServersOK, NetOK
  <1>3. mgr' \in [Members -> Manager] /\ mgr' = mgr
    BY <1>1 DEF EpochInv, ManagersOK
  <1> QED
    BY <1>1, <1>2, <1>3, SameGroupsOK

\* EpochInv holds in the beginning.
LEMMA InitOK == Init => EpochInv
  <1> SUFFICES ASSUME Init PROVE EpochInv
    OBVIOUS
  <1>1. inbox \in [Nodes -> [Members -> Seq(Announcement)]]
    BY DEF Init
  <1>2. ServersOK
    BY <1>1, BoundsAssumption DEF Init, ServersOK, Tasks
  <1>3. ManagersOK
    <2>1. mgr \in [Members -> Manager]
      BY FreshType DEF Init
    <2>2. GroupOK(NoGroup, 0)
      BY NoGroupOK
    <2>3. \A m \in Members : mgr[m].group = NoGroup /\ minted = 0
      BY DEF Init, FreshManager
    <2> QED
      BY <2>1, <2>2, <2>3 DEF ManagersOK
  <1>4. NetOK
    BY DEF Init, NetOK
  <1>5. AirOK
    <2>1. NoFrame \in Frame /\ NoFrame.key = NoKey
      BY DEF NoFrame, Frame, Epochs
    <2> QED
      BY <2>1 DEF Init, AirOK
  <1>6. minted \in 0 .. MaxKeys
    BY MaxKeysAssumption DEF Init
  <1> QED
    BY <1>2, <1>3, <1>4, <1>5, <1>6 DEF EpochInv

\* A step keeps EpochInv and rolls no client's epoch back.
LEMMA NextOK == ASSUME NoWrap, EpochInv, Next PROVE EpochInv' /\ NoRollback
  <1>1. ASSUME NEW m \in Members, Membership(m) PROVE EpochInv' /\ NoRollback
    <2>1. CASE \E n \in Nodes : JoinVoice(m, n)
      BY <2>1, JoinVoiceOK, ForwardNoRollback
    <2>2. CASE \E n \in Nodes : Subscribe(m, n)
      BY <2>2, SubscribeOK, ForwardNoRollback
    <2>3. CASE \E n \in Nodes : LeaveVoice(m, n)
      BY <2>3, LeaveVoiceOK
    <2>4. CASE \E n \in Nodes, here \in BOOLEAN : Unsubscribe(m, n, here)
      BY <2>4, UnsubscribeOK
    <2>5. CASE \E n \in Nodes : Disconnect(m, n)
      BY <2>5, DisconnectOK, ForwardNoRollback
    <2>6. CASE \E n \in Nodes : Expel(m, n)
      BY <2>6, ExpelOK, ForwardNoRollback
    <2>7. CASE Restart(m)
      BY <2>7, RestartOK
    <2> QED
      BY <1>1, <2>1, <2>2, <2>3, <2>4, <2>5, <2>6, <2>7 DEF Membership
  <1>2. ASSUME NEW m \in Members, NEW n \in Nodes, NEW due \in BOOLEAN,
               HandleAnnouncement(m, n, due)
        PROVE  EpochInv' /\ NoRollback
    BY <1>2, HandleAnnouncementOK, ForwardNoRollback
  <1>3. ASSUME NEW m \in Members, Timers(m) PROVE EpochInv' /\ NoRollback
    <2>1. CASE RetryPendingGroupKeys(m)
      BY <2>1, RetryPendingOK, ForwardNoRollback
    <2>2. CASE \E due \in BOOLEAN : RetryGroupKeyRequests(m, due)
      BY <2>2, RetryRequestsOK, ForwardNoRollback
    <2> QED
      BY <1>3, <2>1, <2>2 DEF Timers
  <1>4. ASSUME NEW m \in Members, SendFrame(m) PROVE EpochInv' /\ NoRollback
    BY <1>4, SendFrameOK, ForwardNoRollback
  <1>5. ASSUME NEW m \in Members, NEW p \in Members, NEW due \in BOOLEAN,
               NEW old \in BOOLEAN, HearFrame(m, p, due, old)
        PROVE  EpochInv' /\ NoRollback
    BY <1>5, HearFrameOK, ForwardNoRollback
  <1>6. ASSUME NEW msg \in net, Deliver(msg) PROVE EpochInv' /\ NoRollback
    <2>1. CASE HandleGroupKey(msg)
      BY <2>1, HandleGroupKeyOK, ForwardNoRollback
    <2>2. CASE HandleGroupKeyAck(msg)
      BY <2>2, HandleGroupKeyAckOK, ForwardNoRollback
    <2>3. CASE HandleGroupKeyRequest(msg)
      BY <2>3, HandleGroupKeyRequestOK, ForwardNoRollback
    <2> QED
      BY <1>6, <2>1, <2>2, <2>3 DEF Deliver
  <1>7. ASSUME NEW msg \in net, Lose(msg) PROVE EpochInv' /\ NoRollback
    BY <1>7, LoseOK, ForwardNoRollback
  <1>8. ASSUME NEW m \in Members, NEW n \in Nodes, Serve(n, m) PROVE EpochInv' /\ NoRollback
    BY <1>8, ReadRosterOK, SendAnnouncementOK, ServeSubscribeOK, ForwardNoRollback DEF Serve
  <1> QED
    BY <1>1, <1>2, <1>3, <1>4, <1>5, <1>6, <1>7, <1>8 DEF Next

\* Nothing happens.
LEMMA StutterOK == ASSUME EpochInv, UNCHANGED vars PROVE EpochInv' /\ NoRollback
  <1>1. ServersOK' /\ NetOK' /\ UNCHANGED <<air, minted>> /\ mgr' = mgr
    BY DEF vars, EpochInv, ServersOK, NetOK
  <1>2. mgr' \in [Members -> Manager]
    BY <1>1 DEF EpochInv, ManagersOK
  <1> QED
    BY <1>1, <1>2, SameGroupsOK, ForwardNoRollback

LEMMA EpochInvHolds == ASSUME NoWrap PROVE Spec => []EpochInv
  <1>1. EpochInv /\ [Next]_vars => EpochInv'
    BY NextOK, StutterOK
  <1> QED
    BY <1>1, InitOK, PTL DEF Spec

\* The state of every client, supernode and signal keeps its shape: no handler
\* mints past the bound, seals an absent key or records an epoch outside a byte.
THEOREM TypeCorrect == ASSUME NoWrap PROVE Spec => []TypeOK
  <1>1. EpochInv => TypeOK
    BY DEF EpochInv, ServersOK, ManagersOK, NetOK, AirOK, TypeOK
  <1> QED
    BY <1>1, EpochInvHolds, PTL

\* As long as epochs do not wrap, GroupState::install never evicts the epoch it
\* has just made current, whatever the interleaving of joins, leaves, restarts,
\* lost and late seals, and however many members and supernodes there are.
THEOREM CurrentKeyAlwaysHeld == ASSUME NoWrap PROVE Spec => []CurrentKeyHeld
  <1>1. EpochInv => CurrentKeyHeld
    <2> SUFFICES ASSUME EpochInv, NEW m \in Members, HasKeys(mgr[m].group)
                 PROVE  mgr[m].group.current \in Held(mgr[m].group.keys)
      BY DEF CurrentKeyHeld
    <2>1. mgr[m].group \in GroupState /\ GroupOK(mgr[m].group, minted)
      BY DEF EpochInv, ManagersOK, Manager
    <2> QED
      BY <2>1 DEF GroupOK, Held, GroupState
  <1> QED
    BY <1>1, EpochInvHolds, PTL

\* As long as epochs do not wrap, accept_group_key_epoch and the keyer's own
\* rotations together never move a client back to an epoch it has left.
THEOREM NoEpochRollback == ASSUME NoWrap PROVE Spec => EpochNeverRollsBack
  <1>1. EpochInv /\ [Next]_vars => [NoRollback]_vars
    BY NextOK
  <1>2. Spec => [][NoRollback]_vars
    BY <1>1, EpochInvHolds, PTL DEF Spec
  <1> QED
    BY <1>2 DEF EpochNeverRollsBack, NoRollback

=============================================================================
