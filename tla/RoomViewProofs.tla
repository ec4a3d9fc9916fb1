---------------------------- MODULE RoomViewProofs ----------------------------
(* A client that has handled everything a node announced to it sees that      *)
(* node's roster, for every number of members and nodes.                      *)
EXTENDS RoomKeyingProofs

USE EpochModAssumption, RetainedAssumption, MaxKeysAssumption,
    MembersAssumption, RolesAssumption, MaxAdvanceAssumption,
    MaxAttemptsAssumption, BoundsAssumption, LossyAssumption

-----------------------------------------------------------------------------
(* The invariant.  Every change of a roster is followed by announcing all of   *)
(* it (broadcast_sfu_members), in the task that made the change.  Once every   *)
(* task of a node has read the roster, and the last to read it did so while no *)
(* other had an older one to send, all that is still to be sent is the roster  *)
(* as it is now; and whoever it lists is still to be sent it, or has it as the  *)
(* last thing on its way, or sees it.                                          *)

Informed(q, v, roster, m) ==
  IF q = <<>> THEN v = roster \ {m}
  ELSE q[Len(q)].kind = "members" /\ q[Len(q)].set = roster

Fresh(n) == ~raced[n] /\ \A h \in Members : task[n][h] = "idle"

Current(n) == \A h \in Members : UpToDate(n, h)

Coming(n, m) == \E h \in Members : \E s \in sending[n][h] : s.to = m

Seen(n, m) ==
  Fresh(n) => /\ Current(n)
              /\ m \in Roster(n) /\ n \in InRoom(m)
                   => Coming(n, m) \/ Informed(inbox[n][m], mgr[m].view[n], Roster(n), m)

ViewInv == \A n \in Nodes, m \in Members : Seen(n, m)

\* A queue ends with what was put into it last.
LEMMA AppendInformed ==
  ASSUME NEW q \in Seq(Announcement), NEW a \in Announcement, NEW roster, NEW m, NEW v,
         a.kind = "members", a.set = roster
  PROVE  Informed(Append(q, a), v, roster, m)
  <1>1. Append(q, a) # <<>> /\ Append(q, a)[Len(Append(q, a))] = a
    OBVIOUS
  <1> QED
    BY <1>1 DEF Informed

\* Nothing about the roster, the tasks, the inbox or the view of m on n has
\* changed, and m has not joined there.
LEMMA SeenKept ==
  ASSUME ViewInv, NEW n \in Nodes, NEW m \in Members,
         Roster(n)' = Roster(n), inbox'[n][m] = inbox[n][m],
         task'[n] = task[n], sending'[n] = sending[n], raced'[n] = raced[n],
         mgr'[m].view[n] = mgr[m].view[n], n \in InRoom(m)' => n \in InRoom(m)
  PROVE  Seen(n, m)'
  <1>1. Seen(n, m)
    BY DEF ViewInv
  <1>2. Fresh(n)' = Fresh(n) /\ Current(n)' = Current(n) /\ Coming(n, m)' = Coming(n, m)
    BY DEF Fresh, Current, UpToDate, Coming
  <1> QED
    BY <1>1, <1>2 DEF Seen

\* A task that has yet to read the roster.
LEMMA SeenBusy ==
  ASSUME NEW n, NEW m, NEW h \in Members, task'[n][h] # "idle"
  PROVE  Seen(n, m)'
  BY DEF Seen, Fresh

-----------------------------------------------------------------------------
(* Only sync_room_membership, Forget and a restart change the view. *)

\* distribute_group_key.
LEMMA DistributeView ==
  ASSUME NEW m, NEW r \in Results, NEW e, NEW k, NEW T
  PROVE  Distribute(m, r, e, k, T).mgr.view = r.mgr.view
  BY DEF Distribute, Then, Results, Manager

\* Dropping entries of pending_group_key_acks.
LEMMA DropPendingView ==
  ASSUME NEW r \in Results, NEW T
  PROVE  DropPending(r, T).mgr.view = r.mgr.view /\ DropPending(r, T) \in Results
  BY DropPendingType

\* Putting a new group state in place.
LEMMA NewGroupView ==
  ASSUME NEW r \in Results, NEW g \in GroupState, NEW t \in 0 .. MaxKeys
  PROVE  NewGroup(r, g, t).mgr.view = r.mgr.view /\ NewGroup(r, g, t) \in Results
  BY DEF NewGroup, Results, Manager

\* Minting leaves the view alone.
LEMMA MintView ==
  ASSUME NEW m \in Members, NEW r \in Results, r.minted < MaxKeys
  PROVE  MintFirst(m, r).mgr.view = r.mgr.view /\ RotateKey(m, r).mgr.view = r.mgr.view
  <1> DEFINE k == r.minted + 1
             g == NewOwnerEpoch(r.mgr.group, k)
             h == Rotate(r.mgr.group, k)
  <1>1. r.mgr.group \in GroupState /\ k \in Keys /\ k \in 0 .. MaxKeys
    BY DEF Results, Manager, Keys
  <1>2. g \in GroupState /\ h \in GroupState
    BY <1>1, MintType
  <1>3. /\ MintFirst(m, r) = Distribute(m, NewGroup(r, g, k), g.current, k, Union(r.mgr))
        /\ RotateKey(m, r) = Distribute(m, DropPending(NewGroup(r, h, k), Members),
                                        h.current, k, Union(r.mgr))
    BY DEF MintFirst, RotateKey
  <1> HIDE DEF g, h, k
  <1>4. /\ NewGroup(r, g, k) \in Results /\ NewGroup(r, g, k).mgr.view = r.mgr.view
        /\ NewGroup(r, h, k) \in Results /\ NewGroup(r, h, k).mgr.view = r.mgr.view
    BY <1>1, <1>2, NewGroupView
  <1> DEFINE d == DropPending(NewGroup(r, h, k), Members)
  <1>5. d \in Results /\ d.mgr.view = r.mgr.view
    BY <1>4, DropPendingView
  <1> HIDE DEF d
  <1>6. MintFirst(m, r).mgr.view = r.mgr.view
    BY <1>3, <1>4, DistributeView
  <1>7. RotateKey(m, r).mgr.view = r.mgr.view
    BY <1>3, <1>5, DistributeView DEF d
  <1> QED
    BY <1>6, <1>7

\* serve_group_key_request and reseal_to_lagging_member leave the view alone.
LEMMA SealView ==
  ASSUME NEW m, NEW r \in Results, NEW p, NEW e, NEW old
  PROVE  /\ SealCurrentTo(m, r, p).mgr.view = r.mgr.view
         /\ ResealToLaggingMember(m, r, p, e, old).mgr.view = r.mgr.view
  <1> DEFINE d == DropPending(r, {p})
  <1>1. d \in Results /\ d.mgr.view = r.mgr.view
    BY DropPendingView
  <1>2. SealCurrentTo(m, r, p) = r
        \/ \E f, k : SealCurrentTo(m, r, p) = Distribute(m, d, f, k, {p})
    BY DEF SealCurrentTo
  <1> HIDE DEF d
  <1>3. SealCurrentTo(m, r, p).mgr.view = r.mgr.view
    BY <1>1, <1>2, DistributeView
  <1> QED
    BY <1>3 DEF ResealToLaggingMember

\* on_unopenable_room_frame leaves the view alone.
LEMMA UnopenableView ==
  ASSUME NoWrap, NEW m \in Members, NEW r, Good(r), NEW p \in Members,
         NEW e \in Epochs, e < r.minted, NEW due \in BOOLEAN, NEW old,
         OnUnopenable(m, r, p, e, due, old).minted <= MaxKeys
  PROVE  OnUnopenable(m, r, p, e, due, old).mgr.view = r.mgr.view
  <1> DEFINE h == NoteSeen(r.mgr.group, e)
             a == NewGroup(r, h, r.minted)
             b == RekeyIfBehind(m, a)
             c == RequestGroupKey(m, b, due)
             d == ResealToLaggingMember(m, c, p, e, old)
  <1>1. /\ r \in Results /\ r.mgr.group \in GroupState /\ r.minted \in 0 .. MaxKeys
        /\ GroupOK(r.mgr.group, r.minted)
    BY DEF Good, Results, Manager
  <1>2. d = OnUnopenable(m, r, p, e, due, old)
    BY DEF OnUnopenable
  <1>3. h \in GroupState /\ GroupOK(h, r.minted) /\ Forward(r.mgr.group, h)
    BY <1>1, NoteSeenOK
  <1> HIDE DEF h
  <1>4. Good(a) /\ a \in Results /\ a.mgr.view = r.mgr.view
    BY <1>1, <1>3, NewGroupStep DEF Step, Good
  <1> HIDE DEF a
  <1>5. d.minted = c.minted /\ c.minted = b.minted
    BY DEF ResealToLaggingMember, SealCurrentTo, Distribute, DropPending,
           RequestGroupKey, Then
  <1> HIDE DEF d
  <1>6. Good(b)
    BY <1>2, <1>4, <1>5, RekeyStep DEF Step
  <1>7. b.mgr.view = a.mgr.view
    <2>1. CASE b = a
      BY <2>1
    <2>2. CASE b = RotateKey(m, a)
      <3>1. a.minted \in Nat
        BY <1>4 DEF Results
      <3>2. a.minted < MaxKeys
        BY <1>2, <1>5, <2>2, <3>1, MintedCount
      <3>3. RotateKey(m, a).mgr.view = a.mgr.view
        BY <1>4, <3>2, MintView
      <3> QED
        BY <2>2, <3>3
    <2> QED
      BY <2>1, <2>2 DEF RekeyIfBehind
  <1> HIDE DEF b
  <1>8. Good(c) /\ c.mgr.view = b.mgr.view
    BY <1>6, RequestStep DEF Step
  <1> HIDE DEF c
  <1>9. d.mgr.view = c.mgr.view
    BY <1>8, SealView DEF d, Good
  <1> QED
    BY <1>2, <1>4, <1>7, <1>8, <1>9

\* sync_room_membership puts the members of node n in place, and no others.
LEMMA SyncView ==
  ASSUME NEW m \in Members, NEW r, Good(r), NEW n \in Nodes,
         NEW S \in SUBSET Members, NEW due \in BOOLEAN,
         SyncRoomMembership(m, r, n, S, due).minted <= MaxKeys,
         NEW v, v = [r.mgr.view EXCEPT ![n] = S \ {m}]
  PROVE  SyncRoomMembership(m, r, n, S, due).mgr.view = v
  <1> DEFINE q    == SyncRoomMembership(m, r, n, S, due)
             w    == [r.mgr.view EXCEPT ![n] = S \ {m}]
             s    == Then(r, [r.mgr EXCEPT !.view[n] = S \ {m}], {})
             old  == Union(r.mgr)
             new  == Union(s.mgr)
             g    == s.mgr.group
             e    == CurrentEpoch(g)
             kept == DropPending(s, Members \ new)
             none == DropPending(s, Members)
  <1>1. r \in Results /\ r.mgr \in Manager /\ r.minted \in Nat
    BY DEF Good, Results
  <1>2. /\ [r.mgr EXCEPT !.view[n] = S \ {m}] \in Manager
        /\ [r.mgr EXCEPT !.view[n] = S \ {m}].view = w
        /\ [r.mgr EXCEPT !.view[n] = S \ {m}].group = r.mgr.group
    BY <1>1 DEF Manager
  <1>3. /\ s \in Results /\ s.mgr.view = w /\ s.minted = r.minted
        /\ s.mgr.group = r.mgr.group /\ s.out = r.out
    BY <1>1, <1>2 DEF Then, Results
  <1>4. \/ q = RequestGroupKey(m, none, due)
        \/ q = MintFirst(m, kept)
        \/ q = RotateKey(m, kept)
        \/ q = Distribute(m, kept, e, EpochKey(g, e), new \ old)
        \/ q = kept
    BY DEF SyncRoomMembership
  <1>5. q.minted <= MaxKeys
    OBVIOUS
  <1> SUFFICES q.mgr.view = w
    OBVIOUS
  <1> HIDE DEF s, q, w
  <1>6. Good(s)
    BY <1>3, QuietStep DEF Step
  <1>7. /\ kept \in Results /\ kept.minted = r.minted /\ kept.mgr.view = w
        /\ Good(none) /\ none.mgr.view = w
    BY <1>3, <1>6, DropPendingStep DEF Step, Good
  <1> HIDE DEF kept, none, new, old, e, g
  <1>8. CASE q = RequestGroupKey(m, none, due)
    BY <1>7, <1>8, RequestStep
  <1>9. CASE q = MintFirst(m, kept) \/ q = RotateKey(m, kept)
    <2>1. kept.minted < MaxKeys
      BY <1>1, <1>7, <1>9, <1>5, MintedCount
    <2> QED
      BY <1>7, <1>9, <2>1, MintView
  <1>10. CASE q = Distribute(m, kept, e, EpochKey(g, e), new \ old)
    BY <1>7, <1>10, DistributeView
  <1>11. CASE q = kept
    BY <1>7, <1>11
  <1> QED
    BY <1>4, <1>8, <1>9, <1>10, <1>11

-----------------------------------------------------------------------------
(* Every action keeps the invariant. *)

\* A step that concerns neither rosters, tasks, inboxes nor views.
LEMMA QuietView ==
  ASSUME ViewInv, UNCHANGED <<voice, chat, servers, inbox, inVoice, inChat>>,
         \A m \in Members : mgr'[m].view = mgr[m].view
  PROVE  ViewInv'
  <1> SUFFICES ASSUME NEW n \in Nodes, NEW m \in Members PROVE Seen(n, m)'
    BY DEF ViewInv
  <1>1. task' = task /\ sending' = sending /\ raced' = raced
    BY DEF servers
  <1> QED
    BY <1>1, SeenKept DEF Roster, InRoom

\* A handler that leaves the view of its client alone.
LEMMA CommitView ==
  ASSUME EpochInv, NEW m \in Members, NEW r, Commit(m, r), r.mgr.view = mgr[m].view
  PROVE  \A p \in Members : mgr'[p].view = mgr[p].view
  BY DEF EpochInv, ManagersOK, Commit

\* Forgetting a node clears the view of that node and no other.
LEMMA ForgetView ==
  ASSUME NEW c \in Manager, NEW n \in Nodes, NEW k \in Nodes, k # n
  PROVE  Forget(c, n).view[k] = c.view[k]
  <1>1. Forget(c, n).view = [c.view EXCEPT ![n] = {}]
    BY DEF Forget, Manager
  <1> QED
    BY <1>1 DEF Manager

\* The roster of node n changes, and the task of m has yet to read it.
LEMMA RosterChange ==
  ASSUME EpochInv, ViewInv, NEW m \in Members, NEW n \in Nodes,
         NEW s, s # "idle", task' = [task EXCEPT ![n][m] = s],
         \A k \in Nodes : k # n => Roster(k)' = Roster(k) /\ sending'[k] = sending[k],
         \A k \in Nodes, p \in Members :
           k # n => /\ mgr'[p].view[k] = mgr[p].view[k]
                    /\ k \in InRoom(p)' => k \in InRoom(p),
         UNCHANGED <<inbox, raced>>
  PROVE  ViewInv'
  <1> SUFFICES ASSUME NEW k \in Nodes, NEW p \in Members PROVE Seen(k, p)'
    BY DEF ViewInv
  <1>1. task \in [Nodes -> [Members -> Tasks]]
    BY DEF EpochInv, ServersOK
  <1>2. CASE k = n
    <2>1. task'[n][m] = s
      BY <1>1
    <2> QED
      BY <1>2, <2>1, SeenBusy
  <1>3. CASE k # n
    <2>1. task'[k] = task[k]
      BY <1>1, <1>3
    <2> QED
      BY <1>3, <2>1, SeenKept
  <1> QED
    BY <1>2, <1>3

\* handle_sfu_join.
LEMMA JoinVoiceView ==
  ASSUME EpochInv, ViewInv, NEW m \in Members, NEW n \in Nodes, JoinVoice(m, n)
  PROVE  ViewInv'
  <1>1. ServersOK
    BY DEF EpochInv
  <1>2. task' = [task EXCEPT ![n][m] = "read"] /\ UNCHANGED <<inbox, raced>>
    BY DEF JoinVoice
  <1>3. ASSUME NEW k \in Nodes, k # n
        PROVE  Roster(k)' = Roster(k) /\ sending'[k] = sending[k]
    BY <1>1, <1>3 DEF ServersOK, Roster, JoinVoice
  <1>4. ASSUME NEW k \in Nodes, NEW p \in Members, k # n
        PROVE  mgr'[p].view[k] = mgr[p].view[k] /\ (k \in InRoom(p)' => k \in InRoom(p))
    BY <1>1, <1>4 DEF ServersOK, JoinVoice, InRoom
  <1> QED
    BY <1>2, <1>3, <1>4, RosterChange

\* handle_sfu_subscribe.
LEMMA SubscribeView ==
  ASSUME EpochInv, ViewInv, NEW m \in Members, NEW n \in Nodes,
         Subscribe(m, n) \/ ServeSubscribe(n, m)
  PROVE  ViewInv'
  <1>1. ServersOK
    BY DEF EpochInv
  <1>2. task' = [task EXCEPT ![n][m] = "read"] /\ UNCHANGED <<inbox, raced>>
    BY DEF Subscribe, ServeSubscribe
  <1>3. ASSUME NEW k \in Nodes, k # n
        PROVE  Roster(k)' = Roster(k) /\ sending'[k] = sending[k]
    BY <1>1, <1>3 DEF ServersOK, Roster, Subscribe, ServeSubscribe
  <1>4. ASSUME NEW k \in Nodes, NEW p \in Members, k # n
        PROVE  mgr'[p].view[k] = mgr[p].view[k] /\ (k \in InRoom(p)' => k \in InRoom(p))
    BY <1>1, <1>4 DEF ServersOK, Subscribe, ServeSubscribe, InRoom
  <1> QED
    BY <1>2, <1>3, <1>4, RosterChange

\* handle_sfu_unsubscribe.
LEMMA UnsubscribeView ==
  ASSUME EpochInv, ViewInv, NEW m \in Members, NEW n \in Nodes, NEW here \in BOOLEAN,
         Unsubscribe(m, n, here)
  PROVE  ViewInv'
  <1>1. ServersOK /\ mgr \in [Members -> Manager]
    BY DEF EpochInv, ManagersOK
  <1>2. task' = [task EXCEPT ![n][m] = "read"] /\ UNCHANGED <<inbox, raced>>
    BY DEF Unsubscribe
  <1>3. ASSUME NEW k \in Nodes, k # n
        PROVE  Roster(k)' = Roster(k) /\ sending'[k] = sending[k]
    BY <1>1, <1>3 DEF ServersOK, Roster, Unsubscribe
  <1>4. ASSUME NEW k \in Nodes, NEW p \in Members, k # n
        PROVE  mgr'[p].view[k] = mgr[p].view[k] /\ (k \in InRoom(p)' => k \in InRoom(p))
    <2>1. k \in InRoom(p)' => k \in InRoom(p)
      BY <1>1, <1>4 DEF ServersOK, Unsubscribe, InRoom
    <2>2. mgr'[p] = mgr[p] \/ (p = m /\ mgr'[p] = Forget(mgr[p], n))
      BY <1>1 DEF Unsubscribe
    <2>3. Forget(mgr[p], n).view[k] = mgr[p].view[k]
      BY <1>1, <1>4, ForgetView
    <2> QED
      BY <2>1, <2>2, <2>3
  <1> QED
    BY <1>2, <1>3, <1>4, RosterChange

\* on_endpoint_disconnected.
LEMMA ExpelView ==
  ASSUME EpochInv, ViewInv, NEW m \in Members, NEW n \in Nodes, Expel(m, n)
  PROVE  ViewInv'
  <1>1. ServersOK
    BY DEF EpochInv
  <1>2. task' = [task EXCEPT ![n][m] = "read"] /\ UNCHANGED <<inbox, raced>>
    BY DEF Expel
  <1>3. ASSUME NEW k \in Nodes, k # n
        PROVE  Roster(k)' = Roster(k) /\ sending'[k] = sending[k]
    BY <1>1, <1>3 DEF ServersOK, Roster, Expel
  <1>4. ASSUME NEW k \in Nodes, NEW p \in Members, k # n
        PROVE  mgr'[p].view[k] = mgr[p].view[k] /\ (k \in InRoom(p)' => k \in InRoom(p))
    BY DEF Expel, InRoom
  <1> QED
    BY <1>2, <1>3, <1>4, RosterChange

\* leave_room_voice and handle_sfu_leave, on every node that lists the client.
LEMMA LeaveVoiceView ==
  ASSUME EpochInv, ViewInv, NEW m \in Members, NEW n \in Nodes, LeaveVoice(m, n)
  PROVE  ViewInv'
  <1> DEFINE keep == n \in inChat[m]
  <1>1. ServersOK /\ mgr \in [Members -> Manager]
    BY DEF EpochInv, ManagersOK
  <1> SUFFICES ASSUME NEW k \in Nodes, NEW p \in Members PROVE Seen(k, p)'
    BY DEF ViewInv
  <1>2. CASE m \in voice[k]
    <2>1. task'[k][m] \in {"read", "readThenSubscribe"}
      BY <1>1, <1>2 DEF LeaveVoice, ServersOK
    <2> QED
      BY <2>1, SeenBusy
  <1>3. CASE m \notin voice[k]
    <2>1. task'[k] = task[k] /\ sending'[k] = sending[k]
      BY <1>1, <1>3 DEF LeaveVoice, ServersOK
    <2>2. Roster(k)' = Roster(k) /\ raced' = raced /\ inbox' = inbox
      BY <1>1, <1>3 DEF LeaveVoice, ServersOK, Roster
    <2>3. k \in InRoom(p)' => k \in InRoom(p)
      BY <1>1 DEF LeaveVoice, InRoom, ServersOK
    <2>4. CASE k \in InRoom(p)'
      <3>1. mgr'[p] = mgr[p] \/ (p = m /\ ~keep /\ mgr'[p] = Forget(mgr[p], n))
        BY <1>1 DEF LeaveVoice
      <3>2. k = n /\ p = m => keep
        BY <1>1, <2>4 DEF LeaveVoice, InRoom, ServersOK
      <3>3. k # n => Forget(mgr[p], n).view[k] = mgr[p].view[k]
        BY <1>1, ForgetView
      <3>4. mgr'[p].view[k] = mgr[p].view[k]
        BY <3>1, <3>2, <3>3
      <3> QED
        BY <2>1, <2>2, <2>3, <3>4, SeenKept
    <2>5. CASE k \notin InRoom(p)'
      <3>1. Seen(k, p)
        BY DEF ViewInv
      <3>2. Fresh(k)' = Fresh(k) /\ Current(k)' = Current(k)
        BY <2>1, <2>2 DEF Fresh, Current, UpToDate
      <3> QED
        BY <2>5, <3>1, <3>2 DEF Seen
    <2> QED
      BY <2>4, <2>5
  <1> QED
    BY <1>2, <1>3

\* broadcast_sfu_members reads the roster: what the task of h is to send now is
\* all there is, unless another task has something older to send.
LEMMA ReadRosterView ==
  ASSUME EpochInv, ViewInv, NEW n \in Nodes, NEW h \in Members, ReadRoster(n, h)
  PROVE  ViewInv'
  <1>1. ServersOK
    BY DEF EpochInv
  <1>2. UNCHANGED <<voice, chat, inbox, inVoice, inChat, mgr>>
    BY DEF ReadRoster
  <1>3. \A k \in Nodes, p \in Members : Roster(k)' = Roster(k) /\ InRoom(p)' = InRoom(p)
    BY <1>2 DEF Roster, InRoom
  <1> SUFFICES ASSUME NEW k \in Nodes, NEW p \in Members PROVE Seen(k, p)'
    BY DEF ViewInv
  <1>4. CASE k # n
    <2>1. task'[k] = task[k] /\ sending'[k] = sending[k] /\ raced'[k] = raced[k]
      BY <1>1, <1>4 DEF ReadRoster, ServersOK
    <2> QED
      BY <1>2, <1>3, <2>1, SeenKept
  <1>5. CASE k = n
    <2> SUFFICES ASSUME Fresh(n)'
                 PROVE  Current(n)' /\ (p \in Roster(n) => Coming(n, p)')
      BY <1>3, <1>5 DEF Seen
    <2>1. \A g \in Members \ {h} : UpToDate(n, g)
      BY <1>1 DEF Fresh, ReadRoster, ServersOK
    <2>2. \A g \in Members : sending'[n][g] = IF g = h THEN RosterToAll(n, h) ELSE sending[n][g]
      BY <1>1 DEF ReadRoster, ServersOK
    <2>3. \A s \in RosterToAll(n, h) : s.what.kind = "members" /\ s.what.set = Roster(n)
      BY DEF RosterToAll
    <2>4. Current(n)'
      BY <1>3, <2>1, <2>2, <2>3 DEF Current, UpToDate
    <2>5. ASSUME p \in Roster(n) PROVE Coming(n, p)'
      <3> DEFINE s == [to |-> p, what |-> [kind |-> "members", peer |-> h, set |-> Roster(n)]]
      <3>1. s \in RosterToAll(n, h) /\ s.to = p
        BY <2>5 DEF RosterToAll
      <3> HIDE DEF s
      <3>2. s \in sending'[n][h]
        BY <2>2, <3>1
      <3> QED
        BY <3>1, <3>2 DEF Coming
    <2> QED
      BY <2>4, <2>5
  <1> QED
    BY <1>4, <1>5

\* send_signed, to one client: the roster goes to the end of its queue.
LEMMA SendAnnouncementView ==
  ASSUME EpochInv, ViewInv, NEW n \in Nodes, NEW h \in Members, SendAnnouncement(n, h)
  PROVE  ViewInv'
  <1>1. /\ inbox \in [Nodes -> [Members -> Seq(Announcement)]]
        /\ sending \in [Nodes -> [Members -> SUBSET Outgoing]]
    BY DEF EpochInv, ServersOK
  <1>2. PICK s \in sending[n][h] :
          /\ sending' = [sending EXCEPT ![n][h] = @ \ {s}]
          /\ inbox' = IF Gone(n, s.to) THEN inbox
                      ELSE [inbox EXCEPT ![n][s.to] = Append(@, s.what)]
    BY DEF SendAnnouncement
  <1>3. s.to \in Members /\ s.what \in Announcement
    BY <1>1 DEF Outgoing
  <1>4. UNCHANGED <<voice, chat, task, raced, inVoice, inChat, mgr>>
    BY DEF SendAnnouncement
  <1>5. \A k \in Nodes, p \in Members : Roster(k)' = Roster(k) /\ InRoom(p)' = InRoom(p)
    BY <1>4 DEF Roster, InRoom
  <1> SUFFICES ASSUME NEW k \in Nodes, NEW p \in Members PROVE Seen(k, p)'
    BY DEF ViewInv
  <1>6. CASE k # n
    <2>1. sending'[k] = sending[k] /\ inbox'[k][p] = inbox[k][p]
      BY <1>1, <1>2, <1>3, <1>6
    <2> QED
      BY <1>4, <1>5, <2>1, SeenKept
  <1>7. CASE k = n
    <2> SUFFICES ASSUME Fresh(n)
                 PROVE  /\ Current(n)'
                        /\ p \in Roster(n) /\ n \in InRoom(p)
                             => \/ Coming(n, p)'
                                \/ Informed(inbox'[n][p], mgr[p].view[n], Roster(n), p)
      BY <1>4, <1>5, <1>7 DEF Seen, Fresh
    <2>1. Seen(n, p) /\ Current(n)
      BY DEF ViewInv, Seen
    <2>2. ASSUME NEW g \in Members
          PROVE  sending'[n][g] = IF g = h THEN sending[n][g] \ {s} ELSE sending[n][g]
      BY <1>1, <1>2
    <2>3. Current(n)'
      BY <1>5, <2>1, <2>2 DEF Current, UpToDate
    <2>4. ASSUME p \in Roster(n), n \in InRoom(p)
          PROVE  Coming(n, p)' \/ Informed(inbox'[n][p], mgr[p].view[n], Roster(n), p)
      <3>1. CASE s.to = p
        <4>1. ~Gone(n, p)
          BY <2>4 DEF Gone
        <4>2. inbox'[n][p] = Append(inbox[n][p], s.what) /\ inbox[n][p] \in Seq(Announcement)
          BY <1>1, <1>2, <1>3, <3>1, <4>1
        <4>3. s.what.kind = "members" /\ s.what.set = Roster(n)
          BY <2>1 DEF Current, UpToDate
        <4>4. Informed(Append(inbox[n][p], s.what), mgr[p].view[n], Roster(n), p)
          BY <1>3, <4>2, <4>3, AppendInformed
        <4> QED
          BY <4>2, <4>4
      <3>2. CASE s.to # p
        <4>1. inbox'[n][p] = inbox[n][p]
          BY <1>1, <1>2, <1>3, <3>2
        <4>2. Coming(n, p) => Coming(n, p)'
          BY <2>2, <3>2 DEF Coming
        <4> QED
          BY <2>1, <2>4, <4>1, <4>2 DEF Seen
      <3> QED
        BY <3>1, <3>2
    <2> QED
      BY <2>3, <2>4
  <1> QED
    BY <1>6, <1>7

\* The connection to a node is lost, or the client starts again.
LEMMA LostView ==
  ASSUME EpochInv, ViewInv, NEW m \in Members,
         Restart(m) \/ \E n \in Nodes : Disconnect(m, n)
  PROVE  ViewInv'
  <1>1. ServersOK /\ mgr \in [Members -> Manager]
    BY DEF EpochInv, ManagersOK
  <1> SUFFICES ASSUME NEW k \in Nodes, NEW p \in Members PROVE Seen(k, p)'
    BY DEF ViewInv
  <1>a. task' = task /\ sending' = sending /\ raced' = raced /\ Seen(k, p)
    BY DEF Restart, Disconnect, servers, ViewInv
  <1>2. CASE Restart(m)
    <2>1. CASE p = m
      <3>1. k \notin InRoom(p)' /\ Roster(k)' = Roster(k)
        BY <1>1, <1>2, <2>1 DEF Restart, InRoom, Roster, ServersOK
      <3> QED
        BY <1>a, <3>1 DEF Seen, Fresh, Current, UpToDate
    <2>2. CASE p # m
      <3>1. inbox'[k][p] = inbox[k][p] /\ mgr'[p] = mgr[p]
        BY <1>1, <1>2, <2>2 DEF Restart, ServersOK
      <3>2. Roster(k)' = Roster(k) /\ InRoom(p)' = InRoom(p)
        BY <1>1, <1>2, <2>2 DEF Restart, Roster, InRoom, ServersOK
      <3> QED
        BY <1>a, <3>1, <3>2, SeenKept
    <2> QED
      BY <2>1, <2>2
  <1>3. ASSUME NEW n \in Nodes, Disconnect(m, n) PROVE Seen(k, p)'
    <2>1. Roster(k)' = Roster(k) /\ (k \in InRoom(p)' => k \in InRoom(p))
      BY <1>1, <1>3 DEF Disconnect, Roster, InRoom, ServersOK
    <2>2. CASE p = m /\ k = n
      <3>1. k \notin InRoom(p)'
        BY <1>1, <1>3, <2>2 DEF Disconnect, InRoom, ServersOK
      <3> QED
        BY <1>a, <2>1, <3>1 DEF Seen, Fresh, Current, UpToDate
    <2>3. CASE ~(p = m /\ k = n)
      <3>1. inbox'[k][p] = inbox[k][p]
        BY <1>1, <1>3, <2>3 DEF Disconnect, ServersOK
      <3>2. mgr'[p].view = mgr[p].view
        <4>1. CASE p = m
          <5>1. mgr'[p] = [mgr[p] EXCEPT !.devices[n] = {}]
            BY <1>1, <1>3, <4>1 DEF Disconnect
          <5>2. mgr[p] \in Manager
            BY <1>1
          <5> QED
            BY <5>1, <5>2 DEF Manager
        <4>2. CASE p # m
          BY <1>1, <1>3, <4>2 DEF Disconnect
        <4> QED
          BY <4>1, <4>2
      <3> QED
        BY <1>a, <2>1, <3>1, <3>2, SeenKept
    <2> QED
      BY <2>2, <2>3
  <1> QED
    BY <1>2, <1>3

\* What is left of a queue ends as the queue did.
LEMMA InformedTail ==
  ASSUME NEW q \in Seq(Announcement), q # <<>>, Tail(q) # <<>>,
         NEW roster, NEW m, NEW v, NEW w, Informed(q, v, roster, m)
  PROVE  Informed(Tail(q), w, roster, m)
  <1>1. Len(q) \in Nat /\ Len(q) > 1 /\ Len(Tail(q)) = Len(q) - 1
    OBVIOUS
  <1>2. Tail(q)[Len(Tail(q))] = q[Len(q)]
    BY <1>1
  <1> QED
    BY <1>2 DEF Informed

\* A queue loses one announcement at a time.
LEMMA TailLength ==
  ASSUME NEW q \in Seq(Announcement), q # <<>>
  PROVE  Len(Tail(q)) = Len(q) - 1
  OBVIOUS

\* The only announcement of a queue is the one at its head.
LEMMA InformedLast ==
  ASSUME NEW q \in Seq(Announcement), q # <<>>, Len(Tail(q)) = 0,
         NEW roster, NEW m, NEW v, Informed(q, v, roster, m)
  PROVE  Head(q).kind = "members" /\ Head(q).set = roster
  <1>1. Len(q) \in Nat /\ Head(q) = q[1]
    OBVIOUS
  <1>2. Len(Tail(q)) = Len(q) - 1
    BY TailLength
  <1>3. Len(q) = 1
    BY <1>1, <1>2
  <1> QED
    BY <1>1, <1>3 DEF Informed

\* SfuMembers, SfuPeerJoined, SfuPeerLeft.
LEMMA HandleAnnouncementView ==
  ASSUME NoWrap, EpochInv, ViewInv, NEW m \in Members, NEW n \in Nodes,
         NEW due \in BOOLEAN, HandleAnnouncement(m, n, due)
  PROVE  ViewInv'
  <1> DEFINE q == inbox[n][m]
             a == Head(q)
             b == Before(m)
             r == IF a.kind = "members" THEN SyncRosters(m, n, a, due)
                                        ELSE SyncEdge(m, n, a, due)
             w == mgr[m].view
  <1>1. /\ inbox \in [Nodes -> [Members -> Seq(Announcement)]]
        /\ mgr \in [Members -> Manager] /\ mgr[m] \in Manager
        /\ w \in [Nodes -> SUBSET Members]
    <2>1. inbox \in [Nodes -> [Members -> Seq(Announcement)]]
      BY DEF EpochInv, ServersOK
    <2>2. mgr \in [Members -> Manager] /\ mgr[m] \in Manager
      BY DEF EpochInv, ManagersOK
    <2> QED
      BY <2>1, <2>2 DEF Manager
  <1>2. q \in Seq(Announcement) /\ q # <<>> /\ a \in Announcement
    <2>1. q \in Seq(Announcement) /\ q # <<>>
      BY <1>1 DEF HandleAnnouncement
    <2> HIDE DEF q
    <2> QED
      BY <2>1
  <1>3. a.set \in SUBSET Members /\ a.peer \in Members
    BY <1>2 DEF Announcement
  <1>4. r.minted <= MaxKeys /\ mgr' = [mgr EXCEPT ![m] = r.mgr]
    BY DEF HandleAnnouncement, Commit
  <1>5. /\ inbox' = [inbox EXCEPT ![n][m] = Tail(q)]
        /\ UNCHANGED <<voice, chat, inVoice, inChat, task, sending, raced>>
    BY <1>1 DEF HandleAnnouncement, servers
  <1>6. Good(b) /\ b.mgr = mgr[m]
    BY BeforeGood DEF Before
  <1>7. /\ \E X : r.mgr.view = w \/ r.mgr.view = [w EXCEPT ![n] = X]
        /\ a.kind = "members" /\ InRoom(m) # {} => r.mgr.view = [w EXCEPT ![n] = a.set \ {m}]
    <2> HIDE DEF a, q
    <2>1. CASE a.kind = "members" /\ InRoom(m) = {}
      <3>1. r = b
        BY <2>1 DEF SyncRosters
      <3> QED
        BY <1>6, <2>1, <3>1
    <2>2. CASE a.kind = "members" /\ InRoom(m) # {}
      <3> DEFINE d == RecordRoomDevices(b, n, a.set)
      <3>1. r = SyncRoomMembership(m, d, n, a.set, due)
        BY <2>2 DEF SyncRosters
      <3> HIDE DEF r, b
      <3>2. Good(d)
        BY <1>3, <1>6, RecordDevicesStep DEF Step
      <3>3. d.mgr.view = w
        <4>1. d.mgr = [b.mgr EXCEPT !.devices[n] = a.set]
          BY DEF RecordRoomDevices, Then
        <4> QED
          BY <1>1, <1>6, <4>1 DEF Manager
      <3> DEFINE S == a.set
                 v == [w EXCEPT ![n] = S \ {m}]
      <3>4. v = [d.mgr.view EXCEPT ![n] = S \ {m}] /\ S \in SUBSET Members
        BY <1>3, <3>3
      <3>5. SyncRoomMembership(m, d, n, S, due).minted <= MaxKeys
            /\ r = SyncRoomMembership(m, d, n, S, due)
        BY <1>4, <3>1
      <3> HIDE DEF d, v, S
      <3>6. r.mgr.view = v
        BY <3>2, <3>4, <3>5, SyncView
      <3>7. r.mgr.view = [w EXCEPT ![n] = a.set \ {m}]
        BY <3>6 DEF v, S
      <3> HIDE DEF w
      <3> QED
        BY <3>7, Zenon
    <2>3. CASE a.kind # "members"
      <3> DEFINE seen == mgr[m].view[n]
                 S == IF a.kind = "joined" THEN seen \cup {a.peer} ELSE seen \ {a.peer}
      <3>1. S \in SUBSET Members
        BY <1>1, <1>3
      <3>2. r = SyncRoomMembership(m, b, n, S, due)
        BY <2>3 DEF SyncEdge
      <3> HIDE DEF r, b, S
      <3>3. r.mgr.view = [w EXCEPT ![n] = S \ {m}]
        <4> DEFINE v == [w EXCEPT ![n] = S \ {m}]
        <4>1. v = [b.mgr.view EXCEPT ![n] = S \ {m}]
          BY <1>6
        <4> HIDE DEF v
        <4>2. SyncRoomMembership(m, b, n, S, due).minted <= MaxKeys
          BY <1>4, <3>2
        <4>3. r.mgr.view = v
          BY <1>6, <3>1, <3>2, <4>1, <4>2, SyncView
        <4> QED
          BY <4>3 DEF v
      <3> QED
        BY <2>3, <3>3
    <2> QED
      BY <2>1, <2>2, <2>3
  <1> HIDE DEF r, b
  <1> SUFFICES ASSUME NEW k \in Nodes, NEW p \in Members PROVE Seen(k, p)'
    BY DEF ViewInv
  <1>8. Roster(k)' = Roster(k) /\ InRoom(p)' = InRoom(p)
    BY <1>5 DEF Roster, InRoom
  <1>9. CASE k # n \/ p # m
    <2>1. inbox'[k][p] = inbox[k][p]
      BY <1>1, <1>5, <1>9
    <2>2. mgr'[p].view[k] = mgr[p].view[k]
      <3>1. CASE p # m
        BY <1>1, <1>4, <3>1
      <3>2. CASE p = m /\ k # n
        <4>1. mgr'[p] = r.mgr
          BY <1>1, <1>4, <3>2
        <4>2. r.mgr.view[k] = w[k]
          BY <1>1, <1>7, <3>2
        <4> QED
          BY <3>2, <4>1, <4>2
      <3> QED
        BY <1>9, <3>1, <3>2
    <2> QED
      BY <1>5, <1>8, <2>1, <2>2, SeenKept
  <1>10. CASE k = n /\ p = m
    <2>a. Seen(n, m) /\ Fresh(n)' = Fresh(n) /\ Current(n)' = Current(n)
          /\ Coming(n, m)' = Coming(n, m)
      BY <1>5, <1>8, <1>10 DEF ViewInv, Fresh, Current, UpToDate, Coming
    <2> SUFFICES ASSUME Fresh(n), m \in Roster(n), n \in InRoom(m), ~Coming(n, m)
                 PROVE  Informed(inbox'[n][m], mgr'[m].view[n], Roster(n), m)
      BY <1>8, <1>10, <2>a DEF Seen
    <2>1. inbox'[n][m] = Tail(q) /\ mgr'[m] = r.mgr
      BY <1>1, <1>4, <1>5
    <2>2. Informed(q, w[n], Roster(n), m)
      BY <2>a DEF Seen
    <2> HIDE DEF q
    <2>3. CASE Tail(q) # <<>>
      <3>1. Informed(Tail(q), r.mgr.view[n], Roster(n), m)
        BY <1>2, <2>2, <2>3, InformedTail
      <3> QED
        BY <2>1, <3>1
    <2>4. CASE Tail(q) = <<>>
      <3>1. a.kind = "members" /\ a.set = Roster(n)
        <4>1. Len(<<>>) = 0
          OBVIOUS
        <4>2. Len(Tail(q)) = 0
          BY <2>4, <4>1, Zenon
        <4> QED
          BY <1>2, <2>2, <4>2, InformedLast
      <3>2. InRoom(m) # {}
        OBVIOUS
      <3> HIDE DEF a, w
      <3>3. r.mgr.view = [w EXCEPT ![n] = Roster(n) \ {m}]
        BY <1>7, <3>1, <3>2
      <3>4. r.mgr.view[n] = Roster(n) \ {m}
        BY <1>1, <3>3
      <3> QED
        BY <2>1, <2>4, <3>4 DEF Informed
    <2> QED
      BY <2>3, <2>4
  <1> QED
    BY <1>9, <1>10

\* SfuGroupKey, SfuGroupKeyAck and SfuGroupKeyRequest.
LEMMA DeliverView ==
  ASSUME EpochInv, ViewInv, NEW msg \in net, Deliver(msg)
  PROVE  ViewInv'
  <1> DEFINE m == msg.to
             b == Before(m)
  <1>1. m \in Members /\ msg.from \in Members
    BY DEF EpochInv, NetOK, Message
  <1>2. mgr \in [Members -> Manager] /\ mgr[m] \in Manager
    BY <1>1 DEF EpochInv, ManagersOK
  <1>3. Good(b) /\ b.mgr = mgr[m]
    BY <1>1, BeforeGood DEF Before
  <1>4. UNCHANGED <<voice, chat, servers, inbox, inVoice, inChat>>
    BY DEF Deliver, HandleGroupKey, HandleGroupKeyAck, HandleGroupKeyRequest
  <1>5. CASE HandleGroupKey(msg)
    <2> DEFINE c == [mgr[m] EXCEPT !.group = Install(@, msg.epoch, msg.key), !.asked = FALSE]
    <2>1. mgr' = [mgr EXCEPT ![m] = c] \/ mgr' = [mgr EXCEPT ![m] = mgr[m]]
      BY <1>5 DEF HandleGroupKey, Commit, Then, Before
    <2>2. c.view = mgr[m].view
      BY <1>2 DEF Manager
    <2> HIDE DEF c, m
    <2>3. \A p \in Members : mgr'[p].view = mgr[p].view
      BY <1>1, <1>2, <2>1, <2>2
    <2> QED
      BY <1>4, <2>3, QuietView
  <1>6. CASE HandleGroupKeyAck(msg)
    <2> DEFINE c == [mgr[m] EXCEPT !.pending[msg.from] = NoPending]
    <2>1. mgr' = [mgr EXCEPT ![m] = c] \/ mgr' = mgr
      BY <1>1, <1>2, <1>6 DEF HandleGroupKeyAck
    <2>2. c.view = mgr[m].view
      BY <1>2 DEF Manager
    <2> HIDE DEF c, m
    <2>3. \A p \in Members : mgr'[p].view = mgr[p].view
      BY <1>1, <1>2, <2>1, <2>2
    <2> QED
      BY <1>4, <2>3, QuietView
  <1>7. CASE HandleGroupKeyRequest(msg)
    <2> DEFINE r == SealCurrentTo(m, b, msg.from)
    <2>1. Commit(m, r)
      BY <1>7 DEF HandleGroupKeyRequest
    <2>2. r.mgr.view = mgr[m].view
      BY <1>3, SealView DEF Good
    <2> HIDE DEF r, m
    <2> QED
      BY <1>1, <1>4, <2>1, <2>2, CommitView, QuietView
  <1> QED
    BY <1>5, <1>6, <1>7 DEF Deliver

\* The two retry timers.
LEMMA TimersView ==
  ASSUME EpochInv, ViewInv, NEW m \in Members, Timers(m)
  PROVE  ViewInv'
  <1>1. mgr \in [Members -> Manager] /\ mgr[m] \in Manager
    BY DEF EpochInv, ManagersOK
  <1>2. Good(Before(m)) /\ Before(m).mgr = mgr[m]
    BY BeforeGood DEF Before
  <1>3. CASE RetryPendingGroupKeys(m)
    <2>1. UNCHANGED <<voice, chat, servers, inbox, inVoice, inChat>>
          /\ \E P : mgr' = [mgr EXCEPT ![m].pending = P]
      BY <1>3 DEF RetryPendingGroupKeys
    <2>2. ASSUME NEW P PROVE [mgr[m] EXCEPT !.pending = P].view = mgr[m].view
      BY <1>1 DEF Manager
    <2>3. \A p \in Members : mgr'[p].view = mgr[p].view
      BY <1>1, <2>1, <2>2
    <2> QED
      BY <2>1, <2>3, QuietView
  <1>4. ASSUME NEW due \in BOOLEAN, RetryGroupKeyRequests(m, due) PROVE ViewInv'
    <2> DEFINE r == RequestGroupKey(m, Before(m), due)
    <2>1. Commit(m, r) /\ UNCHANGED <<voice, chat, servers, inbox, inVoice, inChat>>
      BY <1>4 DEF RetryGroupKeyRequests
    <2>2. r.mgr.view = mgr[m].view
      BY <1>2, RequestStep
    <2> HIDE DEF r
    <2> QED
      BY <2>1, <2>2, CommitView, QuietView
  <1> QED
    BY <1>3, <1>4 DEF Timers

\* A room frame is heard.
LEMMA HearFrameView ==
  ASSUME NoWrap, EpochInv, ViewInv, NEW m \in Members, NEW p \in Members,
         NEW due \in BOOLEAN, NEW old \in BOOLEAN, HearFrame(m, p, due, old)
  PROVE  ViewInv'
  <1> DEFINE f == air[p]
             b == Before(m)
             r1 == ResealToLaggingMember(m, b, p, f.epoch, old)
             r2 == OnUnopenable(m, b, p, f.epoch, due, old)
             r == IF mgr[m].group.keys[f.epoch] = f.key THEN r1 ELSE r2
  <1>1. Commit(m, r) /\ r.minted <= MaxKeys /\ f.key # NoKey
        /\ UNCHANGED <<voice, chat, servers, inbox, inVoice, inChat>>
    BY DEF HearFrame, Commit
  <1>2. f.epoch \in Epochs /\ (f.key # NoKey => f.epoch < minted)
    BY DEF EpochInv, AirOK, Frame
  <1>3. Good(b) /\ b \in Results /\ b.minted = minted /\ b.mgr = mgr[m]
    BY BeforeGood DEF Before, Good
  <1> HIDE DEF b
  <1>4. r.mgr.view = mgr[m].view
    <2>1. CASE mgr[m].group.keys[f.epoch] = f.key
      <3>1. r1.mgr.view = b.mgr.view
        BY <1>3, SealView
      <3> QED
        BY <1>3, <2>1, <3>1
    <2>2. CASE mgr[m].group.keys[f.epoch] # f.key
      <3>1. r = r2
        BY <2>2
      <3> HIDE DEF r
      <3>2. r2.mgr.view = b.mgr.view
        <4>1. r2.minted <= MaxKeys /\ f.epoch < b.minted
          BY <1>1, <1>2, <1>3, <3>1
        <4> HIDE DEF f
        <4> QED
          BY <1>2, <1>3, <4>1, UnopenableView
      <3> QED
        BY <1>3, <3>1, <3>2
    <2> QED
      BY <2>1, <2>2
  <1> HIDE DEF r
  <1> QED
    BY <1>1, <1>4, CommitView, QuietView

\* A step keeps the invariant.
LEMMA ViewStep ==
  ASSUME NoWrap, EpochInv, ViewInv, [Next]_vars
  PROVE  ViewInv'
  <1>1. CASE UNCHANGED <<voice, chat, servers, inbox, inVoice, inChat, mgr>>
    BY <1>1, QuietView
  <1>2. ASSUME NEW m \in Members, Membership(m) PROVE ViewInv'
    BY <1>2, JoinVoiceView, SubscribeView, LeaveVoiceView, UnsubscribeView,
       ExpelView, LostView DEF Membership
  <1>3. ASSUME NEW m \in Members, NEW n \in Nodes, NEW due \in BOOLEAN,
               HandleAnnouncement(m, n, due)
        PROVE  ViewInv'
    BY <1>3, HandleAnnouncementView
  <1>4. ASSUME NEW m \in Members, Timers(m) PROVE ViewInv'
    BY <1>4, TimersView
  <1>5. ASSUME NEW m \in Members, SendFrame(m) PROVE ViewInv'
    BY <1>1, <1>5 DEF SendFrame
  <1>6. ASSUME NEW m \in Members, NEW p \in Members, NEW due \in BOOLEAN,
               NEW old \in BOOLEAN, HearFrame(m, p, due, old)
        PROVE  ViewInv'
    BY <1>6, HearFrameView
  <1>7. ASSUME NEW msg \in net, Deliver(msg) PROVE ViewInv'
    BY <1>7, DeliverView
  <1>8. ASSUME NEW msg \in net, Lose(msg) PROVE ViewInv'
    BY <1>1, <1>8 DEF Lose
  <1>9. ASSUME NEW n \in Nodes, NEW h \in Members, Serve(n, h) PROVE ViewInv'
    BY <1>9, ReadRosterView, SendAnnouncementView, SubscribeView DEF Serve
  <1>10. CASE UNCHANGED vars
    BY <1>1, <1>10 DEF vars, servers
  <1> QED
    BY <1>2, <1>3, <1>4, <1>5, <1>6, <1>7, <1>8, <1>9, <1>10 DEF Next

-----------------------------------------------------------------------------

\* For any number of members and nodes, whatever joins, leaves, lost connections
\* and restarts the node's tasks serve at the same time, and in whichever order
\* their rosters and edges arrive: once they are done and a client in the room
\* has handled what they sent it, it lists exactly that node's roster, unless the
\* last of them read the roster while another had an older one to send
\* (broadcast_sfu_members sends after the lock, so then that one can arrive last).
THEOREM ViewAlwaysCatchesUp == ASSUME NoWrap PROVE Spec => []ViewCatchesUp
  <1>1. Init => ViewInv
    BY DEF Init, ViewInv, Seen, Roster, Current, UpToDate
  <1>2. EpochInv /\ ViewInv /\ [Next]_vars => ViewInv'
    BY ViewStep
  <1>3. EpochInv /\ ViewInv => ViewCatchesUp
    <2> SUFFICES ASSUME EpochInv, ViewInv, NEW n \in Nodes, NEW m \in Roster(n),
                        n \in InRoom(m), Told(n, m), ~raced[n]
                 PROVE  mgr[m].view[n] = Roster(n) \ {m}
      BY DEF ViewCatchesUp
    <2>1. m \in Members
      BY DEF EpochInv, ServersOK, Roster
    <2>2. Seen(n, m)
      BY <2>1 DEF ViewInv
    <2>3. Fresh(n) /\ ~Coming(n, m) /\ inbox[n][m] = <<>>
      BY DEF Told, Idle, Fresh, Coming
    <2> QED
      BY <2>2, <2>3 DEF Seen, Informed
  <1> QED
    BY <1>1, <1>2, <1>3, EpochInvHolds, PTL DEF Spec

=============================================================================
