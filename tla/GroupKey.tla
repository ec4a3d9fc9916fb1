------------------------------- MODULE GroupKey -------------------------------
(***************************************************************************)
(* The per-conversation epoch key state of doubleslash-client              *)
(* (group_key.rs, GroupState and SenderKeysGroup), as a record and the     *)
(* operators that replace it.                                              *)
(*                                                                         *)
(* An epoch is a byte in the code: here a number modulo EpochMod.  Key     *)
(* material is an opaque number, one per call of random_key; NoKey stands  *)
(* for an absent entry of the `keys' map, so that the map is a total       *)
(* function.  current_since, the age of the current epoch, is left to the  *)
(* handler that compares it with the clock.                                *)
(***************************************************************************)
EXTENDS Integers, FiniteSets

CONSTANTS
  EpochMod,    \* number of epochs (256: `epoch' is a u8)
  Retained,    \* MAX_RETAINED_EPOCHS
  MaxKeys      \* bound: how many keys a behaviour may mint

ASSUME EpochModAssumption == EpochMod \in Nat \ {0}
ASSUME RetainedAssumption == Retained \in Nat \ {0}
ASSUME MaxKeysAssumption  == MaxKeys \in Nat

Epochs   == 0 .. EpochMod - 1
Keys     == 1 .. MaxKeys
NoKey    == 0
NoEpoch  == -1          \* seen_high = None

GroupState ==
  [current : Epochs, seen_high : Epochs \cup {NoEpoch},
   keys : [Epochs -> Keys \cup {NoKey}]]

\* GroupState::default, and also the absent entry of SenderKeysGroup.groups:
\* an entry exists exactly when something was installed or observed.
NoGroup ==
  [current |-> 0, seen_high |-> NoEpoch,
   keys |-> [e \in Epochs |-> NoKey]]

Held(keys) == {e \in Epochs : keys[e] # NoKey}

\* GroupState::has_keys and SenderKeysGroup::has_real_key.
HasKeys(g) == Held(g.keys) # {}

\* GroupState::note_seen.
NoteSeen(g, e) ==
  IF g.seen_high >= e THEN g ELSE [g EXCEPT !.seen_high = e]

\* Mutant: the loop drops the highest-numbered epochs.
RetainOldest(keys) ==
  [e \in Epochs |->
     IF Cardinality({f \in Held(keys) : f < e}) < Retained
       THEN keys[e] ELSE NoKey]

\* The loop at the end of install: drop the lowest-numbered epoch until at
\* most Retained are left.
Retain(keys) ==
  [e \in Epochs |->
     IF Cardinality({f \in Held(keys) : f > e}) < Retained
       THEN keys[e] ELSE NoKey]

\* GroupState::install.
Install(g, e, k) ==
  [current   |-> e,
   seen_high |-> NoteSeen(g, e).seen_high,
   keys      |-> Retain([g.keys EXCEPT ![e] = k])]

\* GroupState::next_epoch: above what is held and what was seen, wrapping.
NextEpoch(g) ==
  ((IF g.seen_high >= g.current THEN g.seen_high ELSE g.current) + 1) % EpochMod

\* Mutant: a new owner starts at, not above, what it has seen.
FirstEpochAtSeen(g) == g.seen_high

\* SenderKeysGroup::new_owner_epoch picks epoch 0 for an absent entry.
FirstEpoch(g) == IF g.seen_high = NoEpoch THEN 0 ELSE NextEpoch(g)

\* SenderKeysGroup::new_owner_epoch with fresh key material k.
NewOwnerEpoch(g, k) ==
  Install([NoGroup EXCEPT !.seen_high = g.seen_high], FirstEpoch(g), k)

\* SenderKeysGroup::rotate with fresh key material k.
Rotate(g, k) ==
  IF g.seen_high = NoEpoch THEN NewOwnerEpoch(g, k)
                           ELSE Install(g, NextEpoch(g), k)

\* SenderKeysGroup::is_behind.
IsBehind(g) == g.seen_high # NoEpoch /\ g.keys[g.seen_high] = NoKey

\* GroupKeySource::current_epoch.
CurrentEpoch(g) == IF HasKeys(g) THEN g.current ELSE 0

\* GroupKeySource::epoch_key of a peer that holds real key material; the
\* deterministic fallback of a peer that holds none is never sealed under.
EpochKey(g, e) == g.keys[e]

=============================================================================
