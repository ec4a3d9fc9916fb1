------------------------------ MODULE FilePull ------------------------------
(***************************************************************************)
(* What a file download promises to the person who accepted it, with no    *)
(* sender, no network and no timers.  Bytes arrive one chunk at a time, in *)
(* any order; an interruption keeps every byte; a file is published only   *)
(* when every chunk is there and every chunk is the sender's original; and *)
(* bytes are let go of only together with the whole download.              *)
(***************************************************************************)
EXTENDS Naturals

CONSTANTS
  Receivers,    \* the people the file was offered to
  Chunks        \* the pieces of the file

VARIABLES
  phase,        \* where each download stands
  have,         \* have[r][c]: "no", "ok" (the original bytes) or "bad"
  published     \* the downloads whose file is under its final name

pullVars == <<phase, have, published>>

Phases == {"none", "offered", "active", "held", "checking", "done", "over"}

Whole(h) == \A c \in Chunks : h[c] # "no"
Genuine(h) == \A c \in Chunks : h[c] = "ok"
Nothing == [c \in Chunks |-> "no"]

PullInit ==
  /\ phase = [r \in Receivers |-> "none"]
  /\ have = [r \in Receivers |-> Nothing]
  /\ published = {}

(* The bytes of a download only change by the arrival of a missing chunk.  *)
Arrives(r) ==
  \/ have' = have
  \/ \E c \in Chunks, v \in {"ok", "bad"} :
       /\ have[r][c] = "no"
       /\ have' = [have EXCEPT ![r][c] = v]

Become(r, p) == phase' = [phase EXCEPT ![r] = p]

Offer(r) ==
  /\ phase[r] = "none"
  /\ Become(r, "offered")
  /\ UNCHANGED <<have, published>>

Start(r) ==
  /\ phase[r] = "offered"
  /\ Become(r, "active")
  /\ UNCHANGED <<have, published>>

(* A download in progress, or one waiting for Retry, goes on.              *)
Continue(r) ==
  /\ phase[r] \in {"active", "held"}
  /\ Become(r, "active")
  /\ Arrives(r)
  /\ UNCHANGED published

Interrupt(r) ==
  /\ phase[r] = "active"
  /\ ~Whole(have[r])
  /\ Become(r, "held")
  /\ UNCHANGED <<have, published>>

(* The last chunk may come in the same step.                               *)
Check(r) ==
  /\ phase[r] \in {"active", "held"}
  /\ Arrives(r)
  /\ Whole(have'[r])
  /\ Become(r, "checking")
  /\ UNCHANGED published

Publish(r) ==
  /\ phase[r] \in {"active", "held", "checking"}
  /\ Arrives(r)
  /\ Genuine(have'[r])
  /\ Become(r, "done")
  /\ published' = published \cup {r}

(* Cancelled, rejected or failed for good.                                 *)
Abandon(r) ==
  /\ phase[r] # "none"
  /\ Arrives(r)
  /\ Become(r, "over")
  /\ UNCHANGED published

(* The record goes, and its bytes with it; a published file stays.         *)
Forget(r) ==
  /\ phase[r] # "none"
  /\ Become(r, "none")
  /\ have' = [have EXCEPT ![r] = Nothing]
  /\ UNCHANGED published

PullNext ==
  \E r \in Receivers :
    \/ Offer(r) \/ Start(r) \/ Continue(r) \/ Interrupt(r)
    \/ Check(r) \/ Publish(r) \/ Abandon(r) \/ Forget(r)

PullSpec == PullInit /\ [][PullNext]_pullVars

=============================================================================
