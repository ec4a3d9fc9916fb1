---------------------------- MODULE FileTransfer ----------------------------
(***************************************************************************)
(* One file offered by one client and pulled by others: the sender's and   *)
(* the receivers' records of FileTransferManager, the frames between them, *)
(* and the parts of the connection manager that drive both.                *)
(*                                                                         *)
(* A frame that is lost is one that is never delivered.  Chunk and         *)
(* COMPLETE frames stay in net once they are sent: a restarted stream      *)
(* sends them again, and copies of a frame are not told apart.  Every      *)
(* other frame is delivered at most once (the replay cache refuses a       *)
(* repeated one).  Deadlines are steps that may be taken at any time.      *)
(***************************************************************************)
EXTENDS Naturals, FiniteSets

CONSTANTS
  Receivers,        \* the clients the file is offered to
  NoOne,            \* the stream is addressed to nobody yet
  Total,            \* number of chunks of the file
  Budget,           \* ROOM_FILE_CHUNK_BUDGET: chunks per turn of the pump
  MaxAutoResume,    \* MAX_AUTO_RESUME
  Kinds,            \* the ways of sharing that are looked at
  Faults,           \* what may go wrong, see AllFaults
  MaxRestarts       \* bound on process restarts

AllKinds == {"directSmall", "directLarge", "roomSmall", "roomLarge"}

AllFaults ==
  {"source", "disk", "giveup", "age", "revoke", "cancel", "again", "gc"}

ASSUME SizesAssumption ==
  /\ Total \in Nat \ {0}
  /\ Budget \in Nat \ {0}
  /\ MaxAutoResume \in Nat
  /\ MaxRestarts \in Nat

ASSUME KindsAssumption == Kinds \subseteq AllKinds /\ Faults \subseteq AllFaults

ASSUME ReceiversAssumption ==
  /\ IsFiniteSet(Receivers)
  /\ NoOne \notin Receivers
  /\ (Kinds \cap {"directSmall", "directLarge"} # {} =>
        \E r \in Receivers : Receivers = {r})

VARIABLES
  kind,         \* how this file is shared
  source,       \* the sender's file: "ok", "changed" since hashed, or "gone"
  prep,         \* the offer being hashed: "idle", "hashing", "withdrawn", "done"
  oState,       \* OutboundTransfer.state, "none" without a record
  sent,         \* OutboundTransfer.chunks_sent
  to,           \* OutboundTransfer.to (the peer, for a 1:1 send)
  stalled,      \* OutboundTransfer.stalled_since is set
  aged,         \* the offer is older than OFFER_TTL_SECS
  revoked,      \* the id is in FileTransferManager.revoked
  inState,      \* InboundTransfer.state, "none" without a record
  stored,       \* what each received chunk holds
  attempts,     \* InboundTransfer.resume_attempts
  resumable,    \* InboundTransfer.resumable
  complete,     \* InboundTransfer.complete_requested
  part,         \* the .part file: "none", "open", "closed" or "orphan"
  saved,        \* receivers whose file was published under its final name
  hashing,      \* receivers whose hash runs on a blocking thread
  net,          \* frames handed to a transport
  restarts

senderVars == <<prep, oState, sent, to, stalled, aged, revoked>>
recvVars ==
  <<inState, stored, attempts, resumable, complete, part, saved, hashing>>
vars == <<kind, source, senderVars, recvVars, net, restarts>>

Chunks == 0..(Total - 1)
Room == kind \in {"roomSmall", "roomLarge"}
Inline == kind = "directSmall"                       \* TransferSource::Inline
Memory == kind \in {"directSmall", "roomSmall"}      \* TransferSink::Memory

States == {"pending", "transferring", "verifying", "complete", "failed",
           "rejected", "cancelled"}
FromStart == Total + 1      \* an accept without resume_from

Msg ==
  [type : {"offer", "complete", "ack", "error", "reject", "refuse"},
   peer : Receivers]
  \cup [type : {"accept"}, peer : Receivers, from : (0..Total) \cup {FromStart}]
  \cup [type : {"chunk"}, peer : Receivers, index : Chunks, data : {"ok", "bad"}]

M(t, r) == [type |-> t, peer |-> r]
AcceptMsg(r, i) == [type |-> "accept", peer |-> r, from |-> i]
ChunkMsg(r, i) ==
  [type |-> "chunk", peer |-> r, index |-> i,
   data |-> IF source = "ok" \/ Inline THEN "ok" ELSE "bad"]

Empty == [c \in Chunks |-> "no"]

Init ==
  /\ kind \in Kinds
  /\ source = "ok"
  /\ prep = "idle" /\ oState = "none" /\ sent = 0 /\ to = NoOne
  /\ stalled = FALSE /\ aged = FALSE /\ revoked = FALSE
  /\ inState = [r \in Receivers |-> "none"]
  /\ stored = [r \in Receivers |-> Empty]
  /\ attempts = [r \in Receivers |-> 0]
  /\ resumable = [r \in Receivers |-> FALSE]
  /\ complete = [r \in Receivers |-> FALSE]
  /\ part = [r \in Receivers |-> "none"]
  /\ saved = {} /\ hashing = {}
  /\ net = {}
  /\ restarts = 0

-----------------------------------------------------------------------------
(* The sender: preparing, offering and withdrawing                         *)

(* ConnectionCommand::SendFile / SendSfuFile: the file is hashed off the   *)
(* manager's loop.                                                         *)
SendFile ==
  /\ prep = "idle"
  /\ prep' = "hashing"
  /\ UNCHANGED <<kind, source, oState, sent, to, stalled, aged, revoked,
                 recvVars, net, restarts>>

(* offer_prepared: the record and the OFFER, unless the offer was          *)
(* withdrawn while it was hashed or the file could not be read.            *)
OfferPrepared ==
  /\ prep \in {"hashing", "withdrawn"}
  /\ prep' = "done"
  /\ \/ /\ prep = "hashing"
        /\ oState' = "pending"
        /\ net' = net \cup {M("offer", r) : r \in Receivers}
     \/ /\ prep = "withdrawn" \/ "source" \in Faults
        /\ UNCHANGED <<oState, net>>
  /\ UNCHANGED <<kind, source, sent, to, stalled, aged, revoked, recvVars,
                 restarts>>

(* The outbound record is gone; rev: its id is remembered as revoked.      *)
DropOffer(rev) ==
  /\ oState' = "none" /\ revoked' = rev
  /\ sent' = 0 /\ to' = NoOne /\ stalled' = FALSE /\ aged' = FALSE

(* RevokeFile: the sender deleted the message.  Only a room is told.       *)
Revoke ==
  /\ "revoke" \in Faults
  /\ \/ /\ prep = "hashing"
        /\ prep' = "withdrawn"
        /\ UNCHANGED <<oState, sent, to, stalled, aged, revoked, net>>
     \/ /\ prep # "hashing" /\ oState # "none"
        /\ DropOffer(TRUE)
        /\ net' = net \cup (IF Room THEN {M("refuse", r) : r \in Receivers}
                                    ELSE {})
        /\ UNCHANGED prep
  /\ UNCHANGED <<kind, source, recvVars, restarts>>

(* The offer outlives OFFER_TTL_SECS; a stream that runs goes on.          *)
OfferAges ==
  /\ "age" \in Faults /\ oState # "none" /\ ~aged
  /\ aged' = TRUE
  /\ UNCHANGED <<kind, source, prep, oState, sent, to, stalled, revoked,
                 recvVars, net, restarts>>

(* gc: a live stream only when idle, a finished inline payload soon, any   *)
(* other record with its offer.                                            *)
GcOutbound ==
  /\ "gc" \in Faults /\ oState # "none"
  /\ \/ oState = "transferring"
     \/ Inline /\ oState # "pending"
     \/ aged
  /\ DropOffer(TRUE)
  /\ UNCHANGED <<kind, source, prep, recvVars, net, restarts>>

(* gc: revoked ids are kept for OFFER_TTL_SECS.                            *)
GcRevoked ==
  /\ "gc" \in Faults /\ revoked
  /\ revoked' = FALSE
  /\ UNCHANGED <<kind, source, prep, oState, sent, to, stalled, aged,
                 recvVars, net, restarts>>

(* The user edits or deletes the file after it was hashed; a path-backed   *)
(* source is read from disk chunk by chunk.                                *)
SourceChanges ==
  /\ "source" \in Faults /\ oState # "none" /\ source = "ok"
  /\ source' \in {"changed", "gone"}
  /\ UNCHANGED <<kind, senderVars, recvVars, net, restarts>>

(* Outbound records live in memory.  The id is then unknown, not revoked.  *)
SenderRestarts ==
  /\ restarts < MaxRestarts /\ oState # "none"
  /\ restarts' = restarts + 1
  /\ DropOffer(FALSE)
  /\ UNCHANGED <<kind, source, prep, recvVars, net>>

-----------------------------------------------------------------------------
(* The sender: streaming                                                   *)

(* next_chunk_events: one turn sends chunks s to LastOfTurn(s, b) - 1, and *)
(* COMPLETE after the last chunk of the file.                              *)
LastOfTurn(s, b) == IF s + b < Total THEN s + b ELSE Total

Readable == source # "gone" \/ Inline

(* note_send_stalled, note_send_progress: a turn that was not taken whole  *)
(* starts or continues a stall, which may end in STALL_GIVE_UP_SECS.       *)
NoteSend(taken, progressed, done, wasStalled) ==
  /\ stalled' = IF taken THEN wasStalled /\ ~progressed ELSE TRUE
  /\ \/ oState' = IF done THEN "complete" ELSE "transferring"
     \/ /\ "giveup" \in Faults /\ ~taken /\ wasStalled
        /\ oState' = "failed"

\* Mutant: refused chunks stay counted (no unsend_chunks).
DispatchCounting(r, s, last, wasStalled, others) ==
  \E n \in s..last :
    /\ sent' = last
    /\ net' = others \cup {ChunkMsg(r, i) : i \in s..(n - 1)}
    /\ NoteSend(n = last, n # s, FALSE, wasStalled)

\* Mutant: the stream is over once COMPLETE was tried.
DispatchTryingOnce(r, s, last, wasStalled, others) ==
  \E done \in BOOLEAN :
    /\ done => last = Total
    /\ sent' = last
    /\ net' = others \cup {ChunkMsg(r, i) : i \in s..(last - 1)}
                \cup (IF done THEN {M("complete", r)} ELSE {})
    /\ NoteSend(TRUE, TRUE, last = Total, wasStalled)

(* dispatch_transfer_events, dispatch_room_transfer_events: the transport  *)
(* takes the first n chunks of the turn and perhaps COMPLETE; those after  *)
(* a refused one are uncounted (unsend_chunks).                            *)
Dispatch(r, s, last, wasStalled, others) ==
  \E n \in s..last, done \in BOOLEAN :
    /\ done => n = Total
    /\ sent' = n
    /\ net' = others \cup {ChunkMsg(r, i) : i \in s..(n - 1)}
                \cup (IF done THEN {M("complete", r)} ELSE {})
    /\ NoteSend(n = last /\ (last = Total => done), n # s, done, wasStalled)

(* A turn of a stream from chunk s on; a source that cannot be read fails  *)
(* it. It is readable for a whole turn or not at all: a file truncated     *)
(* under a turn fails the next one.                                        *)
Emit(r, s, b, wasStalled, others) ==
  \/ /\ ~Readable /\ s < LastOfTurn(s, b)
     /\ oState' = "failed"
     /\ sent' = s /\ stalled' = wasStalled /\ net' = others
  \/ /\ Readable \/ s = LastOfTurn(s, b)
     /\ Dispatch(r, s, LastOfTurn(s, b), wasStalled, others)

(* pump_stream, every tick.                                                *)
Pump ==
  /\ oState = "transferring"
  /\ Emit(to, sent, Budget, stalled, net)
  /\ UNCHANGED <<kind, source, prep, to, aged, revoked, recvVars, restarts>>

Withdrawn == revoked \/ (oState # "none" /\ aged)

(* on_transfer_accepted_from: a 1:1 accept without resume_from starts only *)
(* a pending offer.                                                        *)
MayStart(from) == Room \/ from # FromStart \/ oState = "pending"

(* restart_outbound: a resume starts at the chunk it names, a room request *)
(* without one starts over.                                                *)
StartsAt(from) == IF from # FromStart THEN from ELSE IF Room THEN 0 ELSE sent

(* FileTransferAccept of a 1:1 file and SfuFileRequest of a room file,     *)
(* whose handlers do the same: an offer that is gone is refused, one this  *)
(* process never held is not answered.                                     *)
AcceptArrives(r) ==
  \E m \in net :
    /\ m.type = "accept" /\ m.peer = r
    /\ \/ /\ Withdrawn
          /\ net' = (net \ {m}) \cup {M("refuse", r)}
          /\ UNCHANGED <<oState, sent, to, stalled>>
       \/ /\ ~Withdrawn /\ (oState = "none" \/ ~MayStart(m.from))
          /\ net' = net \ {m}
          /\ UNCHANGED <<oState, sent, to, stalled>>
       \/ /\ ~Withdrawn /\ oState # "none" /\ MayStart(m.from)
          /\ to' = r
          /\ Emit(r, StartsAt(m.from), IF Inline THEN Total ELSE Budget, FALSE,
                  net \ {m})
    /\ UNCHANGED <<kind, source, prep, aged, revoked, recvVars, restarts>>

(* on_transfer_ack, on_transfer_error, on_transfer_rejected                *)
Answered(t) ==
  CASE t = "ack" -> "complete" [] t = "error" -> "failed"
    [] t = "reject" -> "rejected"

(* ACK, ERROR and REJECT of a 1:1 transfer move the sender's record,       *)
(* whatever its state is.                                                  *)
AnswerArrives(r) ==
  \E t \in {"ack", "error", "reject"} :
    /\ M(t, r) \in net
    /\ net' = net \ {M(t, r)}
    /\ oState' = IF oState = "none" THEN "none" ELSE Answered(t)
    /\ UNCHANGED <<kind, source, prep, sent, to, stalled, aged, revoked,
                   recvVars, restarts>>

(* cancel_transfer of an outbound record: the receiver is not told.        *)
CancelSend ==
  /\ "cancel" \in Faults /\ ~Room
  /\ oState \in {"pending", "transferring"}
  /\ oState' = "cancelled"
  /\ UNCHANGED <<kind, source, prep, sent, to, stalled, aged, revoked,
                 recvVars, net, restarts>>

-----------------------------------------------------------------------------
(* The receiver                                                            *)

Hole(r) == \E c \in Chunks : stored[r][c] = "no"
FirstMissing(r, c) ==
  /\ stored[r][c] = "no"
  /\ \A d \in Chunks : d < c => stored[r][d] # "no"
Held(r) == inState[r] = "failed" /\ resumable[r]
OnDisk(r) == part[r] \in {"open", "closed"}

(* Only a 1:1 transfer answers its sender with a frame.                    *)
Answer(t, r) == IF Room THEN {} ELSE {M(t, r)}

(* on_offer_received_with_room: a record that waits for the user, with a   *)
(* .part file when the payload does not stay in memory.                    *)
OfferArrives(r) ==
  /\ M("offer", r) \in net
  /\ \/ /\ inState' = [inState EXCEPT ![r] = "pending"]
        /\ stored' = [stored EXCEPT ![r] = Empty]
        /\ attempts' = [attempts EXCEPT ![r] = 0]
        /\ resumable' = [resumable EXCEPT ![r] = FALSE]
        /\ complete' = [complete EXCEPT ![r] = FALSE]
        /\ part' = [part EXCEPT ![r] = IF Memory THEN @ ELSE "open"]
        /\ net' = net \ {M("offer", r)}
     \/ /\ "disk" \in Faults /\ ~Memory
        /\ net' = (net \ {M("offer", r)}) \cup Answer("reject", r)
        /\ UNCHANGED <<inState, stored, attempts, resumable, complete, part>>
  /\ UNCHANGED <<kind, source, senderVars, saved, hashing, restarts>>

(* AcceptFile.  A room request goes out whatever the record's state is, so *)
(* accepting again asks for the whole file again.                          *)
Accept(r) ==
  /\ \/ inState[r] = "pending"
     \/ Room /\ inState[r] # "none" /\ "again" \in Faults
  /\ inState' = [inState EXCEPT ![r] = IF @ = "pending" THEN "transferring"
                                                        ELSE @]
  /\ net' = net \cup {AcceptMsg(r, FromStart)}
  /\ UNCHANGED <<kind, source, senderVars, stored, attempts, resumable,
                 complete, part, saved, hashing, restarts>>

\* Mutant: one automatic resume too many.
StallOnceMore(r) ==
  /\ inState[r] = "transferring"
  /\ \E c \in Chunks :
       /\ FirstMissing(r, c)
       /\ attempts[r] <= MaxAutoResume
       /\ attempts' = [attempts EXCEPT ![r] = @ + 1]
       /\ net' = net \cup {AcceptMsg(r, c)}
  /\ UNCHANGED <<kind, source, senderVars, inState, resumable, stored,
                 complete, part, saved, hashing, restarts>>

\* Mutant: every quiet pull is given up, holes or not.
StallWhole(r) ==
  /\ inState[r] = "transferring"
  /\ inState' = [inState EXCEPT ![r] = "failed"]
  /\ resumable' = [resumable EXCEPT ![r] = TRUE]
  /\ UNCHANGED <<kind, source, senderVars, stored, attempts, complete, part,
                 saved, hashing, net, restarts>>

(* take_stalled_inbound: a quiet pull with a hole asks again from the      *)
(* first missing chunk, MaxAutoResume times; then it waits for Retry.      *)
Stall(r) ==
  /\ inState[r] = "transferring"
  /\ \E c \in Chunks :
       /\ FirstMissing(r, c)
       /\ IF attempts[r] >= MaxAutoResume
          THEN /\ inState' = [inState EXCEPT ![r] = "failed"]
               /\ resumable' = [resumable EXCEPT ![r] = TRUE]
               /\ UNCHANGED <<attempts, net>>
          ELSE /\ attempts' = [attempts EXCEPT ![r] = @ + 1]
               /\ net' = net \cup {AcceptMsg(r, c)}
               /\ UNCHANGED <<inState, resumable>>
  /\ UNCHANGED <<kind, source, senderVars, stored, complete, part, saved,
                 hashing, restarts>>

(* arm_retry: the user asks for another cycle.                             *)
Retry(r) ==
  /\ Held(r)
  /\ inState' = [inState EXCEPT ![r] = "transferring"]
  /\ resumable' = [resumable EXCEPT ![r] = FALSE]
  /\ attempts' = [attempts EXCEPT ![r] = 0]
  /\ \E c \in Chunks :
       /\ FirstMissing(r, c) \/ (~Hole(r) /\ c = 0)
       /\ net' = net \cup {AcceptMsg(r, c)}
  /\ UNCHANGED <<kind, source, senderVars, stored, complete, part, saved,
                 hashing, restarts>>

\* Mutant: the partial file is forgotten.
FailKeepingPart(r) ==
  /\ inState' = [inState EXCEPT ![r] = "failed"]
  /\ net' = net \cup Answer("error", r)
  /\ UNCHANGED part

(* fail_inbound: a hard failure deletes the partial and tells the sender.  *)
(* The deletion succeeds.                                                  *)
FailInbound(r) ==
  /\ inState' = [inState EXCEPT ![r] = "failed"]
  /\ part' = [part EXCEPT ![r] = IF OnDisk(r) THEN "none" ELSE @]
  /\ net' = net \cup Answer("error", r)

Publish(r) ==
  /\ inState' = [inState EXCEPT ![r] = "complete"]
  /\ saved' = saved \cup {r}
  /\ part' = [part EXCEPT ![r] = IF Memory THEN @ ELSE "none"]
  /\ net' = net \cup Answer("ack", r)

(* finish_streaming: the .part file is closed and hashed on another thread.*)
FinishStreaming(r) ==
  \/ /\ inState' = [inState EXCEPT ![r] = "verifying"]
     /\ part' = [part EXCEPT ![r] = "closed"]
     /\ hashing' = hashing \cup {r}
     /\ UNCHANGED <<saved, net>>
  \/ /\ "disk" \in Faults
     /\ FailInbound(r)
     /\ UNCHANGED <<saved, hashing>>

(* finish_inbound with every chunk of got stored: a payload in memory is   *)
(* checked at once. A payload that does not decompress fails as one with a *)
(* wrong hash does.                                                        *)
Finish(r, got) ==
  \/ /\ Memory /\ \A c \in Chunks : got[c] = "ok"
     /\ Publish(r)
     /\ UNCHANGED hashing
  \/ /\ Memory /\ \E c \in Chunks : got[c] # "ok"
     /\ FailInbound(r)
     /\ UNCHANGED <<saved, hashing>>
  \/ ~Memory /\ FinishStreaming(r)

(* store_chunk: a chunk that is there is not overwritten.                  *)
StoreChunk(r, i, d) == [stored[r] EXCEPT ![i] = IF @ = "no" THEN d ELSE @]

(* on_chunk_bytes_received. A chunk, new or not, ends a wait for Retry;    *)
(* the last one finishes the transfer when COMPLETE came before it. Frames *)
(* that are malformed (an index out of range, bad base64), which fail the  *)
(* transfer, are not sent by this program and left out.                    *)
ChunkArrives(r, i) ==
  \E m \in net :
    /\ m.type = "chunk" /\ m.peer = r /\ m.index = i
    /\ inState[r] = "transferring" \/ Held(r)
    /\ LET new == stored[r][i] = "no"
           got == StoreChunk(r, i, m.data)
       IN /\ stored' = [stored EXCEPT ![r] = got]
          /\ attempts' = [attempts EXCEPT ![r] = IF new \/ Held(r) THEN 0
                                                                   ELSE @]
          /\ resumable' = [resumable EXCEPT ![r] = FALSE]
          /\ IF new /\ complete[r] /\ \A c \in Chunks : got[c] # "no"
             THEN Finish(r, got)
             ELSE /\ inState' = [inState EXCEPT ![r] = "transferring"]
                  /\ UNCHANGED <<part, saved, hashing, net>>
    /\ UNCHANGED <<kind, source, senderVars, complete, restarts>>

(* on_complete_received, which may overtake the chunks it follows.         *)
CompleteArrives(r) ==
  /\ M("complete", r) \in net
  /\ inState[r] = "transferring" \/ Held(r)
  /\ attempts' = [attempts EXCEPT ![r] = IF Held(r) THEN 0 ELSE @]
  /\ resumable' = [resumable EXCEPT ![r] = FALSE]
  /\ IF Hole(r)
     THEN /\ complete' = [complete EXCEPT ![r] = TRUE]
          /\ inState' = [inState EXCEPT ![r] = "transferring"]
          /\ UNCHANGED <<part, saved, hashing, net>>
     ELSE Finish(r, stored[r]) /\ UNCHANGED complete
  /\ UNCHANGED <<kind, source, senderVars, stored, restarts>>

\* Mutant: the result counts for a transfer that was cancelled meanwhile.
FileHashedLate(r) ==
  /\ r \in hashing
  /\ hashing' = hashing \ {r}
  /\ IF \A c \in Chunks : stored[r][c] = "ok"
     THEN Publish(r)
     ELSE FailInbound(r) /\ UNCHANGED saved
  /\ UNCHANGED <<kind, source, senderVars, stored, attempts, resumable,
                 complete, restarts>>

(* on_file_hashed: the result counts only for a transfer that still        *)
(* verifies.  The rename to the final name may fail.                       *)
FileHashed(r) ==
  /\ r \in hashing
  /\ hashing' = hashing \ {r}
  /\ \/ /\ inState[r] # "verifying"
        /\ UNCHANGED <<inState, part, saved, net>>
     \/ /\ inState[r] = "verifying"
        /\ \A c \in Chunks : stored[r][c] = "ok"
        /\ Publish(r)
     \/ /\ inState[r] = "verifying"
        /\ \/ \E c \in Chunks : stored[r][c] # "ok"
           \/ "disk" \in Faults
        /\ FailInbound(r)
        /\ UNCHANGED saved
  /\ UNCHANGED <<kind, source, senderVars, stored, attempts, resumable,
                 complete, restarts>>

(* The inbound record is gone.                                             *)
DropRecord(r) ==
  /\ inState' = [inState EXCEPT ![r] = "none"]
  /\ stored' = [stored EXCEPT ![r] = Empty]
  /\ attempts' = [attempts EXCEPT ![r] = 0]
  /\ resumable' = [resumable EXCEPT ![r] = FALSE]
  /\ complete' = [complete EXCEPT ![r] = FALSE]

(* The refusal of a withdrawn offer.  In a room it discards the record;    *)
(* a 1:1 FileTransferError is looked up among the outbound records only.   *)
RefuseArrives(r) ==
  /\ M("refuse", r) \in net
  /\ net' = net \ {M("refuse", r)}
  /\ IF Room
     THEN /\ DropRecord(r)
          /\ part' = [part EXCEPT ![r] = IF OnDisk(r) THEN "none" ELSE @]
     ELSE UNCHANGED <<inState, stored, attempts, resumable, complete, part>>
  /\ UNCHANGED <<kind, source, senderVars, saved, hashing, restarts>>

(* DeclineRoomFile, and gc of an inbound record: finished, idle or never   *)
(* accepted.  The record and its .part file go together.                   *)
Discard(r) ==
  /\ "gc" \in Faults \/ (Room /\ "cancel" \in Faults)
  /\ inState[r] # "none"
  /\ DropRecord(r)
  /\ part' = [part EXCEPT ![r] = IF OnDisk(r) THEN "none" ELSE @]
  /\ UNCHANGED <<kind, source, senderVars, saved, hashing, net, restarts>>

(* cancel_transfer of an inbound record; a pending one is rejected.        *)
Cancel(r) ==
  /\ "cancel" \in Faults /\ ~Room
  /\ \/ /\ inState[r] = "pending"
        /\ inState' = [inState EXCEPT ![r] = "rejected"]
        /\ net' = net \cup {M("reject", r)}
     \/ /\ inState[r] \in {"transferring", "verifying"}
        /\ inState' = [inState EXCEPT ![r] = "cancelled"]
        /\ net' = net \cup {M("error", r)}
  /\ UNCHANGED <<kind, source, senderVars, stored, attempts, resumable,
                 complete, part, saved, hashing, restarts>>

(* RejectFile has no guard on the state.                                   *)
Reject(r) ==
  /\ "cancel" \in Faults /\ ~Room
  /\ inState[r] # "none"
  /\ inState' = [inState EXCEPT ![r] = "rejected"]
  /\ net' = net \cup {M("reject", r)}
  /\ UNCHANGED <<kind, source, senderVars, stored, attempts, resumable,
                 complete, part, saved, hashing, restarts>>

(* Inbound records live in memory; nothing looks for .part files at start. *)
ReceiverRestarts(r) ==
  /\ restarts < MaxRestarts /\ inState[r] # "none"
  /\ restarts' = restarts + 1
  /\ DropRecord(r)
  /\ part' = [part EXCEPT ![r] = IF OnDisk(r) THEN "orphan" ELSE @]
  /\ hashing' = hashing \ {r}
  /\ UNCHANGED <<kind, source, senderVars, saved, net>>

-----------------------------------------------------------------------------
Next ==
  \/ SendFile \/ OfferPrepared \/ Revoke \/ OfferAges \/ GcOutbound
  \/ GcRevoked \/ SourceChanges \/ SenderRestarts \/ Pump \/ CancelSend
  \/ \E r \in Receivers :
       \/ AcceptArrives(r) \/ AnswerArrives(r) \/ OfferArrives(r) \/ Accept(r)
       \/ Stall(r) \/ Retry(r) \/ CompleteArrives(r)
       \/ \E i \in Chunks : ChunkArrives(r, i)
       \/ FileHashed(r) \/ RefuseArrives(r) \/ Discard(r) \/ Cancel(r)
       \/ Reject(r) \/ ReceiverRestarts(r)

Spec == Init /\ [][Next]_vars

(* A turn of the pump whose frames were all taken.                         *)
PumpTaken == Pump /\ (oState' = "complete" \/ ~stalled')

(* The stall check runs on a timer, the manager handles every frame that   *)
(* reaches it, and a transport or quota that refuses a frame does not      *)
(* refuse it for ever.                                                     *)
Fairness ==
  /\ SF_vars(PumpTaken)
  /\ \A r \in Receivers :
       /\ WF_vars(Stall(r)) /\ WF_vars(AcceptArrives(r))
       /\ \A i \in Chunks : WF_vars(ChunkArrives(r, i))
       /\ WF_vars(CompleteArrives(r))
       /\ WF_vars(FileHashed(r))

FairSpec == Spec /\ Fairness

-----------------------------------------------------------------------------
TypeOK ==
  /\ kind \in Kinds
  /\ source \in {"ok", "changed", "gone"}
  /\ prep \in {"idle", "hashing", "withdrawn", "done"}
  /\ oState \in States \cup {"none"}
  /\ sent \in 0..Total
  /\ to \in Receivers \cup {NoOne}
  /\ stalled \in BOOLEAN /\ aged \in BOOLEAN /\ revoked \in BOOLEAN
  /\ inState \in [Receivers -> States \cup {"none"}]
  /\ stored \in [Receivers -> [Chunks -> {"no", "ok", "bad"}]]
  /\ attempts \in [Receivers -> 0..MaxAutoResume]
  /\ resumable \in [Receivers -> BOOLEAN]
  /\ complete \in [Receivers -> BOOLEAN]
  /\ part \in [Receivers -> {"none", "open", "closed", "orphan"}]
  /\ saved \subseteq Receivers /\ hashing \subseteq Receivers
  /\ net \subseteq Msg
  /\ restarts \in 0..MaxRestarts

(* A pull that waits for Retry can be resumed: its .part file is there     *)
(* with the writer open, a chunk is missing and no hash is running, however*)
(* late chunks, COMPLETE, refusals, cancels and restarts interleave.       *)
HeldIsResumable ==
  \A r \in Receivers :
    Held(r) => /\ Memory \/ part[r] = "open"
               /\ Hole(r)
               /\ r \notin hashing

(* A .part file has an owner that will use or delete it: an inbound record *)
(* that is not a hard failure.  Only a process restart leaves one behind.  *)
PartOwned ==
  \A r \in Receivers :
    /\ OnDisk(r) => /\ inState[r] \notin {"none", "complete"}
                    /\ inState[r] = "failed" => resumable[r]
    /\ inState[r] = "verifying" => part[r] = "closed" /\ r \in hashing

(* A frame the transport refused is not counted as sent: the chunks below  *)
(* chunks_sent are on their way to the receiver being served, or stored.   *)
NoSilentHole ==
  oState \in {"transferring", "complete"} /\ to # NoOne
  /\ inState[to] # "none" =>
    \A c \in Chunks :
      c < sent =>
        \/ stored[to][c] # "no"
        \/ \E m \in net : m.type = "chunk" /\ m.peer = to /\ m.index = c

(* Where nothing but refused frames goes wrong and the file has one        *)
(* receiver, a file that was accepted arrives: refused chunks and a        *)
(* refused COMPLETE are sent again. (A second receiver of a room file      *)
(* takes the stream over, and the first may be left without COMPLETE.)     *)
Delivered ==
  \A r \in Receivers :
    (inState[r] = "transferring") ~> (inState[r] = "complete")

(* The promise to the person downloading, see FilePull.                    *)
Phase(r) ==
  CASE inState[r] = "none" -> "none"
    [] inState[r] = "pending" -> "offered"
    [] inState[r] = "transferring" -> "active"
    [] inState[r] = "verifying" -> "checking"
    [] inState[r] = "complete" -> "done"
    [] inState[r] = "failed" -> IF resumable[r] THEN "held" ELSE "over"
    [] OTHER -> "over"

Pull == INSTANCE FilePull WITH
  phase <- [r \in Receivers |-> Phase(r)],
  have <- stored,
  published <- saved

KeepsThePromise == Pull!PullSpec

=============================================================================
