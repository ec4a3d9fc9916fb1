------------------------- MODULE FileTransferProofs -------------------------
(***************************************************************************)
(* Theorems about FileTransfer, for any receivers, any number of chunks,   *)
(* every fault and every bound: its safety invariants, and that it         *)
(* implements FilePull.                                                    *)
(***************************************************************************)
EXTENDS FileTransfer, TLAPS

(* A pull that may still take chunks.                                      *)
Taking(r) == inState[r] \in {"pending", "transferring"} \/ Held(r)

(* What ties the parts of an inbound record together.                      *)
RecordOK(r) ==
  /\ inState[r] = "none" => stored[r] = Empty
  /\ inState[r] \in {"pending", "transferring"} => ~resumable[r]
  /\ Taking(r) => r \notin hashing /\ (Memory \/ part[r] = "open")
  /\ Held(r) => Hole(r)
  /\ inState[r] = "verifying" =>
       /\ ~Memory /\ ~resumable[r] /\ ~Hole(r)
       /\ part[r] = "closed" /\ r \in hashing
  /\ Memory => ~OnDisk(r)
  /\ OnDisk(r) => /\ inState[r] \notin {"none", "complete"}
                  /\ inState[r] = "failed" => resumable[r]

(* The file is offered once, and an offer that is still on its way has not *)
(* been heard of.                                                          *)
OfferOK ==
  /\ prep # "done" =>
       /\ oState = "none" /\ sent = 0 /\ to = NoOne
       /\ net = {} /\ hashing = {} /\ \A r \in Receivers : inState[r] = "none"
  /\ \A r \in Receivers :
       M("offer", r) \in net =>
         /\ inState[r] = "none" /\ r \notin hashing /\ to # r
         /\ \A m \in net : m.type = "accept" => m.peer # r

Sent(r, c) ==
  \/ stored[r][c] # "no"
  \/ \E m \in net : m.type = "chunk" /\ m.peer = r /\ m.index = c

(* What the sender skips, the receiver has.                                *)
StreamOK ==
  /\ oState = "pending" => sent = 0
  /\ oState = "transferring" => to \in Receivers
  /\ to # NoOne /\ inState[to] # "none" =>
       \A c \in Chunks : c < sent => Sent(to, c)
  /\ \A m \in net :
       m.type = "accept" /\ m.from # FromStart /\ inState[m.peer] # "none" =>
         \A c \in Chunks : c < m.from => stored[m.peer][c] # "no"

Inv ==
  /\ TypeOK
  /\ \A r \in Receivers : RecordOK(r)
  /\ OfferOK
  /\ StreamOK

-----------------------------------------------------------------------------
(* Frames                                                                  *)

(* What a transport carries is made of what the handlers put together.     *)
LEMMA MsgTypes ==
  /\ \A t \in {"offer", "complete", "ack", "error", "reject", "refuse"},
        r \in Receivers : M(t, r) \in Msg
  /\ \A r \in Receivers, i \in (0..Total) \cup {FromStart} : AcceptMsg(r, i) \in Msg
  /\ \A r \in Receivers, i \in Chunks : ChunkMsg(r, i) \in Msg
  BY DEF M, AcceptMsg, ChunkMsg, Msg

LEMMA MsgFields ==
  ASSUME NEW m \in Msg
  PROVE  /\ m.peer \in Receivers
         /\ m.type = "accept" => m.from \in (0..Total) \cup {FromStart}
         /\ m.type = "chunk" => m.index \in Chunks /\ m.data \in {"ok", "bad"}
  BY DEF Msg

(* Frames of different types are different.                                *)
LEMMA MsgKinds ==
  /\ \A t, r : M(t, r).type = t /\ M(t, r).peer = r
  /\ \A r, i : /\ AcceptMsg(r, i).type = "accept" /\ AcceptMsg(r, i).peer = r
               /\ AcceptMsg(r, i).from = i
  /\ \A r, i : /\ ChunkMsg(r, i).type = "chunk" /\ ChunkMsg(r, i).peer = r
               /\ ChunkMsg(r, i).index = i
  /\ \A t, r, q, i : t # "accept" => M(t, r) # AcceptMsg(q, i)
  /\ \A t, r, q, i : t # "chunk" => M(t, r) # ChunkMsg(q, i)
  /\ \A t, u, r, q : t # u => M(t, r) # M(u, q)
  BY DEF M, AcceptMsg, ChunkMsg

(* A step that changes no inbound record keeps what ties its parts.        *)
LEMMA RecordFrame ==
  ASSUME NEW r \in Receivers, RecordOK(r),
         UNCHANGED <<kind, inState, stored, resumable, part, hashing>>
  PROVE  RecordOK(r)'
  BY DEF RecordOK, Taking, Held, Hole, OnDisk, Memory, Empty

(* Nor do the records of the other receivers change.                       *)
LEMMA RecordOthers ==
  ASSUME TypeOK, NEW r \in Receivers, NEW q \in Receivers, q # r, RecordOK(q),
         UNCHANGED kind,
         inState'[q] = inState[q], stored'[q] = stored[q],
         resumable'[q] = resumable[q], part'[q] = part[q],
         q \in hashing' <=> q \in hashing
  PROVE  RecordOK(q)'
  BY DEF RecordOK, Taking, Held, Hole, OnDisk, Memory, Empty

-----------------------------------------------------------------------------
(* The initial states                                                      *)

LEMMA InitOK == Init => Inv
  <1> SUFFICES ASSUME Init PROVE Inv
    OBVIOUS
  <1>1. TypeOK
    <2>1. 0 \in 0..Total /\ 0 \in 0..MaxAutoResume /\ 0 \in 0..MaxRestarts
      BY SizesAssumption
    <2>2. Empty \in [Chunks -> {"no", "ok", "bad"}]
      BY DEF Empty
    <2> QED
      BY <2>1, <2>2 DEF Init, TypeOK
  <1>2. \A r \in Receivers : RecordOK(r)
    BY DEF Init, RecordOK, Taking, Held, Hole, OnDisk, Empty
  <1>3. OfferOK
    BY DEF Init, OfferOK
  <1>4. StreamOK
    BY DEF Init, StreamOK
  <1> QED
    BY <1>1, <1>2, <1>3, <1>4 DEF Inv

-----------------------------------------------------------------------------
(* The sender's steps                                                      *)

LEMMA SendFileStep == ASSUME Inv, SendFile PROVE Inv'
  <1>1. TypeOK'
    BY DEF Inv, SendFile, TypeOK, recvVars
  <1>2. \A r \in Receivers : RecordOK(r)'
    BY RecordFrame DEF Inv, SendFile, recvVars
  <1>3. OfferOK' /\ StreamOK'
    BY DEF Inv, SendFile, OfferOK, StreamOK, Sent, Chunks, recvVars, TypeOK
  <1> QED
    BY <1>1, <1>2, <1>3 DEF Inv

LEMMA OfferPreparedStep == ASSUME Inv, OfferPrepared PROVE Inv'
  <1>1. TypeOK'
    BY MsgTypes DEF Inv, OfferPrepared, TypeOK, recvVars, States
  <1>2. \A r \in Receivers : RecordOK(r)'
    BY RecordFrame DEF Inv, OfferPrepared, recvVars
  <1>3. OfferOK'
    BY MsgKinds, ReceiversAssumption DEF Inv, OfferPrepared, OfferOK, recvVars
  <1>4. StreamOK'
    BY MsgKinds DEF Inv, OfferPrepared, OfferOK, StreamOK, recvVars
  <1> QED
    BY <1>1, <1>2, <1>3, <1>4 DEF Inv

(* A step that offers nothing, and makes nobody ask whose offer has not    *)
(* arrived, leaves the offers on their way unheard of.                     *)
LEMMA OfferKept ==
  ASSUME Inv, prep = "done", prep' = prep,
         \A r \in Receivers : M("offer", r) \in net' =>
           /\ M("offer", r) \in net
           /\ inState'[r] = inState[r]
           /\ r \in hashing' => r \in hashing
           /\ to' = to \/ to' # r
           /\ \A m \in net' : m.type = "accept" /\ m.peer = r => m \in net
  PROVE  OfferOK'
  BY DEF Inv, OfferOK, M

(* A step of the sender that only drops its record, or only takes frames   *)
(* out or puts frames in that are neither offers nor requests.             *)
LEMMA SenderFrame ==
  ASSUME Inv, prep = "done", prep' = prep, UNCHANGED recvVars,
         to' = to \/ to' = NoOne, sent' = sent \/ sent' = 0, UNCHANGED kind,
         oState' = "pending" => oState = "pending",
         oState' = "transferring" => oState = "transferring" /\ to' = to,
         \A m \in net' : m.type \in {"offer", "accept"} => m \in net,
         \A m \in net : m.type = "chunk" => m \in net'
  PROVE  (\A r \in Receivers : RecordOK(r)') /\ OfferOK' /\ StreamOK'
  <1>1. \A r \in Receivers : RecordOK(r)'
    BY RecordFrame DEF Inv, recvVars
  <1>2. OfferOK'
    BY OfferKept, MsgKinds, ReceiversAssumption DEF recvVars
  <1>3. StreamOK'
    BY SizesAssumption DEF Inv, TypeOK, StreamOK, Sent, Chunks, recvVars
  <1> QED
    BY <1>1, <1>2, <1>3

(* Dropping the record leaves the sender's variables of their types.       *)
LEMMA DropOfferTypes ==
  ASSUME Inv, NEW rev \in BOOLEAN, DropOffer(rev)
  PROVE  /\ sent' \in 0..Total /\ oState' \in States \cup {"none"}
         /\ to' \in Receivers \cup {NoOne}
         /\ stalled' \in BOOLEAN /\ aged' \in BOOLEAN /\ revoked' \in BOOLEAN
  <1>1. 0 \in 0..Total
    BY SizesAssumption
  <1> QED
    BY <1>1 DEF DropOffer

LEMMA RevokeStep == ASSUME Inv, Revoke PROVE Inv'
  <1>1. CASE prep = "hashing"
    <2>1. TypeOK'
      BY <1>1 DEF Inv, Revoke, TypeOK, recvVars
    <2>2. \A r \in Receivers : RecordOK(r)'
      BY RecordFrame DEF Inv, Revoke, recvVars
    <2>3. OfferOK' /\ StreamOK'
      BY <1>1 DEF Inv, Revoke, OfferOK, StreamOK, Sent, recvVars
    <2> QED
      BY <2>1, <2>2, <2>3 DEF Inv
  <1>2. CASE prep # "hashing"
    <2>1. prep = "done" /\ prep' = prep /\ DropOffer(TRUE)
      BY <1>2 DEF Inv, Revoke, OfferOK
    <2>2. PICK S \in SUBSET {M("refuse", r) : r \in Receivers} : net' = net \cup S
      BY <1>2 DEF Revoke
    <2>3. TypeOK'
      <3>1. net' \subseteq Msg
        BY <2>2, MsgTypes DEF Inv, TypeOK
      <3> QED
        BY <2>1, <3>1, DropOfferTypes DEF Inv, Revoke, TypeOK, recvVars
    <2> QED
      BY <2>1, <2>2, <2>3, SenderFrame, MsgKinds DEF Inv, Revoke, DropOffer
  <1> QED
    BY <1>1, <1>2

LEMMA OfferAgesStep == ASSUME Inv, OfferAges PROVE Inv'
  <1>1. TypeOK' /\ prep = "done"
    BY DEF Inv, OfferAges, OfferOK, TypeOK, recvVars
  <1> QED
    BY <1>1, SenderFrame DEF Inv, OfferAges

LEMMA GcOutboundStep == ASSUME Inv, GcOutbound PROVE Inv'
  <1>1. TypeOK' /\ prep = "done"
    BY DropOfferTypes DEF Inv, GcOutbound, OfferOK, TypeOK, recvVars
  <1> QED
    BY <1>1, SenderFrame DEF Inv, GcOutbound, DropOffer

LEMMA GcRevokedStep == ASSUME Inv, GcRevoked PROVE Inv'
  <1>1. TypeOK'
    BY DEF Inv, GcRevoked, TypeOK, recvVars
  <1>2. \A r \in Receivers : RecordOK(r)'
    BY RecordFrame DEF Inv, GcRevoked, recvVars
  <1>3. OfferOK' /\ StreamOK'
    BY DEF Inv, GcRevoked, OfferOK, StreamOK, Sent, recvVars
  <1> QED
    BY <1>1, <1>2, <1>3 DEF Inv

LEMMA SourceChangesStep == ASSUME Inv, SourceChanges PROVE Inv'
  <1>1. TypeOK' /\ prep = "done"
    BY DEF Inv, SourceChanges, OfferOK, TypeOK, recvVars, senderVars
  <1> QED
    BY <1>1, SenderFrame DEF Inv, SourceChanges, senderVars

LEMMA SenderRestartsStep == ASSUME Inv, SenderRestarts PROVE Inv'
  <1>1. TypeOK' /\ prep = "done"
    <2>1. restarts' \in 0..MaxRestarts
      BY SizesAssumption DEF Inv, TypeOK, SenderRestarts
    <2> QED
      BY <2>1, DropOfferTypes DEF Inv, SenderRestarts, OfferOK, TypeOK, recvVars
  <1> QED
    BY <1>1, SenderFrame DEF Inv, SenderRestarts, DropOffer

LEMMA CancelSendStep == ASSUME Inv, CancelSend PROVE Inv'
  <1>1. TypeOK' /\ prep = "done"
    BY DEF Inv, CancelSend, OfferOK, TypeOK, recvVars, States
  <1> QED
    BY <1>1, SenderFrame DEF Inv, CancelSend

LEMMA AnswerArrivesStep ==
  ASSUME Inv, NEW r \in Receivers, AnswerArrives(r) PROVE Inv'
  <1>1. PICK t \in {"ack", "error", "reject"} :
          /\ M(t, r) \in net
          /\ net' = net \ {M(t, r)}
          /\ oState' = IF oState = "none" THEN "none" ELSE Answered(t)
          /\ UNCHANGED <<kind, source, prep, sent, to, stalled, aged, revoked,
                         recvVars, restarts>>
    BY DEF AnswerArrives
  <1>2. oState' \in {"none", "complete", "failed", "rejected"}
    BY <1>1 DEF Answered
  <1>3. TypeOK' /\ prep = "done"
    BY <1>1, <1>2 DEF Inv, OfferOK, TypeOK, recvVars, States
  <1> QED
    BY <1>1, <1>2, <1>3, SenderFrame, MsgKinds DEF Inv

-----------------------------------------------------------------------------
(* Streaming                                                               *)

(* One turn of a stream from chunk s on counts exactly the chunks it put   *)
(* on the wire.                                                            *)
LEMMA EmitSends ==
  ASSUME NEW r \in Receivers, NEW s \in 0..Total, NEW b \in Nat \ {0},
         NEW w \in BOOLEAN, NEW others \in SUBSET Msg, Emit(r, s, b, w, others)
  PROVE  /\ oState' \in {"transferring", "complete", "failed"}
         /\ stalled' \in BOOLEAN
         /\ sent' \in s..Total
         /\ others \subseteq net' /\ net' \subseteq Msg
         /\ \A m \in net' : m \in others \/ m.type \in {"chunk", "complete"}
         /\ \A c \in Chunks : s <= c /\ c < sent' => ChunkMsg(r, c) \in net'
  <1> DEFINE last == LastOfTurn(s, b)
  <1>1. last \in s..Total
    BY SizesAssumption DEF LastOfTurn
  <1>2. CASE ~Readable /\ oState' = "failed" /\ sent' = s /\ stalled' = w
             /\ net' = others
    BY <1>2, SizesAssumption DEF Chunks
  <1>3. CASE Dispatch(r, s, last, w, others)
    <2>1. PICK n \in s..last, done \in BOOLEAN :
            /\ sent' = n
            /\ net' = others \cup {ChunkMsg(r, i) : i \in s..(n - 1)}
                        \cup (IF done THEN {M("complete", r)} ELSE {})
            /\ NoteSend(n = last /\ (last = Total => done), n # s, done, w)
      BY <1>3 DEF Dispatch
    <2>2. oState' \in {"transferring", "complete", "failed"}
          /\ stalled' \in BOOLEAN
      BY <2>1 DEF NoteSend
    <2>3. s..(n - 1) \subseteq Chunks /\ n \in s..Total
      BY <1>1, SizesAssumption DEF Chunks
    <2>4. net' \subseteq Msg
      BY <2>1, <2>3, MsgTypes
    <2>5. \A m \in net' : m \in others \/ m.type \in {"chunk", "complete"}
      BY <2>1, MsgKinds
    <2>6. \A c \in Chunks : s <= c /\ c < n => c \in s..(n - 1)
      BY <1>1, SizesAssumption DEF Chunks
    <2> QED
      BY <2>1, <2>2, <2>3, <2>4, <2>5, <2>6
  <1> QED
    BY <1>2, <1>3 DEF Emit

(* Streaming to a receiver that has every chunk before s.                  *)
LEMMA StreamStep ==
  ASSUME Inv, prep = "done", NEW r \in Receivers, NEW s \in 0..Total,
         NEW b \in Nat \ {0}, NEW w \in BOOLEAN, NEW others \in SUBSET net,
         Emit(r, s, b, w, others),
         \A m \in net : m.type = "chunk" => m \in others,
         inState[r] # "none" => \A c \in Chunks : c < s => Sent(r, c),
         M("offer", r) \notin net, to' = r,
         UNCHANGED <<kind, source, prep, aged, revoked, recvVars, restarts>>
  PROVE  Inv'
  <1> USE DEF recvVars
  <1>1. /\ oState' \in {"transferring", "complete", "failed"}
        /\ stalled' \in BOOLEAN
        /\ sent' \in s..Total
        /\ others \subseteq net' /\ net' \subseteq Msg
        /\ \A m \in net' : m \in others \/ m.type \in {"chunk", "complete"}
        /\ \A c \in Chunks : s <= c /\ c < sent' => ChunkMsg(r, c) \in net'
    BY EmitSends DEF Inv, TypeOK
  <1>2. TypeOK'
    BY <1>1, SizesAssumption DEF Inv, TypeOK, States
  <1>3. \A q \in Receivers : RecordOK(q)'
    BY RecordFrame DEF Inv
  <1>4. OfferOK'
    BY <1>1, OfferKept, MsgKinds
  <1>5. \A c \in Chunks : inState[r] # "none" /\ c < sent' => Sent(r, c)'
    <2> SUFFICES ASSUME NEW c \in Chunks, inState[r] # "none", c < sent'
                 PROVE  Sent(r, c)'
      OBVIOUS
    <2>1. CASE c < s
      BY <2>1, <1>1 DEF Sent
    <2>2. CASE s <= c
      BY <2>2, <1>1, MsgKinds DEF Sent
    <2> QED
      BY <2>1, <2>2, SizesAssumption DEF Chunks
  <1>6. StreamOK'
    BY <1>1, <1>5 DEF Inv, StreamOK
  <1> QED
    BY <1>2, <1>3, <1>4, <1>6 DEF Inv

LEMMA PumpStep == ASSUME Inv, Pump PROVE Inv'
  <1>1. /\ prep = "done" /\ to \in Receivers /\ M("offer", to) \notin net
        /\ sent \in 0..Total /\ stalled \in BOOLEAN
    BY DEF Inv, Pump, OfferOK, StreamOK, TypeOK
  <1>2. inState[to] # "none" => \A c \in Chunks : c < sent => Sent(to, c)
    BY <1>1, ReceiversAssumption DEF Inv, StreamOK
  <1> QED
    BY <1>1, <1>2, StreamStep, SizesAssumption DEF Pump

LEMMA AcceptArrivesStep ==
  ASSUME Inv, NEW r \in Receivers, AcceptArrives(r) PROVE Inv'
  <1>1. PICK m \in net :
          /\ m.type = "accept" /\ m.peer = r
          /\ \/ /\ net' = (net \ {m}) \cup {M("refuse", r)}
                /\ UNCHANGED <<oState, sent, to, stalled>>
             \/ /\ net' = net \ {m}
                /\ UNCHANGED <<oState, sent, to, stalled>>
             \/ /\ oState # "none" /\ MayStart(m.from) /\ to' = r
                /\ Emit(r, StartsAt(m.from), IF Inline THEN Total ELSE Budget,
                        FALSE, net \ {m})
          /\ UNCHANGED <<kind, source, prep, aged, revoked, recvVars, restarts>>
    BY DEF AcceptArrives
  <1>2. prep = "done" /\ M("offer", r) \notin net /\ m \in Msg
    BY <1>1 DEF Inv, OfferOK, TypeOK
  <1>3. m.from \in (0..Total) \cup {FromStart}
    BY <1>1, <1>2, MsgFields
  <1>4. CASE UNCHANGED <<oState, sent, to, stalled>>
             /\ (net' = net \ {m} \/ net' = (net \ {m}) \cup {M("refuse", r)})
    <2>1. TypeOK'
      BY <1>1, <1>4, MsgTypes DEF Inv, TypeOK, recvVars
    <2> QED
      BY <1>1, <1>2, <1>4, <2>1, SenderFrame, MsgKinds DEF Inv
  <1>5. CASE /\ oState # "none" /\ MayStart(m.from) /\ to' = r
             /\ Emit(r, StartsAt(m.from), IF Inline THEN Total ELSE Budget,
                     FALSE, net \ {m})
    <2> DEFINE s == StartsAt(m.from)
               b == IF Inline THEN Total ELSE Budget
    <2>1. s \in 0..Total /\ b \in Nat \ {0}
      BY <1>3, SizesAssumption DEF StartsAt, Inv, TypeOK
    <2>2. m.from # FromStart => s = m.from
      BY DEF StartsAt
    <2>3. m.from = FromStart => s = 0
      BY <1>5 DEF StartsAt, MayStart, Inv, StreamOK
    <2>4. inState[r] # "none" => \A c \in Chunks : c < s => Sent(r, c)
      BY <1>1, <2>2, <2>3, SizesAssumption DEF Inv, StreamOK, Sent, Chunks
    <2>5. \A n \in net : n.type = "chunk" => n \in net \ {m}
      BY <1>1
    <2> HIDE DEF s, b
    <2>6. Emit(r, s, b, FALSE, net \ {m})
      BY <1>5 DEF s, b
    <2> QED
      BY <1>1, <1>2, <1>5, <2>1, <2>4, <2>5, <2>6, StreamStep
  <1> QED
    BY <1>1, <1>4, <1>5

-----------------------------------------------------------------------------
(* The receiver's steps                                                    *)

(* A step that loses nothing a receiver stored, except with the record,    *)
(* and asks for a resume only from its first missing chunk.                *)
LEMMA ReceiverFrame ==
  ASSUME Inv, NEW r \in Receivers, prep = "done", UNCHANGED <<kind, senderVars>>,
         RecordOK(r)',
         M("offer", r) \in net =>
           /\ inState'[r] = "none" /\ (r \in hashing' => r \in hashing)
           /\ \A m \in net' : m.type = "accept" => m \in net,
         \A q \in Receivers \ {r} :
           /\ inState'[q] = inState[q] /\ stored'[q] = stored[q]
           /\ resumable'[q] = resumable[q] /\ part'[q] = part[q]
           /\ q \in hashing' <=> q \in hashing,
         inState'[r] # "none" =>
           /\ inState[r] # "none"
           /\ \A c \in Chunks : stored[r][c] # "no" => stored'[r][c] # "no",
         \A m \in net' : m.type = "offer" => m \in net,
         \A m \in net' : m.type = "accept" =>
           \/ m \in net
           \/ /\ m.peer = r
              /\ m.from # FromStart => \A c \in Chunks : c < m.from => stored'[r][c] # "no",
         \A m \in net : m.type = "chunk" => m \in net'
  PROVE  (\A q \in Receivers : RecordOK(q)') /\ OfferOK' /\ StreamOK'
  <1>1. \A q \in Receivers : RecordOK(q)'
    BY RecordOthers DEF Inv
  <1>2. OfferOK'
    <2>1. \A q \in Receivers : M("offer", q) \in net' =>
            /\ M("offer", q) \in net /\ inState'[q] = inState[q]
            /\ q \in hashing' => q \in hashing
            /\ \A m \in net' : m.type = "accept" /\ m.peer = q => m \in net
      BY MsgKinds DEF Inv, OfferOK
    <2> QED
      BY <2>1, OfferKept DEF senderVars
  <1>3. \A q \in Receivers, c \in Chunks :
          inState'[q] # "none" => /\ inState[q] # "none"
                                  /\ stored[q][c] # "no" => stored'[q][c] # "no"
                                  /\ Sent(q, c) => Sent(q, c)'
    BY DEF Sent
  <1>4. \A m \in net : m.peer \in Receivers
    BY MsgFields DEF Inv, TypeOK
  <1>5. to # NoOne => to \in Receivers
    BY DEF Inv, TypeOK
  <1>6. StreamOK'
    <2>1. to' # NoOne /\ inState'[to'] # "none" =>
            \A c \in Chunks : c < sent' => Sent(to, c)'
      BY <1>3, <1>5 DEF Inv, StreamOK, senderVars
    <2>2. \A m \in net' :
            m.type = "accept" /\ m.from # FromStart /\ inState'[m.peer] # "none" =>
              \A c \in Chunks : c < m.from => stored'[m.peer][c] # "no"
      BY <1>3, <1>4 DEF Inv, StreamOK
    <2> QED
      BY <2>1, <2>2 DEF Inv, StreamOK, senderVars, Sent
  <1> QED
    BY <1>1, <1>2, <1>6

(* Who has a record, or a hash running, is not waiting for the offer.      *)
LEMMA OfferHeard ==
  ASSUME Inv, NEW r \in Receivers, inState[r] # "none" \/ r \in hashing
  PROVE  prep = "done" /\ M("offer", r) \notin net
  BY DEF Inv, OfferOK

LEMMA OfferArrivesStep ==
  ASSUME Inv, NEW r \in Receivers, OfferArrives(r) PROVE Inv'
  <1>1. /\ M("offer", r) \in net /\ prep = "done"
        /\ inState[r] = "none" /\ r \notin hashing /\ to # r
        /\ \A m \in net : m.type = "accept" => m.peer # r
    BY DEF Inv, OfferOK, OfferArrives
  <1>2. /\ UNCHANGED <<kind, source, senderVars, saved, hashing, restarts>>
        /\ net' \subseteq (net \ {M("offer", r)}) \cup {M("reject", r)}
        /\ net \ {M("offer", r)} \subseteq net'
    BY DEF OfferArrives, Answer
  <1>3. \A m \in net' : m.type \in {"offer", "accept"} => m \in net \ {M("offer", r)}
    BY <1>2, MsgKinds
  <1>4. \A m \in net : m.type = "chunk" => m \in net'
    BY <1>2, MsgKinds
  <1>5. TypeOK'
    <2>1. net' \subseteq Msg
      BY <1>2, MsgTypes DEF Inv, TypeOK
    <2>2. 0 \in 0..MaxAutoResume /\ Empty \in [Chunks -> {"no", "ok", "bad"}]
      BY SizesAssumption DEF Empty
    <2>3. inState' \in [Receivers -> States \cup {"none"}]
      BY DEF Inv, TypeOK, OfferArrives, States
    <2>4. part' \in [Receivers -> {"none", "open", "closed", "orphan"}]
      BY DEF Inv, TypeOK, OfferArrives
    <2>5. resumable' \in [Receivers -> BOOLEAN] /\ complete' \in [Receivers -> BOOLEAN]
      BY DEF Inv, TypeOK, OfferArrives
    <2>6. stored' \in [Receivers -> [Chunks -> {"no", "ok", "bad"}]]
      BY <2>2 DEF Inv, TypeOK, OfferArrives
    <2>7. attempts' \in [Receivers -> 0..MaxAutoResume]
      BY <2>2 DEF Inv, TypeOK, OfferArrives
    <2> QED
      BY <2>1, <2>3, <2>4, <2>5, <2>6, <2>7, <1>2 DEF Inv, TypeOK, senderVars
  <1>6. \A q \in Receivers \ {r} :
          /\ inState'[q] = inState[q] /\ stored'[q] = stored[q]
          /\ resumable'[q] = resumable[q] /\ part'[q] = part[q]
    BY DEF OfferArrives, Inv, TypeOK
  <1>7. RecordOK(r)'
    BY <1>1, <1>2 DEF OfferArrives, Inv, TypeOK, RecordOK, Taking, Held, Hole,
                      OnDisk, Memory, Empty
  <1>8. \A q \in Receivers : RecordOK(q)'
    BY <1>2, <1>6, <1>7, RecordOthers DEF Inv
  <1>9. OfferOK'
    <2>1. \A q \in Receivers : M("offer", q) \in net' => q # r /\ M("offer", q) \in net
      BY <1>3, MsgKinds
    <2> QED
      BY <2>1, <1>1, <1>2, <1>3, <1>6, OfferKept DEF senderVars
  <1>10. StreamOK'
    <2>1. to # NoOne => to \in Receivers \ {r}
      BY <1>1 DEF Inv, TypeOK
    <2>2. \A m \in net : m.type = "accept" => m.peer \in Receivers \ {r}
      BY <1>1, MsgFields DEF Inv, TypeOK
    <2> QED
      BY <1>2, <1>3, <1>4, <1>6, <2>1, <2>2 DEF Inv, StreamOK, senderVars, Sent
  <1> QED
    BY <1>5, <1>8, <1>9, <1>10 DEF Inv

LEMMA AcceptStep ==
  ASSUME Inv, NEW r \in Receivers, Accept(r) PROVE Inv'
  <1>1. prep = "done" /\ M("offer", r) \notin net
    BY OfferHeard DEF Accept
  <1>2. TypeOK'
    <2>1. inState' \in [Receivers -> States \cup {"none"}]
      BY DEF Inv, TypeOK, Accept, States
    <2>2. net' \subseteq Msg
      BY MsgTypes DEF Inv, TypeOK, Accept
    <2> QED
      BY <2>1, <2>2 DEF Inv, TypeOK, Accept, senderVars
  <1>3. RecordOK(r)'
    BY DEF Accept, Inv, TypeOK, RecordOK, Taking, Held, Hole, OnDisk, Memory, Empty
  <1>4. /\ UNCHANGED <<kind, senderVars, stored, resumable, part, hashing>>
        /\ net' = net \cup {AcceptMsg(r, FromStart)} /\ inState[r] # "none"
        /\ \A q \in Receivers \ {r} : inState'[q] = inState[q]
    BY DEF Accept, Inv, TypeOK
  <1> QED
    BY <1>1, <1>2, <1>3, <1>4, ReceiverFrame, MsgKinds DEF Inv

LEMMA StallStep ==
  ASSUME Inv, NEW r \in Receivers, Stall(r) PROVE Inv'
  <1>1. prep = "done" /\ M("offer", r) \notin net /\ inState[r] = "transferring"
    BY OfferHeard DEF Stall
  <1>2. PICK c \in Chunks :
          /\ FirstMissing(r, c)
          /\ \/ /\ attempts[r] >= MaxAutoResume
                /\ inState' = [inState EXCEPT ![r] = "failed"]
                /\ resumable' = [resumable EXCEPT ![r] = TRUE]
                /\ UNCHANGED <<attempts, net>>
             \/ /\ ~(attempts[r] >= MaxAutoResume)
                /\ attempts' = [attempts EXCEPT ![r] = @ + 1]
                /\ net' = net \cup {AcceptMsg(r, c)}
                /\ UNCHANGED <<inState, resumable>>
    BY DEF Stall
  <1>3. UNCHANGED <<kind, source, senderVars, stored, complete, part, saved,
                    hashing, restarts>>
    BY DEF Stall
  <1>4. AcceptMsg(r, c) \in Msg
    BY MsgTypes, SizesAssumption DEF Chunks
  <1>5. attempts' \in [Receivers -> 0..MaxAutoResume]
    BY <1>2, SizesAssumption DEF Inv, TypeOK
  <1>6. TypeOK'
    <2>1. /\ inState' \in [Receivers -> States \cup {"none"}]
          /\ resumable' \in [Receivers -> BOOLEAN]
      BY <1>2 DEF Inv, TypeOK, States
    <2>2. net' \subseteq Msg
      BY <1>2, <1>4 DEF Inv, TypeOK
    <2> QED
      BY <1>3, <1>5, <2>1, <2>2 DEF Inv, TypeOK, senderVars
  <1>7. RecordOK(r)'
    BY <1>1, <1>2, <1>3 DEF Inv, TypeOK, RecordOK, Taking, Held, Hole, OnDisk,
                            Memory, Empty, FirstMissing
  <1>8. /\ \A q \in Receivers \ {r} : inState'[q] = inState[q] /\ resumable'[q] = resumable[q]
        /\ net' = net \/ net' = net \cup {AcceptMsg(r, c)}
    BY <1>2 DEF Inv, TypeOK
  <1>9. \A d \in Chunks : d < c => stored'[r][d] # "no"
    BY <1>2, <1>3 DEF FirstMissing
  <1> QED
    BY <1>1, <1>3, <1>6, <1>7, <1>8, <1>9, ReceiverFrame, MsgKinds DEF Inv

LEMMA RetryStep ==
  ASSUME Inv, NEW r \in Receivers, Retry(r) PROVE Inv'
  <1>1. prep = "done" /\ M("offer", r) \notin net /\ Held(r) /\ inState[r] # "none"
    BY OfferHeard DEF Retry, Held
  <1>2. PICK c \in Chunks :
          /\ FirstMissing(r, c) \/ (~Hole(r) /\ c = 0)
          /\ net' = net \cup {AcceptMsg(r, c)}
    BY DEF Retry
  <1>3. FirstMissing(r, c)
    BY <1>1, <1>2 DEF Inv, RecordOK
  <1>4. AcceptMsg(r, c) \in Msg
    BY MsgTypes, SizesAssumption DEF Chunks
  <1>5. attempts' \in [Receivers -> 0..MaxAutoResume]
    BY SizesAssumption DEF Inv, TypeOK, Retry
  <1>6. TypeOK'
    BY <1>2, <1>4, <1>5 DEF Inv, TypeOK, Retry, senderVars, States
  <1>7. RecordOK(r)'
    BY <1>1 DEF Inv, Retry, TypeOK, RecordOK, Taking, Held, Hole, OnDisk, Memory, Empty
  <1>8. /\ UNCHANGED <<kind, senderVars, stored, part, hashing>>
        /\ \A q \in Receivers \ {r} : inState'[q] = inState[q] /\ resumable'[q] = resumable[q]
    BY DEF Retry, Inv, TypeOK
  <1>9. \A d \in Chunks : d < c => stored'[r][d] # "no"
    BY <1>3, <1>8 DEF FirstMissing
  <1> QED
    BY <1>1, <1>2, <1>6, <1>7, <1>8, <1>9, ReceiverFrame, MsgKinds DEF Inv

(* The end of a hard failure, of a success and of a stream: what each does *)
(* to the records and the frames.                                          *)
LEMMA EndFrame ==
  ASSUME Inv, NEW r \in Receivers,
         FailInbound(r) \/ Publish(r) \/ FinishStreaming(r)
  PROVE  /\ inState' \in [Receivers -> States \cup {"none"}]
         /\ part' \in [Receivers -> {"none", "open", "closed", "orphan"}]
         /\ net \subseteq net' /\ net' \subseteq Msg
         /\ \A m \in net' : m \in net \/ m.type \in {"error", "ack"}
         /\ \A q \in Receivers \ {r} : inState'[q] = inState[q] /\ part'[q] = part[q]
  <1>1. inState' \in [Receivers -> States \cup {"none"}]
    BY DEF Inv, TypeOK, FailInbound, Publish, FinishStreaming, States
  <1>2. part' \in [Receivers -> {"none", "open", "closed", "orphan"}]
    BY DEF Inv, TypeOK, FailInbound, Publish, FinishStreaming
  <1>3. net' = net \/ net' = net \cup {M("error", r)} \/ net' = net \cup {M("ack", r)}
    BY DEF FailInbound, Publish, FinishStreaming, Answer
  <1>4. \A q \in Receivers \ {r} : inState'[q] = inState[q] /\ part'[q] = part[q]
    BY DEF Inv, TypeOK, FailInbound, Publish, FinishStreaming
  <1> QED
    BY <1>1, <1>2, <1>3, <1>4, MsgTypes, MsgKinds DEF Inv, TypeOK

(* A pull whose chunks are all there is published, hashed or given up.     *)
LEMMA FinishEnds ==
  ASSUME Inv, NEW r \in Receivers, inState[r] = "transferring" \/ Held(r),
         UNCHANGED kind, NEW got \in [Chunks -> {"no", "ok", "bad"}],
         \A c \in Chunks : got[c] # "no",
         stored' = [stored EXCEPT ![r] = got],
         resumable' = [resumable EXCEPT ![r] = FALSE],
         Finish(r, got)
  PROVE  /\ FailInbound(r) \/ Publish(r) \/ FinishStreaming(r)
         /\ saved' \subseteq Receivers /\ hashing' \subseteq Receivers
         /\ \A q \in Receivers \ {r} : q \in hashing' <=> q \in hashing
         /\ RecordOK(r)'
  <1>1. FailInbound(r) \/ Publish(r) \/ FinishStreaming(r)
    BY DEF Finish
  <1>2. /\ saved' \subseteq Receivers /\ hashing' \subseteq Receivers
        /\ \A q \in Receivers \ {r} : q \in hashing' <=> q \in hashing
    BY DEF Finish, FinishStreaming, FailInbound, Publish, Inv, TypeOK
  <1>3. stored'[r] = got /\ resumable'[r] = FALSE
    BY DEF Inv, TypeOK
  <1>4. RecordOK(r) /\ inState[r] # "none"
    BY DEF Inv, Held
  <1>5. FailInbound(r) => RecordOK(r)'
    BY <1>3, <1>4 DEF FailInbound, RecordOK, Taking, Held, Hole, OnDisk,
                            Memory, Empty, Inv, TypeOK
  <1>6. Publish(r) => RecordOK(r)'
    BY <1>3, <1>4 DEF Publish, RecordOK, Taking, Held, Hole, OnDisk,
                            Memory, Empty, Inv, TypeOK
  <1>7. ~Memory /\ FinishStreaming(r) => RecordOK(r)'
    BY <1>3, <1>4, <1>5 DEF FinishStreaming, RecordOK, Taking, Held, Hole,
                            OnDisk, Memory, Empty, Inv, TypeOK
  <1>8. RecordOK(r)'
    BY <1>5, <1>6, <1>7 DEF Finish
  <1> QED
    BY <1>1, <1>2, <1>8

(* A chunk is never overwritten.                                           *)
LEMMA StoreKeeps ==
  ASSUME TypeOK, NEW r \in Receivers, NEW i \in Chunks, NEW d \in {"ok", "bad"}
  PROVE  /\ StoreChunk(r, i, d) \in [Chunks -> {"no", "ok", "bad"}]
         /\ \A c \in Chunks : stored[r][c] # "no" =>
              StoreChunk(r, i, d)[c] = stored[r][c]
         /\ stored[r][i] # "no" => StoreChunk(r, i, d) = stored[r]
         /\ stored[r][i] = "no" => StoreChunk(r, i, d) = [stored[r] EXCEPT ![i] = d]
  BY DEF TypeOK, StoreChunk

LEMMA ChunkArrivesStep ==
  ASSUME Inv, NEW r \in Receivers, NEW i \in Chunks, ChunkArrives(r, i)
  PROVE  Inv'
  <1>1. PICK m \in net :
          /\ m.type = "chunk" /\ m.peer = r /\ m.index = i
          /\ inState[r] = "transferring" \/ Held(r)
          /\ stored' = [stored EXCEPT ![r] = StoreChunk(r, i, m.data)]
          /\ \E z \in {0, attempts[r]} : attempts' = [attempts EXCEPT ![r] = z]
          /\ resumable' = [resumable EXCEPT ![r] = FALSE]
          /\ \/ /\ \A c \in Chunks : StoreChunk(r, i, m.data)[c] # "no"
                /\ Finish(r, StoreChunk(r, i, m.data))
             \/ /\ inState' = [inState EXCEPT ![r] = "transferring"]
                /\ UNCHANGED <<part, saved, hashing, net>>
          /\ UNCHANGED <<kind, source, senderVars, complete, restarts>>
    BY DEF ChunkArrives
  <1> DEFINE got == StoreChunk(r, i, m.data)
  <1>2. m.data \in {"ok", "bad"}
    BY <1>1, MsgFields DEF Inv, TypeOK
  <1>3. /\ got \in [Chunks -> {"no", "ok", "bad"}]
        /\ \A c \in Chunks : stored[r][c] # "no" => got[c] # "no"
    BY <1>2, StoreKeeps DEF Inv
  <1>4. prep = "done" /\ M("offer", r) \notin net /\ inState[r] # "none"
    BY <1>1, OfferHeard DEF Held
  <1> HIDE DEF got
  <1>5. /\ attempts' \in [Receivers -> 0..MaxAutoResume]
        /\ stored' \in [Receivers -> [Chunks -> {"no", "ok", "bad"}]]
        /\ resumable' \in [Receivers -> BOOLEAN]
        /\ stored'[r] = got
        /\ \A q \in Receivers \ {r} : stored'[q] = stored[q] /\ resumable'[q] = resumable[q]
    <2>1. 0 \in 0..MaxAutoResume /\ attempts[r] \in 0..MaxAutoResume
      BY SizesAssumption DEF Inv, TypeOK
    <2>2. stored' = [stored EXCEPT ![r] = got]
      BY <1>1 DEF got
    <2> QED
      BY <1>1, <1>3, <2>1, <2>2 DEF Inv, TypeOK
  <1> DEFINE Kept == \A c \in Chunks : stored[r][c] # "no" => stored'[r][c] # "no"
  <1>6. UNCHANGED <<kind, senderVars>> /\ Kept
    BY <1>1, <1>3, <1>5
  <1>7. CASE Finish(r, got) /\ \A c \in Chunks : got[c] # "no"
    <2>1. stored' = [stored EXCEPT ![r] = got]
      BY <1>1 DEF got
    <2>2. /\ FailInbound(r) \/ Publish(r) \/ FinishStreaming(r)
          /\ saved' \subseteq Receivers /\ hashing' \subseteq Receivers
          /\ \A q \in Receivers \ {r} : q \in hashing' <=> q \in hashing
          /\ RecordOK(r)'
      BY <1>1, <1>3, <1>7, <2>1, FinishEnds
    <2>3. /\ inState' \in [Receivers -> States \cup {"none"}]
          /\ part' \in [Receivers -> {"none", "open", "closed", "orphan"}]
          /\ net \subseteq net' /\ net' \subseteq Msg
          /\ \A n \in net' : n \in net \/ n.type \in {"error", "ack"}
          /\ \A q \in Receivers \ {r} : inState'[q] = inState[q] /\ part'[q] = part[q]
      BY <2>2, EndFrame
    <2>4. TypeOK'
      BY <1>1, <1>5, <2>2, <2>3 DEF Inv, TypeOK, senderVars
    <2> QED
      BY <1>4, <1>5, <1>6, <2>2, <2>3, <2>4, ReceiverFrame DEF Inv
  <1>8. CASE /\ inState' = [inState EXCEPT ![r] = "transferring"]
             /\ UNCHANGED <<part, saved, hashing, net>>
    <2>1. TypeOK'
      BY <1>1, <1>5, <1>8 DEF Inv, TypeOK, States, senderVars
    <2>2. RecordOK(r)'
      <3>1. RecordOK(r) /\ inState'[r] = "transferring" /\ ~resumable'[r]
        BY <1>1, <1>8 DEF Inv, TypeOK
      <3> QED
        BY <3>1, <1>1, <1>8 DEF RecordOK, Taking, Held, Hole, OnDisk, Memory
    <2>3. \A q \in Receivers \ {r} : inState'[q] = inState[q]
      BY <1>8 DEF Inv, TypeOK
    <2> QED
      BY <1>4, <1>5, <1>8, <1>6, <2>1, <2>2, <2>3, ReceiverFrame DEF Inv
  <1> QED
    BY <1>1, <1>7, <1>8 DEF got

LEMMA CompleteArrivesStep ==
  ASSUME Inv, NEW r \in Receivers, CompleteArrives(r) PROVE Inv'
  <1>1. /\ inState[r] = "transferring" \/ Held(r)
        /\ resumable' = [resumable EXCEPT ![r] = FALSE]
        /\ UNCHANGED <<kind, source, senderVars, stored, restarts>>
    BY DEF CompleteArrives
  <1>2. prep = "done" /\ M("offer", r) \notin net /\ inState[r] # "none"
    BY <1>1, OfferHeard DEF Held
  <1>3. /\ attempts' \in [Receivers -> 0..MaxAutoResume]
        /\ resumable' \in [Receivers -> BOOLEAN]
        /\ complete' \in [Receivers -> BOOLEAN]
        /\ \A q \in Receivers \ {r} : resumable'[q] = resumable[q]
    <2>1. 0 \in 0..MaxAutoResume
      BY SizesAssumption
    <2>2. attempts' \in [Receivers -> 0..MaxAutoResume]
      BY <2>1 DEF CompleteArrives, Inv, TypeOK
    <2>3. complete' \in [Receivers -> BOOLEAN]
      BY DEF CompleteArrives, Inv, TypeOK
    <2> QED
      BY <1>1, <2>2, <2>3 DEF Inv, TypeOK
  <1>4. CASE Hole(r)
    <2>1. /\ inState' = [inState EXCEPT ![r] = "transferring"]
          /\ UNCHANGED <<part, saved, hashing, net>>
      BY <1>4 DEF CompleteArrives
    <2>2. TypeOK'
      BY <1>1, <1>3, <2>1 DEF Inv, TypeOK, States, senderVars
    <2>3. RecordOK(r)'
      <3>1. RecordOK(r) /\ inState'[r] = "transferring" /\ ~resumable'[r]
        BY <1>1, <2>1 DEF Inv, TypeOK
      <3> QED
        BY <3>1, <1>1, <2>1 DEF RecordOK, Taking, Held, Hole, OnDisk, Memory
    <2>4. \A q \in Receivers \ {r} : inState'[q] = inState[q]
      BY <2>1 DEF Inv, TypeOK
    <2> QED
      BY <1>1, <1>2, <1>3, <2>1, <2>2, <2>3, <2>4, ReceiverFrame DEF Inv
  <1>5. CASE ~Hole(r)
    <2>1. Finish(r, stored[r]) /\ \A c \in Chunks : stored[r][c] # "no"
      BY <1>5 DEF CompleteArrives, Hole
    <2>2. /\ stored[r] \in [Chunks -> {"no", "ok", "bad"}]
          /\ stored' = [stored EXCEPT ![r] = stored[r]]
      BY <1>1 DEF Inv, TypeOK
    <2>3. /\ FailInbound(r) \/ Publish(r) \/ FinishStreaming(r)
          /\ saved' \subseteq Receivers /\ hashing' \subseteq Receivers
          /\ \A q \in Receivers \ {r} : q \in hashing' <=> q \in hashing
          /\ RecordOK(r)'
      BY <1>1, <2>1, <2>2, FinishEnds
    <2>4. /\ inState' \in [Receivers -> States \cup {"none"}]
          /\ part' \in [Receivers -> {"none", "open", "closed", "orphan"}]
          /\ net \subseteq net' /\ net' \subseteq Msg
          /\ \A n \in net' : n \in net \/ n.type \in {"error", "ack"}
          /\ \A q \in Receivers \ {r} : inState'[q] = inState[q] /\ part'[q] = part[q]
      BY <2>3, EndFrame
    <2>5. TypeOK'
      BY <1>1, <1>3, <2>3, <2>4 DEF Inv, TypeOK, senderVars
    <2> QED
      BY <1>1, <1>2, <1>3, <2>3, <2>4, <2>5, ReceiverFrame DEF Inv
  <1> QED
    BY <1>4, <1>5

LEMMA FileHashedStep ==
  ASSUME Inv, NEW r \in Receivers, FileHashed(r) PROVE Inv'
  <1>1. /\ r \in hashing /\ hashing' = hashing \ {r}
        /\ UNCHANGED <<kind, source, senderVars, stored, attempts, resumable,
                       complete, restarts>>
        /\ \/ inState[r] # "verifying" /\ UNCHANGED <<inState, part, saved, net>>
           \/ inState[r] = "verifying" /\ (Publish(r) \/ FailInbound(r))
    BY DEF FileHashed
  <1>2. prep = "done" /\ M("offer", r) \notin net
    BY <1>1, OfferHeard
  <1>3. RecordOK(r)
    BY DEF Inv
  <1>4. CASE inState[r] # "verifying" /\ UNCHANGED <<inState, part, saved, net>>
    <2>1. TypeOK'
      BY <1>1, <1>4 DEF Inv, TypeOK, senderVars
    <2>2. RecordOK(r)'
      BY <1>1, <1>3, <1>4 DEF RecordOK, Taking, Held, Hole, OnDisk, Memory, Empty
    <2> QED
      BY <1>1, <1>2, <1>4, <2>1, <2>2, ReceiverFrame DEF Inv
  <1>5. CASE inState[r] = "verifying" /\ (Publish(r) \/ FailInbound(r))
    <2>1. /\ inState' \in [Receivers -> States \cup {"none"}]
          /\ part' \in [Receivers -> {"none", "open", "closed", "orphan"}]
          /\ net \subseteq net' /\ net' \subseteq Msg
          /\ \A n \in net' : n \in net \/ n.type \in {"error", "ack"}
          /\ \A q \in Receivers \ {r} : inState'[q] = inState[q] /\ part'[q] = part[q]
      BY <1>5, EndFrame
    <2>2. saved' \subseteq Receivers
      BY <1>5 DEF FileHashed, Publish, Inv, TypeOK
    <2>3. TypeOK'
      BY <1>1, <2>1, <2>2 DEF Inv, TypeOK, senderVars
    <2>4. RecordOK(r)'
      <3>1. inState'[r] \in {"complete", "failed"} /\ part'[r] = "none"
        BY <1>3, <1>5 DEF Publish, FailInbound, RecordOK, OnDisk, Inv, TypeOK
      <3>2. ~resumable[r]
        BY <1>3, <1>5 DEF RecordOK
      <3> QED
        BY <1>1, <3>1, <3>2 DEF RecordOK, Taking, Held, Hole, OnDisk, Memory, Empty
    <2> QED
      BY <1>1, <1>2, <1>5, <2>1, <2>3, <2>4, ReceiverFrame DEF Inv
  <1> QED
    BY <1>1, <1>4, <1>5

(* A record that goes, and its .part file with it or left behind.          *)
LEMMA DropFrame ==
  ASSUME Inv, NEW r \in Receivers, UNCHANGED kind, DropRecord(r),
         NEW p \in {"none", "orphan"},
         part' = [part EXCEPT ![r] = IF OnDisk(r) THEN p ELSE @]
  PROVE  /\ inState' \in [Receivers -> States \cup {"none"}]
         /\ stored' \in [Receivers -> [Chunks -> {"no", "ok", "bad"}]]
         /\ attempts' \in [Receivers -> 0..MaxAutoResume]
         /\ resumable' \in [Receivers -> BOOLEAN]
         /\ complete' \in [Receivers -> BOOLEAN]
         /\ part' \in [Receivers -> {"none", "open", "closed", "orphan"}]
         /\ inState'[r] = "none" /\ RecordOK(r)'
         /\ \A q \in Receivers \ {r} :
              /\ inState'[q] = inState[q] /\ stored'[q] = stored[q]
              /\ resumable'[q] = resumable[q] /\ part'[q] = part[q]
  <1>1. 0 \in 0..MaxAutoResume /\ Empty \in [Chunks -> {"no", "ok", "bad"}]
    BY SizesAssumption DEF Empty
  <1>2. /\ stored' \in [Receivers -> [Chunks -> {"no", "ok", "bad"}]]
        /\ attempts' \in [Receivers -> 0..MaxAutoResume]
    BY <1>1 DEF Inv, TypeOK, DropRecord
  <1>3. /\ inState' \in [Receivers -> States \cup {"none"}]
        /\ resumable' \in [Receivers -> BOOLEAN]
        /\ complete' \in [Receivers -> BOOLEAN]
        /\ part' \in [Receivers -> {"none", "open", "closed", "orphan"}]
    BY DEF Inv, TypeOK, DropRecord
  <1>4. /\ inState'[r] = "none" /\ stored'[r] = Empty /\ part'[r] \notin {"open", "closed"}
        /\ \A q \in Receivers \ {r} :
             /\ inState'[q] = inState[q] /\ stored'[q] = stored[q]
             /\ resumable'[q] = resumable[q] /\ part'[q] = part[q]
    BY DEF Inv, TypeOK, DropRecord, OnDisk
  <1>5. RecordOK(r)'
    BY <1>4 DEF RecordOK, Taking, Held, OnDisk, Memory, Empty
  <1> QED
    BY <1>2, <1>3, <1>4, <1>5

LEMMA RefuseArrivesStep ==
  ASSUME Inv, NEW r \in Receivers, RefuseArrives(r) PROVE Inv'
  <1>1. /\ M("refuse", r) \in net /\ net' = net \ {M("refuse", r)}
        /\ UNCHANGED <<kind, source, senderVars, saved, hashing, restarts>>
    BY DEF RefuseArrives
  <1>2. prep = "done" /\ net' \subseteq Msg /\ \A m \in net : m.type = "chunk" => m \in net'
    BY <1>1, MsgKinds DEF Inv, OfferOK, TypeOK
  <1>3. CASE Room
    <2>1. /\ DropRecord(r)
          /\ part' = [part EXCEPT ![r] = IF OnDisk(r) THEN "none" ELSE @]
      BY <1>3 DEF RefuseArrives
    <2>2. TypeOK'
      BY <1>1, <1>2, <2>1, DropFrame DEF Inv, TypeOK, senderVars
    <2> QED
      BY <1>1, <1>2, <2>1, <2>2, DropFrame, ReceiverFrame DEF Inv
  <1>4. CASE ~Room
    <2>1. UNCHANGED recvVars
      BY <1>1, <1>4 DEF RefuseArrives, recvVars
    <2>2. TypeOK'
      BY <1>1, <1>2, <2>1 DEF Inv, TypeOK, senderVars, recvVars
    <2> QED
      BY <1>1, <1>2, <2>1, <2>2, SenderFrame DEF Inv, senderVars
  <1> QED
    BY <1>3, <1>4

LEMMA DiscardStep ==
  ASSUME Inv, NEW r \in Receivers, Discard(r) PROVE Inv'
  <1>1. /\ DropRecord(r) /\ prep = "done"
        /\ part' = [part EXCEPT ![r] = IF OnDisk(r) THEN "none" ELSE @]
        /\ UNCHANGED <<kind, source, senderVars, saved, hashing, net, restarts>>
    BY OfferHeard DEF Discard
  <1>2. TypeOK'
    BY <1>1, DropFrame DEF Inv, TypeOK, senderVars
  <1> QED
    BY <1>1, <1>2, DropFrame, ReceiverFrame DEF Inv

LEMMA ReceiverRestartsStep ==
  ASSUME Inv, NEW r \in Receivers, ReceiverRestarts(r) PROVE Inv'
  <1>1. /\ DropRecord(r) /\ prep = "done"
        /\ part' = [part EXCEPT ![r] = IF OnDisk(r) THEN "orphan" ELSE @]
        /\ hashing' = hashing \ {r}
        /\ UNCHANGED <<kind, source, senderVars, saved, net>>
    BY OfferHeard DEF ReceiverRestarts
  <1>2. restarts' \in 0..MaxRestarts
    BY SizesAssumption DEF ReceiverRestarts, Inv, TypeOK
  <1>3. TypeOK'
    BY <1>1, <1>2, DropFrame DEF Inv, TypeOK, senderVars
  <1> QED
    BY <1>1, <1>3, DropFrame, ReceiverFrame DEF Inv

(* A 1:1 receiver that withdraws.                                          *)
LEMMA WithdrawStep ==
  ASSUME Inv, NEW r \in Receivers, Cancel(r) \/ Reject(r) PROVE Inv'
  <1>1. PICK s \in {"rejected", "cancelled"} : inState' = [inState EXCEPT ![r] = s]
    BY DEF Cancel, Reject
  <1>2. /\ net' = net \cup {M("reject", r)} \/ net' = net \cup {M("error", r)}
        /\ UNCHANGED <<kind, source, senderVars, stored, attempts, resumable,
                       complete, part, saved, hashing, restarts>>
        /\ inState[r] # "none"
    BY DEF Cancel, Reject
  <1>3. prep = "done" /\ M("offer", r) \notin net
    BY <1>2, OfferHeard
  <1>4. TypeOK'
    BY <1>1, <1>2, MsgTypes DEF Inv, TypeOK, senderVars, States
  <1>5. /\ inState'[r] = s
        /\ \A q \in Receivers \ {r} : inState'[q] = inState[q]
    BY <1>1 DEF Inv, TypeOK
  <1>6. RecordOK(r)'
    BY <1>2, <1>5 DEF Inv, RecordOK, Taking, Held, OnDisk, Memory
  <1> QED
    BY <1>2, <1>3, <1>4, <1>5, <1>6, ReceiverFrame, MsgKinds DEF Inv

-----------------------------------------------------------------------------
(* The invariant is inductive.                                             *)
LEMMA InvStep == Inv /\ [Next]_vars => Inv'
  <1> SUFFICES ASSUME Inv, [Next]_vars PROVE Inv'
    OBVIOUS
  <1>1. CASE UNCHANGED vars
    <2>1. TypeOK'
      BY <1>1 DEF vars, senderVars, recvVars, Inv, TypeOK
    <2>2. \A r \in Receivers : RecordOK(r)'
      BY <1>1, RecordFrame DEF vars, recvVars, Inv
    <2>3. OfferOK' /\ StreamOK'
      BY <1>1 DEF vars, senderVars, recvVars, Inv, OfferOK, StreamOK, Sent
    <2> QED
      BY <2>1, <2>2, <2>3 DEF Inv
  <1>2. CASE \/ SendFile \/ OfferPrepared \/ Revoke \/ OfferAges \/ GcOutbound
             \/ GcRevoked \/ SourceChanges \/ SenderRestarts \/ Pump \/ CancelSend
    BY <1>2, SendFileStep, OfferPreparedStep, RevokeStep, OfferAgesStep,
       GcOutboundStep, GcRevokedStep, SourceChangesStep, SenderRestartsStep,
       PumpStep, CancelSendStep
  <1>3. ASSUME NEW r \in Receivers,
               \/ AcceptArrives(r) \/ AnswerArrives(r) \/ OfferArrives(r) \/ Accept(r)
               \/ Stall(r) \/ Retry(r) \/ CompleteArrives(r)
               \/ \E i \in Chunks : ChunkArrives(r, i)
        PROVE  Inv'
    BY <1>3, AcceptArrivesStep, AnswerArrivesStep, OfferArrivesStep, AcceptStep,
       StallStep, RetryStep, CompleteArrivesStep, ChunkArrivesStep
  <1>4. ASSUME NEW r \in Receivers,
               \/ FileHashed(r) \/ RefuseArrives(r) \/ Discard(r) \/ Cancel(r)
               \/ Reject(r) \/ ReceiverRestarts(r)
        PROVE  Inv'
    BY <1>4, FileHashedStep, RefuseArrivesStep, DiscardStep, WithdrawStep,
       ReceiverRestartsStep
  <1> QED
    BY <1>1, <1>2, <1>3, <1>4 DEF Next

LEMMA InvHolds == Spec => []Inv
  BY InitOK, InvStep, PTL DEF Spec

(* Every field of both transfer records, the frames and the .part files    *)
(* keep their types: in particular chunks_sent never passes the chunks of  *)
(* the file, and resume_attempts never passes MAX_AUTO_RESUME.             *)
THEOREM TransferTypes == Spec => []TypeOK
  <1>1. Inv => TypeOK
    BY DEF Inv
  <1> QED
    BY <1>1, InvHolds, PTL

(* take_stalled_inbound only parks a pull that arm_retry can take up: the  *)
(* writer of its .part file is open, a chunk is missing and no hash runs,  *)
(* for any number of receivers and chunks and any order of late frames.    *)
THEOREM HeldAlwaysResumable == Spec => []HeldIsResumable
  <1>1. Inv => HeldIsResumable
    BY DEF Inv, RecordOK, Taking, HeldIsResumable
  <1> QED
    BY <1>1, InvHolds, PTL

(* No handler of FileTransferManager forgets a .part file: while one is on *)
(* disk there is a record that will publish it, resume it or delete it.    *)
THEOREM PartAlwaysOwned == Spec => []PartOwned
  <1>1. Inv => PartOwned
    BY DEF Inv, RecordOK, PartOwned
  <1> QED
    BY <1>1, InvHolds, PTL

(* unsend_chunks, restart_outbound and resume_from agree on what the       *)
(* receiver lacks: a chunk that chunks_sent counts was handed to the       *)
(* transport for this receiver, or is stored there already.                *)
THEOREM NeverSilentHole == Spec => []NoSilentHole
  <1>1. Inv => NoSilentHole
    BY DEF Inv, StreamOK, Sent, NoSilentHole
  <1> QED
    BY <1>1, InvHolds, PTL

-----------------------------------------------------------------------------
(* The transfer implements FilePull                                        *)

PullStep == [Pull!PullNext]_(Pull!pullVars)

(* A step that changes one record at most moves that download only.        *)
LEMMA PhaseMoves ==
  ASSUME NEW r \in Receivers,
         \A q \in Receivers \ {r} :
           inState'[q] = inState[q] /\ resumable'[q] = resumable[q]
  PROVE  Pull!Become(r, Phase(r)')
  <1>1. \A q \in Receivers \ {r} : Phase(q)' = Phase(q)
    BY DEF Phase
  <1> QED
    BY <1>1 DEF Pull!Become

LEMMA PhaseStays ==
  ASSUME UNCHANGED <<inState, resumable, stored, saved>>
  PROVE  PullStep
  <1>1. \A q \in Receivers : Phase(q)' = Phase(q)
    BY DEF Phase
  <1> QED
    BY <1>1 DEF PullStep, Pull!pullVars

LEMMA InitPulls == Init => Pull!PullInit
  BY DEF Init, Pull!PullInit, Pull!Nothing, Phase, Empty

LEMMA OfferPulls ==
  ASSUME Inv, NEW r \in Receivers, OfferArrives(r) PROVE PullStep
  <1>1. inState[r] = "none" /\ stored[r] = Empty /\ UNCHANGED saved
    BY DEF Inv, OfferOK, RecordOK, OfferArrives
  <1>2. CASE inState' = [inState EXCEPT ![r] = "pending"]
             /\ stored' = [stored EXCEPT ![r] = Empty]
             /\ resumable' = [resumable EXCEPT ![r] = FALSE]
    <2>1. /\ \A q \in Receivers \ {r} :
               inState'[q] = inState[q] /\ resumable'[q] = resumable[q]
          /\ inState'[r] = "pending" /\ stored' = stored
      BY <1>1, <1>2 DEF Inv, TypeOK
    <2>2. Phase(r) = "none" /\ Phase(r)' = "offered"
      BY <1>1, <2>1 DEF Phase
    <2>3. Pull!Become(r, "offered")
      BY <2>1, <2>2, PhaseMoves
    <2>4. Pull!Offer(r)
      BY <1>1, <2>1, <2>2, <2>3 DEF Pull!Offer
    <2> QED
      BY <2>4 DEF PullStep, Pull!PullNext
  <1>3. CASE UNCHANGED <<inState, stored, resumable>>
    BY <1>1, <1>3, PhaseStays
  <1> QED
    BY <1>2, <1>3 DEF OfferArrives

LEMMA AcceptPulls ==
  ASSUME Inv, NEW r \in Receivers, Accept(r) PROVE PullStep
  <1>1. UNCHANGED <<stored, resumable, saved>>
    BY DEF Accept
  <1>2. CASE inState[r] = "pending"
    <2>1. inState'[r] = "transferring" /\ \A q \in Receivers \ {r} : inState'[q] = inState[q]
      BY <1>2 DEF Accept, Inv, TypeOK
    <2>2. Phase(r) = "offered" /\ Phase(r)' = "active"
      BY <1>2, <2>1 DEF Phase
    <2>3. Pull!Become(r, "active")
      BY <1>1, <2>1, <2>2, PhaseMoves
    <2>4. Pull!Start(r)
      BY <1>1, <2>2, <2>3 DEF Pull!Start
    <2> QED
      BY <2>4 DEF PullStep, Pull!PullNext
  <1>3. CASE inState[r] # "pending"
    <2>1. UNCHANGED inState
      BY <1>3 DEF Accept, Inv, TypeOK
    <2> QED
      BY <1>1, <2>1, PhaseStays
  <1> QED
    BY <1>2, <1>3

LEMMA StallPulls ==
  ASSUME Inv, NEW r \in Receivers, Stall(r) PROVE PullStep
  <1>1. UNCHANGED <<stored, saved>> /\ inState[r] = "transferring"
        /\ \E c \in Chunks : stored[r][c] = "no"
    BY DEF Stall, FirstMissing
  <1>2. CASE UNCHANGED <<inState, resumable>>
    BY <1>1, <1>2, PhaseStays
  <1>3. CASE /\ inState' = [inState EXCEPT ![r] = "failed"]
             /\ resumable' = [resumable EXCEPT ![r] = TRUE]
    <2>1. /\ \A q \in Receivers \ {r} :
               inState'[q] = inState[q] /\ resumable'[q] = resumable[q]
          /\ inState'[r] = "failed" /\ resumable'[r]
      BY <1>3 DEF Inv, TypeOK
    <2>2. Phase(r) = "active" /\ Phase(r)' = "held"
      BY <1>1, <2>1 DEF Phase
    <2>3. Pull!Become(r, "held")
      BY <2>1, <2>2, PhaseMoves
    <2>4. Pull!Interrupt(r)
      BY <1>1, <2>2, <2>3 DEF Pull!Interrupt, Pull!Whole
    <2> QED
      BY <2>4 DEF PullStep, Pull!PullNext
  <1> QED
    BY <1>2, <1>3 DEF Stall

LEMMA RetryPulls ==
  ASSUME Inv, NEW r \in Receivers, Retry(r) PROVE PullStep
  <1>1. /\ UNCHANGED <<stored, saved>> /\ Held(r)
        /\ inState' = [inState EXCEPT ![r] = "transferring"]
        /\ resumable' = [resumable EXCEPT ![r] = FALSE]
    BY DEF Retry
  <1>2. /\ \A q \in Receivers \ {r} :
             inState'[q] = inState[q] /\ resumable'[q] = resumable[q]
        /\ inState'[r] = "transferring"
    BY <1>1 DEF Inv, TypeOK
  <1>3. Phase(r) = "held" /\ Phase(r)' = "active"
    BY <1>1, <1>2 DEF Phase, Held
  <1>4. Pull!Become(r, "active")
    BY <1>2, <1>3, PhaseMoves
  <1>5. Pull!Continue(r)
    BY <1>1, <1>3, <1>4 DEF Pull!Continue, Pull!Arrives
  <1> QED
    BY <1>5 DEF PullStep, Pull!PullNext

(* The end of a pull in progress, with or without a last chunk.            *)
LEMMA FinishPulls ==
  ASSUME Inv, NEW r \in Receivers, inState[r] = "transferring" \/ Held(r),
         NEW got \in [Chunks -> {"no", "ok", "bad"}],
         \A c \in Chunks : got[c] # "no",
         stored'[r] = got, Pull!Arrives(r),
         resumable' = [resumable EXCEPT ![r] = FALSE],
         Finish(r, got)
  PROVE  PullStep
  <1>1. Phase(r) \in {"active", "held"}
    BY DEF Phase, Held
  <1>2. ~resumable'[r] /\ \A q \in Receivers \ {r} : resumable'[q] = resumable[q]
    BY DEF Inv, TypeOK
  <1>3. CASE Publish(r) /\ \A c \in Chunks : got[c] = "ok"
    <2>1. inState'[r] = "complete" /\ \A q \in Receivers \ {r} : inState'[q] = inState[q]
      BY <1>3 DEF Publish, Inv, TypeOK
    <2>2. Phase(r)' = "done"
      BY <2>1 DEF Phase
    <2>3. Pull!Become(r, "done")
      BY <1>2, <2>1, <2>2, PhaseMoves
    <2>4. Pull!Publish(r)
      BY <1>1, <1>3, <2>3 DEF Pull!Publish, Pull!Genuine, Publish
    <2> QED
      BY <2>4 DEF PullStep, Pull!PullNext
  <1>4. CASE FailInbound(r) /\ UNCHANGED saved
    <2>1. inState'[r] = "failed" /\ \A q \in Receivers \ {r} : inState'[q] = inState[q]
      BY <1>4 DEF FailInbound, Inv, TypeOK
    <2>2. Phase(r)' = "over"
      BY <1>2, <2>1 DEF Phase
    <2>3. Pull!Become(r, "over")
      BY <1>2, <2>1, <2>2, PhaseMoves
    <2>4. Pull!Abandon(r)
      BY <1>1, <1>4, <2>3 DEF Pull!Abandon
    <2> QED
      BY <2>4 DEF PullStep, Pull!PullNext
  <1>5. CASE inState' = [inState EXCEPT ![r] = "verifying"] /\ UNCHANGED saved
    <2>1. inState'[r] = "verifying" /\ \A q \in Receivers \ {r} : inState'[q] = inState[q]
      BY <1>5 DEF Inv, TypeOK
    <2>2. Phase(r)' = "checking"
      BY <2>1 DEF Phase
    <2>3. Pull!Become(r, "checking")
      BY <1>2, <2>1, <2>2, PhaseMoves
    <2>4. Pull!Check(r)
      BY <1>1, <1>5, <2>3 DEF Pull!Check, Pull!Whole
    <2> QED
      BY <2>4 DEF PullStep, Pull!PullNext
  <1> QED
    BY <1>3, <1>4, <1>5 DEF Finish, FinishStreaming

(* A pull in progress, or one that was held, that goes on.                 *)
LEMMA GoesOnPulls ==
  ASSUME Inv, NEW r \in Receivers, inState[r] = "transferring" \/ Held(r),
         Pull!Arrives(r), UNCHANGED saved,
         inState' = [inState EXCEPT ![r] = "transferring"],
         resumable' = [resumable EXCEPT ![r] = FALSE]
  PROVE  PullStep
  <1>1. Phase(r) \in {"active", "held"}
    BY DEF Phase, Held
  <1>2. /\ inState'[r] = "transferring"
        /\ \A q \in Receivers \ {r} :
             inState'[q] = inState[q] /\ resumable'[q] = resumable[q]
    BY DEF Inv, TypeOK
  <1>3. Phase(r)' = "active"
    BY <1>2 DEF Phase
  <1>4. Pull!Become(r, "active")
    BY <1>2, <1>3, PhaseMoves
  <1>5. Pull!Continue(r)
    BY <1>1, <1>4 DEF Pull!Continue
  <1> QED
    BY <1>5 DEF PullStep, Pull!PullNext

LEMMA ChunkPulls ==
  ASSUME Inv, NEW r \in Receivers, NEW i \in Chunks, ChunkArrives(r, i)
  PROVE  PullStep
  <1>1. PICK m \in net :
          /\ m.type = "chunk"
          /\ inState[r] = "transferring" \/ Held(r)
          /\ stored' = [stored EXCEPT ![r] = StoreChunk(r, i, m.data)]
          /\ resumable' = [resumable EXCEPT ![r] = FALSE]
          /\ \/ /\ \A c \in Chunks : StoreChunk(r, i, m.data)[c] # "no"
                /\ Finish(r, StoreChunk(r, i, m.data))
             \/ /\ inState' = [inState EXCEPT ![r] = "transferring"]
                /\ UNCHANGED <<part, saved, hashing, net>>
    BY DEF ChunkArrives
  <1>2. m.data \in {"ok", "bad"}
    BY <1>1, MsgFields DEF Inv, TypeOK
  <1> DEFINE got == StoreChunk(r, i, m.data)
  <1>3. /\ got \in [Chunks -> {"no", "ok", "bad"}]
        /\ stored[r][i] # "no" => got = stored[r]
        /\ stored[r][i] = "no" => got = [stored[r] EXCEPT ![i] = m.data]
    BY <1>2, StoreKeeps DEF Inv
  <1> HIDE DEF got
  <1>4. stored' = [stored EXCEPT ![r] = got]
    BY <1>1 DEF got
  <1>5. stored'[r] = got
    BY <1>4 DEF Inv, TypeOK
  <1>6. Pull!Arrives(r)
    <2>1. CASE stored[r][i] # "no"
      <3>1. stored' = stored
        BY <1>3, <1>4, <2>1 DEF Inv, TypeOK
      <3> QED
        BY <3>1 DEF Pull!Arrives
    <2>2. CASE stored[r][i] = "no"
      <3>1. stored' = [stored EXCEPT ![r][i] = m.data]
        BY <1>3, <1>4, <2>2
      <3> QED
        BY <1>2, <2>2, <3>1 DEF Pull!Arrives
    <2> QED
      BY <2>1, <2>2
  <1>7. CASE Finish(r, got) /\ \A c \in Chunks : got[c] # "no"
    BY <1>1, <1>3, <1>5, <1>6, <1>7, FinishPulls
  <1>8. CASE inState' = [inState EXCEPT ![r] = "transferring"] /\ UNCHANGED saved
    BY <1>1, <1>6, <1>8, GoesOnPulls
  <1> QED
    BY <1>1, <1>7, <1>8 DEF got

LEMMA CompletePulls ==
  ASSUME Inv, NEW r \in Receivers, CompleteArrives(r) PROVE PullStep
  <1>1. /\ inState[r] = "transferring" \/ Held(r)
        /\ resumable' = [resumable EXCEPT ![r] = FALSE] /\ UNCHANGED stored
    BY DEF CompleteArrives
  <1>2. Pull!Arrives(r)
    BY <1>1 DEF Pull!Arrives
  <1>3. CASE Hole(r)
    <2>1. inState' = [inState EXCEPT ![r] = "transferring"] /\ UNCHANGED saved
      BY <1>3 DEF CompleteArrives
    <2> QED
      BY <1>1, <1>2, <2>1, GoesOnPulls
  <1>4. CASE ~Hole(r)
    <2>1. Finish(r, stored[r]) /\ \A c \in Chunks : stored[r][c] # "no"
      BY <1>4 DEF CompleteArrives, Hole
    <2>2. stored[r] \in [Chunks -> {"no", "ok", "bad"}] /\ stored'[r] = stored[r]
      BY <1>1 DEF Inv, TypeOK
    <2> QED
      BY <1>1, <1>2, <2>1, <2>2, FinishPulls
  <1> QED
    BY <1>3, <1>4

LEMMA HashedPulls ==
  ASSUME Inv, NEW r \in Receivers, FileHashed(r) PROVE PullStep
  <1>1. UNCHANGED <<stored, resumable>>
    BY DEF FileHashed
  <1>2. CASE UNCHANGED <<inState, part, saved, net>>
    BY <1>1, <1>2, PhaseStays
  <1>3. CASE /\ inState[r] = "verifying" /\ Publish(r)
             /\ \A c \in Chunks : stored[r][c] = "ok"
    <2>1. inState'[r] = "complete" /\ \A q \in Receivers \ {r} : inState'[q] = inState[q]
      BY <1>3 DEF Publish, Inv, TypeOK
    <2>2. Phase(r) = "checking" /\ Phase(r)' = "done"
      BY <1>3, <2>1 DEF Phase
    <2>3. Pull!Become(r, "done")
      BY <1>1, <2>1, <2>2, PhaseMoves
    <2>4. Pull!Publish(r)
      BY <1>1, <1>3, <2>2, <2>3
        DEF Pull!Publish, Pull!Genuine, Pull!Arrives, Publish
    <2> QED
      BY <2>4 DEF PullStep, Pull!PullNext
  <1>4. CASE inState[r] = "verifying" /\ FailInbound(r) /\ UNCHANGED saved
    <2>1. inState'[r] = "failed" /\ \A q \in Receivers \ {r} : inState'[q] = inState[q]
      BY <1>4 DEF FailInbound, Inv, TypeOK
    <2>2. ~resumable[r]
      BY <1>4 DEF Inv, RecordOK
    <2>3. Phase(r) = "checking" /\ Phase(r)' = "over"
      BY <1>1, <1>4, <2>1, <2>2 DEF Phase
    <2>4. Pull!Become(r, "over")
      BY <1>1, <2>1, <2>3, PhaseMoves
    <2>5. Pull!Abandon(r)
      BY <1>1, <1>4, <2>3, <2>4 DEF Pull!Abandon, Pull!Arrives
    <2> QED
      BY <2>5 DEF PullStep, Pull!PullNext
  <1> QED
    BY <1>2, <1>3, <1>4 DEF FileHashed

LEMMA DropPulls ==
  ASSUME Inv, NEW r \in Receivers, DropRecord(r), UNCHANGED saved PROVE PullStep
  <1>1. /\ inState'[r] = "none"
        /\ \A q \in Receivers \ {r} :
             inState'[q] = inState[q] /\ resumable'[q] = resumable[q]
    BY DEF DropRecord, Inv, TypeOK
  <1>2. Phase(r)' = "none"
    BY <1>1 DEF Phase
  <1>3. Pull!Become(r, "none")
    BY <1>1, <1>2, PhaseMoves
  <1>4. stored' = [stored EXCEPT ![r] = Pull!Nothing]
    BY DEF DropRecord, Pull!Nothing, Empty
  <1>5. CASE inState[r] # "none"
    <2>1. Phase(r) # "none"
      BY <1>5 DEF Phase, Inv, TypeOK, States
    <2>2. Pull!Forget(r)
      BY <1>3, <1>4, <2>1 DEF Pull!Forget
    <2> QED
      BY <2>2 DEF PullStep, Pull!PullNext
  <1>6. CASE inState[r] = "none"
    <2>1. stored' = stored
      BY <1>6 DEF DropRecord, Inv, TypeOK, RecordOK
    <2>2. Phase(r) = "none"
      BY <1>6 DEF Phase
    <2>3. \A q \in Receivers : Phase(q)' = Phase(q)
      BY <1>1, <1>2, <2>2 DEF Phase
    <2> QED
      BY <2>1, <2>3 DEF PullStep, Pull!pullVars
  <1> QED
    BY <1>5, <1>6

LEMMA WithdrawPulls ==
  ASSUME Inv, NEW r \in Receivers, Cancel(r) \/ Reject(r) PROVE PullStep
  <1>1. /\ UNCHANGED <<stored, resumable, saved>> /\ inState[r] # "none"
        /\ \E s \in {"rejected", "cancelled"} : inState' = [inState EXCEPT ![r] = s]
    BY DEF Cancel, Reject
  <1>2. /\ inState'[r] \in {"rejected", "cancelled"}
        /\ \A q \in Receivers \ {r} : inState'[q] = inState[q]
    BY <1>1 DEF Inv, TypeOK
  <1>3. Phase(r) # "none" /\ Phase(r)' = "over"
    BY <1>1, <1>2 DEF Phase, Inv, TypeOK, States
  <1>4. Pull!Become(r, "over")
    BY <1>1, <1>2, <1>3, PhaseMoves
  <1>5. Pull!Abandon(r)
    BY <1>1, <1>3, <1>4 DEF Pull!Abandon, Pull!Arrives
  <1> QED
    BY <1>5 DEF PullStep, Pull!PullNext

LEMMA StepPulls == Inv /\ [Next]_vars => PullStep
  <1> SUFFICES ASSUME Inv, [Next]_vars PROVE PullStep
    OBVIOUS
  <1>1. CASE UNCHANGED recvVars
    BY <1>1, PhaseStays DEF recvVars
  <1>2. CASE \/ SendFile \/ OfferPrepared \/ Revoke \/ OfferAges \/ GcOutbound
             \/ GcRevoked \/ SourceChanges \/ SenderRestarts \/ Pump \/ CancelSend
    BY <1>1, <1>2 DEF SendFile, OfferPrepared, Revoke, OfferAges, GcOutbound,
       GcRevoked, SourceChanges, SenderRestarts, Pump, CancelSend
  <1>3. ASSUME NEW r \in Receivers, AcceptArrives(r) \/ AnswerArrives(r)
        PROVE  PullStep
    BY <1>1, <1>3 DEF AcceptArrives, AnswerArrives
  <1>4. ASSUME NEW r \in Receivers, RefuseArrives(r) PROVE PullStep
    <2>1. UNCHANGED <<saved, hashing>>
          /\ (DropRecord(r) \/ UNCHANGED <<inState, stored, resumable>>)
      BY <1>4 DEF RefuseArrives
    <2> QED
      BY <2>1, DropPulls, PhaseStays
  <1>5. ASSUME NEW r \in Receivers, Discard(r) \/ ReceiverRestarts(r)
        PROVE  PullStep
    BY <1>5, DropPulls DEF Discard, ReceiverRestarts
  <1>6. ASSUME NEW r \in Receivers,
               \/ OfferArrives(r) \/ Accept(r) \/ Stall(r) \/ Retry(r)
               \/ CompleteArrives(r) \/ \E i \in Chunks : ChunkArrives(r, i)
               \/ FileHashed(r) \/ Cancel(r) \/ Reject(r)
        PROVE  PullStep
    BY <1>6, OfferPulls, AcceptPulls, StallPulls, RetryPulls, CompletePulls,
       ChunkPulls, HashedPulls, WithdrawPulls
  <1>7. CASE UNCHANGED vars
    BY <1>1, <1>7 DEF vars, recvVars
  <1> QED
    BY <1>2, <1>3, <1>4, <1>5, <1>6, <1>7 DEF Next

(* FileTransferManager keeps what FilePull promises to the person who      *)
(* accepted: stored bytes change only by the arrival of a missing chunk,   *)
(* an interruption keeps them, a file is published only when every chunk   *)
(* is the original, and bytes go only with the whole record.               *)
THEOREM TransferKeepsThePromise == Spec => KeepsThePromise
  BY InitPulls, StepPulls, InvHolds, PTL
    DEF Spec, KeepsThePromise, Pull!PullSpec, PullStep

=============================================================================
