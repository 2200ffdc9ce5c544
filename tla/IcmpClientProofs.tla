-------------------------- MODULE IcmpClientProofs --------------------------
(***************************************************************************)
(* Proofs about IcmpClient, for every --count, --len, capacity and bound,  *)
(* and for every width of the header's sequence number.                    *)
(***************************************************************************)
EXTENDS IcmpClient, EchoClientProofs

-----------------------------------------------------------------------------
(* The steps. *)

\* The steps of Next that the three clients share.
Shared == CommonNext \/ UNCHANGED vars

\* The client's own tick is the shared one.
LEMMA NextCases ==
    ASSUME [Next]_vars
    PROVE  \/ Shared
           \/ IcmpSetup \/ IcmpSendPanic \/ IcmpSend \/ IcmpSendError
           \/ IcmpRecv \/ IcmpSkip \/ IcmpRecvError
           \/ Network
  BY DEF Next, IcmpSendTick, Shared, CommonNext, SendTask

\* What a network step may do: a packet is added behind those in the socket,
\* or none.  It is a copy of one on the wire, its reply, or of another
\* process; only a duplication adds a reply and leaves the request.
LEMMA NetworkFacts ==
    ASSUME Network
    PROVE  /\ wire' \subseteq wire /\ dups' \in {dups, dups + 1}
           /\ Running /\ sockErr' \in {sockErr, TRUE}
           /\ UNCHANGED << now, sendVars, recvVars, chan, logVars, mainVars >>
           /\ \/ rxq' = rxq /\ dups' = dups
              \/ /\ Len(rxq) < RxCap /\ dups' = dups
                 /\ \E q : /\ rxq' = Append(rxq, q)
                           /\ q \in wire \/ q = [type |-> "reply",
                                id |-> "other", hseq |-> 0, seq |-> 0,
                                sent |-> now]
              \/ /\ Len(rxq) < RxCap
                 /\ \E p \in wire :
                      /\ rxq' = Append(rxq, ReplyTo(p))
                      /\ \/ wire' = wire \ {p} /\ dups' = dups
                         \/ dups' = dups + 1
  BY DEF Network, Arrive, Duplicate, Loop, Lose, Unreachable, Foreign, Receive

-----------------------------------------------------------------------------
(* Type correctness. *)

\* The reply to a packet has its numbers and its stamp.
LEMMA ReplyFacts ==
    ASSUME NEW p \in Packet
    PROVE  /\ ReplyTo(p) \in Packet
           /\ ReplyTo(p).type = "reply" /\ ReplyTo(p).id = p.id
           /\ ReplyTo(p).hseq = p.hseq
           /\ ReplyTo(p).seq = p.seq /\ ReplyTo(p).sent = p.sent
  BY DEF ReplyTo, Packet

\* The low part of a number fits the header.
LEMMA LowPart == \A n \in Nat : n % SeqMod \in 0 .. SeqMod - 1
  BY IcmpClientAssumption

\* The echo request is a packet.
LEMMA RequestFacts ==
    ASSUME TypeOK
    PROVE  /\ EchoRequest \in Packet
           /\ EchoRequest.type = "request" /\ EchoRequest.id = "own"
           /\ EchoRequest.hseq = payload.seq % SeqMod
           /\ EchoRequest.seq = payload.seq
           /\ EchoRequest.sent = payload.sent
<1>1. payload.seq \in Nat /\ payload.sent \in Nat
  BY DEF TypeOK
<1>2. payload.seq % SeqMod \in 0 .. SeqMod - 1
  BY <1>1, LowPart
<1>3. QED
  BY <1>1, <1>2 DEF EchoRequest, Packet, Ids

\* The packet of another process is one.
LEMMA ForeignFacts ==
    ASSUME now \in Nat
    PROVE  [type |-> "reply", id |-> "other", hseq |-> 0, seq |-> 0,
            sent |-> now] \in Packet
<1>1. 0 \in 0 .. SeqMod - 1
  BY IcmpClientAssumption
<1>2. QED
  BY <1>1 DEF Packet, Ids

\* The recv task turns a packet into a result with its numbers and stamp.
LEMMA ResultFacts ==
    ASSUME now \in Nat, NEW p \in Packet
    PROVE  /\ IcmpResultOf(p) \in Result
           /\ IcmpResultOf(p).hseq = p.hseq
           /\ IcmpResultOf(p).seq = p.seq /\ IcmpResultOf(p).sent = p.sent
<1>1. /\ p.seq \in Nat /\ p.sent \in Nat /\ p.hseq \in 0 .. SeqMod - 1
  BY DEF Packet
<1>2. now - p.sent \in Int
  BY <1>1
<1>3. QED
  BY <1>1, <1>2 DEF IcmpResultOf, Result

\* A result has a receive stamp.
LEMMA ResultRecv == \A r \in Result : r.recv \in Nat
  BY DEF Result

\* The clock is a number.
LEMMA NowType == TypeOK => now \in Nat
  BY EchoClientAssumption DEF TypeOK, ClientTypeOK

\* What IcmpRecv does: the head of the receive queue becomes a result.
LEMMA RecvFacts ==
    ASSUME TypeOK, IcmpRecv
    PROVE  /\ Reading /\ rxq # << >> /\ Head(rxq) \in Packet
           /\ IsOwnReply(Head(rxq))
           /\ RecvResult(IcmpResultOf(Head(rxq)))
           /\ IcmpResultOf(Head(rxq)) \in Result
           /\ IcmpResultOf(Head(rxq)).hseq = Head(rxq).hseq
           /\ IcmpResultOf(Head(rxq)).seq = Head(rxq).seq
           /\ IcmpResultOf(Head(rxq)).sent = Head(rxq).sent
<1>1. /\ Reading /\ rxq # << >> /\ IsOwnReply(Head(rxq))
      /\ RecvResult(IcmpResultOf(Head(rxq)))
  BY DEF IcmpRecv
<1>2. Head(rxq) \in Packet /\ now \in Nat
  BY <1>1, TailFacts, NowType DEF TypeOK
<1>3. QED
  BY <1>1, <1>2, ResultFacts

\* Every variable of the client keeps its type: TypeOK is inductive.
THEOREM TypeInvariance == Spec => []TypeOK
<1>1. Init => TypeOK
  <2> SUFFICES ASSUME Init PROVE TypeOK
    OBVIOUS
  <2>1. ClientTypeOK(Result)
    BY InitTypes DEF Init
  <2>2. payload = NoPayload /\ wire = {} /\ rxq = << >>
    BY DEF Init, ClientInit
  <2>3. QED
    BY <2>1, <2>2, IcmpClientAssumption DEF TypeOK, NoPayload
<1>2. ASSUME TypeOK, [Next]_vars PROVE TypeOK'
  <2> USE <1>2
  <2>0. /\ ClientTypeOK(Result)
        /\ payload \in [seq : Nat, sent : Nat, len : Nat]
        /\ wire \in SUBSET Packet
        /\ rxq \in Seq(Packet) /\ Len(rxq) <= RxCap
        /\ now \in Nat /\ sendSeq \in Nat /\ dups \in Nat
        /\ sockErr \in BOOLEAN /\ RxCap \in Nat
    BY NowType, IcmpClientAssumption DEF TypeOK, ClientTypeOK
  <2>1. CASE Shared
    <3>1. ClientTypeOK(Result)'
      BY <2>0, <2>1, ResultRecv, CommonTypes DEF Shared
    <3>2. UNCHANGED << wire, rxq >>
      BY <2>1 DEF Shared, CommonNext, SendTask, LogTask, Terminated, Tick,
         SendWarmup, SendTick, Enqueue, EnqueueClosed, LogTake, LogWrite,
         LogFail, Main, MainSendJoined, MainRecvJoined, GraceOver, LingerOver,
         vars, netVars
    <3>3. payload' \in [seq : Nat, sent : Nat, len : Nat]
      <4>1. CASE SendTick
        BY <2>0, <4>1 DEF SendTick
      <4>2. CASE ~SendTick
        <5>1. UNCHANGED payload
          BY <2>1, <4>2 DEF Shared, CommonNext, SendTask, LogTask, Terminated,
             Tick, SendWarmup, Enqueue, EnqueueClosed, LogTake, LogWrite,
             LogFail, Main, MainSendJoined, MainRecvJoined, GraceOver,
             LingerOver, vars, sendVars
        <5>2. QED
          BY <2>0, <5>1
      <4>3. QED
        BY <4>1, <4>2
    <3>4. QED
      BY <2>0, <3>1, <3>2, <3>3 DEF TypeOK
  <2>2. CASE IcmpSetup
    <3>1. /\ mainPc' \in {"panicked", "failed", "select"}
          /\ UNCHANGED << now, num_ping, sendPc, sendSeq, stamps, netVars,
                          recvVars, chan, logVars, warned >>
      BY <2>2 DEF IcmpSetup
    <3>2. payload' \in [seq : Nat, sent : Nat, len : Nat]
      <4>1. PICK len \in Lens :
              \/ payload' = payload
              \/ /\ len - HeaderLen >= 16
                 /\ payload' = [NoPayload EXCEPT !.len = len - HeaderLen]
        BY <2>2 DEF IcmpSetup
      <4>2. len \in Nat
        BY <4>1, IcmpClientAssumption
      <4>3. len - HeaderLen >= 16 => len - HeaderLen \in Nat
        BY <4>2 DEF HeaderLen
      <4>4. QED
        BY <2>0, <4>1, <4>3 DEF NoPayload
    <3>3. ClientTypeOK(Result)'
      BY <2>0, <3>1 DEF ClientTypeOK, netVars, recvVars, logVars
    <3>4. QED
      BY <2>0, <3>1, <3>2, <3>3 DEF TypeOK, netVars
  <2>3. CASE IcmpSendPanic
    <3>1. ClientTypeOK(Result)'
      BY <2>0, <2>3
      DEF IcmpSendPanic, ClientTypeOK, netVars, recvVars, logVars, mainVars
    <3>2. QED
      BY <2>0, <2>3, <3>1 DEF TypeOK, IcmpSendPanic, netVars
  <2>4. CASE IcmpSend \/ IcmpSendError
    <3>1. /\ SendAccepted \/ SendRejected
          /\ sockErr' \in BOOLEAN
          /\ UNCHANGED << payload, rxq >>
          /\ wire' \in {wire, wire \cup {EchoRequest}}
      BY <2>0, <2>4 DEF IcmpSend, SendAccepted, IcmpSendError, SendRejected
    <3>2. ClientTypeOK(Result)'
      BY <2>0, <3>1, SendTypes
    <3>3. wire' \in SUBSET Packet
      BY <2>0, <3>1, RequestFacts
    <3>4. QED
      BY <2>0, <3>1, <3>2, <3>3 DEF TypeOK
  <2>5. CASE IcmpRecv \/ IcmpSkip
    <3>1. rxq' = Tail(rxq) /\ rxq # << >> /\ UNCHANGED << payload, wire >>
      BY <2>5 DEF IcmpRecv, RecvResult, IcmpSkip, sendVars
    <3>2. rxq' \in Seq(Packet) /\ Len(rxq') <= RxCap
      BY <2>0, <3>1, TailFacts
    <3>3. ClientTypeOK(Result)'
      <4>1. CASE IcmpRecv
        BY <2>0, <4>1, RecvFacts, RecvTypes
      <4>2. CASE IcmpSkip
        BY <2>0, <4>2
        DEF IcmpSkip, ClientTypeOK, sendVars, recvVars, logVars, mainVars
      <4>3. QED
        BY <2>5, <4>1, <4>2
    <3>4. QED
      BY <2>0, <3>1, <3>2, <3>3 DEF TypeOK
  <2>6. CASE IcmpRecvError
    <3>1. /\ RecvEnded /\ sockErr' \in BOOLEAN
          /\ UNCHANGED << payload, wire, rxq >>
      BY <2>6 DEF IcmpRecvError, RecvEnded, sendVars
    <3>2. ClientTypeOK(Result)'
      BY <2>0, <3>1, RecvEndTypes
    <3>3. QED
      BY <2>0, <3>1, <3>2 DEF TypeOK
  <2>7. CASE Network
    <3>1. /\ wire' \subseteq wire /\ dups' \in {dups, dups + 1}
          /\ sockErr' \in {sockErr, TRUE}
          /\ UNCHANGED << now, sendVars, recvVars, chan, logVars, mainVars >>
          /\ \/ rxq' = rxq
             \/ /\ Len(rxq) < RxCap
                /\ \E q \in Packet : rxq' = Append(rxq, q)
      BY <2>0, <2>7, NetworkFacts, ReplyFacts, ForeignFacts
    <3>2. dups' \in Nat /\ sockErr' \in BOOLEAN
      <4>1. dups' \in Nat
        BY <2>0, <3>1
      <4>2. QED
        BY <2>0, <3>1, <4>1
    <3>3. ClientTypeOK(Result)'
      BY <2>0, <3>1, <3>2, NetworkTypes
    <3>4. rxq' \in Seq(Packet) /\ Len(rxq') <= RxCap
      <4>1. CASE rxq' = rxq
        BY <2>0, <4>1
      <4>2. ASSUME Len(rxq) < RxCap, NEW q \in Packet, rxq' = Append(rxq, q)
            PROVE  rxq' \in Seq(Packet) /\ Len(rxq') <= RxCap
        <5>1. rxq' \in Seq(Packet) /\ Len(rxq') = Len(rxq) + 1
          BY <2>0, <4>2, AppendFacts
        <5>2. QED
          BY <2>0, <4>2, <5>1
      <4>3. QED
        BY <3>1, <4>1, <4>2
    <3>5. QED
      BY <2>0, <3>1, <3>3, <3>4 DEF TypeOK, sendVars
  <2>8. QED
    BY <2>1, <2>2, <2>3, <2>4, <2>5, <2>6, <2>7, NextCases
<1>3. QED
  BY <1>1, <1>2, PTL DEF Spec

\* The steps of the ICMP client that are not shared leave the log task alone.
LEMMA Steps == [Next]_vars => ClientStep /\ (sendSeq' = sendSeq \/ Running)
<1> SUFFICES ASSUME [Next]_vars
             PROVE  ClientStep /\ (sendSeq' = sendSeq \/ Running)
  OBVIOUS
<1>1. CASE Shared
  <2>1. sendSeq' = sendSeq
    BY <1>1 DEF Shared, CommonNext, SendTask, LogTask, Terminated, Tick,
       SendWarmup, SendTick, Enqueue, EnqueueClosed, LogTake, LogWrite,
       LogFail, Main, MainSendJoined, MainRecvJoined, GraceOver, LingerOver,
       vars, sendVars
  <2>2. QED
    BY <1>1, <2>1 DEF ClientStep, Shared
<1>2. CASE IcmpSetup
  <2>1. Elsewhere /\ sendSeq' = sendSeq
    BY <1>2 DEF IcmpSetup, Elsewhere, logVars
  <2>2. QED
    BY <2>1 DEF ClientStep
<1>3. CASE Network
  <2>1. Elsewhere /\ sendSeq' = sendSeq
    BY <1>3, NetworkFacts DEF Elsewhere, sendVars, logVars, mainVars
  <2>2. QED
    BY <2>1 DEF ClientStep
<1>4. CASE ~(Shared \/ IcmpSetup \/ Network)
  <2>1. Elsewhere /\ Running
    BY <1>4, NextCases DEF IcmpSendPanic, IcmpSend, SendAccepted,
       IcmpSendError, SendRejected, IcmpRecv, Reading, RecvResult, IcmpSkip,
       IcmpRecvError, RecvEnded, Elsewhere, logVars, mainVars
  <2>2. QED
    BY <2>1 DEF ClientStep
<1>5. QED
  BY <1>1, <1>2, <1>3, <1>4

\* Only IcmpRecv gives the recv task a result.
LEMMA RecvTakesHand == IcmpRecv => hand = << >> /\ hand' # << >>
  BY DEF IcmpRecv, Reading, RecvResult

\* Only IcmpRecv adds a result to those read, and nothing takes one away.
LEMMA PipelineStep ==
    ASSUME TypeOK, [Next]_vars
    PROVE  /\ Pipeline \in Seq(Result)
           /\ IcmpRecv =>
                Pipeline' = Append(Pipeline, IcmpResultOf(Head(rxq)))
           /\ ~IcmpRecv => Pipeline' = Pipeline
<1>0. ClientTypeOK(Result)
  BY DEF TypeOK
<1>1. Pipeline \in Seq(Result)
  BY <1>0, PipelineType
<1>2. ASSUME IcmpRecv
      PROVE  Pipeline' = Append(Pipeline, IcmpResultOf(Head(rxq)))
  BY <1>0, <1>2, RecvFacts, RecvAppends
<1>3. ASSUME ~IcmpRecv PROVE Pipeline' = Pipeline
  <2>1. CASE Shared
    BY <1>0, <2>1, CommonKeepsPipeline DEF Shared
  <2>2. CASE Network
    BY <2>2, NetworkFacts DEF Pipeline, recvVars, logVars
  <2>3. CASE ~(Shared \/ Network)
    <3>1. UNCHANGED << logged, entry, chan, hand >>
      BY <1>3, <2>3, NextCases DEF IcmpSetup, IcmpSendPanic, IcmpSend,
         SendAccepted, IcmpSendError, SendRejected, IcmpSkip, IcmpRecvError,
         RecvEnded, recvVars, logVars
    <3>2. QED
      BY <3>1 DEF Pipeline
  <2>4. QED
    BY <2>1, <2>2, <2>3
<1>4. QED
  BY <1>1, <1>2, <1>3

-----------------------------------------------------------------------------
(* The time stamps and sequence numbers. *)

\* Packet or result r is own, and its header has the low part of its number.
Numbered(r, ss) == Own(r, ss) /\ r.hseq = r.seq % SeqMod

\* What makes RttDefined and the first part of CounterIsUnique inductive: the
\* numbers follow the history of stamps, stamps are in the past, and what the
\* recv task takes for an answer is one, in the socket as on the wire.
StampInv ==
    /\ mainPc = "setup" => sendPc = "warmup"
    /\ Len(stamps) = IF sendPc \in {"sending", "failed"} THEN sendSeq + 1
                     ELSE sendSeq
    /\ \A i \in 1 .. Len(stamps) : stamps[i] <= now
    /\ sendPc = "sending" => payload.seq = sendSeq /\ Own(payload, stamps)
    /\ \A p \in wire :
         p.type = "request" /\ p.id = "own" /\ Numbered(p, stamps)
    /\ \A i \in 1 .. Len(rxq) : IsOwnReply(rxq[i]) => Numbered(rxq[i], stamps)
    /\ \A i \in 1 .. Len(Pipeline) : Numbered(Pipeline[i], stamps)

\* A further request leaves what is numbered.
LEMMA NumberedGrows ==
    ASSUME NEW ss \in Seq(Nat), NEW t \in Nat, NEW r, Numbered(r, ss)
    PROVE  Numbered(r, Append(ss, t))
  BY OwnGrows DEF Numbered

\* What the network adds to the socket is an own reply only when it is the
\* reply to a packet on the wire.
LEMMA ArrivalFacts ==
    ASSUME TypeOK, StampInv, Network
    PROVE  \/ rxq' = rxq /\ dups' = dups
           \/ \E q \in Packet :
                /\ rxq' = Append(rxq, q)
                /\ \/ ~IsOwnReply(q) /\ dups' = dups
                   \/ \E p \in wire :
                        /\ q.seq = p.seq /\ Numbered(q, stamps)
                        /\ \/ wire' = wire \ {p} /\ dups' = dups
                           \/ dups' = dups + 1
<1>0. now \in Nat /\ wire \in SUBSET Packet
  BY NowType DEF TypeOK
<1>1. CASE rxq' = rxq /\ dups' = dups
  BY <1>1
<1>2. ASSUME NEW q, rxq' = Append(rxq, q), dups' = dups,
             \/ q \in wire
             \/ q = [type |-> "reply", id |-> "other", hseq |-> 0, seq |-> 0,
                     sent |-> now]
      PROVE  \E x \in Packet :
               rxq' = Append(rxq, x) /\ ~IsOwnReply(x) /\ dups' = dups
  <2>1. q \in Packet
    BY <1>0, <1>2, ForeignFacts
  <2>2. ~IsOwnReply(q)
    BY <1>2 DEF IsOwnReply, StampInv
  <2>3. QED
    BY <1>2, <2>1, <2>2
<1>3. ASSUME NEW p \in wire, rxq' = Append(rxq, ReplyTo(p))
      PROVE  \E q \in Packet :
               /\ rxq' = Append(rxq, q)
               /\ q.seq = p.seq /\ Numbered(q, stamps)
  <2>1. /\ ReplyTo(p) \in Packet /\ ReplyTo(p).hseq = p.hseq
        /\ ReplyTo(p).seq = p.seq /\ ReplyTo(p).sent = p.sent
    BY <1>0, ReplyFacts
  <2>2. Numbered(p, stamps)
    BY DEF StampInv
  <2>3. Numbered(ReplyTo(p), stamps)
    BY <2>1, <2>2 DEF Numbered, Own
  <2>4. QED
    BY <1>3, <2>1, <2>3
<1>4. QED
  BY <1>1, <1>2, <1>3, NetworkFacts

\* StampInv is inductive, given the types.
LEMMA StampInvStep == TypeOK /\ StampInv /\ [Next]_vars => StampInv'
<1> SUFFICES ASSUME TypeOK, StampInv, [Next]_vars PROVE StampInv'
  OBVIOUS
<1>0. /\ now \in Nat /\ sendSeq \in Nat /\ stamps \in Seq(Nat)
      /\ rxq \in Seq(Packet) /\ wire \in SUBSET Packet
      /\ \A i \in 1 .. Len(stamps) : stamps[i] \in Nat
      /\ Pipeline \in Seq(Result)
      /\ payload \in [seq : Nat, sent : Nat, len : Nat]
      /\ IcmpRecv => Pipeline' = Append(Pipeline, IcmpResultOf(Head(rxq)))
      /\ ~IcmpRecv => Pipeline' = Pipeline
  <2>1. now \in Nat /\ sendSeq \in Nat /\ stamps \in Seq(Nat)
    BY NowType DEF TypeOK, ClientTypeOK
  <2>2. \A i \in 1 .. Len(stamps) : stamps[i] \in Nat
    BY <2>1
  <2>3. QED
    BY <2>1, <2>2, PipelineStep DEF TypeOK
<1>1. CASE Tick
  <2>1. /\ UNCHANGED << mainPc, sendPc, sendSeq, stamps, payload, wire, rxq,
                        Pipeline >>
        /\ now' = now + 1
    BY <1>1 DEF Tick, sendVars, netVars, recvVars, logVars, mainVars, Pipeline
  <2>2. ASSUME NEW i \in 1 .. Len(stamps) PROVE stamps[i] <= now + 1
    <3>1. stamps[i] <= now
      BY DEF StampInv
    <3>2. QED
      BY <1>0, <3>1
  <2>3. QED
    BY <2>1, <2>2 DEF StampInv
<1>2. CASE SendTick
  <2>1. /\ sendPc = "pacing" /\ sendPc' = "sending"
        /\ Running /\ mainPc' = mainPc
        /\ stamps' = Append(stamps, now)
        /\ payload' = [payload EXCEPT !.seq = sendSeq, !.sent = now]
        /\ UNCHANGED << now, sendSeq, wire, rxq, Pipeline >>
    BY <1>2 DEF SendTick, netVars, recvVars, logVars, mainVars, Pipeline
  <2>2. /\ Len(stamps) = sendSeq /\ Len(stamps') = sendSeq + 1
        /\ stamps'[sendSeq + 1] = now
        /\ \A i \in 1 .. Len(stamps) : stamps'[i] = stamps[i]
    BY <1>0, <2>1, AppendFacts DEF StampInv
  <2>3. \A i \in 1 .. Len(stamps') : stamps'[i] <= now'
    <3>1. TAKE i \in 1 .. Len(stamps')
    <3>2. CASE i \in 1 .. Len(stamps)
      BY <2>1, <2>2, <3>2 DEF StampInv
    <3>3. CASE i = sendSeq + 1
      BY <1>0, <2>1, <2>2, <3>3
    <3>4. QED
      BY <1>0, <2>2, <3>2, <3>3
  <2>4. payload'.seq = sendSeq' /\ Own(payload', stamps')
    <3>1. payload'.seq = sendSeq /\ payload'.sent = now
      BY <1>0, <2>1
    <3>2. QED
      BY <1>0, <2>1, <2>2, <3>1, OwnLast
  <2>5. /\ \A p \in wire : p.type = "request" /\ p.id = "own"
                           /\ Numbered(p, stamps')
        /\ \A i \in 1 .. Len(rxq) :
             IsOwnReply(rxq[i]) => Numbered(rxq[i], stamps')
        /\ \A i \in 1 .. Len(Pipeline) : Numbered(Pipeline[i], stamps')
    BY <1>0, <2>1, NumberedGrows DEF StampInv
  <2>6. mainPc' # "setup"
    BY <2>1 DEF Running
  <2>7. QED
    BY <2>1, <2>2, <2>3, <2>4, <2>5, <2>6 DEF StampInv
<1>3. CASE IcmpSend
  <2>1. /\ sendPc = "sending" /\ sendPc' \in {"done", "pacing"}
        /\ Running /\ mainPc' = mainPc
        /\ sendSeq' = sendSeq + 1
        /\ wire' = wire \cup {EchoRequest}
        /\ UNCHANGED << now, stamps, rxq, Pipeline >>
    BY <1>3 DEF IcmpSend, SendAccepted, LoopTop, recvVars, logVars, mainVars,
       Pipeline
  <2>2. /\ EchoRequest.type = "request" /\ EchoRequest.id = "own"
        /\ Numbered(EchoRequest, stamps)
    BY <2>1, RequestFacts DEF StampInv, Numbered, Own
  <2>3. mainPc' # "setup"
    BY <2>1 DEF Running
  <2>4. QED
    BY <2>1, <2>2, <2>3 DEF StampInv
<1>4. CASE IcmpSendError \/ IcmpSendPanic
  <2>1. /\ \/ sendPc = "sending" /\ sendPc' = "failed"
           \/ sendPc = "pacing" /\ sendPc' = "panicked"
        /\ Running /\ mainPc' = mainPc
        /\ UNCHANGED << now, sendSeq, stamps, wire, rxq, Pipeline >>
    BY <1>4 DEF IcmpSendError, SendRejected, IcmpSendPanic, netVars, recvVars,
       logVars, mainVars, Pipeline
  <2>2. mainPc' # "setup"
    BY <2>1 DEF Running
  <2>3. QED
    BY <2>1, <2>2 DEF StampInv
<1>5. CASE IcmpRecv
  <2> DEFINE p == Head(rxq)
             r == IcmpResultOf(p)
  <2>1. /\ rxq # << >> /\ rxq' = Tail(rxq) /\ mainPc' = mainPc
        /\ UNCHANGED << now, sendVars, wire >>
    BY <1>5 DEF IcmpRecv, RecvResult, mainVars
  <2>2. /\ p = rxq[1] /\ 1 \in 1 .. Len(rxq)
        /\ \A i \in 1 .. Len(rxq') :
             i + 1 \in 1 .. Len(rxq) /\ rxq'[i] = rxq[i + 1]
    BY <1>0, <2>1, TailFacts
  <2>3. /\ r \in Result /\ IsOwnReply(p)
        /\ r.hseq = p.hseq /\ r.seq = p.seq /\ r.sent = p.sent
    BY <1>5, RecvFacts
  <2>4. Numbered(r, stamps)
    <3>1. Numbered(p, stamps)
      BY <2>2, <2>3 DEF StampInv
    <3>2. QED
      BY <2>3, <3>1 DEF Numbered, Own
  <2>5. Pipeline' = Append(Pipeline, r)
    BY <1>0, <1>5
  <2> HIDE DEF p, r
  <2>6. ASSUME NEW i \in 1 .. Len(Pipeline')
        PROVE  Numbered(Pipeline'[i], stamps)
    <3>1. /\ Len(Pipeline') = Len(Pipeline) + 1 /\ Len(Pipeline) \in Nat
          /\ Pipeline'[Len(Pipeline) + 1] = r
          /\ \A k \in 1 .. Len(Pipeline) : Pipeline'[k] = Pipeline[k]
      BY <1>0, <2>3, <2>5, AppendFacts
    <3>2. CASE i \in 1 .. Len(Pipeline)
      BY <3>1, <3>2 DEF StampInv
    <3>3. CASE i = Len(Pipeline) + 1
      BY <2>4, <3>1, <3>3
    <3>4. QED
      BY <3>1, <3>2, <3>3
  <2>7. \A i \in 1 .. Len(rxq') :
          IsOwnReply(rxq'[i]) => Numbered(rxq'[i], stamps)
    BY <2>2 DEF StampInv
  <2>8. QED
    BY <2>1, <2>6, <2>7 DEF StampInv, sendVars
<1>6. CASE IcmpSkip
  <2>1. /\ rxq # << >> /\ rxq' = Tail(rxq) /\ mainPc' = mainPc
        /\ UNCHANGED << now, sendVars, wire, Pipeline >>
    BY <1>6 DEF IcmpSkip, recvVars, logVars, mainVars, Pipeline
  <2>2. \A i \in 1 .. Len(rxq') :
          i + 1 \in 1 .. Len(rxq) /\ rxq'[i] = rxq[i + 1]
    BY <1>0, <2>1, TailFacts
  <2>3. \A i \in 1 .. Len(rxq') :
          IsOwnReply(rxq'[i]) => Numbered(rxq'[i], stamps)
    BY <2>2 DEF StampInv
  <2>4. QED
    BY <2>1, <2>3 DEF StampInv, sendVars
<1>7. CASE Network
  <2>1. /\ wire' \subseteq wire /\ mainPc' = mainPc
        /\ UNCHANGED << now, sendVars, Pipeline >>
    BY <1>7, NetworkFacts DEF recvVars, logVars, mainVars, Pipeline
  <2>2. \/ rxq' = rxq
        \/ \E q \in Packet : /\ rxq' = Append(rxq, q)
                             /\ IsOwnReply(q) => Numbered(q, stamps)
    BY <1>7, ArrivalFacts
  <2>3. \A i \in 1 .. Len(rxq') :
          IsOwnReply(rxq'[i]) => Numbered(rxq'[i], stamps)
    <3>1. CASE rxq' = rxq
      BY <3>1 DEF StampInv
    <3>2. ASSUME NEW q \in Packet, rxq' = Append(rxq, q),
                 IsOwnReply(q) => Numbered(q, stamps),
                 NEW i \in 1 .. Len(rxq'), IsOwnReply(rxq'[i])
          PROVE  Numbered(rxq'[i], stamps)
      <4>1. /\ Len(rxq') = Len(rxq) + 1 /\ Len(rxq) \in Nat
            /\ rxq'[Len(rxq) + 1] = q
            /\ \A k \in 1 .. Len(rxq) : rxq'[k] = rxq[k]
        BY <1>0, <3>2, AppendFacts
      <4>2. i \in 1 .. Len(rxq) \/ i = Len(rxq) + 1
        BY <4>1
      <4>3. QED
        BY <3>2, <4>1, <4>2 DEF StampInv
    <3>3. QED
      BY <2>2, <3>1, <3>2
  <2>4. QED
    BY <2>1, <2>3 DEF StampInv, sendVars
<1>8. CASE IcmpSetup
  <2>1. /\ mainPc = "setup" /\ mainPc' # "setup"
        /\ UNCHANGED << now, sendPc, sendSeq, stamps, wire, rxq, Pipeline >>
    BY <1>8 DEF IcmpSetup, netVars, recvVars, logVars, Pipeline
  <2>2. QED
    BY <2>1 DEF StampInv
<1>9. CASE SendWarmup
  <2>1. /\ sendPc = "warmup" /\ sendPc' \in {"done", "pacing"}
        /\ Running /\ mainPc' = mainPc
        /\ UNCHANGED << now, sendSeq, stamps, wire, rxq, Pipeline >>
    BY <1>9 DEF SendWarmup, LoopTop, netVars, recvVars, logVars, mainVars,
       Pipeline
  <2>2. mainPc' # "setup"
    BY <2>1 DEF Running
  <2>3. QED
    BY <2>1, <2>2 DEF StampInv
<1>10. CASE \/ IcmpRecvError \/ Enqueue \/ EnqueueClosed
            \/ LogTake \/ LogWrite \/ LogFail \/ Main \/ UNCHANGED vars
  <2>1. /\ UNCHANGED << now, sendVars, wire, rxq >>
        /\ hand # << >> \/ hand' = hand
        /\ mainPc' = "setup" => mainPc = "setup"
    BY <1>10 DEF recvVars, IcmpRecvError, RecvEnded, Enqueue, EnqueueClosed,
       LogTake, LogWrite, LogFail, Main, MainSendJoined, MainRecvJoined,
       GraceOver, LingerOver, vars, netVars, mainVars
  <2>2. Pipeline' = Pipeline
    BY <1>0, <2>1, RecvTakesHand
  <2>3. QED
    BY <2>1, <2>2 DEF StampInv, sendVars
<1>11. QED
  BY <1>1, <1>2, <1>3, <1>4, <1>5, <1>6, <1>7, <1>8, <1>9, <1>10, NextCases
  DEF Shared, CommonNext, SendTask, LogTask, Terminated

\* StampInv holds in every state.
LEMMA StampInvariance == Spec => []StampInv
<1>1. Init => StampInv
  <2> SUFFICES ASSUME Init PROVE StampInv
    OBVIOUS
  <2>1. /\ stamps = << >> /\ logged = << >> /\ entry = << >> /\ chan = << >>
        /\ hand = << >> /\ rxq = << >> /\ wire = {}
        /\ sendPc = "warmup" /\ sendSeq = 0
    BY DEF Init, ClientInit
  <2>2. Pipeline = << >>
    BY <2>1 DEF Pipeline
  <2>3. QED
    BY <2>1, <2>2 DEF StampInv
<1>2. QED
  BY <1>1, StampInvStep, TypeInvariance, PTL DEF Spec

\* RttDefined: recv_timestamp - send_timestamp never underflows for a reply to
\* this client, and only for such a reply is it computed.
THEOREM RttAlwaysDefined == Spec => []RttDefined
<1>1. TypeOK /\ StampInv => RttDefined
  <2> SUFFICES ASSUME TypeOK, StampInv,
                      NEW i \in DOMAIN rxq, IsOwnReply(rxq[i])
               PROVE  rxq[i].sent <= now
    BY DEF RttDefined
  <2>1. i \in 1 .. Len(rxq)
    BY DEF TypeOK
  <2>2. QED
    BY <2>1 DEF StampInv, Numbered, Own
<1>2. QED
  BY <1>1, StampInvariance, TypeInvariance, PTL

-----------------------------------------------------------------------------
(* The client implements EchoLog. *)

\* Every step of the client is a step of EchoLog, or changes nothing there.
LEMMA StepKeepsPromise ==
    TypeOK /\ StampInv /\ [Next]_vars => [Promise!Next]_(Promise!vars)
<1> SUFFICES ASSUME TypeOK, StampInv, [Next]_vars
             PROVE  Promise!Next \/ UNCHANGED Promise!vars
  OBVIOUS
<1>0. ClientTypeOK(Result) /\ rxq \in Seq(Packet)
  BY DEF TypeOK
<1>1. CASE Shared
  BY <1>0, <1>1, CommonKeepsPromise DEF Shared
<1>2. CASE IcmpRecv
  <2> DEFINE p == Head(rxq)
             r == IcmpResultOf(p)
  <2>1. /\ Reading /\ rxq # << >> /\ RecvResult(r) /\ r \in Result
        /\ IsOwnReply(p) /\ r.seq = p.seq /\ r.sent = p.sent
    BY <1>2, RecvFacts
  <2>2. p = rxq[1] /\ 1 \in 1 .. Len(rxq)
    BY <1>0, <2>1, TailFacts
  <2>3. Numbered(p, stamps)
    BY <2>1, <2>2 DEF StampInv
  <2> HIDE DEF p, r
  <2>4. Own(r, stamps)
    BY <2>1, <2>3 DEF Own, Numbered
  <2>5. QED
    BY <1>0, <2>1, <2>4, OwnAnswers, RecvKeepsPromise
<1>3. CASE IcmpSetup
  <2>1. ~Ended /\ UNCHANGED << stamps, logged, entry, chan, hand >>
    BY <1>3 DEF IcmpSetup, Ended, recvVars, logVars
  <2>2. QED
    BY <2>1, MainKeepsPromise
<1>4. CASE Network
  <2>1. UNCHANGED << stamps, logged, entry, chan, hand, mainPc >>
    BY <1>4, NetworkFacts DEF sendVars, recvVars, logVars, mainVars
  <2>2. QED
    BY <2>1, OutsideKeepsPromise
<1>5. CASE ~(Shared \/ IcmpRecv \/ IcmpSetup \/ Network)
  <2>1. UNCHANGED << stamps, logged, entry, chan, hand, mainPc >>
    BY <1>5, NextCases DEF IcmpSendPanic, IcmpSend, SendAccepted,
       IcmpSendError, SendRejected, IcmpSkip, IcmpRecvError, RecvEnded,
       sendVars, recvVars, logVars, mainVars
  <2>2. QED
    BY <2>1, OutsideKeepsPromise
<1>6. QED
  BY <1>1, <1>2, <1>3, <1>4, <1>5

\* KeepsPromise: among the packets of other processes, and with a header whose
\* numbers wrap, the ICMP client still implements the promise of EchoLog.
THEOREM IcmpClientKeepsPromise == Spec => KeepsPromise
<1>1. Init => Promise!Init
  BY InitKeepsPromise DEF Init
<1>2. QED
  BY <1>1, StepKeepsPromise, TypeInvariance, StampInvariance, PTL
  DEF Spec, KeepsPromise, Promise!Spec

-----------------------------------------------------------------------------
(* One result for each number. *)

\* What makes CounterIsUnique inductive: requests, replies and results are
\* those of packets counted as sent, and until the network duplicates a reply
\* there is one of each: on the wire, in the socket, or read.
UniqueInv ==
    /\ \A p \in wire : p.seq < sendSeq
    /\ \A i \in 1 .. Len(rxq) : IsOwnReply(rxq[i]) => rxq[i].seq < sendSeq
    /\ \A i \in 1 .. Len(Pipeline) : Pipeline[i].seq < sendSeq
    /\ dups = 0 =>
         /\ \A i, j \in 1 .. Len(rxq) :
              i # j /\ IsOwnReply(rxq[i]) /\ IsOwnReply(rxq[j])
                => rxq[i].seq # rxq[j].seq
         /\ \A i, j \in 1 .. Len(Pipeline) :
              i # j => Pipeline[i].seq # Pipeline[j].seq
         /\ \A i \in 1 .. Len(rxq), j \in 1 .. Len(Pipeline) :
              IsOwnReply(rxq[i]) => rxq[i].seq # Pipeline[j].seq
         /\ \A p \in wire :
              /\ \A i \in 1 .. Len(rxq) :
                   IsOwnReply(rxq[i]) => p.seq # rxq[i].seq
              /\ \A i \in 1 .. Len(Pipeline) : p.seq # Pipeline[i].seq

\* Two requests of the same number are the same.
LEMMA RequestIsUnique ==
    ASSUME TypeOK, StampInv, NEW p \in wire, NEW q \in wire, p.seq = q.seq
    PROVE  p = q
<1>1. /\ p \in Packet /\ q \in Packet
      /\ p.type = q.type /\ p.id = q.id /\ p.hseq = q.hseq
  BY DEF TypeOK, StampInv, Numbered
<1>2. p.sent = q.sent
  BY DEF StampInv, Numbered, Own
<1>3. QED
  BY <1>1, <1>2 DEF Packet

\* UniqueInv is inductive, given the types and what is numbered.
LEMMA UniqueInvStep ==
    TypeOK /\ StampInv /\ UniqueInv /\ [Next]_vars => UniqueInv'
<1> SUFFICES ASSUME TypeOK, StampInv, UniqueInv, [Next]_vars PROVE UniqueInv'
  OBVIOUS
<1>0. /\ sendSeq \in Nat /\ dups \in Nat
      /\ rxq \in Seq(Packet) /\ wire \in SUBSET Packet
      /\ Pipeline \in Seq(Result)
      /\ IcmpRecv => Pipeline' = Append(Pipeline, IcmpResultOf(Head(rxq)))
      /\ ~IcmpRecv => Pipeline' = Pipeline
      /\ Len(rxq) \in Nat /\ Len(Pipeline) \in Nat
      /\ \A p \in wire : p.seq \in Nat
      /\ \A i \in 1 .. Len(rxq) : rxq[i].seq \in Nat
      /\ \A i \in 1 .. Len(Pipeline) : Pipeline[i].seq \in Nat
  <2>1. /\ sendSeq \in Nat /\ dups \in Nat
        /\ rxq \in Seq(Packet) /\ wire \in SUBSET Packet
        /\ Pipeline \in Seq(Result)
    BY PipelineStep DEF TypeOK, ClientTypeOK
  <2>2. Len(rxq) \in Nat /\ Len(Pipeline) \in Nat
    BY <2>1
  <2>3. \A p \in Packet : p.seq \in Nat
    BY DEF Packet
  <2>4. \A r \in Result : r.seq \in Nat
    BY DEF Result
  <2>5. /\ \A i \in 1 .. Len(rxq) : rxq[i] \in Packet
        /\ \A i \in 1 .. Len(Pipeline) : Pipeline[i] \in Result
    BY <2>1
  <2>6. QED
    BY <2>1, <2>2, <2>3, <2>4, <2>5, PipelineStep
<1>1. CASE IcmpSend
  <2>1. /\ EchoRequest.seq = sendSeq /\ sendSeq' = sendSeq + 1
        /\ wire' = wire \cup {EchoRequest}
        /\ UNCHANGED << rxq, dups, Pipeline >>
    BY <1>1, RequestFacts DEF IcmpSend, SendAccepted, recvVars, logVars,
       Pipeline, StampInv
  <2>2. /\ \A p \in wire' : p.seq < sendSeq'
        /\ \A i \in 1 .. Len(rxq) :
             IsOwnReply(rxq[i]) => rxq[i].seq < sendSeq'
        /\ \A i \in 1 .. Len(Pipeline) : Pipeline[i].seq < sendSeq'
    BY <1>0, <2>1 DEF UniqueInv
  <2>3. ASSUME dups = 0, NEW p \in wire'
        PROVE  /\ \A i \in 1 .. Len(rxq) :
                    IsOwnReply(rxq[i]) => p.seq # rxq[i].seq
               /\ \A i \in 1 .. Len(Pipeline) : p.seq # Pipeline[i].seq
    <3>1. CASE p \in wire
      BY <2>3, <3>1 DEF UniqueInv
    <3>2. CASE p = EchoRequest
      <4>1. p.seq = sendSeq
        BY <2>1, <3>2
      <4>2. QED
        BY <1>0, <4>1 DEF UniqueInv
    <3>3. QED
      BY <2>1, <3>1, <3>2
  <2>4. QED
    BY <2>1, <2>2, <2>3 DEF UniqueInv
<1>2. CASE IcmpRecv
  <2> DEFINE p == Head(rxq)
             r == IcmpResultOf(p)
  <2>1. /\ rxq # << >> /\ rxq' = Tail(rxq)
        /\ UNCHANGED << sendSeq, wire, dups >>
    BY <1>2 DEF IcmpRecv, RecvResult, sendVars
  <2>2. /\ p = rxq[1] /\ 1 \in 1 .. Len(rxq)
        /\ \A i \in 1 .. Len(rxq') :
             i + 1 \in 1 .. Len(rxq) /\ rxq'[i] = rxq[i + 1]
    BY <1>0, <2>1, TailFacts
  <2>3. r \in Result /\ r.seq = rxq[1].seq /\ IsOwnReply(rxq[1])
    BY <1>2, <2>2, RecvFacts
  <2>4. Pipeline' = Append(Pipeline, r)
    BY <1>0, <1>2
  <2> HIDE DEF p, r
  <2>5. /\ Len(Pipeline') = Len(Pipeline) + 1
        /\ Pipeline'[Len(Pipeline) + 1] = r
        /\ \A k \in 1 .. Len(Pipeline) : Pipeline'[k] = Pipeline[k]
        /\ \A k \in 1 .. Len(Pipeline') :
             k \in 1 .. Len(Pipeline) \/ k = Len(Pipeline) + 1
    BY <1>0, <2>3, <2>4, AppendFacts
  <2>6. ASSUME NEW k \in 1 .. Len(Pipeline')
        PROVE  \/ k \in 1 .. Len(Pipeline) /\ Pipeline'[k] = Pipeline[k]
               \/ k = Len(Pipeline) + 1 /\ Pipeline'[k].seq = rxq[1].seq
    BY <2>3, <2>5
  <2>7. /\ \A i \in 1 .. Len(rxq') :
             IsOwnReply(rxq'[i]) => rxq'[i].seq < sendSeq
        /\ \A k \in 1 .. Len(Pipeline') : Pipeline'[k].seq < sendSeq
    BY <2>2, <2>3, <2>6 DEF UniqueInv
  <2>8. ASSUME dups = 0
        PROVE  /\ \A i, j \in 1 .. Len(rxq') :
                    i # j /\ IsOwnReply(rxq'[i]) /\ IsOwnReply(rxq'[j])
                      => rxq'[i].seq # rxq'[j].seq
               /\ \A i, j \in 1 .. Len(Pipeline') :
                    i # j => Pipeline'[i].seq # Pipeline'[j].seq
               /\ \A i \in 1 .. Len(rxq'), j \in 1 .. Len(Pipeline') :
                    IsOwnReply(rxq'[i]) => rxq'[i].seq # Pipeline'[j].seq
               /\ \A q \in wire :
                    /\ \A i \in 1 .. Len(rxq') :
                         IsOwnReply(rxq'[i]) => q.seq # rxq'[i].seq
                    /\ \A i \in 1 .. Len(Pipeline') : q.seq # Pipeline'[i].seq
    <3>1. /\ \A i, j \in 1 .. Len(rxq) :
               i # j /\ IsOwnReply(rxq[i]) /\ IsOwnReply(rxq[j])
                 => rxq[i].seq # rxq[j].seq
          /\ \A i, j \in 1 .. Len(Pipeline) :
               i # j => Pipeline[i].seq # Pipeline[j].seq
          /\ \A i \in 1 .. Len(rxq), j \in 1 .. Len(Pipeline) :
               IsOwnReply(rxq[i]) => rxq[i].seq # Pipeline[j].seq
          /\ \A q \in wire :
               /\ \A i \in 1 .. Len(rxq) :
                    IsOwnReply(rxq[i]) => q.seq # rxq[i].seq
               /\ \A i \in 1 .. Len(Pipeline) : q.seq # Pipeline[i].seq
      BY <2>8 DEF UniqueInv
    <3>2. ASSUME NEW i \in 1 .. Len(rxq'), NEW j \in 1 .. Len(rxq'), i # j,
                 IsOwnReply(rxq'[i]), IsOwnReply(rxq'[j])
          PROVE  rxq'[i].seq # rxq'[j].seq
      <4>1. i + 1 # j + 1
        BY <3>2
      <4>2. QED
        BY <2>2, <3>1, <3>2, <4>1
    <3>3. ASSUME NEW i \in 1 .. Len(Pipeline'), NEW j \in 1 .. Len(Pipeline'),
                 i # j
          PROVE  Pipeline'[i].seq # Pipeline'[j].seq
      BY <2>2, <2>3, <2>6, <3>1, <3>3
    <3>4. ASSUME NEW i \in 1 .. Len(rxq'), NEW j \in 1 .. Len(Pipeline'),
                 IsOwnReply(rxq'[i])
          PROVE  rxq'[i].seq # Pipeline'[j].seq
      <4>1. i + 1 \in 1 .. Len(rxq) /\ i + 1 # 1 /\ rxq'[i] = rxq[i + 1]
        BY <1>0, <2>2
      <4>2. QED
        BY <2>2, <2>3, <2>6, <3>1, <3>4, <4>1
    <3>5. ASSUME NEW q \in wire
          PROVE  /\ \A i \in 1 .. Len(rxq') :
                      IsOwnReply(rxq'[i]) => q.seq # rxq'[i].seq
                 /\ \A i \in 1 .. Len(Pipeline') : q.seq # Pipeline'[i].seq
      <4>1. \A i \in 1 .. Len(rxq') :
              IsOwnReply(rxq'[i]) => q.seq # rxq'[i].seq
        BY <2>2, <3>1
      <4>2. q.seq # rxq[1].seq
        BY <2>2, <2>3, <3>1
      <4>3. \A i \in 1 .. Len(Pipeline') : q.seq # Pipeline'[i].seq
        BY <2>6, <3>1, <4>2
      <4>4. QED
        BY <4>1, <4>3
    <3>6. QED
      BY <3>2, <3>3, <3>4, <3>5
  <2>9. QED
    BY <2>1, <2>7, <2>8 DEF UniqueInv
<1>3. CASE IcmpSkip
  <2>1. /\ rxq # << >> /\ rxq' = Tail(rxq)
        /\ UNCHANGED << sendSeq, wire, dups, Pipeline >>
    BY <1>3 DEF IcmpSkip, sendVars, recvVars, logVars, Pipeline
  <2>2. \A i \in 1 .. Len(rxq') :
          i + 1 \in 1 .. Len(rxq) /\ rxq'[i] = rxq[i + 1]
    BY <1>0, <2>1, TailFacts
  <2>3. ASSUME dups = 0, NEW i \in 1 .. Len(rxq'), NEW j \in 1 .. Len(rxq'),
               i # j, IsOwnReply(rxq'[i]), IsOwnReply(rxq'[j])
        PROVE  rxq'[i].seq # rxq'[j].seq
    <3>1. i + 1 # j + 1
      BY <2>3
    <3>2. QED
      BY <2>2, <2>3, <3>1 DEF UniqueInv
  <2>4. QED
    BY <2>1, <2>2, <2>3 DEF UniqueInv
<1>4. CASE Network
  <2>1. /\ wire' \subseteq wire /\ dups' \in {dups, dups + 1}
        /\ UNCHANGED << sendSeq, Pipeline >>
    BY <1>4, NetworkFacts DEF sendVars, recvVars, logVars, Pipeline
  <2>2. CASE rxq' = rxq /\ dups' = dups
    BY <2>1, <2>2 DEF UniqueInv
  <2>3. ASSUME NEW q \in Packet, rxq' = Append(rxq, q), ~IsOwnReply(q),
               dups' = dups
        PROVE  UniqueInv'
    <3>1. ASSUME NEW k \in 1 .. Len(rxq'), IsOwnReply(rxq'[k])
          PROVE  k \in 1 .. Len(rxq) /\ rxq'[k] = rxq[k]
      <4>1. /\ Len(rxq') = Len(rxq) + 1 /\ rxq'[Len(rxq) + 1] = q
            /\ \A i \in 1 .. Len(rxq) : rxq'[i] = rxq[i]
        BY <1>0, <2>3, AppendFacts
      <4>2. k \in 1 .. Len(rxq) \/ k = Len(rxq) + 1
        BY <1>0, <4>1
      <4>3. QED
        BY <2>3, <3>1, <4>1, <4>2
    <3>2. QED
      BY <2>1, <2>3, <3>1 DEF UniqueInv
  <2>4. ASSUME NEW q \in Packet, NEW p \in wire, rxq' = Append(rxq, q),
               q.seq = p.seq,
               \/ wire' = wire \ {p} /\ dups' = dups
               \/ dups' = dups + 1
        PROVE  UniqueInv'
    <3>1. ASSUME NEW k \in 1 .. Len(rxq')
          PROVE  \/ k \in 1 .. Len(rxq) /\ rxq'[k] = rxq[k]
                 \/ k = Len(rxq) + 1 /\ rxq'[k].seq = p.seq
      BY <1>0, <2>4, AppendFacts
    <3>2. \A k \in 1 .. Len(rxq') :
            IsOwnReply(rxq'[k]) => rxq'[k].seq < sendSeq
      BY <3>1 DEF UniqueInv
    <3>3. CASE dups' # 0
      BY <2>1, <3>2, <3>3 DEF UniqueInv
    <3>4. CASE dups' = 0
      <4>1. dups = 0 /\ wire' = wire \ {p}
        BY <1>0, <2>4, <3>4
      <4>2. ASSUME NEW x \in wire' PROVE x \in wire /\ x.seq # p.seq
        BY <4>1, RequestIsUnique
      <4>3. ASSUME NEW i \in 1 .. Len(rxq), IsOwnReply(rxq[i])
            PROVE  rxq[i].seq # p.seq
        BY <4>1, <4>3 DEF UniqueInv
      <4>4. ASSUME NEW i \in 1 .. Len(rxq'), NEW j \in 1 .. Len(rxq'), i # j,
                   IsOwnReply(rxq'[i]), IsOwnReply(rxq'[j])
            PROVE  rxq'[i].seq # rxq'[j].seq
        <5>1. CASE i \in 1 .. Len(rxq) /\ rxq'[i] = rxq[i]
          BY <3>1, <4>1, <4>3, <4>4, <5>1 DEF UniqueInv
        <5>2. CASE i = Len(rxq) + 1 /\ rxq'[i].seq = p.seq
          BY <3>1, <4>3, <4>4, <5>2
        <5>3. QED
          BY <3>1, <5>1, <5>2
      <4>5. /\ \A i \in 1 .. Len(rxq'), j \in 1 .. Len(Pipeline) :
                 IsOwnReply(rxq'[i]) => rxq'[i].seq # Pipeline[j].seq
            /\ \A x \in wire' :
                 \A i \in 1 .. Len(rxq') :
                   IsOwnReply(rxq'[i]) => x.seq # rxq'[i].seq
        BY <3>1, <4>1, <4>2 DEF UniqueInv
      <4>6. QED
        BY <2>1, <3>2, <4>1, <4>4, <4>5 DEF UniqueInv
    <3>5. QED
      BY <3>3, <3>4
  <2>5. QED
    BY <1>4, <2>2, <2>3, <2>4, ArrivalFacts
<1>5. CASE ~(IcmpSend \/ IcmpRecv \/ IcmpSkip \/ Network)
  <2>1. UNCHANGED << sendSeq, wire, rxq, dups >>
    BY <1>5, NextCases DEF Shared, CommonNext, SendTask, LogTask, Terminated,
       Tick, SendWarmup, SendTick, Enqueue, EnqueueClosed, LogTake, LogWrite,
       LogFail, Main, MainSendJoined, MainRecvJoined, GraceOver, LingerOver,
       IcmpSetup, IcmpSendPanic, IcmpSendError, SendRejected, IcmpRecvError,
       RecvEnded, vars, sendVars, netVars
  <2>2. Pipeline' = Pipeline
    BY <1>0, <1>5
  <2>3. QED
    BY <2>1, <2>2 DEF UniqueInv
<1>6. QED
  BY <1>1, <1>2, <1>3, <1>4, <1>5

\* UniqueInv holds in every state.
LEMMA UniqueInvariance == Spec => []UniqueInv
<1>1. Init => UniqueInv
  <2> SUFFICES ASSUME Init PROVE UniqueInv
    OBVIOUS
  <2>1. /\ logged = << >> /\ entry = << >> /\ chan = << >> /\ hand = << >>
        /\ rxq = << >> /\ wire = {}
    BY DEF Init, ClientInit
  <2>2. Pipeline = << >>
    BY <2>1 DEF Pipeline
  <2>3. QED
    BY <2>1, <2>2 DEF UniqueInv
<1>2. QED
  BY <1>1, UniqueInvStep, StampInvariance, TypeInvariance, PTL DEF Spec

\* CounterIsUnique: however few bits the header has, two results have the same
\* internal number only when the network has duplicated a reply.
THEOREM NumbersAreUnique == Spec => []CounterIsUnique
<1>1. TypeOK /\ StampInv /\ UniqueInv => CounterIsUnique
  <2> SUFFICES ASSUME TypeOK, StampInv, UniqueInv PROVE CounterIsUnique
    OBVIOUS
  <2>1. DOMAIN Pipeline = 1 .. Len(Pipeline)
    <3>1. Pipeline \in Seq(Result)
      BY PipelineType DEF TypeOK
    <3>2. QED
      BY <3>1
  <2>2. QED
    BY <2>1 DEF CounterIsUnique, StampInv, UniqueInv, Numbered
<1>2. QED
  BY <1>1, UniqueInvariance, StampInvariance, TypeInvariance, PTL

-----------------------------------------------------------------------------
(* The log task and main. *)

\* FileLosesOnlyTail: whenever the process ends, the file holds the results
\* logged but for the last few.
THEOREM FileLosesOnlyTailAlways == Spec => []FileLosesOnlyTail
<1>1. Init => FileInv
  BY InitInvs DEF Init
<1>2. TypeOK /\ FileInv /\ [Next]_vars => FileInv'
  BY Steps, FileInvStep DEF TypeOK
<1>3. TypeOK /\ FileInv => FileLosesOnlyTail
  BY FileInvImplies DEF TypeOK
<1>4. QED
  BY <1>1, <1>2, <1>3, TypeInvariance, PTL DEF Spec

\* What main knows is right.
LEMMA ExitInvariance == Spec => []ExitInv
<1>1. Init => ExitInv
  BY InitInvs DEF Init
<1>2. TypeOK /\ ExitInv /\ [Next]_vars => ExitInv'
  BY Steps, ExitInvStep DEF TypeOK
<1>3. QED
  BY <1>1, <1>2, TypeInvariance, PTL DEF Spec

\* CompleteOnCleanExit: main compares two counters only, but without a
\* duplicate their equality means that each packet has its own result.
THEOREM CleanExitIsComplete == Spec => []CompleteOnCleanExit
<1>1. TypeOK /\ UniqueInv /\ ExitInv => CompleteOnCleanExit
  <2> SUFFICES ASSUME TypeOK, UniqueInv, ExitInv,
                      mainPc = "exited", ~warned, dups = 0,
                      NEW k \in 0 .. sendSeq - 1
               PROVE  \E i \in DOMAIN logged : logged[i].seq = k
    BY DEF CompleteOnCleanExit
  <2>1. /\ logged \in Seq(Result) /\ sendSeq \in Nat
        /\ DOMAIN logged = 1 .. Len(logged) /\ Len(logged) \in Nat
        /\ \A i \in 1 .. Len(logged) :
             i \in 1 .. Len(Pipeline) /\ logged[i] = Pipeline[i]
    BY LoggedFacts DEF TypeOK, ClientTypeOK
  <2>2. Len(logged) >= sendSeq
    BY <2>1 DEF ExitInv
  <2>3. \A i, j \in 1 .. Len(logged) : i # j => logged[i].seq # logged[j].seq
    BY <2>1 DEF UniqueInv
  <2>4. ASSUME NEW i \in 1 .. Len(logged)
        PROVE  logged[i].seq \in 0 .. sendSeq - 1
    <3>1. logged[i].seq \in Nat
      <4>1. logged[i] \in Result
        BY <2>1
      <4>2. \A r \in Result : r.seq \in Nat
        BY DEF Result
      <4>3. QED
        BY <4>1, <4>2
    <3>2. logged[i].seq < sendSeq
      BY <2>1 DEF UniqueInv
    <3>3. QED
      BY <2>1, <3>1, <3>2
  <2>5. \E i \in 1 .. Len(logged) : logged[i].seq = k
    BY <2>1, <2>2, <2>3, <2>4, NoneMissing
  <2>6. QED
    BY <2>1, <2>5
<1>2. QED
  BY <1>1, UniqueInvariance, ExitInvariance, TypeInvariance, PTL
=============================================================================
