--------------------------- MODULE UdpClientProofs ---------------------------
(***************************************************************************)
(* Proofs about UdpClient, for every --count, capacity and bound.          *)
(***************************************************************************)
EXTENDS UdpClient, EchoClientProofs

-----------------------------------------------------------------------------
(* Type correctness. *)

\* The recv task turns a packet into a result with its number and stamp.
LEMMA ResultFacts ==
    ASSUME now \in Nat, NEW p \in Packet
    PROVE  /\ UdpResultOf(p) \in Result
           /\ UdpResultOf(p).seq = p.seq /\ UdpResultOf(p).sent = p.sent
<1>1. p.seq \in Nat /\ p.sent \in Nat
  BY DEF Packet
<1>2. now - p.sent \in Int
  BY <1>1
<1>3. QED
  BY <1>1, <1>2 DEF UdpResultOf, Result

\* A result has a receive stamp.
LEMMA ResultRecv == \A r \in Result : r.recv \in Nat
  BY DEF Result

\* The clock is a number.
LEMMA NowType == TypeOK => now \in Nat
  BY EchoClientAssumption DEF TypeOK, ClientTypeOK

\* What UdpRecv does: the head of the receive queue becomes a result.
LEMMA RecvFacts ==
    ASSUME TypeOK, UdpRecv
    PROVE  /\ Reading /\ rxq # << >> /\ Head(rxq) \in Packet
           /\ RecvResult(UdpResultOf(Head(rxq)))
           /\ UdpResultOf(Head(rxq)) \in Result
           /\ UdpResultOf(Head(rxq)).seq = Head(rxq).seq
           /\ UdpResultOf(Head(rxq)).sent = Head(rxq).sent
<1>1. Reading /\ rxq # << >> /\ RecvResult(UdpResultOf(Head(rxq)))
  BY DEF UdpRecv
<1>2. Head(rxq) \in Packet /\ now \in Nat
  BY <1>1, TailFacts, NowType DEF TypeOK
<1>3. QED
  BY <1>1, <1>2, ResultFacts

\* Every variable of the client keeps its type: TypeOK is inductive.
THEOREM TypeInvariance == Spec => []TypeOK
<1>1. Init => TypeOK
  <2> SUFFICES ASSUME Init PROVE TypeOK
    OBVIOUS
  <2>1. ClientTypeOK(Result)
    BY InitTypes DEF Init
  <2>2. /\ payload = [seq |-> 0, sent |-> 0] /\ wire = {} /\ rxq = << >>
    BY DEF Init, ClientInit
  <2>3. QED
    BY <2>1, <2>2, UdpClientAssumption DEF TypeOK, Packet
<1>2. ASSUME TypeOK, [Next]_vars PROVE TypeOK'
  <2> USE <1>2
  <2>0. /\ ClientTypeOK(Result) /\ payload \in Packet
        /\ wire \in SUBSET Packet
        /\ rxq \in Seq(Packet) /\ Len(rxq) <= RxCap
        /\ now \in Nat /\ sendSeq \in Nat /\ dups \in Nat
    BY NowType DEF TypeOK, ClientTypeOK
  <2>1. CASE CommonNext \/ UNCHANGED vars
    <3>1. ClientTypeOK(Result)'
      BY <2>0, <2>1, ResultRecv, CommonTypes
    <3>2. UNCHANGED << wire, rxq >>
      BY <2>1 DEF CommonNext, SendTask, LogTask, Terminated, Tick, SendWarmup,
         SendTick, Enqueue, EnqueueClosed, LogTake, LogWrite, LogFail, Main,
         MainSendJoined, MainRecvJoined, GraceOver, LingerOver, vars, netVars
    <3>3. payload' \in Packet
      <4>1. CASE SendTick
        BY <2>0, <4>1 DEF SendTick, Packet
      <4>2. CASE ~SendTick
        <5>1. UNCHANGED payload
          BY <2>1, <4>2 DEF CommonNext, SendTask, LogTask, Terminated, Tick,
             SendWarmup, Enqueue, EnqueueClosed, LogTake, LogWrite, LogFail,
             Main, MainSendJoined, MainRecvJoined, GraceOver, LingerOver, vars,
             sendVars
        <5>2. QED
          BY <2>0, <5>1
      <4>3. QED
        BY <4>1, <4>2
    <3>4. QED
      BY <2>0, <3>1, <3>2, <3>3 DEF TypeOK
  <2>2. CASE UdpSend \/ UdpSendError
    <3>1. /\ SendAccepted \/ SendRejected
          /\ sockErr' \in BOOLEAN
          /\ wire' \in SUBSET Packet
          /\ UNCHANGED << payload, rxq >>
      BY <2>0, <2>2 DEF UdpSend, SendAccepted, UdpSendError, SendRejected,
         ClientTypeOK
    <3>2. ClientTypeOK(Result)'
      BY <2>0, <3>1, SendTypes
    <3>3. QED
      BY <2>0, <3>1, <3>2 DEF TypeOK
  <2>3. CASE UdpRecv
    <3>1. ClientTypeOK(Result)'
      BY <2>0, <2>3, RecvFacts, RecvTypes
    <3>2. /\ rxq' = Tail(rxq) /\ rxq # << >> /\ UNCHANGED << payload, wire >>
      BY <2>3 DEF UdpRecv, RecvResult, sendVars
    <3>3. rxq' \in Seq(Packet) /\ Len(rxq') <= RxCap
      BY <2>0, <3>2, TailFacts, UdpClientAssumption
    <3>4. QED
      BY <2>0, <3>1, <3>2, <3>3 DEF TypeOK
  <2>4. CASE UdpRecvError
    <3>1. RecvEnded /\ sockErr' \in BOOLEAN /\ UNCHANGED << payload, wire, rxq >>
      BY <2>4 DEF UdpRecvError, RecvEnded, sendVars
    <3>2. ClientTypeOK(Result)'
      BY <2>0, <3>1, RecvEndTypes
    <3>3. QED
      BY <2>0, <3>1, <3>2 DEF TypeOK
  <2>5. ASSUME NEW p \in wire,
               Arrive(p) \/ Duplicate(p) \/ Lose(p) \/ Unreachable(p)
        PROVE  TypeOK'
    <3>1. /\ wire' \subseteq wire /\ dups' \in {dups, dups + 1}
          /\ \/ rxq' = rxq
             \/ rxq' = Append(rxq, p) /\ Len(rxq) < RxCap
          /\ sockErr' \in {sockErr, TRUE}
          /\ UNCHANGED << now, sendVars, recvVars, chan, logVars, mainVars >>
      BY <2>5 DEF Arrive, Duplicate, Lose, Unreachable
    <3>2. dups' \in Nat /\ sockErr' \in BOOLEAN
      <4>1. dups' \in Nat
        BY <2>0, <3>1
      <4>2. sockErr \in BOOLEAN
        BY <2>0 DEF ClientTypeOK
      <4>3. QED
        BY <3>1, <4>1, <4>2
    <3>3. ClientTypeOK(Result)'
      BY <2>0, <3>1, <3>2, NetworkTypes
    <3>4. p \in Packet
      BY <2>0
    <3>5. rxq' \in Seq(Packet) /\ Len(rxq') <= RxCap
      <4>1. CASE rxq' = rxq
        BY <2>0, <4>1
      <4>2. CASE rxq' = Append(rxq, p) /\ Len(rxq) < RxCap
        <5>1. rxq' \in Seq(Packet) /\ Len(rxq') = Len(rxq) + 1
          BY <2>0, <3>4, <4>2, AppendFacts
        <5>2. QED
          BY <2>0, <4>2, <5>1, UdpClientAssumption
      <4>3. QED
        BY <3>1, <4>1, <4>2
    <3>6. QED
      BY <2>0, <3>1, <3>3, <3>5 DEF TypeOK, sendVars
  <2>6. QED
    BY <2>1, <2>2, <2>3, <2>4, <2>5 DEF Next, Network
<1>3. QED
  BY <1>1, <1>2, PTL DEF Spec

\* The steps of the UDP client that are not shared leave the log task alone.
LEMMA Steps == [Next]_vars => ClientStep /\ (sendSeq' = sendSeq \/ Running)
<1> SUFFICES ASSUME [Next]_vars
             PROVE  ClientStep /\ (sendSeq' = sendSeq \/ Running)
  OBVIOUS
<1>1. CASE CommonNext \/ UNCHANGED vars
  <2>1. sendSeq' = sendSeq
    BY <1>1 DEF CommonNext, SendTask, LogTask, Terminated, Tick, SendWarmup,
       SendTick, Enqueue, EnqueueClosed, LogTake, LogWrite, LogFail, Main,
       MainSendJoined, MainRecvJoined, GraceOver, LingerOver, vars, sendVars
  <2>2. QED
    BY <1>1, <2>1 DEF ClientStep
<1>2. CASE ~(CommonNext \/ UNCHANGED vars)
  <2>1. Elsewhere /\ Running
    BY <1>2 DEF Next, Network, UdpSend, SendAccepted, UdpSendError,
       SendRejected, UdpRecv, Reading, RecvResult, UdpRecvError, RecvEnded,
       Arrive, Duplicate, Lose, Unreachable, Elsewhere, logVars, mainVars
  <2>2. QED
    BY <2>1 DEF ClientStep
<1>3. QED
  BY <1>1, <1>2

\* Only UdpRecv gives the recv task a result.
LEMMA RecvTakesHand == UdpRecv => hand = << >> /\ hand' # << >>
  BY DEF UdpRecv, Reading, RecvResult

\* Only UdpRecv adds a result to those read, and nothing takes one away.
LEMMA PipelineStep ==
    ASSUME TypeOK, [Next]_vars
    PROVE  /\ Pipeline \in Seq(Result)
           /\ UdpRecv =>
                Pipeline' = Append(Pipeline, UdpResultOf(Head(rxq)))
           /\ ~UdpRecv => Pipeline' = Pipeline
<1>0. ClientTypeOK(Result)
  BY DEF TypeOK
<1>1. Pipeline \in Seq(Result)
  BY <1>0, PipelineType
<1>2. ASSUME UdpRecv
      PROVE  Pipeline' = Append(Pipeline, UdpResultOf(Head(rxq)))
  BY <1>0, <1>2, RecvFacts, RecvAppends
<1>3. ASSUME ~UdpRecv PROVE Pipeline' = Pipeline
  <2>1. CASE CommonNext \/ UNCHANGED vars
    BY <1>0, <2>1, CommonKeepsPipeline
  <2>2. CASE ~(CommonNext \/ UNCHANGED vars)
    <3>1. UNCHANGED << logged, entry, chan, hand >>
      BY <1>3, <2>2 DEF Next, Network, UdpSend, SendAccepted, UdpSendError,
         SendRejected, UdpRecvError, RecvEnded, Arrive, Duplicate, Lose,
         Unreachable, recvVars, logVars
    <3>2. QED
      BY <3>1 DEF Pipeline
  <2>3. QED
    BY <2>1, <2>2
<1>4. QED
  BY <1>1, <1>2, <1>3

-----------------------------------------------------------------------------
(* The time stamps and sequence numbers. *)

\* What makes OwnReplies and RttDefined inductive: the numbers follow the
\* history of stamps, stamps are in the past, and a packet or result is own
\* wherever it is: being sent, on the wire, in the socket, or read.
StampInv ==
    /\ sendPc # "panicked"
    /\ Len(stamps) = IF sendPc \in {"sending", "failed"} THEN sendSeq + 1
                     ELSE sendSeq
    /\ \A i \in 1 .. Len(stamps) : stamps[i] <= now
    /\ sendPc = "sending" => payload.seq = sendSeq /\ Own(payload, stamps)
    /\ \A p \in wire : Own(p, stamps)
    /\ \A i \in 1 .. Len(rxq) : Own(rxq[i], stamps)
    /\ \A i \in 1 .. Len(Pipeline) : Own(Pipeline[i], stamps)

\* StampInv is inductive, given the types.
LEMMA StampInvStep == TypeOK /\ StampInv /\ [Next]_vars => StampInv'
<1> SUFFICES ASSUME TypeOK, StampInv, [Next]_vars PROVE StampInv'
  OBVIOUS
<1>0. /\ now \in Nat /\ sendSeq \in Nat /\ stamps \in Seq(Nat)
      /\ rxq \in Seq(Packet) /\ wire \in SUBSET Packet
      /\ \A i \in 1 .. Len(stamps) : stamps[i] \in Nat
      /\ Pipeline \in Seq(Result) /\ payload \in Packet
      /\ UdpRecv => Pipeline' = Append(Pipeline, UdpResultOf(Head(rxq)))
      /\ ~UdpRecv => Pipeline' = Pipeline
  <2>1. now \in Nat /\ sendSeq \in Nat /\ stamps \in Seq(Nat)
    BY NowType DEF TypeOK, ClientTypeOK
  <2>2. \A i \in 1 .. Len(stamps) : stamps[i] \in Nat
    BY <2>1
  <2>3. QED
    BY <2>1, <2>2, PipelineStep DEF TypeOK
<1>1. CASE Tick
  <2>1. /\ UNCHANGED << sendPc, sendSeq, stamps, payload, wire, rxq, Pipeline >>
        /\ now' = now + 1
    BY <1>1 DEF Tick, sendVars, netVars, recvVars, logVars, Pipeline
  <2>2. ASSUME NEW i \in 1 .. Len(stamps) PROVE stamps[i] <= now + 1
    <3>1. stamps[i] <= now
      BY DEF StampInv
    <3>2. QED
      BY <1>0, <3>1
  <2>3. QED
    BY <2>1, <2>2 DEF StampInv
<1>2. CASE SendTick
  <2>1. /\ sendPc = "pacing" /\ sendPc' = "sending"
        /\ stamps' = Append(stamps, now)
        /\ payload' = [payload EXCEPT !.seq = sendSeq, !.sent = now]
        /\ UNCHANGED << now, sendSeq, wire, rxq, Pipeline >>
    BY <1>2 DEF SendTick, netVars, recvVars, logVars, Pipeline
  <2>2. /\ Len(stamps) = sendSeq /\ Len(stamps') = sendSeq + 1
        /\ stamps'[sendSeq + 1] = now
        /\ \A i \in 1 .. Len(stamps) : stamps'[i] = stamps[i]
    BY <1>0, <2>1, AppendFacts DEF StampInv
  <2>3. \A i \in 1 .. Len(stamps') : stamps'[i] <= now'
    <3>1. TAKE i \in 1 .. Len(stamps')
    <3>2. CASE i \in 1 .. Len(stamps)
      BY <2>1, <2>2, <3>2 DEF StampInv
    <3>3. CASE i = sendSeq + 1
      BY <1>0, <2>1, <2>2, <3>3
    <3>4. QED
      BY <1>0, <2>2, <3>2, <3>3
  <2>4. payload'.seq = sendSeq' /\ Own(payload', stamps')
    <3>1. payload'.seq = sendSeq /\ payload'.sent = now
      BY <1>0, <2>1 DEF Packet
    <3>2. QED
      BY <1>0, <2>1, <2>2, <3>1, OwnLast
  <2>5. \A p \in wire : Own(p, stamps')
    BY <1>0, <2>1, OwnGrows DEF StampInv
  <2>6. /\ \A i \in 1 .. Len(rxq) : Own(rxq[i], stamps')
        /\ \A i \in 1 .. Len(Pipeline) : Own(Pipeline[i], stamps')
    BY <1>0, <2>1, OwnGrows DEF StampInv
  <2>7. QED
    BY <2>1, <2>2, <2>3, <2>4, <2>5, <2>6 DEF StampInv
<1>3. CASE UdpSend
  <2>1. /\ sendPc = "sending" /\ sendPc' \in {"done", "pacing"}
        /\ sendSeq' = sendSeq + 1
        /\ wire' = wire \cup {payload}
        /\ UNCHANGED << now, stamps, rxq, Pipeline >>
    BY <1>3 DEF UdpSend, SendAccepted, LoopTop, recvVars, logVars, Pipeline
  <2>2. QED
    BY <2>1 DEF StampInv
<1>4. CASE UdpSendError
  <2>1. /\ sendPc = "sending" /\ sendPc' = "failed"
        /\ UNCHANGED << now, sendSeq, stamps, wire, rxq, Pipeline >>
    BY <1>4 DEF UdpSendError, SendRejected, recvVars, logVars, Pipeline
  <2>2. QED
    BY <2>1 DEF StampInv
<1>5. CASE UdpRecv
  <2> DEFINE p == Head(rxq)
             r == UdpResultOf(p)
  <2>1. /\ rxq # << >> /\ rxq' = Tail(rxq)
        /\ UNCHANGED << now, sendVars, wire >>
    BY <1>5 DEF UdpRecv, RecvResult
  <2>2. /\ p = rxq[1] /\ 1 \in 1 .. Len(rxq)
        /\ \A i \in 1 .. Len(rxq') :
             i + 1 \in 1 .. Len(rxq) /\ rxq'[i] = rxq[i + 1]
    BY <1>0, <2>1, TailFacts
  <2>3. r \in Result /\ r.seq = p.seq /\ r.sent = p.sent
    BY <1>5, RecvFacts
  <2>4. Own(r, stamps)
    <3>1. Own(p, stamps)
      BY <2>2 DEF StampInv
    <3>2. QED
      BY <2>3, <3>1 DEF Own
  <2>5. Pipeline' = Append(Pipeline, r)
    BY <1>0, <1>5
  <2> HIDE DEF p, r
  <2>6. ASSUME NEW i \in 1 .. Len(Pipeline') PROVE Own(Pipeline'[i], stamps)
    <3>1. /\ Len(Pipeline') = Len(Pipeline) + 1 /\ Len(Pipeline) \in Nat
          /\ Pipeline'[Len(Pipeline) + 1] = r
          /\ \A k \in 1 .. Len(Pipeline) : Pipeline'[k] = Pipeline[k]
      BY <1>0, <2>3, <2>5, AppendFacts
    <3>2. CASE i \in 1 .. Len(Pipeline)
      BY <3>1, <3>2 DEF StampInv
    <3>3. CASE i = Len(Pipeline) + 1
      BY <2>4, <3>1, <3>3
    <3>4. QED
      BY <3>1, <3>2, <3>3
  <2>7. QED
    BY <2>1, <2>2, <2>6 DEF StampInv, sendVars
<1>6. ASSUME NEW p \in wire,
             Arrive(p) \/ Duplicate(p) \/ Lose(p) \/ Unreachable(p)
      PROVE  StampInv'
  <2>1. /\ wire' \subseteq wire /\ rxq' \in {rxq, Append(rxq, p)}
        /\ UNCHANGED << now, sendVars, Pipeline >>
    BY <1>6 DEF Arrive, Duplicate, Lose, Unreachable, recvVars, logVars,
       Pipeline
  <2>2. p \in Packet /\ Own(p, stamps)
    BY <1>0, <1>6 DEF StampInv
  <2>3. ASSUME NEW i \in 1 .. Len(rxq') PROVE Own(rxq'[i], stamps)
    <3>1. CASE rxq' = rxq
      BY <3>1 DEF StampInv
    <3>2. CASE rxq' = Append(rxq, p)
      <4>1. /\ Len(rxq') = Len(rxq) + 1 /\ Len(rxq) \in Nat
            /\ rxq'[Len(rxq) + 1] = p
            /\ \A k \in 1 .. Len(rxq) : rxq'[k] = rxq[k]
        BY <1>0, <2>2, <3>2, AppendFacts
      <4>2. i \in 1 .. Len(rxq) \/ i = Len(rxq) + 1
        BY <4>1
      <4>3. QED
        BY <2>2, <4>1, <4>2 DEF StampInv
    <3>3. QED
      BY <2>1, <3>1, <3>2
  <2>4. QED
    BY <2>1, <2>3 DEF StampInv, sendVars
<1>7. CASE SendWarmup
  <2>1. /\ sendPc = "warmup" /\ sendPc' \in {"done", "pacing"}
        /\ UNCHANGED << now, sendSeq, stamps, wire, rxq, Pipeline >>
    BY <1>7 DEF SendWarmup, LoopTop, netVars, recvVars, logVars, Pipeline
  <2>2. QED
    BY <2>1 DEF StampInv
<1>8. CASE \/ UdpRecvError \/ Enqueue \/ EnqueueClosed
           \/ LogTake \/ LogWrite \/ LogFail \/ Main \/ UNCHANGED vars
  <2>1. UNCHANGED << now, sendVars, wire, rxq >> /\ (hand # << >> \/ hand' = hand)
    BY <1>8 DEF recvVars, UdpRecvError, RecvEnded, Enqueue, EnqueueClosed, LogTake,
       LogWrite, LogFail, Main, MainSendJoined, MainRecvJoined, GraceOver,
       LingerOver, vars, netVars
  <2>2. Pipeline' = Pipeline
    BY <1>0, <2>1, RecvTakesHand
  <2>3. QED
    BY <2>1, <2>2 DEF StampInv, sendVars
<1>9. QED
  BY <1>1, <1>2, <1>3, <1>4, <1>5, <1>6, <1>7, <1>8
  DEF Next, CommonNext, SendTask, LogTask, Terminated, Network

\* StampInv holds in every state.
LEMMA StampInvariance == Spec => []StampInv
<1>1. Init => StampInv
  <2> SUFFICES ASSUME Init PROVE StampInv
    OBVIOUS
  <2>1. /\ stamps = << >> /\ logged = << >> /\ entry = << >> /\ chan = << >>
        /\ hand = << >> /\ rxq = << >> /\ wire = {}
        /\ sendPc = "warmup" /\ sendSeq = 0
    BY DEF Init, ClientInit
  <2>2. Pipeline = << >>
    BY <2>1 DEF Pipeline
  <2>3. QED
    BY <2>1, <2>2 DEF StampInv
<1>2. QED
  BY <1>1, StampInvStep, TypeInvariance, PTL DEF Spec

\* RttDefined: recv_timestamp - send_timestamp never underflows.
THEOREM RttAlwaysDefined == Spec => []RttDefined
<1>1. TypeOK /\ StampInv => RttDefined
  <2> SUFFICES ASSUME TypeOK, StampInv, NEW i \in DOMAIN rxq
               PROVE  rxq[i].sent <= now
    BY DEF RttDefined
  <2>1. i \in 1 .. Len(rxq)
    BY DEF TypeOK
  <2>2. QED
    BY <2>1 DEF StampInv, Own
<1>2. QED
  BY <1>1, StampInvariance, TypeInvariance, PTL

\* OwnReplies: wherever a result is between the socket and the log, it is that
\* of a request of this run and carries the stamp of this request.
THEOREM RepliesAreOwn == Spec => []OwnReplies
<1>1. TypeOK /\ StampInv => OwnReplies
  <2> SUFFICES ASSUME TypeOK, StampInv, NEW i \in DOMAIN Pipeline
               PROVE  /\ Pipeline[i].seq + 1 \in DOMAIN stamps
                      /\ Pipeline[i].sent = stamps[Pipeline[i].seq + 1]
    BY DEF OwnReplies
  <2>1. Pipeline \in Seq(Result) /\ stamps \in Seq(Nat)
    BY PipelineType DEF TypeOK, ClientTypeOK
  <2>2. i \in 1 .. Len(Pipeline) /\ DOMAIN stamps = 1 .. Len(stamps)
    BY <2>1
  <2>3. QED
    BY <2>2 DEF StampInv, Own
<1>2. QED
  BY <1>1, StampInvariance, TypeInvariance, PTL

-----------------------------------------------------------------------------
(* The inter-arrival times. *)

\* TimeInv is inductive, given the types.
LEMMA TimeStep == TypeOK /\ TimeInv /\ [Next]_vars => TimeInv'
<1> SUFFICES ASSUME TypeOK, TimeInv, [Next]_vars PROVE TimeInv'
  OBVIOUS
<1>0. ClientTypeOK(Result)
  BY DEF TypeOK
<1>1. CASE CommonNext \/ UNCHANGED vars
  BY <1>0, <1>1, ResultRecv, TimeInvStep
<1>2. CASE UdpRecv
  <2>1. UdpResultOf(Head(rxq)).recv = now
    BY DEF UdpResultOf
  <2>2. QED
    BY <1>0, <1>2, <2>1, RecvFacts, ResultRecv, TimeInvStep
<1>3. CASE ~(CommonNext \/ UdpRecv \/ UNCHANGED vars)
  <2>1. UNCHANGED << now, chan, hand, time >>
    BY <1>3 DEF Next, Network, UdpSend, SendAccepted, UdpSendError,
       SendRejected, UdpRecvError, RecvEnded, Arrive, Duplicate, Lose,
       Unreachable, recvVars, logVars
  <2>2. QED
    BY <1>0, <2>1, ResultRecv, TimeInvStep
<1>4. QED
  BY <1>1, <1>2, <1>3

\* PiatDefined: recv_timestamp - time never underflows.
THEOREM PiatAlwaysDefined == Spec => []PiatDefined
<1>1. Init => TimeInv
  BY InitInvs DEF Init
<1>2. TypeOK /\ TimeInv => PiatDefined
  BY TimeInvImplies DEF TypeOK
<1>3. QED
  BY <1>1, <1>2, TimeStep, TypeInvariance, PTL DEF Spec

-----------------------------------------------------------------------------
(* The client implements EchoLog. *)

\* Every step of the client is a step of EchoLog, or changes nothing there.
LEMMA StepKeepsPromise ==
    TypeOK /\ StampInv /\ [Next]_vars => [Promise!Next]_(Promise!vars)
<1> SUFFICES ASSUME TypeOK, StampInv, [Next]_vars
             PROVE  Promise!Next \/ UNCHANGED Promise!vars
  OBVIOUS
<1>0. ClientTypeOK(Result) /\ rxq \in Seq(Packet)
  BY DEF TypeOK
<1>1. CASE CommonNext \/ UNCHANGED vars
  BY <1>0, <1>1, CommonKeepsPromise
<1>2. CASE UdpRecv
  <2> DEFINE p == Head(rxq)
             r == UdpResultOf(p)
  <2>1. /\ Reading /\ rxq # << >> /\ RecvResult(r) /\ r \in Result
        /\ r.seq = p.seq /\ r.sent = p.sent
    BY <1>2, RecvFacts
  <2>2. p = rxq[1] /\ 1 \in 1 .. Len(rxq)
    BY <1>0, <2>1, TailFacts
  <2>3. Own(p, stamps)
    BY <2>2 DEF StampInv
  <2> HIDE DEF p, r
  <2>4. Own(r, stamps)
    BY <2>1, <2>3 DEF Own
  <2>5. QED
    BY <1>0, <2>1, <2>4, OwnAnswers, RecvKeepsPromise
<1>3. CASE ~(CommonNext \/ UdpRecv \/ UNCHANGED vars)
  <2>1. UNCHANGED << stamps, logged, entry, chan, hand, mainPc >>
    BY <1>3 DEF Next, Network, UdpSend, SendAccepted, UdpSendError,
       SendRejected, UdpRecvError, RecvEnded, Arrive, Duplicate, Lose,
       Unreachable, sendVars, recvVars, logVars, mainVars
  <2>2. QED
    BY <2>1, OutsideKeepsPromise
<1>4. QED
  BY <1>1, <1>2, <1>3

\* KeepsPromise: the tasks, queues and sockets of the UDP client implement the
\* promise of EchoLog, whatever the network does.
THEOREM UdpClientKeepsPromise == Spec => KeepsPromise
<1>1. Init => Promise!Init
  BY InitKeepsPromise DEF Init
<1>2. QED
  BY <1>1, StepKeepsPromise, TypeInvariance, StampInvariance, PTL
  DEF Spec, KeepsPromise, Promise!Spec

-----------------------------------------------------------------------------
(* The log task and main. *)

\* FileLosesOnlyTail: whenever the process ends, the file holds the results
\* logged but for the last few.
THEOREM FileLosesOnlyTailAlways == Spec => []FileLosesOnlyTail
<1>1. Init => FileInv
  BY InitInvs DEF Init
<1>2. TypeOK /\ FileInv /\ [Next]_vars => FileInv'
  BY Steps, FileInvStep DEF TypeOK
<1>3. TypeOK /\ FileInv => FileLosesOnlyTail
  BY FileInvImplies DEF TypeOK
<1>4. QED
  BY <1>1, <1>2, <1>3, TypeInvariance, PTL DEF Spec

\* PiatSamples: the inter-arrival samples are the differences of the receive
\* stamps of consecutive results, none skipped and none counted twice.
THEOREM SamplesAreGaps == Spec => []PiatSamples
<1>1. Init => PiatInv
  BY InitInvs DEF Init
<1>2. TypeOK /\ PiatInv /\ [Next]_vars => PiatInv'
  BY ResultRecv, Steps, PiatInvStep DEF TypeOK
<1>3. PiatInv => PiatSamples
  BY DEF PiatInv
<1>4. QED
  BY <1>1, <1>2, <1>3, TypeInvariance, PTL DEF Spec

\* What main knows is right.
LEMMA ExitInvariance == Spec => []ExitInv
<1>1. Init => ExitInv
  BY InitInvs DEF Init
<1>2. TypeOK /\ ExitInv /\ [Next]_vars => ExitInv'
  BY Steps, ExitInvStep DEF TypeOK
<1>3. QED
  BY <1>1, <1>2, TypeInvariance, PTL DEF Spec

-----------------------------------------------------------------------------
(* No reply is missing after a clean exit. *)

\* What makes CompleteOnCleanExit inductive: packets and results are those of
\* packets counted as sent, and until the network duplicates one there is one
\* of each: on the wire, in the socket, or read.
UniqueInv ==
    /\ \A p \in wire : p.seq < sendSeq
    /\ \A i \in 1 .. Len(rxq) : rxq[i].seq < sendSeq
    /\ \A i \in 1 .. Len(Pipeline) : Pipeline[i].seq < sendSeq
    /\ dups = 0 =>
         /\ \A i, j \in 1 .. Len(rxq) : i # j => rxq[i].seq # rxq[j].seq
         /\ \A i, j \in 1 .. Len(Pipeline) :
              i # j => Pipeline[i].seq # Pipeline[j].seq
         /\ \A i \in 1 .. Len(rxq), j \in 1 .. Len(Pipeline) :
              rxq[i].seq # Pipeline[j].seq
         /\ \A p \in wire :
              /\ \A i \in 1 .. Len(rxq) : p.seq # rxq[i].seq
              /\ \A i \in 1 .. Len(Pipeline) : p.seq # Pipeline[i].seq

\* Two own packets of the same number are the same.
LEMMA OwnIsUnique ==
    ASSUME NEW p \in Packet, NEW q \in Packet,
           Own(p, stamps), Own(q, stamps), p.seq = q.seq
    PROVE  p = q
<1>1. p.sent = q.sent
  BY DEF Own
<1>2. QED
  BY <1>1 DEF Packet

\* UniqueInv is inductive, given the types and what is own.
LEMMA UniqueInvStep == TypeOK /\ StampInv /\ UniqueInv /\ [Next]_vars => UniqueInv'
<1> SUFFICES ASSUME TypeOK, StampInv, UniqueInv, [Next]_vars PROVE UniqueInv'
  OBVIOUS
<1>0. /\ sendSeq \in Nat /\ dups \in Nat
      /\ rxq \in Seq(Packet) /\ wire \in SUBSET Packet /\ payload \in Packet
      /\ Pipeline \in Seq(Result)
      /\ UdpRecv => Pipeline' = Append(Pipeline, UdpResultOf(Head(rxq)))
      /\ ~UdpRecv => Pipeline' = Pipeline
      /\ Len(rxq) \in Nat /\ Len(Pipeline) \in Nat
      /\ \A p \in wire : p.seq \in Nat
      /\ \A i \in 1 .. Len(rxq) : rxq[i].seq \in Nat
      /\ \A i \in 1 .. Len(Pipeline) : Pipeline[i].seq \in Nat
  <2>1. /\ sendSeq \in Nat /\ dups \in Nat
        /\ rxq \in Seq(Packet) /\ wire \in SUBSET Packet /\ payload \in Packet
        /\ Pipeline \in Seq(Result)
    BY PipelineStep DEF TypeOK, ClientTypeOK
  <2>2. Len(rxq) \in Nat /\ Len(Pipeline) \in Nat
    BY <2>1
  <2>3. \A p \in Packet : p.seq \in Nat
    BY DEF Packet
  <2>4. \A r \in Result : r.seq \in Nat
    BY DEF Result
  <2>5. /\ \A i \in 1 .. Len(rxq) : rxq[i] \in Packet
        /\ \A i \in 1 .. Len(Pipeline) : Pipeline[i] \in Result
    BY <2>1
  <2>6. QED
    BY <2>1, <2>2, <2>3, <2>4, <2>5, PipelineStep
<1>1. CASE UdpSend
  <2>1. /\ payload.seq = sendSeq /\ sendSeq' = sendSeq + 1
        /\ wire' = wire \cup {payload}
        /\ UNCHANGED << rxq, dups, Pipeline >>
    BY <1>1 DEF UdpSend, SendAccepted, recvVars, logVars, Pipeline, StampInv
  <2>2. /\ \A p \in wire' : p.seq < sendSeq'
        /\ \A i \in 1 .. Len(rxq) : rxq[i].seq < sendSeq'
        /\ \A i \in 1 .. Len(Pipeline) : Pipeline[i].seq < sendSeq'
    BY <1>0, <2>1 DEF UniqueInv
  <2>3. ASSUME dups = 0, NEW p \in wire'
        PROVE  /\ \A i \in 1 .. Len(rxq) : p.seq # rxq[i].seq
               /\ \A i \in 1 .. Len(Pipeline) : p.seq # Pipeline[i].seq
    <3>1. CASE p \in wire
      BY <2>3, <3>1 DEF UniqueInv
    <3>2. CASE p = payload
      <4>1. p.seq = sendSeq
        BY <2>1, <3>2
      <4>2. QED
        BY <1>0, <4>1 DEF UniqueInv
    <3>3. QED
      BY <2>1, <3>1, <3>2
  <2>4. QED
    BY <2>1, <2>2, <2>3 DEF UniqueInv
<1>2. CASE UdpRecv
  <2> DEFINE p == Head(rxq)
             r == UdpResultOf(p)
  <2>1. /\ rxq # << >> /\ rxq' = Tail(rxq)
        /\ UNCHANGED << sendSeq, wire, dups >>
    BY <1>2 DEF UdpRecv, RecvResult, sendVars
  <2>2. /\ p = rxq[1] /\ 1 \in 1 .. Len(rxq)
        /\ \A i \in 1 .. Len(rxq') :
             i + 1 \in 1 .. Len(rxq) /\ rxq'[i] = rxq[i + 1]
    BY <1>0, <2>1, TailFacts
  <2>3. r \in Result /\ r.seq = rxq[1].seq
    BY <1>2, <2>2, RecvFacts
  <2>4. Pipeline' = Append(Pipeline, r)
    BY <1>0, <1>2
  <2> HIDE DEF p, r
  <2>5. /\ Len(Pipeline') = Len(Pipeline) + 1
        /\ Pipeline'[Len(Pipeline) + 1] = r
        /\ \A k \in 1 .. Len(Pipeline) : Pipeline'[k] = Pipeline[k]
        /\ \A k \in 1 .. Len(Pipeline') :
             k \in 1 .. Len(Pipeline) \/ k = Len(Pipeline) + 1
    BY <1>0, <2>3, <2>4, AppendFacts
  <2>6. ASSUME NEW k \in 1 .. Len(Pipeline')
        PROVE  \/ k \in 1 .. Len(Pipeline) /\ Pipeline'[k] = Pipeline[k]
               \/ k = Len(Pipeline) + 1 /\ Pipeline'[k].seq = rxq[1].seq
    BY <2>3, <2>5
  <2>7. /\ \A i \in 1 .. Len(rxq') : rxq'[i].seq < sendSeq
        /\ \A k \in 1 .. Len(Pipeline') : Pipeline'[k].seq < sendSeq
    BY <2>2, <2>6 DEF UniqueInv
  <2>8. ASSUME dups = 0
        PROVE  /\ \A i, j \in 1 .. Len(rxq') : i # j => rxq'[i].seq # rxq'[j].seq
               /\ \A i, j \in 1 .. Len(Pipeline') :
                    i # j => Pipeline'[i].seq # Pipeline'[j].seq
               /\ \A i \in 1 .. Len(rxq'), j \in 1 .. Len(Pipeline') :
                    rxq'[i].seq # Pipeline'[j].seq
               /\ \A q \in wire :
                    /\ \A i \in 1 .. Len(rxq') : q.seq # rxq'[i].seq
                    /\ \A i \in 1 .. Len(Pipeline') : q.seq # Pipeline'[i].seq
    <3>1. /\ \A i, j \in 1 .. Len(rxq) : i # j => rxq[i].seq # rxq[j].seq
          /\ \A i, j \in 1 .. Len(Pipeline) :
               i # j => Pipeline[i].seq # Pipeline[j].seq
          /\ \A i \in 1 .. Len(rxq), j \in 1 .. Len(Pipeline) :
               rxq[i].seq # Pipeline[j].seq
          /\ \A q \in wire :
               /\ \A i \in 1 .. Len(rxq) : q.seq # rxq[i].seq
               /\ \A i \in 1 .. Len(Pipeline) : q.seq # Pipeline[i].seq
      BY <2>8 DEF UniqueInv
    <3>2. ASSUME NEW i \in 1 .. Len(rxq'), NEW j \in 1 .. Len(rxq'), i # j
          PROVE  rxq'[i].seq # rxq'[j].seq
      <4>1. i + 1 # j + 1
        BY <3>2
      <4>2. QED
        BY <2>2, <3>1, <4>1
    <3>3. ASSUME NEW i \in 1 .. Len(Pipeline'), NEW j \in 1 .. Len(Pipeline'),
                 i # j
          PROVE  Pipeline'[i].seq # Pipeline'[j].seq
      <4>1. \A k \in 1 .. Len(Pipeline) : Pipeline[k].seq # rxq[1].seq
        BY <2>2, <3>1
      <4>2. CASE i \in 1 .. Len(Pipeline) /\ Pipeline'[i] = Pipeline[i]
        <5>1. CASE j \in 1 .. Len(Pipeline) /\ Pipeline'[j] = Pipeline[j]
          BY <3>1, <3>3, <4>2, <5>1
        <5>2. CASE j = Len(Pipeline) + 1 /\ Pipeline'[j].seq = rxq[1].seq
          BY <4>1, <4>2, <5>2
        <5>3. QED
          BY <2>6, <5>1, <5>2
      <4>3. CASE i = Len(Pipeline) + 1 /\ Pipeline'[i].seq = rxq[1].seq
        BY <2>6, <3>3, <4>1, <4>3
      <4>4. QED
        BY <2>6, <4>2, <4>3
    <3>4. ASSUME NEW i \in 1 .. Len(rxq'), NEW j \in 1 .. Len(Pipeline')
          PROVE  rxq'[i].seq # Pipeline'[j].seq
      <4>1. i + 1 \in 1 .. Len(rxq) /\ i + 1 # 1 /\ rxq'[i] = rxq[i + 1]
        BY <1>0, <2>2
      <4>2. CASE j \in 1 .. Len(Pipeline) /\ Pipeline'[j] = Pipeline[j]
        BY <3>1, <4>1, <4>2
      <4>3. CASE j = Len(Pipeline) + 1 /\ Pipeline'[j].seq = rxq[1].seq
        BY <2>2, <3>1, <4>1, <4>3
      <4>4. QED
        BY <2>6, <4>2, <4>3
    <3>5. ASSUME NEW q \in wire
          PROVE  /\ \A i \in 1 .. Len(rxq') : q.seq # rxq'[i].seq
                 /\ \A i \in 1 .. Len(Pipeline') : q.seq # Pipeline'[i].seq
      BY <2>2, <2>6, <3>1
    <3>6. QED
      BY <3>2, <3>3, <3>4, <3>5
  <2>9. QED
    BY <2>1, <2>7, <2>8 DEF UniqueInv
<1>3. ASSUME NEW p \in wire, Arrive(p) PROVE UniqueInv'
  <2>1. /\ wire' = wire \ {p} /\ rxq' = Append(rxq, p)
        /\ UNCHANGED << sendSeq, dups, Pipeline >>
    BY <1>3 DEF Arrive, sendVars, recvVars, logVars, Pipeline
  <2>2. p \in Packet
    BY <1>0
  <2>3. ASSUME NEW k \in 1 .. Len(rxq')
        PROVE  \/ k \in 1 .. Len(rxq) /\ rxq'[k] = rxq[k]
               \/ k = Len(rxq) + 1 /\ rxq'[k] = p
    BY <1>0, <2>1, <2>2, AppendFacts
  <2>4. \A k \in 1 .. Len(rxq') : rxq'[k].seq < sendSeq
    BY <2>3 DEF UniqueInv
  <2>5. ASSUME NEW q \in wire' PROVE q \in wire /\ q.seq # p.seq
    <3>1. q \in wire /\ q # p
      BY <2>1
    <3>2. Own(p, stamps) /\ Own(q, stamps) /\ q \in Packet
      BY <1>0, <3>1 DEF StampInv
    <3>3. QED
      BY <2>2, <3>1, <3>2, OwnIsUnique
  <2>6. ASSUME dups = 0
        PROVE  /\ \A i, j \in 1 .. Len(rxq') : i # j => rxq'[i].seq # rxq'[j].seq
               /\ \A i \in 1 .. Len(rxq'), j \in 1 .. Len(Pipeline) :
                    rxq'[i].seq # Pipeline[j].seq
               /\ \A q \in wire' : \A i \in 1 .. Len(rxq') : q.seq # rxq'[i].seq
    BY <2>3, <2>5, <2>6 DEF UniqueInv
  <2>7. QED
    BY <2>1, <2>4, <2>5, <2>6 DEF UniqueInv
<1>4. ASSUME NEW p \in wire, Duplicate(p) PROVE UniqueInv'
  <2>1. /\ rxq' = Append(rxq, p) /\ dups' = dups + 1
        /\ UNCHANGED << sendSeq, wire, Pipeline >>
    BY <1>4 DEF Duplicate, sendVars, recvVars, logVars, Pipeline
  <2>2. p \in Packet /\ dups' # 0
    BY <1>0, <2>1
  <2>3. ASSUME NEW k \in 1 .. Len(rxq')
        PROVE  \/ k \in 1 .. Len(rxq) /\ rxq'[k] = rxq[k]
               \/ k = Len(rxq) + 1 /\ rxq'[k] = p
    BY <1>0, <2>1, <2>2, AppendFacts
  <2>4. QED
    BY <2>1, <2>2, <2>3 DEF UniqueInv
<1>5. ASSUME NEW p \in wire, Lose(p) \/ Unreachable(p) PROVE UniqueInv'
  <2>1. wire' \subseteq wire /\ UNCHANGED << sendSeq, rxq, dups, Pipeline >>
    BY <1>5 DEF Lose, Unreachable, sendVars, recvVars, logVars, Pipeline
  <2>2. QED
    BY <2>1 DEF UniqueInv
<1>6. CASE CommonNext \/ UdpSendError \/ UdpRecvError \/ UNCHANGED vars
  <2>1. /\ UNCHANGED << sendSeq, wire, rxq, dups >>
        /\ hand # << >> \/ hand' = hand
    BY <1>6 DEF CommonNext, SendTask, LogTask, Terminated, Tick, SendWarmup,
       SendTick, Enqueue, EnqueueClosed, LogTake, LogWrite, LogFail, Main,
       MainSendJoined, MainRecvJoined, GraceOver, LingerOver, UdpSendError,
       SendRejected, UdpRecvError, RecvEnded, vars, sendVars, netVars, recvVars
  <2>2. Pipeline' = Pipeline
    BY <1>0, <2>1, RecvTakesHand
  <2>3. QED
    BY <2>1, <2>2 DEF UniqueInv
<1>7. QED
  BY <1>1, <1>2, <1>3, <1>4, <1>5, <1>6 DEF Next, Network

\* UniqueInv holds in every state.
LEMMA UniqueInvariance == Spec => []UniqueInv
<1>1. Init => UniqueInv
  <2> SUFFICES ASSUME Init PROVE UniqueInv
    OBVIOUS
  <2>1. /\ logged = << >> /\ entry = << >> /\ chan = << >> /\ hand = << >>
        /\ rxq = << >> /\ wire = {}
    BY DEF Init, ClientInit
  <2>2. Pipeline = << >>
    BY <2>1 DEF Pipeline
  <2>3. QED
    BY <2>1, <2>2 DEF UniqueInv
<1>2. QED
  BY <1>1, UniqueInvStep, StampInvariance, TypeInvariance, PTL DEF Spec

\* CompleteOnCleanExit: main compares two counters only, but without a
\* duplicate their equality means that each packet has its own result.
THEOREM CleanExitIsComplete == Spec => []CompleteOnCleanExit
<1>1. TypeOK /\ UniqueInv /\ ExitInv => CompleteOnCleanExit
  <2> SUFFICES ASSUME TypeOK, UniqueInv, ExitInv,
                      mainPc = "exited", ~warned, dups = 0,
                      NEW k \in 0 .. sendSeq - 1
               PROVE  \E i \in DOMAIN logged : logged[i].seq = k
    BY DEF CompleteOnCleanExit
  <2>1. /\ logged \in Seq(Result) /\ sendSeq \in Nat
        /\ DOMAIN logged = 1 .. Len(logged) /\ Len(logged) \in Nat
        /\ \A i \in 1 .. Len(logged) :
             i \in 1 .. Len(Pipeline) /\ logged[i] = Pipeline[i]
    BY LoggedFacts DEF TypeOK, ClientTypeOK
  <2>2. Len(logged) >= sendSeq
    BY <2>1 DEF ExitInv
  <2>3. \A i, j \in 1 .. Len(logged) : i # j => logged[i].seq # logged[j].seq
    BY <2>1 DEF UniqueInv
  <2>4. ASSUME NEW i \in 1 .. Len(logged)
        PROVE  logged[i].seq \in 0 .. sendSeq - 1
    <3>1. logged[i].seq \in Nat
      <4>1. logged[i] \in Result
        BY <2>1
      <4>2. \A r \in Result : r.seq \in Nat
        BY DEF Result
      <4>3. QED
        BY <4>1, <4>2
    <3>2. logged[i].seq < sendSeq
      BY <2>1 DEF UniqueInv
    <3>3. QED
      BY <2>1, <3>1, <3>2
  <2>5. \E i \in 1 .. Len(logged) : logged[i].seq = k
    BY <2>1, <2>2, <2>3, <2>4, NoneMissing
  <2>6. QED
    BY <2>1, <2>5
<1>2. QED
  BY <1>1, UniqueInvariance, ExitInvariance, TypeInvariance, PTL
=============================================================================
