--------------------------- MODULE TcpClientProofs ---------------------------
(***************************************************************************)
(* Proofs about TcpClient, for every --count, capacity and bound.          *)
(***************************************************************************)
EXTENDS TcpClient, EchoClientProofs

-----------------------------------------------------------------------------
(* Type correctness. *)

\* The frames written before the server went.
LEMMA PrefixFacts ==
    ASSUME NEW S, NEW s \in Seq(S), NEW k \in 0 .. Len(s)
    PROVE  /\ SubSeq(s, 1, k) \in Seq(S)
           /\ Len(SubSeq(s, 1, k)) = k
           /\ \A i \in 1 .. k : i \in 1 .. Len(s) /\ SubSeq(s, 1, k)[i] = s[i]
  OBVIOUS

\* The recv task turns a frame into a result with its number and stamp.
LEMMA ResultFacts ==
    ASSUME now \in Nat, NEW p \in Packet
    PROVE  /\ TcpResultOf(p) \in Result
           /\ TcpResultOf(p).seq = p.seq /\ TcpResultOf(p).sent = p.sent
<1>1. p.seq \in Nat /\ p.sent \in Nat
  BY DEF Packet
<1>2. now - p.sent \in Int
  BY <1>1
<1>3. QED
  BY <1>1, <1>2 DEF TcpResultOf, Result

\* A result has a receive stamp.
LEMMA ResultRecv == \A r \in Result : r.recv \in Nat
  BY DEF Result

\* What TcpRecv does: the first readable frame becomes a result.
LEMMA RecvFacts ==
    ASSUME TypeOK, TcpRecv
    PROVE  /\ Reading /\ rxq # << >> /\ Head(rxq) \in Packet
           /\ RecvResult(TcpResultOf(Head(rxq)))
           /\ TcpResultOf(Head(rxq)) \in Result
           /\ TcpResultOf(Head(rxq)).seq = Head(rxq).seq
           /\ TcpResultOf(Head(rxq)).sent = Head(rxq).sent
<1>1. Reading /\ rxq # << >> /\ RecvResult(TcpResultOf(Head(rxq)))
  BY DEF TcpRecv
<1>2. Head(rxq) \in Packet /\ now \in Nat
  BY <1>1, TailFacts, EchoClientAssumption DEF TypeOK, ClientTypeOK
<1>3. QED
  BY <1>1, <1>2, ResultFacts

\* Every variable of the client keeps its type, and the connection never holds
\* more frames than its window: TypeOK is inductive.
THEOREM TypeInvariance == Spec => []TypeOK
<1>1. Init => TypeOK
  <2> SUFFICES ASSUME Init PROVE TypeOK
    OBVIOUS
  <2>1. ClientTypeOK(Result)
    BY InitTypes DEF Init
  <2>2. /\ payload = [seq |-> 0, sent |-> 0] /\ wire = << >> /\ rxq = << >>
    BY DEF Init, ClientInit
  <2>3. QED
    BY <2>1, <2>2, TcpClientAssumption DEF TypeOK, Packet
<1>2. ASSUME TypeOK, [Next]_vars PROVE TypeOK'
  <2> USE <1>2
  <2>0. /\ ClientTypeOK(Result) /\ payload \in Packet
        /\ wire \in Seq(Packet) /\ rxq \in Seq(Packet)
        /\ Len(wire) + Len(rxq) <= Window
        /\ now \in Nat /\ sendSeq \in Nat /\ dups \in Nat
        /\ sockErr \in BOOLEAN /\ Len(wire) \in Nat /\ Len(rxq) \in Nat
        /\ Window \in Nat
    BY EchoClientAssumption, TcpClientAssumption DEF TypeOK, ClientTypeOK
  <2>1. CASE CommonNext \/ UNCHANGED vars
    <3>1. ClientTypeOK(Result)'
      BY <2>0, <2>1, ResultRecv, CommonTypes
    <3>2. UNCHANGED << wire, rxq >>
      BY <2>1 DEF CommonNext, SendTask, LogTask, Terminated, Tick, SendWarmup,
         SendTick, Enqueue, EnqueueClosed, LogTake, LogWrite, LogFail, Main,
         MainSendJoined, MainRecvJoined, GraceOver, LingerOver, vars, netVars
    <3>3. payload' \in Packet
      <4>1. CASE SendTick
        BY <2>0, <4>1 DEF SendTick, Packet
      <4>2. CASE ~SendTick
        <5>1. UNCHANGED payload
          BY <2>1, <4>2 DEF CommonNext, SendTask, LogTask, Terminated, Tick,
             SendWarmup, Enqueue, EnqueueClosed, LogTake, LogWrite, LogFail,
             Main, MainSendJoined, MainRecvJoined, GraceOver, LingerOver, vars,
             sendVars
        <5>2. QED
          BY <2>0, <5>1
      <4>3. QED
        BY <4>1, <4>2
    <3>4. QED
      BY <2>0, <3>1, <3>2, <3>3 DEF TypeOK
  <2>2. CASE TcpSend \/ TcpSendDropped \/ TcpSendError
    <3>1. /\ SendAccepted \/ SendRejected
          /\ UNCHANGED << sockErr, payload, rxq >>
          /\ \/ wire' = wire
             \/ wire' = Append(wire, payload) /\ Len(wire) + Len(rxq) < Window
      BY <2>2 DEF TcpSend, TcpSendDropped, SendAccepted, TcpSendError,
         SendRejected
    <3>2. ClientTypeOK(Result)'
      BY <2>0, <3>1, SendTypes
    <3>3. wire' \in Seq(Packet) /\ Len(wire') + Len(rxq) <= Window
      <4>1. CASE wire' = wire
        BY <2>0, <4>1
      <4>2. CASE wire' = Append(wire, payload) /\ Len(wire) + Len(rxq) < Window
        <5>1. wire' \in Seq(Packet) /\ Len(wire') = Len(wire) + 1
          BY <2>0, <4>2, AppendFacts
        <5>2. QED
          BY <2>0, <4>2, <5>1
      <4>3. QED
        BY <3>1, <4>1, <4>2
    <3>4. QED
      BY <2>0, <3>1, <3>2, <3>3 DEF TypeOK
  <2>3. CASE TcpRecv
    <3>1. ClientTypeOK(Result)'
      BY <2>0, <2>3, RecvFacts, RecvTypes
    <3>2. rxq' = Tail(rxq) /\ rxq # << >> /\ UNCHANGED << payload, wire >>
      BY <2>3 DEF TcpRecv, RecvResult, sendVars
    <3>3. rxq' \in Seq(Packet) /\ Len(rxq') = Len(rxq) - 1
      BY <2>0, <3>2, TailFacts
    <3>4. Len(wire') + Len(rxq') <= Window
      BY <2>0, <3>2, <3>3
    <3>5. QED
      BY <2>0, <3>1, <3>2, <3>3, <3>4 DEF TypeOK
  <2>4. CASE TcpRecvEnd
    <3>1. RecvEnded /\ UNCHANGED << sockErr, payload, wire, rxq >>
      BY <2>4 DEF TcpRecvEnd, RecvEnded, sendVars
    <3>2. ClientTypeOK(Result)'
      BY <2>0, <3>1, RecvEndTypes
    <3>3. QED
      BY <2>0, <3>1, <3>2 DEF TypeOK
  <2>5. CASE Arrive
    <3>1. /\ wire # << >> /\ wire' = Tail(wire)
          /\ rxq' = Append(rxq, Head(wire))
          /\ UNCHANGED << now, sendVars, sockErr, dups, recvVars, chan,
                          logVars, mainVars >>
      BY <2>5 DEF Arrive
    <3>2. ClientTypeOK(Result)'
      BY <2>0, <3>1, NetworkTypes
    <3>3. /\ Head(wire) \in Packet
          /\ wire' \in Seq(Packet) /\ Len(wire') = Len(wire) - 1
      BY <2>0, <3>1, TailFacts
    <3>4. rxq' \in Seq(Packet) /\ Len(rxq') = Len(rxq) + 1
      BY <2>0, <3>1, <3>3, AppendFacts
    <3>5. Len(wire') + Len(rxq') <= Window
      BY <2>0, <3>3, <3>4
    <3>6. QED
      BY <2>0, <3>1, <3>2, <3>3, <3>4, <3>5 DEF TypeOK, sendVars
  <2>6. CASE PeerGone
    <3>1. /\ sockErr' = TRUE
          /\ UNCHANGED << now, sendVars, rxq, dups, recvVars, chan, logVars,
                          mainVars >>
      BY <2>6 DEF PeerGone
    <3>2. ClientTypeOK(Result)'
      BY <2>0, <3>1, NetworkTypes
    <3>3. wire' \in Seq(Packet) /\ Len(wire') <= Len(wire) /\ Len(wire') \in Nat
      <4>1. PICK k \in 0 .. Len(wire) : wire' = SubSeq(wire, 1, k)
        BY <2>6 DEF PeerGone
      <4>2. QED
        BY <2>0, <4>1, PrefixFacts
    <3>4. Len(wire') + Len(rxq') <= Window
      BY <2>0, <3>1, <3>3
    <3>5. QED
      BY <2>0, <3>1, <3>2, <3>3, <3>4 DEF TypeOK, sendVars
  <2>7. QED
    BY <2>1, <2>2, <2>3, <2>4, <2>5, <2>6 DEF Next
<1>3. QED
  BY <1>1, <1>2, PTL DEF Spec

\* The steps of the TCP client that are not shared leave the log task alone.
LEMMA Steps == [Next]_vars => ClientStep /\ (sendSeq' = sendSeq \/ Running)
<1> SUFFICES ASSUME [Next]_vars
             PROVE  ClientStep /\ (sendSeq' = sendSeq \/ Running)
  OBVIOUS
<1>1. CASE CommonNext \/ UNCHANGED vars
  <2>1. sendSeq' = sendSeq
    BY <1>1 DEF CommonNext, SendTask, LogTask, Terminated, Tick, SendWarmup,
       SendTick, Enqueue, EnqueueClosed, LogTake, LogWrite, LogFail, Main,
       MainSendJoined, MainRecvJoined, GraceOver, LingerOver, vars, sendVars
  <2>2. QED
    BY <1>1, <2>1 DEF ClientStep
<1>2. CASE ~(CommonNext \/ UNCHANGED vars)
  <2>1. Elsewhere /\ Running
    BY <1>2 DEF Next, TcpSend, TcpSendDropped, SendAccepted, TcpSendError,
       SendRejected, TcpRecv, Reading, RecvResult, TcpRecvEnd, RecvEnded,
       Arrive, PeerGone, Elsewhere, logVars, mainVars
  <2>2. QED
    BY <2>1 DEF ClientStep
<1>3. QED
  BY <1>1, <1>2

\* Only TcpRecv gives the recv task a result.
LEMMA RecvTakesHand == TcpRecv => hand = << >> /\ hand' # << >>
  BY DEF TcpRecv, Reading, RecvResult

\* Only TcpRecv adds a result to those read, and nothing takes one away.
LEMMA PipelineStep ==
    ASSUME TypeOK, [Next]_vars
    PROVE  /\ Pipeline \in Seq(Result)
           /\ TcpRecv =>
                Pipeline' = Append(Pipeline, TcpResultOf(Head(rxq)))
           /\ ~TcpRecv => Pipeline' = Pipeline
<1>0. ClientTypeOK(Result)
  BY DEF TypeOK
<1>1. Pipeline \in Seq(Result)
  BY <1>0, PipelineType
<1>2. ASSUME TcpRecv
      PROVE  Pipeline' = Append(Pipeline, TcpResultOf(Head(rxq)))
  BY <1>0, <1>2, RecvFacts, RecvAppends
<1>3. ASSUME ~TcpRecv PROVE Pipeline' = Pipeline
  <2>1. CASE CommonNext \/ UNCHANGED vars
    BY <1>0, <2>1, CommonKeepsPipeline
  <2>2. CASE ~(CommonNext \/ UNCHANGED vars)
    <3>1. UNCHANGED << logged, entry, chan, hand >>
      BY <1>3, <2>2 DEF Next, TcpSend, TcpSendDropped, SendAccepted,
         TcpSendError, SendRejected, TcpRecvEnd, RecvEnded, Arrive, PeerGone,
         recvVars, logVars
    <3>2. QED
      BY <3>1 DEF Pipeline
  <2>3. QED
    BY <2>1, <2>2
<1>4. QED
  BY <1>1, <1>2, <1>3

-----------------------------------------------------------------------------
(* The order of the frames. *)

\* Frame p is packet k of this client, with its stamp.
IsPacket(p, k) ==
    /\ p.seq = k
    /\ k + 1 \in 1 .. Len(stamps)
    /\ p.sent = stamps[k + 1]

\* What makes InOrder inductive: the results read, the frames that can be read
\* and the frames on their way are packets 0, 1, 2, ... without a gap, up to
\* the last packet sent unless the server has gone.
FlowInv ==
    /\ sendPc # "panicked"
    /\ Len(stamps) = IF sendPc \in {"sending", "failed"} THEN sendSeq + 1
                     ELSE sendSeq
    /\ sendPc = "sending" => IsPacket(payload, sendSeq)
    /\ \A i \in 1 .. Len(Pipeline) : IsPacket(Pipeline[i], i - 1)
    /\ \A i \in 1 .. Len(rxq) : IsPacket(rxq[i], Len(Pipeline) + i - 1)
    /\ \A i \in 1 .. Len(wire) :
         IsPacket(wire[i], Len(Pipeline) + Len(rxq) + i - 1)
    /\ ~sockErr => Len(Pipeline) + Len(rxq) + Len(wire) = sendSeq

\* Each step keeps the frames in their order.
LEMMA FlowInvStep == TypeOK /\ FlowInv /\ [Next]_vars => FlowInv'
<1> SUFFICES ASSUME TypeOK, FlowInv, [Next]_vars PROVE FlowInv'
  OBVIOUS
<1>0. /\ now \in Nat /\ stamps \in Seq(Nat) /\ sendSeq \in Nat
      /\ wire \in Seq(Packet) /\ rxq \in Seq(Packet) /\ payload \in Packet
      /\ Pipeline \in Seq(Result)
      /\ Len(wire) \in Nat /\ Len(rxq) \in Nat /\ Len(Pipeline) \in Nat
      /\ Len(stamps) \in Nat
  <2>1. /\ now \in Nat /\ stamps \in Seq(Nat) /\ sendSeq \in Nat
        /\ wire \in Seq(Packet) /\ rxq \in Seq(Packet) /\ payload \in Packet
    BY EchoClientAssumption DEF TypeOK, ClientTypeOK
  <2>2. QED
    BY <2>1, PipelineStep
<1>1. ~TcpRecv => Pipeline' = Pipeline
  BY PipelineStep
<1>2. CASE SendTick
  <2>1. /\ sendPc = "pacing" /\ sendPc' = "sending" /\ sendSeq' = sendSeq
        /\ stamps' = Append(stamps, now)
        /\ payload' = [payload EXCEPT !.seq = sendSeq, !.sent = now]
        /\ UNCHANGED << wire, rxq, sockErr, hand >>
    BY <1>2 DEF SendTick, netVars, recvVars
  <2>2. ~TcpRecv
    BY <2>1, RecvTakesHand
  <2>3. Len(stamps') = sendSeq' + 1 /\ stamps'[sendSeq + 1] = now
    BY <1>0, <2>1, AppendFacts DEF FlowInv
  <2>4. IsPacket(payload, sendSeq)'
    BY <1>0, <2>1, <2>3 DEF IsPacket, Packet
  <2>5. ASSUME NEW i \in 1 .. Len(rxq)
        PROVE  IsPacket(rxq[i], Len(Pipeline) + i - 1)'
    <3>1. IsPacket(rxq[i], Len(Pipeline) + i - 1)
      BY DEF FlowInv
    <3>2. QED
      BY <1>0, <1>1, <2>1, <2>2, <3>1, AppendFacts DEF IsPacket
  <2>6. ASSUME NEW i \in 1 .. Len(wire)
        PROVE  IsPacket(wire[i], Len(Pipeline) + Len(rxq) + i - 1)'
    <3>1. IsPacket(wire[i], Len(Pipeline) + Len(rxq) + i - 1)
      BY DEF FlowInv
    <3>2. QED
      BY <1>0, <1>1, <2>1, <2>2, <3>1, AppendFacts DEF IsPacket
  <2>7. ASSUME NEW i \in 1 .. Len(Pipeline)
        PROVE  IsPacket(Pipeline[i], i - 1)'
    <3>1. IsPacket(Pipeline[i], i - 1)
      BY DEF FlowInv
    <3>2. QED
      BY <1>0, <1>1, <2>1, <2>2, <3>1, AppendFacts DEF IsPacket
  <2>8. QED
    BY <1>1, <2>1, <2>2, <2>3, <2>4, <2>5, <2>6, <2>7 DEF FlowInv
<1>3. CASE TcpSend
  <2>1. /\ sendPc = "sending" /\ sendPc' \in {"done", "pacing"}
        /\ sendSeq' = sendSeq + 1 /\ ~sockErr
        /\ wire' = Append(wire, payload)
        /\ UNCHANGED << stamps, rxq, sockErr, hand >>
    BY <1>3 DEF TcpSend, SendAccepted, LoopTop, recvVars
  <2>2. Pipeline' = Pipeline
    BY <1>1, <2>1, RecvTakesHand
  <2>3. /\ Len(wire') = Len(wire) + 1 /\ wire'[Len(wire) + 1] = payload
        /\ \A i \in 1 .. Len(wire) : wire'[i] = wire[i]
    BY <1>0, <2>1, AppendFacts
  <2>4. /\ IsPacket(payload, sendSeq)
        /\ Len(Pipeline) + Len(rxq) + Len(wire) = sendSeq
    BY <2>1 DEF FlowInv
  <2>5. ASSUME NEW i \in 1 .. Len(wire')
        PROVE  IsPacket(wire[i], Len(Pipeline) + Len(rxq) + i - 1)'
    <3>1. CASE i \in 1 .. Len(wire)
      <4>1. IsPacket(wire[i], Len(Pipeline) + Len(rxq) + i - 1)
        BY <3>1 DEF FlowInv
      <4>2. QED
        BY <2>1, <2>2, <2>3, <3>1, <4>1 DEF IsPacket
    <3>2. CASE i = Len(wire) + 1
      <4>1. Len(Pipeline) + Len(rxq) + i - 1 = sendSeq
        BY <1>0, <2>4, <3>2
      <4>2. QED
        BY <2>1, <2>2, <2>3, <2>4, <3>2, <4>1 DEF IsPacket
    <3>3. QED
      BY <1>0, <2>3, <3>1, <3>2
  <2>6. ASSUME NEW i \in 1 .. Len(rxq)
        PROVE  IsPacket(rxq[i], Len(Pipeline) + i - 1)'
    BY <2>1, <2>2 DEF IsPacket, FlowInv
  <2>7. Len(Pipeline') + Len(rxq') + Len(wire') = sendSeq'
    <3>1. /\ Len(Pipeline') = Len(Pipeline) /\ Len(rxq') = Len(rxq)
          /\ sendSeq' = sendSeq + 1
      BY <2>1, <2>2
    <3>2. \A n, m, l, k \in Nat : n + m + l = k => n + m + (l + 1) = k + 1
      OBVIOUS
    <3>3. Len(Pipeline) + Len(rxq) + (Len(wire) + 1) = sendSeq + 1
      BY <1>0, <2>4, <3>2
    <3>4. QED
      BY <2>3, <3>1, <3>3
  <2>8. Len(stamps') = sendSeq'
    BY <2>1 DEF FlowInv
  <2>9. \A i \in 1 .. Len(Pipeline') : IsPacket(Pipeline[i], i - 1)'
    BY <2>1, <2>2 DEF IsPacket, FlowInv
  <2>10. QED
    BY <2>1, <2>5, <2>6, <2>7, <2>8, <2>9 DEF FlowInv
<1>4. CASE TcpRecv
  <2> DEFINE p == Head(rxq)
             r == TcpResultOf(p)
  <2>1. /\ rxq # << >> /\ rxq' = Tail(rxq)
        /\ UNCHANGED << sendPc, sendSeq, stamps, payload, wire, sockErr >>
    BY <1>4 DEF TcpRecv, RecvResult, sendVars
  <2>2. /\ p \in Packet /\ p = rxq[1] /\ Len(rxq') = Len(rxq) - 1
        /\ 1 \in 1 .. Len(rxq)
        /\ \A i \in 1 .. Len(rxq') :
             i + 1 \in 1 .. Len(rxq) /\ rxq'[i] = rxq[i + 1]
    BY <1>0, <2>1, TailFacts
  <2>3. r \in Result /\ r.seq = p.seq /\ r.sent = p.sent
    BY <1>0, <2>2, ResultFacts
  <2>4. IsPacket(p, Len(Pipeline))
    BY <1>0, <2>2 DEF FlowInv
  <2>5. /\ Len(Pipeline') = Len(Pipeline) + 1
        /\ Pipeline'[Len(Pipeline) + 1] = r
        /\ \A i \in 1 .. Len(Pipeline) : Pipeline'[i] = Pipeline[i]
    <3>1. Pipeline' = Append(Pipeline, r)
      BY <1>4, PipelineStep
    <3> HIDE DEF r
    <3>2. QED
      BY <1>0, <2>3, <3>1, AppendFacts
  <2>6. ASSUME NEW i \in 1 .. Len(Pipeline') PROVE IsPacket(Pipeline[i], i - 1)'
    <3>1. CASE i \in 1 .. Len(Pipeline)
      BY <2>1, <2>5, <3>1 DEF FlowInv, IsPacket
    <3>2. CASE i = Len(Pipeline) + 1
      <4>1. i - 1 = Len(Pipeline)
        BY <1>0, <3>2
      <4>2. QED
        BY <2>1, <2>3, <2>4, <2>5, <3>2, <4>1 DEF IsPacket
    <3>3. QED
      BY <1>0, <2>5, <3>1, <3>2
  <2>7. ASSUME NEW i \in 1 .. Len(rxq')
        PROVE  IsPacket(rxq[i], Len(Pipeline) + i - 1)'
    <3>1. IsPacket(rxq[i + 1], Len(Pipeline) + (i + 1) - 1)
      BY <2>2 DEF FlowInv
    <3>2. Len(Pipeline) + (i + 1) - 1 = Len(Pipeline') + i - 1
      BY <1>0, <2>5
    <3>3. QED
      BY <2>1, <2>2, <3>1, <3>2 DEF IsPacket
  <2>8. ASSUME NEW i \in 1 .. Len(wire')
        PROVE  IsPacket(wire[i], Len(Pipeline) + Len(rxq) + i - 1)'
    <3>1. IsPacket(wire[i], Len(Pipeline) + Len(rxq) + i - 1)
      BY <2>1 DEF FlowInv
    <3>2. Len(Pipeline') + Len(rxq') = Len(Pipeline) + Len(rxq)
      BY <1>0, <2>2, <2>5
    <3>3. QED
      BY <2>1, <3>1, <3>2 DEF IsPacket
  <2>9. sendPc' = "sending" => IsPacket(payload, sendSeq)'
    BY <2>1 DEF IsPacket, FlowInv
  <2>10. Len(Pipeline') + Len(rxq') + Len(wire')
         = Len(Pipeline) + Len(rxq) + Len(wire)
    BY <1>0, <2>1, <2>2, <2>5
  <2>11. QED
    BY <2>1, <2>6, <2>7, <2>8, <2>9, <2>10 DEF FlowInv
<1>5. CASE Arrive
  <2> DEFINE p == Head(wire)
  <2>1. /\ wire # << >> /\ wire' = Tail(wire) /\ rxq' = Append(rxq, p)
        /\ UNCHANGED << sendPc, sendSeq, stamps, payload, sockErr, hand >>
    BY <1>5 DEF Arrive, sendVars, recvVars
  <2>2. Pipeline' = Pipeline
    BY <1>1, <2>1, RecvTakesHand
  <2>3. /\ p \in Packet /\ p = wire[1] /\ Len(wire') = Len(wire) - 1
        /\ 1 \in 1 .. Len(wire)
        /\ \A i \in 1 .. Len(wire') :
             i + 1 \in 1 .. Len(wire) /\ wire'[i] = wire[i + 1]
    BY <1>0, <2>1, TailFacts
  <2>4. /\ Len(rxq') = Len(rxq) + 1 /\ rxq'[Len(rxq) + 1] = p
        /\ \A i \in 1 .. Len(rxq) : rxq'[i] = rxq[i]
    BY <1>0, <2>1, <2>3, AppendFacts
  <2>5. ASSUME NEW i \in 1 .. Len(rxq')
        PROVE  IsPacket(rxq[i], Len(Pipeline) + i - 1)'
    <3>1. CASE i \in 1 .. Len(rxq)
      <4>1. IsPacket(rxq[i], Len(Pipeline) + i - 1)
        BY <3>1 DEF FlowInv
      <4>2. QED
        BY <2>1, <2>2, <2>4, <3>1, <4>1 DEF IsPacket
    <3>2. CASE i = Len(rxq) + 1
      <4>1. IsPacket(p, Len(Pipeline) + Len(rxq) + 1 - 1)
        BY <2>3 DEF FlowInv
      <4>2. Len(Pipeline) + Len(rxq) + 1 - 1 = Len(Pipeline') + i - 1
        BY <1>0, <2>2, <3>2
      <4>3. QED
        BY <2>1, <2>4, <3>2, <4>1, <4>2 DEF IsPacket
    <3>3. QED
      BY <1>0, <2>4, <3>1, <3>2
  <2>6. ASSUME NEW i \in 1 .. Len(wire')
        PROVE  IsPacket(wire[i], Len(Pipeline) + Len(rxq) + i - 1)'
    <3>1. IsPacket(wire[i + 1], Len(Pipeline) + Len(rxq) + (i + 1) - 1)
      BY <2>3 DEF FlowInv
    <3>2. Len(Pipeline) + Len(rxq) + (i + 1) - 1
          = Len(Pipeline') + Len(rxq') + i - 1
      BY <1>0, <2>2, <2>4
    <3>3. QED
      BY <2>1, <2>3, <3>1, <3>2 DEF IsPacket
  <2>7. sendPc' = "sending" => IsPacket(payload, sendSeq)'
    BY <2>1 DEF IsPacket, FlowInv
  <2>8. Len(Pipeline') + Len(rxq') + Len(wire')
        = Len(Pipeline) + Len(rxq) + Len(wire)
    BY <1>0, <2>2, <2>3, <2>4
  <2>9. \A i \in 1 .. Len(Pipeline') : IsPacket(Pipeline[i], i - 1)'
    BY <2>1, <2>2 DEF IsPacket, FlowInv
  <2> HIDE DEF p
  <2>10. QED
    BY <2>1, <2>2, <2>5, <2>6, <2>7, <2>8, <2>9 DEF FlowInv
<1>6. CASE PeerGone
  <2>1. /\ sockErr' = TRUE
        /\ UNCHANGED << sendPc, sendSeq, stamps, payload, rxq, hand >>
    BY <1>6 DEF PeerGone, sendVars, recvVars
  <2>2. Pipeline' = Pipeline
    BY <1>1, <2>1, RecvTakesHand
  <2>3. \A i \in 1 .. Len(wire') : i \in 1 .. Len(wire) /\ wire'[i] = wire[i]
    BY <1>0, <1>6, PrefixFacts DEF PeerGone
  <2>4. ASSUME NEW i \in 1 .. Len(wire')
        PROVE  IsPacket(wire[i], Len(Pipeline) + Len(rxq) + i - 1)'
    BY <2>1, <2>2, <2>3 DEF IsPacket, FlowInv
  <2>5. QED
    BY <2>1, <2>2, <2>4 DEF IsPacket, FlowInv
<1>7. CASE SendWarmup \/ TcpSendDropped \/ TcpSendError
  <2>1. UNCHANGED << stamps, payload, wire, rxq, sockErr, hand >>
    BY <1>7 DEF SendWarmup, TcpSendDropped, SendAccepted, TcpSendError,
       SendRejected, netVars, recvVars
  <2>2. Pipeline' = Pipeline
    BY <1>1, <2>1, RecvTakesHand
  <2>3. /\ sendPc' \in {"done", "pacing", "failed"}
        /\ Len(stamps) = IF sendPc' = "failed" THEN sendSeq' + 1 ELSE sendSeq'
        /\ sockErr \/ sendSeq' = sendSeq
    BY <1>7 DEF SendWarmup, TcpSendDropped, SendAccepted, TcpSendError,
       SendRejected, LoopTop, FlowInv
  <2>4. QED
    BY <2>1, <2>2, <2>3 DEF IsPacket, FlowInv
<1>8. CASE ~(SendTick \/ TcpSend \/ TcpRecv \/ Arrive \/ PeerGone
             \/ SendWarmup \/ TcpSendDropped \/ TcpSendError)
  <2>1. UNCHANGED << sendVars, wire, rxq, sockErr >>
    BY <1>8 DEF Next, CommonNext, SendTask, LogTask, Terminated, Tick,
       TcpRecvEnd, RecvEnded, Enqueue, EnqueueClosed, LogTake, LogWrite,
       LogFail, Main, MainSendJoined, MainRecvJoined, GraceOver, LingerOver,
       vars, netVars
  <2>2. Pipeline' = Pipeline
    BY <1>1, <1>8
  <2>3. QED
    BY <2>1, <2>2 DEF IsPacket, FlowInv, sendVars
<1>9. QED
  BY <1>2, <1>3, <1>4, <1>5, <1>6, <1>7, <1>8

\* The frames are in order from the start.
LEMMA FlowInvariance == Spec => []FlowInv
<1>1. Init => FlowInv
  <2> SUFFICES ASSUME Init PROVE FlowInv
    OBVIOUS
  <2>1. /\ stamps = << >> /\ logged = << >> /\ entry = << >> /\ chan = << >>
        /\ hand = << >> /\ rxq = << >> /\ wire = << >>
        /\ sendPc = "warmup" /\ sendSeq = 0
    BY DEF Init, ClientInit
  <2>2. Pipeline = << >>
    BY <2>1 DEF Pipeline
  <2>3. QED
    BY <2>1, <2>2 DEF FlowInv
<1>2. QED
  BY <1>1, FlowInvStep, TypeInvariance, PTL DEF Spec

\* InOrder: the results of a connection are the replies to packets 0, 1, 2,
\* ... with their stamps, in every stage, although the server may go and its
\* socket still takes frames.
THEOREM ResultsAreInOrder == Spec => []InOrder
<1>1. TypeOK /\ FlowInv => InOrder
  <2> SUFFICES ASSUME TypeOK, FlowInv PROVE InOrder
    OBVIOUS
  <2>1. Pipeline \in Seq(Result)
    BY ConcatProperties DEF Pipeline, TypeOK, ClientTypeOK
  <2>2. DOMAIN Pipeline = 1 .. Len(Pipeline)
    BY <2>1
  <2>3. stamps \in Seq(Nat)
    BY DEF TypeOK, ClientTypeOK
  <2>4. ASSUME NEW i \in 1 .. Len(Pipeline)
        PROVE  /\ Pipeline[i].seq = i - 1
               /\ i \in DOMAIN stamps /\ Pipeline[i].sent = stamps[i]
    <3>1. IsPacket(Pipeline[i], i - 1) /\ i - 1 + 1 = i
      BY <2>1, <2>4 DEF FlowInv
    <3>2. QED
      BY <2>3, <3>1 DEF IsPacket
  <2>5. QED
    BY <2>2, <2>4 DEF InOrder
<1>2. QED
  BY <1>1, FlowInvariance, TypeInvariance, PTL

-----------------------------------------------------------------------------
(* The client implements EchoLog. *)

\* Every step of the client is a step of EchoLog, or changes nothing there.
LEMMA StepKeepsPromise ==
    TypeOK /\ FlowInv /\ [Next]_vars => [Promise!Next]_(Promise!vars)
<1> SUFFICES ASSUME TypeOK, FlowInv, [Next]_vars
             PROVE  Promise!Next \/ UNCHANGED Promise!vars
  OBVIOUS
<1>0. ClientTypeOK(Result) /\ rxq \in Seq(Packet)
  BY DEF TypeOK
<1>1. CASE CommonNext \/ UNCHANGED vars
  BY <1>0, <1>1, CommonKeepsPromise
<1>2. CASE TcpRecv
  <2> DEFINE p == Head(rxq)
             r == TcpResultOf(p)
  <2>1. /\ Reading /\ rxq # << >> /\ RecvResult(r) /\ r \in Result
        /\ r.seq = p.seq /\ r.sent = p.sent
    BY <1>2, RecvFacts
  <2>2. p = rxq[1] /\ 1 \in 1 .. Len(rxq)
    BY <1>0, <2>1, TailFacts
  <2>3. IsPacket(p, Len(Pipeline) + 1 - 1)
    BY <2>2 DEF FlowInv
  <2> HIDE DEF p, r
  <2>4. Own(r, stamps)
    BY <2>1, <2>3 DEF Own, IsPacket
  <2>5. QED
    BY <1>0, <2>1, <2>4, OwnAnswers, RecvKeepsPromise
<1>3. CASE ~(CommonNext \/ TcpRecv \/ UNCHANGED vars)
  <2>1. UNCHANGED << stamps, logged, entry, chan, hand, mainPc >>
    BY <1>3 DEF Next, TcpSend, TcpSendDropped, SendAccepted, TcpSendError,
       SendRejected, TcpRecvEnd, RecvEnded, Arrive, PeerGone, sendVars,
       recvVars, logVars, mainVars
  <2>2. QED
    BY <2>1, OutsideKeepsPromise
<1>4. QED
  BY <1>1, <1>2, <1>3

\* KeepsPromise: the tasks and queues of the TCP client and its connection
\* implement the promise of EchoLog, wherever the server closes it.
THEOREM TcpClientKeepsPromise == Spec => KeepsPromise
<1>1. Init => Promise!Init
  BY InitKeepsPromise DEF Init
<1>2. QED
  BY <1>1, StepKeepsPromise, TypeInvariance, FlowInvariance, PTL
  DEF Spec, KeepsPromise, Promise!Spec

-----------------------------------------------------------------------------
(* The inter-arrival times. *)

\* TimeInv is inductive, given the types.
LEMMA TimeStep == TypeOK /\ TimeInv /\ [Next]_vars => TimeInv'
<1> SUFFICES ASSUME TypeOK, TimeInv, [Next]_vars PROVE TimeInv'
  OBVIOUS
<1>0. ClientTypeOK(Result)
  BY DEF TypeOK
<1>1. CASE CommonNext \/ UNCHANGED vars
  BY <1>0, <1>1, ResultRecv, TimeInvStep
<1>2. CASE TcpRecv
  <2>1. TcpResultOf(Head(rxq)).recv = now
    BY DEF TcpResultOf
  <2>2. QED
    BY <1>0, <1>2, <2>1, RecvFacts, ResultRecv, TimeInvStep
<1>3. CASE ~(CommonNext \/ TcpRecv \/ UNCHANGED vars)
  <2>1. UNCHANGED << now, chan, hand, time >>
    BY <1>3 DEF Next, TcpSend, TcpSendDropped, SendAccepted, TcpSendError,
       SendRejected, TcpRecvEnd, RecvEnded, Arrive, PeerGone, recvVars,
       logVars
  <2>2. QED
    BY <1>0, <2>1, ResultRecv, TimeInvStep
<1>4. QED
  BY <1>1, <1>2, <1>3

\* PiatDefined: recv_timestamp - time never underflows.
THEOREM PiatAlwaysDefined == Spec => []PiatDefined
<1>1. Init => TimeInv
  BY InitInvs DEF Init
<1>2. TypeOK /\ TimeInv => PiatDefined
  BY TimeInvImplies DEF TypeOK
<1>3. QED
  BY <1>1, <1>2, TimeStep, TypeInvariance, PTL DEF Spec

-----------------------------------------------------------------------------
(* The log task and main. *)

\* FileLosesOnlyTail: whenever the process ends, the file holds the results
\* logged but for the last few.
THEOREM FileLosesOnlyTailAlways == Spec => []FileLosesOnlyTail
<1>1. Init => FileInv
  BY InitInvs DEF Init
<1>2. TypeOK /\ FileInv /\ [Next]_vars => FileInv'
  BY Steps, FileInvStep DEF TypeOK
<1>3. TypeOK /\ FileInv => FileLosesOnlyTail
  BY FileInvImplies DEF TypeOK
<1>4. QED
  BY <1>1, <1>2, <1>3, TypeInvariance, PTL DEF Spec

\* PiatSamples: the inter-arrival samples are the differences of the receive
\* stamps of consecutive results, none skipped and none counted twice.
THEOREM SamplesAreGaps == Spec => []PiatSamples
<1>1. Init => PiatInv
  BY InitInvs DEF Init
<1>2. TypeOK /\ PiatInv /\ [Next]_vars => PiatInv'
  BY ResultRecv, Steps, PiatInvStep DEF TypeOK
<1>3. PiatInv => PiatSamples
  BY DEF PiatInv
<1>4. QED
  BY <1>1, <1>2, <1>3, TypeInvariance, PTL DEF Spec

\* CompleteOnCleanExit: main compares two counters only, but since a
\* connection neither loses nor repeats a frame before its end, their equality
\* means that each packet has its own result.
THEOREM CleanExitIsComplete == Spec => []CompleteOnCleanExit
<1>1. Init => ExitInv
  BY InitInvs DEF Init
<1>2. TypeOK /\ ExitInv /\ [Next]_vars => ExitInv'
  BY Steps, ExitInvStep DEF TypeOK
<1>3. TypeOK /\ FlowInv /\ ExitInv => CompleteOnCleanExit
  <2> SUFFICES ASSUME TypeOK, FlowInv, ExitInv, mainPc = "exited", ~warned,
                      NEW k \in 0 .. sendSeq - 1
               PROVE  \E i \in DOMAIN logged : logged[i].seq = k
    BY DEF CompleteOnCleanExit
  <2>1. /\ logged \in Seq(Result) /\ sendSeq \in Nat
        /\ DOMAIN logged = 1 .. Len(logged) /\ Len(logged) \in Nat
        /\ \A i \in 1 .. Len(logged) :
             i \in 1 .. Len(Pipeline) /\ logged[i] = Pipeline[i]
    BY LoggedFacts DEF TypeOK, ClientTypeOK
  <2>2. k + 1 \in 1 .. Len(logged)
    BY <2>1 DEF ExitInv
  <2>3. logged[k + 1].seq = k + 1 - 1
    BY <2>1, <2>2 DEF FlowInv, IsPacket
  <2>4. QED
    BY <2>1, <2>2, <2>3
<1>4. QED
  BY <1>1, <1>2, <1>3, FlowInvariance, TypeInvariance, PTL DEF Spec
=============================================================================
