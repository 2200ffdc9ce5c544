-------------------------- MODULE EchoClientProofs --------------------------
(***************************************************************************)
(* What the proofs about the three ping clients share: the facts about     *)
(* sequences they rest on, the types of the tasks' variables, how results  *)
(* move through the pipeline, and the invariants of the log task and of    *)
(* main, which do not depend on the protocol.  Results are of any kind R   *)
(* that has a receive stamp.                                               *)
(***************************************************************************)
EXTENDS EchoClient, SequenceTheorems, FiniteSetTheorems, TLAPS

-----------------------------------------------------------------------------
(* Facts about sequences. *)

\* A sequence with one more element at its end.
LEMMA AppendFacts ==
    ASSUME NEW S, NEW s \in Seq(S), NEW e \in S
    PROVE  /\ Append(s, e) \in Seq(S)
           /\ Len(Append(s, e)) = Len(s) + 1
           /\ \A i \in 1 .. Len(s) : Append(s, e)[i] = s[i]
           /\ Append(s, e)[Len(s) + 1] = e
  OBVIOUS

\* A queue from which the first element is taken.
LEMMA TailFacts ==
    ASSUME NEW S, NEW s \in Seq(S), s # << >>
    PROVE  /\ Head(s) \in S /\ Head(s) = s[1]
           /\ Tail(s) \in Seq(S)
           /\ Len(Tail(s)) = Len(s) - 1
           /\ 1 \in 1 .. Len(s)
           /\ \A i \in 1 .. Len(Tail(s)) :
                i + 1 \in 1 .. Len(s) /\ Tail(s)[i] = s[i + 1]
  OBVIOUS

\* The send on the channel: one sequence behind another.
LEMMA ConcatFacts ==
    ASSUME NEW S, NEW s \in Seq(S), NEW t \in Seq(S)
    PROVE  /\ s \o t \in Seq(S)
           /\ Len(s \o t) = Len(s) + Len(t)
           /\ \A i \in 1 .. Len(s) : (s \o t)[i] = s[i]
           /\ \A i \in 1 .. Len(t) : (s \o t)[Len(s) + i] = t[i]
  OBVIOUS

\* An Option that is Some.
LEMMA SingleFacts ==
    ASSUME NEW S, NEW e \in S
    PROVE  << e >> \in Seq(S) /\ Len(<< e >>) = 1 /\ << e >>[1] = e
  OBVIOUS

\* Three sequences in a row.
LEMMA Regroup ==
    ASSUME NEW S, NEW s \in Seq(S), NEW t \in Seq(S), NEW u \in Seq(S)
    PROVE  s \o (t \o u) = (s \o t) \o u
  OBVIOUS

\* A sequence of one element is that element.
LEMMA OneFacts ==
    ASSUME NEW S, NEW s \in Seq(S), Len(s) <= 1, s # << >>
    PROVE  Len(s) = 1 /\ 1 \in 1 .. Len(s) /\ s[1] \in S /\ s = << s[1] >>
<1>1. Len(s) \in Nat /\ Len(s) # 0
  OBVIOUS
<1>2. \A n \in Nat : n # 0 /\ n <= 1 => n = 1 /\ 1 \in 1 .. n
  OBVIOUS
<1>3. Len(s) = 1 /\ 1 \in 1 .. Len(s)
  BY <1>1, <1>2
<1>4. s[1] \in S
  BY <1>3, ElementOfSeq
<1>5. QED
  BY <1>3, <1>4, SingleFacts, SeqEqual

\* A queue is its first element and the rest.
LEMMA HeadTail ==
    ASSUME NEW S, NEW s \in Seq(S), s # << >>
    PROVE  << Head(s) >> \o Tail(s) = s
<1>1. /\ Head(s) \in S /\ Tail(s) \in Seq(S)
      /\ << Head(s) >> \in Seq(S) /\ Len(<< Head(s) >>) = 1
      /\ Len(Tail(s)) = Len(s) - 1
  BY TailFacts, SingleFacts
<1>2. << Head(s) >> \o Tail(s) \in Seq(S)
  BY <1>1, ConcatProperties
<1>3. Len(<< Head(s) >> \o Tail(s)) = Len(s)
  BY <1>1, ConcatFacts
<1>4. ASSUME NEW i \in 1 .. Len(s)
      PROVE  (<< Head(s) >> \o Tail(s))[i] = s[i]
  BY <1>1
<1>5. QED
  BY <1>2, <1>3, <1>4, SeqEqual

\* The first elements of two sequences in a row are those of the first.
LEMMA PrefixOfConcat ==
    ASSUME NEW S, NEW s \in Seq(S), NEW t \in Seq(S)
    PROVE  SubSeq(s \o t, 1, Len(s)) = s
<1>1. /\ s \o t \in Seq(S) /\ Len(s \o t) = Len(s) + Len(t)
      /\ Len(s) \in Nat /\ Len(t) \in Nat
      /\ \A i \in 1 .. Len(s) : (s \o t)[i] = s[i]
  BY ConcatFacts
<1>2. \A i \in 1 .. Len(s) : (s \o t)[i] \in S
  BY <1>1
<1>3. /\ SubSeq(s \o t, 1, Len(s)) \in Seq(S)
      /\ Len(SubSeq(s \o t, 1, Len(s))) = Len(s)
      /\ \A i \in 1 .. Len(s) : SubSeq(s \o t, 1, Len(s))[i] = (s \o t)[i]
  BY <1>1, <1>2
<1>4. QED
  BY <1>1, <1>3, SeqEqual

-----------------------------------------------------------------------------
(* Type correctness. *)

\* Logger::log leaves a logger.
LEMMA LogType ==
    ASSUME NEW S, NEW lg \in Logger(S), NEW r \in S
    PROVE  Log(lg, r) \in Logger(S)
<1>1. lg.buf \in Seq(S) /\ lg.disk \in Seq(S)
  BY DEF Logger
<1>2. Append(lg.buf, r) \in Seq(S) /\ << r >> \in Seq(S)
      /\ lg.disk \o lg.buf \in Seq(S)
  BY <1>1, AppendFacts, SingleFacts, ConcatFacts
<1>3. CASE Len(lg.buf) < BufCap
  <2>1. Log(lg, r) = [lg EXCEPT !.buf = Append(lg.buf, r)]
    BY <1>3 DEF Log
  <2>2. QED
    BY <1>1, <1>2, <2>1 DEF Logger
<1>4. CASE ~(Len(lg.buf) < BufCap)
  <2>1. Log(lg, r) = [buf |-> << r >>, disk |-> lg.disk \o lg.buf]
    BY <1>4 DEF Log
  <2>2. QED
    BY <1>2, <2>1 DEF Logger
<1>5. QED
  BY <1>3, <1>4

\* The initial state of a client, for every kind of results.
LEMMA InitTypes ==
    ASSUME NEW CONSTANT R, NEW m \in {"setup", "select"}, NEW p, NEW w,
           ClientInit(m, p, w)
    PROVE  ClientTypeOK(R)
<1> USE EchoClientAssumption
<1>1. NewLogger \in Logger(R)
  BY DEF NewLogger, Logger
<1>2. 0 \in 0 .. MaxClock /\ << >> \in Seq(R) /\ Len(<< >>) = 0
      /\ << >> \in Seq(Nat) /\ << >> \in Seq(Int)
  OBVIOUS
<1>3. sockErr \in BOOLEAN /\ warned \in BOOLEAN
  BY DEF ClientInit
<1>4. QED
  BY <1>1, <1>2, <1>3 DEF ClientInit, ClientTypeOK

\* The steps that the clients share keep the types.
LEMMA CommonTypes ==
    ASSUME NEW CONSTANT R, \A r \in R : r.recv \in Nat,
           ClientTypeOK(R), CommonNext \/ UNCHANGED vars
    PROVE  ClientTypeOK(R)'
<1> USE EchoClientAssumption DEF ClientTypeOK
<1>1. CASE Tick
  BY <1>1 DEF Tick, sendVars, netVars, recvVars, logVars, mainVars
<1>2. CASE SendWarmup
  BY <1>2 DEF SendWarmup, LoopTop, netVars, recvVars, logVars, mainVars
<1>3. CASE SendTick
  <2>1. now \in Nat
    OBVIOUS
  <2>2. stamps' \in Seq(Nat)
    BY <1>3, <2>1, AppendFacts DEF SendTick
  <2>3. QED
    BY <1>3, <2>2 DEF SendTick, netVars, recvVars, logVars, mainVars
<1>4. CASE Enqueue
  <2>1. chan' \in Seq(R) /\ Len(chan') <= ChanCap
    BY <1>4, ConcatFacts DEF Enqueue
  <2>2. QED
    BY <1>4, <2>1 DEF Enqueue, sendVars, netVars, logVars, mainVars
<1>5. CASE EnqueueClosed
  BY <1>5 DEF EnqueueClosed, sendVars, netVars, logVars, mainVars
<1>6. CASE LogTake
  <2>1. /\ Head(chan) \in R /\ Tail(chan) \in Seq(R)
        /\ Len(Tail(chan)) <= ChanCap
    BY <1>6, TailFacts DEF LogTake
  <2>2. Head(chan).recv \in Nat
    BY <2>1
  <2>3. /\ time' \in Nat
        /\ entry' \in Seq(R) /\ Len(entry') <= 1
    <3>1. time' = Head(chan).recv /\ entry' = << Head(chan) >>
      BY <1>6 DEF LogTake
    <3>2. QED
      BY <2>1, <2>2, <3>1, SingleFacts
  <2>4. piat' \in Seq(Int)
    <3>1. (Head(chan).recv - time) \div NsPerMs \in Int
      <4>1. time \in Nat
        OBVIOUS
      <4>2. \A a, b \in Nat : (a - b) \div NsPerMs \in Int
        OBVIOUS
      <4>3. QED
        BY <2>2, <4>1, <4>2
    <3>2. QED
      BY <1>6, <3>1, AppendFacts DEF LogTake
  <2>5. QED
    BY <1>6, <2>1, <2>3, <2>4
    DEF LogTake, sendVars, netVars, recvVars, mainVars
<1>7. CASE LogWrite
  <2>1. entry[1] \in R
    BY <1>7, OneFacts DEF LogWrite
  <2>2. logger' \in Logger(R)
    BY <1>7, <2>1, LogType DEF LogWrite
  <2>3. logged' \in Seq(R)
    BY <1>7, <2>1, AppendFacts DEF LogWrite
  <2>4. QED
    BY <1>7, <2>2, <2>3 DEF LogWrite, sendVars, netVars, recvVars, mainVars
<1>8. CASE LogFail
  BY <1>8 DEF LogFail, sendVars, netVars, recvVars, mainVars
<1>9. CASE Main
  <2>1. /\ mainPc' \in {"grace", "panicked", "linger", "exited"}
        /\ warned' \in BOOLEAN
    <3>1. CASE GraceOver
      <4>1. warned' = MissingReplies
        BY <3>1, Zenon DEF GraceOver
      <4>2. MissingReplies \in BOOLEAN
        BY DEF MissingReplies
      <4>3. warned' \in BOOLEAN
        BY <4>1, <4>2, Zenon
      <4>4. QED
        BY <3>1, <4>3 DEF GraceOver
    <3>2. CASE MainSendJoined \/ MainRecvJoined \/ LingerOver
      BY <3>2 DEF MainSendJoined, MainRecvJoined, LingerOver
    <3>3. QED
      BY <1>9, <3>1, <3>2 DEF Main
  <2>2. UNCHANGED << now, sendVars, netVars, recvVars, chan, logVars >>
    BY <1>9 DEF Main, MainSendJoined, MainRecvJoined, GraceOver, LingerOver
  <2>3. QED
    BY <2>1, <2>2 DEF sendVars, netVars, recvVars, logVars
<1>10. CASE UNCHANGED vars
  BY <1>10 DEF vars, sendVars, netVars, recvVars, logVars, mainVars
<1>11. QED
  BY <1>1, <1>2, <1>3, <1>4, <1>5, <1>6, <1>7, <1>8, <1>9, <1>10
  DEF CommonNext, SendTask, LogTask, Terminated

\* So do the two outcomes of a send, whatever becomes of the packet.
LEMMA SendTypes ==
    ASSUME NEW CONSTANT R, ClientTypeOK(R), SendAccepted \/ SendRejected,
           sockErr' \in BOOLEAN
    PROVE  ClientTypeOK(R)'
  BY DEF ClientTypeOK, SendAccepted, SendRejected, LoopTop, recvVars, logVars,
     mainVars

\* So does a result that the recv task has read.
LEMMA RecvTypes ==
    ASSUME NEW CONSTANT R, ClientTypeOK(R), NEW r \in R, RecvResult(r)
    PROVE  ClientTypeOK(R)'
<1>1. hand' \in Seq(R) /\ Len(hand') <= 1
  BY SingleFacts DEF RecvResult
<1>2. QED
  BY <1>1 DEF ClientTypeOK, RecvResult, sendVars, logVars, mainVars

\* So does the end of the recv task.
LEMMA RecvEndTypes ==
    ASSUME NEW CONSTANT R, ClientTypeOK(R), RecvEnded, sockErr' \in BOOLEAN
    PROVE  ClientTypeOK(R)'
  BY DEF ClientTypeOK, RecvEnded, sendVars, logVars, mainVars

\* So does what happens on the network.
LEMMA NetworkTypes ==
    ASSUME NEW CONSTANT R, ClientTypeOK(R),
           sockErr' \in BOOLEAN, dups' \in Nat,
           UNCHANGED << now, sendVars, recvVars, chan, logVars, mainVars >>
    PROVE  ClientTypeOK(R)'
  BY DEF ClientTypeOK, sendVars, recvVars, logVars, mainVars

-----------------------------------------------------------------------------
(* How results move. *)

\* Everything that has been read is a result.
LEMMA PipelineType ==
    ASSUME NEW R, ClientTypeOK(R)
    PROVE  /\ logged \in Seq(R) /\ entry \in Seq(R)
           /\ chan \in Seq(R) /\ hand \in Seq(R)
           /\ logged \o entry \in Seq(R) /\ Pipeline \in Seq(R)
  BY ConcatProperties DEF ClientTypeOK, Pipeline

\* The recv task has read a result: it is the last of all.
LEMMA RecvAppends ==
    ASSUME NEW R, ClientTypeOK(R), NEW r \in R, Reading, RecvResult(r)
    PROVE  Pipeline' = Append(Pipeline, r)
<1> DEFINE x == logged \o entry \o chan
<1>1. /\ hand = << >> /\ hand' = << r >>
      /\ UNCHANGED << logged, entry, chan >>
  BY DEF Reading, RecvResult, logVars
<1>2. x \in Seq(R)
  BY PipelineType, ConcatProperties
<1>3. Pipeline = x
  BY <1>1, <1>2, ConcatEmptySeq DEF Pipeline
<1>4. Pipeline' = x \o << r >>
  BY <1>1 DEF Pipeline
<1>5. QED
  BY <1>2, <1>3, <1>4, AppendIsConcat

\* The recv task queues its result: what moves from one of the four stages to
\* the next leaves the whole as it is.
LEMMA EnqueueMoves ==
    ASSUME NEW R, ClientTypeOK(R), Enqueue
    PROVE  Pipeline' = Pipeline
<1> DEFINE x == logged \o entry
<1>1. /\ chan' = chan \o hand /\ hand' = << >>
      /\ UNCHANGED << logged, entry >>
  BY DEF Enqueue, logVars
<1>2. /\ x \in Seq(R) /\ chan \in Seq(R) /\ hand \in Seq(R)
      /\ chan \o hand \in Seq(R)
  BY PipelineType, ConcatProperties
<1>3. Pipeline' = (x \o (chan \o hand)) \o << >>
  BY <1>1 DEF Pipeline
<1>4. Pipeline = (x \o chan) \o hand
  BY DEF Pipeline
<1> HIDE DEF x
<1>5. x \o (chan \o hand) \in Seq(R)
  BY <1>2, ConcatProperties
<1>6. (x \o (chan \o hand)) \o << >> = x \o (chan \o hand)
  BY <1>5, ConcatEmptySeq
<1>7. x \o (chan \o hand) = (x \o chan) \o hand
  BY <1>2, Regroup
<1>8. QED
  BY <1>3, <1>4, <1>6, <1>7

\* The log task takes the first result of the channel.
LEMMA TakeMoves ==
    ASSUME NEW R, ClientTypeOK(R), LogTake
    PROVE  Pipeline' = Pipeline
<1> DEFINE h == Head(chan)
           q == Tail(chan)
<1>1. /\ entry = << >> /\ chan # << >>
      /\ entry' = << h >> /\ chan' = q
      /\ UNCHANGED << logged, hand >>
  BY DEF LogTake, recvVars
<1>2. logged \in Seq(R) /\ chan \in Seq(R)
  BY PipelineType
<1>3. h \in R /\ q \in Seq(R) /\ << h >> \in Seq(R)
  BY <1>1, <1>2, TailFacts, SingleFacts
<1>4. << h >> \o q = chan
  BY <1>1, <1>2, HeadTail
<1>5. Pipeline = (logged \o chan) \o hand
  <2>1. Pipeline = ((logged \o << >>) \o chan) \o hand
    BY <1>1 DEF Pipeline
  <2>2. logged \o << >> = logged
    BY <1>2, ConcatEmptySeq
  <2>3. QED
    BY <2>1, <2>2
<1>6. Pipeline' = ((logged \o << h >>) \o q) \o hand
  BY <1>1 DEF Pipeline
<1>7. (logged \o << h >>) \o q = logged \o (<< h >> \o q)
  BY <1>2, <1>3, Regroup
<1>8. QED
  BY <1>4, <1>5, <1>6, <1>7

\* The log task finishes the result it has: it is the first of those that
\* have been read and not been logged.
LEMMA WriteMoves ==
    ASSUME NEW R, ClientTypeOK(R), LogWrite
    PROVE  /\ Pipeline' = Pipeline
           /\ Len(logged) < Len(Pipeline)
           /\ logged' = Append(logged, Pipeline[Len(logged) + 1])
           /\ logged \o entry = logged'
           /\ entry[1] \in R
<1> DEFINE e == entry[1]
           x == Append(logged, e)
<1>1. /\ entry # << >> /\ entry' = << >> /\ logged' = x
      /\ UNCHANGED << chan, hand >>
  BY DEF LogWrite, recvVars
<1>2. /\ logged \in Seq(R) /\ entry \in Seq(R) /\ Len(entry) <= 1
      /\ chan \in Seq(R) /\ hand \in Seq(R)
  BY PipelineType DEF ClientTypeOK
<1>3. e \in R /\ entry = << e >>
  BY <1>1, <1>2, OneFacts
<1> HIDE DEF e
<1>4. x = logged \o entry /\ x \in Seq(R) /\ x \o << >> = x
  BY <1>2, <1>3, AppendIsConcat, AppendProperties, ConcatEmptySeq
<1>5. Len(x) = Len(logged) + 1 /\ x[Len(logged) + 1] = e /\ Len(logged) \in Nat
  BY <1>2, <1>3, AppendFacts
<1> HIDE DEF x
<1>6. Pipeline = (x \o chan) \o hand
  BY <1>4 DEF Pipeline
<1>7. Pipeline' = (x \o chan) \o hand
  BY <1>1, <1>4 DEF Pipeline
<1>8. /\ x \o chan \in Seq(R)
      /\ Len(x \o chan) \in Nat /\ Len(x \o chan) >= Len(x)
      /\ \A i \in 1 .. Len(x) : (x \o chan)[i] = x[i]
  BY <1>2, <1>4, ConcatFacts
<1>9. /\ Len(logged) + 1 \in 1 .. Len(x)
      /\ Len(logged) + 1 \in 1 .. Len(x \o chan)
  BY <1>5, <1>8
<1>10. ((x \o chan) \o hand)[Len(logged) + 1] = e
  BY <1>2, <1>5, <1>8, <1>9, ConcatFacts
<1>11. Len((x \o chan) \o hand) = Len(x \o chan) + Len(hand)
       /\ Len(hand) \in Nat
  BY <1>2, <1>8, ConcatFacts
<1>12. Len(logged) < Len((x \o chan) \o hand)
  BY <1>5, <1>8, <1>11
<1>13. QED
  BY <1>1, <1>3, <1>4, <1>6, <1>7, <1>10, <1>12 DEF e, x

\* No step that the clients share adds a result or takes one away.
LEMMA CommonKeepsPipeline ==
    ASSUME NEW R, ClientTypeOK(R), CommonNext \/ UNCHANGED vars
    PROVE  Pipeline' = Pipeline
<1>1. CASE Enqueue
  BY <1>1, EnqueueMoves
<1>2. CASE LogTake
  BY <1>2, TakeMoves
<1>3. CASE LogWrite
  BY <1>3, WriteMoves
<1>4. CASE ~(Enqueue \/ LogTake \/ LogWrite)
  <2>1. UNCHANGED << logged, entry, chan, hand >>
    BY <1>4 DEF CommonNext, SendTask, LogTask, Terminated, Tick, SendWarmup,
       SendTick, EnqueueClosed, LogFail, Main, MainSendJoined, MainRecvJoined,
       GraceOver, LingerOver, vars, recvVars, logVars
  <2>2. QED
    BY <2>1 DEF Pipeline
<1>5. QED
  BY <1>1, <1>2, <1>3, <1>4

\* Results are logged in the order they were read in.
LEMMA LoggedFacts ==
    ASSUME NEW R, ClientTypeOK(R)
    PROVE  /\ Len(logged) \in Nat /\ Len(Pipeline) \in Nat
           /\ \A i \in 1 .. Len(logged) :
                i \in 1 .. Len(Pipeline) /\ logged[i] = Pipeline[i]
<1> DEFINE x == logged \o entry
           y == x \o chan
<1>1. /\ logged \in Seq(R) /\ entry \in Seq(R) /\ chan \in Seq(R)
      /\ hand \in Seq(R) /\ x \in Seq(R) /\ y \in Seq(R)
  BY PipelineType, ConcatProperties
<1>2. /\ Len(x) = Len(logged) + Len(entry)
      /\ \A i \in 1 .. Len(logged) : x[i] = logged[i]
  BY <1>1, ConcatFacts
<1> HIDE DEF x
<1>3. /\ Len(y) = Len(x) + Len(chan)
      /\ \A i \in 1 .. Len(x) : y[i] = x[i]
  BY <1>1, ConcatFacts
<1>4. Pipeline = y \o hand
  BY DEF Pipeline, x
<1> HIDE DEF y
<1>5. /\ Len(Pipeline) = Len(y) + Len(hand)
      /\ \A i \in 1 .. Len(y) : Pipeline[i] = y[i]
  BY <1>1, <1>4, ConcatFacts
<1>6. /\ Len(logged) \in Nat /\ Len(entry) \in Nat /\ Len(chan) \in Nat
      /\ Len(hand) \in Nat
  BY <1>1
<1>7. ASSUME NEW i \in 1 .. Len(logged)
      PROVE  i \in 1 .. Len(Pipeline) /\ logged[i] = Pipeline[i]
  <2>1. i \in 1 .. Len(x) /\ i \in 1 .. Len(y) /\ i \in 1 .. Len(Pipeline)
    BY <1>2, <1>3, <1>5, <1>6
  <2>2. QED
    BY <1>2, <1>3, <1>5, <2>1
<1>8. QED
  BY <1>2, <1>3, <1>5, <1>6, <1>7

-----------------------------------------------------------------------------
(* The steps that the clients share are steps of EchoLog. *)

\* A longer sequence is Grown.
LEMMA AppendGrows ==
    ASSUME NEW S, NEW s \in Seq(S), NEW e \in S
    PROVE  Promise!Grown(s, Append(s, e))
<1>1. /\ Len(Append(s, e)) = Len(s) + 1
      /\ Append(s, e) = s \o << e >> /\ << e >> \in Seq(S)
  BY AppendFacts, AppendIsConcat, SingleFacts
<1>2. SubSeq(Append(s, e), 1, Len(s)) = s
  BY <1>1, PrefixOfConcat
<1>3. QED
  BY <1>1, <1>2 DEF Promise!Grown

\* While the tasks run the process has not ended.
LEMMA RunningNotEnded == Running => ~Ended
  BY DEF Running, Ended

\* Nothing has been promised yet.
LEMMA InitKeepsPromise ==
    ASSUME NEW m \in {"setup", "select"}, NEW p, NEW w, ClientInit(m, p, w)
    PROVE  Promise!Init
<1>1. /\ stamps = << >> /\ logged = << >> /\ entry = << >> /\ chan = << >>
      /\ hand = << >> /\ mainPc \in {"setup", "select"}
  BY DEF ClientInit
<1>2. Pipeline = << >> /\ Ended = FALSE
  BY <1>1 DEF Pipeline, Ended
<1>3. QED
  BY <1>1, <1>2 DEF Promise!Init

\* What main does ends the promise, or is no step of it.
LEMMA MainKeepsPromise ==
    ASSUME ~Ended, UNCHANGED << stamps, logged, entry, chan, hand >>
    PROVE  Promise!Next \/ UNCHANGED Promise!vars
<1>1. Pipeline' = Pipeline
  BY DEF Pipeline
<1>2. CASE Ended'
  <2>1. Ended' = TRUE
    BY <1>2 DEF Ended
  <2>2. Promise!Finish
    BY <1>1, <2>1 DEF Promise!Finish
  <2>3. QED
    BY <2>2 DEF Promise!Next
<1>3. CASE ~Ended'
  <2>1. Ended' = Ended
    BY <1>3 DEF Ended
  <2>2. QED
    BY <1>1, <2>1 DEF Promise!vars
<1>4. QED
  BY <1>2, <1>3

\* Each shared step is a step of EchoLog, or changes nothing there.
LEMMA CommonKeepsPromise ==
    ASSUME NEW R, ClientTypeOK(R), CommonNext \/ UNCHANGED vars
    PROVE  Promise!Next \/ UNCHANGED Promise!vars
<1>0. Pipeline' = Pipeline
  BY CommonKeepsPipeline
<1>1. CASE SendTick
  <2>1. /\ Running /\ stamps' = Append(stamps, now)
        /\ UNCHANGED << logged, mainPc >>
    BY <1>1 DEF SendTick, logVars, mainVars
  <2>2. stamps \in Seq(Nat) /\ now \in Nat
    BY EchoClientAssumption DEF ClientTypeOK
  <2>3. Promise!Grown(stamps, stamps')
    BY <2>1, <2>2, AppendGrows
  <2>4. Ended' = Ended
    BY <2>1 DEF Ended
  <2>5. Promise!Request
    BY <1>0, <2>1, <2>3, <2>4, RunningNotEnded DEF Promise!Request
  <2>6. QED
    BY <2>5 DEF Promise!Next
<1>2. CASE LogWrite
  <2>1. Running /\ UNCHANGED << stamps, mainPc >>
    BY <1>2 DEF LogWrite, sendVars, mainVars
  <2>2. Ended' = Ended
    BY <2>1 DEF Ended
  <2>3. /\ Len(logged) < Len(Pipeline)
        /\ logged' = Append(logged, Pipeline[Len(logged) + 1])
    BY <1>2, WriteMoves
  <2>4. Promise!Record
    BY <1>0, <2>1, <2>2, <2>3, RunningNotEnded DEF Promise!Record
  <2>5. QED
    BY <2>4 DEF Promise!Next
<1>3. CASE Main
  <2>1. ~Ended /\ UNCHANGED << stamps, logged, entry, chan, hand >>
    BY <1>3 DEF Main, MainSendJoined, MainRecvJoined, GraceOver, LingerOver,
       Ended, sendVars, recvVars, logVars
  <2>2. QED
    BY <2>1, MainKeepsPromise
<1>4. CASE ~(SendTick \/ LogWrite \/ Main)
  <2>1. UNCHANGED << stamps, logged, mainPc >>
    BY <1>4 DEF CommonNext, SendTask, LogTask, Terminated, Tick, SendWarmup,
       Enqueue, EnqueueClosed, LogTake, LogFail, vars, sendVars, logVars,
       mainVars
  <2>2. Ended' = Ended
    BY <2>1 DEF Ended
  <2>3. QED
    BY <1>0, <2>1, <2>2 DEF Promise!vars
<1>5. QED
  BY <1>1, <1>2, <1>3, <1>4

\* A result that answers a request is a step of EchoLog.
LEMMA RecvKeepsPromise ==
    ASSUME NEW R, ClientTypeOK(R), NEW r \in R, Reading, RecvResult(r),
           Promise!Answers(r)
    PROVE  Promise!Next
<1>1. Running /\ UNCHANGED << stamps, logged, mainPc >>
  BY DEF Reading, RecvResult, sendVars, logVars, mainVars
<1>2. Pipeline \in Seq(R) /\ Pipeline' = Append(Pipeline, r)
  BY PipelineType, RecvAppends
<1>3. Promise!Grown(Pipeline, Pipeline') /\ Pipeline'[Len(Pipeline) + 1] = r
  BY <1>2, AppendGrows, AppendFacts
<1>4. Ended' = Ended
  BY <1>1 DEF Ended
<1>5. Promise!Receive
  BY <1>1, <1>3, <1>4, RunningNotEnded DEF Promise!Receive
<1>6. QED
  BY <1>5 DEF Promise!Next

\* A step outside the pipeline is none of EchoLog.
LEMMA OutsideKeepsPromise ==
    ASSUME UNCHANGED << stamps, logged, entry, chan, hand, mainPc >>
    PROVE  UNCHANGED Promise!vars
  BY DEF Promise!vars, Pipeline, Ended

-----------------------------------------------------------------------------
(* Requests and their answers. *)

\* Packet or result r belongs to a request with a stamp among ss, and carries
\* this stamp.
Own(r, ss) == r.seq + 1 \in 1 .. Len(ss) /\ r.sent = ss[r.seq + 1]

\* A further request leaves what is own.
LEMMA OwnGrows ==
    ASSUME NEW ss \in Seq(Nat), NEW t \in Nat, NEW r, Own(r, ss)
    PROVE  Own(r, Append(ss, t))
<1>1. /\ Len(Append(ss, t)) = Len(ss) + 1 /\ Len(ss) \in Nat
      /\ \A i \in 1 .. Len(ss) : Append(ss, t)[i] = ss[i]
  BY AppendFacts
<1>2. QED
  BY <1>1 DEF Own

\* A packet with the number and the stamp of the last request is own.
LEMMA OwnLast ==
    ASSUME NEW ss \in Seq(Nat), NEW t \in Nat, NEW r,
           r.seq = Len(ss), r.sent = t
    PROVE  Own(r, Append(ss, t))
<1>1. /\ Len(Append(ss, t)) = Len(ss) + 1 /\ Len(ss) \in Nat
      /\ Append(ss, t)[Len(ss) + 1] = t
  BY AppendFacts
<1>2. QED
  BY <1>1 DEF Own

\* An own packet or result is an answer.
LEMMA OwnAnswers ==
    ASSUME NEW r, Own(r, stamps)
    PROVE  Promise!Answers(r)
  BY DEF Own, Promise!Answers

-----------------------------------------------------------------------------
(* The inter-arrival times. *)

\* What makes PiatDefined inductive: receive stamps do not decrease from the
\* log task over the channel to the recv task, and are in the past.
TimeInv ==
    /\ time <= now
    /\ \A i \in 1 .. Len(chan) : time <= chan[i].recv /\ chan[i].recv <= now
    /\ \A i, j \in 1 .. Len(chan) : i <= j => chan[i].recv <= chan[j].recv
    /\ \A k \in 1 .. Len(hand) :
         /\ time <= hand[k].recv /\ hand[k].recv <= now
         /\ \A i \in 1 .. Len(chan) : chan[i].recv <= hand[k].recv

\* TimeInv is inductive when the recv task stamps each result with the clock.
LEMMA TimeInvStep ==
    ASSUME NEW R, \A r \in R : r.recv \in Nat,
           ClientTypeOK(R), TimeInv,
           \/ CommonNext \/ UNCHANGED vars
           \/ \E r \in R : RecvResult(r) /\ r.recv = now
           \/ UNCHANGED << now, chan, hand, time >>
    PROVE  TimeInv'
<1>0. /\ now \in Nat /\ time \in Nat
      /\ chan \in Seq(R) /\ hand \in Seq(R) /\ Len(hand) <= 1
      /\ \A i \in 1 .. Len(chan) : chan[i].recv \in Nat
      /\ \A k \in 1 .. Len(hand) : hand[k].recv \in Nat
  <2>1. /\ now \in Nat /\ time \in Nat
        /\ chan \in Seq(R) /\ hand \in Seq(R) /\ Len(hand) <= 1
    BY EchoClientAssumption DEF ClientTypeOK
  <2>2. /\ \A i \in 1 .. Len(chan) : chan[i] \in R
        /\ \A k \in 1 .. Len(hand) : hand[k] \in R
    BY <2>1
  <2>3. QED
    BY <2>1, <2>2
<1>1. CASE Tick
  <2>1. now' = now + 1 /\ UNCHANGED << chan, hand, time >>
    BY <1>1 DEF Tick, recvVars, logVars
  <2>2. QED
    BY <1>0, <2>1 DEF TimeInv
<1>2. ASSUME NEW r \in R, RecvResult(r), r.recv = now PROVE TimeInv'
  <2>1. hand' = << r >> /\ UNCHANGED << now, chan, time >>
    BY <1>2 DEF RecvResult, logVars
  <2>2. Len(hand') = 1 /\ hand'[1].recv = now
    BY <1>2, <2>1
  <2>3. QED
    BY <1>0, <2>1, <2>2 DEF TimeInv
<1>3. CASE Enqueue
  <2>1. /\ chan' = chan \o hand /\ hand' = << >> /\ hand # << >>
        /\ UNCHANGED << now, time >>
    BY <1>3 DEF Enqueue, logVars
  <2>2. Len(hand) = 1 /\ 1 \in 1 .. Len(hand) /\ Len(chan) \in Nat
    BY <1>0, <2>1, OneFacts
  <2>3. /\ Len(chan') = Len(chan) + 1
        /\ \A i \in 1 .. Len(chan) : chan'[i] = chan[i]
        /\ chan'[Len(chan) + 1] = hand[1]
    <3>1. /\ Len(chan \o hand) = Len(chan) + Len(hand)
          /\ \A i \in 1 .. Len(chan) : (chan \o hand)[i] = chan[i]
          /\ \A k \in 1 .. Len(hand) : (chan \o hand)[Len(chan) + k] = hand[k]
      BY <1>0, ConcatFacts
    <3>2. QED
      BY <2>1, <2>2, <3>1
  <2>4. \A i \in 1 .. Len(chan') : i \in 1 .. Len(chan) \/ i = Len(chan) + 1
    BY <2>2, <2>3
  <2>5. \A i \in 1 .. Len(chan') :
          time' <= chan'[i].recv /\ chan'[i].recv <= now'
    BY <2>1, <2>2, <2>3, <2>4 DEF TimeInv
  <2>6. ASSUME NEW i \in 1 .. Len(chan'), NEW j \in 1 .. Len(chan'), i <= j
        PROVE  chan'[i].recv <= chan'[j].recv
    <3>1. CASE j \in 1 .. Len(chan)
      <4>1. i \in 1 .. Len(chan)
        BY <2>6, <3>1
      <4>2. QED
        BY <2>3, <2>6, <3>1, <4>1 DEF TimeInv
    <3>2. CASE j = Len(chan) + 1 /\ i \in 1 .. Len(chan)
      BY <2>2, <2>3, <3>2 DEF TimeInv
    <3>3. CASE j = Len(chan) + 1 /\ i = Len(chan) + 1
      BY <1>0, <2>2, <2>3, <3>3
    <3>4. QED
      BY <2>4, <3>1, <3>2, <3>3
  <2>7. QED
    BY <2>1, <2>5, <2>6 DEF TimeInv
<1>4. CASE LogTake
  <2>1. /\ chan # << >> /\ chan' = Tail(chan) /\ time' = Head(chan).recv
        /\ UNCHANGED << now, hand >>
    BY <1>4 DEF LogTake, recvVars
  <2>2. /\ time' = chan[1].recv /\ 1 \in 1 .. Len(chan) /\ Len(chan) \in Nat
        /\ Len(chan') = Len(chan) - 1
        /\ \A i \in 1 .. Len(chan') :
             i + 1 \in 1 .. Len(chan) /\ chan'[i] = chan[i + 1]
    BY <1>0, <2>1, TailFacts
  <2>3. time' <= now'
    BY <2>1, <2>2 DEF TimeInv
  <2>4. \A i \in 1 .. Len(chan') :
          time' <= chan'[i].recv /\ chan'[i].recv <= now'
    <3>1. TAKE i \in 1 .. Len(chan')
    <3>2. i + 1 \in 1 .. Len(chan) /\ chan'[i] = chan[i + 1] /\ 1 <= i + 1
      BY <2>2
    <3>3. chan[1].recv <= chan[i + 1].recv /\ chan[i + 1].recv <= now
      BY <2>2, <3>2 DEF TimeInv
    <3>4. QED
      BY <2>1, <2>2, <3>2, <3>3
  <2>5. \A i, j \in 1 .. Len(chan') :
          i <= j => chan'[i].recv <= chan'[j].recv
    <3>1. TAKE i, j \in 1 .. Len(chan')
    <3>2. HAVE i <= j
    <3>3. /\ i + 1 \in 1 .. Len(chan) /\ j + 1 \in 1 .. Len(chan)
          /\ chan'[i] = chan[i + 1] /\ chan'[j] = chan[j + 1]
      BY <2>2
    <3>4. i + 1 <= j + 1
      BY <3>2
    <3>5. chan[i + 1].recv <= chan[j + 1].recv
      BY <3>3, <3>4 DEF TimeInv
    <3>6. QED
      BY <3>3, <3>5
  <2>6. \A k \in 1 .. Len(hand') :
          /\ time' <= hand'[k].recv /\ hand'[k].recv <= now'
          /\ \A i \in 1 .. Len(chan') : chan'[i].recv <= hand'[k].recv
    BY <2>1, <2>2 DEF TimeInv
  <2>7. QED
    BY <2>3, <2>4, <2>5, <2>6 DEF TimeInv
<1>5. CASE UNCHANGED << now, chan, hand, time >>
  BY <1>5 DEF TimeInv
<1>6. CASE (CommonNext \/ UNCHANGED vars) /\ ~(Tick \/ Enqueue \/ LogTake)
  <2>1. UNCHANGED << now, chan, hand, time >>
    BY <1>6 DEF CommonNext, SendTask, LogTask, Main, Terminated, SendWarmup,
       SendTick, EnqueueClosed, LogWrite, LogFail, MainSendJoined,
       MainRecvJoined, GraceOver, LingerOver, vars, recvVars, logVars
  <2>2. QED
    BY <1>5, <2>1
<1>7. QED
  BY <1>1, <1>2, <1>3, <1>4, <1>5, <1>6

\* No time lies before that of an earlier result.
LEMMA TimeInvImplies ==
    ASSUME NEW R, ClientTypeOK(R), TimeInv
    PROVE  PiatDefined
<1>1. DOMAIN chan = 1 .. Len(chan)
  BY PipelineType
<1>2. QED
  BY <1>1 DEF TimeInv, PiatDefined

-----------------------------------------------------------------------------
(* The log task and main. *)

\* The steps of the send task, the recv task and the network that are not
\* shared, and the start of run: they leave the log task alone, happen only
\* while the tasks run, and do not end the process normally.
Elsewhere ==
    /\ UNCHANGED << entry, time, piat, recvCount, logger, logged, warned >>
    /\ \/ Running /\ UNCHANGED mainPc
       \/ /\ mainPc = "setup"
          /\ mainPc' \in {"select", "failed", "panicked"}

\* A step of one of the clients.
ClientStep == CommonNext \/ Elsewhere \/ UNCHANGED vars

\* What makes FileLosesOnlyTail inductive: the file and the buffer together
\* are the results logged.
FileInv ==
    ToFile => /\ logger.disk \o logger.buf = logged
              /\ Len(logger.buf) <= BufCap

\* What makes PiatSamples inductive: it, and the log task's time is the
\* receive stamp of the last result it has taken.
PiatInv ==
    /\ PiatSamples
    /\ recvCount = Len(logged)
    /\ logged \o entry # << >> =>
         time = (logged \o entry)[Len(logged \o entry)].recv

\* What main knows when it decides: recv_counter is the number of results
\* logged, and stays behind send_counter only after the warning.
ExitInv ==
    /\ recvCount = Len(logged)
    /\ mainPc = "linger" => warned
    /\ mainPc = "exited" /\ ~warned => sendSeq <= Len(logged)

\* Logger::log adds the result to the buffer, or empties this to the file first.
LEMMA FileInvStep ==
    ASSUME NEW R, ClientTypeOK(R), FileInv, ClientStep
    PROVE  FileInv'
<1>1. CASE LogWrite
  <2> SUFFICES ASSUME ToFile PROVE FileInv'
    BY DEF FileInv
  <2> DEFINE e == entry[1]
             d == logger.disk
             b == logger.buf
  <2>1. /\ logger' = Log(logger, e) /\ logged' = Append(logged, e)
    BY <1>1 DEF LogWrite
  <2>2. e \in R
    BY <1>1, WriteMoves
  <2>3. /\ d \in Seq(R) /\ b \in Seq(R)
        /\ logger \in Logger(R) /\ logged \in Seq(R)
    BY DEF ClientTypeOK, Logger
  <2>4. d \o b = logged /\ Len(b) <= BufCap
    BY DEF FileInv
  <2> HIDE DEF e
  <2>5. /\ << e >> \in Seq(R) /\ Len(<< e >>) = 1
        /\ logged' = logged \o << e >>
    BY <2>1, <2>2, <2>3, SingleFacts, AppendIsConcat
  <2>6. CASE Len(b) < BufCap
    <3>1. logger'.buf = Append(b, e) /\ logger'.disk = d
      BY <2>1, <2>3, <2>6 DEF Log, Logger
    <3> HIDE DEF d, b
    <3>2. logger'.buf = b \o << e >> /\ Len(logger'.buf) = Len(b) + 1
      BY <2>2, <2>3, <3>1, AppendFacts, AppendIsConcat
    <3>3. d \o (b \o << e >>) = (d \o b) \o << e >>
      BY <2>3, <2>5, Regroup
    <3>4. Len(logger'.buf) <= BufCap
      BY <2>3, <2>6, <3>2, BufCapAssumption
    <3>5. QED
      BY <2>4, <2>5, <3>1, <3>2, <3>3, <3>4 DEF FileInv
  <2>7. CASE ~(Len(b) < BufCap)
    <3>1. logger'.buf = << e >> /\ logger'.disk = d \o b
      BY <2>1, <2>7 DEF Log
    <3> HIDE DEF d, b
    <3>2. Len(logger'.buf) <= BufCap
      BY <2>5, <3>1, BufCapAssumption
    <3>3. QED
      BY <2>4, <2>5, <3>1, <3>2 DEF FileInv
  <2>8. QED
    BY <2>6, <2>7
<1>2. CASE ~LogWrite
  <2>1. UNCHANGED << logger, logged >>
    BY <1>2 DEF ClientStep, Elsewhere, CommonNext, SendTask, LogTask,
       Terminated, Tick, SendWarmup, SendTick, Enqueue, EnqueueClosed, LogTake,
       LogFail, Main, MainSendJoined, MainRecvJoined, GraceOver, LingerOver,
       vars, logVars
  <2>2. QED
    BY <2>1 DEF FileInv
<1>3. QED
  BY <1>1, <1>2

\* The file is then what was logged but for the buffer.
LEMMA FileInvImplies ==
    ASSUME NEW R, ClientTypeOK(R), FileInv
    PROVE  FileLosesOnlyTail
<1> SUFFICES ASSUME ToFile PROVE FileLosesOnlyTail
  BY DEF FileLosesOnlyTail
<1> DEFINE d == logger.disk
           b == logger.buf
<1>1. /\ d \in Seq(R) /\ b \in Seq(R)
      /\ d \o b = logged /\ Len(b) <= BufCap
  BY DEF ClientTypeOK, Logger, FileInv
<1> HIDE DEF d, b
<1>2. /\ Len(logged) = Len(d) + Len(b)
      /\ Len(d) \in Nat /\ Len(b) \in Nat
  BY <1>1, ConcatFacts
<1>3. SubSeq(logged, 1, Len(d)) = d
  BY <1>1, PrefixOfConcat
<1>4. Len(d) <= Len(logged) /\ Len(logged) - Len(d) <= BufCap
  BY <1>1, <1>2, BufCapAssumption
<1>5. QED
  BY <1>3, <1>4 DEF FileLosesOnlyTail, d

\* Taking a result adds one sample, if it is not the first; writing it adds none.
LEMMA PiatInvStep ==
    ASSUME NEW R, \A r \in R : r.recv \in Nat,
           ClientTypeOK(R), PiatInv, ClientStep
    PROVE  PiatInv'
<1> DEFINE rs == logged \o entry
<1>0. /\ rs \in Seq(R) /\ logged \in Seq(R) /\ chan \in Seq(R)
      /\ entry \in Seq(R) /\ Len(rs) \in Nat /\ Len(logged) \in Nat
      /\ piat \in Seq(Int) /\ recvCount \in Nat /\ time \in Nat
      /\ DOMAIN piat = 1 .. Len(piat) /\ Len(piat) \in Nat
  <2>1. piat \in Seq(Int) /\ recvCount \in Nat /\ time \in Nat
    BY DEF ClientTypeOK
  <2>2. DOMAIN piat = 1 .. Len(piat) /\ Len(piat) \in Nat
    BY <2>1
  <2>3. rs \in Seq(R) /\ logged \in Seq(R)
    BY PipelineType
  <2> HIDE DEF rs
  <2>4. Len(rs) \in Nat /\ Len(logged) \in Nat
    BY <2>3
  <2>5. QED
    BY <2>1, <2>2, <2>3, <2>4, PipelineType
<1>1. /\ Len(piat) = IF rs = << >> THEN 0 ELSE Len(rs) - 1
      /\ \A i \in 1 .. Len(piat) :
           piat[i] = (rs[i + 1].recv - rs[i].recv) \div NsPerMs
      /\ recvCount = Len(logged)
      /\ rs # << >> => time = rs[Len(rs)].recv
  <2>1. /\ PiatSamples /\ recvCount = Len(logged)
        /\ rs # << >> => time = rs[Len(rs)].recv
    BY DEF PiatInv
  <2>2. /\ Len(piat) = IF rs = << >> THEN 0 ELSE Len(rs) - 1
        /\ \A i \in DOMAIN piat :
             piat[i] = (rs[i + 1].recv - rs[i].recv) \div NsPerMs
    BY <2>1 DEF PiatSamples
  <2> HIDE DEF rs
  <2>3. QED
    BY <1>0, <2>1, <2>2
<1>2. CASE LogTake
  <2> DEFINE h == Head(chan)
             d == (h.recv - time) \div NsPerMs
  <2>1. /\ entry = << >> /\ chan # << >>
        /\ entry' = << h >> /\ time' = h.recv
        /\ piat' = IF recvCount = 0 THEN piat ELSE Append(piat, d)
        /\ UNCHANGED << recvCount, logged >>
    BY <1>2 DEF LogTake
  <2>2. h \in R
    BY <1>0, <2>1, TailFacts
  <2>3. rs = logged /\ rs' = logged \o << h >>
    BY <1>0, <2>1, ConcatEmptySeq
  <2>4. rs' = Append(rs, h)
    <3> HIDE DEF h
    <3>1. QED
      BY <1>0, <2>2, <2>3, AppendIsConcat
  <2>5. d \in Int
    <3>1. h.recv \in Nat
      BY <2>2
    <3>2. \A a, b \in Nat : (a - b) \div NsPerMs \in Int
      BY EchoClientAssumption
    <3>3. QED
      BY <1>0, <3>1, <3>2
  <2> HIDE DEF rs, h
  <2>6. /\ Len(rs') = Len(rs) + 1 /\ rs'[Len(rs) + 1] = h
        /\ \A i \in 1 .. Len(rs) : rs'[i] = rs[i]
        /\ rs' \in Seq(R)
    BY <1>0, <2>2, <2>4, AppendFacts
  <2>7. rs' # << >> /\ time' = rs'[Len(rs')].recv
    <3>1. Len(rs') # 0
      BY <1>0, <2>6
    <3>2. QED
      BY <2>1, <2>6, <3>1
  <2>8. /\ Len(piat') = Len(rs') - 1
        /\ DOMAIN piat' = 1 .. Len(piat')
        /\ \A i \in 1 .. Len(piat') :
             piat'[i] = (rs'[i + 1].recv - rs'[i].recv) \div NsPerMs
    <3>1. CASE recvCount = 0
      <4>1. piat' = piat /\ Len(rs) = 0
        BY <1>1, <2>1, <2>3, <3>1
      <4>2. rs = << >>
        BY <1>0, <4>1
      <4>3. Len(piat) = 0
        BY <1>1, <4>2
      <4>4. QED
        BY <1>0, <2>6, <4>1, <4>3
    <3>2. CASE recvCount # 0
      <4>1. piat' = Append(piat, d) /\ Len(rs) # 0
        BY <1>1, <2>1, <2>3, <3>2
      <4>2. rs # << >>
        BY <4>1
      <4>3. Len(piat) = Len(rs) - 1 /\ time = rs[Len(rs)].recv
        BY <1>1, <4>2
      <4> HIDE DEF d
      <4>4. /\ piat' \in Seq(Int) /\ Len(piat') = Len(piat) + 1
            /\ \A i \in 1 .. Len(piat) : piat'[i] = piat[i]
            /\ piat'[Len(piat) + 1] = d
        BY <1>0, <2>5, <4>1, AppendFacts
      <4>5. DOMAIN piat' = 1 .. Len(piat')
        BY <4>4
      <4>6. ASSUME NEW i \in 1 .. Len(piat')
            PROVE  piat'[i] = (rs'[i + 1].recv - rs'[i].recv) \div NsPerMs
        <5>1. CASE i \in 1 .. Len(piat)
          <6>1. i \in 1 .. Len(rs) /\ i + 1 \in 1 .. Len(rs)
            BY <1>0, <4>3, <5>1
          <6>2. QED
            BY <1>1, <2>6, <4>4, <5>1, <6>1
        <5>2. CASE i = Len(rs)
          <6>1. i \in 1 .. Len(rs) /\ i = Len(piat) + 1
            BY <1>0, <4>1, <4>3, <5>2
          <6>2. rs'[i + 1] = h /\ rs'[i] = rs[i] /\ time = rs[i].recv
            BY <2>6, <4>3, <5>2, <6>1
          <6>3. piat'[i] = d
            BY <4>4, <6>1
          <6>4. QED
            BY <6>2, <6>3 DEF d
        <5>3. QED
          BY <1>0, <4>3, <4>4, <5>1, <5>2
      <4>7. Len(piat') = Len(rs') - 1
        BY <1>0, <2>6, <4>3, <4>4
      <4>8. QED
        BY <4>5, <4>6, <4>7
    <3>3. QED
      BY <3>1, <3>2
  <2>9. PiatSamples'
    BY <2>7, <2>8 DEF PiatSamples, rs
  <2>10. recvCount' = Len(logged')
    BY <1>1, <2>1
  <2>11. QED
    BY <2>7, <2>9, <2>10 DEF PiatInv, rs
<1>3. CASE LogWrite
  <2>1. /\ recvCount' = recvCount + 1 /\ entry' = << >>
        /\ UNCHANGED << time, piat >>
    BY <1>3 DEF LogWrite
  <2>2. entry[1] \in R /\ logged' = Append(logged, entry[1]) /\ logged' = rs
    BY <1>3, WriteMoves DEF LogWrite
  <2>3. logged' \in Seq(R) /\ Len(logged') = Len(logged) + 1
    <3> DEFINE e == entry[1]
    <3> HIDE DEF e
    <3>1. e \in R /\ logged' = Append(logged, e)
      BY <2>2 DEF e
    <3>2. QED
      BY <1>0, <3>1, AppendFacts
  <2>4. logged' \o entry' = rs
    BY <2>1, <2>2, <2>3, ConcatEmptySeq
  <2>5. /\ PiatSamples'
        /\ rs # << >> => time' = rs[Len(rs)].recv
    BY <1>1, <2>1, <2>4 DEF PiatInv, PiatSamples
  <2>6. recvCount' = Len(logged')
    BY <1>1, <2>1, <2>3
  <2>7. QED
    BY <2>4, <2>5, <2>6 DEF PiatInv
<1>4. CASE ~(LogTake \/ LogWrite)
  <2>1. UNCHANGED << piat, time, entry, logged, recvCount >>
    BY <1>4 DEF ClientStep, Elsewhere, CommonNext, SendTask, LogTask,
       Terminated, Tick, SendWarmup, SendTick, Enqueue, EnqueueClosed, LogFail,
       Main, MainSendJoined, MainRecvJoined, GraceOver, LingerOver, vars,
       logVars
  <2>2. QED
    BY <2>1 DEF PiatInv, PiatSamples
<1>5. QED
  BY <1>2, <1>3, <1>4

\* The log task counts what it logs, and main decides once.
LEMMA ExitInvStep ==
    ASSUME NEW R, ClientTypeOK(R), ExitInv, ClientStep,
           sendSeq' = sendSeq \/ Running
    PROVE  ExitInv'
<1>0. recvCount \in Nat /\ sendSeq \in Nat /\ logged \in Seq(R)
  BY DEF ClientTypeOK
<1>1. CASE LogWrite
  <2>1. /\ Running /\ recvCount' = recvCount + 1 /\ UNCHANGED mainVars
        /\ logged' = Append(logged, entry[1])
    BY <1>1 DEF LogWrite
  <2>2. entry[1] \in R
    BY <1>1, WriteMoves
  <2>3. Len(logged') = Len(logged) + 1
    <3> DEFINE e == entry[1]
    <3> HIDE DEF e
    <3>1. e \in R /\ logged' = Append(logged, e)
      BY <2>1, <2>2 DEF e
    <3>2. QED
      BY <1>0, <3>1, AppendFacts
  <2>4. mainPc' # "exited"
    BY <2>1 DEF Running, mainVars
  <2>5. QED
    BY <2>1, <2>3, <2>4 DEF ExitInv, mainVars
<1>2. CASE GraceOver
  <2>1. /\ mainPc' = (IF MissingReplies THEN "linger" ELSE "exited")
        /\ warned' = MissingReplies
        /\ UNCHANGED << sendSeq, recvCount, logged >>
    BY <1>2 DEF GraceOver, sendVars, logVars
  <2>2. MissingReplies <=> recvCount < sendSeq
    BY DEF MissingReplies
  <2>3. CASE MissingReplies
    BY <2>1, <2>3, Zenon DEF ExitInv
  <2>4. CASE ~MissingReplies
    <3>1. mainPc' = "exited" /\ sendSeq' <= Len(logged')
      BY <1>0, <2>1, <2>2, <2>4 DEF ExitInv
    <3>2. QED
      BY <2>1, <3>1 DEF ExitInv
  <2>5. QED
    BY <2>3, <2>4
<1>3. CASE ~(LogWrite \/ GraceOver)
  <2>1. UNCHANGED << warned, logged, recvCount >>
    BY <1>3 DEF ClientStep, Elsewhere, CommonNext, SendTask, LogTask,
       Terminated, Tick, SendWarmup, SendTick, Enqueue, EnqueueClosed, LogTake,
       LogFail, Main, MainSendJoined, MainRecvJoined, LingerOver, vars,
       logVars, mainVars
  <2>2. /\ mainPc' = "linger" => mainPc = "linger"
        /\ mainPc' = "exited" => \/ mainPc = "linger"
                                 \/ mainPc = "exited" /\ ~Running
    BY <1>3 DEF ClientStep, Elsewhere, CommonNext, SendTask, LogTask,
       Terminated, Tick, SendWarmup, SendTick, Enqueue, EnqueueClosed, LogTake,
       LogFail, Main, MainSendJoined, MainRecvJoined, LingerOver, vars,
       logVars, mainVars, Running, Ended
  <2>3. QED
    BY <1>0, <2>1, <2>2 DEF ExitInv
<1>4. QED
  BY <1>1, <1>2, <1>3

\* They hold at the start.
LEMMA InitInvs ==
    ASSUME NEW m \in {"setup", "select"}, NEW p, NEW w, ClientInit(m, p, w)
    PROVE  TimeInv /\ FileInv /\ PiatInv /\ ExitInv
<1>0. TimeInv
  BY DEF ClientInit, TimeInv
<1>1. /\ logged = << >> /\ entry = << >> /\ piat = << >> /\ recvCount = 0
      /\ logger = NewLogger /\ mainPc \in {"setup", "select"}
  BY DEF ClientInit
<1>2. logged \o entry = << >> /\ Len(logged) = 0 /\ Len(piat) = 0
      /\ DOMAIN piat = {}
  BY <1>1
<1>3. FileInv
  BY <1>1, BufCapAssumption DEF FileInv, NewLogger
<1>4. PiatInv
  BY <1>1, <1>2 DEF PiatInv, PiatSamples
<1>5. ExitInv
  BY <1>1, <1>2 DEF ExitInv
<1>6. QED
  BY <1>0, <1>3, <1>4, <1>5

\* As many results as requests, no two of one request: none is missing.
LEMMA NoneMissing ==
    ASSUME sendSeq \in Nat, Len(logged) \in Nat, Len(logged) >= sendSeq,
           \A i \in 1 .. Len(logged) : logged[i].seq \in 0 .. sendSeq - 1,
           \A i, j \in 1 .. Len(logged) : i # j => logged[i].seq # logged[j].seq,
           NEW k \in 0 .. sendSeq - 1
    PROVE  \E i \in 1 .. Len(logged) : logged[i].seq = k
<1> DEFINE D == 1 .. Len(logged)
           T == 0 .. sendSeq - 1
           f == [i \in D |-> logged[i].seq]
<1>1. f \in Injection(D, T)
  BY DEF Injection, IsInjective
<1>2. /\ IsFiniteSet(T) /\ Cardinality(T) = sendSeq
      /\ IsFiniteSet(D) /\ Cardinality(D) = Len(logged)
  <2>1. Len(logged) \in Nat
    OBVIOUS
  <2>2. /\ IsFiniteSet(T)
        /\ Cardinality(T) = IF 0 > sendSeq - 1 THEN 0 ELSE sendSeq - 1 - 0 + 1
    <3>1. 0 \in Int /\ sendSeq - 1 \in Int
      OBVIOUS
    <3>2. QED
      BY <3>1, FS_Interval
  <2>3. /\ IsFiniteSet(D)
        /\ Cardinality(D) = IF 1 > Len(logged) THEN 0 ELSE Len(logged) - 1 + 1
    BY <2>1, FS_Interval
  <2>4. QED
    BY <2>1, <2>2, <2>3
<1> HIDE DEF D, T, f
<1>3. Cardinality(D) <= Cardinality(T)
  BY <1>1, <1>2, FS_Injection
<1>4. Cardinality(D) = Cardinality(T)
  BY <1>2, <1>3
<1>5. f \in Surjection(D, T)
  BY <1>1, <1>2, <1>4, FS_Injection
<1>6. k \in T
  BY DEF T
<1>7. \E i \in D : f[i] = k
  BY <1>5, <1>6 DEF Surjection
<1>8. QED
  BY <1>7 DEF D, f
=============================================================================
