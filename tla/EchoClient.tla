----------------------------- MODULE EchoClient -----------------------------
(***************************************************************************)
(* The part that the three clients of the ping tool (ping/src/udp.rs,      *)
(* tcp.rs and icmp.rs) have in common: four tasks on a single-threaded     *)
(* tokio runtime, which interleave at their awaits.                        *)
(*                                                                         *)
(*   send task   paces, stamps and sends requests, and counts them         *)
(*   recv task   reads replies, computes the round trip time and queues    *)
(*               a result on a bounded channel                             *)
(*   log task    takes results off the channel, updates the statistics,    *)
(*               writes the log and counts the result as received          *)
(*   main        waits for the send task or the recv task, gives late      *)
(*               replies some time, and ends the process                   *)
(*                                                                         *)
(* The same code appears in the three files; the definitions here are      *)
(* mapped to udp.rs.  What differs, the socket and the conversions, is in  *)
(* UdpClient, TcpClient and IcmpClient, which extend this module.          *)
(*                                                                         *)
(* An Option is modelled by a set or a sequence of at most one element.    *)
(***************************************************************************)
EXTENDS Integers, Sequences, CsvLogger

CONSTANTS
    Counts,     \* values of --count: {} when it is not given, {n} when it is
    ToFile,     \* --file was given
    ChanCap,    \* capacity of the channel to the log task (10000)
    NsPerMs,    \* nanoseconds per millisecond (1000000)
    MaxClock,   \* bound: the clock stops here
    MaxSend     \* bound: packets sent

ASSUME EchoClientAssumption ==
    /\ Counts \subseteq SUBSET Nat
    /\ ToFile \in BOOLEAN
    /\ ChanCap \in Nat \ {0}
    /\ NsPerMs \in Nat \ {0}
    /\ MaxClock \in Nat
    /\ MaxSend \in Nat

VARIABLES
    now,        \* CLOCK_MONOTONIC
    num_ping,   \* how many packets to send, an Option
    sendPc,     \* where the send task is
    sendSeq,    \* send_counter: packets sent, and the next sequence number
    payload,    \* the packet the send task fills in and sends
    stamps,     \* history: stamps[k + 1] is the stamp given to packet k
    wire,       \* packets on their way to the server and back
    rxq,        \* replies in the socket's receive queue
    sockErr,    \* an error is pending on the socket, or the peer is gone
    dups,       \* history: replies the network has duplicated
    recvPc,     \* where the recv task is
    hand,       \* the result the recv task is queueing
    chan,       \* the channel from the recv task to the log task
    logPc,      \* whether the log task is alive
    entry,      \* the result the log task is writing
    time,       \* the log task's time of the previous result
    piat,       \* samples given to the inter-arrival statistics
    recvCount,  \* recv_counter
    logger,     \* the CSV logger
    logged,     \* history: results fully processed by the log task
    mainPc,     \* where main is
    warned      \* "Sent {} packets, but only received {} packets" was printed

sendVars == << num_ping, sendPc, sendSeq, payload, stamps >>
netVars == << wire, rxq, sockErr, dups >>
recvVars == << recvPc, hand >>
logVars == << logPc, entry, time, piat, recvCount, logger, logged >>
mainVars == << mainPc, warned >>
vars == << now, sendVars, netVars, recvVars, chan, logVars, mainVars >>

\* The tasks run: when main returns or panics every task is dropped.
Running == mainPc \in {"select", "grace", "linger"}

\* The process has ended: main returned Ok or an error, or panicked.
Ended == mainPc \in {"exited", "failed", "panicked"}

ClientInit(mainPc0, payload0, wire0) ==
    /\ now = 0
    /\ num_ping \in Counts
    /\ sendPc = "warmup" /\ sendSeq = 0 /\ stamps = << >>
    /\ payload = payload0
    /\ wire = wire0 /\ rxq = << >> /\ sockErr = FALSE /\ dups = 0
    /\ recvPc = "run" /\ hand = << >>
    /\ chan = << >>
    /\ logPc = "run" /\ entry = << >> /\ time = 0 /\ piat = << >>
    /\ recvCount = 0 /\ logger = NewLogger /\ logged = << >>
    /\ mainPc = mainPc0 /\ warned = FALSE

-----------------------------------------------------------------------------
(* The clock. *)

Tick ==
    /\ Running
    /\ now < MaxClock
    /\ now' = now + 1
    /\ UNCHANGED << sendVars, netVars, recvVars, chan, logVars, mainVars >>

-----------------------------------------------------------------------------
(* The send task. *)

\* The check at the top of the loop.
SendDone(n) == \E k \in num_ping : n >= k

LoopTop(n) == IF SendDone(n) THEN "done" ELSE "pacing"

\* The second of sleep before the first packet.
SendWarmup ==
    /\ Running
    /\ sendPc = "warmup"
    /\ sendPc' = LoopTop(sendSeq)
    /\ UNCHANGED << now, num_ping, sendSeq, payload, stamps, netVars, recvVars,
                    chan, logVars, mainVars >>

\* Mutant: the stamp is that of the end of the interval.
SendTickAhead ==
    /\ Running
    /\ sendPc = "pacing"
    /\ sendSeq < MaxSend
    /\ payload' = [payload EXCEPT !.seq = sendSeq, !.sent = now + 1]
    /\ stamps' = Append(stamps, now + 1)
    /\ sendPc' = "sending"
    /\ UNCHANGED << now, num_ping, sendSeq, netVars, recvVars, chan, logVars,
                    mainVars >>

\* The pacing timer ticks: number and stamp the packet.
SendTick ==
    /\ Running
    /\ sendPc = "pacing"
    /\ sendSeq < MaxSend
    /\ payload' = [payload EXCEPT !.seq = sendSeq, !.sent = now]
    /\ stamps' = Append(stamps, now)
    /\ sendPc' = "sending"
    /\ UNCHANGED << now, num_ping, sendSeq, netVars, recvVars, chan, logVars,
                    mainVars >>

\* tx.send returned Ok: count the packet and go round the loop.  The packet
\* itself is put on the wire by the protocol's own action.
SendAccepted ==
    /\ Running
    /\ sendPc = "sending"
    /\ sendSeq' = sendSeq + 1
    /\ sendPc' = LoopTop(sendSeq + 1)
    /\ UNCHANGED << now, num_ping, payload, stamps, rxq, dups, recvVars, chan,
                    logVars, mainVars >>

\* tx.send returned an error: the ? operator ends the task.
SendRejected ==
    /\ Running
    /\ sendPc = "sending"
    /\ sendPc' = "failed"
    /\ UNCHANGED << now, num_ping, sendSeq, payload, stamps, wire, rxq, dups,
                    recvVars, chan, logVars, mainVars >>

-----------------------------------------------------------------------------
(* The recv task. *)

\* The task is at its read, and no error is pending on the socket.
Reading == Running /\ recvPc = "run" /\ hand = << >>

\* A reply was read and turned into result r.
RecvResult(r) ==
    /\ hand' = << r >>
    /\ rxq' = Tail(rxq)
    /\ UNCHANGED << now, sendVars, wire, sockErr, dups, recvPc, chan, logVars,
                    mainVars >>

\* The read failed: the while-let loop ends and the task returns Ok.
RecvEnded ==
    /\ Reading
    /\ sockErr
    /\ recvPc' = "ended"
    /\ UNCHANGED << now, sendVars, wire, rxq, dups, hand, chan, logVars,
                    mainVars >>

\* Mutant: the send does not wait for room in the channel.
EnqueueUnbounded ==
    /\ Running /\ recvPc = "run" /\ hand # << >>
    /\ logPc = "run"
    /\ chan' = chan \o hand
    /\ hand' = << >>
    /\ UNCHANGED << now, sendVars, netVars, recvPc, logVars, mainVars >>

\* Mutant: a result for which there is no room is dropped.
EnqueueOrDrop ==
    /\ Running /\ recvPc = "run" /\ hand # << >>
    /\ logPc = "run"
    /\ chan' = IF Len(chan) < ChanCap THEN chan \o hand ELSE chan
    /\ hand' = << >>
    /\ UNCHANGED << now, sendVars, netVars, recvPc, logVars, mainVars >>

\* Mutant: the send waits for more room than it needs.
EnqueueFullEarly ==
    /\ Running /\ recvPc = "run" /\ hand # << >>
    /\ logPc = "run"
    /\ Len(chan) + 1 < ChanCap
    /\ chan' = chan \o hand
    /\ hand' = << >>
    /\ UNCHANGED << now, sendVars, netVars, recvPc, logVars, mainVars >>

\* log_writer.send: waits for room in the channel.
Enqueue ==
    /\ Running /\ recvPc = "run" /\ hand # << >>
    /\ logPc = "run"
    /\ Len(chan) < ChanCap
    /\ chan' = chan \o hand
    /\ hand' = << >>
    /\ UNCHANGED << now, sendVars, netVars, recvPc, logVars, mainVars >>

\* log_writer.send fails because the log task is gone: the ? ends the task.
EnqueueClosed ==
    /\ Running /\ recvPc = "run" /\ hand # << >>
    /\ logPc = "failed"
    /\ recvPc' = "ended"
    /\ UNCHANGED << now, sendVars, netVars, hand, chan, logVars, mainVars >>

-----------------------------------------------------------------------------
(* The log task. *)

\* Mutant: the time of the previous result is set once and not kept up.
LogTakeStaleTime ==
    /\ Running /\ logPc = "run" /\ entry = << >> /\ chan # << >>
    /\ entry' = << Head(chan) >>
    /\ chan' = Tail(chan)
    /\ time' = IF recvCount = 0 THEN Head(chan).recv ELSE time
    /\ piat' = IF recvCount = 0 THEN piat
               ELSE Append(piat, (Head(chan).recv - time) \div NsPerMs)
    /\ UNCHANGED << now, sendVars, netVars, recvVars, logPc, recvCount,
                    logger, logged, mainVars >>

\* log_reader.recv: update the statistics and start to write the line.
LogTake ==
    /\ Running /\ logPc = "run" /\ entry = << >> /\ chan # << >>
    /\ entry' = << Head(chan) >>
    /\ chan' = Tail(chan)
    /\ time' = Head(chan).recv
    /\ piat' = IF recvCount = 0 THEN piat
               ELSE Append(piat, (Head(chan).recv - time) \div NsPerMs)
    /\ UNCHANGED << now, sendVars, netVars, recvVars, logPc, recvCount,
                    logger, logged, mainVars >>

\* The line is written (or printed), and only then counted.
LogWrite ==
    /\ Running /\ logPc = "run" /\ entry # << >>
    /\ logger' = IF ToFile THEN Log(logger, entry[1]) ELSE logger
    /\ logged' = Append(logged, entry[1])
    /\ recvCount' = recvCount + 1
    /\ entry' = << >>
    /\ UNCHANGED << now, sendVars, netVars, recvVars, chan, logPc, time, piat,
                    mainVars >>

\* Writing the line fails: the ? ends the task and drops its end of the
\* channel.  What the channel holds can no longer be read.
LogFail ==
    /\ Running /\ logPc = "run" /\ entry # << >> /\ ToFile
    /\ logPc' = "failed"
    /\ UNCHANGED << now, sendVars, netVars, recvVars, chan, entry, time, piat,
                    recvCount, logger, logged, mainVars >>

-----------------------------------------------------------------------------
(* main, at its select. *)

\* Mutant: only a send task that returned Ok is noticed.
MainSendJoinedIfOk ==
    /\ mainPc = "select"
    /\ sendPc = "done"
    /\ mainPc' = "grace"
    /\ UNCHANGED << now, sendVars, netVars, recvVars, chan, logVars, warned >>

\* The send task ended, by whatever outcome: sleep 100 ms.
MainSendJoined ==
    /\ mainPc = "select"
    /\ sendPc \in {"done", "failed", "panicked"}
    /\ mainPc' = "grace"
    /\ UNCHANGED << now, sendVars, netVars, recvVars, chan, logVars, warned >>

\* The recv task ended while main still waits for both: panic.
MainRecvJoined ==
    /\ mainPc = "select"
    /\ recvPc = "ended"
    /\ mainPc' = "panicked"
    /\ UNCHANGED << now, sendVars, netVars, recvVars, chan, logVars, warned >>

\* Mutant: one missing reply is let pass.
MissingRepliesOffByOne == recvCount + 1 < sendSeq

MissingReplies == recvCount < sendSeq

\* After the 100 ms: done, or warn and sleep another 10 s.
GraceOver ==
    /\ mainPc = "grace"
    /\ mainPc' = IF MissingReplies THEN "linger" ELSE "exited"
    /\ warned' = MissingReplies
    /\ UNCHANGED << now, sendVars, netVars, recvVars, chan, logVars >>

LingerOver ==
    /\ mainPc = "linger"
    /\ mainPc' = "exited"
    /\ UNCHANGED << now, sendVars, netVars, recvVars, chan, logVars, warned >>

\* The process has ended.
Terminated == Ended /\ UNCHANGED vars

-----------------------------------------------------------------------------
SendTask == SendWarmup \/ SendTick
LogTask == LogTake \/ LogWrite
Main == MainSendJoined \/ MainRecvJoined \/ GraceOver \/ LingerOver

\* The steps that the three clients share.
CommonNext ==
    \/ Tick
    \/ SendTask
    \/ Enqueue \/ EnqueueClosed
    \/ LogTask \/ LogFail
    \/ Main
    \/ Terminated

\* The runtime polls every ready task, and sleeps end.
CommonFairness ==
    /\ WF_vars(SendWarmup) /\ WF_vars(SendTick)
    /\ WF_vars(Enqueue) /\ WF_vars(EnqueueClosed)
    /\ WF_vars(LogTake) /\ WF_vars(LogWrite)
    /\ WF_vars(Main)

-----------------------------------------------------------------------------
(* State functions and properties. *)

\* Everything that has been read from the socket, oldest first.
Pipeline == logged \o entry \o chan \o hand

\* The types of everything but the packets, for results of the protocol's own
\* kind.
ClientTypeOK(Result) ==
    /\ now \in 0 .. MaxClock
    /\ num_ping \in Counts
    /\ sendPc \in {"warmup", "pacing", "sending", "done", "failed",
                   "panicked"}
    /\ sendSeq \in Nat
    /\ stamps \in Seq(Nat)
    /\ sockErr \in BOOLEAN
    /\ dups \in Nat
    /\ recvPc \in {"run", "ended"}
    /\ hand \in Seq(Result) /\ Len(hand) <= 1
    /\ chan \in Seq(Result) /\ Len(chan) <= ChanCap
    /\ logPc \in {"run", "failed"}
    /\ entry \in Seq(Result) /\ Len(entry) <= 1
    /\ time \in Nat
    /\ piat \in Seq(Int)
    /\ recvCount \in Nat
    /\ logger \in Logger(Result)
    /\ logged \in Seq(Result)
    /\ mainPc \in {"setup", "select", "grace", "linger", "exited",
                   "panicked", "failed"}
    /\ warned \in BOOLEAN

\* The u128 subtraction recv_timestamp - time of the inter-arrival time never
\* underflows: every result still to come was received no earlier than the
\* last one taken.
PiatDefined ==
    \A i \in DOMAIN chan : recvCount > 0 => time <= chan[i].recv

\* The inter-arrival samples are exactly the differences of the receive
\* stamps of consecutive results, in milliseconds: the first result gives no
\* sample, and none is skipped or counted twice.
PiatSamples ==
    LET rs == logged \o entry
    IN  /\ Len(piat) = IF rs = << >> THEN 0 ELSE Len(rs) - 1
        /\ \A i \in DOMAIN piat :
             piat[i] = (rs[i + 1].recv - rs[i].recv) \div NsPerMs

\* Every result is the answer to a packet this client stamped, with that
\* packet's own stamp.
OwnReplies ==
    \A i \in DOMAIN Pipeline :
        /\ Pipeline[i].seq + 1 \in DOMAIN stamps
        /\ Pipeline[i].sent = stamps[Pipeline[i].seq + 1]

\* A client that ends without the warning about missing replies, and whose
\* replies the network did not duplicate, has logged a result for every
\* packet it counted as sent.
CompleteOnCleanExit ==
    mainPc = "exited" /\ ~warned /\ dups = 0 =>
        \A k \in 0 .. sendSeq - 1 : \E i \in DOMAIN logged : logged[i].seq = k

\* At any time, and so whenever the process ends, the file holds the results
\* logged so far in their order except for the last ones, at most BufCap.
FileLosesOnlyTail ==
    ToFile =>
        /\ Len(logger.disk) <= Len(logged)
        /\ logger.disk = SubSeq(logged, 1, Len(logger.disk))
        /\ Len(logged) - Len(logger.disk) <= BufCap

\* The results that a client records are what EchoLog promises.
Promise == INSTANCE EchoLog
           WITH requests <- stamps, received <- Pipeline,
                recorded <- logged, over <- Ended

KeepsPromise == Promise!Spec

\* A client that was given a number of packets ends.
Terminates == num_ping # {} ~> Ended

\* --file saves the results: a run that ends normally leaves every result it
\* logged in the file.
FileComplete == mainPc = "exited" /\ ToFile => logger.disk = logged
=============================================================================
