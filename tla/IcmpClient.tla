----------------------------- MODULE IcmpClient -----------------------------
(***************************************************************************)
(* The ICMP client, ping/src/icmp.rs: EchoClient over a connected raw      *)
(* socket.  A raw socket receives every ICMP packet from the destination:  *)
(* the replies to other processes, requests, and on the loopback interface *)
(* the client's own requests; the recv task must tell them from its own    *)
(* replies.  The stamp and a 128-bit sequence number travel in the         *)
(* payload, of which --len sets the size; the header has only 16 bits for  *)
(* the sequence number, and they wrap.                                     *)
(*                                                                         *)
(* The identifier is random; that no other process on the host uses the    *)
(* same one is assumed.                                                    *)
(***************************************************************************)
EXTENDS EchoClient

CONSTANTS
    Lens,       \* the values of --len
    SeqMod,     \* sequence numbers in the header (2^16)
    RxCap,      \* packets the socket's receive queue holds
    MaxDup      \* bound: duplications by the network

ASSUME IcmpClientAssumption ==
    /\ Lens \subseteq Nat
    /\ SeqMod \in Nat \ {0}
    /\ RxCap \in Nat \ {0}
    /\ MaxDup \in Nat

HeaderLen == 8      \* the ICMP header
StampLen == 16      \* send_timestamp, a u128
SeqLen == 16        \* the sequence number, a u128

Ids == {"own", "other"}

\* An ICMP packet: the fields of its header, and what the payload carries.
Packet == [type : {"reply", "request"}, id : Ids, hseq : 0 .. SeqMod - 1,
           seq : Nat, sent : Nat]

\* PingResult: hseq is its seq, and seq its unique_seq.
Result == [hseq : 0 .. SeqMod - 1, seq : Nat, sent : Nat, recv : Nat,
           rtt : Int]

\* The payload before run has allocated it.
NoPayload == [seq |-> 0, sent |-> 0, len |-> 0]

Init == ClientInit("setup", NoPayload, {})

-----------------------------------------------------------------------------
\* The start of run: the payload is allocated, and refused when too small.
\* The subtraction underflows for a len that has no room for the header.
IcmpSetup ==
    /\ mainPc = "setup"
    /\ \E len \in Lens :
         \/ /\ len < HeaderLen
            /\ mainPc' = "panicked"
            /\ UNCHANGED payload
         \/ /\ len >= HeaderLen /\ len - HeaderLen < 16
            /\ mainPc' = "failed"
            /\ UNCHANGED payload
         \/ /\ len - HeaderLen >= 16
            /\ mainPc' = "select"
            /\ payload' = [NoPayload EXCEPT !.len = len - HeaderLen]
    /\ UNCHANGED << now, num_ping, sendPc, sendSeq, stamps, netVars, recvVars,
                    chan, logVars, warned >>

\* The payload has room for the stamp and the sequence number.
Fits == payload.len >= StampLen + SeqLen

IcmpSendTick == Fits /\ SendTick

\* payload[16..32] is out of range: the send task panics.
IcmpSendPanic ==
    /\ Running
    /\ sendPc = "pacing"
    /\ ~Fits
    /\ sendPc' = "panicked"
    /\ UNCHANGED << now, num_ping, sendSeq, payload, stamps, netVars, recvVars,
                    chan, logVars, mainVars >>

\* The echo request, with the sequence number cut to 16 bits in its header.
EchoRequest ==
    [type |-> "request", id |-> "own", hseq |-> payload.seq % SeqMod,
     seq |-> payload.seq, sent |-> payload.sent]

IcmpSend ==
    /\ ~sockErr
    /\ SendAccepted
    /\ wire' = wire \cup {EchoRequest}
    /\ UNCHANGED sockErr

\* tx.send fails: it reports the pending error, the kernel refuses the
\* packet, or the socket was not writable after all.
IcmpSendError ==
    /\ SendRejected
    /\ sockErr' = FALSE

-----------------------------------------------------------------------------
\* Mutant: the identifier is not compared.
IsOwnReplyAnyId(p) == p.type = "reply"

\* The two checks of the recv loop.
IsOwnReply(p) == p.type = "reply" /\ p.id = "own"

\* Mutant: the internal counter is taken from the header.
IcmpResultOfHeaderSeq(p) ==
    [hseq |-> p.hseq, seq |-> p.hseq, sent |-> p.sent, recv |-> 0,
     rtt |-> now - p.sent]

\* The fields of result that are set from a reply.  recv_timestamp keeps the
\* 0 that result was created with.
IcmpResultOf(p) ==
    [hseq |-> p.hseq, seq |-> p.seq, sent |-> p.sent, recv |-> 0,
     rtt |-> now - p.sent]

IcmpRecv ==
    /\ Reading
    /\ ~sockErr
    /\ rxq # << >>
    /\ IsOwnReply(Head(rxq))
    /\ RecvResult(IcmpResultOf(Head(rxq)))

\* A packet that is not a reply, or not to this client: continue.
IcmpSkip ==
    /\ Reading
    /\ ~sockErr
    /\ rxq # << >>
    /\ ~IsOwnReply(Head(rxq))
    /\ rxq' = Tail(rxq)
    /\ UNCHANGED << now, sendVars, wire, sockErr, dups, recvVars, chan,
                    logVars, mainVars >>

\* rx.read reports the pending error.
IcmpRecvError ==
    /\ RecvEnded
    /\ sockErr' = FALSE

-----------------------------------------------------------------------------
(* The network and the destination. *)

Receive(p) ==
    /\ Running
    /\ Len(rxq) < RxCap
    /\ rxq' = Append(rxq, p)

\* The reply to request p.
ReplyTo(p) == [p EXCEPT !.type = "reply"]

\* The reply to p reaches the socket.  A full receive queue drops it: Lose.
Arrive(p) ==
    /\ Receive(ReplyTo(p))
    /\ wire' = wire \ {p}
    /\ UNCHANGED << now, sendVars, sockErr, dups, recvVars, chan, logVars,
                    mainVars >>

\* One copy of the reply arrives and another is still on its way.
Duplicate(p) ==
    /\ dups < MaxDup
    /\ Receive(ReplyTo(p))
    /\ dups' = dups + 1
    /\ UNCHANGED << now, sendVars, wire, sockErr, recvVars, chan, logVars,
                    mainVars >>

\* On the loopback interface the request itself is received too.
Loop(p) ==
    /\ Receive(p)
    /\ UNCHANGED << now, sendVars, wire, sockErr, dups, recvVars, chan,
                    logVars, mainVars >>

Lose(p) ==
    /\ Running
    /\ wire' = wire \ {p}
    /\ UNCHANGED << now, sendVars, rxq, sockErr, dups, recvVars, chan, logVars,
                    mainVars >>

\* The destination cannot be reached.
Unreachable(p) ==
    /\ Running
    /\ wire' = wire \ {p}
    /\ sockErr' = TRUE
    /\ UNCHANGED << now, sendVars, rxq, dups, recvVars, chan, logVars,
                    mainVars >>

\* The destination answers another process of this host.
Foreign ==
    /\ Receive([type |-> "reply", id |-> "other", hseq |-> 0, seq |-> 0,
                sent |-> now])
    /\ UNCHANGED << now, sendVars, wire, sockErr, dups, recvVars, chan,
                    logVars, mainVars >>

Network ==
    \/ \E p \in wire :
         Arrive(p) \/ Duplicate(p) \/ Loop(p) \/ Lose(p) \/ Unreachable(p)
    \/ Foreign

-----------------------------------------------------------------------------
\* CommonNext with the send task's tick guarded by the size of the payload.
Next ==
    \/ Tick
    \/ IcmpSetup
    \/ SendWarmup
    \/ IcmpSendTick \/ IcmpSendPanic
    \/ IcmpSend \/ IcmpSendError
    \/ IcmpRecv \/ IcmpSkip \/ IcmpRecvError
    \/ Enqueue \/ EnqueueClosed
    \/ LogTask \/ LogFail
    \/ Main
    \/ Network
    \/ Terminated

Spec == Init /\ [][Next]_vars

Fairness ==
    /\ WF_vars(IcmpSetup)
    /\ WF_vars(SendWarmup)
    /\ WF_vars(IcmpSendTick \/ IcmpSendPanic)
    /\ WF_vars(IcmpSend \/ IcmpSendError)
    /\ WF_vars(Main)

FairSpec == Spec /\ Fairness

-----------------------------------------------------------------------------
(* Properties. *)

\* Every variable has its type; the queues respect their capacities.
TypeOK ==
    /\ ClientTypeOK(Result)
    /\ payload \in [seq : Nat, sent : Nat, len : Nat]
    /\ wire \in SUBSET Packet
    /\ rxq \in Seq(Packet) /\ Len(rxq) <= RxCap

\* The u128 subtraction recv_timestamp - send_timestamp of the round trip
\* time never underflows: no reply is read before the time it was sent at.
RttDefined ==
    \A i \in DOMAIN rxq : IsOwnReply(rxq[i]) => rxq[i].sent <= now

\* "An internal counter which does not wrap": two results have the same
\* number only when the network duplicated a reply, whatever the 16 bits in
\* the header do, and the header's number is the counter's low part.
CounterIsUnique ==
    \A i, j \in DOMAIN Pipeline :
        /\ Pipeline[i].hseq = Pipeline[i].seq % SeqMod
        /\ dups = 0 /\ i # j => Pipeline[i].seq # Pipeline[j].seq
=============================================================================
