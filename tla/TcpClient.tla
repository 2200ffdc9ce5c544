------------------------------ MODULE TcpClient ------------------------------
(***************************************************************************)
(* The TCP echo client, ping/src/tcp.rs: EchoClient over a connected       *)
(* stream split into length-delimited frames.  The stream and the echo     *)
(* server are the environment: frames come back complete and in order, but *)
(* only so many fit between the two ends, so that a client that does not   *)
(* read is one that cannot send; and the server may go away, closing the   *)
(* connection behind the replies it has already written.                   *)
(***************************************************************************)
EXTENDS EchoClient

CONSTANT
    Window      \* frames that the buffers of the connection hold

ASSUME TcpClientAssumption == Window \in Nat \ {0}

\* TcpEchoPacket, as far as the client reads it back.
Packet == [seq : Nat, sent : Nat]

\* TCPEchoResult.
Result == [seq : Nat, sent : Nat, recv : Nat, rtt : Int]

Init == ClientInit("select", [seq |-> 0, sent |-> 0], << >>)

-----------------------------------------------------------------------------
\* tx.send waits until the frame fits and is flushed to the socket.
TcpSend ==
    /\ ~sockErr
    /\ Len(wire) + Len(rxq) < Window
    /\ SendAccepted
    /\ wire' = Append(wire, payload)
    /\ UNCHANGED sockErr

\* The kernel accepts a frame for a server that has gone.
TcpSendDropped ==
    /\ sockErr
    /\ SendAccepted
    /\ UNCHANGED << wire, sockErr >>

\* tx.send reports that the connection is closed.
TcpSendError ==
    /\ sockErr
    /\ SendRejected
    /\ UNCHANGED sockErr

\* The fields of result that are set from a decoded frame.
TcpResultOf(p) ==
    [seq |-> p.seq, sent |-> p.sent, recv |-> now, rtt |-> now - p.sent]

\* Mutant: the frame is read again by the next call.
TcpRecvKeepsFrame ==
    /\ Reading
    /\ rxq # << >>
    /\ hand' = << TcpResultOf(Head(rxq)) >>
    /\ UNCHANGED << now, sendVars, netVars, recvPc, chan, logVars, mainVars >>

\* rx.next returns a frame, and get_stats the state of the connection.
TcpRecv ==
    /\ Reading
    /\ rxq # << >>
    /\ RecvResult(TcpResultOf(Head(rxq)))

\* rx.next reports the end of the stream, once every frame has been read.
TcpRecvEnd ==
    /\ wire = << >> /\ rxq = << >>
    /\ RecvEnded
    /\ UNCHANGED sockErr

-----------------------------------------------------------------------------
(* The connection and the server. *)

\* The oldest frame has been echoed and is readable.
Arrive ==
    /\ Running
    /\ wire # << >>
    /\ rxq' = Append(rxq, Head(wire))
    /\ wire' = Tail(wire)
    /\ UNCHANGED << now, sendVars, sockErr, dups, recvVars, chan, logVars,
                    mainVars >>

\* The server goes away, having echoed the first k frames.
PeerGone ==
    /\ Running
    /\ ~sockErr
    /\ sockErr' = TRUE
    /\ \E k \in 0 .. Len(wire) : wire' = SubSeq(wire, 1, k)
    /\ UNCHANGED << now, sendVars, rxq, dups, recvVars, chan, logVars,
                    mainVars >>

-----------------------------------------------------------------------------
Next ==
    \/ CommonNext
    \/ TcpSend \/ TcpSendDropped \/ TcpSendError
    \/ TcpRecv \/ TcpRecvEnd
    \/ Arrive \/ PeerGone

Spec == Init /\ [][Next]_vars

\* The connection delivers what the server echoes; the server need not go.
Fairness ==
    /\ CommonFairness
    /\ WF_vars(TcpSend \/ TcpSendDropped \/ TcpSendError)
    /\ WF_vars(TcpRecv) /\ WF_vars(TcpRecvEnd)
    /\ WF_vars(Arrive)

FairSpec == Spec /\ Fairness

-----------------------------------------------------------------------------
(* Properties. *)

\* Every variable has its type; the queues respect their capacities.
TypeOK ==
    /\ ClientTypeOK(Result)
    /\ payload \in Packet
    /\ wire \in Seq(Packet)
    /\ rxq \in Seq(Packet)
    /\ Len(wire) + Len(rxq) <= Window

\* The results of a connection are the replies to packets 0, 1, 2, ... in
\* this order, none missing and none twice, each with the stamp of its packet,
\* in every stage from the socket to the log.
InOrder ==
    \A i \in DOMAIN Pipeline :
        /\ Pipeline[i].seq = i - 1
        /\ i \in DOMAIN stamps /\ Pipeline[i].sent = stamps[i]

\* While the server and the disk work, a packet counted as sent is logged,
\* also by a client without --count that never stops sending: a full
\* connection, a full channel and a slow disk make the tasks wait for each
\* other, but never in a circle.
SentIsLogged ==
    \A n \in 1 .. MaxSend :
        (num_ping = {} /\ sendSeq >= n) ~>
            (Len(logged) >= n \/ sockErr \/ logPc = "failed" \/ ~Running)
=============================================================================
