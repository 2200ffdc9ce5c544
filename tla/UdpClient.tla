------------------------------ MODULE UdpClient ------------------------------
(***************************************************************************)
(* The UDP echo client, ping/src/udp.rs: EchoClient over a connected UDP   *)
(* socket.  The network and the echo server are the environment: a packet  *)
(* is lost, duplicated, reordered, echoed, or answered by an ICMP          *)
(* unreachable message, which becomes a pending error of the socket that   *)
(* the next send or receive reports and clears.                            *)
(***************************************************************************)
EXTENDS EchoClient

CONSTANTS
    RxCap,      \* replies the socket's receive queue holds
    MaxDup      \* bound: duplications by the network

ASSUME UdpClientAssumption == RxCap \in Nat \ {0} /\ MaxDup \in Nat

\* UdpEchoPacket, as far as the client reads it back.
Packet == [seq : Nat, sent : Nat]

\* UDPEchoResult.
Result == [seq : Nat, sent : Nat, recv : Nat, rtt : Int]

Init == ClientInit("select", [seq |-> 0, sent |-> 0], {})

-----------------------------------------------------------------------------
\* tx.send hands the packet to the network.
UdpSend ==
    /\ ~sockErr
    /\ SendAccepted
    /\ wire' = wire \cup {payload}
    /\ UNCHANGED sockErr

\* tx.send fails: it reports the pending error, or the kernel refuses the
\* packet (it is too long, or there is no route).
UdpSendError ==
    /\ SendRejected
    /\ sockErr' = FALSE

\* Mutant: the receive stamp is taken from the packet.
UdpResultOfStaleStamp(p) ==
    [seq |-> p.seq, sent |-> p.sent, recv |-> p.sent, rtt |-> now - p.sent]

\* The fields of result that are set from a decoded packet.
UdpResultOf(p) ==
    [seq |-> p.seq, sent |-> p.sent, recv |-> now, rtt |-> now - p.sent]

UdpRecv ==
    /\ Reading
    /\ ~sockErr
    /\ rxq # << >>
    /\ RecvResult(UdpResultOf(Head(rxq)))

\* rx.recv reports the pending error.
UdpRecvError ==
    /\ RecvEnded
    /\ sockErr' = FALSE

-----------------------------------------------------------------------------
(* The network and the server. *)

\* The echo of p reaches the socket.  A full receive queue drops it: Lose.
Arrive(p) ==
    /\ Running
    /\ Len(rxq) < RxCap
    /\ rxq' = Append(rxq, p)
    /\ wire' = wire \ {p}
    /\ UNCHANGED << now, sendVars, sockErr, dups, recvVars, chan, logVars,
                    mainVars >>

\* One copy of p arrives and another is still on its way.
Duplicate(p) ==
    /\ Running
    /\ dups < MaxDup
    /\ Len(rxq) < RxCap
    /\ rxq' = Append(rxq, p)
    /\ dups' = dups + 1
    /\ UNCHANGED << now, sendVars, wire, sockErr, recvVars, chan, logVars,
                    mainVars >>

Lose(p) ==
    /\ Running
    /\ wire' = wire \ {p}
    /\ UNCHANGED << now, sendVars, rxq, sockErr, dups, recvVars, chan, logVars,
                    mainVars >>

\* Nobody listens at the destination.
Unreachable(p) ==
    /\ Running
    /\ wire' = wire \ {p}
    /\ sockErr' = TRUE
    /\ UNCHANGED << now, sendVars, rxq, dups, recvVars, chan, logVars,
                    mainVars >>

Network ==
    \E p \in wire : Arrive(p) \/ Duplicate(p) \/ Lose(p) \/ Unreachable(p)

-----------------------------------------------------------------------------
Next ==
    \/ CommonNext
    \/ UdpSend \/ UdpSendError
    \/ UdpRecv \/ UdpRecvError
    \/ Network

Spec == Init /\ [][Next]_vars

Fairness ==
    /\ CommonFairness
    /\ WF_vars(UdpSend \/ UdpSendError)
    /\ WF_vars(UdpRecv) /\ WF_vars(UdpRecvError)

FairSpec == Spec /\ Fairness

-----------------------------------------------------------------------------
(* Properties. *)

\* Every variable has its type; the queues respect their capacities.
TypeOK ==
    /\ ClientTypeOK(Result)
    /\ payload \in Packet
    /\ wire \in SUBSET Packet
    /\ rxq \in Seq(Packet) /\ Len(rxq) <= RxCap

\* The u128 subtraction recv_timestamp - send_timestamp of the round trip
\* time never underflows: no reply is read before the time it was sent at.
RttDefined == \A i \in DOMAIN rxq : rxq[i].sent <= now
=============================================================================
