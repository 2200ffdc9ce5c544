------------------------------ MODULE ConnRunner ------------------------------
(***************************************************************************)
(* The data connection of one test of the latency tool, on both of its     *)
(* sides (latency/src/conn_types.rs, with the loops of test_runner.rs that *)
(* drive it).                                                              *)
(*                                                                         *)
(*   TestRunner   puts a packet into the broadcast channel at each tick,   *)
(*                and takes received packets off the mpsc channel          *)
(*   ConnRunner   a select! over the broadcast channel, the socket and the *)
(*                stop signal; it waits with its select! for the socket to *)
(*                take a packet, and for room in the mpsc channel          *)
(*                                                                         *)
(* The broadcast channel overwrites its oldest packet when it is full, and *)
(* the next recv of its receiver is Err(Lagged), which is no Ok(msg): the  *)
(* branch is disabled until the select! is entered again, that is, until   *)
(* the socket has received something.                                      *)
(*                                                                         *)
(* Tests may share their data port, one after the other.  Another test's   *)
(* client may so send to this server, and become its peer; and while this  *)
(* server is not bound to the port another test's server may be, and take  *)
(* this client for its peer.                                               *)
(*                                                                         *)
(* Packets are counted, as the select! treats them all alike.  What a      *)
(* handshake says is in Latency.                                           *)
(***************************************************************************)
EXTENDS Naturals

CONSTANTS
    TxCap,      \* packets the broadcast channel keeps
    RxCap,      \* capacity of the mpsc channel
    AirCap      \* datagrams to one socket, on their way or in its buffer

ASSUME ConnRunnerAssumption ==
    /\ TxCap \in Nat \ {0}
    /\ RxCap \in Nat \ {0}
    /\ AirCap \in Nat \ {0}

Side == {"client", "server"}
Peer(s) == CHOOSE t \in Side : t # s

VARIABLES
    stage,      \* TestRunner: "setup", "handshake", "running" or "gone"
    echo,       \* the client's own id was put on the control stream
    ring,       \* packets in the broadcast channel
    lagged,     \* a packet was overwritten that the ConnRunner had not taken
    armed,      \* the branch of the broadcast channel is enabled
    conn,       \* ConnRunner: "none", "select", "sending", "queueing" or "ended"
    queue,      \* packets in the mpsc channel
    link,       \* datagrams to the client's socket, and from it to the port
    met,        \* peer of the server's socket: "nobody", "client" or "other"
    lent        \* another test's server on the port has the client for its peer

testVars == << stage, echo >>
txVars == << ring, lagged, armed >>
netVars == << link, met, lent >>
connVars == << testVars, txVars, conn, queue, netVars >>

\* The client has its socket; the server has answered, and is about to bind.
ConnInit ==
    /\ stage = [s \in Side |-> IF s = "client" THEN "handshake" ELSE "setup"]
    /\ echo = FALSE
    /\ ring = [s \in Side |-> 0]
    /\ lagged = [s \in Side |-> FALSE]
    /\ armed = [s \in Side |-> TRUE]
    /\ conn = [s \in Side |-> IF s = "client" THEN "select" ELSE "none"]
    /\ queue = [s \in Side |-> 0]
    /\ link = [s \in Side |-> 0]
    /\ met = "nobody"
    /\ lent = FALSE

-----------------------------------------------------------------------------
(* TestRunner. *)

\* The server binds the port and starts its ConnRunner, or finds that another
\* test has the port: the unwrap panics.
Bind ==
    /\ stage["server"] = "setup"
    /\ \/ /\ stage' = [stage EXCEPT !["server"] = "handshake"]
          /\ conn' = [conn EXCEPT !["server"] = "select"]
          /\ lent' = FALSE
       \/ /\ stage' = [stage EXCEPT !["server"] = "gone"]
          /\ conn' = [conn EXCEPT !["server"] = "ended"]
          /\ UNCHANGED lent
    /\ UNCHANGED << echo, txVars, queue, link, met >>

\* Mutant: both sides send during the handshake.
SendsEarly(s) == stage[s] \in {"handshake", "running"}

\* Only the client sends during the handshake.
Sends(s) == stage[s] = "running" \/ (stage[s] = "handshake" /\ s = "client")

\* A timer ticks: ConnCtx::send.
Tick(s) ==
    /\ Sends(s) /\ conn[s] # "ended"
    /\ ring' = [ring EXCEPT ![s] = IF @ < TxCap THEN @ + 1 ELSE TxCap]
    /\ lagged' = [lagged EXCEPT ![s] = @ \/ ring[s] = TxCap]
    /\ UNCHANGED << testVars, armed, conn, queue, netVars >>

\* A timer ticks and the ConnRunner has ended: the unwrap panics.
TickFails(s) ==
    /\ Sends(s) /\ conn[s] = "ended"
    /\ stage' = [stage EXCEPT ![s] = "gone"]
    /\ UNCHANGED << echo, txVars, conn, queue, netVars >>

\* Mutant: the server reads the handshake and keeps waiting.
TakeHandshakeIgnored ==
    /\ stage["server"] = "handshake" /\ queue["server"] > 0
    /\ queue' = [queue EXCEPT !["server"] = @ - 1]
    /\ UNCHANGED << testVars, txVars, conn, netVars >>

\* Mutant: the server starts without an echo.
TakeHandshakeSilent ==
    /\ stage["server"] = "handshake" /\ queue["server"] > 0
    /\ stage' = [stage EXCEPT !["server"] = "running"]
    /\ queue' = [queue EXCEPT !["server"] = @ - 1]
    /\ UNCHANGED << echo, txVars, conn, netVars >>

\* The server takes the first packet, echoes the id in it and starts.  The id
\* is the client's own if its datagrams are the ones that are received.
TakeHandshake ==
    /\ stage["server"] = "handshake" /\ queue["server"] > 0
    /\ stage' = [stage EXCEPT !["server"] = "running"]
    /\ echo' = (met = "client")
    /\ queue' = [queue EXCEPT !["server"] = @ - 1]
    /\ UNCHANGED << txVars, conn, netVars >>

\* The client reads the echo; until then it takes no packet.  No read takes it
\* together with another message: the answer to NewTest was read before the
\* first packet was sent, and a server echoes once.
HearEcho ==
    /\ stage["client"] = "handshake" /\ echo
    /\ stage' = [stage EXCEPT !["client"] = "running"]
    /\ UNCHANGED << echo, txVars, conn, queue, netVars >>

\* A running test takes a packet.
Take(s) ==
    /\ stage[s] = "running" /\ queue[s] > 0
    /\ queue' = [queue EXCEPT ![s] = @ - 1]
    /\ UNCHANGED << testVars, txVars, conn, netVars >>

\* The TestRunner ends, by its timeout, its stop signal or an error, and drops
\* its ConnCtx.
Leave(s) ==
    /\ stage[s] \in {"handshake", "running"}
    /\ stage' = [stage EXCEPT ![s] = "gone"]
    /\ UNCHANGED << echo, txVars, conn, queue, netVars >>

-----------------------------------------------------------------------------
(* ConnRunner::run. *)

\* A packet from the broadcast channel.
TxRecv(s) ==
    /\ conn[s] = "select" /\ armed[s] /\ ring[s] > 0 /\ ~lagged[s]
    /\ conn' = [conn EXCEPT ![s] = "sending"]
    /\ ring' = [ring EXCEPT ![s] = @ - 1]
    /\ UNCHANGED << testVars, lagged, armed, queue, netVars >>

\* Err(Lagged), or Err(Closed) when the TestRunner has gone: the branch is
\* disabled.
TxError(s) ==
    /\ conn[s] = "select" /\ armed[s]
    /\ lagged[s] \/ (stage[s] = "gone" /\ ring[s] = 0)
    /\ armed' = [armed EXCEPT ![s] = FALSE]
    /\ lagged' = [lagged EXCEPT ![s] = FALSE]
    /\ UNCHANGED << testVars, ring, conn, queue, netVars >>

\* The loop enters its select! again, with all branches enabled.
Again(s) ==
    /\ conn' = [conn EXCEPT ![s] = "select"]
    /\ armed' = [armed EXCEPT ![s] = TRUE]

\* The datagrams of s go to its peer in this test.
SendsToPeer(s) == s = "client" \/ met = "client"

\* The socket takes the packet, and the network delivers it ...
Deliver(s) ==
    /\ conn[s] = "sending" /\ SendsToPeer(s) /\ link[Peer(s)] < AirCap
    /\ link' = [link EXCEPT ![Peer(s)] = @ + 1]
    /\ Again(s)
    /\ UNCHANGED << testVars, ring, lagged, queue, met, lent >>

\* ... or loses it, or takes it to the peer in another test.
Lose(s) ==
    /\ conn[s] = "sending"
    /\ Again(s)
    /\ UNCHANGED << testVars, ring, lagged, queue, netVars >>

\* The socket refuses the packet: the unwrap panics.
SendFails(s) ==
    /\ conn[s] = "sending"
    /\ conn' = [conn EXCEPT ![s] = "ended"]
    /\ UNCHANGED << testVars, txVars, queue, netVars >>

\* A datagram for s arrives.  The server takes the client for its peer, or, if
\* another client was first, panics.
SockRecv(s) ==
    /\ conn[s] = "select" /\ link[s] > 0
    /\ link' = [link EXCEPT ![s] = @ - 1]
    /\ IF s = "server" /\ met = "other"
       THEN conn' = [conn EXCEPT ![s] = "ended"] /\ UNCHANGED met
       ELSE /\ conn' = [conn EXCEPT ![s] = "queueing"]
            /\ met' = IF s = "server" THEN "client" ELSE met
    /\ UNCHANGED << testVars, txVars, queue, lent >>

\* A datagram of another test's client, which is the server's peer or becomes it.
SockRecvOther ==
    /\ conn["server"] = "select" /\ met # "client"
    /\ conn' = [conn EXCEPT !["server"] = "queueing"]
    /\ met' = "other"
    /\ UNCHANGED << testVars, txVars, queue, link, lent >>

\* A datagram from anyone but the peer: the unwrap panics.
SockRecvStranger(s) ==
    /\ conn[s] = "select" /\ (s = "server" => met # "nobody")
    /\ conn' = [conn EXCEPT ![s] = "ended"]
    /\ UNCHANGED << testVars, txVars, queue, netVars >>

\* Mutant: the branch of the broadcast channel stays disabled.
QueueStaysDeaf(s) ==
    /\ conn[s] = "queueing" /\ stage[s] # "gone" /\ queue[s] < RxCap
    /\ queue' = [queue EXCEPT ![s] = @ + 1]
    /\ conn' = [conn EXCEPT ![s] = "select"]
    /\ UNCHANGED << testVars, txVars, netVars >>

\* There is room for it in the mpsc channel.
Queue(s) ==
    /\ conn[s] = "queueing" /\ stage[s] # "gone" /\ queue[s] < RxCap
    /\ queue' = [queue EXCEPT ![s] = @ + 1]
    /\ Again(s)
    /\ UNCHANGED << testVars, ring, lagged, netVars >>

\* Mutant: a full channel whose receiver is gone is waited for.
QueueFailsIfRoom(s) ==
    /\ conn[s] = "queueing" /\ stage[s] = "gone" /\ queue[s] < RxCap
    /\ conn' = [conn EXCEPT ![s] = "ended"]
    /\ UNCHANGED << testVars, txVars, queue, netVars >>

\* The receiver of the mpsc channel is gone: the unwrap panics.
QueueFails(s) ==
    /\ conn[s] = "queueing" /\ stage[s] = "gone"
    /\ conn' = [conn EXCEPT ![s] = "ended"]
    /\ UNCHANGED << testVars, txVars, queue, netVars >>

\* The stop signal, or the end of its sender.
Stop(s) ==
    /\ conn[s] = "select" /\ stage[s] = "gone"
    /\ conn' = [conn EXCEPT ![s] = "ended"]
    /\ UNCHANGED << testVars, txVars, queue, netVars >>

-----------------------------------------------------------------------------
(* Another test's server, while this one is not bound to the port. *)

\* It reads a datagram of this client, and takes the client for its peer.
OtherRecv ==
    /\ conn["server"] \in {"none", "ended"} /\ link["server"] > 0
    /\ link' = [link EXCEPT !["server"] = @ - 1]
    /\ lent' = TRUE
    /\ UNCHANGED << testVars, txVars, conn, queue, met >>

\* It sends to its peer.
OtherSend ==
    /\ conn["server"] \in {"none", "ended"} /\ lent
    /\ link["client"] < AirCap
    /\ link' = [link EXCEPT !["client"] = @ + 1]
    /\ UNCHANGED << testVars, txVars, conn, queue, met, lent >>

-----------------------------------------------------------------------------
Test(s) == Tick(s) \/ TickFails(s) \/ Take(s) \/ Leave(s)

Runner(s) ==
    \/ TxRecv(s) \/ TxError(s)
    \/ Deliver(s) \/ Lose(s) \/ SendFails(s)
    \/ SockRecv(s) \/ SockRecvStranger(s)
    \/ Queue(s) \/ QueueFails(s) \/ Stop(s)

ConnNext ==
    \/ Bind \/ TakeHandshake \/ HearEcho
    \/ \E s \in Side : Test(s) \/ Runner(s)
    \/ SockRecvOther \/ OtherRecv \/ OtherSend

ConnSpec == ConnInit /\ [][ConnNext]_connVars

\* Timers tick, the control stream delivers while the server's test holds it,
\* and a ConnRunner in its select! takes a branch that stays ready.  A link
\* that is not cut delivers some of the datagrams that are sent again and
\* again.  Nothing is assumed of other tests.
ConnFairness ==
    /\ WF_connVars(Bind) /\ WF_connVars(TakeHandshake)
    /\ WF_connVars(stage["server"] # "gone" /\ HearEcho)
    /\ \A s \in Side :
         /\ WF_connVars(Tick(s)) /\ WF_connVars(TickFails(s))
         /\ WF_connVars(Take(s))
         /\ WF_connVars(TxRecv(s) \/ TxError(s))
         /\ WF_connVars(SockRecv(s))
         /\ WF_connVars(Deliver(s) \/ Lose(s)) /\ SF_connVars(Deliver(s))
         /\ WF_connVars(Queue(s) \/ QueueFails(s))
         /\ WF_connVars(Stop(s))

ConnFairSpec == ConnSpec /\ ConnFairness

-----------------------------------------------------------------------------
(* Properties. *)

\* Every variable has its type, and the channels their capacity.
ConnTypeOK ==
    /\ stage \in [Side -> {"setup", "handshake", "running", "gone"}]
    /\ echo \in BOOLEAN
    /\ ring \in [Side -> 0 .. TxCap]
    /\ lagged \in [Side -> BOOLEAN]
    /\ armed \in [Side -> BOOLEAN]
    /\ conn \in [Side -> {"none", "select", "sending", "queueing", "ended"}]
    /\ queue \in [Side -> 0 .. RxCap]
    /\ link \in [Side -> 0 .. AirCap]
    /\ met \in {"nobody", "client", "other"}
    /\ lent \in BOOLEAN

\* The server's socket has a peer before anything is to be sent to it.
PeerBeforeSend ==
    ring["server"] > 0 \/ conn["server"] = "sending" => met # "nobody"

\* A ConnRunner whose TestRunner has ended ends as well, wherever it waits.
StopEnds == \A s \in Side : stage[s] = "gone" ~> conn[s] = "ended"

\* A ConnRunner waits for ever for room in the mpsc channel in one case: the
\* client's, when its handshake never ends and it was sent data, which it does
\* not take.  The server that has this client for its peer is not the one to
\* do that, as the echo, which ends the handshake, leaves before the data.
StuckOnlyInLostHandshake ==
    \A s \in Side :
        <>[](conn[s] = "queueing") =>
            /\ s = "client"
            /\ <>[](stage["client"] = "handshake")
            /\ <>[]~(stage["server"] = "running" /\ met = "client")

\* A handshake that never ends on either side, on a link that is not cut, has
\* two causes: the client's ConnRunner has lagged, and nothing that it could
\* receive would enable its branch again; or it waits with the data of another
\* test for room in the mpsc channel.
HandshakeStallCauses ==
    <>[](\A s \in Side : stage[s] = "handshake" /\ conn[s] # "ended")
        => <>[]~armed["client"] \/ <>[](conn["client"] = "queueing")

\* While both sides of a test run, a side to which the other goes on sending
\* has its branch enabled again and again.  Each time the next lag may disable
\* it before a packet is taken, so that this is not to say that it sends.
HearingRearms ==
    \A s \in Side :
        (<>[](\A t \in Side : stage[t] = "running" /\ conn[t] # "ended")
           /\ []<>(conn[Peer(s)] = "sending"))
        => []<>armed[s]
=============================================================================
