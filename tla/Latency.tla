------------------------------- MODULE Latency -------------------------------
(***************************************************************************)
(* The latency tool: one server process and its clients, from the control  *)
(* connection to the running test (latency/src/main.rs, test_runner.rs and *)
(* conn_types.rs).                                                         *)
(*                                                                         *)
(*   client    CtrlClient connects over QUIC and opens one control stream; *)
(*             its TestRunner asks for a new test, waits for the server's  *)
(*             answer, sends Handshake(id) datagrams every 100 ms until    *)
(*             the server echoes its id on the control stream, and then    *)
(*             sends data                                                  *)
(*   server    the accept loop of CtrlServer, which takes connections one  *)
(*             after the other and waits for the stream of each, and a     *)
(*             TestRunner per client: answer, bind the data port, wait for *)
(*             a first datagram, echo its id, and send data                *)
(*   data      a ConnRunner per test and side owns the UDP socket.  The    *)
(*             server's takes the source of its first datagram for its     *)
(*             peer and ends when one arrives from somewhere else          *)
(*                                                                         *)
(* Any task that panics is dropped with what it owns: its end of the       *)
(* control stream, its channels, its socket.  The broadcast and mpsc       *)
(* channels between TestRunner and ConnRunner are abstracted: a TestRunner *)
(* that ticks has its datagram sent at once, and the server's inbox is the *)
(* mpsc channel.  Data from the server to the client changes no state of   *)
(* the client and is left out.                                             *)
(***************************************************************************)
EXTENDS Naturals, Sequences, FiniteSets

CONSTANTS
    Clients,    \* the client processes
    Configs,    \* the test configurations a client may be started with
    Id,         \* Id[c]: stable_id of c's connection, an address in c
    HsTimeout,  \* handshake_timeout, in units of the handshake interval
    InboxCap    \* capacity of the mpsc channel (10)

\* A configuration: the data port, whether the protocol is implemented (udp)
\* or a todo!() (tcp, quic), and the size of the data packets: fine, too large
\* for a UDP datagram, or refused by run (missing, or more than 65535).
ASSUME LatencyAssumption ==
    /\ \A g \in Configs : /\ g.proto \in {"udp", "todo"}
                          /\ g.len \in {"ok", "oversize", "refused"}
    /\ HsTimeout \in Nat /\ HsTimeout > 1
    /\ InboxCap \in Nat \ {0}

VARIABLES
    cfg,        \* the configuration of each client that has been started
    cl,         \* where each client's TestRunner (or main) is
    waited,     \* how long its handshake select! has waited
    cConn,      \* its ConnRunner: "none", "run" or "dead"
    asked,      \* clients whose NewTest is on the control stream
    closed,     \* clients whose connection is known to be closed at the server
    ctrl,       \* control messages from the server still unread by each client
    air,        \* datagrams sent to the server, as [from, port, msg]
    srv,        \* where the accept loop is
    opening,    \* the connection it waits for (at most one)
    accq,       \* incoming connections not yet accepted
    clients,    \* the clients vector: tests started and never removed
    sv,         \* where the server's TestRunner for each client is
    sConn,      \* its ConnRunner: "none", "run" (its port is bound) or "dead"
    peer,       \* peer of its socket: {} or {address}, a client
    inbox       \* the mpsc channel from ConnRunner to TestRunner

clVars == << cfg, cl, waited, cConn, asked >>
linkVars == << closed, ctrl, air >>
accVars == << srv, opening, accq, clients >>
svVars == << sv, sConn, peer, inbox >>
vars == << clVars, linkVars, accVars, svVars >>

Handshake(id) == [type |-> "handshake", id |-> id]
NewTest(id) == [type |-> "newtest", id |-> id]
Data == [type |-> "data"]

Init ==
    /\ cfg \in [Clients -> Configs]
    /\ cl = [c \in Clients |-> "idle"]
    /\ waited = [c \in Clients |-> 0]
    /\ cConn = [c \in Clients |-> "none"]
    /\ asked = {}
    /\ closed = {}
    /\ ctrl = [c \in Clients |-> << >>]
    /\ air = {}
    /\ srv = "select"
    /\ opening = {}
    /\ accq = << >>
    /\ clients = {}
    /\ sv = [c \in Clients |-> "none"]
    /\ sConn = [c \in Clients |-> "none"]
    /\ peer = [c \in Clients |-> {}]
    /\ inbox = [c \in Clients |-> << >>]

\* The server process is alive.
Up == srv \in {"select", "opening"}

-----------------------------------------------------------------------------
(* The accept loop, CtrlServer::run. *)

Accept ==
    /\ srv = "select"
    /\ accq # << >>
    /\ srv' = "opening"
    /\ opening' = {Head(accq)}
    /\ accq' = Tail(accq)
    /\ UNCHANGED << clVars, linkVars, clients, svVars >>

\* Mutant: the loop waits for the test that it has started.
AcceptBiSerial(c) ==
    /\ srv = "opening" /\ c \in opening
    /\ c \in asked /\ c \notin clients
    /\ clients' = clients \cup {c}
    /\ sv' = [sv EXCEPT ![c] = "setup"]
    /\ UNCHANGED << clVars, linkVars, srv, opening, accq, sConn, peer, inbox >>

\* accept_bi returns the stream once the client has written to it, and
\* handle_client spawns the test.
AcceptBi(c) ==
    /\ srv = "opening" /\ c \in opening
    /\ c \in asked
    /\ srv' = "select"
    /\ opening' = {}
    /\ clients' = clients \cup {c}
    /\ sv' = [sv EXCEPT ![c] = "setup"]
    /\ UNCHANGED << clVars, linkVars, accq, sConn, peer, inbox >>

\* The connection closes first: the ? ends run, and main's unwrap the process.
OpenFails(c) ==
    /\ srv = "opening" /\ c \in opening
    /\ c \in closed
    /\ srv' = "crashed"
    /\ UNCHANGED << clVars, linkVars, opening, accq, clients, svVars >>

\* The tests whose task has ended.
EndedTests == {c \in clients : sv[c] \in {"failed", "unbound", "dead"}}

\* Ctrl-C: tell every test ever started to stop.  The send to a test that has
\* ended is an error, and unwrapping it a panic.
CtrlC ==
    /\ srv = "select"
    /\ srv' = IF EndedTests = {} THEN "stopped" ELSE "panicked"
    /\ UNCHANGED << clVars, linkVars, opening, accq, clients, svVars >>

-----------------------------------------------------------------------------
(* The client. *)

\* CtrlClient::new: the connection enters the server's queue.
Connect(c) ==
    /\ Up
    /\ cl[c] = "idle"
    /\ cl' = [cl EXCEPT ![c] = "connected"]
    /\ accq' = Append(accq, c)
    /\ UNCHANGED << cfg, waited, cConn, asked, linkVars, srv, opening, clients,
                    svVars >>

\* open_bi, and the first message of TestRunner::setup.
AskNewTest(c) ==
    /\ cl[c] = "connected"
    /\ cl' = [cl EXCEPT ![c] = "newtest"]
    /\ asked' = asked \cup {c}
    /\ UNCHANGED << cfg, waited, cConn, linkVars, accVars, svVars >>

\* A read of the control stream returns the bytes of one or more messages;
\* deserialize takes the first and drops the others.
CtrlRead(c) ==
    /\ ctrl[c] # << >>
    /\ \E k \in 1 .. Len(ctrl[c]) :
         ctrl' = [ctrl EXCEPT ![c] = SubSeq(@, k + 1, Len(@))]

\* The server's answer to NewTest: create the socket, unless it is a todo!().
ReadNewTest(c) ==
    /\ cl[c] = "newtest"
    /\ CtrlRead(c)
    /\ IF Head(ctrl[c]).type = "newtest" /\ cfg[c].proto = "udp"
       THEN /\ cl' = [cl EXCEPT ![c] = "handshake"]
            /\ cConn' = [cConn EXCEPT ![c] = "run"]
       ELSE /\ cl' = [cl EXCEPT ![c] = "failed"]
            /\ UNCHANGED cConn
    /\ UNCHANGED << cfg, waited, asked, closed, air, accVars, svVars >>

\* The connection is lost before the answer: the read, or open_bi, fails.
CtrlLost(c) ==
    /\ ~Up
    /\ cl[c] \in {"connected", "newtest"} /\ ctrl[c] = << >>
    /\ cl' = [cl EXCEPT ![c] = "failed"]
    /\ UNCHANGED << cfg, waited, cConn, asked, linkVars, accVars, svVars >>

\* A datagram from client c to the data port of its test.
Datagram(c, m) == [from |-> c, port |-> cfg[c].port, msg |-> m]

\* The handshake timer ticks.  The select! is entered again, with a new sleep.
HandshakeTick(c) ==
    /\ cl[c] = "handshake" /\ cConn[c] = "run"
    /\ air' = air \cup {Datagram(c, Handshake(Id[c]))}
    /\ waited' = [waited EXCEPT ![c] = 0]
    /\ UNCHANGED << cfg, cl, cConn, asked, closed, ctrl, accVars, svVars >>

\* Time passes in the handshake select!.
Wait(c) ==
    /\ cl[c] = "handshake"
    /\ waited[c] < HsTimeout
    /\ waited' = [waited EXCEPT ![c] = @ + 1]
    /\ UNCHANGED << cfg, cl, cConn, asked, linkVars, accVars, svVars >>

\* The sleep is over before the timer ticks: "handshake timeout".
HandshakeTimeout(c) ==
    /\ cl[c] = "handshake"
    /\ waited[c] >= HsTimeout
    /\ cl' = [cl EXCEPT ![c] = "failed"]
    /\ UNCHANGED << cfg, waited, cConn, asked, linkVars, accVars, svVars >>

\* The first lines of TestRunner::run refuse some packet sizes by a panic.
StartRun(c, bad) == IF cfg[c].len = "refused" THEN bad ELSE "running"

\* Mutant: the id in the echo is not compared.
AfterEchoAnyId(c, m) ==
    IF m.type # "handshake" THEN "failed" ELSE StartRun(c, "failed")

\* What the client does on a message during the handshake: an unexpected one
\* is an error, and the echo of another id is ignored.
AfterEcho(c, m) ==
    IF m.type # "handshake" THEN "failed"
    ELSE IF m.id = Id[c] THEN StartRun(c, "failed") ELSE "handshake"

ReadEcho(c) ==
    /\ cl[c] = "handshake"
    /\ CtrlRead(c)
    /\ cl' = [cl EXCEPT ![c] = AfterEcho(c, Head(ctrl[c]))]
    /\ waited' = [waited EXCEPT ![c] = 0]
    /\ UNCHANGED << cfg, cConn, asked, closed, air, accVars, svVars >>

\* The send timer ticks and the ConnRunner sends; a packet that is too large
\* makes it panic.
SendData(c) ==
    /\ cl[c] = "running" /\ cConn[c] = "run"
    /\ IF cfg[c].len = "ok"
       THEN /\ air' = air \cup {Datagram(c, Data)}
            /\ UNCHANGED cConn
       ELSE /\ cConn' = [cConn EXCEPT ![c] = "dead"]
            /\ UNCHANGED air
    /\ UNCHANGED << cfg, cl, waited, asked, closed, ctrl, accVars, svVars >>

\* The ConnRunner panics: its socket refuses a datagram, or receives one that is
\* not from the server.
ConnPanics(c) ==
    /\ cl[c] \in {"handshake", "running"} /\ cConn[c] = "run"
    /\ cConn' = [cConn EXCEPT ![c] = "dead"]
    /\ UNCHANGED << cfg, cl, waited, asked, linkVars, accVars, svVars >>

\* The timer of the handshake or the test ticks, and nobody receives: unwrap
\* panics.
ClientTickFails(c) ==
    /\ cl[c] \in {"handshake", "running"} /\ cConn[c] = "dead"
    /\ cl' = [cl EXCEPT ![c] = "failed"]
    /\ UNCHANGED << cfg, waited, cConn, asked, linkVars, accVars, svVars >>

\* The process ends, because the test task did or by Ctrl-C or a kill; the
\* server may or may not learn of it.
Exit(c) ==
    /\ cl[c] \notin {"idle", "exited"}
    /\ cl' = [cl EXCEPT ![c] = "exited"]
    /\ cConn' = [cConn EXCEPT ![c] = "dead"]
    /\ closed' \in {closed, closed \cup {c}}
    /\ UNCHANGED << cfg, waited, asked, ctrl, air, accVars, svVars >>

-----------------------------------------------------------------------------
(* The server's TestRunner and ConnRunner for client c. *)

\* Read NewTest and send it back.
SrvReply(c) ==
    /\ Up /\ sv[c] = "setup"
    /\ \/ /\ sv' = [sv EXCEPT ![c] = "replied"]
          /\ ctrl' = [ctrl EXCEPT ![c] = Append(@, NewTest(Id[c]))]
       \/ /\ c \in closed
          /\ sv' = [sv EXCEPT ![c] = "failed"]
          /\ UNCHANGED ctrl
    /\ UNCHANGED << clVars, closed, air, accVars, sConn, peer, inbox >>

\* The sockets of other tests that hold the port.
PortTaken(c) ==
    \E d \in Clients : sConn[d] = "run" /\ cfg[d].port = cfg[c].port

\* Bind the data port, after the answer has been sent.
SrvBind(c) ==
    /\ Up /\ sv[c] = "replied"
    /\ \/ /\ cfg[c].proto = "udp" /\ ~PortTaken(c)
          /\ sv' = [sv EXCEPT ![c] = "handshake"]
          /\ sConn' = [sConn EXCEPT ![c] = "run"]
       \/ /\ cfg[c].proto = "udp" /\ PortTaken(c)
          /\ sv' = [sv EXCEPT ![c] = "unbound"]
          /\ UNCHANGED sConn
       \/ /\ cfg[c].proto = "todo"
          /\ sv' = [sv EXCEPT ![c] = "failed"]
          /\ UNCHANGED sConn
    /\ UNCHANGED << clVars, linkVars, accVars, peer, inbox >>

\* UdpLatency::recv accepts a datagram from address a.
Knows(c, a) == peer[c] \in {{}, {a}}

\* Mutant: the channel is not bounded.
SrvRecvUnbounded(c, d) ==
    /\ Up /\ sConn[c] = "run" /\ d.port = cfg[c].port
    /\ Knows(c, d.from)
    /\ peer' = [peer EXCEPT ![c] = {d.from}]
    /\ inbox' = [inbox EXCEPT ![c] = Append(@, d.msg)]
    /\ UNCHANGED << clVars, linkVars, accVars, sv, sConn >>

\* The ConnRunner reads datagram d, which may be a late or repeated one, and
\* queues it; an unknown sender makes it panic.
SrvRecv(c, d) ==
    /\ Up /\ sConn[c] = "run" /\ d.port = cfg[c].port
    /\ Len(inbox[c]) < InboxCap
    /\ IF Knows(c, d.from)
       THEN /\ peer' = [peer EXCEPT ![c] = {d.from}]
            /\ inbox' = [inbox EXCEPT ![c] = Append(@, d.msg)]
            /\ UNCHANGED sConn
       ELSE /\ sConn' = [sConn EXCEPT ![c] = "dead"]
            /\ UNCHANGED << peer, inbox >>
    /\ UNCHANGED << clVars, linkVars, accVars, sv >>

\* Mutant: the echo is sent, and the wait goes on.
SrvHandshakeGoesOn(c) ==
    /\ Up /\ sv[c] = "handshake" /\ inbox[c] # << >>
    /\ Head(inbox[c]).type = "handshake"
    /\ ctrl' = [ctrl EXCEPT ![c] = Append(@, Handshake(Head(inbox[c]).id))]
    /\ inbox' = [inbox EXCEPT ![c] = Tail(@)]
    /\ UNCHANGED << clVars, closed, air, accVars, sv, sConn, peer >>


\* The first datagram of a test: echo its id on the control stream, whatever
\* it is, and start the test.  The write fails when the client is gone.
SrvHandshake(c) ==
    /\ Up /\ sv[c] = "handshake" /\ inbox[c] # << >>
    /\ inbox' = [inbox EXCEPT ![c] = Tail(@)]
    /\ LET m == Head(inbox[c])
       IN  \/ /\ m.type = "handshake"
              /\ ctrl' = [ctrl EXCEPT ![c] = Append(@, Handshake(m.id))]
              /\ sv' = [sv EXCEPT ![c] = StartRun(c, "dead")]
           \/ /\ m.type # "handshake" \/ c \in closed
              /\ sv' = [sv EXCEPT ![c] = "failed"]
              /\ UNCHANGED ctrl
    /\ UNCHANGED << clVars, closed, air, accVars, sConn, peer >>

\* Mutant: the test starts without a datagram.
SrvTimeoutStarts(c) ==
    /\ Up /\ sv[c] = "handshake"
    /\ sv' = [sv EXCEPT ![c] = "running"]
    /\ UNCHANGED << clVars, linkVars, accVars, sConn, peer, inbox >>

\* No datagram within the handshake timeout.
SrvTimeout(c) ==
    /\ Up /\ sv[c] = "handshake"
    /\ sv' = [sv EXCEPT ![c] = "failed"]
    /\ UNCHANGED << clVars, linkVars, accVars, sConn, peer, inbox >>

\* The running test takes a received packet off the channel.
SrvTake(c) ==
    /\ Up /\ sv[c] = "running" /\ inbox[c] # << >>
    /\ inbox' = [inbox EXCEPT ![c] = Tail(@)]
    /\ UNCHANGED << clVars, linkVars, accVars, sv, sConn, peer >>

\* The send timer ticks and the ConnRunner panics on a packet that is too
\* large.  (Any other packet goes to peer.unwrap() and changes nothing here.)
SrvSendTooLarge(c) ==
    /\ Up /\ sv[c] = "running" /\ sConn[c] = "run"
    /\ cfg[c].len = "oversize"
    /\ sConn' = [sConn EXCEPT ![c] = "dead"]
    /\ UNCHANGED << clVars, linkVars, accVars, sv, peer, inbox >>

\* The send timer ticks, and the ConnRunner has ended: unwrap panics.
SrvSendFails(c) ==
    /\ Up /\ sv[c] = "running" /\ sConn[c] = "dead"
    /\ sv' = [sv EXCEPT ![c] = "dead"]
    /\ UNCHANGED << clVars, linkVars, accVars, sConn, peer, inbox >>

\* The TestRunner is gone and with it the sender of stop: the ConnRunner ends
\* and closes its socket.
SrvConnStop(c) ==
    /\ Up /\ sConn[c] = "run" /\ sv[c] \in {"failed", "dead"}
    /\ sConn' = [sConn EXCEPT ![c] = "dead"]
    /\ UNCHANGED << clVars, linkVars, accVars, sv, peer, inbox >>

-----------------------------------------------------------------------------
AcceptLoop == Accept \/ CtrlC \/ \E c \in Clients : AcceptBi(c) \/ OpenFails(c)

ClientSide(c) ==
    \/ Connect(c) \/ AskNewTest(c) \/ ReadNewTest(c) \/ CtrlLost(c)
    \/ HandshakeTick(c) \/ Wait(c) \/ HandshakeTimeout(c) \/ ReadEcho(c)
    \/ SendData(c) \/ ConnPanics(c) \/ ClientTickFails(c)
    \/ Exit(c)

ServerSide(c) ==
    \/ SrvReply(c) \/ SrvBind(c)
    \/ \E d \in air : SrvRecv(c, d)
    \/ SrvHandshake(c) \/ SrvTimeout(c)
    \/ SrvTake(c) \/ SrvSendTooLarge(c) \/ SrvSendFails(c)
    \/ SrvConnStop(c)


Next ==
    \/ AcceptLoop
    \/ \E c \in Clients : ClientSide(c) \/ ServerSide(c)

Spec == Init /\ [][Next]_vars

\* Both runtimes poll every ready task and timers fire; a client ends once its
\* test has.  Nothing is assumed of the network or of the users.
Fairness ==
    /\ WF_vars(Accept)
    /\ \A c \in Clients :
         /\ WF_vars(AcceptBi(c) \/ OpenFails(c))
         /\ WF_vars(AskNewTest(c)) /\ WF_vars(ReadNewTest(c))
         /\ WF_vars(HandshakeTick(c)) /\ WF_vars(HandshakeTimeout(c))
         /\ WF_vars(Wait(c)) /\ WF_vars(ReadEcho(c))
         /\ WF_vars(ClientTickFails(c))
         /\ WF_vars(cl[c] = "failed" /\ Exit(c))
         /\ WF_vars(SrvReply(c)) /\ WF_vars(SrvBind(c))
         /\ WF_vars(SrvHandshake(c) \/ SrvTimeout(c)) /\ WF_vars(SrvTake(c))
         /\ WF_vars(SrvSendFails(c)) /\ WF_vars(SrvConnStop(c))

FairSpec == Spec /\ Fairness

-----------------------------------------------------------------------------
(* Properties. *)

DataMsg == {Handshake(Id[c]) : c \in Clients} \cup {Data}
CtrlMsg == {Handshake(Id[c]) : c \in Clients} \cup {NewTest(Id[c]) : c \in Clients}

\* Every variable has its type; the channel respects its capacity.
TypeOK ==
    /\ cfg \in [Clients -> Configs]
    /\ cl \in [Clients -> {"idle", "connected", "newtest", "handshake",
                           "running", "failed", "exited"}]
    /\ waited \in [Clients -> 0 .. HsTimeout]
    /\ cConn \in [Clients -> {"none", "run", "dead"}]
    /\ asked \subseteq Clients
    /\ closed \subseteq Clients
    /\ ctrl \in [Clients -> Seq(CtrlMsg)]
    /\ \A d \in air : /\ d.from \in Clients
                      /\ d.port = cfg[d.from].port
                      /\ d.msg \in {Handshake(Id[d.from]), Data}
    /\ srv \in {"select", "opening", "stopped", "panicked", "crashed"}
    /\ opening \subseteq Clients
    /\ accq \in Seq(Clients)
    /\ clients \subseteq Clients
    /\ sv \in [Clients -> {"none", "setup", "replied", "handshake", "running",
                           "failed", "unbound", "dead"}]
    /\ sConn \in [Clients -> {"none", "run", "dead"}]
    /\ peer \in [Clients -> SUBSET Clients]
    /\ inbox \in [Clients -> Seq(DataMsg)]
    /\ \A c \in Clients : Len(inbox[c]) <= InboxCap

\* peer.unwrap() in UdpLatency::send never panics: a server's test that runs
\* has received a datagram, and so has a peer to send to.
PeerKnown == \A c \in Clients : sv[c] = "running" => peer[c] # {}

\* No two connections have the same stable_id.
IdsDiffer == \A c, d \in Clients : Id[c] = Id[d] => c = d

\* A client that runs its test is the peer of the server's test: the server
\* measures against this client and no other, even when clients share a port.
PeerIsClient == \A c \in Clients : cl[c] = "running" => peer[c] = {c}

\* A client is ready only after the server's test for it was ready.
ReadyTogether ==
    \A c \in Clients : cl[c] = "running" => sv[c] \in {"running", "dead"}

\* A peer once set never changes.
PeerIsFixed ==
    [][\A c \in Clients : peer[c] # {} => peer'[c] = peer[c]]_vars


\* A client that waits for the server to take its connection gets its test,
\* unless the server ends or waits for a client that left without a word.
Served ==
    \A c \in Clients :
        (c \in asked /\ sv[c] = "none") ~>
            (sv[c] # "none" \/ ~Up
               \/ \E d \in opening : cl[d] = "exited" /\ d \notin closed)

\* "handshake timeout": a client does not wait for the echo forever.
HandshakeEnds ==
    \A c \in Clients :
        cl[c] = "handshake" ~> cl[c] # "handshake"
=============================================================================
