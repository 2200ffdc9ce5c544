------------------------------ MODULE UdpServer ------------------------------
(***************************************************************************)
(* The UDP echo server, UDPServer in ping/src/udp.rs.                      *)
(*                                                                         *)
(*   main      takes a datagram from the main socket, answers it, and then *)
(*             makes a second socket on the same port, connects it to the  *)
(*             sender and gives it to a task                               *)
(*   task      answers what arrives at its socket until nothing has        *)
(*             arrived for ten seconds                                     *)
(*                                                                         *)
(* The kernel gives a datagram to a socket connected to its sender, and to *)
(* an unconnected socket on the port only if there is none.  Between bind  *)
(* and connect a task's socket is such an unconnected socket, and what it  *)
(* has received by then stays in its queue.  A reply to a port that nobody *)
(* has open comes back as an error, which the next call on a connected     *)
(* socket reports.                                                         *)
(*                                                                         *)
(* Time is not modelled: as the runtime may be late, the ten seconds may   *)
(* be over at any point of a select!.                                      *)
(***************************************************************************)
EXTENDS Naturals, Sequences

CONSTANTS
    Clients,    \* addresses of clients
    Socks,      \* the sockets the process may have open for its tasks
    QueueCap,   \* datagrams a receive queue holds
    MaxAsk,     \* bound: requests of each client
    MaxClose    \* bound: how often client ports are closed

ASSUME UdpServerAssumption ==
    /\ QueueCap \in Nat \ {0}
    /\ MaxAsk \in Nat /\ MaxClose \in Nat

VARIABLES
    family,     \* address family of the server's address, 4 or 6
    mainPc,     \* main: "recv", "bind", "connect" or "ended"
    cur,        \* the client main is making a socket for, {} or {client}
    mainQ,      \* receive queue of the main socket: senders
    sock,       \* the tasks' sockets
    open,       \* clients whose port is open
    closes,     \* how often one was closed
    asked,      \* history: requests that reached the server's host
    answered    \* history: answers to requests of each client

mainVars == << family, mainPc, cur, mainQ >>
clientVars == << open, closes, asked >>
vars == << mainVars, sock, clientVars, answered >>

\* A datagram in the queue of a task's socket; window tells whether it came
\* between bind and connect.
Datagram == [from : Clients, window : BOOLEAN]

\* A socket that is not in use.
Free == [stage |-> "free", peer |-> {}, q |-> << >>, hand |-> << >>,
         err |-> FALSE, bounced |-> FALSE]

Init ==
    /\ family \in {4, 6}
    /\ mainPc = "recv"
    /\ cur = {}
    /\ mainQ = << >>
    /\ sock = [s \in Socks |-> Free]
    /\ open = Clients
    /\ closes = 0
    /\ asked = [c \in Clients |-> 0]
    /\ answered = [c \in Clients |-> 0]

Up == mainPc # "ended"

\* A request of client c is answered.
Answered(c) == answered' = [answered EXCEPT ![c] = @ + 1]

-----------------------------------------------------------------------------
(* Clients and kernel. *)

ConnectedTo(c) == {s \in Socks : sock[s].peer = {c}}
Unconnected == {s \in Socks : sock[s].stage # "free" /\ sock[s].peer = {}}

\* The queue drops what it has no room for.
Enqueue(q, d) == IF Len(q) < QueueCap THEN Append(q, d) ELSE q

ToTask(s, c) ==
    /\ sock' = [sock EXCEPT ![s].q =
                   Enqueue(@, [from |-> c, window |-> sock[s].stage = "bound"])]
    /\ UNCHANGED mainQ

ToMain(c) == mainQ' = Enqueue(mainQ, c) /\ UNCHANGED sock

\* A request of client c reaches the server's host.
Arrive(c) ==
    /\ Up /\ c \in open /\ asked[c] < MaxAsk
    /\ asked' = [asked EXCEPT ![c] = @ + 1]
    /\ \/ \E s \in ConnectedTo(c) : ToTask(s, c)
       \/ ConnectedTo(c) = {} /\ \E s \in Unconnected : ToTask(s, c)
       \/ ConnectedTo(c) = {} /\ ToMain(c)
    /\ UNCHANGED << family, mainPc, cur, open, closes, answered >>

\* A client ends, and another may start on the same port.
Close(c) ==
    /\ c \in open /\ closes < MaxClose
    /\ open' = open \ {c}
    /\ closes' = closes + 1
    /\ UNCHANGED << mainVars, sock, asked, answered >>

Reopen(c) ==
    /\ c \notin open
    /\ open' = open \cup {c}
    /\ UNCHANGED << mainVars, sock, closes, asked, answered >>

\* The error for a reply to a closed port reaches the socket that sent it.
Refuse(s) ==
    /\ sock[s].bounced
    /\ sock' = [sock EXCEPT ![s].bounced = FALSE, ![s].err = TRUE]
    /\ UNCHANGED << mainVars, clientVars, answered >>

-----------------------------------------------------------------------------
(* Main, UDPServer::run. *)

\* Receive a request and answer it on the main socket.
MainEcho ==
    /\ mainPc = "recv" /\ mainQ # << >>
    /\ mainPc' = "bind"
    /\ cur' = {Head(mainQ)}
    /\ mainQ' = Tail(mainQ)
    /\ Answered(Head(mainQ))
    /\ UNCHANGED << family, sock, clientVars >>

\* The answer cannot be sent: the ? ends the server.
MainEchoFails ==
    /\ mainPc = "recv" /\ mainQ # << >>
    /\ mainPc' = "ended"
    /\ UNCHANGED << family, cur, mainQ, sock, clientVars, answered >>

\* Make a socket, set SO_REUSEADDR and bind it to the main socket's address.
MainBind ==
    /\ mainPc = "bind" /\ family = 4
    /\ \E s \in Socks : /\ sock[s].stage = "free"
                        /\ sock' = [sock EXCEPT ![s].stage = "bound"]
    /\ mainPc' = "connect"
    /\ UNCHANGED << family, cur, mainQ, clientVars, answered >>

\* UDPSocket::new(None, None) fails when the process has no file descriptor
\* left; it makes an IPv4 socket, which an IPv6 address cannot be bound to.
MainBindFails ==
    /\ mainPc = "bind"
    /\ family = 6 \/ \A s \in Socks : sock[s].stage # "free"
    /\ mainPc' = "ended"
    /\ UNCHANGED << family, cur, mainQ, sock, clientVars, answered >>

\* Mutant: the task is started on a socket that is not connected.
MainSpawnUnconnected ==
    /\ mainPc = "connect"
    /\ \E s \in Socks : /\ sock[s].stage = "bound"
                        /\ sock' = [sock EXCEPT ![s].stage = "select"]
    /\ mainPc' = "recv"
    /\ cur' = {}
    /\ UNCHANGED << family, mainQ, clientVars, answered >>

\* Mutant: the task starts with the request that main has answered.
MainSpawnWithRequest ==
    /\ mainPc = "connect"
    /\ \E s \in Socks, c \in cur :
         /\ sock[s].stage = "bound"
         /\ sock' = [sock EXCEPT
                       ![s].stage = "reply", ![s].peer = cur,
                       ![s].hand = << [from |-> c, window |-> FALSE] >>]
    /\ mainPc' = "recv"
    /\ cur' = {}
    /\ UNCHANGED << family, mainQ, clientVars, answered >>

\* Connect the socket to the client and start its task.
MainConnect ==
    /\ mainPc = "connect"
    /\ \E s \in Socks : /\ sock[s].stage = "bound"
                        /\ sock' = [sock EXCEPT ![s].stage = "select",
                                                ![s].peer = cur]
    /\ mainPc' = "recv"
    /\ cur' = {}
    /\ UNCHANGED << family, mainQ, clientVars, answered >>

-----------------------------------------------------------------------------
(* The task of a socket, UDPServer::handle_client.  Its stage is "select",  *)
(* "reply", or "deaf": in the select! whose recv branch an error disabled.  *)

TaskRecv(s) ==
    /\ Up /\ sock[s].stage = "select" /\ ~sock[s].err /\ sock[s].q # << >>
    /\ sock' = [sock EXCEPT ![s].stage = "reply",
                            ![s].hand = << Head(sock[s].q) >>,
                            ![s].q = Tail(@)]
    /\ UNCHANGED << mainVars, clientVars, answered >>

\* recv reports an error, which is no Ok(len): only the sleep is left.
TaskRecvError(s) ==
    /\ Up /\ sock[s].stage = "select" /\ sock[s].err
    /\ sock' = [sock EXCEPT ![s].stage = "deaf", ![s].err = FALSE]
    /\ UNCHANGED << mainVars, clientVars, answered >>

\* The reply goes to the peer of the socket, whoever asked.
TaskReply(s) ==
    /\ Up /\ sock[s].stage = "reply" /\ ~sock[s].err
    /\ sock' = [sock EXCEPT ![s].stage = "select", ![s].hand = << >>,
                            ![s].bounced = @ \/ sock[s].peer \cap open = {}]
    /\ Answered(sock[s].hand[1].from)
    /\ UNCHANGED << mainVars, clientVars >>

\* send reports an error: the ? ends the task.
TaskReplyFails(s) ==
    /\ Up /\ sock[s].stage = "reply" /\ sock[s].err
    /\ sock' = [sock EXCEPT ![s] = Free]
    /\ UNCHANGED << mainVars, clientVars, answered >>

\* Mutant: the error branch waits for ever.
TaskTimeoutUnlessDeaf(s) ==
    /\ Up /\ sock[s].stage = "select"
    /\ sock' = [sock EXCEPT ![s] = Free]
    /\ UNCHANGED << mainVars, clientVars, answered >>

\* "Client timeout": the task ends, and with it its socket and what is queued.
TaskTimeout(s) ==
    /\ Up /\ sock[s].stage \in {"select", "deaf"}
    /\ sock' = [sock EXCEPT ![s] = Free]
    /\ UNCHANGED << mainVars, clientVars, answered >>

-----------------------------------------------------------------------------
Main == MainEcho \/ MainEchoFails \/ MainBind \/ MainBindFails \/ MainConnect

Task(s) ==
    \/ TaskRecv(s) \/ TaskRecvError(s) \/ TaskReply(s) \/ TaskReplyFails(s)
    \/ TaskTimeout(s)

Next ==
    \/ Main
    \/ \E s \in Socks : Task(s) \/ Refuse(s)
    \/ \E c \in Clients : Arrive(c) \/ Close(c) \/ Reopen(c)

Spec == Init /\ [][Next]_vars

\* The runtime polls every task that is ready, and a sleep that is not
\* replaced by a new one ends.
Fairness ==
    /\ WF_vars(Main)
    /\ \A s \in Socks :
         /\ WF_vars(TaskRecv(s) \/ TaskRecvError(s))
         /\ WF_vars(TaskReply(s) \/ TaskReplyFails(s))
         /\ WF_vars(TaskTimeout(s))

FairSpec == Spec /\ Fairness

-----------------------------------------------------------------------------
(* Properties. *)

\* Every variable has its type, and the queues their capacity.
TypeOK ==
    /\ family \in {4, 6}
    /\ mainPc \in {"recv", "bind", "connect", "ended"}
    /\ cur \in SUBSET Clients
    /\ mainPc \in {"bind", "connect"} => \E c \in Clients : cur = {c}
    /\ mainQ \in Seq(Clients) /\ Len(mainQ) <= QueueCap
    /\ sock \in [Socks -> [stage : {"free", "bound", "select", "reply", "deaf"},
                           peer : SUBSET Clients,
                           q : Seq(Datagram), hand : Seq(Datagram),
                           err : BOOLEAN, bounced : BOOLEAN]]
    /\ \A s \in Socks :
         /\ Len(sock[s].q) <= QueueCap
         /\ Len(sock[s].hand) = IF sock[s].stage = "reply" THEN 1 ELSE 0
    /\ open \subseteq Clients
    /\ closes \in 0 .. MaxClose
    /\ asked \in [Clients -> 0 .. MaxAsk]
    /\ answered \in [Clients -> Nat]

\* A task answers a request of somebody else only when it came between bind
\* and connect: after that the kernel keeps the clients apart.
StrayOnlyInWindow ==
    \A s \in Socks : sock[s].stage \notin {"free", "bound"} =>
        /\ \A i \in DOMAIN sock[s].q :
             sock[s].q[i].from \in sock[s].peer \/ sock[s].q[i].window
        /\ \A i \in DOMAIN sock[s].hand :
             sock[s].hand[i].from \in sock[s].peer \/ sock[s].hand[i].window

\* The echo service whose server is up as long as main is.
Echo == INSTANCE EchoService WITH up <- Up

\* Main and the tasks together implement the echo service: no request is
\* answered twice, although main and several tasks of one client read from
\* sockets on one port.
KeepsEcho == Echo!Spec

\* Each socket made for a client is closed again once the clients ask no more
\* (their requests are bounded), also when an error has made its task deaf.
SocketReleased ==
    \A s \in Socks : sock[s].stage # "free" ~> (sock[s].stage = "free" \/ ~Up)
=============================================================================
