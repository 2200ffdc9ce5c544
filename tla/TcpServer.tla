------------------------------ MODULE TcpServer ------------------------------
(***************************************************************************)
(* The TCP echo server, TCPServer in ping/src/tcp.rs.                      *)
(*                                                                         *)
(*   run       accepts a connection, starts a handler for it and waits     *)
(*             until that handler has ended: connections are served one    *)
(*             after the other                                             *)
(*   handler   reads a frame, updates the statistics of the time between   *)
(*             frames, and answers it; it ends well when the connection is *)
(*             over, and panics when an answer cannot be sent, which ends  *)
(*             the server                                                  *)
(*                                                                         *)
(* A connection is a stream each way in which Window frames fit.  A client *)
(* that closes it sees nothing sent to it afterwards: the first frame that *)
(* the server still sends is lost, and answered with a reset.              *)
(***************************************************************************)
EXTENDS Statistics

CONSTANTS
    Conns,      \* connections
    Window,     \* frames that fit between sender and receiver
    Milli,      \* steps of the clock in a millisecond
    MaxFrames,  \* bound: frames of each client
    MaxClock    \* bound: the clock

ASSUME TcpServerAssumption ==
    /\ Window \in Nat \ {0} /\ Milli \in Nat \ {0}
    /\ MaxFrames \in Nat /\ MaxClock \in Nat

VARIABLES
    srv,            \* run: "accept", "serve" or "ended"
    backlog,        \* connections not yet accepted
    serving,        \* the connection of the handler, {} or {connection}
    frame,          \* the frame the handler answers, << >> or << frame >>
    recv_counter,   \* frames the handler has answered
    time,           \* its clock value of the last one
    stats,          \* its statistics
    reads,          \* history: the two clock values it read at each frame
    conn,           \* connection: "none", "open", "left", "reset" or "closed"
    bounced,        \* connections whose client gets frames it cannot take
    toServer,       \* frames on their way to the server, numbered by client
    toClient,       \* answers on their way to the client
    got,            \* history: answers each client has read
    asked,          \* history: frames each client has sent
    answered,       \* history: frames that were answered
    now             \* the clock

handlerVars == << srv, backlog, serving, frame, recv_counter, time, stats, reads >>
connVars == << conn, bounced, toServer, toClient >>
histVars == << got, asked, answered >>
vars == << handlerVars, connVars, histVars, now >>

Init ==
    /\ srv = "accept"
    /\ backlog = << >>
    /\ serving = {}
    /\ frame = << >>
    /\ recv_counter = 0
    /\ time = 0
    /\ stats = New
    /\ reads = << >>
    /\ conn = [c \in Conns |-> "none"]
    /\ bounced = {}
    /\ toServer = [c \in Conns |-> << >>]
    /\ toClient = [c \in Conns |-> << >>]
    /\ got = [c \in Conns |-> 0]
    /\ asked = [c \in Conns |-> 0]
    /\ answered = [c \in Conns |-> 0]
    /\ now = 0

Up == srv # "ended"

-----------------------------------------------------------------------------
(* Clients, network and clock. *)

Tick ==
    /\ now < MaxClock
    /\ now' = now + 1
    /\ UNCHANGED << handlerVars, connVars, histVars >>

\* The kernel completes the connection before it is accepted.
Connect(c) ==
    /\ Up /\ conn[c] = "none"
    /\ conn' = [conn EXCEPT ![c] = "open"]
    /\ backlog' = Append(backlog, c)
    /\ UNCHANGED << srv, serving, frame, recv_counter, time, stats, reads,
                    bounced, toServer, toClient, histVars, now >>

ClientSend(c) ==
    /\ conn[c] = "open" /\ asked[c] < MaxFrames
    /\ Len(toServer[c]) < Window
    /\ asked' = [asked EXCEPT ![c] = @ + 1]
    /\ toServer' = [toServer EXCEPT ![c] = Append(@, asked[c] + 1)]
    /\ UNCHANGED << handlerVars, conn, bounced, toClient, got, answered, now >>

ClientRead(c) ==
    /\ conn[c] = "open" /\ toClient[c] # << >>
    /\ got' = [got EXCEPT ![c] = @ + 1]
    /\ toClient' = [toClient EXCEPT ![c] = Tail(@)]
    /\ UNCHANGED << handlerVars, conn, bounced, toServer, asked, answered, now >>

\* The client closes the connection, or its process ends: with answers unread
\* the kernel resets it.
Leave(c) ==
    /\ conn[c] = "open"
    /\ conn' = [conn EXCEPT ![c] = IF toClient[c] = << >> THEN "left" ELSE "reset"]
    /\ toClient' = [toClient EXCEPT ![c] = << >>]
    /\ UNCHANGED << handlerVars, bounced, toServer, histVars, now >>

\* The reset for a frame that nobody could take.
Reset(c) ==
    /\ conn[c] = "left" /\ c \in bounced
    /\ conn' = [conn EXCEPT ![c] = "reset"]
    /\ UNCHANGED << handlerVars, bounced, toServer, toClient, histVars, now >>

-----------------------------------------------------------------------------
(* TCPServer::run. *)

\* Accept a connection and start its handler.
Accept ==
    /\ srv = "accept" /\ backlog # << >>
    /\ srv' = "serve"
    /\ serving' = {Head(backlog)}
    /\ backlog' = Tail(backlog)
    /\ recv_counter' = 0
    /\ time' = now
    /\ stats' = New
    /\ reads' = << >>
    /\ UNCHANGED << frame, connVars, histVars, now >>

\* Mutant: run waits for the next frame of a connection that is over.
DisconnectedWaits(c) ==
    /\ c \in serving /\ frame = << >>
    /\ conn[c] = "reset"
    /\ srv' = "accept"
    /\ serving' = {}
    /\ conn' = [conn EXCEPT ![c] = "closed"]
    /\ UNCHANGED << backlog, frame, recv_counter, time, stats, reads, bounced,
                    toServer, toClient, histVars, now >>

\* The stream ends, or reports the reset: the handler ends, and run goes on.
Disconnected(c) ==
    /\ c \in serving /\ frame = << >>
    /\ \/ conn[c] = "left" /\ toServer[c] = << >>
       \/ conn[c] = "reset"
    /\ srv' = "accept"
    /\ serving' = {}
    /\ conn' = [conn EXCEPT ![c] = "closed"]
    /\ UNCHANGED << backlog, frame, recv_counter, time, stats, reads, bounced,
                    toServer, toClient, histVars, now >>

-----------------------------------------------------------------------------
(* TCPServer::client_handler. *)

\* as_millis leaves out the fraction.
Millis(t) == t \div Milli

\* The samples are the times between frames; the first frame has none.
Sample(st, counter, t) == IF counter = 0 THEN st ELSE Update(st, t)

\* Read a frame.  The clock goes on between elapsed() and the now() that is kept
\* for the next frame; the first frame has only the latter.
Read(c) ==
    /\ c \in serving /\ frame = << >> /\ toServer[c] # << >>
    /\ frame' = << Head(toServer[c]) >>
    /\ toServer' = [toServer EXCEPT ![c] = Tail(@)]
    /\ stats' = Sample(stats, recv_counter, Millis(now - time))
    /\ now' \in IF recv_counter = 0 THEN {now} ELSE now .. MaxClock
    /\ time' = now'
    /\ reads' = Append(reads, [elapsed |-> now, kept |-> now'])
    /\ UNCHANGED << srv, backlog, serving, recv_counter, conn, bounced, toClient,
                    histVars >>

\* The handler has sent its answer for connection c.
Replied(c) ==
    /\ frame' = << >>
    /\ recv_counter' = recv_counter + 1
    /\ answered' = [answered EXCEPT ![c] = @ + 1]
    /\ UNCHANGED << srv, backlog, serving, time, stats, reads, conn, toServer,
                    got, asked, now >>

\* Mutant: the frame is kept after the answer.
ReplyKeepsFrame(c) ==
    /\ c \in serving /\ frame # << >>
    /\ conn[c] = "open" /\ Len(toClient[c]) < Window
    /\ toClient' = [toClient EXCEPT ![c] = Append(@, frame[1])]
    /\ recv_counter' = recv_counter + 1
    /\ answered' = [answered EXCEPT ![c] = @ + 1]
    /\ UNCHANGED << srv, backlog, serving, frame, time, stats, reads, conn,
                    bounced, toServer, got, asked, now >>

\* Answer the frame: wait for room; an answer to a client that left is lost.
Reply(c) ==
    /\ c \in serving /\ frame # << >>
    /\ \/ /\ conn[c] = "open" /\ Len(toClient[c]) < Window
          /\ toClient' = [toClient EXCEPT ![c] = Append(@, frame[1])]
          /\ UNCHANGED bounced
       \/ /\ conn[c] = "left"
          /\ bounced' = bounced \cup {c}
          /\ UNCHANGED toClient
    /\ Replied(c)

\* The connection was reset: the handler's error is unwrapped, the panic comes
\* out of the join handle, and its ? ends the server.
ReplyFails(c) ==
    /\ c \in serving /\ frame # << >>
    /\ conn[c] = "reset"
    /\ srv' = "ended"
    /\ serving' = {}
    /\ UNCHANGED << backlog, frame, recv_counter, time, stats, reads, connVars,
                    histVars, now >>

-----------------------------------------------------------------------------
Handler(c) == Read(c) \/ Reply(c) \/ ReplyFails(c) \/ Disconnected(c)

Next ==
    \/ Tick \/ Accept
    \/ \E c \in Conns :
         \/ Handler(c)
         \/ Connect(c) \/ ClientSend(c) \/ ClientRead(c) \/ Leave(c) \/ Reset(c)

Spec == Init /\ [][Next]_vars

\* The runtime polls run and its handler; nothing is assumed of the clients.
Fairness == WF_vars(Accept) /\ \A c \in Conns : WF_vars(Handler(c))

FairSpec == Spec /\ Fairness

-----------------------------------------------------------------------------
(* Properties. *)

\* The clock values of a frame.
Stamps == [elapsed : Nat, kept : Nat]

\* Every variable has its type, and the streams their capacity.
TypeOK ==
    /\ srv \in {"accept", "serve", "ended"}
    /\ backlog \in Seq(Conns)
    /\ serving \subseteq Conns /\ \A c, d \in serving : c = d
    /\ srv = "serve" <=> serving # {}
    /\ frame \in Seq(Nat) /\ Len(frame) <= 1
    /\ recv_counter \in Nat
    /\ time \in 0 .. now
    /\ reads \in Seq(Stamps)
    /\ conn \in [Conns -> {"none", "open", "left", "reset", "closed"}]
    /\ bounced \subseteq Conns
    /\ toServer \in [Conns -> Seq(Nat)]
    /\ toClient \in [Conns -> Seq(Nat)]
    /\ \A c \in Conns : /\ Len(toServer[c]) <= Window
                        /\ Len(toClient[c]) <= Window
    /\ got \in [Conns -> Nat]
    /\ asked \in [Conns -> 0 .. MaxFrames]
    /\ answered \in [Conns -> Nat]
    /\ now \in 0 .. MaxClock

\* Whatever the client does, the answers on their way to it are those to the
\* frames that follow the ones whose answers it has read, in order.
EchoInOrder ==
    \A c \in Conns : \A i \in DOMAIN toClient[c] : toClient[c][i] = got[c] + i

\* The whole milliseconds between two frames, of the clock values read at them.
Gap(a, b) == Millis(b.elapsed - a.kept)

\* Those between the frames of the connection that is served.
Gaps == [i \in 1 .. Len(reads) - 1 |-> Gap(reads[i], reads[i + 1])]

\* The statistics of a handler are those of the times between its own frames:
\* the running update gives the mean and the variance that they define, and
\* nothing is left of an earlier connection.
StatsOfGaps == Describes(stats, Gaps)

\* The echo service whose clients are the connections.
Echo == INSTANCE EchoService WITH Clients <- Conns, up <- Up

\* The serial accept loop implements the echo service.
KeepsEcho == Echo!Spec

\* If each client that is served leaves some time, each connection in the
\* backlog is served, unless the server has ended.
Served ==
    (\A d \in Conns : d \in serving ~> (conn[d] # "open" \/ ~Up))
        => \A c \in Conns :
             (\E i \in DOMAIN backlog : backlog[i] = c) ~> (c \in serving \/ ~Up)
=============================================================================
