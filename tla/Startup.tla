------------------------------- MODULE Startup -------------------------------
(***************************************************************************)
(* How the ping tool starts: several of its processes on one host, from    *)
(* the command line to the running client or server.  They share the ports *)
(* of the host and the log files.                                          *)
(*                                                                         *)
(*   client    finds its source address, makes and binds its socket,       *)
(*             connects it, creates its log file, and only then finds out  *)
(*             whether it can run (the constructors of udp.rs, tcp.rs and  *)
(*             icmp.rs, and the first lines of their run)                  *)
(*   server    makes a socket and binds it                                 *)
(*                                                                         *)
(* A process that fails closes its socket, and leaves its file.  It may be *)
(* started again, with the same arguments.                                 *)
(***************************************************************************)
EXTENDS Naturals, Sequences, FiniteSets

CONSTANTS
    Procs,      \* processes
    Configs,    \* command lines
    Files       \* names of log files

\* Addresses of the host, the wildcard among them, and of another host.
Addr == {"any4", "host4", "host6", "far4", "far6"}
Family(a) == IF a \in {"host6", "far6"} THEN 6 ELSE 4
LocalAddr == {"any4", "host4", "host6"}

ASSUME StartupAssumption ==
    \A g \in Configs :
        /\ g.mode \in {"client", "server"}
        /\ g.proto \in {"udp", "tcp", "icmp"}
        /\ g.src \subseteq Addr /\ Cardinality(g.src) <= 1
        /\ g.iface \in BOOLEAN
        /\ g.dst \in Addr
        /\ g.port \in Nat /\ g.dport \in Nat \ {0}
        /\ g.file \subseteq Files /\ Cardinality(g.file) <= 1

VARIABLES
    cfg,        \* the command line of each process
    iface,      \* the first address of the interface it may name, or {}
    pc,         \* where each process is
    src,        \* the source address of each, {} or {address}
    sock,       \* the bound socket of each, {} or {socket}
    exists,     \* log files that exist
    header,     \* history: the processes that wrote a header to each file
    connected   \* history: clients that have been connected

vars == << cfg, iface, pc, src, sock, exists, header, connected >>

Ended == {"usage", "failed", "refused", "ended"}

Init ==
    /\ cfg \in [Procs -> Configs]
    /\ iface \in {{}, {"host4"}, {"host6"}}
    /\ pc = [p \in Procs |-> "parse"]
    /\ src = [p \in Procs |-> {}]
    /\ sock = [p \in Procs |-> {}]
    /\ exists = {}
    /\ header = [f \in Files |-> << >>]
    /\ connected = {}

To(p, l) == pc' = [pc EXCEPT ![p] = l]

\* The process ends, by an error, a panic or otherwise; its socket is closed.
Quit(p, l) ==
    /\ To(p, l)
    /\ sock' = [sock EXCEPT ![p] = {}]

Client(p) == cfg[p].mode = "client"

-----------------------------------------------------------------------------
\* Opts::parse, and the choice of main: --src-addr conflicts with --iface, and
\* there is no icmp server.
Parse(p) ==
    /\ pc[p] = "parse"
    /\ IF cfg[p].src # {} /\ cfg[p].iface THEN To(p, "usage")
       ELSE IF Client(p) THEN To(p, "source")
       ELSE IF cfg[p].proto = "icmp" THEN To(p, "failed")
       ELSE To(p, "socket")
    /\ UNCHANGED << cfg, iface, src, sock, exists, header, connected >>

\* interface_to_ipaddr: the first address of the interface, if it has any.
InterfaceAddr(p) == IF cfg[p].iface THEN iface ELSE {}

\* The address that was given, or the first one of the interface; when neither
\* is given, the unwrap panics.
Source(p) ==
    /\ pc[p] = "source"
    /\ src' = [src EXCEPT ![p] = IF cfg[p].src # {} THEN cfg[p].src
                                 ELSE InterfaceAddr(p)]
    /\ To(p, IF src'[p] = {} THEN "failed" ELSE "socket")
    /\ UNCHANGED << cfg, iface, sock, exists, header, connected >>

\* What the socket of p is bound to: nothing for icmp, and a port of its own
\* when the port is 0.
Bindings(p) ==
    {[proto |-> cfg[p].proto, addr |-> a, port |-> n, reuse |-> FALSE] :
        a \in IF Client(p) THEN src[p] ELSE {cfg[p].dst},
        n \in (IF Client(p) THEN {cfg[p].port} ELSE {cfg[p].dport}) \ {0}}

Meet(a, b) == a = b \/ (Family(a) = Family(b) /\ "any4" \in {a, b})

\* Two sockets would share a port.  The kernel lets UDP sockets do so if both
\* have SO_REUSEADDR when the second one is bound.
Clash(b, d) == b.proto = d.proto /\ b.port = d.port /\ Meet(b.addr, d.addr)
Shares(b, d) == b.proto = "udp" /\ b.reuse /\ d.reuse

\* bind of a socket of family f: the address is one of the family, and the port
\* is free or may be shared.
CanBind(f, b) ==
    /\ Family(b.addr) = f
    /\ \A q \in Procs : \A d \in sock[q] : Clash(b, d) => Shares(b, d)

\* The family of a socket that UDPSocket::new or TCPSocket::new makes for a
\* binding: that of its address.
FamilyFor(b) == Family(b.addr)

\* The socket that UDPServer::run makes for each new client: it is marked before
\* it is bound to the server's own address.
TaskSocket(b) == [b EXCEPT !.reuse = TRUE]

\* Its family: UDPSocket::new is given no address.
TaskFamily == 4

\* SO_REUSEADDR as UDPServer::new leaves it; bind has come before.
AfterBind(p, b) ==
    [b EXCEPT !.reuse = cfg[p].mode = "server" /\ cfg[p].proto = "udp"]

\* Mutant: the option is set before the socket is bound.
OpenSocketReuseFirst(p) ==
    /\ pc[p] = "socket"
    /\ LET B == IF cfg[p].proto = "icmp" THEN {} ELSE
                {AfterBind(p, b) : b \in Bindings(p)}
       IN  /\ \A b \in B : CanBind(FamilyFor(b), b)
           /\ sock' = [sock EXCEPT ![p] = B]
           /\ To(p, IF Client(p) THEN "connect" ELSE "running")
    /\ UNCHANGED << cfg, iface, src, exists, header, connected >>

\* Mutant: the option is never set.
OpenSocketNoReuse(p) ==
    /\ pc[p] = "socket"
    /\ LET B == IF cfg[p].proto = "icmp" THEN {} ELSE Bindings(p)
       IN  /\ \A b \in B : b.addr \in LocalAddr /\ CanBind(FamilyFor(b), b)
           /\ sock' = [sock EXCEPT ![p] = B]
           /\ To(p, IF Client(p) THEN "connect" ELSE "running")
    /\ UNCHANGED << cfg, iface, src, exists, header, connected >>

\* Make the socket, bind it, and set its options; a server then runs, a tcp one
\* after listen.
OpenSocket(p) ==
    /\ pc[p] = "socket"
    /\ LET B == IF cfg[p].proto = "icmp" THEN {} ELSE Bindings(p)
       IN  /\ \A b \in B : b.addr \in LocalAddr /\ CanBind(FamilyFor(b), b)
           /\ sock' = [sock EXCEPT ![p] = {AfterBind(p, b) : b \in B}]
           /\ To(p, IF Client(p) THEN "connect" ELSE "running")
    /\ UNCHANGED << cfg, iface, src, exists, header, connected >>

\* A call on the new socket fails: the port is in use, the address is not of
\* this host, the interface is gone, the congestion control is unknown, ...
OpenSocketFails(p) ==
    /\ pc[p] = "socket"
    /\ Quit(p, "failed")
    /\ UNCHANGED << cfg, iface, src, exists, header, connected >>

\* A tcp connection to this host needs a server that listens.
Reachable(p) ==
    cfg[p].proto = "tcp" /\ cfg[p].dst \in LocalAddr =>
        \E q \in Procs : \E d \in sock[q] :
            /\ cfg[q].mode = "server"
            /\ d.proto = "tcp" /\ d.port = cfg[p].dport
            /\ Meet(d.addr, cfg[p].dst)

\* Connect the socket: an IPv4 socket has no IPv6 destination.
Connect(p) ==
    /\ pc[p] = "connect"
    /\ \A a \in src[p] : Family(a) = 4 => Family(cfg[p].dst) = 4
    /\ Reachable(p)
    /\ connected' = connected \cup {p}
    /\ To(p, "log")
    /\ UNCHANGED << cfg, iface, src, sock, exists, header >>

ConnectFails(p) ==
    /\ pc[p] = "connect"
    /\ Quit(p, "failed")
    /\ UNCHANGED << cfg, iface, src, exists, header, connected >>

\* Mutant: the file is created before the socket is connected.
CreateLogEarly(p) ==
    /\ pc[p] = "connect"
    /\ cfg[p].file \cap exists = {}
    /\ exists' = exists \cup cfg[p].file
    /\ UNCHANGED << cfg, iface, pc, src, sock, header, connected >>

\* Logger::new, if there is a file: it must be new, and it gets its header.
CreateLog(p) ==
    /\ pc[p] = "log"
    /\ cfg[p].file \cap exists = {}
    /\ exists' = exists \cup cfg[p].file
    /\ header' = [f \in Files |-> IF f \in cfg[p].file THEN Append(header[f], p)
                                  ELSE header[f]]
    /\ To(p, "run")
    /\ UNCHANGED << cfg, iface, src, sock, connected >>

\* The file exists, or cannot be created, or cannot be written.
CreateLogFails(p) ==
    /\ pc[p] = "log" /\ cfg[p].file # {}
    /\ exists' \in {exists, exists \cup cfg[p].file}
    /\ Quit(p, "failed")
    /\ UNCHANGED << cfg, iface, src, header, connected >>

\* The first lines of a client's run: "IPv6 is not supported yet".
Run(p) ==
    /\ pc[p] = "run"
    /\ IF \E a \in src[p] \cup {cfg[p].dst} : Family(a) = 6
       THEN Quit(p, "refused")
       ELSE To(p, "running") /\ UNCHANGED sock
    /\ UNCHANGED << cfg, iface, src, exists, header, connected >>

\* A client or server that runs ends, and a process may be killed before.
End(p) ==
    /\ pc[p] \notin Ended
    /\ Quit(p, "ended")
    /\ UNCHANGED << cfg, iface, src, exists, header, connected >>

\* The user starts it again.
Restart(p) ==
    /\ pc[p] \in Ended
    /\ To(p, "parse")
    /\ src' = [src EXCEPT ![p] = {}]
    /\ UNCHANGED << cfg, iface, sock, exists, header, connected >>

-----------------------------------------------------------------------------
Step(p) ==
    \/ Parse(p) \/ Source(p) \/ OpenSocket(p) \/ OpenSocketFails(p)
    \/ Connect(p) \/ ConnectFails(p) \/ CreateLog(p) \/ CreateLogFails(p)
    \/ Run(p) \/ End(p) \/ Restart(p)

Next == \E p \in Procs : Step(p)

Spec == Init /\ [][Next]_vars

-----------------------------------------------------------------------------
(* Properties. *)

Socket == [proto : {"udp", "tcp"}, addr : LocalAddr, port : Nat \ {0},
           reuse : BOOLEAN]

\* Every variable has its type; only a process that has not ended has a socket.
TypeOK ==
    /\ cfg \in [Procs -> Configs]
    /\ iface \in {{}, {"host4"}, {"host6"}}
    /\ pc \in [Procs -> Ended \cup {"parse", "source", "socket", "connect",
                                    "log", "run", "running"}]
    /\ src \in [Procs -> SUBSET Addr]
    /\ sock \in [Procs -> SUBSET Socket]
    /\ \A p \in Procs :
         sock[p] # {} => pc[p] \in {"connect", "log", "run", "running"}
    /\ exists \subseteq Files
    /\ header \in [Files -> Seq(Procs)]
    /\ connected \subseteq Procs

\* No two processes are bound to one port, although each udp server marks its
\* own port as shared.
PortExclusive ==
    \A p, q \in Procs : p # q =>
        \A b \in sock[p], d \in sock[q] : ~Clash(b, d)

\* A udp server that runs can bind a further socket to its port for each client,
\* as main and the tasks have marked theirs, exactly if its address is an IPv4
\* one: on an IPv6 address it starts, and no client ever gets a socket.
TaskSocketFits ==
    \A p \in Procs : \A b \in sock[p] :
        pc[p] = "running" /\ cfg[p].mode = "server" /\ cfg[p].proto = "udp"
            => (CanBind(TaskFamily, TaskSocket(b)) <=> Family(b.addr) = 4)

\* No run writes to the log of another, whenever they were started.
OneWriter == \A f \in Files : Len(header[f]) <= 1

\* A client that could not connect leaves no file that would keep its user from
\* trying again.
FileNeedsConnection ==
    \A f \in exists : \E p \in connected : f \in cfg[p].file
=============================================================================
