---------------------------- MODULE StartupProofs ----------------------------
(***************************************************************************)
(* The properties of Startup, for any processes and command lines, and of  *)
(* ServerKeys, for any servers.                                            *)
(***************************************************************************)
EXTENDS Startup, ServerKeys, TLAPS

USE StartupAssumption DEF To, Quit, Client

\* A binding has no SO_REUSEADDR when it is made, and is one of this process.
LEMMA BindingsType ==
    ASSUME TypeOK, NEW p \in Procs, NEW b \in Bindings(p), b.addr \in LocalAddr,
           cfg[p].proto # "icmp"
    PROVE  /\ b \in Socket /\ ~b.reuse /\ b.proto = cfg[p].proto
           /\ AfterBind(p, b) \in Socket
           /\ AfterBind(p, b).reuse =
                (cfg[p].mode = "server" /\ cfg[p].proto = "udp")
           /\ AfterBind(p, b).proto = b.proto
           /\ AfterBind(p, b).port = b.port
           /\ AfterBind(p, b).addr = b.addr
<1>1. PICK a \in LocalAddr, n \in Nat \ {0} :
        b = [proto |-> cfg[p].proto, addr |-> a, port |-> n, reuse |-> FALSE]
    BY DEF Bindings, TypeOK
<1>2. cfg[p].proto \in {"udp", "tcp"}
    BY DEF TypeOK
<1>3. b \in Socket
    BY <1>1, <1>2 DEF Socket
<1>4. /\ AfterBind(p, b) \in Socket
      /\ AfterBind(p, b).reuse =
            (cfg[p].mode = "server" /\ cfg[p].proto = "udp")
      /\ AfterBind(p, b).proto = b.proto
      /\ AfterBind(p, b).port = b.port
      /\ AfterBind(p, b).addr = b.addr
    BY <1>3 DEF AfterBind, Socket
<1> QED BY <1>1, <1>3, <1>4

\* The header that a client writes.
LEMMA HeaderType ==
    ASSUME TypeOK, NEW p \in Procs,
           header' = [f \in Files |-> IF f \in cfg[p].file
                                      THEN Append(header[f], p) ELSE header[f]]
    PROVE  header' \in [Files -> Seq(Procs)]
<1>1. \A f \in Files : header[f] \in Seq(Procs)
    BY DEF TypeOK
<1>2. \A f \in Files : Append(header[f], p) \in Seq(Procs)
    BY <1>1
<1> QED BY <1>1, <1>2

\* The types hold at first.
LEMMA InitTypes == Init => TypeOK
BY DEF Init, TypeOK, Ended, LocalAddr, Socket

\* TypeOK is inductive.
LEMMA StepTypes ==
    ASSUME TypeOK, [Next]_vars
    PROVE  TypeOK'
<1>1. CASE UNCHANGED vars
    BY <1>1 DEF TypeOK, vars
<1>2. ASSUME NEW p \in Procs, Parse(p) PROVE TypeOK'
    BY <1>2 DEF TypeOK, Parse, Ended
<1>3. ASSUME NEW p \in Procs, Source(p) PROVE TypeOK'
  <2>1. src' \in [Procs -> SUBSET Addr]
    BY <1>3 DEF TypeOK, Source, InterfaceAddr, Addr
  <2> QED BY <1>3, <2>1 DEF TypeOK, Source, Ended
<1>4. ASSUME NEW p \in Procs, OpenSocket(p) PROVE TypeOK'
  <2>1. sock' \in [Procs -> SUBSET Socket]
    BY <1>4, BindingsType DEF TypeOK, OpenSocket
  <2> QED BY <1>4, <2>1 DEF TypeOK, OpenSocket, Ended
<1>5. ASSUME NEW p \in Procs, OpenSocketFails(p) PROVE TypeOK'
    BY <1>5 DEF TypeOK, OpenSocketFails, Ended
<1>6. ASSUME NEW p \in Procs, Connect(p) PROVE TypeOK'
    BY <1>6 DEF TypeOK, Connect, Ended
<1>7. ASSUME NEW p \in Procs, ConnectFails(p) PROVE TypeOK'
    BY <1>7 DEF TypeOK, ConnectFails, Ended
<1>8. ASSUME NEW p \in Procs, CreateLog(p) PROVE TypeOK'
  <2>1. header' \in [Files -> Seq(Procs)]
    BY <1>8, HeaderType DEF CreateLog
  <2> QED BY <1>8, <2>1 DEF TypeOK, CreateLog, Ended
<1>9. ASSUME NEW p \in Procs, CreateLogFails(p) PROVE TypeOK'
    BY <1>9 DEF TypeOK, CreateLogFails, Ended
<1>10. ASSUME NEW p \in Procs, Run(p) PROVE TypeOK'
    BY <1>10 DEF TypeOK, Run, Ended
<1>11. ASSUME NEW p \in Procs, End(p) PROVE TypeOK'
    BY <1>11 DEF TypeOK, End, Ended
<1>12. ASSUME NEW p \in Procs, Restart(p) PROVE TypeOK'
    BY <1>12 DEF TypeOK, Restart, Ended
<1> QED BY <1>1, <1>2, <1>3, <1>4, <1>5, <1>6, <1>7, <1>8, <1>9, <1>10, <1>11,
           <1>12 DEF Next, Step

\* Every variable keeps its type, and a process that has ended has no socket.
THEOREM TypeInvariance == Spec => []TypeOK
BY InitTypes, StepTypes, PTL DEF Spec

-----------------------------------------------------------------------------
(* Ports. *)

\* The sockets of a udp server allow others on their port; no other does.
MarkedBy(p, b) ==
    /\ b.proto = cfg[p].proto
    /\ b.reuse = (cfg[p].mode = "server" /\ cfg[p].proto = "udp")

Marked == \A p \in Procs : \A b \in sock[p] : MarkedBy(p, b)

PortInv == PortExclusive /\ Marked

\* Only OpenSocket gives a process a socket.
LEMMA SocketsClose ==
    ASSUME TypeOK, NEW p \in Procs, Step(p)
    PROVE  /\ cfg' = cfg
           /\ \A q \in Procs \ {p} : sock'[q] = sock[q]
           /\ OpenSocket(p) \/ sock'[p] \subseteq sock[p]
BY DEF Step, TypeOK, Parse, Source, OpenSocket, OpenSocketFails, Connect,
       ConnectFails, CreateLog, CreateLogFails, Run, End, Restart

\* A socket that can be bound without SO_REUSEADDR shares its port with none.
LEMMA NewSocketAlone ==
    ASSUME TypeOK, NEW p \in Procs, OpenSocket(p)
    PROVE  \A b \in sock'[p] :
             /\ MarkedBy(p, b)
             /\ \A q \in Procs \ {p} : \A d \in sock[q] :
                  ~Clash(b, d) /\ ~Clash(d, b)
<1> SUFFICES ASSUME NEW c \in sock'[p]
             PROVE  /\ MarkedBy(p, c)
                    /\ \A q \in Procs \ {p} : \A d \in sock[q] :
                         ~Clash(c, d) /\ ~Clash(d, c)
    OBVIOUS
<1>1. PICK b \in Bindings(p) :
        /\ cfg[p].proto # "icmp"
        /\ c = AfterBind(p, b) /\ b.addr \in LocalAddr /\ CanBind(FamilyFor(b), b)
    BY DEF OpenSocket, TypeOK
<1>2. /\ ~b.reuse /\ MarkedBy(p, c)
      /\ c.proto = b.proto /\ c.port = b.port /\ c.addr = b.addr
    BY <1>1, BindingsType DEF MarkedBy
<1>3. \A q \in Procs : \A d \in sock[q] : ~Clash(b, d)
    BY <1>1, <1>2 DEF CanBind, Shares
<1> QED BY <1>2, <1>3 DEF Clash, Meet

\* PortInv is inductive, given the types.
LEMMA StepPorts ==
    ASSUME TypeOK, PortInv, [Next]_vars
    PROVE  PortInv'
<1>1. CASE UNCHANGED vars
    BY <1>1 DEF PortInv, PortExclusive, Marked, MarkedBy, Clash, Meet,
                vars
<1>2. ASSUME NEW p \in Procs, Step(p) PROVE PortInv'
  <2>1. /\ cfg' = cfg
        /\ \A q \in Procs \ {p} : sock'[q] = sock[q]
        /\ OpenSocket(p) \/ sock'[p] \subseteq sock[p]
    BY <1>2, SocketsClose
  <2>2. CASE sock'[p] \subseteq sock[p]
    BY <2>1, <2>2 DEF PortInv, PortExclusive, Marked, MarkedBy
  <2>3. CASE OpenSocket(p)
    BY <2>1, <2>3, NewSocketAlone DEF PortInv, PortExclusive, Marked, MarkedBy
  <2> QED BY <2>1, <2>2, <2>3
<1> QED BY <1>1, <1>2 DEF Next

\* So both always hold.
LEMMA PortsInductive == Spec => [](TypeOK /\ PortInv)
<1>1. Init => PortInv
    BY DEF Init, PortInv, PortExclusive, Marked
<1> QED BY <1>1, InitTypes, StepTypes, StepPorts, PTL DEF Spec

\* No two processes are bound to one port, whichever were started in which
\* order, because bind comes before SO_REUSEADDR.
THEOREM PortsAreExclusive == Spec => []PortExclusive
BY PortsInductive, PTL DEF PortInv

\* A running udp server can always bind one more socket to its port on an IPv4
\* address, and never on an IPv6 one.
THEOREM TaskSocketFitsOnIpv4 == Spec => []TaskSocketFits
<1>1. ASSUME TypeOK, PortInv PROVE TaskSocketFits
  <2>1. ASSUME NEW p \in Procs, NEW b \in sock[p],
               cfg[p].mode = "server", cfg[p].proto = "udp",
               NEW q \in Procs, NEW d \in sock[q], Clash(TaskSocket(b), d)
        PROVE  Shares(TaskSocket(b), d)
    <3>1. b \in Socket /\ d \in Socket
      BY <1>1 DEF TypeOK
    <3>2. Clash(b, d)
      BY <2>1, <3>1 DEF Clash, Socket, TaskSocket
    <3>3. p = q
      BY <1>1, <2>1, <3>2 DEF PortInv, PortExclusive
    <3>4. b.proto = "udp" /\ d.reuse
      BY <1>1, <2>1, <3>3 DEF PortInv, Marked, MarkedBy
    <3> QED BY <3>1, <3>4 DEF Shares, Socket, TaskSocket
  <2>2. \A p \in Procs : \A b \in sock[p] : TaskSocket(b).addr = b.addr
    BY <1>1 DEF TypeOK, Socket, TaskSocket
  <2> QED BY <2>1, <2>2 DEF TaskSocketFits, CanBind, TaskFamily
<1> QED BY <1>1, PortsInductive, PTL

-----------------------------------------------------------------------------
(* Log files. *)

\* A client that comes to its log has been connected, and what has a header
\* exists.
LogInv ==
    /\ \A p \in Procs : pc[p] = "log" => p \in connected
    /\ \A f \in Files : f \notin exists => header[f] = << >>
    /\ OneWriter
    /\ FileNeedsConnection

\* LogInv is inductive, given the types.
LEMMA StepLogs ==
    ASSUME TypeOK, LogInv, [Next]_vars
    PROVE  LogInv'
<1> USE DEF LogInv, OneWriter, FileNeedsConnection
<1>1. CASE UNCHANGED vars
    BY <1>1 DEF vars
<1>2. ASSUME NEW p \in Procs, CreateLog(p) PROVE LogInv'
  <2>1. \A f \in Files : f \in cfg[p].file => Len(Append(header[f], p)) = 1
    BY <1>2 DEF CreateLog
  <2>2. p \in connected
    BY <1>2 DEF CreateLog
  <2> QED BY <1>2, <2>1, <2>2 DEF CreateLog, TypeOK
<1>3. ASSUME NEW p \in Procs, CreateLogFails(p) PROVE LogInv'
  <2>1. p \in connected
    BY <1>3 DEF CreateLogFails
  <2> QED BY <1>3, <2>1 DEF CreateLogFails, TypeOK
<1>4. ASSUME NEW p \in Procs,
             Parse(p) \/ Source(p) \/ OpenSocket(p) \/ OpenSocketFails(p)
               \/ Connect(p) \/ ConnectFails(p) \/ Run(p) \/ End(p) \/ Restart(p)
      PROVE LogInv'
  <2>1. /\ exists' = exists /\ header' = header /\ cfg' = cfg
        /\ connected \subseteq connected'
    BY <1>4 DEF Parse, Source, OpenSocket, OpenSocketFails, Connect,
                ConnectFails, Run, End, Restart
  <2>2. \A q \in Procs : pc'[q] = "log" => q \in connected'
    BY <1>4 DEF Parse, Source, OpenSocket, OpenSocketFails, Connect,
                ConnectFails, Run, End, Restart, TypeOK
  <2> QED BY <2>1, <2>2
<1> QED BY <1>1, <1>2, <1>3, <1>4 DEF Next, Step

\* So it always holds.
LEMMA LogsInductive == Spec => []LogInv
<1>1. Init => LogInv
    BY DEF Init, LogInv, OneWriter, FileNeedsConnection
<1> QED BY <1>1, TypeInvariance, StepLogs, PTL DEF Spec

\* A log file has the header of one run.
THEOREM OneWriterAlways == Spec => []OneWriter
BY LogsInductive, PTL DEF LogInv

\* A file is made only by a client that has been connected.
THEOREM FilesNeedConnections == Spec => []FileNeedsConnection
BY LogsInductive, PTL DEF LogInv

-----------------------------------------------------------------------------
(* The key files of configure_server: ServerKeys, for any number of servers  *)
(* and pairs.                                                                *)
(*                                                                           *)
(* A key on disk is whole only when its certificate is there, because the    *)
(* certificate is written first: as long as servers configure themselves one *)
(* at a time, each of the places where one may be killed leaves a directory  *)
(* from which the next one reads a pair, or makes a new one.                 *)

\* The pair that a server has made is its own, whatever the others do.
MadePair ==
    \A p \in Servers :
        /\ phase[p] = "readKey" => own[p].cert # Absent
        /\ phase[p] \in {"truncCert", "writeCert", "truncKey", "writeKey"} =>
             own[p].cert = own[p].key /\ own[p].cert \in Pairs

\* Servers configure themselves one at a time.
Solo ==
    \A p, q \in Servers :
        phase[p] \in Configuring /\ phase[q] \in Configuring => p = q

\* What the directory holds between two servers.
Disk ==
    /\ cert = Absent => key = Absent
    /\ key \in Pairs => cert = key
    /\ key = Torn => keyTorn \/ \E p \in Servers : phase[p] = "writeKey"

\* What server p knows of the directory.
Knows(p) ==
    /\ phase[p] = "readKey" => own[p].cert = cert
    /\ phase[p] \in {"generate", "truncCert", "writeCert", "truncKey"} =>
         key = Absent
    /\ phase[p] = "writeCert" => cert = Torn
    /\ phase[p] \in {"truncKey", "writeKey"} => cert = own[p].cert
    /\ phase[p] = "writeKey" => key = Torn
    /\ phase[p] \in {"config", "running"} =>
         own[p] = [cert |-> cert, key |-> key]
    /\ phase[p] = "running" => key \in Pairs
    /\ phase[p] = "failed" => keyTorn

Undisturbed == Solo /\ Disk /\ \A p \in Servers : Knows(p)

KeysInv == KeysTypeOK /\ MadePair /\ (~overlapped => Undisturbed)

USE ServerKeysAssumption

\* A directory that is empty or holds a pair is one.
LEMMA KeysInitInv == KeysInit => KeysInv
<1> SUFFICES ASSUME KeysInit PROVE KeysInv
    OBVIOUS
<1>1. cert \in Content /\ key \in Content /\ made \in 0 .. MaxPairs
    BY DEF KeysInit, Content, Pairs
<1>2. KeysTypeOK /\ MadePair
    BY <1>1 DEF KeysInit, KeysTypeOK, MadePair, NoPair, Content,
       Down, Configuring
<1>3. Undisturbed
    BY <1>1 DEF KeysInit, Undisturbed, Solo, Disk, Knows, Configuring,
       Pairs, Content
<1> QED BY <1>2, <1>3 DEF KeysInv

\* The type invariant and the pairs that servers have made.
LEMMA KeysStepTypes ==
    ASSUME KeysTypeOK, MadePair, [KeysNext]_keysVars
    PROVE  KeysTypeOK' /\ MadePair'
<1>1. CASE UNCHANGED keysVars
    BY <1>1 DEF KeysTypeOK, MadePair, keysVars
<1>2. ASSUME NEW p \in Servers, Start(p)
       PROVE KeysTypeOK' /\ MadePair'
    BY <1>2 DEF KeysTypeOK, MadePair, Start, GoTo, NoPair,
       Content, Configuring, Down
<1>3. ASSUME NEW p \in Servers, Kill(p)
       PROVE KeysTypeOK' /\ MadePair'
    BY <1>3 DEF KeysTypeOK, MadePair, Kill, GoTo, Configuring,
       Down
<1>4. ASSUME NEW p \in Servers, ReadCert(p)
       PROVE KeysTypeOK' /\ MadePair'
  <2>1. CASE cert = Absent
    BY <1>4, <2>1 DEF KeysTypeOK, MadePair, ReadCert, GoTo,
       Configuring, Down
  <2>2. CASE cert # Absent
    BY <1>4, <2>2 DEF KeysTypeOK, MadePair, ReadCert, GoTo,
       Configuring, Down
  <2> QED BY <2>1, <2>2
<1>5. ASSUME NEW p \in Servers, ReadKey(p)
       PROVE KeysTypeOK' /\ MadePair'
  <2>1. CASE key = Absent
    BY <1>5, <2>1 DEF KeysTypeOK, MadePair, ReadKey, GoTo,
       Configuring, Down
  <2>2. CASE key # Absent
    <3>1. /\ phase' = [phase EXCEPT ![p] = "config"]
          /\ own' = [own EXCEPT ![p].key = key]
          /\ UNCHANGED << cert, key, made, overlapped, keyTorn >>
      BY <1>5, <2>2 DEF ReadKey, GoTo
    <3>2. own[p].cert # Absent /\ own'[p].cert # Absent /\ own'[p].key # Absent
      BY <1>5, <2>2, <3>1 DEF KeysTypeOK, MadePair, ReadKey
    <3>3. KeysTypeOK'
      BY <3>1, <3>2 DEF KeysTypeOK, Configuring
    <3>4. MadePair'
      BY <3>1 DEF KeysTypeOK, MadePair
    <3> QED BY <3>3, <3>4
  <2> QED BY <2>1, <2>2
<1>6. ASSUME NEW p \in Servers, Generate(p)
       PROVE KeysTypeOK' /\ MadePair'
    BY <1>6 DEF KeysTypeOK, MadePair, Generate, GoTo,
       Configuring, Down, Content, Pairs
<1>7. ASSUME NEW p \in Servers, TruncCert(p)
       PROVE KeysTypeOK' /\ MadePair'
    BY <1>7 DEF KeysTypeOK, MadePair, TruncCert, GoTo,
       Configuring, Down, Content
<1>8. ASSUME NEW p \in Servers, WriteCert(p)
       PROVE KeysTypeOK' /\ MadePair'
    BY <1>8 DEF KeysTypeOK, MadePair, WriteCert, Written,
       GoTo, Configuring, Down, Content
<1>9. ASSUME NEW p \in Servers, TruncKey(p)
       PROVE KeysTypeOK' /\ MadePair'
    BY <1>9 DEF KeysTypeOK, MadePair, TruncKey, GoTo,
       Configuring, Down, Content
<1>10. ASSUME NEW p \in Servers, WriteKey(p)
       PROVE KeysTypeOK' /\ MadePair'
    BY <1>10 DEF KeysTypeOK, MadePair, WriteKey, Written,
       GoTo, Configuring, Down, Content, Pairs
<1>11. ASSUME NEW p \in Servers, Config(p)
       PROVE KeysTypeOK' /\ MadePair'
    BY <1>11 DEF KeysTypeOK, MadePair, Config, GoTo,
       Configuring, Down
<1> QED BY <1>1, <1>2, <1>3, <1>4, <1>5, <1>6, <1>7, <1>8, <1>9, <1>10,
   <1>11 DEF KeysNext, Configure

\* A step of a server that is alone.
LEMMA KeysStepUndisturbed ==
    ASSUME KeysTypeOK, MadePair, Undisturbed,
           [KeysNext]_keysVars, ~overlapped'
    PROVE  Undisturbed'
<1> USE DEF Undisturbed, Solo, Disk, Knows, Configuring, GoTo
<1>1. CASE UNCHANGED keysVars
    BY <1>1 DEF keysVars
<1>2. ASSUME NEW p \in Servers, Start(p) PROVE Undisturbed'
    BY <1>2 DEF Start, Down, KeysTypeOK
<1>3. ASSUME NEW p \in Servers, Kill(p) PROVE Undisturbed'
    BY <1>3 DEF Kill, Down, KeysTypeOK
<1>4. ASSUME NEW p \in Servers, ReadCert(p) PROVE Undisturbed'
    BY <1>4 DEF ReadCert, KeysTypeOK
<1>5. ASSUME NEW p \in Servers, ReadKey(p) PROVE Undisturbed'
    BY <1>5 DEF ReadKey, KeysTypeOK
<1>6. ASSUME NEW p \in Servers, Generate(p) PROVE Undisturbed'
    BY <1>6 DEF Generate, KeysTypeOK
<1>7. ASSUME NEW p \in Servers, TruncCert(p) PROVE Undisturbed'
    BY <1>7 DEF TruncCert, KeysTypeOK, Pairs
<1>8. ASSUME NEW p \in Servers, WriteCert(p) PROVE Undisturbed'
    BY <1>8 DEF WriteCert, Written, KeysTypeOK, MadePair, Pairs
<1>9. ASSUME NEW p \in Servers, TruncKey(p) PROVE Undisturbed'
    BY <1>9 DEF TruncKey, KeysTypeOK, MadePair, Pairs
<1>10. ASSUME NEW p \in Servers, WriteKey(p) PROVE Undisturbed'
    BY <1>10 DEF WriteKey, Written, KeysTypeOK, MadePair, Pairs
<1>11. ASSUME NEW p \in Servers, Config(p) PROVE Undisturbed'
    BY <1>11 DEF Config, KeysTypeOK, Content, Pairs
<1> QED BY <1>1, <1>2, <1>3, <1>4, <1>5, <1>6, <1>7, <1>8, <1>9, <1>10,
   <1>11 DEF KeysNext, Configure

\* What has overlapped stays so.
LEMMA OverlapStays == [KeysNext]_keysVars /\ overlapped => overlapped'
BY DEF KeysNext, keysVars, Start, Kill, Configure,
   ReadCert, ReadKey, Generate, TruncCert, WriteCert,
   TruncKey, WriteKey, Config

\* KeysInv holds in every state.
LEMMA KeysInductive == KeysSpec => []KeysInv
<1>1. KeysInv /\ [KeysNext]_keysVars => KeysInv'
    BY KeysStepTypes, KeysStepUndisturbed, OverlapStays DEF KeysInv
<1>2. KeysInit => KeysInv
    BY KeysInitInv
<1> QED BY <1>1, <1>2, PTL DEF KeysSpec

-----------------------------------------------------------------------------
\* Every variable keeps its type, and no server comes to its configuration
\* without a certificate and a key.
THEOREM KeysTypeInvariance == KeysSpec => []KeysTypeOK
<1>1. KeysInv => KeysTypeOK
    BY DEF KeysInv
<1>2. KeysSpec => []KeysInv
    BY KeysInductive
<1> QED BY <1>1, <1>2, PTL

\* A server that runs has a matching pair wherever servers were killed, if none
\* were started at the same time.
THEOREM PairAlwaysMatches == KeysSpec => []ServedPairMatches
<1>1. KeysInv => ServedPairMatches
    BY DEF KeysInv, Undisturbed, Disk, Knows, ServedPairMatches
<1>2. KeysSpec => []KeysInv
    BY KeysInductive
<1> QED BY <1>1, <1>2, PTL

\* The pair of a running server stays on disk for the next one.
THEOREM PairAlwaysKept == KeysSpec => []PairIsKept
<1>1. KeysInv => PairIsKept
    BY DEF KeysInv, Undisturbed, Knows, PairIsKept
<1>2. KeysSpec => []KeysInv
    BY KeysInductive
<1> QED BY <1>1, <1>2, PTL

\* A server started alone fails only after another was killed in the write of
\* the key.
THEOREM OnlyTornKeyFails == KeysSpec => []FailsOnlyByTornKey
<1>1. KeysInv => FailsOnlyByTornKey
    BY DEF KeysInv, Undisturbed, Knows, FailsOnlyByTornKey
<1>2. KeysSpec => []KeysInv
    BY KeysInductive
<1> QED BY <1>1, <1>2, PTL
=============================================================================
