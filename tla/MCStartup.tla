------------------------------ MODULE MCStartup ------------------------------
(***************************************************************************)
(* Startup with command lines that contend for port 7 and for one file, and *)
(* one for each way in which a start may be refused.                       *)
(***************************************************************************)
EXTENDS Startup

Line(mode, proto, from, nic, sport, to, tport, log) ==
    [mode |-> mode, proto |-> proto, src |-> from, iface |-> nic,
     port |-> sport, dst |-> to, dport |-> tport, file |-> log]

MCFiles == {"f"}

MCConfigs ==
    {Line("server", "udp", {}, FALSE, 0, "any4", 7, {}),
     Line("server", "udp", {}, FALSE, 0, "host4", 7, {}),
     Line("server", "udp", {}, FALSE, 0, "host6", 7, {}),
     Line("server", "tcp", {}, FALSE, 0, "host4", 7, {}),
     Line("server", "icmp", {}, FALSE, 0, "any4", 7, {}),
     Line("client", "udp", {}, TRUE, 7, "far4", 7, {"f"}),
     Line("client", "udp", {}, FALSE, 7, "far4", 7, {}),
     Line("client", "tcp", {"host4"}, FALSE, 0, "host4", 7, {"f"}),
     Line("client", "tcp", {"any4"}, FALSE, 7, "far6", 7, {"f"}),
     Line("client", "icmp", {}, TRUE, 0, "far6", 7, {"f"}),
     Line("client", "icmp", {"host4"}, TRUE, 0, "far4", 7, {})}
=============================================================================
