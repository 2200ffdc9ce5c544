----------------------------- MODULE MCLatency -----------------------------
(***************************************************************************)
(* Instances of Latency for TLC.                                           *)
(***************************************************************************)
EXTENDS Latency, TLC

CONSTANTS c1, c2, p1, p2

TwoClients == {c1, c2}

\* The connections of two processes, with ids that differ.
DistinctIds == (c1 :> 1) @@ (c2 :> 2)

OneClient == {c1}

OneId == c1 :> 1

Config(port, proto, len) == [port |-> port, proto |-> proto, len |-> len]

\* Tests that share a data port, tests of their own, and each way to fail.
AllConfigs ==
    {Config(p1, "udp", "ok"), Config(p2, "udp", "ok"),
     Config(p1, "udp", "oversize"), Config(p1, "udp", "refused"),
     Config(p1, "todo", "ok")}

OnePort == {Config(p1, "udp", "ok")}
=============================================================================
