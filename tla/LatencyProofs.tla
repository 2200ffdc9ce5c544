---------------------------- MODULE LatencyProofs ----------------------------
(***************************************************************************)
(* Proofs about Latency, for any number of clients and any configurations, *)
(* and about the data connection of each test, for any capacities.         *)
(***************************************************************************)
EXTENDS Latency, ConnRunner, TLAPS

-----------------------------------------------------------------------------
(* Type correctness. *)

\* Removing the first messages of a control stream leaves a control stream.
LEMMA SubSeqType ==
    ASSUME NEW S, NEW s \in Seq(S), NEW k \in 1 .. Len(s)
    PROVE  /\ SubSeq(s, k + 1, Len(s)) \in Seq(S)
           /\ \A i \in 1 .. Len(SubSeq(s, k + 1, Len(s))) :
                /\ k + i \in 1 .. Len(s)
                /\ SubSeq(s, k + 1, Len(s))[i] = s[k + i]
  OBVIOUS

\* A channel or a stream with one more message.
LEMMA AppendType ==
    ASSUME NEW S, NEW s \in Seq(S), NEW e \in S
    PROVE  /\ Append(s, e) \in Seq(S)
           /\ Len(Append(s, e)) = Len(s) + 1
           /\ \A i \in 1 .. Len(Append(s, e)) :
                Append(s, e)[i] = IF i <= Len(s) THEN s[i] ELSE e
  OBVIOUS

\* A read leaves a control stream.
LEMMA CtrlReadType ==
    ASSUME NEW c \in Clients, ctrl \in [Clients -> Seq(CtrlMsg)], CtrlRead(c)
    PROVE  ctrl' \in [Clients -> Seq(CtrlMsg)]
<1>1. PICK k \in 1 .. Len(ctrl[c]) :
        ctrl' = [ctrl EXCEPT ![c] = SubSeq(ctrl[c], k + 1, Len(ctrl[c]))]
  BY DEF CtrlRead
<1>2. ctrl[c] \in Seq(CtrlMsg)
  OBVIOUS
<1>3. SubSeq(ctrl[c], k + 1, Len(ctrl[c])) \in Seq(CtrlMsg)
  BY <1>2, SubSeqType
<1>4. QED
  BY <1>1, <1>3

\* Every variable of the tool keeps its type: TypeOK is inductive.
THEOREM TypeInvariance == Spec => []TypeOK
<1>1. Init => TypeOK
  BY LatencyAssumption DEF Init, TypeOK
<1>2. ASSUME TypeOK, [Next]_vars PROVE TypeOK'
  <2> USE <1>2, LatencyAssumption
  <2>1. CASE Accept
    BY <2>1 DEF Accept, TypeOK, clVars, linkVars, svVars
  <2>2. CASE CtrlC
    BY <2>2 DEF CtrlC, TypeOK, clVars, linkVars, svVars
  <2>3. ASSUME NEW c \in Clients, AcceptBi(c) PROVE TypeOK'
    BY <2>3 DEF AcceptBi, TypeOK, clVars, linkVars
  <2>4. ASSUME NEW c \in Clients, OpenFails(c) PROVE TypeOK'
    BY <2>4 DEF OpenFails, TypeOK, clVars, linkVars, svVars
  <2>5. ASSUME NEW c \in Clients, Connect(c) PROVE TypeOK'
    BY <2>5 DEF Connect, TypeOK, linkVars, svVars
  <2>6. ASSUME NEW c \in Clients, AskNewTest(c) PROVE TypeOK'
    BY <2>6 DEF AskNewTest, TypeOK, linkVars, accVars, svVars
  <2>7. ASSUME NEW c \in Clients, ReadNewTest(c) PROVE TypeOK'
    <3>1. ctrl' \in [Clients -> Seq(CtrlMsg)]
      BY <2>7, CtrlReadType DEF ReadNewTest, TypeOK
    <3>2. cl' \in [Clients -> {"idle", "connected", "newtest", "handshake",
                               "running", "failed", "exited"}]
      <4>1. cl' = [cl EXCEPT ![c] = "handshake"] \/ cl' = [cl EXCEPT ![c] = "failed"]
        BY <2>7 DEF ReadNewTest
      <4>2. QED
        BY <4>1 DEF TypeOK
    <3>3. cConn' \in [Clients -> {"none", "run", "dead"}]
      <4>1. cConn' = cConn \/ cConn' = [cConn EXCEPT ![c] = "run"]
        BY <2>7 DEF ReadNewTest
      <4>2. QED
        BY <4>1 DEF TypeOK
    <3>4. UNCHANGED << cfg, waited, asked, closed, air, accVars, svVars >>
      BY <2>7 DEF ReadNewTest
    <3>5. QED
      BY <3>1, <3>2, <3>3, <3>4 DEF TypeOK, accVars, svVars
  <2>8. ASSUME NEW c \in Clients, CtrlLost(c) PROVE TypeOK'
    BY <2>8 DEF CtrlLost, TypeOK, linkVars, accVars, svVars
  <2>9. ASSUME NEW c \in Clients, HandshakeTick(c) PROVE TypeOK'
    BY <2>9 DEF HandshakeTick, Datagram, TypeOK, accVars, svVars
  <2>10. ASSUME NEW c \in Clients, Wait(c) PROVE TypeOK'
    BY <2>10 DEF Wait, TypeOK, linkVars, accVars, svVars
  <2>11. ASSUME NEW c \in Clients, HandshakeTimeout(c) PROVE TypeOK'
    BY <2>11 DEF HandshakeTimeout, TypeOK, linkVars, accVars, svVars
  <2>12. ASSUME NEW c \in Clients, ReadEcho(c) PROVE TypeOK'
    <3>1. AfterEcho(c, Head(ctrl[c])) \in {"running", "failed", "handshake"}
      BY DEF AfterEcho, StartRun
    <3>2. ctrl' \in [Clients -> Seq(CtrlMsg)]
      BY <2>12, CtrlReadType DEF ReadEcho, TypeOK
    <3>3. cl' \in [Clients -> {"idle", "connected", "newtest", "handshake",
                               "running", "failed", "exited"}]
      BY <2>12, <3>1 DEF ReadEcho, TypeOK
    <3>4. waited' \in [Clients -> 0 .. HsTimeout]
      BY <2>12 DEF ReadEcho, TypeOK
    <3>5. UNCHANGED << cfg, cConn, asked, closed, air, accVars, svVars >>
      BY <2>12 DEF ReadEcho
    <3>6. QED
      BY <3>2, <3>3, <3>4, <3>5 DEF TypeOK, accVars, svVars
  <2>13. ASSUME NEW c \in Clients, SendData(c) PROVE TypeOK'
    <3>1. CASE cfg[c].len = "ok"
      BY <2>13, <3>1 DEF SendData, Datagram, TypeOK, accVars, svVars
    <3>2. CASE cfg[c].len # "ok"
      BY <2>13, <3>2 DEF SendData, TypeOK, accVars, svVars
    <3>3. QED
      BY <3>1, <3>2
  <2>14. ASSUME NEW c \in Clients, ConnPanics(c) \/ ClientTickFails(c)
         PROVE  TypeOK'
    <3>1. CASE ConnPanics(c)
      BY <3>1 DEF ConnPanics, TypeOK, linkVars, accVars, svVars
    <3>2. CASE ClientTickFails(c)
      BY <3>2 DEF ClientTickFails, TypeOK, linkVars, accVars, svVars
    <3>3. QED
      BY <2>14, <3>1, <3>2
  <2>15. ASSUME NEW c \in Clients, Exit(c) PROVE TypeOK'
    BY <2>15 DEF Exit, TypeOK, accVars, svVars
  <2>16. ASSUME NEW c \in Clients, SrvReply(c) PROVE TypeOK'
    <3>1. Append(ctrl[c], NewTest(Id[c])) \in Seq(CtrlMsg)
      <4>1. ctrl[c] \in Seq(CtrlMsg)
        BY DEF TypeOK
      <4>2. NewTest(Id[c]) \in CtrlMsg
        BY DEF CtrlMsg
      <4>3. QED
        BY <4>1, <4>2, AppendType
    <3>2. ctrl' \in {ctrl, [ctrl EXCEPT ![c] = Append(@, NewTest(Id[c]))]}
      BY <2>16 DEF SrvReply
    <3>3. sv' \in {[sv EXCEPT ![c] = "replied"], [sv EXCEPT ![c] = "failed"]}
      BY <2>16 DEF SrvReply
    <3>4. UNCHANGED << clVars, closed, air, accVars, sConn, peer, inbox >>
      BY <2>16 DEF SrvReply
    <3>5. ctrl' \in [Clients -> Seq(CtrlMsg)]
      BY <3>1, <3>2 DEF TypeOK
    <3>6. sv' \in [Clients -> {"none", "setup", "replied", "handshake",
                               "running", "failed", "unbound", "dead"}]
      BY <3>3 DEF TypeOK
    <3>7. QED
      BY <3>4, <3>5, <3>6 DEF TypeOK, clVars, accVars
  <2>17. ASSUME NEW c \in Clients, SrvBind(c) PROVE TypeOK'
    <3>1. /\ sv' \in {[sv EXCEPT ![c] = "handshake"],
                     [sv EXCEPT ![c] = "unbound"], [sv EXCEPT ![c] = "failed"]}
          /\ sConn' \in {sConn, [sConn EXCEPT ![c] = "run"]}
      BY <2>17 DEF SrvBind
    <3>2. sv' \in [Clients -> {"none", "setup", "replied", "handshake",
                               "running", "failed", "unbound", "dead"}]
      BY <3>1 DEF TypeOK
    <3>3. sConn' \in [Clients -> {"none", "run", "dead"}]
      BY <3>1 DEF TypeOK
    <3>4. UNCHANGED << clVars, linkVars, accVars, peer, inbox >>
      BY <2>17 DEF SrvBind
    <3>5. QED
      BY <3>2, <3>3, <3>4 DEF TypeOK, clVars, linkVars, accVars
  <2>18. ASSUME NEW c \in Clients, NEW d \in air, SrvRecv(c, d) PROVE TypeOK'
    <3>1. d.from \in Clients /\ d.msg \in DataMsg
      BY DEF TypeOK, DataMsg
    <3>2. CASE Knows(c, d.from)
      <4>1. /\ Append(inbox[c], d.msg) \in Seq(DataMsg)
            /\ Len(Append(inbox[c], d.msg)) <= InboxCap
        BY <2>18, <3>1, AppendType DEF SrvRecv, TypeOK
      <4>2. /\ inbox' = [inbox EXCEPT ![c] = Append(inbox[c], d.msg)]
            /\ peer' = [peer EXCEPT ![c] = {d.from}]
            /\ UNCHANGED << clVars, linkVars, accVars, sv, sConn >>
        BY <2>18, <3>2 DEF SrvRecv
      <4>3. /\ inbox' \in [Clients -> Seq(DataMsg)]
            /\ \A e \in Clients : Len(inbox'[e]) <= InboxCap
        BY <4>1, <4>2 DEF TypeOK
      <4>4. peer' \in [Clients -> SUBSET Clients]
        BY <3>1, <4>2 DEF TypeOK
      <4>5. QED
        BY <4>2, <4>3, <4>4 DEF TypeOK, clVars, linkVars, accVars
    <3>3. CASE ~Knows(c, d.from)
      BY <2>18, <3>3 DEF SrvRecv, TypeOK, clVars, linkVars, accVars
    <3>4. QED
      BY <3>2, <3>3
  <2>19. ASSUME NEW c \in Clients, SrvHandshake(c) PROVE TypeOK'
    <3> DEFINE m == Head(inbox[c])
    <3>1. m \in DataMsg
      BY <2>19 DEF SrvHandshake, TypeOK
    <3>2. m.type = "handshake" =>
            Append(ctrl[c], Handshake(m.id)) \in Seq(CtrlMsg)
      <4>1. m.type = "handshake" => Handshake(m.id) \in CtrlMsg
        BY <3>1 DEF DataMsg, CtrlMsg, Handshake, Data
      <4>2. QED
        BY <4>1, AppendType DEF TypeOK
    <3>3. \/ ctrl' = ctrl
          \/ /\ m.type = "handshake"
             /\ ctrl' = [ctrl EXCEPT ![c] = Append(@, Handshake(m.id))]
      BY <2>19 DEF SrvHandshake
    <3>4. sv' \in {[sv EXCEPT ![c] = "running"], [sv EXCEPT ![c] = "dead"],
                   [sv EXCEPT ![c] = "failed"]}
      BY <2>19 DEF SrvHandshake, StartRun
    <3>5. inbox' \in [Clients -> Seq(DataMsg)]
          /\ \A e \in Clients : Len(inbox'[e]) <= InboxCap
      BY <2>19 DEF SrvHandshake, TypeOK
    <3>6. UNCHANGED << clVars, closed, air, accVars, sConn, peer >>
      BY <2>19 DEF SrvHandshake
    <3> HIDE DEF m
    <3>7. ctrl' \in [Clients -> Seq(CtrlMsg)]
      BY <3>2, <3>3 DEF TypeOK
    <3>8. sv' \in [Clients -> {"none", "setup", "replied", "handshake",
                               "running", "failed", "unbound", "dead"}]
      BY <3>4 DEF TypeOK
    <3>9. QED
      BY <3>5, <3>6, <3>7, <3>8 DEF TypeOK, clVars, accVars
  <2>20. ASSUME NEW c \in Clients, SrvTimeout(c) PROVE TypeOK'
    BY <2>20 DEF SrvTimeout, TypeOK, clVars, linkVars, accVars
  <2>21. ASSUME NEW c \in Clients, SrvTake(c) PROVE TypeOK'
    BY <2>21 DEF SrvTake, TypeOK, clVars, linkVars, accVars
  <2>22. ASSUME NEW c \in Clients, SrvSendTooLarge(c) PROVE TypeOK'
    BY <2>22 DEF SrvSendTooLarge, TypeOK, clVars, linkVars, accVars
  <2>23. ASSUME NEW c \in Clients, SrvSendFails(c) PROVE TypeOK'
    BY <2>23 DEF SrvSendFails, TypeOK, clVars, linkVars, accVars
  <2>24. ASSUME NEW c \in Clients, SrvConnStop(c) PROVE TypeOK'
    BY <2>24 DEF SrvConnStop, TypeOK, clVars, linkVars, accVars
  <2>25. CASE UNCHANGED vars
    BY <2>25 DEF TypeOK, vars, clVars, linkVars, accVars, svVars
  <2>26. QED
    BY <2>1, <2>2, <2>3, <2>4, <2>5, <2>6, <2>7, <2>8, <2>9, <2>10, <2>11,
       <2>12, <2>13, <2>14, <2>15, <2>16, <2>17, <2>18, <2>19, <2>20, <2>21,
       <2>22, <2>23, <2>24, <2>25
    DEF Next, AcceptLoop, ClientSide, ServerSide
<1>3. QED
  BY <1>1, <1>2, PTL DEF Spec

-----------------------------------------------------------------------------
(* The peer of the server's test. *)

\* There is a peer p, and id is its id.
HasId(p, id) == \E f \in Clients : p = {f} /\ id = Id[f]

\* Once a step has set the peer of a test no later step changes it.
LEMMA PeerFixedStep ==
    ASSUME TypeOK, [Next]_vars
    PROVE  \A c \in Clients : peer[c] # {} => peer'[c] = peer[c]
<1>1. ASSUME NEW c \in Clients, NEW d \in air, SrvRecv(c, d)
      PROVE  \A e \in Clients : peer[e] # {} => peer'[e] = peer[e]
  BY <1>1 DEF SrvRecv, Knows, TypeOK
<1>2. CASE ~\E c \in Clients : \E d \in air : SrvRecv(c, d)
  <2>1. UNCHANGED peer
    BY <1>2 DEF Next, AcceptLoop, ClientSide, ServerSide, vars, svVars, Accept,
       CtrlC, AcceptBi, OpenFails, Connect, AskNewTest, ReadNewTest, CtrlLost,
       HandshakeTick, Wait, HandshakeTimeout, ReadEcho, SendData,
       ConnPanics, ClientTickFails, Exit, SrvReply, SrvBind, SrvHandshake,
       SrvTimeout, SrvTake, SrvSendTooLarge, SrvSendFails, SrvConnStop
  <2>2. QED
    BY <2>1
<1>3. QED
  BY <1>1, <1>2

\* PeerIsFixed: the peer of a test is the source of its first datagram for
\* the whole test.
THEOREM PeerFixed == Spec => PeerIsFixed
<1>1. ASSUME TypeOK, [Next]_vars
      PROVE  [\A c \in Clients : peer[c] # {} => peer'[c] = peer[c]]_vars
  BY <1>1, PeerFixedStep
<1>2. QED
  BY <1>1, TypeInvariance, PTL DEF Spec, PeerIsFixed

\* What the handshake establishes step by step: what the ConnRunner has
\* queued came from the peer, what the server has echoed is the peer's id,
\* and a client that runs saw its own id.
PeerInv ==
    /\ \A c \in Clients : inbox[c] # << >> => peer[c] # {}
    /\ \A c \in Clients : \A i \in 1 .. Len(inbox[c]) :
         inbox[c][i].type = "handshake" => HasId(peer[c], inbox[c][i].id)
    /\ \A c \in Clients : \A i \in 1 .. Len(ctrl[c]) :
         ctrl[c][i].type = "handshake" => HasId(peer[c], ctrl[c][i].id)
    /\ \A c \in Clients : sv[c] = "running" => peer[c] # {}
    /\ \A c \in Clients : cl[c] = "running" => HasId(peer[c], Id[c])

\* A peer that has an id stays the peer.
LEMMA HasIdStays ==
    ASSUME TypeOK, [Next]_vars
    PROVE  \A c \in Clients : \A id : HasId(peer[c], id) => HasId(peer'[c], id)
<1>1. \A c \in Clients : \A id : HasId(peer[c], id) => peer[c] # {}
  BY DEF HasId
<1>2. QED
  BY <1>1, PeerFixedStep

\* A step that only removes messages from the inboxes and control streams, and
\* lets a test start only with a peer, keeps PeerInv.
LEMMA PeerInvKept ==
    ASSUME TypeOK, PeerInv, [Next]_vars,
           \A c \in Clients : inbox'[c] # << >> => inbox[c] # << >>,
           \A c \in Clients : \A i \in 1 .. Len(inbox'[c]) :
               \E j \in 1 .. Len(inbox[c]) : inbox'[c][i] = inbox[c][j],
           \A c \in Clients : \A i \in 1 .. Len(ctrl'[c]) :
               ctrl'[c][i].type = "handshake" =>
                   HasId(peer[c], ctrl'[c][i].id),
           \A c \in Clients : sv'[c] = "running" => peer[c] # {},
           \A c \in Clients : cl'[c] = "running" => HasId(peer[c], Id[c])
    PROVE  PeerInv'
<1>1. \A c \in Clients : inbox'[c] # << >> => peer'[c] # {}
  BY PeerFixedStep DEF PeerInv
<1>2. \A c \in Clients : \A i \in 1 .. Len(inbox'[c]) :
        inbox'[c][i].type = "handshake" => HasId(peer'[c], inbox'[c][i].id)
  <2>1. \A c \in Clients : \A j \in 1 .. Len(inbox[c]) :
          inbox[c][j].type = "handshake" => HasId(peer'[c], inbox[c][j].id)
    BY HasIdStays DEF PeerInv
  <2>2. QED
    BY <2>1
<1>3. \A c \in Clients : \A i \in 1 .. Len(ctrl'[c]) :
        ctrl'[c][i].type = "handshake" => HasId(peer'[c], ctrl'[c][i].id)
  BY HasIdStays
<1>4. \A c \in Clients : sv'[c] = "running" => peer'[c] # {}
  BY PeerFixedStep
<1>5. \A c \in Clients : cl'[c] = "running" => HasId(peer'[c], Id[c])
  BY HasIdStays
<1>6. QED
  BY <1>1, <1>2, <1>3, <1>4, <1>5 DEF PeerInv

\* A read of the control stream leaves messages that were on it.
LEMMA CtrlReadLeaves ==
    ASSUME TypeOK, NEW c \in Clients, CtrlRead(c)
    PROVE  \A e \in Clients : \A i \in 1 .. Len(ctrl'[e]) :
               \E j \in 1 .. Len(ctrl[e]) : ctrl'[e][i] = ctrl[e][j]
<1>1. PICK k \in 1 .. Len(ctrl[c]) :
         ctrl' = [ctrl EXCEPT ![c] = SubSeq(ctrl[c], k + 1, Len(ctrl[c]))]
  BY DEF CtrlRead
<1>2. TAKE e \in Clients
<1>3. TAKE i \in 1 .. Len(ctrl'[e])
<1>4. CASE e = c
  <2>1. ctrl[c] \in Seq(CtrlMsg) /\ ctrl'[c] = SubSeq(ctrl[c], k + 1, Len(ctrl[c]))
    BY <1>1 DEF TypeOK
  <2>2. k + i \in 1 .. Len(ctrl[c]) /\ ctrl'[c][i] = ctrl[c][k + i]
    BY <1>4, <2>1, SubSeqType
  <2>3. QED
    BY <1>4, <2>2
<1>5. CASE e # c
  <2>1. ctrl'[e] = ctrl[e]
    BY <1>1, <1>5 DEF TypeOK
  <2>2. QED
    BY <2>1
<1>6. QED
  BY <1>4, <1>5

\* What is left on the control stream still has the id of the peer.
LEMMA CtrlReadKeeps ==
    ASSUME TypeOK, PeerInv, NEW c \in Clients, CtrlRead(c)
    PROVE  \A e \in Clients : \A i \in 1 .. Len(ctrl'[e]) :
               ctrl'[e][i].type = "handshake" =>
                   HasId(peer[e], ctrl'[e][i].id)
<1>1. TAKE e \in Clients
<1>2. TAKE i \in 1 .. Len(ctrl'[e])
<1>3. PICK j \in 1 .. Len(ctrl[e]) : ctrl'[e][i] = ctrl[e][j]
  BY CtrlReadLeaves
<1>4. ctrl[e][j].type = "handshake" => HasId(peer[e], ctrl[e][j].id)
  BY DEF PeerInv
<1>5. QED
  BY <1>3, <1>4

\* Taking a message off the inbox leaves messages that were in it.
LEMMA InboxTakeLeaves ==
    ASSUME TypeOK, NEW c \in Clients, inbox[c] # << >>,
           inbox' = [inbox EXCEPT ![c] = Tail(inbox[c])]
    PROVE  \A e \in Clients :
               /\ inbox'[e] # << >> => inbox[e] # << >>
               /\ \A i \in 1 .. Len(inbox'[e]) :
                    \E j \in 1 .. Len(inbox[e]) : inbox'[e][i] = inbox[e][j]
<1>1. TAKE e \in Clients
<1>2. CASE e = c
  <2>1. inbox[c] \in Seq(DataMsg) /\ inbox'[c] = Tail(inbox[c])
    BY DEF TypeOK
  <2>2. \A i \in 1 .. Len(Tail(inbox[c])) :
          i + 1 \in 1 .. Len(inbox[c]) /\ Tail(inbox[c])[i] = inbox[c][i + 1]
    BY <2>1
  <2>3. QED
    BY <1>2, <2>1, <2>2
<1>3. CASE e # c
  <2>1. inbox'[e] = inbox[e]
    BY <1>3 DEF TypeOK
  <2>2. QED
    BY <2>1
<1>4. QED
  BY <1>2, <1>3

\* PeerInv is inductive.
LEMMA PeerInvStep == TypeOK /\ PeerInv /\ [Next]_vars => PeerInv'
<1> SUFFICES ASSUME TypeOK, PeerInv, [Next]_vars PROVE PeerInv'
  OBVIOUS
<1>1. ASSUME NEW c \in Clients, ReadNewTest(c) PROVE PeerInv'
  <2>1. \A e \in Clients : cl'[e] = "running" => cl[e] = "running"
    BY <1>1 DEF ReadNewTest, TypeOK
  <2>2. CtrlRead(c) /\ UNCHANGED << inbox, sv >>
    BY <1>1 DEF ReadNewTest, svVars
  <2>3. \A e \in Clients : \A i \in 1 .. Len(ctrl'[e]) :
          ctrl'[e][i].type = "handshake" => HasId(peer[e], ctrl'[e][i].id)
    BY <2>2, CtrlReadKeeps
  <2>4. QED
    BY <2>1, <2>2, <2>3, PeerInvKept DEF PeerInv
<1>2. ASSUME NEW c \in Clients, ReadEcho(c) PROVE PeerInv'
  <2>1. CtrlRead(c) /\ UNCHANGED << inbox, sv >>
    BY <1>2 DEF ReadEcho, svVars
  <2>2. ASSUME NEW e \in Clients, cl'[e] = "running"
        PROVE  HasId(peer[e], Id[e])
    <3>1. CASE cl[e] = "running"
      BY <3>1 DEF PeerInv
    <3>2. CASE cl[e] # "running"
      <4>1. /\ e = c
            /\ Head(ctrl[c]).type = "handshake"
            /\ Head(ctrl[c]).id = Id[c]
        BY <1>2, <2>2, <3>2 DEF ReadEcho, AfterEcho, TypeOK
      <4>2. 1 \in 1 .. Len(ctrl[c]) /\ Head(ctrl[c]) = ctrl[c][1]
        BY <2>1 DEF CtrlRead, TypeOK
      <4>3. QED
        BY <4>1, <4>2 DEF PeerInv
    <3>3. QED
      BY <3>1, <3>2
  <2>3. \A e \in Clients : \A i \in 1 .. Len(ctrl'[e]) :
          ctrl'[e][i].type = "handshake" => HasId(peer[e], ctrl'[e][i].id)
    BY <2>1, CtrlReadKeeps
  <2>4. QED
    BY <2>1, <2>2, <2>3, PeerInvKept DEF PeerInv
<1>3. ASSUME NEW c \in Clients, SrvReply(c) PROVE PeerInv'
  <2>1. /\ ctrl' \in {ctrl, [ctrl EXCEPT ![c] = Append(@, NewTest(Id[c]))]}
        /\ UNCHANGED << inbox, cl >>
        /\ \A e \in Clients : sv'[e] = "running" => sv[e] = "running"
    BY <1>3 DEF SrvReply, TypeOK, clVars
  <2>2. ASSUME NEW e \in Clients, NEW i \in 1 .. Len(ctrl'[e]),
               ctrl'[e][i].type = "handshake"
        PROVE  i \in 1 .. Len(ctrl[e]) /\ ctrl'[e][i] = ctrl[e][i]
    <3>1. NewTest(Id[c]).type # "handshake"
      BY DEF NewTest
    <3>2. ctrl \in [Clients -> Seq(CtrlMsg)] /\ NewTest(Id[c]) \in CtrlMsg
      BY DEF TypeOK, CtrlMsg
    <3>3. CASE ctrl'[e] = ctrl[e]
      BY <3>3
    <3>4. CASE ctrl'[e] = Append(ctrl[e], NewTest(Id[c]))
      <4>1. ctrl[e] \in Seq(CtrlMsg)
        BY <3>2
      <4>2. ctrl'[e][i] = IF i <= Len(ctrl[e]) THEN ctrl[e][i]
                          ELSE NewTest(Id[c])
        BY <3>2, <3>4, <4>1, AppendType
      <4>3. QED
        BY <2>2, <3>1, <4>1, <4>2
    <3>5. QED
      BY <2>1, <3>2, <3>3, <3>4
  <2>3. QED
    BY <2>1, <2>2, PeerInvKept DEF PeerInv
<1>4. ASSUME NEW c \in Clients, NEW d \in air, SrvRecv(c, d) PROVE PeerInv'
  <2>1. CASE ~Knows(c, d.from)
    <3>1. UNCHANGED << ctrl, inbox, sv, cl >>
      BY <1>4, <2>1 DEF SrvRecv, clVars, linkVars
    <3>2. QED
      BY <3>1, PeerInvKept DEF PeerInv
  <2>2. CASE Knows(c, d.from)
    <3>1. /\ inbox' = [inbox EXCEPT ![c] = Append(inbox[c], d.msg)]
          /\ peer' = [peer EXCEPT ![c] = {d.from}]
          /\ UNCHANGED << ctrl, sv, cl >>
      BY <1>4, <2>2 DEF SrvRecv, clVars, linkVars
    <3>2. /\ d.from \in Clients /\ d.msg \in DataMsg
          /\ d.msg.type = "handshake" => d.msg.id = Id[d.from]
      BY DEF TypeOK, DataMsg, Handshake, Data
    <3>3. peer'[c] = {d.from} /\ inbox[c] \in Seq(DataMsg)
          /\ inbox'[c] = Append(inbox[c], d.msg)
      BY <3>1 DEF TypeOK
    <3>4. ASSUME NEW e \in Clients, NEW i \in 1 .. Len(inbox'[e]),
                 inbox'[e][i].type = "handshake"
          PROVE  HasId(peer'[e], inbox'[e][i].id)
      <4>1. CASE e = c /\ i = Len(inbox[c]) + 1
        <5>1. inbox'[e][i] = d.msg
          BY <3>2, <3>3, <4>1, AppendType
        <5>2. QED
          BY <3>2, <3>3, <3>4, <4>1, <5>1 DEF HasId
      <4>2. CASE ~(e = c /\ i = Len(inbox[c]) + 1)
        <5>1. i \in 1 .. Len(inbox[e]) /\ inbox'[e][i] = inbox[e][i]
          <6>1. CASE e # c
            <7>1. inbox'[e] = inbox[e]
              BY <3>1, <6>1 DEF TypeOK
            <7>2. QED
              BY <7>1
          <6>2. CASE e = c
            <7>1. i \in 1 .. Len(Append(inbox[c], d.msg))
              BY <3>3, <6>2
            <7>2. /\ Len(inbox[c]) \in Nat
                  /\ Len(Append(inbox[c], d.msg)) = Len(inbox[c]) + 1
              BY <3>2, <3>3, AppendType
            <7>3. i \in 1 .. Len(inbox[c])
              BY <4>2, <6>2, <7>1, <7>2
            <7>4. QED
              BY <3>2, <3>3, <6>2, <7>1, <7>3, AppendType
          <6>3. QED
            BY <6>1, <6>2
        <5>2. QED
          BY <3>4, <5>1, HasIdStays DEF PeerInv
      <4>3. QED
        BY <4>1, <4>2
    <3>5. \A e \in Clients : inbox'[e] # << >> => peer'[e] # {}
      BY <3>1, PeerFixedStep DEF PeerInv, TypeOK
    <3>6. \A e \in Clients : \A i \in 1 .. Len(ctrl'[e]) :
            ctrl'[e][i].type = "handshake" => HasId(peer'[e], ctrl'[e][i].id)
      BY <3>1, HasIdStays DEF PeerInv
    <3>7. \A e \in Clients : /\ sv'[e] = "running" => peer'[e] # {}
                             /\ cl'[e] = "running" => HasId(peer'[e], Id[e])
      BY <3>1, HasIdStays, PeerFixedStep DEF PeerInv
    <3>8. QED
      BY <3>4, <3>5, <3>6, <3>7 DEF PeerInv
  <2>3. QED
    BY <2>1, <2>2
<1>5. ASSUME NEW c \in Clients, SrvHandshake(c) PROVE PeerInv'
  <2> DEFINE m == Head(inbox[c])
  <2>1. /\ m = inbox[c][1] /\ 1 \in 1 .. Len(inbox[c])
        /\ inbox[c] # << >> /\ peer[c] # {} /\ m \in DataMsg
    BY <1>5 DEF SrvHandshake, PeerInv, TypeOK
  <2>2. /\ inbox' = [inbox EXCEPT ![c] = Tail(inbox[c])]
        /\ UNCHANGED cl
        /\ \A e \in Clients : sv'[e] = "running" => sv[e] = "running" \/ e = c
    BY <1>5 DEF SrvHandshake, TypeOK, clVars
  <2>3. \/ ctrl' = ctrl
        \/ /\ m.type = "handshake"
           /\ ctrl' = [ctrl EXCEPT ![c] = Append(ctrl[c], Handshake(m.id))]
    BY <1>5 DEF SrvHandshake
  <2>4. m.type = "handshake" => HasId(peer[c], m.id)
    BY <2>1 DEF PeerInv
  <2>5. m.type = "handshake" => Handshake(m.id) \in CtrlMsg
    BY <2>1 DEF CtrlMsg, DataMsg, Handshake, Data
  <2> HIDE DEF m
  <2>6. ASSUME NEW e \in Clients, NEW i \in 1 .. Len(ctrl'[e]),
               ctrl'[e][i].type = "handshake"
        PROVE  HasId(peer[e], ctrl'[e][i].id)
    <3>1. CASE i \in 1 .. Len(ctrl[e]) /\ ctrl'[e][i] = ctrl[e][i]
      BY <2>6, <3>1 DEF PeerInv
    <3>2. CASE ~(i \in 1 .. Len(ctrl[e]) /\ ctrl'[e][i] = ctrl[e][i])
      <4>1. m.type = "handshake" /\ e = c /\ ctrl'[e][i] = Handshake(m.id)
        <5>1. ctrl[e] \in Seq(CtrlMsg)
          BY DEF TypeOK
        <5>2. ctrl'[e] # ctrl[e]
          BY <3>2
        <5>3. /\ m.type = "handshake" /\ e = c
              /\ ctrl'[e] = Append(ctrl[e], Handshake(m.id))
          BY <2>3, <5>2 DEF TypeOK
        <5>4. ctrl'[e][i] = IF i <= Len(ctrl[e]) THEN ctrl[e][i]
                            ELSE Handshake(m.id)
          BY <2>5, <5>1, <5>3, AppendType
        <5>5. QED
          BY <3>2, <5>1, <5>3, <5>4
      <4>2. ctrl'[e][i].id = m.id
        BY <4>1 DEF Handshake
      <4>3. QED
        BY <2>4, <4>1, <4>2
    <3>3. QED
      BY <3>1, <3>2
  <2>7. \A e \in Clients : sv'[e] = "running" => peer[e] # {}
    BY <2>1, <2>2 DEF PeerInv
  <2>8. QED
    BY <2>1, <2>2, <2>6, <2>7, InboxTakeLeaves, PeerInvKept DEF PeerInv
<1>6. ASSUME NEW c \in Clients, SrvTake(c) PROVE PeerInv'
  <2>1. /\ inbox' = [inbox EXCEPT ![c] = Tail(inbox[c])] /\ inbox[c] # << >>
        /\ UNCHANGED << cl, ctrl, sv >>
    BY <1>6 DEF SrvTake, clVars, linkVars
  <2>2. QED
    BY <2>1, InboxTakeLeaves, PeerInvKept DEF PeerInv
<1>7. ASSUME \/ Accept \/ CtrlC \/ UNCHANGED vars
             \/ \E c \in Clients :
                  \/ AcceptBi(c) \/ OpenFails(c) \/ Connect(c) \/ AskNewTest(c)
                  \/ CtrlLost(c) \/ HandshakeTick(c) \/ Wait(c)
                  \/ HandshakeTimeout(c) \/ SendData(c) \/ ConnPanics(c)
                  \/ ClientTickFails(c)
                  \/ Exit(c) \/ SrvBind(c) \/ SrvTimeout(c)
                  \/ SrvSendTooLarge(c) \/ SrvSendFails(c) \/ SrvConnStop(c)
      PROVE  PeerInv'
  <2>1. UNCHANGED << ctrl, inbox >>
    BY <1>7 DEF Accept, CtrlC, vars, clVars, linkVars, accVars, svVars,
       AcceptBi, OpenFails, Connect, AskNewTest, CtrlLost, HandshakeTick, Wait,
       HandshakeTimeout, SendData, ConnPanics, ClientTickFails, Exit, SrvBind,
       SrvTimeout,       SrvSendTooLarge, SrvSendFails, SrvConnStop
  <2>2. \A e \in Clients : sv'[e] = "running" => sv[e] = "running"
    BY <1>7 DEF Accept, CtrlC, vars, svVars, AcceptBi, OpenFails, Connect,
       AskNewTest, CtrlLost, HandshakeTick, Wait, HandshakeTimeout, SendData,
       ConnPanics, ClientTickFails, Exit, SrvBind, SrvTimeout, SrvSendTooLarge,
       SrvSendFails, SrvConnStop, TypeOK
  <2>3. \A e \in Clients : cl'[e] = "running" => cl[e] = "running"
    BY <1>7 DEF Accept, CtrlC, vars, clVars, AcceptBi, OpenFails, Connect,
       AskNewTest, CtrlLost, HandshakeTick, Wait, HandshakeTimeout, SendData,
       ConnPanics, ClientTickFails, Exit, SrvBind, SrvTimeout, SrvSendTooLarge,
       SrvSendFails, SrvConnStop, TypeOK
  <2>4. QED
    BY <2>1, <2>2, <2>3, PeerInvKept DEF PeerInv
<1>8. QED
  BY <1>1, <1>2, <1>3, <1>4, <1>5, <1>6, <1>7
  DEF Next, AcceptLoop, ClientSide, ServerSide

\* PeerInv holds of every reachable state.
LEMMA PeerInvariance == Spec => []PeerInv
<1>1. Init => PeerInv
  BY DEF Init, PeerInv
<1>2. QED
  BY <1>1, TypeInvariance, PeerInvStep, PTL DEF Spec

\* PeerKnown: peer.unwrap() in UdpLatency::send has a value whenever the
\* server's test is running.
THEOREM PeerKnownAlways == Spec => []PeerKnown
<1>1. PeerInv => PeerKnown
  BY DEF PeerInv, PeerKnown
<1>2. QED
  BY <1>1, PeerInvariance, PTL

\* PeerIsClient: as long as no two connections have the same id, a client that
\* runs its test is the one that the server's test exchanges packets with,
\* for any number of clients on any data ports.
THEOREM PeerIsClientAlways ==
    ASSUME IdsDiffer
    PROVE  Spec => []PeerIsClient
<1>1. PeerInv => PeerIsClient
  BY DEF PeerInv, PeerIsClient, HasId, IdsDiffer
<1>2. QED
  BY <1>1, PeerInvariance, PTL

-----------------------------------------------------------------------------
(* ReadyTogether.  The server's test for a client is started once, because   *)
(* its connection is accepted once; an echo on the control stream shows that *)
(* the test had started, and it never goes back.                             *)

\* A connection is queued, then opened, and only then has a test.
OnceInv ==
    /\ \A c \in Clients : cl[c] = "idle" =>
         /\ sv[c] = "none" /\ c \notin opening
         /\ \A i \in 1 .. Len(accq) : accq[i] # c
    /\ \A c \in opening : sv[c] = "none"
    /\ \A i \in 1 .. Len(accq) : sv[accq[i]] = "none" /\ accq[i] \notin opening
    /\ \A i, j \in 1 .. Len(accq) : accq[i] = accq[j] => i = j

Started(c) == sv[c] \in {"running", "dead"}

\* What the client can know of the server's test is true.
EchoInv ==
    /\ \A c \in Clients : \A i \in 1 .. Len(ctrl[c]) :
         ctrl[c][i].type = "handshake" => Started(c)
    /\ \A c \in Clients : cl[c] = "running" => Started(c)

\* Only AcceptBi starts the test of a client that has none.
LEMMA NoneStays ==
    ASSUME TypeOK, [Next]_vars, NEW c \in Clients, sv[c] = "none",
           ~AcceptBi(c)
    PROVE  sv'[c] = "none"
<1>1. ASSUME NEW d \in Clients, AcceptBi(d) PROVE sv'[c] = "none"
  BY <1>1 DEF AcceptBi, TypeOK
<1>2. ASSUME NEW d \in Clients, ServerSide(d) PROVE sv'[c] = "none"
  BY <1>2 DEF ServerSide, SrvReply, SrvBind, SrvRecv, SrvHandshake, SrvTimeout,
     SrvTake, SrvSendTooLarge, SrvSendFails, SrvConnStop, TypeOK
<1>3. ASSUME NEW d \in Clients, ClientSide(d) \/ OpenFails(d) PROVE sv' = sv
  BY <1>3 DEF ClientSide, OpenFails, Connect, AskNewTest, ReadNewTest, CtrlLost,
     HandshakeTick, Wait, HandshakeTimeout, ReadEcho, SendData, ConnPanics,
     ClientTickFails, Exit, svVars
<1>4. CASE Accept \/ CtrlC \/ UNCHANGED vars
  BY <1>4 DEF Accept, CtrlC, vars, svVars
<1>5. QED
  BY <1>1, <1>2, <1>3, <1>4 DEF Next, AcceptLoop

\* The first connection in the queue, and those that remain.
LEMMA QueueHead ==
    ASSUME NEW S, NEW s \in Seq(S), s # << >>
    PROVE  /\ 1 \in 1 .. Len(s) /\ Head(s) = s[1] /\ Head(s) \in S
           /\ \A i \in 1 .. Len(Tail(s)) :
                i + 1 \in 1 .. Len(s) /\ i + 1 # 1 /\ Tail(s)[i] = s[i + 1]
  OBVIOUS

\* OnceInv is inductive.
LEMMA OnceInvStep == TypeOK /\ OnceInv /\ [Next]_vars => OnceInv'
<1> SUFFICES ASSUME TypeOK, OnceInv, [Next]_vars PROVE OnceInv'
  OBVIOUS
<1>1. CASE Accept
  <2>1. /\ accq \in Seq(Clients) /\ accq # << >>
        /\ accq' = Tail(accq) /\ opening' = {Head(accq)}
        /\ sv' = sv /\ cl' = cl
    BY <1>1 DEF Accept, TypeOK, clVars, svVars
  <2>2. /\ 1 \in 1 .. Len(accq) /\ Head(accq) = accq[1] /\ Head(accq) \in Clients
        /\ \A i \in 1 .. Len(accq') :
             i + 1 \in 1 .. Len(accq) /\ i + 1 # 1 /\ accq'[i] = accq[i + 1]
    BY <2>1, QueueHead
  <2>3. \A i, j \in 1 .. Len(accq') : accq'[i] = accq'[j] => i = j
    <3>1. TAKE i, j \in 1 .. Len(accq')
    <3>2. HAVE accq'[i] = accq'[j]
    <3>3. i + 1 = j + 1
      BY <2>2, <3>2 DEF OnceInv
    <3>4. QED
      BY <3>3
  <2>4. \A i \in 1 .. Len(accq') : sv'[accq'[i]] = "none" /\ accq'[i] \notin opening'
    BY <2>1, <2>2 DEF OnceInv
  <2>5. \A c \in opening' : sv'[c] = "none"
    BY <2>1, <2>2 DEF OnceInv
  <2>6. \A c \in Clients : cl'[c] = "idle" =>
          /\ sv'[c] = "none" /\ c \notin opening'
          /\ \A i \in 1 .. Len(accq') : accq'[i] # c
    BY <2>1, <2>2 DEF OnceInv
  <2>7. QED
    BY <2>3, <2>4, <2>5, <2>6 DEF OnceInv
<1>2. ASSUME NEW d \in Clients, AcceptBi(d) PROVE OnceInv'
  <2>1. /\ d \in opening /\ opening' = {} /\ accq' = accq /\ cl' = cl
        /\ \A c \in Clients : c # d => sv'[c] = sv[c]
    BY <1>2 DEF AcceptBi, TypeOK, clVars
  <2>2. \A i \in 1 .. Len(accq) : accq[i] \in Clients
    BY DEF TypeOK
  <2>3. QED
    BY <2>1, <2>2 DEF OnceInv
<1>3. ASSUME NEW d \in Clients, Connect(d) PROVE OnceInv'
  <2>1. /\ cl[d] = "idle" /\ cl' = [cl EXCEPT ![d] = "connected"]
        /\ accq \in Seq(Clients) /\ accq' = Append(accq, d)
        /\ opening' = opening /\ sv' = sv
    BY <1>3 DEF Connect, TypeOK, svVars
  <2>2. /\ Len(accq) \in Nat /\ Len(accq') = Len(accq) + 1
        /\ \A i \in 1 .. Len(accq') :
             accq'[i] = IF i <= Len(accq) THEN accq[i] ELSE d
    BY <1>3, <2>1, AppendType
  <2>3. ASSUME NEW i \in 1 .. Len(accq')
        PROVE  \/ i \in 1 .. Len(accq) /\ accq'[i] = accq[i]
               \/ i = Len(accq) + 1 /\ accq'[i] = d
    BY <2>2, <2>3
  <2>4. /\ sv[d] = "none" /\ d \notin opening
        /\ \A i \in 1 .. Len(accq) : accq[i] # d
    BY <1>3, <2>1 DEF OnceInv
  <2>5. \A i, j \in 1 .. Len(accq') : accq'[i] = accq'[j] => i = j
    BY <2>3, <2>4 DEF OnceInv
  <2>6. \A i \in 1 .. Len(accq') : sv'[accq'[i]] = "none" /\ accq'[i] \notin opening'
    BY <2>1, <2>3, <2>4 DEF OnceInv
  <2>7. ASSUME NEW c \in Clients, cl'[c] = "idle"
        PROVE  /\ sv'[c] = "none" /\ c \notin opening'
               /\ \A i \in 1 .. Len(accq') : accq'[i] # c
    <3>1. c # d /\ cl[c] = "idle"
      BY <1>3, <2>1, <2>7 DEF TypeOK
    <3>2. QED
      BY <2>1, <2>3, <2>7, <3>1 DEF OnceInv
  <2>8. QED
    BY <2>1, <2>5, <2>6, <2>7 DEF OnceInv
<1>4. CASE ~Accept /\ (\A d \in Clients : ~AcceptBi(d) /\ ~Connect(d))
  <2>1. accq' = accq /\ opening' = opening
    BY <1>4 DEF Next, AcceptLoop, ClientSide, ServerSide, CtrlC, OpenFails,
       AskNewTest, ReadNewTest, CtrlLost, HandshakeTick, Wait,
       HandshakeTimeout, ReadEcho, SendData, ConnPanics, ClientTickFails, Exit,
       SrvReply, SrvBind, SrvRecv, SrvHandshake, SrvTimeout, SrvTake,
       SrvSendTooLarge, SrvSendFails, SrvConnStop, vars, accVars
  <2>2. \A c \in Clients : sv[c] = "none" => sv'[c] = "none"
    BY <1>4, NoneStays
  <2>3. \A c \in Clients : cl'[c] = "idle" => cl[c] = "idle"
    <3>1. ASSUME NEW d \in Clients, ClientSide(d)
          PROVE  \A c \in Clients : cl'[c] = "idle" => cl[c] = "idle"
      <4>1. CASE ReadEcho(d)
        BY <4>1 DEF ReadEcho, AfterEcho, StartRun, TypeOK
      <4>2. CASE ~ReadEcho(d)
        BY <1>4, <3>1, <4>2 DEF ClientSide, AskNewTest, ReadNewTest, CtrlLost,
           HandshakeTick, Wait, HandshakeTimeout, SendData, ConnPanics,
           ClientTickFails, Exit, TypeOK
      <4>3. QED
        BY <4>1, <4>2
    <3>2. ASSUME NEW d \in Clients, ServerSide(d) \/ OpenFails(d) PROVE cl' = cl
      BY <3>2 DEF ServerSide, OpenFails, SrvReply, SrvBind, SrvRecv,
         SrvHandshake, SrvTimeout, SrvTake, SrvSendTooLarge, SrvSendFails,
         SrvConnStop, clVars
    <3>3. CASE CtrlC \/ UNCHANGED vars
      BY <3>3 DEF CtrlC, vars, clVars
    <3>4. QED
      BY <1>4, <3>1, <3>2, <3>3 DEF Next, AcceptLoop
  <2>4. /\ opening \subseteq Clients
        /\ \A i \in 1 .. Len(accq) : accq[i] \in Clients
    BY DEF TypeOK
  <2>5. QED
    BY <2>1, <2>2, <2>3, <2>4 DEF OnceInv
<1>5. QED
  BY <1>1, <1>2, <1>3, <1>4

\* A test that has started stays started: it may die, but is not set up again.
LEMMA StartedStays ==
    ASSUME TypeOK, OnceInv, [Next]_vars, NEW c \in Clients, Started(c)
    PROVE  Started(c)'
<1> USE DEF Started
<1>1. ASSUME NEW d \in Clients, AcceptBi(d) PROVE Started(c)'
  <2>1. c # d
    BY <1>1 DEF AcceptBi, OnceInv
  <2>2. QED
    BY <1>1, <2>1 DEF AcceptBi, TypeOK
<1>2. ASSUME NEW d \in Clients, ServerSide(d) PROVE Started(c)'
  BY <1>2 DEF ServerSide, SrvReply, SrvBind, SrvRecv, SrvHandshake, SrvTimeout,
     SrvTake, SrvSendTooLarge, SrvSendFails, SrvConnStop, TypeOK
<1>3. ASSUME NEW d \in Clients, ClientSide(d) \/ OpenFails(d) PROVE sv' = sv
  BY <1>3 DEF ClientSide, OpenFails, Connect, AskNewTest, ReadNewTest, CtrlLost,
     HandshakeTick, Wait, HandshakeTimeout, ReadEcho, SendData, ConnPanics,
     ClientTickFails, Exit, svVars
<1>4. CASE Accept \/ CtrlC \/ UNCHANGED vars
  BY <1>4 DEF Accept, CtrlC, vars, svVars
<1>5. QED
  BY <1>1, <1>2, <1>3, <1>4 DEF Next, AcceptLoop

\* EchoInv is inductive, given OnceInv.
LEMMA EchoInvStep == TypeOK /\ OnceInv /\ EchoInv /\ [Next]_vars => EchoInv'
<1> SUFFICES ASSUME TypeOK, OnceInv, EchoInv, [Next]_vars PROVE EchoInv'
  OBVIOUS
<1>1. ASSUME \A c \in Clients : \A i \in 1 .. Len(ctrl'[c]) :
               \E j \in 1 .. Len(ctrl[c]) : ctrl'[c][i] = ctrl[c][j],
             \A c \in Clients : cl'[c] = "running" => Started(c)
      PROVE  EchoInv'
  <2>1. \A c \in Clients : Started(c) => Started(c)'
    BY StartedStays
  <2>2. ASSUME NEW c \in Clients, NEW i \in 1 .. Len(ctrl'[c]),
               ctrl'[c][i].type = "handshake"
        PROVE  Started(c)'
    <3>1. PICK j \in 1 .. Len(ctrl[c]) : ctrl'[c][i] = ctrl[c][j]
      BY <1>1
    <3>2. QED
      BY <2>1, <2>2, <3>1 DEF EchoInv
  <2>3. QED
    BY <1>1, <2>1, <2>2 DEF EchoInv
<1>2. ASSUME NEW c \in Clients, ReadNewTest(c) PROVE EchoInv'
  <2>1. CtrlRead(c) /\ \A e \in Clients : cl'[e] = "running" => cl[e] = "running"
    BY <1>2 DEF ReadNewTest, TypeOK
  <2>2. QED
    BY <1>1, <2>1, CtrlReadLeaves DEF EchoInv
<1>3. ASSUME NEW c \in Clients, ReadEcho(c) PROVE EchoInv'
  <2>1. CtrlRead(c)
    BY <1>3 DEF ReadEcho
  <2>2. ASSUME NEW e \in Clients, cl'[e] = "running" PROVE Started(e)
    <3>1. CASE cl[e] = "running"
      BY <3>1 DEF EchoInv
    <3>2. CASE cl[e] # "running"
      <4>1. e = c /\ Head(ctrl[c]).type = "handshake"
        BY <1>3, <2>2, <3>2 DEF ReadEcho, AfterEcho, TypeOK
      <4>2. 1 \in 1 .. Len(ctrl[c]) /\ Head(ctrl[c]) = ctrl[c][1]
        BY <2>1 DEF CtrlRead, TypeOK
      <4>3. QED
        BY <4>1, <4>2 DEF EchoInv
    <3>3. QED
      BY <3>1, <3>2
  <2>3. QED
    BY <1>1, <2>1, <2>2, CtrlReadLeaves
<1>4. ASSUME NEW c \in Clients, NEW m \in CtrlMsg,
             ctrl' = [ctrl EXCEPT ![c] = Append(@, m)],
             m.type = "handshake" => Started(c)',
             UNCHANGED cl
      PROVE  EchoInv'
  <2>1. \A e \in Clients : Started(e) => Started(e)'
    BY StartedStays
  <2>2. ctrl[c] \in Seq(CtrlMsg) /\ ctrl'[c] = Append(ctrl[c], m)
    BY <1>4 DEF TypeOK
  <2>3. /\ Len(ctrl[c]) \in Nat /\ Len(ctrl'[c]) = Len(ctrl[c]) + 1
        /\ \A i \in 1 .. Len(ctrl'[c]) :
             ctrl'[c][i] = IF i <= Len(ctrl[c]) THEN ctrl[c][i] ELSE m
    BY <1>4, <2>2, AppendType
  <2>4. ASSUME NEW e \in Clients, NEW i \in 1 .. Len(ctrl'[e]),
               ctrl'[e][i].type = "handshake"
        PROVE  Started(e)'
    <3>1. CASE e # c
      <4>1. ctrl'[e] = ctrl[e]
        BY <1>4, <3>1 DEF TypeOK
      <4>2. QED
        BY <2>1, <2>4, <4>1 DEF EchoInv
    <3>2. CASE e = c
      <4>1. CASE i <= Len(ctrl[c])
        <5>1. i \in 1 .. Len(ctrl[c]) /\ ctrl'[c][i] = ctrl[c][i]
          BY <2>3, <3>2, <4>1
        <5>2. QED
          BY <2>1, <2>4, <3>2, <5>1 DEF EchoInv
      <4>2. CASE ~(i <= Len(ctrl[c]))
        BY <1>4, <2>3, <2>4, <3>2, <4>2
      <4>3. QED
        BY <4>1, <4>2
    <3>3. QED
      BY <3>1, <3>2
  <2>5. QED
    BY <1>4, <2>1, <2>4 DEF EchoInv
<1>5. ASSUME UNCHANGED ctrl,
             \A e \in Clients : cl'[e] = "running" => cl[e] = "running"
      PROVE  EchoInv'
  BY <1>1, <1>5 DEF EchoInv
<1>6. ASSUME NEW c \in Clients, SrvReply(c) PROVE EchoInv'
  <2>1. cl' = cl
    BY <1>6 DEF SrvReply, clVars
  <2>2. CASE ctrl' = [ctrl EXCEPT ![c] = Append(@, NewTest(Id[c]))]
    <3>1. NewTest(Id[c]) \in CtrlMsg /\ NewTest(Id[c]).type # "handshake"
      BY <1>6 DEF NewTest, CtrlMsg
    <3>2. QED
      BY <1>4, <1>6, <2>1, <2>2, <3>1
  <2>3. CASE ctrl' = ctrl
    BY <1>5, <2>1, <2>3
  <2>4. QED
    BY <1>6, <2>2, <2>3 DEF SrvReply
<1>7. ASSUME NEW c \in Clients, SrvHandshake(c) PROVE EchoInv'
  <2> DEFINE m == Head(inbox[c])
  <2>1. cl' = cl /\ m \in DataMsg
    BY <1>7 DEF SrvHandshake, clVars, TypeOK
  <2>2. CASE /\ m.type = "handshake"
             /\ ctrl' = [ctrl EXCEPT ![c] = Append(@, Handshake(m.id))]
             /\ sv' = [sv EXCEPT ![c] = StartRun(c, "dead")]
    <3>1. Handshake(m.id) \in CtrlMsg
      BY <2>1, <2>2 DEF CtrlMsg, DataMsg, Handshake, Data
    <3>2. Started(c)'
      BY <1>7, <2>2 DEF Started, StartRun, TypeOK
    <3> HIDE DEF m
    <3>3. QED
      BY <1>4, <1>7, <2>1, <2>2, <3>1, <3>2
  <2>3. CASE ctrl' = ctrl
    BY <1>5, <2>1, <2>3
  <2>4. QED
    BY <1>7, <2>2, <2>3 DEF SrvHandshake
<1>8. ASSUME \/ Accept \/ CtrlC \/ UNCHANGED vars
             \/ \E c \in Clients :
                  \/ AcceptBi(c) \/ OpenFails(c) \/ Connect(c) \/ AskNewTest(c)
                  \/ CtrlLost(c) \/ HandshakeTick(c) \/ Wait(c)
                  \/ HandshakeTimeout(c) \/ SendData(c) \/ ConnPanics(c)
                  \/ ClientTickFails(c)
                  \/ Exit(c) \/ SrvBind(c) \/ (\E d \in air : SrvRecv(c, d))
                  \/ SrvTimeout(c) \/ SrvTake(c)
                  \/ SrvSendTooLarge(c) \/ SrvSendFails(c) \/ SrvConnStop(c)
      PROVE  EchoInv'
  <2>1. UNCHANGED ctrl
    BY <1>8 DEF Accept, CtrlC, vars, linkVars, AcceptBi, OpenFails, Connect,
       AskNewTest, CtrlLost, HandshakeTick, Wait, HandshakeTimeout, SendData,
       ConnPanics, ClientTickFails, Exit, SrvBind, SrvRecv, SrvTimeout, SrvTake,
       SrvSendTooLarge, SrvSendFails, SrvConnStop
  <2>2. \A e \in Clients : cl'[e] = "running" => cl[e] = "running"
    BY <1>8 DEF Accept, CtrlC, vars, clVars, AcceptBi, OpenFails, Connect,
       AskNewTest, CtrlLost, HandshakeTick, Wait, HandshakeTimeout, SendData,
       ConnPanics, ClientTickFails, Exit, SrvBind, SrvRecv, SrvTimeout, SrvTake,
       SrvSendTooLarge, SrvSendFails, SrvConnStop, TypeOK
  <2>3. QED
    BY <1>5, <2>1, <2>2
<1>9. QED
  BY <1>2, <1>3, <1>6, <1>7, <1>8 DEF Next, AcceptLoop, ClientSide, ServerSide

\* ReadyTogether: the client never runs its test while the server's is still
\* being set up or has failed, for any number of clients on any data ports.
THEOREM ReadyTogetherAlways == Spec => []ReadyTogether
<1>1. Init => OnceInv /\ EchoInv
  BY DEF Init, OnceInv, EchoInv
<1>2. EchoInv => ReadyTogether
  BY DEF EchoInv, ReadyTogether, Started
<1>3. QED
  BY <1>1, <1>2, TypeInvariance, OnceInvStep, EchoInvStep, PTL DEF Spec

-----------------------------------------------------------------------------
(* The data connection of one test: ConnRunner.                              *)

USE ConnRunnerAssumption DEF Side

\* Each step keeps the types and the capacities.
LEMMA ConnTypeStep ==
    ASSUME ConnTypeOK, [ConnNext]_connVars
    PROVE  ConnTypeOK'
  <1> USE DEF ConnTypeOK
  <1>1. CASE UNCHANGED connVars
    BY <1>1 DEF connVars, testVars, txVars, netVars
  <1>0. CASE Bind
    BY <1>0 DEF Bind, txVars
  <1>2. CASE TakeHandshake
    BY <1>2 DEF TakeHandshake, txVars, netVars
  <1>3. CASE HearEcho
    BY <1>3 DEF HearEcho, txVars, netVars
  <1>4. ASSUME NEW s \in Side, Test(s) PROVE ConnTypeOK'
    <2>1. CASE Tick(s)
      BY <2>1 DEF Tick, testVars, netVars
    <2>2. CASE TickFails(s) \/ Leave(s)
      BY <2>2 DEF TickFails, Leave, txVars, netVars
    <2>3. CASE Take(s)
      BY <2>3 DEF Take, testVars, txVars, netVars
    <2> QED BY <1>4, <2>1, <2>2, <2>3 DEF Test
  <1>5. ASSUME NEW s \in Side, Runner(s) PROVE ConnTypeOK'
    <2>1. CASE TxRecv(s)
      BY <2>1 DEF TxRecv, testVars, netVars
    <2>2. CASE TxError(s)
      BY <2>2 DEF TxError, testVars, netVars
    <2>3. CASE Deliver(s)
      <3>1. Peer(s) \in Side
        BY DEF Peer
      <3> QED BY <2>3, <3>1 DEF Deliver, Again, testVars
    <2>4. CASE Lose(s)
      BY <2>4 DEF Lose, Again, testVars, netVars
    <2>5. CASE \/ SendFails(s) \/ SockRecvStranger(s)
               \/ QueueFails(s) \/ Stop(s)
      BY <2>5 DEF SendFails, SockRecvStranger, QueueFails,
         Stop, testVars, txVars, netVars
    <2>6. CASE SockRecv(s)
      <3>1. CASE s = "server" /\ met = "other"
        BY <2>6, <3>1 DEF SockRecv, testVars, txVars
      <3>2. CASE ~(s = "server" /\ met = "other")
        BY <2>6, <3>2 DEF SockRecv, testVars, txVars
      <3> QED BY <3>1, <3>2
    <2>7. CASE Queue(s)
      BY <2>7 DEF Queue, Again, testVars, netVars
    <2> QED BY <1>5, <2>1, <2>2, <2>3, <2>4, <2>5, <2>6, <2>7 DEF Runner
  <1>6. CASE SockRecvOther
    BY <1>6 DEF SockRecvOther, testVars, txVars
  <1>7. CASE OtherRecv
    BY <1>7 DEF OtherRecv, testVars, txVars
  <1>8. CASE OtherSend
    BY <1>8 DEF OtherSend, testVars, txVars
  <1> QED BY <1>0, <1>1, <1>2, <1>3, <1>4, <1>5, <1>6, <1>7, <1>8 DEF ConnNext

\* Neither channel ever holds more than its capacity.
THEOREM ConnTypeInvariance == ConnSpec => []ConnTypeOK
  <1>1. ConnInit => ConnTypeOK
    <2>1. 0 \in 0 .. TxCap /\ 0 \in 0 .. RxCap /\ 0 \in 0 .. AirCap
      OBVIOUS
    <2>2. ConnInit => /\ ring \in [Side -> 0 .. TxCap]
                      /\ queue \in [Side -> 0 .. RxCap]
                      /\ link \in [Side -> 0 .. AirCap]
      BY <2>1 DEF ConnInit
    <2>3. ConnInit => /\ lagged \in [Side -> BOOLEAN]
                      /\ armed \in [Side -> BOOLEAN]
                      /\ echo \in BOOLEAN /\ lent \in BOOLEAN
      BY DEF ConnInit
    <2> QED BY <2>2, <2>3 DEF ConnInit, ConnTypeOK
  <1>2. ConnTypeOK /\ [ConnNext]_connVars => ConnTypeOK'
    BY ConnTypeStep
  <1> QED BY <1>1, <1>2, PTL DEF ConnSpec

-----------------------------------------------------------------------------
(* The server sends only when its test runs, and then a datagram has been    *)
(* received: the packet that ended the handshake came through its socket.    *)

MetInv ==
    \/ met # "nobody"
    \/ /\ stage["server"] \in {"setup", "handshake", "gone"}
       /\ queue["server"] = 0 /\ ring["server"] = 0
       /\ conn["server"] \in {"none", "select", "ended"}

\* Each step keeps it.
LEMMA MetStep ==
    ASSUME ConnTypeOK, MetInv, [ConnNext]_connVars
    PROVE  MetInv'
  <1> USE DEF ConnTypeOK, MetInv
  <1>1. CASE UNCHANGED connVars
    BY <1>1 DEF connVars, testVars, txVars, netVars
  <1>0. CASE Bind
    BY <1>0 DEF Bind, txVars
  <1>2. CASE TakeHandshake
    BY <1>2 DEF TakeHandshake, txVars, netVars
  <1>3. CASE HearEcho
    BY <1>3 DEF HearEcho, txVars, netVars
  <1>4. ASSUME NEW s \in Side, Test(s) PROVE MetInv'
    <2>1. CASE Tick(s)
      BY <2>1 DEF Tick, Sends, testVars, netVars
    <2>2. CASE TickFails(s) \/ Leave(s)
      BY <2>2 DEF TickFails, Leave, txVars, netVars
    <2>3. CASE Take(s)
      BY <2>3 DEF Take, testVars, txVars, netVars
    <2> QED BY <1>4, <2>1, <2>2, <2>3 DEF Test
  <1>5. ASSUME NEW s \in Side, Runner(s) PROVE MetInv'
    <2>1. CASE TxRecv(s)
      BY <2>1 DEF TxRecv, testVars, netVars
    <2>2. CASE TxError(s)
      BY <2>2 DEF TxError, testVars, netVars
    <2>3. CASE Deliver(s) \/ Lose(s)
      BY <2>3 DEF Deliver, Lose, Again, testVars,
         netVars
    <2>5. CASE \/ SendFails(s) \/ SockRecvStranger(s)
               \/ QueueFails(s) \/ Stop(s)
      BY <2>5 DEF SendFails, SockRecvStranger, QueueFails,
         Stop, testVars, txVars, netVars
    <2>6. CASE SockRecv(s)
      <3>1. CASE s = "server" /\ met = "other"
        BY <2>6, <3>1 DEF SockRecv, testVars, txVars
      <3>2. CASE ~(s = "server" /\ met = "other")
        BY <2>6, <3>2 DEF SockRecv, testVars, txVars
      <3> QED BY <3>1, <3>2
    <2>7. CASE Queue(s)
      BY <2>7 DEF Queue, Again, testVars, netVars
    <2> QED BY <1>5, <2>1, <2>2, <2>3, <2>5, <2>6, <2>7 DEF Runner
  <1>6. CASE SockRecvOther
    BY <1>6 DEF SockRecvOther, testVars, txVars
  <1>7. CASE OtherRecv
    BY <1>7 DEF OtherRecv, testVars, txVars
  <1>8. CASE OtherSend
    BY <1>8 DEF OtherSend, testVars, txVars
  <1> QED BY <1>0, <1>1, <1>2, <1>3, <1>4, <1>5, <1>6, <1>7, <1>8 DEF ConnNext

\* peer.unwrap() finds a peer in UdpLatency::send, whatever the channels lose.
THEOREM PeerAlwaysBeforeSend == ConnSpec => []PeerBeforeSend
  <1>1. ConnInit => MetInv
    BY DEF ConnInit, MetInv
  <1>2. ConnTypeOK /\ MetInv => PeerBeforeSend
    BY DEF ConnTypeOK, MetInv, PeerBeforeSend
  <1>3. ConnSpec => []ConnTypeOK
    BY ConnTypeInvariance
  <1>4. ConnTypeOK /\ MetInv /\ [ConnNext]_connVars => MetInv'
    BY MetStep
  <1> QED BY <1>1, <1>2, <1>3, <1>4, PTL DEF ConnSpec
=============================================================================
