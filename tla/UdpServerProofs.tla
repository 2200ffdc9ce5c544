---------------------------- MODULE UdpServerProofs ----------------------------
(***************************************************************************)
(* Proofs about UdpServer, for any clients, sockets and bounds.            *)
(***************************************************************************)
EXTENDS UdpServer, FiniteSetTheorems, TLAPS

USE UdpServerAssumption

-----------------------------------------------------------------------------
(* Sequences. *)

\* What taking the first element of a sequence leaves.
LEMMA TailFacts ==
    ASSUME NEW S, NEW s \in Seq(S), s # << >>
    PROVE  /\ Head(s) \in S /\ Head(s) = s[1] /\ 1 \in DOMAIN s
           /\ Tail(s) \in Seq(S) /\ Len(s) \in Nat \ {0}
           /\ Len(Tail(s)) <= Len(s)
           /\ \A i \in DOMAIN Tail(s) : i + 1 \in DOMAIN s /\ Tail(s)[i] = s[i + 1]
  OBVIOUS

\* A queue is never fuller than its capacity, and only the new element is new.
LEMMA EnqueueFacts ==
    ASSUME NEW S, NEW q \in Seq(S), Len(q) <= QueueCap, NEW d \in S
    PROVE  /\ Enqueue(q, d) \in Seq(S)
           /\ Len(Enqueue(q, d)) <= QueueCap
           /\ \A i \in DOMAIN Enqueue(q, d) :
                \/ i \in DOMAIN q /\ Enqueue(q, d)[i] = q[i]
                \/ Enqueue(q, d)[i] = d
  BY DEF Enqueue

\* A sequence of one element.
LEMMA SingleFacts ==
    ASSUME NEW S, NEW d \in S
    PROVE  << d >> \in Seq(S) /\ Len(<< d >>) = 1 /\ DOMAIN << d >> = {1}
           /\ << d >>[1] = d
  OBVIOUS

\* The element of a sequence that has one.
LEMMA OneFacts ==
    ASSUME NEW S, NEW q \in Seq(S), Len(q) = 1 PROVE q[1] \in S /\ q # << >>
  OBVIOUS

-----------------------------------------------------------------------------
(* Types.  Those of a socket are a predicate of its record.                 *)

Socket == [stage : {"free", "bound", "select", "reply", "deaf"},
           peer : SUBSET Clients,
           q : Seq(Datagram), hand : Seq(Datagram),
           err : BOOLEAN, bounced : BOOLEAN]

SocketOK(r) ==
    /\ r \in Socket
    /\ Len(r.q) <= QueueCap
    /\ Len(r.hand) = IF r.stage = "reply" THEN 1 ELSE 0

MainTypes ==
    /\ family \in {4, 6}
    /\ mainPc \in {"recv", "bind", "connect", "ended"}
    /\ cur \in SUBSET Clients
    /\ mainPc \in {"bind", "connect"} => \E c \in Clients : cur = {c}
    /\ mainQ \in Seq(Clients) /\ Len(mainQ) <= QueueCap

ClientTypes ==
    /\ open \subseteq Clients
    /\ closes \in 0 .. MaxClose
    /\ asked \in [Clients -> 0 .. MaxAsk]
    /\ answered \in [Clients -> Nat]

\* Where the datagrams of a socket come from: while it has no peer, from
\* anyone, in the window; afterwards from its peer.
WindowOK(r) ==
    /\ r.peer = {} <=> r.stage \in {"free", "bound"}
    /\ r.stage = "free" => r.q = << >>
    /\ \A i \in DOMAIN r.q : r.q[i].window \/ r.q[i].from \in r.peer
    /\ \A i \in DOMAIN r.hand : r.hand[i].window \/ r.hand[i].from \in r.peer

SocketsInv ==
    /\ sock \in [Socks -> Socket]
    /\ \A s \in Socks : SocketOK(sock[s]) /\ WindowOK(sock[s])

IInv == MainTypes /\ ClientTypes /\ SocketsInv

\* IInv holds at first.
LEMMA InitInv == Init => IInv
  <1> SUFFICES ASSUME Init PROVE IInv
    OBVIOUS
  <1>1. MainTypes /\ ClientTypes
    BY DEF Init, MainTypes, ClientTypes
  <1>2. Free \in Socket /\ SocketOK(Free) /\ WindowOK(Free)
    BY DEF Free, Socket, SocketOK, WindowOK
  <1> QED BY <1>1, <1>2 DEF Init, IInv, SocketsInv

\* What IInv is for.
LEMMA InvImplies == IInv => TypeOK /\ StrayOnlyInWindow
  BY DEF IInv, MainTypes, ClientTypes, SocketsInv, SocketOK, WindowOK, Socket,
         TypeOK, StrayOnlyInWindow

\* IInv is inductive: main, ...
LEMMA MainTypesStep == ASSUME IInv, [Next]_vars PROVE MainTypes'
  <1> USE DEF IInv, MainTypes
  <1>1. CASE UNCHANGED vars
    BY <1>1 DEF vars, mainVars
  <1>2. CASE MainEcho
    BY <1>2, TailFacts DEF MainEcho
  <1>3. CASE MainEchoFails \/ MainBind \/ MainBindFails
    BY <1>3 DEF MainEchoFails, MainBind, MainBindFails
  <1>4. CASE MainConnect
    BY <1>4 DEF MainConnect
  <1>5. ASSUME NEW s \in Socks, Task(s) \/ Refuse(s) PROVE MainTypes'
    BY <1>5 DEF Task, Refuse, TaskRecv, TaskRecvError, TaskReply, TaskReplyFails,
                TaskTimeout, mainVars
  <1>6. ASSUME NEW c \in Clients, Arrive(c) PROVE MainTypes'
    <2>1. mainQ' = mainQ \/ mainQ' = Enqueue(mainQ, c)
      BY <1>6 DEF Arrive, ToTask, ToMain
    <2>2. mainQ' \in Seq(Clients) /\ Len(mainQ') <= QueueCap
      BY <1>6, <2>1, EnqueueFacts
    <2> QED BY <1>6, <2>2 DEF Arrive
  <1>7. ASSUME NEW c \in Clients, Close(c) \/ Reopen(c) PROVE MainTypes'
    BY <1>7 DEF Close, Reopen, mainVars
  <1> QED BY <1>1, <1>2, <1>3, <1>4, <1>5, <1>6, <1>7 DEF Next, Main

\* ... the clients ...
LEMMA ClientTypesStep == ASSUME IInv, [Next]_vars PROVE ClientTypes'
  <1> USE DEF IInv, ClientTypes
  <1>1. CASE UNCHANGED vars
    BY <1>1 DEF vars, clientVars
  <1>2. CASE MainEcho
    <2>1. Head(mainQ) \in Clients
      BY <1>2, TailFacts DEF MainEcho, MainTypes
    <2> QED BY <1>2, <2>1 DEF MainEcho, Answered, clientVars
  <1>3. CASE MainEchoFails \/ MainBind \/ MainBindFails \/ MainConnect
    BY <1>3 DEF MainEchoFails, MainBind, MainBindFails, MainConnect, clientVars
  <1>4. ASSUME NEW s \in Socks,
               TaskRecv(s) \/ TaskRecvError(s) \/ TaskReplyFails(s)
                 \/ TaskTimeout(s) \/ Refuse(s)
        PROVE  ClientTypes'
    BY <1>4 DEF TaskRecv, TaskRecvError, TaskReplyFails, TaskTimeout, Refuse,
                clientVars
  <1>5. ASSUME NEW s \in Socks, TaskReply(s) PROVE ClientTypes'
    <2> DEFINE x == sock[s].hand[1].from
    <2>1. answered' = [answered EXCEPT ![x] = @ + 1]
      BY <1>5 DEF TaskReply, Answered
    <2> HIDE DEF x
    <2>2. answered' \in [Clients -> Nat]
      <3>1. CASE x \in Clients
        BY <2>1, <3>1
      <3>2. CASE x \notin Clients
        <4>1. answered' = answered
          BY <2>1, <3>2
        <4> QED BY <4>1
      <3> QED BY <3>1, <3>2
    <2> QED BY <1>5, <2>2 DEF TaskReply, clientVars
  <1>6. ASSUME NEW c \in Clients, Arrive(c) PROVE ClientTypes'
    BY <1>6 DEF Arrive
  <1>7. ASSUME NEW c \in Clients, Close(c) \/ Reopen(c) PROVE ClientTypes'
    BY <1>7 DEF Close, Reopen
  <1> QED BY <1>1, <1>2, <1>3, <1>4, <1>5, <1>6, <1>7 DEF Next, Main, Task

\* A step that changes one socket keeps the invariant of all of them.
LEMMA SocketUpdate ==
    ASSUME SocketsInv, NEW s \in Socks, NEW r, SocketOK(r), WindowOK(r),
           sock' = [sock EXCEPT ![s] = r]
    PROVE  SocketsInv'
  BY DEF SocketsInv, SocketOK

\* A socket that is given back satisfies what is said of sockets.
LEMMA FreeFacts == SocketOK(Free) /\ WindowOK(Free)
  BY DEF Free, SocketOK, WindowOK, Socket

\* ... and the sockets.
LEMMA SocketsStep == ASSUME IInv, [Next]_vars PROVE SocketsInv'
  <1> USE DEF IInv
  <1>1. CASE UNCHANGED vars
    BY <1>1 DEF vars, SocketsInv
  <1>2. CASE MainEcho \/ MainEchoFails \/ MainBindFails
    BY <1>2 DEF MainEcho, MainEchoFails, MainBindFails, SocketsInv
  <1>3. CASE MainBind
    <2> PICK s \in Socks : /\ sock[s].stage = "free"
                           /\ sock' = [sock EXCEPT ![s].stage = "bound"]
      BY <1>3 DEF MainBind
    <2> DEFINE r == [sock[s] EXCEPT !.stage = "bound"]
    <2>1. SocketOK(r) /\ WindowOK(r)
      BY DEF SocketsInv, SocketOK, WindowOK, Socket
    <2>2. sock' = [sock EXCEPT ![s] = r]
      OBVIOUS
    <2> HIDE DEF r
    <2> QED BY <2>1, <2>2, SocketUpdate
  <1>4. CASE MainConnect
    <2> PICK s \in Socks : /\ sock[s].stage = "bound"
                           /\ sock' = [sock EXCEPT ![s].stage = "select",
                                                   ![s].peer = cur]
      BY <1>4 DEF MainConnect
    <2> DEFINE r == [sock[s] EXCEPT !.stage = "select", !.peer = cur]
    <2>1. cur \in SUBSET Clients /\ cur # {}
      BY <1>4 DEF MainConnect, MainTypes
    <2>2. SocketOK(r) /\ WindowOK(r)
      BY <2>1 DEF SocketsInv, SocketOK, WindowOK, Socket
    <2>3. sock' = [sock EXCEPT ![s] = r]
      BY DEF SocketsInv, Socket
    <2> HIDE DEF r
    <2> QED BY <2>2, <2>3, SocketUpdate
  <1>5. ASSUME NEW s \in Socks, TaskRecv(s) PROVE SocketsInv'
    <2> DEFINE d == Head(sock[s].q)
               r == [sock[s] EXCEPT !.stage = "reply", !.hand = << d >>,
                                    !.q = Tail(@)]
    <2>1. /\ sock[s] \in Socket /\ SocketOK(sock[s]) /\ WindowOK(sock[s])
          /\ sock[s].q \in Seq(Datagram) /\ sock[s].q # << >>
      BY <1>5 DEF TaskRecv, SocketsInv, Socket
    <2>2. /\ d \in Datagram /\ d = sock[s].q[1] /\ 1 \in DOMAIN sock[s].q
          /\ Tail(sock[s].q) \in Seq(Datagram)
          /\ Len(Tail(sock[s].q)) <= QueueCap
          /\ \A i \in DOMAIN Tail(sock[s].q) :
               /\ i + 1 \in DOMAIN sock[s].q
               /\ Tail(sock[s].q)[i] = sock[s].q[i + 1]
      BY <2>1, TailFacts DEF SocketOK
    <2>3. << d >> \in Seq(Datagram) /\ Len(<< d >>) = 1 /\ DOMAIN << d >> = {1}
      BY <2>2, SingleFacts
    <2>4. SocketOK(r)
      BY <2>1, <2>2, <2>3 DEF SocketOK, Socket
    <2>5. WindowOK(r)
      <3>1. r.peer # {} /\ r.stage = "reply" /\ r.peer = sock[s].peer
        BY <1>5, <2>1 DEF TaskRecv, WindowOK, Socket
      <3>2. r.q = Tail(sock[s].q) /\ r.hand = << d >>
        BY <2>1 DEF Socket
      <3>3. \A i \in DOMAIN sock[s].q :
              sock[s].q[i].window \/ sock[s].q[i].from \in sock[s].peer
        BY <2>1 DEF WindowOK
      <3>4. d.window \/ d.from \in sock[s].peer
        BY <2>2, <3>3
      <3>5. << d >>[1] = d
        OBVIOUS
      <3> HIDE DEF d, r
      <3> QED BY <2>2, <2>3, <3>1, <3>2, <3>3, <3>4, <3>5 DEF WindowOK
    <2>6. sock' = [sock EXCEPT ![s] = r]
      BY <1>5 DEF TaskRecv, SocketsInv, Socket
    <2> HIDE DEF d, r
    <2> QED BY <2>4, <2>5, <2>6, SocketUpdate
  <1>6. ASSUME NEW s \in Socks, TaskRecvError(s) PROVE SocketsInv'
    <2> DEFINE r == [sock[s] EXCEPT !.stage = "deaf", !.err = FALSE]
    <2>1. SocketOK(r) /\ WindowOK(r)
      BY <1>6 DEF TaskRecvError, SocketsInv, SocketOK, WindowOK, Socket
    <2>2. sock' = [sock EXCEPT ![s] = r]
      BY <1>6 DEF TaskRecvError, SocketsInv, Socket
    <2> HIDE DEF r
    <2> QED BY <2>1, <2>2, SocketUpdate
  <1>7. ASSUME NEW s \in Socks, TaskReply(s) PROVE SocketsInv'
    <2> DEFINE b == sock[s].bounced \/ sock[s].peer \cap open = {}
               r == [sock[s] EXCEPT !.stage = "select", !.hand = << >>,
                                    !.bounced = b]
    <2>1. b \in BOOLEAN
      BY DEF SocketsInv, Socket
    <2>2. SocketOK(r) /\ WindowOK(r)
      <3> HIDE DEF b
      <3> QED BY <1>7, <2>1 DEF TaskReply, SocketsInv, SocketOK, WindowOK, Socket
    <2>3. sock' = [sock EXCEPT ![s] = r]
      BY <1>7 DEF TaskReply, SocketsInv, Socket
    <2> HIDE DEF b, r
    <2> QED BY <2>2, <2>3, SocketUpdate
  <1>8. ASSUME NEW s \in Socks, TaskReplyFails(s) \/ TaskTimeout(s)
        PROVE  SocketsInv'
    <2>1. sock' = [sock EXCEPT ![s] = Free]
      BY <1>8 DEF TaskReplyFails, TaskTimeout
    <2> QED BY <2>1, FreeFacts, SocketUpdate
  <1>9. ASSUME NEW s \in Socks, Refuse(s) PROVE SocketsInv'
    <2> DEFINE r == [sock[s] EXCEPT !.bounced = FALSE, !.err = TRUE]
    <2>1. SocketOK(r) /\ WindowOK(r)
      BY <1>9 DEF Refuse, SocketsInv, SocketOK, WindowOK, Socket
    <2>2. sock' = [sock EXCEPT ![s] = r]
      BY <1>9 DEF Refuse, SocketsInv, Socket
    <2> HIDE DEF r
    <2> QED BY <2>1, <2>2, SocketUpdate
  <1>10. ASSUME NEW c \in Clients, Arrive(c) PROVE SocketsInv'
    <2>1. ASSUME NEW s \in Socks, s \in ConnectedTo(c) \/ s \in Unconnected,
                 ToTask(s, c)
          PROVE  SocketsInv'
      <3> DEFINE d == [from |-> c, window |-> sock[s].stage = "bound"]
                 q == Enqueue(sock[s].q, d)
                 r == [sock[s] EXCEPT !.q = q]
      <3>1. sock[s] \in Socket /\ SocketOK(sock[s]) /\ WindowOK(sock[s])
        BY DEF SocketsInv
      <3>2. d \in Datagram
        BY <1>10 DEF Datagram
      <3>3. /\ q \in Seq(Datagram) /\ Len(q) <= QueueCap
            /\ \A i \in DOMAIN q :
                 \/ i \in DOMAIN sock[s].q /\ q[i] = sock[s].q[i]
                 \/ q[i] = d
        <4>1. sock[s].q \in Seq(Datagram) /\ Len(sock[s].q) <= QueueCap
          BY <3>1 DEF SocketOK, Socket
        <4> HIDE DEF d
        <4> QED BY <3>2, <4>1, EnqueueFacts
      <3>4. sock[s].stage # "free" /\ (d.window \/ d.from \in sock[s].peer)
        BY <2>1, <3>1 DEF ConnectedTo, Unconnected, WindowOK, Socket, SocketOK
      <3>5. sock' = [sock EXCEPT ![s] = r]
        BY <2>1 DEF ToTask, SocketsInv, Socket
      <3> HIDE DEF d, q
      <3>6. SocketOK(r) /\ WindowOK(r)
        BY <3>1, <3>3, <3>4 DEF SocketOK, WindowOK, Socket
      <3> HIDE DEF r
      <3> QED BY <3>5, <3>6, SocketUpdate
    <2>2. CASE ToMain(c)
      BY <2>2 DEF ToMain, SocketsInv
    <2> QED BY <1>10, <2>1, <2>2 DEF Arrive, ConnectedTo, Unconnected
  <1>11. ASSUME NEW c \in Clients, Close(c) \/ Reopen(c) PROVE SocketsInv'
    BY <1>11 DEF Close, Reopen, SocketsInv
  <1> QED BY <1>1, <1>2, <1>3, <1>4, <1>5, <1>6, <1>7, <1>8, <1>9, <1>10, <1>11
          DEF Next, Main, Task

\* So it always holds.
LEMMA Invariance == Spec => []IInv
  <1>1. ASSUME IInv, [Next]_vars PROVE IInv'
    BY <1>1, MainTypesStep, ClientTypesStep, SocketsStep DEF IInv
  <1> QED BY <1>1, InitInv, PTL DEF Spec

-----------------------------------------------------------------------------
\* No receive queue exceeds its capacity, and a task holds one request at most.
THEOREM TypeInvariance == Spec => []TypeOK
  BY Invariance, InvImplies, PTL

\* A task that answers a request of somebody else has taken it in between the
\* bind and the connect of its socket, and never later.
THEOREM StraysOnlyInWindow == Spec => []StrayOnlyInWindow
  BY Invariance, InvImplies, PTL

-----------------------------------------------------------------------------
(* No request is answered twice: those a client has sent are at least those *)
(* answered and those the server still holds, in the queue of the main      *)
(* socket, in the queue of a task's socket, or in the hand of a task.  The  *)
(* server moves a request from one of these places to another, drops it or  *)
(* answers it, and never copies it.                                         *)

\* Where a queue of senders holds a request of client c.
Places(q, c) == {i \in DOMAIN q : q[i] = c}

\* Socket record r holds a request of client c at place i; 0 is the hand.
Holds(r, i, c) ==
    \/ i = 0 /\ r.hand # << >> /\ r.hand[1].from = c
    \/ i \in DOMAIN r.q /\ r.q[i].from = c

\* Where the sockets k hold a request of client c.
Slots(k, c) == {p \in Socks \X Nat : Holds(k[p[1]], p[2], c)}

Balance ==
    \A c \in Clients :
        /\ IsFiniteSet(Slots(sock, c))
        /\ answered[c] + Cardinality(Places(mainQ, c))
             + Cardinality(Slots(sock, c)) <= asked[c]

\* A queue has finitely many places.
LEMMA PlacesFinite ==
    ASSUME NEW q \in Seq(Clients), NEW c
    PROVE  IsFiniteSet(Places(q, c)) /\ Cardinality(Places(q, c)) \in Nat
  <1>1. Places(q, c) \in SUBSET (1 .. Len(q)) /\ Len(q) \in Nat
    BY DEF Places
  <1>2. IsFiniteSet(1 .. Len(q))
    BY <1>1, FS_Interval
  <1>3. IsFiniteSet(Places(q, c))
    BY <1>1, <1>2, FS_Subset
  <1> QED BY <1>3, FS_CardinalityType

\* Without its first request a queue holds one less of that client's, and no
\* more of the others'.
LEMMA PlacesTail ==
    ASSUME NEW q \in Seq(Clients), q # << >>, NEW c
    PROVE  /\ Cardinality(Places(Tail(q), c)) <= Cardinality(Places(q, c))
           /\ Head(q) = c =>
                Cardinality(Places(Tail(q), c)) + 1 <= Cardinality(Places(q, c))
  <1> DEFINE A == Places(Tail(q), c)
             B == Places(q, c)
             f == [i \in A |-> i + 1]
  <1>1. IsFiniteSet(B) /\ Cardinality(B) \in Nat
    BY PlacesFinite
  <1>2. A \subseteq Nat /\ \A i \in A : i + 1 \in B \ {1}
    BY TailFacts DEF Places
  <1>3. IsFiniteSet(B \ {1})
        /\ Cardinality(B \ {1}) =
             IF 1 \in B THEN Cardinality(B) - 1 ELSE Cardinality(B)
    BY <1>1, FS_RemoveElement
  <1>4. f \in Injection(A, B \ {1})
    <2> HIDE DEF A, B
    <2> QED BY <1>2 DEF Injection, IsInjective
  <1>5. Cardinality(A) <= Cardinality(B \ {1}) /\ IsFiniteSet(A)
    <2> HIDE DEF A, B, f
    <2> QED BY <1>3, <1>4, FS_Injection
  <1>6. Cardinality(A) \in Nat
    BY <1>5, FS_CardinalityType
  <1>7. Head(q) = c => 1 \in B
    BY TailFacts DEF Places
  <1> HIDE DEF A, B
  <1>8. Cardinality(A) <= Cardinality(B)
        /\ (Head(q) = c => Cardinality(A) + 1 <= Cardinality(B))
    BY <1>1, <1>3, <1>5, <1>6, <1>7
  <1> QED BY <1>8 DEF A, B

\* A request that reaches a queue takes one place at most.
LEMMA PlacesEnqueue ==
    ASSUME NEW q \in Seq(Clients), NEW d \in Clients, NEW c
    PROVE  /\ Cardinality(Places(Enqueue(q, d), c)) <= Cardinality(Places(q, c)) + 1
           /\ d # c =>
                Cardinality(Places(Enqueue(q, d), c)) <= Cardinality(Places(q, c))
  <1> DEFINE A == Places(Enqueue(q, d), c)
             B == Places(q, c)
             n == Len(q) + 1
  <1>1. IsFiniteSet(B) /\ Cardinality(B) \in Nat
    BY PlacesFinite
  <1>2. A \subseteq B \cup {n} /\ (d # c => A \subseteq B)
    BY DEF Places, Enqueue
  <1>3. /\ IsFiniteSet(B \cup {n})
        /\ Cardinality(B \cup {n}) =
             IF n \in B THEN Cardinality(B) ELSE Cardinality(B) + 1
    BY <1>1, FS_AddElement
  <1>4. Cardinality(A) <= Cardinality(B \cup {n}) /\ IsFiniteSet(A)
    <2> HIDE DEF A, B, n
    <2> QED BY <1>2, <1>3, FS_Subset
  <1>5. d # c => Cardinality(A) <= Cardinality(B)
    <2> HIDE DEF A, B, n
    <2> QED BY <1>1, <1>2, FS_Subset
  <1>6. Cardinality(A) \in Nat
    BY <1>4, FS_CardinalityType
  <1> HIDE DEF A, B, n
  <1>7. Cardinality(A) <= Cardinality(B) + 1
    BY <1>1, <1>3, <1>4, <1>6
  <1> QED BY <1>5, <1>7 DEF A, B

\* The numbers that Balance adds are numbers.
LEMMA BalanceTypes ==
    ASSUME IInv, Balance, NEW c \in Clients
    PROVE  /\ answered[c] \in Nat /\ asked[c] \in Nat
           /\ Cardinality(Places(mainQ, c)) \in Nat
           /\ Cardinality(Slots(sock, c)) \in Nat
  <1>1. answered[c] \in Nat /\ asked[c] \in Nat
    BY DEF IInv, ClientTypes
  <1>2. Cardinality(Places(mainQ, c)) \in Nat
    BY PlacesFinite DEF IInv, MainTypes
  <1>3. Cardinality(Slots(sock, c)) \in Nat
    BY FS_CardinalityType DEF Balance
  <1> QED BY <1>1, <1>2, <1>3

\* A step after which the sockets hold no more requests of client c.
NoMore(c) ==
    /\ IsFiniteSet(Slots(sock', c))
    /\ Cardinality(Slots(sock', c)) <= Cardinality(Slots(sock, c))

\* What the change of one socket to r changes.
LEMMA SlotsOf ==
    ASSUME IInv, NEW s \in Socks, NEW r, sock' = [sock EXCEPT ![s] = r]
    PROVE  /\ sock'[s] = r /\ \A t \in Socks \ {s} : sock'[t] = sock[t]
           /\ sock[s] \in Socket /\ SocketOK(sock[s])
           /\ sock[s].q \in Seq(Datagram) /\ sock[s].hand \in Seq(Datagram)
  BY DEF IInv, SocketsInv, Socket

\* A socket that holds nothing new.
LEMMA SlotsLost ==
    ASSUME IInv, Balance, NEW s \in Socks, NEW r, sock' = [sock EXCEPT ![s] = r],
           NEW c \in Clients,
           \A i \in Nat : Holds(r, i, c) => Holds(sock[s], i, c)
    PROVE  Slots(sock', c) \subseteq Slots(sock, c) /\ NoMore(c)
  <1>1. sock'[s] = r /\ \A t \in Socks \ {s} : sock'[t] = sock[t]
    BY SlotsOf
  <1>2. ASSUME NEW p \in Socks \X Nat, Holds(sock'[p[1]], p[2], c)
        PROVE  Holds(sock[p[1]], p[2], c)
    BY <1>1, <1>2
  <1>3. Slots(sock', c) \in SUBSET Slots(sock, c)
    BY <1>2 DEF Slots
  <1>4. IsFiniteSet(Slots(sock, c))
    BY DEF Balance
  <1> QED BY <1>3, <1>4, FS_Subset DEF NoMore

\* A socket whose requests have moved by one place.
LEMMA SlotsMoved ==
    ASSUME IInv, Balance, NEW s \in Socks, NEW r, sock' = [sock EXCEPT ![s] = r],
           NEW c \in Clients,
           \A i \in Nat : Holds(r, i, c) => Holds(sock[s], i + 1, c)
    PROVE  NoMore(c)
  <1> DEFINE A == Slots(sock', c)
             B == Slots(sock, c)
             f == [p \in A |-> IF p[1] = s THEN << s, p[2] + 1 >> ELSE p]
  <1>1. sock'[s] = r /\ \A t \in Socks \ {s} : sock'[t] = sock[t]
    BY SlotsOf
  <1>2. A \subseteq Socks \X Nat
    BY DEF Slots
  <1>3. ASSUME NEW p \in A PROVE f[p] \in B
    <2>1. p \in Socks \X Nat /\ Holds(sock'[p[1]], p[2], c)
      BY <1>3 DEF Slots
    <2>2. CASE p[1] = s
      <3>1. p[2] \in Nat /\ Holds(sock[s], p[2] + 1, c)
        BY <1>1, <2>1, <2>2
      <3>2. f[p] = << s, p[2] + 1 >>
        BY <1>3, <2>2
      <3>3. << s, p[2] + 1 >> \in Socks \X Nat
        BY <3>1
      <3> HIDE DEF f
      <3> QED BY <3>1, <3>2, <3>3 DEF Slots
    <2>3. CASE p[1] # s
      <3>1. Holds(sock[p[1]], p[2], c) /\ f[p] = p
        BY <1>1, <1>3, <2>1, <2>3
      <3> HIDE DEF f
      <3> QED BY <2>1, <3>1 DEF Slots
    <2> QED BY <2>2, <2>3
  <1>4. ASSUME NEW p \in A, NEW u \in A, f[p] = f[u] PROVE p = u
    <2>1. /\ p = << p[1], p[2] >> /\ p[2] \in Nat
          /\ u = << u[1], u[2] >> /\ u[2] \in Nat
      <3>1. p \in Socks \X Nat /\ u \in Socks \X Nat
        BY <1>2
      <3> HIDE DEF A, f
      <3> QED BY <3>1
    <2>2. /\ f[p] = IF p[1] = s THEN << s, p[2] + 1 >> ELSE p
          /\ f[u] = IF u[1] = s THEN << s, u[2] + 1 >> ELSE u
      OBVIOUS
    <2>3. f[p][1] = p[1] /\ f[u][1] = u[1]
      BY <2>1, <2>2
    <2>4. p[1] = u[1]
      BY <1>4, <2>3
    <2>5. CASE p[1] = s
      <3>1. p[2] + 1 = u[2] + 1
        BY <1>4, <2>2, <2>4, <2>5
      <3>2. p[2] = u[2]
        BY <2>1, <3>1
      <3> QED BY <2>1, <2>4, <3>2
    <2>6. CASE p[1] # s
      BY <1>4, <2>2, <2>4, <2>6
    <2> QED BY <2>5, <2>6
  <1>5. f \in Injection(A, B)
    <2>1. f \in [A -> B] /\ DOMAIN f = A
      BY <1>3
    <2> HIDE DEF A, B, f
    <2> QED BY <1>4, <2>1 DEF Injection, IsInjective
  <1>6. IsFiniteSet(B)
    BY DEF Balance
  <1>7. IsFiniteSet(A) /\ Cardinality(A) <= Cardinality(B)
    <2> HIDE DEF A, B, f
    <2> QED BY <1>5, <1>6, FS_Injection
  <1> QED BY <1>7 DEF NoMore

\* A step that answers nothing, and by which no socket holds anything new.
LEMMA BalanceKept ==
    ASSUME IInv, Balance, UNCHANGED << asked, answered, mainQ >>,
           \A c \in Clients : NoMore(c)
    PROVE  Balance'
  <1> SUFFICES ASSUME NEW c \in Clients
               PROVE  /\ IsFiniteSet(Slots(sock', c))
                      /\ answered[c] + Cardinality(Places(mainQ, c))
                           + Cardinality(Slots(sock', c)) <= asked[c]
    BY DEF Balance
  <1>1. answered[c] + Cardinality(Places(mainQ, c))
          + Cardinality(Slots(sock, c)) <= asked[c]
    BY DEF Balance
  <1>2. /\ IsFiniteSet(Slots(sock', c))
        /\ Cardinality(Slots(sock', c)) <= Cardinality(Slots(sock, c))
    BY DEF NoMore
  <1>3. Cardinality(Slots(sock', c)) \in Nat
    BY <1>2, FS_CardinalityType
  <1> QED BY <1>1, <1>2, <1>3, BalanceTypes

\* A socket that is not touched.
LEMMA SlotsSame ==
    ASSUME Balance, sock' = sock PROVE \A c \in Clients : NoMore(c)
  <1> SUFFICES ASSUME NEW c \in Clients PROVE NoMore(c)
    OBVIOUS
  <1>1. IsFiniteSet(Slots(sock, c)) /\ Cardinality(Slots(sock, c)) \in Nat
    BY FS_CardinalityType DEF Balance
  <1> QED BY <1>1 DEF NoMore

\* The steps by which requests stay where they are, or are dropped.
LEMMA BalanceQuiet ==
    ASSUME IInv, Balance,
           \/ UNCHANGED vars
           \/ MainEchoFails \/ MainBind \/ MainBindFails \/ MainConnect
           \/ \E s \in Socks : \/ TaskRecvError(s) \/ TaskReplyFails(s)
                               \/ TaskTimeout(s) \/ Refuse(s)
           \/ \E c \in Clients : Close(c) \/ Reopen(c)
    PROVE  Balance'
  <1>1. CASE \/ UNCHANGED vars \/ MainEchoFails \/ MainBindFails
             \/ \E c \in Clients : Close(c) \/ Reopen(c)
    <2>1. sock' = sock /\ UNCHANGED << asked, answered, mainQ >>
      BY <1>1 DEF vars, mainVars, clientVars, MainEchoFails, MainBindFails, Close,
                  Reopen
    <2> QED BY <2>1, SlotsSame, BalanceKept
  <1>2. ASSUME NEW s \in Socks, NEW r, sock' = [sock EXCEPT ![s] = r],
               UNCHANGED << asked, answered, mainQ >>,
               \/ r = Free
               \/ r.q = sock[s].q /\ r.hand = sock[s].hand
        PROVE  Balance'
    <2>1. \A c \in Clients : \A i \in Nat : Holds(r, i, c) => Holds(sock[s], i, c)
      BY <1>2 DEF Holds, Free
    <2>2. \A c \in Clients : NoMore(c)
      BY <1>2, <2>1, SlotsLost
    <2> QED BY <1>2, <2>2, BalanceKept
  <1>3. sock \in [Socks -> Socket]
    BY DEF IInv, SocketsInv
  <1>4. CASE MainBind
    <2> PICK s \in Socks : sock' = [sock EXCEPT ![s].stage = "bound"]
      BY <1>4 DEF MainBind
    <2> DEFINE r == [sock[s] EXCEPT !.stage = "bound"]
    <2>1. sock' = [sock EXCEPT ![s] = r]
          /\ r.q = sock[s].q /\ r.hand = sock[s].hand
      BY <1>3 DEF Socket
    <2>2. UNCHANGED << asked, answered, mainQ >>
      BY <1>4 DEF MainBind, clientVars
    <2> HIDE DEF r
    <2> QED BY <1>2, <2>1, <2>2
  <1>5. CASE MainConnect
    <2> PICK s \in Socks : sock' = [sock EXCEPT ![s].stage = "select",
                                                ![s].peer = cur]
      BY <1>5 DEF MainConnect
    <2> DEFINE r == [sock[s] EXCEPT !.stage = "select", !.peer = cur]
    <2>1. sock' = [sock EXCEPT ![s] = r]
          /\ r.q = sock[s].q /\ r.hand = sock[s].hand
      BY <1>3 DEF Socket
    <2>2. UNCHANGED << asked, answered, mainQ >>
      BY <1>5 DEF MainConnect, clientVars
    <2> HIDE DEF r
    <2> QED BY <1>2, <2>1, <2>2
  <1>6. ASSUME NEW s \in Socks, TaskRecvError(s) PROVE Balance'
    <2> DEFINE r == [sock[s] EXCEPT !.stage = "deaf", !.err = FALSE]
    <2>1. sock' = [sock EXCEPT ![s] = r]
          /\ r.q = sock[s].q /\ r.hand = sock[s].hand
      BY <1>3, <1>6 DEF Socket, TaskRecvError
    <2>2. UNCHANGED << asked, answered, mainQ >>
      BY <1>6 DEF TaskRecvError, clientVars, mainVars
    <2> HIDE DEF r
    <2> QED BY <1>2, <2>1, <2>2
  <1>7. ASSUME NEW s \in Socks, Refuse(s) PROVE Balance'
    <2> DEFINE r == [sock[s] EXCEPT !.bounced = FALSE, !.err = TRUE]
    <2>1. sock' = [sock EXCEPT ![s] = r]
          /\ r.q = sock[s].q /\ r.hand = sock[s].hand
      BY <1>3, <1>7 DEF Socket, Refuse
    <2>2. UNCHANGED << asked, answered, mainQ >>
      BY <1>7 DEF Refuse, clientVars, mainVars
    <2> HIDE DEF r
    <2> QED BY <1>2, <2>1, <2>2
  <1>8. ASSUME NEW s \in Socks, TaskReplyFails(s) \/ TaskTimeout(s) PROVE Balance'
    <2>1. sock' = [sock EXCEPT ![s] = Free] /\ UNCHANGED << asked, answered, mainQ >>
      BY <1>8 DEF TaskReplyFails, TaskTimeout, clientVars, mainVars
    <2> QED BY <1>2, <2>1
  <1> QED BY <1>1, <1>4, <1>5, <1>6, <1>7, <1>8

\* A task takes a request out of the queue of its socket.
LEMMA BalanceRecv ==
    ASSUME IInv, Balance, NEW s \in Socks, TaskRecv(s) PROVE Balance'
  <1> DEFINE d == Head(sock[s].q)
             r == [sock[s] EXCEPT !.stage = "reply", !.hand = << d >>,
                                  !.q = Tail(@)]
  <1>1. /\ sock[s] \in Socket /\ sock[s].q \in Seq(Datagram) /\ sock[s].q # << >>
        /\ sock \in [Socks -> Socket]
    BY DEF IInv, SocketsInv, Socket, TaskRecv
  <1>2. sock' = [sock EXCEPT ![s] = r]
    BY <1>1 DEF TaskRecv, Socket
  <1>3. r.q = Tail(sock[s].q) /\ r.hand = << d >> /\ << d >>[1] = d
    BY <1>1 DEF Socket
  <1>4. /\ d = sock[s].q[1] /\ 1 \in DOMAIN sock[s].q
        /\ \A i \in DOMAIN Tail(sock[s].q) :
             i + 1 \in DOMAIN sock[s].q /\ Tail(sock[s].q)[i] = sock[s].q[i + 1]
    BY <1>1, TailFacts
  <1> HIDE DEF r, d
  <1>5. ASSUME NEW c \in Clients, NEW i \in Nat, Holds(r, i, c)
        PROVE  Holds(sock[s], i + 1, c)
    <2>1. CASE i = 0 /\ d.from = c
      BY <1>4, <2>1 DEF Holds
    <2>2. CASE i \in DOMAIN Tail(sock[s].q) /\ Tail(sock[s].q)[i].from = c
      BY <1>4, <2>2 DEF Holds
    <2> QED BY <1>3, <1>5, <2>1, <2>2 DEF Holds
  <1>6. \A c \in Clients : NoMore(c)
    BY <1>2, <1>5, SlotsMoved
  <1>7. UNCHANGED << asked, answered, mainQ >>
    BY DEF TaskRecv, mainVars, clientVars
  <1> QED BY <1>6, <1>7, BalanceKept

\* A task answers the request in its hand: its sender has one place less, and one
\* more of that sender's requests is answered.
LEMMA BalanceReply ==
    ASSUME IInv, Balance, NEW s \in Socks, TaskReply(s)
    PROVE  /\ Balance'
           /\ sock[s].hand[1].from \in Clients
           /\ answered[sock[s].hand[1].from] < asked[sock[s].hand[1].from]
  <1> DEFINE x == sock[s].hand[1].from
             b == sock[s].bounced \/ sock[s].peer \cap open = {}
             r == [sock[s] EXCEPT !.stage = "select", !.hand = << >>,
                                  !.bounced = b]
  <1>1. /\ sock[s] \in Socket /\ sock[s].q \in Seq(Datagram)
        /\ sock[s].hand \in Seq(Datagram) /\ Len(sock[s].hand) = 1
        /\ sock \in [Socks -> Socket]
    BY DEF IInv, SocketsInv, SocketOK, Socket, TaskReply
  <1>2. sock[s].hand[1] \in Datagram /\ sock[s].hand # << >>
    BY <1>1, OneFacts
  <1>3. x \in Clients
    BY <1>2 DEF Datagram
  <1>4. sock' = [sock EXCEPT ![s] = r]
    BY <1>1 DEF TaskReply, Socket
  <1>5. r.q = sock[s].q /\ r.hand = << >>
    BY <1>1 DEF Socket
  <1>6. answered' = [answered EXCEPT ![x] = @ + 1]
    BY DEF TaskReply, Answered
  <1>7. UNCHANGED << asked, mainQ >>
    BY DEF TaskReply, mainVars, clientVars
  <1> HIDE DEF r, b, x
  <1>8. ASSUME NEW c \in Clients
        PROVE  Slots(sock', c) \subseteq Slots(sock, c) /\ NoMore(c)
    <2>1. \A i \in Nat : Holds(r, i, c) => Holds(sock[s], i, c)
      BY <1>5 DEF Holds
    <2> QED BY <1>4, <2>1, SlotsLost
  <1>9. Cardinality(Slots(sock', x)) + 1 <= Cardinality(Slots(sock, x))
    <2> DEFINE A == Slots(sock', x)
               B == Slots(sock, x)
               p == << s, 0 >>
    <2>1. p \in B
      <3>1. Holds(sock[s], 0, x)
        BY <1>2 DEF Holds, x
      <3> QED BY <3>1 DEF Slots
    <2>2. p \notin A
      <3>1. sock'[s] = r
        BY <1>1, <1>4
      <3>2. ~Holds(r, 0, x)
        BY <1>1, <1>5 DEF Holds
      <3> QED BY <3>1, <3>2 DEF Slots
    <2>3. A \subseteq B \ {p}
      BY <1>3, <1>8, <2>2
    <2>4. IsFiniteSet(B)
      BY <1>3 DEF Balance
    <2> HIDE DEF A, B, p
    <2>5. IsFiniteSet(B \ {p}) /\ Cardinality(B \ {p}) = Cardinality(B) - 1
      BY <2>1, <2>4, FS_RemoveElement
    <2>6. Cardinality(A) <= Cardinality(B) - 1 /\ IsFiniteSet(A)
      BY <2>3, <2>5, FS_Subset
    <2>7. Cardinality(A) \in Nat /\ Cardinality(B) \in Nat
      BY <2>4, <2>6, FS_CardinalityType
    <2>8. Cardinality(A) + 1 <= Cardinality(B)
      BY <2>6, <2>7
    <2> QED BY <2>8 DEF A, B
  <1>10. ASSUME NEW c \in Clients
         PROVE  Cardinality(Slots(sock', c)) \in Nat
    BY <1>8, FS_CardinalityType DEF NoMore
  <1>11. answered[x] < asked[x]
    <2>1. answered[x] + Cardinality(Places(mainQ, x)) + Cardinality(Slots(sock, x))
            <= asked[x]
      BY <1>3 DEF Balance
    <2> QED BY <1>3, <1>9, <1>10, <2>1, BalanceTypes
  <1>12. ASSUME NEW c \in Clients
         PROVE  answered'[c] + Cardinality(Places(mainQ, c))
                  + Cardinality(Slots(sock', c)) <= asked[c]
    <2>1. answered[c] + Cardinality(Places(mainQ, c)) + Cardinality(Slots(sock, c))
            <= asked[c]
      BY DEF Balance
    <2>2. answered \in [Clients -> Nat]
      BY DEF IInv, ClientTypes
    <2>3. CASE c = x
      <3>1. answered'[c] = answered[c] + 1
        BY <1>3, <1>6, <2>2, <2>3
      <3>2. Cardinality(Slots(sock', c)) + 1 <= Cardinality(Slots(sock, c))
        BY <1>9, <2>3
      <3> QED BY <1>10, <2>1, <3>1, <3>2, BalanceTypes
    <2>4. CASE c # x
      <3>1. answered'[c] = answered[c]
        BY <1>6, <2>2, <2>4
      <3>2. Cardinality(Slots(sock', c)) <= Cardinality(Slots(sock, c))
        BY <1>8 DEF NoMore
      <3> QED BY <1>10, <2>1, <3>1, <3>2, BalanceTypes
    <2> QED BY <2>3, <2>4
  <1>13. Balance'
    BY <1>7, <1>8, <1>12 DEF Balance, NoMore
  <1> QED BY <1>3, <1>11, <1>13 DEF x

\* Main answers the request at the head of its queue.
LEMMA BalanceMain ==
    ASSUME IInv, Balance, MainEcho
    PROVE  /\ Balance'
           /\ Head(mainQ) \in Clients
           /\ answered[Head(mainQ)] < asked[Head(mainQ)]
  <1> DEFINE x == Head(mainQ)
  <1>1. mainQ \in Seq(Clients) /\ mainQ # << >>
    BY DEF IInv, MainTypes, MainEcho
  <1>2. x \in Clients /\ Tail(mainQ) \in Seq(Clients)
    BY <1>1, TailFacts
  <1>3. /\ mainQ' = Tail(mainQ) /\ UNCHANGED << asked, sock >>
        /\ answered' = [answered EXCEPT ![x] = @ + 1]
    BY DEF MainEcho, Answered, clientVars
  <1> HIDE DEF x
  <1>4. answered \in [Clients -> Nat]
    BY DEF IInv, ClientTypes
  <1>5. ASSUME NEW c \in Clients
        PROVE  /\ Cardinality(Places(mainQ', c)) \in Nat
               /\ Cardinality(Places(mainQ', c)) <= Cardinality(Places(mainQ, c))
               /\ c = x => Cardinality(Places(mainQ', c)) + 1
                             <= Cardinality(Places(mainQ, c))
    BY <1>1, <1>2, <1>3, PlacesTail, PlacesFinite DEF x
  <1>6. ASSUME NEW c \in Clients
        PROVE  answered[c] + Cardinality(Places(mainQ, c))
                 + Cardinality(Slots(sock, c)) <= asked[c]
    BY DEF Balance
  <1>7. answered[x] < asked[x]
    <2>1. /\ answered[x] \in Nat /\ asked[x] \in Nat
          /\ Cardinality(Places(mainQ, x)) \in Nat
          /\ Cardinality(Slots(sock, x)) \in Nat
      BY <1>2, BalanceTypes
    <2>2. /\ Cardinality(Places(mainQ', x)) \in Nat
          /\ Cardinality(Places(mainQ', x)) + 1 <= Cardinality(Places(mainQ, x))
      BY <1>2, <1>5
    <2>3. answered[x] + Cardinality(Places(mainQ, x))
            + Cardinality(Slots(sock, x)) <= asked[x]
      BY <1>2, <1>6
    <2> QED BY <2>1, <2>2, <2>3
  <1>8. ASSUME NEW c \in Clients
        PROVE  answered'[c] + Cardinality(Places(mainQ', c))
                 + Cardinality(Slots(sock, c)) <= asked[c]
    <2>1. CASE c = x
      <3>1. answered'[c] = answered[c] + 1
        BY <1>2, <1>3, <1>4, <2>1
      <3>2. /\ Cardinality(Places(mainQ', c)) \in Nat
            /\ Cardinality(Places(mainQ', c)) + 1 <= Cardinality(Places(mainQ, c))
        BY <1>5, <2>1
      <3> QED BY <1>6, <3>1, <3>2, BalanceTypes
    <2>2. CASE c # x
      <3>1. answered'[c] = answered[c]
        BY <1>3, <1>4, <2>2
      <3>2. /\ Cardinality(Places(mainQ', c)) \in Nat
            /\ Cardinality(Places(mainQ', c)) <= Cardinality(Places(mainQ, c))
        BY <1>5
      <3> QED BY <1>6, <3>1, <3>2, BalanceTypes
    <2> QED BY <2>1, <2>2
  <1>9. Balance'
    BY <1>3, <1>8 DEF Balance
  <1> QED BY <1>2, <1>7, <1>9 DEF x

\* A request arrives: it takes one place at most.
LEMMA BalanceArrive ==
    ASSUME IInv, Balance, NEW x \in Clients, Arrive(x) PROVE Balance'
  <1>1. /\ asked' = [asked EXCEPT ![x] = @ + 1] /\ answered' = answered
        /\ asked \in [Clients -> 0 .. MaxAsk]
    BY DEF Arrive, IInv, ClientTypes
  <1>2. ASSUME NEW c \in Clients
        PROVE  /\ c = x => asked'[c] = asked[c] + 1
               /\ c # x => asked'[c] = asked[c]
    BY <1>1
  <1>3. ASSUME NEW c \in Clients
        PROVE  /\ IsFiniteSet(Slots(sock, c))
               /\ answered[c] + Cardinality(Places(mainQ, c))
                    + Cardinality(Slots(sock, c)) <= asked[c]
    BY DEF Balance
  <1>4. CASE ToMain(x)
    <2>1. mainQ' = Enqueue(mainQ, x) /\ sock' = sock /\ mainQ \in Seq(Clients)
      BY <1>4 DEF ToMain, IInv, MainTypes
    <2>2. ASSUME NEW c \in Clients
          PROVE  /\ Cardinality(Places(mainQ', c)) \in Nat
                 /\ Cardinality(Places(mainQ', c))
                      <= Cardinality(Places(mainQ, c)) + 1
                 /\ c # x => Cardinality(Places(mainQ', c))
                               <= Cardinality(Places(mainQ, c))
      <3>1. mainQ' \in Seq(Clients)
        BY <2>1, EnqueueFacts DEF IInv, MainTypes
      <3> QED BY <2>1, <3>1, PlacesFinite, PlacesEnqueue
    <2>3. ASSUME NEW c \in Clients
          PROVE  answered[c] + Cardinality(Places(mainQ', c))
                   + Cardinality(Slots(sock, c)) <= asked'[c]
      BY <1>2, <1>3, <2>2, BalanceTypes
    <2> QED BY <1>1, <1>3, <2>1, <2>3 DEF Balance
  <1>5. ASSUME NEW s \in Socks, ToTask(s, x) PROVE Balance'
    <2> DEFINE d == [from |-> x, window |-> sock[s].stage = "bound"]
               q == Enqueue(sock[s].q, d)
               r == [sock[s] EXCEPT !.q = q]
               n == Len(sock[s].q) + 1
               p == << s, n >>
    <2>1. /\ sock[s] \in Socket /\ sock[s].q \in Seq(Datagram)
          /\ sock \in [Socks -> Socket] /\ mainQ' = mainQ
      BY <1>5 DEF IInv, SocketsInv, Socket, ToTask
    <2>2. sock' = [sock EXCEPT ![s] = r]
      BY <1>5, <2>1 DEF ToTask, Socket
    <2>3. /\ r.q = q /\ r.hand = sock[s].hand
          /\ d.from = x
      BY <2>1 DEF Socket
    <2>4. \A i \in DOMAIN q : \/ i \in DOMAIN sock[s].q /\ q[i] = sock[s].q[i]
                              \/ i = n /\ q[i] = d
      <3> HIDE DEF d
      <3> QED BY <2>1 DEF Enqueue
    <2> HIDE DEF d, q, r, n
    <2>5. ASSUME NEW c \in Clients, NEW i \in Nat, Holds(r, i, c)
          PROVE  Holds(sock[s], i, c) \/ (i = n /\ c = x)
      BY <2>3, <2>4, <2>5 DEF Holds
    <2>6. sock'[s] = r /\ \A t \in Socks \ {s} : sock'[t] = sock[t]
      BY <2>2, SlotsOf
    <2>7. ASSUME NEW c \in Clients
          PROVE  /\ Slots(sock', c) \subseteq Slots(sock, c) \cup {p}
                 /\ c # x => Slots(sock', c) \subseteq Slots(sock, c)
      <3>1. ASSUME NEW u \in Slots(sock', c)
            PROVE  u \in Slots(sock, c) \/ (u = p /\ c = x)
        <4>1. u \in Socks \X Nat /\ Holds(sock'[u[1]], u[2], c)
          BY <3>1 DEF Slots
        <4>2. u = << u[1], u[2] >> /\ u[1] \in Socks /\ u[2] \in Nat
          BY <4>1
        <4>3. CASE Holds(sock[u[1]], u[2], c)
          BY <4>1, <4>3 DEF Slots
        <4>4. CASE ~Holds(sock[u[1]], u[2], c)
          <5>1. u[1] = s
            BY <2>6, <4>1, <4>2, <4>4
          <5>2. u[2] = n /\ c = x
            BY <2>5, <2>6, <4>1, <4>2, <4>4, <5>1
          <5> QED BY <4>2, <5>1, <5>2
        <4> QED BY <4>3, <4>4
      <3> HIDE DEF p
      <3> QED BY <3>1
    <2>8. ASSUME NEW c \in Clients
          PROVE  /\ IsFiniteSet(Slots(sock', c))
                 /\ Cardinality(Slots(sock', c)) \in Nat
                 /\ Cardinality(Slots(sock', c)) <= Cardinality(Slots(sock, c)) + 1
                 /\ c # x => Cardinality(Slots(sock', c))
                               <= Cardinality(Slots(sock, c))
      <3> DEFINE A == Slots(sock', c)
                 B == Slots(sock, c)
      <3>1. IsFiniteSet(B) /\ Cardinality(B) \in Nat
        BY <1>3, FS_CardinalityType
      <3>2. A \subseteq B \cup {p} /\ (c # x => A \subseteq B)
        BY <2>7
      <3> HIDE DEF A, B, p
      <3>3. /\ IsFiniteSet(B \cup {p})
            /\ Cardinality(B \cup {p}) =
                 IF p \in B THEN Cardinality(B) ELSE Cardinality(B) + 1
        BY <3>1, FS_AddElement
      <3>4. IsFiniteSet(A) /\ Cardinality(A) <= Cardinality(B \cup {p})
        BY <3>2, <3>3, FS_Subset
      <3>5. c # x => Cardinality(A) <= Cardinality(B)
        BY <3>1, <3>2, FS_Subset
      <3>6. Cardinality(A) \in Nat
        BY <3>4, FS_CardinalityType
      <3>7. Cardinality(A) <= Cardinality(B) + 1
        BY <3>1, <3>3, <3>4, <3>6
      <3> QED BY <3>4, <3>5, <3>6, <3>7 DEF A, B
    <2>9. ASSUME NEW c \in Clients
          PROVE  answered[c] + Cardinality(Places(mainQ, c))
                   + Cardinality(Slots(sock', c)) <= asked'[c]
      BY <1>2, <1>3, <2>8, BalanceTypes
    <2> QED BY <1>1, <2>1, <2>8, <2>9 DEF Balance
  <1> QED BY <1>4, <1>5 DEF Arrive, ConnectedTo, Unconnected

\* Balance is inductive, given IInv.
LEMMA BalanceStep == ASSUME IInv, Balance, [Next]_vars PROVE Balance'
  BY BalanceQuiet, BalanceRecv, BalanceReply, BalanceMain, BalanceArrive
     DEF Next, Main, Task

\* It holds at first.
LEMMA BalanceInit == Init => Balance
  <1> SUFFICES ASSUME Init, NEW c \in Clients
               PROVE  /\ IsFiniteSet(Slots(sock, c))
                      /\ answered[c] + Cardinality(Places(mainQ, c))
                           + Cardinality(Slots(sock, c)) <= asked[c]
    BY DEF Balance
  <1>1. Places(mainQ, c) = {} /\ answered[c] = 0 /\ asked[c] = 0
    BY DEF Init, Places
  <1>2. Slots(sock, c) = {}
    BY DEF Init, Slots, Holds, Free
  <1> QED BY <1>1, <1>2, FS_EmptySet

\* So it always holds.
LEMMA BalanceInvariance == Spec => []Balance
  <1>1. ASSUME IInv, Balance, [Next]_vars PROVE Balance'
    BY <1>1, BalanceStep
  <1> QED BY <1>1, BalanceInit, Invariance, PTL DEF Spec

-----------------------------------------------------------------------------
\* Main and the tasks, which read from sockets on one port, implement the echo
\* service: each request is answered at most once, after it was made, and none
\* after the server has ended.
THEOREM UdpServerKeepsEcho == Spec => KeepsEcho
  <1> USE DEF Echo!vars, Up
  <1>1. Init => Echo!Init
    BY DEF Init, Echo!Init
  <1>2. ASSUME IInv, Balance, [Next]_vars PROVE [Echo!Next]_(Echo!vars)
    <2> USE <1>2
    <2>1. ASSUME NEW c \in Clients, Arrive(c) PROVE Echo!Ask(c)
      BY <2>1 DEF Arrive, Echo!Ask
    <2>2. CASE MainEcho
      <3>1. /\ Head(mainQ) \in Clients /\ answered[Head(mainQ)] < asked[Head(mainQ)]
        BY <2>2, BalanceMain
      <3>2. Echo!Answer(Head(mainQ))
        BY <2>2, <3>1 DEF MainEcho, Answered, clientVars, Echo!Answer
      <3> QED BY <3>1, <3>2 DEF Echo!Next
    <2>3. CASE MainEchoFails \/ MainBindFails
      <3>1. Echo!End
        BY <2>3 DEF MainEchoFails, MainBindFails, clientVars, Echo!End
      <3> QED BY <3>1 DEF Echo!Next
    <2>4. CASE MainBind \/ MainConnect
      BY <2>4 DEF MainBind, MainConnect, clientVars
    <2>5. ASSUME NEW s \in Socks, TaskReply(s) PROVE [Echo!Next]_(Echo!vars)
      <3> DEFINE x == sock[s].hand[1].from
      <3>1. x \in Clients /\ answered[x] < asked[x]
        BY <2>5, BalanceReply
      <3>2. Echo!Answer(x)
        BY <2>5, <3>1 DEF TaskReply, Answered, clientVars, mainVars, Echo!Answer
      <3> HIDE DEF x
      <3> QED BY <3>1, <3>2 DEF Echo!Next
    <2>6. ASSUME NEW s \in Socks,
                 \/ TaskRecv(s) \/ TaskRecvError(s) \/ TaskReplyFails(s)
                 \/ TaskTimeout(s) \/ Refuse(s)
          PROVE  UNCHANGED Echo!vars
      BY <2>6 DEF TaskRecv, TaskRecvError, TaskReplyFails, TaskTimeout, Refuse,
                  clientVars, mainVars
    <2>7. ASSUME NEW c \in Clients, Close(c) \/ Reopen(c)
          PROVE  UNCHANGED Echo!vars
      BY <2>7 DEF Close, Reopen, mainVars
    <2>8. CASE UNCHANGED vars
      BY <2>8 DEF vars, clientVars, mainVars
    <2> QED BY <2>1, <2>2, <2>3, <2>4, <2>5, <2>6, <2>7, <2>8
            DEF Next, Main, Task, Echo!Next
  <1> QED BY <1>1, <1>2, Invariance, BalanceInvariance, PTL
          DEF Spec, KeepsEcho, Echo!Spec
=============================================================================
