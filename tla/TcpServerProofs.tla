---------------------------- MODULE TcpServerProofs ----------------------------
(***************************************************************************)
(* Proofs about TcpServer, for any connections, window and bounds.         *)
(***************************************************************************)
EXTENDS TcpServer, WellFoundedInduction, TLAPS

\* The frame that the handler of c holds: read, and not yet answered.
Pending(c) == IF c \in serving THEN Len(frame) ELSE 0

\* What is on its way, numbered by what has been answered.  The frames of an
\* open connection are all somewhere; those of another may be lost.
CountInv ==
    /\ srv = "accept" => frame = << >>
    /\ \A c \in Conns :
         /\ answered[c] + Pending(c) + Len(toServer[c]) <= asked[c]
         /\ conn[c] \in {"none", "open"} =>
              asked[c] = answered[c] + Pending(c) + Len(toServer[c])

OrderInv ==
    \A c \in Conns :
        /\ conn[c] # "open" => toClient[c] = << >>
        /\ conn[c] \in {"none", "open"} =>
             answered[c] = got[c] + Len(toClient[c])
        /\ \A i \in DOMAIN toClient[c] : toClient[c][i] = got[c] + i
        /\ conn[c] \in {"none", "open"} =>
             /\ c \in serving /\ frame # << >> => frame[1] = answered[c] + 1
             /\ \A i \in DOMAIN toServer[c] :
                  toServer[c][i] = answered[c] + Pending(c) + i

-----------------------------------------------------------------------------
\* Sums that the counters need.
LEMMA CounterSums ==
    /\ \A n \in Nat \ {0} : n <= 1 => n = 1
    /\ \A a, p, l, x \in Nat :
         /\ a + p + l <= x => a + p + (l + 1) <= x + 1
         /\ x = a + p + l => x + 1 = a + p + (l + 1)
    /\ \A a, p, l \in Nat : a + (p + 1) + (l - 1) = a + p + l
    /\ \A a, i \in Nat : (a + 1) + i = a + (i + 1)
  OBVIOUS

\* An element of a sequence.
LEMMA ElementFacts ==
    ASSUME NEW S, NEW s \in Seq(S), NEW i \in 1 .. Len(s)
    PROVE  s[i] \in S
  OBVIOUS

\* What taking the first element of a sequence leaves.
LEMMA TailFacts ==
    ASSUME NEW S, NEW s \in Seq(S), s # << >>
    PROVE  /\ Head(s) \in S /\ Head(s) = s[1]
           /\ Tail(s) \in Seq(S) /\ Len(s) \in Nat \ {0}
           /\ Len(Tail(s)) = Len(s) - 1
           /\ \A i \in 1 .. Len(s) - 1 : Tail(s)[i] = s[i + 1]
  OBVIOUS

\* What appending an element to a sequence makes.
LEMMA AppendFacts ==
    ASSUME NEW S, NEW s \in Seq(S), NEW e \in S
    PROVE  /\ Append(s, e) \in Seq(S) /\ Len(s) \in Nat
           /\ Len(Append(s, e)) = Len(s) + 1
           /\ \A i \in 1 .. Len(s) : Append(s, e)[i] = s[i]
           /\ Append(s, e)[Len(s) + 1] = e
  OBVIOUS

\* The types of run and its handler, and those of the connections.
HandlerTypes ==
    /\ srv \in {"accept", "serve", "ended"}
    /\ backlog \in Seq(Conns)
    /\ serving \subseteq Conns /\ \A c, d \in serving : c = d
    /\ srv = "serve" <=> serving # {}
    /\ frame \in Seq(Nat) /\ Len(frame) <= 1
    /\ recv_counter \in Nat
    /\ time \in 0 .. now
    /\ reads \in Seq(Stamps)
    /\ now \in 0 .. MaxClock

StreamTypes ==
    /\ conn \in [Conns -> {"none", "open", "left", "reset", "closed"}]
    /\ bounced \subseteq Conns
    /\ toServer \in [Conns -> Seq(Nat)]
    /\ toClient \in [Conns -> Seq(Nat)]
    /\ \A c \in Conns : /\ Len(toServer[c]) <= Window
                        /\ Len(toClient[c]) <= Window
    /\ got \in [Conns -> Nat]
    /\ asked \in [Conns -> 0 .. MaxFrames]
    /\ answered \in [Conns -> Nat]

\* TypeOK in two parts, of which a step is proved to keep each.
LEMMA TypeParts == TypeOK <=> HandlerTypes /\ StreamTypes
  BY DEF TypeOK, HandlerTypes, StreamTypes

\* The connection that is served is the only one.
LEMMA Serves ==
    ASSUME HandlerTypes, NEW c, c \in serving
    PROVE  serving = {c} /\ srv = "serve"
  <1>1. \A d : d \in serving <=> d = c
    BY DEF HandlerTypes
  <1>2. serving = {c}
    BY <1>1
  <1>3. serving # {}
    BY <1>2
  <1> QED BY <1>2, <1>3 DEF HandlerTypes

\* A handler holds at most one frame.
LEMMA Holds ==
    ASSUME HandlerTypes, frame # << >>
    PROVE  Len(frame) = 1 /\ frame[1] \in Nat
  <1>1. frame \in Seq(Nat) /\ Len(frame) <= 1
    BY DEF HandlerTypes
  <1>2. Len(frame) \in Nat \ {0}
    BY <1>1
  <1>3. Len(frame) = 1
    BY <1>1, <1>2, CounterSums
  <1>4. frame[1] \in Nat
    <2>1. 1 \in 1 .. Len(frame)
      BY <1>3
    <2> QED BY <1>1, <2>1, ElementFacts
  <1> QED BY <1>3, <1>4

\* The first part is inductive.
LEMMA HandlerTypesStep == ASSUME HandlerTypes, StreamTypes, [Next]_vars
                          PROVE  HandlerTypes'
  <1> USE TcpServerAssumption
  <1>1. CASE UNCHANGED vars
    BY <1>1 DEF HandlerTypes, vars, handlerVars
  <1>2. CASE Tick
    BY <1>2 DEF HandlerTypes, Tick, handlerVars
  <1>3. CASE Accept
    <2>1. backlog' \in Seq(Conns) /\ Head(backlog) \in Conns
      BY <1>3, TailFacts DEF Accept, HandlerTypes
    <2>2. serving' = {Head(backlog)}
      BY <1>3 DEF Accept
    <2>3. now \in 0 .. now
      BY DEF HandlerTypes
    <2>4. << >> \in Seq(Nat) /\ << >> \in Seq(Stamps)
      OBVIOUS
    <2> QED BY <1>3, <2>1, <2>2, <2>3, <2>4 DEF Accept, HandlerTypes
  <1>4. ASSUME NEW c \in Conns, Connect(c) PROVE HandlerTypes'
    <2>1. backlog' \in Seq(Conns)
      BY <1>4, AppendFacts DEF Connect, HandlerTypes
    <2> QED BY <1>4, <2>1 DEF Connect, HandlerTypes
  <1>5. ASSUME NEW c \in Conns,
               ClientSend(c) \/ ClientRead(c) \/ Leave(c) \/ Reset(c)
        PROVE  HandlerTypes'
    BY <1>5 DEF ClientSend, ClientRead, Leave, Reset, handlerVars, HandlerTypes
  <1>6. ASSUME NEW c \in Conns, Read(c) PROVE HandlerTypes'
    <2>1. Head(toServer[c]) \in Nat
      BY <1>6, TailFacts DEF Read, StreamTypes
    <2>2. /\ now \in Nat /\ now' \in 0 .. MaxClock /\ time' = now'
          /\ reads' = Append(reads, [elapsed |-> now, kept |-> now'])
      BY <1>6 DEF Read, HandlerTypes
    <2>4. [elapsed |-> now, kept |-> now'] \in Stamps
      BY <2>2 DEF Stamps
    <2>5. reads' \in Seq(Stamps) /\ time' \in 0 .. now'
      BY <2>2, <2>4, AppendFacts DEF HandlerTypes
    <2>3. frame' \in Seq(Nat) /\ Len(frame') <= 1
      BY <1>6, <2>1 DEF Read
    <2> QED BY <1>6, <2>2, <2>3, <2>5 DEF Read, HandlerTypes
  <1>7. ASSUME NEW c \in Conns, Reply(c) PROVE HandlerTypes'
    <2>1. frame' \in Seq(Nat) /\ Len(frame') <= 1
      BY <1>7 DEF Reply, Replied
    <2> QED BY <1>7, <2>1 DEF Reply, Replied, HandlerTypes
  <1>8. ASSUME NEW c \in Conns, ReplyFails(c) \/ Disconnected(c)
        PROVE  HandlerTypes'
    BY <1>8 DEF ReplyFails, Disconnected, HandlerTypes
  <1> QED BY <1>1, <1>2, <1>3, <1>4, <1>5, <1>6, <1>7, <1>8 DEF Next, Handler

\* A stream to which q is written, or from which q is left, keeps its type.
LEMMA StreamUpdate ==
    ASSUME NEW f \in [Conns -> Seq(Nat)], \A d \in Conns : Len(f[d]) <= Window,
           NEW c \in Conns, NEW q \in Seq(Nat), Len(q) <= Window
    PROVE  /\ [f EXCEPT ![c] = q] \in [Conns -> Seq(Nat)]
           /\ \A d \in Conns : Len([f EXCEPT ![c] = q][d]) <= Window
  OBVIOUS

\* The second part is inductive.
LEMMA StreamTypesStep == ASSUME HandlerTypes, StreamTypes, [Next]_vars
                         PROVE  StreamTypes'
  <1> USE TcpServerAssumption
  <1>1. CASE UNCHANGED vars
    BY <1>1 DEF StreamTypes, vars, connVars, histVars
  <1>2. CASE Tick \/ Accept
    BY <1>2 DEF StreamTypes, Tick, Accept, connVars, histVars
  <1>3. ASSUME NEW c \in Conns,
               Connect(c) \/ Reset(c) \/ ReplyFails(c) \/ Disconnected(c)
        PROVE  StreamTypes'
    BY <1>3 DEF Connect, Reset, ReplyFails, Disconnected, connVars, histVars,
                StreamTypes
  <1>4. ASSUME NEW c \in Conns, ClientSend(c) PROVE StreamTypes'
    <2> DEFINE q == Append(toServer[c], asked[c] + 1)
    <2>1. asked[c] \in Nat /\ asked[c] + 1 \in 0 .. MaxFrames
      BY <1>4 DEF ClientSend, StreamTypes
    <2>2. q \in Seq(Nat) /\ Len(q) <= Window
      <3>1. toServer[c] \in Seq(Nat) /\ Len(toServer[c]) < Window
        BY <1>4 DEF ClientSend, StreamTypes
      <3> QED BY <2>1, <3>1, AppendFacts
    <2>3. toServer' = [toServer EXCEPT ![c] = q]
      BY <1>4 DEF ClientSend
    <2> HIDE DEF q
    <2>4. /\ toServer' \in [Conns -> Seq(Nat)]
          /\ \A d \in Conns : Len(toServer'[d]) <= Window
      BY <2>2, <2>3, StreamUpdate DEF StreamTypes
    <2>5. asked' \in [Conns -> 0 .. MaxFrames]
      BY <1>4, <2>1 DEF ClientSend, StreamTypes
    <2> QED BY <1>4, <2>4, <2>5 DEF ClientSend, StreamTypes
  <1>5. ASSUME NEW c \in Conns, ClientRead(c) PROVE StreamTypes'
    <2> DEFINE q == Tail(toClient[c])
    <2>1. q \in Seq(Nat) /\ Len(q) <= Window
      BY <1>5, TailFacts DEF ClientRead, StreamTypes
    <2>2. toClient' = [toClient EXCEPT ![c] = q]
      BY <1>5 DEF ClientRead
    <2> HIDE DEF q
    <2>3. /\ toClient' \in [Conns -> Seq(Nat)]
          /\ \A d \in Conns : Len(toClient'[d]) <= Window
      BY <2>1, <2>2, StreamUpdate DEF StreamTypes
    <2>4. got' \in [Conns -> Nat]
      BY <1>5 DEF ClientRead, StreamTypes
    <2> QED BY <1>5, <2>3, <2>4 DEF ClientRead, StreamTypes
  <1>6. ASSUME NEW c \in Conns, Leave(c) PROVE StreamTypes'
    <2>1. toClient' = [toClient EXCEPT ![c] = << >>]
      BY <1>6 DEF Leave
    <2>2. /\ toClient' \in [Conns -> Seq(Nat)]
          /\ \A d \in Conns : Len(toClient'[d]) <= Window
      BY <2>1 DEF StreamTypes
    <2>3. conn' \in [Conns -> {"none", "open", "left", "reset", "closed"}]
      BY <1>6 DEF Leave, StreamTypes
    <2> QED BY <1>6, <2>2, <2>3 DEF Leave, histVars, StreamTypes
  <1>7. ASSUME NEW c \in Conns, Read(c) PROVE StreamTypes'
    <2> DEFINE q == Tail(toServer[c])
    <2>1. q \in Seq(Nat) /\ Len(q) <= Window
      BY <1>7, TailFacts DEF Read, StreamTypes
    <2>2. toServer' = [toServer EXCEPT ![c] = q]
      BY <1>7 DEF Read
    <2> HIDE DEF q
    <2>3. /\ toServer' \in [Conns -> Seq(Nat)]
          /\ \A d \in Conns : Len(toServer'[d]) <= Window
      BY <2>1, <2>2, StreamUpdate DEF StreamTypes
    <2> QED BY <1>7, <2>3 DEF Read, histVars, StreamTypes
  <1>8. ASSUME NEW c \in Conns, Reply(c) PROVE StreamTypes'
    <2>1. frame[1] \in Nat
      BY <1>8, Holds DEF Reply
    <2>2. /\ toClient' \in [Conns -> Seq(Nat)]
          /\ \A d \in Conns : Len(toClient'[d]) <= Window
      <3>1. CASE conn[c] = "open"
        <4> DEFINE q == Append(toClient[c], frame[1])
        <4>1. q \in Seq(Nat) /\ Len(q) <= Window
          <5>1. toClient[c] \in Seq(Nat) /\ Len(toClient[c]) < Window
            BY <1>8, <3>1 DEF Reply, StreamTypes
          <5> QED BY <2>1, <5>1, AppendFacts
        <4>2. toClient' = [toClient EXCEPT ![c] = q]
          BY <1>8, <3>1 DEF Reply
        <4> HIDE DEF q
        <4> QED BY <4>1, <4>2, StreamUpdate DEF StreamTypes
      <3>2. CASE conn[c] # "open"
        BY <1>8, <3>2 DEF Reply, StreamTypes
      <3> QED BY <3>1, <3>2
    <2>3. bounced' \subseteq Conns /\ answered' \in [Conns -> Nat]
      BY <1>8 DEF Reply, Replied, StreamTypes
    <2> QED BY <1>8, <2>2, <2>3 DEF Reply, Replied, StreamTypes
  <1> QED BY <1>1, <1>2, <1>3, <1>4, <1>5, <1>6, <1>7, <1>8 DEF Next, Handler

\* One connection is served at a time, and no stream ever holds more than fits.
THEOREM TypeInvariance == Spec => []TypeOK
  <1>1. Init => TypeOK
    <2>1. << >> \in Seq(Stamps)
      OBVIOUS
    <2> QED BY <2>1, TcpServerAssumption DEF Init, TypeOK
  <1>2. ASSUME TypeOK, [Next]_vars PROVE TypeOK'
    BY <1>2, TypeParts, HandlerTypesStep, StreamTypesStep
       DEF TypeOK, HandlerTypes, StreamTypes
  <1> QED BY <1>1, <1>2, PTL DEF Spec
-----------------------------------------------------------------------------
\* The sums of CountInv are over naturals.
LEMMA CountTypes ==
    ASSUME HandlerTypes, StreamTypes, NEW c \in Conns
    PROVE  /\ answered[c] \in Nat /\ asked[c] \in Nat /\ got[c] \in Nat
           /\ Pending(c) \in Nat
           /\ Len(toServer[c]) \in Nat /\ Len(toClient[c]) \in Nat
  <1>1. answered[c] \in Nat /\ asked[c] \in Nat /\ got[c] \in Nat
    BY TcpServerAssumption DEF StreamTypes
  <1>2. Len(toServer[c]) \in Nat /\ Len(toClient[c]) \in Nat
    <2>1. toServer[c] \in Seq(Nat) /\ toClient[c] \in Seq(Nat)
      BY DEF StreamTypes
    <2> QED BY <2>1
  <1>3. Pending(c) \in Nat
    <2>1. frame \in Seq(Nat)
      BY DEF HandlerTypes
    <2> QED BY <2>1 DEF Pending
  <1> QED BY <1>1, <1>2, <1>3

\* CountInv is inductive, given the types.
LEMMA CountStep == ASSUME HandlerTypes, StreamTypes, CountInv, [Next]_vars
                   PROVE  CountInv'
  <1>1. CASE UNCHANGED vars
    BY <1>1 DEF CountInv, Pending, vars, handlerVars, connVars, histVars
  <1>2. CASE Tick
    BY <1>2 DEF CountInv, Pending, Tick, handlerVars, connVars, histVars
  <1>3. CASE Accept
    <2>1. frame = << >> /\ frame' = << >> /\ srv' = "serve"
      BY <1>3 DEF Accept, CountInv
    <2>2. \A d \in Conns : Pending(d) = 0 /\ Pending(d)' = 0
      BY <2>1 DEF Pending
    <2> QED BY <1>3, <2>1, <2>2 DEF Accept, CountInv, connVars, histVars
  <1>4. ASSUME NEW c \in Conns, Connect(c) \/ Leave(c) \/ Reset(c) PROVE CountInv'
    <2>1. \A d \in Conns : Pending(d)' = Pending(d)
      BY <1>4 DEF Connect, Leave, Reset, Pending, handlerVars
    <2>2. \A d \in Conns :
            conn'[d] \in {"none", "open"} => conn[d] \in {"none", "open"}
      BY <1>4 DEF Connect, Leave, Reset, StreamTypes
    <2> QED BY <1>4, <2>1, <2>2
            DEF CountInv, Connect, Leave, Reset, handlerVars, histVars
  <1>5. ASSUME NEW c \in Conns, ClientSend(c) PROVE CountInv'
    <2>10. /\ answered[c] \in Nat /\ asked[c] \in Nat /\ got[c] \in Nat
           /\ Pending(c) \in Nat
           /\ Len(toServer[c]) \in Nat /\ Len(toClient[c]) \in Nat
      BY CountTypes
    <2>1. Len(Append(toServer[c], asked[c] + 1)) = Len(toServer[c]) + 1
      <3>1. toServer[c] \in Seq(Nat)
        BY DEF StreamTypes
      <3> QED BY <3>1, CountTypes, AppendFacts
    <2>2. /\ Len(toServer'[c]) = Len(toServer[c]) + 1
          /\ asked'[c] = asked[c] + 1
      BY <1>5, <2>1 DEF ClientSend, StreamTypes
    <2>3. \A d \in Conns \ {c} :
            toServer'[d] = toServer[d] /\ asked'[d] = asked[d]
      BY <1>5 DEF ClientSend, StreamTypes
    <2>4. \A d \in Conns : Pending(d)' = Pending(d)
      BY <1>5 DEF ClientSend, Pending, handlerVars
    <2>5. answered' = answered /\ conn' = conn /\ srv' = srv /\ frame' = frame
      BY <1>5 DEF ClientSend, handlerVars
    <2>6. /\ answered[c] + Pending(c) + Len(toServer[c]) <= asked[c]
          /\ conn[c] \in {"none", "open"} =>
               asked[c] = answered[c] + Pending(c) + Len(toServer[c])
      BY DEF CountInv
    <2>7. /\ answered'[c] + Pending(c)' + Len(toServer'[c]) <= asked'[c]
          /\ conn'[c] \in {"none", "open"} =>
               asked'[c] = answered'[c] + Pending(c)' + Len(toServer'[c])
      <3> DEFINE a == answered[c]
                 p == Pending(c)
                 l == Len(toServer[c])
                 x == asked[c]
      <3>1. a \in Nat /\ p \in Nat /\ l \in Nat /\ x \in Nat
        BY <2>10
      <3>2. /\ a + p + l <= x
            /\ conn[c] \in {"none", "open"} => x = a + p + l
        BY <2>6
      <3>3. /\ answered'[c] = a /\ Pending(c)' = p
            /\ Len(toServer'[c]) = l + 1 /\ asked'[c] = x + 1
            /\ conn'[c] = conn[c]
        BY <1>5, <2>2, <2>4, <2>5
      <3> HIDE DEF a, p, l, x
      <3>4. /\ a + p + (l + 1) <= x + 1
            /\ conn[c] \in {"none", "open"} => x + 1 = a + p + (l + 1)
        BY <3>1, <3>2, CounterSums
      <3> QED BY <3>3, <3>4
    <2> QED BY <2>3, <2>4, <2>5, <2>7 DEF CountInv
  <1>6. ASSUME NEW c \in Conns, ClientRead(c) PROVE CountInv'
    BY <1>6 DEF CountInv, Pending, ClientRead, handlerVars
  <1>7. ASSUME NEW c \in Conns, Read(c) PROVE CountInv'
    <2>10. /\ answered[c] \in Nat /\ asked[c] \in Nat /\ got[c] \in Nat
           /\ Pending(c) \in Nat
           /\ Len(toServer[c]) \in Nat /\ Len(toClient[c]) \in Nat
      BY CountTypes
    <2>1. /\ Len(toServer'[c]) = Len(toServer[c]) - 1
          /\ \A d \in Conns \ {c} : toServer'[d] = toServer[d]
      BY <1>7, TailFacts DEF Read, StreamTypes
    <2>2. /\ Len(frame) = 0 /\ Len(frame') = 1
          /\ srv' = "serve" /\ serving = {c} /\ serving' = {c}
      BY <1>7, Serves DEF Read
    <2>3. /\ Pending(c)' = Pending(c) + 1
          /\ \A d \in Conns \ {c} : Pending(d)' = Pending(d)
      BY <2>2 DEF Pending
    <2>4. answered' = answered /\ asked' = asked /\ conn' = conn
      BY <1>7 DEF Read, histVars
    <2>5. /\ answered[c] + Pending(c) + Len(toServer[c]) <= asked[c]
          /\ conn[c] \in {"none", "open"} =>
               asked[c] = answered[c] + Pending(c) + Len(toServer[c])
      BY DEF CountInv
    <2>6. /\ answered'[c] + Pending(c)' + Len(toServer'[c]) <= asked'[c]
          /\ conn'[c] \in {"none", "open"} =>
               asked'[c] = answered'[c] + Pending(c)' + Len(toServer'[c])
      <3> DEFINE a == answered[c]
                 p == Pending(c)
                 l == Len(toServer[c])
                 x == asked[c]
      <3>1. a \in Nat /\ p \in Nat /\ l \in Nat
        BY <2>10
      <3>2. /\ a + p + l <= x
            /\ conn[c] \in {"none", "open"} => x = a + p + l
        BY <2>5
      <3>3. /\ answered'[c] = a /\ Pending(c)' = p + 1
            /\ Len(toServer'[c]) = l - 1 /\ asked'[c] = x
            /\ conn'[c] = conn[c]
        BY <1>7, <2>1, <2>3, <2>4
      <3> HIDE DEF a, p, l, x
      <3>4. a + (p + 1) + (l - 1) = a + p + l
        BY <3>1, CounterSums
      <3> QED BY <3>2, <3>3, <3>4
    <2> QED BY <2>1, <2>2, <2>3, <2>4, <2>6 DEF CountInv
  <1>8. ASSUME NEW c \in Conns, Reply(c) PROVE CountInv'
    <2>1. /\ Len(frame) = 1 /\ frame' = << >>
          /\ serving = {c} /\ serving' = {c}
      BY <1>8, Holds, Serves DEF Reply, Replied
    <2>2. /\ Pending(c) = 1 /\ Pending(c)' = 0
          /\ \A d \in Conns \ {c} : Pending(d)' = Pending(d)
      BY <2>1 DEF Pending
    <2>3. /\ answered'[c] = answered[c] + 1
          /\ \A d \in Conns \ {c} : answered'[d] = answered[d]
      BY <1>8 DEF Reply, Replied, StreamTypes
    <2> QED BY <1>8, <2>1, <2>2, <2>3, CountTypes DEF CountInv, Reply, Replied
  <1>9. ASSUME NEW c \in Conns, ReplyFails(c) \/ Disconnected(c) PROVE CountInv'
    <2>1. serving = {c} /\ serving' = {} /\ frame' = frame
      BY <1>9, Serves DEF ReplyFails, Disconnected
    <2>2. srv' = "accept" => frame = << >>
      BY <1>9 DEF ReplyFails, Disconnected
    <2>3. \A d \in Conns : /\ Pending(d)' = 0
                           /\ d # c => Pending(d) = 0
      BY <2>1 DEF Pending
    <2>4. \A d \in Conns : conn'[d] = conn[d] \/ (d = c /\ conn'[d] = "closed")
      BY <1>9 DEF ReplyFails, Disconnected, connVars, StreamTypes
    <2>5. conn'[c] \notin {"none", "open"}
      BY <1>9, <2>4 DEF ReplyFails, Disconnected, connVars, StreamTypes
    <2>6. UNCHANGED << toServer, asked, answered >>
      BY <1>9 DEF ReplyFails, Disconnected, connVars, histVars
    <2>7. ASSUME NEW d \in Conns
          PROVE  answered[d] + Pending(d)' + Len(toServer[d]) <= asked[d]
      <3>1. answered[d] + Pending(d) + Len(toServer[d]) <= asked[d]
        BY DEF CountInv
      <3>2. Pending(d)' = 0
        BY <2>3
      <3>3. /\ answered[d] \in Nat /\ Pending(d) \in Nat
            /\ Len(toServer[d]) \in Nat /\ asked[d] \in Nat
        BY CountTypes
      <3> QED BY <3>1, <3>2, <3>3
    <2>8. ASSUME NEW d \in Conns, conn'[d] \in {"none", "open"}
          PROVE  asked[d] = answered[d] + Pending(d)' + Len(toServer[d])
      <3>1. d # c /\ conn[d] \in {"none", "open"}
        BY <2>4, <2>5, <2>8
      <3>2. Pending(d)' = Pending(d)
        BY <2>3, <3>1
      <3> QED BY <3>1, <3>2 DEF CountInv
    <2>9. srv' = "accept" => frame' = << >>
      BY <2>1, <2>2
    <2> QED BY <2>6, <2>7, <2>8, <2>9 DEF CountInv
  <1> QED BY <1>1, <1>2, <1>3, <1>4, <1>5, <1>6, <1>7, <1>8, <1>9
          DEF Next, Handler

\* So it always holds.
LEMMA CountInvariance == Spec => []CountInv
  <1>1. Init => CountInv
    BY DEF Init, CountInv, Pending
  <1>2. ASSUME TypeOK, CountInv, [Next]_vars PROVE CountInv'
    BY <1>2, TypeParts, CountStep
  <1> QED BY <1>1, <1>2, TypeInvariance, PTL DEF Spec

-----------------------------------------------------------------------------
\* The serial accept loop implements the echo service: a frame is answered at
\* most once, after it was sent, and not after the server has ended.
THEOREM TcpServerKeepsEcho == Spec => KeepsEcho
  <1> USE DEF Echo!Init, Echo!Next, Echo!vars, Up
  <1>1. Init => Echo!Init
    BY DEF Init
  <1>2. ASSUME TypeOK, CountInv, [Next]_vars PROVE [Echo!Next]_(Echo!vars)
    <2> USE TypeParts, <1>2
    <2>1. CASE UNCHANGED vars
      BY <2>1 DEF vars, handlerVars, histVars
    <2>2. CASE Tick
      BY <2>2 DEF Tick, handlerVars, histVars
    <2>3. CASE Accept
      BY <2>3 DEF Accept, histVars
    <2>4. ASSUME NEW c \in Conns,
                 Connect(c) \/ Leave(c) \/ Reset(c) \/ Read(c) \/ Disconnected(c)
                   \/ ClientRead(c)
          PROVE  UNCHANGED Echo!vars
      <3>1. srv = "serve" \/ c \notin serving
        BY Serves
      <3> QED BY <2>4, <3>1 DEF Connect, Leave, Reset, Read, Disconnected,
                               ClientRead, handlerVars, histVars
    <2>5. ASSUME NEW c \in Conns, ClientSend(c) PROVE Echo!Ask(c)
      BY <2>5 DEF ClientSend, handlerVars, Echo!Ask
    <2>6. ASSUME NEW c \in Conns, Reply(c) PROVE Echo!Answer(c)
      <3>1. srv = "serve"
        BY <2>6, Serves DEF Reply
      <3>2. answered[c] < asked[c]
        <4>1. Len(frame) = 1 /\ Pending(c) = 1
          BY <2>6, Holds DEF Reply, Pending
        <4> QED BY <4>1, CountTypes DEF CountInv
      <3> QED BY <2>6, <3>1, <3>2 DEF Reply, Replied, Echo!Answer
    <2>7. ASSUME NEW c \in Conns, ReplyFails(c) PROVE Echo!End
      <3>1. srv = "serve"
        BY <2>7, Serves DEF ReplyFails
      <3> QED BY <2>7, <3>1 DEF ReplyFails, histVars, Echo!End
    <2> QED BY <2>1, <2>2, <2>3, <2>4, <2>5, <2>6, <2>7 DEF Next, Handler
  <1> QED BY <1>1, <1>2, TypeInvariance, CountInvariance, PTL
          DEF Spec, KeepsEcho, Echo!Spec
-----------------------------------------------------------------------------
\* OrderInv is inductive, given the types and CountInv.
LEMMA OrderStep ==
    ASSUME HandlerTypes, StreamTypes, CountInv, OrderInv, [Next]_vars
    PROVE  OrderInv'
  <1>1. CASE UNCHANGED vars
    BY <1>1 DEF OrderInv, Pending, vars, handlerVars, connVars, histVars
  <1>2. CASE Tick
    BY <1>2 DEF OrderInv, Pending, Tick, handlerVars, connVars, histVars
  <1>3. CASE Accept
    <2>1. frame = << >> /\ frame' = << >>
      BY <1>3 DEF Accept, CountInv
    <2>2. \A d \in Conns : Pending(d) = 0 /\ Pending(d)' = 0
      BY <2>1 DEF Pending
    <2> QED BY <1>3, <2>1, <2>2 DEF Accept, OrderInv, connVars, histVars
  <1>4. ASSUME NEW c \in Conns, Connect(c) \/ Reset(c) PROVE OrderInv'
    <2>1. \A d \in Conns : Pending(d)' = Pending(d)
      BY <1>4 DEF Connect, Reset, Pending, handlerVars
    <2>2. \A d \in Conns :
            /\ conn'[d] \in {"none", "open"} => conn[d] \in {"none", "open"}
            /\ conn'[d] # "open" => conn[d] # "open"
      BY <1>4 DEF Connect, Reset, StreamTypes
    <2> QED BY <1>4, <2>1, <2>2
            DEF OrderInv, Connect, Reset, handlerVars, histVars
  <1>5. ASSUME NEW c \in Conns, Leave(c) PROVE OrderInv'
    <2>1. \A d \in Conns : Pending(d)' = Pending(d)
      BY <1>5 DEF Leave, Pending, handlerVars
    <2>2. /\ conn'[c] \in {"left", "reset"} /\ toClient'[c] = << >>
          /\ \A d \in Conns \ {c} : conn'[d] = conn[d] /\ toClient'[d] = toClient[d]
      BY <1>5 DEF Leave, StreamTypes
    <2> QED BY <1>5, <2>1, <2>2 DEF OrderInv, Leave, handlerVars, histVars
  <1>6. ASSUME NEW c \in Conns, ClientSend(c) PROVE OrderInv'
    <2>10. /\ answered[c] \in Nat /\ asked[c] \in Nat /\ got[c] \in Nat
           /\ Pending(c) \in Nat
           /\ Len(toServer[c]) \in Nat /\ Len(toClient[c]) \in Nat
      BY CountTypes
    <2>1. \A d \in Conns : Pending(d)' = Pending(d)
      BY <1>6 DEF ClientSend, Pending, handlerVars
    <2>2. /\ toServer[c] \in Seq(Nat) /\ asked[c] + 1 \in Nat
          /\ toServer'[c] = Append(toServer[c], asked[c] + 1)
          /\ \A d \in Conns \ {c} : toServer'[d] = toServer[d]
      BY <1>6, CountTypes DEF ClientSend, StreamTypes
    <2>3. asked[c] = answered[c] + Pending(c) + Len(toServer[c])
      BY <1>6 DEF ClientSend, CountInv
    <2>4. ASSUME NEW i \in DOMAIN toServer'[c]
          PROVE  toServer'[c][i] = answered[c] + Pending(c) + i
      <3>1. i \in 1 .. Len(toServer[c]) + 1
        BY <2>2, AppendFacts
      <3>2. CASE i = Len(toServer[c]) + 1
        <4>1. toServer'[c][i] = asked[c] + 1
          BY <2>2, <3>2, AppendFacts
        <4>2. asked[c] + 1 = answered[c] + Pending(c) + (Len(toServer[c]) + 1)
          <5> DEFINE a == answered[c]
                     p == Pending(c)
                     l == Len(toServer[c])
                     x == asked[c]
          <5>1. a \in Nat /\ p \in Nat /\ l \in Nat /\ x \in Nat
            BY <2>10
          <5>2. x = a + p + l
            BY <2>3
          <5> HIDE DEF a, p, l, x
          <5>3. x + 1 = a + p + (l + 1)
            BY <5>1, <5>2, CounterSums
          <5> QED BY <5>3 DEF a, p, l, x
        <4> QED BY <3>2, <4>1, <4>2
      <3>3. CASE i # Len(toServer[c]) + 1
        <4>1. i \in 1 .. Len(toServer[c])
          BY <3>1, <3>3, CountTypes
        <4>2. toServer'[c][i] = toServer[c][i]
          BY <2>2, <4>1, AppendFacts
        <4> QED BY <1>6, <2>2, <4>1, <4>2 DEF OrderInv, ClientSend
      <3> QED BY <3>2, <3>3
    <2> QED BY <1>6, <2>1, <2>2, <2>4 DEF OrderInv, ClientSend, handlerVars
  <1>7. ASSUME NEW c \in Conns, ClientRead(c) PROVE OrderInv'
    <2>1. \A d \in Conns : Pending(d)' = Pending(d)
      BY <1>7 DEF ClientRead, Pending, handlerVars
    <2>2. /\ toClient[c] \in Seq(Nat) /\ toClient[c] # << >>
          /\ toClient'[c] = Tail(toClient[c]) /\ got'[c] = got[c] + 1
          /\ \A d \in Conns \ {c} :
               toClient'[d] = toClient[d] /\ got'[d] = got[d]
          /\ conn[c] = "open"
      BY <1>7 DEF ClientRead, StreamTypes
    <2>3. answered[c] = got'[c] + Len(toClient'[c])
      BY <2>2, TailFacts, CountTypes DEF OrderInv
    <2>4. ASSUME NEW i \in DOMAIN toClient'[c]
          PROVE  toClient'[c][i] = got'[c] + i
      <3>1. i \in 1 .. Len(toClient[c]) - 1 /\ Len(toClient[c]) \in Nat
        BY <2>2, TailFacts
      <3>2. toClient'[c][i] = toClient[c][i + 1] /\ i + 1 \in DOMAIN toClient[c]
        BY <2>2, <3>1, TailFacts
      <3>3. toClient[c][i + 1] = got[c] + (i + 1)
        BY <3>2 DEF OrderInv
      <3>4. got[c] \in Nat
        BY CountTypes
      <3>5. i \in Nat
        BY <3>1
      <3>6. (got[c] + 1) + i = got[c] + (i + 1)
        BY <3>4, <3>5, CounterSums
      <3> QED BY <2>2, <3>2, <3>3, <3>6
    <2> QED BY <1>7, <2>1, <2>2, <2>3, <2>4 DEF OrderInv, ClientRead, handlerVars
  <1>8. ASSUME NEW c \in Conns, Read(c) PROVE OrderInv'
    <2>10. /\ answered[c] \in Nat /\ asked[c] \in Nat /\ got[c] \in Nat
           /\ Pending(c) \in Nat
           /\ Len(toServer[c]) \in Nat /\ Len(toClient[c]) \in Nat
      BY CountTypes
    <2>1. /\ toServer[c] \in Seq(Nat) /\ toServer[c] # << >>
          /\ toServer'[c] = Tail(toServer[c])
          /\ \A d \in Conns \ {c} : toServer'[d] = toServer[d]
      BY <1>8 DEF Read, StreamTypes
    <2>2. /\ Len(frame) = 0 /\ Len(frame') = 1 /\ frame'[1] = toServer[c][1]
          /\ serving = {c} /\ serving' = {c}
      BY <1>8, <2>1, Serves, TailFacts DEF Read
    <2>3. /\ Pending(c) = 0 /\ Pending(c)' = 1
          /\ \A d \in Conns \ {c} : Pending(d)' = Pending(d)
      BY <2>2 DEF Pending
    <2>4. ASSUME conn[c] \in {"none", "open"}
          PROVE  /\ frame'[1] = answered[c] + 1
                 /\ \A i \in DOMAIN toServer'[c] :
                      toServer'[c][i] = answered[c] + Pending(c)' + i
      <3>1. \A i \in DOMAIN toServer[c] : toServer[c][i] = answered[c] + i
        BY <2>3, <2>4, CountTypes DEF OrderInv
      <3>2. 1 \in DOMAIN toServer[c]
        BY <2>1, TailFacts
      <3>3. ASSUME NEW i \in DOMAIN toServer'[c]
            PROVE  toServer'[c][i] = answered[c] + 1 + i
        <4>1. i \in 1 .. Len(toServer[c]) - 1 /\ Len(toServer[c]) \in Nat
          BY <2>1, TailFacts
        <4>2. /\ toServer'[c][i] = toServer[c][i + 1]
              /\ i + 1 \in DOMAIN toServer[c]
          BY <2>1, <4>1, TailFacts
        <4>3. toServer[c][i + 1] = answered[c] + (i + 1)
          BY <3>1, <4>2
        <4>4. answered[c] \in Nat /\ i \in Nat
          BY <2>10, <4>1
        <4>5. (answered[c] + 1) + i = answered[c] + (i + 1)
          BY <4>4, CounterSums
        <4> QED BY <4>2, <4>3, <4>5
      <3> QED BY <2>2, <2>3, <3>1, <3>2, <3>3
    <2> QED BY <1>8, <2>1, <2>2, <2>3, <2>4 DEF OrderInv, Read, histVars
  <1>9. ASSUME NEW c \in Conns, Reply(c) PROVE OrderInv'
    <2>10. /\ answered[c] \in Nat /\ asked[c] \in Nat /\ got[c] \in Nat
           /\ Pending(c) \in Nat
           /\ Len(toServer[c]) \in Nat /\ Len(toClient[c]) \in Nat
      BY CountTypes
    <2>1. /\ Len(frame) = 1 /\ frame' = << >> /\ frame[1] \in Nat
          /\ serving = {c} /\ serving' = {c}
      BY <1>9, Holds, Serves DEF Reply, Replied
    <2>2. /\ Pending(c) = 1 /\ Pending(c)' = 0
          /\ \A d \in Conns \ {c} : Pending(d)' = Pending(d)
      BY <2>1 DEF Pending
    <2>3. /\ answered'[c] = answered[c] + 1
          /\ \A d \in Conns \ {c} :
               answered'[d] = answered[d] /\ toClient'[d] = toClient[d]
          /\ conn' = conn /\ toServer' = toServer /\ got' = got
      BY <1>9 DEF Reply, Replied, StreamTypes
    <2>4. ASSUME conn[c] \in {"none", "open"}
          PROVE  \A i \in DOMAIN toServer[c] :
                   toServer[c][i] = answered'[c] + Pending(c)' + i
      BY <2>2, <2>3, <2>4, CountTypes DEF OrderInv
    <2>5. CASE conn[c] = "open"
      <3>1. /\ toClient[c] \in Seq(Nat)
            /\ toClient'[c] = Append(toClient[c], frame[1])
        BY <1>9, <2>5 DEF Reply, StreamTypes
      <3>2. answered[c] = got[c] + Len(toClient[c]) /\ frame[1] = answered[c] + 1
        BY <1>9, <2>1, <2>5 DEF OrderInv, Reply
      <3>3. answered'[c] = got[c] + Len(toClient'[c])
        <4>1. Len(toClient'[c]) = Len(toClient[c]) + 1
          BY <2>1, <3>1, AppendFacts
        <4> QED BY <2>3, <3>2, <4>1, <2>10
      <3>4. ASSUME NEW i \in DOMAIN toClient'[c]
            PROVE  toClient'[c][i] = got[c] + i
        <4>1. i \in 1 .. Len(toClient[c]) + 1
          BY <2>1, <3>1, AppendFacts
        <4>2. CASE i = Len(toClient[c]) + 1
          <5>1. toClient'[c][i] = frame[1]
            BY <2>1, <3>1, <4>2, AppendFacts
          <5> QED BY <3>2, <4>2, <5>1, CountTypes
        <4>3. CASE i # Len(toClient[c]) + 1
          <5>1. i \in 1 .. Len(toClient[c])
            BY <4>1, <4>3, CountTypes
          <5>2. toClient'[c][i] = toClient[c][i] /\ i \in DOMAIN toClient[c]
            BY <2>1, <3>1, <5>1, AppendFacts
          <5> QED BY <5>2 DEF OrderInv
        <4> QED BY <4>2, <4>3
      <3> QED BY <2>1, <2>2, <2>3, <2>4, <2>5, <3>3, <3>4 DEF OrderInv
    <2>6. CASE conn[c] # "open"
      <3>1. conn[c] = "left" /\ toClient' = toClient
        BY <1>9, <2>6 DEF Reply
      <3> QED BY <2>1, <2>2, <2>3, <3>1 DEF OrderInv
    <2> QED BY <2>5, <2>6
  <1>10. ASSUME NEW c \in Conns, ReplyFails(c) \/ Disconnected(c) PROVE OrderInv'
    <2>1. serving = {c} /\ serving' = {} /\ frame' = frame
      BY <1>10, Serves DEF ReplyFails, Disconnected
    <2>2. \A d \in Conns : /\ Pending(d)' = 0
                           /\ d # c => Pending(d) = 0
      BY <2>1 DEF Pending
    <2>3. conn[c] \in {"left", "reset"} /\ conn'[c] \in {"reset", "closed"}
      BY <1>10 DEF ReplyFails, Disconnected, connVars, StreamTypes
    <2>4. /\ \A d \in Conns \ {c} : conn'[d] = conn[d]
          /\ toClient' = toClient /\ toServer' = toServer
          /\ got' = got /\ answered' = answered
      BY <1>10 DEF ReplyFails, Disconnected, connVars, histVars, StreamTypes
    <2> QED BY <2>1, <2>2, <2>3, <2>4 DEF OrderInv
  <1> QED BY <1>1, <1>2, <1>3, <1>4, <1>5, <1>6, <1>7, <1>8, <1>9, <1>10
          DEF Next, Handler

\* The answers on their way to a client continue those it has read.
THEOREM EchoesAreInOrder == Spec => []EchoInOrder
  <1>1. Init => OrderInv
    BY DEF Init, OrderInv, Pending
  <1>2. ASSUME TypeOK, CountInv, OrderInv, [Next]_vars PROVE OrderInv'
    BY <1>2, TypeParts, OrderStep
  <1>3. OrderInv => EchoInOrder
    BY DEF OrderInv, EchoInOrder
  <1> QED BY <1>1, <1>2, <1>3, TypeInvariance, CountInvariance, PTL DEF Spec

-----------------------------------------------------------------------------
(* Sums, and the statistics that Update keeps. *)

\* A set of natural numbers has a least one.
LEMMA LeastNat ==
    ASSUME NEW T \in SUBSET Nat, T # {}
    PROVE  \E m \in T : \A k \in T : m <= k
  <1>1. IsWellFoundedOn(OpToRel(<, Nat), Nat)
    BY NatLessThanWellFounded
  <1>2. PICK m \in T : \A k \in T : ~(<< k, m >> \in OpToRel(<, Nat))
    BY <1>1, WFMin
  <1>3. \A k \in T : ~(k < m)
    BY <1>2 DEF OpToRel
  <1> QED BY <1>3

\* Induction, for a property that is given as the set of its numbers.
LEMMA AllNat ==
    ASSUME NEW T \in SUBSET Nat, 0 \in T, \A n \in T : n + 1 \in T
    PROVE  T = Nat
  <1> SUFFICES ASSUME Nat \ T # {} PROVE FALSE
    OBVIOUS
  <1>1. PICK m \in Nat \ T : \A k \in Nat \ T : m <= k
    BY LeastNat
  <1>2. m - 1 \in T
    BY <1>1
  <1> QED BY <1>1, <1>2

\* p holds the sums of the first 0, 1, ... elements of s.
Sums(s, p) == p = [n \in 0 .. Len(s) |-> IF n = 0 THEN 0 ELSE p[n - 1] + s[n]]

\* Every sequence has such sums.
LEMMA SumsExist ==
    ASSUME NEW s \in Seq(Int)
    PROVE  \E p \in [0 .. Len(s) -> Int] : Sums(s, p)
  <1> DEFINE Adds(n, p) == p[0] = 0 /\ \A i \in 1 .. n : p[i] = p[i - 1] + s[i]
             T == {n \in Nat : n <= Len(s) => \E p \in [0 .. n -> Int] : Adds(n, p)}
  <1>1. 0 \in T
    <2> DEFINE p == [i \in 0 .. 0 |-> 0]
    <2>1. p \in [0 .. 0 -> Int]
      OBVIOUS
    <2>2. Adds(0, p)
      OBVIOUS
    <2> HIDE DEF Adds, p
    <2> QED BY <2>1, <2>2
  <1>2. ASSUME NEW n \in T PROVE n + 1 \in T
    <2> SUFFICES ASSUME n + 1 <= Len(s)
                 PROVE  \E p \in [0 .. n + 1 -> Int] : Adds(n + 1, p)
      <3> HIDE DEF Adds
      <3> QED OBVIOUS
    <2>1. n \in Nat /\ Len(s) \in Nat
      OBVIOUS
    <2>2. PICK p \in [0 .. n -> Int] : Adds(n, p)
      <3> HIDE DEF Adds
      <3> QED BY <2>1
    <2>3. s[n + 1] \in Int /\ p[n] \in Int
      BY <2>1
    <2> DEFINE r == [i \in 0 .. n + 1 |-> IF i = n + 1 THEN p[n] + s[n + 1]
                                          ELSE p[i]]
    <2>4. r \in [0 .. n + 1 -> Int]
      BY <2>1, <2>3
    <2>5. r[0] = 0
      BY <2>1, <2>2
    <2>6. ASSUME NEW i \in 1 .. n + 1 PROVE r[i] = r[i - 1] + s[i]
      <3>1. CASE i = n + 1
        <4>1. r[i] = p[n] + s[n + 1] /\ r[i - 1] = p[n]
          BY <2>1, <3>1
        <4> QED BY <3>1, <4>1
      <3>2. CASE i # n + 1
        <4>1. i \in 1 .. n /\ i - 1 \in 0 .. n /\ i \in 0 .. n
          BY <2>1, <3>2
        <4>2. r[i] = p[i] /\ r[i - 1] = p[i - 1]
          BY <2>1, <4>1
        <4> QED BY <2>2, <4>1, <4>2
      <3> QED BY <3>1, <3>2
    <2> QED BY <2>4, <2>5, <2>6
  <1>3. T = Nat
    <2> HIDE DEF T
    <2>1. T \in SUBSET Nat
      BY DEF T
    <2> QED BY <1>1, <1>2, <2>1, AllNat
  <1>4. PICK p \in [0 .. Len(s) -> Int] : Adds(Len(s), p)
    <2> HIDE DEF Adds
    <2>1. Len(s) \in T /\ Len(s) <= Len(s)
      BY <1>3
    <2> QED BY <2>1
  <1>5. ASSUME NEW n \in 0 .. Len(s)
        PROVE  p[n] = IF n = 0 THEN 0 ELSE p[n - 1] + s[n]
    <2>1. CASE n = 0
      BY <1>4, <2>1
    <2>2. CASE n # 0
      <3>1. n \in 1 .. Len(s)
        BY <2>2
      <3> QED BY <1>4, <2>2, <3>1
    <2> QED BY <2>1, <2>2
  <1>6. Sums(s, p)
    <2> HIDE DEF Adds
    <2> QED BY <1>5 DEF Sums
  <1> QED BY <1>6

\* Sequences that begin alike have the same first sums.
LEMMA SumsAgree ==
    ASSUME NEW s \in Seq(Int), NEW u \in Seq(Int), NEW p, NEW r,
           Sums(s, p), Sums(u, r), Len(s) <= Len(u),
           \A i \in 1 .. Len(s) : s[i] = u[i]
    PROVE  \A n \in 0 .. Len(s) : p[n] = r[n]
  <1> DEFINE T == {n \in Nat : n <= Len(s) => p[n] = r[n]}
  <1>0. Len(s) \in Nat /\ Len(u) \in Nat
    OBVIOUS
  <1>1. \A n \in 0 .. Len(s) : p[n] = IF n = 0 THEN 0 ELSE p[n - 1] + s[n]
    BY DEF Sums
  <1>2. \A n \in 0 .. Len(u) : r[n] = IF n = 0 THEN 0 ELSE r[n - 1] + u[n]
    BY DEF Sums
  <1>3. 0 \in T
    BY <1>0, <1>1, <1>2
  <1>4. ASSUME NEW n \in T PROVE n + 1 \in T
    <2> SUFFICES ASSUME n + 1 <= Len(s) PROVE p[n + 1] = r[n + 1]
      OBVIOUS
    <2>1. /\ n \in Nat /\ n + 1 \in 0 .. Len(s) /\ n + 1 \in 0 .. Len(u)
          /\ n + 1 \in 1 .. Len(s) /\ p[n] = r[n] /\ n + 1 - 1 = n /\ n + 1 # 0
      BY <1>0
    <2>2. p[n + 1] = p[n] + s[n + 1]
      BY <1>1, <2>1
    <2>3. r[n + 1] = r[n] + u[n + 1]
      BY <1>2, <2>1
    <2> QED BY <2>1, <2>2, <2>3
  <1>5. T = Nat
    <2> HIDE DEF T
    <2>1. T \in SUBSET Nat
      BY DEF T
    <2> QED BY <1>3, <1>4, <2>1, AllNat
  <1> QED BY <1>0, <1>5

\* What the recursive definition of Sum computes.
LEMMA SumIs ==
    ASSUME NEW s \in Seq(Int), NEW p, Sums(s, p) PROVE Sum(s) = p[Len(s)]
  <1> DEFINE c == CHOOSE q : Sums(s, q)
  <1>1. Sum(s) = c[Len(s)]
    BY DEF Sum, Sums
  <1>2. Sums(s, c)
    OBVIOUS
  <1>3. Len(s) \in 0 .. Len(s) /\ Len(s) <= Len(s)
    OBVIOUS
  <1> HIDE DEF c
  <1>4. c[Len(s)] = p[Len(s)]
    BY <1>2, <1>3, SumsAgree
  <1> QED BY <1>1, <1>4

\* Sum of no element, and of one more.
LEMMA SumFacts ==
    /\ Sum(<< >>) = 0
    /\ \A s \in Seq(Int) : Sum(s) \in Int
    /\ \A s \in Seq(Int), v \in Int : Sum(Append(s, v)) = Sum(s) + v
  <1>1. ASSUME NEW s \in Seq(Int) PROVE Sum(s) \in Int
    <2>1. PICK p \in [0 .. Len(s) -> Int] : Sums(s, p)
      BY SumsExist
    <2>2. Sum(s) = p[Len(s)] /\ Len(s) \in 0 .. Len(s)
      BY <2>1, SumIs
    <2> QED BY <2>2
  <1>2. Sum(<< >>) = 0
    <2>1. << >> \in Seq(Int) /\ Len(<< >>) = 0
      OBVIOUS
    <2>2. PICK p \in [0 .. Len(<< >>) -> Int] : Sums(<< >>, p)
      BY <2>1, SumsExist
    <2>3. Sum(<< >>) = p[0]
      BY <2>1, <2>2, SumIs
    <2>4. p[0] = 0
      BY <2>1, <2>2 DEF Sums
    <2> QED BY <2>3, <2>4
  <1>3. ASSUME NEW s \in Seq(Int), NEW v \in Int
        PROVE  Sum(Append(s, v)) = Sum(s) + v
    <2> DEFINE u == Append(s, v)
               n == Len(s)
    <2>1. /\ u \in Seq(Int) /\ Len(u) = n + 1 /\ u[n + 1] = v /\ n \in Nat
          /\ \A i \in 1 .. n : s[i] = u[i]
      OBVIOUS
    <2> HIDE DEF u
    <2>2. PICK p : Sums(s, p)
      BY SumsExist
    <2>3. PICK r : Sums(u, r)
      BY <2>1, SumsExist
    <2>4. Sum(s) = p[n] /\ Sum(u) = r[n + 1]
      BY <2>1, <2>2, <2>3, SumIs
    <2>5. n \in 0 .. Len(s) /\ Len(s) <= Len(u)
      BY <2>1
    <2>6. p[n] = r[n]
      BY <2>1, <2>2, <2>3, <2>5, SumsAgree
    <2>7. r[n + 1] = r[n] + v
      <3>1. n + 1 \in 0 .. Len(u) /\ n + 1 # 0 /\ n + 1 - 1 = n
        BY <2>1
      <3>2. \A i \in 0 .. Len(u) : r[i] = IF i = 0 THEN 0 ELSE r[i - 1] + u[i]
        BY <2>3 DEF Sums
      <3> QED BY <2>1, <3>1, <3>2
    <2> QED BY <2>4, <2>6, <2>7 DEF u
  <1> QED BY <1>1, <1>2, <1>3

-----------------------------------------------------------------------------
(* Statistics: the running update is exact. *)

\* A factor that both sides share.
LEMMA Cancel ==
    ASSUME NEW x \in Int, NEW y \in Int, NEW n \in Int, n # 0, x * n = y * n
    PROVE  x = y
  OBVIOUS

\* The mean a/b of n samples with sum t, and a sample v.
MeanAlgebra(a, b, n, t, v) ==
    a * n = t * b =>
        (a * (1 * b * (n + 1)) + (v * b - a * 1) * b) * (n + 1)
          = (t + v) * (b * (1 * b * (n + 1)))

\* It holds of all integers.
LEMMA MeanStep ==
    ASSUME NEW a \in Int, NEW b \in Int, NEW n \in Int, NEW t \in Int, NEW v \in Int
    PROVE  MeanAlgebra(a, b, n, t, v)
  <1> SUFFICES ASSUME a * n = t * b
               PROVE  (a * (1 * b * (n + 1)) + (v * b - a * 1) * b) * (n + 1)
                        = (t + v) * (b * (1 * b * (n + 1)))
    BY DEF MeanAlgebra
  <1>1. (a * (1 * b * (n + 1)) + (v * b - a * 1) * b) * (n + 1)
          = b * (n + 1) * (a * n + v * b)
    OBVIOUS
  <1>2. b * (n + 1) * (t * b + v * b) = (t + v) * (b * (1 * b * (n + 1)))
    OBVIOUS
  <1> QED BY <1>1, <1>2

\* The sum c/d of squared deviations, the old mean a/b and the new one e/f; the
\* samples so far have the sum t and the sum of squares q.
DeviationAlgebra(a, b, n, t, v, q, c, d, e, f) ==
    a * n = t * b /\ e * (n + 1) = (t + v) * f /\ c * n = (n * q - t * t) * d =>
        (c * (b * f) + ((v * b - a) * (v * f - e)) * d) * (n + 1)
          = ((n + 1) * (q + v * v) - (t + v) * (t + v)) * (d * (b * f))

\* It holds of all integers, for one sample or more.
LEMMA DeviationStep ==
    ASSUME NEW a \in Int, NEW b \in Int, NEW n \in Int, NEW t \in Int, NEW v \in Int,
           NEW q \in Int, NEW c \in Int, NEW d \in Int, NEW e \in Int, NEW f \in Int,
           n # 0
    PROVE  DeviationAlgebra(a, b, n, t, v, q, c, d, e, f)
  <1> SUFFICES ASSUME a * n = t * b, e * (n + 1) = (t + v) * f,
                      c * n = (n * q - t * t) * d
               PROVE  (c * (b * f) + ((v * b - a) * (v * f - e)) * d) * (n + 1)
                        = ((n + 1) * (q + v * v) - (t + v) * (t + v)) * (d * (b * f))
    BY DEF DeviationAlgebra
  <1> DEFINE x == v * b - a
             y == v * f - e
             D == v * n - t
  <1>1. x \in Int /\ y \in Int /\ D \in Int
    OBVIOUS
  <1>2. x * n = b * D
    <2>1. x * n = v * b * n - a * n
      OBVIOUS
    <2>2. v * b * n - t * b = b * D
      OBVIOUS
    <2> QED BY <2>1, <2>2
  <1>3. y * (n + 1) = f * D
    <2>1. y * (n + 1) = v * f * (n + 1) - e * (n + 1)
      OBVIOUS
    <2>2. v * f * (n + 1) - (t + v) * f = f * D
      OBVIOUS
    <2> QED BY <2>1, <2>2
  <1> HIDE DEF x, y
  <1>4. ((c * (b * f) + (x * y) * d) * (n + 1)) * n
          = (c * n) * (b * f * (n + 1)) + (x * n) * (y * (n + 1)) * d
    BY <1>1
  <1>5. ((n * q - t * t) * d) * (b * f * (n + 1)) + (b * D) * (f * D) * d
          = (((n + 1) * (q + v * v) - (t + v) * (t + v)) * (d * (b * f))) * n
    OBVIOUS
  <1>6. ((c * (b * f) + (x * y) * d) * (n + 1)) * n
          = (((n + 1) * (q + v * v) - (t + v) * (t + v)) * (d * (b * f))) * n
    <2> HIDE DEF D
    <2> QED BY <1>2, <1>3, <1>4, <1>5
  <1>7. /\ (c * (b * f) + (x * y) * d) * (n + 1) \in Int
        /\ ((n + 1) * (q + v * v) - (t + v) * (t + v)) * (d * (b * f)) \in Int
    BY <1>1
  <1>8. (c * (b * f) + (x * y) * d) * (n + 1)
          = ((n + 1) * (q + v * v) - (t + v) * (t + v)) * (d * (b * f))
    BY <1>6, <1>7, Cancel
  <1> QED BY <1>8 DEF x, y

\* The fields of st for samples s, as fractions with a positive denominator.
MeanOf(m, s) ==
    \E a \in Int, b \in Nat \ {0} : m = << a, b >> /\ a * Len(s) = Total(s) * b

DeviationOf(x, s) ==
    \E c \in Int, d \in Nat \ {0} :
        /\ x = << c, d >>
        /\ c * Len(s) = (Len(s) * SquareTotal(s) - Total(s) * Total(s)) * d

LeastOf(x, s) ==
    \E i \in DOMAIN s : x = Whole(s[i]) /\ \A j \in DOMAIN s : s[i] <= s[j]

GreatestOf(x, s) ==
    \E i \in DOMAIN s : x = Whole(s[i]) /\ \A j \in DOMAIN s : s[j] <= s[i]

\* st is what the samples s define; unlike Describes, an inductive form.
Exact(st, s) ==
    /\ st.samples = Len(s)
    /\ s = << >> => st = New
    /\ s # << >> => /\ MeanOf(st.mean, s) /\ DeviationOf(st.variance, s)
                    /\ LeastOf(st.min, s) /\ GreatestOf(st.max, s)

\* Denominators stay positive.
LEMMA Positive ==
    ASSUME NEW x \in Nat \ {0}, NEW y \in Nat \ {0} PROVE x * y \in Nat \ {0}
  <1>1. x >= 1 /\ y >= 1
    OBVIOUS
  <1>2. x * y \in Int /\ x * y >= x
    BY <1>1
  <1> QED BY <1>1, <1>2

\* Sums of one more sample.
LEMMA TotalFacts ==
    /\ Total(<< >>) = 0 /\ SquareTotal(<< >>) = 0
    /\ \A s \in Seq(Int) : Total(s) \in Int /\ SquareTotal(s) \in Int
    /\ \A s \in Seq(Int), v \in Int :
         /\ Total(Append(s, v)) = Total(s) + v
         /\ SquareTotal(Append(s, v)) = SquareTotal(s) + v * v
  <1> DEFINE Sq(s) == [i \in DOMAIN s |-> s[i] * s[i]]
  <1>1. ASSUME NEW s \in Seq(Int) PROVE Sq(s) \in Seq(Int)
    <2>1. Len(s) \in Nat /\ DOMAIN s = 1 .. Len(s) /\ \A i \in DOMAIN s : s[i] \in Int
      OBVIOUS
    <2>2. Sq(s) \in [1 .. Len(s) -> Int]
      BY <2>1
    <2> HIDE DEF Sq
    <2> QED BY <2>1, <2>2
  <1>2. Sq(<< >>) = << >>
    OBVIOUS
  <1>3. ASSUME NEW s \in Seq(Int), NEW v \in Int
        PROVE  Sq(Append(s, v)) = Append(Sq(s), v * v)
    <2> DEFINE n == Len(s)
    <2>1. /\ n \in Nat /\ DOMAIN s = 1 .. n
          /\ Append(s, v) \in Seq(Int) /\ DOMAIN Append(s, v) = 1 .. n + 1
          /\ \A i \in 1 .. n : Append(s, v)[i] = s[i]
          /\ Append(s, v)[n + 1] = v
      OBVIOUS
    <2>2. /\ Sq(s) \in Seq(Int) /\ Len(Sq(s)) = n
          /\ \A i \in 1 .. n : Sq(s)[i] = s[i] * s[i]
      <3>1. \A i \in 1 .. n : Sq(s)[i] = s[i] * s[i]
        BY <2>1
      <3>2. DOMAIN Sq(s) = 1 .. n
        BY <2>1
      <3> HIDE DEF Sq
      <3>3. Sq(s) \in Seq(Int)
        BY <1>1
      <3>4. Len(Sq(s)) = n
        BY <2>1, <3>2, <3>3
      <3> QED BY <3>1, <3>3, <3>4
    <2>3. /\ Append(Sq(s), v * v) \in Seq(Int)
          /\ Len(Append(Sq(s), v * v)) = n + 1
          /\ \A i \in 1 .. n : Append(Sq(s), v * v)[i] = s[i] * s[i]
          /\ Append(Sq(s), v * v)[n + 1] = v * v
      <3> HIDE DEF Sq
      <3> DEFINE w == v * v
      <3>1. w \in Int
        OBVIOUS
      <3> HIDE DEF w
      <3>2. /\ Append(Sq(s), w) \in Seq(Int)
            /\ Len(Append(Sq(s), w)) = n + 1
            /\ \A i \in 1 .. n : Append(Sq(s), w)[i] = Sq(s)[i]
            /\ Append(Sq(s), w)[n + 1] = w
        BY <2>1, <2>2, <3>1
      <3> QED BY <2>2, <3>2 DEF w
    <2>4. /\ Sq(Append(s, v)) \in Seq(Int)
          /\ DOMAIN Sq(Append(s, v)) = 1 .. n + 1
          /\ \A i \in 1 .. n + 1 : Sq(Append(s, v))[i]
                                     = Append(s, v)[i] * Append(s, v)[i]
      BY <1>1, <2>1
    <2>5. ASSUME NEW i \in 1 .. n + 1
          PROVE  Sq(Append(s, v))[i] = Append(Sq(s), v * v)[i]
      <3> HIDE DEF Sq
      <3>1. CASE i \in 1 .. n
        BY <2>1, <2>3, <2>4, <3>1
      <3>2. CASE i = n + 1
        BY <2>1, <2>3, <2>4, <3>2
      <3>3. i \in 1 .. n \/ i = n + 1
        BY <2>1
      <3> QED BY <3>1, <3>2, <3>3
    <2> HIDE DEF Sq
    <2> DEFINE A == Sq(Append(s, v))
               B == Append(Sq(s), v * v)
    <2>6. /\ A \in Seq(Int) /\ DOMAIN A = 1 .. n + 1
          /\ B \in Seq(Int) /\ DOMAIN B = 1 .. n + 1
      BY <2>1, <2>3, <2>4
    <2>7. \A i \in 1 .. n + 1 : A[i] = B[i]
      BY <2>5
    <2> HIDE DEF A, B
    <2>8. A = B
      BY <2>6, <2>7
    <2> QED BY <2>8 DEF A, B
  <1> HIDE DEF Sq
  <1>4. \A s : SquareTotal(s) = Sum(Sq(s))
    BY DEF SquareTotal, Sq
  <1>5. \A v \in Int : v * v \in Int
    OBVIOUS
  <1>6. ASSUME NEW s \in Seq(Int), NEW v \in Int
        PROVE  SquareTotal(Append(s, v)) = SquareTotal(s) + v * v
    BY <1>1, <1>3, <1>4, <1>5, SumFacts
  <1>7. << >> \in Seq(Int)
    OBVIOUS
  <1> QED BY <1>1, <1>2, <1>4, <1>6, <1>7, SumFacts DEF Total

\* The first sample.
LEMMA ExactFirst ==
    ASSUME NEW st, Exact(st, << >>), NEW v \in Int
    PROVE  Exact(Update(st, v), Append(<< >>, v))
  <1> DEFINE u == Append(<< >>, v)
  <1>1. Len(u) = 1 /\ DOMAIN u = {1} /\ u[1] = v /\ u # << >>
    OBVIOUS
  <1>2. << >> \in Seq(Int) /\ Len(<< >>) = 0
    OBVIOUS
  <1>3. Total(u) = v /\ SquareTotal(u) = v * v
    <2>1. Total(u) = 0 + v /\ SquareTotal(u) = 0 + v * v
      <3> HIDE DEF u
      <3> QED BY <1>2, TotalFacts DEF u
    <2>2. 0 + v = v /\ 0 + v * v = v * v
      OBVIOUS
    <2> QED BY <2>1, <2>2
  <1>4. Update(st, v) = First(v)
    BY <1>2 DEF Update, Exact
  <1> HIDE DEF u
  <1>5. MeanOf(Whole(v), u)
    BY <1>1, <1>3 DEF MeanOf, Whole
  <1>6. DeviationOf(Whole(0), u)
    <2>1. 0 * Len(u) = (Len(u) * SquareTotal(u) - Total(u) * Total(u)) * 1
      BY <1>1, <1>3
    <2> QED BY <2>1 DEF DeviationOf, Whole
  <1>7. LeastOf(Whole(v), u) /\ GreatestOf(Whole(v), u)
    BY <1>1 DEF LeastOf, GreatestOf
  <1>8. Exact(First(v), u)
    BY <1>1, <1>5, <1>6, <1>7 DEF Exact, First
  <1> QED BY <1>4, <1>8 DEF u

\* A further one.
LEMMA ExactNext ==
    ASSUME NEW s \in Seq(Int), s # << >>, NEW st, Exact(st, s), NEW v \in Int
    PROVE  Exact(Update(st, v), Append(s, v))
  <1> DEFINE u == Append(s, v)
             n == Len(s)
             t == Total(s)
             q == SquareTotal(s)
  <1>1. /\ n \in Nat \ {0} /\ DOMAIN s = 1 .. n /\ \A i \in 1 .. n : s[i] \in Int
        /\ Len(u) = n + 1 /\ DOMAIN u = 1 .. n + 1 /\ u # << >>
        /\ \A i \in 1 .. n : u[i] = s[i]
        /\ u[n + 1] = v
    OBVIOUS
  <1>2. /\ t \in Int /\ q \in Int
        /\ Total(u) = t + v /\ SquareTotal(u) = q + v * v
    BY TotalFacts
  <1>3. st.samples = n
    BY DEF Exact
  <1>4. PICK a \in Int, b \in Nat \ {0} : st.mean = << a, b >> /\ a * n = t * b
    BY DEF Exact, MeanOf
  <1>5. PICK c \in Int, d \in Nat \ {0} :
          st.variance = << c, d >> /\ c * n = (n * q - t * t) * d
    BY DEF Exact, DeviationOf
  <1> HIDE DEF u, n, t, q
  <1> DEFINE e == a * (1 * b * (n + 1)) + (v * b - a * 1) * b
             f == b * (1 * b * (n + 1))
             g == c * (1 * b * (1 * f)) + (v * b - a * 1) * (v * f - e * 1) * d
             h == d * (1 * b * (1 * f))
  <1>6. Update(st, v) =
          [samples |-> n + 1, mean |-> << e, f >>, variance |-> << g, h >>,
           min |-> Smaller(st.min, v), max |-> Larger(st.max, v)]
    BY <1>1, <1>3, <1>4, <1>5 DEF Update, Plus, Minus, Times, Over, Whole
  <1>7. f \in Nat \ {0} /\ h \in Nat \ {0}
    <2>1. n + 1 \in Nat \ {0} /\ 1 * b = b
      BY <1>1
    <2>2. b * (n + 1) \in Nat \ {0}
      BY <2>1, Positive
    <2>3. f \in Nat \ {0}
      BY <2>1, <2>2, Positive
    <2> HIDE DEF f
    <2>4. 1 * f = f
      BY <2>3
    <2>5. b * f \in Nat \ {0}
      BY <2>3, Positive
    <2> QED BY <2>1, <2>3, <2>4, <2>5, Positive
  <1>8. e \in Int /\ e * (n + 1) = (t + v) * f
    <2>1. n \in Int /\ b \in Int
      BY <1>1
    <2>2. MeanAlgebra(a, b, n, t, v)
      BY <1>2, <2>1, MeanStep
    <2>3. e * (n + 1) = (t + v) * f
      BY <1>4, <2>2 DEF MeanAlgebra
    <2> QED BY <2>1, <2>3
  <1> HIDE DEF e, f
  <1>9. g \in Int
        /\ g * (n + 1) = ((n + 1) * (q + v * v) - (t + v) * (t + v)) * h
    <2>1. g = c * (b * f) + ((v * b - a) * (v * f - e)) * d /\ h = d * (b * f)
      BY <1>7, <1>8
    <2>2. (c * (b * f) + ((v * b - a) * (v * f - e)) * d) * (n + 1)
            = ((n + 1) * (q + v * v) - (t + v) * (t + v)) * (d * (b * f))
      <3>1. n \in Int /\ n # 0 /\ b \in Int /\ d \in Int /\ f \in Int
        BY <1>1, <1>7
      <3>2. DeviationAlgebra(a, b, n, t, v, q, c, d, e, f)
        BY <1>2, <1>8, <3>1, DeviationStep
      <3> QED BY <1>4, <1>5, <1>8, <3>2 DEF DeviationAlgebra
    <2>3. g \in Int
      BY <1>7, <1>8
    <2> HIDE DEF g, h
    <2> QED BY <2>1, <2>2, <2>3
  <1> HIDE DEF g, h
  <1>10. MeanOf(<< e, f >>, u)
    BY <1>1, <1>2, <1>7, <1>8 DEF MeanOf
  <1>11. DeviationOf(<< g, h >>, u)
    BY <1>1, <1>2, <1>7, <1>9 DEF DeviationOf
  <1>12. LeastOf(Smaller(st.min, v), u)
    <2> PICK i \in 1 .. n : /\ st.min = Whole(s[i])
                            /\ \A j \in 1 .. n : s[i] <= s[j]
      BY <1>1 DEF Exact, LeastOf
    <2>1. CASE v < s[i]
      <3>1. Smaller(st.min, v) = Whole(u[n + 1])
        BY <1>1, <2>1 DEF Smaller, Whole
      <3>2. \A j \in 1 .. n + 1 : u[n + 1] <= u[j]
        BY <1>1, <2>1
      <3>3. n + 1 \in 1 .. n + 1
        BY <1>1
      <3> QED BY <1>1, <3>1, <3>2, <3>3 DEF LeastOf
    <2>2. CASE ~(v < s[i])
      <3>1. Smaller(st.min, v) = Whole(u[i])
        BY <1>1, <2>2 DEF Smaller, Whole
      <3>2. \A j \in 1 .. n + 1 : u[i] <= u[j]
        BY <1>1, <2>2
      <3>3. i \in 1 .. n + 1
        BY <1>1
      <3> QED BY <1>1, <3>1, <3>2, <3>3 DEF LeastOf
    <2> QED BY <2>1, <2>2
  <1>13. GreatestOf(Larger(st.max, v), u)
    <2> PICK i \in 1 .. n : /\ st.max = Whole(s[i])
                            /\ \A j \in 1 .. n : s[j] <= s[i]
      BY <1>1 DEF Exact, GreatestOf
    <2>1. CASE v > s[i]
      <3>1. Larger(st.max, v) = Whole(u[n + 1])
        BY <1>1, <2>1 DEF Larger, Whole
      <3>2. \A j \in 1 .. n + 1 : u[j] <= u[n + 1]
        BY <1>1, <2>1
      <3>3. n + 1 \in 1 .. n + 1
        BY <1>1
      <3> QED BY <1>1, <3>1, <3>2, <3>3 DEF GreatestOf
    <2>2. CASE ~(v > s[i])
      <3>1. Larger(st.max, v) = Whole(u[i])
        BY <1>1, <2>2 DEF Larger, Whole
      <3>2. \A j \in 1 .. n + 1 : u[j] <= u[i]
        BY <1>1, <2>2
      <3>3. i \in 1 .. n + 1
        BY <1>1
      <3> QED BY <1>1, <3>1, <3>2, <3>3 DEF GreatestOf
    <2> QED BY <2>1, <2>2
  <1>14. Exact(Update(st, v), u)
    BY <1>1, <1>6, <1>10, <1>11, <1>12, <1>13 DEF Exact
  <1> QED BY <1>14 DEF u

\* The running update of Statistics is exact, whatever the samples are: from
\* the sum and the sum of squares of some, to those of one more.
THEOREM UpdateIsExact ==
    ASSUME NEW s \in Seq(Int), NEW st, Exact(st, s), NEW v \in Int
    PROVE  Exact(Update(st, v), Append(s, v))
  BY ExactFirst, ExactNext

\* What Exact keeps is what the getters must return.
LEMMA ExactDescribes ==
    ASSUME NEW s \in Seq(Int), NEW st, Exact(st, s) PROVE Describes(st, s)
  <1>1. CASE s = << >>
    BY <1>1 DEF Exact, Describes
  <1>2. CASE s # << >>
    <2> DEFINE n == Len(s)
               t == Total(s)
               q == SquareTotal(s)
    <2>1. /\ n \in Nat \ {0} /\ DOMAIN s = 1 .. n
          /\ \A i \in 1 .. n : s[i] \in Int
      BY <1>2
    <2>2. t \in Int /\ q \in Int
      BY TotalFacts
    <2>3. st.samples = n
      BY DEF Exact
    <2>4. PICK a \in Int, b \in Nat \ {0} : st.mean = << a, b >> /\ a * n = t * b
      BY <1>2 DEF Exact, MeanOf
    <2>5. PICK c \in Int, d \in Nat \ {0} :
            st.variance = << c, d >> /\ c * n = (n * q - t * t) * d
      BY <1>2 DEF Exact, DeviationOf
    <2>6. PICK i \in 1 .. n : /\ st.min = Whole(s[i])
                              /\ \A j \in 1 .. n : s[i] <= s[j]
      BY <1>2, <2>1 DEF Exact, LeastOf
    <2>7. PICK k \in 1 .. n : /\ st.max = Whole(s[k])
                              /\ \A j \in 1 .. n : s[j] <= s[k]
      BY <1>2, <2>1 DEF Exact, GreatestOf
    <2> HIDE DEF n, t, q
    <2>8. Same(st.mean, << t, n >>)
      BY <2>1, <2>2, <2>4 DEF Same
    <2>9. Same(Variance(st), << n * q - t * t, n * n >>)
      <3>1. Variance(st) = << c, d * n >>
        BY <2>3, <2>5 DEF Variance, Over
      <3>2. d * n # 0 /\ n * n # 0
        BY <2>1, <2>5, Positive
      <3>3. c * (n * n) = (n * q - t * t) * (d * n)
        <4>1. c * (n * n) = (c * n) * n
          BY <2>1
        <4>2. ((n * q - t * t) * d) * n = (n * q - t * t) * (d * n)
          BY <2>1, <2>2
        <4> QED BY <2>5, <4>1, <4>2
      <3> QED BY <3>1, <3>2, <3>3 DEF Same
    <2>10. /\ Same(st.min, Whole(s[i])) /\ Same(st.max, Whole(s[k]))
           /\ \A j \in 1 .. n : /\ st.min[1] <= s[j] * st.min[2]
                                /\ s[j] * st.max[2] <= st.max[1]
      BY <2>1, <2>6, <2>7 DEF Same, Whole
    <2>11. /\ Len(s) = n /\ Total(s) = t /\ SquareTotal(s) = q
      BY DEF n, t, q
    <2> QED BY <1>2, <2>1, <2>3, <2>8, <2>9, <2>10, <2>11 DEF Describes
  <1> QED BY <1>1, <1>2

-----------------------------------------------------------------------------
(* The statistics of a handler. *)

\* The statistics are exact for the gaps so far, and the time the handler
\* compares the next frame with is that of its last one: a frame that is read
\* and not yet answered is one more than recv_counter counts, so the counter is
\* 0 exactly when there is no frame to compare with.
GapsInv ==
    /\ Len(reads) = recv_counter + Len(frame)
    /\ reads # << >> => time = reads[Len(reads)].kept
    /\ Exact(stats, Gaps)

\* as_millis of a time is a number.
LEMMA MillisFacts == \A t \in Int : Millis(t) \in Int
  BY TcpServerAssumption DEF Millis

\* The gap between two frames is a number.
LEMMA GapFacts == \A a, b \in Stamps : Gap(a, b) \in Int
  <1> SUFFICES ASSUME NEW a \in Stamps, NEW b \in Stamps PROVE Gap(a, b) \in Int
    OBVIOUS
  <1>1. b.elapsed - a.kept \in Int
    BY DEF Stamps
  <1> QED BY <1>1, MillisFacts DEF Gap

\* The gaps are integers.
LEMMA GapsAreInts ==
    ASSUME HandlerTypes
    PROVE  Gaps \in Seq(Int) /\ DOMAIN Gaps = 1 .. Len(reads) - 1
  <1> DEFINE n == Len(reads)
  <1>1. reads \in Seq(Stamps) /\ n \in Nat
    BY DEF HandlerTypes
  <1>2. CASE n = 0
    <2>1. 1 .. n - 1 = {}
      BY <1>2
    <2>2. Gaps = << >>
      BY <2>1 DEF Gaps
    <2>3. << >> \in Seq(Int) /\ DOMAIN << >> = {}
      OBVIOUS
    <2> QED BY <2>1, <2>2, <2>3
  <1>3. CASE n # 0
    <2>1. n - 1 \in Nat
      BY <1>1, <1>3
    <2>2. ASSUME NEW i \in 1 .. n - 1 PROVE Gap(reads[i], reads[i + 1]) \in Int
      <3>1. i \in 1 .. n /\ i + 1 \in 1 .. n
        BY <1>1, <2>1
      <3>2. reads[i] \in Stamps /\ reads[i + 1] \in Stamps
        BY <1>1, <3>1, ElementFacts
      <3> QED BY <3>2, GapFacts
    <2>3. Gaps \in [1 .. n - 1 -> Int]
      BY <2>2 DEF Gaps
    <2>4. DOMAIN Gaps = 1 .. n - 1
      BY DEF Gaps
    <2> QED BY <2>1, <2>3, <2>4
  <1> QED BY <1>2, <1>3

\* The gaps of one more frame.
LEMMA GapsNext ==
    ASSUME HandlerTypes, NEW t \in Stamps, reads' = Append(reads, t)
    PROVE  /\ Gaps \in Seq(Int)
           /\ reads = << >> => Gaps = << >> /\ Gaps' = << >>
           /\ reads # << >> =>
                Gaps' = Append(Gaps, Gap(reads[Len(reads)], t))
  <1> DEFINE n == Len(reads)
             u == Append(reads, t)
  <1>1. reads \in Seq(Stamps) /\ n \in Nat
    BY DEF HandlerTypes
  <1>2. /\ u \in Seq(Stamps) /\ Len(u) = n + 1 /\ u[n + 1] = t
        /\ \A i \in 1 .. n : u[i] = reads[i] /\ reads[i] \in Stamps
    BY <1>1, AppendFacts, ElementFacts
  <1>3. Gaps \in Seq(Int) /\ DOMAIN Gaps = 1 .. n - 1
    BY GapsAreInts
  <1>4. Gaps' = [i \in 1 .. n |-> Gap(u[i], u[i + 1])]
    <2>1. Gaps' = [i \in 1 .. Len(u) - 1 |-> Gap(u[i], u[i + 1])]
      BY DEF Gaps
    <2>2. Len(u) - 1 = n
      BY <1>1, <1>2
    <2> QED BY <2>1, <2>2
  <1> HIDE DEF u
  <1>5. ASSUME reads = << >> PROVE Gaps = << >> /\ Gaps' = << >>
    <2>1. n = 0 /\ 1 .. n = {} /\ 1 .. n - 1 = {}
      BY <1>5
    <2> QED BY <1>4, <2>1 DEF Gaps
  <1>6. ASSUME reads # << >> PROVE Gaps' = Append(Gaps, Gap(reads[n], t))
    <2> DEFINE v == Gap(reads[n], t)
               A == [i \in 1 .. n |-> Gap(u[i], u[i + 1])]
               B == Append(Gaps, v)
    <2>1. n \in Nat \ {0} /\ n \in 1 .. n /\ v \in Int
      <3>1. n \in Nat \ {0} /\ n \in 1 .. n
        BY <1>1, <1>6
      <3>2. reads[n] \in Stamps
        BY <1>2, <3>1
      <3> QED BY <3>1, <3>2, GapFacts
    <2>2. Len(Gaps) = n - 1
      BY <1>3, <2>1
    <2> HIDE DEF v
    <2>3. /\ B \in Seq(Int) /\ Len(B) = n
          /\ \A i \in 1 .. n - 1 : B[i] = Gaps[i]
          /\ B[n] = v
      <3>1. /\ Append(Gaps, v) \in Seq(Int) /\ Len(Append(Gaps, v)) = n - 1 + 1
            /\ \A i \in 1 .. n - 1 : Append(Gaps, v)[i] = Gaps[i]
            /\ Append(Gaps, v)[n - 1 + 1] = v
        BY <1>3, <2>1, <2>2, AppendFacts
      <3>2. n - 1 + 1 = n
        BY <2>1
      <3> QED BY <3>1, <3>2
    <2>4. A \in Seq(Int) /\ DOMAIN A = 1 .. n
      <3>1. \A i \in 1 .. n : Gap(u[i], u[i + 1]) \in Int
        <4>1. \A i \in 1 .. n : u[i] \in Stamps /\ u[i + 1] \in Stamps
          BY <1>1, <1>2
        <4> QED BY <4>1, GapFacts
      <3>2. A \in [1 .. n -> Int]
        BY <3>1
      <3> QED BY <2>1, <3>2
    <2>5. ASSUME NEW i \in 1 .. n PROVE A[i] = B[i]
      <3>1. CASE i = n
        BY <1>2, <2>1, <2>3, <3>1 DEF v
      <3>2. CASE i # n
        <4>1. i \in 1 .. n - 1 /\ i + 1 \in 1 .. n
          BY <2>1, <3>2
        <4>2. Gaps[i] = Gap(reads[i], reads[i + 1])
          BY <4>1 DEF Gaps
        <4> QED BY <1>2, <2>3, <4>1, <4>2
      <3> QED BY <3>1, <3>2
    <2>6. DOMAIN B = 1 .. n
      BY <2>1, <2>3
    <2> HIDE DEF A, B
    <2>7. A = B
      BY <2>3, <2>4, <2>5, <2>6
    <2> QED BY <1>4, <2>7 DEF A, B, v
  <1> QED BY <1>3, <1>5, <1>6

\* GapsInv is inductive, given the types and CountInv.
LEMMA GapsStep ==
    ASSUME HandlerTypes, StreamTypes, CountInv, GapsInv, [Next]_vars
    PROVE  GapsInv'
  <1>1. ASSUME UNCHANGED << frame, recv_counter, time, stats, reads >>
        PROVE  GapsInv'
    BY <1>1 DEF GapsInv, Gaps
  <1>2. CASE UNCHANGED vars
    BY <1>1, <1>2 DEF vars, handlerVars
  <1>3. CASE Tick
    BY <1>1, <1>3 DEF Tick, handlerVars
  <1>4. CASE Accept
    <2>1. frame' = << >> /\ recv_counter' = 0 /\ reads' = << >> /\ stats' = New
      BY <1>4 DEF Accept, CountInv
    <2>2. Gaps' = << >>
      BY <2>1 DEF Gaps
    <2>3. Exact(New, << >>)
      BY DEF Exact, New
    <2> QED BY <2>1, <2>2, <2>3 DEF GapsInv
  <1>5. ASSUME NEW c \in Conns,
               \/ Connect(c) \/ ClientSend(c) \/ ClientRead(c) \/ Leave(c)
               \/ Reset(c) \/ ReplyFails(c) \/ Disconnected(c)
        PROVE  GapsInv'
    BY <1>1, <1>5 DEF Connect, ClientSend, ClientRead, Leave, Reset, ReplyFails,
                      Disconnected, handlerVars
  <1>6. ASSUME NEW c \in Conns, Read(c) PROVE GapsInv'
    <2> DEFINE t == [elapsed |-> now, kept |-> now']
    <2>1. /\ frame = << >> /\ Len(frame') = 1
          /\ reads' = Append(reads, t) /\ time' = now'
          /\ recv_counter' = recv_counter
          /\ stats' = IF recv_counter = 0 THEN stats
                      ELSE Update(stats, Millis(now - time))
      BY <1>6 DEF Read, Sample
    <2>2. /\ reads \in Seq(Stamps) /\ recv_counter \in Nat
          /\ now \in Nat /\ now' \in Nat /\ time \in Nat
      BY <1>6, TcpServerAssumption DEF HandlerTypes, Read
    <2>6. t \in Stamps /\ t.elapsed = now /\ t.kept = now'
      BY <2>2 DEF Stamps
    <2> HIDE DEF t
    <2>3. Len(reads) = recv_counter
      BY <2>1, <2>2 DEF GapsInv
    <2>4. /\ Len(reads') = recv_counter' + Len(frame')
          /\ time' = reads'[Len(reads')].kept
      BY <2>1, <2>2, <2>3, <2>6, AppendFacts
    <2>5. Exact(stats', Gaps')
      <3>1. CASE reads = << >>
        <4>1. recv_counter = 0
          BY <2>3, <3>1
        <4> QED BY <2>1, <2>6, <3>1, <4>1, GapsNext DEF GapsInv
      <3>2. CASE reads # << >>
        <4>1. recv_counter # 0
          BY <2>2, <2>3, <3>2
        <4>2. /\ Gaps \in Seq(Int) /\ Millis(now - time) \in Int
              /\ Gaps' = Append(Gaps, Millis(now - time))
          <5>1. Millis(now - time) \in Int
            BY <2>2, MillisFacts
          <5>2. Gap(reads[Len(reads)], t) = Millis(now - time)
            BY <2>6, <3>2 DEF Gap, GapsInv
          <5> QED BY <2>1, <2>6, <3>2, <5>1, <5>2, GapsNext
        <4>3. stats' = Update(stats, Millis(now - time))
          BY <2>1, <4>1
        <4> QED BY <4>2, <4>3, UpdateIsExact DEF GapsInv
      <3> QED BY <3>1, <3>2
    <2> QED BY <2>4, <2>5 DEF GapsInv
  <1>7. ASSUME NEW c \in Conns, Reply(c) PROVE GapsInv'
    <2>1. /\ Len(frame) = 1 /\ frame' = << >> /\ recv_counter' = recv_counter + 1
          /\ UNCHANGED << time, stats, reads >>
      BY <1>7, Holds DEF Reply, Replied
    <2>2. recv_counter \in Nat /\ Len(<< >>) = 0
      BY DEF HandlerTypes
    <2>3. Len(reads') = recv_counter' + Len(frame')
      BY <2>1, <2>2 DEF GapsInv
    <2> QED BY <2>1, <2>3 DEF GapsInv, Gaps
  <1> QED BY <1>2, <1>3, <1>4, <1>5, <1>6, <1>7 DEF Next, Handler

\* The statistics of a handler are those of the times between its own frames,
\* for any number of them: nothing is left of an earlier connection, and the
\* first frame, which has no gap, gives no sample.
THEOREM StatsAreOfGaps == Spec => []StatsOfGaps
  <1>1. Init => GapsInv
    <2>1. ASSUME Init PROVE Gaps = << >> /\ Len(reads) = 0 /\ Len(frame) = 0
      BY <2>1 DEF Init, Gaps
    <2>2. Exact(New, << >>)
      BY DEF Exact, New
    <2> QED BY <2>1, <2>2 DEF Init, GapsInv
  <1>2. ASSUME TypeOK, CountInv, GapsInv, [Next]_vars PROVE GapsInv'
    BY <1>2, TypeParts, GapsStep
  <1>3. ASSUME TypeOK, GapsInv PROVE StatsOfGaps
    <2>1. Gaps \in Seq(Int)
      BY <1>3, TypeParts, GapsAreInts
    <2> QED BY <1>3, <2>1, ExactDescribes DEF GapsInv, StatsOfGaps
  <1> QED BY <1>1, <1>2, <1>3, TypeInvariance, CountInvariance, PTL DEF Spec
=============================================================================
