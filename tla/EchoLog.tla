------------------------------ MODULE EchoLog ------------------------------
(***************************************************************************)
(* What a ping client promises, with no tasks, sockets or queues: a run    *)
(* makes requests, receives results and records them.  Every result        *)
(* answers a request made before and carries that request's own time       *)
(* stamp, results are recorded in the order received, each once, and       *)
(* nothing happens after the run is over.  Requests may stay unanswered    *)
(* and be answered twice: the promise is about what is recorded, not about *)
(* the network.                                                            *)
(***************************************************************************)
EXTENDS Naturals, Sequences

VARIABLES
    requests,   \* the time stamps of the requests, request k at index k + 1
    received,   \* results read from the socket, in order
    recorded,   \* results handed to the statistics and the log, in order
    over        \* the process has ended

vars == << requests, received, recorded, over >>

Init ==
    /\ requests = << >>
    /\ received = << >>
    /\ recorded = << >>
    /\ over = FALSE

\* The new value t of a sequence s has exactly one more element at its end.
Grown(s, t) == Len(t) = Len(s) + 1 /\ SubSeq(t, 1, Len(s)) = s

Answers(r) ==
    /\ r.seq + 1 \in 1 .. Len(requests)
    /\ r.sent = requests[r.seq + 1]

Request ==
    /\ ~over
    /\ Grown(requests, requests')
    /\ UNCHANGED << received, recorded, over >>

Receive ==
    /\ ~over
    /\ Grown(received, received')
    /\ Answers(received'[Len(received) + 1])
    /\ UNCHANGED << requests, recorded, over >>

Record ==
    /\ ~over
    /\ Len(recorded) < Len(received)
    /\ recorded' = Append(recorded, received[Len(recorded) + 1])
    /\ UNCHANGED << requests, received, over >>

Finish ==
    /\ ~over
    /\ over' = TRUE
    /\ UNCHANGED << requests, received, recorded >>

Next == Request \/ Receive \/ Record \/ Finish

Spec == Init /\ [][Next]_vars
=============================================================================
