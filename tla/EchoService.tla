----------------------------- MODULE EchoService -----------------------------
(***************************************************************************)
(* What an echo server promises: a request is answered at most once, and   *)
(* only after it was made; a server that has ended answers nothing.        *)
(***************************************************************************)
EXTENDS Naturals

CONSTANTS Clients

VARIABLES
    asked,      \* asked[c]: requests of client c that have reached the server
    answered,   \* answered[c]: how many of them have been answered
    up          \* the server has not ended

vars == << asked, answered, up >>

Init ==
    /\ asked = [c \in Clients |-> 0]
    /\ answered = [c \in Clients |-> 0]
    /\ up = TRUE

Ask(c) ==
    /\ asked' = [asked EXCEPT ![c] = @ + 1]
    /\ UNCHANGED << answered, up >>

Answer(c) ==
    /\ up
    /\ answered[c] < asked[c]
    /\ answered' = [answered EXCEPT ![c] = @ + 1]
    /\ UNCHANGED << asked, up >>

End ==
    /\ up
    /\ up' = FALSE
    /\ UNCHANGED << asked, answered >>

Next == End \/ \E c \in Clients : Ask(c) \/ Answer(c)

Spec == Init /\ [][Next]_vars
=============================================================================
