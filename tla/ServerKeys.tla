------------------------------ MODULE ServerKeys ------------------------------
(***************************************************************************)
(* The certificate and the private key of the latency server, in the files *)
(* cert.der and key.der of its working directory (configure_server and     *)
(* QuicServer::new in common/src/lib.rs).                                  *)
(*                                                                         *)
(* A server that starts reads both files, and when one is missing makes a  *)
(* new pair and writes it.  Several servers may be started in one          *)
(* directory, and each may be killed at any step and started again.        *)
(*                                                                         *)
(* fs::write truncates the file and then writes it: a crash in between     *)
(* leaves it torn, and so may another server that writes at the same time. *)
(***************************************************************************)
EXTENDS Naturals, FiniteSets

CONSTANTS
    Servers,    \* the server processes that may be started
    MaxPairs,   \* bound: pairs that are made
    Absent,     \* a file that does not exist
    Torn        \* a file that holds no whole certificate or key

ASSUME ServerKeysAssumption ==
    /\ MaxPairs \in Nat
    /\ Absent \notin Nat /\ Torn \notin Nat /\ Absent # Torn

\* What a file holds: nothing, something torn, or the half of pair n.
Pairs == 1 .. MaxPairs
Content == {Absent, Torn} \cup Pairs

VARIABLES
    cert,       \* cert.der
    key,        \* key.der
    made,       \* how many pairs have been made
    phase,      \* where each server is
    own,        \* the certificate and key that each server has in memory
    overlapped, \* history: two servers were in configure_server at a time
    keyTorn     \* history: a server was killed while it wrote key.der

keysVars == << cert, key, made, phase, own, overlapped, keyTorn >>

Configuring == {"readCert", "readKey", "generate", "truncCert", "writeCert",
                "truncKey", "writeKey", "config"}
Down == {"down", "failed", "refused"}

NoPair == [cert |-> Absent, key |-> Absent]

\* The directory is empty, or holds the pair of an earlier server.
KeysInit ==
    /\ made \in {0, 1} /\ made <= MaxPairs
    /\ cert = (IF made = 0 THEN Absent ELSE 1)
    /\ key = cert
    /\ phase = [p \in Servers |-> "down"]
    /\ own = [p \in Servers |-> NoPair]
    /\ overlapped = FALSE
    /\ keyTorn = FALSE

GoTo(p, l) == phase' = [phase EXCEPT ![p] = l]

-----------------------------------------------------------------------------
\* A server process is started.
Start(p) ==
    /\ phase[p] \in Down
    /\ GoTo(p, "readCert")
    /\ own' = [own EXCEPT ![p] = NoPair]
    /\ overlapped' = (overlapped \/ \E q \in Servers : phase[q] \in Configuring)
    /\ UNCHANGED << cert, key, made, keyTorn >>

\* A server process is killed.
Kill(p) ==
    /\ phase[p] \notin Down
    /\ GoTo(p, "down")
    /\ keyTorn' = (keyTorn \/ phase[p] = "writeKey")
    /\ UNCHANGED << cert, key, made, own, overlapped >>

ReadCert(p) ==
    /\ phase[p] = "readCert"
    /\ IF cert = Absent THEN GoTo(p, "generate") /\ UNCHANGED own
       ELSE GoTo(p, "readKey") /\ own' = [own EXCEPT ![p].cert = cert]
    /\ UNCHANGED << cert, key, made, overlapped, keyTorn >>

\* Mutant: the certificate that was found is kept, and a key is made for it.
ReadKeyMakesKey(p) ==
    /\ phase[p] = "readKey"
    /\ IF key = Absent THEN /\ made < MaxPairs /\ made' = made + 1
                            /\ own' = [own EXCEPT ![p].key = made + 1]
       ELSE own' = [own EXCEPT ![p].key = key] /\ UNCHANGED made
    /\ GoTo(p, "config")
    /\ UNCHANGED << cert, key, overlapped, keyTorn >>

\* The key is missing, too, when a server was killed between its two writes.
ReadKey(p) ==
    /\ phase[p] = "readKey"
    /\ IF key = Absent THEN GoTo(p, "generate") /\ UNCHANGED own
       ELSE GoTo(p, "config") /\ own' = [own EXCEPT ![p].key = key]
    /\ UNCHANGED << cert, key, made, overlapped, keyTorn >>

Generate(p) ==
    /\ phase[p] = "generate" /\ made < MaxPairs
    /\ made' = made + 1
    /\ own' = [own EXCEPT ![p] = [cert |-> made + 1, key |-> made + 1]]
    /\ GoTo(p, "truncCert")
    /\ UNCHANGED << cert, key, overlapped, keyTorn >>

\* Mutant: both files are created before the first is written.
TruncCertAndKey(p) ==
    /\ phase[p] = "truncCert"
    /\ cert' = Torn /\ key' = Torn
    /\ GoTo(p, "writeCert")
    /\ UNCHANGED << made, own, overlapped, keyTorn >>

TruncCert(p) ==
    /\ phase[p] = "truncCert"
    /\ cert' = Torn
    /\ GoTo(p, "writeCert")
    /\ UNCHANGED << key, made, own, overlapped, keyTorn >>

\* What a write leaves: its content, or a mixture with that of another server
\* that has written since the file was truncated.
Written(file, n) == IF file = Torn THEN {n} ELSE {n, Torn}

WriteCert(p) ==
    /\ phase[p] = "writeCert"
    /\ cert' \in Written(cert, own[p].cert)
    /\ GoTo(p, "truncKey")
    /\ UNCHANGED << key, made, own, overlapped, keyTorn >>

TruncKey(p) ==
    /\ phase[p] = "truncKey"
    /\ key' = Torn
    /\ GoTo(p, "writeKey")
    /\ UNCHANGED << cert, made, own, overlapped, keyTorn >>

\* Mutant: only the server itself has the key.
WriteKeyKeeps(p) ==
    /\ phase[p] = "writeKey"
    /\ key' = Absent
    /\ GoTo(p, "config")
    /\ UNCHANGED << cert, made, own, overlapped, keyTorn >>

WriteKey(p) ==
    /\ phase[p] = "writeKey"
    /\ key' \in Written(key, own[p].key)
    /\ GoTo(p, "config")
    /\ UNCHANGED << cert, made, own, overlapped, keyTorn >>

\* with_single_cert parses the key, and not the certificate; the endpoint then
\* needs its port, which another server may have.
Config(p) ==
    /\ phase[p] = "config"
    /\ \/ own[p].key = Torn /\ GoTo(p, "failed")
       \/ own[p].key # Torn /\ GoTo(p, "running")
       \/ /\ own[p].key # Torn /\ \E q \in Servers : phase[q] = "running"
          /\ GoTo(p, "refused")
    /\ UNCHANGED << cert, key, made, own, overlapped, keyTorn >>

-----------------------------------------------------------------------------
Configure(p) ==
    \/ ReadCert(p) \/ ReadKey(p) \/ Generate(p)
    \/ TruncCert(p) \/ WriteCert(p) \/ TruncKey(p) \/ WriteKey(p)
    \/ Config(p)

KeysNext == \E p \in Servers : Start(p) \/ Kill(p) \/ Configure(p)

KeysSpec == KeysInit /\ [][KeysNext]_keysVars

-----------------------------------------------------------------------------
(* Properties. *)

\* Every variable has its type, and a server that has come to its configuration
\* has a certificate and a key.
KeysTypeOK ==
    /\ cert \in Content /\ key \in Content
    /\ made \in 0 .. MaxPairs
    /\ phase \in [Servers -> Configuring \cup Down \cup {"running"}]
    /\ own \in [Servers -> [cert : Content, key : Content]]
    /\ \A p \in Servers : phase[p] \in {"config", "running"} =>
         own[p].cert # Absent /\ own[p].key # Absent
    /\ overlapped \in BOOLEAN
    /\ keyTorn \in BOOLEAN

\* Wherever servers have been killed, a server that runs has a key that belongs
\* to its certificate, unless two servers were started at the same time.
ServedPairMatches ==
    ~overlapped => \A p \in Servers : phase[p] = "running" =>
        own[p].cert = own[p].key /\ own[p].cert \in Pairs

\* The files hold the pair of each server that runs: the next server in the
\* directory has the same certificate.
PairIsKept ==
    ~overlapped => \A p \in Servers : phase[p] = "running" =>
        own[p] = [cert |-> cert, key |-> key]

\* The one kill that no later start repairs is that in the write of the key.
FailsOnlyByTornKey ==
    ~overlapped /\ ~keyTorn => \A p \in Servers : phase[p] # "failed"
=============================================================================
