---------------------------- MODULE Interception ----------------------------
(***************************************************************************)
(* TLS interception (pkg/proxy/tls.go, NewHandler of handler.go): several  *)
(* reelm processes on one CA directory, and a client that connects to one  *)
(* of them after its user has installed the CA certificate.                *)
(*                                                                         *)
(* NewCAManager loads the two files, or writes a new pair over whatever is *)
(* there, the certificate first, with no lock and no rename: a process may *)
(* be killed, and another may read, between any two steps.  A key pair is  *)
(* a name; a file holds one, or is torn (truncated or half written).  Once *)
(* the handshake succeeds, the connection is a Tunnel.                     *)
(***************************************************************************)
EXTENDS Tunnel, FiniteSets

CONSTANTS
    Procs,  \* reelm processes
    Pairs,  \* bound on the key pairs that are somewhere at the same time
    Torn,
    None

ASSUME InterceptionAssumption == Torn \notin Pairs /\ None \notin Pairs \cup Procs /\ Torn # None

VARIABLES
    crt,      \* reelm-ca.crt: a pair, Torn, or None
    key,      \* reelm-ca.key
    step,     \* where a process is: "down", inside NewCAManager, or "up"
    ca,       \* the CAManager of a process, or what it has of one so far
    raced,    \* history: a process started while another generated a pair
    renewed,  \* history: of the starts that could not read an intact pair and
              \* make another one: "never" any, one "begun", or the last "done"
    trusted,  \* the certificate the client's user has installed
    via,      \* the process the client is connected to
    verdict   \* how its last CONNECT ended

files == <<crt, key>>
life  == <<step, ca, raced, renewed>>
peer  == <<trusted, via, verdict>>
ivars == <<vars, files, life, peer>>

NoCA == [crt |-> None, key |-> None]

IInit ==
    /\ up = <<>> /\ down = <<>> /\ sent = 0 /\ ended = <<>>
    /\ client = "gone" /\ loop = "closed"
    /\ crt = None /\ key = None
    /\ step = [p \in Procs |-> "down"]
    /\ ca = [p \in Procs |-> NoCA]
    /\ raced = FALSE /\ renewed = "never"
    /\ trusted = None /\ via = None /\ verdict = "none"

Starting(p) == step[p] \notin {"down", "up"}
Generating(p) == Starting(p) /\ step[p] \notin {"load crt", "load key"}

\* A pair that no file, process or client has.
Fresh == Pairs \ ({crt, key, trusted} \cup UNION {{ca[p].crt, ca[p].key} : p \in Procs})

GoOn(p, next) == step' = [step EXCEPT ![p] = next]

-----------------------------------------------------------------------------
(* NewCAManager.                                                           *)

Launch(p) ==
    /\ step[p] = "down"
    /\ GoOn(p, "load crt")
    /\ raced' = (raced \/ \E q \in Procs : Generating(q))
    /\ UNCHANGED <<vars, files, ca, renewed, peer>>

\* generateCA, up to its first write.
Generate(p) ==
    /\ GoOn(p, "open crt")
    /\ \E k \in Fresh : ca' = [ca EXCEPT ![p] = [crt |-> k, key |-> k]]
    /\ raced' = (raced \/ \E q \in Procs \ {p} : Starting(q))
    /\ renewed' = IF crt \in Pairs /\ key \in Pairs THEN "begun" ELSE renewed

\* The certificate is read; if it is not there, is no PEM, or its Stat or
\* ReadFile fails, it is replaced, and the key with it.
LoadCrt(p) ==
    /\ step[p] = "load crt"
    /\ \/ /\ crt \in Pairs
          /\ ca' = [ca EXCEPT ![p].crt = crt]
          /\ GoOn(p, "load key")
          /\ UNCHANGED <<raced, renewed>>
       \/ Generate(p)
    /\ UNCHANGED <<vars, files, peer>>

\* A key for a certificate that is there (mutant).
GenerateKeyOnly(p) ==
    /\ GoOn(p, "open key")
    /\ \E k \in Fresh : ca' = [ca EXCEPT ![p].key = k]
    /\ UNCHANGED <<raced, renewed>>

\* The key file is gone, no PEM or not read: both files are made anew.
Replace(p) == Generate(p)

\* loadCA does not compare the two.
LoadKey(p) ==
    /\ step[p] = "load key"
    /\ \/ /\ key \in Pairs
          /\ ca' = [ca EXCEPT ![p].key = key]
          /\ GoOn(p, "up")
          /\ UNCHANGED <<raced, renewed>>
       \/ Replace(p)
    /\ UNCHANGED <<vars, files, peer>>

\* os.WriteFile: open and truncate, then write.
OpenCrt(p) ==
    /\ step[p] = "open crt"
    /\ crt' = Torn
    /\ GoOn(p, "write crt")
    /\ UNCHANGED <<vars, key, ca, raced, renewed, peer>>

WriteCrt(p) ==
    /\ step[p] = "write crt"
    /\ crt' = ca[p].crt
    /\ GoOn(p, "open key")
    /\ UNCHANGED <<vars, key, ca, raced, renewed, peer>>

OpenKey(p) ==
    /\ step[p] = "open key"
    /\ key' = Torn
    /\ GoOn(p, "write key")
    /\ UNCHANGED <<vars, crt, ca, raced, renewed, peer>>

WriteKey(p) ==
    /\ step[p] = "write key"
    /\ key' = ca[p].key
    /\ GoOn(p, "up")
    /\ renewed' = IF renewed = "begun" THEN "done" ELSE renewed
    /\ UNCHANGED <<vars, crt, ca, raced, peer>>

\* The directory cannot be made, or a write fails: NewHandler discards the
\* error and serves without a CA.
Fails(p) ==
    /\ step[p] \in {"load crt", "open crt", "write crt", "open key", "write key"}
    /\ GoOn(p, "up")
    /\ ca' = [ca EXCEPT ![p] = NoCA]
    /\ UNCHANGED <<vars, files, raced, renewed, peer>>

\* A process ends; its connection ends with it.
Kill(p) ==
    /\ step[p] # "down"
    /\ GoOn(p, "down")
    /\ ca' = [ca EXCEPT ![p] = NoCA]
    /\ IF via = p
       THEN /\ client' = "gone" /\ loop' = "closed" /\ via' = None
            /\ up' = <<>> /\ down' = <<>> /\ sent' = 0 /\ ended' = <<>>
       ELSE UNCHANGED <<vars, via>>
    /\ UNCHANGED <<files, raced, renewed, trusted, verdict>>

-----------------------------------------------------------------------------
(* The client.                                                             *)

\* The user installs reelm-ca.crt when a proxy is up.
Install ==
    /\ trusted = None
    /\ crt \in Pairs
    /\ \E p \in Procs : step[p] = "up" /\ ca[p] # NoCA
    /\ trusted' = crt
    /\ UNCHANGED <<vars, files, life, via, verdict>>

\* CONNECT to p.  A certificate for the host cannot be made of a CA
\* certificate and the key of another, and one of a CA that is not installed
\* is refused.
Connect(p) ==
    /\ step[p] = "up"
    /\ trusted # None
    /\ client = "gone" /\ loop = "closed"
    /\ IF ca[p] = NoCA THEN verdict' = "bad gateway" /\ UNCHANGED <<client, loop, via>>
       ELSE IF ca[p].crt # ca[p].key \/ ca[p].crt # trusted
       THEN verdict' = "failed" /\ UNCHANGED <<client, loop, via>>
       ELSE /\ verdict' = "established"
            /\ client' = "ready" /\ loop' = "reading" /\ via' = p
    /\ up' = <<>> /\ down' = <<>> /\ sent' = 0 /\ ended' = <<>>
    /\ UNCHANGED <<files, life, trusted>>

InTunnel == Next /\ UNCHANGED <<files, life, peer>>

INext ==
    \/ \E p \in Procs :
        \/ Launch(p)
        \/ LoadCrt(p)
        \/ LoadKey(p)
        \/ OpenCrt(p)
        \/ WriteCrt(p)
        \/ OpenKey(p)
        \/ WriteKey(p)
        \/ Fails(p)
        \/ Kill(p)
        \/ Connect(p)
    \/ Install
    \/ InTunnel

\* As Tunnel's; nothing is assumed of starts and connections.
ISpec ==
    /\ IInit /\ [][INext]_ivars
    /\ WF_ivars((Dispatch \/ ReadFails) /\ UNCHANGED <<files, life, peer>>)
    /\ WF_ivars(ClientReceive /\ UNCHANGED <<files, life, peer>>)

-----------------------------------------------------------------------------
(* Properties.                                                             *)

\* The types of the variables, and that a connection is to a process that is
\* up with a CA.
ITypeOK ==
    /\ TypeOK
    /\ crt \in Pairs \cup {Torn, None} /\ key \in Pairs \cup {Torn, None}
    /\ step \in [Procs -> {"down", "load crt", "load key", "open crt", "write crt",
                            "open key", "write key", "up"}]
    /\ ca \in [Procs -> [crt : Pairs \cup {None}, key : Pairs \cup {None}]]
    /\ raced \in BOOLEAN /\ renewed \in {"never", "begun", "done"}
    /\ trusted \in Pairs \cup {None}
    /\ via \in Procs \cup {None}
    /\ verdict \in {"none", "bad gateway", "failed", "established"}
    /\ via # None => step[via] = "up" /\ ca[via].crt = trusted
    /\ client # "gone" \/ loop = "reading" => via # None

\* Without two processes that start together, whatever else fails and wherever
\* a start is killed, a certificate lies beside another pair's key, which every
\* later start would load as it is, only in the middle of one thing: a start
\* that could not read an intact pair writes over it, and is, or was stopped,
\* between the two writes (NewCAManager 50-66, generateCA 101-104).
PairMatches ==
    ~raced /\ crt \in Pairs /\ key \in Pairs /\ crt # key => renewed = "begun"

\* A client that trusts the certificate a running proxy offered gets through
\* the handshake with every process on the directory from then on, over
\* restarts, kills and failed writes, until two processes race or a start fails
\* to read the pair, which it then replaces though it is intact.
TrustLasts == verdict = "failed" => raced \/ renewed # "never"
=============================================================================
