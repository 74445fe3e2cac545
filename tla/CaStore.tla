------------------------------- MODULE CaStore -------------------------------
(***************************************************************************)
(* The certificate authority on disk, and the processes that start the     *)
(* proxy with it: `aichu run` (crates/cli/src/main.rs), load_or_create_ca  *)
(* (crates/proxy-mitm/src/ca.rs) and run_proxy (crates/proxy-mitm/src/     *)
(* lib.rs).  Every access to a file is a step of its own.  A process may   *)
(* be killed, or be stopped by an I/O error, at each of them; the user may *)
(* remove files.                                                           *)
(*                                                                         *)
(* The content of a file is the number of the authority it belongs to.     *)
(***************************************************************************)
EXTENDS HostTrust, Integers

CONSTANTS
  Server,   \* processes that run the proxy, one at a time each
  MaxCa,    \* bound: authorities ever generated
  NoServer

Absent == -1   \* there is no such file
Partial == 0   \* created or truncated, its content not yet written
Ca == 1 .. MaxCa
Content == {Absent, Partial} \cup Ca

ASSUME ServerAssumption == MaxCa \in Nat /\ NoServer \notin Server

VARIABLES
  host,
  cert, key,  \* <dir>/aichu-ca.pem and <dir>/aichu-ca.key
  pc,         \* where each process is
  mem,        \* the pair it holds in memory
  port,       \* the process listening on 127.0.0.1:8788
  generated,  \* authorities generated so far
  irregular   \* history: see UserRemoves

files == <<cert, key>>
storeVars == <<host, cert, key, pc, mem, port, generated, irregular>>

Loading == {"checkKey", "readCert", "readKey"}
Creating == {"openCert", "writeCert", "createKey", "writeKey"}
Step == {"idle", "bind", "listening"} \cup Loading \cup Creating

NoPair == [cert |-> Absent, key |-> Absent]

StoreInit ==
  /\ host \in Host
  /\ cert = Absent /\ key = Absent
  /\ pc = [p \in Server |-> "idle"]
  /\ mem = [p \in Server |-> NoPair]
  /\ port = NoServer
  /\ generated = 0
  /\ irregular = FALSE

Goto(p, step) == pc' = [pc EXCEPT ![p] = step]

\* The process ends: what it held in memory is gone.
Exit(p) ==
  /\ Goto(p, "idle")
  /\ mem' = [mem EXCEPT ![p] = NoPair]

Others(p) == Server \ {p}

-----------------------------------------------------------------------------
\* generate_ca.  From here on the process no longer looks at the disk.
Generate(p) ==
  /\ generated < MaxCa
  /\ generated' = generated + 1
  /\ mem' = [mem EXCEPT ![p] = [cert |-> generated + 1, key |-> generated + 1]]
  /\ Goto(p, "openCert")
  /\ irregular' = (irregular \/ \E q \in Others(p) : pc[q] \in Loading \cup Creating)

\* run, to cert_path.exists(): without a home directory there is nothing to
\* load from.
StartRun(p) ==
  /\ pc[p] = "idle" /\ HasAichuDir(host)
  /\ \/ /\ cert # Absent
        /\ Goto(p, "checkKey")
        /\ irregular' = (irregular \/ \E q \in Others(p) : pc[q] \in Creating)
        /\ UNCHANGED <<mem, generated>>
     \/ cert = Absent /\ Generate(p)
  /\ UNCHANGED <<host, files, port>>

\* Mutation: the key is looked for under another name than it is written to.
KeyMissed == FALSE

KeyExists == key # Absent

\* ... && key_path.exists()
CheckKey(p) ==
  /\ pc[p] = "checkKey"
  /\ \/ /\ KeyExists
        /\ Goto(p, "readCert")
        /\ UNCHANGED <<mem, generated, irregular>>
     \/ ~ KeyExists /\ Generate(p)
  /\ UNCHANGED <<host, files, port>>

\* A file that has vanished meanwhile is an error.
ReadCert(p) ==
  /\ pc[p] = "readCert"
  /\ IF cert = Absent THEN Exit(p)
     ELSE Goto(p, "readKey") /\ mem' = [mem EXCEPT ![p].cert = cert]
  /\ UNCHANGED <<host, files, port, generated, irregular>>

\* The PEMs are parsed; that they belong together is not looked at.
Parses(c, k) == c \in Ca /\ k \in Ca

ReadKey(p) ==
  /\ pc[p] = "readKey"
  /\ IF Parses(mem[p].cert, key)
     THEN Goto(p, "bind") /\ mem' = [mem EXCEPT ![p].key = key]
     ELSE Exit(p)
  /\ UNCHANGED <<host, files, port, generated, irregular>>

\* Mutation: a certificate that is there already is kept, as a key is.
OpenNewCert(p) ==
  /\ pc[p] = "openCert"
  /\ IF cert = Absent
     THEN cert' = Partial /\ Goto(p, "writeCert")
     ELSE UNCHANGED cert /\ Goto(p, "createKey")
  /\ UNCHANGED <<host, key, mem, port, generated, irregular>>

\* fs::write of the certificate truncates the file first.
OpenCert(p) ==
  /\ pc[p] = "openCert"
  /\ cert' = Partial
  /\ Goto(p, "writeCert")
  /\ UNCHANGED <<host, key, mem, port, generated, irregular>>

WriteCert(p) ==
  /\ pc[p] = "writeCert"
  /\ cert' = mem[p].cert
  /\ Goto(p, "createKey")
  /\ UNCHANGED <<host, key, mem, port, generated, irregular>>

\* write_key: on Unix the file must be new.
CreateKey(p) ==
  /\ pc[p] = "createKey"
  /\ IF Unix(host) /\ key # Absent
     THEN Exit(p) /\ UNCHANGED key
     ELSE Goto(p, "writeKey") /\ key' = Partial /\ UNCHANGED mem
  /\ UNCHANGED <<host, cert, port, generated, irregular>>

WriteKey(p) ==
  /\ pc[p] = "writeKey"
  /\ key' = mem[p].key
  /\ Goto(p, "bind")
  /\ UNCHANGED <<host, cert, mem, port, generated, irregular>>

-----------------------------------------------------------------------------
\* run_proxy: one process can have the port.
Bind(p) ==
  /\ pc[p] = "bind"
  /\ IF port = NoServer
     THEN port' = p /\ Goto(p, "listening") /\ UNCHANGED mem
     ELSE Exit(p) /\ UNCHANGED port
  /\ UNCHANGED <<host, files, generated, irregular>>

\* The process ends at any point: Ctrl-C, a kill, or an error of a file
\* operation.  What it has written stays.
Stop(p) ==
  /\ pc[p] # "idle"
  /\ Exit(p)
  /\ port' = IF port = p THEN NoServer ELSE port
  /\ UNCHANGED <<host, files, generated, irregular>>

\* The user removes the certificate, the key, or the directory.  What no
\* start of the program can be held responsible for is exceptional: two
\* starts at a time, one of which creates files (Generate, StartRun); files
\* that are removed under a running process; a certificate removed without
\* its key.
UserRemoves(what) ==
  /\ what \subseteq {"cert", "key"} /\ what # {}
  /\ cert' = IF "cert" \in what THEN Absent ELSE cert
  /\ key' = IF "key" \in what THEN Absent ELSE key
  /\ irregular' = \/ irregular
                  \/ \E p \in Server : pc[p] # "idle"
                  \/ what = {"cert"} /\ key # Absent
  /\ UNCHANGED <<host, pc, mem, port, generated>>

RunStep(p) ==
  \/ StartRun(p) \/ CheckKey(p) \/ ReadCert(p) \/ ReadKey(p)
  \/ OpenCert(p) \/ WriteCert(p) \/ CreateKey(p) \/ WriteKey(p)
  \/ Bind(p)
  \/ Stop(p)

StoreNext ==
  \/ \E p \in Server : RunStep(p)
  \/ \E what \in SUBSET {"cert", "key"} : UserRemoves(what)

-----------------------------------------------------------------------------
StoreTypeOK ==
  /\ host \in Host
  /\ cert \in Content /\ key \in Content
  /\ pc \in [Server -> Step]
  /\ mem \in [Server -> [cert : Content, key : Content]]
  /\ port \in Server \cup {NoServer}
  /\ generated \in 0 .. MaxCa
  /\ irregular \in BOOLEAN

\* ca.rs:1-5, 150-168: wherever earlier starts were interrupted, a later one
\* never finds a certificate and a key that do not belong together, and a
\* proxy that listens signs with the authority that is on disk, which is the
\* one `aichu trust` installs.
StoredPairServed ==
  ~ irregular =>
    /\ cert \in Ca /\ key \in Ca => cert = key
    /\ port # NoServer => mem[port] = [cert |-> cert, key |-> key]

=============================================================================
