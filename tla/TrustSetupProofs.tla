--------------------------- MODULE TrustSetupProofs ---------------------------
(***************************************************************************)
(* The authority on disk, the one a proxy serves and the one the host      *)
(* trusts are one, for all hosts, processes, shells and numbers of         *)
(* authorities.                                                            *)
(***************************************************************************)
EXTENDS TrustSetup, TLAPS

\* Number 0 is no authority and -1 no file; no process is none.
LEMMA CaNumbers ==
  /\ Absent \in Content /\ Partial \in Content /\ Ca \subseteq Content
  /\ Absent \notin Ca /\ Partial \notin Ca /\ 0 \notin Ca /\ Removed \notin Ca
  /\ Absent # Partial
  BY ServerAssumption DEF Content, Ca, Absent, Partial, Removed

-----------------------------------------------------------------------------
(* Types.                                                                  *)

LEMMA TrustKeepsStore ==
  ASSUME NEW s \in Shell, TrustStep(s)
  PROVE  UNCHANGED storeVars
  BY DEF TrustStep, TrustLinux, CopyAnchor, RefreshCopied, TrustMacOs, AddTrustedCert, TrustWindows,
         AddStore, UntrustLinux, RemoveAnchor, RefreshRemoved, UntrustMacOs, DeleteCertificate,
         UntrustWindows, DelStore, Fail, Begin, Installed, Deleted

LEMMA InitType == ASSUME Init PROVE TypeOK
  <1>1. StoreTypeOK
    <2>1. generated \in 0 .. MaxCa
      BY ServerAssumption DEF Init, StoreInit
    <2>2. NoPair \in [cert : Content, key : Content] /\ "idle" \in Step
      BY CaNumbers DEF NoPair, Step
    <2>3. QED
      BY <2>1, <2>2, CaNumbers DEF Init, StoreInit, StoreTypeOK
  <1>2. Absent \in Content
    BY CaNumbers
  <1>3. QED
    BY <1>1, <1>2 DEF Init, TypeOK, Idle, At

LEMMA ExitType ==
  ASSUME StoreTypeOK, NEW p \in Server, Exit(p)
  PROVE  /\ pc' \in [Server -> Step]
         /\ mem' \in [Server -> [cert : Content, key : Content]]
  BY CaNumbers DEF StoreTypeOK, Exit, Goto, Step, NoPair

LEMMA GotoType ==
  ASSUME StoreTypeOK, NEW p, NEW to \in Step, Goto(p, to)
  PROVE  pc' \in [Server -> Step]
  BY DEF StoreTypeOK, Goto

LEMMA GenerateType ==
  ASSUME StoreTypeOK, NEW p \in Server, Generate(p)
  PROVE  /\ pc' \in [Server -> Step]
         /\ mem' \in [Server -> [cert : Content, key : Content]]
         /\ generated' \in 0 .. MaxCa /\ generated + 1 \in Ca
         /\ irregular' \in BOOLEAN
  <1>1. generated + 1 \in Ca /\ generated' \in 0 .. MaxCa
    BY ServerAssumption DEF Generate, StoreTypeOK, Ca
  <1>2. pc' \in [Server -> Step]
    BY GotoType DEF Generate, Step, Creating
  <1>3. mem' \in [Server -> [cert : Content, key : Content]]
    BY <1>1, CaNumbers DEF Generate, StoreTypeOK
  <1>4. irregular' \in BOOLEAN
    BY DEF Generate, StoreTypeOK
  <1>5. QED
    BY <1>1, <1>2, <1>3, <1>4

LEMMA RunStepType ==
  ASSUME StoreTypeOK, NEW p \in Server, RunStep(p)
  PROVE  StoreTypeOK'
  <1> USE DEF StoreTypeOK
  <1>1. {"idle", "bind", "listening"} \cup Loading \cup Creating = Step
    BY DEF Step
  <1>2. CASE StartRun(p)
    <2>1. CASE cert = Absent /\ Generate(p)
      BY <1>2, <2>1, GenerateType DEF StartRun, files
    <2>2. CASE cert # Absent /\ Goto(p, "checkKey")
      BY <1>2, <2>2, GotoType DEF StartRun, files, Step, Loading
    <2>3. QED
      BY <1>2, <2>1, <2>2 DEF StartRun
  <1>3. CASE CheckKey(p)
    <2>1. CASE ~ KeyExists /\ Generate(p)
      BY <1>3, <2>1, GenerateType DEF CheckKey, files
    <2>2. CASE KeyExists /\ Goto(p, "readCert")
      BY <1>3, <2>2, GotoType DEF CheckKey, files, Step, Loading
    <2>3. QED
      BY <1>3, <2>1, <2>2 DEF CheckKey
  <1>4. CASE ReadCert(p)
    <2>1. CASE cert = Absent
      BY <1>4, <2>1, ExitType DEF ReadCert, files
    <2>2. CASE cert # Absent
      BY <1>4, <2>2, GotoType DEF ReadCert, files, Step, Loading
    <2>3. QED
      BY <2>1, <2>2
  <1>5. CASE ReadKey(p)
    <2>1. CASE ~ Parses(mem[p].cert, key)
      BY <1>5, <2>1, ExitType DEF ReadKey, files
    <2>2. CASE Parses(mem[p].cert, key)
      BY <1>5, <2>2, GotoType DEF ReadKey, files, Step
    <2>3. QED
      BY <2>1, <2>2
  <1>6. CASE OpenCert(p)
    BY <1>6, GotoType, CaNumbers DEF OpenCert, Step, Creating
  <1>7. CASE WriteCert(p)
    BY <1>7, GotoType DEF WriteCert, Step, Creating
  <1>8. CASE CreateKey(p)
    <2>1. CASE Unix(host) /\ key # Absent
      BY <1>8, <2>1, ExitType DEF CreateKey
    <2>2. CASE ~ (Unix(host) /\ key # Absent)
      BY <1>8, <2>2, GotoType, CaNumbers DEF CreateKey, Step, Creating
    <2>3. QED
      BY <2>1, <2>2
  <1>9. CASE WriteKey(p)
    BY <1>9, GotoType DEF WriteKey, Step
  <1>10. CASE Bind(p)
    <2>1. CASE port = NoServer
      BY <1>10, <2>1, GotoType DEF Bind, files, Step
    <2>2. CASE port # NoServer
      BY <1>10, <2>2, ExitType DEF Bind, files
    <2>3. QED
      BY <2>1, <2>2
  <1>11. CASE Stop(p)
    BY <1>11, ExitType DEF Stop, files
  <1>12. QED
    BY <1>2, <1>3, <1>4, <1>5, <1>6, <1>7, <1>8, <1>9, <1>10, <1>11 DEF RunStep

LEMMA UserRemovesType ==
  ASSUME StoreTypeOK, NEW what, UserRemoves(what)
  PROVE  StoreTypeOK'
  BY CaNumbers DEF StoreTypeOK, UserRemoves

LEMMA StoreStutters ==
  ASSUME StoreTypeOK, UNCHANGED storeVars
  PROVE  StoreTypeOK'
  BY DEF StoreTypeOK, storeVars, files

TrustTypeOK ==
  /\ anchor \in [AnchorPath -> Content]
  /\ trusted \subseteq Ca
  /\ step \in [Shell -> [at : At, ca : Content]]
  /\ lagging \in BOOLEAN /\ contended \in BOOLEAN
  /\ promise \in Ca \cup {0, Removed}

LEMMA TrustStutters ==
  ASSUME TrustTypeOK, UNCHANGED trustVars
  PROVE  TrustTypeOK'
  BY DEF TrustTypeOK, trustVars

LEMMA BeginType ==
  ASSUME TrustTypeOK, NEW s \in Shell, NEW at \in At, Begin(s, at)
  PROVE  TrustTypeOK'
  BY DEF TrustTypeOK, Begin

LEMMA EndType ==
  ASSUME TrustTypeOK, NEW s \in Shell, End(s)
  PROVE  step' \in [Shell -> [at : At, ca : Content]] /\ contended' \in BOOLEAN
  BY CaNumbers DEF TrustTypeOK, End, Idle, At

LEMMA PromisedType ==
  ASSUME TrustTypeOK, NEW c \in Ca \cup {0, Removed}, Promised(c)
  PROVE  promise' \in Ca \cup {0, Removed}
  BY DEF Promised

LEMMA TrustStepType ==
  ASSUME StoreTypeOK, TrustTypeOK, NEW s \in Shell, TrustStep(s)
  PROVE  TrustTypeOK'
  <1>1. CASE \E at \in At : Begin(s, at)
    BY <1>1, BeginType
  <1>2. CASE CopyAnchor(s)
    <2>1. cert \in Content
      BY DEF StoreTypeOK
    <2>2. "refreshCopied" \in At
      BY DEF At
    <2>3. QED
      BY <1>2, <2>1, <2>2 DEF CopyAnchor, TrustTypeOK
  <1>3. CASE RefreshCopied(s)
    <2>1. Vouched(step[s].ca) \in Ca \cup {0, Removed}
      BY DEF Vouched
    <2>2. QED
      BY <1>3, <2>1, EndType, PromisedType DEF RefreshCopied, TrustTypeOK, Bundle
  <1>4. CASE Installed(s)
    <2>1. Vouched(cert) \in Ca \cup {0, Removed}
      BY DEF Vouched
    <2>2. QED
      BY <1>4, <2>1, EndType, PromisedType DEF Installed, TrustTypeOK
  <1>5. CASE RemoveAnchor(s)
    <2>1. anchor' \in [AnchorPath -> Content]
      BY <1>5, CaNumbers DEF RemoveAnchor, AnchorRemoved, TrustTypeOK
    <2>2. "refreshRemoved" \in At
      BY DEF At
    <2>3. QED
      BY <1>5, <2>1, <2>2 DEF RemoveAnchor, TrustTypeOK
  <1>6. CASE RefreshRemoved(s)
    BY <1>6, EndType, PromisedType DEF RefreshRemoved, TrustTypeOK, Bundle
  <1>7. CASE Deleted(s)
    BY <1>7, EndType, PromisedType DEF Deleted, TrustTypeOK
  <1>8. CASE Fail(s)
    BY <1>8, EndType DEF Fail, TrustTypeOK
  <1>9. QED
    BY <1>1, <1>2, <1>3, <1>4, <1>5, <1>6, <1>7, <1>8
    DEF TrustStep, TrustLinux, TrustMacOs, TrustWindows, UntrustLinux, UntrustMacOs, UntrustWindows,
        AddTrustedCert, AddStore, DeleteCertificate, DelStore, At

LEMMA NextType == ASSUME TypeOK, [Next]_vars PROVE TypeOK'
  <1>1. StoreTypeOK /\ TrustTypeOK
    BY DEF TypeOK, TrustTypeOK
  <1>2. SUFFICES StoreTypeOK' /\ TrustTypeOK'
    BY DEF TypeOK, TrustTypeOK
  <1>3. CASE \E p \in Server : RunStep(p) /\ UNCHANGED trustVars
    BY <1>1, <1>3, RunStepType, TrustStutters
  <1>4. CASE \E s \in Shell : TrustStep(s)
    BY <1>1, <1>4, TrustKeepsStore, StoreStutters, TrustStepType
  <1>5. CASE \E what \in SUBSET {"cert", "key"} : UserRemovesCa(what)
    BY <1>1, <1>5, UserRemovesType DEF UserRemovesCa, TrustTypeOK
  <1>6. CASE UNCHANGED vars
    BY <1>1, <1>6, StoreStutters, TrustStutters DEF vars
  <1>7. QED
    BY <1>3, <1>4, <1>5, <1>6 DEF Next

\* The files hold authorities or parts of them, every process is at a step of
\* its start, and every shell at a command of trust or untrust.
THEOREM TypeCorrect == Spec => []TypeOK
  BY InitType, NextType, PTL DEF Spec

-----------------------------------------------------------------------------
(* The store.                                                              *)

\* What a process knows of the disk.  The files of a complete pair are left
\* alone while it is loaded and served; who creates a pair is alone, and found
\* no key.
Knows(p) ==
  /\ pc[p] \in {"bind", "listening"} =>
       cert \in Ca /\ key = cert /\ mem[p] = [cert |-> cert, key |-> key]
  /\ pc[p] = "readKey" => mem[p].cert = cert
  /\ pc[p] \in Creating =>
       /\ mem[p].cert \in Ca /\ mem[p].key = mem[p].cert
       /\ \A q \in Others(p) : pc[q] \notin Loading \cup Creating
  /\ pc[p] \in {"openCert", "writeCert", "createKey"} => key = Absent
  /\ pc[p] \in {"createKey", "writeKey"} => cert = mem[p].cert
  /\ pc[p] = "writeKey" => key = Partial

Agrees ==
  /\ cert = Absent => key = Absent
  /\ cert \in Ca /\ key \in Ca => cert = key

Paired == Agrees /\ \A p \in Server : Knows(p)

PortHeld == port # NoServer => pc[port] = "listening"

StoreInv == PortHeld /\ (~ irregular => Paired)

\* A step of one process is no step of another.
LEMMA OthersKeep ==
  ASSUME StoreTypeOK, NEW p \in Server, RunStep(p), NEW q \in Others(p)
  PROVE  pc'[q] = pc[q] /\ mem'[q] = mem[q]
  BY DEF StoreTypeOK, RunStep, StartRun, CheckKey, ReadCert, ReadKey, OpenCert, WriteCert, CreateKey,
         WriteKey, Bind, Stop, Generate, Exit, Goto, Others

\* What another process knows stays true when the files stay as they are.
LEMMA OthersKnow ==
  ASSUME StoreTypeOK, NEW p \in Server, RunStep(p), NEW q \in Others(p), Knows(q), UNCHANGED files,
         pc[q] \in Creating => pc'[p] \notin Loading \cup Creating
  PROVE  Knows(q)'
  <1>1. pc'[q] = pc[q] /\ mem'[q] = mem[q] /\ q \in Server /\ q # p
    BY OthersKeep DEF Others
  <1>2. cert' = cert /\ key' = key
    BY DEF files
  <1>3. ASSUME pc[q] \in Creating, NEW r \in Others(q)
        PROVE  pc'[r] \notin Loading \cup Creating
    <2>1. CASE r = p
      BY <1>3, <2>1
    <2>2. CASE r # p
      BY <1>3, <2>2, OthersKeep DEF Others, Knows
    <2>3. QED
      BY <2>1, <2>2
  <1>4. QED
    BY <1>1, <1>2, <1>3 DEF Knows

\* A process that goes on from a file it has read, or ends, leaves all others
\* as they were.
LEMMA EndKnows ==
  ASSUME StoreTypeOK, Paired, NEW p \in Server, RunStep(p), UNCHANGED files, Knows(p)',
         pc'[p] \notin Creating, pc'[p] \in Loading => pc[p] \in Loading
  PROVE  Paired'
  <1>1. Agrees'
    BY DEF Paired, Agrees, files
  <1>2. ASSUME NEW q \in Others(p) PROVE Knows(q)'
    <2>1. q \in Server /\ Knows(q) /\ p \in Others(q)
      BY DEF Others, Paired
    <2>2. pc[q] \in Creating => pc'[p] \notin Loading \cup Creating
      BY <2>1 DEF Knows
    <2>3. QED
      BY <2>1, <2>2, OthersKnow
  <1>3. QED
    BY <1>1, <1>2 DEF Paired, Others

LEMMA StopKnows ==
  ASSUME StoreTypeOK, NEW p \in Server, Exit(p)
  PROVE  Knows(p)' /\ pc'[p] = "idle"
  BY DEF StoreTypeOK, Exit, Goto, Knows, Creating

\* Who generates an authority found no key, and nobody else is at the files.
LEMMA GenerateKnows ==
  ASSUME StoreTypeOK, Paired, NEW p \in Server, RunStep(p), Generate(p), UNCHANGED files,
         key = Absent, ~ irregular'
  PROVE  Paired'
  <1>1. \A q \in Others(p) : pc[q] \notin Loading \cup Creating
    BY DEF Generate
  <1>2. generated + 1 \in Ca
    BY GenerateType
  <1>3. pc'[p] = "openCert" /\ mem'[p] = [cert |-> generated + 1, key |-> generated + 1]
    BY DEF Generate, Goto, StoreTypeOK
  <1>4. key' = Absent
    BY DEF files
  <1>5. Knows(p)'
    <2>1. \A q \in Others(p) : pc'[q] \notin Loading \cup Creating
      BY <1>1, OthersKeep
    <2>2. QED
      BY <1>2, <1>3, <1>4, <2>1 DEF Knows
  <1>6. ASSUME NEW q \in Others(p) PROVE Knows(q)'
    <2>1. q \in Server /\ Knows(q)
      BY DEF Others, Paired
    <2>2. QED
      BY <1>1, <2>1, OthersKnow
  <1>7. Agrees'
    BY DEF Paired, Agrees, files
  <1>8. QED
    BY <1>5, <1>6, <1>7 DEF Paired, Others

\* While one creates a pair no other process is on its way to it or serves one.
LEMMA CreatorAlone ==
  ASSUME StoreTypeOK, Paired, NEW p \in Server, pc[p] \in Creating, NEW q \in Others(p)
  PROVE  pc[q] = "idle"
  <1>1. Knows(p) /\ Knows(q) /\ q \in Server
    BY DEF Paired, Others
  <1>2. pc[q] \in Step /\ pc[q] \notin Loading \cup Creating
    BY <1>1 DEF StoreTypeOK, Knows
  <1>3. key \in {Absent, Partial}
    BY <1>1 DEF Knows, Creating
  <1>4. key \notin Ca
    BY <1>3, CaNumbers
  <1>5. pc[q] \notin {"bind", "listening"}
    BY <1>1, <1>4 DEF Knows
  <1>6. QED
    BY <1>2, <1>5 DEF Step

LEMMA CreatorKnows ==
  ASSUME StoreTypeOK, Paired, NEW p \in Server, RunStep(p), pc[p] \in Creating, Knows(p)', Agrees'
  PROVE  Paired'
  <1>1. ASSUME NEW q \in Others(p) PROVE Knows(q)'
    <2>1. pc'[q] = "idle"
      BY CreatorAlone, OthersKeep
    <2>2. QED
      BY <2>1 DEF Knows, Creating
  <1>2. QED
    BY <1>1 DEF Paired, Others

LEMMA RunStepPaired ==
  ASSUME StoreTypeOK, Paired, NEW p \in Server, RunStep(p), ~ irregular'
  PROVE  Paired'
  <1>1. Knows(p) /\ Agrees /\ pc \in [Server -> Step] /\ mem \in [Server -> [cert : Content, key : Content]]
    BY DEF Paired, StoreTypeOK
  <1>2. CASE StartRun(p)
    <2>1. CASE cert = Absent /\ Generate(p)
      BY <1>1, <1>2, <2>1, GenerateKnows DEF StartRun, Agrees
    <2>2. CASE cert # Absent /\ Goto(p, "checkKey") /\ UNCHANGED mem
      <3>1. \A q \in Others(p) : pc[q] \notin Creating
        BY <1>2, <2>2, CaNumbers DEF StartRun, Generate
      <3>2. pc'[p] = "checkKey" /\ Knows(p)'
        BY <1>1, <2>2 DEF Goto, Knows, Creating
      <3>3. ASSUME NEW q \in Others(p) PROVE Knows(q)'
        BY <1>2, <3>1, OthersKnow DEF StartRun, Others, Paired
      <3>4. Agrees'
        BY <1>1, <1>2 DEF StartRun, Agrees, files
      <3>5. QED
        BY <3>2, <3>3, <3>4 DEF Paired, Others
    <2>3. QED
      BY <1>2, <2>1, <2>2 DEF StartRun
  <1>3. CASE CheckKey(p)
    <2>1. CASE ~ KeyExists /\ Generate(p)
      BY <1>3, <2>1, GenerateKnows DEF CheckKey, KeyExists
    <2>2. CASE Goto(p, "readCert")
      <3>1. pc'[p] = "readCert" /\ Knows(p)'
        BY <1>1, <2>2 DEF Goto, Knows, Creating
      <3>2. QED
        BY <1>3, <3>1, EndKnows DEF CheckKey, Creating, Loading
    <2>3. QED
      BY <1>3, <2>1, <2>2 DEF CheckKey
  <1>4. CASE ReadCert(p)
    <2>1. CASE Exit(p)
      BY <1>4, <2>1, StopKnows, EndKnows DEF ReadCert, Creating, Loading
    <2>2. CASE Goto(p, "readKey") /\ mem' = [mem EXCEPT ![p].cert = cert]
      <3>1. pc'[p] = "readKey" /\ Knows(p)'
        BY <1>1, <1>4, <2>2 DEF ReadCert, Goto, Knows, Creating, files
      <3>2. QED
        BY <1>4, <3>1, EndKnows DEF ReadCert, Creating, Loading
    <2>3. QED
      BY <1>4, <2>1, <2>2 DEF ReadCert
  <1>5. CASE ReadKey(p)
    <2>1. CASE Exit(p)
      BY <1>5, <2>1, StopKnows, EndKnows DEF ReadKey, Creating, Loading
    <2>2. CASE Parses(mem[p].cert, key) /\ Goto(p, "bind") /\ mem' = [mem EXCEPT ![p].key = key]
      <3>1. mem[p].cert = cert /\ cert \in Ca /\ key = cert
        BY <1>1, <1>5, <2>2 DEF ReadKey, Knows, Parses, Agrees
      <3>2. pc'[p] = "bind" /\ mem'[p] = [cert |-> cert, key |-> key]
        BY <1>1, <2>2, <3>1 DEF Goto
      <3>3. Knows(p)'
        BY <1>5, <3>1, <3>2 DEF ReadKey, Knows, Creating, files
      <3>4. QED
        BY <1>5, <3>2, <3>3, EndKnows DEF ReadKey, Creating, Loading
    <2>3. QED
      BY <1>5, <2>1, <2>2 DEF ReadKey
  <1>6. CASE OpenCert(p)
    <2>1. pc'[p] = "writeCert" /\ cert' = Partial /\ key' = key /\ mem' = mem
      BY <1>1, <1>6 DEF OpenCert, Goto
    <2>2. \A q \in Others(p) : pc'[q] \notin Loading \cup Creating
      BY <1>1, <1>6, OthersKeep DEF OpenCert, Knows, Creating
    <2>3. Knows(p)' /\ Agrees'
      BY <1>1, <1>6, <2>1, <2>2, CaNumbers DEF OpenCert, Knows, Agrees, Creating
    <2>4. QED
      BY <1>6, <2>3, CreatorKnows DEF OpenCert, Creating
  <1>7. CASE WriteCert(p)
    <2>1. pc'[p] = "createKey" /\ cert' = mem[p].cert /\ key' = key /\ mem' = mem
      BY <1>1, <1>7 DEF WriteCert, Goto
    <2>2. \A q \in Others(p) : pc'[q] \notin Loading \cup Creating
      BY <1>1, <1>7, OthersKeep DEF WriteCert, Knows, Creating
    <2>3. Knows(p)' /\ Agrees'
      BY <1>1, <1>7, <2>1, <2>2, CaNumbers DEF WriteCert, Knows, Agrees, Creating
    <2>4. QED
      BY <1>7, <2>3, CreatorKnows DEF WriteCert, Creating
  <1>8. CASE CreateKey(p)
    <2>1. cert' = mem[p].cert /\ cert' \in Ca /\ key = Absent
      BY <1>1, <1>8 DEF CreateKey, Knows, Creating
    <2>2. pc'[p] = "writeKey" /\ key' = Partial /\ mem' = mem
      BY <1>1, <1>8, <2>1 DEF CreateKey, Goto
    <2>3. \A q \in Others(p) : pc'[q] \notin Loading \cup Creating
      BY <1>1, <1>8, OthersKeep DEF CreateKey, Knows, Creating
    <2>4. Knows(p)' /\ Agrees'
      BY <1>1, <1>8, <2>1, <2>2, <2>3, CaNumbers DEF CreateKey, Knows, Agrees, Creating
    <2>5. QED
      BY <1>8, <2>4, CreatorKnows DEF CreateKey, Creating
  <1>9. CASE WriteKey(p)
    <2>1. cert' = mem[p].cert /\ cert' \in Ca /\ mem[p].key = cert'
      BY <1>1, <1>9 DEF WriteKey, Knows, Creating
    <2>2. pc'[p] = "bind" /\ key' = mem[p].key /\ mem' = mem
      BY <1>1, <1>9 DEF WriteKey, Goto
    <2>3. Knows(p)' /\ Agrees'
      BY <1>1, <2>1, <2>2, CaNumbers DEF Knows, Agrees, Creating
    <2>4. QED
      BY <1>9, <2>3, CreatorKnows DEF WriteKey, Creating
  <1>10. CASE Bind(p)
    <2>1. CASE Exit(p)
      BY <1>10, <2>1, StopKnows, EndKnows DEF Bind, Creating, Loading
    <2>2. CASE Goto(p, "listening") /\ UNCHANGED mem
      <3>1. pc'[p] = "listening" /\ Knows(p)'
        BY <1>1, <1>10, <2>2 DEF Bind, Goto, Knows, Creating, files
      <3>2. QED
        BY <1>10, <3>1, EndKnows DEF Bind, Creating, Loading
    <2>3. QED
      BY <1>10, <2>1, <2>2 DEF Bind
  <1>11. CASE Stop(p)
    BY <1>11, StopKnows, EndKnows DEF Stop, Creating, Loading
  <1>12. QED
    BY <1>2, <1>3, <1>4, <1>5, <1>6, <1>7, <1>8, <1>9, <1>10, <1>11 DEF RunStep

LEMMA RunStepPort ==
  ASSUME StoreTypeOK, PortHeld, NEW p \in Server, RunStep(p)
  PROVE  PortHeld'
  <1>1. pc \in [Server -> Step] /\ port \in Server \cup {NoServer}
    BY DEF StoreTypeOK
  <1>2. CASE Bind(p) /\ port = NoServer
    BY <1>1, <1>2 DEF Bind, PortHeld, Goto
  <1>3. CASE Stop(p)
    <2>1. port' # NoServer => port' = port /\ port \in Others(p)
      BY <1>1, <1>3 DEF Stop, Others
    <2>2. QED
      BY <2>1, OthersKeep DEF PortHeld
  <1>4. CASE pc[p] # "listening" /\ port' = port
    <2>1. port' # NoServer => port \in Others(p)
      BY <1>1, <1>4 DEF PortHeld, Others
    <2>2. QED
      BY <1>4, <2>1, OthersKeep DEF PortHeld
  <1>5. QED
    BY <1>2, <1>3, <1>4 DEF RunStep, StartRun, CheckKey, ReadCert, ReadKey, OpenCert, WriteCert,
       CreateKey, WriteKey, Bind

LEMMA RunStepMonotone ==
  ASSUME NEW p \in Server, RunStep(p), ~ irregular'
  PROVE  ~ irregular
  BY DEF RunStep, StartRun, CheckKey, ReadCert, ReadKey, OpenCert, WriteCert, CreateKey, WriteKey,
         Bind, Stop, Generate

\* Files that are removed while nothing runs leave nothing, or no key.
LEMMA UserRemovesPaired ==
  ASSUME StoreTypeOK, StoreInv, NEW what, UserRemoves(what)
  PROVE  StoreInv'
  <1>1. PortHeld'
    BY DEF UserRemoves, StoreInv, PortHeld
  <1>2. ASSUME ~ irregular' PROVE Paired'
    <2>1. Paired /\ \A p \in Server : pc'[p] = "idle"
      BY <1>2 DEF UserRemoves, StoreInv
    <2>2. Agrees'
      BY <1>2, <2>1, CaNumbers DEF UserRemoves, Paired, Agrees
    <2>3. QED
      BY <2>1, <2>2 DEF Paired, Knows, Creating
  <1>3. QED
    BY <1>1, <1>2 DEF StoreInv

LEMMA InitStore == ASSUME Init PROVE StoreInv
  BY CaNumbers DEF Init, StoreInit, StoreInv, PortHeld, Paired, Agrees, Knows, Creating

LEMMA NextStore == ASSUME TypeOK, StoreInv, [Next]_vars PROVE StoreInv'
  <1>1. StoreTypeOK
    BY DEF TypeOK
  <1>2. CASE \E p \in Server : RunStep(p)
    BY <1>1, <1>2, RunStepPaired, RunStepPort, RunStepMonotone DEF StoreInv
  <1>3. CASE UNCHANGED storeVars
    BY <1>3 DEF StoreInv, PortHeld, Paired, Agrees, Knows, storeVars, files
  <1>4. CASE \E what \in SUBSET {"cert", "key"} : UserRemovesCa(what)
    BY <1>1, <1>4, UserRemovesPaired DEF UserRemovesCa
  <1>5. QED
    BY <1>2, <1>3, <1>4, TrustKeepsStore DEF Next, vars

\* Wherever starts are interrupted, a certificate and a key that are both
\* there belong together, and the proxy serves the authority on disk.
THEOREM StoredPairAlwaysServed == Spec => []StoredPairServed
  <1>1. ASSUME TypeOK, StoreInv PROVE StoredPairServed
    BY <1>1 DEF TypeOK, StoreTypeOK, StoreInv, PortHeld, Paired, Agrees, Knows, StoredPairServed
  <1>2. Init => StoreInv
    BY InitStore
  <1>3. TypeOK /\ StoreInv /\ [Next]_vars => StoreInv'
    BY NextStore
  <1>4. QED
    BY <1>1, <1>2, <1>3, TypeCorrect, PTL DEF Spec

-----------------------------------------------------------------------------
(* Trust.                                                                  *)

OnFamily == host.os = "linux" /\ FamilyOf(host) \in Family
AnchorAt == anchor[DoctorPath(FamilyOf(host))]

AnchorStep == {"copy", "refreshCopied", "remove", "refreshRemoved"}

\* A command runs only on the host it is made for.
FitsHost(c) ==
  /\ c.at \in AnchorStep => OnFamily
  /\ c.at \in {"add-trusted-cert", "delete-certificate"} => host.os = "macos"
  /\ c.at \in {"addstore", "delstore"} => host.os = "windows"
  /\ c.at \in {"copy", "refreshCopied", "add-trusted-cert", "addstore"} => HasAichuDir(host)

OnItsHost == \A s \in Shell : FitsHost(step[s])

\* A command that is not contended is the only one, and the anchor is as it
\* left it; while one runs nothing is promised.
Alone ==
  /\ ~ contended =>
       \A s \in Shell :
         /\ step[s] # Idle => \A other \in Shell \ {s} : step[other] = Idle
         /\ step[s].at = "refreshCopied" => AnchorAt = step[s].ca
         /\ step[s].at = "refreshRemoved" => AnchorAt = Absent
  /\ promise # 0 => \A s \in Shell : step[s] = Idle

Kept ==
  /\ promise \in Ca /\ ~ irregular =>
       /\ promise \in trusted /\ cert = promise /\ key = promise
       /\ host.os = "linux" => AnchorAt = promise
  /\ promise = Removed => host.os # "other"
  /\ promise = Removed /\ host.os = "linux" => OnFamily /\ AnchorAt = Absent /\ trusted = {}

\* Where trust cannot work nothing is ever trusted.
Untrusted ==
  ~ CanTrust(host) =>
    trusted = {} /\ \A path \in AnchorPath : anchor[path] = Absent

TrustInv == OnItsHost /\ BundleFollowsAnchor /\ Alone /\ Kept /\ Untrusted

\* trust, the tool that rebuilds the bundle, and doctor mean the same file.
LEMMA PathsAgree ==
  ASSUME NEW family \in Family
  PROVE  /\ InstallPath(family) = DoctorPath(family)
         /\ ReadBy(RefreshCommand(family)) = DoctorPath(family)
         /\ DoctorPath(family) \in AnchorPath
  BY DEF Family, InstallPath, DoctorPath, RefreshCommand, ReadBy, AnchorPath

\* Nobody writes over a complete pair.
LEMMA CompleteKept ==
  ASSUME StoreTypeOK, Paired, NEW p \in Server, RunStep(p), key \in Ca
  PROVE  UNCHANGED files
  <1>1. pc[p] \notin Creating
    BY CaNumbers DEF Paired, Knows, Creating
  <1>2. QED
    BY <1>1 DEF RunStep, StartRun, CheckKey, ReadCert, ReadKey, OpenCert, WriteCert, CreateKey,
       WriteKey, Bind, Stop, Creating, files

LEMMA InitTrust == ASSUME Init PROVE TrustInv
  <1>1. host = host /\ \A path \in AnchorPath : anchor[path] = Absent
    BY DEF Init
  <1>2. OnItsHost /\ Alone
    BY DEF Init, OnItsHost, FitsHost, Alone, Idle, AnchorStep
  <1>3. BundleFollowsAnchor
    BY <1>1, PathsAgree, CaNumbers DEF Init, BundleFollowsAnchor
  <1>4. Kept /\ Untrusted
    BY <1>1, CaNumbers DEF Init, Kept, Untrusted, CanTrust, Removed
  <1>5. QED
    BY <1>2, <1>3, <1>4 DEF TrustInv

\* The next command of a shell.
LEMMA NextCommand ==
  ASSUME NEW c \in [at : At, ca : Content], NEW at
  PROVE  [c EXCEPT !.at = at] = [at |-> at, ca |-> c.ca]
  OBVIOUS

\* A command that begins takes back what was promised, and changes no more.
LEMMA BeginKeeps ==
  ASSUME TypeOK, TrustInv, NEW s \in Shell, NEW at \in At, Begin(s, at),
         FitsHost([at |-> at, ca |-> Absent]), at \notin {"refreshCopied", "refreshRemoved"}
  PROVE  TrustInv'
  <1>1. step \in [Shell -> [at : At, ca : Content]] /\ step[s] = Idle
    BY DEF TypeOK, Begin
  <1>2. step' = [step EXCEPT ![s] = [at |-> at, ca |-> Absent]]
    <2>1. [step[s] EXCEPT !.at = at] = [at |-> at, ca |-> Absent]
      BY <1>1, NextCommand DEF Idle
    <2>2. step' = [step EXCEPT ![s] = [step[s] EXCEPT !.at = at]]
      BY DEF Begin
    <2>3. QED
      BY <2>1, <2>2
  <1>3. UNCHANGED <<host, cert, key, irregular, anchor, trusted, lagging>> /\ promise' = 0
    BY DEF Begin, storeVars, files
  <1>4. OnItsHost'
    BY <1>1, <1>2, <1>3 DEF TrustInv, OnItsHost, FitsHost, OnFamily
  <1>5. BundleFollowsAnchor'
    BY <1>1, <1>2, <1>3 DEF TrustInv, BundleFollowsAnchor, Idle
  <1>6. Alone'
    <2>1. \A r \in Shell : step'[r] = IF r = s THEN [at |-> at, ca |-> Absent] ELSE step[r]
      BY <1>1, <1>2
    <2>2. ~ contended' => \A r \in Shell : step[r] = Idle
      BY DEF Begin
    <2>3. QED
      BY <1>3, <2>1, <2>2 DEF Alone, Idle
  <1>7. Kept' /\ Untrusted'
    BY <1>3, CaNumbers DEF TrustInv, Kept, Untrusted, CanTrust, Removed
  <1>8. QED
    BY <1>4, <1>5, <1>6, <1>7 DEF TrustInv

\* After a command has ended without contention every shell is idle.
LEMMA EndKeeps ==
  ASSUME TypeOK, OnItsHost, Alone, NEW s \in Shell, step[s] # Idle, End(s), UNCHANGED host,
         promise' # 0 => ~ contended
  PROVE  /\ OnItsHost' /\ Alone'
         /\ \A r \in Shell : step'[r] = IF r = s THEN Idle ELSE step[r]
  <1>1. \A r \in Shell : step'[r] = IF r = s THEN Idle ELSE step[r]
    BY DEF TypeOK, End
  <1>2. OnItsHost'
    BY <1>1 DEF OnItsHost, FitsHost, OnFamily, Idle, AnchorStep
  <1>3. ~ contended => \A r \in Shell : step'[r] = Idle
    BY <1>1 DEF Alone
  <1>4. ~ contended' => \A r \in Shell : step'[r] = Idle
    BY <1>1, <1>3 DEF End
  <1>5. Alone'
    BY <1>3, <1>4 DEF Alone, Idle
  <1>6. QED
    BY <1>1, <1>2, <1>5

\* The anchor changes while the bundle is still to be rebuilt.
LEMMA AnchorKeeps ==
  ASSUME TypeOK, TrustInv, NEW s \in Shell, step[s].at \in AnchorStep, NEW c \in Content,
         NEW at \in {"refreshCopied", "refreshRemoved"}, NEW ca,
         anchor' = [anchor EXCEPT ![InstallPath(FamilyOf(host))] = c],
         step' = [step EXCEPT ![s] = [at |-> at, ca |-> ca]],
         at = "refreshRemoved" => c = Absent,
         at = "refreshCopied" => ca = c /\ HasAichuDir(host),
         UNCHANGED <<storeVars, trusted, lagging, contended, promise>>
  PROVE  TrustInv'
  <1>1. /\ step \in [Shell -> [at : At, ca : Content]] /\ anchor \in [AnchorPath -> Content]
        /\ OnItsHost /\ Alone /\ Untrusted /\ OnFamily /\ step[s] # Idle
    BY DEF TypeOK, TrustInv, OnItsHost, FitsHost, Idle, AnchorStep
  <1>2. InstallPath(FamilyOf(host)) = DoctorPath(FamilyOf(host)) /\ DoctorPath(FamilyOf(host)) \in AnchorPath
    BY <1>1, PathsAgree DEF OnFamily
  <1>3. UNCHANGED <<host, cert, key, irregular, trusted, contended, promise>>
    BY DEF storeVars, files
  <1>4. AnchorAt' = c
    BY <1>1, <1>2, <1>3 DEF AnchorAt
  <1>5. step'[s].at = at /\ (at = "refreshCopied" => step'[s].ca = c)
        /\ \A r \in Shell \ {s} : step'[r] = step[r]
    BY <1>1
  <1>6. promise = 0
    BY <1>1 DEF Alone
  <1>7. OnItsHost'
    BY <1>1, <1>3, <1>5 DEF OnItsHost, FitsHost, OnFamily, AnchorStep
  <1>8. BundleFollowsAnchor'
    BY <1>5 DEF BundleFollowsAnchor
  <1>9. Alone'
    <2>1. ~ contended => \A r \in Shell \ {s} : step[r] = Idle
      BY <1>1 DEF Alone
    <2>2. QED
      BY <1>3, <1>4, <1>5, <1>6, <2>1 DEF Alone, Idle
  <1>10. Kept'
    BY <1>3, <1>6, CaNumbers DEF Kept, Removed
  <1>11. Untrusted'
    BY <1>1, <1>3 DEF Untrusted, CanTrust, OnFamily
  <1>12. QED
    BY <1>7, <1>8, <1>9, <1>10, <1>11 DEF TrustInv

\* The bundle is rebuilt from the anchor that trust or untrust has changed.
LEMMA RefreshKeeps ==
  ASSUME TypeOK, TrustInv, NEW s \in Shell, RefreshCopied(s) \/ RefreshRemoved(s)
  PROVE  TrustInv'
  <1>1. OnItsHost /\ Alone /\ Untrusted /\ OnFamily /\ step[s] # Idle /\ End(s)
    BY DEF TrustInv, OnItsHost, FitsHost, Idle, AnchorStep, RefreshCopied, RefreshRemoved
  <1>2. UNCHANGED <<host, cert, key, irregular, anchor>>
    BY DEF RefreshCopied, RefreshRemoved, storeVars, files
  <1>3. trusted' = {AnchorAt} \cap Ca
    BY <1>1, PathsAgree DEF RefreshCopied, RefreshRemoved, Bundle, AnchorAt, OnFamily
  <1>4. promise' # 0 => ~ contended
    BY DEF RefreshCopied, RefreshRemoved, Promised
  <1>5. OnItsHost' /\ Alone'
    BY <1>1, <1>2, <1>4, EndKeeps
  <1>6. BundleFollowsAnchor'
    BY <1>2, <1>3 DEF BundleFollowsAnchor, AnchorAt
  <1>7. Kept'
    <2>1. CASE contended
      BY <2>1, CaNumbers DEF RefreshCopied, RefreshRemoved, Promised, Kept, Removed
    <2>2. CASE ~ contended /\ RefreshCopied(s)
      <3>1. promise' = Vouched(step[s].ca) /\ AnchorAt = step[s].ca
        BY <1>1, <2>2 DEF RefreshCopied, Promised, Alone
      <3>2. promise' # Removed
        BY <3>1, CaNumbers DEF Vouched, Removed
      <3>3. promise' \in Ca => promise' = step[s].ca /\ cert = promise' /\ key = promise'
        BY <3>1, CaNumbers DEF Vouched
      <3>4. promise' \in Ca => promise' \in trusted' /\ AnchorAt' = promise'
        BY <1>2, <1>3, <3>1, <3>3 DEF AnchorAt
      <3>5. QED
        BY <1>2, <3>2, <3>3, <3>4 DEF Kept
    <2>3. CASE ~ contended /\ RefreshRemoved(s)
      <3>1. promise' = Removed /\ AnchorAt = Absent
        BY <1>1, <2>3 DEF RefreshRemoved, Promised, Alone
      <3>2. AnchorAt' = Absent /\ trusted' = {}
        BY <1>2, <1>3, <3>1, CaNumbers DEF AnchorAt
      <3>3. OnFamily' /\ host'.os # "other"
        BY <1>1, <1>2 DEF OnFamily
      <3>4. QED
        BY <3>1, <3>2, <3>3, CaNumbers DEF Kept
    <2>4. QED
      BY <2>1, <2>2, <2>3
  <1>8. Untrusted'
    <2>1. ~ HasAichuDir(host) => trusted' = {}
      BY <1>1, <1>3, PathsAgree, CaNumbers DEF Untrusted, CanTrust, OnFamily, AnchorAt
    <2>2. QED
      BY <1>1, <1>2, <2>1 DEF Untrusted, CanTrust, OnFamily
  <1>9. QED
    BY <1>5, <1>6, <1>7, <1>8 DEF TrustInv

\* macOS and Windows: one command changes what is trusted.
LEMMA KeychainKeeps ==
  ASSUME TypeOK, TrustInv, NEW s \in Shell, host.os \notin {"linux", "other"}, step[s] # Idle,
         \/ Installed(s) /\ HasAichuDir(host)
         \/ Deleted(s)
  PROVE  TrustInv'
  <1>1. OnItsHost /\ Alone /\ Untrusted /\ End(s)
    BY DEF TrustInv, Installed, Deleted
  <1>2. UNCHANGED <<host, cert, key, irregular, anchor>>
    BY DEF Installed, Deleted, storeVars, files
  <1>3. promise' # 0 => ~ contended
    BY DEF Installed, Deleted, Promised
  <1>4. OnItsHost' /\ Alone'
    BY <1>1, <1>2, <1>3, EndKeeps
  <1>5. BundleFollowsAnchor'
    BY <1>2 DEF BundleFollowsAnchor
  <1>6. Kept'
    BY <1>2, CaNumbers DEF Installed, Deleted, Promised, Vouched, Kept, Removed
  <1>7. Untrusted'
    <2>1. host.os \in {"macos", "windows"}
      BY HostAssumption DEF TypeOK, StoreTypeOK
    <2>2. CanTrust(host) <=> HasAichuDir(host)
      BY <2>1 DEF CanTrust
    <2>3. CanTrust(host)' <=> CanTrust(host)
      BY <1>2 DEF CanTrust, HasAichuDir
    <2>4. QED
      BY <1>1, <1>2, <2>2, <2>3 DEF Untrusted, Installed, Deleted
  <1>8. QED
    BY <1>4, <1>5, <1>6, <1>7 DEF TrustInv

\* A command that fails has promised nothing; the bundle may be behind.
LEMMA FailKeeps ==
  ASSUME TypeOK, TrustInv, NEW s \in Shell, Fail(s)
  PROVE  TrustInv'
  <1>1. OnItsHost /\ Alone /\ Untrusted /\ BundleFollowsAnchor /\ End(s) /\ step[s] # Idle
    BY DEF TrustInv, Fail
  <1>2. UNCHANGED <<host, cert, key, irregular, anchor, trusted, promise>>
    BY DEF Fail, storeVars, files
  <1>3. promise = 0
    BY <1>1 DEF Alone
  <1>4. /\ OnItsHost' /\ Alone'
        /\ \A r \in Shell : step'[r] = IF r = s THEN Idle ELSE step[r]
    BY <1>1, <1>2, <1>3, EndKeeps
  <1>5. BundleFollowsAnchor'
    BY <1>1, <1>2, <1>4 DEF Fail, BundleFollowsAnchor
  <1>6. Kept' /\ Untrusted'
    BY <1>1, <1>2, <1>3, CaNumbers DEF Kept, Untrusted, CanTrust, Removed
  <1>7. QED
    BY <1>4, <1>5, <1>6 DEF TrustInv

LEMMA TrustStepKeeps ==
  ASSUME TypeOK, TrustInv, NEW s \in Shell, TrustStep(s)
  PROVE  TrustInv'
  <1>1. step \in [Shell -> [at : At, ca : Content]] /\ FitsHost(step[s])
    BY DEF TypeOK, TrustInv, OnItsHost
  <1>2. CASE TrustLinux(s) \/ UntrustLinux(s)
    BY <1>2, BeginKeeps DEF TrustLinux, UntrustLinux, CertPresent, FitsHost, OnFamily, AnchorStep, At
  <1>3. CASE TrustMacOs(s) \/ UntrustMacOs(s)
    BY <1>3, BeginKeeps DEF TrustMacOs, UntrustMacOs, CertPresent, FitsHost, AnchorStep, At
  <1>4. CASE TrustWindows(s) \/ UntrustWindows(s)
    BY <1>4, BeginKeeps DEF TrustWindows, UntrustWindows, CertPresent, FitsHost, AnchorStep, At
  <1>5. CASE CopyAnchor(s)
    <2>1. cert \in Content /\ HasAichuDir(host) /\ step[s].at \in AnchorStep
      BY <1>1, <1>5 DEF CopyAnchor, TypeOK, StoreTypeOK, FitsHost, AnchorStep
    <2>2. QED
      BY <1>5, <2>1, AnchorKeeps DEF CopyAnchor
  <1>6. CASE RemoveAnchor(s)
    <2>1. [step[s] EXCEPT !.at = "refreshRemoved"] = [at |-> "refreshRemoved", ca |-> step[s].ca]
      BY <1>1, NextCommand
    <2>2. step' = [step EXCEPT ![s] = [step[s] EXCEPT !.at = "refreshRemoved"]]
      BY <1>6 DEF RemoveAnchor
    <2>3. step' = [step EXCEPT ![s] = [at |-> "refreshRemoved", ca |-> step[s].ca]]
      BY <2>1, <2>2
    <2>4. anchor' = [anchor EXCEPT ![InstallPath(FamilyOf(host))] = Absent] /\ step[s].at \in AnchorStep
      BY <1>6 DEF RemoveAnchor, AnchorRemoved, AnchorStep
    <2>5. UNCHANGED <<storeVars, trusted, lagging, contended, promise>>
      BY <1>6 DEF RemoveAnchor
    <2>6. QED
      BY <2>3, <2>4, <2>5, CaNumbers, AnchorKeeps
  <1>7. CASE RefreshCopied(s) \/ RefreshRemoved(s)
    BY <1>7, RefreshKeeps
  <1>8. CASE AddTrustedCert(s) \/ AddStore(s) \/ DeleteCertificate(s) \/ DelStore(s)
    BY <1>1, <1>8, KeychainKeeps
    DEF AddTrustedCert, AddStore, DeleteCertificate, DelStore, FitsHost, AnchorStep, Idle
  <1>9. CASE Fail(s)
    BY <1>9, FailKeeps
  <1>10. QED
    BY <1>2, <1>3, <1>4, <1>5, <1>6, <1>7, <1>8, <1>9 DEF TrustStep

\* What a process does to the store keeps a pair that has been installed.
LEMMA RunStepKeeps ==
  ASSUME TypeOK, StoreInv, TrustInv, NEW p \in Server, RunStep(p), UNCHANGED trustVars
  PROVE  TrustInv'
  <1>1. UNCHANGED <<host, anchor, trusted, step, lagging, contended, promise>>
    BY DEF RunStep, StartRun, CheckKey, ReadCert, ReadKey, OpenCert, WriteCert, CreateKey, WriteKey,
           Bind, Stop, trustVars
  <1>2. OnItsHost' /\ BundleFollowsAnchor' /\ Alone' /\ Untrusted'
    BY <1>1 DEF TrustInv, OnItsHost, FitsHost, OnFamily, BundleFollowsAnchor, Alone, AnchorAt, Untrusted,
                CanTrust
  <1>3. Kept'
    <2>1. CASE promise \in Ca /\ ~ irregular'
      <3>1. ~ irregular /\ Paired /\ key = promise
        BY <1>1, <2>1, RunStepMonotone DEF StoreInv, TrustInv, Kept
      <3>2. cert' = cert /\ key' = key
        BY <2>1, <3>1, CompleteKept DEF TypeOK, files
      <3>3. QED
        BY <1>1, <2>1, <3>1, <3>2, CaNumbers DEF TrustInv, Kept, AnchorAt, Removed
    <2>2. CASE ~ (promise \in Ca /\ ~ irregular')
      BY <1>1, <2>2 DEF TrustInv, Kept, OnFamily, AnchorAt
    <2>3. QED
      BY <2>1, <2>2
  <1>4. QED
    BY <1>2, <1>3 DEF TrustInv

LEMMA UserRemovesKeeps ==
  ASSUME TypeOK, TrustInv, NEW what, UserRemovesCa(what)
  PROVE  TrustInv'
  <1>1. UNCHANGED <<host, anchor, trusted, step, lagging, contended>> /\ promise' = 0
    BY DEF UserRemovesCa, UserRemoves
  <1>2. Kept'
    BY <1>1, CaNumbers DEF Kept, Removed
  <1>3. QED
    BY <1>1, <1>2 DEF TrustInv, OnItsHost, FitsHost, OnFamily, BundleFollowsAnchor, Alone, AnchorAt,
                     Untrusted, CanTrust

LEMMA NextTrust == ASSUME TypeOK, StoreInv, TrustInv, [Next]_vars PROVE TrustInv'
  <1>1. CASE \E p \in Server : RunStep(p) /\ UNCHANGED trustVars
    BY <1>1, RunStepKeeps
  <1>2. CASE \E s \in Shell : TrustStep(s)
    BY <1>2, TrustStepKeeps
  <1>3. CASE \E what \in SUBSET {"cert", "key"} : UserRemovesCa(what)
    BY <1>3, UserRemovesKeeps
  <1>4. CASE UNCHANGED vars
    BY <1>4 DEF vars, storeVars, trustVars, files, TrustInv, OnItsHost, FitsHost, OnFamily,
                BundleFollowsAnchor, Alone, AnchorAt, Kept, Untrusted
  <1>5. QED
    BY <1>1, <1>2, <1>3, <1>4 DEF Next

\* The inductive invariant: types, the store, and what trust and untrust have
\* left behind.
IInv == TypeOK /\ StoreInv /\ TrustInv

LEMMA Inductive == Spec => []IInv
  <1>1. Init => IInv
    BY InitType, InitStore, InitTrust DEF IInv
  <1>2. IInv /\ [Next]_vars => IInv'
    BY NextType, NextStore, NextTrust DEF IInv
  <1>3. QED
    BY <1>1, <1>2, PTL DEF Spec

-----------------------------------------------------------------------------
(* What follows.                                                           *)

\* Once each trust and untrust has rebuilt the bundle the host trusts what the
\* anchor file says, and only that, in whatever order they ran.
THEOREM BundleAlwaysFollowsAnchor == Spec => []BundleFollowsAnchor
  <1>1. IInv => BundleFollowsAnchor
    BY DEF IInv, TrustInv
  <1>2. QED
    BY <1>1, Inductive, PTL

\* What trust has installed is what every proxy serves from then on.
THEOREM InstalledIsAlwaysServed == Spec => []InstalledIsServed
  <1>1. ASSUME IInv PROVE InstalledIsServed
    <2>1. SUFFICES ASSUME promise \in Ca, ~ irregular
                   PROVE  /\ promise \in trusted /\ cert = promise /\ key = promise
                          /\ port # NoServer => mem[port].cert = promise
      BY DEF InstalledIsServed
    <2>2. promise \in trusted /\ cert = promise /\ key = promise
      BY <1>1, <2>1 DEF IInv, TrustInv, Kept
    <2>3. port # NoServer => mem[port] = [cert |-> cert, key |-> key]
      BY <1>1, <2>1 DEF IInv, TypeOK, StoreTypeOK, StoreInv, PortHeld, Paired, Knows
    <2>4. QED
      BY <2>2, <2>3
  <1>2. QED
    BY <1>1, Inductive, PTL

\* doctor fails for one of its four checks.
LEMMA DoctorFails ==
  ASSUME NEW env \in BOOLEAN, NEW tool
  PROVE  DoctorExit(env, tool) =
           IF ~ HasAichuDir(host) \/ CheckCaPresent = "fail" \/ CheckTrustSource(tool) = "fail"
           THEN 1 ELSE 0
  <1>1. CheckHttpsProxy(env) # "fail" /\ CheckProxyPort # "fail"
    BY DEF CheckHttpsProxy, CheckProxyPort
  <1>2. /\ Findings(env, tool)[1] = CheckCaPresent
        /\ Findings(env, tool)[2] = CheckHttpsProxy(env)
        /\ Findings(env, tool)[3] = CheckProxyPort
        /\ Findings(env, tool)[4] = CheckTrustSource(tool)
    BY DEF Findings
  <1>3. 1 .. 4 = {1, 2, 3, 4}
    OBVIOUS
  <1>4. (\E k \in 1 .. 4 : Findings(env, tool)[k] = "fail") <=>
          CheckCaPresent = "fail" \/ CheckTrustSource(tool) = "fail"
    BY <1>1, <1>2, <1>3
  <1>5. QED
    BY <1>4 DEF DoctorExit, ToExitCode

\* On Linux, macOS and Windows doctor agrees with what trust and untrust have
\* done, and with what they cannot do (main.rs: handle_doctor).
THEOREM DoctorAlwaysAgrees == Spec => []DoctorAgrees
  <1>1. ASSUME IInv PROVE DoctorAgrees
    <2>1. Kept /\ Untrusted /\ host \in Host
      BY <1>1 DEF IInv, TrustInv, TypeOK, StoreTypeOK
    <2>2. host.os \in {"linux", "macos", "windows", "other"}
      BY <2>1, HostAssumption
    <2>3. ASSUME promise \in Ca, ~ irregular PROVE DoctorExit(FALSE, TRUE) = 0
      <3>1. promise \in trusted /\ cert = promise /\ key = promise
        BY <2>1, <2>3 DEF Kept
      <3>2. HasAichuDir(host) /\ CheckCaPresent # "fail"
        BY <2>1, <2>3, <3>1, CaNumbers DEF Untrusted, CanTrust, CheckCaPresent
      <3>3. CASE host.os = "linux"
        <4>1. FamilyOf(host) \in Family /\ AnchorAt = promise
          BY <2>1, <2>3, <3>1, <3>3 DEF Kept, Untrusted, CanTrust
        <4>2. CheckTrustSource(TRUE) = "ok"
          BY <2>3, <3>3, <4>1, CaNumbers
          DEF CheckTrustSource, CheckLinuxTrustSource, CheckLinuxAnchor, AnchorAt
        <4>3. QED
          BY <3>2, <4>2, DoctorFails
      <3>4. CASE host.os # "linux"
        <4>1. CheckTrustSource(TRUE) = "ok"
          BY <2>2, <3>1, <3>4
          DEF CheckTrustSource, CheckKeychainHasCa, FindCertificate, CheckWindowsCurrentuserRoot
        <4>2. QED
          BY <3>2, <4>1, DoctorFails
      <3>5. QED
        BY <3>3, <3>4
    <2>4. ASSUME promise = Removed, trusted = {} \/ host.os = "linux"
          PROVE  DoctorExit(TRUE, TRUE) = 1 /\ trusted = {}
      <3>1. CASE host.os = "linux"
        <4>1. OnFamily /\ AnchorAt = Absent /\ trusted = {}
          BY <2>1, <2>4, <3>1 DEF Kept
        <4>2. CheckTrustSource(TRUE) = "fail"
          BY <3>1, <4>1
          DEF CheckTrustSource, CheckLinuxTrustSource, CheckLinuxAnchor, AnchorAt, OnFamily
        <4>3. QED
          BY <4>1, <4>2, DoctorFails
      <3>2. CASE host.os # "linux"
        <4>1. host.os \in {"macos", "windows"} /\ trusted = {}
          BY <2>1, <2>2, <2>4, <3>2 DEF Kept
        <4>2. CheckTrustSource(TRUE) = "fail"
          BY <4>1
          DEF CheckTrustSource, CheckKeychainHasCa, FindCertificate, CheckWindowsCurrentuserRoot
        <4>3. QED
          BY <4>1, <4>2, DoctorFails
      <3>3. QED
        BY <3>1, <3>2
    <2>5. ASSUME ~ HasAichuDir(host)
          PROVE  DoctorExit(TRUE, TRUE) = 1 /\ trusted = {}
      BY <2>1, <2>5, DoctorFails DEF Untrusted, CanTrust
    <2>6. ASSUME host.os = "linux", FamilyOf(host) \notin Family
          PROVE  DoctorExit(TRUE, TRUE) = 1 /\ trusted = {}
      <3>1. trusted = {}
        BY <2>1, <2>6 DEF Untrusted, CanTrust
      <3>2. CheckTrustSource(TRUE) = "fail"
        BY <2>6 DEF CheckTrustSource, CheckLinuxTrustSource
      <3>3. QED
        BY <3>1, <3>2, DoctorFails
    <2>7. ASSUME host.os = "other"
          PROVE  trusted = {} /\ (DoctorExit(TRUE, TRUE) = 1 \/ Absent \notin {cert, key})
      <3>1. Absent \in {cert, key} => CheckCaPresent = "fail"
        BY DEF CheckCaPresent
      <3>2. QED
        BY <2>1, <2>7, <3>1, DoctorFails DEF Untrusted, CanTrust
    <2>8. QED
      BY <2>2, <2>3, <2>4, <2>5, <2>6, <2>7 DEF DoctorAgrees, CanTrust
  <1>2. QED
    BY <1>1, Inductive, PTL

=============================================================================
