----------------------------- MODULE TrustSetup -----------------------------
(***************************************************************************)
(* Making a host trust the proxy's authority: `aichu trust`, `aichu        *)
(* untrust` and `aichu doctor` (crates/cli/src/main.rs), beside the        *)
(* processes of CaStore that create that authority and serve it.  Every    *)
(* external command (sudo install, sudo rm, the tool that rebuilds the     *)
(* bundle, security, certutil) is a step, and may fail.                    *)
(*                                                                         *)
(* A command that bails out before its first external command changes      *)
(* nothing, and is no step.                                                *)
(***************************************************************************)
EXTENDS CaStore

CONSTANT Shell  \* the terminals in which trust and untrust are run

VARIABLES
  anchor,     \* the file aichu-ca.crt in each directory of trust anchors
  trusted,    \* the authorities in the host's bundle, keychain or store
  step,       \* the next external command of each shell, and what trust read
  lagging,    \* history: a bundle was not rebuilt after its anchors changed
  contended,  \* history: two commands overlap, or have since all shells were idle
  promise     \* history: what the last command promised, see Promised

trustVars == <<anchor, trusted, step, lagging, contended, promise>>
vars == <<storeVars, trustVars>>

At == {"idle",
       "copy", "refreshCopied", "add-trusted-cert", "addstore",
       "remove", "refreshRemoved", "delete-certificate", "delstore"}
Idle == [at |-> "idle", ca |-> Absent]

Init ==
  /\ StoreInit
  /\ anchor = [path \in AnchorPath |-> Absent]
  /\ trusted = {}
  /\ step = [s \in Shell |-> Idle]
  /\ lagging = FALSE /\ contended = FALSE
  /\ promise = 0

\* Of the last command to end: the number of the authority when trust
\* installed it, Removed when untrust removed it, 0 when it failed, overlapped
\* with another command, or files were removed since.
Removed == -1
Promised(p) == promise' = IF contended THEN 0 ELSE p

Begin(s, at) ==
  /\ step[s] = Idle
  /\ step' = [step EXCEPT ![s].at = at]
  /\ promise' = 0
  /\ contended' = \E other \in Shell : step[other] # Idle
  /\ UNCHANGED <<storeVars, anchor, trusted, lagging>>

End(s) ==
  /\ step' = [step EXCEPT ![s] = Idle]
  /\ contended' = (contended /\ \E other \in Shell \ {s} : step[other] # Idle)

\* run_or_bail of a command that does not succeed; the change of the anchors
\* that has been made stays.
Fail(s) ==
  /\ step[s] # Idle
  /\ End(s)
  /\ lagging' = (lagging \/ step[s].at \in {"refreshCopied", "refreshRemoved"})
  /\ UNCHANGED <<storeVars, anchor, trusted, promise>>

-----------------------------------------------------------------------------
\* ca_dir()? and cert_path.exists(): the certificate alone decides whether
\* there is something to trust.  On other systems trust and untrust bail out.
CertPresent == HasAichuDir(host) /\ cert # Absent

TrustLinux(s) ==
  host.os = "linux" /\ CertPresent /\ FamilyOf(host) \in Family /\ Begin(s, "copy")

TrustMacOs(s) == host.os = "macos" /\ CertPresent /\ Begin(s, "add-trusted-cert")

TrustWindows(s) == host.os = "windows" /\ CertPresent /\ Begin(s, "addstore")

\* sudo install -m 644 <cert> <anchor>: copies what the file contains now.
CopyAnchor(s) ==
  /\ step[s].at = "copy" /\ cert # Absent
  /\ anchor' = [anchor EXCEPT ![InstallPath(FamilyOf(host))] = cert]
  /\ step' = [step EXCEPT ![s] = [at |-> "refreshCopied", ca |-> cert]]
  /\ UNCHANGED <<storeVars, trusted, lagging, contended, promise>>

\* Mutation: whatever is in the file becomes part of the bundle.
BundleUnread == {anchor[ReadBy(RefreshCommand(FamilyOf(host)))]}

\* What the distribution's tool makes of the anchors.
Bundle == {anchor[ReadBy(RefreshCommand(FamilyOf(host)))]} \cap Ca

\* The authority trust has read is the one of a complete store.
Vouched(c) == IF ~ irregular /\ c \in Ca /\ cert = c /\ key = c THEN c ELSE 0

RefreshCopied(s) ==
  /\ step[s].at = "refreshCopied"
  /\ trusted' = Bundle /\ lagging' = FALSE
  /\ Promised(Vouched(step[s].ca))
  /\ End(s)
  /\ UNCHANGED <<storeVars, anchor>>

\* The two stores without a refresh refuse what is no certificate, and leave
\* earlier ones of the same name where they are.
Installed(s) ==
  /\ cert \in Ca
  /\ trusted' = trusted \cup {cert}
  /\ Promised(Vouched(cert))
  /\ End(s)
  /\ UNCHANGED <<storeVars, anchor, lagging>>

\* sudo security add-trusted-cert -d -r trustRoot -k <keychain> <cert>
AddTrustedCert(s) == step[s].at = "add-trusted-cert" /\ Installed(s)

\* certutil -user -addstore Root <cert>
AddStore(s) == step[s].at = "addstore" /\ Installed(s)

\* Neither the home directory nor the certificate is needed.
UntrustLinux(s) ==
  host.os = "linux" /\ FamilyOf(host) \in Family /\ Begin(s, "remove")

UntrustMacOs(s) == host.os = "macos" /\ Begin(s, "delete-certificate")

UntrustWindows(s) == host.os = "windows" /\ Begin(s, "delstore")

\* Mutation: the bundle is rebuilt from what was there before.
NothingRemoved == anchor

\* sudo rm -f <anchor>.
AnchorRemoved == [anchor EXCEPT ![InstallPath(FamilyOf(host))] = Absent]

RemoveAnchor(s) ==
  /\ step[s].at = "remove"
  /\ anchor' = AnchorRemoved
  /\ step' = [step EXCEPT ![s].at = "refreshRemoved"]
  /\ UNCHANGED <<storeVars, trusted, lagging, contended, promise>>

\* Mutation: the bundle is not rebuilt when the anchor is gone.
RefreshSkipped(s) ==
  /\ step[s].at = "refreshRemoved"
  /\ End(s)
  /\ Promised(Removed)
  /\ UNCHANGED <<storeVars, anchor, trusted, lagging>>

RefreshRemoved(s) ==
  /\ step[s].at = "refreshRemoved"
  /\ trusted' = Bundle /\ lagging' = FALSE
  /\ Promised(Removed)
  /\ End(s)
  /\ UNCHANGED <<storeVars, anchor>>

\* A name that several authorities share does not say which is deleted; a
\* name that no certificate has is an error.
Deleted(s) ==
  /\ \E gone \in SUBSET trusted \ {{}} : trusted' = trusted \ gone
  /\ Promised(Removed)
  /\ End(s)
  /\ UNCHANGED <<storeVars, anchor, lagging>>

\* sudo security delete-certificate -c <name> <keychain>
DeleteCertificate(s) == step[s].at = "delete-certificate" /\ Deleted(s)

\* certutil -user -delstore Root <name>
DelStore(s) == step[s].at = "delstore" /\ Deleted(s)

TrustStep(s) ==
  \/ TrustLinux(s) \/ CopyAnchor(s) \/ RefreshCopied(s)
  \/ TrustMacOs(s) \/ AddTrustedCert(s)
  \/ TrustWindows(s) \/ AddStore(s)
  \/ UntrustLinux(s) \/ RemoveAnchor(s) \/ RefreshRemoved(s)
  \/ UntrustMacOs(s) \/ DeleteCertificate(s)
  \/ UntrustWindows(s) \/ DelStore(s)
  \/ Fail(s)

UserRemovesCa(what) ==
  /\ UserRemoves(what)
  /\ promise' = 0
  /\ UNCHANGED <<anchor, trusted, step, lagging, contended>>

Next ==
  \/ \E p \in Server : RunStep(p) /\ UNCHANGED trustVars
  \/ \E s \in Shell : TrustStep(s)
  \/ \E what \in SUBSET {"cert", "key"} : UserRemovesCa(what)

Spec == Init /\ [][Next]_vars

-----------------------------------------------------------------------------
(* aichu doctor only reads; its findings are "ok", "warn" and "fail".       *)

\* One of the two files without the other is no authority.
CheckCaPresent == IF cert # Absent /\ key # Absent THEN "ok" ELSE "fail"

CheckHttpsProxy(env) == IF env THEN "ok" ELSE "warn"

CheckProxyPort == IF port # NoServer THEN "ok" ELSE "warn"

CheckLinuxAnchor(path) == IF anchor[path] # Absent THEN "ok" ELSE "fail"

\* Lookups by name, which any authority of that name satisfies; a tool that
\* cannot be started, or fails (`tool` is FALSE), counts as a failure.
\* certutil -user -store Root <name>
CheckWindowsCurrentuserRoot(tool) == IF tool /\ trusted # {} THEN "ok" ELSE "fail"

\* security find-certificate -c <name> <keychain>: found, not found, and any
\* other outcome.
FindCertificate(tool) == IF ~ tool THEN "error" ELSE IF trusted = {} THEN "missing" ELSE "found"
CheckKeychainHasCa(tool) == IF FindCertificate(tool) = "found" THEN "ok" ELSE "fail"

CheckLinuxTrustSource ==
  IF FamilyOf(host) \in Family THEN CheckLinuxAnchor(DoctorPath(FamilyOf(host))) ELSE "fail"

\* handle_doctor has no such check on other systems.
CheckTrustSource(tool) ==
  CASE host.os = "linux"   -> CheckLinuxTrustSource
    [] host.os = "macos"   -> CheckKeychainHasCa(tool)
    [] host.os = "windows" -> CheckWindowsCurrentuserRoot(tool)
    [] OTHER               -> "ok"

Findings(env, tool) ==
  <<CheckCaPresent, CheckHttpsProxy(env), CheckProxyPort, CheckTrustSource(tool)>>

ToExitCode(failed) == IF failed THEN 1 ELSE 0

\* Warnings alone keep it at 0.
DoctorExit(env, tool) ==
  ToExitCode(~ HasAichuDir(host) \/ \E k \in 1 .. 4 : Findings(env, tool)[k] = "fail")

-----------------------------------------------------------------------------
(* Properties.                                                             *)

TypeOK ==
  /\ StoreTypeOK
  /\ anchor \in [AnchorPath -> Content]
  /\ trusted \subseteq Ca
  /\ step \in [Shell -> [at : At, ca : Content]]
  /\ lagging \in BOOLEAN /\ contended \in BOOLEAN
  /\ promise \in Ca \cup {0, Removed}

\* However trust and untrust are interleaved with each other and with starts
\* of the proxy, once each has rebuilt the bundle (main.rs: handle_trust,
\* handle_untrust) the host trusts what the anchor file says, and only that.
BundleFollowsAnchor ==
  /\ host.os = "linux" /\ FamilyOf(host) \in Family /\ ~ lagging
  /\ \A s \in Shell : step[s].at \notin {"refreshCopied", "refreshRemoved"}
  => trusted = {anchor[DoctorPath(FamilyOf(host))]} \cap Ca

\* handle_trust gets past its own checks of the host.
CanTrust(h) ==
  /\ HasAichuDir(h)
  /\ h.os \in {"macos", "windows"} \/ (h.os = "linux" /\ FamilyOf(h) \in Family)

\* main.rs: handle_doctor.  The diagnosis agrees with the commands: after a
\* trust that installed the authority of a complete store it passes, whether or
\* not the proxy runs; after an untrust it fails, unless another authority of
\* the same name is left, which cannot be on Linux; and on hosts where trust
\* cannot work nothing is trusted and it fails, as main.rs:898-901 and 1432-1438
\* want it.  Excepted are systems other than Linux, macOS and Windows: trust
\* bails out there (main.rs:467-473), but doctor has no check of the trust store
\* and passes as soon as there is a pair on disk.
DoctorAgrees ==
  /\ promise \in Ca /\ ~ irregular => DoctorExit(FALSE, TRUE) = 0
  /\ promise = Removed /\ (trusted = {} \/ host.os = "linux") =>
       DoctorExit(TRUE, TRUE) = 1 /\ trusted = {}
  /\ ~ CanTrust(host) =>
       /\ trusted = {}
       /\ DoctorExit(TRUE, TRUE) = 1 \/ (host.os = "other" /\ Absent \notin {cert, key})

\* What trust has installed is what the proxy serves from then on, whatever
\* starts, stops and crashes come after, and it is trusted (main.rs:803-806).
InstalledIsServed ==
  promise \in Ca /\ ~ irregular =>
    /\ promise \in trusted
    /\ cert = promise /\ key = promise
    /\ port # NoServer => mem[port].cert = promise

=============================================================================
