------------------------------ MODULE HostTrust ------------------------------
(***************************************************************************)
(* How the command line (crates/cli/src/main.rs) finds its way on a host:  *)
(* which family a Linux distribution belongs to, where that family keeps   *)
(* its trust anchors, which tool rebuilds the bundle of trusted            *)
(* certificates from them.  The module has no variables.                   *)
(*                                                                         *)
(* /etc/os-release is the sequence of its KEY=VALUE lines; a value is its  *)
(* words and the quotes around them.                                       *)
(***************************************************************************)
EXTENDS Naturals, Sequences, FiniteSetsExt

CONSTANT Host  \* the hosts considered

OsRelease == Seq([key : STRING, words : Seq(STRING), quote : {"none", "double", "single"}])
NoOsRelease == << >>  \* also a file that cannot be read

\* `home`: HOME or USERPROFILE is set.
ASSUME HostAssumption ==
  \A h \in Host :
    /\ h = [os |-> h.os, debian_version |-> h.debian_version, os_release |-> h.os_release,
            home |-> h.home]
    /\ h.os \in {"linux", "macos", "windows", "other"}
    /\ h.debian_version \in BOOLEAN /\ h.home \in BOOLEAN /\ h.os_release \in OsRelease

\* default_aichu_dir: without it there is no ca_dir either.
HasAichuDir(h) == h.home

Unix(h) == h.os # "windows"

RedHatIds == {"fedora", "rhel", "centos", "rocky", "almalinux", "ol", "oracle"}
ArchIds == {"arch", "manjaro", "endeavouros"}

\* The last line for a key counts.
Assigned(body, key) ==
  LET at == {j \in 1 .. Len(body) : body[j].key = key}
  IN  IF at = {} THEN [words |-> << >>, quote |-> "none"] ELSE body[Max(at)]

\* Only double quotes are removed: single ones stay with the first and the
\* last word.
Bare(v) == {v.words[j] : j \in {j \in 1 .. Len(v.words) : v.quote = "single" => 1 < j /\ j < Len(v.words)}}

\* ID is one token, whatever is in it; ID_LIKE is split into words.
OsTokens(body) ==
  LET id == Assigned(body, "ID")
  IN  (IF Len(id.words) = 1 THEN Bare(id) ELSE {}) \cup Bare(Assigned(body, "ID_LIKE"))

LinuxFamilyFromOsRelease(body) ==
  IF OsTokens(body) \cap RedHatIds # {} THEN "RedHat"
  ELSE IF OsTokens(body) \cap ArchIds # {} THEN "Arch" ELSE "None"

IsDebianFamily(h) == h.debian_version

Family == {"Debian", "RedHat", "Arch"}

\* The two-stage detection that trust, untrust and doctor repeat.
FamilyOf(h) ==
  IF IsDebianFamily(h) THEN "Debian" ELSE LinuxFamilyFromOsRelease(h.os_release)

\* Mutation: the anchor of one family is put where another one looks.
InstallPathOfDebian(family) == "/usr/local/share/ca-certificates"

\* LINUX_DEBIAN_CERT_DEST and linux_family_install_path.
InstallPath(family) ==
  CASE family = "Debian" -> "/usr/local/share/ca-certificates"
    [] family = "RedHat" -> "/etc/pki/ca-trust/source/anchors"
    [] family = "Arch"   -> "/etc/ca-certificates/trust-source/anchors"

\* linux_trust_update_command and linux_family_refresh_command.
RefreshCommand(family) ==
  CASE family = "Debian" -> "update-ca-certificates"
    [] family = "RedHat" -> "update-ca-trust"
    [] family = "Arch"   -> "trust extract-compat"

\* The directory a tool of the distribution reads the anchors from.
ReadBy(tool) ==
  CASE tool = "update-ca-certificates" -> "/usr/local/share/ca-certificates"
    [] tool = "update-ca-trust"        -> "/etc/pki/ca-trust/source/anchors"
    [] tool = "trust extract-compat"   -> "/etc/ca-certificates/trust-source/anchors"

AnchorPath == {ReadBy(RefreshCommand(family)) : family \in Family}

\* The file linux_doctor_trust_source_check looks for.
DoctorPath(family) ==
  CASE family = "Debian" -> "/usr/local/share/ca-certificates"
    [] family = "RedHat" -> "/etc/pki/ca-trust/source/anchors"
    [] family = "Arch"   -> "/etc/ca-certificates/trust-source/anchors"

=============================================================================
