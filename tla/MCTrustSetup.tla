---------------------------- MODULE MCTrustSetup ----------------------------
(* TrustSetup on the kinds of hosts the command line tells apart, two       *)
(* processes that start the proxy, two shells and two authorities.          *)
EXTENDS TrustSetup, TLC

CONSTANTS p1, p2, s1, s2

MCServer == {p1, p2}
MCShell == {s1, s2}

Line(k, words, quote) == [key |-> k, words |-> words, quote |-> quote]

On(os) == [os |-> os, debian_version |-> FALSE, os_release |-> NoOsRelease, home |-> TRUE]

Linux(release) == [On("linux") EXCEPT !.os_release = release]

\* A distribution can have the sentinel of Debian and an os-release; the
\* words of ID_LIKE decide for a derivative; single quotes hide its words.
MCHost ==
  {[Linux(<<Line("ID", <<"ubuntu">>, "none"), Line("ID_LIKE", <<"debian">>, "none")>>)
      EXCEPT !.debian_version = TRUE],
   Linux(<<Line("ID", <<"nobara">>, "none"),
           Line("ID_LIKE", <<"rhel", "centos", "fedora">>, "double")>>),
   Linux(<<Line("ID", <<"void">>, "none"), Line("ID_LIKE", <<"arch">>, "single")>>),
   [Linux(<<Line("NAME", <<"Manjaro", "Linux">>, "double"), Line("ID", <<"manjaro">>, "none")>>)
      EXCEPT !.home = FALSE],
   On("macos"), On("windows"), On("other")}

Symmetry == Permutations(MCServer) \cup Permutations(MCShell)

=============================================================================
