--------------------------- MODULE PlaceholderText ---------------------------
(***************************************************************************)
(* Placeholders as text: the shape the reverse pass recognises             *)
(* (crates/proxy-core/src/reverse.rs) and the holdback rule of the         *)
(* streaming reverser (crates/proxy-core/src/sse.rs).  A text is a         *)
(* sequence of characters.  The characters are only told apart as far as   *)
(* the regular expression does:                                            *)
(*                                                                         *)
(*     <<SECRET_[A-Z0-9_]+_[0-9]+>>        (<< and >> are guillemets)      *)
(***************************************************************************)
EXTENDS Integers, Sequences, FiniteSetsExt

CONSTANTS
  Open, Close,   \* the opening and the closing guillemet
  SecretPrefix,  \* the literal "SECRET_", a sequence over Slug
  Slug,          \* the class [A-Z0-9_]
  Underscore,    \* the underscore, a member of Slug
  Digit,         \* the class [0-9], part of Slug
  Other,         \* every other character
  Original,      \* the table of the request: placeholder string -> secret
  NoPiece        \* see Reversed

Char == {Open, Close} \cup Slug \cup Other

ASSUME CharAssumption ==
  /\ Open # Close
  /\ Open \notin Slug /\ Close \notin Slug
  /\ SecretPrefix \in Seq(Slug)
  /\ Underscore \in Slug /\ Digit \subseteq Slug /\ Digit # {}

-----------------------------------------------------------------------------
\* s[a..n] starts with the opening guillemet and goes on with a prefix of
\* SECRET_, or with SECRET_ and then characters of [A-Z0-9_]: it could still
\* become a placeholder (is_partial_placeholder_prefix).
PartialAt(s, a, n) ==
  /\ s[a] = Open
  /\ \A i \in a + 1 .. n :
       IF i - a <= Len(SecretPrefix) THEN s[i] = SecretPrefix[i - a] ELSE s[i] \in Slug

\* The regular expression matches exactly s[a..b].
PlaceholderAt(s, a, b) ==
  /\ s[b] = Close
  /\ PartialAt(s, a, b - 1)
  /\ \E u \in a + Len(SecretPrefix) + 2 .. b - 2 :
       /\ s[u] = Underscore
       /\ \A i \in u + 1 .. b - 1 : s[i] \in Digit

\* The matches that are replaced: those that the table knows.
KnownMatches(s) ==
  {m \in (1 .. Len(s)) \X (1 .. Len(s)) :
     /\ m[1] < m[2]
     /\ PlaceholderAt(s, m[1], m[2])
     /\ SubSeq(s, m[1], m[2]) \in DOMAIN Original}

Inside(i, m) == m[1] <= i /\ i <= m[2]

\* The entries of a reversed text.
Piece == Char \cup {Original[p] : p \in DOMAIN Original} \cup {NoPiece}

\* `reverse`.  The result keeps one entry per input character, so that texts
\* can be compared piece by piece: the first character of a replaced
\* placeholder becomes the secret, its other characters become NoPiece.
\* What the client reads is the result without the NoPiece entries.
Reversed(s) ==
  LET known == KnownMatches(s)
  IN  [i \in 1 .. Len(s) |->
         IF \E m \in known : i = m[1]
         THEN Original[SubSeq(s, i, (CHOOSE m \in known : i = m[1])[2])]
         ELSE IF \E m \in known : Inside(i, m) THEN NoPiece ELSE s[i]]

-----------------------------------------------------------------------------
Opens(s) == {i \in 1 .. Len(s) : s[i] = Open}

\* Mutations: everything is taken for complete, or everything after an opening
\* guillemet is held back.
SafeEmitAll(s) == Len(s)
SafeEmitGreedy(s) == IF Opens(s) = {} THEN Len(s) ELSE Max(Opens(s)) - 1

\* safe_emit_position: how many characters of the pending text may go out.
\* Everything, unless the rightmost opening guillemet is not closed and what
\* follows it could still become a placeholder.
SafeEmitPosition(s) ==
  IF Opens(s) = {} THEN Len(s)
  ELSE LET r == Max(Opens(s))
       IN  IF (\E i \in r .. Len(s) : s[i] = Close) \/ ~ PartialAt(s, r, Len(s))
           THEN Len(s)
           ELSE r - 1

=============================================================================
