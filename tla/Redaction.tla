------------------------------ MODULE Redaction ------------------------------
(***************************************************************************)
(* Outbound redaction and its inverse (crates/proxy-core/src/lib.rs and    *)
(* reverse.rs).  A body is a sequence of tokens: a token is a character or *)
(* a placeholder.  `redact` scans the body, then walks the findings left   *)
(* to right, copying the gaps and replacing each finding by its            *)
(* placeholder; one step of this module is one iteration of that loop.     *)
(*                                                                         *)
(* The table is the per-session object its documentation describes: it     *)
(* may serve several calls (the proxies make one call per table), and the  *)
(* reversal of an earlier body must survive the later calls.               *)
(*                                                                         *)
(* Detection is nondeterministic here: any list of disjoint findings in    *)
(* ascending order may come back from `scan`.  That `scan` does return     *)
(* such a list is what the Detector module is about.                       *)
(***************************************************************************)
EXTENDS PlaceholderMap, Sequences, SequencesExt

CONSTANTS
  Char,      \* the characters of a body that are not part of a placeholder
  Body,      \* the bodies a client may send: sequences of tokens
  MaxCalls   \* bound: calls of `redact` on one table

Token == Char \cup Placeholder

ASSUME BodyAssumption == Body \subseteq Seq(Token)

\* A secret is a piece of a body.
ASSUME TextAssumption == Text \subseteq Seq(Token)

\* A finding of `scan`: the half-open span [start, end) and its kind.
Finding == [kind : Kind, start : Nat, end : Nat]

TextOf(body, f) == SubSeq(body, f.start + 1, f.end)

\* What `substitute` relies on: spans inside the body, ascending, disjoint.
FindingsFor(body) ==
  {f \in [kind : Kind, start : 0 .. Len(body), end : 0 .. Len(body)] :
     f.start < f.end /\ TextOf(body, f) \in Text}

IsAscending(fs) ==
  \A i \in 1 .. Len(fs) - 1 : fs[i].end <= fs[i + 1].start

-----------------------------------------------------------------------------
VARIABLES
  map,       \* the placeholder table
  pc,        \* "idle" between calls, "substituting" inside the loop
  input,     \* the body of the current call
  findings,  \* what `scan` returned for it
  next,      \* index of the finding the loop handles next
  cursor,    \* bytes of `input` consumed so far
  out,       \* the redacted text built so far
  done       \* history: <<body, findings, redacted body>> of finished calls

vars == <<map, pc, input, findings, next, cursor, out, done>>

Init ==
  /\ map = EmptyMap
  /\ pc = "idle"
  /\ input = << >> /\ findings = << >> /\ out = << >>
  /\ next = 1 /\ cursor = 0
  /\ done = {}

\* redact: a body without findings comes back as it is, the table untouched.
RedactNothing ==
  /\ pc = "idle" /\ Cardinality(done) < MaxCalls
  /\ \E body \in Body : done' = done \cup {<<body, << >>, body>>}
  /\ UNCHANGED <<map, pc, input, findings, next, cursor, out>>

\* redact: otherwise the substitution loop starts.
RedactStart ==
  /\ pc = "idle" /\ Cardinality(done) < MaxCalls
  /\ \E body \in Body : \E fs \in BoundedSeq(FindingsFor(body), Len(body)) :
       /\ fs # << >> /\ IsAscending(fs)
       /\ input' = body /\ findings' = fs
  /\ next' = 1 /\ cursor' = 0 /\ out' = << >>
  /\ pc' = "substituting"
  /\ UNCHANGED <<map, done>>

\* Mutation: the gap is copied one token short.
GapTooShort(body, from, f) == SubSeq(body, from + 1, f.start - 1)

\* The text between the previous finding and this one; nothing when they touch.
Gap(body, from, f) == SubSeq(body, from + 1, f.start)

\* One iteration of the loop in `substitute`.
SubstituteFinding ==
  /\ pc = "substituting" /\ next <= Len(findings)
  /\ LET f == findings[next]
         text == TextOf(input, f)
     IN  /\ out' = out \o Gap(input, cursor, f) \o <<PlaceholderFor(map, f.kind, text)>>
         /\ map' = AfterPlaceholderFor(map, f.kind, text)
         /\ cursor' = f.end
  /\ next' = next + 1
  /\ UNCHANGED <<pc, input, findings, done>>

\* The rest of the input after the last finding.
Remainder(body, from) == SubSeq(body, from + 1, Len(body))

SubstituteEnd ==
  /\ pc = "substituting" /\ next > Len(findings)
  /\ out' = out \o Remainder(input, cursor)
  /\ done' = done \cup {<<input, findings, out'>>}
  /\ pc' = "idle"
  /\ UNCHANGED <<map, input, findings, next, cursor>>

Next ==
  \/ RedactNothing
  \/ RedactStart
  \/ SubstituteFinding
  \/ SubstituteEnd

Spec == Init /\ [][Next]_vars

-----------------------------------------------------------------------------
\* reverse: every placeholder of the table becomes its secret, in one pass
\* over the text; a placeholder the table does not know stays as it is.
Reversed(text, m) ==
  FlattenSeq([i \in 1 .. Len(text) |->
                IF text[i] \in Minted(m) THEN m.reverse[text[i]] ELSE <<text[i]>>])

-----------------------------------------------------------------------------
\* The state has the shape the code gives it, and so has the table.
TypeOK ==
  /\ IsMap(map)
  /\ pc \in {"idle", "substituting"}
  /\ input \in Seq(Token) /\ out \in Seq(Token)
  /\ findings \in Seq(Finding)
  /\ next \in Nat \ {0} /\ cursor \in Nat
  /\ done \subseteq Seq(Token) \X Seq(Finding) \X Seq(Token)

\* placeholder.rs, the "secret-keeping contract": at every moment, also in
\* the middle of a body, the two tables are inverse to each other and every
\* number was handed out exactly once.
MapConsistent == Consistent(map)

\* A placeholder, once handed out, means the same secret for as long as the
\* table lives: no later call removes or rebinds it.  A response to an early
\* prompt can therefore be reversed after later prompts were redacted.
BindingsStable ==
  [][\A p \in Minted(map) : p \in Minted(map') /\ map'.reverse[p] = map.reverse[p]]_vars

\* What the loop should have produced, position by position: a finding's
\* first token becomes its placeholder, its other tokens disappear, all the
\* rest is copied.
Covered(fs, i) == \E n \in 1 .. Len(fs) : fs[n].start < i /\ i <= fs[n].end

RedactedPiece(body, fs, m, i) ==
  IF ~ Covered(fs, i) THEN <<body[i]>>
  ELSE IF \E n \in 1 .. Len(fs) : fs[n].start + 1 = i
       THEN LET n == CHOOSE n \in 1 .. Len(fs) : fs[n].start + 1 = i
            IN  <<m.forward[<<fs[n].kind, TextOf(body, fs[n])>>]>>
       ELSE << >>

\* The first `last` positions of a body, redacted.
RedactedFront(body, fs, m, last) ==
  FlattenSeq([i \in 1 .. last |-> RedactedPiece(body, fs, m, i)])

Redacted(body, fs, m) == RedactedFront(body, fs, m, Len(body))

\* lib.rs, `substitute`: whatever the spans (adjacent, at either end of the
\* body, repeated secrets), the loop's cursor arithmetic loses no character,
\* duplicates none and lets no character of a finding through.
LoopMatchesReference ==
  \A d \in done : d[3] = Redacted(d[1], d[2], map)

\* A body that quotes a placeholder of its own table in its plain text.
QuotesPlaceholder(body, fs, m) ==
  \E i \in 1 .. Len(body) : ~ Covered(fs, i) /\ body[i] \in Minted(m)

\* The round trip of the crate: reversing a redacted body with the table as
\* it is now, after however many later calls, gives back the client's body.
\* The only exception is a body that already quoted a placeholder the table
\* hands out, where the reversal cannot know the quote from its own mark.
RoundTrip ==
  \A d \in done :
    ~ QuotesPlaceholder(d[1], d[2], map) => Reversed(d[3], map) = d[1]

=============================================================================
