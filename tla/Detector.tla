------------------------------ MODULE Detector ------------------------------
(***************************************************************************)
(* One call of `scan` (crates/proxy-core/src/detector.rs).  It collects    *)
(* candidates, kind by kind in the order of SecretKind::ALL: the matches   *)
(* of the kind's regular expression that pass its entropy gate, or, for    *)
(* GCP service accounts, the spans a brace walker finds.  Then it sorts    *)
(* the candidates and resolves their overlaps in one pass.                 *)
(*                                                                         *)
(* A text is a sequence of tokens: the four characters the walker looks    *)
(* at, newline, anything else, and "type":"service_account" (the marker)   *)
(* as a whole.  What a regular expression matches comes with the input:    *)
(* the engine is an external library, and its only promise used here is    *)
(* that the matches of one expression do not overlap.  Spans are           *)
(* half-open, [start, end).                                                *)
(***************************************************************************)
EXTENDS Integers, Sequences, FiniteSets, FiniteSetsExt

CONSTANTS
  ALL,           \* the kinds in detection order (SecretKind::ALL)
  Gcp,           \* the kind that the brace walker handles
  Gated,         \* the kinds with an entropy gate (SecretKind::min_entropy)
  MaxBraceDepth, \* GCP_MAX_BRACE_DEPTH
  Input          \* texts, each with what the regex engine finds in it

Kind == {ALL[k] : k \in 1 .. Len(ALL)}
Token == {"quote", "backslash", "open", "close", "marker", "newline", "other"}

\* `random`: the Shannon entropy of the captured text reaches the threshold.
Match == [start : Nat, end : Nat, random : BOOLEAN]
Finding == [kind : Kind, start : Nat, end : Nat]
Frame == [open : Nat, marked : BOOLEAN]

Separate(f, g) == f.end <= g.start \/ g.end <= f.start

ASSUME KindAssumption ==
  /\ ALL \in Seq(STRING)
  /\ \A j, k \in 1 .. Len(ALL) : ALL[j] = ALL[k] => j = k
  /\ Gcp \in Kind /\ Gated \subseteq Kind /\ MaxBraceDepth \in Nat

\* `keyword`: the text contains a keyword of some kind.
IsInput(in) ==
  /\ in = [text |-> in.text, keyword |-> in.keyword, matches |-> in.matches]
  /\ in.text \in Seq(Token) /\ in.keyword \in BOOLEAN
  /\ in.matches \in [Kind -> SUBSET Match]
  /\ \A k \in Kind :
       /\ IsFiniteSet(in.matches[k])
       /\ \A m \in in.matches[k] : m.start < m.end /\ m.end <= Len(in.text)
       /\ \A m, n \in in.matches[k] : m # n => Separate(m, n)

ASSUME InputAssumption == \A in \in Input : IsInput(in)

VARIABLES
  input,       \* the argument
  pc,          \* "prefilter", "collecting", "walking", "resolving", "done"
  kindsDone,   \* kinds of ALL whose candidates are collected
  \* the brace walker
  i,           \* tokens it has consumed
  stack,       \* open braces: [open |-> position, marked |-> marker seen]
  in_string, escape_next,
  envelopes,
  \* candidates and result
  findings,    \* all candidates
  rest,        \* those the resolution has not taken yet
  out

walker == <<i, stack, in_string, escape_next, envelopes>>
vars == <<input, pc, kindsDone, walker, findings, rest, out>>

Init ==
  /\ input \in Input
  /\ pc = "prefilter" /\ kindsDone = 0
  /\ i = 0 /\ stack = << >> /\ in_string = FALSE /\ escape_next = FALSE /\ envelopes = {}
  /\ findings = {} /\ rest = {} /\ out = << >>

-----------------------------------------------------------------------------
\* Without any keyword there is nothing to find.
Prefilter ==
  /\ pc = "prefilter"
  /\ pc' = IF input.keyword THEN "collecting" ELSE "done"
  /\ UNCHANGED <<input, kindsDone, walker, findings, rest, out>>

NextKind == ALL[kindsDone + 1]

\* The entropy gate, for the kinds that have one.
PassesGate(kind, m) == kind \in Gated => m.random

\* The matches of one regular expression.
CollectMatches ==
  /\ pc = "collecting" /\ kindsDone < Len(ALL) /\ NextKind # Gcp
  /\ findings' = findings \cup
       {[kind |-> NextKind, start |-> m.start, end |-> m.end] :
          m \in {m \in input.matches[NextKind] : PassesGate(NextKind, m)}}
  /\ kindsDone' = kindsDone + 1
  /\ UNCHANGED <<input, pc, walker, rest, out>>

\* The walker starts, if there is a marker at all.
WalkStart ==
  /\ pc = "collecting" /\ kindsDone < Len(ALL) /\ NextKind = Gcp
  /\ IF \E j \in 1 .. Len(input.text) : input.text[j] = "marker"
     THEN pc' = "walking" /\ UNCHANGED kindsDone
     ELSE kindsDone' = kindsDone + 1 /\ UNCHANGED pc
  /\ UNCHANGED <<input, walker, findings, rest, out>>

Here == input.text[i + 1]
Walking == pc = "walking" /\ i < Len(input.text)
Top == stack[Len(stack)]
Popped == SubSeq(stack, 1, Len(stack) - 1)

\* Inside a string only its end matters; a backslash protects one character.
\* A marker has four quotes: three, if the first one is protected.
WalkInString ==
  /\ Walking /\ in_string
  /\ in_string' = CASE Here = "quote"  -> escape_next
                    [] Here = "marker" -> ~ escape_next
                    [] OTHER           -> TRUE
  /\ escape_next' = (Here = "backslash" /\ ~ escape_next)
  /\ i' = i + 1
  /\ UNCHANGED <<input, pc, kindsDone, stack, envelopes, findings, rest, out>>

\* A marker outside strings belongs to the innermost open brace.
WalkMarker ==
  /\ Walking /\ ~ in_string /\ Here = "marker"
  /\ stack' = IF stack = << >> THEN stack ELSE [stack EXCEPT ![Len(stack)].marked = TRUE]
  /\ i' = i + 1
  /\ UNCHANGED <<input, pc, kindsDone, in_string, escape_next, envelopes, findings, rest, out>>

WalkOpen ==
  /\ Walking /\ ~ in_string /\ Here = "open" /\ Len(stack) < MaxBraceDepth
  /\ stack' = Append(stack, [open |-> i, marked |-> FALSE])
  /\ i' = i + 1
  /\ UNCHANGED <<input, pc, kindsDone, in_string, escape_next, envelopes, findings, rest, out>>

\* Mutations: an unmarked object is taken as well; the span is one too long.
TakesAnyFrame(frame) == TRUE
EnvelopePastEnd(frame) == [kind |-> Gcp, start |-> frame.open, end |-> i + 2]

IsEnvelope(frame) == frame.marked
Envelope(frame) == [kind |-> Gcp, start |-> frame.open, end |-> i + 1]

\* A closing brace; one without partner is ignored.
WalkClose ==
  /\ Walking /\ ~ in_string /\ Here = "close"
  /\ IF stack = << >> THEN UNCHANGED <<stack, envelopes>>
     ELSE /\ stack' = Popped
          /\ envelopes' = IF IsEnvelope(Top) THEN envelopes \cup {Envelope(Top)} ELSE envelopes
  /\ i' = i + 1
  /\ UNCHANGED <<input, pc, kindsDone, in_string, escape_next, findings, rest, out>>

WalkOther ==
  /\ Walking /\ ~ in_string /\ Here \in {"quote", "backslash", "newline", "other"}
  /\ in_string' = (Here = "quote")
  /\ i' = i + 1
  /\ UNCHANGED <<input, pc, kindsDone, stack, escape_next, envelopes, findings, rest, out>>

TooDeep == Walking /\ ~ in_string /\ Here = "open" /\ Len(stack) >= MaxBraceDepth

\* The text is over or nests too deep: the closed envelopes are candidates.
WalkEnd ==
  /\ pc = "walking" /\ (i = Len(input.text) \/ TooDeep)
  /\ findings' = findings \cup envelopes
  /\ kindsDone' = kindsDone + 1
  /\ pc' = "collecting"
  /\ UNCHANGED <<input, walker, rest, out>>

-----------------------------------------------------------------------------
Rank(kind) == CHOOSE k \in 1 .. Len(ALL) : ALL[k] = kind

\* The order of the (stable) sort: by start, then longer first, then as
\* collected.
Before(f, g) ==
  \/ f.start < g.start
  \/ f.start = g.start /\ f.end > g.end
  \/ f.start = g.start /\ f.end = g.end /\ Rank(f.kind) < Rank(g.kind)

StartResolving ==
  /\ pc = "collecting" /\ kindsDone = Len(ALL)
  /\ rest' = findings
  /\ pc' = "resolving"
  /\ UNCHANGED <<input, kindsDone, walker, findings, out>>

LastEntry == out[Len(out)]

\* Mutations: an overlapping candidate is added instead of replacing; a
\* contained one replaces.
Added(f) == Append(out, f)
LastWins(f) == Append(SubSeq(out, 1, Len(out) - 1), f)

\* What becomes of the result when f overlaps its last entry.
Overlapping(f) ==
  IF f.end > LastEntry.end THEN Append(SubSeq(out, 1, Len(out) - 1), f) ELSE out

\* One iteration of the resolution loop: the next candidate in sort order.
Resolve ==
  /\ pc = "resolving"
  /\ \E f \in rest :
       /\ \A g \in rest \ {f} : Before(f, g)
       /\ rest' = rest \ {f}
       /\ out' = IF out = << >> \/ f.start >= LastEntry.end THEN Append(out, f) ELSE Overlapping(f)
  /\ UNCHANGED <<input, pc, kindsDone, walker, findings>>

ResolveEnd ==
  /\ pc = "resolving" /\ rest = {}
  /\ pc' = "done"
  /\ UNCHANGED <<input, kindsDone, walker, findings, rest, out>>

Next ==
  \/ Prefilter
  \/ CollectMatches
  \/ WalkStart
  \/ WalkInString \/ WalkMarker \/ WalkOpen \/ WalkClose \/ WalkOther
  \/ WalkEnd
  \/ StartResolving
  \/ Resolve
  \/ ResolveEnd

Spec == Init /\ [][Next]_vars
-----------------------------------------------------------------------------
InText(f) == f.start < f.end /\ f.end <= Len(input.text)

WalkerOK ==
  /\ i \in 0 .. Len(input.text)
  /\ stack \in Seq(Frame) /\ Len(stack) <= MaxBraceDepth
  /\ \A k \in 1 .. Len(stack) : stack[k].open < i
  /\ in_string \in BOOLEAN /\ escape_next \in BOOLEAN
  /\ envelopes \subseteq Finding /\ \A f \in envelopes : InText(f)

CandidatesOK ==
  /\ findings \subseteq Finding /\ rest \subseteq findings
  /\ \A f \in findings : InText(f)
  /\ out \in Seq(findings)

\* The state has the shape the code gives it, and every span can be sliced
\* out of the text.
TypeOK ==
  /\ IsInput(input)
  /\ pc \in {"prefilter", "collecting", "walking", "resolving", "done"}
  /\ kindsDone \in 0 .. Len(ALL) /\ (pc = "walking" => kindsDone < Len(ALL))
  /\ WalkerOK
  /\ CandidatesOK

\* detector.rs:59-60, "in ascending start order, with no overlaps": what
\* `substitute` relies on when it walks the text with one cursor.
IsAscending(fs) == \A k \in 1 .. Len(fs) - 1 : fs[k].end <= fs[k + 1].start

NoOverlaps == IsAscending(out)

Inside(f, g) == g.start <= f.start /\ f.end <= g.end

Nested(fs) == \A f, g \in fs : Separate(f, g) \/ Inside(f, g) \/ Inside(g, f)

\* The candidates that no other one beats.
Longest(fs) ==
  {f \in fs : \A g \in fs \ {f} : Inside(f, g) => Inside(g, f) /\ Rank(f.kind) < Rank(g.kind)}

\* detector.rs:62-68: when candidates have the same range or nest, the
\* longer one wins, the earlier one if they tie, and nothing is lost that
\* is not part of a winner.  So the walker's envelope beats the PEM key in
\* it, and an Anthropic key the OpenAI key in it.
NestedLongestWins ==
  pc = "done" /\ Nested(findings) =>
    {out[k] : k \in 1 .. Len(out)} = Longest(findings)

Length(f) == f.end - f.start

\* detector.rs:128, "keep the longest": a candidate only gives way to one
\* that is at least as long.
LongestKept ==
  pc = "done" =>
    \A f \in findings : \E k \in 1 .. Len(out) :
      ~ Separate(out[k], f) /\ Length(out[k]) >= Length(f)

\* The walker again, as a property of the whole text.  Where a string is open
\* after each token, and a backslash protects the next:
Outside == [in |-> FALSE, esc |-> FALSE]

AfterToken(s, token) ==
  LET quotes == CASE token = "quote"  -> IF s.esc THEN 0 ELSE 1
                  [] token = "marker" -> IF s.esc THEN 3 ELSE 4
                  [] OTHER            -> 0
  IN  [in  |-> IF quotes % 2 = 1 THEN ~ s.in ELSE s.in,
       esc |-> s.in /\ token = "backslash" /\ ~ s.esc]

StringState(text) ==
  LET state[j \in 0 .. Len(text)] ==
        IF j = 0 THEN Outside ELSE AfterToken(state[j - 1], text[j])
  IN  state

Quoted(text) == {j \in 1 .. Len(text) : StringState(text)[j - 1].in}

Count(text, what, a, b) == Cardinality({j \in a .. b : j \notin Quoted(text) /\ text[j] = what})
Depth(text, a, b) == Count(text, "open", a, b) - Count(text, "close", a, b)

\* The braces at a and b belong together.
Partners(text, a, b) ==
  /\ a < b /\ a \notin Quoted(text) /\ text[a] = "open"
  /\ Depth(text, a, b) = 0 /\ \A j \in a .. b - 1 : Depth(text, a, j) > 0

Unclosed(text, n) ==
  {a \in 1 .. n : /\ a \notin Quoted(text) /\ text[a] = "open"
                  /\ \A b \in 1 .. n : ~ Partners(text, a, b)}

\* The part of the text in front of the brace that nests too deep.
Walked(text) ==
  Max({n \in 0 .. Len(text) : \A j \in 0 .. n : Cardinality(Unclosed(text, j)) <= MaxBraceDepth})

\* The balanced pairs of braces, strings apart, in the first n tokens that
\* directly enclose a marker which is not quoted.
Enclosing(text, n) ==
  {ab \in (1 .. n) \X (1 .. n) :
     /\ Partners(text, ab[1], ab[2])
     /\ \E m \in ab[1] .. ab[2] :
          /\ m \notin Quoted(text) /\ text[m] = "marker"
          /\ \A c \in ab[1] + 1 .. m, d \in m .. ab[2] - 1 : ~ Partners(text, c, d)}

\* detector.rs:164-191: the envelopes are those, up to where the text nests
\* too deep.
EnvelopesMatchReference ==
  pc = "resolving" =>
    {f \in findings : f.kind = Gcp} =
      {[kind |-> Gcp, start |-> ab[1] - 1, end |-> ab[2]] :
         ab \in Enclosing(input.text, Walked(input.text))}

=============================================================================
