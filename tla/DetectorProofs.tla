--------------------------- MODULE DetectorProofs ---------------------------
(***************************************************************************)
(* Theorems about Detector and ScanCommand, for every list of kinds, every *)
(* input and every depth bound.                                            *)
(*                                                                         *)
(* The resolution loop: the candidates come in sort order, so whatever is  *)
(* taken starts no later than what is left; hence an entry can only        *)
(* collide with the last one of the result, and if the candidates nest it  *)
(* is contained in it.                                                     *)
(*                                                                         *)
(* The brace walker: its stack holds the braces that have no partner yet,  *)
(* in their order, each marked if a marker is directly inside of it, and   *)
(* the depth between them grows by one per entry.                          *)
(*                                                                         *)
(* The report: its table stays consistent, and lines and columns can be    *)
(* turned back into offsets.                                               *)
(***************************************************************************)
EXTENDS ScanCommand, Integers, SequencesExt, SequenceTheorems, FiniteSetTheorems, TLAPS

\* The shared lemmas; the table is that of the report.
Table == INSTANCE LibraryProofs WITH Text <- Seq(Token)

LEMMA TableAssumption == Table!SlugsDistinct
  BY ScanAssumption DEF Table!SlugsDistinct

\* The candidates the resolution has taken.
Taken == IF pc \in {"resolving", "done"} THEN findings \ rest ELSE {}

\* All entries of the result are apart, not only neighbours.
Apart == \A j, k \in 1 .. Len(out) : j < k => out[j].end <= out[k].start

\* What was taken sorts before what is left, and nothing else is in the result.
InOrder ==
  /\ \A f \in Taken : \A g \in rest : Before(f, g)
  /\ \A k \in 1 .. Len(out) : out[k] \in Taken
  /\ pc = "prefilter" => findings = {}
  /\ pc \in {"prefilter", "collecting", "walking"} => rest = {}
  /\ pc = "done" => rest = {}

\* If the candidates nest, what was taken is part of the result's entries ...
TakenCovered ==
  Nested(findings) => \A f \in Taken : \E k \in 1 .. Len(out) : Inside(f, out[k])

\* ... and none of those is beaten.
EntriesLongest ==
  Nested(findings) => \A k \in 1 .. Len(out) : out[k] \in Longest(Taken)

IInv == TypeOK /\ Apart /\ InOrder /\ TakenCovered /\ EntriesLongest

-----------------------------------------------------------------------------
\* A sequence without its last entry.
LEMMA ButLast ==
  ASSUME NEW S, NEW s \in Seq(S), s # << >>
  PROVE  /\ SubSeq(s, 1, Len(s) - 1) \in Seq(S)
         /\ Len(SubSeq(s, 1, Len(s) - 1)) = Len(s) - 1
         /\ \A k \in 1 .. Len(SubSeq(s, 1, Len(s) - 1)) : SubSeq(s, 1, Len(s) - 1)[k] = s[k]
  <1> DEFINE n == Len(s) - 1
  <1>1. n \in Nat
    OBVIOUS
  <1>2. \A k \in 1 .. n : s[k] \in S
    BY <1>1
  <1> HIDE DEF n
  <1>3. SubSeq(s, 1, n) \in Seq(S) /\ Len(SubSeq(s, 1, n)) = n
    BY <1>1, <1>2, SubSeqProperties
  <1>4. \A k \in 1 .. n : SubSeq(s, 1, n)[k] = s[k]
    BY <1>1, <1>2, SubSeqProperties
  <1> QED
    BY <1>3, <1>4 DEF n

LEMMA InitIInv == ASSUME Init PROVE IInv
  <1>1. IsInput(input)
    BY InputAssumption DEF Init
  <1>2. Len(input.text) \in Nat /\ Len(ALL) \in Nat /\ MaxBraceDepth \in Nat
    BY <1>1, KindAssumption DEF IsInput
  <1>3. \A S : << >> \in Seq(S) /\ Len(<< >>) = 0
    OBVIOUS
  <1>4. stack \in Seq(Frame) /\ Len(stack) = 0 /\ out \in Seq(findings)
    BY <1>3 DEF Init
  <1>5. TypeOK
    <2>1. /\ pc \in {"prefilter", "collecting", "walking", "resolving", "done"}
          /\ kindsDone \in 0 .. Len(ALL) /\ (pc = "walking" => kindsDone < Len(ALL))
          /\ i \in 0 .. Len(input.text)
      BY <1>2 DEF Init
    <2>2. Len(stack) <= MaxBraceDepth /\ \A k \in 1 .. Len(stack) : stack[k].open < i
      BY <1>2, <1>4
    <2>3. /\ in_string \in BOOLEAN /\ escape_next \in BOOLEAN
          /\ envelopes \subseteq Finding /\ \A f \in envelopes : InText(f)
          /\ findings \subseteq Finding /\ rest \subseteq findings /\ \A f \in findings : InText(f)
      BY DEF Init
    <2> QED
      BY <1>1, <1>4, <2>1, <2>2, <2>3 DEF TypeOK, WalkerOK, CandidatesOK
  <1>6. Apart /\ InOrder /\ TakenCovered /\ EntriesLongest
    BY DEF Init, Apart, InOrder, TakenCovered, EntriesLongest, Taken
  <1> QED
    BY <1>5, <1>6 DEF IInv

\* Steps that only concern the walker and the control flow before the
\* resolution leave the rest of the invariant alone.
LEMMA ResultUntouched ==
  ASSUME IInv, UNCHANGED <<findings, rest, out>>, pc' = pc \/ Taken' = Taken,
         pc' = "prefilter" => findings = {},
         pc' \in {"prefilter", "collecting", "walking"} => rest = {},
         pc' = "done" => rest = {}
  PROVE  Apart' /\ InOrder' /\ TakenCovered' /\ EntriesLongest'
  <1>1. Taken' = Taken
    BY DEF Taken
  <1> QED
    BY <1>1 DEF IInv, Apart, InOrder, TakenCovered, EntriesLongest, Before, Nested, Longest,
                Inside, Separate

\* Without a step of the walker, its part of the type invariant stays.
LEMMA WalkerUntouched ==
  ASSUME WalkerOK, UNCHANGED <<input, walker>>
  PROVE  WalkerOK'
  BY DEF WalkerOK, walker, InText

LEMMA CandidatesUntouched ==
  ASSUME CandidatesOK, UNCHANGED <<input, findings, rest, out>>
  PROVE  CandidatesOK'
  BY DEF CandidatesOK, InText

LEMMA StepPrefilter == ASSUME IInv, Prefilter PROVE IInv'
  <1>1. WalkerOK' /\ CandidatesOK'
    BY WalkerUntouched, CandidatesUntouched DEF IInv, TypeOK, Prefilter
  <1>2. TypeOK'
    BY <1>1 DEF IInv, TypeOK, Prefilter
  <1>3. rest = {} /\ findings = {}
    BY DEF IInv, InOrder, Prefilter
  <1>4. Taken' = Taken
    BY <1>3 DEF Taken, Prefilter
  <1>5. Apart' /\ InOrder' /\ TakenCovered' /\ EntriesLongest'
    BY <1>3, <1>4, ResultUntouched DEF Prefilter
  <1> QED
    BY <1>2, <1>5 DEF IInv

\* What candidates are collected: spans in the text.
LEMMA Collected ==
  ASSUME IInv, pc = "collecting" \/ pc = "walking", NEW new, new \subseteq Finding,
         \A f \in new : InText(f),
         findings' = findings \cup new, UNCHANGED <<input, rest, out>>,
         pc' \in {"collecting", "walking"}
  PROVE  CandidatesOK' /\ Apart' /\ InOrder' /\ TakenCovered' /\ EntriesLongest'
  <1>1. rest = {} /\ Taken = {} /\ Taken' = {}
    BY DEF IInv, InOrder, Taken
  <1>2. out \in Seq(findings) /\ Len(out) \in Nat
    BY DEF IInv, TypeOK, CandidatesOK
  <1>3. Len(out) = 0
    BY <1>1, <1>2 DEF IInv, InOrder
  <1>4. out' = << >> /\ Len(out') = 0
    BY <1>2, <1>3
  <1>5. out' \in Seq(findings')
    BY <1>4
  <1>6. CandidatesOK'
    BY <1>1, <1>5 DEF IInv, TypeOK, CandidatesOK, InText
  <1>7. Apart' /\ InOrder' /\ TakenCovered' /\ EntriesLongest'
    BY <1>1, <1>4 DEF Apart, InOrder, TakenCovered, EntriesLongest
  <1> QED
    BY <1>6, <1>7

LEMMA StepCollectMatches == ASSUME IInv, CollectMatches PROVE IInv'
  <1> DEFINE new == {[kind |-> NextKind, start |-> m.start, end |-> m.end] :
                       m \in {m \in input.matches[NextKind] : PassesGate(NextKind, m)}}
  <1>1. IsInput(input) /\ kindsDone \in Nat /\ kindsDone + 1 \in 1 .. Len(ALL)
    BY KindAssumption DEF IInv, TypeOK, CollectMatches
  <1>2. NextKind \in Kind
    BY <1>1 DEF NextKind, Kind
  <1>3. input.matches[NextKind] \subseteq Match
    BY <1>1, <1>2 DEF IsInput
  <1>4. new \subseteq Finding
    BY <1>2, <1>3 DEF Match, Finding
  <1>5. \A f \in new : InText(f)
    BY <1>1, <1>2 DEF IsInput, InText
  <1>6. findings' = findings \cup new
    BY DEF CollectMatches
  <1> HIDE DEF new
  <1>7. CandidatesOK' /\ Apart' /\ InOrder' /\ TakenCovered' /\ EntriesLongest'
    BY <1>4, <1>5, <1>6, Collected DEF CollectMatches
  <1>8. TypeOK'
    BY <1>1, <1>7, WalkerUntouched DEF IInv, TypeOK, CollectMatches
  <1> QED
    BY <1>7, <1>8 DEF IInv

LEMMA StepWalkStart == ASSUME IInv, WalkStart PROVE IInv'
  <1>1. WalkerOK' /\ CandidatesOK'
    BY WalkerUntouched, CandidatesUntouched DEF IInv, TypeOK, WalkStart
  <1>2. TypeOK'
    BY <1>1, KindAssumption DEF IInv, TypeOK, WalkStart
  <1>3. rest = {} /\ Taken = {} /\ Taken' = {} /\ pc' \in {"collecting", "walking"}
    BY DEF IInv, InOrder, Taken, WalkStart
  <1>4. Apart' /\ InOrder' /\ TakenCovered' /\ EntriesLongest'
    BY <1>3, ResultUntouched DEF WalkStart
  <1> QED
    BY <1>2, <1>4 DEF IInv

\* A step inside the walker that leaves WalkerOK intact.
LEMMA WalkerStep ==
  ASSUME IInv, WalkerOK', pc = "walking",
         UNCHANGED <<input, pc, kindsDone, findings, rest, out>>
  PROVE  IInv'
  <1>1. CandidatesOK'
    BY CandidatesUntouched DEF IInv, TypeOK
  <1>2. TypeOK'
    BY <1>1 DEF IInv, TypeOK
  <1>3. rest = {}
    BY DEF IInv, InOrder
  <1>4. Apart' /\ InOrder' /\ TakenCovered' /\ EntriesLongest'
    BY <1>3, ResultUntouched
  <1> QED
    BY <1>2, <1>4 DEF IInv

\* What a step of the walker needs to show.
LEMMA WalkerOKNext ==
  ASSUME IInv, pc = "walking", i < Len(input.text), i' = i + 1, input' = input,
         stack' \in Seq(Frame), Len(stack') <= MaxBraceDepth,
         \A k \in 1 .. Len(stack') : stack'[k].open < i + 1,
         in_string' \in BOOLEAN, escape_next' \in BOOLEAN,
         envelopes' \subseteq Finding, \A f \in envelopes' : InText(f),
         UNCHANGED <<pc, kindsDone, findings, rest, out>>
  PROVE  IInv'
  <1>1. i' \in 0 .. Len(input'.text)
    BY DEF IInv, TypeOK, WalkerOK, IsInput
  <1>2. \A f \in envelopes' : InText(f)'
    BY DEF InText
  <1>3. \A k \in 1 .. Len(stack') : stack'[k].open < i'
    OBVIOUS
  <1>4. WalkerOK'
    BY ONLY <1>1, <1>2, <1>3, stack' \in Seq(Frame),
            Len(stack') <= MaxBraceDepth, in_string' \in BOOLEAN, escape_next' \in BOOLEAN,
            envelopes' \subseteq Finding DEF WalkerOK
  <1> QED
    BY <1>4, WalkerStep

\* The facts every walker step starts from.
LEMMA WalkerFacts ==
  ASSUME IInv
  PROVE  /\ Len(stack) \in Nat /\ i \in Nat /\ Len(input.text) \in Nat
         /\ stack \in Seq(Frame) /\ Len(stack) <= MaxBraceDepth
         /\ MaxBraceDepth \in Nat
         /\ \A k \in 1 .. Len(stack) : stack[k].open \in Nat /\ stack[k].open < i
         /\ \A k \in 1 .. Len(stack) : stack[k].open < i + 1
         /\ in_string \in BOOLEAN /\ escape_next \in BOOLEAN
         /\ envelopes \subseteq Finding /\ \A f \in envelopes : InText(f)
  <1>1. Len(stack) \in Nat /\ i \in Nat /\ Len(input.text) \in Nat
    BY DEF IInv, TypeOK, WalkerOK, IsInput
  <1>2. \A k \in 1 .. Len(stack) : stack[k].open \in Nat /\ stack[k].open < i
    <2>1. stack \in Seq(Frame)
      BY DEF IInv, TypeOK, WalkerOK
    <2>2. \A f \in Frame : f.open \in Nat
      BY DEF Frame
    <2>3. \A k \in 1 .. Len(stack) : stack[k] \in Frame
      BY <2>1
    <2> QED
      BY <2>2, <2>3 DEF IInv, TypeOK, WalkerOK
  <1>3. \A k \in 1 .. Len(stack) : stack[k].open < i + 1
    BY <1>1, <1>2
  <1> QED
    BY <1>1, <1>2, <1>3, KindAssumption DEF IInv, TypeOK, WalkerOK

LEMMA StepWalkInString == ASSUME IInv, WalkInString PROVE IInv'
  <1>1. in_string' \in BOOLEAN /\ escape_next' \in BOOLEAN
    BY WalkerFacts DEF WalkInString
  <1>2. /\ i' = i + 1 /\ i < Len(input.text) /\ pc = "walking"
        /\ UNCHANGED <<input, pc, kindsDone, stack, envelopes, findings, rest, out>>
    BY DEF WalkInString, Walking
  <1> QED
    BY <1>1, <1>2, WalkerFacts, WalkerOKNext

LEMMA StepWalkOther == ASSUME IInv, WalkOther PROVE IInv'
  <1>1. in_string' \in BOOLEAN
    BY DEF WalkOther
  <1>2. /\ i' = i + 1 /\ i < Len(input.text) /\ pc = "walking"
        /\ UNCHANGED <<input, pc, kindsDone, stack, escape_next, envelopes, findings, rest, out>>
    BY DEF WalkOther, Walking
  <1> QED
    BY <1>1, <1>2, WalkerFacts, WalkerOKNext

LEMMA StepWalkMarker == ASSUME IInv, WalkMarker PROVE IInv'
  <1>1. /\ i' = i + 1 /\ i < Len(input.text) /\ pc = "walking"
        /\ UNCHANGED <<input, pc, kindsDone, in_string, escape_next, envelopes, findings, rest, out>>
    BY DEF WalkMarker, Walking
  <1>2. CASE stack = << >>
    <2>1. stack' = stack
      BY <1>2 DEF WalkMarker
    <2> QED
      BY <1>1, <2>1, WalkerFacts, WalkerOKNext
  <1>3. CASE stack # << >>
    <2>1. Len(stack) \in 1 .. Len(stack)
      BY <1>3, WalkerFacts
    <2>2. stack' = [stack EXCEPT ![Len(stack)].marked = TRUE]
      BY <1>3 DEF WalkMarker
    <2>3. stack' = [stack EXCEPT ![Len(stack)] = [Top EXCEPT !.marked = TRUE]]
      BY <2>2 DEF Top
    <2>4. Top \in Frame
      BY <2>1, WalkerFacts DEF Top
    <2>5. [Top EXCEPT !.marked = TRUE] \in Frame
      BY <2>4 DEF Frame
    <2>6. [Top EXCEPT !.marked = TRUE].open = stack[Len(stack)].open
      BY <2>4 DEF Top, Frame
    <2>7. stack' \in Seq(Frame) /\ Len(stack') = Len(stack)
      BY <2>1, <2>3, <2>5, WalkerFacts
    <2>8. \A k \in 1 .. Len(stack') : stack'[k].open < i + 1
      BY <2>1, <2>3, <2>6, <2>7, WalkerFacts
    <2> QED
      BY <1>1, <2>7, <2>8, WalkerFacts, WalkerOKNext
  <1> QED
    BY <1>2, <1>3

LEMMA StepWalkOpen == ASSUME IInv, WalkOpen PROVE IInv'
  <1>1. /\ i' = i + 1 /\ i < Len(input.text) /\ pc = "walking"
        /\ stack' = Append(stack, [open |-> i, marked |-> FALSE]) /\ Len(stack) < MaxBraceDepth
        /\ UNCHANGED <<input, pc, kindsDone, in_string, escape_next, envelopes, findings, rest, out>>
    BY DEF WalkOpen, Walking
  <1>2. [open |-> i, marked |-> FALSE] \in Frame
    BY WalkerFacts DEF Frame
  <1>3. /\ stack' \in Seq(Frame) /\ Len(stack') = Len(stack) + 1
        /\ \A k \in 1 .. Len(stack) : stack'[k] = stack[k]
        /\ stack'[Len(stack) + 1] = [open |-> i, marked |-> FALSE]
    BY <1>1, <1>2, WalkerFacts
  <1>4. stack'[Len(stack) + 1].open < i + 1
    BY <1>3, WalkerFacts
  <1>5. Len(stack') <= MaxBraceDepth /\ \A k \in 1 .. Len(stack') : stack'[k].open < i + 1
    BY <1>1, <1>3, <1>4, WalkerFacts
  <1> QED
    BY <1>1, <1>3, <1>5, WalkerFacts, WalkerOKNext

LEMMA StepWalkClose == ASSUME IInv, WalkClose PROVE IInv'
  <1>1. /\ i' = i + 1 /\ i < Len(input.text) /\ pc = "walking"
        /\ UNCHANGED <<input, pc, kindsDone, in_string, escape_next, findings, rest, out>>
    BY DEF WalkClose, Walking
  <1>2. CASE stack = << >>
    <2>1. stack' = stack /\ envelopes' = envelopes
      BY <1>2 DEF WalkClose
    <2> QED
      BY <1>1, <2>1, WalkerFacts, WalkerOKNext
  <1>3. CASE stack # << >>
    <2>1. Len(stack) \in 1 .. Len(stack)
      BY <1>3, WalkerFacts
    <2>2. Top.open \in Nat /\ Top.open < i
      BY <2>1, WalkerFacts DEF Top
    <2>3. Envelope(Top) \in Finding /\ InText(Envelope(Top))
      BY <1>1, <2>2, WalkerFacts, KindAssumption DEF Envelope, Finding, InText
    <2>4. stack' = SubSeq(stack, 1, Len(stack) - 1)
      BY <1>3 DEF WalkClose, Popped
    <2>5. /\ stack' \in Seq(Frame) /\ Len(stack') = Len(stack) - 1
          /\ \A k \in 1 .. Len(stack') : stack'[k] = stack[k]
      BY <2>4, <1>3, WalkerFacts, ButLast
    <2>6. Len(stack') <= MaxBraceDepth /\ \A k \in 1 .. Len(stack') : stack'[k].open < i + 1
      BY <2>1, <2>5, WalkerFacts
    <2>7. envelopes' \in {envelopes, envelopes \cup {Envelope(Top)}}
      BY <1>3 DEF WalkClose
    <2>8. envelopes' \subseteq Finding /\ \A f \in envelopes' : InText(f)
      BY <2>3, <2>7, WalkerFacts
    <2> QED
      BY <1>1, <2>5, <2>6, <2>8, WalkerFacts, WalkerOKNext
  <1> QED
    BY <1>2, <1>3

LEMMA StepWalkEnd == ASSUME IInv, WalkEnd PROVE IInv'
  <1>1. envelopes \subseteq Finding /\ \A f \in envelopes : InText(f)
    BY DEF IInv, TypeOK, WalkerOK
  <1>2. CandidatesOK' /\ Apart' /\ InOrder' /\ TakenCovered' /\ EntriesLongest'
    BY <1>1, Collected DEF WalkEnd
  <1>3. kindsDone' \in 0 .. Len(ALL)
    BY KindAssumption DEF IInv, TypeOK, WalkEnd
  <1>4. TypeOK'
    BY <1>2, <1>3, WalkerUntouched DEF IInv, TypeOK, WalkEnd
  <1> QED
    BY <1>2, <1>4 DEF IInv

LEMMA StepStartResolving == ASSUME IInv, StartResolving PROVE IInv'
  <1>1. rest = {} /\ Taken = {} /\ Taken' = {}
    BY DEF IInv, InOrder, Taken, StartResolving
  <1>2. WalkerOK'
    BY WalkerUntouched DEF IInv, TypeOK, StartResolving
  <1>3. TypeOK'
    BY <1>2 DEF IInv, TypeOK, CandidatesOK, StartResolving, InText
  <1>4. Apart' /\ InOrder' /\ TakenCovered' /\ EntriesLongest'
    BY <1>1 DEF IInv, Apart, InOrder, TakenCovered, EntriesLongest, StartResolving
  <1> QED
    BY <1>3, <1>4 DEF IInv

LEMMA StepResolveEnd == ASSUME IInv, ResolveEnd PROVE IInv'
  <1>1. WalkerOK' /\ CandidatesOK'
    BY WalkerUntouched, CandidatesUntouched DEF IInv, TypeOK, ResolveEnd
  <1>2. TypeOK'
    BY <1>1 DEF IInv, TypeOK, ResolveEnd
  <1>3. Taken' = Taken
    BY DEF Taken, ResolveEnd
  <1>4. Apart' /\ InOrder' /\ TakenCovered' /\ EntriesLongest'
    BY <1>3, ResultUntouched DEF ResolveEnd
  <1> QED
    BY <1>2, <1>4 DEF IInv

-----------------------------------------------------------------------------
\* Of two entries the first ends before the second begins, so the last one
\* ends last.
LEMMA LastEndsLast ==
  ASSUME IInv, NEW k \in 1 .. Len(out)
  PROVE  out # << >> /\ LastEntry \in findings /\ out[k].end <= LastEntry.end
  <1>1. out \in Seq(findings) /\ Len(out) \in Nat /\ findings \subseteq Finding
    BY DEF IInv, TypeOK, CandidatesOK
  <1>2. Len(out) \in 1 .. Len(out) /\ out # << >>
    BY <1>1
  <1>3. out[k] \in findings /\ LastEntry \in findings
    BY <1>1, <1>2 DEF LastEntry
  <1>4. /\ out[k].end \in Nat /\ LastEntry.start \in Nat /\ LastEntry.end \in Nat
        /\ LastEntry.start < LastEntry.end
    BY <1>1, <1>3 DEF Finding, IInv, TypeOK, CandidatesOK, InText
  <1>5. CASE k = Len(out)
    BY <1>2, <1>3, <1>4, <1>5 DEF LastEntry
  <1>6. CASE k # Len(out)
    <2>1. out[k].end <= LastEntry.start
      BY <1>2, <1>6 DEF LastEntry, IInv, Apart
    <2> QED
      BY <1>2, <1>3, <1>4, <2>1
  <1> QED
    BY <1>5, <1>6

\* The spans of candidates, as numbers.
LEMMA SpanOK ==
  ASSUME IInv, NEW f \in findings
  PROVE  f.start \in Nat /\ f.end \in Nat /\ f.start < f.end
  BY DEF IInv, TypeOK, CandidatesOK, Finding, InText

\* The part of the invariant that does not depend on the result.
LEMMA ResolveTakes ==
  ASSUME IInv, Resolve, NEW f \in rest, \A g \in rest \ {f} : Before(f, g), rest' = rest \ {f}
  PROVE  /\ Taken' = Taken \cup {f} /\ f \in findings /\ Taken \subseteq findings
         /\ \A t \in Taken : Before(t, f)
         /\ \A t \in Taken' : \A g \in rest' : Before(t, g)
  <1>1. rest \subseteq findings /\ findings' = findings /\ pc = "resolving" /\ pc' = pc
    BY DEF IInv, TypeOK, CandidatesOK, Resolve
  <1>2. Taken = findings \ rest /\ Taken' = findings \ rest'
    BY <1>1 DEF Taken
  <1>3. Taken' = Taken \cup {f} /\ f \in findings /\ Taken \subseteq findings
    BY <1>1, <1>2
  <1>4. \A t \in Taken : \A g \in rest : Before(t, g)
    BY DEF IInv, InOrder
  <1> QED
    BY <1>3, <1>4

\* An entry of the result starts no later than the next candidate.
LEMMA EntryFirst ==
  ASSUME IInv, NEW f \in findings, \A t \in Taken : Before(t, f),
         NEW k \in 1 .. Len(out)
  PROVE  out[k].start <= f.start
  <1>1. out[k] \in Taken /\ out[k] \in findings
    BY DEF IInv, InOrder, TypeOK, CandidatesOK
  <1> QED
    BY <1>1, SpanOK DEF Before

\* A candidate that is part of an entry cannot beat one ...
LEMMA NotBeaten ==
  ASSUME IInv, Nested(findings), NEW f \in findings, \A t \in Taken : Before(t, f),
         NEW k \in 1 .. Len(out)
  PROVE  out[k] \in Longest(Taken \cup {f})
  <1>1. out[k] \in Taken /\ out[k] \in Longest(Taken) /\ out[k] \in findings
    BY DEF IInv, InOrder, EntriesLongest, TypeOK, CandidatesOK
  <1>2. ASSUME Inside(out[k], f), f # out[k]
        PROVE  Inside(f, out[k]) /\ Rank(out[k].kind) < Rank(f.kind)
    <2>1. Before(out[k], f)
      BY <1>1
    <2> QED
      BY <1>1, <1>2, <2>1, SpanOK DEF Before, Inside
  <1> QED
    BY <1>1, <1>2 DEF Longest

\* ... and is covered.
LEMMA ContainedStep ==
  ASSUME IInv, Resolve, NEW f \in rest, \A g \in rest \ {f} : Before(f, g), rest' = rest \ {f},
         out' = out, NEW k \in 1 .. Len(out), Inside(f, out[k])
  PROVE  Apart' /\ InOrder' /\ TakenCovered' /\ EntriesLongest'
  <1>1. /\ Taken' = Taken \cup {f} /\ f \in findings /\ \A t \in Taken : Before(t, f)
        /\ \A t \in Taken' : \A g \in rest' : Before(t, g)
    BY ResolveTakes
  <1>2. findings' = findings /\ pc' = "resolving"
    BY DEF Resolve
  <1>3. Apart'
    BY DEF IInv, Apart
  <1>4. InOrder'
    <2>1. (\A t \in Taken : \A g \in rest : Before(t, g))'
      BY <1>1 DEF Before
    <2>2. (\A n \in 1 .. Len(out) : out[n] \in Taken)'
      BY <1>1 DEF IInv, InOrder
    <2> QED
      BY <1>2, <2>1, <2>2 DEF InOrder
  <1>5. TakenCovered'
    BY <1>1, <1>2 DEF IInv, TakenCovered, Nested, Inside, Separate
  <1>6. ASSUME Nested(findings), NEW n \in 1 .. Len(out)
        PROVE  out[n] \in Longest(Taken')
    BY <1>1, <1>6, NotBeaten
  <1>7. EntriesLongest'
    BY <1>2, <1>6 DEF EntriesLongest, Nested, Longest, Inside, Separate
  <1> QED
    BY <1>3, <1>4, <1>5, <1>7

\* A candidate behind all entries becomes an entry that nothing beats.
LEMMA AppendStep ==
  ASSUME IInv, Resolve, NEW f \in rest, \A g \in rest \ {f} : Before(f, g), rest' = rest \ {f},
         out' = Append(out, f), out = << >> \/ f.start >= LastEntry.end
  PROVE  Apart' /\ InOrder' /\ TakenCovered' /\ EntriesLongest'
  <1>1. /\ Taken' = Taken \cup {f} /\ f \in findings /\ \A t \in Taken : Before(t, f)
        /\ \A t \in Taken' : \A g \in rest' : Before(t, g)
        /\ Taken \subseteq findings
    BY ResolveTakes
  <1>2. findings' = findings /\ pc' = "resolving"
    BY DEF Resolve
  <1>3. /\ out \in Seq(findings) /\ Len(out) \in Nat /\ Len(out') = Len(out) + 1
        /\ out'[Len(out) + 1] = f /\ \A k \in 1 .. Len(out) : out'[k] = out[k]
        /\ \A k \in 1 .. Len(out) : out[k] \in findings
    BY <1>1 DEF IInv, TypeOK, CandidatesOK
  <1>4. \A k \in 1 .. Len(out) : out[k].end <= f.start
    <2>1. TAKE k \in 1 .. Len(out)
    <2>2. out # << >> /\ LastEntry \in findings /\ out[k].end <= LastEntry.end
      BY LastEndsLast
    <2> QED
      BY <1>1, <1>3, <2>2, SpanOK
  <1>5. Apart'
    <2>1. ASSUME NEW j \in 1 .. Len(out) + 1, NEW k \in 1 .. Len(out) + 1, j < k
          PROVE  out'[j].end <= out'[k].start
      <3>1. j \in 1 .. Len(out) /\ (k \in 1 .. Len(out) \/ k = Len(out) + 1)
        BY <1>3, <2>1
      <3> QED
        BY <1>3, <1>4, <2>1, <3>1 DEF IInv, Apart
    <2> QED
      BY <1>3, <2>1 DEF Apart
  <1>6. InOrder'
    <2>1. (\A t \in Taken : \A g \in rest : Before(t, g))'
      BY <1>1 DEF Before
    <2>2. \A n \in 1 .. Len(out) + 1 : out'[n] \in Taken'
      BY <1>1, <1>3 DEF IInv, InOrder
    <2> QED
      BY <1>2, <1>3, <2>1, <2>2 DEF InOrder
  <1>7. ASSUME Nested(findings)
        PROVE  \A t \in Taken' : \E k \in 1 .. Len(out') : Inside(t, out'[k])
    <2>1. ASSUME NEW t \in Taken
          PROVE  \E k \in 1 .. Len(out') : Inside(t, out'[k])
      <3>1. PICK k \in 1 .. Len(out) : Inside(t, out[k])
        BY <1>7 DEF IInv, TakenCovered
      <3> QED
        BY <1>3, <3>1
    <2>2. Inside(f, out'[Len(out) + 1]) /\ Len(out) + 1 \in 1 .. Len(out')
      BY <1>1, <1>3, SpanOK DEF Inside
    <2> QED
      BY <1>1, <2>1, <2>2
  <1>8. TakenCovered'
    BY <1>2, <1>7 DEF TakenCovered, Nested, Inside, Separate
  <1>9. ASSUME Nested(findings), NEW n \in 1 .. Len(out')
        PROVE  out'[n] \in Longest(Taken')
    <2>1. CASE n \in 1 .. Len(out)
      BY <1>1, <1>3, <1>9, <2>1, NotBeaten
    <2>2. CASE n = Len(out) + 1
      <3>1. ASSUME NEW t \in Taken, Inside(f, t)
            PROVE  FALSE
        <4>1. PICK k \in 1 .. Len(out) : Inside(t, out[k])
          BY <1>9 DEF IInv, TakenCovered
        <4>2. out[k].end <= f.start /\ t \in findings /\ out[k] \in findings
          BY <1>1, <1>3, <1>4
        <4> QED
          BY <1>1, <3>1, <4>1, <4>2, SpanOK DEF Inside
      <3> QED
        BY <1>1, <1>3, <2>2, <3>1 DEF Longest
    <2> QED
      BY <1>3, <2>1, <2>2
  <1>10. EntriesLongest'
    BY <1>2, <1>9 DEF EntriesLongest, Nested, Longest, Inside, Separate
  <1> QED
    BY <1>5, <1>6, <1>8, <1>10

\* A candidate that reaches past the last entry takes its place.  This never
\* happens to candidates that nest.
LEMMA ReplaceStep ==
  ASSUME IInv, Resolve, NEW f \in rest, \A g \in rest \ {f} : Before(f, g), rest' = rest \ {f},
         out' = Append(SubSeq(out, 1, Len(out) - 1), f),
         out # << >>, f.start < LastEntry.end, f.end > LastEntry.end
  PROVE  Apart' /\ InOrder' /\ TakenCovered' /\ EntriesLongest'
  <1>1. /\ Taken' = Taken \cup {f} /\ f \in findings /\ \A t \in Taken : Before(t, f)
        /\ \A t \in Taken' : \A g \in rest' : Before(t, g)
    BY ResolveTakes
  <1>2. findings' = findings /\ pc' = "resolving"
    BY DEF Resolve
  <1>3. out \in Seq(findings) /\ Len(out) \in 1 .. Len(out) /\ LastEntry \in findings
    BY DEF IInv, TypeOK, CandidatesOK, LastEntry
  <1>4. /\ Len(out') = Len(out) /\ out'[Len(out)] = f
        /\ \A k \in 1 .. Len(out) - 1 : out'[k] = out[k]
    BY <1>1, <1>3, ButLast
  <1>5. LastEntry.start <= f.start /\ LastEntry \in Taken
    BY <1>1, <1>3, EntryFirst DEF LastEntry, IInv, InOrder
  <1>6. ~ Nested(findings)
    <2>1. Before(LastEntry, f)
      BY <1>1, <1>5
    <2> QED
      BY <1>1, <1>3, <1>5, <2>1, SpanOK DEF Nested, Separate, Inside, Before
  <1>7. \A j \in 1 .. Len(out) - 1 : out[j].end <= f.start
    <2>1. TAKE j \in 1 .. Len(out) - 1
    <2>2. out[j].end <= LastEntry.start /\ out[j] \in findings
      BY <1>3 DEF IInv, Apart, LastEntry
    <2> QED
      BY <1>1, <1>3, <1>5, <2>2, SpanOK
  <1>8. Apart'
    <2>1. ASSUME NEW j \in 1 .. Len(out), NEW k \in 1 .. Len(out), j < k
          PROVE  out'[j].end <= out'[k].start
      <3>1. j \in 1 .. Len(out) - 1 /\ (k \in 1 .. Len(out) - 1 \/ k = Len(out))
        BY <1>3, <2>1
      <3> QED
        BY <1>4, <1>7, <2>1, <3>1 DEF IInv, Apart
    <2> QED
      BY <1>4, <2>1 DEF Apart
  <1>9. InOrder'
    <2>1. (\A t \in Taken : \A g \in rest : Before(t, g))'
      BY <1>1 DEF Before
    <2>2. \A n \in 1 .. Len(out) : out'[n] \in Taken'
      BY <1>1, <1>3, <1>4 DEF IInv, InOrder
    <2> QED
      BY <1>2, <1>4, <2>1, <2>2 DEF InOrder
  <1>10. TakenCovered' /\ EntriesLongest'
    BY <1>2, <1>6 DEF TakenCovered, EntriesLongest, Nested, Inside, Separate
  <1> QED
    BY <1>8, <1>9, <1>10

LEMMA StepResolve == ASSUME IInv, Resolve PROVE IInv'
  <1>1. PICK f \in rest :
          /\ \A g \in rest \ {f} : Before(f, g)
          /\ rest' = rest \ {f}
          /\ out' = IF out = << >> \/ f.start >= LastEntry.end THEN Append(out, f) ELSE Overlapping(f)
    BY DEF Resolve
  <1>2. /\ rest \subseteq findings /\ findings' = findings /\ out \in Seq(findings)
        /\ pc' = pc /\ kindsDone' = kindsDone /\ UNCHANGED <<input, walker>>
    BY DEF IInv, TypeOK, CandidatesOK, Resolve
  <1>3. out' \in Seq(findings) /\ Apart' /\ InOrder' /\ TakenCovered' /\ EntriesLongest'
    <2>1. CASE out = << >> \/ f.start >= LastEntry.end
      <3>1. out' = Append(out, f)
        BY <1>1, <2>1
      <3> QED
        BY <1>1, <1>2, <2>1, <3>1, AppendStep
    <2>2. CASE out # << >> /\ f.start < LastEntry.end /\ f.end > LastEntry.end
      <3>0. LastEntry \in findings
        BY <1>2, <2>2 DEF LastEntry
      <3>1. out' = Append(SubSeq(out, 1, Len(out) - 1), f)
        BY <1>1, <1>2, <2>2, <3>0, SpanOK DEF Overlapping
      <3>2. SubSeq(out, 1, Len(out) - 1) \in Seq(findings)
        BY <1>2, <2>2, ButLast
      <3>3. out' \in Seq(findings)
        BY <1>2, <3>1, <3>2
      <3> QED
        BY <1>1, <2>2, <3>1, <3>3, ReplaceStep
    <2>3. CASE out # << >> /\ f.start < LastEntry.end /\ f.end <= LastEntry.end
      <3>1. Len(out) \in 1 .. Len(out) /\ LastEntry \in findings
        BY <1>2, <2>3 DEF LastEntry
      <3>2. out' = out
        BY <1>1, <1>2, <2>3, <3>1, SpanOK DEF Overlapping
      <3>3. \A t \in Taken : Before(t, f)
        BY <1>1, ResolveTakes
      <3>4. Inside(f, out[Len(out)])
        BY <1>2, <2>3, <3>1, <3>3, EntryFirst DEF LastEntry, Inside
      <3> QED
        BY <1>1, <1>2, <3>1, <3>2, <3>4, ContainedStep
    <2> QED
      <3>1. out = << >> \/ LastEntry \in findings
        BY <1>2 DEF LastEntry
      <3> QED
        BY <1>2, <2>1, <2>2, <2>3, <3>1, SpanOK
  <1>4. WalkerOK'
    BY <1>2, WalkerUntouched DEF IInv, TypeOK
  <1>5. CandidatesOK'
    BY <1>1, <1>2, <1>3 DEF IInv, TypeOK, CandidatesOK, Resolve, InText
  <1>6. TypeOK'
    BY <1>2, <1>4, <1>5 DEF IInv, TypeOK, Resolve
  <1> QED
    BY <1>3, <1>6 DEF IInv

LEMMA StepStutter == ASSUME IInv, UNCHANGED vars PROVE IInv'
  <1>1. TypeOK'
    BY WalkerUntouched, CandidatesUntouched DEF IInv, TypeOK, vars
  <1>2. Taken' = Taken
    BY DEF Taken, vars
  <1>3. Apart' /\ InOrder' /\ TakenCovered' /\ EntriesLongest'
    BY <1>2, ResultUntouched DEF IInv, InOrder, vars
  <1> QED
    BY <1>1, <1>3 DEF IInv

-----------------------------------------------------------------------------
\* The invariant holds in every state of every call.
THEOREM Invariance == Spec => []IInv
  <1>1. Init => IInv
    BY InitIInv
  <1>2. IInv /\ [Next]_vars => IInv'
    BY StepPrefilter, StepCollectMatches, StepWalkStart, StepWalkInString, StepWalkMarker,
       StepWalkOpen, StepWalkClose, StepWalkOther, StepWalkEnd, StepStartResolving,
       StepResolve, StepResolveEnd, StepStutter DEF Next
  <1> QED
    BY <1>1, <1>2, PTL DEF Spec

\* Type correctness; in particular every span of a candidate lies in the text,
\* so the slices that `scan` takes never go out of bounds.
THEOREM TypeCorrect == Spec => []TypeOK
  <1>1. IInv => TypeOK
    BY DEF IInv
  <1> QED
    BY <1>1, Invariance, PTL

\* What `scan` returns is ascending and free of overlaps, whatever the regular
\* expressions and the brace walker find.  `substitute` (module Redaction)
\* relies on it.
THEOREM NeverOverlaps == Spec => []NoOverlaps
  <1>1. IInv => NoOverlaps
    <2>1. SUFFICES ASSUME IInv, NEW k \in 1 .. Len(out) - 1
                   PROVE  out[k].end <= out[k + 1].start
      BY DEF NoOverlaps, IsAscending
    <2>2. out \in Seq(findings)
      BY <2>1 DEF IInv, TypeOK, CandidatesOK
    <2>3. k \in 1 .. Len(out) /\ k + 1 \in 1 .. Len(out) /\ k < k + 1
      BY <2>2
    <2> QED
      BY <2>1, <2>3 DEF IInv, Apart
  <1> QED
    BY <1>1, Invariance, PTL

\* Of candidates that have the same range or nest the longest wins, and no
\* other candidate is lost.
THEOREM LongestNestedWins == Spec => []NestedLongestWins
  <1>1. IInv => NestedLongestWins
    <2>1. SUFFICES ASSUME IInv, pc = "done", Nested(findings)
                   PROVE  {out[k] : k \in 1 .. Len(out)} = Longest(findings)
      BY DEF NestedLongestWins
    <2>2. Taken = findings
      BY <2>1 DEF IInv, InOrder, Taken
    <2>3. \A k \in 1 .. Len(out) : out[k] \in Longest(findings)
      BY <2>1, <2>2 DEF IInv, EntriesLongest
    <2>4. ASSUME NEW f \in Longest(findings)
          PROVE  \E k \in 1 .. Len(out) : f = out[k]
      <3>1. f \in findings
        BY DEF Longest
      <3>2. PICK k \in 1 .. Len(out) : Inside(f, out[k])
        BY <2>1, <2>2, <3>1 DEF IInv, TakenCovered
      <3>3. out[k] \in findings /\ out[k] \in Longest(findings)
        BY <2>3 DEF Longest
      <3>4. ASSUME f # out[k]
            PROVE  FALSE
        <4>1. Inside(out[k], f) /\ Rank(f.kind) < Rank(out[k].kind)
          BY <3>2, <3>3, <3>4 DEF Longest
        <4>2. Rank(out[k].kind) < Rank(f.kind)
          BY <3>1, <3>3, <3>4, <4>1 DEF Longest
        <4>3. Rank(f.kind) \in Int /\ Rank(out[k].kind) \in Int
          <5>1. f.kind \in Kind /\ out[k].kind \in Kind
            BY <2>1, <3>1, <3>3 DEF IInv, TypeOK, CandidatesOK, Finding
          <5>2. ASSUME NEW kind \in Kind
                PROVE  Rank(kind) \in 1 .. Len(ALL)
            <6>1. \E n \in 1 .. Len(ALL) : ALL[n] = kind
              BY DEF Kind
            <6> QED
              BY <6>1 DEF Rank
          <5> QED
            BY <5>1, <5>2, KindAssumption
        <4> QED
          BY <4>1, <4>2, <4>3
      <3> QED
        BY <3>4
    <2> QED
      BY <2>3, <2>4
  <1> QED
    BY <1>1, Invariance, PTL

-----------------------------------------------------------------------------
(***************************************************************************)
(* The brace walker.  Where strings are open:                              *)
(***************************************************************************)

State == [in : BOOLEAN, esc : BOOLEAN]

LEMMA AfterTokenType ==
  ASSUME NEW s \in State, NEW token
  PROVE  AfterToken(s, token) \in State
  BY DEF AfterToken, State

\* p is the state after each of the first n tokens.
IsReading(text, n, p) ==
  /\ p[0] = Outside
  /\ \A j \in 1 .. n : p[j] = AfterToken(p[j - 1], text[j])

LEMMA ReadingExists ==
  ASSUME NEW text, NEW n \in Nat
  PROVE  \E p \in [0 .. n -> State] : IsReading(text, n, p)
  <1> DEFINE T == {m \in Nat : \E p \in [0 .. m -> State] : IsReading(text, m, p)}
  <1>1. 0 \in T
    <2>1. ASSUME NEW p, p = [j \in 0 .. 0 |-> Outside]
          PROVE  p \in [0 .. 0 -> State] /\ IsReading(text, 0, p)
      BY <2>1 DEF IsReading, State, Outside
    <2> QED
      BY <2>1
  <1>2. ASSUME NEW m \in Nat, m \in T PROVE m + 1 \in T
    <2>1. PICK p \in [0 .. m -> State] : IsReading(text, m, p)
      BY <1>2
    <2>2. ASSUME NEW x, x = AfterToken(p[m], text[m + 1]),
                 NEW q, q = [j \in 0 .. m + 1 |-> IF j = m + 1 THEN x ELSE p[j]]
          PROVE  q \in [0 .. m + 1 -> State] /\ IsReading(text, m + 1, q)
      <3>1. x \in State
        BY <2>2, AfterTokenType
      <3>2. q \in [0 .. m + 1 -> State]
        BY ONLY <2>2, <3>1, p \in [0 .. m -> State], m \in Nat
      <3>3. q[0] = Outside
        BY ONLY <2>2, <2>1, m \in Nat DEF IsReading
      <3>4. ASSUME NEW j \in 1 .. m + 1
            PROVE  q[j] = AfterToken(q[j - 1], text[j])
        <4>1. CASE j = m + 1
          <5>1. q[j] = x /\ q[j - 1] = p[m]
            BY ONLY <2>2, <4>1, m \in Nat
          <5> QED
            BY ONLY <4>1, <5>1, <2>2
        <4>2. CASE j # m + 1
          <5>1. q[j] = p[j] /\ q[j - 1] = p[j - 1] /\ j \in 1 .. m
            BY ONLY <2>2, <4>2, m \in Nat, j \in 1 .. m + 1
          <5> QED
            BY ONLY <2>1, <5>1 DEF IsReading
        <4> QED
          BY <4>1, <4>2
      <3> QED
        BY <3>2, <3>3, <3>4 DEF IsReading
    <2>3. \E q \in [0 .. m + 1 -> State] : IsReading(text, m + 1, q)
      BY <2>2
    <2> QED
      BY <2>3
  <1> HIDE DEF T
  <1>3. n \in T
    BY <1>1, <1>2, Table!Induction, TableAssumption
  <1> QED
    BY <1>3 DEF T

LEMMA StringStateReads ==
  ASSUME NEW text \in Seq(Token)
  PROVE  /\ IsReading(text, Len(text), StringState(text))
         /\ \A j \in 0 .. Len(text) : StringState(text)[j] \in State
  <1> DEFINE Body(f) == [j \in 0 .. Len(text) |->
                           IF j = 0 THEN Outside ELSE AfterToken(f[j - 1], text[j])]
  <1>1. Len(text) \in Nat
    OBVIOUS
  <1>2. PICK p \in [0 .. Len(text) -> State] : IsReading(text, Len(text), p)
    BY <1>1, ReadingExists
  <1>3. p = Body(p)
    <2>1. \A j \in 0 .. Len(text) : p[j] = Body(p)[j]
      BY <1>1, <1>2 DEF IsReading
    <2> QED
      BY <2>1
  <1>4. StringState(text) = CHOOSE f : f = Body(f)
    BY DEF StringState
  <1>5. StringState(text) = Body(StringState(text))
    BY <1>3, <1>4
  <1>6. ASSUME NEW f, f = Body(f)
        PROVE  IsReading(text, Len(text), f)
    <2>1. f[0] = Outside /\ \A j \in 1 .. Len(text) : f[j] = AfterToken(f[j - 1], text[j])
      BY <1>1, <1>6
    <2> QED
      BY <2>1 DEF IsReading
  <1>7. IsReading(text, Len(text), StringState(text))
    BY <1>5, <1>6
  <1>8. \A j \in 0 .. Len(text) : StringState(text)[j] \in State
    <2> DEFINE T == {j \in Nat : j <= Len(text) => StringState(text)[j] \in State}
    <2>1. 0 \in T
      <3>1. Outside \in State
        BY DEF State, Outside
      <3>2. StringState(text)[0] \in State
        BY <1>7, <3>1 DEF IsReading
      <3> QED
        BY <3>2
    <2>2. ASSUME NEW j \in Nat, j \in T PROVE j + 1 \in T
      <3>1. SUFFICES ASSUME j + 1 <= Len(text) PROVE StringState(text)[j + 1] \in State
        OBVIOUS
      <3>2. j + 1 \in 1 .. Len(text) /\ (j + 1) - 1 = j /\ StringState(text)[j] \in State
        BY <1>1, <2>2, <3>1
      <3> QED
        BY <1>7, <3>2, AfterTokenType DEF IsReading
    <2> HIDE DEF T
    <2>3. Nat \subseteq T
      BY <2>1, <2>2, Table!Induction, TableAssumption
    <2> QED
      BY <1>1, <2>3 DEF T
  <1> QED
    BY <1>7, <1>8

\* Outside strings nothing is protected.
LEMMA OutsideUnescaped ==
  ASSUME NEW text \in Seq(Token), NEW j \in 0 .. Len(text), ~ StringState(text)[j].in
  PROVE  StringState(text)[j] = Outside
  <1>1. StringState(text)[j] \in State /\ IsReading(text, Len(text), StringState(text))
    BY StringStateReads
  <1>2. CASE j = 0
    BY <1>1, <1>2 DEF IsReading
  <1>3. CASE j # 0
    <2>1. j \in 1 .. Len(text) /\ j - 1 \in 0 .. Len(text)
      BY <1>3
    <2>2. StringState(text)[j] = AfterToken(StringState(text)[j - 1], text[j])
      BY <1>1, <2>1 DEF IsReading
    <2>3. StringState(text)[j - 1] \in State
      BY <2>1, StringStateReads
    <2>4. ASSUME NEW s \in State, NEW token, ~ AfterToken(s, token).in
          PROVE  AfterToken(s, token) = Outside
      <3>1. AfterToken(s, token) \in State
        BY AfterTokenType
      <3>2. AfterToken(s, token).esc = (s.in /\ token = "backslash" /\ ~ s.esc)
        BY DEF AfterToken
      <3>3. token = "backslash" => AfterToken(s, token).in = s.in
        BY DEF AfterToken
      <3>4. ~ AfterToken(s, token).esc
        BY <2>4, <3>2, <3>3
      <3>5. \A x \in State : ~ x.in /\ ~ x.esc => x = Outside
        BY DEF State, Outside
      <3> QED
        BY <2>4, <3>1, <3>4, <3>5
    <2> QED
      BY <2>2, <2>3, <2>4
  <1> QED
    BY <1>2, <1>3

-----------------------------------------------------------------------------
(* Counting braces.                                                        *)

Brace(text, what, j) == j \notin Quoted(text) /\ text[j] = what

\* What token j adds to the depth.
Delta(text, j) ==
  IF Brace(text, "open", j) THEN 1 ELSE IF Brace(text, "close", j) THEN - 1 ELSE 0

LEMMA CountFinite ==
  ASSUME NEW text, NEW what, NEW a \in Nat, NEW b \in Int
  PROVE  /\ IsFiniteSet({j \in a .. b : j \notin Quoted(text) /\ text[j] = what})
         /\ Count(text, what, a, b) \in Nat
  <1>1. IsFiniteSet(a .. b)
    BY FS_Interval
  <1>2. IsFiniteSet({j \in a .. b : j \notin Quoted(text) /\ text[j] = what})
    BY <1>1, FS_Subset
  <1> QED
    BY <1>2, FS_CardinalityType DEF Count

LEMMA CountStep ==
  ASSUME NEW text, NEW what, NEW a \in Nat, NEW b \in Int, a <= b + 1
  PROVE  Count(text, what, a, b + 1) =
           Count(text, what, a, b) + (IF Brace(text, what, b + 1) THEN 1 ELSE 0)
  <1> DEFINE S == {j \in a .. b : j \notin Quoted(text) /\ text[j] = what}
             T == {j \in a .. b + 1 : j \notin Quoted(text) /\ text[j] = what}
  <1>1. IsFiniteSet(S) /\ Cardinality(S) \in Nat
    BY CountFinite, FS_CardinalityType
  <1>2. b + 1 \notin S
    OBVIOUS
  <1>3. CASE Brace(text, what, b + 1)
    <2>1. T = S \cup {b + 1}
      BY <1>3 DEF Brace
    <2> HIDE DEF S, T
    <2>2. Cardinality(T) = Cardinality(S) + 1
      BY <1>1, <1>2, <2>1, FS_AddElement
    <2> QED
      BY <1>3, <2>2 DEF S, T, Count
  <1>4. CASE ~ Brace(text, what, b + 1)
    <2>1. T = S
      BY <1>4 DEF Brace
    <2> HIDE DEF S, T
    <2>2. Cardinality(T) = Cardinality(S) + 0
      BY <1>1, <2>1
    <2> QED
      BY <1>4, <2>2 DEF S, T, Count
  <1> QED
    BY <1>3, <1>4

LEMMA DepthType ==
  ASSUME NEW text, NEW a \in Nat, NEW b \in Int
  PROVE  Depth(text, a, b) \in Int
  <1>1. Count(text, "open", a, b) \in Nat /\ Count(text, "close", a, b) \in Nat
    BY CountFinite
  <1> QED
    BY <1>1 DEF Depth

LEMMA DepthStep ==
  ASSUME NEW text, NEW a \in Nat, NEW b \in Int, a <= b + 1
  PROVE  Depth(text, a, b + 1) = Depth(text, a, b) + Delta(text, b + 1)
  <1>1. /\ Count(text, "open", a, b) \in Nat /\ Count(text, "close", a, b) \in Nat
        /\ Count(text, "open", a, b + 1) =
             Count(text, "open", a, b) + (IF Brace(text, "open", b + 1) THEN 1 ELSE 0)
        /\ Count(text, "close", a, b + 1) =
             Count(text, "close", a, b) + (IF Brace(text, "close", b + 1) THEN 1 ELSE 0)
    BY CountFinite, CountStep
  <1>2. ~ (Brace(text, "open", b + 1) /\ Brace(text, "close", b + 1))
    BY DEF Brace
  <1> QED
    BY <1>1, <1>2 DEF Depth, Delta

LEMMA DepthNone ==
  ASSUME NEW text, NEW a \in Nat
  PROVE  Depth(text, a, a - 1) = 0
  <1>1. ASSUME NEW what PROVE Count(text, what, a, a - 1) = 0
    <2>1. {j \in a .. a - 1 : j \notin Quoted(text) /\ text[j] = what} = {}
      OBVIOUS
    <2> QED
      BY <2>1, FS_EmptySet DEF Count
  <1> QED
    BY <1>1 DEF Depth

\* The depth adds up.
LEMMA DepthJoins ==
  ASSUME NEW text, NEW a \in Nat, NEW c \in Nat, a <= c, NEW b \in Nat, c <= b + 1
  PROVE  Depth(text, a, b) = Depth(text, a, c - 1) + Depth(text, c, b)
  <1> DEFINE T == {n \in Nat : Depth(text, a, c - 1 + n) =
                                 Depth(text, a, c - 1) + Depth(text, c, c - 1 + n)}
  <1>1. 0 \in T
    <2>1. Depth(text, c, c - 1) = 0 /\ Depth(text, a, c - 1) \in Int
      BY DepthNone, DepthType
    <2>2. c - 1 + 0 = c - 1
      OBVIOUS
    <2> QED
      BY <2>1, <2>2
  <1>2. ASSUME NEW n \in Nat, n \in T PROVE n + 1 \in T
    <2>1. ASSUME NEW m, m = c - 1 + n
          PROVE  Depth(text, a, m + 1) = Depth(text, a, c - 1) + Depth(text, c, m + 1)
      <3>1. m \in Int /\ a <= m + 1 /\ c <= m + 1
        BY <2>1
      <3>2. /\ Depth(text, a, m + 1) = Depth(text, a, m) + Delta(text, m + 1)
            /\ Depth(text, c, m + 1) = Depth(text, c, m) + Delta(text, m + 1)
        BY <3>1, DepthStep
      <3>3. Depth(text, a, m) = Depth(text, a, c - 1) + Depth(text, c, m)
        BY <1>2, <2>1
      <3>4. /\ Depth(text, a, m) \in Int /\ Depth(text, a, c - 1) \in Int
            /\ Depth(text, c, m) \in Int /\ Delta(text, m + 1) \in Int
        BY <3>1, DepthType DEF Delta
      <3> QED
        BY ONLY <3>2, <3>3, <3>4
    <2>2. c - 1 + (n + 1) = (c - 1 + n) + 1
      OBVIOUS
    <2>3. Depth(text, a, c - 1 + (n + 1)) =
            Depth(text, a, c - 1) + Depth(text, c, c - 1 + (n + 1))
      BY <2>1, <2>2
    <2> QED
      BY <2>3
  <1> HIDE DEF T
  <1>3. Nat \subseteq T
    BY <1>1, <1>2, Table!Induction, TableAssumption
  <1>4. b + 1 - c \in Nat /\ c - 1 + (b + 1 - c) = b
    OBVIOUS
  <1>5. Depth(text, a, c - 1 + (b + 1 - c)) =
          Depth(text, a, c - 1) + Depth(text, c, c - 1 + (b + 1 - c))
    BY <1>3, <1>4 DEF T
  <1> QED
    BY <1>4, <1>5

-----------------------------------------------------------------------------
(* Pairs of braces.                                                        *)

LEMMA PartnerCloses ==
  ASSUME NEW text, NEW a \in Nat, NEW b \in Nat, Partners(text, a, b)
  PROVE  a < b /\ Brace(text, "open", a) /\ Brace(text, "close", b)
  <1>1. a < b /\ Brace(text, "open", a) /\ Depth(text, a, b) = 0
    BY DEF Partners, Brace
  <1>2. b - 1 \in a .. b - 1 /\ b - 1 \in Int /\ a <= (b - 1) + 1 /\ (b - 1) + 1 = b
    BY <1>1
  <1>3. Depth(text, a, b - 1) > 0
    BY <1>2 DEF Partners
  <1>4. Depth(text, a, b) = Depth(text, a, b - 1) + Delta(text, b)
    BY <1>2, DepthStep
  <1>5. Depth(text, a, b - 1) \in Int
    BY <1>2, DepthType
  <1>6. Delta(text, b) < 0
    BY <1>1, <1>3, <1>4, <1>5 DEF Delta
  <1> QED
    BY <1>1, <1>6 DEF Delta

LEMMA PartnerUnique ==
  ASSUME NEW text, NEW a \in Nat, NEW b \in Nat, NEW c \in Nat,
         Partners(text, a, b), Depth(text, a, c) = 0, a <= c, c <= b
  PROVE  c = b
  <1>1. SUFFICES ASSUME c # b PROVE FALSE
    OBVIOUS
  <1>2. c \in a .. b - 1
    BY <1>1
  <1> QED
    BY <1>2 DEF Partners

(***************************************************************************)
(* What the walker knows after n tokens.                                   *)
(***************************************************************************)

\* The brace of frame k.
At(st, k) == st[k].open + 1

Placed(text, n, st) ==
  /\ \A k \in 1 .. Len(st) : At(st, k) \in 1 .. n /\ Brace(text, "open", At(st, k))
  /\ \A j, k \in 1 .. Len(st) : j < k => At(st, j) < At(st, k)

\* Frame k encloses those above it, and no other brace that is open.
Deep(text, n, st) ==
  \A k \in 1 .. Len(st) :
    /\ Depth(text, At(st, k), n) = Len(st) - k + 1
    /\ \A j \in At(st, k) .. n : Depth(text, At(st, k), j) > 0

\* A brace that is not on the stack is closed.
Paired(text, n, st) ==
  \A a \in 1 .. n : Brace(text, "open", a) =>
    \/ \E k \in 1 .. Len(st) : a = At(st, k)
    \/ \E b \in 1 .. n : Partners(text, a, b)

\* One of the tokens a .. z is a marker that no pair within a + 1 .. n encloses.
Holds(text, n, a, z) ==
  \E m \in a .. z :
    /\ Brace(text, "marker", m)
    /\ \A c \in a + 1 .. m, d \in m .. n : ~ Partners(text, c, d)

Until(st, k, n) == IF k < Len(st) THEN At(st, k + 1) ELSE n

Marks(text, n, st) ==
  \A k \in 1 .. Len(st) : st[k].marked <=> Holds(text, n, At(st, k), Until(st, k, n))

Nest(text, n, st) ==
  /\ n \in 0 .. Len(text) /\ st \in Seq(Frame)
  /\ Placed(text, n, st) /\ Deep(text, n, st) /\ Paired(text, n, st) /\ Marks(text, n, st)

LEMMA NestFacts ==
  ASSUME NEW text \in Seq(Token), NEW n, NEW st, Nest(text, n, st)
  PROVE  /\ n \in Nat /\ Len(st) \in Nat /\ n <= Len(text) /\ Len(text) \in Nat
         /\ \A k \in 1 .. Len(st) : /\ At(st, k) \in 1 .. n /\ At(st, k) \in Nat
                                    /\ st[k].open \in Nat /\ st[k].marked \in BOOLEAN
  <1>1. n \in Nat /\ Len(st) \in Nat /\ n <= Len(text) /\ Len(text) \in Nat
    BY DEF Nest
  <1>2. ASSUME NEW k \in 1 .. Len(st)
        PROVE  /\ At(st, k) \in 1 .. n /\ At(st, k) \in Nat
               /\ st[k].open \in Nat /\ st[k].marked \in BOOLEAN
    <2>1. st[k] \in Frame
      BY DEF Nest
    <2>2. At(st, k) \in 1 .. n
      BY DEF Nest, Placed
    <2> QED
      BY <2>1, <2>2 DEF Frame
  <1> QED
    BY <1>1, <1>2

\* The stack is what is not closed.
LEMMA UnclosedIsStack ==
  ASSUME NEW text \in Seq(Token), NEW n, NEW st, Nest(text, n, st)
  PROVE  /\ Unclosed(text, n) = {At(st, k) : k \in 1 .. Len(st)}
         /\ Cardinality(Unclosed(text, n)) = Len(st)
  <1> DEFINE S == {At(st, k) : k \in 1 .. Len(st)}
  <1>1. n \in Nat /\ Len(st) \in Nat /\ \A k \in 1 .. Len(st) : At(st, k) \in 1 .. n
    BY NestFacts
  <1>2. ASSUME NEW a \in Unclosed(text, n) PROVE a \in S
    <2>1. a \in 1 .. n /\ Brace(text, "open", a) /\ \A b \in 1 .. n : ~ Partners(text, a, b)
      BY DEF Unclosed, Brace
    <2> QED
      BY <2>1 DEF Nest, Paired
  <1>3. ASSUME NEW a \in S PROVE a \in Unclosed(text, n)
    <2>1. PICK k \in 1 .. Len(st) : a = At(st, k)
      OBVIOUS
    <2>2. a \in 1 .. n /\ Brace(text, "open", a)
      BY <2>1 DEF Nest, Placed
    <2>3. ASSUME NEW b \in 1 .. n, Partners(text, a, b) PROVE FALSE
      <3>1. Depth(text, a, b) = 0 /\ a < b
        BY <2>3 DEF Partners
      <3>2. b \in At(st, k) .. n
        BY <1>1, <2>1, <2>2, <3>1
      <3> QED
        BY <2>1, <3>1, <3>2 DEF Nest, Deep
    <2> QED
      BY <2>2, <2>3 DEF Unclosed, Brace
  <1>4. Unclosed(text, n) = S
    BY <1>2, <1>3
  <1>5. Cardinality(S) = Len(st)
    <2> DEFINE f == [k \in 1 .. Len(st) |-> At(st, k)]
    <2>1. \A j, k \in 1 .. Len(st) : f[j] = f[k] => j = k
      <3>1. ASSUME NEW j \in 1 .. Len(st), NEW k \in 1 .. Len(st), j < k
            PROVE  At(st, j) < At(st, k) /\ At(st, j) \in Nat /\ At(st, k) \in Nat
        BY <1>1, <3>1 DEF Nest, Placed
      <3>2. \A j, k \in 1 .. Len(st) : At(st, j) = At(st, k) => j = k
        BY <1>1, <3>1
      <3> QED
        BY <3>2
    <2>2. f \in [1 .. Len(st) -> S] /\ \A a \in S : \E k \in 1 .. Len(st) : f[k] = a
      OBVIOUS
    <2>3. f \in Bijection(1 .. Len(st), S)
      BY <2>1, <2>2 DEF Bijection, Injection, Surjection, IsInjective
    <2>4. IsFiniteSet(1 .. Len(st)) /\ Cardinality(1 .. Len(st)) = Len(st)
      <3>1. 1 \in Int /\ Len(st) \in Int
        BY <1>1
      <3>2. IsFiniteSet(1 .. Len(st))
            /\ Cardinality(1 .. Len(st)) = IF 1 > Len(st) THEN 0 ELSE Len(st) - 1 + 1
        BY ONLY <3>1, FS_Interval
      <3> QED
        BY ONLY <1>1, <3>2
    <2> HIDE DEF S, f
    <2>5. ExistsBijection(1 .. Len(st), S)
      BY <2>3 DEF ExistsBijection
    <2> QED
      BY <2>4, <2>5, FS_Bijection
  <1> QED
    BY <1>4, <1>5

\* No pair ends where no string-free closing brace is.
LEMMA HoldsStill ==
  ASSUME NEW text, NEW n \in Nat, ~ Brace(text, "close", n + 1), NEW a \in Nat, NEW z \in 0 .. n + 1
  PROVE  Holds(text, n + 1, a, z) <=> Holds(text, n, a, z)
  <1>1. \A c \in Nat : ~ Partners(text, c, n + 1)
    BY PartnerCloses
  <1>2. ASSUME NEW m \in a .. z
        PROVE  (\A c \in a + 1 .. m, d \in m .. n + 1 : ~ Partners(text, c, d))
                 <=> (\A c \in a + 1 .. m, d \in m .. n : ~ Partners(text, c, d))
    <2>1. \A d \in m .. n + 1 : d = n + 1 \/ d \in m .. n
      OBVIOUS
    <2>2. \A d \in m .. n : d \in m .. n + 1
      OBVIOUS
    <2>3. \A c \in a + 1 .. m : c \in Nat
      OBVIOUS
    <2> QED
      BY <1>1, <2>1, <2>2, <2>3
  <1> QED
    BY <1>2 DEF Holds

\* One more token that may be the marker.
LEMMA HoldsMore ==
  ASSUME NEW text, NEW n \in Nat, NEW k \in Nat, NEW a \in Nat, a <= n + 1
  PROVE  Holds(text, k, a, n + 1) <=>
           \/ Holds(text, k, a, n)
           \/ /\ Brace(text, "marker", n + 1)
              /\ \A c \in a + 1 .. n + 1, d \in n + 1 .. k : ~ Partners(text, c, d)
  <1>1. \A m : m \in a .. n + 1 <=> m \in a .. n \/ m = n + 1
    OBVIOUS
  <1> QED
    BY <1>1 DEF Holds

LEMMA PairedStays ==
  ASSUME NEW text, NEW n \in Nat, NEW st, NEW a \in 1 .. n, Paired(text, n, st), Brace(text, "open", a)
  PROVE  \/ \E k \in 1 .. Len(st) : a = At(st, k)
         \/ \E b \in 1 .. n + 1 : Partners(text, a, b)
  <1>1. \A b \in 1 .. n : b \in 1 .. n + 1
    OBVIOUS
  <1> QED
    BY <1>1 DEF Paired

\* A token that is no brace.
LEMMA NestOther ==
  ASSUME NEW text \in Seq(Token), NEW n, NEW st, Nest(text, n, st), n < Len(text),
         ~ Brace(text, "open", n + 1), ~ Brace(text, "close", n + 1),
         NEW st2 \in Seq(Frame), Len(st2) = Len(st),
         \A k \in 1 .. Len(st) : st2[k].open = st[k].open,
         \A k \in 1 .. Len(st) :
           st2[k].marked <=> st[k].marked \/ (k = Len(st) /\ Brace(text, "marker", n + 1))
  PROVE  Nest(text, n + 1, st2)
  <1>1. /\ n \in Nat /\ Len(st) \in Nat /\ n + 1 \in 0 .. Len(text) /\ n \in Int /\ n + 1 \in Nat
        /\ \A k \in 1 .. Len(st) : /\ At(st, k) \in 1 .. n /\ At(st, k) \in Nat
                                   /\ At(st, k) \in 1 .. n + 1 /\ At(st, k) <= n + 1
    BY NestFacts
  <1>2. \A k \in 1 .. Len(st) : At(st2, k) = At(st, k)
    BY DEF At
  <1>3. Placed(text, n + 1, st2)
    BY <1>1, <1>2 DEF Nest, Placed
  <1>4. Delta(text, n + 1) = 0
    BY DEF Delta
  <1>5. Deep(text, n + 1, st2)
    <2>1. ASSUME NEW k \in 1 .. Len(st)
          PROVE  /\ Depth(text, At(st, k), n + 1) = Len(st) - k + 1
                 /\ \A j \in At(st, k) .. n + 1 : Depth(text, At(st, k), j) > 0
      <3>1. Depth(text, At(st, k), n) = Len(st) - k + 1
        BY DEF Nest, Deep
      <3>2. Depth(text, At(st, k), n + 1) = Depth(text, At(st, k), n) + Delta(text, n + 1)
        BY <1>1, DepthStep
      <3>3. Depth(text, At(st, k), n + 1) = Len(st) - k + 1
        BY <1>1, <1>4, <3>1, <3>2
      <3>4. ASSUME NEW j \in At(st, k) .. n + 1 PROVE Depth(text, At(st, k), j) > 0
        <4>1. CASE j = n + 1
          BY <1>1, <3>3, <4>1
        <4>2. CASE j # n + 1
          <5>1. j \in At(st, k) .. n
            BY <1>1, <4>2
          <5> QED
            BY <5>1 DEF Nest, Deep
        <4> QED
          BY <4>1, <4>2
      <3> QED
        BY <3>3, <3>4
    <2> QED
      BY <1>2, <2>1 DEF Deep
  <1>6. Paired(text, n + 1, st2)
    <2>1. ASSUME NEW a \in 1 .. n + 1, Brace(text, "open", a)
          PROVE  \/ \E k \in 1 .. Len(st) : a = At(st, k)
                 \/ \E b \in 1 .. n + 1 : Partners(text, a, b)
      <3>1. a \in 1 .. n
        BY <1>1, <2>1
      <3> QED
        BY <1>1, <2>1, <3>1, PairedStays DEF Nest
    <2> QED
      BY <1>2, <2>1 DEF Paired
  <1>7. Marks(text, n + 1, st2)
    <2>1. ASSUME NEW k \in 1 .. Len(st)
          PROVE  st2[k].marked <=> Holds(text, n + 1, At(st, k), Until(st, k, n + 1))
      <3>1. st[k].marked <=> Holds(text, n, At(st, k), Until(st, k, n))
        BY DEF Nest, Marks
      <3>2. CASE k < Len(st)
        <4>1. /\ Until(st, k, n) = At(st, k + 1) /\ Until(st, k, n + 1) = At(st, k + 1)
              /\ k + 1 \in 1 .. Len(st)
          BY <1>1, <3>2 DEF Until
        <4>2. At(st, k + 1) \in 0 .. n + 1
          BY <1>1, <4>1
        <4> QED
          BY <1>1, <3>1, <3>2, <4>1, <4>2, HoldsStill
      <3>3. CASE k = Len(st)
        <4>1. Until(st, k, n) = n /\ Until(st, k, n + 1) = n + 1
          BY <1>1, <3>3 DEF Until
        <4>2. Holds(text, n + 1, At(st, k), n) <=> Holds(text, n, At(st, k), n)
          BY <1>1, HoldsStill
        <4>3. \A c \in Nat : ~ Partners(text, c, n + 1)
          BY <1>1, PartnerCloses
        <4>4. \A c \in At(st, k) + 1 .. n + 1, d \in n + 1 .. n + 1 : ~ Partners(text, c, d)
          BY <1>1, <4>3
        <4>5. Holds(text, n + 1, At(st, k), n + 1)
                <=> Holds(text, n + 1, At(st, k), n) \/ Brace(text, "marker", n + 1)
          BY <1>1, <4>4, HoldsMore
        <4> QED
          BY <3>1, <3>3, <4>1, <4>2, <4>5
      <3> QED
        BY <1>1, <3>2, <3>3
    <2>2. \A k \in 1 .. Len(st) : Until(st2, k, n + 1) = Until(st, k, n + 1)
      BY <1>1, <1>2 DEF Until
    <2> QED
      BY <1>2, <2>1, <2>2 DEF Marks
  <1> QED
    BY <1>1, <1>3, <1>5, <1>6, <1>7 DEF Nest

\* An opening brace: a frame of its own.
LEMMA NestOpen ==
  ASSUME NEW text \in Seq(Token), NEW n, NEW st, Nest(text, n, st), n < Len(text),
         Brace(text, "open", n + 1),
         NEW st2 \in Seq(Frame), Len(st2) = Len(st) + 1,
         \A k \in 1 .. Len(st) : st2[k] = st[k],
         st2[Len(st) + 1].open = n, ~ st2[Len(st) + 1].marked
  PROVE  Nest(text, n + 1, st2)
  <1>1. /\ n \in Nat /\ Len(st) \in Nat /\ n + 1 \in 0 .. Len(text) /\ n \in Int /\ n + 1 \in Nat
        /\ \A k \in 1 .. Len(st) : /\ At(st, k) \in 1 .. n /\ At(st, k) \in Nat
                                   /\ At(st, k) \in 1 .. n + 1 /\ At(st, k) <= n + 1
    BY NestFacts
  <1>2. /\ \A k \in 1 .. Len(st) : At(st2, k) = At(st, k)
        /\ At(st2, Len(st) + 1) = n + 1
    BY DEF At
  <1>3. \A k \in 1 .. Len(st2) : k \in 1 .. Len(st) \/ k = Len(st) + 1
    BY <1>1
  <1>4. ~ Brace(text, "close", n + 1) /\ ~ Brace(text, "marker", n + 1)
    BY DEF Brace
  <1>5. Placed(text, n + 1, st2)
    <2>1. \A k \in 1 .. Len(st2) : At(st2, k) \in 1 .. n + 1 /\ Brace(text, "open", At(st2, k))
      BY <1>1, <1>2, <1>3 DEF Nest, Placed
    <2>2. ASSUME NEW j \in 1 .. Len(st2), NEW k \in 1 .. Len(st2), j < k
          PROVE  At(st2, j) < At(st2, k)
      <3>1. j \in 1 .. Len(st)
        BY <1>1, <2>2
      <3>2. CASE k \in 1 .. Len(st)
        BY <1>2, <2>2, <3>1, <3>2 DEF Nest, Placed
      <3>3. CASE k = Len(st) + 1
        BY <1>1, <1>2, <3>1, <3>3
      <3> QED
        BY <1>3, <3>2, <3>3
    <2> QED
      BY <2>1, <2>2 DEF Placed
  <1>6. Delta(text, n + 1) = 1
    BY DEF Delta
  <1>7. Deep(text, n + 1, st2)
    <2>1. ASSUME NEW k \in 1 .. Len(st)
          PROVE  /\ Depth(text, At(st, k), n + 1) = Len(st) + 1 - k + 1
                 /\ \A j \in At(st, k) .. n + 1 : Depth(text, At(st, k), j) > 0
      <3>1. Depth(text, At(st, k), n) = Len(st) - k + 1
        BY DEF Nest, Deep
      <3>2. Depth(text, At(st, k), n + 1) = Depth(text, At(st, k), n) + Delta(text, n + 1)
        BY <1>1, DepthStep
      <3>3. Depth(text, At(st, k), n + 1) = Len(st) + 1 - k + 1
        BY <1>1, <1>6, <3>1, <3>2
      <3>4. ASSUME NEW j \in At(st, k) .. n + 1 PROVE Depth(text, At(st, k), j) > 0
        <4>1. CASE j = n + 1
          BY <1>1, <3>3, <4>1
        <4>2. CASE j # n + 1
          <5>1. j \in At(st, k) .. n
            BY <1>1, <4>2
          <5> QED
            BY <5>1 DEF Nest, Deep
        <4> QED
          BY <4>1, <4>2
      <3> QED
        BY <3>3, <3>4
    <2>2. Depth(text, n + 1, n + 1) = 1
      <3>1. Depth(text, n + 1, (n + 1) - 1) = 0
        BY <1>1, DepthNone
      <3>2. (n + 1) - 1 = n
        BY <1>1
      <3>3. Depth(text, n + 1, n + 1) = Depth(text, n + 1, n) + Delta(text, n + 1)
        BY <1>1, DepthStep
      <3> QED
        BY <1>6, <3>1, <3>2, <3>3
    <2>3. ASSUME NEW k \in 1 .. Len(st2)
          PROVE  /\ Depth(text, At(st2, k), n + 1) = Len(st2) - k + 1
                 /\ \A j \in At(st2, k) .. n + 1 : Depth(text, At(st2, k), j) > 0
      <3>1. CASE k \in 1 .. Len(st)
        BY <1>2, <2>1, <3>1
      <3>2. CASE k = Len(st) + 1
        <4>1. At(st2, k) = n + 1 /\ \A j \in n + 1 .. n + 1 : j = n + 1
          BY <1>1, <1>2, <3>2
        <4>2. Len(st2) - k + 1 = 1
          BY <1>1, <3>2
        <4> QED
          BY <2>2, <4>1, <4>2
      <3> QED
        BY <1>3, <3>1, <3>2
    <2> QED
      BY <2>3 DEF Deep
  <1>8. Paired(text, n + 1, st2)
    <2>1. ASSUME NEW a \in 1 .. n + 1, Brace(text, "open", a)
          PROVE  \/ \E k \in 1 .. Len(st2) : a = At(st2, k)
                 \/ \E b \in 1 .. n + 1 : Partners(text, a, b)
      <3>1. CASE a = n + 1
        <4>1. Len(st) + 1 \in 1 .. Len(st2)
          BY <1>1
        <4> QED
          BY <1>2, <3>1, <4>1
      <3>2. CASE a # n + 1
        <4>1. a \in 1 .. n
          BY <1>1, <3>2
        <4>2. \A k \in 1 .. Len(st) : k \in 1 .. Len(st2)
          BY <1>1
        <4> QED
          BY <1>1, <1>2, <2>1, <4>1, <4>2, PairedStays DEF Nest
      <3> QED
        BY <3>1, <3>2
    <2> QED
      BY <2>1 DEF Paired
  <1>9. Marks(text, n + 1, st2)
    <2>1. ASSUME NEW k \in 1 .. Len(st)
          PROVE  st[k].marked <=> Holds(text, n + 1, At(st, k), Until(st2, k, n + 1))
      <3>1. st[k].marked <=> Holds(text, n, At(st, k), Until(st, k, n))
        BY DEF Nest, Marks
      <3>2. CASE k < Len(st)
        <4>1. /\ Until(st, k, n) = At(st, k + 1) /\ Until(st2, k, n + 1) = At(st, k + 1)
              /\ k + 1 \in 1 .. Len(st)
          BY <1>1, <1>2, <3>2 DEF Until
        <4>2. At(st, k + 1) \in 0 .. n + 1
          BY <1>1, <4>1
        <4> QED
          BY <1>1, <1>4, <3>1, <4>1, <4>2, HoldsStill
      <3>3. CASE k = Len(st)
        <4>1. Until(st, k, n) = n /\ Until(st2, k, n + 1) = n + 1
          BY <1>1, <1>2, <3>3 DEF Until
        <4>2. Holds(text, n + 1, At(st, k), n) <=> Holds(text, n, At(st, k), n)
          BY <1>1, <1>4, HoldsStill
        <4>3. Holds(text, n + 1, At(st, k), n + 1) <=> Holds(text, n + 1, At(st, k), n)
          BY <1>1, <1>4, HoldsMore
        <4> QED
          BY <3>1, <4>1, <4>2, <4>3
      <3> QED
        BY <1>1, <3>2, <3>3
    <2>2. ~ Holds(text, n + 1, n + 1, n + 1)
      <3>1. \A m \in n + 1 .. n + 1 : m = n + 1
        BY <1>1
      <3> QED
        BY <1>4, <3>1 DEF Holds
    <2>3. Until(st2, Len(st) + 1, n + 1) = n + 1
      BY <1>1 DEF Until
    <2>4. ASSUME NEW k \in 1 .. Len(st2)
          PROVE  st2[k].marked <=> Holds(text, n + 1, At(st2, k), Until(st2, k, n + 1))
      <3>1. CASE k \in 1 .. Len(st)
        BY <1>2, <2>1, <3>1
      <3>2. CASE k = Len(st) + 1
        BY <1>2, <2>2, <2>3, <3>2
      <3> QED
        BY <1>3, <3>1, <3>2
    <2> QED
      BY <2>4 DEF Marks
  <1> QED
    BY <1>1, <1>5, <1>7, <1>8, <1>9 DEF Nest

\* A closing brace is the partner of the innermost open one, and of no other.
LEMMA ClosesTop ==
  ASSUME NEW text \in Seq(Token), NEW n, NEW st, Nest(text, n, st), Brace(text, "close", n + 1)
  PROVE  /\ st # << >> => Partners(text, At(st, Len(st)), n + 1)
         /\ \A a \in Nat \ {0} : Partners(text, a, n + 1) => st # << >> /\ a = At(st, Len(st))
         /\ \A k \in 1 .. Len(st) : Depth(text, At(st, k), n + 1) = Len(st) - k
  <1>1. /\ n \in Nat /\ Len(st) \in Nat /\ n \in Int /\ n + 1 \in Nat
        /\ \A k \in 1 .. Len(st) : At(st, k) \in 1 .. n /\ At(st, k) \in Nat
    BY NestFacts
  <1>2. Delta(text, n + 1) = -1
    BY DEF Delta, Brace
  <1>3. ASSUME NEW k \in 1 .. Len(st)
        PROVE  Depth(text, At(st, k), n + 1) = Len(st) - k
    <2>1. Depth(text, At(st, k), n) = Len(st) - k + 1
      BY DEF Nest, Deep
    <2>2. Depth(text, At(st, k), n + 1) = Depth(text, At(st, k), n) + Delta(text, n + 1)
      BY <1>1, DepthStep
    <2> QED
      BY <1>1, <1>2, <2>1, <2>2
  <1>4. ASSUME st # << >>
        PROVE  Partners(text, At(st, Len(st)), n + 1)
    <2>1. Len(st) \in 1 .. Len(st)
      BY <1>1, <1>4, EmptySeq DEF Nest
    <2>2. At(st, Len(st)) < n + 1 /\ Brace(text, "open", At(st, Len(st)))
      BY <1>1, <2>1 DEF Nest, Placed
    <2>3. Depth(text, At(st, Len(st)), n + 1) = 0
      BY <1>1, <1>3, <2>1
    <2>4. \A j \in At(st, Len(st)) .. (n + 1) - 1 : Depth(text, At(st, Len(st)), j) > 0
      <3>1. (n + 1) - 1 = n
        BY <1>1
      <3> QED
        BY <2>1, <3>1 DEF Nest, Deep
    <2> QED
      BY <2>2, <2>3, <2>4 DEF Partners, Brace
  <1>5. ASSUME NEW a \in Nat \ {0}, Partners(text, a, n + 1)
        PROVE  st # << >> /\ a = At(st, Len(st))
    <2>1. a \in Nat /\ a \in 1 .. n /\ Brace(text, "open", a) /\ Depth(text, a, n + 1) = 0
      BY <1>1, <1>5 DEF Partners, Brace
    <2>2. ASSUME NEW b \in 1 .. n, Partners(text, a, b) PROVE FALSE
      <3>1. Depth(text, a, b) = 0 /\ a <= b /\ b <= n + 1 /\ b \in Nat
        BY <1>1, <2>1, <2>2 DEF Partners
      <3>2. b = n + 1
        BY <1>1, <1>5, <2>1, <3>1, PartnerUnique
      <3> QED
        BY <1>1, <3>2
    <2>3. PICK k \in 1 .. Len(st) : a = At(st, k)
      BY <2>1, <2>2 DEF Nest, Paired
    <2>4. Len(st) - k = 0
      BY <1>3, <2>1, <2>3
    <2> QED
      BY <1>1, <2>3, <2>4, EmptySeq
  <1> QED
    BY <1>3, <1>4, <1>5

\* A closing brace takes the innermost frame away.
LEMMA NestClose ==
  ASSUME NEW text \in Seq(Token), NEW n, NEW st, Nest(text, n, st), n < Len(text),
         Brace(text, "close", n + 1),
         NEW st2 \in Seq(Frame), Len(st2) = IF st = << >> THEN 0 ELSE Len(st) - 1,
         \A k \in 1 .. Len(st2) : st2[k] = st[k]
  PROVE  Nest(text, n + 1, st2)
  <1>1. /\ n \in Nat /\ Len(st) \in Nat /\ n + 1 \in 0 .. Len(text) /\ n \in Int /\ n + 1 \in Nat
        /\ \A k \in 1 .. Len(st) : /\ At(st, k) \in 1 .. n /\ At(st, k) \in Nat
                                   /\ At(st, k) \in 1 .. n + 1 /\ At(st, k) <= n + 1
    BY NestFacts
  <1>2. /\ Len(st2) \in Nat /\ Len(st2) <= Len(st)
        /\ \A k \in 1 .. Len(st2) : k \in 1 .. Len(st) /\ At(st2, k) = At(st, k)
    <2>1. st # << >> => Len(st) # 0
      BY EmptySeq DEF Nest
    <2> QED
      BY <1>1, <2>1 DEF At
  <1>3. ~ Brace(text, "open", n + 1) /\ ~ Brace(text, "marker", n + 1)
    BY DEF Brace
  <1>4. Placed(text, n + 1, st2)
    BY <1>1, <1>2 DEF Nest, Placed
  <1>5. st # << >> => Len(st) \in 1 .. Len(st) /\ Len(st2) = Len(st) - 1
    BY <1>1, EmptySeq DEF Nest
  <1>6. Deep(text, n + 1, st2)
    <2>1. ASSUME NEW k \in 1 .. Len(st2)
          PROVE  /\ Depth(text, At(st, k), n + 1) = Len(st2) - k + 1
                 /\ \A j \in At(st, k) .. n + 1 : Depth(text, At(st, k), j) > 0
      <3>1. st # << >> /\ Len(st2) = Len(st) - 1
        BY <1>2, <1>5, <2>1
      <3>2. Depth(text, At(st, k), n + 1) = Len(st) - k
        BY <1>2, ClosesTop
      <3>3. Depth(text, At(st, k), n + 1) = Len(st2) - k + 1
        BY <1>1, <3>1, <3>2
      <3>4. ASSUME NEW j \in At(st, k) .. n + 1 PROVE Depth(text, At(st, k), j) > 0
        <4>1. CASE j = n + 1
          BY <1>2, <3>3, <4>1
        <4>2. CASE j # n + 1
          <5>1. j \in At(st, k) .. n
            BY <1>1, <1>2, <4>2
          <5> QED
            BY <1>2, <5>1 DEF Nest, Deep
        <4> QED
          BY <4>1, <4>2
      <3> QED
        BY <3>3, <3>4
    <2> QED
      BY <1>2, <2>1 DEF Deep
  <1>7. Paired(text, n + 1, st2)
    <2>1. ASSUME NEW a \in 1 .. n + 1, Brace(text, "open", a)
          PROVE  \/ \E k \in 1 .. Len(st2) : a = At(st2, k)
                 \/ \E b \in 1 .. n + 1 : Partners(text, a, b)
      <3>1. a \in 1 .. n
        BY <1>1, <1>3, <2>1
      <3>2. CASE \E b \in 1 .. n + 1 : Partners(text, a, b)
        BY <3>2
      <3>3. ASSUME NEW k \in 1 .. Len(st), a = At(st, k)
            PROVE  \/ \E j \in 1 .. Len(st2) : a = At(st2, j)
                   \/ \E b \in 1 .. n + 1 : Partners(text, a, b)
        <4>1. st # << >>
          BY <3>3, <1>1
        <4>2. CASE k = Len(st)
          <5>1. n + 1 \in 1 .. n + 1
            BY <1>1
          <5> QED
            BY <3>3, <4>1, <4>2, <5>1, ClosesTop
        <4>3. CASE k # Len(st)
          <5>1. k \in 1 .. Len(st2)
            BY <1>1, <1>5, <4>1, <4>3
          <5> QED
            BY <1>2, <3>3, <5>1
        <4> QED
          BY <4>2, <4>3
      <3> QED
        BY <1>1, <2>1, <3>1, <3>2, <3>3, PairedStays DEF Nest
    <2> QED
      BY <2>1 DEF Paired
  <1>8. Marks(text, n + 1, st2)
    <2>1. ASSUME NEW k \in 1 .. Len(st2)
          PROVE  st[k].marked <=> Holds(text, n + 1, At(st, k), Until(st2, k, n + 1))
      <3>1. st # << >> /\ Len(st2) = Len(st) - 1 /\ Len(st) \in 1 .. Len(st) /\ k \in 1 .. Len(st)
        BY <1>2, <1>5, <2>1
      <3> DEFINE a == At(st, k)
                 p == At(st, Len(st))
                 z == At(st, k + 1)
      <3>2. k + 1 \in 1 .. Len(st) /\ k < Len(st)
        BY <1>1, <3>1, <2>1
      <3>3. a \in Nat /\ p \in 1 .. n /\ p \in Nat /\ z \in 1 .. n /\ a < p /\ a < z /\ z <= p
        <4>1. a < p /\ a < z
          BY <1>1, <3>1, <3>2 DEF Nest, Placed
        <4>2. k + 1 = Len(st) \/ k + 1 < Len(st)
          BY <1>1, <3>2
        <4>3. z <= p
          BY <1>1, <3>1, <3>2, <4>2 DEF Nest, Placed
        <4> QED
          BY <1>1, <3>1, <3>2, <4>1, <4>3
      <3>4. st[k].marked <=> Holds(text, n, a, z)
        <4>1. Until(st, k, n) = z
          BY <3>2 DEF Until
        <4> QED
          BY <3>1, <4>1 DEF Nest, Marks
      <3>5. Partners(text, p, n + 1) /\ \A c \in Nat \ {0} : Partners(text, c, n + 1) => c = p
        BY <3>1, ClosesTop
      <3>6. ~ Brace(text, "marker", p)
        BY <3>1 DEF Nest, Placed, Brace
      <3> HIDE DEF a, p, z
      <3>7. Holds(text, n + 1, a, z) <=> Holds(text, n, a, z)
        <4>1. ASSUME NEW m \in a .. z, Brace(text, "marker", m)
              PROVE  (\A c \in a + 1 .. m, d \in m .. n + 1 : ~ Partners(text, c, d))
                       <=> (\A c \in a + 1 .. m, d \in m .. n : ~ Partners(text, c, d))
          <5>1. m # p /\ m < p
            BY <3>3, <3>6, <4>1
          <5>2. \A c \in a + 1 .. m : c \in Nat \ {0} /\ c # p
            BY <3>3, <5>1
          <5>3. \A d \in m .. n + 1 : d = n + 1 \/ d \in m .. n
            BY <1>1, <3>3
          <5>4. \A d \in m .. n : d \in m .. n + 1
            BY <1>1, <3>3
          <5> QED
            BY <3>5, <5>2, <5>3, <5>4
        <4> QED
          BY <4>1 DEF Holds
      <3>8. CASE k < Len(st2)
        <4>1. k + 1 \in 1 .. Len(st2)
          BY <1>2, <3>8
        <4>2. Until(st2, k, n + 1) = z
          BY <1>2, <3>8, <4>1 DEF Until, z
        <4> QED
          BY <3>4, <3>7, <4>2 DEF a
      <3>9. CASE k = Len(st2)
        <4>1. Until(st2, k, n + 1) = n + 1
          BY <1>2, <3>9 DEF Until
        <4>2. z = p
          <5>1. k + 1 = Len(st)
            BY <1>1, <3>1, <3>9
          <5> QED
            BY <5>1 DEF z, p
        <4>3. ASSUME NEW m \in a .. n + 1, Brace(text, "marker", m),
                     \A c \in a + 1 .. m, d \in m .. n + 1 : ~ Partners(text, c, d)
              PROVE  m \in a .. z
          <5>1. SUFFICES ASSUME m > p PROVE FALSE
            BY <1>1, <3>3, <4>2
          <5>2. p \in a + 1 .. m /\ n + 1 \in m .. n + 1
            BY <1>1, <3>3, <5>1
          <5> QED
            BY <3>5, <4>3, <5>2
        <4>4. \A m \in a .. z : m \in a .. n + 1
          BY <1>1, <3>3
        <4>5. Holds(text, n + 1, a, n + 1) <=> Holds(text, n + 1, a, z)
          BY <4>3, <4>4 DEF Holds
        <4> QED
          BY <3>4, <3>7, <4>1, <4>5 DEF a
      <3> QED
        BY <1>2, <3>8, <3>9
    <2> QED
      BY <1>2, <2>1 DEF Marks
  <1> QED
    BY <1>1, <1>4, <1>6, <1>7, <1>8 DEF Nest

(***************************************************************************)
(* The envelopes.                                                          *)
(***************************************************************************)

Spans(pairs) == {[kind |-> Gcp, start |-> ab[1] - 1, end |-> ab[2]] : ab \in pairs}

\* Without a closing brace there is no new pair.
LEMMA EnclosingStays ==
  ASSUME NEW text, NEW n \in Nat, ~ Brace(text, "close", n + 1)
  PROVE  Enclosing(text, n + 1) = Enclosing(text, n)
  <1>1. ASSUME NEW a \in 1 .. n + 1, NEW b \in 1 .. n + 1, Partners(text, a, b)
        PROVE  a \in 1 .. n /\ b \in 1 .. n
    <2>1. a \in Nat /\ b \in Nat
      OBVIOUS
    <2>2. a < b /\ Brace(text, "close", b)
      BY <1>1, <2>1, PartnerCloses
    <2>3. b # n + 1
      BY <2>2
    <2> QED
      BY <2>2, <2>3
  <1>2. \A a \in 1 .. n : a \in 1 .. n + 1
    OBVIOUS
  <1> QED
    BY <1>1, <1>2 DEF Enclosing

\* With one, the pair of the innermost open brace, if it is marked.
LEMMA EnclosingGrows ==
  ASSUME NEW text \in Seq(Token), NEW n, NEW st, Nest(text, n, st), n < Len(text),
         Brace(text, "close", n + 1)
  PROVE  Enclosing(text, n + 1) =
           Enclosing(text, n) \cup
             {ab \in {<<At(st, Len(st)), n + 1>>} : st # << >> /\ st[Len(st)].marked}
  <1> DEFINE p == At(st, Len(st))
             Direct(a, b) == \E m \in a .. b :
                               /\ m \notin Quoted(text) /\ text[m] = "marker"
                               /\ \A c \in a + 1 .. m, d \in m .. b - 1 : ~ Partners(text, c, d)
  <1>1. /\ n \in Nat /\ Len(st) \in Nat
        /\ \A k \in 1 .. Len(st) : At(st, k) \in 1 .. n /\ At(st, k) \in Nat
    BY NestFacts
  <1>2. st # << >> => Len(st) \in 1 .. Len(st)
    BY <1>1, EmptySeq DEF Nest
  <1>3. \A a \in 1 .. n + 1 : Partners(text, a, n + 1) <=> st # << >> /\ a = p
    <2>1. \A a \in 1 .. n + 1 : a \in Nat \ {0}
      BY <1>1
    <2> QED
      BY <2>1, ClosesTop
  <1>4. st # << >> => (st[Len(st)].marked <=> Direct(p, n + 1))
    <2>1. SUFFICES ASSUME st # << >> PROVE st[Len(st)].marked <=> Direct(p, n + 1)
      OBVIOUS
    <2>2. st[Len(st)].marked <=> Holds(text, n, p, n)
      <3>1. Until(st, Len(st), n) = n
        BY <1>1 DEF Until
      <3> QED
        BY <1>2, <2>1, <3>1 DEF Nest, Marks
    <2>3. Holds(text, n, p, n + 1) <=> Holds(text, n, p, n)
      <3>1. ~ Brace(text, "marker", n + 1)
        BY DEF Brace
      <3>2. p \in Nat /\ p <= n + 1
        BY <1>1, <1>2, <2>1
      <3> HIDE DEF p
      <3> QED
        BY <1>1, <3>1, <3>2, HoldsMore
    <2>4. (n + 1) - 1 = n
      BY <1>1
    <2>5. Holds(text, n, p, n + 1) <=> Direct(p, n + 1)
      BY <2>4 DEF Holds, Brace
    <2> QED
      BY <2>2, <2>3, <2>5
  <1>5. \A k : Enclosing(text, k) =
               {ab \in (1 .. k) \X (1 .. k) : Partners(text, ab[1], ab[2]) /\ Direct(ab[1], ab[2])}
    BY DEF Enclosing
  <1>6. st # << >> => p \in 1 .. n
    BY <1>1, <1>2
  <1> HIDE DEF p, Direct
  <1>7. ASSUME NEW a \in 1 .. n + 1, NEW b \in 1 .. n + 1
        PROVE  <<a, b>> \in Enclosing(text, n + 1) <=>
                 <<a, b>> \in Enclosing(text, n) \/ (st # << >> /\ st[Len(st)].marked /\ a = p /\ b = n + 1)
    <2>1. CASE b = n + 1
      <3>1. b \notin 1 .. n
        BY <1>1, <2>1
      <3> QED
        BY <1>3, <1>4, <1>5, <2>1, <3>1
    <2>2. CASE b # n + 1
      <3>1. b \in 1 .. n
        BY <1>1, <2>2
      <3>2. Partners(text, a, b) => a \in 1 .. n
        BY <1>1, <3>1 DEF Partners
      <3> QED
        BY <1>5, <2>2, <3>1, <3>2
    <2> QED
      BY <2>1, <2>2
  <1>8. \A a \in 1 .. n : a \in 1 .. n + 1
    BY <1>1
  <1>9. n + 1 \in 1 .. n + 1
    BY <1>1
  <1>10. \A x \in Enclosing(text, n + 1) : x \in (1 .. n + 1) \X (1 .. n + 1)
    BY <1>5
  <1>11. \A x \in Enclosing(text, n) : x \in (1 .. n + 1) \X (1 .. n + 1)
    BY <1>5, <1>8
  <1>12. ASSUME NEW x
         PROVE  x \in Enclosing(text, n + 1) <=>
                  \/ x \in Enclosing(text, n)
                  \/ x = <<p, n + 1>> /\ st # << >> /\ st[Len(st)].marked
    <2>1. ASSUME x \in (1 .. n + 1) \X (1 .. n + 1)
          PROVE  x \in Enclosing(text, n + 1) <=>
                   \/ x \in Enclosing(text, n)
                   \/ x = <<p, n + 1>> /\ st # << >> /\ st[Len(st)].marked
      <3>1. PICK a \in 1 .. n + 1, b \in 1 .. n + 1 : x = <<a, b>>
        BY <2>1
      <3>2. x = <<p, n + 1>> <=> a = p /\ b = n + 1
        BY <3>1
      <3> QED
        BY <1>7, <3>1, <3>2
    <2>2. st # << >> => <<p, n + 1>> \in (1 .. n + 1) \X (1 .. n + 1)
      BY <1>6, <1>8, <1>9
    <2> QED
      BY <1>10, <1>11, <2>1, <2>2
  <1> QED
    BY <1>12 DEF p

(***************************************************************************)
(* How far the walker comes.                                               *)
(***************************************************************************)

Shallow(text, n) == \A j \in 0 .. n : Cardinality(Unclosed(text, j)) <= MaxBraceDepth

LEMMA WalkedIs ==
  ASSUME NEW text \in Seq(Token), NEW n, NEW st, Nest(text, n, st), Shallow(text, n),
         n < Len(text) => Brace(text, "open", n + 1) /\ Len(st) >= MaxBraceDepth
  PROVE  Walked(text) = n
  <1> DEFINE W == {k \in 0 .. Len(text) : Shallow(text, k)}
  <1>1. n \in Nat /\ Len(st) \in Nat /\ n \in 0 .. Len(text) /\ Len(text) \in Nat
        /\ MaxBraceDepth \in Nat
    BY NestFacts, KindAssumption DEF Nest
  <1>2. n \in W
    BY <1>1
  <1>3. ASSUME NEW k \in W PROVE k <= n
    <2>1. SUFFICES ASSUME k > n PROVE FALSE
      BY <1>1
    <2>2. n < Len(text) /\ n + 1 \in 0 .. k /\ Brace(text, "open", n + 1)
          /\ Len(st) >= MaxBraceDepth
      BY <1>1, <2>1
    <2>3. ASSUME NEW st2, st2 = Append(st, [open |-> n, marked |-> FALSE])
          PROVE  FALSE
      <3>1. st \in Seq(Frame) /\ [open |-> n, marked |-> FALSE] \in Frame
        BY <1>1 DEF Nest, Frame
      <3>2. /\ st2 \in Seq(Frame) /\ Len(st2) = Len(st) + 1
            /\ \A j \in 1 .. Len(st) : st2[j] = st[j]
            /\ st2[Len(st) + 1] = [open |-> n, marked |-> FALSE]
        BY <2>3, <3>1, AppendProperties
      <3>3. st2[Len(st) + 1].open = n /\ ~ st2[Len(st) + 1].marked
        BY <3>2
      <3>4. Nest(text, n + 1, st2)
        BY <2>2, <3>2, <3>3, NestOpen
      <3>5. Cardinality(Unclosed(text, n + 1)) = Len(st) + 1
        BY <3>2, <3>4, UnclosedIsStack
      <3>6. Cardinality(Unclosed(text, n + 1)) <= MaxBraceDepth
        BY <2>2 DEF Shallow
      <3> QED
        BY <1>1, <2>2, <3>5, <3>6
    <2> QED
      BY <2>3
  <1>4. Walked(text) = CHOOSE x \in W : \A y \in W : x >= y
    BY DEF Walked, Max, Shallow
  <1>5. \A x \in W : x \in Nat
    BY <1>1
  <1> HIDE DEF W
  <1>6. PICK x \in W : x = Walked(text) /\ \A y \in W : x >= y
    BY <1>1, <1>2, <1>3, <1>4, <1>5
  <1>7. x <= n /\ x >= n
    BY <1>2, <1>3, <1>6
  <1> QED
    BY <1>1, <1>5, <1>6, <1>7

\* At the beginning.
LEMMA NestStart ==
  ASSUME NEW text \in Seq(Token)
  PROVE  /\ Nest(text, 0, << >>) /\ Enclosing(text, 0) = {} /\ Shallow(text, 0)
         /\ Walked(text) \in 0 .. Len(text)
  <1>1. Len(text) \in Nat /\ MaxBraceDepth \in Nat /\ \A x : x \notin 1 .. 0
    BY KindAssumption
  <1>2. << >> \in Seq(Frame) /\ Len(<< >>) = 0
    BY EmptySeq
  <1>3. Nest(text, 0, << >>)
    BY <1>1, <1>2 DEF Nest, Placed, Deep, Paired, Marks
  <1>4. Enclosing(text, 0) = {}
    BY <1>1 DEF Enclosing
  <1>5. Shallow(text, 0)
    <2>1. Cardinality(Unclosed(text, 0)) = 0
      BY <1>2, <1>3, UnclosedIsStack
    <2> QED
      BY <1>1, <2>1 DEF Shallow
  <1>6. Walked(text) \in 0 .. Len(text)
    <2> DEFINE W == {k \in 0 .. Len(text) : Shallow(text, k)}
    <2>1. W \subseteq 0 .. Len(text) /\ W # {}
      BY <1>1, <1>5
    <2>2. Walked(text) = CHOOSE x \in W : \A y \in W : x >= y
      BY DEF Walked, Max, Shallow
    <2> HIDE DEF W
    <2>3. \E x \in W : \A y \in W : y <= x
      BY <1>1, <2>1, Table!GreatestMember, TableAssumption
    <2>4. \E x \in W : \A y \in W : x >= y
      BY <1>1, <2>1, <2>3
    <2> QED
      BY <2>1, <2>2, <2>4
  <1> QED
    BY <1>3, <1>4, <1>5, <1>6

\* Without a marker there is nothing to find.
LEMMA NoMarkerNoEnclosing ==
  ASSUME NEW text \in Seq(Token), NEW n \in 0 .. Len(text),
         \A j \in 1 .. Len(text) : text[j] # "marker"
  PROVE  Enclosing(text, n) = {}
  <1>1. ASSUME NEW ab \in (1 .. n) \X (1 .. n), NEW m \in ab[1] .. ab[2]
        PROVE  m \in 1 .. Len(text)
    OBVIOUS
  <1> QED
    BY <1>1 DEF Enclosing

(***************************************************************************)
(* The walker's steps.                                                     *)
(***************************************************************************)

\* A step of the reference, field by field.
LEMMA TokenRead ==
  ASSUME NEW s \in State, NEW token
  PROVE  /\ AfterToken(s, token).esc <=> s.in /\ token = "backslash" /\ ~ s.esc
         /\ token = "quote" => (AfterToken(s, token).in <=> IF s.esc THEN s.in ELSE ~ s.in)
         /\ token = "marker" => (AfterToken(s, token).in <=> IF s.esc THEN ~ s.in ELSE s.in)
         /\ token \notin {"quote", "marker"} => (AfterToken(s, token).in <=> s.in)
  <1>1. s.in \in BOOLEAN /\ s.esc \in BOOLEAN
    BY DEF State
  <1>2. 0 % 2 = 0 /\ 1 % 2 = 1 /\ 3 % 2 = 1 /\ 4 % 2 = 0
    OBVIOUS
  <1>3. AfterToken(s, token).esc <=> s.in /\ token = "backslash" /\ ~ s.esc
    BY <1>1 DEF AfterToken
  <1>4. ASSUME NEW q, q = CASE token = "quote"  -> IF s.esc THEN 0 ELSE 1
                            [] token = "marker" -> IF s.esc THEN 3 ELSE 4
                            [] OTHER            -> 0
        PROVE  AfterToken(s, token).in = IF q % 2 = 1 THEN ~ s.in ELSE s.in
    BY <1>4 DEF AfterToken
  <1>5. CASE token = "quote"
    <2>1. CASE s.esc
      <3>1. AfterToken(s, token).in = IF 0 % 2 = 1 THEN ~ s.in ELSE s.in
        BY <1>4, <1>5, <2>1
      <3>2. AfterToken(s, token).in = s.in
        BY ONLY <1>2, <3>1
      <3> QED
        BY <1>1, <1>3, <1>5, <2>1, <3>2
    <2>2. CASE ~ s.esc
      <3>1. AfterToken(s, token).in = IF 1 % 2 = 1 THEN ~ s.in ELSE s.in
        BY <1>4, <1>5, <2>2
      <3>2. AfterToken(s, token).in = ~ s.in
        BY ONLY <1>2, <3>1
      <3> QED
        BY <1>1, <1>3, <1>5, <2>2, <3>2
    <2> QED
      BY <2>1, <2>2
  <1>6. CASE token = "marker"
    <2>1. CASE s.esc
      <3>1. AfterToken(s, token).in = IF 3 % 2 = 1 THEN ~ s.in ELSE s.in
        BY <1>4, <1>6, <2>1
      <3>2. AfterToken(s, token).in = ~ s.in
        BY ONLY <1>2, <3>1
      <3> QED
        BY <1>1, <1>3, <1>6, <2>1, <3>2
    <2>2. CASE ~ s.esc
      <3>1. AfterToken(s, token).in = IF 4 % 2 = 1 THEN ~ s.in ELSE s.in
        BY <1>4, <1>6, <2>2
      <3>2. AfterToken(s, token).in = s.in
        BY ONLY <1>2, <3>1
      <3> QED
        BY <1>1, <1>3, <1>6, <2>2, <3>2
    <2> QED
      BY <2>1, <2>2
  <1>7. CASE token \notin {"quote", "marker"}
    <2>1. AfterToken(s, token).in = IF 0 % 2 = 1 THEN ~ s.in ELSE s.in
      BY <1>4, <1>7
    <2> QED
      BY <1>1, <1>2, <1>3, <1>7, <2>1
  <1> QED
    BY <1>5, <1>6, <1>7

\* What the next token is, and what it leaves.
LEMMA ReadStep ==
  ASSUME NEW text \in Seq(Token), NEW n \in Nat, n < Len(text),
         NEW s, s = StringState(text)[n], NEW u, u = StringState(text)[n + 1],
         NEW token, token = text[n + 1]
  PROVE  /\ \A what : Brace(text, what, n + 1) <=> ~ s.in /\ token = what
         /\ s \in State /\ u \in State
         /\ ~ s.in => /\ ~ s.esc
                      /\ u.in <=> token = "quote"
                      /\ ~ u.esc
         /\ s.in => /\ token = "quote" => (u.in <=> s.esc)
                    /\ token = "marker" => (u.in <=> ~ s.esc)
                    /\ token \notin {"quote", "marker"} => u.in
                    /\ u.esc <=> token = "backslash" /\ ~ s.esc
  <1>1. /\ n \in 0 .. Len(text) /\ n + 1 \in 1 .. Len(text) /\ (n + 1) - 1 = n
        /\ Len(text) \in Nat /\ n + 1 \in 0 .. Len(text)
    OBVIOUS
  <1>2. s \in State /\ u \in State /\ u = AfterToken(s, token)
    BY <1>1, StringStateReads DEF IsReading
  <1>3. \A what : Brace(text, what, n + 1) <=> ~ s.in /\ token = what
    BY <1>1 DEF Quoted, Brace
  <1>4. ~ s.in => ~ s.esc
    <2>1. ~ s.in => s = Outside
      BY <1>1, OutsideUnescaped
    <2> QED
      BY <2>1 DEF Outside
  <1>5. /\ u.esc <=> s.in /\ token = "backslash" /\ ~ s.esc
        /\ token = "quote" => (u.in <=> IF s.esc THEN s.in ELSE ~ s.in)
        /\ token = "marker" => (u.in <=> IF s.esc THEN ~ s.in ELSE s.in)
        /\ token \notin {"quote", "marker"} => (u.in <=> s.in)
    BY ONLY <1>2, TokenRead
  <1>6. s.in \in BOOLEAN /\ s.esc \in BOOLEAN /\ u.in \in BOOLEAN /\ u.esc \in BOOLEAN
    BY <1>2 DEF State
  <1>7. ASSUME ~ s.in
        PROVE  ~ s.esc /\ (u.in <=> token = "quote") /\ ~ u.esc
    BY ONLY <1>4, <1>5, <1>6, <1>7
  <1>8. ASSUME s.in
        PROVE  /\ token = "quote" => (u.in <=> s.esc)
               /\ token = "marker" => (u.in <=> ~ s.esc)
               /\ token \notin {"quote", "marker"} => u.in
               /\ u.esc <=> token = "backslash" /\ ~ s.esc
    BY ONLY <1>5, <1>6, <1>8
  <1> QED
    BY <1>2, <1>3, <1>7, <1>8

\* The invariant of the walker.
WalkInv ==
  /\ in_string = StringState(input.text)[i].in /\ escape_next = StringState(input.text)[i].esc
  /\ Nest(input.text, i, stack)
  /\ envelopes = Spans(Enclosing(input.text, i))
  /\ Shallow(input.text, i)

\* The kinds whose candidates are all collected include the walker's.
Passed == \E k \in 1 .. kindsDone : ALL[k] = Gcp

FoundGcp == {f \in findings : f.kind = Gcp}

\* No candidate of a kind that was collected is missing.
AllCollected ==
  /\ \A k \in 1 .. kindsDone : ALL[k] # Gcp =>
       \A m \in input.matches[ALL[k]] : PassesGate(ALL[k], m) =>
         [kind |-> ALL[k], start |-> m.start, end |-> m.end] \in findings
  /\ ~ Passed => WalkInv /\ FoundGcp = {}
  /\ Passed => FoundGcp = Spans(Enclosing(input.text, Walked(input.text)))
  /\ pc = "walking" => NextKind = Gcp
  /\ pc \in {"collecting", "walking", "resolving"} => input.keyword
  /\ pc \in {"resolving", "done"} => kindsDone = Len(ALL) \/ ~ input.keyword
  /\ Taken # {} => out # << >>

LEMMA WalkFacts ==
  ASSUME IInv, AllCollected
  PROVE  /\ input.text \in Seq(Token) /\ Len(input.text) \in Nat /\ i \in Nat /\ Len(ALL) \in Nat
         /\ kindsDone \in 0 .. Len(ALL) /\ kindsDone \in Nat
         /\ pc = "walking" => ~ Passed /\ WalkInv /\ FoundGcp = {}
         /\ stack \in Seq(Frame) /\ Len(stack) \in Nat /\ Len(stack) <= MaxBraceDepth
         /\ MaxBraceDepth \in Nat
         /\ pc \in {"prefilter", "collecting", "walking"} => Taken = {}
  <1>1. /\ input.text \in Seq(Token) /\ Len(input.text) \in Nat /\ i \in Nat /\ Len(ALL) \in Nat
        /\ kindsDone \in 0 .. Len(ALL) /\ kindsDone \in Nat
        /\ pc = "walking" => kindsDone < Len(ALL)
    BY WalkerFacts, KindAssumption DEF IInv, TypeOK, IsInput
  <1>2. pc = "walking" => ~ Passed
    <2>1. SUFFICES ASSUME pc = "walking", NEW k \in 1 .. kindsDone, ALL[k] = Gcp PROVE FALSE
      BY DEF Passed
    <2>2. k \in 1 .. Len(ALL) /\ kindsDone + 1 \in 1 .. Len(ALL) /\ k # kindsDone + 1
      BY <1>1, <2>1
    <2>3. ALL[kindsDone + 1] = Gcp
      BY <2>1 DEF AllCollected, NextKind
    <2> QED
      BY <2>1, <2>2, <2>3, KindAssumption
  <1>3. pc \in {"prefilter", "collecting", "walking"} => Taken = {}
    BY DEF Taken
  <1> QED
    BY <1>1, <1>2, <1>3, WalkerFacts DEF AllCollected

\* What a step of the walker has to show.
LEMMA WalkInvNext ==
  ASSUME IInv, AllCollected, pc = "walking", i < Len(input.text), i' = i + 1,
         UNCHANGED <<input, pc, kindsDone, findings, rest, out>>,
         in_string' = StringState(input.text)[i + 1].in,
         escape_next' = StringState(input.text)[i + 1].esc,
         Nest(input.text, i + 1, stack'),
         envelopes' = Spans(Enclosing(input.text, i + 1)),
         Len(stack') <= MaxBraceDepth
  PROVE  AllCollected'
  <1>1. Shallow(input.text, i + 1)
    <2>1. Cardinality(Unclosed(input.text, i + 1)) <= MaxBraceDepth
      BY WalkFacts, UnclosedIsStack
    <2>2. \A j \in 0 .. i : Cardinality(Unclosed(input.text, j)) <= MaxBraceDepth
      BY WalkFacts DEF WalkInv, Shallow
    <2>3. \A j \in 0 .. i + 1 : j \in 0 .. i \/ j = i + 1
      BY WalkFacts
    <2> QED
      BY <2>1, <2>2, <2>3 DEF Shallow
  <1>2. WalkInv'
    BY <1>1 DEF WalkInv
  <1>3. Passed' = Passed /\ FoundGcp' = FoundGcp /\ Taken' = Taken /\ NextKind' = NextKind
    BY DEF Passed, FoundGcp, Taken, NextKind
  <1> QED
    BY <1>2, <1>3, WalkFacts DEF AllCollected, PassesGate

LEMMA FreshWalk ==
  ASSUME NEW text \in Seq(Token)
  PROVE  /\ StringState(text)[0].in = FALSE /\ StringState(text)[0].esc = FALSE
         /\ Spans(Enclosing(text, 0)) = {}
  <1>1. StringState(text)[0] = Outside
    BY StringStateReads DEF IsReading
  <1> QED
    BY <1>1, NestStart DEF Outside, Spans

LEMMA InitCollected == ASSUME Init, IInv PROVE AllCollected
  <1>1. input.text \in Seq(Token)
    BY DEF IInv, TypeOK, IsInput
  <1>2. WalkInv
    BY <1>1, FreshWalk, NestStart DEF Init, WalkInv
  <1>3. kindsDone = 0 /\ \A k : k \notin 1 .. kindsDone
    BY DEF Init
  <1>4. ~ Passed /\ FoundGcp = {} /\ Taken = {}
    BY <1>3 DEF Init, Passed, FoundGcp, Taken
  <1> QED
    BY <1>2, <1>3, <1>4 DEF Init, AllCollected

\* The states of the reference before and after the token the walker looks at.
LEMMA HereRead ==
  ASSUME IInv, AllCollected, Walking,
         NEW s, s = StringState(input.text)[i], NEW u, u = StringState(input.text)[i + 1]
  PROVE  /\ \A what : Brace(input.text, what, i + 1) <=> ~ s.in /\ Here = what
         /\ s.in = in_string /\ s.esc = escape_next /\ s \in State /\ u \in State
         /\ ~ s.in => /\ ~ s.esc
                      /\ u.in <=> Here = "quote"
                      /\ ~ u.esc
         /\ s.in => /\ Here = "quote" => (u.in <=> s.esc)
                    /\ Here = "marker" => (u.in <=> ~ s.esc)
                    /\ Here \notin {"quote", "marker"} => u.in
                    /\ u.esc <=> Here = "backslash" /\ ~ s.esc
  <1>1. input.text \in Seq(Token) /\ i \in Nat /\ i < Len(input.text)
    BY WalkFacts DEF Walking
  <1>2. s.in = in_string /\ s.esc = escape_next
    BY WalkFacts DEF Walking, WalkInv
  <1>3. Here = input.text[i + 1]
    BY DEF Here
  <1>4. ASSUME NEW text, text = input.text, NEW n, n = i, NEW token, token = Here
        PROVE  /\ \A what : Brace(text, what, n + 1) <=> ~ s.in /\ token = what
               /\ s \in State /\ u \in State
               /\ ~ s.in => /\ ~ s.esc
                            /\ u.in <=> token = "quote"
                            /\ ~ u.esc
               /\ s.in => /\ token = "quote" => (u.in <=> s.esc)
                          /\ token = "marker" => (u.in <=> ~ s.esc)
                          /\ token \notin {"quote", "marker"} => u.in
                          /\ u.esc <=> token = "backslash" /\ ~ s.esc
    <2>1. /\ text \in Seq(Token) /\ n \in Nat /\ n < Len(text) /\ token = text[n + 1]
          /\ s = StringState(text)[n] /\ u = StringState(text)[n + 1]
      BY <1>1, <1>3, <1>4
    <2> QED
      BY ONLY <2>1, ReadStep
  <1> QED
    BY <1>2, <1>4

\* Inside a string, and at tokens that are no brace.
LEMMA CollectedInString == ASSUME IInv, AllCollected, WalkInString PROVE AllCollected'
  <1>1. /\ pc = "walking" /\ i < Len(input.text) /\ in_string /\ i' = i + 1
        /\ in_string' = CASE Here = "quote"  -> escape_next
                          [] Here = "marker" -> ~ escape_next
                          [] OTHER           -> TRUE
        /\ escape_next' = (Here = "backslash" /\ ~ escape_next)
        /\ UNCHANGED <<input, pc, kindsDone, stack, envelopes, findings, rest, out>>
    BY DEF WalkInString, Walking
  <1>2. /\ in_string' = StringState(input.text)[i + 1].in
        /\ escape_next' = StringState(input.text)[i + 1].esc
        /\ \A what : ~ Brace(input.text, what, i + 1)
    <2>1. ASSUME NEW s, s = StringState(input.text)[i], NEW u, u = StringState(input.text)[i + 1]
          PROVE  /\ in_string' = u.in /\ escape_next' = u.esc
                 /\ \A what : ~ Brace(input.text, what, i + 1)
      <3>1. /\ \A what : Brace(input.text, what, i + 1) <=> ~ s.in /\ Here = what
            /\ s.in = in_string /\ s.esc = escape_next /\ s \in State /\ u \in State
            /\ s.in => /\ Here = "quote" => (u.in <=> s.esc)
                       /\ Here = "marker" => (u.in <=> ~ s.esc)
                       /\ Here \notin {"quote", "marker"} => u.in
                       /\ u.esc <=> Here = "backslash" /\ ~ s.esc
        BY <1>1, <2>1, HereRead DEF Walking
      <3>2. s.esc \in BOOLEAN /\ u.in \in BOOLEAN /\ u.esc \in BOOLEAN
        BY <3>1 DEF State
      <3>3. \A what : ~ Brace(input.text, what, i + 1)
        BY ONLY <1>1, <3>1
      <3>4. escape_next' = u.esc
        BY ONLY <1>1, <3>1, <3>2
      <3>5. CASE Here = "quote"
        BY ONLY <1>1, <3>1, <3>2, <3>3, <3>4, <3>5
      <3>6. CASE Here = "marker"
        BY ONLY <1>1, <3>1, <3>2, <3>3, <3>4, <3>6
      <3>7. CASE Here \notin {"quote", "marker"}
        BY ONLY <1>1, <3>1, <3>2, <3>3, <3>4, <3>7
      <3> QED
        BY <3>5, <3>6, <3>7
    <2> QED
      BY <2>1
  <1>3. Nest(input.text, i + 1, stack')
    BY <1>1, <1>2, WalkFacts, NestOther DEF WalkInv
  <1>4. envelopes' = Spans(Enclosing(input.text, i + 1))
    BY <1>1, <1>2, WalkFacts, EnclosingStays DEF WalkInv
  <1> QED
    BY <1>1, <1>2, <1>3, <1>4, WalkFacts, WalkInvNext

\* What is read outside of strings.
LEMMA OutsideRead ==
  ASSUME IInv, AllCollected, Walking, ~ in_string
  PROVE  /\ \A what : Brace(input.text, what, i + 1) <=> Here = what
         /\ escape_next = FALSE /\ in_string = FALSE
         /\ StringState(input.text)[i + 1].in = (Here = "quote")
         /\ StringState(input.text)[i + 1].esc = FALSE
  <1>1. ASSUME NEW s, s = StringState(input.text)[i], NEW u, u = StringState(input.text)[i + 1]
        PROVE  /\ \A what : Brace(input.text, what, i + 1) <=> Here = what
               /\ escape_next = FALSE /\ in_string = FALSE
               /\ u.in = (Here = "quote") /\ u.esc = FALSE
    <2>1. /\ \A what : Brace(input.text, what, i + 1) <=> ~ s.in /\ Here = what
          /\ s.in = in_string /\ s.esc = escape_next /\ s \in State /\ u \in State
          /\ ~ s.in => /\ ~ s.esc
                       /\ u.in <=> Here = "quote"
                       /\ ~ u.esc
      BY <1>1, HereRead
    <2>2. s.in \in BOOLEAN /\ s.esc \in BOOLEAN /\ u.in \in BOOLEAN /\ u.esc \in BOOLEAN
      BY <2>1 DEF State
    <2>3. ~ s.in
      BY <2>1
    <2>4. \A what : Brace(input.text, what, i + 1) <=> Here = what
      BY ONLY <2>1, <2>3
    <2>5. escape_next = FALSE /\ in_string = FALSE
      BY ONLY <2>1, <2>2, <2>3
    <2>6. u.in = (Here = "quote") /\ u.esc = FALSE
      BY ONLY <2>1, <2>2, <2>3
    <2> QED
      BY <2>4, <2>5, <2>6
  <1> QED
    BY <1>1

LEMMA CollectedOther == ASSUME IInv, AllCollected, WalkOther PROVE AllCollected'
  <1>1. /\ pc = "walking" /\ i < Len(input.text) /\ ~ in_string /\ i' = i + 1
        /\ Here \in {"quote", "backslash", "newline", "other"}
        /\ in_string' = (Here = "quote")
        /\ UNCHANGED <<input, pc, kindsDone, stack, escape_next, envelopes, findings, rest, out>>
    BY DEF WalkOther, Walking
  <1>2. /\ escape_next' = StringState(input.text)[i + 1].esc
        /\ in_string' = StringState(input.text)[i + 1].in
        /\ ~ Brace(input.text, "open", i + 1) /\ ~ Brace(input.text, "close", i + 1)
        /\ ~ Brace(input.text, "marker", i + 1)
    <2>1. Walking
      BY <1>1 DEF Walking
    <2>2. ~ Brace(input.text, "open", i + 1) /\ ~ Brace(input.text, "close", i + 1)
          /\ ~ Brace(input.text, "marker", i + 1)
      BY <1>1, <2>1, OutsideRead
    <2>3. escape_next = FALSE /\ StringState(input.text)[i + 1].esc = FALSE
          /\ StringState(input.text)[i + 1].in = (Here = "quote")
      BY <1>1, <2>1, OutsideRead
    <2> QED
      BY <1>1, <2>2, <2>3
  <1>3. Nest(input.text, i + 1, stack')
    BY <1>1, <1>2, WalkFacts, NestOther DEF WalkInv
  <1>4. envelopes' = Spans(Enclosing(input.text, i + 1))
    BY <1>1, <1>2, WalkFacts, EnclosingStays DEF WalkInv
  <1> QED
    BY <1>1, <1>2, <1>3, <1>4, WalkFacts, WalkInvNext

\* Tokens outside of strings that leave the flags alone.
LEMMA FlagsStay ==
  ASSUME IInv, AllCollected, Walking, ~ in_string, Here # "quote"
  PROVE  /\ in_string = StringState(input.text)[i + 1].in
         /\ escape_next = StringState(input.text)[i + 1].esc
  BY OutsideRead

LEMMA CollectedMarker == ASSUME IInv, IInv', AllCollected, WalkMarker PROVE AllCollected'
  <1>1. /\ pc = "walking" /\ i < Len(input.text) /\ ~ in_string /\ i' = i + 1 /\ Here = "marker"
        /\ Here # "quote" /\ Walking
        /\ stack' = IF stack = << >> THEN stack ELSE [stack EXCEPT ![Len(stack)].marked = TRUE]
        /\ UNCHANGED <<input, pc, kindsDone, in_string, escape_next, envelopes, findings, rest, out>>
    BY DEF WalkMarker, Walking
  <1>2. /\ ~ Brace(input.text, "open", i + 1) /\ ~ Brace(input.text, "close", i + 1)
        /\ Brace(input.text, "marker", i + 1)
    BY <1>1, OutsideRead
  <1>3. /\ in_string' = StringState(input.text)[i + 1].in
        /\ escape_next' = StringState(input.text)[i + 1].esc
    BY <1>1, FlagsStay
  <1>4. stack' \in Seq(Frame) /\ stack \in Seq(Frame) /\ Len(stack') <= MaxBraceDepth
    BY WalkFacts DEF IInv, TypeOK, WalkerOK
  <1>5. /\ Len(stack') = Len(stack)
        /\ \A k \in 1 .. Len(stack) : stack'[k].open = stack[k].open
        /\ \A k \in 1 .. Len(stack) : stack'[k].marked <=> stack[k].marked \/ k = Len(stack)
    <2>1. CASE stack = << >>
      <3>1. Len(stack) = 0 /\ stack' = stack
        BY <1>1, <2>1, EmptySeq
      <3> QED
        BY <3>1
    <2>2. CASE stack # << >>
      <3>1. Len(stack) \in 1 .. Len(stack)
        BY <2>2, <1>4, EmptySeq, WalkFacts
      <3>2. Top \in Frame
        BY <1>4, <3>1 DEF Top
      <3>3. stack' = [stack EXCEPT ![Len(stack)] = [Top EXCEPT !.marked = TRUE]]
        BY <1>1, <2>2 DEF Top
      <3>4. /\ [Top EXCEPT !.marked = TRUE].open = Top.open
            /\ [Top EXCEPT !.marked = TRUE].marked = TRUE
        BY <3>2 DEF Frame
      <3>5. Len(stack') = Len(stack)
        BY <1>4, <3>3
      <3>6. /\ stack'[Len(stack)] = [Top EXCEPT !.marked = TRUE]
            /\ \A k \in 1 .. Len(stack) : k # Len(stack) => stack'[k] = stack[k]
        BY <1>4, <3>1, <3>3
      <3>7. \A k \in 1 .. Len(stack) : stack'[k].open = stack[k].open
        BY <3>4, <3>6 DEF Top
      <3>8. \A k \in 1 .. Len(stack) : stack'[k].marked <=> stack[k].marked \/ k = Len(stack)
        BY <3>4, <3>6
      <3> QED
        BY <3>5, <3>7, <3>8
    <2> QED
      BY <2>1, <2>2
  <1>6. Nest(input.text, i + 1, stack')
    BY <1>1, <1>2, <1>4, <1>5, WalkFacts, NestOther DEF WalkInv
  <1>7. envelopes' = Spans(Enclosing(input.text, i + 1))
    BY <1>1, <1>2, WalkFacts, EnclosingStays DEF WalkInv
  <1> QED
    BY <1>1, <1>3, <1>4, <1>6, <1>7, WalkInvNext

LEMMA CollectedOpen == ASSUME IInv, AllCollected, WalkOpen PROVE AllCollected'
  <1>1. /\ pc = "walking" /\ i < Len(input.text) /\ ~ in_string /\ i' = i + 1 /\ Here = "open"
        /\ Here # "quote" /\ Walking /\ Len(stack) < MaxBraceDepth
        /\ stack' = Append(stack, [open |-> i, marked |-> FALSE])
        /\ UNCHANGED <<input, pc, kindsDone, in_string, escape_next, envelopes, findings, rest, out>>
    BY DEF WalkOpen, Walking
  <1>2. Brace(input.text, "open", i + 1) /\ ~ Brace(input.text, "close", i + 1)
    BY <1>1, OutsideRead
  <1>3. /\ in_string' = StringState(input.text)[i + 1].in
        /\ escape_next' = StringState(input.text)[i + 1].esc
    BY <1>1, FlagsStay
  <1>4. stack \in Seq(Frame) /\ [open |-> i, marked |-> FALSE] \in Frame
    BY WalkFacts DEF Frame
  <1>5. /\ stack' \in Seq(Frame) /\ Len(stack') = Len(stack) + 1
        /\ \A k \in 1 .. Len(stack) : stack'[k] = stack[k]
        /\ stack'[Len(stack) + 1] = [open |-> i, marked |-> FALSE]
    BY <1>1, <1>4, AppendProperties
  <1>6. stack'[Len(stack) + 1].open = i /\ ~ stack'[Len(stack) + 1].marked
    BY <1>5
  <1>7. Nest(input.text, i + 1, stack')
    BY <1>1, <1>2, <1>5, <1>6, WalkFacts, NestOpen DEF WalkInv
  <1>8. envelopes' = Spans(Enclosing(input.text, i + 1))
    BY <1>1, <1>2, WalkFacts, EnclosingStays DEF WalkInv
  <1>9. Len(stack') <= MaxBraceDepth
    BY <1>1, <1>5, WalkFacts
  <1> QED
    BY <1>1, <1>3, <1>7, <1>8, <1>9, WalkInvNext

LEMMA CollectedClose == ASSUME IInv, AllCollected, WalkClose PROVE AllCollected'
  <1>1. /\ pc = "walking" /\ i < Len(input.text) /\ ~ in_string /\ i' = i + 1 /\ Here = "close"
        /\ Here # "quote" /\ Walking
        /\ UNCHANGED <<input, pc, kindsDone, in_string, escape_next, findings, rest, out>>
    BY DEF WalkClose, Walking
  <1>2. Brace(input.text, "close", i + 1)
    BY <1>1, OutsideRead
  <1>3. /\ in_string' = StringState(input.text)[i + 1].in
        /\ escape_next' = StringState(input.text)[i + 1].esc
    BY <1>1, FlagsStay
  <1>4. WalkInv /\ input.text \in Seq(Token)
    BY <1>1, WalkFacts
  <1>5. /\ stack' \in Seq(Frame) /\ Len(stack') <= Len(stack)
        /\ Len(stack') = IF stack = << >> THEN 0 ELSE Len(stack) - 1
        /\ \A k \in 1 .. Len(stack') : stack'[k] = stack[k]
    <2>1. CASE stack = << >>
      <3>1. stack' = stack
        BY <2>1 DEF WalkClose
      <3> QED
        BY <2>1, <3>1, EmptySeq, WalkFacts
    <2>2. CASE stack # << >>
      <3>1. stack' = SubSeq(stack, 1, Len(stack) - 1)
        BY <2>2 DEF WalkClose, Popped
      <3> QED
        BY <2>2, <3>1, WalkFacts, ButLast
    <2> QED
      BY <2>1, <2>2
  <1>6. Nest(input.text, i + 1, stack')
    BY <1>1, <1>2, <1>4, <1>5, NestClose DEF WalkInv
  <1>7. envelopes' = Spans(Enclosing(input.text, i + 1))
    <2> DEFINE p == At(stack, Len(stack))
               new == {ab \in {<<p, i + 1>>} : stack # << >> /\ stack[Len(stack)].marked}
    <2>1. Enclosing(input.text, i + 1) = Enclosing(input.text, i) \cup new
      BY <1>1, <1>2, <1>4, EnclosingGrows DEF WalkInv
    <2>2. Spans(Enclosing(input.text, i + 1)) = Spans(Enclosing(input.text, i)) \cup Spans(new)
      BY <2>1 DEF Spans
    <2>3. envelopes = Spans(Enclosing(input.text, i))
      BY <1>4 DEF WalkInv
    <2>4. CASE stack = << >>
      <3>1. envelopes' = envelopes /\ new = {}
        BY <2>4 DEF WalkClose
      <3>2. Spans(new) = {}
        BY <3>1 DEF Spans
      <3> QED
        BY <2>2, <2>3, <3>1, <3>2
    <2>5. CASE stack # << >> /\ ~ stack[Len(stack)].marked
      <3>1. envelopes' = envelopes /\ new = {}
        BY <2>5 DEF WalkClose, IsEnvelope, Top
      <3>2. Spans(new) = {}
        BY <3>1 DEF Spans
      <3> QED
        BY <2>2, <2>3, <3>1, <3>2
    <2>6. CASE stack # << >> /\ stack[Len(stack)].marked
      <3>0. envelopes' = envelopes \cup {Envelope(Top)}
        <4>1. IsEnvelope(Top)
          BY <2>6 DEF IsEnvelope, Top
        <4> QED
          BY <2>6, <4>1 DEF WalkClose
      <3>1. new = {<<p, i + 1>>}
        <4> HIDE DEF p
        <4> QED
          BY <2>6
      <3>2. Spans(new) = {[kind |-> Gcp, start |-> p - 1, end |-> i + 1]}
        <4>1. ASSUME NEW ab, ab = <<p, i + 1>>
              PROVE  Spans({ab}) = {[kind |-> Gcp, start |-> p - 1, end |-> i + 1]}
          <5>1. ab[1] = p /\ ab[2] = i + 1
            BY <4>1
          <5>2. Spans({ab}) = {[kind |-> Gcp, start |-> ab[1] - 1, end |-> ab[2]]}
            BY DEF Spans
          <5> QED
            BY <5>1, <5>2
        <4> HIDE DEF p, new
        <4> QED
          BY <3>1, <4>1
      <3>3. Envelope(Top) = [kind |-> Gcp, start |-> p - 1, end |-> i + 1]
        <4>1. Len(stack) \in 1 .. Len(stack)
          BY <2>6, EmptySeq, WalkFacts
        <4>2. stack[Len(stack)].open \in Nat
          BY <4>1, WalkerFacts
        <4>3. p - 1 = stack[Len(stack)].open
          BY <4>2 DEF At
        <4> QED
          BY <4>3 DEF Envelope, Top
      <3> QED
        BY <2>2, <2>3, <3>0, <3>2, <3>3
    <2> QED
      BY <2>4, <2>5, <2>6
  <1>8. Len(stack') <= MaxBraceDepth
    <2>1. Len(stack') \in Nat
      BY <1>5
    <2> QED
      BY <1>5, <2>1, WalkFacts
  <1> QED
    BY <1>1, <1>3, <1>6, <1>7, <1>8, WalkInvNext

\* While the walker's kind is ahead, it has not been passed.
LEMMA NotPassedYet ==
  ASSUME kindsDone \in Nat, Len(ALL) \in Nat, kindsDone < Len(ALL), NextKind = Gcp
  PROVE  ~ Passed
  <1>1. SUFFICES ASSUME NEW k \in 1 .. kindsDone, ALL[k] = Gcp PROVE FALSE
    BY DEF Passed
  <1>2. k \in 1 .. Len(ALL) /\ kindsDone + 1 \in 1 .. Len(ALL) /\ k # kindsDone + 1
    BY <1>1
  <1> QED
    BY <1>1, <1>2, KindAssumption DEF NextKind

\* What kinds are collected after one more.
LEMMA OneKindMore ==
  ASSUME kindsDone \in Nat, kindsDone' = kindsDone + 1
  PROVE  /\ \A k \in 1 .. kindsDone' : k \in 1 .. kindsDone \/ ALL[k] = NextKind
         /\ NextKind = Gcp => Passed'
         /\ NextKind # Gcp => (Passed' <=> Passed)
  <1>1. \A k : k \in 1 .. kindsDone' <=> k \in 1 .. kindsDone \/ k = kindsDone + 1
    OBVIOUS
  <1>2. Passed' <=> \E k \in 1 .. kindsDone' : ALL[k] = Gcp
    BY DEF Passed
  <1> QED
    BY <1>1, <1>2 DEF Passed, NextKind

LEMMA CollectedWalkEnd == ASSUME IInv, AllCollected, WalkEnd PROVE AllCollected'
  <1>1. /\ pc = "walking" /\ findings' = findings \cup envelopes /\ kindsDone' = kindsDone + 1
        /\ pc' = "collecting" /\ input' = input /\ out' = out
        /\ i = Len(input.text) \/ TooDeep
    BY DEF WalkEnd
  <1>2. WalkInv /\ FoundGcp = {} /\ NextKind = Gcp /\ input.keyword
    BY <1>1, WalkFacts DEF AllCollected
  <1>3. Walked(input.text) = i
    <2>1. ASSUME i < Len(input.text)
          PROVE  Brace(input.text, "open", i + 1) /\ Len(stack) >= MaxBraceDepth
      <3>1. TooDeep
        BY <1>1, <2>1, WalkFacts
      <3>2. Walking /\ ~ in_string /\ Here = "open" /\ Len(stack) >= MaxBraceDepth
        BY <3>1 DEF TooDeep
      <3> QED
        BY <3>2, OutsideRead
    <2> QED
      BY <1>2, <2>1, WalkFacts, WalkedIs DEF WalkInv
  <1>4. envelopes = Spans(Enclosing(input.text, Walked(input.text)))
    BY <1>2, <1>3 DEF WalkInv
  <1>5. \A f \in envelopes : f.kind = Gcp
    BY <1>4 DEF Spans
  <1>6. FoundGcp' = envelopes
    BY <1>1, <1>2, <1>5 DEF FoundGcp
  <1>7. Passed' /\ \A k \in 1 .. kindsDone' : k \in 1 .. kindsDone \/ ALL[k] = Gcp
    BY <1>1, <1>2, WalkFacts, OneKindMore
  <1>8. Taken' = {}
    BY <1>1 DEF Taken
  <1> QED
    BY <1>1, <1>2, <1>4, <1>6, <1>7, <1>8 DEF AllCollected, PassesGate

LEMMA CollectedWalkStart == ASSUME IInv, AllCollected, WalkStart PROVE AllCollected'
  <1>1. /\ pc = "collecting" /\ kindsDone < Len(ALL) /\ NextKind = Gcp
        /\ UNCHANGED <<input, walker, findings, rest, out>>
    BY DEF WalkStart
  <1>2. ~ Passed /\ WalkInv /\ FoundGcp = {} /\ input.keyword
    BY <1>1, WalkFacts, NotPassedYet DEF AllCollected
  <1>3. FoundGcp' = {} /\ WalkInv'
    BY <1>1, <1>2 DEF FoundGcp, WalkInv, walker
  <1>4. CASE \E j \in 1 .. Len(input.text) : input.text[j] = "marker"
    <2>1. pc' = "walking" /\ kindsDone' = kindsDone
      BY <1>4 DEF WalkStart
    <2>2. (Passed' <=> Passed) /\ NextKind' = NextKind /\ Taken' = {}
      BY <2>1 DEF Passed, NextKind, Taken
    <2> QED
      BY <1>1, <1>2, <1>3, <2>1, <2>2 DEF AllCollected, PassesGate
  <1>5. CASE ~ \E j \in 1 .. Len(input.text) : input.text[j] = "marker"
    <2>1. pc' = "collecting" /\ kindsDone' = kindsDone + 1
      BY <1>1, <1>5 DEF WalkStart
    <2>2. Passed' /\ \A k \in 1 .. kindsDone' : k \in 1 .. kindsDone \/ ALL[k] = Gcp
      BY <1>1, <2>1, WalkFacts, OneKindMore
    <2>3. Enclosing(input.text, Walked(input.text)) = {}
      BY <1>5, WalkFacts, NestStart, NoMarkerNoEnclosing
    <2>4. Spans(Enclosing(input.text, Walked(input.text))) = {}
      BY <2>3 DEF Spans
    <2>5. Taken' = {}
      BY <2>1 DEF Taken
    <2> QED
      BY <1>1, <1>2, <1>3, <2>1, <2>2, <2>4, <2>5 DEF AllCollected, PassesGate
  <1> QED
    BY <1>4, <1>5

LEMMA CollectedMatches == ASSUME IInv, AllCollected, CollectMatches PROVE AllCollected'
  <1> DEFINE new == {[kind |-> NextKind, start |-> m.start, end |-> m.end] :
                       m \in {m \in input.matches[NextKind] : PassesGate(NextKind, m)}}
  <1>1. /\ pc = "collecting" /\ NextKind # Gcp /\ kindsDone' = kindsDone + 1
        /\ findings' = findings \cup new
        /\ UNCHANGED <<input, pc, walker, rest, out>>
    BY DEF CollectMatches
  <1>2. (Passed' <=> Passed) /\ \A k \in 1 .. kindsDone' : k \in 1 .. kindsDone \/ ALL[k] = NextKind
    BY <1>1, WalkFacts, OneKindMore
  <1>3. \A f \in new : f.kind # Gcp
    BY <1>1
  <1>4. \A m \in input.matches[NextKind] : PassesGate(NextKind, m) =>
          [kind |-> NextKind, start |-> m.start, end |-> m.end] \in new
    OBVIOUS
  <1> HIDE DEF new
  <1>5. FoundGcp' = FoundGcp
    BY <1>1, <1>3 DEF FoundGcp
  <1>6. WalkInv' <=> WalkInv
    BY <1>1 DEF WalkInv, walker
  <1>7. ASSUME NEW k \in 1 .. kindsDone', ALL[k] # Gcp,
               NEW m \in input.matches[ALL[k]], PassesGate(ALL[k], m)
        PROVE  [kind |-> ALL[k], start |-> m.start, end |-> m.end] \in findings'
    BY <1>1, <1>2, <1>4, <1>7 DEF AllCollected
  <1>8. Taken' = {}
    BY <1>1 DEF Taken
  <1>9. input.keyword
    BY <1>1 DEF AllCollected
  <1> QED
    BY <1>1, <1>2, <1>5, <1>6, <1>7, <1>8, <1>9 DEF AllCollected, PassesGate

\* A step after which nothing is collected that was not before.
LEMMA CollectedUntouched ==
  ASSUME AllCollected, UNCHANGED <<input, kindsDone, walker, findings>>,
         pc' # "walking",
         pc' \in {"collecting", "resolving"} => input.keyword,
         pc' \in {"resolving", "done"} => kindsDone = Len(ALL) \/ ~ input.keyword,
         Taken' # {} => out' # << >>
  PROVE  AllCollected'
  <1>1. FoundGcp' = FoundGcp /\ (Passed' <=> Passed) /\ (WalkInv' <=> WalkInv)
    BY DEF FoundGcp, Passed, WalkInv, walker
  <1> QED
    BY <1>1 DEF AllCollected, PassesGate

LEMMA CollectedResolve == ASSUME IInv, AllCollected, Resolve PROVE AllCollected'
  <1>1. PICK f \in rest :
          /\ \A g \in rest \ {f} : Before(f, g)
          /\ rest' = rest \ {f}
          /\ out' = IF out = << >> \/ f.start >= LastEntry.end THEN Append(out, f) ELSE Overlapping(f)
    BY DEF Resolve
  <1>2. out \in Seq(findings) /\ f \in findings
    BY DEF IInv, TypeOK, CandidatesOK
  <1>3. \A s \in Seq(findings) : Append(s, f) # << >>
    BY <1>2, AppendProperties, EmptySeq
  <1>4. CASE out = << >> \/ f.start >= LastEntry.end
    <2>1. out' # << >>
      BY <1>1, <1>2, <1>3, <1>4
    <2> QED
      BY <2>1, CollectedUntouched DEF Resolve, AllCollected
  <1>5. CASE out # << >> /\ ~ f.start >= LastEntry.end
    <2>1. SubSeq(out, 1, Len(out) - 1) \in Seq(findings)
      BY <1>2, <1>5, ButLast
    <2>2. out' # << >>
      BY <1>1, <1>3, <1>5, <2>1 DEF Overlapping
    <2> QED
      BY <2>2, CollectedUntouched DEF Resolve, AllCollected
  <1> QED
    BY <1>4, <1>5

LEMMA CollectedStutter == ASSUME AllCollected, UNCHANGED vars PROVE AllCollected'
  <1>1. UNCHANGED <<input, pc, kindsDone, walker, findings, rest, out>>
    BY DEF vars
  <1>2. FoundGcp' = FoundGcp /\ (Passed' <=> Passed) /\ (WalkInv' <=> WalkInv)
        /\ Taken' = Taken /\ NextKind' = NextKind
    BY <1>1 DEF FoundGcp, Passed, WalkInv, walker, Taken, NextKind
  <1> QED
    BY <1>1, <1>2 DEF AllCollected, PassesGate

LEMMA CollectedNext ==
  ASSUME IInv, IInv', AllCollected, [Next]_vars
  PROVE  AllCollected'
  <1>1. CASE Prefilter
    <2>1. pc' \in {"collecting", "done"} /\ (pc' = "collecting" <=> input.keyword)
          /\ UNCHANGED <<input, kindsDone, walker, findings, rest, out>> /\ pc = "prefilter"
      BY <1>1 DEF Prefilter
    <2>2. Taken' = {}
      BY <2>1 DEF IInv, InOrder, Taken
    <2> QED
      BY <2>1, <2>2, CollectedUntouched
  <1>2. CASE StartResolving
    <2>1. pc = "collecting" /\ pc' = "resolving" /\ kindsDone = Len(ALL) /\ rest' = findings
          /\ UNCHANGED <<input, kindsDone, walker, findings, out>>
      BY <1>2 DEF StartResolving
    <2>2. Taken' = {} /\ input.keyword
      BY <2>1 DEF Taken, AllCollected
    <2> QED
      BY <2>1, <2>2, CollectedUntouched
  <1>3. CASE ResolveEnd
    <2>1. pc = "resolving" /\ pc' = "done"
          /\ UNCHANGED <<input, kindsDone, walker, findings, rest, out>>
      BY <1>3 DEF ResolveEnd
    <2>2. Taken' = Taken
      BY <2>1 DEF Taken
    <2> QED
      BY <2>1, <2>2, CollectedUntouched DEF AllCollected
  <1> QED
    BY <1>1, <1>2, <1>3, CollectedWalkEnd, CollectedWalkStart, CollectedMatches,
       CollectedResolve, CollectedStutter, CollectedInString, CollectedMarker, CollectedOpen,
       CollectedClose, CollectedOther
    DEF Next

THEOREM CollectedInvariance == Spec => []AllCollected
  <1>1. Init => AllCollected
    BY InitIInv, InitCollected
  <1>2. IInv /\ IInv' /\ AllCollected /\ [Next]_vars => AllCollected'
    BY CollectedNext
  <1> QED
    BY <1>1, <1>2, Invariance, PTL DEF Spec

\* The candidates of the brace walker are the envelopes of the reference:
\* balanced, strings apart, with a marker directly inside, up to where the
\* text nests too deep.
THEOREM EnvelopesAlwaysMatch == Spec => []EnvelopesMatchReference
  <1>1. IInv /\ AllCollected => EnvelopesMatchReference
    <2>1. SUFFICES ASSUME IInv, AllCollected, pc = "resolving"
                   PROVE  FoundGcp = Spans(Enclosing(input.text, Walked(input.text)))
      BY DEF EnvelopesMatchReference, FoundGcp, Spans
    <2>2. kindsDone = Len(ALL)
      BY <2>1 DEF AllCollected
    <2>3. Passed
      BY <2>2, KindAssumption DEF Passed, Kind
    <2> QED
      BY <2>1, <2>3 DEF AllCollected
  <1> QED
    BY <1>1, Invariance, CollectedInvariance, PTL

-----------------------------------------------------------------------------
(***************************************************************************)
(* The command around the detector.                                        *)
(***************************************************************************)

\* The steps of the command are steps of the detector, or leave it alone: what
\* is proved of every call of `scan` holds in the command.
THEOREM ScanRefinesDetector == ScanSpec => Spec
  <1>1. ScanInit => Init
    BY DEF ScanInit
  <1>2. [ScanNext]_<<vars, scanVars>> => [Next]_vars
    BY DEF ScanNext, ReadScanInput, Scanning, StartReport, ReportFinding, ExitWithVerdict
  <1> QED
    BY <1>1, <1>2, PTL DEF ScanSpec, Spec

LEMMA TableIsPM ==
  /\ PM!EmptyMap = Table!EmptyMap
  /\ \A m, k, t : /\ PM!PlaceholderFor(m, k, t) = Table!PlaceholderFor(m, k, t)
                  /\ PM!AfterPlaceholderFor(m, k, t) = Table!AfterPlaceholderFor(m, k, t)
  BY DEF PM!EmptyMap, Table!EmptyMap, PM!PlaceholderFor, Table!PlaceholderFor,
         PM!AfterPlaceholderFor, Table!AfterPlaceholderFor, PM!Knows, Table!Knows,
         PM!Fresh, Table!Fresh, PM!Render, Table!Render, PM!Insert, Table!Insert

Line == [kind : Kind, at : {LineCol(n) : n \in Nat}, len : Nat, placeholder : Table!Placeholder]

SecretOf(f) == <<f.kind, TextOf(f)>>

\* A line of the report says where its finding is, and carries the
\* placeholder that the table holds for it.
LineOK(j) ==
  /\ lines[j].at = LineCol(out[j].start) /\ lines[j].len = Length(out[j])
  /\ SecretOf(out[j]) \in DOMAIN map.forward
  /\ lines[j].placeholder = map.forward[SecretOf(out[j])]

\* The invariant of the command.
ReportInv ==
  /\ Table!IsMap(map) /\ Table!Consistent(map)
  /\ lines \in Seq(Line) /\ Len(lines) <= Len(out)
  /\ \A j \in 1 .. Len(lines) : LineOK(j)
  /\ stage \in {"reading", "scanning"} => lines = << >>
  /\ stage = "reporting" => pc = "done"
  /\ stage = "exited" /\ exit = 0 => pc = "done" /\ out = << >>

LEMMA InitReport == ASSUME ScanInit, IInv PROVE ReportInv
  <1>1. lines = << >> /\ Len(lines) = 0 /\ lines \in Seq(Line) /\ stage = "reading"
    BY EmptySeq DEF ScanInit
  <1>2. Table!IsMap(map) /\ Table!Consistent(map)
    BY Table!EmptyMapOK, TableAssumption, TableIsPM DEF ScanInit
  <1>3. Len(out) \in Nat
    BY DEF IInv, TypeOK, CandidatesOK
  <1> QED
    BY <1>1, <1>2, <1>3 DEF ReportInv

\* The text of a finding.
LEMMA TextOfFinding ==
  ASSUME IInv, NEW j \in 1 .. Len(out)
  PROVE  /\ TextOf(out[j]) \in Seq(Token) /\ Len(TextOf(out[j])) = Length(out[j])
         /\ Length(out[j]) \in Nat /\ out[j].kind \in Kind /\ out[j].start \in 0 .. Len(input.text)
  <1>1. input.text \in Seq(Token) /\ out \in Seq(findings)
    BY DEF IInv, TypeOK, IsInput, CandidatesOK
  <1>2. out[j] \in findings
    BY <1>1
  <1>3. out[j] \in Finding /\ InText(out[j])
    BY <1>2 DEF IInv, TypeOK, CandidatesOK
  <1>4. ASSUME NEW a, a = out[j].start, NEW b, b = out[j].end, NEW text, text = input.text
        PROVE  /\ SubSeq(text, a + 1, b) \in Seq(Token) /\ Len(SubSeq(text, a + 1, b)) = b - a
               /\ b - a \in Nat /\ a \in 0 .. Len(text)
    <2>1. a \in Nat /\ b \in Nat /\ a < b /\ b <= Len(text) /\ text \in Seq(Token)
      BY <1>1, <1>3, <1>4 DEF Finding, InText
    <2>2. \A k \in a + 1 .. b : text[k] \in Token
      BY <2>1
    <2> QED
      BY <2>1, <2>2, SubSeqProperties
  <1> QED
    BY <1>3, <1>4 DEF TextOf, Length, Finding

LEMMA ReportUntouched ==
  ASSUME ReportInv, UNCHANGED <<input, out, map, lines>>,
         stage' \in {"reading", "scanning"} => lines = << >>,
         stage' = "reporting" => pc' = "done",
         stage' = "exited" /\ exit' = 0 => pc' = "done" /\ out = << >>
  PROVE  ReportInv'
  <1>1. \A n : LineCol(n)' = LineCol(n)
    BY DEF LineCol, Newlines
  <1>2. Line' = Line
    BY <1>1 DEF Line
  <1>3. \A j : SecretOf(out[j])' = SecretOf(out[j]) /\ Length(out[j])' = Length(out[j])
               /\ LineCol(out[j].start)' = LineCol(out[j].start)
    BY DEF SecretOf, TextOf, Length, LineCol, Newlines
  <1>4. \A j : LineOK(j)' <=> LineOK(j)
    BY <1>3 DEF LineOK
  <1> QED
    BY <1>2, <1>4 DEF ReportInv

LEMMA ReportStep == ASSUME IInv, ReportInv, ReportFinding PROVE ReportInv'
  <1> DEFINE j == Len(lines) + 1
             f == out[j]
             line == [kind |-> f.kind, at |-> LineCol(f.start), len |-> Len(TextOf(f)),
                      placeholder |-> PM!PlaceholderFor(map, f.kind, TextOf(f))]
  <1>1. /\ stage = "reporting" /\ Len(lines) < Len(out)
        /\ lines' = Append(lines, line)
        /\ map' = PM!AfterPlaceholderFor(map, f.kind, TextOf(f))
        /\ UNCHANGED <<vars, stage, exit>>
    BY DEF ReportFinding
  <1>2. Len(lines) \in Nat /\ lines \in Seq(Line) /\ Len(out) \in Nat
    BY DEF ReportInv, IInv, TypeOK, CandidatesOK
  <1>3. j \in 1 .. Len(out)
    BY <1>1, <1>2
  <1>4. /\ TextOf(f) \in Seq(Token) /\ Len(TextOf(f)) = Length(f) /\ Length(f) \in Nat
        /\ f.kind \in Kind /\ f.start \in Nat
    <2>1. Len(input.text) \in Nat
      BY DEF IInv, TypeOK, IsInput
    <2> QED
      BY <1>3, <2>1, TextOfFinding
  <1> HIDE DEF j, f
  <1>5. /\ Table!IsMap(map') /\ Table!Consistent(map')
        /\ DOMAIN map'.forward = DOMAIN map.forward \cup {SecretOf(f)}
        /\ map'.forward[SecretOf(f)] = line.placeholder
        /\ \A s \in DOMAIN map.forward : map'.forward[s] = map.forward[s]
        /\ line.placeholder \in Table!Placeholder
    <2>1. map' = Table!AfterPlaceholderFor(map, f.kind, TextOf(f))
      BY <1>1, TableIsPM
    <2>2. line.placeholder = Table!PlaceholderFor(map, f.kind, TextOf(f))
      BY TableIsPM
    <2>3. Table!IsMap(map) /\ Table!Consistent(map)
      BY DEF ReportInv
    <2>4. Table!IsMap(map') /\ Table!Consistent(map')
      BY <1>4, <2>1, <2>3, Table!AfterPlaceholderForIsMap, Table!AfterPlaceholderForConsistent,
         TableAssumption
    <2>5. line.placeholder \in Table!Placeholder
      BY <1>4, <2>2, <2>3, Table!PlaceholderForReturns, TableAssumption
    <2>6. /\ DOMAIN map'.forward = DOMAIN map.forward \cup {SecretOf(f)}
          /\ map'.forward[SecretOf(f)] = line.placeholder
          /\ \A s \in DOMAIN map.forward : map'.forward[s] = map.forward[s]
      BY <2>1, <2>2, Table!AfterPlaceholderForForward, TableAssumption DEF SecretOf
    <2> QED
      BY <2>4, <2>5, <2>6
  <1>6. line \in Line
    BY <1>4, <1>5 DEF Line
  <1>7. line.at = LineCol(f.start) /\ line.len = Length(f)
    BY <1>4
  <1> HIDE DEF line
  <1>8. /\ lines' \in Seq(Line) /\ Len(lines') = j /\ lines'[j] = line
        /\ \A k \in 1 .. Len(lines) : lines'[k] = lines[k]
    BY <1>1, <1>2, <1>6, AppendProperties DEF j
  <1>9. /\ out' = out /\ input' = input /\ pc' = pc
        /\ \A n : LineCol(n)' = LineCol(n) /\ SecretOf(n)' = SecretOf(n)
    BY <1>1 DEF vars, LineCol, Newlines, SecretOf, TextOf
  <1>10. ASSUME NEW k \in 1 .. Len(lines')
         PROVE  LineOK(k)'
    <2>1. CASE k = j
      BY <1>5, <1>7, <1>8, <1>9, <2>1 DEF LineOK, f, Length
    <2>2. CASE k # j
      <3>1. k \in 1 .. Len(lines)
        BY <1>2, <1>8, <2>2 DEF j
      <3>2. LineOK(k)
        BY <3>1 DEF ReportInv
      <3> QED
        BY <1>5, <1>8, <1>9, <3>1, <3>2 DEF LineOK, Length
    <2> QED
      BY <2>1, <2>2
  <1>11. Len(lines') <= Len(out')
    BY <1>3, <1>8, <1>9
  <1>12. Line' = Line
    BY <1>9 DEF Line
  <1> QED
    BY <1>1, <1>5, <1>8, <1>9, <1>10, <1>11, <1>12 DEF ReportInv

LEMMA ReportNext ==
  ASSUME IInv, IInv', ReportInv, [ScanNext]_<<vars, scanVars>>
  PROVE  ReportInv'
  <1>1. CASE ReadScanInput
    BY <1>1, ReportUntouched DEF ReadScanInput, vars, ReportInv
  <1>2. CASE Scanning
    <2>1. stage = "scanning" /\ UNCHANGED scanVars
      BY <1>2 DEF Scanning
    <2>2. stage' = stage /\ map' = map /\ lines' = lines /\ exit' = exit /\ lines = << >>
      BY <2>1 DEF scanVars, ReportInv
    <2>3. Len(lines') = 0 /\ lines' \in Seq(Line') /\ Len(out') \in Nat
      BY <2>2, EmptySeq DEF IInv, TypeOK, CandidatesOK
    <2>4. Table!IsMap(map') /\ Table!Consistent(map')
      BY <2>2 DEF ReportInv
    <2> QED
      BY <2>1, <2>2, <2>3, <2>4 DEF ReportInv
  <1>3. CASE StartReport
    BY <1>3, ReportUntouched DEF StartReport, vars, ReportInv
  <1>4. CASE ReportFinding
    BY <1>4, ReportStep
  <1>5. CASE ExitWithVerdict
    <2>1. /\ stage = "reporting" /\ Len(lines) = Len(out) /\ stage' = "exited"
          /\ exit' = IF lines # << >> THEN EXIT_SECRETS_FOUND ELSE 0
          /\ UNCHANGED <<vars, map, lines>>
      BY <1>5 DEF ExitWithVerdict
    <2>2. out \in Seq(findings) /\ pc = "done"
      BY <2>1 DEF ReportInv, IInv, TypeOK, CandidatesOK
    <2>3. exit' = 0 => out = << >>
      <3>1. exit' = 0 => lines = << >>
        BY <2>1 DEF EXIT_SECRETS_FOUND
      <3>2. lines = << >> => Len(out) = 0
        BY <2>1, EmptySeq
      <3> QED
        BY <2>2, <3>1, <3>2, EmptySeq
    <2> QED
      BY <2>1, <2>2, <2>3, ReportUntouched DEF vars
  <1>6. CASE UNCHANGED <<vars, scanVars>>
    BY <1>6, ReportUntouched DEF vars, scanVars, ReportInv
  <1> QED
    BY <1>1, <1>2, <1>3, <1>4, <1>5, <1>6 DEF ScanNext

LEMMA ReportInvariance == ScanSpec => []ReportInv
  <1>1. ScanInit => ReportInv
    BY InitReport, InitIInv DEF ScanInit
  <1>2. IInv /\ IInv' /\ ReportInv /\ [ScanNext]_<<vars, scanVars>> => ReportInv'
    BY ReportNext
  <1> QED
    BY <1>1, <1>2, ScanRefinesDetector, Invariance, PTL DEF ScanSpec

-----------------------------------------------------------------------------
\* Counting lines and columns.
LEMMA NewlinesFinite ==
  ASSUME NEW n \in Nat
  PROVE  Newlines(n) \subseteq 1 .. n /\ IsFiniteSet(Newlines(n)) /\ Cardinality(Newlines(n)) \in Nat
  <1>1. Newlines(n) \subseteq 1 .. n
    BY DEF Newlines
  <1>2. IsFiniteSet(1 .. n)
    BY FS_Interval
  <1> QED
    BY <1>1, <1>2, FS_Subset, FS_CardinalityType

\* There are more newlines up to a newline than up to anything before it.
LEMMA NewlinesGrow ==
  ASSUME NEW a \in Nat, NEW b \in Nat, a < b, b \in Newlines(b)
  PROVE  Cardinality(Newlines(a)) < Cardinality(Newlines(b))
  <1>1. Newlines(a) \subseteq Newlines(b) /\ b \notin Newlines(a)
    BY DEF Newlines
  <1>2. /\ Cardinality(Newlines(a)) <= Cardinality(Newlines(b))
        /\ Cardinality(Newlines(b)) = Cardinality(Newlines(a)) => Newlines(b) = Newlines(a)
    BY <1>1, NewlinesFinite, FS_Subset
  <1> QED
    BY <1>1, <1>2, NewlinesFinite

LEMMA LastNewline ==
  ASSUME NEW n \in Nat, NEW last, last = Max(Newlines(n) \cup {0})
  PROVE  /\ last \in Newlines(n) \cup {0} /\ last \in 0 .. n
         /\ Newlines(last) = Newlines(n)
  <1> DEFINE S == Newlines(n) \cup {0}
  <1>1. S \subseteq 0 .. n /\ S # {}
    BY NewlinesFinite
  <1>2. \E x \in S : \A y \in S : y <= x
    BY <1>1, Table!GreatestMember, TableAssumption
  <1>3. \A x \in S, y \in S : x >= y <=> y <= x
    BY <1>1
  <1>4. last = CHOOSE x \in S : \A y \in S : x >= y
    BY DEF Max
  <1> HIDE DEF S
  <1>5. last \in S /\ \A y \in S : last >= y
    BY <1>2, <1>3, <1>4
  <1>6. last \in 0 .. n /\ last \in Newlines(n) \cup {0} /\ \A y \in Newlines(n) : y <= last
    BY <1>1, <1>3, <1>5 DEF S
  <1>7. Newlines(last) = Newlines(n)
    BY <1>6 DEF Newlines
  <1> QED
    BY <1>6, <1>7

\* The position a line and column name is the one they were computed from.
LEMMA OffsetUndoesLineCol ==
  ASSUME NEW n \in 0 .. Len(input.text), Len(input.text) \in Nat
  PROVE  Offset(LineCol(n)) = n
  <1> DEFINE at == LineCol(n)
             last == Max(Newlines(n) \cup {0})
             Starts == Newlines(Len(input.text)) \cup {0}
  <1>1. n \in Nat /\ Cardinality(Newlines(n)) \in Nat
    BY NewlinesFinite
  <1>2. /\ last \in Newlines(n) \cup {0} /\ last \in 0 .. n
        /\ Newlines(last) = Newlines(n)
    BY <1>1, LastNewline
  <1>3. at.line = Cardinality(Newlines(n)) + 1 /\ at.col = n - last + 1
    BY DEF LineCol
  <1> HIDE DEF at, last
  <1>4. last \in Starts
    BY <1>1, <1>2 DEF Newlines
  <1>5. Cardinality(Newlines(last)) = at.line - 1 /\ n = last + at.col - 1
    BY <1>1, <1>2, <1>3
  <1>6. \A x \in Starts : x \in Nat /\ (x # 0 => x \in Newlines(x))
    BY DEF Newlines
  <1>7. ASSUME NEW start \in Starts, Cardinality(Newlines(start)) = at.line - 1
        PROVE  start = last
    <2>1. start \in Nat /\ last \in Nat
      BY <1>4, <1>6
    <2>2. ~ start < last
      <3>1. ASSUME start < last PROVE FALSE
        <4>1. last \in Newlines(last)
          BY <1>4, <1>6, <2>1, <3>1
        <4>2. Cardinality(Newlines(start)) < Cardinality(Newlines(last))
          BY <2>1, <3>1, <4>1, NewlinesGrow
        <4>3. Cardinality(Newlines(last)) \in Nat
              /\ Cardinality(Newlines(start)) = Cardinality(Newlines(last))
          BY <2>1, <1>5, <1>7, NewlinesFinite
        <4> QED
          BY <4>2, <4>3
      <3> QED
        BY <3>1
    <2>3. ~ last < start
      <3>1. ASSUME last < start PROVE FALSE
        <4>1. start \in Newlines(start)
          BY <1>6, <2>1, <3>1
        <4>2. Cardinality(Newlines(last)) < Cardinality(Newlines(start))
          BY <2>1, <3>1, <4>1, NewlinesGrow
        <4>3. Cardinality(Newlines(last)) \in Nat
              /\ Cardinality(Newlines(start)) = Cardinality(Newlines(last))
          BY <2>1, <1>5, <1>7, NewlinesFinite
        <4> QED
          BY <4>2, <4>3
      <3> QED
        BY <3>1
    <2> QED
      BY <2>1, <2>2, <2>3
  <1>8. \A x \in 0 .. Len(input.text) :
          (\E start \in Starts : Cardinality(Newlines(start)) = at.line - 1 /\ x = start + at.col - 1)
            <=> x = n
    BY <1>4, <1>5, <1>7
  <1>9. Offset(at) = CHOOSE x \in 0 .. Len(input.text) :
                       \E start \in Starts :
                         Cardinality(Newlines(start)) = at.line - 1 /\ x = start + at.col - 1
    BY DEF Offset
  <1> HIDE DEF Starts
  <1> QED
    BY <1>8, <1>9 DEF at

\* Each line of the report leads to its secret, and two lines carry the same
\* placeholder exactly if the secrets are the same.
THEOREM ReportAlwaysLocates == ScanSpec => []ReportLocates
  <1>1. IInv /\ ReportInv => ReportLocates
    <2>1. SUFFICES ASSUME IInv, ReportInv, NEW j \in 1 .. Len(lines)
                   PROVE  /\ Offset(lines[j].at) = out[j].start /\ lines[j].len = Length(out[j])
                          /\ \A k \in 1 .. Len(lines) :
                               lines[j].placeholder = lines[k].placeholder
                                 <=> out[j].kind = out[k].kind /\ TextOf(out[j]) = TextOf(out[k])
      BY DEF ReportLocates
    <2>2. Len(lines) \in Nat /\ Len(out) \in Nat /\ Len(lines) <= Len(out)
      BY <2>1 DEF ReportInv, IInv, TypeOK, CandidatesOK
    <2>3. j \in 1 .. Len(out) /\ LineOK(j)
      BY <2>1, <2>2 DEF ReportInv
    <2>4. Offset(lines[j].at) = out[j].start
      <3>1. out[j].start \in 0 .. Len(input.text) /\ Len(input.text) \in Nat
        BY <2>1, <2>3, TextOfFinding DEF IInv, TypeOK, IsInput
      <3> QED
        BY <2>3, <3>1, OffsetUndoesLineCol DEF LineOK
    <2>5. ASSUME NEW k \in 1 .. Len(lines)
          PROVE  lines[j].placeholder = lines[k].placeholder
                   <=> out[j].kind = out[k].kind /\ TextOf(out[j]) = TextOf(out[k])
      <3>1. LineOK(k)
        BY <2>1 DEF ReportInv
      <3>2. Table!Injective(map)
        BY <2>1 DEF ReportInv, Table!Consistent
      <3>3. lines[j].placeholder = lines[k].placeholder <=> SecretOf(out[j]) = SecretOf(out[k])
        BY <2>3, <3>1, <3>2 DEF LineOK, Table!Injective
      <3> QED
        BY <3>3 DEF SecretOf
    <2> QED
      BY <2>3, <2>4, <2>5 DEF LineOK
  <1> QED
    BY <1>1, ScanRefinesDetector, Invariance, ReportInvariance, PTL

\* What the keyword filter relies on (rules.rs:129-142): a text without any
\* keyword has no service account, and no match but those of identifiers in
\* an unusual case.
KeywordsCover ==
  \A in \in Input : ~ in.keyword =>
    /\ \A j \in 1 .. Len(in.text) : in.text[j] # "marker"
    /\ \A k \in Kind \ (AnyCase \cup {Gcp}) : \A m \in in.matches[k] : ~ PassesGate(k, m)

LEMMA InputStays == Spec => [](input \in Input)
  <1>1. Init => input \in Input
    BY DEF Init
  <1>2. input \in Input /\ [Next]_vars => (input \in Input)'
    BY DEF Next, vars, Prefilter, CollectMatches, WalkStart, WalkInString, WalkMarker, WalkOpen,
           WalkClose, WalkOther, WalkEnd, StartResolving, Resolve, ResolveEnd
  <1> QED
    BY <1>1, <1>2, PTL DEF Spec

\* A marker directly inside of a pair of braces is enclosed by it.
LEMMA DirectlyInside ==
  ASSUME NEW text \in Seq(Token), NEW n \in Nat, NEW a \in 1 .. n, NEW b \in 1 .. n,
         Partners(text, a, b), NEW m \in a + 1 .. b - 1,
         text[m] = "marker", m \notin Quoted(text), Depth(text, a, m) = 1
  PROVE  <<a, b>> \in Enclosing(text, n)
  <1>1. a < b /\ a \in Nat /\ b \in Nat /\ m \in a .. b /\ m \in Nat
    BY DEF Partners
  <1>2. ASSUME NEW c \in a + 1 .. m, NEW d \in m .. b - 1, Partners(text, c, d)
        PROVE  FALSE
    <2>1. c \in Nat /\ d \in Nat /\ c <= m /\ m <= d /\ a <= c /\ c <= m + 1 /\ c - 1 \in a .. b - 1
      BY <1>1, <1>2
    <2>2. Depth(text, a, m) = Depth(text, a, c - 1) + Depth(text, c, m)
      BY <1>1, <2>1, DepthJoins
    <2>3. Depth(text, a, c - 1) > 0
      BY <2>1 DEF Partners
    <2>4. m # d
      <3>1. Brace(text, "close", d)
        BY <1>2, <2>1, PartnerCloses
      <3> QED
        BY <3>1 DEF Brace
    <2>5. Depth(text, c, m) > 0
      <3>1. m \in c .. d - 1
        BY <1>1, <2>1, <2>4
      <3> QED
        BY <1>2, <3>1 DEF Partners
    <2>6. Depth(text, a, c - 1) \in Int /\ Depth(text, c, m) \in Int
      BY <1>1, <2>1, DepthType
    <2> QED
      BY <2>2, <2>3, <2>5, <2>6
  <1>3. <<a, b>> \in (1 .. n) \X (1 .. n) /\ <<a, b>>[1] = a /\ <<a, b>>[2] = b
    OBVIOUS
  <1> QED
    BY <1>1, <1>2, <1>3 DEF Enclosing

\* If the keywords cover the expressions, exit code 0 says that there is
\* nothing to redact.
THEOREM CleanIsClean == ASSUME KeywordsCover PROVE ScanSpec => []CleanMeansNoMatch
  <1>1. IInv /\ ReportInv /\ AllCollected /\ input \in Input => CleanMeansNoMatch
    <2>1. SUFFICES ASSUME IInv, ReportInv, AllCollected, input \in Input,
                          stage = "exited", exit = 0
                   PROVE  /\ \A k \in Kind \ {Gcp} : \A m \in input.matches[k] :
                               PassesGate(k, m) => k \in AnyCase /\ ~ input.keyword
                          /\ \A a, b \in 1 .. Walked(input.text) :
                               Partners(input.text, a, b) =>
                                 \A m \in a + 1 .. b - 1 :
                                   input.text[m] = "marker" /\ m \notin Quoted(input.text) =>
                                     Depth(input.text, a, m) # 1
      BY DEF CleanMeansNoMatch
    <2>2. pc = "done" /\ out = << >> /\ rest = {}
      BY <2>1 DEF ReportInv, IInv, InOrder
    <2>3. findings = {}
      <3>1. Taken = findings
        BY <2>2 DEF Taken
      <3> QED
        BY <2>1, <2>2, <3>1 DEF AllCollected
    <2>4. /\ input.text \in Seq(Token) /\ Walked(input.text) \in 0 .. Len(input.text)
          /\ Len(input.text) \in Nat
      BY <2>1, NestStart DEF IInv, TypeOK, IsInput
    <2>5. CASE input.keyword
      <3>1. kindsDone = Len(ALL)
        BY <2>1, <2>2, <2>5 DEF AllCollected
      <3>2. ASSUME NEW k \in Kind \ {Gcp}, NEW m \in input.matches[k], PassesGate(k, m) PROVE FALSE
        <4>1. PICK n \in 1 .. Len(ALL) : ALL[n] = k
          BY DEF Kind
        <4>2. [kind |-> ALL[n], start |-> m.start, end |-> m.end] \in findings
          BY <2>1, <3>1, <3>2, <4>1 DEF AllCollected
        <4> QED
          BY <2>3, <4>2
      <3>3. Passed /\ FoundGcp = {}
        BY <2>3, <3>1, KindAssumption DEF Passed, Kind, FoundGcp
      <3>4. Spans(Enclosing(input.text, Walked(input.text))) = {}
        BY <2>1, <3>3 DEF AllCollected
      <3>5. Enclosing(input.text, Walked(input.text)) = {}
        BY <3>4 DEF Spans
      <3>6. Walked(input.text) \in Nat
        BY <2>4
      <3> QED
        BY <2>4, <3>2, <3>5, <3>6, DirectlyInside
    <2>6. CASE ~ input.keyword
      <3>1. /\ \A j \in 1 .. Len(input.text) : input.text[j] # "marker"
            /\ \A k \in Kind \ (AnyCase \cup {Gcp}) : \A m \in input.matches[k] : ~ PassesGate(k, m)
        BY <2>1, <2>6 DEF KeywordsCover
      <3> QED
        BY <2>4, <2>6, <3>1
    <2> QED
      BY <2>5, <2>6
  <1> QED
    BY <1>1, ScanRefinesDetector, Invariance, CollectedInvariance, ReportInvariance,
       InputStays, PTL

=============================================================================
